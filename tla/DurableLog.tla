----------------------------- MODULE DurableLog -----------------------------
(***************************************************************************)
(* What the engine relies on in a DurableJournal (operations/ports.rs): a  *)
(* log that only grows.  A record that was attempted and not acknowledged  *)
(* stays in doubt, behind everything older, until a later append hardens   *)
(* it or a power loss takes it; a holder whose attempt failed may not try  *)
(* again.  Whoever opens the journal reads the log and all that is in      *)
(* doubt.                                                                  *)
(***************************************************************************)
EXTENDS Naturals, Sequences

CONSTANT Values    \* what a journal record may say

VARIABLES
  log,             \* records no failure may take back
  doubt,           \* records attempted behind them, of unknown persistence
  holder           \* the process that has opened the journal

vars == <<log, doubt, holder>>

TypeOK ==
  /\ log \in Seq(Values)
  /\ doubt \in Seq(Values)
  /\ holder \in {"none", "healthy", "poisoned"}

Init == log = <<>> /\ doubt = <<>> /\ holder = "none"

\* Opening may harden what it finds; it need not.
Open ==
  /\ holder = "none"
  /\ holder' = "healthy"
  /\ \/ UNCHANGED <<log, doubt>>
     \/ log' = log \o doubt /\ doubt' = <<>>

Attempt(r) ==
  /\ holder = "healthy"
  /\ doubt' = Append(doubt, r)
  /\ UNCHANGED <<log, holder>>

\* Everything written so far is durable at once.
Harden ==
  /\ log' = log \o doubt
  /\ doubt' = <<>>
  /\ UNCHANGED holder

Fail ==
  /\ holder = "healthy"
  /\ holder' = "poisoned"
  /\ UNCHANGED <<log, doubt>>

Crash ==
  /\ holder' = "none"
  /\ UNCHANGED <<log, doubt>>

PowerLoss ==
  /\ holder' = "none"
  /\ \E n \in 0 .. Len(doubt) : doubt' = SubSeq(doubt, 1, n)
  /\ UNCHANGED log

Next ==
  \/ Open \/ Harden \/ Fail \/ Crash \/ PowerLoss
  \/ \E r \in Values : Attempt(r)

Spec == Init /\ [][Next]_vars
=============================================================================
