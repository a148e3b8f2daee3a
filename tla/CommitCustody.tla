---------------------------- MODULE CommitCustody -----------------------------
(***************************************************************************)
(* Who may say that a reviewed change was not submitted: the commit calls  *)
(* of the shared client (client/client.ts), the replay records it keeps,   *)
(* and the two controllers that submit what the user confirmed             *)
(* (state/bridge-facade.ts for saves, state/action-review.ts for actions). *)
(*                                                                         *)
(* A call may be refused before it leaves, wait in the transport until a   *)
(* registration is ready, be handed to the native side and executed there  *)
(* at any later moment, whether anybody still waits for its answer or not. *)
(***************************************************************************)
EXTENDS Naturals, Sequences, FiniteSets

CONSTANTS
  Keys,       \* idempotency keys; nothing here relies on their being unique
  MaxPlans,   \* bound: plans prepared
  MaxCalls,   \* bound: commit calls
  MaxReplays, \* ClientOptions.maximumReplays
  None        \* no record, no operation

ASSUME CustodyAssumption ==
  /\ MaxPlans \in Nat /\ MaxCalls \in Nat /\ MaxReplays \in Nat
  /\ None \notin [plan : Nat, request : Nat, operation : BOOLEAN, latest : Nat,
                  delivery : {"pending", "not_sent", "may_have_reached_backend"}]
  /\ None \notin [plan : Nat, status : {"running", "recovery", "completed"}]

VARIABLES
  prepared,   \* plans handed out: 1..prepared
  calls,      \* every commit call made, in order
  replays,    \* BridgeClient.replays, each with its newest submission
  attempt,    \* the controllers' attempts with their transitions
  recovering, \* ActionReviewController.recoveryAttempts
  operations  \* the host's operations, by idempotency key

vars == <<prepared, calls, replays, attempt, recovering, operations>>

Controllers == {"save", "action"}
CallIds == 1..MaxCalls
Plans == 1..MaxPlans

\* Where the frame of a call is: in the transport, handed to the native side,
\* executed by the host, or certain never to be.
Custodies == {"waiting", "invoked", "executed", "dead"}
Deliveries == {"pending", "not_sent", "may_have_reached_backend"}

Call == [caller : Controllers \cup {"other"}, key : Keys, plan : Plans,
         original : CallIds, custody : Custodies, answered : BOOLEAN,
         outcome : Deliveries \cup {"result"}]
Replay == [plan : Plans, request : CallIds, operation : BOOLEAN,
           latest : CallIds, delivery : Deliveries]
Attempt == [state : {"idle", "review", "admitting", "uncertain", "observing"},
            plan : Plans \cup {0}, key : Keys \cup {None}, owns : BOOLEAN,
            capture : CallIds \cup {0}, unsent : BOOLEAN, prior : BOOLEAN,
            operation : BOOLEAN, call : CallIds \cup {0}, replay : BOOLEAN]
Operation == [plan : Plans, status : {"running", "recovery", "completed"}]

\* The type of every variable.
TypeOK ==
  /\ prepared \in 0..MaxPlans
  /\ calls \in Seq(Call) /\ Len(calls) <= MaxCalls
  /\ replays \in [Keys -> Replay \cup {None}]
  /\ attempt \in [Controllers -> Attempt]
  /\ recovering \subseteq Attempt
  /\ operations \in [Keys -> Operation \cup {None}]

NoAttempt ==
  [state |-> "idle", plan |-> 0, key |-> None, owns |-> FALSE, capture |-> 0,
   unsent |-> FALSE, prior |-> FALSE, operation |-> FALSE, call |-> 0,
   replay |-> FALSE]

Init ==
  /\ prepared = 0
  /\ calls = <<>>
  /\ replays = [k \in Keys |-> None]
  /\ attempt = [c \in Controllers |-> NoAttempt]
  /\ recovering = {}
  /\ operations = [k \in Keys |-> None]

-----------------------------------------------------------------------------
(* The client                                                              *)

\* Seeded defect: the input of a retained key is not compared.
RecordsAny(retained, k, p) ==
  IF retained[k] = None
  THEN Cardinality({x \in Keys : retained[x] # None}) < MaxReplays
  ELSE TRUE

\* A commit that call() does not refuse: a key retained for another input is a
\* replay_conflict, a new key beyond the limit a replay_limit.
Records(retained, k, p) ==
  IF retained[k] = None
  THEN Cardinality({x \in Keys : retained[x] # None}) < MaxReplays
  ELSE retained[k].plan = p

\* call() for a commit: the submission is recorded before the frame leaves; an
\* exact repetition belongs to the record that is there.
Submit(retained, caller, k, p) ==
  LET id == Len(calls) + 1
      original == IF retained[k] = None THEN id ELSE retained[k].request
  IN /\ id <= MaxCalls
     /\ Records(retained, k, p)
     /\ calls' = Append(calls,
          [caller |-> caller, key |-> k, plan |-> p, original |-> original,
           custody |-> "waiting", answered |-> FALSE, outcome |-> "pending"])
     /\ replays' = [retained EXCEPT ![k] =
          IF @ = None
          THEN [plan |-> p, request |-> id, operation |-> FALSE,
                latest |-> id, delivery |-> "pending"]
          ELSE [@ EXCEPT !.latest = id, !.delivery = "pending"]]

\* Seeded defect: the outcome itself is kept instead of what it says of delivery.
SettlementAsOutcome(i, delivery) ==
  LET k == calls[i].key
  IN IF replays[k] # None /\ replays[k].latest = i
     THEN [replays EXCEPT ![k].delivery = IF calls[i].answered THEN "result" ELSE delivery]
     ELSE replays

\* finish() of call i: only the newest submission of a record that is still
\* there speaks for it.
Settlement(i, delivery) ==
  LET k == calls[i].key
  IN IF /\ replays[k] # None /\ replays[k].request = calls[i].original
        /\ replays[k].latest = i
     THEN [replays EXCEPT ![k].delivery = delivery]
     ELSE replays

Waiting(i) == i \in DOMAIN calls /\ calls[i].outcome = "pending"

\* The transport refuses the frame: no registration, a full queue, a barrier
\* that fails, an exchange that is aborted before it is sent.
TransportRefuses(i) ==
  /\ Waiting(i) /\ calls[i].custody = "waiting"
  /\ calls' = [calls EXCEPT ![i].custody = "dead", ![i].outcome = "not_sent"]
  /\ replays' = Settlement(i, "not_sent")
  /\ UNCHANGED <<prepared, attempt, recovering, operations>>

\* The barrier opens; custody begins with the invocation.
Invoke(i) ==
  /\ Waiting(i) /\ calls[i].custody = "waiting"
  /\ calls' = [calls EXCEPT ![i].custody = "invoked"]
  /\ UNCHANGED <<prepared, replays, attempt, recovering, operations>>

\* The native side answers that it did not enqueue the frame.
NativeRefuses(i) ==
  /\ Waiting(i) /\ calls[i].custody = "invoked"
  /\ calls' = [calls EXCEPT ![i].custody = "dead", ![i].outcome = "not_sent"]
  /\ replays' = Settlement(i, "not_sent")
  /\ UNCHANGED <<prepared, attempt, recovering, operations>>

\* Seeded defect: a deadline that passes while the frame is out means not sent.
AbandonUnsent(i) ==
  /\ Waiting(i)
  /\ calls' = [calls EXCEPT ![i].outcome = "not_sent",
       ![i].custody = IF @ = "waiting" THEN "dead" ELSE @]
  /\ replays' = Settlement(i, "not_sent")
  /\ UNCHANGED <<prepared, attempt, recovering, operations>>

\* Timeout, abort, a lost or unreadable answer: what was handed to the transport
\* may have arrived.  A frame that still waits there is withdrawn.  A rejection is
\* the same to everybody here: it does not say that nothing was admitted.
Abandon(i) ==
  /\ Waiting(i)
  /\ calls' = [calls EXCEPT ![i].outcome = "may_have_reached_backend",
       ![i].answered = FALSE, ![i].custody = IF @ = "waiting" THEN "dead" ELSE @]
  /\ replays' = Settlement(i, "may_have_reached_backend")
  /\ UNCHANGED <<prepared, attempt, recovering, operations>>

\* Seeded defect: a record is not compared with the call that is answered.
ReplyToAny(i) ==
  LET k == calls[i].key
      settled == Settlement(i, "may_have_reached_backend")
  IN /\ Waiting(i) /\ calls[i].answered
     /\ calls' = [calls EXCEPT ![i].outcome = "result", ![i].answered = FALSE]
     /\ replays' = IF settled[k] # None
                   THEN [settled EXCEPT ![k].operation = TRUE] ELSE settled
     /\ UNCHANGED <<prepared, attempt, recovering, operations>>

\* The answer arrives in time.  A result tells the record its operation.
ReplyArrives(i) ==
  LET k == calls[i].key
      settled == Settlement(i, "may_have_reached_backend")
  IN /\ Waiting(i) /\ calls[i].answered
     /\ calls' = [calls EXCEPT ![i].outcome = "result", ![i].answered = FALSE]
     /\ replays' = IF /\ settled[k] # None
                      /\ settled[k].request = calls[i].original
                      /\ settled[k].plan = calls[i].plan
                   THEN [settled EXCEPT ![k].operation = TRUE] ELSE settled
     /\ UNCHANGED <<prepared, attempt, recovering, operations>>

\* forgetReplay and forgetUnsentReplay.
Forgotten(k) == [replays EXCEPT ![k] = None]

\* Seeded defect: another caller's submission is not looked at.
OriginalUnsent(k, original) ==
  /\ replays[k] # None /\ replays[k].request = original
  /\ ~replays[k].operation
  /\ calls[original].outcome = "not_sent"

ProvedUnsent(k, original) ==
  /\ replays[k] # None /\ replays[k].request = original
  /\ ~replays[k].operation
  /\ replays[k].latest = original /\ replays[k].delivery = "not_sent"

-----------------------------------------------------------------------------
(* The host, as far as Engine::commit decides what becomes of a frame      *)

Admissible(i) ==
  operations[calls[i].key] = None /\ ~\E k \in Keys :
     operations[k] # None /\ operations[k].plan = calls[i].plan

Admission(i) ==
  [operations EXCEPT ![calls[i].key] = [plan |-> calls[i].plan, status |-> "running"]]

\* A known key with the same input is answered with its operation; a new one is
\* admitted once, unless it is refused.  An admission whose append failed is
\* answered with an error and takes place all the same.
Execute(i) ==
  /\ i \in DOMAIN calls /\ calls[i].custody = "invoked"
  /\ operations' \in {operations} \cup IF Admissible(i) THEN {Admission(i)} ELSE {}
  /\ LET known == operations'[calls[i].key]
     IN \E result \in {FALSE, known # None /\ known.plan = calls[i].plan} :
          calls' = [calls EXCEPT ![i].custody = "executed",
                                 ![i].answered = Waiting(i) /\ result]
  /\ UNCHANGED <<prepared, replays, attempt, recovering>>

\* The operation goes on; recovery ends it, too.
Progress(k) ==
  /\ operations[k] # None /\ operations[k].status # "completed"
  /\ \E status \in {"recovery", "completed"} \ {operations[k].status} :
       operations' = [operations EXCEPT ![k].status = status]
  /\ UNCHANGED <<prepared, calls, replays, attempt, recovering>>

-----------------------------------------------------------------------------
(* The controllers                                                         *)

Idle(c) == attempt[c].state = "idle"

\* A save and an action do not exclude each other once the action is observed.
MayPrepare(c) ==
  /\ Idle(c)
  /\ c = "action" => Idle("save")
  /\ c = "save" => attempt["action"].state \in {"idle", "observing"}

\* prepare, prepareSaveFor: a plan of its own is there to be reviewed.
Prepare(c) ==
  /\ MayPrepare(c) /\ prepared < MaxPlans
  /\ prepared' = prepared + 1
  /\ attempt' = [attempt EXCEPT ![c] =
       [NoAttempt EXCEPT !.state = "review", !.plan = prepared + 1]]
  /\ UNCHANGED <<calls, replays, recovering, operations>>

\* The record that releaseOwnedReplay(attempt, ...) would remove.
Held(a) ==
  /\ a.owns /\ a.capture # 0
  /\ replays[a.key] # None /\ replays[a.key].request = a.capture
  /\ replays[a.key].plan = a.plan

\* An attempt that was told "not submitted" and can no longer prove it.
Unproved(a) == a.unsent /\ Held(a) /\ ~ProvedUnsent(a.key, a.capture)

\* releaseOwnedReplay(attempt, true) where it succeeds.
ReleaseUnsent(a) == IF a.unsent /\ Held(a) THEN Forgotten(a.key) ELSE replays

\* Seeded defect: the record is released although it could not be proved unsent.
FindReleased(c) ==
  /\ attempt[c].state = "review" /\ Unproved(attempt[c])
  /\ attempt' = [attempt EXCEPT ![c].unsent = FALSE, ![c].state = "uncertain"]
  /\ replays' = Forgotten(attempt[c].key)
  /\ UNCHANGED <<prepared, calls, recovering, operations>>

\* confirm, stay: what looked unsent is not given up, the exact submission stays.
FindUnproved(c) ==
  /\ attempt[c].state = "review" /\ Unproved(attempt[c])
  /\ attempt' = [attempt EXCEPT ![c].unsent = FALSE, ![c].state = "uncertain"]
  /\ UNCHANGED <<prepared, calls, replays, recovering, operations>>

\* stay: the review is closed.
Stay(c) ==
  /\ attempt[c].state = "review" /\ ~Unproved(attempt[c])
  /\ replays' = ReleaseUnsent(attempt[c])
  /\ attempt' = [attempt EXCEPT ![c] = NoAttempt]
  /\ UNCHANGED <<prepared, calls, recovering, operations>>

\* confirm, commitSave after the host changed: an action is dropped, a save stays.
ConfirmOutdated(c) ==
  /\ attempt[c].state = "review" /\ ~Unproved(attempt[c])
  /\ replays' = ReleaseUnsent(attempt[c])
  /\ attempt' = [attempt EXCEPT ![c] =
       IF c = "action" THEN NoAttempt
       ELSE [attempt[c] EXCEPT !.owns = attempt[c].owns /\ ~Held(attempt[c])]]
  /\ UNCHANGED <<prepared, calls, recovering, operations>>

\* confirm, commitSave: submit under the key the generator returns.  A call that
\* is refused before it is recorded proves itself unsent, unless somebody else
\* has submitted the very same.
Confirm(c) ==
  /\ attempt[c].state = "review" /\ ~Unproved(attempt[c])
  /\ \E k \in Keys :
       LET a == attempt[c]
           retained == ReleaseUnsent(a)
           same == retained[k] # None /\ retained[k].plan = a.plan
           submitted == [a EXCEPT !.key = k, !.owns = retained[k] = None,
                                  !.capture = 0, !.unsent = FALSE, !.prior = same]
       IN \/ /\ attempt' = [attempt EXCEPT ![c] =
                  [submitted EXCEPT !.state = IF same THEN "uncertain" ELSE "review",
                                    !.unsent = ~same]]
             /\ replays' = retained
             /\ UNCHANGED calls
          \/ /\ Submit(retained, c, k, a.plan)
             /\ attempt' = [attempt EXCEPT ![c] =
                  [submitted EXCEPT !.state = "admitting", !.call = Len(calls'),
                     !.capture = IF retained[k] = None THEN Len(calls') ELSE 0,
                     !.replay = FALSE]]
  /\ UNCHANGED <<prepared, recovering, operations>>

\* replay, replaySave: exactly what was submitted, if it is still retained.
Repeat(c) ==
  LET a == attempt[c]
  IN /\ a.state = "uncertain"
     /\ replays[a.key] # None /\ replays[a.key].plan = a.plan
     /\ Submit(replays, c, a.key, a.plan)
     /\ attempt' = [attempt EXCEPT ![c].state = "admitting",
                      ![c].call = Len(calls'), ![c].replay = TRUE]
     /\ UNCHANGED <<prepared, recovering, operations>>

\* acceptCommit returns to the review.
NotSubmitted(a) ==
  calls[a.call].outcome = "not_sent" /\ ~a.replay /\ ~a.prior

\* acceptCommit.  A result is doubted when the connection changed meanwhile (an
\* action then forgets which operation it was) or the store refuses it.
AcceptCommit(c) ==
  LET a == attempt[c]
  IN /\ a.state = "admitting" /\ calls[a.call].outcome # "pending"
     /\ IF NotSubmitted(a)
        THEN attempt' = [attempt EXCEPT ![c].state = "review", ![c].call = 0,
                                    ![c].unsent = TRUE]
        ELSE IF calls[a.call].outcome = "result"
        THEN \E state \in {"observing", "uncertain"}, known \in {TRUE, a.operation} :
               /\ ~known => c = "action" /\ state = "uncertain"
               /\ attempt' = [attempt EXCEPT ![c].state = state, ![c].operation = known]
        ELSE attempt' = [attempt EXCEPT ![c].state = "uncertain"]
     /\ UNCHANGED <<prepared, calls, replays, recovering, operations>>

\* releaseOwnedReplay(attempt) of what has completed.
Release(a) == IF Held(a) THEN Forgotten(a.key) ELSE replays

Completed(a) == a.operation /\ operations[a.key].status = "completed"

\* reconcileObserved: the attempt's operation is seen to have completed.
ObserveCompleted(c) ==
  /\ Completed(attempt[c])
  /\ replays' = Release(attempt[c])
  /\ attempt' = [attempt EXCEPT ![c] = NoAttempt]
  /\ UNCHANGED <<prepared, calls, recovering, operations>>

\* An action whose operation needs recovery makes room, its record is held on.
ObserveRecovery ==
  LET a == attempt["action"]
  IN /\ a.operation /\ operations[a.key].status = "recovery"
     /\ recovering' = recovering \cup {a}
     /\ attempt' = [attempt EXCEPT !["action"] = NoAttempt]
     /\ UNCHANGED <<prepared, calls, replays, operations>>

ObserveRecovered(a) ==
  /\ Completed(a)
  /\ replays' = Release(a)
  /\ recovering' = recovering \ {a}
  /\ UNCHANGED <<prepared, calls, attempt, operations>>

\* dispose of both controllers; the client outlives them.
Dispose ==
  LET cut == {i \in DOMAIN calls : Waiting(i) /\ calls[i].caller \in Controllers}
      unsent == {attempt[c].key : c \in {x \in Controllers :
                   /\ attempt[x].unsent /\ Held(attempt[x])
                   /\ ProvedUnsent(attempt[x].key, attempt[x].capture)}}
  IN /\ \E c \in Controllers : ~Idle(c)
     /\ calls' = [i \in DOMAIN calls |->
          IF i \in cut
          THEN [calls[i] EXCEPT !.outcome = "may_have_reached_backend",
                  !.answered = FALSE, !.custody = IF @ = "waiting" THEN "dead" ELSE @]
          ELSE calls[i]]
     /\ replays' = [k \in Keys |->
          IF k \in unsent \/ replays[k] = None THEN None
          ELSE IF replays[k].latest \in cut
          THEN [replays[k] EXCEPT !.delivery = "may_have_reached_backend"]
          ELSE replays[k]]
     /\ attempt' = [c \in Controllers |-> NoAttempt]
     /\ recovering' = {}
     /\ UNCHANGED <<prepared, operations>>

\* Another caller of the shared client submits, or repeats what it knows of.
OtherSubmits ==
  /\ \E k \in Keys, p \in 1..prepared : Submit(replays, "other", k, p)
  /\ UNCHANGED <<prepared, attempt, recovering, operations>>

-----------------------------------------------------------------------------
ClientStep ==
  \/ \E i \in DOMAIN calls :
       \/ TransportRefuses(i) \/ Invoke(i) \/ NativeRefuses(i) \/ Abandon(i)
       \/ ReplyArrives(i)
  \/ OtherSubmits

HostStep ==
  \/ \E i \in DOMAIN calls : Execute(i)
  \/ \E k \in Keys : Progress(k)

ControllerStep ==
  \/ \E c \in Controllers :
       \/ Prepare(c) \/ FindUnproved(c) \/ Stay(c) \/ ConfirmOutdated(c)
       \/ Confirm(c) \/ Repeat(c) \/ AcceptCommit(c) \/ ObserveCompleted(c)
  \/ ObserveRecovery
  \/ \E a \in recovering : ObserveRecovered(a)
  \/ Dispose

Next == ClientStep \/ HostStep \/ ControllerStep

Spec == Init /\ [][Next]_vars

-----------------------------------------------------------------------------
(* Properties                                                              *)

\* What the client has forgotten is settled: each of its submissions is certain
\* never to be executed, or its operation has completed.  So no change that may
\* still happen, or may have happened, is without a record by which its outcome
\* can be asked for again (forgetReplay, forgetUnsentReplay in client.ts).
ForgottenIsSettled ==
  \A i \in DOMAIN calls :
    LET k == calls[i].key
    IN \/ replays[k] # None /\ replays[k].request = calls[i].original
       \/ calls[i].custody = "dead"
       \/ /\ operations[k] # None
          /\ operations[k] = [plan |-> calls[i].plan, status |-> "completed"]

\* A repetition is exact: whoever makes it, under whatever key, it asks for the
\* plan its original asked for (the replay_conflict of call in client.ts).
RepetitionIsExact ==
  \A i \in DOMAIN calls :
    LET original == calls[calls[i].original]
    IN original.key = calls[i].key /\ original.plan = calls[i].plan

\* The operation a record names is the operation of what it retains, also when
\* the key was used before (the reply handler of call in client.ts).
RecordedOperationIsOwn ==
  \A k \in Keys :
    (replays[k] # None /\ replays[k].operation) =>
      operations[k] # None /\ operations[k].plan = replays[k].plan

\* "The exact submission is retained": while an attempt is uncertain, and while an
\* action waits for its recovery, its record can be asked for again (acceptCommit,
\* confirm and stay of both controllers).
UncertainIsRetained ==
  \A a \in {attempt[c] : c \in Controllers} \cup recovering :
    (a.state = "uncertain" \/ a \in recovering) =>
      replays[a.key] # None /\ replays[a.key].plan = a.plan

\* A review is closed, or submitted afresh, only when nothing the controller
\* submitted of its plan before has been or will be executed; repetitions of it
\* by others are included (docs/next/FRONTEND_CLIENT.md, BR03-03).
GivenUpWasNeverSent ==
  [][\A c \in Controllers :
       (Stay(c) \/ Confirm(c) \/ ConfirmOutdated(c)) =>
         \A i \in DOMAIN calls :
           (calls[i].plan = attempt[c].plan /\ calls[calls[i].original].caller = c)
             => calls[i].custody = "dead"]_vars
=============================================================================
