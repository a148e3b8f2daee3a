------------------------- MODULE ModDeploymentProofs -------------------------
(***************************************************************************)
(* Theorems about ModDeployment, for any releases and bounds: a            *)
(* transaction ends with both files and the receipt new or as they were,   *)
(* but for a manifest given back too early; the file that was there before *)
(* is never lost, nor is another program's or one that was adopted; and    *)
(* all that makes a call give up is known.                                 *)
(***************************************************************************)
EXTENDS ModDeployment, SequenceTheorems, TLAPS

-----------------------------------------------------------------------------
(* The order of the steps                                                  *)

\* The steps of a call always come in this order.
Rank(s) ==
  CASE s = Step("download") -> 1
    [] s = <<"stage", "dll">> -> 2
    [] s = <<"stage", "manifest">> -> 3
    [] s = Step("staged") -> 4
    [] s = Step("precondition") -> 5
    [] s = <<"takeAway", "dll">> -> 6
    [] s = <<"takeAway", "manifest">> -> 7
    [] s = <<"install", "dll">> -> 8
    [] s = <<"install", "manifest">> -> 9
    [] s = <<"giveBack", "dll">> -> 10
    [] s = <<"giveBack", "manifest">> -> 11
    [] s = Step("record") -> 12
    [] s = <<"promote", "dll">> -> 13
    [] s = <<"removeSource", "dll">> -> 14
    [] s = <<"promote", "manifest">> -> 15
    [] s = <<"removeSource", "manifest">> -> 16
    [] s = Step("commit") -> 17
    [] s = Step("outcome") -> 18
    [] s = Step("cleanup") -> 19
    [] s = <<"clean", "backup">> -> 20
    [] s = <<"clean", "retained">> -> 21
    [] s = Step("finish") -> 22
    [] s = <<"discard", "dll">> -> 23
    [] s = <<"discard", "manifest">> -> 24
    [] s = Step("fail") -> 25
    [] s = Step("normalize") -> 26
    [] s = Step("plan") -> 27
    [] s = <<"materialize", "dll">> -> 28
    [] s = <<"materialize", "manifest">> -> 29
    [] s = <<"remove", "dll">> -> 30
    [] s = <<"putBack", "dll">> -> 31
    [] s = <<"remove", "manifest">> -> 32
    [] s = <<"putBack", "manifest">> -> 33
    [] s = Step("verify") -> 34
    [] s = <<"sweep", "stage">> -> 35
    [] s = <<"sweep", "promotion">> -> 36
    [] s = <<"sweep", "restore">> -> 37
    [] s = <<"sweep", "durable">> -> 38
    [] s = Step("restoreState") -> 39
    [] s = Step("rolledBack") -> 40
    [] OTHER -> 0

\* The names of the steps, for each kind of call.
ForwardNames ==
  {"download", "stage", "staged", "precondition", "takeAway", "install",
   "giveBack", "record", "promote", "removeSource", "commit", "outcome",
   "cleanup", "clean", "finish"}
DiscardNames == {"discard", "fail"}
StartNames == {"normalize", "plan"}
ReturnNames ==
  {"materialize", "remove", "putBack", "verify", "sweep", "restoreState", "rolledBack"}

AnyStep ==
  (ForwardNames \cup DiscardNames \cup StartNames \cup ReturnNames)
    \X (Members \cup Places \cup {"all"})

\* The steps of a sequence.
Elements(t) == {t[i] : i \in DOMAIN t}

\* What the running call has still to do.
rest == Elements(todo)

\* The sequence t is in order, and it is the end of the one that does all of P.
Follows(t, P) ==
  /\ \A i, k \in DOMAIN t : i < k => Rank(t[i]) < Rank(t[k])
  /\ Elements(t) \subseteq P
  /\ \A x \in Elements(t), s \in P : Rank(x) < Rank(s) => s \in Elements(t)

\* What a deployment or an uninstall does.
ForwardSteps(j) ==
  {Step("precondition"), Step("record"), Step("commit"), Step("cleanup"),
   <<"clean", "backup">>, Step("finish")}
    \cup {<<"takeAway", m>> : m \in Had(j) \cap ShouldMutate(j)}
    \cup (IF j.op = "deploy"
          THEN {Step("download"), Step("staged"), Step("outcome")}
                 \cup {<<"stage", m>> : m \in Installs(j)}
                 \cup {<<"install", m>> : m \in Installs(j)}
                 \cup {<<"promote", m>> : m \in Retains(j)}
                 \cup {<<"removeSource", m>> : m \in Retains(j)}
          ELSE {<<"clean", "retained">>}
                 \cup {<<"giveBack", m>> : m \in Displaces(j)})

\* What a deployment does whose precondition fails.
DiscardSteps(j) == {<<"discard", m>> : m \in Installs(j)} \cup {Step("fail")}

\* How a rollback starts.
StartSteps == {Step("normalize"), Step("plan")}

\* What a rollback does that has the plan p.
ReturnSteps(p) ==
  {Step("verify"), <<"sweep", "stage">>, <<"sweep", "promotion">>,
   <<"sweep", "restore">>, <<"sweep", "durable">>, Step("restoreState"),
   Step("rolledBack")}
    \cup {<<"materialize", m>> : m \in {n \in Members : p[n] = "durable"}}
    \cup {<<"remove", m>> : m \in {n \in Members : p[n] \in {"remove", "backup", "durable"}}}
    \cup {<<"putBack", m>> : m \in {n \in Members : p[n] \in {"backup", "durable"}}}

Forward == Follows(todo, ForwardSteps(journal)) /\ Step("finish") \in rest
Discarding == Follows(todo, DiscardSteps(journal)) /\ Step("fail") \in rest
Starting == Follows(todo, StartSteps) /\ Step("plan") \in rest
Returning == Follows(todo, ReturnSteps(plan)) /\ Step("rolledBack") \in rest

\* A call goes forward, or discards what it staged, or rolls back; once the
\* transaction has ended there is no call.
Script ==
  /\ Idle \/ (~IsTerminal(journal) /\ (Forward \/ Discarding \/ Starting \/ Returning))
  /\ plan = NoPlan \/ Returning

-----------------------------------------------------------------------------
(* The inductive invariant                                                 *)

AnyFile == Files \cup {NoFile, Partial, Unowned}
RealFile == Files \cup {NoFile}
Receipts == [release : Releases \cup {"none"}, adopted : [Members -> RealFile]]
Journals ==
  [op : {"deploy", "uninstall"}, phase : Phases, release : Releases \cup {"none"},
   number : 0 .. MaxTransactions, prior : [Members -> Identities \cup {NoFile}],
   previous : Receipts]
PlanWords == {"skip", "keep", "remove", "backup", "durable"}

Typed ==
  /\ disk \in [Places -> [Members -> AnyFile]]
  /\ \A m \in Members : disk["live"][m] \in RealFile /\ disk["retained"][m] \in RealFile
  /\ installed \in Receipts
  /\ journal \in Journals
  /\ todo \in Seq(AnyStep)
  /\ plan \in [Members -> PlanWords]
  /\ gaveUp \in BOOLEAN
  /\ faults \in 0 .. MaxFaults
  /\ disturbances \in 0 .. MaxDisturbances
  /\ before \in [Members -> RealFile]
  /\ disturbed \subseteq Members

\* The file a deployment puts at its place, and the one it then finds.
New(j) == File(j.release, j.number)

\* The journal says what was there before, and it names a release.
JournalSound ==
  /\ journal.release \in Releases
  /\ journal.op = "deploy" => journal.prior = before
  /\ journal.op = "uninstall" =>
       /\ journal.previous.release = journal.release
       /\ \A m \in Members :
            IF m = "dll" \/ journal.release \in WithManifest
            THEN /\ journal.prior[m] = File(journal.release, AnyMark)
                 /\ before[m].bytes = journal.release
            ELSE journal.prior[m] = NoFile

\* What can be found at the places of a transaction.
StageSound(m) ==
  \/ disk["stage"][m] = NoFile
  \/ /\ m \in Installs(journal)
     /\ disk["stage"][m] \in {Partial, New(journal)}
  \/ /\ m \in Displaces(journal)
     /\ disk["stage"][m] \in {Unowned, Partial, journal.previous.adopted[m]}
     /\ journal.phase # "cleanup"
BackupSound(m) ==
  disk["backup"][m] # NoFile =>
    /\ m \in Had(journal) \cap ShouldMutate(journal)
    /\ disk["backup"][m] \in Files
    /\ Is(disk["backup"][m], journal.prior[m])
    /\ m \notin disturbed => disk["backup"][m] = before[m]
DurableSound(m) ==
  disk["durable"][m] # NoFile =>
    /\ journal.op = "deploy" /\ m \in Retains(journal)
    /\ disk["durable"][m] = before[m]
PromotionSound(m) ==
  disk["promotion"][m] # NoFile =>
    /\ journal.op = "deploy" /\ m \in Retains(journal)
    /\ \/ disk["promotion"][m] = before[m]
       \/ /\ disk["promotion"][m] \in {Unowned, Partial}
          /\ disk["backup"][m] # NoFile
RestoreSound(m) ==
  disk["restore"][m] # NoFile =>
    /\ disk["restore"][m] \in {Unowned, Partial, before[m]}
    /\ disk["durable"][m] # NoFile
RetainedSound(m) ==
  (journal.op = "uninstall" => journal.phase # "cleanup") =>
    disk["retained"][m] = journal.previous.adopted[m]
MemberSound(m) ==
  /\ StageSound(m) /\ BackupSound(m) /\ DurableSound(m)
  /\ PromotionSound(m) /\ RestoreSound(m) /\ RetainedSound(m)
PlacesSound == \A m \in Members : MemberSound(m)

\* Before its files are committed to, a transaction has only staged something.
Untouched ==
  journal.phase \in {"planned", "verified", "staged"} =>
    /\ installed = journal.previous
    /\ \A m \in Members :
         /\ m \notin disturbed => disk["live"][m] = before[m]
         /\ disk["backup"][m] = NoFile /\ disk["promotion"][m] = NoFile
         /\ disk["durable"][m] = NoFile /\ disk["restore"][m] = NoFile
         /\ journal.op = "uninstall" => disk["stage"][m] = NoFile

\* The receipt a transaction writes.
Recorded(j) ==
  IF j.op = "uninstall" THEN NotInstalled
  ELSE [release |-> j.release,
        adopted |-> [m \in Members |->
          IF m \in Retains(j) /\ j.previous.adopted[m] = NoFile
          THEN j.prior[m] ELSE j.previous.adopted[m]]]

\* A live file before and after the transaction puts its own there.
Base(m) == IF m \in Had(journal) \cap ShouldMutate(journal) THEN NoFile ELSE before[m]
Final(m) ==
  IF m \in Installs(journal) THEN New(journal)
  ELSE IF m \in Displaces(journal) THEN journal.previous.adopted[m] ELSE Base(m)

\* A manifest of the player's that is in the way of the adopted one stays.
Left(m) ==
  /\ m = "manifest" /\ m \in Displaces(journal) \ Had(journal)
  /\ before[m] # NoFile /\ disk["live"][m] = before[m]

\* What a committed transaction has done.
Settled ==
  journal.phase = "cleanup" =>
    /\ installed = Recorded(journal)
    /\ \A m \in Members :
         /\ disk["stage"][m] = NoFile /\ disk["promotion"][m] = NoFile
         /\ disk["restore"][m] = NoFile
         /\ journal.op = "deploy" /\ m \in Retains(journal) => disk["durable"][m] # NoFile
         /\ m \notin disturbed => disk["live"][m] = Final(m) \/ Left(m)

\* A live file that no other program changed is what it was, or gone, or what
\* the transaction put there; and what it was is kept while it may be returned.
LiveSound ==
  \A m \in Members \ disturbed :
    /\ \/ disk["live"][m] = before[m]
       \/ m \in Displaces(journal) /\ disk["live"][m] = journal.previous.adopted[m]
       \/ m \in Installs(journal) /\ disk["live"][m] = New(journal)
       \/ m \in Had(journal) \cap ShouldMutate(journal) /\ disk["live"][m] = NoFile
Kept ==
  journal.phase # "cleanup" \/ Step("outcome") \in rest \/ Step("plan") \in rest =>
    \A m \in Members \ disturbed :
      before[m] # NoFile =>
        before[m] \in {disk["live"][m], disk["backup"][m], disk["durable"][m]}

\* The phase a call that goes forward has reached.
PhaseSound ==
  /\ Step("download") \in rest => journal.phase = "planned"
  /\ Step("precondition") \in rest => journal.phase \in {"planned", "verified", "staged"}
  /\ Step("commit") \in rest /\ Step("precondition") \notin rest => journal.phase = "committing"
  /\ Step("commit") \notin rest => journal.phase = "cleanup"

\* What a call that goes forward has done to a live file so far.
LiveNow(m) ==
  IF <<"takeAway", m>> \in rest THEN before[m]
  ELSE IF <<"install", m>> \in rest \/ <<"giveBack", m>> \in rest THEN Base(m)
  ELSE Final(m)
ForwardMember(m) ==
  /\ <<"install", m>> \in rest /\ <<"stage", m>> \notin rest => disk["stage"][m] = New(journal)
  /\ <<"install", m>> \notin rest /\ <<"giveBack", m>> \notin rest => disk["stage"][m] = NoFile
  /\ Step("download") \in rest => disk["stage"][m] = NoFile
  /\ <<"takeAway", m>> \in rest /\ Step("precondition") \notin rest =>
       Is(disk["live"][m], journal.prior[m])
  /\ <<"removeSource", m>> \in rest /\ <<"takeAway", m>> \notin rest =>
       disk["backup"][m] # NoFile
  /\ journal.op = "deploy" /\ m \in Retains(journal) /\ <<"promote", m>> \notin rest =>
       disk["durable"][m] # NoFile
  /\ <<"promote", m>> \notin rest => disk["promotion"][m] = NoFile
  /\ disk["restore"][m] = NoFile
  /\ m \notin disturbed =>
       \/ disk["live"][m] = LiveNow(m)
       \/ Left(m) /\ Step("cleanup") \in rest
ForwardBody ==
  /\ PhaseSound
  /\ installed = (IF Step("record") \in rest THEN journal.previous ELSE Recorded(journal))
  /\ \A m \in Members : ForwardMember(m)
  /\ <<"clean", "backup">> \notin rest => \A m \in Members : disk["backup"][m] = NoFile

\* A call whose precondition failed discards what it staged.
DiscardBody ==
  /\ journal.op = "deploy" /\ journal.phase \in {"planned", "verified", "staged"}
  /\ \A m \in Members : <<"discard", m>> \notin rest => disk["stage"][m] = NoFile

\* Unfinished copies are removed before the rollback is planned.
StartBody ==
  /\ journal.phase = "cleanup" => journal.op = "deploy"
  /\ Step("normalize") \notin rest =>
       \A place \in CopyStages(journal), m \in Members :
         disk[place][m] \notin {Partial, Unowned}

\* What a rollback has found and done.
ReturnMember(m) ==
  /\ plan[m] = "skip" <=> m \notin ShouldMutate(journal) \cup Had(journal)
  /\ plan[m] \in {"keep", "backup", "durable"} => m \in Had(journal)
  /\ plan[m] = "remove" => m \notin Had(journal)
  /\ plan[m] = "backup" /\ <<"putBack", m>> \in rest => disk["backup"][m] # NoFile
  /\ plan[m] = "durable" /\ <<"putBack", m>> \in rest => disk["durable"][m] # NoFile
  /\ plan[m] = "durable" /\ <<"putBack", m>> \in rest /\ <<"materialize", m>> \notin rest =>
       disk["restore"][m] = before[m]
  /\ disk["promotion"][m] \notin {Partial, Unowned}
  /\ m \notin disturbed =>
       /\ plan[m] = "keep" => Is(disk["live"][m], journal.prior[m])
       /\ <<"remove", m>> \in rest =>
            \/ disk["live"][m] = NoFile
            \/ m \in Installs(journal) /\ disk["live"][m] = New(journal)
            \/ m \in Displaces(journal) /\ disk["live"][m] = journal.previous.adopted[m]
       /\ <<"remove", m>> \notin rest /\ (plan[m] = "remove" \/ <<"putBack", m>> \in rest) =>
            disk["live"][m] = NoFile
       /\ plan[m] \in {"backup", "durable"} /\ <<"putBack", m>> \notin rest =>
            disk["live"][m] = before[m]
       /\ Step("verify") \notin rest => plan[m] = "skip" \/ Is(disk["live"][m], journal.prior[m])
ReturnBody ==
  /\ journal.phase = "rollingBack"
  /\ Step("restoreState") \notin rest => installed = journal.previous
  /\ \A place \in {"stage", "promotion", "restore"}, m \in Members :
       <<"sweep", place>> \notin rest => disk[place][m] = NoFile
  /\ \A m \in Members : ReturnMember(m)

\* A call has given up over an unfinished transaction, in one of the known ways.
Reason ==
  gaveUp => Idle /\ ~IsTerminal(journal) /\ GivesUpOverThese

\* While a call goes forward, how far it is says what it has done to the live
\* files; otherwise the journal does.
Sound ==
  /\ JournalSound /\ PlacesSound /\ Untouched /\ Kept
  /\ ~Forward => Settled /\ LiveSound
  /\ Forward => ForwardBody
  /\ Discarding => DiscardBody
  /\ Starting => StartBody
  /\ Returning => ReturnBody

IInv ==
  /\ Typed /\ Script /\ Reason
  /\ ~IsTerminal(journal) => Sound
-----------------------------------------------------------------------------
(* Sequences of steps                                                      *)

USE DEF Step

\* The rank of every step.
LEMMA Ranks ==
  /\ Rank(<<"download", "all">>) = 1
  /\ Rank(<<"stage", "dll">>) = 2 /\ Rank(<<"stage", "manifest">>) = 3
  /\ Rank(<<"staged", "all">>) = 4 /\ Rank(<<"precondition", "all">>) = 5
  /\ Rank(<<"takeAway", "dll">>) = 6 /\ Rank(<<"takeAway", "manifest">>) = 7
  /\ Rank(<<"install", "dll">>) = 8 /\ Rank(<<"install", "manifest">>) = 9
  /\ Rank(<<"giveBack", "dll">>) = 10 /\ Rank(<<"giveBack", "manifest">>) = 11
  /\ Rank(<<"record", "all">>) = 12
  /\ Rank(<<"promote", "dll">>) = 13 /\ Rank(<<"removeSource", "dll">>) = 14
  /\ Rank(<<"promote", "manifest">>) = 15 /\ Rank(<<"removeSource", "manifest">>) = 16
  /\ Rank(<<"commit", "all">>) = 17 /\ Rank(<<"outcome", "all">>) = 18
  /\ Rank(<<"cleanup", "all">>) = 19
  /\ Rank(<<"clean", "backup">>) = 20 /\ Rank(<<"clean", "retained">>) = 21
  /\ Rank(<<"finish", "all">>) = 22
  /\ Rank(<<"discard", "dll">>) = 23 /\ Rank(<<"discard", "manifest">>) = 24
  /\ Rank(<<"fail", "all">>) = 25
  /\ Rank(<<"normalize", "all">>) = 26 /\ Rank(<<"plan", "all">>) = 27
  /\ Rank(<<"materialize", "dll">>) = 28 /\ Rank(<<"materialize", "manifest">>) = 29
  /\ Rank(<<"remove", "dll">>) = 30 /\ Rank(<<"putBack", "dll">>) = 31
  /\ Rank(<<"remove", "manifest">>) = 32 /\ Rank(<<"putBack", "manifest">>) = 33
  /\ Rank(<<"verify", "all">>) = 34
  /\ Rank(<<"sweep", "stage">>) = 35 /\ Rank(<<"sweep", "promotion">>) = 36
  /\ Rank(<<"sweep", "restore">>) = 37 /\ Rank(<<"sweep", "durable">>) = 38
  /\ Rank(<<"restoreState", "all">>) = 39 /\ Rank(<<"rolledBack", "all">>) = 40
BY DEF Rank

\* The ranks of the steps of the whole transaction, going forward.
LEMMA WholeRanks ==
  /\ Rank(<<"download", "all">>) = 1 /\ Rank(<<"staged", "all">>) = 4
  /\ Rank(<<"precondition", "all">>) = 5 /\ Rank(<<"record", "all">>) = 12
  /\ Rank(<<"commit", "all">>) = 17 /\ Rank(<<"outcome", "all">>) = 18
BY Ranks

\* The ranks of the steps a call ends with.
LEMMA EndRanks ==
  /\ Rank(<<"cleanup", "all">>) = 19 /\ Rank(<<"clean", "backup">>) = 20
  /\ Rank(<<"clean", "retained">>) = 21 /\ Rank(<<"finish", "all">>) = 22
BY Ranks

\* The ranks of the steps that end a rollback.
LEMMA LastRanks ==
  /\ Rank(<<"verify", "all">>) = 34 /\ Rank(<<"sweep", "stage">>) = 35
  /\ Rank(<<"sweep", "promotion">>) = 36 /\ Rank(<<"sweep", "restore">>) = 37
  /\ Rank(<<"sweep", "durable">>) = 38
  /\ Rank(<<"restoreState", "all">>) = 39 /\ Rank(<<"rolledBack", "all">>) = 40
BY Ranks

\* Every step has a rank.
LEMMA RankIsNumber == \A s : Rank(s) \in Int
BY DEF Rank

\* The steps of each kind are steps.
LEMMA StepsAre ==
  /\ \A n \in ForwardNames \cup DiscardNames \cup StartNames \cup ReturnNames :
       <<n, "all">> \in AnyStep /\ \A m \in Members : <<n, m>> \in AnyStep
  /\ \A p \in Places : <<"sweep", p>> \in AnyStep /\ <<"clean", p>> \in AnyStep
BY DEF AnyStep, ForwardNames, ReturnNames

\* What is left of a call when its first step is done.
LEMMA FollowsTail ==
  ASSUME NEW P, NEW t \in Seq(AnyStep), Follows(t, P), t # <<>>
  PROVE  /\ Tail(t) \in Seq(AnyStep) /\ Follows(Tail(t), P)
         /\ Head(t) \in P /\ Head(t) \in Elements(t)
         /\ Elements(Tail(t)) = Elements(t) \ {Head(t)}
         /\ \A x \in Elements(t) : x = Head(t) \/ Rank(Head(t)) < Rank(x)
<1>1. PICK n \in Nat : n = Len(t) /\ n >= 1
  OBVIOUS
<1>2. /\ Tail(t) \in Seq(AnyStep) /\ Len(Tail(t)) = n - 1 /\ DOMAIN t = 1..n
      /\ DOMAIN Tail(t) = 1..(n - 1) /\ Head(t) = t[1]
      /\ \A i \in 1..(n - 1) : Tail(t)[i] = t[i + 1]
  BY <1>1
<1>3. 1 \in DOMAIN t
  BY <1>1, <1>2
<1>4. /\ \A i, k \in DOMAIN t : i < k => Rank(t[i]) < Rank(t[k])
      /\ Elements(t) \subseteq P
      /\ \A x \in Elements(t), s \in P : Rank(x) < Rank(s) => s \in Elements(t)
  BY DEF Follows
<1>5. \A x \in Elements(t) : \E i \in 1..n : x = t[i]
  BY <1>2 DEF Elements
<1>6. \A x \in Elements(t) : x = Head(t) \/ Rank(Head(t)) < Rank(x)
  <2> SUFFICES ASSUME NEW i \in 1..n
               PROVE  t[i] = t[1] \/ Rank(t[1]) < Rank(t[i])
    BY <1>2, <1>5
  <2>1. CASE i = 1
    BY <2>1
  <2>2. CASE i # 1
    BY <2>2, <1>2, <1>3, <1>4
  <2> QED BY <2>1, <2>2
<1>7. Head(t) \in Elements(t)
  BY <1>2, <1>3 DEF Elements
<1>8. \A s : Rank(s) \in Int
  BY RankIsNumber
<1>9. Elements(Tail(t)) = Elements(t) \ {Head(t)}
  <2>1. ASSUME NEW x \in Elements(Tail(t))
        PROVE  x \in Elements(t) \ {Head(t)}
    <3>1. PICK i \in 1..(n - 1) : x = t[i + 1]
      BY <1>2 DEF Elements
    <3>2. i + 1 \in DOMAIN t /\ 1 < i + 1
      BY <1>2
    <3>3. Rank(t[1]) < Rank(t[i + 1])
      BY <1>3, <1>4, <3>2
    <3> QED BY <1>2, <1>8, <3>1, <3>2, <3>3 DEF Elements
  <2>2. ASSUME NEW x \in Elements(t), x # Head(t)
        PROVE  x \in Elements(Tail(t))
    <3>1. PICK i \in 1..n : x = t[i]
      BY <1>5
    <3>2. i # 1 /\ i - 1 \in 1..(n - 1) /\ (i - 1) + 1 = i
      BY <1>2, <2>2, <3>1
    <3>3. Tail(t)[i - 1] = t[i]
      BY <1>2, <3>2
    <3> QED BY <1>2, <3>1, <3>2, <3>3 DEF Elements
  <2> QED BY <2>1, <2>2
<1>10. \A i, k \in DOMAIN Tail(t) : i < k => Rank(Tail(t)[i]) < Rank(Tail(t)[k])
  <2> SUFFICES ASSUME NEW i \in 1..(n - 1), NEW k \in 1..(n - 1), i < k
               PROVE  Rank(Tail(t)[i]) < Rank(Tail(t)[k])
    BY <1>2
  <2>1. i + 1 \in DOMAIN t /\ k + 1 \in DOMAIN t /\ i + 1 < k + 1
    BY <1>2
  <2>2. Rank(t[i + 1]) < Rank(t[k + 1])
    BY <1>4, <2>1
  <2> QED BY <1>2, <2>2
<1>11. \A x \in Elements(Tail(t)), s \in P :
         Rank(x) < Rank(s) => s \in Elements(Tail(t))
  BY <1>4, <1>6, <1>8, <1>9
<1> QED BY <1>2, <1>4, <1>6, <1>7, <1>9, <1>10, <1>11 DEF Follows

\* The steps of a sequence are the ones that are still to be done.
LEMMA AheadIs == \A s : Ahead(s) <=> s \in rest
BY DEF Ahead, rest, Elements

\* The sequence t does the steps of S in order, with ranks between a and b.
InOrder(t, S, a, b) ==
  /\ t \in Seq(AnyStep) /\ Elements(t) = S
  /\ \A i, k \in DOMAIN t : i < k => Rank(t[i]) < Rank(t[k])
  /\ \A s \in S : Rank(s) \in a .. b

\* Nothing is in order, and so is a single step.
LEMMA InOrderOne ==
  ASSUME NEW s \in AnyStep, NEW a \in Int, NEW b \in Int
  PROVE  /\ InOrder(<<>>, {}, a, b)
         /\ a <= Rank(s) /\ Rank(s) <= b => InOrder(<<s>>, {s}, a, b)
BY RankIsNumber DEF InOrder, Elements

\* Two sequences in order, one after the other.
LEMMA InOrderJoined ==
  ASSUME NEW s, NEW t, NEW S, NEW T, NEW a \in Int, NEW b \in Int, NEW c \in Int,
         NEW d \in Int, InOrder(s, S, a, b), InOrder(t, T, c, d), a <= c, b < c, b <= d
  PROVE  InOrder(s \o t, S \cup T, a, d)
<1>1. PICK n \in Nat : n = Len(s)
  BY DEF InOrder
<1>2. PICK l \in Nat : l = Len(t)
  BY DEF InOrder
<1>3. s \in Seq(AnyStep) /\ t \in Seq(AnyStep) /\ DOMAIN s = 1..n /\ DOMAIN t = 1..l
  BY <1>1, <1>2 DEF InOrder
<1>4. /\ s \o t \in Seq(AnyStep) /\ DOMAIN (s \o t) = 1..(n + l)
      /\ \A i \in 1..n : (s \o t)[i] = s[i]
      /\ \A i \in 1..(n + l) : i > n => (s \o t)[i] = t[i - n]
  BY <1>1, <1>2, <1>3
<1> DEFINE u == s \o t
<1> HIDE DEF u
<1>5. /\ u \in Seq(AnyStep) /\ DOMAIN u = 1..(n + l)
      /\ \A i \in 1..n : u[i] = s[i]
      /\ \A i \in 1..(n + l) : i > n => u[i] = t[i - n]
  BY <1>4 DEF u
<1>6. /\ \A i \in 1..n : s[i] \in S /\ Rank(s[i]) \in a .. b
      /\ \A i \in 1..l : t[i] \in T /\ Rank(t[i]) \in c .. d
  BY <1>3 DEF InOrder, Elements
<1>7. Elements(u) = S \cup T
  <2>1. ASSUME NEW x \in Elements(u)
        PROVE  x \in S \cup T
    <3>1. PICK i \in 1..(n + l) : x = u[i]
      BY <1>5 DEF Elements
    <3>2. CASE i <= n
      BY <1>5, <1>6, <3>1, <3>2
    <3>3. CASE i > n
      <4>1. i - n \in 1..l
        BY <3>3
      <4> QED BY <1>5, <1>6, <3>1, <3>3, <4>1
    <3> QED BY <3>2, <3>3
  <2>2. ASSUME NEW x \in S
        PROVE  x \in Elements(u)
    <3>1. PICK i \in 1..n : x = s[i]
      BY <1>3 DEF InOrder, Elements
    <3>2. i \in 1..(n + l)
      OBVIOUS
    <3> QED BY <1>5, <3>1, <3>2 DEF Elements
  <2>3. ASSUME NEW x \in T
        PROVE  x \in Elements(u)
    <3>1. PICK i \in 1..l : x = t[i]
      BY <1>3 DEF InOrder, Elements
    <3>2. n + i \in 1..(n + l) /\ n + i > n /\ (n + i) - n = i
      OBVIOUS
    <3>3. u[n + i] = t[i]
      BY <1>5, <3>2
    <3> QED BY <1>5, <3>1, <3>2, <3>3 DEF Elements
  <2> QED BY <2>1, <2>2, <2>3
<1>8. \A i, k \in DOMAIN u : i < k => Rank(u[i]) < Rank(u[k])
  <2> SUFFICES ASSUME NEW i \in 1..(n + l), NEW k \in 1..(n + l), i < k
               PROVE  Rank(u[i]) < Rank(u[k])
    BY <1>5
  <2>1. CASE k <= n
    <3>1. i \in DOMAIN s /\ k \in DOMAIN s
      BY <1>3, <2>1
    <3> QED BY <1>3, <1>5, <3>1 DEF InOrder
  <2>2. CASE i > n
    <3>1. i - n \in DOMAIN t /\ k - n \in DOMAIN t /\ i - n < k - n
      BY <1>3, <2>2
    <3>2. Rank(t[i - n]) < Rank(t[k - n])
      BY <3>1 DEF InOrder
    <3> QED BY <1>5, <2>2, <3>2
  <2>3. CASE i <= n /\ k > n
    <3>1. i \in 1..n /\ k - n \in 1..l
      BY <2>3
    <3>2. Rank(s[i]) <= b /\ c <= Rank(t[k - n]) /\ Rank(s[i]) \in Int /\ Rank(t[k - n]) \in Int
      BY <1>6, <3>1
    <3> QED BY <1>5, <2>3, <3>1, <3>2
  <2> QED BY <2>1, <2>2, <2>3
<1>9. \A x \in S \cup T : Rank(x) \in a .. d
  BY DEF InOrder
<1>10. InOrder(u, S \cup T, a, d)
  BY <1>5, <1>7, <1>8, <1>9 DEF InOrder
<1> QED BY <1>10 DEF u

\* A sequence in order that does all of P.
LEMMA InOrderFollows ==
  ASSUME NEW t, NEW P, NEW a, NEW b, InOrder(t, P, a, b)
  PROVE  t \in Seq(AnyStep) /\ Follows(t, P) /\ Elements(t) = P
BY DEF InOrder, Follows

-----------------------------------------------------------------------------
(* Files, places and journals                                              *)

\* What marks a file that is missing or unfinished marks no other.
LEMMA FilesDiffer ==
  /\ NoFile \notin Files /\ Partial \notin Files /\ Unowned \notin Files
  /\ NoFile # Partial /\ NoFile # Unowned /\ Partial # Unowned
  /\ \A f \in AnyFile : f.bytes \in Releases \cup {"user"} => f \in Files
  /\ \A f \in AnyFile : f.bytes = "none" => f = NoFile
  /\ \A f \in Files : f.bytes \in Releases \cup {"user"} /\ f.bytes # "none"
  /\ NoFile.bytes = "none" /\ Partial.bytes = "partial" /\ Unowned.bytes = "unowned"
<1>1. Releases \cap {"none", "user", "partial", "unowned"} = {}
  BY ReleaseAssumption
<1>2. \A f \in Files : f.bytes \in Releases \cup {"user"}
  BY DEF Files
<1>3. NoFile.bytes = "none" /\ Partial.bytes = "partial" /\ Unowned.bytes = "unowned"
  BY DEF NoFile, Partial, Unowned, File
<1>4. \A f \in AnyFile : f \in Files \/ f = NoFile \/ f = Partial \/ f = Unowned
  BY DEF AnyFile
<1> QED BY <1>1, <1>2, <1>3, <1>4

\* A file that matches the identity of a file is that file, and nothing matches
\* only what is not there.
LEMMA IsFile ==
  /\ \A f \in AnyFile, i \in RealFile : Is(f, i) <=> f = i
  /\ \A f, r : Is(f, File(r, AnyMark)) <=> f.bytes = r
  /\ \A r : File(r, AnyMark).bytes = r
  /\ \A r \in Releases : File(r, AnyMark) # NoFile
<1>1. \A m \in Marks : m # AnyMark
  BY BoundAssumption DEF Marks, AnyMark
<1>2. 0 \in Marks
  BY BoundAssumption DEF Marks
<1>3. \A i \in RealFile : i.mark \in Marks
  BY <1>2 DEF RealFile, Files, NoFile, File
<1>4. \A f \in AnyFile : f = [bytes |-> f.bytes, mark |-> f.mark]
  BY DEF AnyFile, Files, NoFile, Partial, Unowned, File
<1>5. ASSUME NEW f \in AnyFile, NEW i \in RealFile
      PROVE  Is(f, i) <=> f = i
  <2>1. i \in AnyFile
    BY DEF AnyFile, RealFile
  <2>2. Is(f, i) => f.bytes = i.bytes /\ f.mark = i.mark
    BY <1>1, <1>3 DEF Is
  <2>3. f = i => Is(f, i)
    BY DEF Is
  <2> QED BY <1>4, <2>1, <2>2, <2>3
<1>6. \A f, r : Is(f, File(r, AnyMark)) <=> f.bytes = r
  BY DEF Is, File
<1>7. \A r \in Releases : File(r, AnyMark) # NoFile
  BY ReleaseAssumption DEF File, NoFile
<1> QED BY <1>5, <1>6, <1>7 DEF File

\* The places hold files.
DiskTyped(d) ==
  /\ d \in [Places -> [Members -> AnyFile]]
  /\ \A m \in Members : d["live"][m] \in RealFile /\ d["retained"][m] \in RealFile

\* A file is put at a place.
LEMMA PutIs ==
  ASSUME DiskTyped(disk), NEW p \in Places, NEW m \in Members, NEW f \in AnyFile,
         p \in {"live", "retained"} => f \in RealFile
  PROVE  /\ DiskTyped(Put(p, m, f))
         /\ \A q \in Places, n \in Members :
              Put(p, m, f)[q][n] = IF q = p /\ n = m THEN f ELSE disk[q][n]
<1>1. Put(p, m, f) = [q \in Places |-> [n \in Members |->
                        IF q = p /\ n = m THEN f ELSE disk[q][n]]]
  BY DEF Put, DiskTyped
<1> QED BY <1>1 DEF DiskTyped, Places

\* A file is moved from a place to another.
LEMMA MoveIs ==
  ASSUME DiskTyped(disk), NEW p \in Places \ {"retained"}, NEW o \in Places \ {"retained"},
         NEW m \in Members, p # o, o = "live" => disk[p][m] \in RealFile
  PROVE  /\ DiskTyped(Move(m, p, o))
         /\ \A q \in Places, n \in Members :
              Move(m, p, o)[q][n] = IF q = o /\ n = m THEN disk[p][m]
                                    ELSE IF q = p /\ n = m THEN NoFile ELSE disk[q][n]
<1>1. NoFile \in AnyFile /\ NoFile \in RealFile
  BY DEF AnyFile, RealFile
<1>2. disk \in [Places -> [Members -> AnyFile]]
  BY DEF DiskTyped
<1>3. Move(m, p, o) = [q \in Places |-> [n \in Members |->
                        IF q = o /\ n = m THEN disk[p][m]
                        ELSE IF q = p /\ n = m THEN NoFile ELSE disk[q][n]]]
  BY <1>2 DEF Move
<1> DEFINE d == Move(m, p, o)
<1> HIDE DEF d
<1>4. \A q \in Places, n \in Members :
        d[q][n] = IF q = o /\ n = m THEN disk[p][m]
                  ELSE IF q = p /\ n = m THEN NoFile ELSE disk[q][n]
  BY <1>3 DEF d
<1>5. d \in [Places -> [Members -> AnyFile]]
  BY <1>1, <1>2, <1>3 DEF d
<1>6. \A n \in Members : d["live"][n] \in RealFile /\ d["retained"][n] \in RealFile
  <2>1. "live" \in Places /\ "retained" \in Places
    BY DEF Places
  <2> QED BY <1>1, <1>4, <2>1 DEF DiskTyped
<1>7. DiskTyped(d)
  BY <1>5, <1>6 DEF DiskTyped
<1> QED BY <1>4, <1>7 DEF d

\* A place is cleared.
LEMMA ClearIs ==
  ASSUME DiskTyped(disk), NEW p \in Places
  PROVE  /\ DiskTyped(Clear(p))
         /\ \A q \in Places, n \in Members :
              Clear(p)[q][n] = IF q = p THEN NoFile ELSE disk[q][n]
<1>1. NoFile \in AnyFile /\ NoFile \in RealFile
  BY DEF AnyFile, RealFile
<1>2. Clear(p) = [q \in Places |-> [n \in Members |->
                        IF q = p THEN NoFile ELSE disk[q][n]]]
  BY DEF Clear, DiskTyped
<1> QED BY <1>1, <1>2 DEF DiskTyped, Places

\* The members a journal speaks of.
LEMMA SetsAre ==
  ASSUME NEW j
  PROVE  /\ Installs(j) \subseteq ShouldMutate(j) /\ ShouldMutate(j) \subseteq Members
         /\ Had(j) \subseteq Members /\ Displaces(j) \subseteq Members
         /\ Retains(j) \subseteq Had(j) \cap ShouldMutate(j)
         /\ j.op = "uninstall" => Installs(j) = {}
         /\ j.op # "uninstall" => Displaces(j) = {}
         /\ "dll" \in ShouldMutate(j)
         /\ \A m \in Members : m \in Had(j) <=> j.prior[m] # NoFile
         /\ \A m \in Members : m \in Displaces(j) <=>
              j.op = "uninstall" /\ j.previous.adopted[m] # NoFile
BY DEF Installs, ShouldMutate, Had, Displaces, Retains, Members

\* The journal k says what j says, in another phase.
SameButPhase(j, k) ==
  /\ k.op = j.op /\ k.release = j.release /\ k.number = j.number
  /\ k.prior = j.prior /\ k.previous = j.previous

\* What a journal says does not depend on its phase.
LEMMA PhaseOnly ==
  ASSUME NEW j, NEW k, SameButPhase(j, k)
  PROVE  /\ Installs(k) = Installs(j) /\ ShouldMutate(k) = ShouldMutate(j)
         /\ Had(k) = Had(j) /\ Retains(k) = Retains(j) /\ Displaces(k) = Displaces(j)
         /\ ForwardSteps(k) = ForwardSteps(j) /\ DiscardSteps(k) = DiscardSteps(j)
         /\ New(k) = New(j) /\ Recorded(k) = Recorded(j)
         /\ CopyStages(k) = CopyStages(j)
<1>1. /\ Installs(k) = Installs(j) /\ Had(k) = Had(j) /\ Displaces(k) = Displaces(j)
      /\ New(k) = New(j) /\ CopyStages(k) = CopyStages(j)
  BY DEF SameButPhase, Installs, Had, Displaces, New, CopyStages
<1>2. ShouldMutate(k) = ShouldMutate(j)
  BY <1>1 DEF SameButPhase, ShouldMutate
<1>3. Retains(k) = Retains(j)
  BY <1>1, <1>2 DEF SameButPhase, Retains
<1> QED BY <1>1, <1>2, <1>3 DEF SameButPhase, ForwardSteps, DiscardSteps, Recorded

\* A journal is saved with another phase.
LEMMA PersistIs ==
  ASSUME Typed, NEW p \in Phases, Persist(p)
  PROVE  journal' \in Journals /\ journal'.phase = p /\ SameButPhase(journal, journal')
BY DEF Typed, Journals, Persist, SameButPhase

\* What the prior files of an unfinished transaction are.
LEMMA PriorIs ==
  ASSUME Typed, JournalSound
  PROVE  /\ New(journal) \in Files /\ New(journal).bytes = journal.release
         /\ journal.op = "uninstall" => Had(journal) \subseteq ShouldMutate(journal)
         /\ journal.op = "uninstall" =>
              \A m \in Members : m \in ShouldMutate(journal) <=> m \in Had(journal)
         /\ \A m \in Had(journal) :
              before[m] \in Files /\ before[m].bytes = journal.prior[m].bytes
         /\ journal.op = "deploy" =>
              \A m \in Members : m \in Had(journal) <=> before[m] # NoFile
         /\ \A m \in Had(journal), f \in AnyFile :
              Is(f, journal.prior[m]) => f \in Files /\ f.bytes = before[m].bytes
         /\ \A m \in Had(journal) : Is(before[m], journal.prior[m])
         /\ journal.op = "deploy" =>
              \A m \in Members, f \in AnyFile : Is(f, journal.prior[m]) <=> f = before[m]
<1>1. /\ journal.op \in {"deploy", "uninstall"} /\ journal.release \in Releases
      /\ journal.number \in Marks
      /\ \A m \in Members : before[m] \in RealFile
  BY BoundAssumption DEF Typed, Journals, JournalSound, Marks
<1>2. New(journal) \in Files /\ New(journal).bytes = journal.release
  BY <1>1 DEF New, File, Files
<1>3. \A m \in Members : before[m] \in AnyFile /\ (before[m] # NoFile <=> before[m] \in Files)
  BY <1>1, FilesDiffer DEF RealFile, AnyFile
<1>4. CASE journal.op = "deploy"
  <2>1. \A m \in Members : journal.prior[m] = before[m]
    BY <1>4 DEF JournalSound
  <2>2. \A m \in Members : m \in Had(journal) <=> before[m] # NoFile
    BY <2>1, SetsAre
  <2>3. \A m \in Members, f \in AnyFile : Is(f, journal.prior[m]) <=> f = before[m]
    BY <1>1, <2>1, IsFile
  <2>4. Had(journal) \subseteq Members
    BY SetsAre
  <2> QED BY <1>2, <1>3, <1>4, <2>1, <2>2, <2>3, <2>4
<1>5. CASE journal.op = "uninstall"
  <2>1. /\ journal.previous.release = journal.release
        /\ \A m \in Members :
            IF m = "dll" \/ journal.release \in WithManifest
            THEN /\ journal.prior[m] = File(journal.release, AnyMark)
                 /\ before[m].bytes = journal.release
            ELSE journal.prior[m] = NoFile
    BY <1>5 DEF JournalSound
  <2>2. File(journal.release, AnyMark) # NoFile
    BY <1>1, IsFile
  <2>3. \A m \in Members : m \in Had(journal) <=> (m = "dll" \/ journal.release \in WithManifest)
    BY <2>1, <2>2, SetsAre
  <2>4. \A m \in Members : m \in ShouldMutate(journal) <=> m \in Had(journal)
    <3>1. Installs(journal) = {}
      BY <1>5 DEF Installs
    <3>2. ManagesManifest(journal.previous) <=> journal.release \in WithManifest
      BY <2>1 DEF ManagesManifest
    <3> QED BY <2>3, <3>1, <3>2 DEF ShouldMutate, Members
  <2>5. \A m \in Had(journal) :
          /\ m \in Members
          /\ journal.prior[m] = File(journal.release, AnyMark)
          /\ before[m].bytes = journal.release
    BY <2>1, <2>3, SetsAre
  <2>6. journal.op # "deploy"
    BY <1>5
  <2>7. \A m \in Had(journal), f \in AnyFile :
          Is(f, journal.prior[m]) => f \in Files /\ f.bytes = before[m].bytes
    BY <1>1, <2>5, IsFile, FilesDiffer
  <2>8. \A m \in Had(journal) :
          /\ before[m] \in Files /\ before[m].bytes = journal.prior[m].bytes
          /\ Is(before[m], journal.prior[m])
    BY <1>1, <1>3, <2>5, IsFile, FilesDiffer
  <2>9. Had(journal) \subseteq ShouldMutate(journal)
    BY <2>4, SetsAre
  <2> QED BY <1>2, <2>4, <2>6, <2>7, <2>8, <2>9
<1> QED BY <1>1, <1>4, <1>5

-----------------------------------------------------------------------------
(* What a call does                                                        *)

\* The name of a step says what kind of call it belongs to.
LEMMA NamesAre ==
  /\ \A j, s : s \in ForwardSteps(j) => s[1] \in ForwardNames
  /\ \A j, s : s \in DiscardSteps(j) => s[1] \in DiscardNames
  /\ \A s : s \in StartSteps => s[1] \in StartNames
  /\ \A p, s : s \in ReturnSteps(p) => s[1] \in ReturnNames
BY DEF ForwardSteps, DiscardSteps, StartSteps, ReturnSteps, ForwardNames,
       DiscardNames, StartNames, ReturnNames

\* A call is of one kind.
LEMMA OneKind ==
  ASSUME NEW s \in rest
  PROVE  /\ Forward => s[1] \in ForwardNames
         /\ Discarding => s[1] \in DiscardNames
         /\ Starting => s[1] \in StartNames
         /\ Returning => s[1] \in ReturnNames
BY NamesAre DEF Forward, Discarding, Starting, Returning, Follows, rest

\* The kinds of call exclude each other.
LEMMA KindsExclude ==
  /\ Forward => ~Discarding /\ ~Starting /\ ~Returning
  /\ Discarding => ~Forward /\ ~Starting /\ ~Returning
  /\ Starting => ~Forward /\ ~Discarding /\ ~Returning
  /\ Returning => ~Forward /\ ~Discarding /\ ~Starting
<1>1. \A s \in rest : /\ Forward => s[1] \in ForwardNames
                      /\ Discarding => s[1] \in DiscardNames
                      /\ Starting => s[1] \in StartNames
                      /\ Returning => s[1] \in ReturnNames
  BY OneKind
<1>2. ASSUME Forward
      PROVE  ~Discarding /\ ~Starting /\ ~Returning
  <2>1. <<"finish", "all">> \in rest
    BY <1>2 DEF Forward
  <2>2. <<"finish", "all">>[1] \notin DiscardNames \cup StartNames \cup ReturnNames
    BY DEF DiscardNames, StartNames, ReturnNames
  <2> QED BY <1>1, <2>1, <2>2
<1>3. ASSUME Discarding
      PROVE  ~Starting /\ ~Returning
  <2>1. <<"fail", "all">> \in rest
    BY <1>3 DEF Discarding
  <2>2. <<"fail", "all">>[1] \notin StartNames \cup ReturnNames
    BY DEF StartNames, ReturnNames
  <2> QED BY <1>1, <2>1, <2>2
<1>4. ASSUME Starting
      PROVE  ~Returning
  <2>1. <<"plan", "all">> \in rest
    BY <1>4 DEF Starting
  <2>2. <<"plan", "all">>[1] \notin ReturnNames
    BY DEF ReturnNames
  <2> QED BY <1>1, <2>1, <2>2
<1> QED BY <1>2, <1>3, <1>4

\* The next step of a call that follows the steps of P.
LEMMA AtFollows ==
  ASSUME Typed, NEW P, Follows(todo, P), NEW s, At(s)
  PROVE  /\ s \in P /\ s \in rest /\ rest \subseteq P
         /\ \A x \in rest : x = s \/ Rank(s) < Rank(x)
         /\ \A x \in P : Rank(s) < Rank(x) => x \in rest
         /\ Proceed => /\ todo' \in Seq(AnyStep) /\ Follows(todo', P)
                       /\ rest' = rest \ {s}
<1>1. todo # <<>> /\ Head(todo) = s /\ todo \in Seq(AnyStep)
  BY DEF At, Typed
<1>2. /\ Tail(todo) \in Seq(AnyStep) /\ Follows(Tail(todo), P)
      /\ s \in P /\ s \in rest
      /\ Elements(Tail(todo)) = rest \ {s}
      /\ \A x \in rest : x = s \/ Rank(s) < Rank(x)
  BY <1>1, FollowsTail DEF rest
<1>3. rest \subseteq P /\ \A x \in P : Rank(s) < Rank(x) => x \in rest
  BY <1>2 DEF Follows, rest
<1> QED BY <1>2, <1>3 DEF Proceed, rest

\* A sequence without steps is empty.
LEMMA NoSteps ==
  ASSUME NEW t \in Seq(AnyStep)
  PROVE  t = <<>> <=> Elements(t) = {}
<1>1. t = <<>> => Elements(t) = {}
  BY DEF Elements
<1>2. t # <<>> => t[1] \in Elements(t)
  <2>1. t # <<>> => 1 \in DOMAIN t
    OBVIOUS
  <2> QED BY <2>1 DEF Elements
<1> QED BY <1>1, <1>2

\* The next step tells the kind of call, and that it has not given up.
LEMMA AtTells ==
  ASSUME IInv, NEW s, At(s)
  PROVE  /\ ~Idle /\ ~IsTerminal(journal) /\ ~gaveUp /\ Sound
         /\ s \in rest
         /\ s[1] \in ForwardNames => Forward
         /\ s[1] \in DiscardNames => Discarding
         /\ s[1] \in StartNames => Starting
         /\ s[1] \in ReturnNames => Returning
<1>1. ~Idle
  BY DEF At, Idle
<1>2. ~IsTerminal(journal) /\ (Forward \/ Discarding \/ Starting \/ Returning)
  BY <1>1 DEF IInv, Script
<1>3. ~gaveUp /\ Sound
  BY <1>1, <1>2 DEF IInv, Reason
<1>4. s \in rest
  BY <1>2, AtFollows DEF IInv, Forward, Discarding, Starting, Returning
<1>5. /\ Forward => s[1] \in ForwardNames
      /\ Discarding => s[1] \in DiscardNames
      /\ Starting => s[1] \in StartNames
      /\ Returning => s[1] \in ReturnNames
  BY <1>4, OneKind
<1> QED BY <1>1, <1>2, <1>3, <1>4, <1>5
        DEF ForwardNames, DiscardNames, StartNames, ReturnNames

\* The next step of a call that goes forward.
LEMMA AtForward ==
  ASSUME IInv, NEW s, At(s), s[1] \in ForwardNames
  PROVE  /\ Forward /\ ForwardBody /\ plan = NoPlan
         /\ JournalSound /\ PlacesSound /\ Untouched /\ Kept
         /\ ~Idle /\ ~IsTerminal(journal) /\ ~gaveUp
         /\ s \in ForwardSteps(journal) /\ s \in rest
         /\ rest \subseteq ForwardSteps(journal)
         /\ \A x \in rest : x = s \/ Rank(s) < Rank(x)
         /\ \A x \in ForwardSteps(journal) : Rank(s) < Rank(x) => x \in rest
<1>1. Forward /\ Sound /\ ~Idle /\ ~IsTerminal(journal) /\ ~gaveUp
  BY AtTells
<1>2. plan = NoPlan
  BY <1>1, KindsExclude DEF IInv, Script
<1>3. Follows(todo, ForwardSteps(journal)) /\ Typed
  BY <1>1 DEF Forward, IInv
<1> QED BY <1>1, <1>2, <1>3, AtFollows DEF Sound

\* A call that goes forward goes on.
LEMMA ForwardOn ==
  ASSUME IInv, NEW s, At(s), s[1] \in ForwardNames, s # Step("finish"),
         Proceed, SameButPhase(journal, journal'), ~IsTerminal(journal'), plan' = plan
  PROVE  /\ Script' /\ Forward' /\ ~Discarding' /\ ~Starting' /\ ~Returning'
         /\ todo' \in Seq(AnyStep) /\ rest' = rest \ {s}
<1>1. Forward /\ plan = NoPlan
  BY AtForward
<1>2. Follows(todo, ForwardSteps(journal)) /\ Typed /\ Step("finish") \in rest
  BY <1>1 DEF Forward, IInv
<1>3. todo' \in Seq(AnyStep) /\ Follows(todo', ForwardSteps(journal)) /\ rest' = rest \ {s}
  BY <1>2, AtFollows
<1>4. ForwardSteps(journal') = ForwardSteps(journal)
  BY PhaseOnly
<1>5. Forward'
  BY <1>2, <1>3, <1>4 DEF Forward
<1>6. \A x \in rest' : x[1] \in ForwardNames
  BY <1>3, <1>4, NamesAre DEF Follows, rest
<1>7. ~Discarding' /\ ~Starting' /\ ~Returning'
  BY <1>6 DEF Discarding, Starting, Returning, ForwardNames
<1>8. NoPlan' = NoPlan
  BY DEF NoPlan
<1>9. Script'
  BY <1>1, <1>5, <1>8 DEF Script
<1> QED BY <1>3, <1>5, <1>7, <1>9

\* A call that goes forward has more to do to its next step.
LEMMA ForwardWaits ==
  ASSUME IInv, Forward, todo' = todo, journal' = journal, plan' = plan
  PROVE  /\ Script' /\ Forward' /\ ~Discarding' /\ ~Starting' /\ ~Returning'
         /\ todo' \in Seq(AnyStep) /\ rest' = rest
<1>1. ~Discarding /\ ~Starting /\ ~Returning
  BY KindsExclude
<1>2. rest' = rest /\ NoPlan' = NoPlan
  BY DEF rest, NoPlan
<1>3. Forward' /\ ~Discarding' /\ ~Starting' /\ ~Returning'
  BY <1>1, <1>2 DEF Forward, Discarding, Starting, Returning
<1>4. Script'
  BY <1>1, <1>2, <1>3 DEF IInv, Script, Idle
<1> QED BY <1>2, <1>3, <1>4 DEF IInv, Typed

\* The invariant of a call that goes forward.
LEMMA ForwardHolds ==
  ASSUME Typed', Script', Forward', ~Discarding', ~Starting', ~Returning', ~gaveUp',
         JournalSound', PlacesSound', Untouched', Kept', ForwardBody'
  PROVE  IInv'
BY DEF IInv, Reason, Sound

-----------------------------------------------------------------------------
(* What a step leaves alone                                                *)

\* The variables keep their types.
LEMMA TypedOn ==
  ASSUME Typed, DiskTyped(disk'), installed' \in Receipts, journal' \in Journals,
         todo' \in Seq(AnyStep), plan' \in [Members -> PlanWords],
         UNCHANGED <<gaveUp, faults, disturbances, before, disturbed>>
  PROVE  Typed'
BY DEF Typed, DiskTyped

\* The disk is typed, and so is every file of it.
LEMMA DiskIsTyped ==
  ASSUME Typed
  PROVE  /\ DiskTyped(disk)
         /\ \A p \in Places, m \in Members : disk[p][m] \in AnyFile
         /\ \A m \in Members : disk["live"][m] \in RealFile /\ before[m] \in RealFile
         /\ NoFile \in AnyFile /\ NoFile \in RealFile /\ Partial \in AnyFile
         /\ Unowned \in AnyFile /\ RealFile \subseteq AnyFile /\ Files \subseteq RealFile
BY DEF Typed, DiskTyped, AnyFile, RealFile, Places

\* The places of a member whose files do not change stay sound.
LEMMA MemberFrame ==
  ASSUME NEW m \in Members, MemberSound(m), SameButPhase(journal, journal'),
         \A p \in Places : disk'[p][m] = disk[p][m],
         before' = before, disturbed \subseteq disturbed',
         \/ journal.op = "deploy"
         \/ /\ journal.phase = "cleanup" => journal'.phase = "cleanup"
            /\ journal'.phase = "cleanup" =>
                 journal.phase = "cleanup" \/ disk["stage"][m] = NoFile
  PROVE  MemberSound(m)'
<1>1. /\ disk'["stage"][m] = disk["stage"][m] /\ disk'["backup"][m] = disk["backup"][m]
      /\ disk'["durable"][m] = disk["durable"][m]
      /\ disk'["promotion"][m] = disk["promotion"][m]
      /\ disk'["restore"][m] = disk["restore"][m]
      /\ disk'["retained"][m] = disk["retained"][m]
  BY DEF Places
<1>2. /\ Installs(journal') = Installs(journal) /\ Had(journal') = Had(journal)
      /\ ShouldMutate(journal') = ShouldMutate(journal) /\ New(journal') = New(journal)
      /\ Retains(journal') = Retains(journal) /\ Displaces(journal') = Displaces(journal)
      /\ journal'.op = journal.op /\ journal'.prior = journal.prior
      /\ journal'.previous = journal.previous
  BY PhaseOnly DEF SameButPhase
<1>3. journal.op = "deploy" => Displaces(journal) = {} /\ journal.op # "uninstall"
  BY SetsAre
<1>4. StageSound(m)'
  BY <1>1, <1>2, <1>3 DEF MemberSound, StageSound
<1>5. BackupSound(m)' /\ DurableSound(m)'
  BY <1>1, <1>2 DEF MemberSound, BackupSound, DurableSound
<1>6. PromotionSound(m)' /\ RestoreSound(m)'
  BY <1>1, <1>2 DEF MemberSound, PromotionSound, RestoreSound
<1>7. RetainedSound(m)'
  BY <1>1, <1>2, <1>3 DEF MemberSound, RetainedSound
<1> QED BY <1>4, <1>5, <1>6, <1>7 DEF MemberSound

\* What was there before is kept as long as the files it is kept in are.
LEMMA KeptFrame ==
  ASSUME Kept, before' = before, disturbed \subseteq disturbed',
         \A m \in Members : /\ disk'["live"][m] = disk["live"][m]
                            /\ disk'["backup"][m] = disk["backup"][m]
                            /\ disk'["durable"][m] = disk["durable"][m],
         \/ journal.phase # "cleanup" \/ Step("outcome") \in rest \/ Step("plan") \in rest
         \/ /\ journal'.phase = "cleanup"
            /\ Step("outcome") \notin rest' /\ Step("plan") \notin rest'
  PROVE  Kept'
BY DEF Kept

\* A transaction that has only staged something goes on staging.
LEMMA UntouchedFrame ==
  ASSUME Untouched, SameButPhase(journal, journal'), before' = before,
         disturbed \subseteq disturbed',
         journal'.phase \in {"planned", "verified", "staged"} =>
           /\ journal.phase \in {"planned", "verified", "staged"}
           /\ installed' = installed
           /\ \A m \in Members :
                /\ disk'["live"][m] = disk["live"][m]
                /\ disk'["backup"][m] = disk["backup"][m]
                /\ disk'["durable"][m] = disk["durable"][m]
                /\ disk'["promotion"][m] = disk["promotion"][m]
                /\ disk'["restore"][m] = disk["restore"][m]
                /\ journal.op = "uninstall" => disk'["stage"][m] = disk["stage"][m]
  PROVE  Untouched'
BY DEF Untouched, SameButPhase

\* The journal keeps telling what was there.
LEMMA JournalFrame ==
  ASSUME JournalSound, SameButPhase(journal, journal'), before' = before
  PROVE  JournalSound'
BY DEF JournalSound, SameButPhase

\* How far the call is says the same of a member whose files do not change.
LEMMA ForwardFrame ==
  ASSUME NEW m \in Members, ForwardMember(m), SameButPhase(journal, journal'),
         \A p \in Places : disk'[p][m] = disk[p][m],
         before' = before, disturbed' = disturbed,
         \/ rest' = rest
         \/ \E s : /\ rest' = rest \ {s} /\ s[2] # m
                   /\ s = Step("precondition") =>
                        (<<"takeAway", m>> \in rest => Is(disk["live"][m], journal.prior[m]))
                   /\ s = Step("cleanup") =>
                        (m \notin disturbed => disk["live"][m] = LiveNow(m))
  PROVE  ForwardMember(m)'
<1>1. /\ disk'["stage"][m] = disk["stage"][m] /\ disk'["backup"][m] = disk["backup"][m]
      /\ disk'["durable"][m] = disk["durable"][m] /\ disk'["live"][m] = disk["live"][m]
      /\ disk'["promotion"][m] = disk["promotion"][m]
      /\ disk'["restore"][m] = disk["restore"][m]
  BY DEF Places
<1>2. /\ Installs(journal') = Installs(journal) /\ Had(journal') = Had(journal)
      /\ ShouldMutate(journal') = ShouldMutate(journal) /\ New(journal') = New(journal)
      /\ Retains(journal') = Retains(journal) /\ Displaces(journal') = Displaces(journal)
      /\ journal'.op = journal.op /\ journal'.prior = journal.prior
      /\ journal'.previous = journal.previous
  BY PhaseOnly DEF SameButPhase
<1> DEFINE own == {<<"install", m>>, <<"stage", m>>, <<"giveBack", m>>,
                   <<"takeAway", m>>, <<"removeSource", m>>, <<"promote", m>>}
<1>3. CASE \/ rest' = rest
           \/ \E s : /\ rest' = rest \ {s} /\ s[2] # m
                     /\ s # Step("precondition") /\ s # Step("cleanup")
  <2>1. /\ \A s \in own : s \in rest' <=> s \in rest
        /\ Step("precondition") \in rest' <=> Step("precondition") \in rest
        /\ Step("cleanup") \in rest' <=> Step("cleanup") \in rest
        /\ Step("download") \in rest' => Step("download") \in rest
    BY <1>3
  <2>2. LiveNow(m)' = LiveNow(m) /\ (Left(m)' <=> Left(m))
    BY <1>1, <1>2, <2>1 DEF LiveNow, Base, Final, Left
  <2> QED BY <1>1, <1>2, <2>1, <2>2 DEF ForwardMember
<1>4. CASE /\ rest' = rest \ {Step("precondition")}
           /\ <<"takeAway", m>> \in rest => Is(disk["live"][m], journal.prior[m])
  <2>1. /\ \A s \in own : s \in rest' <=> s \in rest
        /\ Step("precondition") \notin rest'
        /\ Step("cleanup") \in rest' <=> Step("cleanup") \in rest
        /\ Step("download") \in rest' => Step("download") \in rest
    BY <1>4
  <2>2. LiveNow(m)' = LiveNow(m) /\ (Left(m)' <=> Left(m))
    BY <1>1, <1>2, <2>1 DEF LiveNow, Base, Final, Left
  <2> QED BY <1>1, <1>2, <1>4, <2>1, <2>2 DEF ForwardMember
<1>5. CASE /\ rest' = rest \ {Step("cleanup")}
           /\ m \notin disturbed => disk["live"][m] = LiveNow(m)
  <2>1. /\ \A s \in own : s \in rest' <=> s \in rest
        /\ Step("precondition") \in rest' <=> Step("precondition") \in rest
        /\ Step("cleanup") \notin rest'
        /\ Step("download") \in rest' => Step("download") \in rest
    BY <1>5
  <2>2. LiveNow(m)' = LiveNow(m)
    BY <1>1, <1>2, <2>1 DEF LiveNow, Base, Final
  <2> QED BY <1>1, <1>2, <1>5, <2>1, <2>2 DEF ForwardMember
<1> QED BY <1>3, <1>4, <1>5

-----------------------------------------------------------------------------
(* A deployment or an uninstall                                            *)

\* The ranks of the steps of a member.
LEMMA MemberRanks ==
  /\ \A m \in Members : /\ Rank(<<"stage", m>>) \in Int
                        /\ 2 <= Rank(<<"stage", m>>) /\ Rank(<<"stage", m>>) <= 3
  /\ \A m \in Members : /\ Rank(<<"takeAway", m>>) \in Int
                        /\ 6 <= Rank(<<"takeAway", m>>) /\ Rank(<<"takeAway", m>>) <= 7
  /\ \A m \in Members : /\ Rank(<<"install", m>>) \in Int
                        /\ 8 <= Rank(<<"install", m>>) /\ Rank(<<"install", m>>) <= 9
  /\ \A m \in Members : /\ Rank(<<"giveBack", m>>) \in Int
                        /\ 10 <= Rank(<<"giveBack", m>>) /\ Rank(<<"giveBack", m>>) <= 11
  /\ \A m \in Members : /\ Rank(<<"promote", m>>) \in Int
                        /\ 13 <= Rank(<<"promote", m>>) /\ Rank(<<"promote", m>>) <= 15
  /\ \A m \in Members : /\ Rank(<<"removeSource", m>>) \in Int
                        /\ 14 <= Rank(<<"removeSource", m>>) /\ Rank(<<"removeSource", m>>) <= 16
  /\ \A m \in Members : /\ Rank(<<"discard", m>>) \in Int
                        /\ 23 <= Rank(<<"discard", m>>) /\ Rank(<<"discard", m>>) <= 24
  /\ \A m \in Members : /\ Rank(<<"materialize", m>>) \in Int
                        /\ 28 <= Rank(<<"materialize", m>>) /\ Rank(<<"materialize", m>>) <= 29
  /\ \A m \in Members : /\ Rank(<<"remove", m>>) \in Int
                        /\ 30 <= Rank(<<"remove", m>>) /\ Rank(<<"remove", m>>) <= 32
  /\ \A m \in Members : /\ Rank(<<"putBack", m>>) \in Int
                        /\ 31 <= Rank(<<"putBack", m>>) /\ Rank(<<"putBack", m>>) <= 33
  /\ \A m \in Members : Rank(<<"promote", m>>) < Rank(<<"removeSource", m>>)
  /\ \A m \in Members : Rank(<<"remove", m>>) < Rank(<<"putBack", m>>)
BY Ranks DEF Members

\* How far a call is says what it has settled and what the live files are.
LEMMA ForwardGives ==
  ASSUME Typed, JournalSound, PlacesSound, Forward, ForwardBody
  PROVE  Settled /\ LiveSound
<1>1. \A m \in Members : ForwardMember(m)
  BY DEF ForwardBody
<1>2. LiveSound
  <2> SUFFICES ASSUME NEW m \in Members, m \notin disturbed
               PROVE  \/ disk["live"][m] = before[m]
                      \/ /\ m \in Displaces(journal)
                         /\ disk["live"][m] = journal.previous.adopted[m]
                      \/ m \in Installs(journal) /\ disk["live"][m] = New(journal)
                      \/ /\ m \in Had(journal) \cap ShouldMutate(journal)
                         /\ disk["live"][m] = NoFile
    BY DEF LiveSound
  <2>1. disk["live"][m] = LiveNow(m) \/ Left(m)
    BY <1>1 DEF ForwardMember
  <2>2. CASE Left(m)
    BY <2>2 DEF Left
  <2>3. CASE disk["live"][m] = LiveNow(m)
    BY <2>3 DEF LiveNow, Base, Final
  <2> QED BY <2>1, <2>2, <2>3
<1>3. Settled
  <2> SUFFICES ASSUME journal.phase = "cleanup"
               PROVE  /\ installed = Recorded(journal)
                      /\ \A m \in Members :
                           /\ disk["stage"][m] = NoFile /\ disk["promotion"][m] = NoFile
                           /\ disk["restore"][m] = NoFile
                           /\ journal.op = "deploy" /\ m \in Retains(journal) =>
                                disk["durable"][m] # NoFile
                           /\ m \notin disturbed => disk["live"][m] = Final(m) \/ Left(m)
    BY DEF Settled
  <2>1. Step("commit") \notin rest
    BY DEF ForwardBody, PhaseSound
  <2>2. /\ Step("commit") \in ForwardSteps(journal)
        /\ \A x \in rest, s \in ForwardSteps(journal) : Rank(x) < Rank(s) => s \in rest
    BY DEF Forward, Follows, rest, ForwardSteps
  <2>3. Rank(Step("commit")) = 17 /\ Rank(Step("record")) = 12
    BY Ranks
  <2>4. Step("record") \notin rest
    BY <2>1, <2>2, <2>3
  <2>5. ASSUME NEW m \in Members
        PROVE  /\ <<"install", m>> \notin rest /\ <<"giveBack", m>> \notin rest
               /\ <<"takeAway", m>> \notin rest /\ <<"promote", m>> \notin rest
    <3>1. \A x \in rest : ~(Rank(x) < 17)
      BY <2>1, <2>2, <2>3
    <3>2. /\ Rank(<<"install", m>>) < 17 /\ Rank(<<"giveBack", m>>) < 17
          /\ Rank(<<"takeAway", m>>) < 17 /\ Rank(<<"promote", m>>) < 17
      BY MemberRanks
    <3> QED BY <3>1, <3>2
  <2>6. installed = Recorded(journal)
    BY <2>4 DEF ForwardBody
  <2>7. ASSUME NEW m \in Members
        PROVE  /\ disk["stage"][m] = NoFile /\ disk["promotion"][m] = NoFile
               /\ disk["restore"][m] = NoFile
               /\ journal.op = "deploy" /\ m \in Retains(journal) =>
                    disk["durable"][m] # NoFile
               /\ m \notin disturbed => disk["live"][m] = Final(m) \/ Left(m)
    BY <1>1, <2>5, <2>7 DEF ForwardMember, LiveNow
  <2> QED BY <2>6, <2>7
<1> QED BY <1>2, <1>3

\* A step that goes forward without touching a file.
LEMMA ForwardQuiet ==
  ASSUME IInv, NEW s, At(s), s[1] \in ForwardNames, s # Step("finish"),
         s # <<"clean", "backup">>,
         Proceed, disk' = disk, journal' \in Journals, SameButPhase(journal, journal'),
         ~IsTerminal(journal'), installed' \in Receipts,
         UNCHANGED <<plan, gaveUp, faults, disturbances, history>>,
         PhaseSound', \A m \in Members : ForwardMember(m)',
         installed' = (IF Step("record") \in rest' THEN journal.previous
                       ELSE Recorded(journal)),
         journal'.phase \in {"planned", "verified", "staged"} =>
           journal.phase \in {"planned", "verified", "staged"} /\ installed' = installed,
         journal.phase = "cleanup" => journal'.phase = "cleanup",
         journal'.phase = "cleanup" =>
           journal.phase = "cleanup" \/ \A m \in Members : disk["stage"][m] = NoFile,
         \/ journal.phase # "cleanup" \/ Step("outcome") \in rest
         \/ journal'.phase = "cleanup" /\ Step("outcome") \notin rest'
  PROVE  IInv'
<1>1. /\ Forward /\ Typed /\ ~gaveUp /\ JournalSound /\ PlacesSound /\ Untouched /\ Kept
      /\ plan = NoPlan /\ rest \subseteq ForwardSteps(journal)
  BY AtForward DEF IInv
<1>2. /\ Script' /\ Forward' /\ ~Discarding' /\ ~Starting' /\ ~Returning'
      /\ todo' \in Seq(AnyStep) /\ rest' = rest \ {s}
  BY ForwardOn
<1>3. before' = before /\ disturbed' = disturbed /\ ~gaveUp'
  BY <1>1 DEF history
<1>4. Typed'
  BY <1>1, <1>2, <1>3, DiskIsTyped, TypedOn DEF Typed
<1>5. PlacesSound'
  BY <1>1, <1>3, MemberFrame DEF PlacesSound
<1>6. Untouched'
  BY <1>1, <1>3, UntouchedFrame
<1>7. Step("plan") \notin rest'
  BY <1>1, <1>2, NamesAre DEF ForwardNames, ForwardSteps
<1>8. Kept'
  BY <1>1, <1>3, <1>7, KeptFrame
<1>9. JournalSound'
  BY <1>1, <1>3, JournalFrame
<1>10. ForwardBody'
  <2>1. Recorded(journal') = Recorded(journal) /\ journal'.previous = journal.previous
    BY PhaseOnly DEF SameButPhase
  <2>2. <<"clean", "backup">> \notin rest' => \A m \in Members : disk'["backup"][m] = NoFile
    <3>1. ForwardBody
      BY AtForward
    <3>2. <<"clean", "backup">> \notin rest' => <<"clean", "backup">> \notin rest
      BY <1>2
    <3> QED BY <3>1, <3>2 DEF ForwardBody
  <2> QED BY <2>1, <2>2 DEF ForwardBody
<1> QED BY <1>2, <1>3, <1>4, <1>5, <1>6, <1>8, <1>9, <1>10, ForwardHolds

\* The steps of every forward call that its position speaks of.
LEMMA ForwardStepsAre ==
  ASSUME NEW j
  PROVE  /\ {Step("precondition"), Step("record"), Step("commit"), Step("cleanup"),
             <<"clean", "backup">>, Step("finish")} \subseteq ForwardSteps(j)
         /\ \A m : <<"takeAway", m>> \in ForwardSteps(j) <=> m \in Had(j) \cap ShouldMutate(j)
         /\ \A m : <<"install", m>> \in ForwardSteps(j) <=>
              j.op = "deploy" /\ m \in Installs(j)
         /\ \A m : <<"stage", m>> \in ForwardSteps(j) <=>
              j.op = "deploy" /\ m \in Installs(j)
         /\ \A m : <<"promote", m>> \in ForwardSteps(j) <=>
              j.op = "deploy" /\ m \in Retains(j)
         /\ \A m : <<"removeSource", m>> \in ForwardSteps(j) <=>
              j.op = "deploy" /\ m \in Retains(j)
         /\ \A m : <<"giveBack", m>> \in ForwardSteps(j) <=>
              j.op # "deploy" /\ m \in Displaces(j)
         /\ Step("download") \in ForwardSteps(j) <=> j.op = "deploy"
         /\ Step("staged") \in ForwardSteps(j) <=> j.op = "deploy"
         /\ Step("outcome") \in ForwardSteps(j) <=> j.op = "deploy"
         /\ <<"clean", "retained">> \in ForwardSteps(j) <=> j.op # "deploy"
BY DEF ForwardSteps

\* A transaction ends at once.
LEMMA EndHolds ==
  ASSUME IInv, ~gaveUp, todo' = <<>>, DiskTyped(disk'), installed' \in Receipts,
         journal' \in Journals, IsTerminal(journal'), plan' = NoPlan,
         UNCHANGED <<gaveUp, faults, disturbances, history>>
  PROVE  IInv'
<1>1. todo' \in Seq(AnyStep) /\ plan' \in [Members -> PlanWords]
  BY DEF NoPlan, PlanWords
<1>2. Typed'
  BY <1>1, TypedOn DEF IInv, history
<1>3. NoPlan' = NoPlan
  BY DEF NoPlan
<1>4. Script' /\ Reason'
  BY <1>3 DEF Script, Reason, Idle
<1> QED BY <1>2, <1>4 DEF IInv

\* The release is downloaded and verified, or the deployment fails.
LEMMA DownloadHolds ==
  ASSUME IInv, Download
  PROVE  IInv'
<1> DEFINE s == <<"download", "all">>
<1>1. At(s) /\ s[1] \in ForwardNames /\ s # Step("finish") /\ s # Step("precondition")
      /\ s # Step("cleanup") /\ s[2] \notin Members
  BY DEF Download, ForwardNames, Members
<1>2. /\ disk' = disk /\ installed' = installed
      /\ UNCHANGED <<plan, gaveUp, faults, disturbances, history>>
  BY DEF Download, Unchanged
<1>3. /\ Forward /\ ForwardBody /\ plan = NoPlan /\ ~gaveUp /\ Typed
      /\ s \in ForwardSteps(journal) /\ s \in rest
      /\ \A x \in rest : x = s \/ Rank(s) < Rank(x)
      /\ \A x \in ForwardSteps(journal) : Rank(s) < Rank(x) => x \in rest
  BY <1>1, AtForward DEF IInv
<1>4. installed \in Receipts /\ DiskTyped(disk) /\ journal.phase = "planned"
  BY <1>3, DiskIsTyped DEF Typed, ForwardBody, PhaseSound
<1>5. CASE Persist("verified") /\ Proceed
  <2>1. journal' \in Journals /\ journal'.phase = "verified"
        /\ SameButPhase(journal, journal')
    BY <1>3, <1>5, PersistIs DEF Phases
  <2>2. ~IsTerminal(journal')
    BY <2>1 DEF IsTerminal
  <2>3. rest' = rest \ {s}
    BY <1>1, <1>2, <1>5, <2>1, <2>2, ForwardOn
  <2>4. {Step("precondition"), Step("commit"), Step("record")} \subseteq rest'
    BY <1>3, <2>3, WholeRanks, ForwardStepsAre
  <2>5. PhaseSound'
    BY <2>1, <2>3, <2>4 DEF PhaseSound
  <2>6. \A m \in Members : ForwardMember(m)'
    BY <1>1, <1>2, <1>3, <2>1, <2>3, ForwardFrame DEF ForwardBody, history
  <2>7. installed' = (IF Step("record") \in rest' THEN journal.previous
                      ELSE Recorded(journal))
    BY <1>2, <1>3, <2>3, <2>4 DEF ForwardBody
  <2> QED BY <1>1, <1>2, <1>4, <1>5, <2>1, <2>2, <2>5, <2>6, <2>7, ForwardQuiet
<1>6. CASE Persist("failed") /\ todo' = <<>>
  <2>1. journal' \in Journals /\ journal'.phase = "failed"
    BY <1>3, <1>6, PersistIs DEF Phases
  <2> QED BY <1>2, <1>3, <1>4, <1>6, <2>1, EndHolds DEF IsTerminal
<1> QED BY <1>5, <1>6 DEF Download

-----------------------------------------------------------------------------
(* A call is left                                                          *)

\* Nothing changes but that unfinished copies are deleted.
Dropped ==
  \A p \in Places, m \in Members :
    disk'[p][m] = disk[p][m] \/ (disk[p][m] \in {Unowned, Partial} /\ disk'[p][m] = NoFile)

\* The files, the journal and the receipt of a transaction stay sound when the
\* call that works on it is left.
LEMMA LeftSound ==
  ASSUME Typed, JournalSound, PlacesSound, Untouched, Settled, LiveSound,
         DiskTyped(disk'), Dropped, SameButPhase(journal, journal'),
         installed' = installed, before' = before, disturbed' = disturbed,
         journal'.phase = journal.phase \/ journal'.phase = "rollingBack",
         journal.phase = "cleanup" =>
           journal'.phase = "cleanup" \/ journal.op = "deploy"
  PROVE  /\ JournalSound' /\ PlacesSound' /\ Untouched' /\ Settled' /\ LiveSound'
         /\ \A m \in Members : /\ disk'["live"][m] = disk["live"][m]
                               /\ disk'["backup"][m] = disk["backup"][m]
                               /\ disk'["durable"][m] = disk["durable"][m]
<1>1. \A m \in Members :
        /\ disk["live"][m] \notin {Unowned, Partial}
        /\ disk["retained"][m] \notin {Unowned, Partial}
        /\ disk["backup"][m] \notin {Unowned, Partial}
        /\ disk["durable"][m] \notin {Unowned, Partial}
  <2> SUFFICES ASSUME NEW m \in Members
               PROVE  /\ disk["live"][m] \notin {Unowned, Partial}
                      /\ disk["retained"][m] \notin {Unowned, Partial}
                      /\ disk["backup"][m] \notin {Unowned, Partial}
                      /\ disk["durable"][m] \notin {Unowned, Partial}
    OBVIOUS
  <2>1. /\ disk["live"][m] \in RealFile /\ disk["retained"][m] \in RealFile
        /\ before[m] \in RealFile
    BY DEF Typed
  <2>2. /\ Unowned \notin RealFile /\ Unowned # NoFile
        /\ Partial \notin RealFile /\ Partial # NoFile
    BY FilesDiffer DEF RealFile
  <2>3. disk["backup"][m] = NoFile \/ disk["backup"][m] \in Files
    BY DEF PlacesSound, MemberSound, BackupSound
  <2>4. disk["durable"][m] = NoFile \/ disk["durable"][m] = before[m]
    BY DEF PlacesSound, MemberSound, DurableSound
  <2> QED BY <2>1, <2>2, <2>3, <2>4 DEF RealFile
<1>2. \A m \in Members : /\ disk'["live"][m] = disk["live"][m]
                         /\ disk'["backup"][m] = disk["backup"][m]
                         /\ disk'["durable"][m] = disk["durable"][m]
                         /\ disk'["retained"][m] = disk["retained"][m]
  BY <1>1 DEF Dropped, Places
<1>3. \A p \in {"stage", "promotion", "restore"}, m \in Members :
        \/ disk'[p][m] = disk[p][m]
        \/ disk[p][m] \in {Unowned, Partial} /\ disk'[p][m] = NoFile
  BY DEF Dropped, Places
<1>4. \A m \in Members :
        /\ disk'["stage"][m] \in {disk["stage"][m], NoFile}
        /\ disk'["promotion"][m] \in {disk["promotion"][m], NoFile}
        /\ disk'["restore"][m] \in {disk["restore"][m], NoFile}
  BY <1>3
<1>5. /\ Installs(journal') = Installs(journal) /\ Had(journal') = Had(journal)
      /\ ShouldMutate(journal') = ShouldMutate(journal) /\ New(journal') = New(journal)
      /\ Retains(journal') = Retains(journal) /\ Displaces(journal') = Displaces(journal)
      /\ Recorded(journal') = Recorded(journal)
      /\ journal'.op = journal.op /\ journal'.prior = journal.prior
      /\ journal'.previous = journal.previous
  BY PhaseOnly DEF SameButPhase
<1>6. journal.op = "deploy" => Displaces(journal) = {} /\ journal.op # "uninstall"
  BY SetsAre
<1>7. PlacesSound'
  <2> SUFFICES ASSUME NEW m \in Members
               PROVE  MemberSound(m)'
    BY DEF PlacesSound
  <2>1. MemberSound(m)
    BY DEF PlacesSound
  <2>2. StageSound(m)'
    BY <1>4, <1>5, <1>6, <2>1 DEF MemberSound, StageSound
  <2>3. BackupSound(m)' /\ DurableSound(m)'
    BY <1>2, <1>5, <2>1 DEF MemberSound, BackupSound, DurableSound
  <2>4. PromotionSound(m)' /\ RestoreSound(m)'
    BY <1>2, <1>4, <1>5, <2>1 DEF MemberSound, PromotionSound, RestoreSound
  <2>5. RetainedSound(m)'
    BY <1>2, <1>5, <1>6, <2>1 DEF MemberSound, RetainedSound
  <2> QED BY <2>2, <2>3, <2>4, <2>5 DEF MemberSound
<1>8. JournalSound'
  BY JournalFrame
<1>9. Untouched'
  BY <1>2, <1>4, <1>5 DEF Untouched
<1>10. LiveSound'
  BY <1>2, <1>5 DEF LiveSound
<1>11. \A m \in Members : Final(m)' = Final(m) /\ (Left(m)' <=> Left(m))
  BY <1>2, <1>5 DEF Final, Base, Left
<1>12. Settled'
  BY <1>2, <1>4, <1>5, <1>11 DEF Settled
<1> QED BY <1>2, <1>7, <1>8, <1>9, <1>10, <1>12

\* A call that has nothing to do is of no kind.
LEMMA IdleIsNoKind ==
  rest = {} => ~Forward /\ ~Discarding /\ ~Starting /\ ~Returning
BY DEF Forward, Discarding, Starting, Returning

\* The call ends, with the transaction left for a recovery.
LEMMA IdleHolds ==
  ASSUME IInv, JournalSound, PlacesSound, Untouched, Settled, LiveSound, Kept,
         DiskTyped(disk'), Dropped, journal' \in Journals,
         SameButPhase(journal, journal'), ~IsTerminal(journal'), installed' = installed,
         journal'.phase = journal.phase \/ journal'.phase = "rollingBack",
         journal.phase = "cleanup" =>
           \/ journal'.phase = "cleanup"
           \/ journal.op = "deploy" /\ Step("plan") \in rest,
         todo' = <<>>, plan' = NoPlan, faults' \in 0 .. MaxFaults,
         UNCHANGED <<disturbances, history>>,
         gaveUp' \in BOOLEAN, gaveUp' => GivesUpOverThese'
  PROVE  IInv'
<1>1. Typed /\ before' = before /\ disturbed' = disturbed
  BY DEF IInv, history
<1>2. todo' \in Seq(AnyStep) /\ plan' \in [Members -> PlanWords] /\ NoPlan' = NoPlan
  BY DEF NoPlan, PlanWords
<1>3. Typed'
  BY <1>1, <1>2 DEF Typed, DiskTyped
<1>4. rest' = {}
  BY DEF rest, Elements
<1>5. Script' /\ Reason'
  BY <1>2 DEF Script, Reason, Idle
<1>6. /\ JournalSound' /\ PlacesSound' /\ Untouched' /\ Settled' /\ LiveSound'
      /\ \A m \in Members : /\ disk'["live"][m] = disk["live"][m]
                            /\ disk'["backup"][m] = disk["backup"][m]
                            /\ disk'["durable"][m] = disk["durable"][m]
  BY <1>1, LeftSound
<1>7. Kept'
  BY <1>1, <1>4, <1>6, KeptFrame
<1>8. ~Forward' /\ ~Discarding' /\ ~Starting' /\ ~Returning'
  BY <1>4 DEF Forward, Discarding, Starting, Returning
<1> QED BY <1>3, <1>5, <1>6, <1>7, <1>8 DEF IInv, Sound

\* What a rollback starts with.
LEMMA StartIs ==
  /\ RollBackSteps \in Seq(AnyStep) /\ Follows(RollBackSteps, StartSteps)
  /\ Elements(RollBackSteps) = StartSteps
<1>1. InOrder(<<Step("normalize")>>, {Step("normalize")}, 26, 26)
  <2>1. Rank(<<"normalize", "all">>) = 26 /\ <<"normalize", "all">> \in AnyStep
    BY Ranks, StepsAre DEF StartNames
  <2> QED BY <2>1, InOrderOne
<1>2. InOrder(<<Step("plan")>>, {Step("plan")}, 27, 27)
  <2>1. Rank(<<"plan", "all">>) = 27 /\ <<"plan", "all">> \in AnyStep
    BY Ranks, StepsAre DEF StartNames
  <2> QED BY <2>1, InOrderOne
<1>3. InOrder(<<Step("normalize")>> \o <<Step("plan")>>,
              {Step("normalize")} \cup {Step("plan")}, 26, 27)
  BY <1>1, <1>2, InOrderJoined
<1>4. RollBackSteps = <<Step("normalize")>> \o <<Step("plan")>>
  BY DEF RollBackSteps
<1>5. StartSteps = {Step("normalize")} \cup {Step("plan")}
  BY DEF StartSteps
<1>6. InOrder(RollBackSteps, StartSteps, 26, 27)
  BY <1>3, <1>4, <1>5
<1> QED BY <1>6, InOrderFollows

\* The call starts to roll back.
LEMMA StartHolds ==
  ASSUME IInv, JournalSound, PlacesSound, Untouched, Settled, LiveSound, Kept,
         ~IsTerminal(journal), DiskTyped(disk'), Dropped, journal' = journal,
         installed' = installed, Raise, plan' = NoPlan,
         \/ journal.phase # "cleanup"
         \/ journal.op = "deploy" /\ Step("outcome") \in rest,
         ~gaveUp', faults' \in 0 .. MaxFaults, gaveUp' \in BOOLEAN,
         UNCHANGED <<disturbances, history>>
  PROVE  IInv'
<1>1. Typed /\ before' = before /\ disturbed' = disturbed
  BY DEF IInv, history
<1>2. todo' \in Seq(AnyStep) /\ Follows(todo', StartSteps) /\ rest' = StartSteps
  BY StartIs DEF Raise, rest
<1>3. plan' \in [Members -> PlanWords] /\ NoPlan' = NoPlan
  BY DEF NoPlan, PlanWords
<1>4. Typed'
  BY <1>1, <1>2, <1>3 DEF Typed, DiskTyped
<1>5. Step("plan") \in rest' /\ Step("normalize") \in rest'
  BY <1>2 DEF StartSteps
<1>6. Starting'
  BY <1>2, <1>5 DEF Starting
<1>7. ~Forward' /\ ~Discarding' /\ ~Returning'
  BY <1>2 DEF Forward, Discarding, Returning, StartSteps
<1>8. Script' /\ Reason'
  BY <1>3, <1>6 DEF Script, Reason
<1>9. SameButPhase(journal, journal')
  BY DEF SameButPhase
<1>10. /\ JournalSound' /\ PlacesSound' /\ Untouched' /\ Settled' /\ LiveSound'
       /\ \A m \in Members : /\ disk'["live"][m] = disk["live"][m]
                             /\ disk'["backup"][m] = disk["backup"][m]
                             /\ disk'["durable"][m] = disk["durable"][m]
  BY <1>1, <1>9, LeftSound
<1>11. Kept'
  BY <1>1, <1>10, KeptFrame
<1>12. StartBody'
  BY <1>5 DEF StartBody
<1> QED BY <1>4, <1>6, <1>7, <1>8, <1>10, <1>11, <1>12 DEF IInv, Sound

-----------------------------------------------------------------------------
(* The steps that touch no file                                            *)

\* A call that goes forward does its next step and saves the journal, or not.
LEMMA ForwardNext ==
  ASSUME IInv, NEW s, At(s), s[1] \in ForwardNames, s # Step("finish"), Proceed,
         NEW p \in Phases \ {"committed", "rolledBack", "failed"},
         Persist(p) \/ (journal' = journal /\ p = journal.phase), plan' = plan
  PROVE  /\ journal' \in Journals /\ journal'.phase = p
         /\ SameButPhase(journal, journal') /\ ~IsTerminal(journal')
         /\ rest' = rest \ {s} /\ ForwardBody /\ Typed /\ JournalSound /\ PlacesSound
         /\ installed \in Receipts /\ journal \in Journals /\ DiskTyped(disk)
         /\ s \in ForwardSteps(journal) /\ s \in rest
         /\ rest \subseteq ForwardSteps(journal)
         /\ \A x \in rest : x = s \/ Rank(s) < Rank(x)
         /\ \A x \in ForwardSteps(journal) : Rank(s) < Rank(x) => x \in rest
<1>1. /\ ForwardBody /\ JournalSound /\ PlacesSound
      /\ s \in ForwardSteps(journal) /\ s \in rest
      /\ rest \subseteq ForwardSteps(journal)
      /\ \A x \in rest : x = s \/ Rank(s) < Rank(x)
      /\ \A x \in ForwardSteps(journal) : Rank(s) < Rank(x) => x \in rest
  BY AtForward
<1>2. Typed /\ installed \in Receipts /\ journal \in Journals /\ DiskTyped(disk)
  BY DiskIsTyped DEF IInv, Typed
<1>3. journal' \in Journals /\ journal'.phase = p /\ SameButPhase(journal, journal')
  BY <1>2, PersistIs DEF SameButPhase
<1>4. ~IsTerminal(journal')
  BY <1>3 DEF IsTerminal
<1>5. rest' = rest \ {s}
  BY <1>3, <1>4, ForwardOn
<1> QED BY <1>1, <1>2, <1>3, <1>4, <1>5

\* What is staged is recorded.
LEMMA StagedHolds ==
  ASSUME IInv, Staged
  PROVE  IInv'
<1> DEFINE s == <<"staged", "all">>
<1>1. At(s) /\ s[1] \in ForwardNames /\ s # Step("finish") /\ s[2] \notin Members
      /\ s # Step("cleanup") /\ s # Step("precondition")
  BY DEF Staged, ForwardNames, Members
<1>2. /\ disk' = disk /\ installed' = installed /\ Proceed /\ Persist("staged")
      /\ UNCHANGED <<plan, gaveUp, faults, disturbances, history>>
  BY DEF Staged, Unchanged
<1>3. "staged" \in Phases \ {"committed", "rolledBack", "failed"}
  BY DEF Phases
<1>4. /\ journal' \in Journals /\ journal'.phase = "staged"
      /\ SameButPhase(journal, journal') /\ ~IsTerminal(journal')
      /\ rest' = rest \ {s} /\ ForwardBody /\ installed \in Receipts
      /\ \A x \in rest : x = s \/ Rank(s) < Rank(x)
      /\ \A x \in ForwardSteps(journal) : Rank(s) < Rank(x) => x \in rest
  BY <1>1, <1>2, <1>3, ForwardNext
<1>5. /\ {Step("precondition"), Step("commit"), Step("record")} \subseteq rest
      /\ Step("download") \notin rest
  BY <1>4, WholeRanks, ForwardStepsAre
<1>6. PhaseSound' /\ journal.phase \in {"planned", "verified", "staged"}
  BY <1>4, <1>5 DEF PhaseSound, ForwardBody
<1>7. \A m \in Members : ForwardMember(m)'
  BY <1>1, <1>2, <1>4, ForwardFrame DEF ForwardBody, history
<1>8. installed' = (IF Step("record") \in rest' THEN journal.previous ELSE Recorded(journal))
  BY <1>2, <1>4, <1>5 DEF ForwardBody
<1>9. journal.phase # "cleanup" /\ journal'.phase # "cleanup"
  BY <1>4, <1>6
<1> QED BY <1>1, <1>2, <1>4, <1>6, <1>7, <1>8, <1>9, ForwardQuiet

\* The live files are the ones of the journal and are held from now on.
LEMMA PreconditionHolds ==
  ASSUME IInv, Precondition
  PROVE  IInv'
<1> DEFINE s == <<"precondition", "all">>
<1>1. At(s) /\ s[1] \in ForwardNames /\ s # Step("finish") /\ s[2] \notin Members
      /\ s # Step("cleanup")
  BY DEF Precondition, ForwardNames, Members
<1>2. /\ disk' = disk /\ installed' = installed /\ Proceed /\ Persist("committing")
      /\ UNCHANGED <<plan, gaveUp, faults, disturbances, history>>
  BY DEF Precondition, Unchanged
<1>3. "committing" \in Phases \ {"committed", "rolledBack", "failed"}
  BY DEF Phases
<1>4. /\ journal' \in Journals /\ journal'.phase = "committing"
      /\ SameButPhase(journal, journal') /\ ~IsTerminal(journal')
      /\ rest' = rest \ {s} /\ ForwardBody /\ installed \in Receipts
      /\ s \in rest /\ rest \subseteq ForwardSteps(journal)
      /\ \A x \in rest : x = s \/ Rank(s) < Rank(x)
      /\ \A x \in ForwardSteps(journal) : Rank(s) < Rank(x) => x \in rest
  BY <1>1, <1>2, <1>3, ForwardNext
<1>5. /\ {Step("commit"), Step("record")} \subseteq rest
      /\ Step("download") \notin rest
  BY <1>4, WholeRanks, ForwardStepsAre
<1>6. PhaseSound' /\ journal.phase \in {"planned", "verified", "staged"}
  BY <1>4, <1>5 DEF PhaseSound, ForwardBody
<1>7. \A m \in Members : <<"takeAway", m>> \in rest => Is(disk["live"][m], journal.prior[m])
  <2> SUFFICES ASSUME NEW m \in Members, <<"takeAway", m>> \in rest
               PROVE  Is(disk["live"][m], journal.prior[m])
    OBVIOUS
  <2>1. m \in Had(journal)
    BY <1>4, ForwardStepsAre
  <2>2. ~Missing(m) /\ ~Altered(m)
    BY DEF Precondition
  <2> QED BY <2>1, <2>2 DEF Altered, Checked
<1>8. \A m \in Members : ForwardMember(m)'
  BY <1>1, <1>2, <1>4, <1>7, ForwardFrame DEF ForwardBody, history
<1>9. installed' = (IF Step("record") \in rest' THEN journal.previous ELSE Recorded(journal))
  BY <1>2, <1>4, <1>5 DEF ForwardBody
<1>10. journal.phase # "cleanup" /\ journal'.phase # "cleanup"
       /\ journal'.phase \notin {"planned", "verified", "staged"}
  BY <1>4, <1>6
<1> QED BY <1>1, <1>2, <1>4, <1>6, <1>8, <1>9, <1>10, ForwardQuiet

\* The receipt of a transaction is one.
LEMMA RecordedIs ==
  ASSUME Typed, JournalSound
  PROVE  Recorded(journal) \in Receipts
<1>1. journal \in Journals /\ journal.release \in Releases /\ before \in [Members -> RealFile]
  BY DEF Typed, JournalSound
<1>2. journal.previous \in Receipts /\ journal.previous.adopted \in [Members -> RealFile]
  BY <1>1 DEF Journals, Receipts
<1>3. NoFile \in RealFile
  BY DEF RealFile
<1>4. CASE journal.op = "uninstall"
  BY <1>3, <1>4 DEF Recorded, NotInstalled, Receipts
<1>5. CASE journal.op # "uninstall"
  <2>1. journal.prior = before
    BY <1>1, <1>5 DEF Journals, JournalSound
  <2> DEFINE adopted == [m \in Members |->
                           IF m \in Retains(journal) /\ journal.previous.adopted[m] = NoFile
                           THEN journal.prior[m] ELSE journal.previous.adopted[m]]
  <2>2. adopted \in [Members -> RealFile]
    BY <1>1, <1>2, <2>1
  <2>3. Recorded(journal) = [release |-> journal.release, adopted |-> adopted]
    BY <1>5 DEF Recorded
  <2> HIDE DEF adopted
  <2> QED BY <1>1, <2>2, <2>3 DEF Receipts
<1> QED BY <1>4, <1>5

\* The receipt is written.
LEMMA RecordHolds ==
  ASSUME IInv, Record
  PROVE  IInv'
<1> DEFINE s == <<"record", "all">>
<1>1. At(s) /\ s[1] \in ForwardNames /\ s # Step("finish") /\ s[2] \notin Members
      /\ s # Step("cleanup") /\ s # Step("precondition")
  BY DEF Record, ForwardNames, Members
<1>2. /\ disk' = disk /\ installed' = Recorded(journal) /\ Proceed /\ journal' = journal
      /\ UNCHANGED <<plan, gaveUp, faults, disturbances, history>>
  BY DEF Record, Unchanged, Recorded
<1>3. journal.phase \in Phases \ {"committed", "rolledBack", "failed"}
  BY <1>1, AtForward DEF IInv, Typed, Journals, IsTerminal
<1>4. /\ journal' \in Journals /\ SameButPhase(journal, journal') /\ ~IsTerminal(journal')
      /\ rest' = rest \ {s} /\ ForwardBody /\ Typed /\ JournalSound
      /\ s \in rest /\ rest \subseteq ForwardSteps(journal)
      /\ \A x \in rest : x = s \/ Rank(s) < Rank(x)
      /\ \A x \in ForwardSteps(journal) : Rank(s) < Rank(x) => x \in rest
  BY <1>1, <1>2, <1>3, ForwardNext
<1>5. Step("commit") \in rest /\ Step("precondition") \notin rest
      /\ Step("download") \notin rest
  BY <1>1, <1>4, WholeRanks, ForwardStepsAre
<1>6. PhaseSound' /\ journal.phase = "committing"
  BY <1>2, <1>4, <1>5 DEF PhaseSound, ForwardBody
<1>7. \A m \in Members : ForwardMember(m)'
  BY <1>1, <1>2, <1>4, ForwardFrame DEF ForwardBody, history
<1>8. installed' = (IF Step("record") \in rest' THEN journal.previous ELSE Recorded(journal))
  BY <1>2, <1>4
<1>9. installed' \in Receipts
  BY <1>2, <1>4, RecordedIs
<1>10. journal.phase # "cleanup" /\ journal'.phase # "cleanup"
       /\ journal'.phase \notin {"planned", "verified", "staged"}
  BY <1>2, <1>6
<1> QED BY <1>1, <1>2, <1>4, <1>6, <1>7, <1>8, <1>9, <1>10, ForwardQuiet

\* The transaction is committed.
LEMMA CommitHolds ==
  ASSUME IInv, Commit
  PROVE  IInv'
<1> DEFINE s == <<"commit", "all">>
<1>1. At(s) /\ s[1] \in ForwardNames /\ s # Step("finish") /\ s[2] \notin Members
      /\ s # Step("cleanup") /\ s # Step("precondition")
  BY DEF Commit, ForwardNames, Members
<1>2. /\ disk' = disk /\ installed' = installed /\ Proceed /\ Persist("cleanup")
      /\ UNCHANGED <<plan, gaveUp, faults, disturbances, history>>
  BY DEF Commit, Unchanged
<1>3. "cleanup" \in Phases \ {"committed", "rolledBack", "failed"}
  BY DEF Phases
<1>4. /\ journal' \in Journals /\ journal'.phase = "cleanup"
      /\ SameButPhase(journal, journal') /\ ~IsTerminal(journal')
      /\ rest' = rest \ {s} /\ ForwardBody /\ installed \in Receipts
      /\ s \in rest /\ rest \subseteq ForwardSteps(journal)
      /\ \A x \in rest : x = s \/ Rank(s) < Rank(x)
      /\ \A x \in ForwardSteps(journal) : Rank(s) < Rank(x) => x \in rest
  BY <1>1, <1>2, <1>3, ForwardNext
<1>5. Step("precondition") \notin rest /\ Step("download") \notin rest
      /\ Step("record") \notin rest
  BY <1>1, <1>4, WholeRanks, ForwardStepsAre
<1>6. PhaseSound' /\ journal.phase = "committing"
  BY <1>4, <1>5 DEF PhaseSound, ForwardBody
<1>7. \A m \in Members : ForwardMember(m)'
  BY <1>1, <1>2, <1>4, ForwardFrame DEF ForwardBody, history
<1>8. installed' = (IF Step("record") \in rest' THEN journal.previous ELSE Recorded(journal))
  BY <1>2, <1>4, <1>5 DEF ForwardBody
<1>9. \A m \in Members : disk["stage"][m] = NoFile
  <2>1. \A x \in rest : ~(Rank(x) < 17)
    BY <1>4, WholeRanks, RankIsNumber
  <2>2. ASSUME NEW m \in Members
        PROVE  <<"install", m>> \notin rest /\ <<"giveBack", m>> \notin rest
    <3>1. Rank(<<"install", m>>) < 17 /\ Rank(<<"giveBack", m>>) < 17
      BY MemberRanks
    <3> QED BY <2>1, <3>1
  <2> QED BY <1>4, <2>2 DEF ForwardBody, ForwardMember
<1>10. journal.phase # "cleanup" /\ journal'.phase \notin {"planned", "verified", "staged"}
  BY <1>4, <1>6
<1> QED BY <1>1, <1>2, <1>4, <1>6, <1>7, <1>8, <1>9, <1>10, ForwardQuiet

\* The receipt and the live files of a committed transaction that no other
\* program disturbed are the ones its outcome asks for.
LEMMA OutcomeIs ==
  ASSUME Typed, JournalSound, PlacesSound, Settled, journal.phase = "cleanup",
         disturbed = {}, ~InTheWay
  PROVE  OutcomeHolds(journal)
<1>1. /\ installed = Recorded(journal)
      /\ \A m \in Members :
           /\ journal.op = "deploy" /\ m \in Retains(journal) => disk["durable"][m] # NoFile
           /\ disk["live"][m] = Final(m) \/ Left(m)
  BY DEF Settled
<1>2. \A m \in Members : ~Left(m)
  BY DEF Left, InTheWay
<1>3. /\ journal.op \in {"deploy", "uninstall"} /\ journal \in Journals
      /\ journal.previous.adopted \in [Members -> RealFile]
  BY DEF Typed, Journals, Receipts
<1>4. \A p \in Places, m \in Members : disk[p][m] \in AnyFile
  BY DiskIsTyped
<1>5. CASE journal.op = "deploy"
  <2>1. \A m \in Members : m \notin Displaces(journal)
    BY <1>5, SetsAre
  <2>2. /\ journal.prior = before
        /\ \A m \in Members : m \in Had(journal) <=> before[m] # NoFile
    BY <1>5, PriorIs DEF JournalSound
  <2>3. ASSUME NEW m \in Members
        PROVE  CASE m \in Installs(journal) -> disk["live"][m].bytes = journal.release
                 [] m \notin ShouldMutate(journal) -> Is(disk["live"][m], journal.prior[m])
                 [] OTHER -> disk["live"][m] = NoFile
    <3>1. m \in Installs(journal) => m \in ShouldMutate(journal)
      BY SetsAre
    <3>2. disk["live"][m] = Final(m)
      BY <1>1, <1>2
    <3>3. CASE m \in Installs(journal)
      BY <3>1, <3>2, <3>3, PriorIs DEF Final
    <3>4. CASE m \notin ShouldMutate(journal)
      <4>1. disk["live"][m] = before[m] /\ before[m] \in RealFile
        BY <2>1, <3>1, <3>2, <3>4 DEF Final, Base, Typed
      <4>2. Is(disk["live"][m], journal.prior[m])
        BY <1>5, <4>1, PriorIs, DiskIsTyped
      <4> QED BY <3>1, <3>4, <4>2
    <3>5. CASE m \in ShouldMutate(journal) /\ m \notin Installs(journal)
      <4>1. disk["live"][m] = NoFile
        BY <2>1, <2>2, <3>2, <3>5 DEF Final, Base
      <4> QED BY <3>5, <4>1
    <3> QED BY <3>3, <3>4, <3>5
  <2>4. installed.release = journal.release
    BY <1>1, <1>5 DEF Recorded
  <2>5. ASSUME NEW m \in Members
        PROVE  \/ Is(disk[BackupPlace(journal, m)][m], installed.adopted[m])
               \/ installed.adopted[m] = NoFile
    <3>1. installed.adopted[m] = IF m \in Retains(journal)
                                      /\ journal.previous.adopted[m] = NoFile
                                 THEN before[m] ELSE journal.previous.adopted[m]
      BY <1>1, <1>5, <2>2 DEF Recorded
    <3>2. CASE m \in Retains(journal) /\ journal.previous.adopted[m] = NoFile
      <4>1. disk["durable"][m] = before[m]
        BY <1>1, <1>5, <3>2 DEF PlacesSound, MemberSound, DurableSound
      <4>2. "durable" \in Places /\ before[m] \in RealFile
        BY DEF Places, Typed
      <4>3. Is(disk["durable"][m], before[m])
        BY <1>4, <4>1, <4>2, IsFile
      <4> QED BY <3>1, <3>2, <4>3 DEF BackupPlace
    <3>3. CASE journal.previous.adopted[m] # NoFile
      <4>1. disk["retained"][m] = journal.previous.adopted[m]
        BY <1>5 DEF PlacesSound, MemberSound, RetainedSound
      <4>2. "retained" \in Places /\ journal.previous.adopted[m] \in RealFile
        BY <1>3 DEF Places
      <4>3. Is(disk["retained"][m], journal.previous.adopted[m])
        BY <1>4, <4>1, <4>2, IsFile
      <4> QED BY <3>1, <3>3, <4>3 DEF BackupPlace
    <3> QED BY <3>1, <3>2, <3>3
  <2> QED BY <1>5, <2>3, <2>4, <2>5 DEF OutcomeHolds, DeployedOutcome
<1>6. CASE journal.op = "uninstall"
  <2>1. ~Managed(installed)
    BY <1>1, <1>6 DEF Recorded, NotInstalled, Managed
  <2>2. ASSUME NEW m \in Members
        PROVE  \/ Is(disk["live"][m], journal.previous.adopted[m])
               \/ /\ m = "manifest" /\ ~ManagesManifest(journal.previous)
                  /\ m \notin Displaces(journal)
    <3>1. disk["live"][m] = Final(m) /\ m \notin Installs(journal)
      BY <1>1, <1>2, <1>6, SetsAre
    <3>2. disk["live"][m] \in AnyFile /\ journal.previous.adopted[m] \in RealFile
      BY <1>3, DiskIsTyped
    <3>3. CASE disk["live"][m] = journal.previous.adopted[m]
      BY <3>2, <3>3, IsFile
    <3>4. CASE disk["live"][m] # journal.previous.adopted[m]
      <4>1. m \notin Displaces(journal) /\ journal.previous.adopted[m] = NoFile
        BY <1>6, <3>1, <3>4, SetsAre DEF Final
      <4>2. m \notin ShouldMutate(journal)
        BY <1>6, <3>1, <3>4, <4>1, PriorIs DEF Final, Base
      <4>3. m # "dll" /\ ~ManagesManifest(journal.previous)
        BY <4>2 DEF ShouldMutate, Members
      <4> QED BY <4>1, <4>3 DEF Members
    <3> QED BY <3>3, <3>4
  <2> QED BY <1>6, <2>1, <2>2 DEF OutcomeHolds, RemovedOutcome
<1> QED BY <1>3, <1>5, <1>6

\* A deployment that sees another outcome than its own rolls back.
LEMMA OutcomeStepHolds ==
  ASSUME IInv, Outcome
  PROVE  IInv'
<1> DEFINE s == <<"outcome", "all">>
<1>1. At(s) /\ s[1] \in ForwardNames /\ s # Step("finish") /\ s[2] \notin Members
      /\ s # Step("cleanup") /\ s # Step("precondition")
  BY DEF Outcome, ForwardNames, Members
<1>2. /\ disk' = disk /\ installed' = installed /\ journal' = journal
      /\ UNCHANGED <<plan, gaveUp, faults, disturbances, history>>
  BY DEF Outcome, Unchanged
<1>3. /\ ForwardBody /\ Typed /\ JournalSound /\ PlacesSound /\ Untouched /\ Kept
      /\ ~IsTerminal(journal) /\ ~gaveUp /\ Forward /\ plan = NoPlan
      /\ s \in rest /\ rest \subseteq ForwardSteps(journal) /\ DiskTyped(disk)
      /\ \A x \in rest : x = s \/ Rank(s) < Rank(x)
      /\ \A x \in ForwardSteps(journal) : Rank(s) < Rank(x) => x \in rest
  BY <1>1, AtForward, DiskIsTyped DEF IInv
<1>4. Step("commit") \notin rest /\ Step("precondition") \notin rest
      /\ Step("download") \notin rest /\ Step("record") \notin rest
  BY <1>1, <1>3, WholeRanks, EndRanks
<1>5. journal.phase = "cleanup" /\ journal.op = "deploy"
  BY <1>3, <1>4, ForwardStepsAre DEF ForwardBody, PhaseSound
<1>6. CASE Proceed
  <2>1. journal.phase \in Phases \ {"committed", "rolledBack", "failed"}
    BY <1>5 DEF Phases
  <2>2. /\ journal' \in Journals /\ SameButPhase(journal, journal')
        /\ ~IsTerminal(journal') /\ rest' = rest \ {s} /\ installed \in Receipts
    BY <1>1, <1>2, <1>6, <2>1, ForwardNext
  <2>3. PhaseSound'
    BY <1>2, <1>4, <1>5, <2>2 DEF PhaseSound
  <2>4. \A m \in Members : ForwardMember(m)'
    BY <1>1, <1>2, <1>3, <2>2, ForwardFrame DEF ForwardBody, history
  <2>5. installed' = (IF Step("record") \in rest' THEN journal.previous
                      ELSE Recorded(journal))
    BY <1>2, <1>3, <1>4, <2>2 DEF ForwardBody
  <2> QED BY <1>1, <1>2, <1>3, <1>5, <1>6, <2>2, <2>3, <2>4, <2>5, ForwardQuiet
<1>7. CASE Raise
  <2>1. Settled /\ LiveSound
    BY <1>3, ForwardGives
  <2>2. faults' \in 0 .. MaxFaults /\ gaveUp' \in BOOLEAN
    BY <1>2, <1>3 DEF Typed
  <2>3. Dropped
    BY <1>2 DEF Dropped
  <2> QED BY <1>2, <1>3, <1>5, <1>7, <2>1, <2>2, <2>3, StartHolds
<1> QED BY <1>6, <1>7 DEF Outcome

\* A committed transaction whose outcome is another one stays to be recovered.
LEMMA CleanupHolds ==
  ASSUME IInv, Cleanup
  PROVE  IInv'
<1> DEFINE s == <<"cleanup", "all">>
<1>1. At(s) /\ s[1] \in ForwardNames /\ s # Step("finish") /\ s[2] \notin Members
      /\ s # Step("precondition")
  BY DEF Cleanup, ForwardNames, Members
<1>2. /\ disk' = disk /\ installed' = installed /\ journal' = journal
      /\ UNCHANGED <<plan, faults, disturbances, history>>
  BY DEF Cleanup
<1>3. /\ ForwardBody /\ Typed /\ JournalSound /\ PlacesSound /\ Untouched /\ Kept
      /\ ~IsTerminal(journal) /\ ~gaveUp /\ Forward /\ plan = NoPlan
      /\ s \in rest /\ rest \subseteq ForwardSteps(journal) /\ DiskTyped(disk)
      /\ \A x \in rest : x = s \/ Rank(s) < Rank(x)
  BY <1>1, AtForward, DiskIsTyped DEF IInv
<1>4. Step("commit") \notin rest /\ Step("precondition") \notin rest
      /\ Step("download") \notin rest /\ Step("record") \notin rest
      /\ Step("outcome") \notin rest
  BY <1>1, <1>3, WholeRanks, EndRanks
<1>5. journal.phase = "cleanup"
  BY <1>3, <1>4 DEF ForwardBody, PhaseSound
<1>6. CASE OutcomeHolds(journal) /\ Proceed /\ UNCHANGED gaveUp
  <2>1. journal.phase \in Phases \ {"committed", "rolledBack", "failed"}
    BY <1>5 DEF Phases
  <2>2. /\ journal' \in Journals /\ SameButPhase(journal, journal')
        /\ ~IsTerminal(journal') /\ rest' = rest \ {s} /\ installed \in Receipts
    BY <1>1, <1>2, <1>6, <2>1, ForwardNext
  <2>3. PhaseSound'
    BY <1>2, <1>4, <1>5, <2>2 DEF PhaseSound
  <2>4. ASSUME NEW m \in Members, m \notin disturbed
        PROVE  disk["live"][m] = LiveNow(m)
    <3>1. disk["live"][m] = LiveNow(m) \/ Left(m)
      BY <1>3, <2>4 DEF ForwardBody, ForwardMember
    <3>2. CASE Left(m)
      <4>1. m \in Displaces(journal) /\ journal.op = "uninstall"
        BY <3>2, SetsAre DEF Left
      <4>2. Is(disk["live"][m], journal.previous.adopted[m])
        BY <1>6, <4>1 DEF OutcomeHolds, RemovedOutcome
      <4>3. disk["live"][m] \in AnyFile /\ journal.previous.adopted[m] \in RealFile
        BY <1>3, DiskIsTyped DEF Typed, Journals, Receipts
      <4>4. disk["live"][m] = journal.previous.adopted[m]
        BY <4>2, <4>3, IsFile
      <4>5. \A x \in rest : ~(Rank(x) < 19)
        BY <1>3, EndRanks, RankIsNumber
      <4>6. Rank(<<"install", m>>) < 19 /\ Rank(<<"giveBack", m>>) < 19
            /\ Rank(<<"takeAway", m>>) < 19
        BY MemberRanks
      <4>7. <<"install", m>> \notin rest /\ <<"giveBack", m>> \notin rest
            /\ <<"takeAway", m>> \notin rest
        BY <4>5, <4>6
      <4>8. m \notin Installs(journal)
        BY <4>1, SetsAre
      <4> QED BY <4>1, <4>4, <4>7, <4>8 DEF LiveNow, Final
    <3> QED BY <3>1, <3>2
  <2>5. \A m \in Members : ForwardMember(m)'
    BY <1>1, <1>2, <1>3, <2>2, <2>4, ForwardFrame DEF ForwardBody, history
  <2>6. installed' = (IF Step("record") \in rest' THEN journal.previous
                      ELSE Recorded(journal))
    BY <1>2, <1>3, <1>4, <2>2 DEF ForwardBody
  <2> QED BY <1>1, <1>2, <1>3, <1>4, <1>5, <1>6, <2>2, <2>3, <2>5, <2>6, ForwardQuiet
<1>7. CASE ~OutcomeHolds(journal) /\ todo' = <<>> /\ gaveUp' = TRUE
  <2>1. Settled /\ LiveSound
    BY <1>3, ForwardGives
  <2>2. faults' \in 0 .. MaxFaults
    BY <1>2, <1>3 DEF Typed
  <2>3. Dropped /\ SameButPhase(journal, journal') /\ journal' \in Journals
    BY <1>2, <1>3 DEF Dropped, SameButPhase, Typed
  <2>4. disturbed # {} \/ InTheWay
    BY <1>3, <1>5, <1>7, <2>1, OutcomeIs
  <2>5. GivesUpOverThese'
    BY <1>2, <2>4 DEF GivesUpOverThese, InTheWay, history
  <2> QED BY <1>2, <1>3, <1>5, <1>7, <2>1, <2>2, <2>3, <2>5, IdleHolds
<1> QED BY <1>6, <1>7 DEF Cleanup

-----------------------------------------------------------------------------
(* The steps that touch a file                                             *)

\* The finish is the last step of a call that goes forward.
LEMMA FinishIsLast ==
  ASSUME NEW j, NEW x \in ForwardSteps(j)
  PROVE  x = Step("finish") \/ Rank(x) < 22
<1>1. Rank(x) \in Int
  BY RankIsNumber
<1>2. CASE x \in {Step("precondition"), Step("record"), Step("commit"), Step("cleanup"),
                  <<"clean", "backup">>, <<"clean", "retained">>, Step("finish"),
                  Step("download"), Step("staged"), Step("outcome")}
  BY <1>2, WholeRanks, EndRanks
<1>3. ASSUME NEW m \in Members,
             x \in {<<"takeAway", m>>, <<"stage", m>>, <<"install", m>>, <<"promote", m>>,
                    <<"removeSource", m>>, <<"giveBack", m>>}
      PROVE  Rank(x) < 22
  BY <1>3, MemberRanks
<1>4. /\ Had(j) \cap ShouldMutate(j) \subseteq Members /\ Installs(j) \subseteq Members
      /\ Retains(j) \subseteq Members /\ Displaces(j) \subseteq Members
  BY SetsAre
<1> QED BY <1>2, <1>3, <1>4 DEF ForwardSteps

\* What touches a member comes before the cleanup of the backups.
LEMMA MembersComeFirst ==
  ASSUME NEW j, NEW x \in ForwardSteps(j), x[2] \in Members
  PROVE  Rank(x) < Rank(<<"clean", "backup">>)
<1>1. x \notin {Step("precondition"), Step("record"), Step("commit"), Step("cleanup"),
                <<"clean", "backup">>, <<"clean", "retained">>, Step("finish"),
                Step("download"), Step("staged"), Step("outcome")}
  BY DEF Members
<1>2. ASSUME NEW m \in Members,
             x \in {<<"takeAway", m>>, <<"stage", m>>, <<"install", m>>, <<"promote", m>>,
                    <<"removeSource", m>>, <<"giveBack", m>>}
      PROVE  Rank(x) < Rank(<<"clean", "backup">>)
  BY <1>2, MemberRanks, EndRanks
<1>3. /\ Had(j) \cap ShouldMutate(j) \subseteq Members /\ Installs(j) \subseteq Members
      /\ Retains(j) \subseteq Members /\ Displaces(j) \subseteq Members
  BY SetsAre
<1> QED BY <1>1, <1>2, <1>3 DEF ForwardSteps

\* The transaction has ended.
LEMMA FinishHolds ==
  ASSUME IInv, Finish
  PROVE  IInv'
<1> DEFINE s == <<"finish", "all">>
<1>1. At(s) /\ s[1] \in ForwardNames
  BY DEF Finish, ForwardNames
<1>2. /\ disk' = disk /\ installed' = installed /\ Proceed /\ Persist("committed")
      /\ UNCHANGED <<plan, gaveUp, faults, disturbances, history>>
  BY DEF Finish, Unchanged
<1>3. Forward /\ Typed /\ ~gaveUp /\ plan = NoPlan /\ DiskTyped(disk)
      /\ installed \in Receipts
  BY <1>1, AtForward, DiskIsTyped DEF IInv, Typed
<1>4. Follows(todo, ForwardSteps(journal))
  BY <1>3 DEF Forward
<1>5. /\ todo' \in Seq(AnyStep) /\ rest' = rest \ {s} /\ rest \subseteq ForwardSteps(journal)
      /\ \A x \in rest : x = s \/ Rank(s) < Rank(x)
  BY <1>1, <1>2, <1>3, <1>4, AtFollows
<1>6. rest' = {}
  <2> SUFFICES ASSUME NEW x \in rest, x # s
               PROVE  FALSE
    BY <1>5
  <2>1. Rank(x) < 22 /\ Rank(s) < Rank(x)
    BY <1>5, FinishIsLast
  <2>2. Rank(s) = 22 /\ Rank(x) \in Int
    BY EndRanks, RankIsNumber
  <2> QED BY <2>1, <2>2
<1>7. todo' = <<>>
  BY <1>5, <1>6, NoSteps DEF rest
<1>8. journal' \in Journals /\ IsTerminal(journal')
  BY <1>2, <1>3, PersistIs DEF Phases, IsTerminal
<1> QED BY <1>2, <1>3, <1>7, <1>8, EndHolds

\* A step that touches the files of one member.
LEMMA ForwardMoves ==
  ASSUME IInv, NEW m \in Members, NEW s, At(s), s[1] \in ForwardNames, s[2] = m,
         Proceed \/ todo' = todo, journal' = journal, installed' = installed,
         UNCHANGED <<plan, gaveUp, faults, disturbances, history>>, DiskTyped(disk'),
         \A p \in Places, n \in Members : n # m => disk'[p][n] = disk[p][n],
         MemberSound(m)', ForwardMember(m)', Untouched',
         m \notin disturbed /\ before[m] # NoFile
           /\ (journal.phase # "cleanup" \/ Step("outcome") \in rest) =>
              before[m] \in {disk'["live"][m], disk'["backup"][m], disk'["durable"][m]}
  PROVE  IInv'
<1>1. /\ Forward /\ ForwardBody /\ Typed /\ ~gaveUp /\ JournalSound /\ PlacesSound /\ Kept
      /\ ~IsTerminal(journal) /\ plan = NoPlan /\ rest \subseteq ForwardSteps(journal)
  BY AtForward DEF IInv
<1>2. s # Step("finish") /\ "all" \notin Members
  BY DEF Members
<1>3. SameButPhase(journal, journal') /\ ~IsTerminal(journal')
  BY <1>1 DEF SameButPhase
<1>4. /\ Script' /\ Forward' /\ ~Discarding' /\ ~Starting' /\ ~Returning'
      /\ todo' \in Seq(AnyStep) /\ (rest' = rest \/ rest' = rest \ {s})
  BY <1>1, <1>2, <1>3, ForwardOn, ForwardWaits
<1>5. before' = before /\ disturbed' = disturbed /\ ~gaveUp'
  BY <1>1 DEF history
<1>6. Typed'
  BY <1>1, <1>4, <1>5, TypedOn DEF Typed
<1>7. ASSUME NEW n \in Members
      PROVE  MemberSound(n)' /\ ForwardMember(n)'
  <2>1. CASE n = m
    BY <2>1
  <2>2. CASE n # m
    <3>1. MemberSound(n) /\ ForwardMember(n)
      BY <1>1 DEF PlacesSound, ForwardBody
    <3>2. \A p \in Places : disk'[p][n] = disk[p][n]
      BY <2>2
    <3>3. MemberSound(n)'
      BY <1>3, <1>5, <3>1, <3>2, MemberFrame
    <3>4. s # Step("precondition") /\ s # Step("cleanup") /\ s[2] # n
      BY <1>2, <2>2
    <3>5. ForwardMember(n)'
      BY <1>3, <1>4, <1>5, <3>1, <3>2, <3>4, ForwardFrame
    <3> QED BY <3>3, <3>5
  <2> QED BY <2>1, <2>2
<1>8. /\ Step("download") \in rest' <=> Step("download") \in rest
      /\ Step("precondition") \in rest' <=> Step("precondition") \in rest
      /\ Step("commit") \in rest' <=> Step("commit") \in rest
      /\ Step("record") \in rest' <=> Step("record") \in rest
      /\ Step("outcome") \in rest' <=> Step("outcome") \in rest
      /\ Step("plan") \in rest' <=> Step("plan") \in rest
  BY <1>2, <1>4
<1>9. ForwardBody'
  <2>1. PhaseSound'
    BY <1>1, <1>8 DEF ForwardBody, PhaseSound
  <2>2. Recorded(journal') = Recorded(journal)
    BY <1>3, PhaseOnly
  <2>3. <<"clean", "backup">> \in rest'
    <3>1. s \in rest /\ Follows(todo, ForwardSteps(journal))
      BY <1>1, AtForward DEF Forward
    <3>2. Rank(s) < Rank(<<"clean", "backup">>)
      BY <1>1, <3>1, MembersComeFirst
    <3>3. <<"clean", "backup">> \in ForwardSteps(journal)
      BY ForwardStepsAre
    <3>4. <<"clean", "backup">> \in rest
      BY <3>1, <3>2, <3>3 DEF Follows, rest
    <3>5. s # <<"clean", "backup">>
      BY DEF Members
    <3> QED BY <1>4, <3>4, <3>5
  <2> QED BY <1>1, <1>7, <1>8, <2>1, <2>2, <2>3 DEF ForwardBody
<1>10. Kept'
  <2>1. Step("plan") \notin rest
    BY <1>1 DEF ForwardSteps
  <2> SUFFICES ASSUME journal.phase # "cleanup" \/ Step("outcome") \in rest,
                      NEW n \in Members, n \notin disturbed, before[n] # NoFile
               PROVE  before[n] \in {disk'["live"][n], disk'["backup"][n], disk'["durable"][n]}
    BY <1>5, <1>8, <2>1 DEF Kept
  <2>2. CASE n = m
    BY <2>2
  <2>3. CASE n # m
    <3>1. /\ disk'["live"][n] = disk["live"][n] /\ disk'["backup"][n] = disk["backup"][n]
          /\ disk'["durable"][n] = disk["durable"][n]
      BY <2>3 DEF Places
    <3> QED BY <1>1, <3>1 DEF Kept
  <2> QED BY <2>2, <2>3
<1>11. JournalSound' /\ PlacesSound'
  BY <1>1, <1>3, <1>5, <1>7, JournalFrame DEF PlacesSound
<1> QED BY <1>4, <1>5, <1>6, <1>9, <1>10, <1>11, ForwardHolds

\* The release is staged.
LEMMA WriteStageHolds ==
  ASSUME IInv, NEW m \in Members, WriteStage(m)
  PROVE  IInv'
<1> DEFINE s == <<"stage", m>>
<1>1. At(s) /\ s[1] \in ForwardNames /\ s[2] = m
  BY DEF WriteStage, ForwardNames
<1>2. /\ installed' = installed /\ journal' = journal
      /\ UNCHANGED <<plan, gaveUp, faults, disturbances, history>>
  BY DEF WriteStage, Unchanged
<1>3. /\ ForwardBody /\ Typed /\ JournalSound /\ PlacesSound /\ Untouched /\ Kept
      /\ s \in ForwardSteps(journal) /\ s \in rest /\ DiskTyped(disk)
      /\ rest \subseteq ForwardSteps(journal) /\ ~IsTerminal(journal)
      /\ \A x \in rest : x = s \/ Rank(s) < Rank(x)
      /\ \A x \in ForwardSteps(journal) : Rank(s) < Rank(x) => x \in rest
  BY <1>1, AtForward, DiskIsTyped DEF IInv
<1>4. journal.op = "deploy" /\ m \in Installs(journal) /\ journal.op # "uninstall"
  BY <1>3, ForwardStepsAre
<1>5. Rank(s) \in Int /\ 2 <= Rank(s) /\ Rank(s) <= 3
  BY MemberRanks
<1>6. Step("download") \notin rest
  BY <1>3, <1>5, WholeRanks
<1>7. <<"install", m>> \in rest
  <2>1. Rank(s) < Rank(<<"install", m>>)
    BY <1>5, MemberRanks
  <2> QED BY <1>3, <1>4, <2>1, ForwardStepsAre
<1>8. \/ disk' = Put("stage", m, Partial) /\ todo' = todo
      \/ disk' = Put("stage", m, New(journal)) /\ Proceed
  BY DEF WriteStage, New
<1>9. PICK f \in {Partial, New(journal)} :
        /\ disk' = Put("stage", m, f)
        /\ (f = Partial /\ todo' = todo) \/ (f = New(journal) /\ Proceed)
  BY <1>8
<1>10. f \in AnyFile
  BY <1>3, PriorIs DEF AnyFile
<1>11. /\ DiskTyped(disk')
       /\ \A p \in Places, n \in Members :
            disk'[p][n] = IF p = "stage" /\ n = m THEN f ELSE disk[p][n]
  <2>1. "stage" \in Places /\ "stage" \notin {"live", "retained"}
    BY DEF Places
  <2> QED BY <1>3, <1>9, <1>10, <2>1, PutIs
<1>12. /\ disk'["stage"][m] = f /\ disk'["live"][m] = disk["live"][m]
       /\ disk'["backup"][m] = disk["backup"][m]
       /\ disk'["durable"][m] = disk["durable"][m]
       /\ disk'["promotion"][m] = disk["promotion"][m]
       /\ disk'["restore"][m] = disk["restore"][m]
       /\ disk'["retained"][m] = disk["retained"][m]
  BY <1>11 DEF Places
<1>13. before' = before /\ disturbed' = disturbed
  BY <1>2 DEF history
<1>14. MemberSound(m)'
  <2>1. MemberSound(m)
    BY <1>3 DEF PlacesSound
  <2>2. StageSound(m)'
    BY <1>2, <1>4, <1>9, <1>12 DEF StageSound
  <2>3. /\ BackupSound(m)' /\ DurableSound(m)' /\ PromotionSound(m)'
        /\ RestoreSound(m)' /\ RetainedSound(m)'
    BY <1>2, <1>12, <1>13, <2>1
       DEF MemberSound, BackupSound, DurableSound, PromotionSound, RestoreSound, RetainedSound
  <2> QED BY <2>2, <2>3 DEF MemberSound
<1>15. ForwardMember(m)'
  <2>1. ForwardMember(m)
    BY <1>3 DEF ForwardBody
  <2>2. \/ rest' = rest
        \/ rest' = rest \ {s} /\ f = New(journal)
    <3>1. Proceed => rest' = rest \ {s}
      BY <1>1, <1>3, AtForward, AtFollows DEF Forward, IInv
    <3> QED BY <1>9, <3>1 DEF rest
  <2>3. /\ <<"install", m>> \in rest' /\ Step("download") \notin rest'
        /\ <<"stage", m>> \notin rest' => f = New(journal)
        /\ <<"takeAway", m>> \in rest' <=> <<"takeAway", m>> \in rest
        /\ <<"giveBack", m>> \in rest' <=> <<"giveBack", m>> \in rest
        /\ <<"removeSource", m>> \in rest' <=> <<"removeSource", m>> \in rest
        /\ <<"promote", m>> \in rest' <=> <<"promote", m>> \in rest
        /\ Step("precondition") \in rest' <=> Step("precondition") \in rest
        /\ Step("cleanup") \in rest' <=> Step("cleanup") \in rest
    BY <1>3, <1>6, <1>7, <2>2
  <2>4. LiveNow(m)' = LiveNow(m) /\ (Left(m)' <=> Left(m))
    BY <1>2, <1>7, <1>12, <1>13, <2>3 DEF LiveNow, Base, Final, Left
  <2> QED BY <1>2, <1>12, <1>13, <2>1, <2>3, <2>4 DEF ForwardMember
<1>16. Untouched'
  <2>1. SameButPhase(journal, journal')
    BY <1>2 DEF SameButPhase
  <2>2. \A n \in Members :
          /\ disk'["live"][n] = disk["live"][n] /\ disk'["backup"][n] = disk["backup"][n]
          /\ disk'["durable"][n] = disk["durable"][n]
          /\ disk'["promotion"][n] = disk["promotion"][n]
          /\ disk'["restore"][n] = disk["restore"][n]
    BY <1>11 DEF Places
  <2> QED BY <1>2, <1>3, <1>4, <1>13, <2>1, <2>2, UntouchedFrame
<1>17. m \notin disturbed /\ before[m] # NoFile
         /\ (journal.phase # "cleanup" \/ Step("outcome") \in rest) =>
            before[m] \in {disk'["live"][m], disk'["backup"][m], disk'["durable"][m]}
  BY <1>3, <1>12 DEF Kept
<1>18. \A p \in Places, n \in Members : n # m => disk'[p][n] = disk[p][n]
  BY <1>11
<1> QED BY <1>1, <1>2, <1>9, <1>11, <1>14, <1>15, <1>16, <1>17, <1>18, ForwardMoves

\* What is left of a call that goes forward when its next step is done.
LEMMA ForwardRest ==
  ASSUME IInv, NEW s, At(s), s[1] \in ForwardNames, Proceed
  PROVE  rest' = rest \ {s}
BY AtForward, AtFollows DEF Forward, IInv

\* Between its precondition and its commit a transaction is committing.
LEMMA Committing ==
  ASSUME IInv, NEW s, At(s), s[1] \in ForwardNames, 5 < Rank(s), Rank(s) < 17
  PROVE  journal.phase = "committing" /\ Step("precondition") \notin rest
         /\ Step("download") \notin rest /\ Step("commit") \in rest
         /\ Step("cleanup") \in rest
<1>1. /\ ForwardBody /\ \A x \in rest : x = s \/ Rank(s) < Rank(x)
      /\ \A x \in ForwardSteps(journal) : Rank(s) < Rank(x) => x \in rest
  BY AtForward
<1>2. Rank(s) \in Int
  BY RankIsNumber
<1>3. /\ Rank(Step("precondition")) = 5 /\ Rank(Step("download")) = 1
      /\ Rank(Step("commit")) = 17 /\ Rank(Step("cleanup")) = 19
  BY Ranks
<1>4. Step("precondition") \notin rest /\ Step("download") \notin rest
  BY <1>1, <1>2, <1>3
<1>5. Step("commit") \in rest /\ Step("cleanup") \in rest
  BY <1>1, <1>2, <1>3, ForwardStepsAre
<1> QED BY <1>1, <1>4, <1>5 DEF ForwardBody, PhaseSound

\* The live file is put aside.
LEMMA TakeAwayHolds ==
  ASSUME IInv, NEW m \in Members, TakeAway(m)
  PROVE  IInv'
<1> DEFINE s == <<"takeAway", m>>
<1>1. At(s) /\ s[1] \in ForwardNames /\ s[2] = m
  BY DEF TakeAway, ForwardNames
<1>2. /\ installed' = installed /\ journal' = journal /\ Proceed
      /\ disk' = Move(m, "live", "backup")
      /\ UNCHANGED <<plan, gaveUp, faults, disturbances, history>>
  BY DEF TakeAway, Unchanged
<1>3. /\ ForwardBody /\ Typed /\ JournalSound /\ PlacesSound /\ Untouched /\ Kept
      /\ s \in ForwardSteps(journal) /\ s \in rest /\ DiskTyped(disk)
      /\ rest \subseteq ForwardSteps(journal)
      /\ \A x \in ForwardSteps(journal) : Rank(s) < Rank(x) => x \in rest
  BY <1>1, AtForward, DiskIsTyped DEF IInv
<1>4. m \in Had(journal) \cap ShouldMutate(journal)
  BY <1>3, ForwardStepsAre
<1>5. Rank(s) \in Int /\ 6 <= Rank(s) /\ Rank(s) <= 7
  BY MemberRanks
<1>6. journal.phase = "committing" /\ Step("precondition") \notin rest
      /\ Step("download") \notin rest
  BY <1>1, <1>5, Committing
<1>7. rest' = rest \ {s}
  BY <1>1, <1>2, ForwardRest
<1>8. /\ <<"install", m>> \in ForwardSteps(journal) => <<"install", m>> \in rest
      /\ <<"giveBack", m>> \in ForwardSteps(journal) => <<"giveBack", m>> \in rest
      /\ <<"promote", m>> \in ForwardSteps(journal) => <<"promote", m>> \in rest
  <2>1. /\ Rank(s) < Rank(<<"install", m>>) /\ Rank(s) < Rank(<<"giveBack", m>>)
        /\ Rank(s) < Rank(<<"promote", m>>)
    BY <1>5, MemberRanks
  <2> QED BY <1>3, <2>1
<1>9. /\ DiskTyped(disk')
      /\ \A p \in Places, n \in Members :
           disk'[p][n] = IF p = "backup" /\ n = m THEN disk["live"][m]
                         ELSE IF p = "live" /\ n = m THEN NoFile ELSE disk[p][n]
  <2>1. "backup" \in Places \ {"retained"} /\ "live" \in Places \ {"retained"}
    BY DEF Places
  <2> QED BY <1>2, <1>3, <2>1, MoveIs
<1>10. /\ disk'["backup"][m] = disk["live"][m] /\ disk'["live"][m] = NoFile
       /\ disk'["stage"][m] = disk["stage"][m]
       /\ disk'["durable"][m] = disk["durable"][m]
       /\ disk'["promotion"][m] = disk["promotion"][m]
       /\ disk'["restore"][m] = disk["restore"][m]
       /\ disk'["retained"][m] = disk["retained"][m]
  BY <1>9 DEF Places
<1>11. before' = before /\ disturbed' = disturbed
  BY <1>2 DEF history
<1>12. MemberSound(m) /\ ForwardMember(m)
  BY <1>3 DEF PlacesSound, ForwardBody
<1>13. /\ Is(disk["live"][m], journal.prior[m])
       /\ disk["live"][m] \in Files /\ disk["live"][m] # NoFile
  <2>1. Is(disk["live"][m], journal.prior[m])
    BY <1>3, <1>6, <1>12 DEF ForwardMember
  <2>2. disk["live"][m] \in Files
    BY <1>3, <1>4, <2>1, PriorIs, DiskIsTyped
  <2> QED BY <2>1, <2>2, FilesDiffer
<1>14. m \notin disturbed => disk["live"][m] = before[m]
  BY <1>3, <1>4, <1>12 DEF ForwardMember, LiveNow, Left
<1>15. MemberSound(m)'
  <2>1. BackupSound(m)'
    BY <1>2, <1>4, <1>10, <1>11, <1>13, <1>14 DEF BackupSound
  <2>2. /\ StageSound(m)' /\ DurableSound(m)' /\ PromotionSound(m)'
        /\ RestoreSound(m)' /\ RetainedSound(m)'
    BY <1>2, <1>10, <1>11, <1>12, <1>13
       DEF MemberSound, StageSound, DurableSound, PromotionSound, RestoreSound, RetainedSound
  <2> QED BY <2>1, <2>2 DEF MemberSound
<1>16. ForwardMember(m)'
  <2>1. /\ <<"takeAway", m>> \notin rest'
        /\ <<"stage", m>> \in rest' <=> <<"stage", m>> \in rest
        /\ <<"install", m>> \in rest' <=> <<"install", m>> \in rest
        /\ <<"giveBack", m>> \in rest' <=> <<"giveBack", m>> \in rest
        /\ <<"removeSource", m>> \in rest' <=> <<"removeSource", m>> \in rest
        /\ <<"promote", m>> \in rest' <=> <<"promote", m>> \in rest
        /\ Step("download") \notin rest'
    BY <1>6, <1>7
  <2>2. LiveNow(m)' = NoFile
    <3>1. CASE <<"install", m>> \in rest \/ <<"giveBack", m>> \in rest
      BY <1>2, <1>4, <2>1, <3>1 DEF LiveNow, Base
    <3>2. CASE <<"install", m>> \notin rest /\ <<"giveBack", m>> \notin rest
      <4>1. m \notin Installs(journal) /\ m \notin Displaces(journal)
        BY <1>3, <1>8, <3>2, ForwardStepsAre, SetsAre DEF Typed, Journals
      <4> QED BY <1>2, <1>4, <2>1, <3>2, <4>1 DEF LiveNow, Final, Base
    <3> QED BY <3>1, <3>2
  <2> QED BY <1>2, <1>10, <1>11, <1>12, <1>13, <2>1, <2>2 DEF ForwardMember
<1>17. Untouched'
  BY <1>2, <1>6 DEF Untouched
<1>18. m \notin disturbed /\ before[m] # NoFile
         /\ (journal.phase # "cleanup" \/ Step("outcome") \in rest) =>
            before[m] \in {disk'["live"][m], disk'["backup"][m], disk'["durable"][m]}
  BY <1>10, <1>14
<1>19. \A p \in Places, n \in Members : n # m => disk'[p][n] = disk[p][n]
  BY <1>9
<1> QED BY <1>1, <1>2, <1>9, <1>15, <1>16, <1>17, <1>18, <1>19, ForwardMoves

\* A file that appears where one is to be put makes the call roll back.
LEMMA ForwardRaises ==
  ASSUME IInv, NEW s, At(s), s[1] \in ForwardNames, Rank(s) < 17, Raise,
         UNCHANGED <<disk, installed, journal, plan, gaveUp, faults, disturbances, history>>
  PROVE  IInv'
<1>1. /\ ForwardBody /\ Typed /\ JournalSound /\ PlacesSound /\ Untouched /\ Kept
      /\ Forward /\ ~IsTerminal(journal) /\ ~gaveUp /\ plan = NoPlan /\ DiskTyped(disk)
      /\ \A x \in ForwardSteps(journal) : Rank(s) < Rank(x) => x \in rest
  BY AtForward, DiskIsTyped DEF IInv
<1>2. Step("commit") \in rest
  BY <1>1, WholeRanks, ForwardStepsAre
<1>3. journal.phase # "cleanup"
  BY <1>1, <1>2 DEF ForwardBody, PhaseSound
<1>4. Settled /\ LiveSound
  BY <1>1, ForwardGives
<1>5. faults' \in 0 .. MaxFaults /\ gaveUp' \in BOOLEAN /\ Dropped
  BY <1>1 DEF Typed, Dropped
<1> QED BY <1>1, <1>3, <1>4, <1>5, StartHolds

\* The staged file becomes the live one.
LEMMA InstallHolds ==
  ASSUME IInv, NEW m \in Members, Install(m)
  PROVE  IInv'
<1> DEFINE s == <<"install", m>>
<1>1. At(s) /\ s[1] \in ForwardNames /\ s[2] = m
  BY DEF Install, ForwardNames
<1>2. /\ installed' = installed /\ journal' = journal
      /\ UNCHANGED <<plan, gaveUp, faults, disturbances, history>>
  BY DEF Install, MoveToLive, Unchanged
<1>3. Rank(s) \in Int /\ 8 <= Rank(s) /\ Rank(s) <= 9
  BY MemberRanks
<1>4. CASE disk["live"][m] # NoFile
  <2>1. Raise /\ disk' = disk
    BY <1>4 DEF Install, MoveToLive
  <2> QED BY <1>1, <1>2, <1>3, <2>1, ForwardRaises
<1>5. CASE disk["live"][m] = NoFile
  <2>1. disk' = Move(m, "stage", "live") /\ Proceed
    BY <1>5 DEF Install, MoveToLive
  <2>2. /\ ForwardBody /\ Typed /\ JournalSound /\ PlacesSound /\ Untouched /\ Kept
        /\ s \in ForwardSteps(journal) /\ s \in rest /\ DiskTyped(disk)
        /\ rest \subseteq ForwardSteps(journal)
        /\ \A x \in rest : x = s \/ Rank(s) < Rank(x)
    BY <1>1, AtForward, DiskIsTyped DEF IInv
  <2>3. journal.op = "deploy" /\ m \in Installs(journal) /\ journal.op # "uninstall"
        /\ m \notin Displaces(journal)
    BY <2>2, ForwardStepsAre, SetsAre
  <2>4. journal.phase = "committing" /\ Step("precondition") \notin rest
        /\ Step("download") \notin rest
    BY <1>1, <1>3, Committing
  <2>5. rest' = rest \ {s}
    BY <1>1, <2>1, ForwardRest
  <2>6. /\ <<"takeAway", m>> \notin rest /\ <<"giveBack", m>> \notin rest
        /\ <<"stage", m>> \notin rest
    <3>1. /\ Rank(<<"takeAway", m>>) < Rank(s) /\ Rank(<<"stage", m>>) < Rank(s)
          /\ Rank(<<"takeAway", m>>) \in Int /\ Rank(<<"stage", m>>) \in Int
      BY <1>3, MemberRanks
    <3> QED BY <1>3, <2>2, <2>3, <3>1, ForwardStepsAre
  <2>7. MemberSound(m) /\ ForwardMember(m)
    BY <2>2 DEF PlacesSound, ForwardBody
  <2>8. disk["stage"][m] = New(journal) /\ New(journal) \in RealFile
    <3>1. New(journal) \in Files
      BY <2>2, PriorIs
    <3> QED BY <2>2, <2>6, <2>7, <3>1 DEF ForwardMember, RealFile
  <2>9. /\ DiskTyped(disk')
        /\ \A p \in Places, n \in Members :
             disk'[p][n] = IF p = "live" /\ n = m THEN disk["stage"][m]
                           ELSE IF p = "stage" /\ n = m THEN NoFile ELSE disk[p][n]
    <3>1. "stage" \in Places \ {"retained"} /\ "live" \in Places \ {"retained"}
      BY DEF Places
    <3> QED BY <2>1, <2>2, <2>8, <3>1, MoveIs
  <2>10. /\ disk'["live"][m] = New(journal) /\ disk'["stage"][m] = NoFile
         /\ disk'["backup"][m] = disk["backup"][m]
         /\ disk'["durable"][m] = disk["durable"][m]
         /\ disk'["promotion"][m] = disk["promotion"][m]
         /\ disk'["restore"][m] = disk["restore"][m]
         /\ disk'["retained"][m] = disk["retained"][m]
    BY <2>8, <2>9 DEF Places
  <2>11. before' = before /\ disturbed' = disturbed
    BY <1>2 DEF history
  <2>12. MemberSound(m)'
    BY <1>2, <2>7, <2>10, <2>11
       DEF MemberSound, StageSound, BackupSound, DurableSound, PromotionSound,
           RestoreSound, RetainedSound
  <2>13. ForwardMember(m)'
    <3>1. /\ <<"install", m>> \notin rest' /\ <<"takeAway", m>> \notin rest'
          /\ <<"giveBack", m>> \notin rest'
          /\ <<"removeSource", m>> \in rest' <=> <<"removeSource", m>> \in rest
          /\ <<"promote", m>> \in rest' <=> <<"promote", m>> \in rest
      BY <2>5, <2>6
    <3>2. LiveNow(m)' = New(journal)
      BY <1>2, <2>3, <3>1 DEF LiveNow, Final
    <3> QED BY <1>2, <2>6, <2>7, <2>10, <2>11, <3>1, <3>2 DEF ForwardMember
  <2>14. Untouched'
    BY <1>2, <2>4 DEF Untouched
  <2>15. m \notin disturbed /\ before[m] # NoFile
           /\ (journal.phase # "cleanup" \/ Step("outcome") \in rest) =>
              before[m] \in {disk'["live"][m], disk'["backup"][m], disk'["durable"][m]}
    BY <1>5, <2>2, <2>10 DEF Kept
  <2>16. \A p \in Places, n \in Members : n # m => disk'[p][n] = disk[p][n]
    BY <2>9
  <2> QED BY <1>1, <1>2, <2>1, <2>9, <2>12, <2>13, <2>14, <2>15, <2>16, ForwardMoves
<1> QED BY <1>4, <1>5

\* The adopted file becomes the live one again.
LEMMA GiveBackHolds ==
  ASSUME IInv, NEW m \in Members, GiveBack(m)
  PROVE  IInv'
<1> DEFINE s == <<"giveBack", m>>
<1>1. At(s) /\ s[1] \in ForwardNames /\ s[2] = m
  BY DEF GiveBack, ForwardNames
<1>2. /\ installed' = installed /\ journal' = journal
      /\ UNCHANGED <<plan, gaveUp, faults, disturbances, history>>
  BY DEF GiveBack, MoveToLive, Unchanged
<1>3. Rank(s) \in Int /\ 10 <= Rank(s) /\ Rank(s) <= 11
  BY MemberRanks
<1>4. CASE disk["live"][m] # NoFile
  <2>1. Raise /\ disk' = disk
    BY <1>4 DEF GiveBack, MoveToLive
  <2> QED BY <1>1, <1>2, <1>3, <2>1, ForwardRaises
<1>5. CASE disk["live"][m] = NoFile
  <2>1. disk' = Move(m, "stage", "live") /\ Proceed
    BY <1>5 DEF GiveBack, MoveToLive
  <2>2. /\ ForwardBody /\ Typed /\ JournalSound /\ PlacesSound /\ Untouched /\ Kept
        /\ s \in ForwardSteps(journal) /\ s \in rest /\ DiskTyped(disk)
        /\ rest \subseteq ForwardSteps(journal)
        /\ \A x \in rest : x = s \/ Rank(s) < Rank(x)
    BY <1>1, AtForward, DiskIsTyped DEF IInv
  <2>3. journal.op = "uninstall" /\ m \in Displaces(journal) /\ journal.op # "deploy"
        /\ m \notin Installs(journal)
    BY <2>2, ForwardStepsAre, SetsAre
  <2>4. journal.phase = "committing" /\ Step("precondition") \notin rest
        /\ Step("download") \notin rest
    BY <1>1, <1>3, Committing
  <2>5. rest' = rest \ {s}
    BY <1>1, <2>1, ForwardRest
  <2>6. <<"takeAway", m>> \notin rest /\ <<"install", m>> \notin rest
    <3>1. Rank(<<"takeAway", m>>) < Rank(s) /\ Rank(<<"takeAway", m>>) \in Int
      BY <1>3, MemberRanks
    <3> QED BY <1>3, <2>2, <2>3, <3>1, ForwardStepsAre
  <2>7. MemberSound(m) /\ ForwardMember(m)
    BY <2>2 DEF PlacesSound, ForwardBody
  <2>8. disk["stage"][m] = journal.previous.adopted[m]
        /\ journal.previous.adopted[m] \in RealFile
    <3>1. disk["stage"][m] \notin {NoFile, Unowned, Partial}
      BY DEF GiveBack, Copied, CopyPlace
    <3> QED BY <2>2, <2>3, <2>7, <3>1 DEF MemberSound, StageSound, Typed, Journals, Receipts
  <2>9. /\ DiskTyped(disk')
        /\ \A p \in Places, n \in Members :
             disk'[p][n] = IF p = "live" /\ n = m THEN disk["stage"][m]
                           ELSE IF p = "stage" /\ n = m THEN NoFile ELSE disk[p][n]
    <3>1. "stage" \in Places \ {"retained"} /\ "live" \in Places \ {"retained"}
      BY DEF Places
    <3> QED BY <2>1, <2>2, <2>8, <3>1, MoveIs
  <2>10. /\ disk'["live"][m] = journal.previous.adopted[m] /\ disk'["stage"][m] = NoFile
         /\ disk'["backup"][m] = disk["backup"][m]
         /\ disk'["durable"][m] = disk["durable"][m]
         /\ disk'["promotion"][m] = disk["promotion"][m]
         /\ disk'["restore"][m] = disk["restore"][m]
         /\ disk'["retained"][m] = disk["retained"][m]
    BY <2>8, <2>9 DEF Places
  <2>11. before' = before /\ disturbed' = disturbed
    BY <1>2 DEF history
  <2>12. MemberSound(m)'
    BY <1>2, <2>7, <2>10, <2>11
       DEF MemberSound, StageSound, BackupSound, DurableSound, PromotionSound,
           RestoreSound, RetainedSound
  <2>13. ForwardMember(m)'
    <3>1. /\ <<"install", m>> \notin rest' /\ <<"takeAway", m>> \notin rest'
          /\ <<"giveBack", m>> \notin rest'
          /\ <<"removeSource", m>> \in rest' <=> <<"removeSource", m>> \in rest
          /\ <<"promote", m>> \in rest' <=> <<"promote", m>> \in rest
      BY <2>5, <2>6
    <3>2. LiveNow(m)' = journal.previous.adopted[m]
      BY <1>2, <2>3, <3>1 DEF LiveNow, Final
    <3> QED BY <1>2, <2>3, <2>6, <2>7, <2>10, <2>11, <3>1, <3>2 DEF ForwardMember
  <2>14. Untouched'
    BY <1>2, <2>4 DEF Untouched
  <2>15. m \notin disturbed /\ before[m] # NoFile
           /\ (journal.phase # "cleanup" \/ Step("outcome") \in rest) =>
              before[m] \in {disk'["live"][m], disk'["backup"][m], disk'["durable"][m]}
    BY <1>5, <2>2, <2>10 DEF Kept
  <2>16. \A p \in Places, n \in Members : n # m => disk'[p][n] = disk[p][n]
    BY <2>9
  <2> QED BY <1>1, <1>2, <2>1, <2>9, <2>12, <2>13, <2>14, <2>15, <2>16, ForwardMoves
<1> QED BY <1>4, <1>5

\* A live manifest makes an uninstall leave the adopted one where it is.
LEMMA LeaveLiveHolds ==
  ASSUME IInv, NEW m \in Members, LeaveLive(m)
  PROVE  IInv'
<1> DEFINE s == <<"giveBack", m>>
<1>1. At(s) /\ s[1] \in ForwardNames /\ s[2] = m
  BY DEF LeaveLive, ForwardNames
<1>2. /\ installed' = installed /\ journal' = journal /\ disk' = disk /\ Proceed
      /\ UNCHANGED <<plan, gaveUp, faults, disturbances, history>>
  BY DEF LeaveLive, Unchanged
<1>3. Rank(s) \in Int /\ 10 <= Rank(s) /\ Rank(s) <= 11
  BY MemberRanks
<1>4. /\ ForwardBody /\ Typed /\ JournalSound /\ PlacesSound /\ Untouched /\ Kept
      /\ s \in ForwardSteps(journal) /\ s \in rest /\ DiskTyped(disk)
      /\ rest \subseteq ForwardSteps(journal)
      /\ \A x \in rest : x = s \/ Rank(s) < Rank(x)
  BY <1>1, AtForward, DiskIsTyped DEF IInv
<1>5. journal.op = "uninstall" /\ m \in Displaces(journal) /\ journal.op # "deploy"
      /\ m \notin Installs(journal)
  BY <1>4, ForwardStepsAre, SetsAre
<1>6. journal.phase = "committing" /\ Step("precondition") \notin rest
      /\ Step("download") \notin rest /\ Step("cleanup") \in rest
  BY <1>1, <1>3, Committing
<1>7. rest' = rest \ {s}
  BY <1>1, <1>2, ForwardRest
<1>8. <<"takeAway", m>> \notin rest /\ <<"install", m>> \notin rest
  <2>1. Rank(<<"takeAway", m>>) < Rank(s) /\ Rank(<<"takeAway", m>>) \in Int
    BY <1>3, MemberRanks
  <2> QED BY <1>3, <1>4, <1>5, <2>1, ForwardStepsAre
<1>9. before' = before /\ disturbed' = disturbed
  BY <1>2 DEF history
<1>10. MemberSound(m) /\ ForwardMember(m)
  BY <1>4 DEF PlacesSound, ForwardBody
<1>11. MemberSound(m)'
  BY <1>2, <1>9, <1>10
     DEF MemberSound, StageSound, BackupSound, DurableSound, PromotionSound,
         RestoreSound, RetainedSound
<1>12. ForwardMember(m)'
  <2>1. /\ <<"install", m>> \notin rest' /\ <<"takeAway", m>> \notin rest'
        /\ <<"giveBack", m>> \notin rest'
        /\ <<"removeSource", m>> \in rest' <=> <<"removeSource", m>> \in rest
        /\ <<"promote", m>> \in rest' <=> <<"promote", m>> \in rest
        /\ Step("cleanup") \in rest' /\ Step("download") \notin rest'
    BY <1>6, <1>7, <1>8
  <2>2. disk["stage"][m] = NoFile /\ m = "manifest" /\ disk["live"][m] # NoFile
    BY DEF LeaveLive, LeavesLive
  <2>3. m \notin disturbed => Left(m)'
    <3>1. ASSUME m \notin disturbed, ~Left(m)
          PROVE  disk["live"][m] = before[m] /\ m \notin Had(journal)
      <4>1. disk["live"][m] = LiveNow(m)
        BY <1>10, <3>1 DEF ForwardMember
      <4>2. LiveNow(m) = Base(m)
        BY <1>4, <1>8 DEF LiveNow
      <4>3. m \notin Had(journal) \cap ShouldMutate(journal)
        BY <2>2, <4>1, <4>2 DEF Base
      <4>4. m \notin Had(journal)
        BY <1>4, <1>5, <4>3, PriorIs
      <4> QED BY <4>1, <4>2, <4>3, <4>4 DEF Base
    <3>2. m \notin disturbed => Left(m)
      BY <1>5, <2>2, <3>1 DEF Left
    <3>3. Left(m) => Left(m)'
      BY <1>2, <1>9 DEF Left
    <3> QED BY <3>2, <3>3
  <2>4. /\ disk'["stage"][m] = NoFile
        /\ disk'["promotion"][m] = disk["promotion"][m]
        /\ disk'["restore"][m] = NoFile
        /\ <<"removeSource", m>> \in rest => disk'["backup"][m] # NoFile
        /\ <<"promote", m>> \notin rest => disk'["promotion"][m] = NoFile
    BY <1>2, <1>8, <1>10, <2>2 DEF ForwardMember
  <2>5. m \notin disturbed' => Left(m)'
    BY <1>9, <2>3
  <2> QED BY <1>2, <1>5, <2>1, <2>4, <2>5 DEF ForwardMember
<1>13. Untouched'
  BY <1>2, <1>6 DEF Untouched
<1>14. m \notin disturbed /\ before[m] # NoFile
         /\ (journal.phase # "cleanup" \/ Step("outcome") \in rest) =>
            before[m] \in {disk'["live"][m], disk'["backup"][m], disk'["durable"][m]}
  BY <1>2, <1>4 DEF Kept
<1> QED BY <1>1, <1>2, <1>4, <1>11, <1>12, <1>13, <1>14, ForwardMoves

\* What a step that keeps or removes a player's file finds.
LEMMA RetainingFacts ==
  ASSUME IInv, NEW m \in Members, NEW s \in {<<"promote", m>>, <<"removeSource", m>>}, At(s)
  PROVE  /\ ForwardBody /\ Typed /\ JournalSound /\ PlacesSound /\ Untouched /\ Kept
         /\ s \in rest /\ DiskTyped(disk) /\ s[1] \in ForwardNames /\ s[2] = m
         /\ MemberSound(m) /\ ForwardMember(m)
         /\ journal.op = "deploy" /\ journal.op # "uninstall" /\ m \in Retains(journal)
         /\ journal.phase = "committing" /\ Step("precondition") \notin rest
         /\ Step("download") \notin rest
         /\ <<"takeAway", m>> \notin rest /\ <<"install", m>> \notin rest
         /\ <<"giveBack", m>> \notin rest
         /\ s = <<"promote", m>> => <<"removeSource", m>> \in rest
         /\ s = <<"removeSource", m>> => <<"promote", m>> \notin rest
         /\ Proceed => rest' = rest \ {s}
<1>1. s[1] \in ForwardNames /\ s[2] = m
  BY DEF ForwardNames
<1>2. /\ ForwardBody /\ Typed /\ JournalSound /\ PlacesSound /\ Untouched /\ Kept
      /\ s \in ForwardSteps(journal) /\ s \in rest /\ DiskTyped(disk)
      /\ rest \subseteq ForwardSteps(journal)
      /\ \A x \in rest : x = s \/ Rank(s) < Rank(x)
      /\ \A x \in ForwardSteps(journal) : Rank(s) < Rank(x) => x \in rest
  BY <1>1, AtForward, DiskIsTyped DEF IInv
<1>3. Rank(s) \in Int /\ 13 <= Rank(s) /\ Rank(s) <= 16
  BY MemberRanks
<1>4. journal.op = "deploy" /\ journal.op # "uninstall" /\ m \in Retains(journal)
  BY <1>2, ForwardStepsAre
<1>5. journal.phase = "committing" /\ Step("precondition") \notin rest
      /\ Step("download") \notin rest
  BY <1>1, <1>3, Committing
<1>6. /\ <<"takeAway", m>> \notin rest /\ <<"install", m>> \notin rest
      /\ <<"giveBack", m>> \notin rest
  <2>1. \A x \in rest : ~(Rank(x) < 13)
    BY <1>2, <1>3, RankIsNumber
  <2>2. /\ Rank(<<"takeAway", m>>) < 13 /\ Rank(<<"install", m>>) < 13
        /\ Rank(<<"giveBack", m>>) < 13
    BY MemberRanks
  <2> QED BY <2>1, <2>2
<1>7. /\ s = <<"promote", m>> => <<"removeSource", m>> \in rest
      /\ s = <<"removeSource", m>> => <<"promote", m>> \notin rest
  <2>1. Rank(<<"promote", m>>) < Rank(<<"removeSource", m>>)
        /\ Rank(<<"promote", m>>) \in Int /\ Rank(<<"removeSource", m>>) \in Int
    BY MemberRanks
  <2>2. <<"removeSource", m>> \in ForwardSteps(journal)
    BY <1>4, ForwardStepsAre
  <2>3. <<"promote", m>> # <<"removeSource", m>>
    OBVIOUS
  <2> QED BY <1>2, <2>1, <2>2, <2>3
<1>8. MemberSound(m) /\ ForwardMember(m)
  BY <1>2 DEF PlacesSound, ForwardBody
<1>9. Proceed => rest' = rest \ {s}
  BY <1>1, ForwardRest
<1> QED BY <1>1, <1>2, <1>4, <1>5, <1>6, <1>7, <1>8, <1>9

\* The complete copy of a player's file becomes the durable one.
LEMMA PromoteMoveHolds ==
  ASSUME IInv, NEW m \in Members, PromoteMove(m)
  PROVE  IInv'
<1> DEFINE s == <<"promote", m>>
<1>1. At(s)
  BY DEF PromoteMove
<1>2. /\ installed' = installed /\ journal' = journal /\ Proceed
      /\ disk' = Move(m, "promotion", "durable")
      /\ UNCHANGED <<plan, gaveUp, faults, disturbances, history>>
  BY DEF PromoteMove, Unchanged
<1>3. /\ Typed /\ Kept /\ DiskTyped(disk) /\ s[1] \in ForwardNames /\ s[2] = m
      /\ MemberSound(m) /\ ForwardMember(m)
      /\ journal.op = "deploy" /\ journal.op # "uninstall" /\ m \in Retains(journal)
      /\ journal.phase = "committing" /\ Step("precondition") \notin rest
      /\ Step("download") \notin rest
      /\ <<"takeAway", m>> \notin rest /\ <<"install", m>> \notin rest
      /\ <<"giveBack", m>> \notin rest /\ rest' = rest \ {s}
  BY <1>1, <1>2, RetainingFacts
<1>4. disk["promotion"][m] = before[m] /\ disk["promotion"][m] # NoFile
  <2>1. disk["promotion"][m] \notin {NoFile, Unowned, Partial}
    BY DEF PromoteMove, Copied, CopyPlace
  <2> QED BY <1>3, <2>1 DEF MemberSound, PromotionSound
<1>5. /\ DiskTyped(disk')
      /\ \A p \in Places, n \in Members :
           disk'[p][n] = IF p = "durable" /\ n = m THEN disk["promotion"][m]
                         ELSE IF p = "promotion" /\ n = m THEN NoFile ELSE disk[p][n]
  <2>1. "promotion" \in Places \ {"retained"} /\ "durable" \in Places \ {"retained"}
    BY DEF Places
  <2> QED BY <1>2, <1>3, <2>1, MoveIs
<1>6. /\ disk'["durable"][m] = before[m] /\ before[m] # NoFile
      /\ disk'["promotion"][m] = NoFile
      /\ disk'["stage"][m] = disk["stage"][m] /\ disk'["live"][m] = disk["live"][m]
      /\ disk'["backup"][m] = disk["backup"][m]
      /\ disk'["restore"][m] = disk["restore"][m]
      /\ disk'["retained"][m] = disk["retained"][m]
  BY <1>4, <1>5 DEF Places
<1>7. before' = before /\ disturbed' = disturbed
  BY <1>2 DEF history
<1>8. MemberSound(m)'
  BY <1>2, <1>3, <1>6, <1>7
     DEF MemberSound, StageSound, BackupSound, DurableSound, PromotionSound,
         RestoreSound, RetainedSound
<1>9. ForwardMember(m)'
  <2>1. /\ <<"install", m>> \notin rest' /\ <<"takeAway", m>> \notin rest'
        /\ <<"giveBack", m>> \notin rest'
        /\ <<"removeSource", m>> \in rest' <=> <<"removeSource", m>> \in rest
        /\ Step("cleanup") \in rest' <=> Step("cleanup") \in rest
        /\ Step("download") \notin rest'
    BY <1>3
  <2>2. LiveNow(m)' = LiveNow(m) /\ (Left(m)' <=> Left(m))
    BY <1>2, <1>3, <1>6, <1>7, <2>1 DEF LiveNow, Base, Final, Left
  <2> QED BY <1>2, <1>3, <1>6, <1>7, <2>1, <2>2 DEF ForwardMember
<1>10. Untouched'
  BY <1>2, <1>3 DEF Untouched
<1>11. m \notin disturbed /\ before[m] # NoFile
         /\ (journal.phase # "cleanup" \/ Step("outcome") \in rest) =>
            before[m] \in {disk'["live"][m], disk'["backup"][m], disk'["durable"][m]}
  BY <1>6
<1>12. \A p \in Places, n \in Members : n # m => disk'[p][n] = disk[p][n]
  BY <1>5
<1> QED BY <1>1, <1>2, <1>3, <1>5, <1>8, <1>9, <1>10, <1>11, <1>12, ForwardMoves

\* The file next to the live one is deleted when there is a durable copy of it.
LEMMA RemoveSourceHolds ==
  ASSUME IInv, NEW m \in Members, RemoveSource(m)
  PROVE  IInv'
<1> DEFINE s == <<"removeSource", m>>
<1>1. At(s)
  BY DEF RemoveSource
<1>2. /\ installed' = installed /\ journal' = journal /\ Proceed
      /\ disk' = Put("backup", m, NoFile)
      /\ UNCHANGED <<plan, gaveUp, faults, disturbances, history>>
  BY DEF RemoveSource, Unchanged
<1>3. /\ Typed /\ Kept /\ DiskTyped(disk) /\ s[1] \in ForwardNames /\ s[2] = m
      /\ MemberSound(m) /\ ForwardMember(m)
      /\ journal.op = "deploy" /\ journal.op # "uninstall" /\ m \in Retains(journal)
      /\ journal.phase = "committing" /\ Step("precondition") \notin rest
      /\ Step("download") \notin rest /\ <<"promote", m>> \notin rest
      /\ <<"takeAway", m>> \notin rest /\ <<"install", m>> \notin rest
      /\ <<"giveBack", m>> \notin rest /\ rest' = rest \ {s}
  BY <1>1, <1>2, RetainingFacts
<1>4. /\ disk["durable"][m] # NoFile /\ disk["durable"][m] = before[m]
      /\ disk["promotion"][m] = NoFile
  BY <1>3 DEF MemberSound, DurableSound, ForwardMember
<1>5. /\ DiskTyped(disk')
      /\ \A p \in Places, n \in Members :
           disk'[p][n] = IF p = "backup" /\ n = m THEN NoFile ELSE disk[p][n]
  <2>1. "backup" \in Places /\ "backup" \notin {"live", "retained"} /\ NoFile \in AnyFile
    BY DEF Places, AnyFile
  <2> QED BY <1>2, <1>3, <2>1, PutIs
<1>6. /\ disk'["backup"][m] = NoFile
      /\ disk'["durable"][m] = disk["durable"][m]
      /\ disk'["promotion"][m] = disk["promotion"][m]
      /\ disk'["stage"][m] = disk["stage"][m] /\ disk'["live"][m] = disk["live"][m]
      /\ disk'["restore"][m] = disk["restore"][m]
      /\ disk'["retained"][m] = disk["retained"][m]
  BY <1>5 DEF Places
<1>7. before' = before /\ disturbed' = disturbed
  BY <1>2 DEF history
<1>8. MemberSound(m)'
  BY <1>2, <1>3, <1>4, <1>6, <1>7
     DEF MemberSound, StageSound, BackupSound, DurableSound, PromotionSound,
         RestoreSound, RetainedSound
<1>9. ForwardMember(m)'
  <2>1. /\ <<"install", m>> \notin rest' /\ <<"takeAway", m>> \notin rest'
        /\ <<"giveBack", m>> \notin rest' /\ <<"removeSource", m>> \notin rest'
        /\ Step("cleanup") \in rest' <=> Step("cleanup") \in rest
        /\ Step("download") \notin rest'
    BY <1>3
  <2>2. LiveNow(m)' = LiveNow(m) /\ (Left(m)' <=> Left(m))
    BY <1>2, <1>3, <1>6, <1>7, <2>1 DEF LiveNow, Base, Final, Left
  <2> QED BY <1>2, <1>3, <1>4, <1>6, <1>7, <2>1, <2>2 DEF ForwardMember
<1>10. Untouched'
  BY <1>2, <1>3 DEF Untouched
<1>11. m \notin disturbed /\ before[m] # NoFile
         /\ (journal.phase # "cleanup" \/ Step("outcome") \in rest) =>
            before[m] \in {disk'["live"][m], disk'["backup"][m], disk'["durable"][m]}
  BY <1>4, <1>6
<1>12. \A p \in Places, n \in Members : n # m => disk'[p][n] = disk[p][n]
  BY <1>5
<1> QED BY <1>1, <1>2, <1>3, <1>5, <1>8, <1>9, <1>10, <1>11, <1>12, ForwardMoves

\* A player's file is copied to where it is kept for good.
LEMMA PromoteCopyHolds ==
  ASSUME IInv, NEW m \in Members, CopyStep("promote", m)
  PROVE  IInv'
<1> DEFINE s == <<"promote", m>>
<1>1. At(s)
  BY DEF CopyStep
<1>2. /\ installed' = installed /\ journal' = journal /\ todo' = todo
      /\ UNCHANGED <<plan, gaveUp, faults, disturbances, history>>
  BY DEF CopyStep, Unchanged
<1>3. /\ Typed /\ Kept /\ DiskTyped(disk) /\ s[1] \in ForwardNames /\ s[2] = m
      /\ JournalSound /\ s \in rest
      /\ MemberSound(m) /\ ForwardMember(m)
      /\ journal.op = "deploy" /\ journal.op # "uninstall" /\ m \in Retains(journal)
      /\ journal.phase = "committing" /\ Step("precondition") \notin rest
      /\ Step("download") \notin rest /\ <<"removeSource", m>> \in rest
      /\ <<"takeAway", m>> \notin rest /\ <<"install", m>> \notin rest
      /\ <<"giveBack", m>> \notin rest
  BY <1>1, RetainingFacts
<1>4. disk["backup"][m] = before[m] /\ disk["backup"][m] # NoFile
      /\ disk["backup"][m] \in AnyFile
  <2>1. disk["backup"][m] # NoFile
    BY <1>3 DEF ForwardMember
  <2>2. Is(disk["backup"][m], journal.prior[m]) /\ disk["backup"][m] \in AnyFile
    BY <1>3, <2>1 DEF MemberSound, BackupSound, AnyFile
  <2> QED BY <1>3, <2>1, <2>2, PriorIs
<1>5. PICK f \in {Unowned, Partial, disk["backup"][m]} : disk' = Put("promotion", m, f)
  <2>1. CopyPlace("promote") = "promotion" /\ CopySource("promote") = "backup"
    BY DEF CopyPlace, CopySource
  <2> QED BY <2>1 DEF CopyStep
<1>6. /\ DiskTyped(disk')
      /\ \A p \in Places, n \in Members :
           disk'[p][n] = IF p = "promotion" /\ n = m THEN f ELSE disk[p][n]
  <2>1. "promotion" \in Places /\ "promotion" \notin {"live", "retained"} /\ f \in AnyFile
    BY <1>4 DEF Places, AnyFile
  <2> QED BY <1>3, <1>5, <2>1, PutIs
<1>7. /\ disk'["promotion"][m] = f
      /\ disk'["durable"][m] = disk["durable"][m]
      /\ disk'["backup"][m] = disk["backup"][m]
      /\ disk'["stage"][m] = disk["stage"][m] /\ disk'["live"][m] = disk["live"][m]
      /\ disk'["restore"][m] = disk["restore"][m]
      /\ disk'["retained"][m] = disk["retained"][m]
  BY <1>6 DEF Places
<1>8. before' = before /\ disturbed' = disturbed
  BY <1>2 DEF history
<1>9. MemberSound(m)'
  <2>1. PromotionSound(m)'
    BY <1>2, <1>3, <1>4, <1>5, <1>7, <1>8 DEF PromotionSound
  <2>2. /\ StageSound(m)' /\ DurableSound(m)' /\ BackupSound(m)'
        /\ RestoreSound(m)' /\ RetainedSound(m)'
    BY <1>2, <1>3, <1>7, <1>8
       DEF MemberSound, StageSound, BackupSound, DurableSound, RestoreSound, RetainedSound
  <2> QED BY <2>1, <2>2 DEF MemberSound
<1>10. ForwardMember(m)'
  <2>1. rest' = rest
    BY <1>2 DEF rest
  <2>2. LiveNow(m)' = LiveNow(m) /\ (Left(m)' <=> Left(m))
    BY <1>2, <1>3, <1>7, <1>8, <2>1 DEF LiveNow, Base, Final, Left
  <2> QED BY <1>2, <1>3, <1>7, <1>8, <2>1, <2>2 DEF ForwardMember
<1>11. Untouched'
  BY <1>2, <1>3 DEF Untouched
<1>12. m \notin disturbed /\ before[m] # NoFile
         /\ (journal.phase # "cleanup" \/ Step("outcome") \in rest) =>
            before[m] \in {disk'["live"][m], disk'["backup"][m], disk'["durable"][m]}
  BY <1>4, <1>7
<1>13. \A p \in Places, n \in Members : n # m => disk'[p][n] = disk[p][n]
  BY <1>6
<1> QED BY <1>1, <1>2, <1>3, <1>6, <1>9, <1>10, <1>11, <1>12, <1>13, ForwardMoves

\* The adopted file is copied to where it can be moved from.
LEMMA GiveBackCopyHolds ==
  ASSUME IInv, NEW m \in Members, CopyStep("giveBack", m)
  PROVE  IInv'
<1> DEFINE s == <<"giveBack", m>>
<1>1. At(s) /\ s[1] \in ForwardNames /\ s[2] = m
  BY DEF CopyStep, ForwardNames
<1>2. /\ installed' = installed /\ journal' = journal /\ todo' = todo
      /\ UNCHANGED <<plan, gaveUp, faults, disturbances, history>>
  BY DEF CopyStep, Unchanged
<1>3. Rank(s) \in Int /\ 10 <= Rank(s) /\ Rank(s) <= 11
  BY MemberRanks
<1>4. /\ ForwardBody /\ Typed /\ JournalSound /\ PlacesSound /\ Untouched /\ Kept
      /\ s \in ForwardSteps(journal) /\ s \in rest /\ DiskTyped(disk)
  BY <1>1, AtForward, DiskIsTyped DEF IInv
<1>5. journal.op = "uninstall" /\ m \in Displaces(journal) /\ journal.op # "deploy"
  BY <1>4, ForwardStepsAre, SetsAre
<1>6. journal.phase = "committing" /\ Step("precondition") \notin rest
      /\ Step("download") \notin rest
  BY <1>1, <1>3, Committing
<1>7. MemberSound(m) /\ ForwardMember(m)
  BY <1>4 DEF PlacesSound, ForwardBody
<1>8. disk["retained"][m] = journal.previous.adopted[m] /\ disk["retained"][m] \in AnyFile
  <2>1. "retained" \in Places
    BY DEF Places
  <2> QED BY <1>4, <1>6, <1>7, <2>1, DiskIsTyped DEF MemberSound, RetainedSound
<1>9. PICK f \in {Unowned, Partial, disk["retained"][m]} : disk' = Put("stage", m, f)
  <2>1. CopyPlace("giveBack") = "stage" /\ CopySource("giveBack") = "retained"
    BY DEF CopyPlace, CopySource
  <2> QED BY <2>1 DEF CopyStep
<1>10. /\ DiskTyped(disk')
       /\ \A p \in Places, n \in Members :
            disk'[p][n] = IF p = "stage" /\ n = m THEN f ELSE disk[p][n]
  <2>1. "stage" \in Places /\ "stage" \notin {"live", "retained"} /\ f \in AnyFile
    BY <1>8 DEF Places, AnyFile
  <2> QED BY <1>4, <1>9, <2>1, PutIs
<1>11. /\ disk'["stage"][m] = f
       /\ disk'["durable"][m] = disk["durable"][m]
       /\ disk'["backup"][m] = disk["backup"][m]
       /\ disk'["promotion"][m] = disk["promotion"][m] /\ disk'["live"][m] = disk["live"][m]
       /\ disk'["restore"][m] = disk["restore"][m]
       /\ disk'["retained"][m] = disk["retained"][m]
  BY <1>10 DEF Places
<1>12. before' = before /\ disturbed' = disturbed
  BY <1>2 DEF history
<1>13. MemberSound(m)'
  <2>1. StageSound(m)'
    BY <1>2, <1>5, <1>6, <1>8, <1>9, <1>11 DEF StageSound
  <2>2. /\ PromotionSound(m)' /\ DurableSound(m)' /\ BackupSound(m)'
        /\ RestoreSound(m)' /\ RetainedSound(m)'
    BY <1>2, <1>7, <1>11, <1>12
       DEF MemberSound, PromotionSound, BackupSound, DurableSound, RestoreSound, RetainedSound
  <2> QED BY <2>1, <2>2 DEF MemberSound
<1>14. ForwardMember(m)'
  <2>1. rest' = rest
    BY <1>2 DEF rest
  <2>2. LiveNow(m)' = LiveNow(m) /\ (Left(m)' <=> Left(m))
    BY <1>2, <1>11, <1>12, <2>1 DEF LiveNow, Base, Final, Left
  <2>3. <<"install", m>> \notin rest
    <3>1. rest \subseteq ForwardSteps(journal)
      BY <1>1, AtForward
    <3> QED BY <1>5, <3>1, ForwardStepsAre
  <2> QED BY <1>2, <1>4, <1>6, <1>7, <1>11, <1>12, <2>1, <2>2, <2>3 DEF ForwardMember
<1>15. Untouched'
  BY <1>2, <1>6 DEF Untouched
<1>16. m \notin disturbed /\ before[m] # NoFile
         /\ (journal.phase # "cleanup" \/ Step("outcome") \in rest) =>
            before[m] \in {disk'["live"][m], disk'["backup"][m], disk'["durable"][m]}
  BY <1>4, <1>6, <1>11 DEF Kept
<1>17. \A p \in Places, n \in Members : n # m => disk'[p][n] = disk[p][n]
  BY <1>10
<1> QED BY <1>1, <1>2, <1>10, <1>13, <1>14, <1>15, <1>16, <1>17, ForwardMoves

\* What a committed transaction does not need any more is deleted.
LEMMA CleanHolds ==
  ASSUME IInv, NEW place \in {"backup", "retained"}, Clean(place)
  PROVE  IInv'
<1> DEFINE s == <<"clean", place>>
<1>1. At(s) /\ s[1] \in ForwardNames /\ s # Step("finish") /\ s[2] \notin Members
  BY DEF Clean, ForwardNames, Members
<1>2. /\ installed' = installed /\ journal' = journal /\ Proceed /\ disk' = Clear(place)
      /\ UNCHANGED <<plan, gaveUp, faults, disturbances, history>>
  BY DEF Clean, Unchanged
<1>3. /\ ForwardBody /\ Typed /\ JournalSound /\ PlacesSound /\ Untouched /\ Kept
      /\ ~IsTerminal(journal) /\ ~gaveUp
      /\ s \in ForwardSteps(journal) /\ s \in rest /\ DiskTyped(disk)
      /\ rest \subseteq ForwardSteps(journal)
      /\ \A x \in rest : x = s \/ Rank(s) < Rank(x)
  BY <1>1, AtForward, DiskIsTyped DEF IInv
<1>4. SameButPhase(journal, journal') /\ ~IsTerminal(journal')
  BY <1>2, <1>3 DEF SameButPhase
<1>5. /\ Script' /\ Forward' /\ ~Discarding' /\ ~Starting' /\ ~Returning'
      /\ todo' \in Seq(AnyStep) /\ rest' = rest \ {s}
  BY <1>1, <1>2, <1>4, ForwardOn
<1>6. Rank(s) \in Int /\ 20 <= Rank(s)
  BY EndRanks, RankIsNumber
<1>7. \A x \in rest : ~(Rank(x) < 20)
  BY <1>3, <1>6, RankIsNumber
<1>8. /\ Step("commit") \notin rest /\ Step("outcome") \notin rest
      /\ Step("cleanup") \notin rest /\ Step("download") \notin rest
      /\ Step("precondition") \notin rest /\ Step("record") \notin rest
  BY <1>7, WholeRanks, EndRanks
<1>9. \A m \in Members :
        /\ <<"install", m>> \notin rest /\ <<"giveBack", m>> \notin rest
        /\ <<"takeAway", m>> \notin rest /\ <<"promote", m>> \notin rest
        /\ <<"removeSource", m>> \notin rest
  <2> SUFFICES ASSUME NEW m \in Members
               PROVE  /\ <<"install", m>> \notin rest /\ <<"giveBack", m>> \notin rest
                      /\ <<"takeAway", m>> \notin rest /\ <<"promote", m>> \notin rest
                      /\ <<"removeSource", m>> \notin rest
    OBVIOUS
  <2>1. /\ Rank(<<"install", m>>) < 20 /\ Rank(<<"giveBack", m>>) < 20
        /\ Rank(<<"takeAway", m>>) < 20 /\ Rank(<<"promote", m>>) < 20
        /\ Rank(<<"removeSource", m>>) < 20
    BY MemberRanks
  <2> QED BY <1>7, <2>1
<1>10. journal.phase = "cleanup"
  BY <1>3, <1>8 DEF ForwardBody, PhaseSound
<1>11. place = "retained" => journal.op = "uninstall" /\ journal.op # "deploy"
  BY <1>3, ForwardStepsAre DEF Typed, Journals
<1>12. /\ DiskTyped(disk')
       /\ \A p \in Places, n \in Members :
            disk'[p][n] = IF p = place THEN NoFile ELSE disk[p][n]
  <2>1. place \in Places
    BY DEF Places
  <2> QED BY <1>2, <1>3, <2>1, ClearIs
<1>13. before' = before /\ disturbed' = disturbed /\ ~gaveUp'
  BY <1>2, <1>3 DEF history
<1>14. Typed'
  BY <1>2, <1>3, <1>5, <1>12, <1>13, TypedOn DEF Typed
<1>15. \A m \in Members :
         /\ disk'["live"][m] = disk["live"][m] /\ disk'["stage"][m] = disk["stage"][m]
         /\ disk'["durable"][m] = disk["durable"][m]
         /\ disk'["promotion"][m] = disk["promotion"][m]
         /\ disk'["restore"][m] = disk["restore"][m]
         /\ disk'["backup"][m] = disk["backup"][m] \/ disk'["backup"][m] = NoFile
         /\ disk'["retained"][m] = disk["retained"][m] \/ journal.op = "uninstall"
  BY <1>11, <1>12 DEF Places
<1>16. ASSUME NEW m \in Members
       PROVE  MemberSound(m)'
  <2>1. MemberSound(m) /\ ForwardMember(m)
    BY <1>3 DEF PlacesSound, ForwardBody
  <2>2. disk'["promotion"][m] = NoFile
    BY <1>9, <1>15, <2>1 DEF ForwardMember
  <2>3. PromotionSound(m)' /\ BackupSound(m)' /\ RetainedSound(m)'
    BY <1>2, <1>10, <1>13, <1>15, <2>1, <2>2
       DEF PromotionSound, BackupSound, RetainedSound, MemberSound
  <2>4. StageSound(m)' /\ DurableSound(m)' /\ RestoreSound(m)'
    BY <1>2, <1>13, <1>15, <2>1 DEF StageSound, DurableSound, RestoreSound, MemberSound
  <2> QED BY <2>3, <2>4 DEF MemberSound
<1>17. ASSUME NEW m \in Members
       PROVE  ForwardMember(m)'
  <2>1. ForwardMember(m)
    BY <1>3 DEF ForwardBody
  <2>2. /\ <<"install", m>> \notin rest' /\ <<"giveBack", m>> \notin rest'
        /\ <<"takeAway", m>> \notin rest' /\ <<"promote", m>> \notin rest'
        /\ <<"removeSource", m>> \notin rest' /\ Step("download") \notin rest'
        /\ Step("cleanup") \notin rest'
    BY <1>5, <1>8, <1>9
  <2>3. LiveNow(m)' = LiveNow(m)
    BY <1>2, <1>9, <1>13, <2>2 DEF LiveNow, Base, Final
  <2> QED BY <1>2, <1>8, <1>9, <1>13, <1>15, <2>1, <2>2, <2>3 DEF ForwardMember
<1>18. ForwardBody'
  <2>1. PhaseSound'
    BY <1>2, <1>5, <1>8, <1>10 DEF PhaseSound
  <2>2. Recorded(journal') = Recorded(journal)
    BY <1>2
  <2>3. <<"clean", "backup">> \notin rest' => \A m \in Members : disk'["backup"][m] = NoFile
    <3>1. <<"clean", "backup">> \notin rest => \A m \in Members : disk["backup"][m] = NoFile
      BY <1>3 DEF ForwardBody
    <3>2. place = "backup" => \A m \in Members : disk'["backup"][m] = NoFile
      BY <1>12 DEF Places
    <3>3. place # "backup" => (<<"clean", "backup">> \in rest' <=> <<"clean", "backup">> \in rest)
      BY <1>5
    <3> QED BY <1>15, <3>1, <3>2, <3>3
  <2> QED BY <1>2, <1>3, <1>5, <1>8, <1>17, <2>1, <2>2, <2>3 DEF ForwardBody
<1>19. Untouched'
  BY <1>2, <1>10 DEF Untouched
<1>20. Kept'
  <2>1. Step("plan") \notin rest'
    BY <1>3, <1>5 DEF ForwardSteps
  <2> QED BY <1>2, <1>5, <1>8, <1>10, <2>1 DEF Kept
<1>21. JournalSound' /\ PlacesSound'
  BY <1>3, <1>4, <1>13, <1>16, JournalFrame DEF PlacesSound
<1> QED BY <1>5, <1>13, <1>14, <1>18, <1>19, <1>20, <1>21, ForwardHolds

\* A live file has disappeared: the call rolls back.
LEMMA PreconditionThrowsHolds ==
  ASSUME IInv, PreconditionThrows
  PROVE  IInv'
<1>1. At(Step("precondition")) /\ Step("precondition")[1] \in ForwardNames
  BY DEF PreconditionThrows, ForwardNames
<1>2. Rank(Step("precondition")) < 17
  BY Ranks
<1>3. Raise /\ UNCHANGED <<disk, installed, journal, plan, gaveUp, faults, disturbances, history>>
  BY DEF PreconditionThrows, Unchanged
<1> QED BY <1>1, <1>2, <1>3, ForwardRaises

-----------------------------------------------------------------------------
(* A deployment that discards what it staged                               *)

\* The steps of one name, for some of the members.
LEMMA InOrderEach ==
  ASSUME NEW name, NEW S \in SUBSET Members, NEW a \in Int, NEW b \in Int,
         <<name, "dll">> \in AnyStep, <<name, "manifest">> \in AnyStep,
         a <= Rank(<<name, "dll">>), Rank(<<name, "dll">>) < Rank(<<name, "manifest">>),
         Rank(<<name, "manifest">>) <= b
  PROVE  InOrder(Each(name, S), {<<name, m>> : m \in S}, a, b)
<1> DEFINE d == Rank(<<name, "dll">>)
           e == Rank(<<name, "manifest">>)
           t == IF "dll" \in S THEN <<<<name, "dll">>>> ELSE <<>>
           u == IF "manifest" \in S THEN <<<<name, "manifest">>>> ELSE <<>>
           T == IF "dll" \in S THEN {<<name, "dll">>} ELSE {}
           U == IF "manifest" \in S THEN {<<name, "manifest">>} ELSE {}
<1>1. d \in Int /\ e \in Int
  BY RankIsNumber
<1>2. InOrder(t, T, a, d)
  <2>1. a <= Rank(<<name, "dll">>) /\ Rank(<<name, "dll">>) <= d
    BY <1>1
  <2>2. InOrder(<<>>, {}, a, d)
    BY <1>1, InOrderOne
  <2>3. InOrder(<<<<name, "dll">>>>, {<<name, "dll">>}, a, d)
    BY <1>1, <2>1, InOrderOne
  <2> QED BY <2>2, <2>3
<1>3. InOrder(u, U, e, b)
  <2>1. e <= Rank(<<name, "manifest">>) /\ Rank(<<name, "manifest">>) <= b
    BY <1>1
  <2>2. InOrder(<<>>, {}, e, b)
    BY <1>1, InOrderOne
  <2>3. InOrder(<<<<name, "manifest">>>>, {<<name, "manifest">>}, e, b)
    BY <1>1, <2>1, InOrderOne
  <2> QED BY <2>2, <2>3
<1>4. Each(name, S) = t \o u
  BY DEF Each
<1>5. {<<name, m>> : m \in S} = T \cup U
  BY DEF Members
<1> HIDE DEF d, e, t, u, T, U
<1>6. a <= e
  BY <1>1 DEF d, e
<1>7. d < e
  BY DEF d, e
<1>8. d <= b
  BY <1>1 DEF d, e
<1>9. InOrder(t \o u, T \cup U, a, b)
  BY <1>1, <1>2, <1>3, <1>6, <1>7, InOrderJoined DEF e
<1> QED BY <1>4, <1>5, <1>9

\* A single step.
LEMMA InOrderStep ==
  ASSUME NEW s \in AnyStep, NEW a \in Int, Rank(s) = a
  PROVE  InOrder(<<s>>, {s}, a, a)
BY InOrderOne

\* What a deployment does whose precondition fails.
LEMMA DiscardIs ==
  ASSUME NEW j
  PROVE  LET t == Each("discard", Installs(j)) \o <<Step("fail")>>
         IN t \in Seq(AnyStep) /\ Follows(t, DiscardSteps(j)) /\ Elements(t) = DiscardSteps(j)
<1>1. InOrder(Each("discard", Installs(j)), {<<"discard", m>> : m \in Installs(j)}, 23, 24)
  <2>1. /\ <<"discard", "dll">> \in AnyStep /\ <<"discard", "manifest">> \in AnyStep
        /\ Installs(j) \in SUBSET Members
    BY StepsAre, SetsAre DEF DiscardNames, Members
  <2>2. Rank(<<"discard", "dll">>) = 23 /\ Rank(<<"discard", "manifest">>) = 24
    BY Ranks
  <2> QED BY <2>1, <2>2, InOrderEach
<1>2. InOrder(<<Step("fail")>>, {Step("fail")}, 25, 25)
  <2>1. <<"fail", "all">> \in AnyStep
    BY StepsAre DEF DiscardNames
  <2>2. Rank(<<"fail", "all">>) = 25
    BY Ranks
  <2> QED BY <2>1, <2>2, InOrderStep
<1>3. InOrder(Each("discard", Installs(j)) \o <<Step("fail")>>,
              {<<"discard", m>> : m \in Installs(j)} \cup {Step("fail")}, 23, 25)
  BY <1>1, <1>2, InOrderJoined
<1>4. DiscardSteps(j) = {<<"discard", m>> : m \in Installs(j)} \cup {Step("fail")}
  BY DEF DiscardSteps
<1> QED BY <1>3, <1>4, InOrderFollows

\* A live file is another one: what is staged is discarded, or the uninstall fails.
LEMMA PreconditionFailsHolds ==
  ASSUME IInv, PreconditionFails
  PROVE  IInv'
<1> DEFINE s == Step("precondition")
<1>1. At(s) /\ s[1] \in ForwardNames
  BY DEF PreconditionFails, ForwardNames
<1>2. disk' = disk /\ installed' = installed
      /\ UNCHANGED <<plan, gaveUp, faults, disturbances, history>>
  BY DEF PreconditionFails, Unchanged
<1>3. /\ Forward /\ ForwardBody /\ Typed /\ JournalSound /\ PlacesSound /\ Untouched /\ Kept
      /\ ~IsTerminal(journal) /\ ~gaveUp /\ plan = NoPlan /\ DiskTyped(disk)
      /\ s \in rest /\ installed \in Receipts
  BY <1>1, AtForward, DiskIsTyped DEF IInv, Typed
<1>4. CASE journal.op # "deploy"
  <2>1. Persist("failed") /\ todo' = <<>>
    BY <1>4 DEF PreconditionFails
  <2>2. journal' \in Journals /\ IsTerminal(journal')
    BY <1>3, <2>1, PersistIs DEF Phases, IsTerminal
  <2> QED BY <1>2, <1>3, <2>1, <2>2, EndHolds
<1>5. CASE journal.op = "deploy"
  <2>1. /\ todo' = Each("discard", Installs(journal)) \o <<Step("fail")>>
        /\ journal' = journal
    BY <1>5 DEF PreconditionFails
  <2>2. /\ todo' \in Seq(AnyStep) /\ Follows(todo', DiscardSteps(journal))
        /\ rest' = DiscardSteps(journal)
    BY <2>1, DiscardIs DEF rest
  <2>3. /\ Step("fail") \in rest' /\ \A m \in Installs(journal) : <<"discard", m>> \in rest'
        /\ Step("finish") \notin rest' /\ Step("plan") \notin rest'
        /\ Step("rolledBack") \notin rest'
    BY <2>2 DEF DiscardSteps
  <2>4. Discarding' /\ ~Forward' /\ ~Starting' /\ ~Returning'
    BY <2>1, <2>2, <2>3 DEF Discarding, Forward, Starting, Returning
  <2>5. before' = before /\ disturbed' = disturbed /\ ~gaveUp' /\ NoPlan' = NoPlan
    BY <1>2, <1>3 DEF history, NoPlan
  <2>6. Typed'
    BY <1>2, <1>3, <2>1, <2>2, <2>5, TypedOn DEF Typed
  <2>7. Script' /\ Reason'
    BY <1>2, <1>3, <2>1, <2>4, <2>5 DEF Script, Reason
  <2>8. Settled /\ LiveSound
    BY <1>3, ForwardGives
  <2>9. SameButPhase(journal, journal') /\ Dropped /\ DiskTyped(disk')
    BY <1>2, <1>3, <2>1 DEF SameButPhase, Dropped
  <2>10. /\ JournalSound' /\ PlacesSound' /\ Untouched' /\ Settled' /\ LiveSound'
    BY <1>2, <1>3, <2>1, <2>5, <2>8, <2>9, LeftSound
  <2>11. journal.phase \in {"planned", "verified", "staged"}
    BY <1>3 DEF ForwardBody, PhaseSound
  <2>12. Kept'
    BY <1>2, <1>3, <2>5, <2>11, KeptFrame
  <2>13. DiscardBody'
    <3>1. ASSUME NEW m \in Members, <<"discard", m>> \notin rest'
          PROVE  disk["stage"][m] = NoFile
      <4>1. m \notin Installs(journal) /\ m \notin Displaces(journal)
        BY <1>5, <2>3, <3>1, SetsAre
      <4> QED BY <1>3, <4>1 DEF PlacesSound, MemberSound, StageSound
    <3> QED BY <1>2, <1>5, <2>1, <2>11, <3>1 DEF DiscardBody
  <2> QED BY <2>4, <2>6, <2>7, <2>10, <2>12, <2>13 DEF IInv, Sound
<1> QED BY <1>4, <1>5

\* The next step of a call that discards what it staged.
LEMMA AtDiscarding ==
  ASSUME IInv, NEW s, At(s), s[1] \in DiscardNames
  PROVE  /\ Discarding /\ DiscardBody /\ plan = NoPlan /\ Settled /\ LiveSound
         /\ JournalSound /\ PlacesSound /\ Untouched /\ Kept
         /\ ~Idle /\ ~IsTerminal(journal) /\ ~gaveUp /\ Typed
         /\ s \in DiscardSteps(journal) /\ s \in rest
         /\ rest \subseteq DiscardSteps(journal)
         /\ \A x \in rest : x = s \/ Rank(s) < Rank(x)
         /\ Proceed => /\ todo' \in Seq(AnyStep) /\ Follows(todo', DiscardSteps(journal))
                       /\ rest' = rest \ {s}
<1>1. Discarding /\ Sound /\ ~Idle /\ ~IsTerminal(journal) /\ ~gaveUp
  BY AtTells
<1>2. plan = NoPlan /\ ~Forward
  BY <1>1, KindsExclude DEF IInv, Script
<1>3. Follows(todo, DiscardSteps(journal)) /\ Typed
  BY <1>1 DEF Discarding, IInv
<1> QED BY <1>1, <1>2, <1>3, AtFollows DEF Sound

\* A stage is discarded.
LEMMA DiscardHolds ==
  ASSUME IInv, NEW m \in Members, Discard(m)
  PROVE  IInv'
<1> DEFINE s == <<"discard", m>>
<1>1. At(s) /\ s[1] \in DiscardNames /\ "all" \notin Members
  BY DEF Discard, DiscardNames, Members
<1>2. /\ installed' = installed /\ journal' = journal /\ Proceed
      /\ disk' = Put("stage", m, NoFile)
      /\ UNCHANGED <<plan, gaveUp, faults, disturbances, history>>
  BY DEF Discard, Unchanged
<1>3. /\ Discarding /\ DiscardBody /\ plan = NoPlan /\ Settled /\ LiveSound
      /\ JournalSound /\ PlacesSound /\ Untouched /\ Kept
      /\ ~IsTerminal(journal) /\ ~gaveUp /\ Typed /\ rest \subseteq DiscardSteps(journal)
      /\ todo' \in Seq(AnyStep) /\ Follows(todo', DiscardSteps(journal)) /\ rest' = rest \ {s}
  BY <1>1, <1>2, AtDiscarding
<1>4. /\ DiskTyped(disk')
      /\ \A p \in Places, n \in Members :
           disk'[p][n] = IF p = "stage" /\ n = m THEN NoFile ELSE disk[p][n]
  <2>1. "stage" \in Places /\ "stage" \notin {"live", "retained"} /\ NoFile \in AnyFile
    BY DEF Places, AnyFile
  <2> QED BY <1>2, <1>3, <2>1, PutIs, DiskIsTyped
<1>5. \A n \in Members :
        /\ disk'["live"][n] = disk["live"][n] /\ disk'["backup"][n] = disk["backup"][n]
        /\ disk'["durable"][n] = disk["durable"][n]
        /\ disk'["promotion"][n] = disk["promotion"][n]
        /\ disk'["restore"][n] = disk["restore"][n]
        /\ disk'["retained"][n] = disk["retained"][n]
        /\ disk'["stage"][n] = IF n = m THEN NoFile ELSE disk["stage"][n]
  BY <1>4 DEF Places
<1>6. before' = before /\ disturbed' = disturbed /\ ~gaveUp' /\ NoPlan' = NoPlan
  BY <1>2, <1>3 DEF history, NoPlan
<1>7. s # Step("fail")
  BY <1>1
<1>8. /\ Step("fail") \in rest' /\ Step("finish") \notin rest' /\ Step("plan") \notin rest'
      /\ Step("rolledBack") \notin rest'
  BY <1>3, <1>7 DEF Discarding, DiscardSteps
<1>9. Discarding' /\ ~Forward' /\ ~Starting' /\ ~Returning'
  BY <1>2, <1>3, <1>8 DEF Discarding, Forward, Starting, Returning
<1>10. Typed'
  BY <1>2, <1>3, <1>4, <1>6, TypedOn DEF Typed
<1>11. Script' /\ Reason'
  BY <1>2, <1>3, <1>6, <1>9 DEF Script, Reason
<1>12. PlacesSound'
  <2> SUFFICES ASSUME NEW n \in Members
               PROVE  MemberSound(n)'
    BY DEF PlacesSound
  <2>1. MemberSound(n)
    BY <1>3 DEF PlacesSound
  <2>2. StageSound(n)'
    BY <1>2, <1>5, <2>1 DEF MemberSound, StageSound
  <2>3. /\ PromotionSound(n)' /\ DurableSound(n)' /\ BackupSound(n)'
        /\ RestoreSound(n)' /\ RetainedSound(n)'
    BY <1>2, <1>5, <1>6, <2>1
       DEF MemberSound, PromotionSound, BackupSound, DurableSound, RestoreSound, RetainedSound
  <2> QED BY <2>2, <2>3 DEF MemberSound
<1>13. journal.phase \in {"planned", "verified", "staged"} /\ journal.op = "deploy"
  BY <1>3 DEF DiscardBody
<1>14. SameButPhase(journal, journal')
  BY <1>2 DEF SameButPhase
<1>15. JournalSound'
  BY <1>3, <1>6, <1>14, JournalFrame
<1>16. Untouched'
  BY <1>2, <1>3, <1>5, <1>6, <1>13, <1>14, UntouchedFrame
<1>17. Kept'
  BY <1>2, <1>3, <1>5, <1>6, <1>13, KeptFrame
<1>18. Settled'
  BY <1>2, <1>13 DEF Settled
<1>19. LiveSound'
  BY <1>2, <1>3, <1>5, <1>6 DEF LiveSound
<1>20. DiscardBody'
  <2>1. ASSUME NEW n \in Members, <<"discard", n>> \notin rest'
        PROVE  disk'["stage"][n] = NoFile
    BY <1>3, <1>5, <2>1 DEF DiscardBody
  <2> QED BY <1>2, <1>13, <2>1 DEF DiscardBody
<1> QED BY <1>9, <1>10, <1>11, <1>12, <1>15, <1>16, <1>17, <1>18, <1>19, <1>20 DEF IInv, Sound

\* The deployment has failed.
LEMMA FailHolds ==
  ASSUME IInv, Fail
  PROVE  IInv'
<1> DEFINE s == Step("fail")
<1>1. At(s) /\ s[1] \in DiscardNames
  BY DEF Fail, DiscardNames
<1>2. /\ disk' = disk /\ installed' = installed /\ Proceed /\ Persist("failed")
      /\ UNCHANGED <<plan, gaveUp, faults, disturbances, history>>
  BY DEF Fail, Unchanged
<1>3. /\ Typed /\ ~gaveUp /\ plan = NoPlan /\ todo' \in Seq(AnyStep)
      /\ rest' = rest \ {s} /\ rest \subseteq DiscardSteps(journal)
      /\ \A x \in rest : x = s \/ Rank(s) < Rank(x)
  BY <1>1, <1>2, AtDiscarding
<1>4. rest' = {}
  <2> SUFFICES ASSUME NEW x \in rest, x # s
               PROVE  FALSE
    BY <1>3
  <2>1. Rank(s) < Rank(x) /\ Rank(s) = 25
    BY <1>3, Ranks
  <2>2. PICK m \in Installs(journal) : x = <<"discard", m>>
    BY <1>3 DEF DiscardSteps
  <2>3. m \in Members
    BY SetsAre
  <2> QED BY <2>1, <2>2, <2>3, MemberRanks
<1>5. todo' = <<>>
  BY <1>3, <1>4, NoSteps DEF rest
<1>6. journal' \in Journals /\ IsTerminal(journal')
  BY <1>2, <1>3, PersistIs DEF Phases, IsTerminal
<1>7. DiskTyped(disk') /\ installed' \in Receipts
  BY <1>2, <1>3, DiskIsTyped DEF Typed
<1> QED BY <1>2, <1>3, <1>5, <1>6, <1>7, EndHolds

-----------------------------------------------------------------------------
(* The calls                                                               *)

\* Nothing is in order.
LEMMA InOrderNone ==
  ASSUME NEW a \in Int, NEW b \in Int
  PROVE  InOrder(<<>>, {}, a, b)
BY DEF InOrder, Elements

\* Two steps, one after the other.
LEMMA InOrderTwo ==
  ASSUME NEW s \in AnyStep, NEW u \in AnyStep, NEW a \in Int, NEW b \in Int,
         Rank(s) = a, Rank(u) = b, a < b
  PROVE  InOrder(<<s, u>>, {s, u}, a, b)
<1>1. <<s, u>> \in Seq(AnyStep) /\ DOMAIN <<s, u>> = {1, 2}
  OBVIOUS
<1>2. <<s, u>>[1] = s /\ <<s, u>>[2] = u
  OBVIOUS
<1>3. Elements(<<s, u>>) = {s, u}
  BY <1>1, <1>2 DEF Elements
<1> QED BY <1>1, <1>2, <1>3 DEF InOrder

\* What is done when the transaction is committed.
EndSteps(j) ==
  {Step("cleanup"), <<"clean", "backup">>}
    \cup (IF j.op = "uninstall" THEN {<<"clean", "retained">>} ELSE {})
    \cup {Step("finish")}

\* The cleanup does these steps in order.
LEMMA EndInOrder ==
  ASSUME NEW j
  PROVE  InOrder(CleanupSteps(j), EndSteps(j), 19, 22)
<1>1. /\ <<"cleanup", "all">> \in AnyStep /\ <<"finish", "all">> \in AnyStep
      /\ <<"clean", "backup">> \in AnyStep /\ <<"clean", "retained">> \in AnyStep
  BY StepsAre DEF ForwardNames, Places
<1> DEFINE u == IF j.op = "uninstall" THEN <<<<"clean", "retained">>>> ELSE <<>>
           U == IF j.op = "uninstall" THEN {<<"clean", "retained">>} ELSE {}
<1>2. InOrder(<<Step("cleanup"), <<"clean", "backup">>>>,
              {Step("cleanup"), <<"clean", "backup">>}, 19, 20)
  <2>1. <<"cleanup", "all">> \in AnyStep /\ <<"clean", "backup">> \in AnyStep
    BY <1>1
  <2>2. Rank(<<"cleanup", "all">>) = 19 /\ Rank(<<"clean", "backup">>) = 20
    BY Ranks
  <2> QED BY <2>1, <2>2, InOrderTwo
<1>3. InOrder(u, U, 21, 21)
  <2>1. InOrder(<<>>, {}, 21, 21)
    BY InOrderNone
  <2>2. InOrder(<<<<"clean", "retained">>>>, {<<"clean", "retained">>}, 21, 21)
    <3>1. <<"clean", "retained">> \in AnyStep
      BY <1>1
    <3>2. Rank(<<"clean", "retained">>) = 21
      BY Ranks
    <3> QED BY <3>1, <3>2, InOrderStep
  <2> QED BY <2>1, <2>2
<1>4. InOrder(<<Step("finish")>>, {Step("finish")}, 22, 22)
  <2>1. <<"finish", "all">> \in AnyStep
    BY <1>1
  <2>2. Rank(<<"finish", "all">>) = 22
    BY Ranks
  <2> QED BY <2>1, <2>2, InOrderStep
<1> HIDE DEF u, U
<1>5. InOrder(<<Step("cleanup"), <<"clean", "backup">>>> \o u,
              {Step("cleanup"), <<"clean", "backup">>} \cup U, 19, 21)
  BY <1>2, <1>3, InOrderJoined
<1>6. InOrder((<<Step("cleanup"), <<"clean", "backup">>>> \o u) \o <<Step("finish")>>,
              ({Step("cleanup"), <<"clean", "backup">>} \cup U) \cup {Step("finish")}, 19, 22)
  BY <1>4, <1>5, InOrderJoined
<1> QED BY <1>6 DEF u, U, CleanupSteps, EndSteps

\* A recovery of a committed transaction does the end of the call.
LEMMA CleanupIs ==
  ASSUME NEW j, j.op \in {"deploy", "uninstall"}
  PROVE  /\ CleanupSteps(j) \in Seq(AnyStep) /\ Follows(CleanupSteps(j), ForwardSteps(j))
         /\ Elements(CleanupSteps(j)) = EndSteps(j)
<1>1. /\ CleanupSteps(j) \in Seq(AnyStep) /\ Elements(CleanupSteps(j)) = EndSteps(j)
      /\ \A i, k \in DOMAIN CleanupSteps(j) :
           i < k => Rank(CleanupSteps(j)[i]) < Rank(CleanupSteps(j)[k])
  BY EndInOrder DEF InOrder
<1>2. EndSteps(j) \subseteq ForwardSteps(j)
  BY DEF EndSteps, ForwardSteps
<1>3. ASSUME NEW s \in ForwardSteps(j)
      PROVE  s \in EndSteps(j) \/ Rank(s) < 19
  <2>1. CASE s \in {Step("precondition"), Step("record"), Step("commit"),
                    Step("download"), Step("staged"), Step("outcome")}
    BY <2>1, WholeRanks
  <2>2. ASSUME NEW m \in Members,
               s \in {<<"takeAway", m>>, <<"stage", m>>, <<"install", m>>, <<"promote", m>>,
                      <<"removeSource", m>>, <<"giveBack", m>>}
        PROVE  Rank(s) < 19
    BY <2>2, MemberRanks
  <2>3. /\ Had(j) \cap ShouldMutate(j) \subseteq Members /\ Installs(j) \subseteq Members
        /\ Retains(j) \subseteq Members /\ Displaces(j) \subseteq Members
    BY SetsAre
  <2>4. CASE s \in {Step("cleanup"), <<"clean", "backup">>, Step("finish")}
    BY <2>4 DEF EndSteps
  <2>5. CASE s = <<"clean", "retained">>
    <3>1. j.op = "uninstall"
      BY <2>5, ForwardStepsAre
    <3> QED BY <2>5, <3>1 DEF EndSteps
  <2> QED BY <2>1, <2>2, <2>3, <2>4, <2>5 DEF ForwardSteps
<1>4. \A x \in EndSteps(j) : ~(Rank(x) < 19)
  BY EndRanks DEF EndSteps
<1>5. \A x \in EndSteps(j), s \in ForwardSteps(j) : Rank(x) < Rank(s) => s \in EndSteps(j)
  BY <1>3, <1>4, RankIsNumber
<1> QED BY <1>1, <1>2, <1>5 DEF Follows

\* What the deployment of an own file of the player's adds.
RetainSteps(j, m) ==
  IF m \in Retains(j) THEN {<<"promote", m>>, <<"removeSource", m>>} ELSE {}

\* A deployment does its steps in order.
LEMMA DeployIs ==
  ASSUME NEW j, j.op = "deploy"
  PROVE  /\ DeploySteps(j) \in Seq(AnyStep) /\ Follows(DeploySteps(j), ForwardSteps(j))
         /\ Elements(DeploySteps(j)) = ForwardSteps(j)
<1>1. \A n \in ForwardNames : <<n, "all">> \in AnyStep /\ \A m \in Members : <<n, m>> \in AnyStep
  BY StepsAre
<1> DEFINE T == Had(j) \cap ShouldMutate(j)
           d == IF "dll" \in Retains(j)
                THEN <<<<"promote", "dll">>, <<"removeSource", "dll">>>> ELSE <<>>
           e == IF "manifest" \in Retains(j)
                THEN <<<<"promote", "manifest">>, <<"removeSource", "manifest">>>> ELSE <<>>
           E(n, S) == {<<n, m>> : m \in S}
<1>2. Installs(j) \in SUBSET Members /\ T \in SUBSET Members /\ Retains(j) \subseteq Members
  BY SetsAre
<1>3. InOrder(<<Step("download")>>, {Step("download")}, 1, 1)
  <2>1. <<"download", "all">> \in AnyStep
    BY <1>1 DEF ForwardNames
  <2>2. Rank(<<"download", "all">>) = 1
    BY Ranks
  <2> QED BY <2>1, <2>2, InOrderStep
<1>4. InOrder(Each("stage", Installs(j)), E("stage", Installs(j)), 2, 3)
  <2>1. <<"stage", "dll">> \in AnyStep /\ <<"stage", "manifest">> \in AnyStep
    BY <1>1 DEF ForwardNames, Members
  <2>2. Rank(<<"stage", "dll">>) = 2 /\ Rank(<<"stage", "manifest">>) = 3
    BY Ranks
  <2> QED BY <1>2, <2>1, <2>2, InOrderEach
<1>5. InOrder(<<Step("staged"), Step("precondition")>>,
              {Step("staged"), Step("precondition")}, 4, 5)
  <2>1. <<"staged", "all">> \in AnyStep /\ <<"precondition", "all">> \in AnyStep
    BY <1>1 DEF ForwardNames
  <2>2. Rank(<<"staged", "all">>) = 4 /\ Rank(<<"precondition", "all">>) = 5
    BY Ranks
  <2> QED BY <2>1, <2>2, InOrderTwo
<1>6. InOrder(Each("takeAway", T), E("takeAway", T), 6, 7)
  <2>1. <<"takeAway", "dll">> \in AnyStep /\ <<"takeAway", "manifest">> \in AnyStep
    BY <1>1 DEF ForwardNames, Members
  <2>2. Rank(<<"takeAway", "dll">>) = 6 /\ Rank(<<"takeAway", "manifest">>) = 7
    BY Ranks
  <2> QED BY <1>2, <2>1, <2>2, InOrderEach
<1>7. InOrder(Each("install", Installs(j)), E("install", Installs(j)), 8, 9)
  <2>1. <<"install", "dll">> \in AnyStep /\ <<"install", "manifest">> \in AnyStep
    BY <1>1 DEF ForwardNames, Members
  <2>2. Rank(<<"install", "dll">>) = 8 /\ Rank(<<"install", "manifest">>) = 9
    BY Ranks
  <2> QED BY <1>2, <2>1, <2>2, InOrderEach
<1>8. InOrder(<<Step("record")>>, {Step("record")}, 12, 12)
  <2>1. <<"record", "all">> \in AnyStep
    BY <1>1 DEF ForwardNames
  <2>2. Rank(<<"record", "all">>) = 12
    BY Ranks
  <2> QED BY <2>1, <2>2, InOrderStep
<1>9. InOrder(d, RetainSteps(j, "dll"), 13, 14)
  <2>1. <<"promote", "dll">> \in AnyStep /\ <<"removeSource", "dll">> \in AnyStep
    BY <1>1 DEF ForwardNames, Members
  <2>2. InOrder(<<>>, {}, 13, 14)
    BY InOrderNone
  <2>3. InOrder(<<<<"promote", "dll">>, <<"removeSource", "dll">>>>,
                {<<"promote", "dll">>, <<"removeSource", "dll">>}, 13, 14)
    <3>1. <<"promote", "dll">> \in AnyStep /\ <<"removeSource", "dll">> \in AnyStep
      BY <2>1
    <3>2. Rank(<<"promote", "dll">>) = 13 /\ Rank(<<"removeSource", "dll">>) = 14
      BY Ranks
    <3> QED BY <3>1, <3>2, InOrderTwo
  <2> QED BY <2>2, <2>3 DEF RetainSteps
<1>10. InOrder(e, RetainSteps(j, "manifest"), 15, 16)
  <2>1. <<"promote", "manifest">> \in AnyStep /\ <<"removeSource", "manifest">> \in AnyStep
    BY <1>1 DEF ForwardNames, Members
  <2>2. InOrder(<<>>, {}, 15, 16)
    BY InOrderNone
  <2>3. InOrder(<<<<"promote", "manifest">>, <<"removeSource", "manifest">>>>,
                {<<"promote", "manifest">>, <<"removeSource", "manifest">>}, 15, 16)
    <3>1. /\ <<"promote", "manifest">> \in AnyStep
          /\ <<"removeSource", "manifest">> \in AnyStep
      BY <2>1
    <3>2. /\ Rank(<<"promote", "manifest">>) = 15
          /\ Rank(<<"removeSource", "manifest">>) = 16
      BY Ranks
    <3> QED BY <3>1, <3>2, InOrderTwo
  <2> QED BY <2>2, <2>3 DEF RetainSteps
<1>11. InOrder(<<Step("commit"), Step("outcome")>>, {Step("commit"), Step("outcome")}, 17, 18)
  <2>1. <<"commit", "all">> \in AnyStep /\ <<"outcome", "all">> \in AnyStep
    BY <1>1 DEF ForwardNames
  <2>2. Rank(<<"commit", "all">>) = 17 /\ Rank(<<"outcome", "all">>) = 18
    BY Ranks
  <2> QED BY <2>1, <2>2, InOrderTwo
<1>12. InOrder(CleanupSteps(j), EndSteps(j), 19, 22)
  BY EndInOrder
<1>13. DeploySteps(j) =
         <<Step("download")>> \o Each("stage", Installs(j))
           \o <<Step("staged"), Step("precondition")>> \o Each("takeAway", T)
           \o Each("install", Installs(j)) \o <<Step("record")>> \o d \o e
           \o <<Step("commit"), Step("outcome")>> \o CleanupSteps(j)
  BY DEF DeploySteps
<1>14. ForwardSteps(j) =
         {Step("download")} \cup E("stage", Installs(j))
           \cup {Step("staged"), Step("precondition")} \cup E("takeAway", T)
           \cup E("install", Installs(j)) \cup {Step("record")}
           \cup RetainSteps(j, "dll") \cup RetainSteps(j, "manifest")
           \cup {Step("commit"), Step("outcome")} \cup EndSteps(j)
  <2>1. E("promote", Retains(j)) \cup E("removeSource", Retains(j))
          = RetainSteps(j, "dll") \cup RetainSteps(j, "manifest")
    BY <1>2 DEF RetainSteps, Members
  <2>2. EndSteps(j) = {Step("cleanup"), <<"clean", "backup">>, Step("finish")}
    BY DEF EndSteps
  <2> QED BY <2>1, <2>2 DEF ForwardSteps
<1> HIDE DEF T, d, e, E
<1> DEFINE t1 == <<Step("download")>> \o Each("stage", Installs(j))
           T1 == {Step("download")} \cup E("stage", Installs(j))
           t2 == t1 \o <<Step("staged"), Step("precondition")>>
           T2 == T1 \cup {Step("staged"), Step("precondition")}
           t3 == t2 \o Each("takeAway", T)
           T3 == T2 \cup E("takeAway", T)
           t4 == t3 \o Each("install", Installs(j))
           T4 == T3 \cup E("install", Installs(j))
           t5 == t4 \o <<Step("record")>>
           T5 == T4 \cup {Step("record")}
           t6 == t5 \o d
           T6 == T5 \cup RetainSteps(j, "dll")
           t7 == t6 \o e
           T7 == T6 \cup RetainSteps(j, "manifest")
           t8 == t7 \o <<Step("commit"), Step("outcome")>>
           T8 == T7 \cup {Step("commit"), Step("outcome")}
           t9 == t8 \o CleanupSteps(j)
           T9 == T8 \cup EndSteps(j)
<1>15. InOrder(t1, T1, 1, 3)
  BY <1>3, <1>4, InOrderJoined
<1> HIDE DEF t1, T1
<1>16. InOrder(t2, T2, 1, 5)
  BY <1>5, <1>15, InOrderJoined
<1> HIDE DEF t2, T2
<1>17. InOrder(t3, T3, 1, 7)
  BY <1>6, <1>16, InOrderJoined
<1> HIDE DEF t3, T3
<1>18. InOrder(t4, T4, 1, 9)
  BY <1>7, <1>17, InOrderJoined
<1> HIDE DEF t4, T4
<1>19. InOrder(t5, T5, 1, 12)
  BY <1>8, <1>18, InOrderJoined
<1> HIDE DEF t5, T5
<1>20. InOrder(t6, T6, 1, 14)
  BY <1>9, <1>19, InOrderJoined
<1> HIDE DEF t6, T6
<1>21. InOrder(t7, T7, 1, 16)
  BY <1>10, <1>20, InOrderJoined
<1> HIDE DEF t7, T7
<1>22. InOrder(t8, T8, 1, 18)
  BY <1>11, <1>21, InOrderJoined
<1> HIDE DEF t8, T8
<1>23. InOrder(t9, T9, 1, 22)
  BY <1>12, <1>22, InOrderJoined
<1>24. DeploySteps(j) = t9
  BY <1>13 DEF t1, t2, t3, t4, t5, t6, t7, t8
<1>25. ForwardSteps(j) = T9
  BY <1>14 DEF T1, T2, T3, T4, T5, T6, T7, T8
<1> HIDE DEF t9, T9
<1> QED BY <1>23, <1>24, <1>25, InOrderFollows

\* An uninstall does its steps in order.
LEMMA UninstallIs ==
  ASSUME NEW j, j.op = "uninstall", Had(j) \subseteq ShouldMutate(j)
  PROVE  /\ UninstallSteps(j) \in Seq(AnyStep) /\ Follows(UninstallSteps(j), ForwardSteps(j))
         /\ Elements(UninstallSteps(j)) = ForwardSteps(j)
<1>1. \A n \in ForwardNames : <<n, "all">> \in AnyStep /\ \A m \in Members : <<n, m>> \in AnyStep
  BY StepsAre
<1> DEFINE E(n, S) == {<<n, m>> : m \in S}
<1>2. Had(j) \in SUBSET Members /\ Displaces(j) \in SUBSET Members
      /\ Had(j) = Had(j) \cap ShouldMutate(j)
  BY SetsAre
<1>3. InOrder(<<Step("precondition")>>, {Step("precondition")}, 5, 5)
  <2>1. <<"precondition", "all">> \in AnyStep
    BY <1>1 DEF ForwardNames
  <2>2. Rank(<<"precondition", "all">>) = 5
    BY Ranks
  <2> QED BY <2>1, <2>2, InOrderStep
<1>4. InOrder(Each("takeAway", Had(j)), E("takeAway", Had(j)), 6, 7)
  <2>1. <<"takeAway", "dll">> \in AnyStep /\ <<"takeAway", "manifest">> \in AnyStep
    BY <1>1 DEF ForwardNames, Members
  <2>2. Rank(<<"takeAway", "dll">>) = 6 /\ Rank(<<"takeAway", "manifest">>) = 7
    BY Ranks
  <2> QED BY <1>2, <2>1, <2>2, InOrderEach
<1>5. InOrder(Each("giveBack", Displaces(j)), E("giveBack", Displaces(j)), 10, 11)
  <2>1. <<"giveBack", "dll">> \in AnyStep /\ <<"giveBack", "manifest">> \in AnyStep
    BY <1>1 DEF ForwardNames, Members
  <2>2. Rank(<<"giveBack", "dll">>) = 10 /\ Rank(<<"giveBack", "manifest">>) = 11
    BY Ranks
  <2> QED BY <1>2, <2>1, <2>2, InOrderEach
<1>6. InOrder(<<Step("record"), Step("commit")>>, {Step("record"), Step("commit")}, 12, 17)
  <2>1. <<"record", "all">> \in AnyStep /\ <<"commit", "all">> \in AnyStep
    BY <1>1 DEF ForwardNames
  <2>2. Rank(<<"record", "all">>) = 12 /\ Rank(<<"commit", "all">>) = 17
    BY Ranks
  <2> QED BY <2>1, <2>2, InOrderTwo
<1>7. InOrder(CleanupSteps(j), EndSteps(j), 19, 22)
  BY EndInOrder
<1>8. UninstallSteps(j) =
        <<Step("precondition")>> \o Each("takeAway", Had(j)) \o Each("giveBack", Displaces(j))
          \o <<Step("record"), Step("commit")>> \o CleanupSteps(j)
  BY DEF UninstallSteps
<1>9. ForwardSteps(j) =
        {Step("precondition")} \cup E("takeAway", Had(j)) \cup E("giveBack", Displaces(j))
          \cup {Step("record"), Step("commit")} \cup EndSteps(j)
  <2>1. EndSteps(j) = {Step("cleanup"), <<"clean", "backup">>, <<"clean", "retained">>,
                       Step("finish")}
    BY DEF EndSteps
  <2> QED BY <1>2, <2>1 DEF ForwardSteps
<1> HIDE DEF E
<1> DEFINE t1 == <<Step("precondition")>> \o Each("takeAway", Had(j))
           T1 == {Step("precondition")} \cup E("takeAway", Had(j))
           t2 == t1 \o Each("giveBack", Displaces(j))
           T2 == T1 \cup E("giveBack", Displaces(j))
           t3 == t2 \o <<Step("record"), Step("commit")>>
           T3 == T2 \cup {Step("record"), Step("commit")}
           t4 == t3 \o CleanupSteps(j)
           T4 == T3 \cup EndSteps(j)
<1>10. InOrder(t1, T1, 5, 7)
  BY <1>3, <1>4, InOrderJoined
<1> HIDE DEF t1, T1
<1>11. InOrder(t2, T2, 5, 11)
  BY <1>5, <1>10, InOrderJoined
<1> HIDE DEF t2, T2
<1>12. InOrder(t3, T3, 5, 17)
  BY <1>6, <1>11, InOrderJoined
<1> HIDE DEF t3, T3
<1>13. InOrder(t4, T4, 5, 22)
  BY <1>7, <1>12, InOrderJoined
<1>14. UninstallSteps(j) = t4
  BY <1>8 DEF t1, t2, t3
<1>15. ForwardSteps(j) = T4
  BY <1>9 DEF T1, T2, T3
<1> HIDE DEF t4, T4
<1> QED BY <1>13, <1>14, <1>15, InOrderFollows

\* The places of a new transaction are empty, but for what the receipt retains.
LEMMA OwnPlacesAre ==
  ASSUME Typed, \A m \in Members : Is(OwnPlaces["retained"][m], installed.adopted[m])
  PROVE  /\ DiskTyped(OwnPlaces)
         /\ \A m \in Members :
              /\ OwnPlaces["live"][m] = disk["live"][m]
              /\ OwnPlaces["retained"][m] = installed.adopted[m]
              /\ OwnPlaces["stage"][m] = NoFile /\ OwnPlaces["backup"][m] = NoFile
              /\ OwnPlaces["durable"][m] = NoFile /\ OwnPlaces["promotion"][m] = NoFile
              /\ OwnPlaces["restore"][m] = NoFile
<1>1. /\ \A p \in Places, m \in Members : disk[p][m] \in AnyFile
      /\ \A m \in Members : disk["live"][m] \in RealFile /\ disk["retained"][m] \in RealFile
      /\ installed.adopted \in [Members -> RealFile]
      /\ NoFile \in AnyFile
  BY DiskIsTyped DEF Typed, Receipts
<1>2. \A m \in Members : BackupPlace(journal, m) \in Places
  BY DEF BackupPlace, Places
<1>3. \A p \in Places, m \in Members :
        /\ p = "live" => OwnPlaces[p][m] = disk["live"][m]
        /\ p = "retained" /\ installed.adopted[m] # NoFile =>
             OwnPlaces[p][m] = disk[BackupPlace(journal, m)][m]
        /\ p # "live" /\ ~(p = "retained" /\ installed.adopted[m] # NoFile) =>
             OwnPlaces[p][m] = NoFile
  BY DEF OwnPlaces
<1>4. "live" \in Places /\ "retained" \in Places
  BY DEF Places
<1>5. \A p \in Places, m \in Members : OwnPlaces[p][m] \in AnyFile
  BY <1>1, <1>2, <1>3, <1>4
<1>6. \A m \in Members : OwnPlaces["retained"][m] = installed.adopted[m]
  BY <1>1, <1>4, <1>5, IsFile
<1>7. OwnPlaces \in [Places -> [Members -> AnyFile]]
  <2>1. /\ DOMAIN OwnPlaces = Places
        /\ \A p \in Places : OwnPlaces[p] = [m \in Members |-> OwnPlaces[p][m]]
    BY DEF OwnPlaces
  <2>2. OwnPlaces = [p \in Places |-> OwnPlaces[p]]
    BY DEF OwnPlaces
  <2>3. \A p \in Places : OwnPlaces[p] \in [Members -> AnyFile]
    BY <1>5, <2>1
  <2> QED BY <2>2, <2>3
<1>8. \A m \in Members : OwnPlaces["live"][m] = disk["live"][m]
  BY <1>3, <1>4
<1>9. DiskTyped(OwnPlaces)
  BY <1>1, <1>6, <1>7, <1>8 DEF DiskTyped
<1>10. {"stage", "backup", "durable", "promotion", "restore"} \subseteq Places
  BY DEF Places
<1>11. \A p \in {"stage", "backup", "durable", "promotion", "restore"}, m \in Members :
         OwnPlaces[p][m] = NoFile
  BY <1>3, <1>10
<1> QED BY <1>6, <1>8, <1>9, <1>11

\* A transaction begins.
LEMMA BeginHolds ==
  ASSUME IInv, NEW op \in {"deploy", "uninstall"}, NEW release \in Releases,
         NEW prior \in [Members -> Identities \cup {NoFile}], BeginAs(op, release, prior),
         todo' \in Seq(AnyStep), Follows(todo', ForwardSteps(journal')),
         Elements(todo') = ForwardSteps(journal'),
         JournalSound'
  PROVE  IInv'
<1>1. /\ IsTerminal(journal) /\ Idle /\ journal.number < MaxTransactions
      /\ journal' = [op |-> op, phase |-> "planned", release |-> release,
                     number |-> journal.number + 1, prior |-> prior,
                     previous |-> installed]
      /\ disk' = OwnPlaces /\ before' = disk["live"] /\ disturbed' = {} /\ gaveUp' = FALSE
      /\ UNCHANGED <<installed, plan, faults, disturbances>>
  BY DEF BeginAs, Admissible
<1>2. /\ Typed /\ installed \in Receipts /\ journal \in Journals
      /\ disk["live"] \in [Members -> RealFile]
  <2>1. disk["live"] = [m \in Members |-> disk["live"][m]]
    BY DEF IInv, Typed, Places
  <2> QED BY <2>1 DEF IInv, Typed
<1>3. /\ DiskTyped(disk')
      /\ \A m \in Members :
           /\ disk'["live"][m] = before'[m]
           /\ disk'["retained"][m] = installed.adopted[m]
           /\ disk'["stage"][m] = NoFile /\ disk'["backup"][m] = NoFile
           /\ disk'["durable"][m] = NoFile /\ disk'["promotion"][m] = NoFile
           /\ disk'["restore"][m] = NoFile
  <2>1. \A m \in Members : Is(OwnPlaces["retained"][m], installed.adopted[m])
    BY DEF BeginAs
  <2> QED BY <1>1, <1>2, <2>1, OwnPlacesAre
<1>4. /\ journal'.op = op /\ journal'.phase = "planned" /\ journal'.previous = installed
      /\ journal' \in Journals
  <2>1. journal.number + 1 \in 0 .. MaxTransactions
    BY <1>1, <1>2, BoundAssumption DEF Journals
  <2> QED BY <1>1, <1>2, <2>1 DEF Journals, Phases
<1>5. plan = NoPlan /\ NoPlan' = NoPlan
  <2>1. rest = {}
    BY <1>1 DEF Idle, rest, Elements
  <2> QED BY <2>1, IdleIsNoKind DEF IInv, Script, NoPlan
<1>6. Typed'
  <2>1. disturbed' \subseteq Members
    BY <1>1
  <2> QED BY <1>1, <1>2, <1>3, <1>4, <2>1 DEF Typed, DiskTyped
<1>7. rest' = ForwardSteps(journal')
  BY DEF rest
<1>8. Forward' /\ ~Discarding' /\ ~Starting' /\ ~Returning'
  <2>1. Step("finish") \in rest'
    BY <1>7, ForwardStepsAre
  <2>2. Step("fail") \notin rest' /\ Step("plan") \notin rest' /\ Step("rolledBack") \notin rest'
    BY <1>7 DEF ForwardSteps
  <2> QED BY <2>1, <2>2 DEF Forward, Discarding, Starting, Returning
<1>9. Script' /\ ~IsTerminal(journal')
  <2>1. ~IsTerminal(journal')
    BY <1>4 DEF IsTerminal
  <2> QED BY <1>1, <1>5, <1>8, <2>1 DEF Script
<1>10. PlacesSound'
  BY <1>1, <1>3, <1>4
     DEF PlacesSound, MemberSound, StageSound, BackupSound, DurableSound, PromotionSound,
         RestoreSound, RetainedSound
<1>11. Untouched'
  BY <1>1, <1>3, <1>4 DEF Untouched
<1>12. Kept'
  BY <1>3 DEF Kept
<1>13. ForwardBody'
  <2>1. {Step("precondition"), Step("commit"), Step("record"),
         <<"clean", "backup">>} \subseteq rest'
    BY <1>7, ForwardStepsAre
  <2>2. PhaseSound'
    BY <1>4, <2>1 DEF PhaseSound
  <2>3. ASSUME NEW m \in Members
        PROVE  ForwardMember(m)'
    <3>1. /\ <<"install", m>> \in rest' => <<"stage", m>> \in rest'
          /\ <<"removeSource", m>> \in rest' => <<"takeAway", m>> \in rest'
          /\ journal'.op = "deploy" /\ m \in Retains(journal') => <<"promote", m>> \in rest'
      BY <1>7, ForwardStepsAre, SetsAre
    <3>2. LiveNow(m)' = before'[m]
      <4>1. <<"takeAway", m>> \notin rest' => Base(m)' = before'[m]
        BY <1>7, ForwardStepsAre DEF Base
      <4>2. <<"install", m>> \notin rest' => m \notin Installs(journal')
        BY <1>4, <1>7, ForwardStepsAre, SetsAre
      <4>3. <<"giveBack", m>> \notin rest' => m \notin Displaces(journal')
        BY <1>4, <1>7, ForwardStepsAre, SetsAre
      <4> QED BY <4>1, <4>2, <4>3 DEF LiveNow, Final
    <3> QED BY <1>3, <2>1, <3>1, <3>2 DEF ForwardMember
  <2> QED BY <1>1, <1>4, <2>1, <2>2, <2>3 DEF ForwardBody
<1> QED BY <1>1, <1>6, <1>8, <1>9, <1>10, <1>11, <1>12, <1>13, ForwardHolds

\* The player deploys, repairs or updates.
LEMMA DeployHolds ==
  ASSUME IInv, NEW release \in Releases, Deploy(release)
  PROVE  IInv'
<1>1. BeginAs("deploy", release, disk["live"]) /\ todo' = DeploySteps(journal')
  BY DEF Deploy
<1>2. disk["live"] \in [Members -> Identities \cup {NoFile}]
  <2>1. disk["live"] = [m \in Members |-> disk["live"][m]]
    BY DEF IInv, Typed, Places
  <2>2. \A m \in Members : disk["live"][m] \in Identities \cup {NoFile}
    BY DEF IInv, Typed, RealFile, Identities
  <2> QED BY <2>1, <2>2
<1>3. /\ journal'.op = "deploy" /\ journal'.release = release
      /\ journal'.prior = disk["live"] /\ before' = disk["live"]
  BY <1>1 DEF BeginAs
<1>4. /\ todo' \in Seq(AnyStep) /\ Follows(todo', ForwardSteps(journal'))
      /\ Elements(todo') = ForwardSteps(journal')
  BY <1>1, <1>3, DeployIs
<1>5. JournalSound'
  BY <1>3 DEF JournalSound
<1> QED BY <1>1, <1>2, <1>4, <1>5, BeginHolds

\* The player uninstalls.
LEMMA UninstallHolds ==
  ASSUME IInv, Uninstall
  PROVE  IInv'
<1> DEFINE release == installed.release
           prior == [m \in Members |->
                       IF m = "dll" \/ ManagesManifest(installed)
                       THEN File(installed.release, AnyMark) ELSE NoFile]
<1>1. /\ BeginAs("uninstall", release, prior) /\ todo' = UninstallSteps(journal')
      /\ Managed(installed) /\ Intact
  BY DEF Uninstall
<1>2. release \in Releases
  BY <1>1 DEF Managed, IInv, Typed, Receipts
<1>3. prior \in [Members -> Identities \cup {NoFile}]
  BY <1>2 DEF Identities, File
<1>4. /\ journal'.op = "uninstall" /\ journal'.release = release
      /\ journal'.prior = prior /\ before' = disk["live"] /\ journal'.previous = installed
  BY <1>1 DEF BeginAs
<1>5. JournalSound'
  <2>1. journal'.op # "deploy"
    BY <1>4
  <2>2. ASSUME NEW m \in Members
        PROVE  IF m = "dll" \/ release \in WithManifest
               THEN prior[m] = File(release, AnyMark) /\ before'[m].bytes = release
               ELSE prior[m] = NoFile
    <3>1. prior[m] = IF m = "dll" \/ release \in WithManifest
                     THEN File(release, AnyMark) ELSE NoFile
      BY DEF ManagesManifest
    <3>2. m = "dll" \/ release \in WithManifest => disk["live"][m].bytes = release
      BY <1>1 DEF Intact, ManagesManifest, Members
    <3> QED BY <1>4, <3>1, <3>2
  <2> HIDE DEF prior
  <2> QED BY <1>2, <1>4, <2>1, <2>2 DEF JournalSound
<1>6. Had(journal') \subseteq ShouldMutate(journal')
  <2>1. \A m \in Had(journal') : m \in Members /\ (m = "dll" \/ ManagesManifest(installed))
    BY <1>4 DEF Had
  <2> QED BY <1>4, <2>1 DEF ShouldMutate, Members
<1>7. /\ todo' \in Seq(AnyStep) /\ Follows(todo', ForwardSteps(journal'))
      /\ Elements(todo') = ForwardSteps(journal')
  BY <1>1, <1>4, <1>6, UninstallIs
<1> HIDE DEF prior, release
<1> QED BY <1>1, <1>2, <1>3, <1>5, <1>7, BeginHolds

\* The player stops to manage the mod.
LEMMA StopManagingHolds ==
  ASSUME IInv, StopManaging
  PROVE  IInv'
<1>1. /\ IsTerminal(journal) /\ installed' = NotInstalled
      /\ UNCHANGED <<disk, journal, todo, plan, gaveUp, faults, disturbances, before, disturbed>>
  BY DEF StopManaging, Admissible, history
<1>2. NotInstalled \in Receipts
  BY DEF NotInstalled, Receipts, RealFile
<1>3. Typed'
  BY <1>1, <1>2 DEF IInv, Typed
<1>4. plan = NoPlan /\ NoPlan' = NoPlan /\ Idle
  <2>1. Idle
    BY <1>1 DEF IInv, Script
  <2> QED BY <2>1, IdleIsNoKind, NoSteps DEF IInv, Script, Idle, NoPlan, rest, Typed
<1>5. Script' /\ Reason'
  BY <1>1, <1>4 DEF IInv, Script, Reason, Idle
<1> QED BY <1>1, <1>3, <1>5 DEF IInv

\* The player lets the launcher recover what was interrupted.
LEMMA RecoverHolds ==
  ASSUME IInv, Recover
  PROVE  IInv'
<1>1. /\ Idle /\ ~IsTerminal(journal) /\ gaveUp' = FALSE /\ disk' = disk
      /\ installed' = installed /\ journal' = journal
      /\ UNCHANGED <<plan, faults, disturbances, history>>
      /\ todo' = IF journal.phase = "cleanup" THEN CleanupSteps(journal) ELSE RollBackSteps
  BY DEF Recover
<1>2. rest = {}
  BY <1>1 DEF Idle, rest, Elements
<1>3. /\ Typed /\ JournalSound /\ PlacesSound /\ Untouched /\ Kept /\ Settled /\ LiveSound
      /\ plan = NoPlan /\ NoPlan' = NoPlan
  BY <1>1, <1>2, IdleIsNoKind DEF IInv, Script, Sound, NoPlan
<1>4. DiskTyped(disk') /\ Dropped /\ faults' \in 0 .. MaxFaults
  BY <1>1, <1>3, DiskIsTyped DEF Dropped, Typed
<1>5. CASE journal.phase # "cleanup"
  <2>1. Raise /\ plan' = NoPlan /\ ~gaveUp' /\ gaveUp' \in BOOLEAN
    BY <1>1, <1>3, <1>5 DEF Raise
  <2> QED BY <1>1, <1>3, <1>4, <1>5, <2>1, StartHolds
<1>6. CASE journal.phase = "cleanup"
  <2>1. journal.op \in {"deploy", "uninstall"}
    BY <1>3 DEF Typed, Journals
  <2>2. /\ todo' \in Seq(AnyStep) /\ Follows(todo', ForwardSteps(journal'))
        /\ rest' = EndSteps(journal)
    BY <1>1, <1>6, <2>1, CleanupIs DEF rest
  <2>3. /\ Step("finish") \in rest' /\ Step("cleanup") \in rest'
        /\ <<"clean", "backup">> \in rest'
        /\ Step("fail") \notin rest' /\ Step("plan") \notin rest'
        /\ Step("rolledBack") \notin rest' /\ Step("outcome") \notin rest'
        /\ Step("download") \notin rest' /\ Step("precondition") \notin rest'
        /\ Step("commit") \notin rest' /\ Step("record") \notin rest'
        /\ \A m : /\ <<"install", m>> \notin rest' /\ <<"giveBack", m>> \notin rest'
                  /\ <<"takeAway", m>> \notin rest' /\ <<"removeSource", m>> \notin rest'
    BY <2>2 DEF EndSteps
  <2>4. Forward' /\ ~Discarding' /\ ~Starting' /\ ~Returning'
    BY <2>2, <2>3 DEF Forward, Discarding, Starting, Returning
  <2>5. before' = before /\ disturbed' = disturbed /\ ~gaveUp'
    BY <1>1 DEF history
  <2>6. Script'
    BY <1>1, <1>3, <2>4 DEF Script
  <2>7. Typed'
    BY <1>1, <1>3, <1>4, <2>2, <2>5 DEF Typed
  <2>8. SameButPhase(journal, journal')
    BY <1>1 DEF SameButPhase
  <2>9. JournalSound' /\ PlacesSound' /\ Untouched'
    BY <1>1, <1>3, <1>4, <1>6, <2>5, <2>8, LeftSound
  <2>10. Kept'
    BY <1>1, <1>6, <2>3 DEF Kept
  <2>11. ForwardBody'
    <3>1. PhaseSound'
      BY <1>1, <1>6, <2>3 DEF PhaseSound
    <3>2. installed' = Recorded(journal')
      BY <1>1, <1>3, <1>6 DEF Settled
    <3>3. ASSUME NEW m \in Members
          PROVE  ForwardMember(m)'
      <4>1. /\ disk["stage"][m] = NoFile /\ disk["promotion"][m] = NoFile
            /\ disk["restore"][m] = NoFile
            /\ journal.op = "deploy" /\ m \in Retains(journal) => disk["durable"][m] # NoFile
            /\ m \notin disturbed => disk["live"][m] = Final(m) \/ Left(m)
        BY <1>3, <1>6 DEF Settled
      <4>2. LiveNow(m)' = Final(m) /\ (Left(m)' <=> Left(m))
        BY <1>1, <2>3, <2>5 DEF LiveNow, Final, Base, Left
      <4> QED BY <1>1, <2>3, <2>5, <4>1, <4>2 DEF ForwardMember
    <3> QED BY <2>3, <3>1, <3>2, <3>3 DEF ForwardBody
  <2> QED BY <2>4, <2>5, <2>6, <2>7, <2>9, <2>10, <2>11, ForwardHolds
<1> QED BY <1>5, <1>6

-----------------------------------------------------------------------------
(* A rollback starts                                                       *)

\* A step of one member, if the member is among some.
LEMMA InOrderMember ==
  ASSUME NEW name, NEW m \in Members, NEW S, NEW a \in Int,
         <<name, m>> \in AnyStep, Rank(<<name, m>>) = a
  PROVE  InOrder(Each(name, {m} \cap S), {<<name, n>> : n \in {m} \cap S}, a, a)
<1>1. CASE m \in S
  <2>1. Each(name, {m} \cap S) = <<<<name, m>>>>
    <3>1. CASE m = "dll"
      <4>1. "dll" \in {m} \cap S /\ "manifest" \notin {m} \cap S
        BY <1>1, <3>1
      <4>2. Each(name, {m} \cap S) = <<<<name, "dll">>>> \o <<>>
        BY <4>1 DEF Each
      <4> QED BY <3>1, <4>2
    <3>2. CASE m = "manifest"
      <4>1. "dll" \notin {m} \cap S /\ "manifest" \in {m} \cap S
        BY <1>1, <3>2
      <4>2. Each(name, {m} \cap S) = <<>> \o <<<<name, "manifest">>>>
        BY <4>1 DEF Each
      <4> QED BY <3>2, <4>2
    <3> QED BY <3>1, <3>2 DEF Members
  <2>2. {<<name, n>> : n \in {m} \cap S} = {<<name, m>>}
    BY <1>1
  <2>3. InOrder(<<<<name, m>>>>, {<<name, m>>}, a, a)
    BY InOrderStep
  <2> QED BY <2>1, <2>2, <2>3
<1>2. CASE m \notin S
  <2>1. Each(name, {m} \cap S) = <<>>
    BY <1>2 DEF Each, Members
  <2>2. {<<name, n>> : n \in {m} \cap S} = {}
    BY <1>2
  <2> QED BY <2>1, <2>2, InOrderNone
<1> QED BY <1>1, <1>2

\* The end of a rollback.
LEMMA ReturnEndInOrder ==
  LET t == <<Step("verify"), <<"sweep", "stage">>, <<"sweep", "promotion">>,
             <<"sweep", "restore">>, <<"sweep", "durable">>,
             Step("restoreState"), Step("rolledBack")>>
      T == {Step("verify"), <<"sweep", "stage">>, <<"sweep", "promotion">>,
            <<"sweep", "restore">>, <<"sweep", "durable">>,
            Step("restoreState"), Step("rolledBack")}
  IN InOrder(t, T, 34, 40)
<1> DEFINE t == <<Step("verify"), <<"sweep", "stage">>, <<"sweep", "promotion">>,
                  <<"sweep", "restore">>, <<"sweep", "durable">>,
                  Step("restoreState"), Step("rolledBack")>>
           T == {Step("verify"), <<"sweep", "stage">>, <<"sweep", "promotion">>,
                 <<"sweep", "restore">>, <<"sweep", "durable">>,
                 Step("restoreState"), Step("rolledBack")}
<1>1. T \subseteq AnyStep
  BY StepsAre DEF ReturnNames, Places
<1>2. InOrder(<<Step("verify"), <<"sweep", "stage">>>>,
              {Step("verify"), <<"sweep", "stage">>}, 34, 35)
  <2>1. <<"verify", "all">> \in AnyStep /\ <<"sweep", "stage">> \in AnyStep
    BY <1>1
  <2>2. Rank(<<"verify", "all">>) = 34 /\ Rank(<<"sweep", "stage">>) = 35
    BY Ranks
  <2> QED BY <2>1, <2>2, InOrderTwo
<1>3. InOrder(<<<<"sweep", "promotion">>, <<"sweep", "restore">>>>,
              {<<"sweep", "promotion">>, <<"sweep", "restore">>}, 36, 37)
  <2>1. <<"sweep", "promotion">> \in AnyStep /\ <<"sweep", "restore">> \in AnyStep
    BY <1>1
  <2>2. Rank(<<"sweep", "promotion">>) = 36 /\ Rank(<<"sweep", "restore">>) = 37
    BY Ranks
  <2> QED BY <2>1, <2>2, InOrderTwo
<1>4. InOrder(<<<<"sweep", "durable">>, Step("restoreState")>>,
              {<<"sweep", "durable">>, Step("restoreState")}, 38, 39)
  <2>1. <<"sweep", "durable">> \in AnyStep /\ <<"restoreState", "all">> \in AnyStep
    BY <1>1
  <2>2. Rank(<<"sweep", "durable">>) = 38 /\ Rank(<<"restoreState", "all">>) = 39
    BY Ranks
  <2> QED BY <2>1, <2>2, InOrderTwo
<1>5. InOrder(<<Step("rolledBack")>>, {Step("rolledBack")}, 40, 40)
  <2>1. <<"rolledBack", "all">> \in AnyStep
    BY <1>1
  <2>2. Rank(<<"rolledBack", "all">>) = 40
    BY Ranks
  <2> QED BY <2>1, <2>2, InOrderStep
<1> DEFINE t1 == <<Step("verify"), <<"sweep", "stage">>>>
           T1 == {Step("verify"), <<"sweep", "stage">>}
           t2 == <<<<"sweep", "promotion">>, <<"sweep", "restore">>>>
           T2 == {<<"sweep", "promotion">>, <<"sweep", "restore">>}
           t3 == <<<<"sweep", "durable">>, Step("restoreState")>>
           T3 == {<<"sweep", "durable">>, Step("restoreState")}
           t4 == <<Step("rolledBack")>>
           T4 == {Step("rolledBack")}
<1>6. t = ((t1 \o t2) \o t3) \o t4
  OBVIOUS
<1>7. T = ((T1 \cup T2) \cup T3) \cup T4
  OBVIOUS
<1> HIDE DEF t, T, t1, T1, t2, T2, t3, T3, t4, T4
<1>8. InOrder(t1 \o t2, T1 \cup T2, 34, 37)
  BY <1>2, <1>3, InOrderJoined DEF t1, T1, t2, T2
<1>9. InOrder((t1 \o t2) \o t3, (T1 \cup T2) \cup T3, 34, 39)
  <2>1. InOrder(t3, T3, 38, 39)
    BY <1>4 DEF t3, T3
  <2> QED BY <1>8, <2>1, InOrderJoined
<1>10. InOrder(((t1 \o t2) \o t3) \o t4, ((T1 \cup T2) \cup T3) \cup T4, 34, 40)
  <2>1. InOrder(t4, T4, 40, 40)
    BY <1>5 DEF t4, T4
  <2> QED BY <1>9, <2>1, InOrderJoined
<1>11. InOrder(t, T, 34, 40)
  BY <1>6, <1>7, <1>10
<1> QED BY <1>11 DEF t, T

\* What a rollback does that has the plan p, in order.
LEMMA PlannedIs ==
  ASSUME NEW p
  PROVE  /\ PlannedSteps(p) \in Seq(AnyStep) /\ Follows(PlannedSteps(p), ReturnSteps(p))
         /\ Elements(PlannedSteps(p)) = ReturnSteps(p)
<1> DEFINE C == {m \in Members : p[m] = "durable"}
           R == {m \in Members : p[m] \in {"backup", "durable"}}
           D == R \cup {n \in Members : p[n] = "remove"}
           E(n, S) == {<<n, m>> : m \in S}
           t == <<Step("verify"), <<"sweep", "stage">>, <<"sweep", "promotion">>,
                  <<"sweep", "restore">>, <<"sweep", "durable">>,
                  Step("restoreState"), Step("rolledBack")>>
           T == {Step("verify"), <<"sweep", "stage">>, <<"sweep", "promotion">>,
                 <<"sweep", "restore">>, <<"sweep", "durable">>,
                 Step("restoreState"), Step("rolledBack")}
<1>1. \A n \in {"materialize", "remove", "putBack"} :
        <<n, "dll">> \in AnyStep /\ <<n, "manifest">> \in AnyStep
  BY StepsAre DEF ReturnNames, Members
<1>2. InOrder(Each("materialize", C), E("materialize", C), 28, 29)
  <2>1. <<"materialize", "dll">> \in AnyStep /\ <<"materialize", "manifest">> \in AnyStep
    BY <1>1
  <2>2. Rank(<<"materialize", "dll">>) = 28 /\ Rank(<<"materialize", "manifest">>) = 29
    BY Ranks
  <2>3. C \in SUBSET Members
    OBVIOUS
  <2> QED BY <2>1, <2>2, <2>3, InOrderEach
<1>3. "dll" \in Members /\ "manifest" \in Members
  BY DEF Members
<1>4. InOrder(Each("remove", {"dll"} \cap D), E("remove", {"dll"} \cap D), 30, 30)
  <2>1. <<"remove", "dll">> \in AnyStep /\ Rank(<<"remove", "dll">>) = 30 /\ 30 \in Int
    BY <1>1, Ranks
  <2> HIDE DEF C, D, R, t, T
  <2> QED BY <1>3, <2>1, InOrderMember
<1>5. InOrder(Each("putBack", {"dll"} \cap R), E("putBack", {"dll"} \cap R), 31, 31)
  <2>1. <<"putBack", "dll">> \in AnyStep /\ Rank(<<"putBack", "dll">>) = 31 /\ 31 \in Int
    BY <1>1, Ranks
  <2> HIDE DEF C, D, R, t, T
  <2> QED BY <1>3, <2>1, InOrderMember
<1>6. InOrder(Each("remove", {"manifest"} \cap D), E("remove", {"manifest"} \cap D), 32, 32)
  <2>1. <<"remove", "manifest">> \in AnyStep /\ Rank(<<"remove", "manifest">>) = 32 /\ 32 \in Int
    BY <1>1, Ranks
  <2> HIDE DEF C, D, R, t, T
  <2> QED BY <1>3, <2>1, InOrderMember
<1>7. InOrder(Each("putBack", {"manifest"} \cap R), E("putBack", {"manifest"} \cap R), 33, 33)
  <2>1. <<"putBack", "manifest">> \in AnyStep /\ Rank(<<"putBack", "manifest">>) = 33 /\ 33 \in Int
    BY <1>1, Ranks
  <2> HIDE DEF C, D, R, t, T
  <2> QED BY <1>3, <2>1, InOrderMember
<1>8. InOrder(t, T, 34, 40)
  BY ReturnEndInOrder
<1>9. PlannedSteps(p) =
        Each("materialize", C)
          \o (Each("remove", {"dll"} \cap D) \o Each("putBack", {"dll"} \cap R))
          \o (Each("remove", {"manifest"} \cap D) \o Each("putBack", {"manifest"} \cap R))
          \o t
  BY DEF PlannedSteps
<1>10. ReturnSteps(p) =
         E("materialize", C)
           \cup (E("remove", {"dll"} \cap D) \cup E("putBack", {"dll"} \cap R))
           \cup (E("remove", {"manifest"} \cap D) \cup E("putBack", {"manifest"} \cap R))
           \cup T
  <2>1. E("remove", {"dll"} \cap D) \cup E("remove", {"manifest"} \cap D) = E("remove", D)
    BY DEF Members
  <2>2. E("putBack", {"dll"} \cap R) \cup E("putBack", {"manifest"} \cap R) = E("putBack", R)
    BY DEF Members
  <2>3. D = {n \in Members : p[n] \in {"remove", "backup", "durable"}}
    OBVIOUS
  <2>4. ReturnSteps(p) = T \cup E("materialize", C) \cup E("remove", D) \cup E("putBack", R)
    BY <2>3 DEF ReturnSteps
  <2> HIDE DEF T, E, D, R, C
  <2> QED BY <2>1, <2>2, <2>4
<1> HIDE DEF C, R, D, E, t, T
<1> DEFINE u1 == Each("remove", {"dll"} \cap D) \o Each("putBack", {"dll"} \cap R)
           U1 == E("remove", {"dll"} \cap D) \cup E("putBack", {"dll"} \cap R)
           u2 == Each("remove", {"manifest"} \cap D) \o Each("putBack", {"manifest"} \cap R)
           U2 == E("remove", {"manifest"} \cap D) \cup E("putBack", {"manifest"} \cap R)
           v1 == Each("materialize", C) \o u1
           V1 == E("materialize", C) \cup U1
           v2 == v1 \o u2
           V2 == V1 \cup U2
           v3 == v2 \o t
           V3 == V2 \cup T
<1>11. InOrder(u1, U1, 30, 31)
  BY <1>4, <1>5, InOrderJoined
<1>12. InOrder(u2, U2, 32, 33)
  BY <1>6, <1>7, InOrderJoined
<1> HIDE DEF u1, U1, u2, U2
<1>13. InOrder(v1, V1, 28, 31)
  BY <1>2, <1>11, InOrderJoined
<1> HIDE DEF v1, V1
<1>14. InOrder(v2, V2, 28, 33)
  BY <1>12, <1>13, InOrderJoined
<1> HIDE DEF v2, V2
<1>15. InOrder(v3, V3, 28, 40)
  BY <1>8, <1>14, InOrderJoined
<1>16. PlannedSteps(p) = v3
  BY <1>9 DEF v1, v2, u1, u2
<1>17. ReturnSteps(p) = V3
  BY <1>10 DEF V1, V2, U1, U2
<1> HIDE DEF v3, V3
<1> QED BY <1>15, <1>16, <1>17, InOrderFollows

\* The next step of a call that starts to roll back.
LEMMA AtStarting ==
  ASSUME IInv, NEW s, At(s), s[1] \in StartNames
  PROVE  /\ Starting /\ StartBody /\ plan = NoPlan /\ Settled /\ LiveSound
         /\ JournalSound /\ PlacesSound /\ Untouched /\ Kept
         /\ ~Idle /\ ~IsTerminal(journal) /\ ~gaveUp /\ Typed
         /\ s \in StartSteps /\ s \in rest /\ Step("plan") \in rest
         /\ rest \subseteq StartSteps
         /\ \A x \in rest : x = s \/ Rank(s) < Rank(x)
         /\ Proceed => /\ todo' \in Seq(AnyStep) /\ Follows(todo', StartSteps)
                       /\ rest' = rest \ {s}
<1>1. Starting /\ Sound /\ ~Idle /\ ~IsTerminal(journal) /\ ~gaveUp
  BY AtTells
<1>2. plan = NoPlan /\ ~Forward
  BY <1>1, KindsExclude DEF IInv, Script
<1>3. Follows(todo, StartSteps) /\ Typed /\ Step("plan") \in rest
  BY <1>1 DEF Starting, IInv
<1> QED BY <1>1, <1>2, <1>3, AtFollows DEF Sound

\* The call gives up, over something known.
LEMMA GiveUpHolds ==
  ASSUME IInv, GiveUp, JournalSound, PlacesSound, Untouched, Settled, LiveSound, Kept,
         ~IsTerminal(journal), disturbed # {} \/ CutOff \/ InTheWay,
         journal.phase = "cleanup" => journal.op = "deploy" /\ Step("plan") \in rest
  PROVE  IInv'
<1>1. /\ Persist("rollingBack") /\ todo' = <<>> /\ plan' = NoPlan /\ gaveUp' = TRUE
      /\ UNCHANGED <<disk, installed, faults, disturbances, history>>
  BY DEF GiveUp
<1>2. Typed /\ DiskTyped(disk') /\ Dropped
  BY <1>1, DiskIsTyped DEF IInv, Dropped
<1>3. journal' \in Journals /\ journal'.phase = "rollingBack" /\ SameButPhase(journal, journal')
  BY <1>1, <1>2, PersistIs DEF Phases
<1>4. ~IsTerminal(journal') /\ faults' \in 0 .. MaxFaults
  BY <1>1, <1>2, <1>3 DEF IsTerminal, Typed
<1>5. GivesUpOverThese'
  <2>1. before' = before /\ disturbed' = disturbed
    BY <1>1 DEF history
  <2>2. CutOff' <=> CutOff
    BY <1>1, <1>3 DEF CutOff, SameButPhase
  <2>3. InTheWay' <=> InTheWay
    BY <1>3, <2>1, PhaseOnly DEF InTheWay
  <2> QED BY <2>1, <2>2, <2>3 DEF GivesUpOverThese
<1> QED BY <1>1, <1>2, <1>3, <1>4, <1>5, IdleHolds

\* Unfinished copies are removed.
LEMMA NormalizeHolds ==
  ASSUME IInv, Normalize
  PROVE  IInv'
<1> DEFINE s == Step("normalize")
<1>1. At(s) /\ s[1] \in StartNames
  BY DEF Normalize, StartNames
<1>2. /\ installed' = installed /\ journal' = journal /\ Proceed /\ CanNormalize
      /\ disk' = [place \in Places |-> [m \in Members |->
                IF place \in CopyStages(journal) /\ disk[place][m] = Partial
                THEN NoFile ELSE disk[place][m]]]
      /\ UNCHANGED <<plan, gaveUp, faults, disturbances, history>>
  BY DEF Normalize, Unchanged
<1>3. /\ Starting /\ StartBody /\ plan = NoPlan /\ Settled /\ LiveSound
      /\ JournalSound /\ PlacesSound /\ Untouched /\ Kept
      /\ ~IsTerminal(journal) /\ ~gaveUp /\ Typed /\ Step("plan") \in rest
      /\ rest \subseteq StartSteps
      /\ todo' \in Seq(AnyStep) /\ Follows(todo', StartSteps) /\ rest' = rest \ {s}
  BY <1>1, <1>2, AtStarting
<1>4. \A p \in Places, m \in Members :
        disk'[p][m] = IF p \in CopyStages(journal) /\ disk[p][m] = Partial
                      THEN NoFile ELSE disk[p][m]
  BY <1>2
<1>5. DiskTyped(disk')
  <2>1. disk' \in [Places -> [Members -> AnyFile]]
    BY <1>2, <1>3, DiskIsTyped
  <2>2. "live" \in Places /\ "retained" \in Places /\ "live" \notin CopyStages(journal)
        /\ "retained" \notin CopyStages(journal)
    BY DEF Places, CopyStages
  <2>3. \A m \in Members : disk'["live"][m] = disk["live"][m]
                           /\ disk'["retained"][m] = disk["retained"][m]
    BY <1>4, <2>2
  <2> QED BY <1>3, <2>1, <2>3 DEF DiskTyped, Typed
<1>6. Dropped
  BY <1>4 DEF Dropped
<1>7. before' = before /\ disturbed' = disturbed /\ ~gaveUp' /\ NoPlan' = NoPlan
  BY <1>2, <1>3 DEF history, NoPlan
<1>8. SameButPhase(journal, journal')
  BY <1>2 DEF SameButPhase
<1>9. /\ JournalSound' /\ PlacesSound' /\ Untouched' /\ Settled' /\ LiveSound'
      /\ \A m \in Members : /\ disk'["live"][m] = disk["live"][m]
                            /\ disk'["backup"][m] = disk["backup"][m]
                            /\ disk'["durable"][m] = disk["durable"][m]
  BY <1>2, <1>3, <1>5, <1>6, <1>7, <1>8, LeftSound
<1>10. Step("plan") \in rest' /\ Step("finish") \notin rest' /\ Step("fail") \notin rest'
       /\ Step("rolledBack") \notin rest'
  BY <1>3 DEF StartSteps
<1>11. Starting' /\ ~Forward' /\ ~Discarding' /\ ~Returning'
  BY <1>3, <1>10 DEF Starting, Forward, Discarding, Returning
<1>12. Typed'
  BY <1>2, <1>3, <1>5, <1>7, TypedOn DEF Typed
<1>13. Script' /\ Reason'
  BY <1>2, <1>3, <1>7, <1>11 DEF Script, Reason
<1>14. Kept'
  BY <1>3, <1>7, <1>9, KeptFrame
<1>15. StartBody'
  <2>1. ASSUME NEW p \in CopyStages(journal), NEW m \in Members
        PROVE  disk'[p][m] \notin {Partial, Unowned}
    <3>1. p \in Places
      BY DEF CopyStages, Places
    <3>2. disk[p][m] # Unowned
      BY <1>2 DEF CanNormalize
    <3> QED BY <1>4, <3>1, <3>2, FilesDiffer
  <2> QED BY <1>2, <1>3, <2>1 DEF StartBody
<1> QED BY <1>9, <1>11, <1>12, <1>13, <1>14, <1>15 DEF IInv, Sound

\* A copy whose writing was cut off has the file it was made from.
LEMMA CutOffHasSource ==
  ASSUME Typed, JournalSound, PlacesSound, NEW place \in CopyStages(journal),
         NEW m \in Members, disk[place][m] = Partial
  PROVE  \E source \in Sources(place) : Is(disk[source][m], SourceIdentity(place, m))
<1>1. MemberSound(m) /\ Partial # NoFile /\ Partial # Unowned
  BY FilesDiffer DEF PlacesSound
<1>2. Partial \notin RealFile /\ before[m] \in RealFile
  BY FilesDiffer DEF RealFile, Typed
<1>3. CASE place = "promotion"
  <2>1. disk["backup"][m] # NoFile
    BY <1>1, <1>2, <1>3 DEF MemberSound, PromotionSound
  <2>2. Is(disk["backup"][m], journal.prior[m])
    BY <1>1, <2>1 DEF MemberSound, BackupSound
  <2> QED BY <1>3, <2>2 DEF Sources, SourceIdentity
<1>4. CASE place = "restore"
  <2>1. disk["durable"][m] # NoFile
    BY <1>1, <1>4 DEF MemberSound, RestoreSound
  <2>2. disk["durable"][m] = before[m] /\ m \in Retains(journal)
    BY <1>1, <2>1 DEF MemberSound, DurableSound
  <2>3. Is(before[m], journal.prior[m])
    BY <2>2, PriorIs, SetsAre
  <2> QED BY <1>4, <2>2, <2>3 DEF Sources, SourceIdentity
<1>5. CASE place = "stage"
  <2>1. journal.op = "uninstall"
    BY <1>5 DEF CopyStages
  <2>2. journal.phase # "cleanup"
    BY <1>1, <1>5, <2>1, SetsAre DEF MemberSound, StageSound
  <2>3. disk["retained"][m] = journal.previous.adopted[m]
    BY <1>1, <2>2 DEF MemberSound, RetainedSound
  <2>4. disk["retained"][m] \in RealFile /\ disk["retained"][m] \in AnyFile
    BY DiskIsTyped DEF Typed
  <2>5. Is(disk["retained"][m], journal.previous.adopted[m])
    BY <2>3, <2>4, IsFile
  <2> QED BY <1>5, <2>5 DEF Sources, SourceIdentity
<1> QED BY <1>3, <1>4, <1>5 DEF CopyStages

\* A copy without its receipt is not removed.
LEMMA NormalizeFailsHolds ==
  ASSUME IInv, NormalizeFails
  PROVE  IInv'
<1>1. At(Step("normalize")) /\ Step("normalize")[1] \in StartNames /\ GiveUp /\ ~CanNormalize
  BY DEF NormalizeFails, StartNames
<1>2. /\ Starting /\ StartBody /\ plan = NoPlan /\ Settled /\ LiveSound
      /\ JournalSound /\ PlacesSound /\ Untouched /\ Kept
      /\ ~IsTerminal(journal) /\ Typed /\ Step("plan") \in rest
  BY <1>1, AtStarting
<1>3. CutOff
  <2>1. PICK place \in CopyStages(journal), m \in Members :
          \/ disk[place][m] = Unowned
          \/ /\ disk[place][m] = Partial
             /\ ~\E source \in Sources(place) : Is(disk[source][m], SourceIdentity(place, m))
    BY <1>1 DEF CanNormalize
  <2>2. disk[place][m] = Unowned
    BY <1>2, <2>1, CutOffHasSource
  <2>3. place \in {"stage", "promotion", "restore"}
    BY DEF CopyStages
  <2> QED BY <2>2, <2>3 DEF CutOff
<1> QED BY <1>1, <1>2, <1>3, GiveUpHolds DEF StartBody

\* What a plan says of a member.
LEMMA MemberPlanIs ==
  ASSUME NEW m \in Members, NEW p, p = MemberPlan(journal, m), p # "refuse"
  PROVE  /\ p \in PlanWords
         /\ p = "skip" <=> m \notin ShouldMutate(journal) \cup Had(journal)
         /\ p \in {"keep", "backup", "durable"} => m \in Had(journal)
         /\ p = "remove" => m \notin Had(journal)
         /\ p = "keep" => Is(disk["live"][m], journal.prior[m])
         /\ p \in {"backup", "durable"} => ~Is(disk["live"][m], journal.prior[m])
         /\ p = "backup" => disk["backup"][m] # NoFile
         /\ p = "durable" => disk["durable"][m] # NoFile
<1>1. FoundBackup(m) \in {"backup", "durable", "none"}
  BY DEF FoundBackup
<1>2. /\ FoundBackup(m) = "backup" => disk["backup"][m] # NoFile
      /\ FoundBackup(m) = "durable" => disk["durable"][m] # NoFile
  BY DEF FoundBackup
<1> DEFINE live == disk["live"][m]
           expected == IF m \in Displaces(journal) THEN Is(live, journal.previous.adopted[m])
                       ELSE LooksInstalled(journal, m, live)
<1>3. CASE m \notin ShouldMutate(journal) \cup Had(journal)
  <2>1. p = "skip"
    BY <1>3 DEF MemberPlan
  <2> QED BY <1>3, <2>1 DEF PlanWords
<1>4. CASE m \in Had(journal) /\ Is(live, journal.prior[m])
  <2>1. p = "keep"
    BY <1>4 DEF MemberPlan
  <2> QED BY <1>4, <2>1 DEF PlanWords
<1>5. CASE m \in ShouldMutate(journal) /\ m \notin Had(journal)
  <2>1. p = "remove"
    BY <1>5 DEF MemberPlan
  <2> QED BY <1>5, <2>1 DEF PlanWords
<1>6. CASE m \in Had(journal) /\ ~Is(live, journal.prior[m])
  <2>1. p = FoundBackup(m) /\ FoundBackup(m) # "none"
    BY <1>6 DEF MemberPlan
  <2> QED BY <1>1, <1>2, <1>6, <2>1 DEF PlanWords
<1> QED BY <1>3, <1>4, <1>5, <1>6

\* What the rollback plans.
LEMMA PlanRollBackHolds ==
  ASSUME IInv, PlanRollBack
  PROVE  IInv'
<1> DEFINE s == Step("plan")
<1>1. At(s) /\ s[1] \in StartNames
  BY DEF PlanRollBack, StartNames
<1>2. /\ plan' = [m \in Members |-> MemberPlan(journal, m)]
      /\ Persist("rollingBack") /\ todo' = PlannedSteps(plan') /\ CanRollBack
      /\ UNCHANGED <<disk, installed, gaveUp, faults, disturbances, history>>
  BY DEF PlanRollBack
<1>3. /\ Starting /\ StartBody /\ plan = NoPlan /\ Settled /\ LiveSound
      /\ JournalSound /\ PlacesSound /\ Untouched /\ Kept
      /\ ~IsTerminal(journal) /\ ~gaveUp /\ Typed /\ Step("plan") \in rest
      /\ rest \subseteq StartSteps /\ \A x \in rest : x = s \/ Rank(s) < Rank(x)
  BY <1>1, AtStarting
<1>4. Step("normalize") \notin rest
  BY <1>3, Ranks
<1>5. /\ journal' \in Journals /\ journal'.phase = "rollingBack"
      /\ SameButPhase(journal, journal')
  BY <1>2, <1>3, PersistIs DEF Phases
<1>6. /\ Installs(journal') = Installs(journal) /\ Had(journal') = Had(journal)
      /\ ShouldMutate(journal') = ShouldMutate(journal) /\ New(journal') = New(journal)
      /\ Displaces(journal') = Displaces(journal) /\ journal'.prior = journal.prior
      /\ journal'.previous = journal.previous
  BY <1>5, PhaseOnly DEF SameButPhase
<1>7. before' = before /\ disturbed' = disturbed /\ ~gaveUp' /\ DiskTyped(disk') /\ Dropped
  BY <1>2, <1>3, DiskIsTyped DEF history, Dropped
<1>8. \A m \in Members :
        /\ plan'[m] = MemberPlan(journal, m) /\ MemberPlan(journal, m) # "refuse"
        /\ plan'[m] \in PlanWords
  <2>1. \A m \in Members : plan'[m] = MemberPlan(journal, m) /\ MemberPlan(journal, m) # "refuse"
    BY <1>2 DEF CanRollBack
  <2> QED BY <2>1, MemberPlanIs
<1>9. plan' \in [Members -> PlanWords]
  BY <1>2, <1>8
<1>10. /\ todo' \in Seq(AnyStep) /\ Follows(todo', ReturnSteps(plan'))
       /\ rest' = ReturnSteps(plan')
  BY <1>2, PlannedIs DEF rest
<1>11. /\ Step("rolledBack") \in rest' /\ Step("finish") \notin rest'
       /\ Step("fail") \notin rest' /\ Step("plan") \notin rest'
       /\ Step("restoreState") \in rest' /\ Step("verify") \in rest'
       /\ \A p \in {"stage", "promotion", "restore"} : <<"sweep", p>> \in rest'
       /\ \A m \in Members :
            /\ <<"materialize", m>> \in rest' <=> plan'[m] = "durable"
            /\ <<"remove", m>> \in rest' <=> plan'[m] \in {"remove", "backup", "durable"}
            /\ <<"putBack", m>> \in rest' <=> plan'[m] \in {"backup", "durable"}
  BY <1>10 DEF ReturnSteps
<1>12. Returning' /\ ~Forward' /\ ~Discarding' /\ ~Starting'
  BY <1>10, <1>11 DEF Returning, Forward, Discarding, Starting
<1>13. Typed'
  BY <1>2, <1>3, <1>5, <1>7, <1>9, <1>10, TypedOn DEF Typed
<1>14. Script' /\ Reason'
  <2>1. ~IsTerminal(journal')
    BY <1>5 DEF IsTerminal
  <2> QED BY <1>7, <1>12, <2>1 DEF Script, Reason
<1>15. JournalSound' /\ PlacesSound' /\ Untouched' /\ Settled' /\ LiveSound'
  BY <1>2, <1>3, <1>5, <1>7, LeftSound DEF StartBody
<1>16. Kept'
  BY <1>2, <1>3, <1>7, KeptFrame
<1>17. ASSUME NEW m \in Members
       PROVE  ReturnMember(m)'
  <2>1. /\ plan'[m] \in PlanWords
        /\ plan'[m] = "skip" <=> m \notin ShouldMutate(journal) \cup Had(journal)
        /\ plan'[m] \in {"keep", "backup", "durable"} => m \in Had(journal)
        /\ plan'[m] = "remove" => m \notin Had(journal)
        /\ plan'[m] = "keep" => Is(disk["live"][m], journal.prior[m])
        /\ plan'[m] \in {"backup", "durable"} => ~Is(disk["live"][m], journal.prior[m])
        /\ plan'[m] = "backup" => disk["backup"][m] # NoFile
        /\ plan'[m] = "durable" => disk["durable"][m] # NoFile
    BY <1>8, MemberPlanIs
  <2>2. disk["promotion"][m] \notin {Partial, Unowned}
    <3>1. "promotion" \in CopyStages(journal)
      BY DEF CopyStages
    <3> QED BY <1>3, <1>4, <3>1 DEF StartBody
  <2>3. ASSUME m \notin disturbed, plan'[m] \in {"remove", "backup", "durable"}
        PROVE  \/ disk["live"][m] = NoFile
               \/ m \in Installs(journal) /\ disk["live"][m] = New(journal)
               \/ m \in Displaces(journal) /\ disk["live"][m] = journal.previous.adopted[m]
    <3>1. disk["live"][m] = before[m] => before[m] = NoFile
      <4>1. CASE plan'[m] \in {"backup", "durable"}
        <5>1. Is(before[m], journal.prior[m])
          BY <1>3, <2>1, <4>1, PriorIs
        <5> QED BY <2>1, <4>1, <5>1
      <4>2. CASE plan'[m] = "remove"
        <5>1. m \notin Had(journal) /\ m \in ShouldMutate(journal)
          BY <2>1, <4>2
        <5>2. journal.op = "deploy"
          BY <1>3, <5>1, PriorIs DEF Typed, Journals
        <5> QED BY <1>3, <5>1, <5>2, PriorIs
      <4> QED BY <2>3, <4>1, <4>2
    <3> QED BY <1>3, <2>3, <3>1 DEF LiveSound
  <2> QED BY <1>2, <1>6, <1>7, <1>11, <2>1, <2>2, <2>3 DEF ReturnMember
<1>18. ReturnBody'
  BY <1>5, <1>11, <1>17 DEF ReturnBody
<1> QED BY <1>12, <1>13, <1>14, <1>15, <1>16, <1>18 DEF IInv, Sound

\* Without another program's doing and without a cut-off writing, a rollback can
\* always be planned.
LEMMA CanBePlanned ==
  ASSUME Typed, JournalSound, PlacesSound, LiveSound, Kept, StartBody,
         Step("plan") \in rest, Step("normalize") \notin rest, disturbed = {}, ~CutOff
  PROVE  CanRollBack
<1>1. journal.op \in {"deploy", "uninstall"} /\ journal.previous.adopted \in [Members -> RealFile]
  BY DEF Typed, Journals, Receipts
<1>2. StagesKnown(journal)
  <2> SUFFICES ASSUME NEW m \in Members, disk["stage"][m] # NoFile
               PROVE  IF journal.op = "deploy" THEN disk["stage"][m].bytes = journal.release
                      ELSE Is(disk["stage"][m], journal.previous.adopted[m])
    BY DEF StagesKnown
  <2>1. StageSound(m) /\ disk["stage"][m] # Unowned
    BY DEF PlacesSound, MemberSound, CutOff
  <2>2. CASE journal.op = "deploy"
    <3>1. disk["stage"][m] # Partial
      BY <2>2 DEF CutOff
    <3>2. m \notin Displaces(journal)
      BY <2>2, SetsAre
    <3>3. disk["stage"][m] = New(journal)
      BY <2>1, <3>1, <3>2 DEF StageSound
    <3> QED BY <2>2, <3>3, PriorIs
  <2>3. CASE journal.op = "uninstall"
    <3>1. m \notin Installs(journal) /\ journal.op # "deploy"
      BY <2>3, SetsAre
    <3>2. disk["stage"][m] # Partial
      BY <2>3 DEF StartBody, CopyStages
    <3>3. disk["stage"][m] = journal.previous.adopted[m]
      BY <2>1, <3>1, <3>2 DEF StageSound
    <3>4. disk["stage"][m] \in RealFile /\ disk["stage"][m] \in AnyFile
      BY <1>1, <3>3 DEF RealFile, AnyFile
    <3>5. Is(disk["stage"][m], journal.previous.adopted[m])
      BY <3>3, <3>4, IsFile
    <3> QED BY <3>1, <3>5
  <2> QED BY <1>1, <2>2, <2>3
<1>3. ASSUME NEW m \in Members
      PROVE  MemberPlan(journal, m) # "refuse"
  <2> DEFINE live == disk["live"][m]
  <2>1. /\ \/ live = before[m]
           \/ m \in Displaces(journal) /\ live = journal.previous.adopted[m]
           \/ m \in Installs(journal) /\ live = New(journal)
           \/ m \in Had(journal) \cap ShouldMutate(journal) /\ live = NoFile
        /\ before[m] # NoFile =>
             before[m] \in {live, disk["backup"][m], disk["durable"][m]}
    BY DEF LiveSound, Kept
  <2>2. FoundBackup(m) \in {"backup", "durable", "none"}
        /\ (FoundBackup(m) = "none" => disk["backup"][m] = NoFile /\ disk["durable"][m] = NoFile)
    BY DEF FoundBackup
  <2>3. CASE m \notin ShouldMutate(journal) \cup Had(journal)
    BY <2>3 DEF MemberPlan
  <2>4. CASE m \in Had(journal) /\ Is(live, journal.prior[m])
    BY <2>4 DEF MemberPlan
  <2>5. CASE m \in ShouldMutate(journal) /\ m \notin Had(journal)
    <3>1. journal.op = "deploy" /\ before[m] = NoFile
      BY <1>1, <2>5, PriorIs
    <3>2. m \notin Displaces(journal)
      BY <3>1, SetsAre
    <3>3. live = NoFile \/ LooksInstalled(journal, m, live)
      BY <2>1, <2>5, <3>1, <3>2, PriorIs DEF LooksInstalled
    <3> QED BY <2>5, <3>3 DEF MemberPlan
  <2>6. CASE m \in Had(journal) /\ ~Is(live, journal.prior[m])
    <3>1. before[m] # NoFile /\ Is(before[m], journal.prior[m])
      BY <2>6, PriorIs, FilesDiffer
    <3>2. live # before[m]
      BY <2>6, <3>1
    <3>3. FoundBackup(m) \in {"backup", "durable"}
      BY <2>1, <2>2, <3>1, <3>2
    <3>4. \/ live = NoFile
          \/ IF m \in Displaces(journal) THEN Is(live, journal.previous.adopted[m])
             ELSE LooksInstalled(journal, m, live)
      <4>1. CASE m \in Displaces(journal) /\ live = journal.previous.adopted[m]
        <5>1. live \in RealFile /\ live \in AnyFile
          BY DiskIsTyped
        <5> HIDE DEF live
        <5> QED BY <4>1, <5>1, IsFile
      <4>2. CASE m \in Installs(journal) /\ live = New(journal)
        <5>1. m \notin Displaces(journal)
          BY <1>1, <4>2, SetsAre
        <5> QED BY <4>2, <5>1, PriorIs DEF LooksInstalled
      <4> QED BY <2>1, <3>2, <4>1, <4>2
    <3> QED BY <2>6, <3>3, <3>4 DEF MemberPlan
  <2> QED BY <2>3, <2>4, <2>5, <2>6
<1> QED BY <1>2, <1>3 DEF CanRollBack

\* The rollback cannot be planned.
LEMMA PlanFailsHolds ==
  ASSUME IInv, PlanFails
  PROVE  IInv'
<1> DEFINE s == Step("plan")
<1>1. At(s) /\ s[1] \in StartNames /\ GiveUp /\ ~CanRollBack
  BY DEF PlanFails, StartNames
<1>2. /\ Starting /\ StartBody /\ plan = NoPlan /\ Settled /\ LiveSound
      /\ JournalSound /\ PlacesSound /\ Untouched /\ Kept
      /\ ~IsTerminal(journal) /\ Typed /\ Step("plan") \in rest
      /\ \A x \in rest : x = s \/ Rank(s) < Rank(x)
  BY <1>1, AtStarting
<1>3. Step("normalize") \notin rest
  BY <1>2, Ranks
<1>4. disturbed # {} \/ CutOff
  BY <1>1, <1>2, <1>3, CanBePlanned
<1> QED BY <1>1, <1>2, <1>4, GiveUpHolds DEF StartBody

-----------------------------------------------------------------------------
(* A rollback is carried out                                               *)

\* What a rollback with the plan p does.
LEMMA ReturnStepsAre ==
  ASSUME NEW p
  PROVE  /\ {Step("verify"), <<"sweep", "stage">>, <<"sweep", "promotion">>,
             <<"sweep", "restore">>, <<"sweep", "durable">>, Step("restoreState"),
             Step("rolledBack")} \subseteq ReturnSteps(p)
         /\ \A m \in Members : <<"materialize", m>> \in ReturnSteps(p) <=> p[m] = "durable"
         /\ \A m \in Members : <<"remove", m>> \in ReturnSteps(p) <=>
              p[m] \in {"remove", "backup", "durable"}
         /\ \A m \in Members : <<"putBack", m>> \in ReturnSteps(p) <=>
              p[m] \in {"backup", "durable"}
BY DEF ReturnSteps

\* A member is copied, then removed, then put back, and all of it is verified.
LEMMA ReturnRanks ==
  \A m \in Members :
    /\ Rank(<<"materialize", m>>) \in Int /\ Rank(<<"remove", m>>) \in Int
    /\ Rank(<<"putBack", m>>) \in Int
    /\ Rank(<<"materialize", m>>) < Rank(<<"remove", m>>)
    /\ Rank(<<"remove", m>>) < Rank(<<"putBack", m>>)
    /\ Rank(<<"putBack", m>>) < 34
<1> SUFFICES ASSUME NEW m \in Members
             PROVE  /\ Rank(<<"materialize", m>>) \in Int /\ Rank(<<"remove", m>>) \in Int
                    /\ Rank(<<"putBack", m>>) \in Int
                    /\ Rank(<<"materialize", m>>) < Rank(<<"remove", m>>)
                    /\ Rank(<<"remove", m>>) < Rank(<<"putBack", m>>)
                    /\ Rank(<<"putBack", m>>) < 34
  OBVIOUS
<1>1. CASE m = "dll"
  BY <1>1, Ranks
<1>2. CASE m = "manifest"
  BY <1>2, Ranks
<1> QED BY <1>1, <1>2 DEF Members

\* The next step of a call that rolls back.
LEMMA AtReturning ==
  ASSUME IInv, NEW s, At(s), s[1] \in ReturnNames
  PROVE  /\ Returning /\ ReturnBody /\ Settled /\ LiveSound
         /\ JournalSound /\ PlacesSound /\ Untouched /\ Kept
         /\ ~Idle /\ ~IsTerminal(journal) /\ ~gaveUp /\ Typed /\ DiskTyped(disk)
         /\ journal.phase = "rollingBack"
         /\ s \in ReturnSteps(plan) /\ s \in rest /\ rest \subseteq ReturnSteps(plan)
         /\ \A x \in rest : x = s \/ Rank(s) < Rank(x)
         /\ \A x \in ReturnSteps(plan) : Rank(s) < Rank(x) => x \in rest
         /\ Proceed => /\ todo' \in Seq(AnyStep) /\ Follows(todo', ReturnSteps(plan))
                       /\ rest' = rest \ {s}
<1>1. Returning /\ Sound /\ ~Idle /\ ~IsTerminal(journal) /\ ~gaveUp
  BY AtTells
<1>2. ~Forward
  BY <1>1, KindsExclude
<1>3. Follows(todo, ReturnSteps(plan)) /\ Typed /\ Step("rolledBack") \in rest
  BY <1>1 DEF Returning, IInv
<1>4. ReturnBody /\ journal.phase = "rollingBack" /\ DiskTyped(disk)
  BY <1>1, <1>3, DiskIsTyped DEF Sound, ReturnBody
<1> QED BY <1>1, <1>2, <1>3, <1>4, AtFollows DEF Sound

\* A call that rolls back goes on rolling back.
LEMMA ReturnOn ==
  ASSUME IInv, NEW s, At(s), s[1] \in ReturnNames, s # Step("rolledBack"),
         Proceed \/ todo' = todo, journal' = journal,
         UNCHANGED <<plan, gaveUp, history>>
  PROVE  /\ Script' /\ Reason' /\ Returning' /\ ~Forward' /\ ~Discarding' /\ ~Starting'
         /\ todo' \in Seq(AnyStep) /\ (rest' = rest \/ rest' = rest \ {s})
         /\ Proceed => rest' = rest \ {s}
         /\ before' = before /\ disturbed' = disturbed
         /\ JournalSound' /\ Untouched' /\ Settled'
<1>1. /\ Returning /\ JournalSound /\ ~IsTerminal(journal) /\ ~gaveUp /\ Typed
      /\ journal.phase = "rollingBack"
      /\ Proceed => /\ todo' \in Seq(AnyStep) /\ Follows(todo', ReturnSteps(plan))
                    /\ rest' = rest \ {s}
  BY AtReturning
<1>2. Follows(todo, ReturnSteps(plan)) /\ Step("rolledBack") \in rest
  BY <1>1 DEF Returning
<1>3. todo' = todo => /\ todo' \in Seq(AnyStep) /\ Follows(todo', ReturnSteps(plan))
                      /\ rest' = rest
  BY <1>1, <1>2 DEF Typed, rest
<1>4. /\ todo' \in Seq(AnyStep) /\ Follows(todo', ReturnSteps(plan))
      /\ rest' = rest \/ rest' = rest \ {s}
  BY <1>1, <1>3
<1>5. Step("rolledBack") \in rest'
  BY <1>2, <1>4
<1>6. Returning' /\ Step("rolledBack")[1] \notin ForwardNames \cup DiscardNames \cup StartNames
  BY <1>4, <1>5 DEF Returning, ForwardNames, DiscardNames, StartNames
<1>7. /\ \A j : Step("rolledBack") \notin ForwardSteps(j)
      /\ \A j : Step("rolledBack") \notin DiscardSteps(j)
      /\ Step("rolledBack") \notin StartSteps
  BY <1>6, NamesAre
<1>8. ~Forward' /\ ~Discarding' /\ ~Starting'
  BY <1>5, <1>7 DEF Forward, Discarding, Starting, Follows, rest
<1>9. Script' /\ Reason'
  BY <1>1, <1>6 DEF Script, Reason
<1>10. before' = before /\ disturbed' = disturbed
  BY DEF history
<1>11. SameButPhase(journal, journal')
  BY DEF SameButPhase
<1>12. JournalSound'
  BY <1>1, <1>10, <1>11, JournalFrame
<1>13. Untouched' /\ Settled'
  BY <1>1 DEF Untouched, Settled
<1> QED BY <1>1, <1>4, <1>6, <1>8, <1>9, <1>10, <1>12, <1>13

\* A step of a rollback touches one member.
LEMMA ReturnMoves ==
  ASSUME IInv, NEW m \in Members,
         NEW s \in {<<"materialize", m>>, <<"remove", m>>, <<"putBack", m>>},
         At(s), Proceed \/ todo' = todo, journal' = journal, installed' = installed,
         UNCHANGED <<plan, gaveUp, faults, disturbances, history>>, DiskTyped(disk'),
         \A p \in Places, n \in Members : n # m => disk'[p][n] = disk[p][n],
         MemberSound(m)', ReturnMember(m)',
         m \notin disturbed =>
           /\ \/ disk'["live"][m] = before[m]
              \/ m \in Displaces(journal) /\ disk'["live"][m] = journal.previous.adopted[m]
              \/ m \in Installs(journal) /\ disk'["live"][m] = New(journal)
              \/ m \in Had(journal) \cap ShouldMutate(journal) /\ disk'["live"][m] = NoFile
           /\ before[m] # NoFile =>
                before[m] \in {disk'["live"][m], disk'["backup"][m], disk'["durable"][m]}
  PROVE  IInv'
<1>1. /\ s[1] \in ReturnNames /\ s[2] = m /\ s # Step("rolledBack") /\ "all" \notin Members
      /\ s[1] # "sweep"
  BY DEF ReturnNames, Members
<1>2. /\ Returning /\ ReturnBody /\ LiveSound /\ PlacesSound /\ Kept /\ Typed
      /\ journal.phase = "rollingBack"
      /\ \A x \in ReturnSteps(plan) : Rank(s) < Rank(x) => x \in rest
  BY <1>1, AtReturning
<1>3. /\ Script' /\ Reason' /\ Returning' /\ ~Forward' /\ ~Discarding' /\ ~Starting'
      /\ todo' \in Seq(AnyStep) /\ (rest' = rest \/ rest' = rest \ {s})
      /\ before' = before /\ disturbed' = disturbed
      /\ JournalSound' /\ Untouched' /\ Settled'
  BY <1>1, ReturnOn
<1>4. Typed'
  <2>1. UNCHANGED <<gaveUp, faults, disturbances, before, disturbed>>
    BY <1>3
  <2>2. installed' \in Receipts /\ journal' \in Journals /\ plan' \in [Members -> PlanWords]
    BY <1>2 DEF Typed
  <2> QED BY <1>2, <1>3, <2>1, <2>2, TypedOn
<1>5. SameButPhase(journal, journal')
  BY DEF SameButPhase
<1>6. PlacesSound'
  <2>1. ASSUME NEW n \in Members, n # m
        PROVE  MemberSound(n)'
    <3>1. MemberSound(n) /\ \A p \in Places : disk'[p][n] = disk[p][n]
      BY <1>2, <2>1 DEF PlacesSound
    <3> QED BY <1>2, <1>3, <1>5, <3>1, MemberFrame
  <2> QED BY <2>1 DEF PlacesSound
<1>7. \A n \in Members : n # m =>
        /\ disk'["live"][n] = disk["live"][n] /\ disk'["backup"][n] = disk["backup"][n]
        /\ disk'["durable"][n] = disk["durable"][n] /\ disk'["restore"][n] = disk["restore"][n]
        /\ disk'["promotion"][n] = disk["promotion"][n]
  BY DEF Places
<1>8. LiveSound'
  <2> SUFFICES ASSUME NEW n \in Members, n \notin disturbed
               PROVE  \/ disk'["live"][n] = before[n]
                      \/ m \in Members /\ n \in Displaces(journal)
                           /\ disk'["live"][n] = journal.previous.adopted[n]
                      \/ n \in Installs(journal) /\ disk'["live"][n] = New(journal)
                      \/ n \in Had(journal) \cap ShouldMutate(journal)
                           /\ disk'["live"][n] = NoFile
    BY <1>3 DEF LiveSound
  <2>1. CASE n = m
    BY <2>1
  <2>2. CASE n # m
    BY <1>2, <1>7, <2>2 DEF LiveSound
  <2> QED BY <2>1, <2>2
<1>9. Kept'
  <2> SUFFICES ASSUME NEW n \in Members, n \notin disturbed, before[n] # NoFile
               PROVE  before[n] \in {disk'["live"][n], disk'["backup"][n], disk'["durable"][n]}
    BY <1>3 DEF Kept
  <2>1. CASE n = m
    BY <2>1
  <2>2. CASE n # m
    BY <1>2, <1>7, <2>2 DEF Kept
  <2> QED BY <2>1, <2>2
<1>10. ASSUME NEW n \in Members, n # m
       PROVE  ReturnMember(n)'
  <2>1. ReturnMember(n)
    BY <1>2 DEF ReturnBody
  <2>2. /\ <<"materialize", n>> \in rest' <=> <<"materialize", n>> \in rest
        /\ <<"remove", n>> \in rest' <=> <<"remove", n>> \in rest
        /\ <<"putBack", n>> \in rest' <=> <<"putBack", n>> \in rest
        /\ Step("verify") \in rest' <=> Step("verify") \in rest
    BY <1>1, <1>3, <1>10
  <2> QED BY <1>3, <1>7, <1>10, <2>1, <2>2 DEF ReturnMember
<1>11. /\ \A p \in {"stage", "promotion", "restore"} : <<"sweep", p>> \in rest'
       /\ Step("restoreState") \in rest'
  <2>1. Rank(s) \in Int /\ Rank(s) < 34
    <3> DEFINE a == Rank(<<"materialize", m>>)
               b == Rank(<<"remove", m>>)
               c == Rank(<<"putBack", m>>)
    <3>1. a \in Int /\ b \in Int /\ c \in Int /\ a < b /\ b < c /\ c < 34
      BY ReturnRanks
    <3>2. Rank(s) \in {a, b, c}
      OBVIOUS
    <3> HIDE DEF a, b, c
    <3> QED BY <3>1, <3>2
  <2>2. /\ Rank(s) < Rank(<<"sweep", "stage">>) /\ Rank(s) < Rank(<<"sweep", "promotion">>)
        /\ Rank(s) < Rank(<<"sweep", "restore">>) /\ Rank(s) < Rank(Step("restoreState"))
    BY <2>1, Ranks
  <2>3. /\ <<"sweep", "stage">> \in rest /\ <<"sweep", "promotion">> \in rest
        /\ <<"sweep", "restore">> \in rest /\ Step("restoreState") \in rest
    BY <1>2, <2>2, ReturnStepsAre
  <2>4. /\ <<"sweep", "stage">> # s /\ <<"sweep", "promotion">> # s
        /\ <<"sweep", "restore">> # s /\ Step("restoreState") # s
    OBVIOUS
  <2> QED BY <1>3, <2>3, <2>4
<1>12. ReturnBody'
  BY <1>2, <1>10, <1>11 DEF ReturnBody
<1> QED BY <1>3, <1>4, <1>6, <1>8, <1>9, <1>12 DEF IInv, Sound

\* What a rollback knows of the member it works on.
LEMMA ReturnFacts ==
  ASSUME IInv, NEW m \in Members,
         NEW s \in {<<"materialize", m>>, <<"remove", m>>, <<"putBack", m>>}, At(s)
  PROVE  /\ s[1] \in ReturnNames /\ ReturnBody /\ Settled /\ LiveSound
         /\ JournalSound /\ PlacesSound /\ Untouched /\ Kept
         /\ ~IsTerminal(journal) /\ Typed /\ DiskTyped(disk) /\ journal.phase = "rollingBack"
         /\ MemberSound(m) /\ ReturnMember(m)
         /\ Proceed => rest' = rest \ {s}
         /\ s \in rest /\ Step("verify") \in rest
         /\ s = <<"materialize", m>> =>
              plan[m] = "durable" /\ <<"remove", m>> \in rest /\ <<"putBack", m>> \in rest
         /\ s = <<"remove", m>> =>
              /\ plan[m] \in {"remove", "backup", "durable"}
              /\ <<"materialize", m>> \notin rest
              /\ plan[m] \in {"backup", "durable"} <=> <<"putBack", m>> \in rest
         /\ s = <<"putBack", m>> =>
              /\ plan[m] \in {"backup", "durable"}
              /\ <<"materialize", m>> \notin rest /\ <<"remove", m>> \notin rest
<1>1. s[1] \in ReturnNames
  BY DEF ReturnNames
<1>2. /\ ReturnBody /\ Settled /\ LiveSound /\ JournalSound /\ PlacesSound /\ Untouched /\ Kept
      /\ ~IsTerminal(journal) /\ Typed /\ DiskTyped(disk) /\ journal.phase = "rollingBack"
      /\ s \in ReturnSteps(plan) /\ s \in rest /\ rest \subseteq ReturnSteps(plan)
      /\ \A x \in rest : x = s \/ Rank(s) < Rank(x)
      /\ \A x \in ReturnSteps(plan) : Rank(s) < Rank(x) => x \in rest
      /\ Proceed => rest' = rest \ {s}
  BY <1>1, AtReturning
<1>3. MemberSound(m) /\ ReturnMember(m)
  BY <1>2 DEF PlacesSound, ReturnBody
<1> DEFINE a == Rank(<<"materialize", m>>)
           b == Rank(<<"remove", m>>)
           c == Rank(<<"putBack", m>>)
<1>4. a \in Int /\ b \in Int /\ c \in Int /\ a < b /\ b < c /\ c < 34
  BY ReturnRanks
<1>5. Step("verify") \in rest
  <2>1. Rank(Step("verify")) = 34 /\ Step("verify") \in ReturnSteps(plan)
    BY Ranks, ReturnStepsAre
  <2>2. Rank(s) < 34
    BY <1>4
  <2> QED BY <1>2, <2>1, <2>2
<1>6. ASSUME s = <<"materialize", m>>
      PROVE  plan[m] = "durable" /\ <<"remove", m>> \in rest /\ <<"putBack", m>> \in rest
  <2>1. plan[m] = "durable"
    BY <1>2, <1>6, ReturnStepsAre
  <2>2. <<"remove", m>> \in ReturnSteps(plan) /\ <<"putBack", m>> \in ReturnSteps(plan)
    BY <2>1, ReturnStepsAre
  <2>3. Rank(s) < b /\ Rank(s) < c
    BY <1>4, <1>6
  <2> QED BY <1>2, <2>1, <2>2, <2>3
<1>7. ASSUME s = <<"remove", m>>
      PROVE  /\ plan[m] \in {"remove", "backup", "durable"}
             /\ <<"materialize", m>> \notin rest
             /\ plan[m] \in {"backup", "durable"} <=> <<"putBack", m>> \in rest
  <2>1. plan[m] \in {"remove", "backup", "durable"}
    BY <1>2, <1>7, ReturnStepsAre
  <2>2. Rank(s) < c /\ ~(Rank(s) < a) /\ s # <<"materialize", m>>
    BY <1>4, <1>7
  <2>3. <<"putBack", m>> \in ReturnSteps(plan) <=> plan[m] \in {"backup", "durable"}
    BY ReturnStepsAre
  <2> QED BY <1>2, <2>1, <2>2, <2>3
<1>8. ASSUME s = <<"putBack", m>>
      PROVE  /\ plan[m] \in {"backup", "durable"}
             /\ <<"materialize", m>> \notin rest /\ <<"remove", m>> \notin rest
  <2>1. plan[m] \in {"backup", "durable"}
    BY <1>2, <1>8, ReturnStepsAre
  <2>2. /\ ~(Rank(s) < b) /\ ~(Rank(s) < a)
        /\ s # <<"materialize", m>> /\ s # <<"remove", m>>
    BY <1>4, <1>8
  <2> QED BY <1>2, <2>1, <2>2
<1> QED BY <1>1, <1>2, <1>3, <1>5, <1>6, <1>7, <1>8

\* The durable backup is ready to be put back.
LEMMA MaterializedHolds ==
  ASSUME IInv, NEW m \in Members, Materialized(m)
  PROVE  IInv'
<1> DEFINE s == <<"materialize", m>>
<1>1. At(s)
  BY DEF Materialized
<1>2. /\ disk' = disk /\ installed' = installed /\ journal' = journal /\ Proceed
      /\ disk["restore"][m] \notin {NoFile, Unowned, Partial}
      /\ UNCHANGED <<plan, gaveUp, faults, disturbances, history>>
  BY DEF Materialized, Copied, CopyPlace, Unchanged
<1>3. /\ Kept /\ LiveSound /\ PlacesSound /\ DiskTyped(disk)
      /\ MemberSound(m) /\ ReturnMember(m) /\ rest' = rest \ {s}
      /\ Step("verify") \in rest /\ plan[m] = "durable"
      /\ <<"remove", m>> \in rest /\ <<"putBack", m>> \in rest
      /\ journal.phase = "rollingBack"
  BY <1>1, <1>2, ReturnFacts
<1>4. before' = before /\ disturbed' = disturbed
  BY <1>2 DEF history
<1>5. MemberSound(m)'
  BY <1>2, <1>3, <1>4, MemberFrame DEF SameButPhase
<1>6. disk["restore"][m] = before[m]
  BY <1>2, <1>3 DEF MemberSound, RestoreSound
<1>7. /\ <<"remove", m>> \in rest' /\ <<"putBack", m>> \in rest' /\ Step("verify") \in rest'
      /\ <<"materialize", m>> \notin rest'
  BY <1>3
<1>8. ReturnMember(m)'
  BY <1>2, <1>3, <1>4, <1>6, <1>7 DEF ReturnMember
<1>9. m \notin disturbed =>
           /\ \/ disk'["live"][m] = before[m]
              \/ m \in Displaces(journal) /\ disk'["live"][m] = journal.previous.adopted[m]
              \/ m \in Installs(journal) /\ disk'["live"][m] = New(journal)
              \/ m \in Had(journal) \cap ShouldMutate(journal) /\ disk'["live"][m] = NoFile
           /\ before[m] # NoFile =>
                before[m] \in {disk'["live"][m], disk'["backup"][m], disk'["durable"][m]}
  BY <1>2, <1>3 DEF LiveSound, Kept
<1>10. DiskTyped(disk') /\ \A p \in Places, n \in Members : n # m => disk'[p][n] = disk[p][n]
  BY <1>2, <1>3
<1> QED BY <1>1, <1>2, <1>5, <1>8, <1>9, <1>10, ReturnMoves

\* The durable backup is copied back.
LEMMA MaterializeCopyHolds ==
  ASSUME IInv, NEW m \in Members, CopyStep("materialize", m)
  PROVE  IInv'
<1> DEFINE s == <<"materialize", m>>
<1>1. At(s)
  BY DEF CopyStep
<1>2. /\ installed' = installed /\ journal' = journal /\ todo' = todo
      /\ UNCHANGED <<plan, gaveUp, faults, disturbances, history>>
  BY DEF CopyStep, Unchanged
<1>3. /\ Kept /\ LiveSound /\ PlacesSound /\ DiskTyped(disk) /\ Typed
      /\ MemberSound(m) /\ ReturnMember(m)
      /\ Step("verify") \in rest /\ plan[m] = "durable" /\ s \in rest
      /\ <<"remove", m>> \in rest /\ <<"putBack", m>> \in rest
      /\ journal.phase = "rollingBack"
  BY <1>1, ReturnFacts
<1>4. before' = before /\ disturbed' = disturbed /\ rest' = rest
  BY <1>2 DEF history, rest
<1>5. disk["durable"][m] # NoFile
  BY <1>3 DEF ReturnMember
<1>6. disk["durable"][m] = before[m]
  BY <1>3, <1>5 DEF MemberSound, DurableSound
<1>7. PICK f \in {Unowned, Partial, before[m]} : disk' = Put("restore", m, f)
  BY <1>6 DEF CopyStep, CopyPlace, CopySource
<1>8. f \in AnyFile
  BY <1>3, DiskIsTyped
<1>9. /\ DiskTyped(disk')
      /\ \A p \in Places, n \in Members :
           disk'[p][n] = IF p = "restore" /\ n = m THEN f ELSE disk[p][n]
  <2>1. "restore" \in Places /\ "restore" \notin {"live", "retained"}
    BY DEF Places
  <2> QED BY <1>3, <1>7, <1>8, <2>1, PutIs
<1>10. /\ disk'["restore"][m] = f /\ disk'["live"][m] = disk["live"][m]
       /\ disk'["backup"][m] = disk["backup"][m] /\ disk'["stage"][m] = disk["stage"][m]
       /\ disk'["durable"][m] = disk["durable"][m]
       /\ disk'["promotion"][m] = disk["promotion"][m]
       /\ disk'["retained"][m] = disk["retained"][m]
  BY <1>9 DEF Places
<1>11. MemberSound(m)'
  <2>1. RestoreSound(m)'
    BY <1>4, <1>5, <1>7, <1>10 DEF RestoreSound
  <2>2. /\ StageSound(m)' /\ BackupSound(m)' /\ DurableSound(m)' /\ PromotionSound(m)'
        /\ RetainedSound(m)'
    BY <1>2, <1>3, <1>4, <1>10
       DEF MemberSound, StageSound, BackupSound, DurableSound, PromotionSound, RetainedSound
  <2> QED BY <2>1, <2>2 DEF MemberSound
<1>12. ReturnMember(m)'
  BY <1>2, <1>3, <1>4, <1>10 DEF ReturnMember
<1>13. m \notin disturbed =>
           /\ \/ disk'["live"][m] = before[m]
              \/ m \in Displaces(journal) /\ disk'["live"][m] = journal.previous.adopted[m]
              \/ m \in Installs(journal) /\ disk'["live"][m] = New(journal)
              \/ m \in Had(journal) \cap ShouldMutate(journal) /\ disk'["live"][m] = NoFile
           /\ before[m] # NoFile =>
                before[m] \in {disk'["live"][m], disk'["backup"][m], disk'["durable"][m]}
  BY <1>3, <1>10 DEF LiveSound, Kept
<1>14. \A p \in Places, n \in Members : n # m => disk'[p][n] = disk[p][n]
  BY <1>9
<1> QED BY <1>1, <1>2, <1>9, <1>11, <1>12, <1>13, <1>14, ReturnMoves

\* What the rollback takes away is kept elsewhere, or it is the transaction's.
LEMMA RemoveHolds ==
  ASSUME IInv, NEW m \in Members, Remove(m)
  PROVE  IInv'
<1> DEFINE s == <<"remove", m>>
<1>1. At(s)
  BY DEF Remove
<1>2. /\ installed' = installed /\ journal' = journal /\ Proceed
      /\ disk' = Put("live", m, NoFile)
      /\ UNCHANGED <<plan, gaveUp, faults, disturbances, history>>
  BY DEF Remove, Unchanged
<1>3. /\ JournalSound /\ DiskTyped(disk) /\ Typed
      /\ MemberSound(m) /\ ReturnMember(m) /\ rest' = rest \ {s}
      /\ Step("verify") \in rest /\ s \in rest /\ <<"materialize", m>> \notin rest
      /\ plan[m] \in {"remove", "backup", "durable"}
      /\ plan[m] \in {"backup", "durable"} <=> <<"putBack", m>> \in rest
  BY <1>1, <1>2, ReturnFacts
<1>4. before' = before /\ disturbed' = disturbed
  BY <1>2 DEF history
<1>5. /\ DiskTyped(disk')
      /\ \A p \in Places, n \in Members :
           disk'[p][n] = IF p = "live" /\ n = m THEN NoFile ELSE disk[p][n]
  <2>1. "live" \in Places /\ NoFile \in AnyFile /\ NoFile \in RealFile
    BY <1>3, DiskIsTyped DEF Places
  <2> QED BY <1>2, <1>3, <2>1, PutIs
<1>6. /\ disk'["live"][m] = NoFile /\ disk'["restore"][m] = disk["restore"][m]
      /\ disk'["backup"][m] = disk["backup"][m] /\ disk'["stage"][m] = disk["stage"][m]
      /\ disk'["durable"][m] = disk["durable"][m]
      /\ disk'["promotion"][m] = disk["promotion"][m]
      /\ disk'["retained"][m] = disk["retained"][m]
  BY <1>5 DEF Places
<1>7. MemberSound(m)'
  <2>1. /\ StageSound(m)' /\ BackupSound(m)' /\ DurableSound(m)' /\ PromotionSound(m)'
        /\ RestoreSound(m)' /\ RetainedSound(m)'
    BY <1>2, <1>3, <1>4, <1>6
       DEF MemberSound, StageSound, BackupSound, DurableSound, PromotionSound, RestoreSound,
           RetainedSound
  <2> QED BY <2>1 DEF MemberSound
<1>8. /\ <<"remove", m>> \notin rest' /\ Step("verify") \in rest'
      /\ <<"materialize", m>> \notin rest' /\ <<"materialize", m>> \notin rest
      /\ <<"putBack", m>> \in rest' <=> <<"putBack", m>> \in rest
  BY <1>3
<1>9. ReturnMember(m)'
  BY <1>2, <1>3, <1>4, <1>6, <1>8 DEF ReturnMember
<1>10. m \notin disturbed =>
           /\ before[m] = NoFile \/ m \in Had(journal) \cap ShouldMutate(journal)
           /\ before[m] # NoFile => before[m] \in {disk["backup"][m], disk["durable"][m]}
  <2>1. CASE plan[m] = "remove"
    <3>1. m \notin Had(journal) /\ m \in ShouldMutate(journal)
      BY <1>3, <2>1 DEF ReturnMember
    <3>2. journal.op = "deploy"
      BY <1>3, <3>1, PriorIs DEF Typed, Journals
    <3>3. before[m] = NoFile
      BY <1>3, <3>1, <3>2, PriorIs
    <3> QED BY <3>3
  <2>2. CASE plan[m] = "backup"
    <3>1. disk["backup"][m] # NoFile
      BY <1>3, <2>2 DEF ReturnMember
    <3> QED BY <1>3, <3>1 DEF MemberSound, BackupSound
  <2>3. CASE plan[m] = "durable"
    <3>1. disk["durable"][m] # NoFile
      BY <1>3, <2>3 DEF ReturnMember
    <3>2. m \in Retains(journal) /\ disk["durable"][m] = before[m]
      BY <1>3, <3>1 DEF MemberSound, DurableSound
    <3> QED BY <3>2, SetsAre
  <2> QED BY <1>3, <2>1, <2>2, <2>3
<1>11. m \notin disturbed =>
           /\ \/ disk'["live"][m] = before[m]
              \/ m \in Displaces(journal) /\ disk'["live"][m] = journal.previous.adopted[m]
              \/ m \in Installs(journal) /\ disk'["live"][m] = New(journal)
              \/ m \in Had(journal) \cap ShouldMutate(journal) /\ disk'["live"][m] = NoFile
           /\ before[m] # NoFile =>
                before[m] \in {disk'["live"][m], disk'["backup"][m], disk'["durable"][m]}
  BY <1>6, <1>10
<1>12. \A p \in Places, n \in Members : n # m => disk'[p][n] = disk[p][n]
  BY <1>5
<1> QED BY <1>1, <1>2, <1>5, <1>7, <1>9, <1>11, <1>12, ReturnMoves

\* The live file is not the transaction's: another program put it there.
LEMMA RemoveFailsHolds ==
  ASSUME IInv, NEW m \in Members, RemoveFails(m)
  PROVE  IInv'
<1> DEFINE s == <<"remove", m>>
           live == disk["live"][m]
<1>1. At(s) /\ GiveUp /\ ~Removable(m)
  BY DEF RemoveFails
<1>2. /\ Settled /\ LiveSound /\ JournalSound /\ PlacesSound /\ Untouched /\ Kept
      /\ ~IsTerminal(journal) /\ Typed /\ ReturnMember(m) /\ s \in rest
      /\ journal.phase = "rollingBack"
  BY <1>1, ReturnFacts
<1>3. m \in disturbed
  <2> SUFFICES ASSUME m \notin disturbed
               PROVE  Removable(m)
    BY <1>1
  <2>1. \/ live = NoFile
        \/ m \in Installs(journal) /\ live = New(journal)
        \/ m \in Displaces(journal) /\ live = journal.previous.adopted[m]
    BY <1>2 DEF ReturnMember
  <2>2. CASE m \in Installs(journal) /\ live = New(journal)
    <3>1. m \notin Displaces(journal)
      BY <2>2, SetsAre
    <3>2. IsInstalled(journal, m, live) /\ LooksInstalled(journal, m, live)
      BY <1>2, <2>2, PriorIs DEF IsInstalled, LooksInstalled, New
    <3> QED BY <3>1, <3>2 DEF Removable
  <2>3. CASE m \in Displaces(journal) /\ live = journal.previous.adopted[m]
    <3>1. live \in RealFile /\ live \in AnyFile
      BY <1>2, DiskIsTyped
    <3>2. Is(live, journal.previous.adopted[m])
      <4> HIDE DEF live
      <4> QED BY <2>3, <3>1, IsFile
    <3> QED BY <2>3, <3>2 DEF Removable
  <2> QED BY <2>1, <2>2, <2>3 DEF Removable
<1> QED BY <1>1, <1>2, <1>3, GiveUpHolds

\* The file that was there before is put back.
LEMMA PutBackHolds ==
  ASSUME IInv, NEW m \in Members, PutBack(m)
  PROVE  IInv'
<1> DEFINE s == <<"putBack", m>>
<1>1. At(s)
  BY DEF PutBack
<1>2. /\ installed' = installed /\ journal' = journal /\ Proceed
      /\ disk' = Move(m, RestoreSource(m), "live")
      /\ UNCHANGED <<plan, gaveUp, faults, disturbances, history>>
  BY DEF PutBack, Unchanged
<1>3. /\ JournalSound /\ DiskTyped(disk) /\ Typed
      /\ MemberSound(m) /\ ReturnMember(m) /\ rest' = rest \ {s}
      /\ Step("verify") \in rest /\ s \in rest
      /\ plan[m] \in {"backup", "durable"}
      /\ <<"materialize", m>> \notin rest /\ <<"remove", m>> \notin rest
  BY <1>1, <1>2, ReturnFacts
<1>4. before' = before /\ disturbed' = disturbed
  BY <1>2 DEF history
<1> DEFINE from == RestoreSource(m)
           f == disk[from][m]
<1>5. /\ from \in {"restore", "backup"} /\ f \in RealFile
      /\ m \notin disturbed => f = before[m]
  <2>1. CASE plan[m] = "durable"
    <3>1. from = "restore"
      BY <2>1 DEF RestoreSource
    <3>2. disk["restore"][m] = before[m]
      BY <1>3, <2>1 DEF ReturnMember
    <3> QED BY <1>3, <3>1, <3>2 DEF Typed
  <2>2. CASE plan[m] = "backup"
    <3>1. from = "backup"
      BY <2>2 DEF RestoreSource
    <3>2. disk["backup"][m] # NoFile
      BY <1>3, <2>2 DEF ReturnMember
    <3>3. /\ disk["backup"][m] \in Files
          /\ m \notin disturbed => disk["backup"][m] = before[m]
      BY <1>3, <3>2 DEF MemberSound, BackupSound
    <3> QED BY <3>1, <3>3 DEF RealFile
  <2> QED BY <1>3, <2>1, <2>2
<1>6. /\ DiskTyped(disk')
      /\ \A p \in Places, n \in Members :
           disk'[p][n] = IF p = "live" /\ n = m THEN f
                         ELSE IF p = from /\ n = m THEN NoFile ELSE disk[p][n]
  <2>1. from \in Places \ {"retained"} /\ "live" \in Places \ {"retained"} /\ from # "live"
    BY <1>5 DEF Places
  <2> HIDE DEF from
  <2> QED BY <1>2, <1>3, <1>5, <2>1, MoveIs DEF from
<1> HIDE DEF from, f
<1>7. /\ disk'["live"][m] = f
      /\ disk'["restore"][m] \in {disk["restore"][m], NoFile}
      /\ disk'["backup"][m] \in {disk["backup"][m], NoFile}
      /\ disk'["stage"][m] = disk["stage"][m]
      /\ disk'["durable"][m] = disk["durable"][m]
      /\ disk'["promotion"][m] = disk["promotion"][m]
      /\ disk'["retained"][m] = disk["retained"][m]
  BY <1>5, <1>6 DEF Places
<1>8. disk["promotion"][m] \notin {Partial, Unowned}
  BY <1>3 DEF ReturnMember
<1>9. MemberSound(m)'
  <2>1. /\ StageSound(m)' /\ BackupSound(m)' /\ DurableSound(m)' /\ RetainedSound(m)'
    BY <1>2, <1>3, <1>4, <1>7 DEF MemberSound, StageSound, BackupSound, DurableSound, RetainedSound
  <2>2. PromotionSound(m)' /\ RestoreSound(m)'
    BY <1>2, <1>3, <1>4, <1>7, <1>8 DEF MemberSound, PromotionSound, RestoreSound
  <2> QED BY <2>1, <2>2 DEF MemberSound
<1>10. /\ <<"remove", m>> \notin rest' /\ Step("verify") \in rest'
       /\ <<"materialize", m>> \notin rest' /\ <<"putBack", m>> \notin rest'
  BY <1>3
<1>11. ReturnMember(m)'
  BY <1>2, <1>3, <1>4, <1>5, <1>7, <1>10 DEF ReturnMember
<1>12. m \notin disturbed =>
           /\ \/ disk'["live"][m] = before[m]
              \/ m \in Displaces(journal) /\ disk'["live"][m] = journal.previous.adopted[m]
              \/ m \in Installs(journal) /\ disk'["live"][m] = New(journal)
              \/ m \in Had(journal) \cap ShouldMutate(journal) /\ disk'["live"][m] = NoFile
           /\ before[m] # NoFile =>
                before[m] \in {disk'["live"][m], disk'["backup"][m], disk'["durable"][m]}
  BY <1>5, <1>7
<1>13. \A p \in Places, n \in Members : n # m => disk'[p][n] = disk[p][n]
  BY <1>6
<1> QED BY <1>1, <1>2, <1>6, <1>9, <1>11, <1>12, <1>13, ReturnMoves

\* Another program has put a file where one is to be put back.
LEMMA PutBackFailsHolds ==
  ASSUME IInv, NEW m \in Members, PutBackFails(m)
  PROVE  IInv'
<1> DEFINE s == <<"putBack", m>>
<1>1. At(s) /\ GiveUp /\ disk["live"][m] # NoFile
  BY DEF PutBackFails
<1>2. /\ Settled /\ LiveSound /\ JournalSound /\ PlacesSound /\ Untouched /\ Kept
      /\ ~IsTerminal(journal) /\ Typed /\ ReturnMember(m) /\ s \in rest
      /\ <<"remove", m>> \notin rest
      /\ journal.phase = "rollingBack"
  BY <1>1, ReturnFacts
<1>3. m \in disturbed
  BY <1>1, <1>2 DEF ReturnMember
<1> QED BY <1>1, <1>2, <1>3, GiveUpHolds

\* What a rollback knows once it has put everything back.
LEMMA ReturnedFacts ==
  ASSUME IInv, NEW s, At(s), s[1] \in ReturnNames, 34 <= Rank(s)
  PROVE  \A m \in Members :
           /\ <<"materialize", m>> \notin rest /\ <<"remove", m>> \notin rest
           /\ <<"putBack", m>> \notin rest
<1>1. /\ \A x \in rest : x = s \/ Rank(s) < Rank(x)
      /\ Rank(s) \in Int
  BY AtReturning, RankIsNumber
<1>2. \A x \in rest : Rank(x) \in Int
  BY RankIsNumber
<1>3. \A x \in rest : ~(Rank(x) < 34)
  BY <1>1, <1>2
<1> SUFFICES ASSUME NEW m \in Members
             PROVE  /\ <<"materialize", m>> \notin rest /\ <<"remove", m>> \notin rest
                    /\ <<"putBack", m>> \notin rest
  OBVIOUS
<1>4. /\ Rank(<<"materialize", m>>) < 34 /\ Rank(<<"remove", m>>) < 34
      /\ Rank(<<"putBack", m>>) < 34
  BY ReturnRanks
<1> QED BY <1>3, <1>4

\* A step of a rollback leaves the live files and their backups.
LEMMA ReturnStays ==
  ASSUME IInv, NEW s, At(s), s[1] \in ReturnNames, s # Step("rolledBack"), 34 <= Rank(s),
         Proceed, journal' = journal, installed' \in Receipts,
         UNCHANGED <<plan, gaveUp, faults, disturbances, history>>, DiskTyped(disk'),
         \A m \in Members : /\ disk'["live"][m] = disk["live"][m]
                            /\ disk'["promotion"][m] \in {disk["promotion"][m], NoFile},
         Kept', PlacesSound',
         s = Step("verify") => RolledBackLive,
         s # Step("restoreState") => installed' = installed,
         s = Step("restoreState") => installed' = journal.previous,
         \A place \in {"stage", "promotion", "restore"}, m \in Members :
           s = <<"sweep", place>> \/ disk[place][m] = NoFile => disk'[place][m] = NoFile
  PROVE  IInv'
<1>1. /\ Returning /\ ReturnBody /\ LiveSound /\ Typed /\ journal.phase = "rollingBack"
  BY AtReturning
<1>2. /\ Script' /\ Reason' /\ Returning' /\ ~Forward' /\ ~Discarding' /\ ~Starting'
      /\ todo' \in Seq(AnyStep) /\ rest' = rest \ {s}
      /\ before' = before /\ disturbed' = disturbed
      /\ JournalSound' /\ Untouched' /\ Settled'
  BY ReturnOn
<1>3. Typed'
  <2>1. UNCHANGED <<gaveUp, faults, disturbances, before, disturbed>>
    BY <1>2
  <2>2. journal' \in Journals /\ plan' \in [Members -> PlanWords]
    BY <1>1 DEF Typed
  <2> QED BY <1>1, <1>2, <2>1, <2>2, TypedOn
<1>4. LiveSound'
  BY <1>1, <1>2 DEF LiveSound
<1>5. ASSUME NEW m \in Members
      PROVE  ReturnMember(m)'
  <2>1. ReturnMember(m)
    BY <1>1 DEF ReturnBody
  <2>2. /\ <<"materialize", m>> \notin rest /\ <<"remove", m>> \notin rest
        /\ <<"putBack", m>> \notin rest
    BY ReturnedFacts
  <2>3. /\ <<"materialize", m>> \notin rest' /\ <<"remove", m>> \notin rest'
        /\ <<"putBack", m>> \notin rest'
    BY <1>2, <2>2
  <2>4. Step("verify") \notin rest' =>
          m \in disturbed \/ plan[m] = "skip" \/ Is(disk["live"][m], journal.prior[m])
    <3>1. CASE s = Step("verify")
      BY <3>1 DEF RolledBackLive
    <3>2. CASE s # Step("verify")
      BY <1>2, <2>1, <3>2 DEF ReturnMember
    <3> QED BY <3>1, <3>2
  <2>5. disk'["promotion"][m] \notin {Partial, Unowned}
    <3>1. NoFile \notin {Partial, Unowned}
      BY FilesDiffer
    <3> QED BY <2>1, <3>1 DEF ReturnMember
  <2> QED BY <1>2, <2>1, <2>2, <2>3, <2>4, <2>5 DEF ReturnMember
<1>6. ReturnBody'
  <2>1. Step("restoreState") \notin rest' => installed' = journal.previous
    BY <1>1, <1>2 DEF ReturnBody
  <2>2. ASSUME NEW place \in {"stage", "promotion", "restore"}, NEW m \in Members,
               <<"sweep", place>> \notin rest'
        PROVE  disk'[place][m] = NoFile
    BY <1>1, <1>2, <2>2 DEF ReturnBody
  <2> QED BY <1>1, <1>5, <2>1, <2>2 DEF ReturnBody
<1> QED BY <1>2, <1>3, <1>4, <1>6 DEF IInv, Sound

\* What was put back is verified.
LEMMA VerifyHolds ==
  ASSUME IInv, Verify
  PROVE  IInv'
<1> DEFINE s == Step("verify")
<1>1. At(s) /\ s[1] \in ReturnNames /\ 34 <= Rank(s)
  BY Ranks DEF Verify, ReturnNames
<1>2. /\ disk' = disk /\ installed' = installed /\ journal' = journal /\ Proceed
      /\ RolledBackLive /\ UNCHANGED <<plan, gaveUp, faults, disturbances, history>>
  BY DEF Verify, Unchanged
<1>3. /\ Kept /\ PlacesSound /\ Typed /\ DiskTyped(disk) /\ journal.phase = "rollingBack"
  BY <1>1, AtReturning
<1>4. before' = before /\ disturbed' = disturbed /\ SameButPhase(journal, journal')
  BY <1>2 DEF history, SameButPhase
<1>5. Kept'
  BY <1>2, <1>3, <1>4, KeptFrame
<1>6. PlacesSound'
  <2>1. ASSUME NEW m \in Members
        PROVE  MemberSound(m)'
    BY <1>2, <1>3, <1>4, MemberFrame DEF PlacesSound
  <2> QED BY <2>1 DEF PlacesSound
<1>7. installed' \in Receipts
  BY <1>2, <1>3 DEF Typed
<1> QED BY <1>1, <1>2, <1>3, <1>5, <1>6, <1>7, ReturnStays

\* Another program has changed what was put back.
LEMMA VerifyFailsHolds ==
  ASSUME IInv, VerifyFails
  PROVE  IInv'
<1> DEFINE s == Step("verify")
<1>1. At(s) /\ s[1] \in ReturnNames /\ 34 <= Rank(s) /\ GiveUp /\ ~RolledBackLive
  BY Ranks DEF VerifyFails, ReturnNames
<1>2. /\ Settled /\ LiveSound /\ JournalSound /\ PlacesSound /\ Untouched /\ Kept
      /\ ~IsTerminal(journal) /\ Typed /\ ReturnBody
      /\ journal.phase = "rollingBack"
  BY <1>1, AtReturning
<1>3. PICK m \in Members : plan[m] # "skip" /\ ~Is(disk["live"][m], journal.prior[m])
  BY <1>1 DEF RolledBackLive
<1>4. m \in disturbed
  <2> SUFFICES ASSUME m \notin disturbed
               PROVE  Is(disk["live"][m], journal.prior[m])
    BY <1>3
  <2>1. ReturnMember(m) /\ plan[m] \in PlanWords
    BY <1>2 DEF ReturnBody, Typed
  <2>2. /\ <<"remove", m>> \notin rest /\ <<"putBack", m>> \notin rest
    BY <1>1, ReturnedFacts
  <2>3. CASE plan[m] = "keep"
    BY <2>1, <2>3 DEF ReturnMember
  <2>4. CASE plan[m] = "remove"
    <3>1. disk["live"][m] = NoFile /\ m \notin Had(journal)
      BY <2>1, <2>2, <2>4 DEF ReturnMember
    <3>2. journal.prior[m] = NoFile
      BY <3>1, SetsAre
    <3> QED BY <3>1, <3>2 DEF Is
  <2>5. CASE plan[m] \in {"backup", "durable"}
    <3>1. disk["live"][m] = before[m] /\ m \in Had(journal)
      BY <2>1, <2>2, <2>5 DEF ReturnMember
    <3> QED BY <1>2, <3>1, PriorIs
  <2> QED BY <1>3, <2>1, <2>3, <2>4, <2>5 DEF PlanWords
<1> QED BY <1>1, <1>2, <1>4, GiveUpHolds

\* A place has become superfluous.
LEMMA SweepHolds ==
  ASSUME IInv, NEW place \in {"stage", "promotion", "restore", "durable"}, Sweep(place)
  PROVE  IInv'
<1> DEFINE s == <<"sweep", place>>
<1>1. At(s) /\ s[1] \in ReturnNames /\ 34 <= Rank(s)
  <2>1. At(s) /\ s[1] \in ReturnNames
    BY DEF Sweep, ReturnNames
  <2>2. Rank(s) \in {35, 36, 37, 38}
    BY LastRanks
  <2> QED BY <2>1, <2>2
<1>2. /\ installed' = installed /\ journal' = journal /\ Proceed /\ disk' = Clear(place)
      /\ UNCHANGED <<plan, gaveUp, faults, disturbances, history>>
  BY DEF Sweep, Unchanged
<1>3. /\ Kept /\ PlacesSound /\ JournalSound /\ Typed /\ DiskTyped(disk) /\ ReturnBody
      /\ journal.phase = "rollingBack" /\ s \in rest
      /\ \A x \in rest : x = s \/ Rank(s) < Rank(x)
  BY <1>1, AtReturning
<1>4. before' = before /\ disturbed' = disturbed
  BY <1>2 DEF history
<1>5. /\ DiskTyped(disk')
      /\ \A q \in Places, n \in Members :
           disk'[q][n] = IF q = place THEN NoFile ELSE disk[q][n]
  <2>1. place \in Places
    BY DEF Places
  <2> QED BY <1>2, <1>3, <2>1, ClearIs
<1>6. \A m \in Members :
        /\ disk'["live"][m] = disk["live"][m] /\ disk'["backup"][m] = disk["backup"][m]
        /\ disk'["retained"][m] = disk["retained"][m]
        /\ disk'["stage"][m] \in {disk["stage"][m], NoFile}
        /\ disk'["promotion"][m] \in {disk["promotion"][m], NoFile}
        /\ disk'["restore"][m] \in {disk["restore"][m], NoFile}
        /\ disk'["durable"][m] = IF place = "durable" THEN NoFile ELSE disk["durable"][m]
  BY <1>5 DEF Places
<1>7. place = "durable" =>
        /\ <<"sweep", "restore">> \notin rest /\ Step("verify") \notin rest
  <2> SUFFICES ASSUME place = "durable"
               PROVE  <<"sweep", "restore">> \notin rest /\ Step("verify") \notin rest
    OBVIOUS
  <2>1. Rank(s) = 38 /\ Rank(<<"sweep", "restore">>) = 37 /\ Rank(Step("verify")) = 34
    BY Ranks
  <2>2. s # <<"sweep", "restore">> /\ s # Step("verify")
    OBVIOUS
  <2> QED BY <1>3, <2>1, <2>2
<1>8. PlacesSound'
  <2> SUFFICES ASSUME NEW m \in Members
               PROVE  MemberSound(m)'
    BY DEF PlacesSound
  <2>1. MemberSound(m)
    BY <1>3 DEF PlacesSound
  <2>2. StageSound(m)' /\ BackupSound(m)' /\ PromotionSound(m)' /\ RetainedSound(m)'
    BY <1>2, <1>4, <1>6, <2>1
       DEF MemberSound, StageSound, BackupSound, PromotionSound, RetainedSound
  <2>3. DurableSound(m)'
    BY <1>2, <1>4, <1>6, <2>1 DEF MemberSound, DurableSound
  <2>4. RestoreSound(m)'
    <3>1. CASE place = "durable"
      <4>1. disk["restore"][m] = NoFile
        BY <1>3, <1>7, <3>1 DEF ReturnBody
      <4>2. disk'["restore"][m] = NoFile
        BY <1>6, <4>1
      <4> QED BY <4>2 DEF RestoreSound
    <3>2. CASE place # "durable"
      BY <1>4, <1>6, <2>1, <3>2 DEF MemberSound, RestoreSound
    <3> QED BY <3>1, <3>2
  <2> QED BY <2>2, <2>3, <2>4 DEF MemberSound
<1>9. Kept'
  <2> SUFFICES ASSUME NEW m \in Members, m \notin disturbed, before[m] # NoFile
               PROVE  before[m] \in {disk'["live"][m], disk'["backup"][m], disk'["durable"][m]}
    BY <1>4 DEF Kept
  <2>1. before[m] \in {disk["live"][m], disk["backup"][m], disk["durable"][m]}
    BY <1>3 DEF Kept
  <2>2. CASE place # "durable"
    BY <1>6, <2>1, <2>2
  <2>3. CASE place = "durable" /\ before[m] = disk["durable"][m]
    <3>1. journal.op = "deploy" /\ m \in Retains(journal)
      BY <1>3, <2>3 DEF PlacesSound, MemberSound, DurableSound
    <3>2. m \in Had(journal)
      BY <3>1, SetsAre
    <3>3. plan[m] # "skip" => Is(disk["live"][m], journal.prior[m])
      BY <1>3, <1>7, <2>3 DEF ReturnBody, ReturnMember
    <3>4. plan[m] # "skip"
      BY <1>3, <3>2 DEF ReturnBody, ReturnMember
    <3>5. disk["live"][m] = before[m]
      BY <1>3, <3>1, <3>3, <3>4, PriorIs, DiskIsTyped
    <3> QED BY <1>6, <3>5
  <2>4. CASE place = "durable" /\ before[m] # disk["durable"][m]
    BY <1>6, <2>1, <2>4
  <2> QED BY <2>2, <2>3, <2>4
<1>10. \A p \in {"stage", "promotion", "restore"}, m \in Members :
         s = <<"sweep", p>> \/ disk[p][m] = NoFile => disk'[p][m] = NoFile
  BY <1>5 DEF Places
<1>11. /\ s # Step("verify") /\ s # Step("restoreState") /\ s # Step("rolledBack")
       /\ installed' \in Receipts
  BY <1>2, <1>3 DEF Typed
<1> QED BY <1>1, <1>2, <1>5, <1>6, <1>8, <1>9, <1>10, <1>11, ReturnStays

\* The receipt is put back.
LEMMA RestoreStateHolds ==
  ASSUME IInv, RestoreState
  PROVE  IInv'
<1> DEFINE s == Step("restoreState")
<1>1. At(s) /\ s[1] \in ReturnNames /\ 34 <= Rank(s)
  BY Ranks DEF RestoreState, ReturnNames
<1>2. /\ disk' = disk /\ installed' = journal.previous /\ journal' = journal /\ Proceed
      /\ UNCHANGED <<plan, gaveUp, faults, disturbances, history>>
  BY DEF RestoreState, Unchanged
<1>3. /\ Kept /\ PlacesSound /\ Typed /\ DiskTyped(disk) /\ journal.phase = "rollingBack"
  BY <1>1, AtReturning
<1>4. before' = before /\ disturbed' = disturbed /\ SameButPhase(journal, journal')
  BY <1>2 DEF history, SameButPhase
<1>5. Kept'
  BY <1>2, <1>3, <1>4, KeptFrame
<1>6. PlacesSound'
  <2>1. ASSUME NEW m \in Members
        PROVE  MemberSound(m)'
    BY <1>2, <1>3, <1>4, MemberFrame DEF PlacesSound
  <2> QED BY <2>1 DEF PlacesSound
<1>7. installed' \in Receipts
  BY <1>2, <1>3 DEF Typed, Journals
<1> QED BY <1>1, <1>2, <1>3, <1>5, <1>6, <1>7, ReturnStays

\* The rollback is done.
LEMMA RolledBackHolds ==
  ASSUME IInv, RolledBack
  PROVE  IInv'
<1> DEFINE s == Step("rolledBack")
<1>1. At(s) /\ s[1] \in ReturnNames
  BY DEF RolledBack, ReturnNames
<1>2. /\ disk' = disk /\ installed' = installed /\ Proceed /\ Persist("rolledBack")
      /\ plan' = NoPlan /\ UNCHANGED <<gaveUp, faults, disturbances, history>>
  BY DEF RolledBack
<1>3. /\ Typed /\ ~gaveUp /\ todo' \in Seq(AnyStep) /\ DiskTyped(disk)
      /\ rest' = rest \ {s} /\ rest \subseteq ReturnSteps(plan)
      /\ \A x \in rest : x = s \/ Rank(s) < Rank(x)
  BY <1>1, <1>2, AtReturning
<1>4. rest' = {}
  <2> SUFFICES ASSUME NEW x \in rest, x # s
               PROVE  FALSE
    BY <1>3
  <2>1. 40 < Rank(x) /\ x \in ReturnSteps(plan)
    BY <1>3, LastRanks
  <2>2. \A m \in Members : /\ x # <<"materialize", m>> /\ x # <<"remove", m>>
                           /\ x # <<"putBack", m>>
    <3>1. \A m \in Members : /\ ~(40 < Rank(<<"materialize", m>>))
                             /\ ~(40 < Rank(<<"remove", m>>))
                             /\ ~(40 < Rank(<<"putBack", m>>))
      <4> TAKE m \in Members
      <4> DEFINE a == Rank(<<"materialize", m>>)
                 b == Rank(<<"remove", m>>)
                 c == Rank(<<"putBack", m>>)
      <4>1. a \in Int /\ b \in Int /\ c \in Int /\ a < b /\ b < c /\ c < 34
        BY ReturnRanks
      <4> HIDE DEF a, b, c
      <4>2. ~(40 < a) /\ ~(40 < b) /\ ~(40 < c)
        BY <4>1
      <4> QED BY <4>2 DEF a, b, c
    <3> QED BY <2>1, <3>1
  <2>3. x \in {Step("verify"), <<"sweep", "stage">>, <<"sweep", "promotion">>,
             <<"sweep", "restore">>, <<"sweep", "durable">>, Step("restoreState"),
             Step("rolledBack")}
    BY <2>1, <2>2 DEF ReturnSteps
  <2> QED BY <2>1, <2>3, LastRanks
<1>5. todo' = <<>>
  BY <1>3, <1>4, NoSteps DEF rest
<1>6. journal' \in Journals /\ IsTerminal(journal')
  BY <1>2, <1>3, PersistIs DEF Phases, IsTerminal
<1>7. DiskTyped(disk') /\ installed' \in Receipts
  BY <1>2, <1>3 DEF Typed
<1> QED BY <1>2, <1>3, <1>5, <1>6, <1>7, EndHolds

-----------------------------------------------------------------------------
(* Faults, other programs and the specification                            *)

\* What holds while a call runs.
LEMMA RunningGives ==
  ASSUME IInv, ~Idle
  PROVE  /\ JournalSound /\ PlacesSound /\ Untouched /\ Kept /\ Settled /\ LiveSound
         /\ ~IsTerminal(journal) /\ ~gaveUp /\ Typed /\ DiskTyped(disk)
         /\ Forward \/ Discarding \/ Starting \/ Returning
<1>1. /\ ~IsTerminal(journal) /\ (Forward \/ Discarding \/ Starting \/ Returning)
      /\ ~gaveUp /\ Typed
  BY DEF IInv, Script, Reason
<1>2. Sound
  BY <1>1 DEF IInv
<1>3. Settled /\ LiveSound
  BY <1>1, <1>2, ForwardGives DEF Sound
<1> QED BY <1>1, <1>2, <1>3, DiskIsTyped DEF Sound

\* The process stops.
LEMMA CrashHolds ==
  ASSUME IInv, Crash
  PROVE  IInv'
<1>1. /\ JournalSound /\ PlacesSound /\ Untouched /\ Kept /\ Settled /\ LiveSound
      /\ ~IsTerminal(journal) /\ ~gaveUp /\ Typed /\ DiskTyped(disk)
  BY RunningGives DEF Crash
<1>2. /\ faults < MaxFaults /\ faults' = faults + 1 /\ todo' = <<>> /\ plan' = NoPlan
      /\ disk' = disk /\ installed' = installed /\ journal' = journal
      /\ UNCHANGED <<gaveUp, disturbances, history>>
  BY DEF Crash
<1>3. faults' \in 0 .. MaxFaults
  BY <1>1, <1>2, BoundAssumption DEF Typed
<1>4. /\ DiskTyped(disk') /\ Dropped /\ journal' \in Journals /\ ~IsTerminal(journal')
      /\ SameButPhase(journal, journal') /\ gaveUp' \in BOOLEAN /\ ~gaveUp'
  BY <1>1, <1>2 DEF Dropped, SameButPhase, Typed
<1> QED BY <1>1, <1>2, <1>3, <1>4, IdleHolds

\* A call that goes forward and is not yet at its end has not committed, but for
\* a deployment that is to look at its outcome.
LEMMA EarlyIs ==
  ASSUME IInv, NEW s, At(s), s[1] \in ForwardNames \ {"cleanup", "clean", "finish"}
  PROVE  journal.phase # "cleanup" \/ (journal.op = "deploy" /\ Step("outcome") \in rest)
<1>1. /\ ForwardBody /\ s \in ForwardSteps(journal) /\ s \in rest
      /\ \A x \in ForwardSteps(journal) : Rank(s) < Rank(x) => x \in rest
      /\ journal.op \in {"deploy", "uninstall"}
  BY AtForward DEF IInv, Typed, Journals
<1>2. Step("commit") \in rest => journal.phase # "cleanup"
  BY <1>1 DEF ForwardBody, PhaseSound
<1>3. Step("commit") \in ForwardSteps(journal) /\ Rank(Step("commit")) = 17
  BY WholeRanks, ForwardStepsAre
<1>4. ASSUME Rank(s) < 17
      PROVE  journal.phase # "cleanup"
  BY <1>1, <1>2, <1>3, <1>4
<1>5. CASE s = Step("commit")
  BY <1>1, <1>2, <1>5
<1>6. CASE s = Step("outcome")
  BY <1>1, <1>6, ForwardStepsAre
<1>7. CASE s \in {Step("precondition"), Step("record"), Step("download"), Step("staged")}
  BY <1>4, <1>7, WholeRanks
<1>8. ASSUME NEW m \in Members,
             s \in {<<"takeAway", m>>, <<"stage", m>>, <<"install", m>>, <<"promote", m>>,
                    <<"removeSource", m>>, <<"giveBack", m>>}
      PROVE  journal.phase # "cleanup"
  <2>1. Rank(s) < 17
    BY <1>8, MemberRanks
  <2> QED BY <1>4, <2>1
<1>9. /\ Had(journal) \cap ShouldMutate(journal) \subseteq Members
      /\ Installs(journal) \subseteq Members
      /\ Retains(journal) \subseteq Members /\ Displaces(journal) \subseteq Members
  BY SetsAre
<1>10. s \notin {Step("cleanup"), <<"clean", "backup">>, <<"clean", "retained">>, Step("finish")}
  OBVIOUS
<1> QED BY <1>1, <1>5, <1>6, <1>7, <1>8, <1>9, <1>10 DEF ForwardSteps

\* A file operation fails.
LEMMA ThrowHolds ==
  ASSUME IInv, Throw
  PROVE  IInv'
<1> DEFINE s == Head(todo)
           name == s[1]
<1>1. /\ ~Idle /\ faults < MaxFaults /\ faults' = faults + 1 /\ plan' = NoPlan
      /\ disk' = IF name \in Copies
                 THEN [disk EXCEPT ![CopyPlace(name)][s[2]] = IF @ = Unowned THEN NoFile ELSE @]
                 ELSE disk
      /\ CASE name \in RollBackNames -> Persist("rollingBack") /\ todo' = <<>>
          [] name \in EndingNames -> todo' = <<>> /\ UNCHANGED journal
          [] OTHER -> Raise /\ UNCHANGED journal
      /\ UNCHANGED <<installed, gaveUp, disturbances, history>>
  BY DEF Throw
<1>2. At(s)
  BY <1>1 DEF At, Idle
<1> HIDE DEF s
<1>3. /\ JournalSound /\ PlacesSound /\ Untouched /\ Kept /\ Settled /\ LiveSound
      /\ ~IsTerminal(journal) /\ ~gaveUp /\ Typed /\ DiskTyped(disk)
      /\ Forward \/ Discarding \/ Starting \/ Returning
  BY <1>1, RunningGives
<1>4. faults' \in 0 .. MaxFaults /\ gaveUp' \in BOOLEAN /\ ~gaveUp'
  BY <1>1, <1>3, BoundAssumption DEF Typed
<1>5. DiskTyped(disk') /\ Dropped
  <2>1. CASE name \notin Copies
    BY <1>1, <1>3, <2>1 DEF Dropped
  <2>2. CASE name \in Copies
    <3> DEFINE to == CopyPlace(name)
    <3>1. to \in Places \ {"live", "retained"}
      BY <2>2 DEF Copies, CopyPlace, Places
    <3> HIDE DEF to
    <3>0. PICK k : k = s[2]
      OBVIOUS
    <3>2. /\ disk \in [Places -> [Members -> AnyFile]] /\ NoFile \in AnyFile
          /\ disk' = [disk EXCEPT ![to][k] = IF @ = Unowned THEN NoFile ELSE @]
      BY <1>1, <1>3, <2>2, <3>0, DiskIsTyped DEF DiskTyped, to
    <3>3. disk' = [p \in Places |-> [m \in Members |->
             IF p = to /\ m = k /\ disk[p][m] = Unowned THEN NoFile ELSE disk[p][m]]]
      BY <3>1, <3>2
    <3>4. \A p \in Places, m \in Members :
             disk'[p][m] = IF p = to /\ m = k /\ disk[p][m] = Unowned
                           THEN NoFile ELSE disk[p][m]
      BY <3>3
    <3>5. disk' \in [Places -> [Members -> AnyFile]]
      <4> DEFINE F(p, m) == IF p = to /\ m = k /\ disk[p][m] = Unowned
                            THEN NoFile ELSE disk[p][m]
      <4>1. \A p \in Places, m \in Members : F(p, m) \in AnyFile
        BY <3>2
      <4>2. disk' = [p \in Places |-> [m \in Members |-> F(p, m)]]
        BY <3>3
      <4> HIDE DEF F
      <4> QED BY <4>1, <4>2
    <3>6. \A m \in Members : disk'["live"][m] = disk["live"][m]
                             /\ disk'["retained"][m] = disk["retained"][m]
      BY <3>1, <3>4 DEF Places
    <3>7. DiskTyped(disk')
      BY <1>3, <3>5, <3>6 DEF DiskTyped
    <3>8. Dropped
      BY <3>4 DEF Dropped
    <3> QED BY <3>7, <3>8
  <2> QED BY <2>1, <2>2
<1>6. /\ s[1] \in ForwardNames \cup DiscardNames \cup StartNames \cup ReturnNames
      /\ s[1] \in ForwardNames => Forward /\ s[1] \notin RollBackNames
      /\ s[1] \in DiscardNames => s[1] \in EndingNames /\ s[1] \notin RollBackNames
      /\ s[1] \in StartNames => Starting /\ s[1] \in RollBackNames
      /\ s[1] \in ReturnNames => Returning /\ s[1] \in RollBackNames
  <2>1. /\ s \in rest
        /\ s[1] \in ForwardNames => Forward
        /\ s[1] \in StartNames => Starting
        /\ s[1] \in ReturnNames => Returning
    BY <1>2, AtTells
  <2>2. s[1] \in ForwardNames \cup DiscardNames \cup StartNames \cup ReturnNames
    BY <1>3, <2>1, OneKind
  <2>3. s[1] \in ForwardNames => s[1] \notin RollBackNames
    BY DEF ForwardNames, RollBackNames
  <2>4. s[1] \in DiscardNames => s[1] \in EndingNames /\ s[1] \notin RollBackNames
    BY DEF DiscardNames, EndingNames, RollBackNames
  <2>5. s[1] \in StartNames \cup ReturnNames => s[1] \in RollBackNames
    BY DEF StartNames, ReturnNames, RollBackNames
  <2> QED BY <2>1, <2>2, <2>3, <2>4, <2>5
<1>7. CASE name \in RollBackNames
  <2>1. Persist("rollingBack") /\ todo' = <<>>
    <3>1. name \notin EndingNames
      BY <1>7 DEF RollBackNames, EndingNames
    <3> QED BY <1>1, <1>7, <3>1
  <2>2. /\ journal' \in Journals /\ journal'.phase = "rollingBack"
        /\ SameButPhase(journal, journal')
    BY <1>3, <2>1, PersistIs DEF Phases
  <2>3. ~IsTerminal(journal')
    BY <2>2 DEF IsTerminal
  <2>4. journal.phase = "cleanup" => journal.op = "deploy" /\ Step("plan") \in rest
    <3>1. CASE s[1] \in StartNames
      BY <1>2, <3>1, AtStarting DEF StartBody
    <3>2. CASE s[1] \in ReturnNames
      BY <1>2, <3>2, AtReturning
    <3> QED BY <1>6, <1>7, <3>1, <3>2 DEF DiscardNames, ForwardNames, RollBackNames
  <2> QED BY <1>1, <1>3, <1>4, <1>5, <2>1, <2>2, <2>3, <2>4, IdleHolds
<1>8. CASE name \notin RollBackNames /\ name \in EndingNames
  <2>1. journal' = journal /\ todo' = <<>>
    BY <1>1, <1>8
  <2>2. /\ journal' \in Journals /\ SameButPhase(journal, journal') /\ ~IsTerminal(journal')
    BY <1>3, <2>1 DEF Typed, SameButPhase
  <2> QED BY <1>1, <1>3, <1>4, <1>5, <2>1, <2>2, IdleHolds
<1>9. CASE name \notin RollBackNames /\ name \notin EndingNames
  <2>1. journal' = journal /\ Raise
    BY <1>1, <1>9
  <2>2. s[1] \in ForwardNames \ {"cleanup", "clean", "finish"}
    BY <1>6, <1>9 DEF EndingNames
  <2>3. journal.phase # "cleanup" \/ (journal.op = "deploy" /\ Step("outcome") \in rest)
    BY <1>2, <2>2, EarlyIs
  <2> QED BY <1>1, <1>3, <1>4, <1>5, <2>1, <2>3, StartHolds
<1> QED BY <1>7, <1>8, <1>9

\* What other programs do to live files, or nothing at all, leaves the invariant.
LEMMA OthersHold ==
  ASSUME IInv, UNCHANGED <<installed, journal, todo, plan, gaveUp, faults, before>>,
         disturbances' \in 0 .. MaxDisturbances, DiskTyped(disk'),
         disturbed' \subseteq Members, disturbed \subseteq disturbed',
         \A p \in Places, n \in Members : p # "live" => disk'[p][n] = disk[p][n],
         \A n \in Members : \/ disk'["live"][n] = disk["live"][n]
                            \/ n \in disturbed' /\ ~Held(n)
  PROVE  IInv'
<1>1. /\ Typed /\ installed' = installed /\ journal' = journal /\ todo' = todo
      /\ plan' = plan /\ gaveUp' = gaveUp /\ faults' = faults /\ before' = before
  BY DEF IInv
<1>2. Typed'
  BY <1>1 DEF Typed, DiskTyped
<1>3. rest' = rest
  BY <1>1 DEF rest
<1>4. /\ Forward' <=> Forward
      /\ Discarding' <=> Discarding
      /\ Starting' <=> Starting
      /\ Returning' <=> Returning
  BY <1>1, <1>3 DEF Forward, Discarding, Starting, Returning
<1>5. NoPlan' = NoPlan /\ (Idle' <=> Idle) /\ (IsTerminal(journal') <=> IsTerminal(journal))
  BY <1>1 DEF NoPlan, Idle
<1>6. Script'
  BY <1>1, <1>4, <1>5 DEF IInv, Script
<1>7. \A n \in Members :
        /\ disk'["stage"][n] = disk["stage"][n] /\ disk'["backup"][n] = disk["backup"][n]
        /\ disk'["durable"][n] = disk["durable"][n]
        /\ disk'["promotion"][n] = disk["promotion"][n]
        /\ disk'["restore"][n] = disk["restore"][n]
        /\ disk'["retained"][n] = disk["retained"][n]
  BY DEF Places
<1>8. Reason'
  <2>1. CutOff => CutOff'
    BY <1>1, <1>7 DEF CutOff
  <2>2. InTheWay => InTheWay'
    BY <1>1 DEF InTheWay
  <2> QED BY <1>1, <1>5, <2>1, <2>2 DEF IInv, Reason, GivesUpOverThese
<1>9. ASSUME ~IsTerminal(journal)
      PROVE  Sound'
  <2>1. Sound
    BY <1>9 DEF IInv
  <2>2. JournalSound'
    BY <1>1, <2>1, JournalFrame DEF Sound, SameButPhase
  <2>3. PlacesSound'
    <3> SUFFICES ASSUME NEW m \in Members
                 PROVE  MemberSound(m)'
      BY DEF PlacesSound
    <3>1. MemberSound(m)
      BY <2>1 DEF Sound, PlacesSound
    <3>2. StageSound(m)' /\ BackupSound(m)' /\ DurableSound(m)'
      BY <1>1, <1>7, <3>1 DEF MemberSound, StageSound, BackupSound, DurableSound
    <3>3. PromotionSound(m)' /\ RestoreSound(m)' /\ RetainedSound(m)'
      BY <1>1, <1>7, <3>1 DEF MemberSound, PromotionSound, RestoreSound, RetainedSound
    <3> QED BY <3>2, <3>3 DEF MemberSound
  <2>4. \A n \in Members : n \notin disturbed' =>
          n \notin disturbed /\ disk'["live"][n] = disk["live"][n]
    OBVIOUS
  <2>5. Untouched'
    BY <1>1, <1>7, <2>1, <2>4 DEF Sound, Untouched
  <2>6. Kept'
    BY <1>1, <1>3, <1>7, <2>1, <2>4 DEF Sound, Kept
  <2>7. ~Forward => Settled' /\ LiveSound'
    <3>1. LiveSound => LiveSound'
      BY <1>1, <2>4 DEF LiveSound
    <3>2. ASSUME Settled
          PROVE  Settled'
      <4>1. \A m \in Members : Final(m)' = Final(m)
        BY <1>1 DEF Final, Base
      <4>2. \A m \in Members : m \notin disturbed' => (Left(m) => Left(m)')
        BY <1>1, <2>4 DEF Left
      <4> QED BY <1>1, <1>7, <2>4, <3>2, <4>1, <4>2 DEF Settled
    <3> QED BY <2>1, <3>1, <3>2 DEF Sound
  <2>8. Forward => ForwardBody'
    <3> SUFFICES ASSUME Forward
                 PROVE  ForwardBody'
      OBVIOUS
    <3>1. ForwardBody
      BY <2>1 DEF Sound
    <3>2. PhaseSound'
      BY <1>1, <1>3, <3>1 DEF ForwardBody, PhaseSound
    <3>3. ASSUME NEW m \in Members
          PROVE  ForwardMember(m)'
      <4>1. ForwardMember(m)
        BY <3>1 DEF ForwardBody
      <4>2. <<"takeAway", m>> \in rest /\ Step("precondition") \notin rest =>
              Is(disk'["live"][m], journal.prior[m])
        <5> SUFFICES ASSUME <<"takeAway", m>> \in rest, Step("precondition") \notin rest
                     PROVE  Is(disk'["live"][m], journal.prior[m])
          OBVIOUS
        <5>1. Is(disk["live"][m], journal.prior[m])
          BY <4>1 DEF ForwardMember
        <5>2. Follows(todo, ForwardSteps(journal))
          BY DEF Forward
        <5>3. m \in Had(journal)
          BY <5>2, ForwardStepsAre DEF Follows, rest
        <5>4. Step("commit") \in rest
          <6>1. Rank(<<"takeAway", m>>) < Rank(Step("commit"))
            BY Ranks, MemberRanks
          <6>2. Step("commit") \in ForwardSteps(journal)
            BY ForwardStepsAre
          <6> QED BY <5>2, <6>1, <6>2 DEF Follows, rest
        <5>5. journal.phase = "committing"
          BY <3>1, <5>4 DEF ForwardBody, PhaseSound
        <5>6. Held(m)
          BY <5>1, <5>3, <5>5, AheadIs DEF Held
        <5> QED BY <5>1, <5>6
      <4>3. LiveNow(m)' = LiveNow(m)
        BY <1>1, <1>3 DEF LiveNow, Base, Final
      <4>4. m \notin disturbed' =>
              \/ disk'["live"][m] = LiveNow(m)'
              \/ Left(m)' /\ Step("cleanup") \in rest
        <5> SUFFICES ASSUME m \notin disturbed'
                     PROVE  \/ disk'["live"][m] = LiveNow(m)'
                            \/ Left(m)' /\ Step("cleanup") \in rest
          OBVIOUS
        <5>1. Left(m) => Left(m)'
          BY <1>1, <2>4 DEF Left
        <5> QED BY <2>4, <4>1, <4>3, <5>1 DEF ForwardMember
      <4> QED BY <1>1, <1>3, <1>7, <4>1, <4>2, <4>4 DEF ForwardMember
    <3> QED BY <1>1, <1>3, <1>7, <3>1, <3>2, <3>3 DEF ForwardBody
  <2>9. Discarding => DiscardBody'
    BY <1>1, <1>3, <1>7, <2>1 DEF Sound, DiscardBody
  <2>10. Starting => StartBody'
    <3>1. \A p \in CopyStages(journal) : p \in Places /\ p # "live"
      BY DEF CopyStages, Places
    <3> QED BY <1>1, <1>3, <2>1, <3>1 DEF Sound, StartBody
  <2>11. Returning => ReturnBody'
    <3> SUFFICES ASSUME Returning
                 PROVE  ReturnBody'
      OBVIOUS
    <3>1. ReturnBody
      BY <2>1 DEF Sound
    <3>2. ASSUME NEW m \in Members
          PROVE  ReturnMember(m)'
      <4>1. ReturnMember(m)
        BY <3>1 DEF ReturnBody
      <4>2. m \notin disturbed' => m \notin disturbed /\ disk'["live"][m] = disk["live"][m]
        BY <2>4
      <4> QED BY <1>1, <1>3, <1>7, <4>1, <4>2 DEF ReturnMember
    <3> QED BY <1>1, <1>3, <1>7, <3>1, <3>2 DEF ReturnBody
  <2> QED BY <1>4, <2>2, <2>3, <2>5, <2>6, <2>7, <2>8, <2>9, <2>10, <2>11 DEF Sound
<1> QED BY <1>2, <1>5, <1>6, <1>8, <1>9 DEF IInv

\* Another program changes a live file.
LEMMA DisturbHolds ==
  ASSUME IInv, NEW m \in Members, Disturb(m)
  PROVE  IInv'
<1>1. /\ disturbances < MaxDisturbances /\ disturbances' = disturbances + 1 /\ ~Held(m)
      /\ UNCHANGED <<installed, journal, todo, plan, gaveUp, faults, before>>
      /\ disturbed' = disturbed \cup {m} /\ Typed /\ DiskTyped(disk)
  BY DiskIsTyped DEF Disturb, IInv
<1>2. /\ disturbances \in 0 .. MaxDisturbances /\ disturbances' \in 0 .. MaxDisturbances
      /\ disturbed' \subseteq Members
  BY <1>1, BoundAssumption DEF Typed
<1>3. PICK f \in RealFile : disk' = Put("live", m, f)
  <2>1. MaxTransactions + disturbances + 1 \in Marks
    BY <1>1, <1>2, BoundAssumption DEF Marks
  <2>2. \A b \in Releases \cup {"user"} :
          File(b, MaxTransactions + disturbances + 1) \in RealFile
    BY <2>1 DEF RealFile, Files, File
  <2>3. NoFile \in RealFile
    BY DEF RealFile
  <2> QED BY <2>2, <2>3 DEF Disturb
<1>4. /\ DiskTyped(disk')
      /\ \A p \in Places, n \in Members :
           disk'[p][n] = IF p = "live" /\ n = m THEN f ELSE disk[p][n]
  <2>1. "live" \in Places /\ f \in AnyFile
    BY DEF Places, AnyFile, RealFile
  <2> QED BY <1>1, <1>3, <2>1, PutIs
<1>5. /\ \A p \in Places, n \in Members : p # "live" => disk'[p][n] = disk[p][n]
      /\ \A n \in Members : n # m => disk'["live"][n] = disk["live"][n]
  BY <1>4 DEF Places
<1> QED BY <1>1, <1>2, <1>4, <1>5, OthersHold

\* Nothing happens.
LEMMA StutterHolds ==
  ASSUME IInv, UNCHANGED vars
  PROVE  IInv'
<1>1. /\ Typed /\ DiskTyped(disk) /\ disk' = disk
      /\ UNCHANGED <<installed, journal, todo, plan, gaveUp, faults, before>>
      /\ disturbances' = disturbances /\ disturbed' = disturbed
  BY DiskIsTyped DEF IInv, vars, history
<1>2. disturbances' \in 0 .. MaxDisturbances /\ disturbed' \subseteq Members
  BY <1>1 DEF Typed
<1> QED BY <1>1, <1>2, OthersHold

-----------------------------------------------------------------------------
(* The theorems                                                            *)

\* The initial states satisfy the invariant.
LEMMA InitHolds ==
  ASSUME Init
  PROVE  IInv
<1>1. /\ todo = <<>> /\ plan = NoPlan /\ gaveUp = FALSE /\ faults = 0 /\ disturbances = 0
      /\ before = disk["live"] /\ disturbed = {} /\ installed \in ReceiptsAtRest
      /\ journal = [op |-> "deploy", phase |-> "committed",
                    release |-> installed.release, number |-> 0,
                    prior |-> [m \in Members |-> NoFile], previous |-> installed]
  BY DEF Init
<1>2. 0 \in Marks /\ 0 \in 0 .. MaxTransactions /\ 0 \in 0 .. MaxFaults
      /\ 0 \in 0 .. MaxDisturbances
  BY BoundAssumption DEF Marks
<1>3. UserFiles \subseteq RealFile
  BY <1>2 DEF UserFiles, RealFile, Files, File
<1>4. \A r \in Releases : File(r, 0) \in RealFile
  BY <1>2 DEF RealFile, Files, File
<1>5. installed \in Receipts
  <2>1. NotInstalled \in Receipts
    BY DEF NotInstalled, Receipts, RealFile
  <2>2. [Members -> UserFiles] \subseteq [Members -> RealFile]
    BY <1>3
  <2> QED BY <1>1, <2>1, <2>2 DEF ReceiptsAtRest, Receipts
<1>6. PICK live \in LiveAtRest(installed) :
        disk = [place \in Places |->
                  CASE place = "live" -> live
                    [] place = "retained" -> installed.adopted
                    [] OTHER -> [m \in Members |-> NoFile]]
  BY DEF Init
<1>7. live \in [Members -> RealFile]
  <2>1. CASE ~Managed(installed)
    BY <1>3, <1>6, <2>1 DEF LiveAtRest
  <2>2. CASE Managed(installed)
    <3>1. installed.release \in Releases
      BY <1>5, <2>2 DEF Receipts, Managed
    <3>2. UserFiles \cup {File(installed.release, 0)} \subseteq RealFile
      BY <1>3, <1>4, <3>1
    <3>3. live \in [Members -> UserFiles \cup {File(installed.release, 0)}]
      BY <1>6, <2>2 DEF LiveAtRest
    <3> QED BY <3>2, <3>3
  <2> QED BY <2>1, <2>2
<1>8. /\ disk \in [Places -> [Members -> AnyFile]]
      /\ \A m \in Members : disk["live"][m] \in RealFile /\ disk["retained"][m] \in RealFile
      /\ disk["live"] = live
  <2> DEFINE none == [m \in Members |-> NoFile]
  <2>1. installed.adopted \in [Members -> RealFile]
    BY <1>5 DEF Receipts
  <2>2. RealFile \subseteq AnyFile /\ none \in [Members -> AnyFile]
    BY DEF RealFile, AnyFile
  <2>3. live \in [Members -> AnyFile] /\ installed.adopted \in [Members -> AnyFile]
    BY <1>7, <2>1, <2>2
  <2> HIDE DEF none
  <2>4. disk = [place \in Places |->
                  CASE place = "live" -> live
                    [] place = "retained" -> installed.adopted
                    [] OTHER -> none]
    BY <1>6 DEF none
  <2>5. disk["live"] = live /\ disk["retained"] = installed.adopted
    BY <2>4 DEF Places
  <2>6. disk \in [Places -> [Members -> AnyFile]]
    BY <2>2, <2>3, <2>4
  <2> QED BY <1>7, <2>1, <2>5, <2>6
<1>9. journal \in Journals
  <2>1. [m \in Members |-> NoFile] \in [Members -> Identities \cup {NoFile}]
    OBVIOUS
  <2>2. installed.release \in Releases \cup {"none"}
    BY <1>5 DEF Receipts
  <2> QED BY <1>1, <1>2, <1>5, <2>1, <2>2 DEF Journals, Phases
<1>10. Typed
  <2>1. todo \in Seq(AnyStep)
    BY <1>1
  <2>2. plan \in [Members -> PlanWords]
    BY <1>1 DEF NoPlan, PlanWords
  <2>3. before \in [Members -> RealFile]
    BY <1>1, <1>7, <1>8
  <2> QED BY <1>1, <1>2, <1>5, <1>8, <1>9, <2>1, <2>2, <2>3 DEF Typed
<1>11. IsTerminal(journal)
  BY <1>1 DEF IsTerminal
<1>12. Script /\ Reason
  BY <1>1 DEF Script, Reason, Idle
<1> QED BY <1>10, <1>11, <1>12 DEF IInv

\* Every step keeps the invariant.
LEMMA NextHolds ==
  ASSUME IInv, [Next]_vars
  PROVE  IInv'
<1>1. CASE Begin
  <2>1. ASSUME NEW release \in Releases, Deploy(release)
        PROVE  IInv'
    BY <2>1, DeployHolds
  <2>2. CASE Uninstall
    BY <2>2, UninstallHolds
  <2>3. CASE StopManaging
    BY <2>3, StopManagingHolds
  <2>4. CASE Recover
    BY <2>4, RecoverHolds
  <2> QED BY <1>1, <2>1, <2>2, <2>3, <2>4 DEF Begin
<1>2. CASE DeployStep
  <2>1. CASE Download
    BY <2>1, DownloadHolds
  <2>2. CASE Staged
    BY <2>2, StagedHolds
  <2>3. CASE Record
    BY <2>3, RecordHolds
  <2>4. CASE Commit
    BY <2>4, CommitHolds
  <2>5. CASE Outcome
    BY <2>5, OutcomeStepHolds
  <2>6. CASE Precondition
    BY <2>6, PreconditionHolds
  <2>7. CASE PreconditionThrows
    BY <2>7, PreconditionThrowsHolds
  <2>8. CASE PreconditionFails
    BY <2>8, PreconditionFailsHolds
  <2>9. CASE Fail
    BY <2>9, FailHolds
  <2>10. ASSUME NEW m \in Members, WriteStage(m)
         PROVE  IInv'
    BY <2>10, WriteStageHolds
  <2>11. ASSUME NEW m \in Members, Discard(m)
         PROVE  IInv'
    BY <2>11, DiscardHolds
  <2>12. ASSUME NEW m \in Members, TakeAway(m)
         PROVE  IInv'
    BY <2>12, TakeAwayHolds
  <2>13. ASSUME NEW m \in Members, Install(m)
         PROVE  IInv'
    BY <2>13, InstallHolds
  <2>14. ASSUME NEW m \in Members, PromoteMove(m)
         PROVE  IInv'
    BY <2>14, PromoteMoveHolds
  <2>15. ASSUME NEW m \in Members, RemoveSource(m)
         PROVE  IInv'
    BY <2>15, RemoveSourceHolds
  <2>16. ASSUME NEW m \in Members, GiveBack(m)
         PROVE  IInv'
    BY <2>16, GiveBackHolds
  <2>17. ASSUME NEW m \in Members, LeaveLive(m)
         PROVE  IInv'
    BY <2>17, LeaveLiveHolds
  <2>18. ASSUME NEW m \in Members, NEW name \in Copies, CopyStep(name, m)
         PROVE  IInv'
    <3>1. CopyStep("promote", m) => IInv'
      BY PromoteCopyHolds
    <3>2. CopyStep("materialize", m) => IInv'
      BY MaterializeCopyHolds
    <3>3. CopyStep("giveBack", m) => IInv'
      BY GiveBackCopyHolds
    <3> QED BY <2>18, <3>1, <3>2, <3>3 DEF Copies
  <2> QED BY <1>2, <2>1, <2>2, <2>3, <2>4, <2>5, <2>6, <2>7, <2>8, <2>9, <2>10, <2>11,
             <2>12, <2>13, <2>14, <2>15, <2>16, <2>17, <2>18 DEF DeployStep
<1>3. CASE CleanupStep
  <2>1. CASE Cleanup
    BY <2>1, CleanupHolds
  <2>2. CASE Finish
    BY <2>2, FinishHolds
  <2>3. ASSUME NEW place \in {"backup", "retained"}, Clean(place)
        PROVE  IInv'
    BY <2>3, CleanHolds
  <2> QED BY <1>3, <2>1, <2>2, <2>3 DEF CleanupStep
<1>4. CASE RollBackStep
  <2>1. CASE Normalize
    BY <2>1, NormalizeHolds
  <2>2. CASE NormalizeFails
    BY <2>2, NormalizeFailsHolds
  <2>3. CASE PlanRollBack
    BY <2>3, PlanRollBackHolds
  <2>4. CASE PlanFails
    BY <2>4, PlanFailsHolds
  <2>5. CASE Verify
    BY <2>5, VerifyHolds
  <2>6. CASE VerifyFails
    BY <2>6, VerifyFailsHolds
  <2>7. CASE RestoreState
    BY <2>7, RestoreStateHolds
  <2>8. CASE RolledBack
    BY <2>8, RolledBackHolds
  <2>9. ASSUME NEW m \in Members, Materialized(m)
        PROVE  IInv'
    BY <2>9, MaterializedHolds
  <2>10. ASSUME NEW m \in Members, Remove(m)
         PROVE  IInv'
    BY <2>10, RemoveHolds
  <2>11. ASSUME NEW m \in Members, RemoveFails(m)
         PROVE  IInv'
    BY <2>11, RemoveFailsHolds
  <2>12. ASSUME NEW m \in Members, PutBack(m)
         PROVE  IInv'
    BY <2>12, PutBackHolds
  <2>13. ASSUME NEW m \in Members, PutBackFails(m)
         PROVE  IInv'
    BY <2>13, PutBackFailsHolds
  <2>14. ASSUME NEW place \in {"stage", "promotion", "restore", "durable"}, Sweep(place)
         PROVE  IInv'
    BY <2>14, SweepHolds
  <2> QED BY <1>4, <2>1, <2>2, <2>3, <2>4, <2>5, <2>6, <2>7, <2>8, <2>9, <2>10, <2>11,
             <2>12, <2>13, <2>14 DEF RollBackStep
<1>5. CASE Crash
  BY <1>5, CrashHolds
<1>6. CASE Throw
  BY <1>6, ThrowHolds
<1>7. ASSUME NEW m \in Members, Disturb(m)
      PROVE  IInv'
  BY <1>7, DisturbHolds
<1>8. CASE UNCHANGED vars
  BY <1>8, StutterHolds
<1> QED BY <1>1, <1>2, <1>3, <1>4, <1>5, <1>6, <1>7, <1>8 DEF Next

\* The invariant holds in every state the launcher can reach, whatever the
\* releases, crashes, failures and other programs' changes: a transaction that
\* is not ended has in its places what its journal, its receipt and the steps
\* it has still to do say.
THEOREM DeploymentInvariant == Spec => []IInv
<1>1. Init => IInv
  BY InitHolds
<1>2. IInv /\ [Next]_vars => IInv'
  BY NextHolds
<1> QED BY <1>1, <1>2, PTL DEF Spec

\* A plan is only kept while it is carried out, and every file at every place
\* is one that somebody wrote (the fields ModDeploymentService reads back).
THEOREM DeploymentTyped == Spec => []TypeOK
<1>1. IInv => TypeOK
  <2> SUFFICES ASSUME IInv
               PROVE  TypeOK
    OBVIOUS
  <2>1. Typed /\ Script /\ Reason
    BY DEF IInv
  <2>2. plan # NoPlan => journal.phase = "rollingBack" /\ ~Idle
    <3> SUFFICES ASSUME plan # NoPlan
                 PROVE  journal.phase = "rollingBack" /\ ~Idle
      OBVIOUS
    <3>1. Returning
      BY <2>1 DEF Script
    <3>2. ~Idle
      BY <3>1 DEF Returning, Idle, rest, Elements
    <3>3. ~IsTerminal(journal)
      BY <2>1, <3>2 DEF Script
    <3> QED BY <3>1, <3>2, <3>3 DEF IInv, Sound, ReturnBody
  <2>3. gaveUp => Idle
    BY <2>1 DEF Reason
  <2>4. /\ \A place \in Places, m \in Members :
             disk[place][m] \in Files \cup {NoFile, Partial, Unowned}
        /\ \A m \in Members :
             disk["live"][m] \in Files \cup {NoFile} /\ disk["retained"][m] \in Files \cup {NoFile}
    BY <2>1 DEF Typed, AnyFile, RealFile
  <2>5. \A m \in Members :
          /\ installed.adopted[m] \in Files \cup {NoFile}
          /\ journal.prior[m] \in Identities \cup {NoFile}
          /\ plan[m] \in {"skip", "keep", "remove", "backup", "durable"}
          /\ before[m] \in Files \cup {NoFile}
    BY <2>1 DEF Typed, Receipts, Journals, RealFile, PlanWords
  <2>6. /\ installed.release \in Releases \cup {"none"} /\ journal.phase \in Phases
        /\ journal.op \in {"deploy", "uninstall"} /\ journal.number \in 0 .. MaxTransactions
    BY <2>1 DEF Typed, Receipts, Journals
  <2>7. faults \in 0 .. MaxFaults /\ disturbances \in 0 .. MaxDisturbances
        /\ disturbed \subseteq Members
    BY <2>1 DEF Typed
  <2> QED BY <2>2, <2>3, <2>4, <2>5, <2>6, <2>7 DEF TypeOK
<1> QED BY <1>1, DeploymentInvariant, PTL

\* The file that was there before is somewhere, whole, until the transaction is
\* committed, whichever of the moves and copies of ModDeploymentService was the
\* last one before a crash.
THEOREM PriorIsAlwaysKept == Spec => []PriorIsKept
<1>1. IInv => PriorIsKept
  <2> SUFFICES ASSUME IInv, ~IsTerminal(journal), journal.phase # "cleanup",
                      NEW m \in Members \ disturbed, before[m] # NoFile
               PROVE  \E place \in Places : disk[place][m] = before[m]
    BY DEF PriorIsKept, Undisturbed
  <2>1. before[m] \in {disk["live"][m], disk["backup"][m], disk["durable"][m]}
    BY DEF IInv, Sound, Kept
  <2> QED BY <2>1 DEF Places
<1> QED BY <1>1, DeploymentInvariant, PTL

\* RecoverAsync and the cleanup of a commit do not always restore what they
\* promise to (RecoveryRestores), but there are no more than these ways for
\* them to give up: another program's change, a file whose writing was cut off
\* before anything proves whose it is, and a manifest of the player's in the
\* way of an adopted one.
THEOREM GivesUpOnlyOverThese == Spec => []GivesUpOverThese
<1>1. IInv => GivesUpOverThese
  BY DEF IInv, Reason, GivesUpOverThese
<1> QED BY <1>1, DeploymentInvariant, PTL

-----------------------------------------------------------------------------
(* How a transaction ends                                                  *)

\* The step that ends a transaction changes nothing but its phase.
LEMMA EndingFrame ==
  ASSUME SameButPhase(journal, journal'), disk' = disk, installed' = installed,
         before' = before, disturbed' = disturbed
  PROVE  /\ AllOld => AllOld'
         /\ AllNew => AllNew'
         /\ RetainedKept => RetainedKept'
         /\ NothingLeft => NothingLeft'
<1>1. /\ Installs(journal') = Installs(journal) /\ ShouldMutate(journal') = ShouldMutate(journal)
      /\ Had(journal') = Had(journal) /\ Displaces(journal') = Displaces(journal)
      /\ journal'.op = journal.op /\ journal'.release = journal.release
      /\ journal'.number = journal.number /\ journal'.previous = journal.previous
      /\ Undisturbed' = Undisturbed
  BY PhaseOnly DEF SameButPhase, Undisturbed
<1>2. AllOld => AllOld'
  <2>1. \A m : GivenBackEarly(m) => GivenBackEarly(m)'
    BY <1>1 DEF GivenBackEarly
  <2> QED BY <1>1, <2>1 DEF AllOld
<1>3. AllNew => AllNew'
  BY <1>1 DEF AllNew
<1>4. RetainedKept => RetainedKept'
  <2>1. \A m : BackupPlace(journal', m) = BackupPlace(journal, m)
    BY <1>1 DEF BackupPlace
  <2> QED BY <2>1 DEF RetainedKept
<1>5. NothingLeft => NothingLeft'
  BY DEF NothingLeft
<1> QED BY <1>2, <1>3, <1>4, <1>5

\* What the old receipt retains is there as long as the receipt can return.
LEMMA OldIsRetained ==
  ASSUME PlacesSound, journal.phase # "cleanup", installed = journal.previous
  PROVE  RetainedKept
<1> SUFFICES ASSUME NEW m \in Members, installed.adopted[m] # NoFile
             PROVE  disk[BackupPlace(journal, m)][m] = installed.adopted[m]
  BY DEF RetainedKept
<1>1. BackupPlace(journal, m) = "retained"
  BY DEF BackupPlace
<1>2. disk["retained"][m] = journal.previous.adopted[m]
  BY DEF PlacesSound, MemberSound, RetainedSound
<1> QED BY <1>1, <1>2

\* A transaction that fails before it touches a live file leaves all as it was.
LEMMA FailedIsOld ==
  ASSUME PlacesSound, Untouched, journal.phase \in {"planned", "verified", "staged"},
         \A m \in Members : disk["stage"][m] = NoFile
  PROVE  AllOld /\ RetainedKept /\ NothingLeft
<1>1. /\ installed = journal.previous
      /\ \A m \in Members :
           /\ m \notin disturbed => disk["live"][m] = before[m]
           /\ disk["backup"][m] = NoFile /\ disk["promotion"][m] = NoFile
           /\ disk["restore"][m] = NoFile
  BY DEF Untouched
<1>2. AllOld
  BY <1>1 DEF AllOld, Undisturbed
<1>3. RetainedKept
  BY <1>1, OldIsRetained
<1>4. NothingLeft
  BY <1>1 DEF NothingLeft, NoFile, File
<1> QED BY <1>2, <1>3, <1>4

\* A transaction that is rolled back leaves all as it was.
LEMMA RolledBackIsOld ==
  ASSUME IInv, At(Step("rolledBack"))
  PROVE  AllOld /\ RetainedKept /\ NothingLeft
<1> DEFINE s == Step("rolledBack")
<1>1. At(s) /\ s[1] \in ReturnNames
  BY DEF ReturnNames
<1>2. /\ ReturnBody /\ LiveSound /\ JournalSound /\ PlacesSound /\ Typed
      /\ journal.phase = "rollingBack"
      /\ \A x \in rest : x = s \/ Rank(s) < Rank(x)
  BY <1>1, AtReturning
<1>3. /\ Step("restoreState") \notin rest /\ Step("verify") \notin rest
      /\ <<"sweep", "stage">> \notin rest /\ <<"sweep", "promotion">> \notin rest
      /\ <<"sweep", "restore">> \notin rest
  BY <1>2, LastRanks
<1>4. installed = journal.previous
  BY <1>2, <1>3 DEF ReturnBody
<1>5. journal.op \in {"deploy", "uninstall"}
  BY <1>2 DEF Typed, Journals
<1>6. ASSUME NEW m \in Undisturbed
      PROVE  /\ disk["live"][m].bytes = before[m].bytes \/ GivenBackEarly(m)
             /\ m \in Had(journal) => disk["live"][m].bytes = before[m].bytes
  <2>1. m \in Members /\ m \notin disturbed
    BY DEF Undisturbed
  <2>2. /\ plan[m] = "skip" \/ Is(disk["live"][m], journal.prior[m])
        /\ plan[m] = "skip" <=> m \notin ShouldMutate(journal) \cup Had(journal)
    BY <1>2, <1>3, <2>1 DEF ReturnBody, ReturnMember
  <2>3. CASE m \notin ShouldMutate(journal) \cup Had(journal)
    <3>1. \/ disk["live"][m] = before[m]
          \/ m \in Displaces(journal) /\ disk["live"][m] = journal.previous.adopted[m]
      BY <1>2, <2>1, <2>3, SetsAre DEF LiveSound
    <3>2. m = "manifest"
      BY <2>1, <2>3, SetsAre DEF Members
    <3> QED BY <2>3, <3>1, <3>2 DEF GivenBackEarly
  <2>4. CASE m \in Had(journal)
    <3>1. Is(disk["live"][m], journal.prior[m]) /\ disk["live"][m] \in AnyFile
      BY <1>2, <2>1, <2>2, <2>4 DEF Typed, AnyFile, RealFile
    <3> QED BY <1>2, <2>4, <3>1, PriorIs
  <2>5. CASE m \in ShouldMutate(journal) /\ m \notin Had(journal)
    <3>1. journal.op = "deploy"
      BY <1>2, <1>5, <2>1, <2>5, PriorIs
    <3>2. before[m] = NoFile /\ journal.prior[m] = NoFile
      BY <1>2, <2>1, <2>5, <3>1, PriorIs, SetsAre
    <3>3. Is(disk["live"][m], NoFile)
      BY <2>2, <2>5, <3>2
    <3> QED BY <2>5, <3>2, <3>3 DEF Is
  <2> QED BY <2>3, <2>4, <2>5
<1>7. AllOld
  BY <1>4, <1>6 DEF AllOld
<1>8. RetainedKept
  BY <1>2, <1>4, OldIsRetained
<1>9. NothingLeft
  <2>1. ASSUME NEW m \in Members
        PROVE  /\ \A place \in {"stage", "promotion", "restore"} : disk[place][m] = NoFile
               /\ m \in disturbed \/ disk["backup"][m].bytes \in {"none", disk["live"][m].bytes}
    <3>1. \A place \in {"stage", "promotion", "restore"} : disk[place][m] = NoFile
      BY <1>2, <1>3 DEF ReturnBody
    <3>2. BackupSound(m)
      BY <1>2 DEF PlacesSound, MemberSound
    <3>3. CASE disk["backup"][m] = NoFile
      BY <3>1, <3>3 DEF NoFile, File
    <3>4. CASE disk["backup"][m] # NoFile /\ m \notin disturbed
      <4>1. m \in Had(journal) /\ disk["backup"][m] = before[m]
        BY <3>2, <3>4 DEF BackupSound
      <4>2. disk["live"][m].bytes = before[m].bytes
        BY <1>6, <3>4, <4>1 DEF Undisturbed
      <4> QED BY <3>1, <4>1, <4>2
    <3> QED BY <3>1, <3>3, <3>4
  <2> QED BY <2>1 DEF NothingLeft
<1> QED BY <1>7, <1>8, <1>9

\* A transaction that is committed and cleaned up leaves all that it installed.
LEMMA FinishedIsNew ==
  ASSUME IInv, At(Step("finish"))
  PROVE  AllNew /\ RetainedKept /\ NothingLeft
<1> DEFINE s == Step("finish")
<1>1. At(s) /\ s[1] \in ForwardNames
  BY DEF ForwardNames
<1>2. /\ ForwardBody /\ JournalSound /\ PlacesSound
      /\ \A x \in rest : x = s \/ Rank(s) < Rank(x)
      /\ rest \subseteq ForwardSteps(journal)
  BY <1>1, AtForward
<1>3. Typed /\ journal.op \in {"deploy", "uninstall"}
  BY DEF IInv, Typed, Journals
<1>4. rest \subseteq {s}
  <2> SUFFICES ASSUME NEW x \in rest, x # s
               PROVE  FALSE
    OBVIOUS
  <2>1. Rank(x) < 22 /\ Rank(s) < Rank(x)
    BY <1>2, FinishIsLast
  <2>2. Rank(s) = 22 /\ Rank(x) \in Int
    BY Ranks, RankIsNumber
  <2> QED BY <2>1, <2>2
<1>5. /\ Step("record") \notin rest /\ Step("cleanup") \notin rest
      /\ <<"clean", "backup">> \notin rest
      /\ \A m \in Members : /\ <<"takeAway", m>> \notin rest /\ <<"install", m>> \notin rest
                            /\ <<"giveBack", m>> \notin rest /\ <<"promote", m>> \notin rest
  BY <1>4
<1>6. installed = Recorded(journal)
  BY <1>2, <1>5 DEF ForwardBody
<1>7. \A m \in Members :
        /\ disk["stage"][m] = NoFile /\ disk["promotion"][m] = NoFile
        /\ disk["restore"][m] = NoFile /\ disk["backup"][m] = NoFile
        /\ journal.op = "deploy" /\ m \in Retains(journal) => disk["durable"][m] # NoFile
        /\ m \notin disturbed => disk["live"][m] = Final(m)
  BY <1>2, <1>5 DEF ForwardBody, ForwardMember, LiveNow
<1>8. AllNew
  <2>1. installed.release = IF journal.op = "deploy" THEN journal.release ELSE "none"
    BY <1>3, <1>6 DEF Recorded, NotInstalled
  <2>2. ASSUME NEW m \in Undisturbed
        PROVE  disk["live"][m] =
                 CASE m \in Installs(journal) -> File(journal.release, journal.number)
                   [] m \in Displaces(journal) -> journal.previous.adopted[m]
                   [] OTHER -> IF m \in ShouldMutate(journal) THEN NoFile ELSE before[m]
    <3>1. m \in Members /\ disk["live"][m] = Final(m)
      BY <1>7 DEF Undisturbed
    <3>2. ~(m \in Installs(journal) /\ m \in Displaces(journal))
      BY <3>1, SetsAre
    <3>3. CASE m \in Installs(journal)
      BY <3>1, <3>2, <3>3 DEF Final, New
    <3>4. CASE m \in Displaces(journal)
      BY <3>1, <3>2, <3>4 DEF Final
    <3>5. CASE m \notin Installs(journal) /\ m \notin Displaces(journal)
      <4>1. disk["live"][m] = Base(m)
        BY <3>1, <3>5 DEF Final
      <4>2. m \in ShouldMutate(journal) /\ m \notin Had(journal) => before[m] = NoFile
        BY <1>2, <1>3, <3>1, PriorIs
      <4>3. disk["live"][m] = IF m \in ShouldMutate(journal) THEN NoFile ELSE before[m]
        BY <4>1, <4>2 DEF Base
      <4> QED BY <3>5, <4>3
    <3> QED BY <3>3, <3>4, <3>5
  <2> QED BY <2>1, <2>2 DEF AllNew
<1>9. RetainedKept
  <2> SUFFICES ASSUME NEW m \in Members, installed.adopted[m] # NoFile
               PROVE  disk[BackupPlace(journal, m)][m] = installed.adopted[m]
    BY DEF RetainedKept
  <2>1. journal.op = "deploy"
    BY <1>3, <1>6 DEF Recorded, NotInstalled
  <2>2. installed.adopted[m] =
          IF m \in Retains(journal) /\ journal.previous.adopted[m] = NoFile
          THEN journal.prior[m] ELSE journal.previous.adopted[m]
    BY <1>6, <2>1 DEF Recorded
  <2>3. DurableSound(m) /\ RetainedSound(m)
    BY <1>2 DEF PlacesSound, MemberSound
  <2>4. CASE journal.previous.adopted[m] # NoFile
    BY <2>1, <2>2, <2>3, <2>4 DEF BackupPlace, RetainedSound
  <2>5. CASE journal.previous.adopted[m] = NoFile
    <3>1. m \in Retains(journal) /\ installed.adopted[m] = journal.prior[m]
      BY <2>2, <2>5
    <3>2. disk["durable"][m] = before[m] /\ journal.prior = before
      BY <1>2, <1>7, <2>1, <2>3, <3>1 DEF DurableSound, JournalSound
    <3> QED BY <2>5, <3>1, <3>2 DEF BackupPlace
  <2> QED BY <2>4, <2>5
<1>10. NothingLeft
  BY <1>7 DEF NothingLeft, NoFile, File
<1> QED BY <1>8, <1>9, <1>10

\* The steps that can end a transaction.
LEMMA OnlyTheseEnd ==
  ASSUME IInv, [Next]_vars, ~IsTerminal(journal), IsTerminal(journal')
  PROVE  Download \/ PreconditionFails \/ Fail \/ Finish \/ RolledBack
<1>1. journal' # journal
  OBVIOUS
<1>2. \A p \in {"staged", "committing", "cleanup", "rollingBack"} : ~Persist(p)
  <2> SUFFICES ASSUME NEW p \in {"staged", "committing", "cleanup", "rollingBack"}, Persist(p)
               PROVE  FALSE
    OBVIOUS
  <2>1. journal'.phase = p
    BY PersistIs DEF IInv, Phases
  <2> QED BY <2>1 DEF IsTerminal
<1>3. ~Begin
  BY <1>1 DEF Begin, Deploy, Uninstall, StopManaging, Recover, BeginAs, Admissible
<1>4. DeployStep => Download \/ PreconditionFails \/ Fail
  <2>1. ~Staged /\ ~Precondition /\ ~Commit
    BY <1>2 DEF Staged, Precondition, Commit
  <2>2. ~Record /\ ~Outcome /\ ~PreconditionThrows
    BY <1>1 DEF Record, Outcome, PreconditionThrows
  <2>3. \A m \in Members : ~WriteStage(m) /\ ~Discard(m) /\ ~TakeAway(m) /\ ~Install(m)
    BY <1>1 DEF WriteStage, Discard, TakeAway, Install, MoveToLive
  <2>4. \A m \in Members : ~PromoteMove(m) /\ ~RemoveSource(m) /\ ~GiveBack(m) /\ ~LeaveLive(m)
    BY <1>1 DEF PromoteMove, RemoveSource, GiveBack, LeaveLive, MoveToLive
  <2>5. \A m \in Members, name \in Copies : ~CopyStep(name, m)
    BY <1>1 DEF CopyStep
  <2> QED BY <2>1, <2>2, <2>3, <2>4, <2>5 DEF DeployStep
<1>5. CleanupStep => Finish
  BY <1>1 DEF CleanupStep, Cleanup, Clean
<1>6. RollBackStep => RolledBack
  <2>1. ~NormalizeFails /\ ~PlanRollBack /\ ~PlanFails /\ ~VerifyFails
    BY <1>2 DEF NormalizeFails, PlanRollBack, PlanFails, VerifyFails, GiveUp
  <2>2. ~Normalize /\ ~Verify /\ ~RestoreState
    BY <1>1 DEF Normalize, Verify, RestoreState
  <2>3. \A m \in Members : ~RemoveFails(m) /\ ~PutBackFails(m)
    BY <1>2 DEF RemoveFails, PutBackFails, GiveUp
  <2>4. \A m \in Members : ~Materialized(m) /\ ~Remove(m) /\ ~PutBack(m)
    BY <1>1 DEF Materialized, Remove, PutBack
  <2>5. \A place : ~Sweep(place)
    BY <1>1 DEF Sweep
  <2> QED BY <2>1, <2>2, <2>3, <2>4, <2>5 DEF RollBackStep
<1>7. ~Crash
  BY <1>1 DEF Crash
<1>8. ~Throw
  BY <1>1, <1>2 DEF Throw, Raise
<1>9. \A m \in Members : ~Disturb(m)
  BY <1>1 DEF Disturb
<1>10. ~UNCHANGED vars
  BY <1>1 DEF vars
<1> QED BY <1>3, <1>4, <1>5, <1>6, <1>7, <1>8, <1>9, <1>10 DEF Next

\* A deployment whose download fails has staged nothing yet.
LEMMA DownloadIsOld ==
  ASSUME IInv, Download, IsTerminal(journal')
  PROVE  /\ journal'.phase = "failed" /\ SameButPhase(journal, journal')
         /\ AllOld /\ RetainedKept /\ NothingLeft
<1> DEFINE s == Step("download")
<1>1. At(s) /\ s[1] \in ForwardNames
  BY DEF Download, ForwardNames
<1>2. ForwardBody /\ PlacesSound /\ Untouched /\ s \in rest /\ Typed
  BY <1>1, AtForward DEF IInv
<1>3. Persist("failed")
  <2>1. ~Persist("verified")
    <3> SUFFICES ASSUME Persist("verified")
                 PROVE  FALSE
      OBVIOUS
    <3>1. journal'.phase = "verified"
      BY <1>2, PersistIs DEF Phases
    <3> QED BY <3>1 DEF IsTerminal
  <2> QED BY <2>1 DEF Download
<1>4. journal'.phase = "failed" /\ SameButPhase(journal, journal')
  BY <1>2, <1>3, PersistIs DEF Phases
<1>5. journal.phase = "planned" /\ \A m \in Members : disk["stage"][m] = NoFile
  BY <1>2 DEF ForwardBody, PhaseSound, ForwardMember
<1> QED BY <1>2, <1>4, <1>5, FailedIsOld

\* An uninstall whose precondition fails has staged nothing.
LEMMA RefusedIsOld ==
  ASSUME IInv, PreconditionFails, IsTerminal(journal')
  PROVE  /\ journal'.phase = "failed" /\ SameButPhase(journal, journal')
         /\ AllOld /\ RetainedKept /\ NothingLeft
<1> DEFINE s == Step("precondition")
<1>1. At(s) /\ s[1] \in ForwardNames
  BY DEF PreconditionFails, ForwardNames
<1>2. /\ ForwardBody /\ PlacesSound /\ Untouched /\ s \in rest /\ Typed
      /\ ~IsTerminal(journal)
  BY <1>1, AtForward DEF IInv
<1>3. journal.op # "deploy" /\ Persist("failed")
  BY <1>2 DEF PreconditionFails
<1>4. journal'.phase = "failed" /\ SameButPhase(journal, journal')
  BY <1>2, <1>3, PersistIs DEF Phases
<1>5. journal.op = "uninstall"
  BY <1>2, <1>3 DEF Typed, Journals
<1>6. journal.phase \in {"planned", "verified", "staged"}
  BY <1>2 DEF ForwardBody, PhaseSound
<1>7. \A m \in Members : disk["stage"][m] = NoFile
  BY <1>2, <1>5, <1>6 DEF Untouched
<1> QED BY <1>2, <1>4, <1>6, <1>7, FailedIsOld

\* A deployment whose precondition fails has discarded what it staged.
LEMMA DiscardedIsOld ==
  ASSUME IInv, Fail
  PROVE  /\ journal'.phase = "failed" /\ SameButPhase(journal, journal')
         /\ AllOld /\ RetainedKept /\ NothingLeft
<1> DEFINE s == Step("fail")
<1>1. At(s) /\ s[1] \in DiscardNames
  BY DEF Fail, DiscardNames
<1>2. /\ DiscardBody /\ PlacesSound /\ Untouched /\ Typed
      /\ \A x \in rest : x = s \/ Rank(s) < Rank(x)
  <2>1. Discarding /\ Sound
    BY <1>1, AtDiscarding, AtTells
  <2> QED BY <1>1, <2>1, AtDiscarding DEF Sound
<1>3. journal'.phase = "failed" /\ SameButPhase(journal, journal')
  BY <1>2, PersistIs DEF Fail, Phases
<1>4. \A m \in Members : disk["stage"][m] = NoFile
  <2> SUFFICES ASSUME NEW m \in Members
               PROVE  <<"discard", m>> \notin rest
    BY <1>2 DEF DiscardBody
  <2>1. Rank(s) = 25 /\ ~(25 < Rank(<<"discard", m>>))
    BY Ranks, MemberRanks
  <2> QED BY <1>2, <2>1
<1> QED BY <1>2, <1>3, <1>4, FailedIsOld DEF DiscardBody

\* A transaction that ends leaves both files and the receipt new or all of them
\* as they were, keeps what the receipt says it retains, and leaves nothing of
\* its own behind, after any number of crashes, failures and recoveries.  It is
\* what DeployAsync, UninstallAsync and RecoverAsync promise, but for the mixture
\* that the property excepts: a manifest that an uninstall had already given
\* back stays live when that uninstall is rolled back (GivenBackEarly).
THEOREM EndsOldOrNew == Spec => AllOldOrAllNew
<1>1. ASSUME IInv, [Next]_vars, IsTerminal(journal'), ~IsTerminal(journal)
      PROVE  /\ IF journal'.phase = "committed" THEN AllNew' ELSE AllOld'
             /\ RetainedKept'
             /\ NothingLeft'
  <2>1. Typed
    BY <1>1 DEF IInv
  <2>2. CASE Download
    <3>1. /\ journal'.phase = "failed" /\ SameButPhase(journal, journal')
          /\ AllOld /\ RetainedKept /\ NothingLeft
      BY <1>1, <2>2, DownloadIsOld
    <3>2. disk' = disk /\ installed' = installed /\ before' = before /\ disturbed' = disturbed
      BY <2>2 DEF Download, Unchanged, history
    <3> QED BY <3>1, <3>2, EndingFrame
  <2>3. CASE PreconditionFails
    <3>1. /\ journal'.phase = "failed" /\ SameButPhase(journal, journal')
          /\ AllOld /\ RetainedKept /\ NothingLeft
      BY <1>1, <2>3, RefusedIsOld
    <3>2. disk' = disk /\ installed' = installed /\ before' = before /\ disturbed' = disturbed
      BY <2>3 DEF PreconditionFails, Unchanged, history
    <3> QED BY <3>1, <3>2, EndingFrame
  <2>4. CASE Fail
    <3>1. /\ journal'.phase = "failed" /\ SameButPhase(journal, journal')
          /\ AllOld /\ RetainedKept /\ NothingLeft
      BY <1>1, <2>4, DiscardedIsOld
    <3>2. disk' = disk /\ installed' = installed /\ before' = before /\ disturbed' = disturbed
      BY <2>4 DEF Fail, Unchanged, history
    <3> QED BY <3>1, <3>2, EndingFrame
  <2>5. CASE Finish
    <3>1. At(Step("finish")) /\ Persist("committed")
      BY <2>5 DEF Finish
    <3>2. AllNew /\ RetainedKept /\ NothingLeft
      BY <1>1, <3>1, FinishedIsNew
    <3>3. journal'.phase = "committed" /\ SameButPhase(journal, journal')
      BY <2>1, <3>1, PersistIs DEF Phases
    <3>4. disk' = disk /\ installed' = installed /\ before' = before /\ disturbed' = disturbed
      BY <2>5 DEF Finish, Unchanged, history
    <3> QED BY <3>2, <3>3, <3>4, EndingFrame
  <2>6. CASE RolledBack
    <3>1. At(Step("rolledBack")) /\ Persist("rolledBack")
      BY <2>6 DEF RolledBack
    <3>2. AllOld /\ RetainedKept /\ NothingLeft
      BY <1>1, <3>1, RolledBackIsOld
    <3>3. journal'.phase = "rolledBack" /\ SameButPhase(journal, journal')
      BY <2>1, <3>1, PersistIs DEF Phases
    <3>4. disk' = disk /\ installed' = installed /\ before' = before /\ disturbed' = disturbed
      BY <2>6 DEF RolledBack, history
    <3> QED BY <3>2, <3>3, <3>4, EndingFrame
  <2> QED BY <1>1, <2>2, <2>3, <2>4, <2>5, <2>6, OnlyTheseEnd
<1>2. IInv /\ [Next]_vars =>
        [IsTerminal(journal') /\ ~IsTerminal(journal) =>
           /\ IF journal'.phase = "committed" THEN AllNew' ELSE AllOld'
           /\ RetainedKept'
           /\ NothingLeft']_vars
  BY <1>1
<1> QED BY <1>2, DeploymentInvariant, PTL DEF Spec, AllOldOrAllNew

-----------------------------------------------------------------------------
(* Live files                                                              *)

\* Which live files the operations on the disk change.
LEMMA LiveIs ==
  ASSUME Typed, NEW m \in Members, NEW n \in Members,
         NEW p \in Places \ {"live"}, NEW q \in Places \ {"live"}
  PROVE  /\ \A f : Put(p, n, f)["live"] = disk["live"]
         /\ \A f : n # m => Put("live", n, f)["live"][m] = disk["live"][m]
         /\ Move(n, p, q)["live"] = disk["live"]
         /\ n # m => Move(n, p, "live")["live"][m] = disk["live"][m]
         /\ n # m => Move(n, "live", q)["live"][m] = disk["live"][m]
         /\ Clear(p)["live"] = disk["live"]
<1>1. disk \in [Places -> [Members -> AnyFile]] /\ "live" \in Places
  BY DEF Typed, Places
<1>2. \A f : Put(p, n, f)["live"] = disk["live"]
  BY <1>1 DEF Put
<1>3. \A f : n # m => Put("live", n, f)["live"][m] = disk["live"][m]
  BY <1>1 DEF Put
<1>4. Move(n, p, q)["live"] = disk["live"]
  BY <1>1 DEF Move
<1>5. n # m => Move(n, p, "live")["live"][m] = disk["live"][m]
  BY <1>1 DEF Move
<1>6. n # m => Move(n, "live", q)["live"][m] = disk["live"][m]
  BY <1>1 DEF Move
<1>7. Clear(p)["live"] = disk["live"]
  BY <1>1 DEF Clear
<1> QED BY <1>2, <1>3, <1>4, <1>5, <1>6, <1>7

\* The launcher only takes a live file away before it installs another, or
\* removes it in a rollback.
LEMMA LiveStays ==
  ASSUME IInv, [Next]_vars, disturbances' = disturbances, NEW m \in Members
  PROVE  \/ disk'["live"][m] = disk["live"][m]
         \/ disk["live"][m] = NoFile
         \/ TakeAway(m) \/ Remove(m)
<1>1. Typed /\ disturbances \in Int
  BY DEF IInv, Typed
<1>2. {"stage", "backup", "durable", "promotion", "restore", "retained"}
        \subseteq Places \ {"live"}
  BY DEF Places
<1>3. SUFFICES ASSUME disk'["live"][m] # disk["live"][m], disk["live"][m] # NoFile
               PROVE  TakeAway(m) \/ Remove(m)
  OBVIOUS
<1>4. disk' # disk
  BY <1>3
<1>5. ~Begin
  <2>1. disk' # OwnPlaces
    <3>1. OwnPlaces["live"][m] = disk["live"][m]
      BY DEF OwnPlaces, Places
    <3> QED BY <1>3, <3>1
  <2> QED BY <1>4, <2>1 DEF Begin, Deploy, Uninstall, StopManaging, Recover, BeginAs
<1>6. DeployStep => TakeAway(m)
  <2>1. ~Staged /\ ~Precondition /\ ~Commit /\ ~Record /\ ~Outcome /\ ~PreconditionThrows
        /\ ~Download /\ ~PreconditionFails /\ ~Fail
    BY <1>4 DEF Staged, Precondition, Commit, Record, Outcome, PreconditionThrows, Download,
                PreconditionFails, Fail
  <2>2. \A n \in Members : ~WriteStage(n) /\ ~Discard(n) /\ ~RemoveSource(n)
    BY <1>1, <1>2, <1>3, LiveIs DEF WriteStage, Discard, RemoveSource
  <2>3. \A n \in Members : ~PromoteMove(n) /\ ~LeaveLive(n)
    BY <1>1, <1>2, <1>3, <1>4, LiveIs DEF PromoteMove, LeaveLive
  <2>4. \A n \in Members : ~Install(n) /\ ~GiveBack(n)
    <3>1. \A n \in Members : ~MoveToLive(n, "stage")
      BY <1>1, <1>2, <1>3, <1>4, LiveIs DEF MoveToLive
    <3> QED BY <3>1 DEF Install, GiveBack
  <2>5. \A n \in Members, name \in Copies : ~CopyStep(name, n)
    <3> SUFFICES ASSUME NEW n \in Members, NEW name \in Copies, CopyStep(name, n)
                 PROVE  FALSE
      OBVIOUS
    <3>1. CopyPlace(name) \in {"promotion", "restore", "stage"}
      BY DEF Copies, CopyPlace
    <3>2. PICK f : disk' = Put(CopyPlace(name), n, f)
      BY DEF CopyStep
    <3> QED BY <1>1, <1>2, <1>3, <3>1, <3>2, LiveIs
  <2>6. \A n \in Members : n # m => ~TakeAway(n)
    BY <1>1, <1>2, <1>3, LiveIs DEF TakeAway
  <2> QED BY <2>1, <2>2, <2>3, <2>4, <2>5, <2>6 DEF DeployStep
<1>7. ~CleanupStep
  BY <1>1, <1>2, <1>3, <1>4, LiveIs DEF CleanupStep, Cleanup, Finish, Clean
<1>8. RollBackStep => Remove(m)
  <2>1. ~NormalizeFails /\ ~PlanRollBack /\ ~PlanFails /\ ~Verify /\ ~VerifyFails
        /\ ~RestoreState /\ ~RolledBack
    BY <1>4 DEF NormalizeFails, PlanRollBack, PlanFails, Verify, VerifyFails, RestoreState,
                RolledBack, GiveUp
  <2>2. ~Normalize
    <3> SUFFICES ASSUME Normalize
                 PROVE  FALSE
      OBVIOUS
    <3>1. "live" \notin CopyStages(journal) /\ "live" \in Places
      BY DEF CopyStages, Places
    <3>2. disk' = [place \in Places |-> [n \in Members |->
                     IF place \in CopyStages(journal) /\ disk[place][n] = Partial
                     THEN NoFile ELSE disk[place][n]]]
      BY DEF Normalize
    <3> QED BY <1>3, <3>1, <3>2
  <2>3. \A n \in Members : ~Materialized(n) /\ ~RemoveFails(n) /\ ~PutBackFails(n)
    BY <1>4 DEF Materialized, RemoveFails, PutBackFails, GiveUp
  <2>4. \A n \in Members : ~PutBack(n)
    <3>1. \A n : RestoreSource(n) \in {"restore", "backup"}
      BY DEF RestoreSource
    <3> QED BY <1>1, <1>2, <1>3, <3>1, LiveIs DEF PutBack
  <2>5. \A place \in {"stage", "promotion", "restore", "durable"} : ~Sweep(place)
    BY <1>1, <1>2, <1>3, LiveIs DEF Sweep
  <2>6. \A n \in Members : n # m => ~Remove(n)
    BY <1>1, <1>2, <1>3, LiveIs DEF Remove
  <2> QED BY <2>1, <2>2, <2>3, <2>4, <2>5, <2>6 DEF RollBackStep
<1>9. ~Crash
  BY <1>4 DEF Crash
<1>10. ~Throw
  <2> SUFFICES ASSUME Throw
               PROVE  FALSE
    OBVIOUS
  <2> DEFINE name == Head(todo)[1]
             n == Head(todo)[2]
             to == CopyPlace(name)
  <2>1. disk' = IF name \in Copies
                THEN [disk EXCEPT ![to][n] = IF @ = Unowned THEN NoFile ELSE @]
                ELSE disk
    BY DEF Throw
  <2>2. name \in Copies => to # "live"
    BY DEF Copies, CopyPlace
  <2> HIDE DEF name, n, to
  <2>3. disk \in [Places -> [Members -> AnyFile]] /\ "live" \in Places
    BY <1>1 DEF Typed, Places
  <2> QED BY <1>3, <2>1, <2>2, <2>3
<1>11. \A n \in Members : ~Disturb(n)
  BY <1>1 DEF Disturb
<1>12. ~UNCHANGED vars
  BY <1>4 DEF vars
<1> QED BY <1>5, <1>6, <1>7, <1>8, <1>9, <1>10, <1>11, <1>12 DEF Next

\* A file that a rollback removes is kept elsewhere, or the transaction wrote it.
LEMMA RemovedIsKept ==
  ASSUME IInv, NEW m \in Members, Remove(m)
  PROVE  \/ disk["live"][m] = NoFile
         \/ IsInstalled(journal, m, disk["live"][m])
         \/ \E place \in Places : disk'[place][m].bytes = disk["live"][m].bytes
<1> DEFINE s == <<"remove", m>>
           live == disk["live"][m]
<1>1. At(s) /\ Removable(m) /\ disk' = Put("live", m, NoFile)
  BY DEF Remove
<1>2. /\ JournalSound /\ DiskTyped(disk) /\ Typed /\ MemberSound(m) /\ ReturnMember(m)
      /\ journal.phase = "rollingBack"
      /\ plan[m] \in {"remove", "backup", "durable"}
      /\ plan[m] \in {"backup", "durable"} <=> <<"putBack", m>> \in rest
  BY <1>1, ReturnFacts
<1>3. /\ disk'["backup"][m] = disk["backup"][m] /\ disk'["durable"][m] = disk["durable"][m]
      /\ disk'["retained"][m] = disk["retained"][m]
  <2>1. "live" \in Places /\ NoFile \in AnyFile /\ NoFile \in RealFile
    BY DEF Places, AnyFile, RealFile
  <2>2. \A q \in Places, n \in Members :
          disk'[q][n] = IF q = "live" /\ n = m THEN NoFile ELSE disk[q][n]
    BY <1>1, <1>2, <2>1, PutIs
  <2> QED BY <2>2 DEF Places
<1>4. CASE m \in Displaces(journal) /\ Is(live, journal.previous.adopted[m])
  <2>1. disk'["retained"][m].bytes = live.bytes
    BY <1>2, <1>3, <1>4 DEF MemberSound, RetainedSound, Is
  <2> QED BY <2>1 DEF Places
<1>5. CASE Is(live, journal.prior[m])
  <2>1. CASE plan[m] = "remove"
    <3>1. journal.prior[m] = NoFile
      BY <1>2, <2>1, SetsAre DEF ReturnMember
    <3>2. live.bytes = "none" /\ live \in AnyFile
      BY <1>2, <1>5, <3>1, FilesDiffer DEF Is, Typed, AnyFile, RealFile
    <3> QED BY <3>2, FilesDiffer
  <2>2. CASE plan[m] = "backup"
    <3>1. disk["backup"][m] # NoFile
      BY <1>2, <2>2 DEF ReturnMember
    <3>2. Is(disk["backup"][m], journal.prior[m])
      BY <1>2, <3>1 DEF MemberSound, BackupSound
    <3>3. disk'["backup"][m].bytes = live.bytes
      BY <1>3, <1>5, <3>2 DEF Is
    <3> QED BY <3>3 DEF Places
  <2>3. CASE plan[m] = "durable"
    <3>1. disk["durable"][m] # NoFile
      BY <1>2, <2>3 DEF ReturnMember
    <3>2. disk["durable"][m] = before[m] /\ m \in Had(journal)
      BY <1>2, <3>1, SetsAre DEF MemberSound, DurableSound
    <3>3. before[m].bytes = journal.prior[m].bytes
      BY <1>2, <3>2, PriorIs
    <3>4. disk'["durable"][m].bytes = live.bytes
      BY <1>3, <1>5, <3>2, <3>3 DEF Is
    <3> QED BY <3>4 DEF Places
  <2> QED BY <1>2, <2>1, <2>2, <2>3
<1> QED BY <1>1, <1>4, <1>5 DEF Removable

\* No step of the launcher loses the bytes of a live file that the transaction
\* has not installed itself: what a repair or a rollback finds in the place of
\* its own file, DeleteRollbackLiveMember does not delete.
THEOREM OthersFilesAlwaysSurvive == Spec => OthersFilesSurvive
<1>1. ASSUME IInv, [Next]_vars, disturbances' = disturbances, NEW m \in Members
      PROVE  \/ disk["live"][m] = NoFile
             \/ IsInstalled(journal, m, disk["live"][m])
             \/ \E place \in Places : disk'[place][m].bytes = disk["live"][m].bytes
  <2>1. CASE disk'["live"][m] = disk["live"][m]
    BY <2>1 DEF Places
  <2>2. CASE TakeAway(m)
    <3>1. DiskTyped(disk)
      BY <1>1, DiskIsTyped DEF IInv
    <3>2. disk' = Move(m, "live", "backup")
      BY <2>2 DEF TakeAway
    <3>3. "live" \in Places \ {"retained"} /\ "backup" \in Places \ {"retained"}
      BY DEF Places
    <3>4. disk'["backup"][m] = disk["live"][m]
      BY <3>1, <3>2, <3>3, MoveIs
    <3> QED BY <3>3, <3>4
  <2>3. CASE Remove(m)
    BY <1>1, <2>3, RemovedIsKept
  <2> QED BY <1>1, <2>1, <2>2, <2>3, LiveStays
<1>2. IInv /\ [Next]_vars =>
        [disturbances' = disturbances =>
           \A m \in Members :
             \/ disk["live"][m] = NoFile
             \/ IsInstalled(journal, m, disk["live"][m])
             \/ \E place \in Places : disk'[place][m].bytes = disk["live"][m].bytes]_vars
  BY <1>1
<1> QED BY <1>2, DeploymentInvariant, PTL DEF Spec, OthersFilesSurvive

-----------------------------------------------------------------------------
(* What was adopted                                                        *)

\* The receipt is the one of before or the one the transaction writes.
ReceiptKnown ==
  ~IsTerminal(journal) => installed \in {journal.previous, Recorded(journal)}

\* A step that leaves alone what holds adopted files, and what others did not
\* change of the live ones.
Quiet ==
  /\ \A p \in {"backup", "durable", "retained"}, n \in Members :
       disk'[p][n] = disk[p][n]
  /\ \A n \in Members : n \in disturbed' \/ disk'["live"][n] = disk["live"][n]
  /\ disturbed \subseteq disturbed' /\ installed' = installed

\* The steps that move files or write the receipt, but do not save the journal.
LoudForward(m) ==
  TakeAway(m) \/ (Install(m) /\ Proceed) \/ PromoteMove(m) \/ RemoveSource(m)
    \/ (GiveBack(m) /\ Proceed)
LoudReturn(m) == Remove(m) \/ PutBack(m)
Loud ==
  \/ Record \/ RestoreState
  \/ \E m \in Members : LoudForward(m) \/ LoudReturn(m)
  \/ \E place \in Places : Clean(place) \/ Sweep(place)

\* The steps that save the journal without rolling back.
Saving ==
  Download \/ Staged \/ Precondition \/ PreconditionFails \/ Fail \/ Commit
    \/ Finish \/ RolledBack

\* A file put at one place is no file of another place.
LEMMA PutElsewhere ==
  ASSUME Typed, NEW place, NEW m, NEW f
  PROVE  \A p \in Places, n \in Members : p # place => Put(place, m, f)[p][n] = disk[p][n]
BY DEF Typed, Put

\* A saved journal differs in its phase.
LEMMA SavedIs ==
  ASSUME Typed
  PROVE  /\ \A p : Persist(p) => SameButPhase(journal, journal')
         /\ \A p \in Phases : Persist(p) => journal'.phase = p
         /\ journal' = journal => SameButPhase(journal, journal')
BY DEF Typed, Journals, Persist, SameButPhase

\* A step that leaves the disk and the history alone is quiet.
LEMMA QuietIs ==
  ASSUME UNCHANGED <<disk, installed>>, disturbed' = disturbed
  PROVE  Quiet
BY DEF Quiet

\* What a step of a deployment or of an uninstall does.
LEMMA DeployStepIs ==
  ASSUME IInv, DeployStep
  PROVE  \/ Loud /\ journal' = journal
         \/ /\ Quiet /\ SameButPhase(journal, journal')
            /\ journal' = journal \/ Saving
<1>1. Typed
  BY DEF IInv
<1>2. CASE Download \/ Staged \/ Precondition \/ PreconditionFails \/ Fail \/ Commit
  <2>1. UNCHANGED <<disk, installed>> /\ disturbed' = disturbed
    BY <1>2 DEF Download, Staged, Precondition, PreconditionFails, Fail, Commit,
                Unchanged, history
  <2>2. SameButPhase(journal, journal')
    BY <1>1, <1>2, SavedIs
       DEF Download, Staged, Precondition, PreconditionFails, Fail, Commit
  <2> QED BY <1>2, <2>1, <2>2, QuietIs DEF Saving
<1>3. CASE Outcome \/ PreconditionThrows
  <2>1. UNCHANGED <<disk, installed, journal>> /\ disturbed' = disturbed
    BY <1>3 DEF Outcome, PreconditionThrows, Unchanged, history
  <2> QED BY <1>1, <2>1, QuietIs, SavedIs
<1>4. CASE Record
  BY <1>4 DEF Record, Loud
<1>5. ASSUME NEW m \in Members, WriteStage(m) \/ Discard(m)
      PROVE  Quiet /\ journal' = journal
  <2>1. /\ \A p \in Places, n \in Members : p # "stage" => disk'[p][n] = disk[p][n]
        /\ installed' = installed /\ journal' = journal /\ disturbed' = disturbed
    BY <1>1, <1>5, PutElsewhere DEF WriteStage, Discard, Unchanged, history
  <2> QED BY <2>1 DEF Quiet, Places
<1>6. ASSUME NEW m \in Members, NEW name \in Copies, CopyStep(name, m)
      PROVE  Quiet /\ journal' = journal
  <2>1. CopyPlace(name) \in {"promotion", "restore", "stage"}
    BY DEF Copies, CopyPlace
  <2>2. /\ \A p \in Places, n \in Members : p # CopyPlace(name) => disk'[p][n] = disk[p][n]
        /\ installed' = installed /\ journal' = journal /\ disturbed' = disturbed
    BY <1>1, <1>6, PutElsewhere DEF CopyStep, Unchanged, history
  <2> QED BY <2>1, <2>2 DEF Quiet, Places
<1>7. ASSUME NEW m \in Members, TakeAway(m) \/ PromoteMove(m) \/ RemoveSource(m)
      PROVE  Loud /\ journal' = journal
  BY <1>7 DEF Loud, LoudForward, TakeAway, PromoteMove, RemoveSource
<1>8. ASSUME NEW m \in Members, NEW from, MoveToLive(m, from)
      PROVE  /\ journal' = journal
             /\ Proceed \/ Quiet
  <2>1. installed' = installed /\ journal' = journal /\ disturbed' = disturbed
    BY <1>8 DEF MoveToLive, Unchanged, history
  <2>2. Proceed \/ disk' = disk
    BY <1>8 DEF MoveToLive
  <2> QED BY <2>1, <2>2, QuietIs
<1>9. ASSUME NEW m \in Members, Install(m) \/ GiveBack(m)
      PROVE  (Loud \/ Quiet) /\ journal' = journal
  <2>1. MoveToLive(m, "stage")
    BY <1>9 DEF Install, GiveBack
  <2>2. journal' = journal /\ (Proceed \/ Quiet)
    BY <1>8, <2>1
  <2>3. Proceed => Loud
    BY <1>9 DEF Loud, LoudForward
  <2> QED BY <2>2, <2>3
<1>10. ASSUME NEW m \in Members, LeaveLive(m)
       PROVE  Quiet /\ journal' = journal
  BY <1>10, QuietIs DEF LeaveLive, Unchanged, history
<1> QED BY <1>1, <1>2, <1>3, <1>4, <1>5, <1>6, <1>7, <1>9, <1>10, SavedIs DEF DeployStep

\* What a step of a rollback does.
LEMMA RollBackStepIs ==
  ASSUME IInv, RollBackStep
  PROVE  \/ Loud /\ journal' = journal
         \/ /\ Quiet /\ SameButPhase(journal, journal')
            /\ \/ journal' = journal \/ Saving
               \/ ~IsTerminal(journal) /\ journal'.phase = "rollingBack"
<1>1. Typed /\ "rollingBack" \in Phases
  BY DEF IInv, Phases
<1>2. /\ SameButPhase(journal, journal) /\ \A s : At(s) => ~IsTerminal(journal)
      /\ Persist("rollingBack") =>
           SameButPhase(journal, journal') /\ journal'.phase = "rollingBack"
  BY <1>1, AtTells, SavedIs DEF SameButPhase
<1>3. ASSUME GiveUp, ~IsTerminal(journal)
      PROVE  Quiet /\ SameButPhase(journal, journal') /\ journal'.phase = "rollingBack"
  BY <1>2, <1>3, QuietIs DEF GiveUp, history
<1>4. CASE NormalizeFails \/ PlanFails \/ VerifyFails
  BY <1>2, <1>3, <1>4 DEF NormalizeFails, PlanFails, VerifyFails
<1>5. ASSUME NEW m \in Members, RemoveFails(m) \/ PutBackFails(m)
      PROVE  /\ Quiet /\ SameButPhase(journal, journal')
             /\ ~IsTerminal(journal) /\ journal'.phase = "rollingBack"
  BY <1>2, <1>3, <1>5 DEF RemoveFails, PutBackFails
<1>6. CASE PlanRollBack
  BY <1>2, <1>6, QuietIs DEF PlanRollBack, history
<1>7. CASE Normalize
  <2>1. CopyStages(journal) \subseteq {"promotion", "restore", "stage"}
    BY DEF CopyStages
  <2>2. /\ \A p \in Places, n \in Members :
             p \notin CopyStages(journal) => disk'[p][n] = disk[p][n]
        /\ installed' = installed /\ journal' = journal /\ disturbed' = disturbed
    BY <1>1, <1>7 DEF Normalize, Unchanged, history, Typed
  <2> QED BY <1>2, <2>1, <2>2 DEF Quiet, Places
<1>8. CASE Verify
  BY <1>2, <1>8, QuietIs DEF Verify, Unchanged, history
<1>9. ASSUME NEW m \in Members, Materialized(m)
      PROVE  Quiet /\ journal' = journal
  BY <1>9, QuietIs DEF Materialized, Unchanged, history
<1>10. CASE RestoreState
  BY <1>10 DEF RestoreState, Loud
<1>11. ASSUME NEW m \in Members, Remove(m) \/ PutBack(m)
       PROVE  Loud /\ journal' = journal
  BY <1>11 DEF Loud, LoudReturn, Remove, PutBack
<1>12. ASSUME NEW place \in {"stage", "promotion", "restore", "durable"}, Sweep(place)
       PROVE  Loud /\ journal' = journal
  BY <1>12 DEF Loud, Sweep, Places
<1>13. CASE RolledBack
  <2>1. Quiet
    BY <1>13, QuietIs DEF RolledBack, history
  <2>2. SameButPhase(journal, journal')
    BY <1>1, <1>13, SavedIs DEF RolledBack
  <2> QED BY <1>13, <2>1, <2>2 DEF Saving
<1> QED BY <1>2, <1>4, <1>5, <1>6, <1>7, <1>8, <1>9, <1>10, <1>11, <1>12, <1>13
        DEF RollBackStep

\* What a crash, a failure or another program does.
LEMMA FaultIs ==
  ASSUME IInv, Crash \/ Throw \/ \E m \in Members : Disturb(m)
  PROVE  /\ Quiet /\ SameButPhase(journal, journal')
         /\ \/ journal' = journal
            \/ ~IsTerminal(journal) /\ journal'.phase = "rollingBack"
<1>1. Typed /\ "rollingBack" \in Phases /\ SameButPhase(journal, journal)
  BY DEF IInv, Phases, SameButPhase
<1>2. CASE Crash
  BY <1>1, <1>2, QuietIs DEF Crash, history
<1>3. CASE Throw
  <2> DEFINE name == Head(todo)[1]
  <2>1. name \in Copies => CopyPlace(name) \in {"promotion", "restore", "stage"}
    BY DEF Copies, CopyPlace
  <2>2. \A p \in Places, n \in Members :
          p \notin {"promotion", "restore", "stage"} => disk'[p][n] = disk[p][n]
    <3>1. CASE name \in Copies
      <4>1. PICK f : disk' = [disk EXCEPT ![CopyPlace(name)][Head(todo)[2]] = f]
        BY <1>3, <3>1 DEF Throw
      <4> QED BY <1>1, <2>1, <3>1, <4>1 DEF Typed
    <3>2. CASE name \notin Copies
      BY <1>3, <3>2 DEF Throw
    <3> QED BY <3>1, <3>2
  <2>3. installed' = installed /\ disturbed' = disturbed
    BY <1>3 DEF Throw, history
  <2>4. Quiet
    BY <2>2, <2>3 DEF Quiet, Places
  <2>5. journal' = journal \/ Persist("rollingBack")
    BY <1>3 DEF Throw, Raise
  <2>6. ~IsTerminal(journal)
    BY <1>3, RunningGives DEF Throw
  <2> QED BY <1>1, <2>4, <2>5, <2>6, SavedIs
<1>4. ASSUME NEW m \in Members, Disturb(m)
      PROVE  Quiet /\ journal' = journal
  <2>1. /\ \A p \in Places, n \in Members : p # "live" => disk'[p][n] = disk[p][n]
        /\ \A n \in Members \ {m} : disk'["live"][n] = disk["live"][n]
    BY <1>1, <1>4, PutElsewhere DEF Disturb, Put, Typed, Places
  <2>2. installed' = installed /\ journal' = journal /\ disturbed' = disturbed \cup {m}
    BY <1>4 DEF Disturb
  <2> QED BY <2>1, <2>2 DEF Quiet, Places
<1> QED BY <1>1, <1>2, <1>3, <1>4

\* What every step does.
LEMMA StepIs ==
  ASSUME IInv, [Next]_vars
  PROVE  \/ \E op, release, prior : BeginAs(op, release, prior)
         \/ StopManaging
         \/ Loud /\ journal' = journal
         \/ /\ Quiet /\ SameButPhase(journal, journal')
            /\ \/ journal' = journal \/ Saving
               \/ ~IsTerminal(journal) /\ journal'.phase = "rollingBack"
<1>1. Typed /\ SameButPhase(journal, journal)
  BY DEF IInv, SameButPhase
<1>2. CASE Begin
  <2>1. Recover => Quiet /\ journal' = journal
    BY QuietIs DEF Recover, history
  <2> QED BY <1>1, <1>2, <2>1 DEF Begin, Deploy, Uninstall
<1>3. CASE CleanupStep
  <2>1. Cleanup => Quiet /\ journal' = journal
    BY QuietIs DEF Cleanup, history
  <2>2. \A place \in {"backup", "retained"} : Clean(place) => Loud /\ journal' = journal
    BY DEF Clean, Loud, Places
  <2>3. Finish => Quiet /\ SameButPhase(journal, journal') /\ Saving
    BY <1>1, QuietIs, SavedIs DEF Finish, Saving, Unchanged, history
  <2> QED BY <1>1, <1>3, <2>1, <2>2, <2>3 DEF CleanupStep
<1>4. CASE UNCHANGED vars
  BY <1>1, <1>4, QuietIs DEF vars, history
<1> QED BY <1>2, <1>3, <1>4, DeployStepIs, RollBackStepIs, FaultIs DEF Next

\* The next step of a call shows what kind of call takes it.
LEMMA LoudIs ==
  ASSUME IInv, Loud
  PROVE  /\ ~IsTerminal(journal)
         /\ \/ \E m \in Members : LoudForward(m)
            \/ Record
            \/ \E place \in {"backup", "retained"} : Clean(place)
            \/ journal.phase = "rollingBack"
<1>1. ASSUME NEW s, At(s), s[1] \in ReturnNames
      PROVE  ~IsTerminal(journal) /\ journal.phase = "rollingBack"
  BY <1>1, AtReturning
<1>2. ASSUME NEW s, At(s)
      PROVE  ~IsTerminal(journal)
  BY <1>2, AtTells
<1>3. RestoreState => ~IsTerminal(journal) /\ journal.phase = "rollingBack"
  BY <1>1 DEF RestoreState, ReturnNames
<1>4. ASSUME NEW m \in Members, LoudReturn(m)
      PROVE  ~IsTerminal(journal) /\ journal.phase = "rollingBack"
  BY <1>1, <1>4 DEF LoudReturn, Remove, PutBack, ReturnNames
<1>5. \A place : Sweep(place) => ~IsTerminal(journal) /\ journal.phase = "rollingBack"
  BY <1>1 DEF Sweep, ReturnNames
<1>6. ASSUME NEW m \in Members, LoudForward(m)
      PROVE  ~IsTerminal(journal)
  BY <1>2, <1>6 DEF LoudForward, TakeAway, Install, PromoteMove, RemoveSource, GiveBack
<1>7. Record => ~IsTerminal(journal)
  BY <1>2 DEF Record
<1>8. ASSUME NEW place, Clean(place)
      PROVE  ~IsTerminal(journal) /\ place \in {"backup", "retained"}
  <2>1. At(<<"clean", place>>) /\ <<"clean", place>>[1] \in ForwardNames
    BY <1>8 DEF Clean, ForwardNames
  <2>2. <<"clean", place>> \in ForwardSteps(journal) /\ ~IsTerminal(journal)
    BY <2>1, AtForward
  <2> QED BY <2>2 DEF ForwardSteps
<1> QED BY <1>3, <1>4, <1>5, <1>6, <1>7, <1>8 DEF Loud

\* No step leaves another receipt than the two.
LEMMA ReceiptStays ==
  ASSUME IInv, ReceiptKnown, [Next]_vars
  PROVE  ReceiptKnown'
<1> SUFFICES ASSUME ~IsTerminal(journal')
             PROVE  installed' \in {journal'.previous, Recorded(journal')}
  BY DEF ReceiptKnown
<1>1. ASSUME NEW op, NEW release, NEW prior, BeginAs(op, release, prior)
      PROVE  installed' = journal'.previous
  BY <1>1 DEF BeginAs
<1>2. ~StopManaging
  BY DEF StopManaging, Admissible
<1>3. CASE Loud /\ journal' = journal
  <2>1. installed \in {journal.previous, Recorded(journal)}
    BY <1>3, LoudIs DEF ReceiptKnown
  <2>2. installed' \in {installed, journal.previous, Recorded(journal)}
    BY <1>3 DEF Loud, LoudForward, LoudReturn, Record, RestoreState, TakeAway, Install,
                GiveBack, MoveToLive, PromoteMove, RemoveSource, Remove, PutBack, Clean,
                Sweep, Recorded
  <2> QED BY <1>3, <2>1, <2>2
<1>4. ASSUME Quiet, SameButPhase(journal, journal'), ~IsTerminal(journal)
      PROVE  installed' \in {journal'.previous, Recorded(journal')}
  BY <1>4, PhaseOnly DEF ReceiptKnown, Quiet, SameButPhase
<1>5. Saving => ~IsTerminal(journal)
  BY AtTells DEF Saving, Download, Staged, Precondition, PreconditionFails, Fail, Commit,
                 Finish, RolledBack
<1> QED BY <1>1, <1>2, <1>3, <1>4, <1>5, StepIs

\* What a deployment adopts is in the backup until it is in the durable copy.
LEMMA AdoptedIsBackedUp ==
  ASSUME IInv, Forward, ~IsTerminal(journal), journal.op = "deploy",
         Step("record") \notin rest, NEW m \in Retains(journal)
  PROVE  before[m] \in {disk["backup"][m], disk["durable"][m]}
<1>1. /\ Typed /\ JournalSound /\ PlacesSound /\ ForwardBody /\ m \in Members
      /\ m \in Had(journal) \cap ShouldMutate(journal)
  BY SetsAre DEF IInv, Sound
<1>2. \A x \in rest, s \in ForwardSteps(journal) : Rank(x) < Rank(s) => s \in rest
  BY DEF Forward, Follows, rest
<1>3. <<"takeAway", m>> \notin rest
  <2>1. Rank(<<"takeAway", m>>) < Rank(Step("record"))
    BY <1>1, MemberRanks, WholeRanks
  <2> QED BY <1>2, <2>1 DEF ForwardSteps
<1>4. /\ ForwardMember(m) /\ BackupSound(m) /\ DurableSound(m) /\ journal.prior = before
      /\ disk["backup"][m] \in AnyFile /\ before[m] \in RealFile
  BY <1>1, DiskIsTyped DEF ForwardBody, PlacesSound, MemberSound, JournalSound, Places
<1>5. CASE <<"removeSource", m>> \in rest
  <2>1. disk["backup"][m] # NoFile
    BY <1>3, <1>4, <1>5 DEF ForwardMember
  <2>2. Is(disk["backup"][m], before[m])
    BY <1>4, <2>1 DEF BackupSound
  <2> QED BY <1>4, <2>2, IsFile
<1>6. CASE <<"removeSource", m>> \notin rest
  <2>1. Rank(<<"promote", m>>) < Rank(<<"removeSource", m>>)
    BY <1>1, MemberRanks
  <2>2. <<"promote", m>> \notin rest
    BY <1>2, <1>6, <2>1 DEF ForwardSteps
  <2>3. disk["durable"][m] # NoFile
    BY <1>4, <2>2 DEF ForwardMember
  <2> QED BY <1>4, <2>3 DEF DurableSound
<1> QED BY <1>5, <1>6

\* The call or the journal says how far what was adopted has come.
Telling ==
  /\ IInv /\ ReceiptKnown /\ ~IsTerminal(journal)
  /\ ~(journal.op = "uninstall" /\ journal.phase = "cleanup")
  /\ journal.phase = "committing" => Forward

\* There what is adopted is kept.
LEMMA AdoptedHere == Telling => AdoptedIsKept
<1> SUFFICES ASSUME IInv, ReceiptKnown, ~IsTerminal(journal),
                    ~(journal.op = "uninstall" /\ journal.phase = "cleanup"),
                    journal.phase = "committing" => Forward,
                    NEW m \in Members
             PROVE  /\ disk["retained"][m] = journal.previous.adopted[m]
                    /\ installed.adopted[m] # NoFile =>
                         \/ \E place \in {"backup", "durable", "retained"} :
                              disk[place][m] = installed.adopted[m]
                         \/ journal.phase = "rollingBack" /\ Returned(m, installed.adopted[m])
  BY DEF AdoptedIsKept, Telling
<1>1. /\ Typed /\ Sound /\ JournalSound /\ PlacesSound
      /\ installed \in {journal.previous, Recorded(journal)}
  BY DEF IInv, Sound, ReceiptKnown
<1>2. Settled
  BY <1>1, ForwardGives DEF Sound
<1>3. disk["retained"][m] = journal.previous.adopted[m]
  BY <1>1 DEF PlacesSound, MemberSound, RetainedSound
<1>4. CASE installed.adopted[m] \in {NoFile, journal.previous.adopted[m]}
  BY <1>3, <1>4
<1>5. CASE installed.adopted[m] \notin {NoFile, journal.previous.adopted[m]}
  <2>1. installed = Recorded(journal) /\ installed # journal.previous
    BY <1>1, <1>5
  <2>2. journal.op = "deploy"
    BY <1>1, <1>5, <2>1 DEF Recorded, NotInstalled, Typed, Journals
  <2>3. m \in Retains(journal) /\ installed.adopted[m] = journal.prior[m]
    BY <1>5, <2>1, <2>2 DEF Recorded
  <2>4. installed.adopted[m] = before[m] /\ before[m] # NoFile
    BY <1>1, <1>5, <2>2, <2>3 DEF JournalSound
  <2>5. DurableSound(m)
    BY <1>1 DEF PlacesSound, MemberSound
  <2>6. journal.phase \in {"committing", "cleanup", "rollingBack"}
    <3>1. journal.phase \notin {"planned", "verified", "staged"}
      BY <1>1, <2>1 DEF Sound, Untouched
    <3>2. journal.phase \in Phases
      BY <1>1 DEF Typed, Journals
    <3> QED BY <3>1, <3>2 DEF Phases, IsTerminal
  <2>7. CASE journal.phase = "committing"
    <3>1. Step("record") \notin rest
      BY <1>1, <2>1, <2>7 DEF Sound, ForwardBody
    <3> QED BY <1>3, <2>2, <2>3, <2>4, <2>7, <3>1, AdoptedIsBackedUp
  <2>8. CASE journal.phase = "cleanup"
    BY <1>2, <1>3, <2>2, <2>3, <2>4, <2>5, <2>8 DEF Settled, DurableSound
  <2>9. CASE journal.phase = "rollingBack"
    <3>1. m \in disturbed \/ before[m] \in {disk["live"][m], disk["backup"][m], disk["durable"][m]}
      BY <1>1, <2>4, <2>9 DEF Sound, Kept
    <3> QED BY <1>3, <2>4, <2>9, <3>1 DEF Returned
  <2> QED BY <2>6, <2>7, <2>8, <2>9
<1> QED BY <1>3, <1>4, <1>5

\* A step that is quiet keeps what is adopted.
LEMMA AdoptedFrame ==
  ASSUME AdoptedIsKept, Quiet, SameButPhase(journal, journal'),
         journal.op = "uninstall" /\ journal.phase \in {"cleanup", "committed"} =>
           journal'.phase \in {"cleanup", "committed"},
         journal.phase = "rollingBack" => journal'.phase = "rollingBack"
  PROVE  AdoptedIsKept'
<1>1. \A m \in Members : \A file : Returned(m, file) => Returned(m, file)'
  BY DEF Returned, Quiet
<1>2. journal'.op = journal.op /\ journal'.previous = journal.previous
  BY DEF SameButPhase
<1> QED BY <1>1, <1>2 DEF AdoptedIsKept, Quiet

\* The same, after a step.
LEMMA AdoptedThere ==
  ASSUME IInv', ReceiptKnown', ~IsTerminal(journal'),
         ~(journal'.op = "uninstall" /\ journal'.phase = "cleanup"),
         journal'.phase = "committing" => Forward'
  PROVE  AdoptedIsKept'
<1>1. Telling' => AdoptedIsKept'
  BY AdoptedHere, PTL
<1> QED BY <1>1 DEF Telling

\* Before its commit a call that goes forward keeps it.
LEMMA AdoptedByForward ==
  ASSUME IInv, IInv', ReceiptKnown', journal' = journal,
         Record \/ \E m \in Members : LoudForward(m)
  PROVE  AdoptedIsKept'
<1>1. PICK s : At(s) /\ s[1] \in ForwardNames /\ 5 < Rank(s) /\ Rank(s) < 17 /\ Proceed
               /\ plan' = plan /\ s # Step("finish")
  <2>1. CASE Record
    BY <2>1, WholeRanks DEF Record, Unchanged, ForwardNames
  <2>2. ASSUME NEW m \in Members, TakeAway(m)
        PROVE  At(<<"takeAway", m>>) /\ Proceed /\ plan' = plan
    BY <2>2 DEF TakeAway, Unchanged
  <2>3. ASSUME NEW m \in Members, Install(m), Proceed
        PROVE  At(<<"install", m>>) /\ Proceed /\ plan' = plan
    BY <2>3 DEF Install, MoveToLive, Unchanged
  <2>4. ASSUME NEW m \in Members, PromoteMove(m) \/ RemoveSource(m)
        PROVE  /\ At(<<"promote", m>>) \/ At(<<"removeSource", m>>)
               /\ Proceed /\ plan' = plan
    BY <2>4 DEF PromoteMove, RemoveSource, Unchanged
  <2>5. ASSUME NEW m \in Members, GiveBack(m), Proceed
        PROVE  At(<<"giveBack", m>>) /\ Proceed /\ plan' = plan
    BY <2>5 DEF GiveBack, MoveToLive, Unchanged
  <2>6. ASSUME NEW m \in Members,
               NEW s \in {<<"takeAway", m>>, <<"install", m>>, <<"promote", m>>,
                          <<"removeSource", m>>, <<"giveBack", m>>}
        PROVE  s[1] \in ForwardNames /\ 5 < Rank(s) /\ Rank(s) < 17 /\ s # Step("finish")
    BY MemberRanks DEF ForwardNames
  <2> QED BY <2>1, <2>2, <2>3, <2>4, <2>5, <2>6 DEF LoudForward
<1>2. journal.phase = "committing" /\ ~IsTerminal(journal)
  BY <1>1, Committing, AtTells
<1>3. SameButPhase(journal, journal')
  BY DEF SameButPhase
<1>4. Forward'
  BY <1>1, <1>2, <1>3, ForwardOn
<1> QED BY <1>2, <1>4, AdoptedThere

\* The retained files are only removed once they are live, or another program
\* has changed the live ones.
LEMMA AdoptedByClean ==
  ASSUME IInv, IInv', ReceiptKnown', AdoptedIsKept, NEW place \in {"backup", "retained"},
         Clean(place)
  PROVE  AdoptedIsKept'
<1> DEFINE s == <<"clean", place>>
<1>1. At(s) /\ s[1] \in ForwardNames
  BY DEF Clean, ForwardNames
<1>2. /\ installed' = installed /\ journal' = journal /\ disk' = Clear(place)
      /\ disturbed' = disturbed
  BY DEF Clean, Unchanged, history
<1>3. /\ ForwardBody /\ Typed /\ DiskTyped(disk) /\ ~IsTerminal(journal)
      /\ \A x \in rest : x = s \/ Rank(s) < Rank(x)
      /\ journal.op \in {"deploy", "uninstall"}
  BY <1>1, AtForward, DiskIsTyped DEF IInv, Typed, Journals
<1>4. 20 <= Rank(s)
  BY EndRanks
<1>5. \A x \in rest : Rank(x) \in Int /\ ~(Rank(x) < 20)
  BY <1>3, <1>4, RankIsNumber, EndRanks
<1>6. /\ Step("commit") \notin rest /\ Step("cleanup") \notin rest
      /\ Step("record") \notin rest
  BY <1>5, WholeRanks, EndRanks
<1>7. journal.phase = "cleanup"
  BY <1>3, <1>6 DEF ForwardBody, PhaseSound
<1>8. CASE journal.op = "deploy"
  BY <1>2, <1>3, <1>7, <1>8, AdoptedThere
<1>9. CASE journal.op = "uninstall"
  <2>1. \A m \in Members : installed.adopted[m] = NoFile
    BY <1>3, <1>6, <1>9 DEF ForwardBody, Recorded, NotInstalled
  <2>2. \A p \in Places, n \in Members : p # place => disk'[p][n] = disk[p][n]
    BY <1>2, <1>3, ClearIs DEF Places
  <2>3. ASSUME NEW m \in Members, journal.previous.adopted[m] # NoFile
        PROVE  Returned(m, journal.previous.adopted[m]) \/ place = "backup"
    <3>1. /\ <<"install", m>> \notin rest /\ <<"giveBack", m>> \notin rest
          /\ <<"takeAway", m>> \notin rest
      BY <1>5, MemberRanks
    <3>2. m \in disturbed \/ disk["live"][m] = Final(m)
      BY <1>3, <1>6, <3>1 DEF ForwardBody, ForwardMember, LiveNow
    <3>3. m \notin Installs(journal) /\ m \in Displaces(journal)
      BY <1>9, <2>3, SetsAre
    <3> QED BY <3>2, <3>3 DEF Final, Returned
  <2>4. ASSUME NEW m \in Members, journal.previous.adopted[m] # NoFile
        PROVE  \/ disk'["retained"][m] = journal.previous.adopted[m]
               \/ Returned(m, journal.previous.adopted[m])
    BY <1>3, <2>2, <2>3, <2>4 DEF AdoptedIsKept, Places
  <2>5. \A m \in Members : \A file : Returned(m, file) => Returned(m, file)'
    BY <1>2, <2>2 DEF Returned, Places
  <2> QED BY <1>2, <1>7, <1>9, <2>1, <2>4, <2>5 DEF AdoptedIsKept
<1> QED BY <1>3, <1>8, <1>9

\* A step that saves the journal keeps it.
LEMMA AdoptedBySaving ==
  ASSUME IInv, IInv', ReceiptKnown', AdoptedIsKept, Quiet, Saving,
         SameButPhase(journal, journal')
  PROVE  AdoptedIsKept'
<1>1. Typed
  BY DEF IInv
<1>2. CASE Download \/ Staged \/ Precondition \/ PreconditionFails
  <2>1. PICK s \in {Step("download"), Step("staged"), Step("precondition")} : At(s)
    BY <1>2 DEF Download, Staged, Precondition, PreconditionFails
  <2>2. s[1] \in ForwardNames /\ (s = Step("precondition") \/ Rank(s) < Rank(Step("precondition")))
    BY WholeRanks DEF ForwardNames
  <2>3. Step("precondition") \in rest /\ ForwardBody
    BY <2>1, <2>2, AtForward, ForwardStepsAre
  <2>4. journal.phase \in {"planned", "verified", "staged"}
    BY <2>3 DEF ForwardBody, PhaseSound
  <2> QED BY <2>4, AdoptedFrame
<1>3. CASE Fail
  <2>1. At(Step("fail")) /\ Step("fail")[1] \in DiscardNames
    BY <1>3 DEF Fail, DiscardNames
  <2>2. journal.phase \in {"planned", "verified", "staged"}
    BY <2>1, AtDiscarding DEF DiscardBody
  <2> QED BY <2>2, AdoptedFrame
<1>4. CASE Commit
  <2>1. At(Step("commit")) /\ Step("commit")[1] \in ForwardNames
    BY <1>4 DEF Commit, ForwardNames
  <2>2. journal.phase # "rollingBack" /\ journal'.phase = "cleanup"
    <3>1. ForwardBody /\ Step("commit") \in rest
      BY <2>1, AtForward
    <3>2. journal.phase # "rollingBack"
      BY <3>1 DEF ForwardBody, PhaseSound
    <3> QED BY <1>1, <1>4, <3>2, SavedIs DEF Commit, Phases
  <2> QED BY <2>2, AdoptedFrame
<1>5. CASE Finish
  <2>1. At(Step("finish")) /\ Step("finish")[1] \in ForwardNames
    BY <1>5 DEF Finish, ForwardNames
  <2>2. ForwardBody /\ \A x \in rest : x = Step("finish") \/ Rank(Step("finish")) < Rank(x)
    BY <2>1, AtForward
  <2>3. Step("commit") \notin rest
    BY <2>2, WholeRanks, EndRanks
  <2>4. journal.phase = "cleanup" /\ journal'.phase = "committed"
    BY <1>1, <1>5, <2>2, <2>3, SavedIs DEF ForwardBody, PhaseSound, Finish, Phases
  <2> QED BY <2>4, AdoptedFrame
<1>6. CASE RolledBack
  <2>1. At(Step("rolledBack")) /\ Step("rolledBack")[1] \in ReturnNames
    BY <1>6 DEF RolledBack, ReturnNames
  <2>2. /\ ReturnBody /\ PlacesSound /\ journal.phase = "rollingBack"
        /\ \A x \in rest : x = Step("rolledBack") \/ Rank(Step("rolledBack")) < Rank(x)
    BY <2>1, AtReturning
  <2>3. Step("restoreState") \notin rest
    BY <2>2, LastRanks
  <2>4. installed = journal.previous
    BY <2>2, <2>3 DEF ReturnBody
  <2>5. \A m \in Members : disk["retained"][m] = journal.previous.adopted[m]
    BY <2>2 DEF PlacesSound, MemberSound, RetainedSound
  <2>6. journal'.previous = journal.previous
    BY DEF SameButPhase
  <2> QED BY <2>4, <2>5, <2>6 DEF AdoptedIsKept, Quiet
<1> QED BY <1>2, <1>3, <1>4, <1>5, <1>6 DEF Saving

\* Every step keeps it.
LEMMA AdoptedHolds ==
  ASSUME IInv, IInv', ReceiptKnown, ReceiptKnown', AdoptedIsKept, [Next]_vars
  PROVE  AdoptedIsKept'
<1>1. ASSUME NEW op, NEW release, NEW prior, BeginAs(op, release, prior)
      PROVE  AdoptedIsKept'
  <2>1. journal'.phase = "planned"
    BY <1>1 DEF BeginAs
  <2> QED BY <2>1, AdoptedThere DEF IsTerminal
<1>2. CASE StopManaging
  BY <1>2 DEF StopManaging, NotInstalled, AdoptedIsKept, Returned, history
<1>3. CASE Loud /\ journal' = journal
  <2>1. CASE journal.phase = "rollingBack"
    BY <1>3, <2>1, AdoptedThere DEF IsTerminal
  <2>2. CASE Record \/ \E m \in Members : LoudForward(m)
    BY <1>3, <2>2, AdoptedByForward
  <2>3. ASSUME NEW place \in {"backup", "retained"}, Clean(place)
        PROVE  AdoptedIsKept'
    BY <2>3, AdoptedByClean
  <2> QED BY <1>3, <2>1, <2>2, <2>3, LoudIs
<1>4. CASE Quiet /\ journal' = journal
  BY <1>4, AdoptedFrame DEF SameButPhase
<1>5. CASE Quiet /\ SameButPhase(journal, journal') /\ Saving
  BY <1>5, AdoptedBySaving
<1>6. CASE journal'.phase = "rollingBack"
  BY <1>6, AdoptedThere DEF IsTerminal
<1> QED BY <1>1, <1>2, <1>3, <1>4, <1>5, <1>6, StepIs

\* Nothing is adopted at first but what the receipts at rest name.
LEMMA AdoptedAtRest ==
  ASSUME Init
  PROVE  ReceiptKnown /\ AdoptedIsKept
<1>1. IsTerminal(journal) /\ journal.previous = installed
  BY DEF Init, IsTerminal
<1>2. \A m \in Members : disk["retained"][m] = installed.adopted[m]
  BY DEF Init, Places
<1> QED BY <1>1, <1>2 DEF ReceiptKnown, AdoptedIsKept

\* A file of the player's that a receipt names is at a place only the launcher
\* writes until CleanupCommittedResidue may remove it: an uninstall has given
\* the file back and has seen that it is live, or another program has changed
\* the live one.
THEOREM AdoptedIsAlwaysKept == Spec => []AdoptedIsKept
<1> DEFINE Adopted == IInv /\ ReceiptKnown /\ AdoptedIsKept
<1>1. Init => Adopted
  BY InitHolds, AdoptedAtRest
<1>2. Adopted /\ [Next]_vars => Adopted'
  BY NextHolds, ReceiptStays, AdoptedHolds
<1> QED BY <1>1, <1>2, PTL DEF Spec

=============================================================================
