---------------------------- MODULE ModDeployment ----------------------------
(***************************************************************************)
(* ModDeploymentService: the launcher puts a release of the mod, a DLL and *)
(* perhaps a runtime manifest, into the game's directory, or takes it out  *)
(* again, as a transaction over files.  The transaction survives the       *)
(* process in a journal, in the places it keeps files at and in the        *)
(* receipt of what is installed.  Other programs write the same live files *)
(* and know nothing of it.                                                 *)
(*                                                                         *)
(* A call is the sequence `todo' of what it has still to do.  A crash      *)
(* loses it; an exception replaces it by what the handler does.            *)
(*                                                                         *)
(* A file is its bytes and a mark.  The mark stands for what tells two     *)
(* files of the same bytes apart: the metadata of a receipt and, for a     *)
(* live file, its file identity.  A copy has the mark of its source, a     *)
(* file that is written anew has one that no other file has.               *)
(***************************************************************************)
EXTENDS Integers, Sequences, FiniteSets

CONSTANTS Releases,         \* the releases that can be deployed
          WithManifest,     \* those that have a runtime manifest
          MaxTransactions,  \* bound: transactions that are begun
          MaxFaults,        \* bound: crashes and failed file operations
          MaxDisturbances   \* bound: changes of live files by others

ASSUME ReleaseAssumption ==
  /\ WithManifest \subseteq Releases
  /\ Releases \cap {"none", "user", "partial", "unowned"} = {}
ASSUME BoundAssumption ==
  /\ MaxTransactions \in Nat
  /\ MaxFaults \in Nat
  /\ MaxDisturbances \in Nat

Members == {"dll", "manifest"}

(* Where a member can be: in use, staged, put aside next to it, put aside  *)
(* in the state directory, being copied there, being copied back, and      *)
(* retained for the player by an earlier transaction.                      *)
Places == {"live", "stage", "backup", "durable", "promotion", "restore",
           "retained"}

AnyMark == -1
File(bytes, mark) == [bytes |-> bytes, mark |-> mark]
NoFile == File("none", 0)
Unowned == File("unowned", 0)   \* a copy stage without its receipt
Partial == File("partial", 0)   \* bytes that are being written

Marks == 0 .. (MaxTransactions + MaxDisturbances)
Files == [bytes : Releases \cup {"user"}, mark : Marks]
Identities == Files \cup [bytes : Releases, mark : {AnyMark}]

(* MatchesIdentity.  What does not exist matches only what was not there.  *)
Is(file, identity) ==
  file.bytes = identity.bytes /\ identity.mark \in {file.mark, AnyMark}

VARIABLES disk,          \* the file of each member at each place
          installed,     \* the receipt of what is installed
          journal,       \* the journal of the last transaction
          todo,          \* what the running call has still to do
          plan,          \* how it rolls back each member
          gaveUp,        \* the last call refused to go on over what it found
          faults, disturbances,
          before,        \* history: the live files when the transaction began
          disturbed      \* history: members changed by others since then

history == <<before, disturbed>>
vars == <<disk, installed, journal, todo, plan, gaveUp, faults, disturbances,
          history>>

(***************************************************************************)
(* What a journal says.                                                    *)
(***************************************************************************)
Phases == {"planned", "verified", "staged", "committing", "cleanup",
           "committed", "rollingBack", "rolledBack", "failed"}
IsTerminal(j) == j.phase \in {"committed", "rolledBack", "failed"}

NotInstalled == [release |-> "none", adopted |-> [m \in Members |-> NoFile]]
Managed(receipt) == receipt.release # "none"
ManagesManifest(receipt) == receipt.release \in WithManifest

Installs(j) ==
  IF j.op = "uninstall" THEN {}
  ELSE {"dll"} \cup (IF j.release \in WithManifest THEN {"manifest"} ELSE {})

ShouldMutate(j) ==
  {"dll"} \cup Installs(j)
          \cup (IF ManagesManifest(j.previous) THEN {"manifest"} ELSE {})

Had(j) == {m \in Members : j.prior[m] # NoFile}

(* The members whose prior file is the player's, and kept for good.        *)
Retains(j) ==
  {m \in Had(j) \cap ShouldMutate(j) :
     \/ ~Managed(j.previous)
     \/ m = "manifest" /\ ~ManagesManifest(j.previous)}

(* The members an uninstall returns to the player.                         *)
Displaces(j) ==
  {m \in Members : j.op = "uninstall" /\ j.previous.adopted[m] # NoFile}

(* The place the receipt of this transaction names for an adopted member.  *)
BackupPlace(j, m) ==
  IF j.previous.adopted[m] = NoFile THEN "durable" ELSE "retained"

LooksInstalled(j, m, file) ==
  file.bytes = j.release /\ (m = "dll" \/ m \in Installs(j))
IsInstalled(j, m, file) ==
  m \in Installs(j) /\ file = File(j.release, j.number)

(***************************************************************************)
(* The steps of the calls.                                                 *)
(***************************************************************************)
Step(name) == <<name, "all">>
Each(name, members) ==
  (IF "dll" \in members THEN <<<<name, "dll">>>> ELSE <<>>)
    \o (IF "manifest" \in members THEN <<<<name, "manifest">>>> ELSE <<>>)

(* Mutant: the retained file is removed before the outcome is validated.  *)
CleanupRetainedFirst(j) ==
  (IF j.op = "uninstall" THEN <<<<"clean", "retained">>>> ELSE <<>>)
    \o <<Step("cleanup"), <<"clean", "backup">>, Step("finish")>>

CleanupSteps(j) ==
  <<Step("cleanup"), <<"clean", "backup">>>>
    \o (IF j.op = "uninstall" THEN <<<<"clean", "retained">>>> ELSE <<>>)
    \o <<Step("finish")>>

DeploySteps(j) ==
  <<Step("download")>> \o Each("stage", Installs(j))
    \o <<Step("staged"), Step("precondition")>>
    \o Each("takeAway", Had(j) \cap ShouldMutate(j))
    \o Each("install", Installs(j))
    \o <<Step("record")>>
    \o (IF "dll" \in Retains(j)
        THEN <<<<"promote", "dll">>, <<"removeSource", "dll">>>> ELSE <<>>)
    \o (IF "manifest" \in Retains(j)
        THEN <<<<"promote", "manifest">>, <<"removeSource", "manifest">>>>
        ELSE <<>>)
    \o <<Step("commit"), Step("outcome")>> \o CleanupSteps(j)

UninstallSteps(j) ==
  <<Step("precondition")>> \o Each("takeAway", Had(j))
    \o Each("giveBack", Displaces(j))
    \o <<Step("record"), Step("commit")>> \o CleanupSteps(j)

RollBackSteps == <<Step("normalize"), Step("plan")>>

(* Mutant: the receipt is left as the transaction has written it.          *)
PlannedWithoutReceipt(p) ==
  LET copied == {m \in Members : p[m] = "durable"}
      returned == {m \in Members : p[m] \in {"backup", "durable"}}
      Apply(m) == Each("remove", {m} \cap (returned \cup {n \in Members : p[n] = "remove"}))
                    \o Each("putBack", {m} \cap returned)
  IN Each("materialize", copied) \o Apply("dll") \o Apply("manifest")
       \o <<Step("verify"), <<"sweep", "stage">>, <<"sweep", "promotion">>,
            <<"sweep", "restore">>, <<"sweep", "durable">>, Step("rolledBack")>>

(* What RollBackAsync does once the plan is built.                         *)
PlannedSteps(p) ==
  LET copied == {m \in Members : p[m] = "durable"}
      returned == {m \in Members : p[m] \in {"backup", "durable"}}
      Apply(m) == Each("remove", {m} \cap (returned \cup {n \in Members : p[n] = "remove"}))
                    \o Each("putBack", {m} \cap returned)
  IN Each("materialize", copied) \o Apply("dll") \o Apply("manifest")
       \o <<Step("verify"), <<"sweep", "stage">>, <<"sweep", "promotion">>,
            <<"sweep", "restore">>, <<"sweep", "durable">>,
            Step("restoreState"), Step("rolledBack")>>

NoPlan == [m \in Members |-> "skip"]

At(step) == todo # <<>> /\ Head(todo) = step
Ahead(step) == \E i \in DOMAIN todo : todo[i] = step
Proceed == todo' = Tail(todo)
Raise == todo' = RollBackSteps
Persist(phase) == journal' = [journal EXCEPT !.phase = phase]

Put(place, m, file) == [disk EXCEPT ![place][m] = file]
Move(m, from, to) == [disk EXCEPT ![to][m] = disk[from][m], ![from][m] = NoFile]
Clear(place) == [disk EXCEPT ![place] = [m \in Members |-> NoFile]]

(***************************************************************************)
(* Beginning and ending.                                                   *)
(***************************************************************************)
Idle == todo = <<>>

(* HasSameVolumeTransactionResidue *)
Residue ==
  \E place \in {"stage", "backup", "promotion", "restore"}, m \in Members :
    disk[place][m] # NoFile

Admissible ==
  /\ Idle
  /\ IsTerminal(journal)
  /\ ~(journal.phase = "committed" /\ Residue)

(* The managed files are the ones the receipt names, as far as their bytes *)
(* tell.                                                                   *)
Intact ==
  /\ disk["live"]["dll"].bytes = installed.release
  /\ ManagesManifest(installed) => disk["live"]["manifest"].bytes = installed.release

(* Every transaction has places of its own; what an earlier one left at    *)
(* its places is not looked at again, but for the files the receipt names. *)
OwnPlaces ==
  [place \in Places |-> [m \in Members |->
     CASE place = "live" -> disk["live"][m]
       [] place = "retained" /\ installed.adopted[m] # NoFile ->
            disk[BackupPlace(journal, m)][m]
       [] OTHER -> NoFile]]

BeginAs(op, release, prior) ==
  /\ Admissible
  /\ journal.number < MaxTransactions
  /\ \A m \in Members : Is(OwnPlaces["retained"][m], installed.adopted[m])
  /\ journal' = [op |-> op, phase |-> "planned", release |-> release,
                 number |-> journal.number + 1, prior |-> prior,
                 previous |-> installed]
  /\ disk' = OwnPlaces
  /\ before' = disk["live"]
  /\ disturbed' = {}
  /\ gaveUp' = FALSE
  /\ UNCHANGED <<installed, plan, faults, disturbances>>

(* DeployAsync, RepairAsync, or an update: files that nobody manages are   *)
(* adopted, which the player has confirmed; changed managed files are only *)
(* replaced by a repair, which deploys the recorded release.               *)
Deploy(release) ==
  /\ Managed(installed) => Intact \/ release = installed.release
  /\ BeginAs("deploy", release, disk["live"])
  /\ todo' = DeploySteps(journal')

Uninstall ==
  /\ Managed(installed)
  /\ Intact
  /\ BeginAs("uninstall", installed.release,
             [m \in Members |->
                IF m = "dll" \/ ManagesManifest(installed)
                THEN File(installed.release, AnyMark) ELSE NoFile])
  /\ todo' = UninstallSteps(journal')

(* The receipt goes, the files stay, and so does what was adopted.         *)
StopManaging ==
  /\ Admissible
  /\ Managed(installed)
  /\ installed' = NotInstalled
  /\ UNCHANGED <<disk, journal, todo, plan, gaveUp, faults, disturbances, history>>

(***************************************************************************)
(* A deployment, up to its commit.                                         *)
(***************************************************************************)
Unchanged == UNCHANGED <<plan, gaveUp, faults, disturbances, history>>

Download ==
  /\ At(Step("download"))
  /\ \/ Persist("verified") /\ Proceed
     \/ Persist("failed") /\ todo' = <<>>
  /\ UNCHANGED <<disk, installed>> /\ Unchanged

(* WriteStageAsync: the file is created, then its bytes arrive.            *)
WriteStage(m) ==
  /\ At(<<"stage", m>>)
  /\ \/ /\ disk["stage"][m] = NoFile
        /\ disk' = Put("stage", m, Partial)
        /\ UNCHANGED todo
     \/ /\ disk["stage"][m] = Partial
        /\ disk' = Put("stage", m, File(journal.release, journal.number))
        /\ Proceed
  /\ UNCHANGED <<installed, journal>> /\ Unchanged

Staged ==
  /\ At(Step("staged"))
  /\ Persist("staged")
  /\ Proceed
  /\ UNCHANGED <<disk, installed>> /\ Unchanged

Checked == IF journal.op = "deploy" THEN Members ELSE Had(journal)
Missing(m) == m \in Checked /\ disk["live"][m] = NoFile /\ m \in Had(journal)
Altered(m) ==
  m \in Checked /\ ~Missing(m) /\ ~Is(disk["live"][m], journal.prior[m])

(* The live files are opened and stay open until they are moved.           *)
Precondition ==
  /\ At(Step("precondition"))
  /\ \A m \in Members : ~Missing(m) /\ ~Altered(m)
  /\ Persist("committing")
  /\ Proceed
  /\ UNCHANGED <<disk, installed>> /\ Unchanged

(* A live file has disappeared: the open fails like any file operation.    *)
PreconditionThrows ==
  /\ At(Step("precondition"))
  /\ Missing("dll") \/ (Missing("manifest") /\ ~Altered("dll"))
  /\ Raise
  /\ UNCHANGED <<disk, installed, journal>> /\ Unchanged

(* A live file is another one, or the game has started.                    *)
PreconditionFails ==
  /\ At(Step("precondition"))
  /\ ~Missing("dll") /\ (Missing("manifest") => Altered("dll"))
  /\ IF journal.op = "deploy"
     THEN /\ todo' = Each("discard", Installs(journal)) \o <<Step("fail")>>
          /\ UNCHANGED journal
     ELSE Persist("failed") /\ todo' = <<>>
  /\ UNCHANGED <<disk, installed>> /\ Unchanged

Discard(m) ==
  /\ At(<<"discard", m>>)
  /\ disk' = Put("stage", m, NoFile)
  /\ Proceed
  /\ UNCHANGED <<installed, journal>> /\ Unchanged

Fail ==
  /\ At(Step("fail"))
  /\ Persist("failed")
  /\ Proceed
  /\ UNCHANGED <<disk, installed>> /\ Unchanged

TakeAway(m) ==
  /\ At(<<"takeAway", m>>)
  /\ disk' = Move(m, "live", "backup")
  /\ Proceed
  /\ UNCHANGED <<installed, journal>> /\ Unchanged

(* A move never replaces a file: one that has appeared makes it fail.      *)
MoveToLive(m, from) ==
  /\ IF disk["live"][m] = NoFile
     THEN disk' = Move(m, from, "live") /\ Proceed
     ELSE Raise /\ UNCHANGED disk
  /\ UNCHANGED <<installed, journal>> /\ Unchanged

Install(m) == At(<<"install", m>>) /\ MoveToLive(m, "stage")

Record ==
  /\ At(Step("record"))
  /\ installed' =
       IF journal.op = "uninstall" THEN NotInstalled
       ELSE [release |-> journal.release,
             adopted |-> [m \in Members |->
               IF m \in Retains(journal) /\ journal.previous.adopted[m] = NoFile
               THEN journal.prior[m] ELSE journal.previous.adopted[m]]]
  /\ Proceed
  /\ UNCHANGED <<disk, journal>> /\ Unchanged

(***************************************************************************)
(* CopyFileDurablyAsync: the file is created, its receipt is written, the  *)
(* bytes and the metadata arrive, and the receipt is completed.            *)
(***************************************************************************)
Copies == {"promote", "materialize", "giveBack"}
CopySource(name) == CASE name = "promote" -> "backup"
                      [] name = "materialize" -> "durable"
                      [] name = "giveBack" -> "retained"
CopyPlace(name) == CASE name = "promote" -> "promotion"
                     [] name = "materialize" -> "restore"
                     [] name = "giveBack" -> "stage"

(* Whether a live manifest makes the uninstall leave the adopted one.      *)
LeavesLive(name, m) ==
  name = "giveBack" /\ m = "manifest" /\ disk["live"][m] # NoFile

CopyStep(name, m) ==
  /\ At(<<name, m>>)
  /\ LET to == CopyPlace(name) IN
     \/ /\ disk[to][m] = NoFile
        /\ ~LeavesLive(name, m)
        /\ disk' = Put(to, m, Unowned)
     \/ /\ disk[to][m] = Unowned
        /\ disk' = Put(to, m, Partial)
     \/ /\ disk[to][m] = Partial
        /\ disk' = Put(to, m, disk[CopySource(name)][m])
  /\ UNCHANGED <<todo, installed, journal>> /\ Unchanged

Copied(name, m) == disk[CopyPlace(name)][m] \notin {NoFile, Unowned, Partial}

(* Mutant: the copy receipt is completed before the bytes have arrived.   *)
PromoteEarly(m) ==
  /\ At(<<"promote", m>>)
  /\ disk["promotion"][m] \notin {NoFile, Unowned}
  /\ disk' = Move(m, "promotion", "durable")
  /\ Proceed
  /\ UNCHANGED <<installed, journal>> /\ Unchanged

PromoteMove(m) ==
  /\ At(<<"promote", m>>)
  /\ Copied("promote", m)
  /\ disk' = Move(m, "promotion", "durable")
  /\ Proceed
  /\ UNCHANGED <<installed, journal>> /\ Unchanged

RemoveSource(m) ==
  /\ At(<<"removeSource", m>>)
  /\ disk' = Put("backup", m, NoFile)
  /\ Proceed
  /\ UNCHANGED <<installed, journal>> /\ Unchanged

GiveBack(m) ==
  /\ At(<<"giveBack", m>>)
  /\ Copied("giveBack", m)
  /\ MoveToLive(m, "stage")

LeaveLive(m) ==
  /\ At(<<"giveBack", m>>)
  /\ disk["stage"][m] = NoFile
  /\ LeavesLive("giveBack", m)
  /\ Proceed
  /\ UNCHANGED <<disk, installed, journal>> /\ Unchanged

(***************************************************************************)
(* Commit and cleanup.                                                     *)
(***************************************************************************)
Commit ==
  /\ At(Step("commit"))
  /\ Persist("cleanup")
  /\ Proceed
  /\ UNCHANGED <<disk, installed>> /\ Unchanged

(* ValidateCommittedOutcome *)
DeployedOutcome(j) ==
  /\ \A m \in Members :
       LET live == disk["live"][m] IN
       CASE m \in Installs(j) -> live.bytes = j.release
         [] m \notin ShouldMutate(j) -> Is(live, j.prior[m])
         [] OTHER -> live = NoFile
  /\ installed.release = j.release
  /\ \A m \in Members : Is(disk[BackupPlace(j, m)][m], installed.adopted[m])
                          \/ installed.adopted[m] = NoFile

RemovedOutcome(j) ==
  /\ ~Managed(installed)
  /\ \A m \in Members :
       \/ Is(disk["live"][m], j.previous.adopted[m])
       \/ m = "manifest" /\ ~ManagesManifest(j.previous) /\ m \notin Displaces(j)

OutcomeHolds(j) ==
  IF j.op = "deploy" THEN DeployedOutcome(j) ELSE RemovedOutcome(j)

(* The deployment's first look at its outcome may still roll it back.      *)
Outcome ==
  /\ At(Step("outcome"))
  /\ IF OutcomeHolds(journal) THEN Proceed ELSE Raise
  /\ UNCHANGED <<disk, installed, journal>> /\ Unchanged

(* The second may not, and neither may a recovery of a committed one.      *)
Cleanup ==
  /\ At(Step("cleanup"))
  /\ IF OutcomeHolds(journal)
     THEN Proceed /\ UNCHANGED gaveUp
     ELSE todo' = <<>> /\ gaveUp' = TRUE
  /\ UNCHANGED <<disk, installed, journal, plan, faults, disturbances, history>>

(* CleanupCommittedResidue *)
Clean(place) ==
  /\ At(<<"clean", place>>)
  /\ disk' = Clear(place)
  /\ Proceed
  /\ UNCHANGED <<installed, journal>> /\ Unchanged

Finish ==
  /\ At(Step("finish"))
  /\ Persist("committed")
  /\ Proceed
  /\ UNCHANGED <<disk, installed>> /\ Unchanged

(***************************************************************************)
(* RecoverAsync, at the player's request.                                  *)
(***************************************************************************)
Recover ==
  /\ Idle
  /\ ~IsTerminal(journal)
  /\ todo' = IF journal.phase = "cleanup" THEN CleanupSteps(journal) ELSE RollBackSteps
  /\ gaveUp' = FALSE
  /\ UNCHANGED <<disk, installed, journal, plan, faults, disturbances, history>>

(***************************************************************************)
(* RollBackAsync.                                                          *)
(***************************************************************************)
GiveUp ==
  /\ Persist("rollingBack")
  /\ todo' = <<>>
  /\ plan' = NoPlan
  /\ gaveUp' = TRUE
  /\ UNCHANGED <<disk, installed, faults, disturbances, history>>

(* The copy stages and what they may be made again from.                   *)
CopyStages(j) ==
  {"promotion", "restore"} \cup (IF j.op = "uninstall" THEN {"stage"} ELSE {})
Sources(place) == CASE place = "promotion" -> {"backup", "durable"}
                    [] place = "restore" -> {"durable"}
                    [] place = "stage" -> {"retained"}
SourceIdentity(place, m) ==
  IF place = "stage" THEN journal.previous.adopted[m] ELSE journal.prior[m]

(* NormalizeIncompleteOwnedCopyStages *)
CanNormalize ==
  \A place \in CopyStages(journal), m \in Members :
    /\ disk[place][m] # Unowned
    /\ disk[place][m] = Partial =>
         \E source \in Sources(place) : Is(disk[source][m], SourceIdentity(place, m))

Normalize ==
  /\ At(Step("normalize"))
  /\ CanNormalize
  /\ disk' = [place \in Places |-> [m \in Members |->
                IF place \in CopyStages(journal) /\ disk[place][m] = Partial
                THEN NoFile ELSE disk[place][m]]]
  /\ Proceed
  /\ UNCHANGED <<installed, journal>> /\ Unchanged

NormalizeFails == At(Step("normalize")) /\ ~CanNormalize /\ GiveUp

(* FindExactBackup prefers the copy on the volume of the game.             *)
FoundBackup(m) ==
  CASE disk["backup"][m] # NoFile -> "backup"
    [] disk["backup"][m] = NoFile /\ disk["durable"][m] # NoFile -> "durable"
    [] OTHER -> "none"

(* BuildRollbackMember: keep what is live, remove it, return a backup,     *)
(* leave the member alone, or refuse.                                      *)
MemberPlan(j, m) ==
  LET live == disk["live"][m]
      prior == j.prior[m]
      backup == FoundBackup(m)
      expected == IF m \in Displaces(j) THEN Is(live, j.previous.adopted[m])
                  ELSE LooksInstalled(j, m, live)
  IN CASE m \notin ShouldMutate(j) \cup Had(j) -> "skip"
       [] m \in Had(j) /\ Is(live, prior) -> "keep"
       [] m \in ShouldMutate(j) \ Had(j) /\ (live = NoFile \/ LooksInstalled(j, m, live)) ->
            "remove"
       [] /\ m \in Had(j) /\ ~Is(live, prior)
          /\ backup # "none" /\ (live = NoFile \/ expected) -> backup
       [] OTHER -> "refuse"

(* The stages hold what was staged, or they are not the transaction's.     *)
StagesKnown(j) ==
  \A m \in Members :
    \/ disk["stage"][m] = NoFile
    \/ IF j.op = "deploy" THEN disk["stage"][m].bytes = j.release
       ELSE Is(disk["stage"][m], j.previous.adopted[m])

CanRollBack ==
  /\ StagesKnown(journal)
  /\ \A m \in Members : MemberPlan(journal, m) # "refuse"

PlanRollBack ==
  /\ At(Step("plan"))
  /\ CanRollBack
  /\ plan' = [m \in Members |-> MemberPlan(journal, m)]
  /\ Persist("rollingBack")
  /\ todo' = PlannedSteps(plan')
  /\ UNCHANGED <<disk, installed, gaveUp, faults, disturbances, history>>

PlanFails == At(Step("plan")) /\ ~CanRollBack /\ GiveUp

(* The durable copy is brought back next to the live file.  A stage that a *)
(* recovery before this one has completed is used.                         *)
Materialized(m) ==
  /\ At(<<"materialize", m>>)
  /\ Copied("materialize", m)
  /\ Proceed
  /\ UNCHANGED <<disk, installed, journal>> /\ Unchanged

(* Mutant: the release's bytes are taken for the file that was installed.  *)
RemovableByBytes(m) ==
  LET live == disk["live"][m] IN
  \/ live = NoFile
  \/ m \in Displaces(journal) /\ Is(live, journal.previous.adopted[m])
  \/ /\ m \notin Displaces(journal)
     /\ LooksInstalled(journal, m, live) \/ Is(live, journal.prior[m])

(* DeleteRollbackLiveMember, DeleteOrMoveRestoredAdoptedMember: the live   *)
(* file is opened again, and deleted if it is still the transaction's.     *)
Removable(m) ==
  LET live == disk["live"][m] IN
  \/ live = NoFile
  \/ m \in Displaces(journal) /\ Is(live, journal.previous.adopted[m])
  \/ /\ m \notin Displaces(journal)
     /\ IF LooksInstalled(journal, m, live) THEN IsInstalled(journal, m, live)
        ELSE Is(live, journal.prior[m])

Remove(m) ==
  /\ At(<<"remove", m>>)
  /\ Removable(m)
  /\ disk' = Put("live", m, NoFile)
  /\ Proceed
  /\ UNCHANGED <<installed, journal>> /\ Unchanged

RemoveFails(m) == At(<<"remove", m>>) /\ ~Removable(m) /\ GiveUp

RestoreSource(m) == IF plan[m] = "durable" THEN "restore" ELSE "backup"

PutBack(m) ==
  /\ At(<<"putBack", m>>)
  /\ disk["live"][m] = NoFile
  /\ disk' = Move(m, RestoreSource(m), "live")
  /\ Proceed
  /\ UNCHANGED <<installed, journal>> /\ Unchanged

PutBackFails(m) == At(<<"putBack", m>>) /\ disk["live"][m] # NoFile /\ GiveUp

(* VerifyRollbackMember *)
RolledBackLive ==
  \A m \in Members : \/ plan[m] = "skip"
                     \/ Is(disk["live"][m], journal.prior[m])

Verify ==
  /\ At(Step("verify"))
  /\ RolledBackLive
  /\ Proceed
  /\ UNCHANGED <<disk, installed, journal>> /\ Unchanged

VerifyFails == At(Step("verify")) /\ ~RolledBackLive /\ GiveUp

(* Stages, copies and durable backups have become superfluous.             *)
Sweep(place) ==
  /\ At(<<"sweep", place>>)
  /\ disk' = Clear(place)
  /\ Proceed
  /\ UNCHANGED <<installed, journal>> /\ Unchanged

RestoreState ==
  /\ At(Step("restoreState"))
  /\ installed' = journal.previous
  /\ Proceed
  /\ UNCHANGED <<disk, journal>> /\ Unchanged

(* Mutant: the plan of the rollback outlives it.                           *)
RolledBackKeepingPlan ==
  /\ At(Step("rolledBack"))
  /\ Persist("rolledBack")
  /\ Proceed
  /\ UNCHANGED <<disk, installed, plan, gaveUp, faults, disturbances, history>>

RolledBack ==
  /\ At(Step("rolledBack"))
  /\ Persist("rolledBack")
  /\ Proceed
  /\ plan' = NoPlan
  /\ UNCHANGED <<disk, installed, gaveUp, faults, disturbances, history>>

(***************************************************************************)
(* Faults and other programs.                                              *)
(***************************************************************************)
RollBackNames == {"normalize", "plan", "materialize", "remove", "putBack",
                  "verify", "sweep", "restoreState", "rolledBack"}
EndingNames == {"discard", "fail", "cleanup", "clean", "finish"}

(* The process stops between two file operations.                          *)
Crash ==
  /\ ~Idle
  /\ faults < MaxFaults
  /\ faults' = faults + 1
  /\ todo' = <<>>
  /\ plan' = NoPlan
  /\ UNCHANGED <<disk, installed, journal, gaveUp, disturbances, history>>

(* A file operation fails, or the call is cancelled.  A copy that could    *)
(* not register its file deletes it again.                                 *)
Throw ==
  /\ ~Idle
  /\ faults < MaxFaults
  /\ faults' = faults + 1
  /\ LET name == Head(todo)[1] IN
     /\ disk' = IF name \in Copies
                THEN [disk EXCEPT ![CopyPlace(name)][Head(todo)[2]] =
                        IF @ = Unowned THEN NoFile ELSE @]
                ELSE disk
     /\ CASE name \in RollBackNames -> Persist("rollingBack") /\ todo' = <<>>
          [] name \in EndingNames -> todo' = <<>> /\ UNCHANGED journal
          [] OTHER -> Raise /\ UNCHANGED journal
  /\ plan' = NoPlan
  /\ UNCHANGED <<installed, gaveUp, disturbances, history>>

(* The call holds the live file open.                                      *)
Held(m) ==
  /\ journal.phase = "committing"
  /\ \/ /\ m \in Had(journal)
        /\ Is(disk["live"][m], journal.prior[m])
        /\ \E n \in Members : Ahead(<<"takeAway", n>>)
     \/ IsInstalled(journal, m, disk["live"][m]) /\ Ahead(Step("record"))

(* Another program, or the player, replaces, adds or removes a live file.  *)
Disturb(m) ==
  /\ disturbances < MaxDisturbances
  /\ ~Held(m)
  /\ disturbances' = disturbances + 1
  /\ \/ \E bytes \in Releases \cup {"user"} :
          disk' = Put("live", m, File(bytes, MaxTransactions + disturbances + 1))
     \/ /\ disk["live"][m] # NoFile
        /\ disk' = Put("live", m, NoFile)
  /\ disturbed' = disturbed \cup {m}
  /\ UNCHANGED <<installed, journal, todo, plan, gaveUp, faults, before>>

(***************************************************************************)
(* The files and the receipt that earlier transactions can have left: the  *)
(* player's own files, or a release with or without adopted ones.          *)
(***************************************************************************)
UserFiles == {NoFile, File("user", 0)}

ReceiptsAtRest ==
  {NotInstalled}
    \cup [release : Releases, adopted : [Members -> UserFiles]]

LiveAtRest(receipt) ==
  IF ~Managed(receipt) THEN [Members -> UserFiles]
  ELSE {live \in [Members -> UserFiles \cup {File(receipt.release, 0)}] :
          /\ live["dll"] = File(receipt.release, 0)
          /\ IF ManagesManifest(receipt)
             THEN live["manifest"] = File(receipt.release, 0)
             ELSE /\ live["manifest"] \in UserFiles
                  /\ receipt.adopted["manifest"] # NoFile => live["manifest"] = NoFile}

Init ==
  /\ installed \in ReceiptsAtRest
  /\ \E live \in LiveAtRest(installed) :
       disk = [place \in Places |->
                 CASE place = "live" -> live
                   [] place = "retained" -> installed.adopted
                   [] OTHER -> [m \in Members |-> NoFile]]
  /\ journal = [op |-> "deploy", phase |-> "committed",
                release |-> installed.release, number |-> 0,
                prior |-> [m \in Members |-> NoFile], previous |-> installed]
  /\ todo = <<>>
  /\ plan = NoPlan
  /\ gaveUp = FALSE
  /\ faults = 0
  /\ disturbances = 0
  /\ before = disk["live"]
  /\ disturbed = {}

Begin == (\E release \in Releases : Deploy(release)) \/ Uninstall \/ StopManaging \/ Recover

DeployStep ==
  \/ Download \/ Staged \/ Record \/ Commit \/ Outcome
  \/ Precondition \/ PreconditionThrows \/ PreconditionFails \/ Fail
  \/ \E m \in Members :
       \/ WriteStage(m) \/ Discard(m) \/ TakeAway(m) \/ Install(m)
       \/ PromoteMove(m) \/ RemoveSource(m) \/ GiveBack(m) \/ LeaveLive(m)
       \/ \E name \in Copies : CopyStep(name, m)

CleanupStep ==
  \/ Cleanup \/ Finish
  \/ \E place \in {"backup", "retained"} : Clean(place)

RollBackStep ==
  \/ Normalize \/ NormalizeFails \/ PlanRollBack \/ PlanFails
  \/ Verify \/ VerifyFails \/ RestoreState \/ RolledBack
  \/ \E m \in Members :
       \/ Materialized(m) \/ Remove(m) \/ RemoveFails(m)
       \/ PutBack(m) \/ PutBackFails(m)
  \/ \E place \in {"stage", "promotion", "restore", "durable"} : Sweep(place)

Next ==
  \/ Begin \/ DeployStep \/ CleanupStep \/ RollBackStep
  \/ Crash \/ Throw
  \/ \E m \in Members : Disturb(m)

Spec == Init /\ [][Next]_vars

(***************************************************************************)
(* Properties.                                                             *)
(***************************************************************************)

(* Every file is somebody's, the receipt and the journal name files that   *)
(* can exist, and a plan is only kept while it is carried out.             *)
TypeOK ==
  /\ \A place \in Places, m \in Members :
       disk[place][m] \in Files \cup {NoFile, Partial, Unowned}
  /\ \A m \in Members :
       /\ disk["live"][m] \in Files \cup {NoFile}
       /\ disk["retained"][m] \in Files \cup {NoFile}
       /\ installed.adopted[m] \in Files \cup {NoFile}
       /\ journal.prior[m] \in Identities \cup {NoFile}
       /\ plan[m] \in {"skip", "keep", "remove", "backup", "durable"}
  /\ installed.release \in Releases \cup {"none"}
  /\ journal.phase \in Phases
  /\ journal.op \in {"deploy", "uninstall"}
  /\ journal.number \in 0 .. MaxTransactions
  /\ plan # NoPlan => journal.phase = "rollingBack" /\ ~Idle
  /\ gaveUp => Idle
  /\ faults \in 0 .. MaxFaults
  /\ disturbances \in 0 .. MaxDisturbances
  /\ \A m \in Members : before[m] \in Files \cup {NoFile}
  /\ disturbed \subseteq Members

(* What an ended transaction has to show.  A member that another program   *)
(* changed meanwhile is that program's.                                    *)
Undisturbed == Members \ disturbed

RetainedKept ==
  \A m \in Members : installed.adopted[m] # NoFile =>
    disk[BackupPlace(journal, m)][m] = installed.adopted[m]

AllNew ==
  /\ installed.release = (IF journal.op = "deploy" THEN journal.release ELSE "none")
  /\ \A m \in Undisturbed :
       disk["live"][m] =
         CASE m \in Installs(journal) -> File(journal.release, journal.number)
           [] m \in Displaces(journal) -> journal.previous.adopted[m]
           [] OTHER -> IF m \in ShouldMutate(journal) THEN NoFile ELSE before[m]

(* An uninstall of a release without a manifest that has already given the *)
(* player's manifest back leaves it where it is when it is rolled back.    *)
GivenBackEarly(m) ==
  /\ m = "manifest"
  /\ m \in Displaces(journal) \ (ShouldMutate(journal) \cup Had(journal))
  /\ disk["live"][m] = journal.previous.adopted[m]

AllOld ==
  /\ installed = journal.previous
  /\ \A m \in Undisturbed :
       disk["live"][m].bytes = before[m].bytes \/ GivenBackEarly(m)

NothingLeft ==
  \A m \in Members :
    /\ \A place \in {"stage", "promotion", "restore"} : disk[place][m] = NoFile
    /\ m \in disturbed \/ disk["backup"][m].bytes \in {"none", disk["live"][m].bytes}

(* A transaction that ends, after however many crashes, failures and       *)
(* recoveries, leaves both files and the receipt new or all of them as     *)
(* they were, keeps what the receipt says it retains, and leaves nothing   *)
(* of its own behind but, perhaps, a second copy of what is live.  One     *)
(* mixture is excepted, because the code leaves it: a manifest already     *)
(* given back by an uninstall that is rolled back (GivenBackEarly).        *)
AllOldOrAllNew ==
  [][IsTerminal(journal') /\ ~IsTerminal(journal) =>
       /\ IF journal'.phase = "committed" THEN AllNew' ELSE AllOld'
       /\ RetainedKept'
       /\ NothingLeft']_vars

(* Until it is committed, the file that was there before is somewhere,     *)
(* whole, whichever of the moves and copies was the last one.              *)
PriorIsKept ==
  ~IsTerminal(journal) /\ journal.phase # "cleanup" =>
    \A m \in Undisturbed : before[m] # NoFile =>
      \E place \in Places : disk[place][m] = before[m]

(* No step of the launcher loses the bytes of a live file which the        *)
(* transaction has not installed itself: between the check of a file and   *)
(* its removal another program may have put its own there.                 *)
OthersFilesSurvive ==
  [][disturbances' = disturbances =>
       \A m \in Members :
         \/ disk["live"][m] = NoFile
         \/ IsInstalled(journal, m, disk["live"][m])
         \/ \E place \in Places : disk'[place][m].bytes = disk["live"][m].bytes]_vars

(* A file of the player's that a receipt names stays at a place only the   *)
(* launcher writes, until an uninstall has given it back and has seen that *)
(* it is live, or until a rollback has returned one adopted just now.      *)
Returned(m, file) == m \in disturbed \/ disk["live"][m] = file

AdoptedIsKept ==
  \A m \in Members :
    /\ journal.previous.adopted[m] # NoFile =>
         \/ disk["retained"][m] = journal.previous.adopted[m]
         \/ /\ journal.op = "uninstall" /\ journal.phase \in {"cleanup", "committed"}
            /\ Returned(m, journal.previous.adopted[m])
    /\ installed.adopted[m] # NoFile =>
         \/ \E place \in {"backup", "durable", "retained"} :
              disk[place][m] = installed.adopted[m]
         \/ journal.phase = "rollingBack" /\ Returned(m, installed.adopted[m])

(* Documented (MOD_DEPLOYMENT.md 417-420): RecoverAsync "restores the      *)
(* preserved artifact or removes a partially committed fresh install, ...  *)
(* and removes transaction-scoped files".  So no recovery gives up over    *)
(* what the launcher itself, or the player before it, has left.            *)
RecoveryRestores == gaveUp => disturbed # {}

(* A file whose writing was cut off and that nothing proves to be the      *)
(* launcher's: a stage of the release, or a copy without its receipt.      *)
CutOff ==
  \E m \in Members :
    \/ journal.op = "deploy" /\ disk["stage"][m] = Partial
    \/ \E place \in {"stage", "promotion", "restore"} : disk[place][m] = Unowned

(* A manifest of the player's that was there before the uninstall and is   *)
(* in the way of the one the uninstall gives back.                         *)
InTheWay ==
  "manifest" \in Displaces(journal) \ Had(journal) /\ before["manifest"] # NoFile

(* These are all the ways in which the code does not keep the documented   *)
(* RecoveryRestores.                                                       *)
GivesUpOverThese == gaveUp => disturbed # {} \/ CutOff \/ InTheWay

=============================================================================
