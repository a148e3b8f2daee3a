------------------------- MODULE DraftEditingProofs --------------------------
(***************************************************************************)
(* Theorems about DraftEditing, for any edits, targets and bounds: the     *)
(* user and the host never disagree about a revision of a draft, unsaved   *)
(* edits are not lost, and what was discarded is not written.              *)
(***************************************************************************)
EXTENDS DraftEditing, SequenceTheorems, TLAPS

-----------------------------------------------------------------------------
(* The inductive invariant                                                 *)

\* The snapshot s is one of a draft of the host: of an earlier revision, or of
\* the very content the draft has now.
Agrees(s) ==
  /\ s.id \in DOMAIN drafts
  /\ s.revision <= drafts[s.id].now.revision
  /\ s.revision = drafts[s.id].now.revision =>
       s.edits = drafts[s.id].now.edits /\ s.document = drafts[s.id].now.document

Copy(s) == s \notin {Nothing, Unanswered}

\* Every copy of a draft agrees with it.
CopiesAgree ==
  /\ \A i \in DOMAIN drafts : drafts[i].now.id = i
  /\ Copy(work.draft) => Agrees(work.draft)
  /\ \A k \in DOMAIN operations : Agrees(operations[k].draft)
  /\ \A r \in requests : r.kind # "open" => Agrees(r.draft)
  /\ \A r \in requests : Copy(r.reply) => Agrees(r.reply)

\* Hosts, drafts and revisions stay within their bounds.
Bounded ==
  /\ epoch <= faults + 1
  /\ Len(drafts) <= MaxDrafts
  /\ \A k \in DOMAIN operations : operations[k].draft.revision < MaxRevision
  /\ \A r \in requests :
       /\ r.kind = "sync" => r.draft.revision + 1 < MaxRevision
       /\ r.kind = "commit" => r.draft.revision < MaxRevision

\* The states of the facade that need the work as it is, those in which the
\* work was synchronized, and those in which it may have been submitted.
Saving == {"preparing", "review", "admitting", "uncertain", "observing"}
Submitting == {"admitting", "uncertain", "observing"}
WithDraft == Saving \cup {"syncing", "discard_review", "discarding"}

\* The state of the facade in which it waits for the answer to a request.
WaitingFor(kind) ==
  CASE kind = "sync" -> "syncing"
    [] kind = "commit" -> "admitting"
    [] kind = "discard" -> "discarding"
    [] kind = "open" -> "opening"
    [] OTHER -> "never"

\* The facade's transition holds the context it works on.
TransitionHeld ==
  /\ flow.kind # "idle" => work.busy
  /\ flow.kind \in WithDraft => work.draft # Nothing
  /\ flow.kind \in {"reading", "opening"} => work.baseline # Nothing
  /\ work.baseline # Nothing => work.draft = Nothing
  /\ flow.kind \in Saving =>
       work.edits = work.draft.edits /\ work.draft.revision < MaxRevision

\* What the facade waits for is what it asked for, once.
AskedOnce ==
  /\ \A r, q \in requests : r.by = "facade" /\ q.by = "facade" => r = q
  /\ \A r \in requests : r.by = "facade" =>
       /\ flow.kind = WaitingFor(r.kind)
       /\ r.kind # "open" => r.draft = work.draft
       /\ r.kind = "sync" => r.edits = work.edits

\* What an answer says of what was asked.
AnswerSound(r) ==
  LET s == r.reply
  IN Copy(s) =>
       /\ r.kind = "sync" =>
            s.id = r.draft.id /\ s.edits = r.edits /\ s.revision = r.draft.revision + 1
       /\ r.kind = "discard" => ~drafts[r.draft.id].live
       /\ r.kind = "get" =>
            /\ s.id = r.draft.id /\ s.revision >= r.draft.revision
            /\ s.revision = r.draft.revision => s.edits = r.draft.edits

Answers == \A r \in requests : AnswerSound(r)

\* Reconciliation notices that the work moved on.
CapturedIsCurrent ==
  \A r \in requests : r.kind = "get" /\ ~work.moved => work.draft = r.draft

\* Nothing of the draft with this identity is under way or in doubt: its saves
\* have failed, and no other commit of it can be admitted.
SavesFailed(id, other) ==
  /\ \A k \in DOMAIN operations :
       operations[k].draft.id = id => operations[k].status = "failed"
  /\ \A q \in requests \ other :
       q.kind = "commit" /\ q.draft.id = id => SaveOf(q.draft) # {}

\* Only the save that the facade observes may be under way.
SaveIsObserved(s) ==
  /\ \A k \in DOMAIN operations :
       operations[k].draft.id = s.id /\ operations[k].status # "failed" =>
         operations[k].draft = s
  /\ \A q \in requests :
       q.kind = "commit" /\ q.draft.id = s.id => q.draft = s \/ SaveOf(q.draft) # {}

SavedOnce ==
  \A k, l \in DOMAIN operations : operations[k].draft = operations[l].draft => k = l

WorkNotWritten ==
  work.draft # Nothing =>
    /\ flow.kind \notin Submitting => SavesFailed(work.draft.id, {})
    /\ flow.kind \in Submitting => SaveIsObserved(work.draft)
    /\ flow.kind = "admitting" /\ ~flow.replay =>
         \A r \in requests :
           r.kind = "commit" /\ r.by = "facade" /\ r.reply = Unanswered =>
             SavesFailed(work.draft.id, {r})

\* The draft that an answer brings is nobody's yet.
Untouched(id) ==
  /\ work.draft # Nothing => work.draft.id # id
  /\ \A k \in DOMAIN operations : operations[k].draft.id # id
  /\ \A r \in requests : r.kind # "open" => r.draft.id # id

OpenedAreFresh ==
  /\ \A r \in requests : r.kind = "open" /\ Copy(r.reply) => Untouched(r.reply.id)
  /\ \A r, q \in requests :
       (/\ r.kind = "open" /\ Copy(r.reply) /\ q.kind = "open" /\ Copy(q.reply)
        /\ r.reply.id = q.reply.id) => r = q

DraftInv ==
  /\ TypeOK /\ Bounded /\ CopiesAgree
  /\ TransitionHeld /\ AskedOnce /\ Answers /\ CapturedIsCurrent
  /\ SavedOnce /\ WorkNotWritten /\ OpenedAreFresh
-----------------------------------------------------------------------------
(* Records and sequences                                                   *)

Draft == [epoch : Epochs, live : BOOLEAN, acked : BOOLEAN, now : Snapshot]
Operation == [draft : Snapshot, document : Versions,
              status : {"running", "changed", "no_change", "failed"}]

\* The host's sequences, by their indices.
LEMMA HostIs ==
  ASSUME TypeOK
  PROVE  /\ Len(drafts) \in Nat /\ DOMAIN drafts = 1..Len(drafts)
         /\ \A i \in DOMAIN drafts : drafts[i] \in Draft
         /\ Len(operations) \in Nat /\ DOMAIN operations = 1..Len(operations)
         /\ \A k \in DOMAIN operations : operations[k] \in Operation
         /\ Latest \in Versions /\ Latest \in Nat
         /\ DOMAIN documents = 1..Latest
         /\ \A v \in 1..Latest : documents[v] \in 1..MaxTargets
<1>1. /\ drafts \in Seq(Draft) /\ operations \in Seq(Operation)
      /\ documents \in Seq(1..MaxTargets) /\ Len(documents) \in Versions
  BY DEF TypeOK, Draft, Operation
<1>2. /\ Len(drafts) \in Nat /\ DOMAIN drafts = 1..Len(drafts)
      /\ drafts \in [1..Len(drafts) -> Draft]
  BY <1>1, LenProperties
<1>3. /\ Len(operations) \in Nat /\ DOMAIN operations = 1..Len(operations)
      /\ operations \in [1..Len(operations) -> Operation]
  BY <1>1, LenProperties
<1>4. /\ Latest \in Nat /\ DOMAIN documents = 1..Latest
      /\ documents \in [1..Latest -> 1..MaxTargets]
  BY <1>1, LenProperties DEF Latest
<1> QED BY <1>1, <1>2, <1>3, <1>4 DEF Latest

\* What a request consists of.
LEMMA RequestIs ==
  ASSUME NEW r \in Request
  PROVE  /\ r.kind \in {"sync", "commit", "discard", "open", "get"}
         /\ r.by \in {"facade", "nobody", "settings", "reconciliation"}
         /\ r.reply \in Reply
         /\ r.kind # "open" => r.draft \in Snapshot
         /\ r.kind = "sync" => r.edits \in Content
         /\ r.kind = "open" => r.by \in {"facade", "settings"} /\ r.document \in Versions
         /\ r.kind = "get" <=> r.by = "reconciliation"
         /\ r.kind # "open" => r.by # "settings"
BY DEF Request

\* The same request with another answer.
Asks(q, r) ==
  /\ q.kind = r.kind
  /\ r.kind # "open" => q.draft = r.draft
  /\ r.kind = "sync" => q.edits = r.edits
  /\ r.kind = "open" => q.document = r.document
  /\ r.kind = "get" => q.binding = r.binding

\* Another answer changes nothing else of a request.
LEMMA AnsweredIs ==
  ASSUME NEW r \in Request, NEW x \in Reply
  PROVE  LET q == [r EXCEPT !.reply = x]
         IN /\ q \in Request /\ Asks(q, r) /\ q.by = r.by /\ q.reply = x
            /\ (x = r.reply => q = r)
<1>1. CASE r.kind = "sync"
  BY <1>1 DEF Request, Asks
<1>2. CASE r.kind \in {"commit", "discard"}
  <2>1. r \in [kind : {"commit", "discard"}, by : {"facade", "nobody"},
              draft : Snapshot, reply : Reply]
    BY <1>2 DEF Request
  <2> QED BY <2>1, <1>2 DEF Request, Asks
<1>3. CASE r.kind = "open"
  BY <1>3 DEF Request, Asks
<1>4. CASE r.kind = "get"
  BY <1>4 DEF Request, Asks
<1> QED BY <1>1, <1>2, <1>3, <1>4, RequestIs

\* Nor does nobody waiting for its answer.
LEMMA ForgottenIs ==
  ASSUME NEW r \in Request, r.kind \in {"sync", "commit", "discard"}
  PROVE  LET q == [r EXCEPT !.by = "nobody"]
         IN q \in Request /\ Asks(q, r) /\ q.by = "nobody" /\ q.reply = r.reply
<1>1. CASE r.kind = "sync"
  BY <1>1 DEF Request, Asks
<1>2. CASE r.kind \in {"commit", "discard"}
  BY <1>2 DEF Request, Asks
<1> QED BY <1>1, <1>2

\* An answer replaces its request, unless nobody waits for it.
LEMMA AnsweredAre ==
  ASSUME NEW r \in Request, NEW x \in Reply, requests' = Answered(r, x)
  PROVE  \E a \in Request :
           /\ Asks(a, r) /\ a.by = r.by /\ a.reply = x
           /\ \A q \in requests' : (q \in requests /\ q # r) \/ (q = a /\ r.by # "nobody")
<1> DEFINE a == [r EXCEPT !.reply = x]
<1>1. a \in Request /\ Asks(a, r) /\ a.by = r.by /\ a.reply = x
  BY AnsweredIs
<1>2. \A q \in requests' : (q \in requests /\ q # r) \/ (q = a /\ r.by # "nobody")
  BY DEF Answered
<1> HIDE DEF a
<1> QED BY <1>1, <1>2

-----------------------------------------------------------------------------
(* The host                                                                *)

\* A function on 1..n is a sequence of length n.
LEMMA SequenceOf ==
  ASSUME NEW S, NEW n \in Nat, NEW f \in [1..n -> S]
  PROVE  f \in Seq(S) /\ Len(f) = n
<1>1. f \in Seq(S)
  BY SeqDef
<1> QED BY <1>1, LenProperties

\* Appending keeps what a sequence holds and adds one index.
LEMMA AppendIs ==
  ASSUME NEW S, NEW s \in Seq(S), NEW e \in S
  PROVE  /\ Append(s, e) \in Seq(S)
         /\ Len(s) \in Nat /\ DOMAIN s = 1..Len(s)
         /\ DOMAIN Append(s, e) = 1..Len(s) + 1
         /\ \A i \in DOMAIN s : Append(s, e)[i] = s[i]
         /\ Append(s, e)[Len(s) + 1] = e
BY AppendProperties, LenProperties

\* What a draft may become: it stays what it is, or its revision grows.
GoesOn(d, e) ==
  /\ e \in Draft /\ e.now.id = d.now.id /\ e.epoch = d.epoch /\ (e.live => d.live)
  /\ d.now.revision <= e.now.revision
  /\ d.now.revision = e.now.revision =>
       e.now.edits = d.now.edits /\ e.now.document = d.now.document

DraftsGoOn ==
  /\ DOMAIN drafts \subseteq DOMAIN drafts'
  /\ \A i \in DOMAIN drafts : GoesOn(drafts[i], drafts'[i])

OperationsGoOn ==
  /\ DOMAIN operations \subseteq DOMAIN operations'
  /\ \A k \in DOMAIN operations :
       /\ operations'[k].draft = operations[k].draft
       /\ operations[k].status = "failed" => operations'[k].status = "failed"

\* What the host has is well formed, whatever is asked of it.
HostSound ==
  /\ documents \in Seq(1..MaxTargets) /\ Len(documents) \in Versions
  /\ drafts \in Seq(Draft) /\ Len(drafts) <= MaxDrafts
  /\ \A i \in DOMAIN drafts : drafts[i].now.id = i
  /\ operations \in Seq(Operation)
  /\ \A k \in DOMAIN operations :
       Agrees(operations[k].draft) /\ operations[k].draft.revision < MaxRevision
  /\ SavedOnce
  /\ epoch \in Epochs /\ faults \in 0..MaxFaults /\ epoch <= faults + 1

\* The invariant says of the host that it is sound.
LEMMA HostIsSound == DraftInv => HostSound
BY DEF DraftInv, TypeOK, Bounded, CopiesAgree, HostSound, Draft, Operation

\* A copy that agrees goes on doing so.
LEMMA AgreesGoesOn ==
  ASSUME TypeOK, DraftsGoOn, NEW s \in Snapshot, Agrees(s)
  PROVE  Agrees(s)'
<1>1. /\ s.id \in DOMAIN drafts /\ s.id \in DOMAIN drafts'
      /\ GoesOn(drafts[s.id], drafts'[s.id])
      /\ drafts[s.id] \in Draft
  BY HostIs DEF Agrees, DraftsGoOn
<1>2. /\ s.revision \in Nat /\ drafts[s.id].now.revision \in Nat
      /\ drafts'[s.id].now.revision \in Nat
  BY <1>1, DraftAssumption DEF Snapshot, Draft, GoesOn
<1> QED BY <1>1, <1>2 DEF Agrees, GoesOn

\* Drafts that go on in their places.
LEMMA DraftsReplaced ==
  ASSUME TypeOK, HostSound, drafts' \in [DOMAIN drafts -> Draft],
         \A i \in DOMAIN drafts : GoesOn(drafts[i], drafts'[i])
  PROVE  /\ DraftsGoOn /\ drafts' \in Seq(Draft) /\ Len(drafts') = Len(drafts)
         /\ \A i \in DOMAIN drafts' : drafts'[i].now.id = i
<1>1. Len(drafts) \in Nat /\ DOMAIN drafts = 1..Len(drafts)
  BY HostIs
<1>2. drafts' \in Seq(Draft) /\ Len(drafts') = Len(drafts)
  BY <1>1, SequenceOf
<1>3. \A i \in DOMAIN drafts : drafts'[i].now.id = i
  BY DEF GoesOn, HostSound
<1> QED BY <1>2, <1>3 DEF DraftsGoOn

\* The host goes on when its operations do, and its drafts.
HostGoesOn == HostSound' /\ DraftsGoOn /\ OperationsGoOn

\* A draft that stays as it is goes on.
LEMMA DraftStays ==
  ASSUME NEW d \in Draft PROVE GoesOn(d, d)
BY DraftAssumption DEF GoesOn, Draft, Snapshot

\* Both are snapshots of the next revision.
LEMMA NextRevision ==
  ASSUME NEW t \in Snapshot, t.revision < MaxRevision
  PROVE  /\ \A edits \in Content :
              LET s == Synced(t, edits)
              IN /\ s \in Snapshot /\ s.id = t.id /\ s.edits = edits
                 /\ s.document = t.document /\ s.revision = t.revision + 1
         /\ \A v \in Versions :
              LET s == Successor(t, v)
              IN s \in Snapshot /\ s.id = t.id /\ s.revision = t.revision + 1
<1>1. t.revision + 1 \in 0..MaxRevision
  BY DraftAssumption DEF Snapshot
<1>2. ASSUME NEW v \in Versions, NEW n \in 0..MaxRevision
      PROVE  LET s == [t EXCEPT !.revision = n, !.document = v, !.edits = NoEdits,
                                !.state = "clean"]
             IN s \in Snapshot /\ s.id = t.id /\ s.revision = n
  BY <1>2 DEF Snapshot, Content
<1>3. ASSUME NEW edits \in Content
      PROVE  LET s == Synced(t, edits)
             IN /\ s \in Snapshot /\ s.id = t.id /\ s.edits = edits
                /\ s.document = t.document /\ s.revision = t.revision + 1
  <2>1. PICK st \in {"clean", "dirty", "stale"} :
          st = IF edits = NoEdits THEN "clean" ELSE "dirty"
    OBVIOUS
  <2>2. Synced(t, edits) =
          [t EXCEPT !.edits = edits, !.revision = t.revision + 1, !.state = st]
    BY <2>1 DEF Synced
  <2> DEFINE s == [t EXCEPT !.edits = edits, !.revision = t.revision + 1, !.state = st]
  <2>3. /\ s \in Snapshot /\ s.id = t.id /\ s.edits = edits
        /\ s.document = t.document /\ s.revision = t.revision + 1
    BY <1>1 DEF Snapshot
  <2>4. Synced(t, edits) = s
    BY <2>2
  <2> HIDE DEF s
  <2> QED BY <2>3, <2>4
<1>4. ASSUME NEW v \in Versions
      PROVE  LET s == Successor(t, v)
             IN s \in Snapshot /\ s.id = t.id /\ s.revision = t.revision + 1
  BY <1>1, <1>2, Zenon DEF Successor
<1> QED BY <1>3, <1>4

\* A draft with another snapshot is still one.
LEMMA DraftWith ==
  ASSUME NEW d \in Draft, NEW s \in Snapshot, NEW a \in BOOLEAN
  PROVE  LET e == [d EXCEPT !.now = s, !.acked = a]
         IN e \in Draft /\ e.now = s /\ e.epoch = d.epoch /\ e.live = d.live
BY DEF Draft

\* A synchronized draft goes on, in its next revision (set_draft_changes).
LEMMA DraftSynced ==
  ASSUME NEW d \in Draft, NEW edits \in Content, d.now.revision < MaxRevision
  PROVE  LET s == Synced(d.now, edits)
         IN /\ s \in Snapshot /\ s.id = d.now.id /\ s.edits = edits
            /\ s.document = d.now.document /\ s.revision = d.now.revision + 1
            /\ GoesOn(d, [d EXCEPT !.now = s, !.acked = TRUE])
<1> DEFINE s == Synced(d.now, edits)
<1>1. d.now \in Snapshot /\ d.now.revision \in Nat /\ MaxRevision \in Nat
  BY DraftAssumption DEF Draft, Snapshot
<1>2. /\ s \in Snapshot /\ s.id = d.now.id /\ s.edits = edits
      /\ s.document = d.now.document /\ s.revision = d.now.revision + 1
  BY <1>1, NextRevision
<1> HIDE DEF s
<1> DEFINE e == [d EXCEPT !.now = s, !.acked = TRUE]
<1>3. e \in Draft /\ e.now = s /\ e.epoch = d.epoch /\ e.live = d.live
  BY <1>2, DraftWith
<1> HIDE DEF e
<1>4. GoesOn(d, e)
  BY <1>1, <1>2, <1>3 DEF GoesOn
<1> QED BY <1>2, <1>4 DEF s, e

\* So does one that was saved (prepare_completion).
LEMMA DraftSucceeded ==
  ASSUME NEW d \in Draft, NEW v \in Versions, d.now.revision < MaxRevision
  PROVE  GoesOn(d, [d EXCEPT !.now = Successor(d.now, v), !.acked = FALSE])
<1> DEFINE s == Successor(d.now, v)
<1>1. d.now \in Snapshot /\ d.now.revision \in Nat /\ MaxRevision \in Nat
  BY DraftAssumption DEF Draft, Snapshot
<1>2. s \in Snapshot /\ s.id = d.now.id /\ s.revision = d.now.revision + 1
  BY <1>1, NextRevision
<1> HIDE DEF s
<1> DEFINE e == [d EXCEPT !.now = s, !.acked = FALSE]
<1>3. e \in Draft /\ e.now = s /\ e.epoch = d.epoch /\ e.live = d.live
  BY <1>2, DraftWith
<1> HIDE DEF e
<1>4. GoesOn(d, e)
  BY <1>1, <1>2, <1>3 DEF GoesOn
<1> QED BY <1>4 DEF s, e

\* A draft that becomes stale or is dropped keeps revision and edits.
LEMMA DraftStaled ==
  ASSUME NEW d \in Draft
  PROVE  /\ GoesOn(d, [d EXCEPT !.now.state = "stale"])
         /\ \A o \in BOOLEAN : (o => d.live) => GoesOn(d, [d EXCEPT !.live = o])
<1> DEFINE s == [d.now EXCEPT !.state = "stale"]
<1>1. d.now \in Snapshot /\ d.now.revision \in Nat
  BY DraftAssumption DEF Draft, Snapshot
<1>2. /\ s \in Snapshot /\ s.id = d.now.id /\ s.edits = d.now.edits
      /\ s.document = d.now.document /\ s.revision = d.now.revision
  BY <1>1 DEF Snapshot
<1>3. [d EXCEPT !.now.state = "stale"] = [d EXCEPT !.now = s]
  OBVIOUS
<1> HIDE DEF s
<1>4. GoesOn(d, [d EXCEPT !.now = s])
  BY <1>1, <1>2 DEF GoesOn, Draft
<1>5. \A o \in BOOLEAN : (o => d.live) => GoesOn(d, [d EXCEPT !.live = o])
  BY <1>1 DEF GoesOn, Draft
<1> QED BY <1>3, <1>4, <1>5

\* A host that is left alone goes on.
LEMMA HostStays ==
  ASSUME DraftInv, UNCHANGED <<documents, drafts, operations>>,
         epoch' \in Epochs, faults' \in 0..MaxFaults, epoch' <= faults' + 1
  PROVE  HostGoesOn
<1>1. HostSound
  BY HostIsSound
<1>2. DraftsGoOn
  BY HostIs, DraftStays DEF DraftInv, DraftsGoOn
<1>3. OperationsGoOn
  BY DEF OperationsGoOn
<1>4. HostSound'
  BY <1>1 DEF HostSound, Agrees, SavedOnce
<1> QED BY <1>2, <1>3, <1>4 DEF HostGoesOn

\* A host whose drafts go on goes on.
LEMMA DraftsMove ==
  ASSUME DraftInv, UNCHANGED <<documents, operations>>, DraftsGoOn,
         drafts' \in Seq(Draft), Len(drafts') <= MaxDrafts,
         \A i \in DOMAIN drafts' : drafts'[i].now.id = i,
         epoch' \in Epochs, faults' \in 0..MaxFaults, epoch' <= faults' + 1
  PROVE  HostGoesOn
<1>1. HostSound /\ TypeOK
  BY HostIsSound DEF DraftInv
<1>2. \A k \in DOMAIN operations : Agrees(operations[k].draft)'
  <2> SUFFICES ASSUME NEW k \in DOMAIN operations, NEW s, s = operations[k].draft
               PROVE  Agrees(s)'
    BY DEF Agrees
  <2>1. s \in Snapshot /\ Agrees(s)
    BY <1>1, HostIs DEF HostSound, Operation
  <2> QED BY <1>1, <2>1, AgreesGoesOn
<1>3. OperationsGoOn
  BY DEF OperationsGoOn
<1>4. HostSound'
  BY <1>1, <1>2 DEF HostSound, SavedOnce
<1> QED BY <1>3, <1>4 DEF HostGoesOn

\* A save ends once, and keeps what it was to save.
LEMMA SaveEnds ==
  ASSUME TypeOK, NEW k \in DOMAIN operations, operations[k].status = "running",
         NEW status \in {"changed", "no_change", "failed"}, NEW v \in Versions,
         Finish(k, status, v)
  PROVE  /\ operations' \in Seq(Operation) /\ OperationsGoOn
         /\ DOMAIN operations' = DOMAIN operations
         /\ \A l \in DOMAIN operations : operations'[l].draft = operations[l].draft
<1>1. /\ DOMAIN operations = 1..Len(operations) /\ Len(operations) \in Nat
      /\ operations \in [1..Len(operations) -> Operation]
  <2>1. operations \in Seq(Operation)
    BY DEF TypeOK, Operation
  <2> QED BY <2>1, LenProperties
<1> DEFINE o == [operations[k] EXCEPT !.status = status, !.document = v]
<1>2. o \in Operation /\ o.draft = operations[k].draft /\ o.status = status
  BY <1>1 DEF Operation
<1>3. operations' = [operations EXCEPT ![k] = o]
  BY DEF Finish
<1> HIDE DEF o
<1>4. operations' \in [1..Len(operations) -> Operation]
  BY <1>1, <1>2, <1>3
<1>5. operations' \in Seq(Operation) /\ DOMAIN operations' = DOMAIN operations
  BY <1>1, <1>4, SequenceOf
<1>6. \A l \in DOMAIN operations :
        /\ operations'[l].draft = operations[l].draft
        /\ operations[l].status = "failed" => operations'[l].status = "failed"
  BY <1>2, <1>3
<1> QED BY <1>5, <1>6 DEF OperationsGoOn

\* A host goes on in which a save ends and drafts go on in their places.
LEMMA SaveMoves ==
  ASSUME DraftInv, NEW k \in DOMAIN operations, operations[k].status = "running",
         NEW status \in {"changed", "no_change", "failed"}, NEW v \in Versions,
         Finish(k, status, v), UNCHANGED <<epoch, faults>>,
         documents' \in Seq(1..MaxTargets), Len(documents') \in Versions,
         drafts' \in [DOMAIN drafts -> Draft],
         \A i \in DOMAIN drafts : GoesOn(drafts[i], drafts'[i])
  PROVE  HostGoesOn
<1>1. HostSound /\ TypeOK
  BY HostIsSound DEF DraftInv
<1>2. /\ DraftsGoOn /\ drafts' \in Seq(Draft) /\ Len(drafts') = Len(drafts)
      /\ \A i \in DOMAIN drafts' : drafts'[i].now.id = i
  BY <1>1, DraftsReplaced
<1>3. /\ operations' \in Seq(Operation) /\ OperationsGoOn
      /\ DOMAIN operations' = DOMAIN operations
      /\ \A l \in DOMAIN operations : operations'[l].draft = operations[l].draft
  BY <1>1, SaveEnds
<1>4. \A l \in DOMAIN operations : Agrees(operations[l].draft)'
  <2> SUFFICES ASSUME NEW l \in DOMAIN operations, NEW s, s = operations[l].draft
               PROVE  Agrees(s)'
    BY <1>3 DEF Agrees
  <2>1. s \in Snapshot /\ Agrees(s)
    BY <1>1, HostIs DEF HostSound, Operation
  <2> QED BY <1>1, <1>2, <2>1, AgreesGoesOn
<1>5. SavedOnce'
  BY <1>1, <1>3 DEF HostSound, SavedOnce
<1>6. HostSound'
  BY <1>1, <1>2, <1>3, <1>4, <1>5 DEF HostSound
<1> QED BY <1>2, <1>3, <1>6 DEF HostGoesOn

\* No snapshot is taken for a missing answer.
LEMMA SnapshotIsCopy ==
  ASSUME NEW s \in Snapshot PROVE Copy(s) /\ s # Nothing /\ s # Unanswered
BY DraftAssumption DEF Copy, Snapshot, Content, Versions

\* What an answer x to r says, beyond that it is a copy of a draft.
Says(r, x) ==
  Copy(x) =>
    /\ x \in Snapshot /\ Agrees(x)
    /\ r.kind = "sync" =>
         x.id = r.draft.id /\ x.edits = r.edits /\ x.revision = r.draft.revision + 1
    /\ r.kind = "discard" => ~drafts[r.draft.id].live
    /\ r.kind = "get" =>
         /\ x.id = r.draft.id /\ x.revision >= r.draft.revision
         /\ x.revision = r.draft.revision => x.edits = r.draft.edits

\* Requests and facts about them.
LEMMA RequestOf ==
  ASSUME DraftInv, NEW r \in requests
  PROVE  /\ r \in Request /\ AnswerSound(r)
         /\ r.kind # "open" =>
              /\ r.draft \in Snapshot /\ Agrees(r.draft) /\ r.draft.id \in DOMAIN drafts
         /\ Copy(r.reply) => r.reply \in Snapshot /\ Agrees(r.reply)
         /\ r.kind = "sync" => r.edits \in Content /\ r.draft.revision + 1 < MaxRevision
         /\ r.kind = "commit" => r.draft.revision < MaxRevision
<1>1. r \in Request
  BY DEF DraftInv, TypeOK
<1> QED BY <1>1, RequestIs
        DEF DraftInv, CopiesAgree, Bounded, Answers, Copy, Reply, Agrees

\* set_draft_changes exchanges the edits of a draft for those of the next revision.
LEMMA SyncMoves ==
  ASSUME DraftInv, NEW r \in requests, ExecuteSync(r)
  PROVE  /\ HostGoesOn
         /\ \E x \in Reply : requests' = Answered(r, x) /\ Says(r, x)'
<1> DEFINE i == r.draft.id
           old == drafts[i].now
<1>1. /\ HostSound /\ TypeOK /\ r \in Request /\ r.kind = "sync" /\ i \in DOMAIN drafts
      /\ r.edits \in Content /\ r.draft \in Snapshot /\ r.draft.revision + 1 < MaxRevision
  BY HostIsSound, RequestOf DEF DraftInv, ExecuteSync, Open
<1>2. /\ drafts[i] \in Draft /\ old \in Snapshot /\ old.id = i
      /\ drafts \in [DOMAIN drafts -> Draft] /\ Len(drafts) <= MaxDrafts
      /\ drafts \in Seq(Draft)
  BY <1>1, HostIs, LenProperties DEF Draft, HostSound
<1>3. UNCHANGED <<documents, operations, epoch, faults>>
  BY DEF ExecuteSync
<1>4. /\ epoch' \in Epochs /\ faults' \in 0..MaxFaults /\ epoch' <= faults' + 1
  BY <1>1, <1>3 DEF HostSound
<1>5. CASE Editable(r.draft) /\ ~Repeated(r)
  <2>1. old.revision = r.draft.revision /\ old.revision < MaxRevision
    BY <1>1, <1>5, DraftAssumption DEF Editable, Current, SameRef, Snapshot
  <2> DEFINE s == Synced(old, r.edits)
             e == [drafts[i] EXCEPT !.now = s, !.acked = TRUE]
  <2>2. /\ s \in Snapshot /\ s.id = i /\ s.edits = r.edits
        /\ s.document = old.document /\ s.revision = old.revision + 1
        /\ GoesOn(drafts[i], e)
    BY <1>1, <1>2, <2>1, DraftSynced
  <2>3. e.now = s /\ e \in Draft
    BY <1>2, <2>2, DraftWith
  <2>4. drafts' = [drafts EXCEPT ![i] = e] /\ requests' = Answered(r, drafts'[i].now)
    BY <1>2, <1>5 DEF ExecuteSync
  <2> HIDE DEF s, e
  <2>5. /\ drafts' \in [DOMAIN drafts -> Draft] /\ drafts'[i] = e
        /\ \A j \in DOMAIN drafts : GoesOn(drafts[j], drafts'[j])
    BY <1>1, <1>2, <2>2, <2>3, <2>4, DraftStays
  <2>6. /\ DraftsGoOn /\ drafts' \in Seq(Draft) /\ Len(drafts') = Len(drafts)
        /\ \A j \in DOMAIN drafts' : drafts'[j].now.id = j
    BY <1>1, <2>5, DraftsReplaced
  <2>7. HostGoesOn
    BY <1>2, <1>3, <1>4, <2>6, DraftsMove
  <2>8. requests' = Answered(r, s) /\ s \in Reply
    BY <2>2, <2>3, <2>4, <2>5 DEF Reply
  <2>9. PICK x \in Reply : x = s
    BY <2>8
  <2>10. Agrees(x)'
    BY <1>1, <2>2, <2>3, <2>5, <2>9, DraftAssumption DEF Agrees, Snapshot
  <2> QED BY <1>1, <2>1, <2>2, <2>7, <2>8, <2>9, <2>10 DEF Says
<1>6. CASE ~(Editable(r.draft) /\ ~Repeated(r))
  <2>1. /\ UNCHANGED drafts
        /\ requests' = Answered(r, IF Repeated(r) THEN old ELSE Nothing)
    BY <1>6 DEF ExecuteSync
  <2>2. HostGoesOn
    BY <1>3, <1>4, <2>1, HostStays
  <2>3. CASE Repeated(r)
    <3>1. old.edits = r.edits /\ old.revision = r.draft.revision + 1
      BY <2>3 DEF Repeated
    <3>2. Agrees(old)'
      BY <1>1, <1>2, <2>1, DraftAssumption DEF Agrees, Snapshot
    <3>3. PICK x \in Reply : x = old
      BY <1>2 DEF Reply
    <3>4. Says(r, x)'
      BY <1>1, <1>2, <2>1, <3>1, <3>2, <3>3 DEF Says
    <3> QED BY <2>1, <2>2, <2>3, <3>3, <3>4
  <2>4. CASE ~Repeated(r)
    BY <2>1, <2>2, <2>4 DEF Reply, Copy, Says
  <2> QED BY <2>3, <2>4
<1> QED BY <1>5, <1>6

\* A commit is admitted once, and only for the draft as the host has it.
LEMMA CommitMoves ==
  ASSUME DraftInv, NEW r \in requests, ExecuteCommit(r)
  PROVE  /\ HostGoesOn
         /\ \E x \in Reply :
              requests' = Answered(r, x) /\ x # Unanswered /\ Says(r, x)'
         /\ \/ UNCHANGED operations
            \/ /\ SaveOf(r.draft) = {}
               /\ \E o \in Operation : o.draft = r.draft /\ operations' = Append(operations, o)
<1>1. /\ HostSound /\ TypeOK /\ r \in Request /\ r.kind = "commit"
      /\ r.draft \in Snapshot /\ Agrees(r.draft) /\ r.draft.revision < MaxRevision
  BY HostIsSound, RequestOf DEF DraftInv, ExecuteCommit, Open
<1>2. UNCHANGED <<documents, drafts, epoch, faults>>
  BY DEF ExecuteCommit
<1>3. epoch' \in Epochs /\ faults' \in 0..MaxFaults /\ epoch' <= faults' + 1
  BY <1>1, <1>2 DEF HostSound
<1>4. DraftsGoOn
  BY <1>1, <1>2, HostIs, DraftStays DEF DraftsGoOn
<1>5. Agrees(r.draft)'
  BY <1>1, <1>2 DEF Agrees
<1>6. CASE UNCHANGED operations
  <2>1. HostGoesOn
    BY <1>2, <1>3, <1>6, HostStays
  <2>2. \E x \in {Nothing, r.draft} : requests' = Answered(r, x)
    BY DEF ExecuteCommit
  <2>3. Says(r, Nothing)' /\ Says(r, r.draft)'
    BY <1>1, <1>5 DEF Says, Copy
  <2> QED BY <1>1, <1>6, <2>1, <2>2, <2>3, SnapshotIsCopy, DraftAssumption DEF Reply
<1>7. CASE /\ SaveOf(r.draft) = {} /\ MayAdmit(r.draft)
           /\ operations' = Append(operations,
                [draft |-> r.draft, document |-> r.draft.document, status |-> "running"])
           /\ requests' = Answered(r, r.draft)
  <2> DEFINE o == [draft |-> r.draft, document |-> r.draft.document, status |-> "running"]
  <2>1. o \in Operation /\ o.draft = r.draft
    BY <1>1 DEF Operation, Snapshot
  <2>2. operations' = Append(operations, o) /\ operations \in Seq(Operation)
    BY <1>1, <1>7 DEF HostSound
  <2> HIDE DEF o
  <2>3. /\ Len(operations) \in Nat /\ DOMAIN operations = 1..Len(operations)
        /\ operations' \in Seq(Operation)
        /\ DOMAIN operations' = 1..Len(operations) + 1
        /\ \A k \in DOMAIN operations : operations'[k] = operations[k]
        /\ operations'[Len(operations) + 1] = o
    BY <2>1, <2>2, LenProperties, AppendProperties
  <2>4. OperationsGoOn
    BY <2>3 DEF OperationsGoOn
  <2>5. \A k \in DOMAIN operations' :
          Agrees(operations[k].draft)' /\ operations'[k].draft.revision < MaxRevision
    <3>1. ASSUME NEW k \in DOMAIN operations
          PROVE  Agrees(operations[k].draft)' /\ operations'[k].draft.revision < MaxRevision
      BY <1>1, <1>2, <2>3 DEF HostSound, Agrees
    <3>2. ASSUME NEW k, k = Len(operations) + 1
          PROVE  Agrees(operations[k].draft)' /\ operations'[k].draft.revision < MaxRevision
      BY <1>1, <1>2, <2>1, <2>3, <3>2 DEF Agrees
    <3> QED BY <2>3, <3>1, <3>2
  <2>6. SavedOnce'
    <3>1. \A k \in DOMAIN operations : operations[k].draft # r.draft
      BY <1>7 DEF SaveOf
    <3> QED BY <1>1, <2>1, <2>3, <3>1 DEF SavedOnce, HostSound
  <2>7. HostSound'
    BY <1>1, <1>2, <1>3, <2>3, <2>5, <2>6 DEF HostSound
  <2>8. Says(r, r.draft)' /\ r.draft # Unanswered
    BY <1>1, <1>5, SnapshotIsCopy DEF Says
  <2> QED BY <1>1, <1>4, <1>7, <2>1, <2>2, <2>4, <2>7, <2>8 DEF HostGoesOn, Reply
<1> QED BY <1>6, <1>7 DEF ExecuteCommit

\* A host in which one draft is replaced goes on.
LEMMA DraftMoves ==
  ASSUME DraftInv, UNCHANGED <<documents, operations, epoch, faults>>,
         NEW i \in DOMAIN drafts, NEW e, GoesOn(drafts[i], e),
         drafts' = [drafts EXCEPT ![i] = e]
  PROVE  HostGoesOn
<1>1. HostSound /\ TypeOK
  BY HostIsSound DEF DraftInv
<1>2. /\ \A j \in DOMAIN drafts : drafts[j] \in Draft
      /\ drafts \in [DOMAIN drafts -> Draft] /\ Len(drafts) <= MaxDrafts
  <2>1. drafts \in [1..Len(drafts) -> Draft] /\ Len(drafts) <= MaxDrafts
    BY <1>1, LenProperties DEF HostSound
  <2> QED BY <1>1, <2>1, HostIs
<1>3. /\ drafts' \in [DOMAIN drafts -> Draft]
      /\ \A j \in DOMAIN drafts : GoesOn(drafts[j], drafts'[j])
  BY <1>2, DraftStays DEF GoesOn
<1>4. /\ DraftsGoOn /\ drafts' \in Seq(Draft) /\ Len(drafts') = Len(drafts)
      /\ \A j \in DOMAIN drafts' : drafts'[j].now.id = j
  BY <1>1, <1>3, DraftsReplaced
<1>5. /\ epoch' \in Epochs /\ faults' \in 0..MaxFaults /\ epoch' <= faults' + 1
  BY <1>1 DEF HostSound
<1> QED BY <1>2, <1>4, <1>5, DraftsMove

\* A draft is discarded whatever becomes of it.
LEMMA DiscardMoves ==
  ASSUME DraftInv, NEW r \in requests, ExecuteDiscard(r)
  PROVE  /\ HostGoesOn
         /\ \E x \in Reply : requests' = Answered(r, x) /\ Says(r, x)'
<1> DEFINE i == r.draft.id
<1>1. /\ TypeOK /\ r \in Request /\ r.kind = "discard" /\ i \in DOMAIN drafts
      /\ r.draft \in Snapshot /\ Agrees(r.draft)
  BY RequestOf DEF DraftInv, ExecuteDiscard, Open
<1>2. drafts[i] \in Draft /\ drafts[i].live \in BOOLEAN
  BY <1>1, HostIs DEF Draft
<1>3. PICK o \in BOOLEAN : o = (drafts[i].live /\ ~Current(r.draft))
  OBVIOUS
<1> DEFINE e == [drafts[i] EXCEPT !.live = o]
<1>4. drafts' = [drafts EXCEPT ![i] = e]
  BY <1>1, <1>3 DEF ExecuteDiscard
<1>5. GoesOn(drafts[i], e) /\ e.live = o
  BY <1>2, <1>3, DraftStaled DEF Draft
<1> HIDE DEF e
<1>6. HostGoesOn
  BY <1>1, <1>4, <1>5, DraftMoves DEF ExecuteDiscard
<1>7. drafts'[i].live = o
  BY <1>1, <1>4, <1>5
<1>8. CASE Current(r.draft)
  <2>1. requests' = Answered(r, r.draft)
    BY <1>8 DEF ExecuteDiscard
  <2>2. ~drafts'[i].live
    BY <1>3, <1>7, <1>8
  <2>3. Agrees(r.draft)'
    BY <1>1, <1>6, AgreesGoesOn DEF HostGoesOn
  <2>4. Says(r, r.draft)'
    BY <1>1, <2>2, <2>3 DEF Says
  <2> QED BY <1>1, <1>6, <2>1, <2>4 DEF Reply
<1>9. CASE ~Current(r.draft)
  <2>1. requests' = Answered(r, Nothing)
    BY <1>9 DEF ExecuteDiscard
  <2>2. Says(r, Nothing)'
    BY DEF Says, Copy
  <2> QED BY <1>6, <2>1, <2>2 DEF Reply
<1> QED BY <1>8, <1>9

\* A draft that is opened has an identity of its own.
LEMMA OpenMoves ==
  ASSUME DraftInv, NEW r \in requests, ExecuteOpen(r)
  PROVE  /\ HostGoesOn
         /\ \E x \in Reply :
              /\ requests' = Answered(r, x) /\ Says(r, x)'
              /\ Copy(x) => x.id \notin DOMAIN drafts
<1>1. /\ HostSound /\ TypeOK /\ r \in Request /\ r.kind = "open" /\ r.document \in Versions
  BY HostIsSound, RequestOf, RequestIs DEF DraftInv, ExecuteOpen, Open
<1>2. UNCHANGED <<documents, operations, epoch, faults>>
  BY DEF ExecuteOpen
<1>3. epoch' \in Epochs /\ faults' \in 0..MaxFaults /\ epoch' <= faults' + 1
  BY <1>1, <1>2 DEF HostSound
<1>4. CASE r.document = Latest /\ Len(drafts) < MaxDrafts
  <2> DEFINE n == Len(drafts) + 1
             s == [id |-> n, document |-> r.document, revision |-> 0,
                   edits |-> NoEdits, state |-> "clean"]
             d == [epoch |-> epoch, live |-> TRUE, acked |-> FALSE, now |-> s]
  <2>1. /\ Len(drafts) \in Nat /\ DOMAIN drafts = 1..Len(drafts)
        /\ n \in 1..MaxDrafts /\ n \notin DOMAIN drafts
    BY <1>1, <1>4, HostIs, DraftAssumption
  <2>2. s \in Snapshot /\ s.id = n
    BY <1>1, <2>1, DraftAssumption DEF Snapshot, Content
  <2>3. drafts' = Append(drafts, d) /\ requests' = Answered(r, s)
    BY <1>4 DEF ExecuteOpen
  <2> HIDE DEF s
  <2>4. d \in Draft /\ d.now = s
    BY <1>1, <2>2 DEF Draft, HostSound
  <2> HIDE DEF d
  <2>5. /\ drafts' \in Seq(Draft) /\ Len(drafts') = n /\ DOMAIN drafts' = 1..n
        /\ \A j \in DOMAIN drafts : drafts'[j] = drafts[j]
        /\ drafts'[n] = d
    <3>1. drafts \in Seq(Draft)
      BY <1>1 DEF HostSound
    <3> QED BY <2>1, <2>3, <2>4, <3>1, LenProperties, AppendProperties
  <2>6. DraftsGoOn
    BY <1>1, <2>1, <2>5, HostIs, DraftStays DEF DraftsGoOn
  <2>7. \A j \in DOMAIN drafts' : drafts'[j].now.id = j
    BY <1>1, <2>1, <2>2, <2>4, <2>5 DEF HostSound
  <2>8. HostGoesOn
    BY <1>2, <1>3, <2>1, <2>5, <2>6, <2>7, DraftsMove
  <2>9. PICK x \in Reply : x = s
    BY <2>2 DEF Reply
  <2>10. Says(r, x)'
    <3>1. x.id = n /\ n \in DOMAIN drafts' /\ drafts'[n].now = x /\ x.revision \in Nat
      BY <2>1, <2>2, <2>4, <2>5, <2>9 DEF Snapshot
    <3>2. Agrees(x)'
      BY <3>1 DEF Agrees
    <3> QED BY <1>1, <2>2, <2>9, <3>2 DEF Says
  <2> QED BY <2>1, <2>2, <2>3, <2>8, <2>9, <2>10
<1>5. CASE ~(r.document = Latest /\ Len(drafts) < MaxDrafts)
  <2>1. requests' = Answered(r, Nothing) /\ UNCHANGED drafts
    BY <1>5 DEF ExecuteOpen
  <2>2. HostGoesOn
    BY <1>2, <1>3, <2>1, HostStays
  <2> QED BY <2>1, <2>2 DEF Says, Copy, Reply
<1> QED BY <1>4, <1>5

\* get_draft answers with what the draft has become.
LEMMA GetMoves ==
  ASSUME DraftInv, NEW r \in requests, ExecuteGet(r)
  PROVE  /\ HostGoesOn
         /\ \E x \in Reply : requests' = Answered(r, x) /\ Says(r, x)'
<1> DEFINE i == r.draft.id
<1>1. /\ HostSound /\ TypeOK /\ r \in Request /\ r.kind = "get" /\ i \in DOMAIN drafts
      /\ r.draft \in Snapshot /\ Agrees(r.draft)
  BY HostIsSound, RequestOf DEF DraftInv, ExecuteGet, Open
<1>2. /\ drafts[i] \in Draft /\ drafts[i].now \in Snapshot /\ drafts[i].now.id = i
      /\ drafts[i].now.revision \in Nat
  BY <1>1, HostIs DEF Draft, HostSound, Snapshot
<1>3. UNCHANGED host
  BY DEF ExecuteGet, host
<1>4. HostGoesOn
  BY <1>1, <1>3, HostStays DEF HostSound, host
<1>5. PICK x \in Reply : x = IF drafts[i].live THEN drafts[i].now ELSE Nothing
  BY <1>2 DEF Reply
<1>6. requests' = Answered(r, x)
  BY <1>5 DEF ExecuteGet
<1>7. Says(r, x)'
  BY <1>1, <1>2, <1>3, <1>5 DEF Says, Agrees, Copy, host
<1> QED BY <1>4, <1>6, <1>7

\* Drafts of another version become stale, and nothing else.
LEMMA StaleMoves ==
  ASSUME DraftInv, drafts' = Staled(Latest), UNCHANGED <<documents, operations, epoch, faults>>
  PROVE  HostGoesOn
<1>1. HostSound /\ TypeOK
  BY HostIsSound DEF DraftInv
<1>2. \A i \in DOMAIN drafts : drafts[i] \in Draft
  BY <1>1, HostIs
<1>3. \A i \in DOMAIN drafts :
        /\ GoesOn(drafts[i], drafts[i])
        /\ GoesOn(drafts[i], [drafts[i] EXCEPT !.now.state = "stale"])
  BY <1>2, DraftStays, DraftStaled
<1>4. \A i \in DOMAIN drafts : GoesOn(drafts[i], drafts'[i])
  BY <1>3 DEF Staled
<1>5. drafts' \in [DOMAIN drafts -> Draft]
  <2>1. \A i \in DOMAIN drafts : drafts'[i] \in Draft
    BY <1>4 DEF GoesOn
  <2> QED BY <2>1 DEF Staled
<1>6. /\ DraftsGoOn /\ drafts' \in Seq(Draft) /\ Len(drafts') = Len(drafts)
      /\ \A j \in DOMAIN drafts' : drafts'[j].now.id = j
  BY <1>1, <1>4, <1>5, DraftsReplaced
<1> QED BY <1>1, <1>6, DraftsMove DEF HostSound

\* What was saved is succeeded by a clean draft.
LEMMA SuccessorGoesOn ==
  ASSUME DraftInv, NEW k \in DOMAIN operations, NEW d \in Draft, NEW v \in Versions,
         IsSaved(d, operations[k].draft)
  PROVE  GoesOn(d, [d EXCEPT !.now = Successor(d.now, v), !.acked = FALSE])
<1>1. d.now.revision < MaxRevision
  BY HostIsSound DEF HostSound, IsSaved
<1> QED BY <1>1, DraftSucceeded

\* The owner replaced the document (publish_completion).
LEMMA SaveChangesMoves ==
  ASSUME DraftInv, NEW k \in DOMAIN operations, SaveChanges(k)
  PROVE  HostGoesOn
<1> DEFINE op == operations[k]
           v == Latest + 1
<1>1. /\ HostSound /\ TypeOK /\ op \in Operation
      /\ documents \in Seq(1..MaxTargets)
      /\ \A i \in DOMAIN drafts : drafts[i] \in Draft
  BY HostIsSound, HostIs DEF DraftInv, HostSound
<1>2. v \in Versions /\ Latest \in Nat /\ op.draft.document \in 1..Latest
  BY <1>1, HostIs, DraftAssumption DEF SaveChanges, Operation, Snapshot, Versions
<1>3. TargetOf(op.draft) \in 1..MaxTargets
  BY <1>1, <1>2, HostIs DEF TargetOf
<1>4. documents' \in Seq(1..MaxTargets) /\ Len(documents') \in Versions
  <2>1. documents' = Append(documents, TargetOf(op.draft))
    BY DEF SaveChanges
  <2> QED BY <1>1, <1>2, <1>3, <2>1, AppendProperties DEF Latest
<1>5. \A i \in DOMAIN drafts : GoesOn(drafts[i], drafts'[i])
  <2> SUFFICES ASSUME NEW i \in DOMAIN drafts PROVE GoesOn(drafts[i], drafts'[i])
    OBVIOUS
  <2> DEFINE d == drafts[i]
             new == [d EXCEPT !.now = Successor(d.now, v), !.acked = FALSE]
             stale == [d EXCEPT !.now.state = "stale"]
  <2>1. d \in Draft
    BY <1>1
  <2>2. GoesOn(d, d) /\ GoesOn(d, stale)
    BY <2>1, DraftStays, DraftStaled
  <2>3. IsSaved(d, op.draft) => GoesOn(d, new)
    BY <1>2, <2>1, SuccessorGoesOn
  <2>4. drafts' = Published(op, v)
    BY DEF SaveChanges
  <2>5. drafts'[i] = IF IsSaved(d, op.draft) THEN new
                     ELSE IF /\ d.live /\ d.now.document # v
                             /\ TargetOf(d.now) = TargetOf(op.draft)
                          THEN stale ELSE d
    BY <2>4 DEF Published
  <2> HIDE DEF new, stale
  <2> QED BY <2>2, <2>3, <2>5
<1>6. drafts' \in [DOMAIN drafts -> Draft]
  <2>1. \A i \in DOMAIN drafts : drafts'[i] \in Draft
    BY <1>5 DEF GoesOn
  <2>2. drafts' = Published(op, v)
    BY DEF SaveChanges
  <2> QED BY <2>1, <2>2 DEF Published
<1>7. op.status = "running" /\ Finish(k, "changed", v) /\ UNCHANGED <<epoch, faults>>
  BY DEF SaveChanges
<1> QED BY <1>2, <1>4, <1>5, <1>6, <1>7, SaveMoves

\* A save without a change makes at most the next revision of its draft.
LEMMA SaveFindsNoChangeMoves ==
  ASSUME DraftInv, NEW k \in DOMAIN operations, SaveFindsNoChange(k)
  PROVE  HostGoesOn
<1> DEFINE op == operations[k]
           i == op.draft.id
           d == drafts[i]
           v == d.now.document
           new == [d EXCEPT !.now = Successor(d.now, v), !.acked = FALSE]
<1>1. /\ HostSound /\ TypeOK /\ op \in Operation
      /\ i \in DOMAIN drafts
      /\ \A j \in DOMAIN drafts : drafts[j] \in Draft
  BY HostIsSound, HostIs DEF DraftInv, HostSound, Agrees
<1>2. /\ v \in Versions /\ op.draft.document \in Versions
      /\ drafts \in [DOMAIN drafts -> Draft]
  <2>1. drafts \in [1..Len(drafts) -> Draft]
    BY <1>1, LenProperties DEF HostSound
  <2> QED BY <1>1, <2>1, HostIs DEF Operation, Draft, Snapshot
<1>3. IsSaved(d, op.draft) => GoesOn(d, new)
  BY <1>1, <1>2, SuccessorGoesOn
<1>4. \/ UNCHANGED drafts
      \/ drafts' = [drafts EXCEPT ![i] = new] /\ IsSaved(d, op.draft)
  BY <1>1 DEF SaveFindsNoChange
<1> HIDE DEF new
<1>5. /\ drafts' \in [DOMAIN drafts -> Draft]
      /\ \A j \in DOMAIN drafts : GoesOn(drafts[j], drafts'[j])
  <2>1. \A j \in DOMAIN drafts : GoesOn(drafts[j], drafts[j])
    BY <1>1, DraftStays
  <2>2. CASE UNCHANGED drafts
    BY <1>2, <2>1, <2>2
  <2>3. CASE drafts' = [drafts EXCEPT ![i] = new] /\ IsSaved(d, op.draft)
    <3>1. GoesOn(d, new) /\ new \in Draft
      BY <1>3, <2>3 DEF GoesOn
    <3> QED BY <1>1, <1>2, <2>1, <2>3, <3>1
  <2> QED BY <1>4, <2>2, <2>3
<1>6. /\ op.status = "running" /\ Finish(k, "no_change", op.draft.document)
      /\ UNCHANGED <<epoch, faults, documents>>
  BY DEF SaveFindsNoChange
<1> QED BY <1>1, <1>2, <1>5, <1>6, SaveMoves DEF HostSound

\* A failed save changes no draft.
LEMMA SaveFailsMoves ==
  ASSUME DraftInv, NEW k \in DOMAIN operations, SaveFails(k)
  PROVE  HostGoesOn
<1>1. /\ HostSound /\ TypeOK /\ operations[k] \in Operation
      /\ \A j \in DOMAIN drafts : drafts[j] \in Draft
  BY HostIsSound, HostIs DEF DraftInv
<1>2. /\ operations[k].document \in Versions
      /\ drafts \in [DOMAIN drafts -> Draft]
  <2>1. drafts \in [1..Len(drafts) -> Draft]
    BY <1>1, LenProperties DEF HostSound
  <2> QED BY <1>1, <2>1, HostIs DEF Operation
<1>3. /\ operations[k].status = "running"
      /\ Finish(k, "failed", operations[k].document)
      /\ UNCHANGED <<epoch, faults, documents, drafts>>
  BY DEF SaveFails
<1>4. \A j \in DOMAIN drafts : GoesOn(drafts[j], drafts'[j])
  BY <1>1, <1>3, DraftStays
<1> QED BY <1>1, <1>2, <1>3, <1>4, SaveMoves DEF HostSound

\* A new version of the document changes no draft.
LEMMA ForeignChangeMoves ==
  ASSUME DraftInv, NEW target \in 1..MaxTargets, ForeignChange(target)
  PROVE  HostGoesOn
<1>1. HostSound /\ TypeOK
  BY HostIsSound DEF DraftInv
<1>2. documents' \in Seq(1..MaxTargets) /\ Len(documents') \in Versions
  <2>1. documents' = Append(documents, target) /\ documents \in Seq(1..MaxTargets)
    BY <1>1 DEF ForeignChange, HostSound
  <2>2. Latest < MaxDocuments /\ Len(documents') = Len(documents) + 1
    BY <2>1, AppendProperties DEF ForeignChange
  <2> QED BY <1>1, <2>1, <2>2, HostIs, AppendProperties, DraftAssumption
          DEF Latest, Versions
<1>3. UNCHANGED <<drafts, operations, epoch>> /\ faults' = faults + 1 /\ faults < MaxFaults
  BY DEF ForeignChange, Fault
<1>4. epoch' \in Epochs /\ faults' \in 0..MaxFaults /\ epoch' <= faults' + 1
  BY <1>1, <1>3, DraftAssumption DEF HostSound, Epochs
<1>5. DraftsGoOn /\ OperationsGoOn
  BY <1>1, <1>3, HostIs, DraftStays DEF DraftsGoOn, OperationsGoOn
<1>6. HostSound'
  BY <1>1, <1>2, <1>3, <1>4 DEF HostSound, Agrees, SavedOnce
<1> QED BY <1>5, <1>6 DEF HostGoesOn

\* A new host drops every draft, and forgets none of their revisions.
LEMMA RestartMoves ==
  ASSUME DraftInv, Restart
  PROVE  HostGoesOn /\ epoch' = epoch + 1
<1>1. HostSound /\ TypeOK /\ \A j \in DOMAIN drafts : drafts[j] \in Draft
  BY HostIsSound, HostIs DEF DraftInv
<1>2. /\ UNCHANGED <<documents, operations>> /\ epoch' = epoch + 1
      /\ faults' = faults + 1 /\ faults < MaxFaults
  BY DEF Restart, Fault
<1>3. epoch' \in Epochs /\ faults' \in 0..MaxFaults /\ epoch' <= faults' + 1
  BY <1>1, <1>2, DraftAssumption DEF HostSound, Epochs
<1>4. \A i \in DOMAIN drafts : GoesOn(drafts[i], drafts'[i])
  BY <1>1, DraftStaled DEF Restart
<1>5. drafts' \in [DOMAIN drafts -> Draft]
  <2>1. \A i \in DOMAIN drafts : drafts'[i] \in Draft
    BY <1>4 DEF GoesOn
  <2> QED BY <2>1 DEF Restart
<1>6. /\ DraftsGoOn /\ drafts' \in Seq(Draft) /\ Len(drafts') = Len(drafts)
      /\ \A j \in DOMAIN drafts' : drafts'[j].now.id = j
  BY <1>1, <1>4, <1>5, DraftsReplaced
<1> QED BY <1>1, <1>2, <1>3, <1>6, DraftsMove DEF HostSound

-----------------------------------------------------------------------------
(* The invariant in parts                                                  *)

RequestSound(r) ==
  /\ r \in Request
  /\ r.kind # "open" => Agrees(r.draft)
  /\ r.kind = "sync" => r.draft.revision + 1 < MaxRevision
  /\ r.kind = "commit" => r.draft.revision < MaxRevision
  /\ Says(r, r.reply)

RequestsSound == \A r \in requests : RequestSound(r)

Work == [draft : Snapshot \cup {Nothing}, edits : Content,
         conflict : BOOLEAN, pending : BOOLEAN, busy : BOOLEAN, moved : BOOLEAN,
         binding : 0..MaxTargets,
         baseline : [reason : {"save", "discard"}, document : Versions,
                     epoch : Epochs] \cup {Nothing}]
Flow == [kind : WithDraft \cup {"idle", "reading", "opening"},
         purpose : {"navigation", "in_place"}, replay : BOOLEAN]

WorkSound ==
  /\ work \in Work /\ flow \in Flow
  /\ work.busy => work.draft # Nothing \/ work.baseline # Nothing
  /\ work.draft # Nothing => Agrees(work.draft)
  /\ TransitionHeld

HostKnown == known \in 1..epoch

\* The invariant is that each part of the system is sound, and how they relate.
LEMMA InvariantParts ==
  DraftInv <=>
    /\ HostSound /\ RequestsSound /\ WorkSound /\ HostKnown
    /\ AskedOnce /\ CapturedIsCurrent /\ WorkNotWritten /\ OpenedAreFresh
<1>1. ASSUME DraftInv
      PROVE  /\ HostSound /\ RequestsSound /\ WorkSound /\ HostKnown
             /\ AskedOnce /\ CapturedIsCurrent /\ WorkNotWritten /\ OpenedAreFresh
  <2>1. HostSound
    BY <1>1, HostIsSound
  <2>2. RequestsSound
    BY <1>1, RequestOf DEF RequestsSound, RequestSound, Says, AnswerSound
  <2>3. work \in Work /\ flow \in Flow
    BY <1>1 DEF DraftInv, TypeOK, Work, Flow, WithDraft, Saving
  <2>4. work.draft # Nothing => Agrees(work.draft)
    BY <1>1, <2>3, SnapshotIsCopy DEF DraftInv, CopiesAgree, Work
  <2> QED BY <1>1, <2>1, <2>2, <2>3, <2>4 DEF DraftInv, TypeOK, WorkSound, HostKnown
<1>2. ASSUME HostSound, RequestsSound, WorkSound, HostKnown,
             AskedOnce, CapturedIsCurrent, WorkNotWritten, OpenedAreFresh
      PROVE  DraftInv
  <2>1. TypeOK
    BY <1>2 DEF TypeOK, HostSound, RequestsSound, RequestSound, WorkSound, Draft,
                Operation, Work, Flow, WithDraft, Saving, HostKnown
  <2>2. Bounded
    BY <1>2 DEF Bounded, HostSound, RequestsSound, RequestSound
  <2>3. CopiesAgree
    BY <1>2 DEF CopiesAgree, HostSound, RequestsSound, RequestSound, WorkSound, Says, Copy
  <2>4. Answers
    BY <1>2 DEF Answers, AnswerSound, RequestsSound, RequestSound, Says
  <2> QED BY <1>2, <2>1, <2>2, <2>3, <2>4 DEF DraftInv, HostSound, WorkSound
<1> QED BY <1>1, <1>2

\* Requests stay sound while drafts go on.
LEMMA RequestGoesOn ==
  ASSUME DraftInv, DraftsGoOn, NEW r \in requests
  PROVE  RequestSound(r)'
<1>1. RequestSound(r) /\ TypeOK
  BY InvariantParts DEF RequestsSound, DraftInv
<1>2. /\ r.kind # "open" => r.draft \in Snapshot /\ r.draft.id \in DOMAIN drafts
      /\ Copy(r.reply) => r.reply \in Snapshot
  BY RequestOf
<1>3. r.kind # "open" => Agrees(r.draft)'
  BY <1>1, <1>2, AgreesGoesOn DEF RequestSound
<1>4. Copy(r.reply) => Agrees(r.reply)'
  BY <1>1, <1>2, AgreesGoesOn DEF RequestSound, Says
<1>5. ~drafts[r.draft.id].live /\ r.kind = "discard" => ~drafts'[r.draft.id].live
  BY <1>2 DEF DraftsGoOn, GoesOn
<1> QED BY <1>1, <1>3, <1>4, <1>5 DEF RequestSound, Says, Copy

\* The same request, answered or given up.
LEMMA RequestAnswered ==
  ASSUME DraftInv, DraftsGoOn, NEW r \in requests, NEW q \in Request, Asks(q, r),
         Says(r, q.reply)'
  PROVE  RequestSound(q)'
<1>1. RequestSound(r)' /\ r \in Request
  BY RequestGoesOn, RequestOf
<1>2. Says(q, q.reply)'
  BY <1>1 DEF Asks, Says
<1> QED BY <1>1, <1>2 DEF RequestSound, Asks

\* The work stays sound while drafts go on.
LEMMA WorkGoesOn ==
  ASSUME DraftInv, DraftsGoOn, UNCHANGED <<work, flow>>
  PROVE  WorkSound'
<1>1. WorkSound /\ TypeOK
  BY InvariantParts DEF DraftInv
<1>2. work.draft # Nothing => work.draft \in Snapshot
  BY <1>1 DEF WorkSound, Work
<1>3. work.draft # Nothing => Agrees(work.draft)'
  <2> SUFFICES ASSUME NEW s, s = work.draft, s # Nothing PROVE Agrees(s)'
    BY DEF Agrees
  <2> QED BY <1>1, <1>2, AgreesGoesOn DEF WorkSound
<1> QED BY <1>1, <1>3 DEF WorkSound, TransitionHeld, Agrees

-----------------------------------------------------------------------------
(* What has been submitted of the work                                     *)

SavesGoOn == OperationsGoOn /\ DOMAIN operations' = DOMAIN operations

\* Where all saves have failed, they have while no other is admitted or asked for.
LEMMA SavesStayFailed ==
  ASSUME SavesGoOn, NEW id, NEW S, NEW T, SavesFailed(id, S),
         \A q \in requests' \ T : q.kind = "commit" =>
           \E r \in requests \ S : r.kind = "commit" /\ r.draft = q.draft
  PROVE  SavesFailed(id, T)'
<1>1. \A s : SaveOf(s) # {} => SaveOf(s)' # {}
  BY DEF SaveOf, SavesGoOn, OperationsGoOn
<1>2. \A k \in DOMAIN operations' :
        operations'[k].draft.id = id => operations'[k].status = "failed"
  BY DEF SavesGoOn, OperationsGoOn, SavesFailed
<1>3. ASSUME NEW q \in requests' \ T, q.kind = "commit", q.draft.id = id
      PROVE  SaveOf(q.draft)' # {}
  BY <1>1, <1>3 DEF SavesFailed
<1> QED BY <1>2, <1>3 DEF SavesFailed

\* The save that is observed stays the only one under the same condition.
LEMMA SaveStaysObserved ==
  ASSUME SavesGoOn, NEW s, SaveIsObserved(s),
         \A q \in requests' : q.kind = "commit" =>
           q.draft = s \/ \E r \in requests : r.kind = "commit" /\ r.draft = q.draft
  PROVE  SaveIsObserved(s)'
<1>1. \A t : SaveOf(t) # {} => SaveOf(t)' # {}
  BY DEF SaveOf, SavesGoOn, OperationsGoOn
<1>2. \A k \in DOMAIN operations' :
        operations'[k].draft.id = s.id /\ operations'[k].status # "failed" =>
          operations'[k].draft = s
  BY DEF SavesGoOn, OperationsGoOn, SaveIsObserved
<1>3. ASSUME NEW q \in requests', q.kind = "commit", q.draft.id = s.id, q.draft # s
      PROVE  SaveOf(q.draft)' # {}
  BY <1>1, <1>3 DEF SaveIsObserved
<1> QED BY <1>2, <1>3 DEF SaveIsObserved

\* Commits go on as they were, or the facade waits for none.
CommitsGoOn ==
  \/ \A q \in requests' : q.kind = "commit" => q \in requests
  \/ /\ \A q \in requests' : q.kind = "commit" =>
          \E r \in requests : r.kind = "commit" /\ r.draft = q.draft
     /\ \A q \in requests' : q.kind = "commit" /\ q.by = "facade" => q.reply # Unanswered

\* What is known of the submitted save holds until the transition moves on.
LEMMA SubmittedStays ==
  ASSUME DraftInv, SavesGoOn, CommitsGoOn, UNCHANGED flow, work'.draft = work.draft
  PROVE  WorkNotWritten'
<1>1. SUFFICES ASSUME NEW s, s = work.draft, s # Nothing
               PROVE /\ flow.kind \notin Submitting => SavesFailed(s.id, {})'
                     /\ flow.kind \in Submitting => SaveIsObserved(s)'
                     /\ flow.kind = "admitting" /\ ~flow.replay =>
                          \A r \in requests' :
                            r.kind = "commit" /\ r.by = "facade" /\ r.reply = Unanswered =>
                              SavesFailed(s.id, {r})'
  BY DEF WorkNotWritten, SavesFailed, SaveIsObserved
<1>2. WorkNotWritten
  BY DEF DraftInv
<1>3. \A q \in requests' : q.kind = "commit" =>
        \E r \in requests : r.kind = "commit" /\ r.draft = q.draft
  BY DEF CommitsGoOn
<1>4. ASSUME flow.kind \notin Submitting PROVE SavesFailed(s.id, {})'
  <2>1. SavesFailed(s.id, {})
    BY <1>1, <1>2, <1>4 DEF WorkNotWritten
  <2> QED BY <1>3, <2>1, SavesStayFailed
<1>5. ASSUME flow.kind \in Submitting PROVE SaveIsObserved(s)'
  BY <1>1, <1>2, <1>3, <1>5, SaveStaysObserved DEF WorkNotWritten
<1>6. ASSUME flow.kind = "admitting" /\ ~flow.replay,
             NEW r \in requests', r.kind = "commit", r.by = "facade", r.reply = Unanswered
      PROVE  SavesFailed(s.id, {r})'
  <2>1. \A q \in requests' : q.kind = "commit" => q \in requests
    BY <1>6 DEF CommitsGoOn
  <2>2. SavesFailed(s.id, {r})
    BY <1>1, <1>2, <1>6, <2>1 DEF WorkNotWritten
  <2> QED BY <2>1, <2>2, SavesStayFailed
<1> QED BY <1>4, <1>5, <1>6

\* Nothing is submitted of a draft whose saves have failed.
LEMMA NotSubmitted ==
  ASSUME DraftInv, SavesGoOn, flow'.kind \notin Submitting,
         \A q \in requests' : q.kind = "commit" =>
           \E r \in requests : r.kind = "commit" /\ r.draft = q.draft,
         work'.draft # Nothing => SavesFailed(work'.draft.id, {})
  PROVE  WorkNotWritten'
<1>1. SUFFICES ASSUME NEW s, s = work'.draft, s # Nothing PROVE SavesFailed(s.id, {})'
  BY DEF WorkNotWritten, SavesFailed, Submitting
<1> QED BY <1>1, SavesStayFailed

-----------------------------------------------------------------------------
(* Identities of drafts                                                    *)

\* Drafts that were opened stay fresh as long as no known draft is one of them.
LEMMA FreshStays ==
  ASSUME DraftInv, OperationsGoOn,
         \A q \in requests' : q.kind = "open" /\ Copy(q.reply) => q \in requests,
         \A q \in requests' : q.kind = "open" /\ Copy(q.reply) =>
           /\ work'.draft # Nothing => work'.draft.id # q.reply.id
           /\ \A p \in requests' : p.kind # "open" => p.draft.id # q.reply.id,
         \A k \in DOMAIN operations' : k \in DOMAIN operations
           \/ \E r \in requests : r.kind # "open" /\ operations'[k].draft = r.draft
  PROVE  OpenedAreFresh'
<1>1. OpenedAreFresh
  BY DEF DraftInv
<1>2. ASSUME NEW q \in requests', q.kind = "open", Copy(q.reply)
      PROVE  Untouched(q.reply.id)'
  <2>1. q \in requests /\ Untouched(q.reply.id)
    BY <1>1, <1>2 DEF OpenedAreFresh
  <2>2. \A k \in DOMAIN operations' : operations'[k].draft.id # q.reply.id
    BY <2>1 DEF Untouched, OperationsGoOn
  <2> QED BY <1>2, <2>2 DEF Untouched
<1> QED BY <1>1, <1>2 DEF OpenedAreFresh, Copy

\* No request is about a draft nobody has touched.
LEMMA FreshIsElsewhere ==
  ASSUME DraftInv, NEW r \in requests, r.kind = "open", Copy(r.reply)
  PROVE  /\ work.draft # Nothing => work.draft.id # r.reply.id
         /\ \A p \in requests : p.kind # "open" => p.draft.id # r.reply.id
         /\ SavesFailed(r.reply.id, {})
BY DEF DraftInv, OpenedAreFresh, Untouched, SavesFailed

-----------------------------------------------------------------------------
(* Steps of the host, which leave the work alone                           *)

\* The facade's request that is answered or given up is still the only one.
AskedStill ==
  /\ \A q \in requests' : \E r \in requests :
       Asks(q, r) /\ (q.by = "facade" => r.by = "facade")
  /\ \A p, q \in requests' : p.by = "facade" /\ q.by = "facade" => p = q

\* What the facade asked for stays what it waits for.
LEMMA AskedStays ==
  ASSUME DraftInv, UNCHANGED <<work, flow>>, AskedStill
  PROVE  AskedOnce' /\ CapturedIsCurrent'
<1>1. AskedOnce /\ CapturedIsCurrent
  BY DEF DraftInv
<1>2. AskedOnce'
  BY <1>1 DEF AskedOnce, AskedStill, Asks
<1>3. CapturedIsCurrent'
  BY <1>1 DEF CapturedIsCurrent, AskedStill, Asks
<1> QED BY <1>2, <1>3

\* What is put together for every step of the host.
LEMMA HostKeeps ==
  ASSUME DraftInv, HostGoesOn, UNCHANGED <<work, flow>>, HostKnown',
         RequestsSound', AskedStill, WorkNotWritten', OpenedAreFresh'
  PROVE  DraftInv'
<1>1. HostSound' /\ WorkSound'
  BY WorkGoesOn DEF HostGoesOn
<1>2. AskedOnce' /\ CapturedIsCurrent'
  BY AskedStays
<1> QED BY <1>1, <1>2, InvariantParts, PTL

\* An answer of the host: it says what is so, and what it opens is new.
LEMMA AnswerKeeps ==
  ASSUME DraftInv, HostGoesOn, UNCHANGED <<epoch, work, flow, known>>,
         NEW r \in requests, r.reply = Unanswered, NEW x \in Reply,
         requests' = Answered(r, x), Says(r, x)',
         r.kind = "open" /\ Copy(x) => x.id \notin DOMAIN drafts,
         r.kind = "commit" => x # Unanswered,
         WorkNotWritten' \/ UNCHANGED operations,
         UNCHANGED operations \/
           \E o \in Operation : o.draft = r.draft /\ operations' = Append(operations, o),
         UNCHANGED operations \/ r.kind = "commit"
  PROVE  DraftInv'
<1>1. /\ r \in Request /\ TypeOK
      /\ DraftsGoOn /\ OperationsGoOn /\ AskedOnce /\ OpenedAreFresh
  BY RequestOf DEF DraftInv, HostGoesOn
<1>2. PICK a \in Request :
        /\ Asks(a, r) /\ a.by = r.by /\ a.reply = x
        /\ \A q \in requests' : (q \in requests /\ q # r) \/ (q = a /\ r.by # "nobody")
  BY <1>1, AnsweredAre
<1>3. RequestsSound'
  <2>1. ASSUME NEW q \in requests' PROVE RequestSound(q)'
    <3>1. CASE q \in requests
      BY <1>1, <3>1, RequestGoesOn
    <3>2. CASE q = a
      BY <1>1, <1>2, <3>2, RequestAnswered
    <3> QED BY <1>2, <3>1, <3>2
  <2> QED BY <2>1 DEF RequestsSound
<1>4. AskedStill
  <2>1. \A q \in requests' : \E p \in requests :
          Asks(q, p) /\ (q.by = "facade" => p.by = "facade")
    BY <1>2 DEF Asks
  <2>2. \A p, q \in requests' : p.by = "facade" /\ q.by = "facade" => p = q
    BY <1>1, <1>2 DEF AskedOnce
  <2> QED BY <2>1, <2>2 DEF AskedStill
<1>5. CommitsGoOn
  <2>1. CASE r.kind # "commit" \/ r.by = "nobody"
    BY <1>2, <2>1 DEF CommitsGoOn, Asks
  <2>2. CASE r.kind = "commit" /\ r.by # "nobody"
    <3>1. r.by = "facade"
      BY <1>1, <2>2 DEF Request
    <3>2. \A q \in requests' : q.kind = "commit" =>
            \E p \in requests : p.kind = "commit" /\ p.draft = q.draft
      BY <1>2, <2>2 DEF Asks
    <3>3. \A q \in requests' : q.by = "facade" => q = a
      BY <1>1, <1>2, <3>1 DEF AskedOnce
    <3> QED BY <1>2, <2>2, <3>2, <3>3 DEF CommitsGoOn
  <2> QED BY <2>1, <2>2
<1>6. WorkNotWritten'
  BY <1>1, <1>5, SubmittedStays DEF SavesGoOn
<1>7. OpenedAreFresh'
  <2>1. \A k \in DOMAIN operations' : k \in DOMAIN operations
          \/ \E p \in requests : p.kind # "open" /\ operations'[k].draft = p.draft
    <3>1. CASE UNCHANGED operations
      BY <3>1
    <3>2. CASE r.kind = "commit" /\ ~UNCHANGED operations
      <4>1. PICK o \in Operation : o.draft = r.draft /\ operations' = Append(operations, o)
        BY <3>2
      <4>2. operations \in Seq(Operation)
        BY <1>1 DEF TypeOK, Operation
      <4>3. /\ Len(operations) \in Nat /\ DOMAIN operations = 1..Len(operations)
            /\ DOMAIN operations' = 1..Len(operations) + 1
            /\ operations'[Len(operations) + 1] = o
        <5>1. /\ Len(operations) \in Nat /\ DOMAIN operations = 1..Len(operations)
              /\ DOMAIN Append(operations, o) = 1..Len(operations) + 1
              /\ Append(operations, o)[Len(operations) + 1] = o
          BY <4>2, AppendIs
        <5> QED BY <4>1, <5>1, Zenon
      <4>4. \A k \in DOMAIN operations' :
              k \in DOMAIN operations \/ operations'[k].draft = r.draft
        <5>1. \A k \in DOMAIN operations' :
                k \in DOMAIN operations \/ k = Len(operations) + 1
          BY <4>3
        <5> QED BY <4>1, <4>3, <5>1, Zenon
      <4>5. r \in requests /\ r.kind # "open"
        BY <3>2
      <4> QED BY <4>4, <4>5, Zenon
    <3> QED BY <3>1, <3>2
  <2>2. \A p \in requests' : p.kind # "open" => \E q \in requests :
          q.kind # "open" /\ p.draft = q.draft
    BY <1>2 DEF Asks
  <2>3. CASE r.kind # "open" \/ ~Copy(x)
    <3>1. \A q \in requests' : q.kind = "open" /\ Copy(q.reply) => q \in requests
      BY <1>2, <2>3 DEF Asks
    <3>2. \A q \in requests' : q.kind = "open" /\ Copy(q.reply) =>
            /\ work'.draft # Nothing => work'.draft.id # q.reply.id
            /\ \A p \in requests' : p.kind # "open" => p.draft.id # q.reply.id
      BY <2>2, <3>1, FreshIsElsewhere
    <3> QED BY <1>1, <2>1, <3>1, <3>2, FreshStays
  <2>4. CASE r.kind = "open" /\ Copy(x)
    <3>1. UNCHANGED operations /\ x.id \notin DOMAIN drafts
      BY <2>4
    <3>2. Untouched(x.id)
      <4>1. work.draft # Nothing => work.draft.id \in DOMAIN drafts
        BY InvariantParts DEF WorkSound, Agrees
      <4>2. \A k \in DOMAIN operations : operations[k].draft.id \in DOMAIN drafts
        BY HostIsSound DEF HostSound, Agrees
      <4> QED BY <3>1, <4>1, <4>2, RequestOf DEF Untouched
    <3>3. \A q \in requests : q.kind = "open" /\ Copy(q.reply) => q.reply.id # x.id
      BY <3>1, RequestOf DEF Agrees
    <3>4. \A i : Untouched(i) => Untouched(i)'
      BY <2>2, <3>1 DEF Untouched
    <3>5. \A q \in requests' : q.kind = "open" /\ Copy(q.reply) => Untouched(q.reply.id)'
      BY <1>1, <1>2, <3>2, <3>4 DEF OpenedAreFresh
    <3> QED BY <1>1, <1>2, <3>3, <3>5 DEF OpenedAreFresh, Copy
  <2> QED BY <2>3, <2>4
<1>8. HostKnown'
  BY DEF DraftInv, TypeOK, HostKnown
<1> QED BY <1>3, <1>4, <1>6, <1>7, <1>8, HostKeeps

\* A save that is admitted is the one the facade asked for.
LEMMA AdmissionIsObserved ==
  ASSUME DraftInv, NEW r \in requests, r.kind = "commit", SaveOf(r.draft) = {},
         NEW x \in Reply, x # Unanswered, requests' = Answered(r, x),
         NEW o \in Operation, o.draft = r.draft, operations' = Append(operations, o),
         UNCHANGED <<work, flow>>
  PROVE  WorkNotWritten'
<1>1. r \in Request /\ TypeOK /\ WorkNotWritten
  BY RequestOf DEF DraftInv
<1>2. PICK a \in Request :
        /\ Asks(a, r) /\ a.by = r.by /\ a.reply = x
        /\ \A q \in requests' : (q \in requests /\ q # r) \/ (q = a /\ r.by # "nobody")
  BY <1>1, AnsweredAre
<1>3. /\ DOMAIN operations \subseteq DOMAIN operations'
      /\ \A k \in DOMAIN operations : operations'[k] = operations[k]
      /\ \A k \in DOMAIN operations' : k \in DOMAIN operations \/ operations'[k] = o
  <2>1. operations \in Seq(Operation)
    BY <1>1 DEF TypeOK, Operation
  <2>2. /\ Len(operations) \in Nat /\ DOMAIN operations = 1..Len(operations)
        /\ DOMAIN operations' = 1..Len(operations) + 1
        /\ \A k \in DOMAIN operations : operations'[k] = operations[k]
        /\ operations'[Len(operations) + 1] = o
    BY <2>1, AppendIs
  <2>3. \A k \in DOMAIN operations' : k \in DOMAIN operations \/ k = Len(operations) + 1
    BY <2>2
  <2>4. DOMAIN operations \subseteq DOMAIN operations'
    BY <2>2
  <2> QED BY <2>2, <2>3, <2>4, Zenon
<1>4. \A t : SaveOf(t) # {} => SaveOf(t)' # {}
  BY <1>3 DEF SaveOf
<1>5. a.kind = "commit" /\ a.draft = r.draft
  BY <1>2 DEF Asks
<1>6. SUFFICES ASSUME NEW s, s = work.draft, s # Nothing
               PROVE /\ flow.kind \notin Submitting => SavesFailed(s.id, {})'
                     /\ flow.kind \in Submitting => SaveIsObserved(s)'
                     /\ flow.kind = "admitting" /\ ~flow.replay =>
                          \A q \in requests' :
                            q.kind = "commit" /\ q.by = "facade" /\ q.reply = Unanswered =>
                              SavesFailed(s.id, {q})'
  BY DEF WorkNotWritten, SavesFailed, SaveIsObserved
<1>7. ASSUME NEW S, SavesFailed(s.id, S), r \notin S, a \notin S
      PROVE  SavesFailed(s.id, S)'
  <2>1. r.draft.id # s.id
    BY <1>7 DEF SavesFailed
  <2>2. \A k \in DOMAIN operations' :
          operations'[k].draft.id = s.id => operations'[k].status = "failed"
    BY <1>3, <1>7, <2>1 DEF SavesFailed
  <2>3. \A q \in requests' \ S :
          q.kind = "commit" /\ q.draft.id = s.id => SaveOf(q.draft)' # {}
    BY <1>2, <1>4, <1>5, <1>7, <2>1 DEF SavesFailed
  <2> QED BY <2>2, <2>3 DEF SavesFailed
<1>8. ASSUME flow.kind \notin Submitting PROVE SavesFailed(s.id, {})'
  BY <1>1, <1>6, <1>7, <1>8 DEF WorkNotWritten
<1>9. ASSUME flow.kind \in Submitting PROVE SaveIsObserved(s)'
  <2>1. SaveIsObserved(s)
    BY <1>1, <1>6, <1>9 DEF WorkNotWritten
  <2>2. r.draft.id = s.id => r.draft = s
    BY <2>1 DEF SaveIsObserved
  <2>3. \A k \in DOMAIN operations' :
          operations'[k].draft.id = s.id /\ operations'[k].status # "failed" =>
            operations'[k].draft = s
    BY <1>3, <2>1, <2>2 DEF SaveIsObserved
  <2>4. \A q \in requests' :
          q.kind = "commit" /\ q.draft.id = s.id => q.draft = s \/ SaveOf(q.draft)' # {}
    BY <1>2, <1>4, <1>5, <2>1, <2>2 DEF SaveIsObserved
  <2> QED BY <2>3, <2>4 DEF SaveIsObserved
<1>10. ASSUME flow.kind = "admitting" /\ ~flow.replay,
              NEW q \in requests', q.kind = "commit", q.by = "facade", q.reply = Unanswered
       PROVE  SavesFailed(s.id, {q})'
  <2>1. q \in requests /\ q # r /\ q # a
    BY <1>2, <1>10
  <2>2. SavesFailed(s.id, {q})
    BY <1>1, <1>6, <1>10, <2>1 DEF WorkNotWritten
  <2> QED BY <1>7, <2>1, <2>2
<1> QED BY <1>8, <1>9, <1>10

\* Executing a request keeps the invariant (drafts.rs).
LEMMA ExecutionKeeps ==
  ASSUME DraftInv, NEW r \in requests,
         \/ ExecuteSync(r) \/ ExecuteCommit(r) \/ ExecuteDiscard(r)
         \/ ExecuteOpen(r) \/ ExecuteGet(r)
  PROVE  DraftInv'
<1>1. CASE ExecuteSync(r)
  <2>1. /\ r.reply = Unanswered /\ r.kind = "sync"
        /\ UNCHANGED <<operations, epoch, work, flow, known>>
    BY <1>1 DEF ExecuteSync, Open
  <2> QED BY <1>1, <2>1, SyncMoves, AnswerKeeps
<1>2. CASE ExecuteCommit(r)
  <2>1. /\ r.reply = Unanswered /\ r.kind = "commit"
        /\ UNCHANGED <<epoch, work, flow, known>>
    BY <1>2 DEF ExecuteCommit, Open
  <2>2. HostGoesOn
    BY <1>2, CommitMoves
  <2>3. PICK x \in Reply : requests' = Answered(r, x) /\ x # Unanswered /\ Says(r, x)'
    BY <1>2, CommitMoves
  <2>4. CASE UNCHANGED operations
    BY <2>1, <2>2, <2>3, <2>4, AnswerKeeps
  <2>5. CASE ~UNCHANGED operations
    <3>1. /\ SaveOf(r.draft) = {}
          /\ \E o \in Operation : o.draft = r.draft /\ operations' = Append(operations, o)
      BY <1>2, <2>5, CommitMoves
    <3>2. WorkNotWritten'
      BY <2>1, <2>3, <3>1, AdmissionIsObserved
    <3> QED BY <2>1, <2>2, <2>3, <3>1, <3>2, AnswerKeeps
  <2> QED BY <2>4, <2>5
<1>3. CASE ExecuteDiscard(r)
  <2>1. /\ r.reply = Unanswered /\ r.kind = "discard"
        /\ UNCHANGED <<operations, epoch, work, flow, known>>
    BY <1>3 DEF ExecuteDiscard, Open
  <2> QED BY <1>3, <2>1, DiscardMoves, AnswerKeeps
<1>4. CASE ExecuteOpen(r)
  <2>1. /\ r.reply = Unanswered /\ r.kind = "open"
        /\ UNCHANGED <<operations, epoch, work, flow, known>>
    BY <1>4 DEF ExecuteOpen, Open
  <2>2. HostGoesOn
    BY <1>4, OpenMoves
  <2>3. PICK x \in Reply : /\ requests' = Answered(r, x) /\ Says(r, x)'
                           /\ Copy(x) => x.id \notin DOMAIN drafts
    BY <1>4, OpenMoves
  <2> QED BY <2>1, <2>2, <2>3, AnswerKeeps
<1>5. CASE ExecuteGet(r)
  <2>1. /\ r.reply = Unanswered /\ r.kind = "get"
        /\ UNCHANGED <<operations, epoch, work, flow, known>>
    BY <1>5 DEF ExecuteGet, Open
  <2> QED BY <1>5, <2>1, GetMoves, AnswerKeeps
<1> QED BY <1>1, <1>2, <1>3, <1>4, <1>5

\* Requests that are left alone, or given up without an answer.
LEMMA WithoutAnswerKeeps ==
  ASSUME DraftInv, HostGoesOn, DOMAIN operations' = DOMAIN operations,
         UNCHANGED <<work, flow>>, HostKnown', AskedStill, CommitsGoOn,
         \A q \in requests' : q \in requests \/
           /\ q \in Request /\ q.reply \in {Nothing, Unanswered}
           /\ \E r \in requests : Asks(q, r)
  PROVE  DraftInv'
<1>1. DraftsGoOn /\ OperationsGoOn
  BY DEF HostGoesOn
<1>2. RequestsSound'
  <2>1. ASSUME NEW q \in requests' PROVE RequestSound(q)'
    <3>1. CASE q \in requests
      BY <1>1, <3>1, RequestGoesOn
    <3>2. CASE q \notin requests
      <4>1. q \in Request /\ Says(q, q.reply)'
        BY <3>2 DEF Says, Copy
      <4>2. PICK r \in requests : Asks(q, r)
        BY <3>2
      <4>3. Says(r, q.reply)'
        BY <3>2 DEF Says, Copy
      <4> QED BY <1>1, <4>1, <4>2, <4>3, RequestAnswered
    <3> QED BY <3>1, <3>2
  <2> QED BY <2>1 DEF RequestsSound
<1>3. WorkNotWritten'
  BY <1>1, SubmittedStays DEF SavesGoOn
<1>4. OpenedAreFresh'
  <2>1. \A q \in requests' : q.kind = "open" /\ Copy(q.reply) => q \in requests
    BY DEF Copy
  <2>2. \A p \in requests' : p.kind # "open" => \E q \in requests :
          q.kind # "open" /\ p.draft = q.draft
    BY DEF Asks
  <2>3. \A q \in requests' : q.kind = "open" /\ Copy(q.reply) =>
          /\ work'.draft # Nothing => work'.draft.id # q.reply.id
          /\ \A p \in requests' : p.kind # "open" => p.draft.id # q.reply.id
    BY <2>1, <2>2, FreshIsElsewhere
  <2> QED BY <1>1, <2>1, <2>3, FreshStays
<1> QED BY <1>2, <1>3, <1>4, HostKeeps

\* So do the steps of a running save, and somebody else's write.
LEMMA OwnStepKeeps ==
  ASSUME DraftInv,
         \/ \E k \in DOMAIN operations : SaveChanges(k) \/ SaveFindsNoChange(k) \/ SaveFails(k)
         \/ \E target \in 1..MaxTargets : ForeignChange(target)
  PROVE  DraftInv'
<1>1. /\ HostGoesOn /\ DOMAIN operations' = DOMAIN operations
      /\ UNCHANGED <<epoch, requests, known, work, flow>>
  <2>1. CASE \E target \in 1..MaxTargets : ForeignChange(target)
    BY <2>1, ForeignChangeMoves DEF ForeignChange
  <2>2. ASSUME NEW k \in DOMAIN operations, SaveChanges(k)
        PROVE  /\ HostGoesOn /\ DOMAIN operations' = DOMAIN operations
               /\ UNCHANGED <<epoch, requests, known, work, flow>>
    BY <2>2, SaveChangesMoves DEF SaveChanges, Finish
  <2>3. ASSUME NEW k \in DOMAIN operations, SaveFindsNoChange(k)
        PROVE  /\ HostGoesOn /\ DOMAIN operations' = DOMAIN operations
               /\ UNCHANGED <<epoch, requests, known, work, flow>>
    BY <2>3, SaveFindsNoChangeMoves DEF SaveFindsNoChange, Finish
  <2>4. ASSUME NEW k \in DOMAIN operations, SaveFails(k)
        PROVE  /\ HostGoesOn /\ DOMAIN operations' = DOMAIN operations
               /\ UNCHANGED <<epoch, requests, known, work, flow>>
    BY <2>4, SaveFailsMoves DEF SaveFails, Finish
  <2> QED BY <2>1, <2>2, <2>3, <2>4
<1>2. HostKnown' /\ AskedStill /\ CommitsGoOn
  BY <1>1 DEF DraftInv, TypeOK, HostKnown, AskedStill, AskedOnce, Asks, CommitsGoOn
<1> QED BY <1>1, <1>2, WithoutAnswerKeeps

\* So does the replacement of the host.
LEMMA RestartKeeps == ASSUME DraftInv, Restart PROVE DraftInv'
<1>1. HostGoesOn /\ epoch' = epoch + 1
  BY RestartMoves
<1>2. UNCHANGED <<operations, work, flow, known>> /\ TypeOK /\ AskedOnce
  BY DEF Restart, DraftInv
<1>3. HostKnown'
  BY <1>1, <1>2 DEF TypeOK, HostKnown, Epochs
<1>4. ASSUME NEW q \in requests'
      PROVE  \E r \in requests :
               /\ q \in Request /\ Asks(q, r) /\ q.by = r.by /\ q.reply # Unanswered
               /\ q = [r EXCEPT !.reply = IF r.reply = Unanswered THEN Nothing ELSE r.reply]
               /\ r.reply # Unanswered => q = r
               /\ r.reply = Unanswered => q.reply = Nothing
  <2>1. PICK r \in requests :
          q = [r EXCEPT !.reply = IF r.reply = Unanswered THEN Nothing ELSE r.reply]
    BY DEF Restart
  <2>2. PICK x : x = IF r.reply = Unanswered THEN Nothing ELSE r.reply
    OBVIOUS
  <2>3. r \in Request /\ x \in Reply /\ x # Unanswered
    BY <1>2, <2>2, RequestIs, DraftAssumption DEF TypeOK, Reply
  <2>4. q = [r EXCEPT !.reply = x]
    BY <2>1, <2>2
  <2>5. /\ q \in Request /\ Asks(q, r) /\ q.by = r.by /\ q.reply = x
        /\ x = r.reply => q = r
    BY <2>3, <2>4, AnsweredIs
  <2> QED BY <2>1, <2>2, <2>3, <2>5
<1>5. AskedStill
  <2>1. \A q \in requests' : \E r \in requests :
          Asks(q, r) /\ (q.by = "facade" => r.by = "facade")
    BY <1>4
  <2>2. ASSUME NEW p \in requests', NEW q \in requests', p.by = "facade", q.by = "facade"
        PROVE  p = q
    <3>1. PICK r \in requests :
            /\ p = [r EXCEPT !.reply = IF r.reply = Unanswered THEN Nothing ELSE r.reply]
            /\ r.by = "facade"
      BY <1>4, <2>2
    <3>2. PICK t \in requests :
            /\ q = [t EXCEPT !.reply = IF t.reply = Unanswered THEN Nothing ELSE t.reply]
            /\ t.by = "facade"
      BY <1>4, <2>2
    <3>3. r = t
      BY <1>2, <3>1, <3>2 DEF AskedOnce
    <3> QED BY <3>1, <3>2, <3>3
  <2> QED BY <2>1, <2>2 DEF AskedStill
<1>6. CommitsGoOn
  <2>1. \A q \in requests' : q.kind = "commit" =>
          \E r \in requests : r.kind = "commit" /\ r.draft = q.draft
    BY <1>4 DEF Asks
  <2> QED BY <1>4, <2>1 DEF CommitsGoOn
<1>7. \A q \in requests' : q \in requests \/
        /\ q \in Request /\ q.reply \in {Nothing, Unanswered}
        /\ \E r \in requests : Asks(q, r)
  BY <1>4
<1> QED BY <1>1, <1>2, <1>3, <1>5, <1>6, <1>7, WithoutAnswerKeeps

\* So does a lost answer, whose request may still be executed.
LEMMA LoseAnswerKeeps ==
  ASSUME DraftInv, NEW r \in requests, LoseAnswer(r) PROVE DraftInv'
<1>1. /\ TypeOK /\ AskedOnce /\ HostSound /\ r \in Request /\ r.by # "nobody"
      /\ UNCHANGED <<documents, drafts, operations, epoch, known, work, flow>>
      /\ faults < MaxFaults /\ faults' = faults + 1
  BY HostIsSound, RequestOf DEF DraftInv, LoseAnswer, Fault
<1>2. HostGoesOn
  <2>1. /\ epoch' \in Epochs /\ faults' \in 0..MaxFaults /\ epoch' <= faults' + 1
    BY <1>1, DraftAssumption DEF HostSound, Epochs
  <2> QED BY <1>1, <2>1, HostStays
<1>3. HostKnown'
  BY <1>1 DEF TypeOK, HostKnown
<1> DEFINE a == [r EXCEPT !.reply = Nothing]
           b == [r EXCEPT !.by = "nobody"]
<1>4. a \in Request /\ Asks(a, r) /\ a.by = r.by /\ a.reply = Nothing
  BY <1>1, AnsweredIs DEF Reply
<1>5. r.reply = Unanswered /\ r.kind \in {"sync", "commit", "discard"} =>
        b \in Request /\ Asks(b, r) /\ b.by = "nobody" /\ b.reply = Unanswered
  BY <1>1, ForgottenIs
<1>6. \A q \in requests' : \/ q \in requests /\ q # r
                           \/ q = a
                           \/ /\ q = b /\ r.reply = Unanswered
                              /\ r.kind \in {"sync", "commit", "discard"}
  BY DEF LoseAnswer
<1> HIDE DEF a, b
<1>7. AskedStill
  <2>1. \A q \in requests' : \E p \in requests :
          Asks(q, p) /\ (q.by = "facade" => p.by = "facade")
    BY <1>4, <1>5, <1>6 DEF Asks
  <2>2. \A p, q \in requests' : p.by = "facade" /\ q.by = "facade" => p = q
    BY <1>1, <1>4, <1>5, <1>6 DEF AskedOnce
  <2> QED BY <2>1, <2>2 DEF AskedStill
<1>8. CommitsGoOn
  <2>1. CASE r.kind # "commit"
    BY <1>4, <1>5, <1>6, <2>1 DEF CommitsGoOn, Asks
  <2>2. CASE r.kind = "commit"
    <3>1. r.by = "facade"
      BY <1>1, <2>2 DEF Request
    <3>2. \A q \in requests' : q.kind = "commit" =>
            \E p \in requests : p.kind = "commit" /\ p.draft = q.draft
      BY <1>4, <1>5, <1>6 DEF Asks
    <3>3. \A q \in requests' : q.by = "facade" => q = a
      BY <1>1, <1>5, <1>6, <3>1 DEF AskedOnce
    <3> QED BY <1>4, <3>2, <3>3, DraftAssumption DEF CommitsGoOn
  <2> QED BY <2>1, <2>2
<1>9. \A q \in requests' : q \in requests \/
        /\ q \in Request /\ q.reply \in {Nothing, Unanswered}
        /\ \E p \in requests : Asks(q, p)
  BY <1>4, <1>5, <1>6
<1> QED BY <1>1, <1>2, <1>3, <1>7, <1>8, <1>9, WithoutAnswerKeeps

-----------------------------------------------------------------------------
(* Steps of the client, in general                                         *)

\* The work keeps its draft, or loses it.
SameDraft == work'.draft # Nothing => work.draft # Nothing /\ work'.draft.id = work.draft.id

\* The host is as it was, but for drafts that became stale.
HostWaits ==
  /\ UNCHANGED operations /\ HostKnown'
  /\ HostGoesOn

\* A step of the client makes drafts stale and learns of the host at most.
LEMMA HostWaitsStill ==
  ASSUME DraftInv,
         UNCHANGED <<documents, operations, epoch, faults>>,
         UNCHANGED drafts \/ drafts' = Staled(Latest),
         UNCHANGED known \/ known' = epoch
  PROVE  HostWaits
<1>1. HostSound /\ TypeOK
  BY HostIsSound DEF DraftInv
<1>2. HostGoesOn
  BY <1>1, HostStays, StaleMoves DEF HostSound
<1>3. HostKnown'
  BY <1>1 DEF TypeOK, HostKnown, Epochs
<1> QED BY <1>2, <1>3 DEF HostWaits

\* What a step of the client adds to the requests is about its draft.
Asked(C) ==
  /\ requests' \subseteq requests \cup C
  /\ \A c \in C :
       /\ RequestSound(c)' /\ c.reply = Unanswered
       /\ c.kind # "open" => work.draft # Nothing /\ c.draft.id = work.draft.id

\* What is put together for every step of the client.
LEMMA ClientKeeps ==
  ASSUME DraftInv, HostWaits, NEW C, Asked(C), SameDraft,
         WorkSound', AskedOnce', CapturedIsCurrent', WorkNotWritten'
  PROVE  DraftInv'
<1>1. HostSound' /\ DraftsGoOn /\ OperationsGoOn /\ HostKnown' /\ UNCHANGED operations
  BY DEF HostWaits, HostGoesOn
<1>2. RequestsSound'
  <2>1. ASSUME NEW q \in requests' PROVE RequestSound(q)'
    BY <1>1, RequestGoesOn DEF Asked
  <2> QED BY <2>1 DEF RequestsSound
<1>3. OpenedAreFresh'
  <2>1. \A q \in requests' : q.kind = "open" /\ Copy(q.reply) => q \in requests
    BY DEF Asked, Copy
  <2>2. ASSUME NEW q \in requests', q.kind = "open", Copy(q.reply)
        PROVE  /\ work'.draft # Nothing => work'.draft.id # q.reply.id
               /\ \A p \in requests' : p.kind # "open" => p.draft.id # q.reply.id
    <3>1. /\ work.draft # Nothing => work.draft.id # q.reply.id
          /\ \A p \in requests : p.kind # "open" => p.draft.id # q.reply.id
      BY <2>1, <2>2, FreshIsElsewhere
    <3> QED BY <3>1 DEF Asked, SameDraft
  <2> QED BY <1>1, <2>1, <2>2, FreshStays
<1> QED BY <1>1, <1>2, <1>3, InvariantParts, PTL

\* Reconciliation notices changes, as they are marked.
LEMMA CapturedStays ==
  ASSUME DraftInv, \A q \in requests' : q.kind = "get" => q \in requests,
         work'.moved \/ (~work.moved /\ work'.draft = work.draft)
  PROVE  CapturedIsCurrent'
BY DEF DraftInv, CapturedIsCurrent

\* The facade waits in the states that are named for it, and in no other.
LEMMA NothingAsked ==
  ASSUME DraftInv, flow.kind \notin {"syncing", "admitting", "discarding", "opening"}
  PROVE  \A r \in requests : r.by # "facade"
BY RequestOf, RequestIs DEF DraftInv, AskedOnce, WaitingFor

\* The answer the facade waited for is gone, and there is no other.
LEMMA NothingAskedAnyMore ==
  ASSUME DraftInv, NEW r \in requests, r.by = "facade", requests' = requests \ {r}
  PROVE  \A q \in requests' : q.by # "facade"
BY DEF DraftInv, AskedOnce

\* Before and after the step nothing is submitted, and nothing is asked.
LEMMA QuietKeeps ==
  ASSUME DraftInv, HostWaits, requests' \subseteq requests, SameDraft,
         \A r \in requests' : r.by # "facade",
         work'.moved \/ (~work.moved /\ work'.draft = work.draft),
         flow.kind \notin Submitting, flow'.kind \notin Submitting, WorkSound'
  PROVE  DraftInv'
<1>1. Asked({})
  BY DEF Asked
<1>2. AskedOnce'
  BY DEF AskedOnce
<1>3. CapturedIsCurrent'
  BY CapturedStays
<1>4. WorkNotWritten'
  <2>1. work'.draft # Nothing => SavesFailed(work'.draft.id, {})
    BY DEF DraftInv, WorkNotWritten, SameDraft
  <2>2. SavesGoOn
    BY DEF HostWaits, HostGoesOn, SavesGoOn
  <2> QED BY <2>1, <2>2, NotSubmitted
<1> QED BY <1>1, <1>2, <1>3, <1>4, ClientKeeps

\* The transition goes on, whatever else changes in the work.
LEMMA TransitionStays ==
  ASSUME DraftInv, HostWaits, NEW C, Asked(C), UNCHANGED flow,
         work'.draft = work.draft, work'.edits = work.edits, WorkSound',
         \A c \in C : c.by # "facade" /\ c.kind # "commit",
         CapturedIsCurrent'
  PROVE  DraftInv'
<1>1. AskedOnce'
  BY DEF DraftInv, AskedOnce, Asked
<1>2. WorkNotWritten'
  <2>1. SavesGoOn
    BY DEF HostWaits, HostGoesOn, SavesGoOn
  <2>2. CommitsGoOn
    BY DEF CommitsGoOn, Asked
  <2> QED BY <2>1, <2>2, SubmittedStays
<1>3. SameDraft
  BY DEF SameDraft
<1> QED BY <1>1, <1>2, <1>3, ClientKeeps

\* The draft of the work still agrees with the host's.
LEMMA WorkAgrees ==
  ASSUME DraftInv, DraftsGoOn, work'.draft \in {Nothing, work.draft}
  PROVE  (work.draft # Nothing => Agrees(work.draft))'
<1>1. WorkSound /\ TypeOK
  BY InvariantParts DEF DraftInv
<1> SUFFICES ASSUME NEW s, s = work.draft, s # Nothing PROVE Agrees(s)'
  BY DEF Agrees
<1> QED BY <1>1, AgreesGoesOn DEF WorkSound, Work

\* What the work and its transition are.
LEMMA WorkIs ==
  ASSUME DraftInv
  PROVE  /\ work \in Work /\ flow \in Flow
         /\ work.draft # Nothing => work.draft \in Snapshot /\ Agrees(work.draft)
         /\ TransitionHeld /\ Nothing \notin Snapshot
         /\ work.busy => work.draft # Nothing \/ work.baseline # Nothing
         /\ Idle \in Flow /\ NoWork \in Work
<1>1. /\ work \in Work /\ flow \in Flow /\ TransitionHeld
      /\ work.draft # Nothing => Agrees(work.draft)
      /\ work.busy => work.draft # Nothing \/ work.baseline # Nothing
  BY InvariantParts DEF WorkSound
<1>2. Nothing \notin Snapshot
  BY DraftAssumption, SnapshotIsCopy DEF Copy
<1>3. Idle \in Flow
  BY DEF Idle, Flow
<1>4. NoWork \in Work
  <2>1. 0 \in 0..MaxTargets
    BY DraftAssumption
  <2> QED BY <2>1 DEF NoWork, Work, Content
<1> QED BY <1>1, <1>2, <1>3, <1>4 DEF Work

\* What abandons or fails a transition releases the context at most.
LEMMA FailedIs ==
  ASSUME DraftInv
  PROVE  /\ Failed \in Work
         /\ Failed.draft = work.draft /\ Failed.edits = work.edits
         /\ Failed.baseline = work.baseline /\ Failed.moved = work.moved
         /\ Failed.pending = work.pending
         /\ Failed.busy => work.busy
<1>1. work \in Work
  BY WorkIs
<1>2. LET w == [work EXCEPT !.busy = FALSE]
      IN /\ w \in Work /\ w.draft = work.draft /\ w.edits = work.edits
         /\ w.baseline = work.baseline /\ w.moved = work.moved
         /\ w.pending = work.pending /\ ~w.busy
  BY <1>1 DEF Work
<1>3. CASE Matches
  BY <1>2, <1>3 DEF Failed
<1>4. CASE ~Matches
  BY <1>1, <1>4 DEF Failed
<1> QED BY <1>3, <1>4

\* Nothing is required of work that no transition holds but that it agrees.
LEMMA WorkAtRest ==
  ASSUME DraftInv, DraftsGoOn, work' \in Work, flow' \in Flow, flow'.kind = "idle",
         work'.draft \in {Nothing, work.draft}, work'.baseline \in {Nothing, work.baseline},
         work'.busy => work'.draft # Nothing \/ work'.baseline # Nothing
  PROVE  WorkSound'
<1>1. (work.draft # Nothing => Agrees(work.draft))'
  BY WorkAgrees
<1>2. TransitionHeld'
  BY WorkIs DEF TransitionHeld, WithDraft, Saving
<1> QED BY <1>1, <1>2 DEF WorkSound

\* A transition that is not about a submitted save fails or is abandoned.
LEMMA GivingUpKeeps ==
  ASSUME DraftInv, HostWaits, work' = Failed, flow' = Idle, requests' \subseteq requests,
         \A r \in requests' : r.by # "facade", flow.kind \notin Submitting
  PROVE  DraftInv'
<1>1. /\ work' \in Work /\ work'.draft = work.draft /\ work'.baseline = work.baseline
      /\ work'.moved = work.moved /\ (work'.busy => work.busy)
  BY FailedIs
<1>2. /\ flow' \in Flow /\ flow'.kind = "idle"
      /\ work.busy => work.draft # Nothing \/ work.baseline # Nothing
      /\ work.moved \in BOOLEAN
  BY WorkIs DEF Idle, Work
<1>3. WorkSound'
  BY <1>1, <1>2, WorkAtRest DEF HostWaits, HostGoesOn
<1>4. SameDraft /\ flow'.kind \notin Submitting
  BY <1>1, <1>2 DEF SameDraft, Submitting
<1> QED BY <1>1, <1>2, <1>3, <1>4, QuietKeeps

\* stage.
LEMMA EditKeeps == ASSUME DraftInv, Edit PROVE DraftInv'
<1>1. flow.kind = "idle" /\ UNCHANGED <<host, requests, known, flow>>
  BY DEF Edit, Blocked
<1>2. PICK edits \in Content : work' = [work EXCEPT !.edits = edits, !.moved = TRUE]
  BY DEF Edit
<1>3. /\ work' \in Work /\ work'.draft = work.draft /\ work'.baseline = work.baseline
      /\ work'.moved /\ work'.busy = work.busy /\ flow' \in Flow
  BY <1>1, <1>2, WorkIs DEF Work
<1>4. HostWaits
  BY <1>1, HostWaitsStill DEF host
<1>5. WorkSound'
  BY <1>1, <1>3, <1>4, WorkIs, WorkAtRest DEF HostWaits, HostGoesOn
<1>6. \A r \in requests' : r.by # "facade"
  BY <1>1, NothingAsked
<1> QED BY <1>1, <1>3, <1>4, <1>5, <1>6, QuietKeeps DEF SameDraft, Submitting

\* Navigation away from what is not, or no longer, to be kept.
LEMMA NavigationIs ==
  ASSUME DraftInv, NEW w \in Navigations(work)
  PROVE  w \in Work /\ w.draft = Nothing /\ w.baseline = Nothing /\ w.moved /\ ~w.busy
<1>1. PICK b \in {0, work.binding} : w = [NoWork EXCEPT !.binding = b]
  BY DEF Navigations
<1>2. b \in 0..MaxTargets
  BY WorkIs, DraftAssumption DEF Work
<1> QED BY <1>1, <1>2, WorkIs DEF NoWork, Work

\* requestTarget, requestClose.
LEMMA RequestNavigationKeeps == ASSUME DraftInv, RequestNavigation PROVE DraftInv'
<1>1. /\ flow.kind = "idle" /\ UNCHANGED <<host, requests, known, flow>> /\ flow' \in Flow
      /\ work \in Work /\ ~work.busy
  BY WorkIs DEF RequestNavigation, TransitionHeld
<1>2. HostWaits /\ \A r \in requests' : r.by # "facade"
  BY <1>1, HostWaitsStill, NothingAsked DEF host
<1>3. /\ work' \in Work /\ ~work'.busy
      /\ work'.draft \in {Nothing, work.draft} /\ work'.baseline \in {Nothing, work.baseline}
      /\ work'.moved \/ (~work.moved /\ work'.draft = work.draft)
  <2>1. CASE Dirty(work)
    <3>1. work' = [work EXCEPT !.pending = TRUE]
      BY <2>1 DEF RequestNavigation
    <3> QED BY <1>1, <3>1 DEF Work
  <2>2. CASE work' \in Navigations(work)
    BY <2>2, NavigationIs
  <2> QED BY <2>1, <2>2 DEF RequestNavigation
<1>4. WorkSound'
  BY <1>1, <1>2, <1>3, WorkAtRest DEF HostWaits, HostGoesOn
<1> QED BY <1>1, <1>2, <1>3, <1>4, QuietKeeps DEF SameDraft, Submitting

\* stay.
LEMMA StayKeeps == ASSUME DraftInv, Stay PROVE DraftInv'
<1>1. /\ flow.kind \in {"review", "discard_review", "idle"} /\ flow' = Idle
      /\ UNCHANGED <<host, requests, known>>
  BY DEF Stay
<1>2. HostWaits /\ \A r \in requests' : r.by # "facade"
  BY <1>1, HostWaitsStill, NothingAsked DEF host
<1>3. /\ flow' \in Flow /\ flow'.kind = "idle"
      /\ work \in Work /\ (work.busy => work.draft # Nothing \/ work.baseline # Nothing)
  BY <1>1, WorkIs DEF Idle
<1>4. PICK w \in {work, Failed} : work' = [w EXCEPT !.pending = @ /\ w.busy]
  BY DEF Stay
<1>5. /\ w \in Work /\ w.draft = work.draft /\ w.baseline = work.baseline
      /\ w.moved = work.moved /\ (w.busy => work.busy)
  BY <1>3, FailedIs
<1>6. /\ work' \in Work /\ work'.draft = work.draft /\ work'.baseline = work.baseline
      /\ work'.moved = work.moved /\ (work'.busy => work.busy)
  <2>1. PICK o \in BOOLEAN : o = (w.pending /\ w.busy)
    OBVIOUS
  <2>2. work' = [w EXCEPT !.pending = o]
    BY <1>4, <1>5, <2>1 DEF Work
  <2> QED BY <1>5, <2>2 DEF Work
<1>7. WorkSound'
  BY <1>2, <1>3, <1>6, WorkAtRest DEF HostWaits, HostGoesOn
<1>8. work.moved \in BOOLEAN
  BY <1>3 DEF Work
<1> QED BY <1>1, <1>2, <1>3, <1>6, <1>7, <1>8, QuietKeeps DEF SameDraft, Submitting

\* The facade may review a draft only while no transition is under way.
LEMMA ReviewIs ==
  ASSUME DraftInv, NEW purpose, MayReview(purpose)
  PROVE  /\ work.draft # Nothing /\ ~work.busy /\ work.baseline = Nothing
         /\ flow.kind = "idle" /\ \A r \in requests : r.by # "facade"
         /\ SavesFailed(work.draft.id, {})
<1>1. work.draft # Nothing /\ ~work.busy /\ work.baseline = Nothing /\ flow.kind = "idle"
  BY WorkIs DEF MayReview, TransitionHeld
<1>2. SavesFailed(work.draft.id, {})
  BY <1>1 DEF DraftInv, WorkNotWritten, Submitting
<1> QED BY <1>1, <1>2, NothingAsked

\* prepareDiscardInPlace.
LEMMA PrepareDiscardKeeps == ASSUME DraftInv, PrepareDiscard PROVE DraftInv'
<1>1. /\ work' = [work EXCEPT !.busy = TRUE]
      /\ flow' = [Idle EXCEPT !.kind = "discard_review", !.purpose = "in_place"]
      /\ UNCHANGED <<host, requests, known>>
  BY DEF PrepareDiscard
<1>2. /\ work.draft # Nothing /\ work.baseline = Nothing /\ flow.kind = "idle"
      /\ \A r \in requests' : r.by # "facade"
  BY <1>1, ReviewIs DEF PrepareDiscard
<1>3. HostWaits
  BY <1>1, HostWaitsStill DEF host
<1>4. /\ work' \in Work /\ work'.draft = work.draft /\ work'.baseline = work.baseline
      /\ work'.moved = work.moved /\ work'.busy /\ work.moved \in BOOLEAN
  BY <1>1, WorkIs DEF Work
<1>5. flow' \in Flow /\ flow'.kind = "discard_review"
  BY <1>1, WorkIs DEF Flow, WithDraft, Idle
<1>6. WorkSound'
  <2>1. (work.draft # Nothing => Agrees(work.draft))'
    BY <1>3, <1>4, WorkAgrees DEF HostWaits, HostGoesOn
  <2>2. TransitionHeld'
    BY <1>2, <1>4, <1>5 DEF TransitionHeld, Saving
  <2> QED BY <1>2, <1>4, <1>5, <2>1, <2>2 DEF WorkSound
<1> QED BY <1>1, <1>2, <1>3, <1>4, <1>5, <1>6, QuietKeeps DEF SameDraft, Submitting

\* reloadBaseline, once more.
LEMMA ReloadBaselineKeeps == ASSUME DraftInv, ReloadBaseline PROVE DraftInv'
<1>1. /\ work' = [work EXCEPT !.busy = TRUE]
      /\ flow' = [flow EXCEPT !.kind = "reading", !.purpose = "in_place"]
      /\ UNCHANGED <<host, requests, known>>
      /\ flow.kind = "idle" /\ work.baseline # Nothing
  BY DEF ReloadBaseline
<1>2. HostWaits /\ \A r \in requests' : r.by # "facade"
  BY <1>1, HostWaitsStill, NothingAsked DEF host
<1>3. /\ work' \in Work /\ work'.draft = work.draft /\ work'.baseline = work.baseline
      /\ work'.moved = work.moved /\ work'.busy /\ work.moved \in BOOLEAN
  BY <1>1, WorkIs DEF Work
<1>4. flow' \in Flow /\ flow'.kind = "reading"
  BY <1>1, WorkIs DEF Flow
<1>5. WorkSound'
  <2>1. (work.draft # Nothing => Agrees(work.draft))'
    BY <1>2, <1>3, WorkAgrees DEF HostWaits, HostGoesOn
  <2>2. TransitionHeld'
    BY <1>1, <1>3, <1>4, WorkIs DEF TransitionHeld, WithDraft, Saving
  <2> QED BY <1>1, <1>3, <1>4, <2>1, <2>2 DEF WorkSound
<1> QED BY <1>1, <1>2, <1>3, <1>4, <1>5, QuietKeeps DEF SameDraft, Submitting

\* The plan of the save is prepared, or not.
LEMMA PreparedKeeps == ASSUME DraftInv, Prepared PROVE DraftInv'
<1>1. flow.kind = "preparing" /\ UNCHANGED <<host, requests, known>>
  BY DEF Prepared
<1>2. HostWaits /\ \A r \in requests' : r.by # "facade"
  BY <1>1, HostWaitsStill, NothingAsked DEF host
<1>3. CASE work' = Failed /\ flow' = Idle
  BY <1>1, <1>2, <1>3, GivingUpKeeps DEF Submitting
<1>4. CASE UNCHANGED work /\ flow' = [flow EXCEPT !.kind = "review"]
  <2>1. flow' \in Flow /\ flow'.kind = "review"
    BY <1>4, WorkIs DEF Flow, WithDraft, Saving
  <2>2. WorkSound'
    <3>1. (work.draft # Nothing => Agrees(work.draft))'
      BY <1>2, <1>4, WorkAgrees DEF HostWaits, HostGoesOn
    <3>2. TransitionHeld'
      BY <1>1, <1>4, <2>1, WorkIs DEF TransitionHeld, WithDraft, Saving
    <3> QED BY <1>4, <2>1, <3>1, <3>2, WorkIs DEF WorkSound
  <2>3. work.moved \in BOOLEAN
    BY WorkIs DEF Work
  <2> QED BY <1>1, <1>2, <1>4, <2>1, <2>2, <2>3, QuietKeeps DEF SameDraft, Submitting
<1> QED BY <1>3, <1>4 DEF Prepared

\* What arrives at the facade is what it waited for, and all that it waited for.
LEMMA ArrivesIs ==
  ASSUME DraftInv, NEW r \in requests, NEW kind, Arrives(r, kind)
  PROVE  /\ HostWaits /\ requests' \subseteq requests /\ r \notin requests'
         /\ \A q \in requests' : q.by # "facade"
         /\ flow.kind = WaitingFor(kind) /\ (Copy(r.reply) \/ r.reply = Nothing)
         /\ r.kind = kind /\ r \in Request
         /\ r.kind # "open" => r.draft = work.draft
         /\ r.kind = "sync" => r.edits = work.edits
<1>1. r.kind = kind /\ r.by = "facade" /\ r.reply # Unanswered /\ requests' = requests \ {r}
      /\ UNCHANGED <<host, known>>
  BY DEF Arrives
<1>2. HostWaits
  BY <1>1, HostWaitsStill DEF host
<1>3. \A q \in requests' : q.by # "facade"
  BY <1>1, NothingAskedAnyMore
<1> QED BY <1>1, <1>2, <1>3, RequestOf DEF DraftInv, AskedOnce, Copy

\* The revision that was acknowledged is the work's next.
LEMMA SynchronizedKeeps ==
  ASSUME DraftInv, NEW r \in requests, Synchronized(r) PROVE DraftInv'
<1>1. /\ HostWaits /\ requests' \subseteq requests /\ \A q \in requests' : q.by # "facade"
      /\ flow.kind = "syncing" /\ (Copy(r.reply) \/ r.reply = Nothing)
      /\ r.kind = "sync" /\ r.draft = work.draft /\ r.edits = work.edits
  <2>1. Arrives(r, "sync")
    BY DEF Synchronized
  <2> QED BY <2>1, ArrivesIs DEF WaitingFor
<1>2. CASE work' = Failed /\ flow' = Idle
  BY <1>1, <1>2, GivingUpKeeps DEF Submitting
<1> DEFINE s == r.reply
<1>3. CASE /\ Copy(s)
           /\ \/ work' = [Adopted(work, s) EXCEPT !.busy = FALSE] /\ flow' = Idle
              \/ work' = Adopted(work, s) /\ flow' = [flow EXCEPT !.kind = "preparing"]
  <2>1. /\ s \in Snapshot /\ Agrees(s) /\ s.id = work.draft.id /\ s.edits = work.edits
        /\ s.revision = work.draft.revision + 1 /\ s.revision < MaxRevision
    BY <1>1, <1>3, RequestOf DEF AnswerSound
  <2>2. work.draft # Nothing /\ work.baseline = Nothing /\ work.busy
    BY <1>1, WorkIs DEF TransitionHeld, WithDraft
  <2>3. Agrees(s)'
    BY <1>1, <2>1, AgreesGoesOn DEF HostWaits, HostGoesOn, DraftInv
  <2> DEFINE w == Adopted(work, s)
  <2>4. /\ w \in Work /\ w.draft = s /\ w.edits = s.edits /\ w.moved
        /\ w.baseline = Nothing /\ w.busy
    BY <2>1, <2>2, WorkIs DEF Adopted, Work, Snapshot
  <2>5. LET v == [w EXCEPT !.busy = FALSE]
        IN /\ v \in Work /\ v.draft = s /\ v.edits = s.edits /\ v.moved
           /\ v.baseline = Nothing /\ ~v.busy
    <3> HIDE DEF w
    <3> QED BY <2>4 DEF Work
  <2>6. /\ work' \in Work /\ work'.draft = s /\ work'.edits = s.edits /\ work'.moved
        /\ work'.baseline = Nothing
        /\ \/ flow' = Idle
           \/ work'.busy /\ flow' = [flow EXCEPT !.kind = "preparing"]
    BY <1>3, <2>4, <2>5
  <2> HIDE DEF w
  <2>7. /\ flow' \in Flow
        /\ flow'.kind = "idle" \/ (work'.busy /\ flow'.kind = "preparing")
    BY <2>6, WorkIs DEF Idle, Flow, WithDraft, Saving
  <2>8. s # Nothing
    BY <1>3 DEF Copy
  <2> HIDE DEF s
  <2>9. WorkSound'
    <3>1. (work.draft # Nothing => Agrees(work.draft))'
      BY <2>3, <2>6 DEF Agrees
    <3>2. TransitionHeld'
      BY <2>1, <2>6, <2>7, <2>8 DEF TransitionHeld, WithDraft, Saving
    <3> QED BY <2>6, <2>7, <2>8, <3>1, <3>2 DEF WorkSound
  <2>10. SameDraft /\ flow'.kind \notin Submitting
    BY <2>1, <2>2, <2>6, <2>7 DEF SameDraft, Submitting
  <2> QED BY <1>1, <2>6, <2>9, <2>10, QuietKeeps DEF Submitting
<1> QED BY <1>1, <1>2, <1>3 DEF Synchronized

\* A finished review leaves the work empty, or to be read anew.
LEMMA CompletedIs ==
  ASSUME DraftInv, DraftsGoOn, NEW reason \in {"save", "discard"}, NEW document \in Versions,
         work.draft # Nothing, CompleteReview(reason, document)
  PROVE  /\ WorkSound' /\ work'.draft = Nothing /\ work'.moved
         /\ flow'.kind \in {"idle", "reading"}
<1>1. CASE work' \in Navigations(work) /\ flow' = Idle
  <2>1. /\ work' \in Work /\ work'.draft = Nothing /\ work'.baseline = Nothing
        /\ work'.moved /\ ~work'.busy
    BY <1>1, NavigationIs
  <2>2. flow' \in Flow /\ flow'.kind = "idle"
    BY <1>1, WorkIs DEF Idle
  <2> QED BY <2>1, <2>2, WorkAtRest
<1> DEFINE baseline == [reason |-> reason, document |-> document,
                        epoch |-> drafts[work.draft.id].epoch]
<1>2. CASE /\ work' = [NoWork EXCEPT !.binding = work.binding, !.busy = TRUE,
                                     !.baseline = baseline]
           /\ flow' = [flow EXCEPT !.kind = "reading"]
  <2>1. /\ drafts[work.draft.id].epoch \in Epochs
        /\ \A e \in Epochs : e \in Nat
        /\ document \in Nat
    BY WorkIs, HostIs, DraftAssumption DEF DraftInv, Agrees, Draft, Epochs, Versions
  <2>2. /\ baseline \in [reason : {"save", "discard"}, document : Versions, epoch : Epochs]
        /\ baseline \in [reason : {"save", "discard"}, document : Nat, epoch : Nat]
    BY <2>1
  <2>3. baseline # Nothing
    BY <2>2, DraftAssumption
  <2> HIDE DEF baseline
  <2>4. /\ work' \in Work /\ work'.draft = Nothing /\ work'.busy /\ work'.moved
        /\ work'.baseline = baseline
    <3>1. work.binding \in 0..MaxTargets
      BY WorkIs DEF Work
    <3> QED BY <1>2, <2>2, <3>1, WorkIs DEF NoWork, Work
  <2>5. flow' \in Flow /\ flow'.kind = "reading"
    BY <1>2, WorkIs DEF Flow
  <2>6. TransitionHeld'
    BY <2>3, <2>4, <2>5 DEF TransitionHeld, WithDraft, Saving
  <2> QED BY <2>3, <2>4, <2>5, <2>6 DEF WorkSound
<1> QED BY <1>1, <1>2 DEF CompleteReview

\* A transition ends, and what it submitted, if anything, has failed.
LEMMA EndingKeeps ==
  ASSUME DraftInv, HostWaits, requests' \subseteq requests, SameDraft,
         \A r \in requests' : r.by # "facade",
         work'.moved \/ (~work.moved /\ work'.draft = work.draft),
         work'.draft # Nothing => SavesFailed(work'.draft.id, {}),
         flow'.kind \notin Submitting, WorkSound'
  PROVE  DraftInv'
<1>1. Asked({})
  BY DEF Asked
<1>2. AskedOnce'
  BY DEF AskedOnce
<1>3. CapturedIsCurrent'
  BY CapturedStays
<1>4. WorkNotWritten'
  <2>1. SavesGoOn
    BY DEF HostWaits, HostGoesOn, SavesGoOn
  <2> QED BY <2>1, NotSubmitted
<1> QED BY <1>1, <1>2, <1>3, <1>4, ClientKeeps

\* submitDiscard: the context is released, or emptied.
LEMMA DiscardedKeeps ==
  ASSUME DraftInv, NEW r \in requests, Discarded(r) PROVE DraftInv'
<1>1. /\ HostWaits /\ requests' \subseteq requests /\ \A q \in requests' : q.by # "facade"
      /\ flow.kind = "discarding"
  <2>1. Arrives(r, "discard")
    BY DEF Discarded
  <2> QED BY <2>1, ArrivesIs DEF WaitingFor
<1>2. CASE work' = Failed /\ flow' = Idle
  BY <1>1, <1>2, GivingUpKeeps DEF Submitting
<1>3. CASE Matches /\ CompleteReview("discard", work.draft.document)
  <2>1. work.draft # Nothing /\ work.draft.document \in Versions
    BY <1>3, WorkIs DEF Matches, Snapshot
  <2>2. /\ WorkSound' /\ work'.draft = Nothing /\ work'.moved
        /\ flow'.kind \in {"idle", "reading"}
    BY <1>1, <1>3, <2>1, CompletedIs DEF HostWaits, HostGoesOn
  <2> QED BY <1>1, <2>2, EndingKeeps DEF SameDraft, Submitting
<1> QED BY <1>2, <1>3 DEF Discarded

\* A save that is observed to have failed was the last one of the draft.
LEMMA ObservedFailure ==
  ASSUME DraftInv, flow.kind = "observing", work.draft # Nothing,
         NEW k \in SaveOf(work.draft), operations[k].status = "failed"
  PROVE  SavesFailed(work.draft.id, {})
<1>1. SaveIsObserved(work.draft) /\ SavedOnce
  BY DEF DraftInv, WorkNotWritten, Submitting
<1>2. \A l \in DOMAIN operations :
        operations[l].draft.id = work.draft.id => operations[l].status = "failed"
  BY <1>1 DEF SaveIsObserved, SavedOnce, SaveOf
<1>3. \A q \in requests :
        q.kind = "commit" /\ q.draft.id = work.draft.id => SaveOf(q.draft) # {}
  BY <1>1 DEF SaveIsObserved
<1> QED BY <1>2, <1>3 DEF SavesFailed

\* reconcileObserved: a failed save releases the context, a completed one empties it.
LEMMA ObserveOutcomeKeeps == ASSUME DraftInv, ObserveOutcome PROVE DraftInv'
<1>1. /\ flow.kind = "observing" /\ UNCHANGED <<host, requests, known>>
      /\ work.draft # Nothing
  BY DEF ObserveOutcome, Matches
<1>2. HostWaits /\ \A r \in requests' : r.by # "facade"
  BY <1>1, HostWaitsStill, NothingAsked DEF host
<1>3. PICK k \in SaveOf(work.draft) :
        \/ operations[k].status = "failed" /\ work' = Failed /\ flow' = Idle
        \/ CompleteReview("save", operations[k].document)
  BY DEF ObserveOutcome
<1>4. CASE operations[k].status = "failed" /\ work' = Failed /\ flow' = Idle
  <2>1. SavesFailed(work.draft.id, {})
    BY <1>1, <1>4, ObservedFailure
  <2>2. /\ work' \in Work /\ work'.draft = work.draft /\ work'.baseline = work.baseline
        /\ work'.moved = work.moved /\ (work'.busy => work.busy)
    BY <1>4, FailedIs
  <2>3. /\ flow' \in Flow /\ flow'.kind = "idle" /\ work.moved \in BOOLEAN
    BY <1>4, WorkIs DEF Idle, Work
  <2>4. WorkSound'
    BY <1>1, <1>2, <2>2, <2>3, WorkAtRest DEF HostWaits, HostGoesOn
  <2> QED BY <1>1, <1>2, <2>1, <2>2, <2>3, <2>4, EndingKeeps DEF SameDraft, Submitting
<1>5. CASE CompleteReview("save", operations[k].document)
  <2>1. operations[k].document \in Versions
    BY HostIs DEF DraftInv, SaveOf, Operation
  <2>2. /\ WorkSound' /\ work'.draft = Nothing /\ work'.moved
        /\ flow'.kind \in {"idle", "reading"}
    BY <1>1, <1>2, <1>5, <2>1, CompletedIs DEF HostWaits, HostGoesOn
  <2> QED BY <1>1, <1>2, <2>2, EndingKeeps DEF SameDraft, Submitting
<1> QED BY <1>3, <1>4, <1>5

\* The facade asks for something, and waits for nothing else.
LEMMA AskingKeeps ==
  ASSUME DraftInv, HostWaits, \A r \in requests : r.by # "facade",
         NEW q \in Request, q.by = "facade", q.reply = Unanswered,
         requests' = requests \cup {q}, flow'.kind = WaitingFor(q.kind),
         q.kind # "open" => work.draft # Nothing /\ q.draft = work.draft,
         q.kind = "sync" => q.edits = work.edits /\ q.draft.revision + 1 < MaxRevision,
         q.kind = "commit" => q.draft.revision < MaxRevision,
         work'.draft = work.draft, work'.edits = work.edits, work'.moved = work.moved,
         WorkSound', WorkNotWritten'
  PROVE  DraftInv'
<1>1. Asked({q})
  <2>1. Says(q, q.reply)'
    BY DEF Says, Copy
  <2>2. q.kind # "open" => Agrees(q.draft)'
    BY WorkIs, AgreesGoesOn DEF DraftInv, HostWaits, HostGoesOn
  <2> QED BY <2>1, <2>2 DEF Asked, RequestSound
<1>2. AskedOnce'
  BY DEF AskedOnce
<1>3. CapturedIsCurrent'
  <2>1. q.kind # "get" /\ work.moved \in BOOLEAN
    BY WorkIs, RequestIs DEF Work
  <2> QED BY <2>1, CapturedStays
<1> QED BY <1>1, <1>2, <1>3, ClientKeeps DEF SameDraft

\* prepareSave, prepareSaveInPlace: a synchronization is asked for.
LEMMA PrepareSaveKeeps ==
  ASSUME DraftInv, NEW purpose \in {"navigation", "in_place"}, PrepareSave(purpose)
  PROVE  DraftInv'
<1>1. PICK q : q = [kind |-> "sync", by |-> "facade", draft |-> work.draft,
                    edits |-> work.edits, reply |-> Unanswered]
  OBVIOUS
<1>2. /\ work' = [work EXCEPT !.busy = TRUE] /\ requests' = requests \cup {q}
      /\ flow' = [Idle EXCEPT !.kind = "syncing", !.purpose = purpose]
      /\ UNCHANGED <<host, known>> /\ work.draft.revision + 1 < MaxRevision
  BY <1>1 DEF PrepareSave, Ask
<1>3. /\ work.draft # Nothing /\ work.baseline = Nothing /\ flow.kind = "idle"
      /\ \A r \in requests : r.by # "facade"
      /\ SavesFailed(work.draft.id, {})
  BY ReviewIs DEF PrepareSave
<1>4. HostWaits
  BY <1>2, HostWaitsStill DEF host
<1>5. /\ work' \in Work /\ work'.draft = work.draft /\ work'.baseline = work.baseline
      /\ work'.edits = work.edits /\ work'.moved = work.moved /\ work'.busy
  BY <1>2, WorkIs DEF Work
<1>6. flow' \in Flow /\ flow'.kind = "syncing"
  BY <1>2, WorkIs DEF Flow, WithDraft, Idle
<1>7. q \in Request
  <2>1. work.draft \in Snapshot /\ work.edits \in Content
    BY <1>3, WorkIs DEF Work
  <2> QED BY <1>1, <2>1 DEF Request, Reply
<1>8. WorkSound'
  <2>1. (work.draft # Nothing => Agrees(work.draft))'
    BY <1>4, <1>5, WorkAgrees DEF HostWaits, HostGoesOn
  <2>2. TransitionHeld'
    BY <1>3, <1>5, <1>6 DEF TransitionHeld, Saving
  <2> QED BY <1>3, <1>5, <1>6, <2>1, <2>2 DEF WorkSound
<1>9. WorkNotWritten'
  <2>1. SavesGoOn /\ \A p \in requests' : p.kind = "commit" => p \in requests
    BY <1>1, <1>2, <1>4 DEF HostWaits, HostGoesOn, SavesGoOn
  <2> QED BY <1>3, <1>5, <1>6, <2>1, NotSubmitted DEF Submitting
<1> QED BY <1>1, <1>2, <1>3, <1>4, <1>5, <1>6, <1>7, <1>8, <1>9, AskingKeeps DEF WaitingFor

\* confirmDiscard, discard: a discard is asked for.
LEMMA DiscardKeeps == ASSUME DraftInv, Discard PROVE DraftInv'
<1>1. PICK q : q = [kind |-> "discard", by |-> "facade", draft |-> work.draft,
                    reply |-> Unanswered]
  OBVIOUS
<1>2. PICK p : p = IF flow.kind = "idle" THEN "navigation" ELSE "in_place"
  OBVIOUS
<1>3. /\ work' = [work EXCEPT !.busy = TRUE] /\ requests' = requests \cup {q}
      /\ flow' = [flow EXCEPT !.kind = "discarding", !.purpose = p]
      /\ UNCHANGED <<host, known>>
      /\ flow.kind = "discard_review" \/ (flow.kind = "idle" /\ MayReview("navigation"))
  BY <1>1, <1>2 DEF Discard, Ask
<1>4. /\ work.draft # Nothing /\ work.baseline = Nothing
      /\ \A r \in requests : r.by # "facade"
      /\ SavesFailed(work.draft.id, {})
  <2>1. CASE flow.kind = "discard_review"
    <3>1. work.draft # Nothing /\ work.baseline = Nothing
      BY <2>1, WorkIs DEF TransitionHeld, WithDraft
    <3>2. SavesFailed(work.draft.id, {})
      BY <2>1, <3>1 DEF DraftInv, WorkNotWritten, Submitting
    <3> QED BY <2>1, <3>1, <3>2, NothingAsked
  <2>2. CASE MayReview("navigation")
    BY <2>2, ReviewIs
  <2> QED BY <1>3, <2>1, <2>2
<1>5. HostWaits
  BY <1>3, HostWaitsStill DEF host
<1>6. /\ work' \in Work /\ work'.draft = work.draft /\ work'.baseline = work.baseline
      /\ work'.edits = work.edits /\ work'.moved = work.moved /\ work'.busy
  BY <1>3, WorkIs DEF Work
<1>7. flow' \in Flow /\ flow'.kind = "discarding"
  BY <1>2, <1>3, WorkIs DEF Flow, WithDraft
<1>8. q \in Request
  BY <1>1, <1>4, WorkIs DEF Request, Reply
<1>9. WorkSound'
  <2>1. (work.draft # Nothing => Agrees(work.draft))'
    BY <1>5, <1>6, WorkAgrees DEF HostWaits, HostGoesOn
  <2>2. TransitionHeld'
    BY <1>4, <1>6, <1>7 DEF TransitionHeld, Saving
  <2> QED BY <1>4, <1>6, <1>7, <2>1, <2>2 DEF WorkSound
<1>10. WorkNotWritten'
  <2>1. SavesGoOn /\ \A r \in requests' : r.kind = "commit" => r \in requests
    BY <1>1, <1>3, <1>5 DEF HostWaits, HostGoesOn, SavesGoOn
  <2> QED BY <1>4, <1>6, <1>7, <2>1, NotSubmitted DEF Submitting
<1> QED BY <1>1, <1>3, <1>4, <1>5, <1>6, <1>7, <1>8, <1>9, <1>10, AskingKeeps DEF WaitingFor

\* reloadBaseline reads the document, and asks for a draft of it or gives up.
LEMMA ReadBaselineKeeps == ASSUME DraftInv, ReadBaseline PROVE DraftInv'
<1>1. /\ flow.kind = "reading" /\ drafts' = Staled(Latest)
      /\ UNCHANGED <<documents, operations, epoch, faults, known>>
  BY DEF ReadBaseline
<1>2. HostWaits /\ \A r \in requests : r.by # "facade"
  BY <1>1, HostWaitsStill, NothingAsked
<1>3. work.draft = Nothing /\ work.baseline # Nothing /\ work \in Work /\ work.busy
  BY <1>1, WorkIs DEF TransitionHeld
<1>4. CASE work' = [work EXCEPT !.busy = FALSE] /\ flow' = Idle /\ UNCHANGED requests
  <2>1. /\ work' \in Work /\ work'.draft = work.draft /\ work'.baseline = work.baseline
        /\ work'.moved = work.moved /\ ~work'.busy /\ work.moved \in BOOLEAN
    BY <1>3, <1>4 DEF Work
  <2>2. flow' \in Flow /\ flow'.kind = "idle"
    BY <1>4, WorkIs DEF Idle
  <2>3. WorkSound'
    BY <1>2, <2>1, <2>2, WorkAtRest DEF HostWaits, HostGoesOn
  <2> QED BY <1>1, <1>2, <1>3, <1>4, <2>1, <2>2, <2>3, QuietKeeps DEF SameDraft, Submitting
<1>5. CASE /\ flow' = [flow EXCEPT !.kind = "opening"] /\ UNCHANGED work
           /\ Ask([kind |-> "open", by |-> "facade", document |-> Latest,
                   reply |-> Unanswered])
  <2>1. PICK q : q = [kind |-> "open", by |-> "facade", document |-> Latest,
                      reply |-> Unanswered]
    OBVIOUS
  <2>2. requests' = requests \cup {q}
    BY <1>5, <2>1 DEF Ask
  <2>3. q \in Request
    <3>1. Latest \in Versions
      BY HostIs DEF DraftInv
    <3> QED BY <2>1, <3>1 DEF Request, Reply
  <2>4. flow' \in Flow /\ flow'.kind = "opening"
    BY <1>5, WorkIs DEF Flow
  <2>5. WorkSound'
    <3>1. TransitionHeld'
      BY <1>3, <1>5, <2>4 DEF TransitionHeld, WithDraft, Saving
    <3> QED BY <1>3, <1>5, <2>4, <3>1 DEF WorkSound
  <2>6. WorkNotWritten'
    BY <1>3, <1>5 DEF WorkNotWritten
  <2> QED BY <1>2, <1>5, <2>1, <2>2, <2>3, <2>4, <2>5, <2>6, AskingKeeps DEF WaitingFor
<1> QED BY <1>4, <1>5 DEF ReadBaseline

\* A commit is the only one of its draft that may still be admitted.
LEMMA CommittingIs ==
  ASSUME DraftInv, SavesGoOn, \A r \in requests : r.by # "facade",
         NEW q, q.kind = "commit", q.draft = work.draft, requests' = requests \cup {q},
         work'.draft = work.draft, work.draft # Nothing, flow'.kind = "admitting",
         flow.kind = "review" \/ (flow.kind = "uncertain" /\ flow'.replay)
  PROVE  WorkNotWritten'
<1>1. SUFFICES ASSUME NEW s, s = work.draft, s # Nothing
               PROVE /\ SaveIsObserved(s)'
                     /\ ~flow'.replay =>
                          \A r \in requests' :
                            r.kind = "commit" /\ r.by = "facade" /\ r.reply = Unanswered =>
                              SavesFailed(s.id, {r})'
  BY DEF WorkNotWritten, SavesFailed, SaveIsObserved, Submitting
<1>2. CASE flow.kind = "review"
  <2>1. SavesFailed(s.id, {})
    BY <1>1, <1>2 DEF DraftInv, WorkNotWritten, Submitting
  <2>2. SaveIsObserved(s)
    BY <2>1 DEF SavesFailed, SaveIsObserved
  <2>3. SaveIsObserved(s)'
    <3>1. \A r \in requests' : r.kind = "commit" => r.draft = s
            \/ \E p \in requests : p.kind = "commit" /\ p.draft = r.draft
      BY <1>1
    <3> QED BY <2>2, <3>1, SaveStaysObserved
  <2>4. SavesFailed(s.id, {q})'
    <3>1. \A r \in requests' \ {q} : r.kind = "commit" =>
            \E p \in requests \ {} : p.kind = "commit" /\ p.draft = r.draft
      OBVIOUS
    <3> QED BY <2>1, <3>1, SavesStayFailed
  <2> QED BY <2>3, <2>4
<1>3. CASE flow.kind = "uncertain" /\ flow'.replay
  <2>1. SaveIsObserved(s)
    BY <1>1, <1>3 DEF DraftInv, WorkNotWritten, Submitting
  <2>2. \A r \in requests' : r.kind = "commit" => r.draft = s
          \/ \E p \in requests : p.kind = "commit" /\ p.draft = r.draft
    BY <1>1
  <2> QED BY <1>3, <2>1, <2>2, SaveStaysObserved
<1> QED BY <1>2, <1>3

\* What holds of both ways to submit a save.
LEMMA SubmissionKeeps ==
  ASSUME DraftInv, UNCHANGED <<host, known, work>>, Ask(Committing),
         flow' \in Flow, flow'.kind = "admitting",
         flow.kind = "review" \/ (flow.kind = "uncertain" /\ flow'.replay)
  PROVE  DraftInv'
<1>1. PICK q : q = Committing
  OBVIOUS
<1>2. requests' = requests \cup {q}
  BY <1>1 DEF Ask
<1>3. HostWaits /\ \A r \in requests : r.by # "facade"
  BY HostWaitsStill, NothingAsked DEF host
<1>4. /\ work.draft # Nothing /\ work.baseline = Nothing /\ work.busy
      /\ work.edits = work.draft.edits /\ work.draft.revision < MaxRevision
      /\ work.draft \in Snapshot /\ work \in Work
  BY WorkIs DEF TransitionHeld, WithDraft, Saving
<1>5. /\ q \in Request /\ q.kind = "commit" /\ q.by = "facade" /\ q.reply = Unanswered
      /\ q.draft = work.draft
  BY <1>1, <1>4 DEF Committing, Request, Reply
<1>6. WorkSound'
  <2>1. (work.draft # Nothing => Agrees(work.draft))'
    BY <1>3, WorkAgrees DEF HostWaits, HostGoesOn
  <2>2. TransitionHeld'
    BY <1>4 DEF TransitionHeld, WithDraft, Saving
  <2> QED BY <1>4, <2>1, <2>2 DEF WorkSound
<1>7. WorkNotWritten'
  BY <1>2, <1>3, <1>4, <1>5, CommittingIs DEF HostWaits, HostGoesOn, SavesGoOn
<1> QED BY <1>2, <1>3, <1>4, <1>5, <1>6, <1>7, AskingKeeps DEF WaitingFor

\* commitSave.
LEMMA CommitSaveKeeps == ASSUME DraftInv, CommitSave PROVE DraftInv'
<1>1. flow' \in Flow /\ flow'.kind = "admitting"
  BY WorkIs DEF CommitSave, Flow, WithDraft, Saving
<1> QED BY <1>1, SubmissionKeeps DEF CommitSave

\* replaySave.
LEMMA ReplaySaveKeeps == ASSUME DraftInv, ReplaySave PROVE DraftInv'
<1>1. flow' \in Flow /\ flow'.kind = "admitting" /\ flow'.replay
  BY WorkIs DEF ReplaySave, Flow, WithDraft, Saving
<1> QED BY <1>1, SubmissionKeeps DEF ReplaySave

\* A commit that is not waited for any more may have been admitted.
LEMMA StillSubmitted ==
  ASSUME DraftInv, SavesGoOn, requests' \subseteq requests, work'.draft = work.draft,
         flow.kind \in Submitting, flow'.kind \in {"uncertain", "observing"}
  PROVE  WorkNotWritten'
<1>1. SUFFICES ASSUME NEW s, s = work.draft, s # Nothing PROVE SaveIsObserved(s)'
  BY DEF WorkNotWritten, SaveIsObserved, Submitting
<1>2. SaveIsObserved(s)
  BY <1>1 DEF DraftInv, WorkNotWritten
<1> QED BY <1>2, SaveStaysObserved

\* The state of the facade in which it submits is followed by one that waits.
LEMMA AfterSubmission ==
  ASSUME DraftInv, DraftsGoOn, UNCHANGED work, flow.kind = "admitting", flow' \in Flow,
         flow'.kind \in {"review", "uncertain", "observing"}
  PROVE  WorkSound'
<1>1. (work.draft # Nothing => Agrees(work.draft))'
  BY WorkAgrees
<1>2. TransitionHeld'
  BY WorkIs DEF TransitionHeld, WithDraft, Saving
<1> QED BY <1>1, <1>2, WorkIs DEF WorkSound

\* acceptCommit: from here the save is observed, or in doubt.
LEMMA CommittedKeeps ==
  ASSUME DraftInv, NEW r \in requests, Committed(r) PROVE DraftInv'
<1>1. /\ HostWaits /\ requests' \subseteq requests /\ \A q \in requests' : q.by # "facade"
      /\ flow.kind = "admitting" /\ UNCHANGED work
  <2>1. Arrives(r, "commit") /\ UNCHANGED work
    BY DEF Committed
  <2> QED BY <2>1, ArrivesIs DEF WaitingFor
<1>2. flow' \in Flow /\ flow'.kind \in {"uncertain", "observing"}
  <2>1. PICK k \in {"uncertain", "observing"} : flow' = [flow EXCEPT !.kind = k]
    BY DEF Committed
  <2> QED BY <2>1, WorkIs DEF Flow, WithDraft, Saving
<1>3. WorkSound'
  BY <1>1, <1>2, AfterSubmission DEF HostWaits, HostGoesOn
<1>4. WorkNotWritten'
  BY <1>1, <1>2, StillSubmitted DEF HostWaits, HostGoesOn, SavesGoOn, Submitting
<1>5. Asked({}) /\ AskedOnce' /\ SameDraft
  BY <1>1 DEF Asked, AskedOnce, SameDraft
<1>6. CapturedIsCurrent'
  <2>1. work.moved \in BOOLEAN
    BY WorkIs DEF Work
  <2> QED BY <1>1, <2>1, CapturedStays
<1> QED BY <1>1, <1>3, <1>4, <1>5, <1>6, ClientKeeps

\* A commit that never left leaves nothing of the draft submitted, unless it repeats one.
LEMMA CommitUnsentKeeps ==
  ASSUME DraftInv, NEW r \in requests, CommitUnsent(r) PROVE DraftInv'
<1>1. /\ r.kind = "commit" /\ r.by = "facade" /\ r.reply = Unanswered
      /\ requests' = requests \ {r} /\ UNCHANGED <<host, known, work>>
  BY DEF CommitUnsent
<1>2. /\ HostWaits /\ \A q \in requests' : q.by # "facade"
  BY <1>1, HostWaitsStill, NothingAskedAnyMore DEF host
<1>3. flow.kind = "admitting"
  BY <1>1 DEF DraftInv, AskedOnce, WaitingFor
<1>4. /\ flow' \in Flow
      /\ (flow'.kind = "review" /\ ~flow.replay) \/ flow'.kind = "uncertain"
  <2>1. PICK k \in {"review", "uncertain"} :
          k = (IF flow.replay THEN "uncertain" ELSE "review")
    OBVIOUS
  <2>2. flow' = [flow EXCEPT !.kind = k]
    BY <2>1 DEF CommitUnsent
  <2> QED BY <2>1, <2>2, WorkIs DEF Flow, WithDraft, Saving
<1>5. WorkSound'
  BY <1>1, <1>2, <1>3, <1>4, AfterSubmission DEF HostWaits, HostGoesOn
<1>6. WorkNotWritten'
  <2>1. CASE flow'.kind = "uncertain"
    BY <1>1, <1>2, <1>3, <2>1, StillSubmitted DEF HostWaits, HostGoesOn, SavesGoOn, Submitting
  <2>2. CASE flow'.kind = "review" /\ ~flow.replay
    <3> SUFFICES ASSUME NEW s, s = work.draft, s # Nothing PROVE SavesFailed(s.id, {})'
      BY <1>1, <2>2 DEF WorkNotWritten, SavesFailed, Submitting
    <3>1. SavesFailed(s.id, {r})
      BY <1>1, <1>3, <2>2 DEF DraftInv, WorkNotWritten
    <3>2. SavesGoOn
      BY <1>2 DEF HostWaits, HostGoesOn, SavesGoOn
    <3>3. \A q \in requests' \ {} : q.kind = "commit" =>
            \E p \in requests \ {r} : p.kind = "commit" /\ p.draft = q.draft
      BY <1>1
    <3> QED BY <3>1, <3>2, <3>3, SavesStayFailed
  <2> QED BY <1>4, <2>1, <2>2
<1>7. Asked({}) /\ AskedOnce' /\ SameDraft
  BY <1>1, <1>2 DEF Asked, AskedOnce, SameDraft
<1>8. CapturedIsCurrent'
  <2>1. work.moved \in BOOLEAN
    BY WorkIs DEF Work
  <2> QED BY <1>1, <2>1, CapturedStays
<1> QED BY <1>2, <1>5, <1>6, <1>7, <1>8, ClientKeeps

-----------------------------------------------------------------------------
(* Steps behind the facade's back                                          *)

\* What holds of the work under a transition that goes on.
LEMMA HeldStays ==
  ASSUME DraftInv, DraftsGoOn, UNCHANGED flow, work' \in Work,
         work'.draft = work.draft, work'.edits = work.edits,
         work'.busy = work.busy, work'.baseline = work.baseline
  PROVE  WorkSound'
<1>1. (work.draft # Nothing => Agrees(work.draft))'
  BY WorkAgrees
<1>2. TransitionHeld'
  BY WorkIs DEF TransitionHeld
<1> QED BY <1>1, <1>2, WorkIs DEF WorkSound

\* Binding a target changes nothing else, but for the conflict it may find.
LEMMA BoundIs ==
  ASSUME DraftInv, NEW target \in 0..MaxTargets
  PROVE  LET w == Bound(work, target)
         IN /\ w \in Work /\ w.draft = work.draft /\ w.edits = work.edits
            /\ w.busy = work.busy /\ w.baseline = work.baseline /\ w.moved = work.moved
<1>1. PICK o \in BOOLEAN :
        o = (work.conflict \/ (work.draft # Nothing /\ TargetOf(work.draft) # target))
  OBVIOUS
<1>2. work \in Work
  BY WorkIs
<1>3. Bound(work, target) = [work EXCEPT !.binding = target, !.conflict = o]
  BY <1>1, <1>2 DEF Bound, Work
<1> QED BY <1>2, <1>3 DEF Work

\* inspectTarget binds a target.
LEMMA InspectTargetKeeps == ASSUME DraftInv, InspectTarget PROVE DraftInv'
<1>1. UNCHANGED <<host, requests, known, flow>> /\ work' = Bound(work, documents[Latest])
  BY DEF InspectTarget
<1>2. documents[Latest] \in 0..MaxTargets
  BY HostIs DEF DraftInv, Versions
<1>3. /\ work' \in Work /\ work'.draft = work.draft /\ work'.edits = work.edits
      /\ work'.busy = work.busy /\ work'.baseline = work.baseline /\ work'.moved = work.moved
      /\ work.moved \in BOOLEAN
  BY <1>1, <1>2, BoundIs, WorkIs DEF Work
<1>4. HostWaits
  BY <1>1, HostWaitsStill DEF host
<1>5. WorkSound'
  BY <1>1, <1>3, <1>4, HeldStays DEF HostWaits, HostGoesOn
<1>6. CapturedIsCurrent' /\ Asked({})
  BY <1>1, <1>3, CapturedStays DEF Asked
<1> QED BY <1>1, <1>3, <1>4, <1>5, <1>6, TransitionStays

\* The client learns of the host that runs now.
LEMMA ObserveHostKeeps == ASSUME DraftInv, ObserveHost PROVE DraftInv'
<1>1. UNCHANGED <<host, requests, work, flow>> /\ known' = epoch
  BY DEF ObserveHost
<1>2. HostWaits
  BY <1>1, HostWaitsStill DEF host
<1>3. WorkSound' /\ work.moved \in BOOLEAN
  BY <1>1, <1>2, WorkIs, HeldStays DEF HostWaits, HostGoesOn, Work
<1>4. CapturedIsCurrent' /\ Asked({})
  BY <1>1, <1>3, CapturedStays DEF Asked
<1> QED BY <1>1, <1>2, <1>3, <1>4, TransitionStays

\* refresh of the Settings view binds a target and asks for a draft at most.
LEMMA RefreshSettingsKeeps == ASSUME DraftInv, RefreshSettings PROVE DraftInv'
<1>1. /\ drafts' = Staled(Latest)
      /\ UNCHANGED <<documents, operations, epoch, faults, known, flow>>
  BY DEF RefreshSettings
<1>2. HostWaits
  BY <1>1, HostWaitsStill
<1>3. /\ documents[Latest] \in 0..MaxTargets /\ Latest \in Versions
  BY HostIs DEF DraftInv, Versions
<1>4. work' \in {work, Bound(work, documents[Latest])}
  BY DEF RefreshSettings
<1>5. /\ work' \in Work /\ work'.draft = work.draft /\ work'.edits = work.edits
      /\ work'.busy = work.busy /\ work'.baseline = work.baseline /\ work'.moved = work.moved
      /\ work.moved \in BOOLEAN
  BY <1>3, <1>4, BoundIs, WorkIs DEF Work
<1>6. WorkSound'
  BY <1>1, <1>2, <1>5, HeldStays DEF HostWaits, HostGoesOn
<1>7. PICK q : q = [kind |-> "open", by |-> "settings", document |-> Latest,
                    reply |-> Unanswered]
  OBVIOUS
<1>8. /\ q \in Request /\ q.kind = "open" /\ q.by = "settings" /\ q.reply = Unanswered
  BY <1>3, <1>7 DEF Request, Reply
<1>9. requests' \subseteq requests \cup {q}
  BY <1>7 DEF RefreshSettings, Ask
<1>10. Asked({q})
  BY <1>8, <1>9 DEF Asked, RequestSound, Says, Copy
<1>11. CapturedIsCurrent'
  BY <1>5, <1>8, <1>9, CapturedStays
<1> QED BY <1>1, <1>2, <1>5, <1>6, <1>8, <1>10, <1>11, TransitionStays

\* captureDraftReconciliation.
LEMMA StartReconciliationKeeps == ASSUME DraftInv, StartReconciliation PROVE DraftInv'
<1>1. PICK q : q = [kind |-> "get", by |-> "reconciliation", draft |-> work.draft,
                    binding |-> work.binding, reply |-> Unanswered]
  OBVIOUS
<1>2. /\ work.draft # Nothing /\ work.baseline = Nothing
      /\ \A r \in requests : r.kind # "get"
      /\ work' = [work EXCEPT !.moved = FALSE] /\ requests' = requests \cup {q}
      /\ UNCHANGED <<host, known, flow>>
  BY <1>1 DEF StartReconciliation, Ask
<1>3. /\ work \in Work /\ work.draft \in Snapshot /\ Agrees(work.draft) /\ TypeOK
  BY <1>2, WorkIs DEF DraftInv
<1>4. /\ work' \in Work /\ work'.draft = work.draft /\ work'.edits = work.edits
      /\ work'.busy = work.busy /\ work'.baseline = work.baseline
  BY <1>2, <1>3 DEF Work
<1>5. HostWaits
  BY <1>2, HostWaitsStill DEF host
<1>6. WorkSound'
  BY <1>2, <1>4, <1>5, HeldStays DEF HostWaits, HostGoesOn
<1>7. /\ q \in Request /\ q.kind = "get" /\ q.by = "reconciliation" /\ q.reply = Unanswered
      /\ q.draft = work.draft
  BY <1>1, <1>3 DEF Work, Request, Reply
<1>8. Asked({q})
  <2>1. Agrees(q.draft)'
    BY <1>3, <1>5, <1>7, AgreesGoesOn DEF HostWaits, HostGoesOn
  <2>2. Says(q, q.reply)'
    BY <1>7 DEF Says, Copy
  <2> QED BY <1>2, <1>7, <2>1, <2>2 DEF Asked, RequestSound
<1>9. CapturedIsCurrent'
  BY <1>2, <1>4, <1>7 DEF CapturedIsCurrent
<1> QED BY <1>2, <1>4, <1>5, <1>6, <1>7, <1>8, <1>9, TransitionStays

\* A draft that was opened replaces nothing, or what is not to be kept.
LEMMA AdoptingKeeps ==
  ASSUME DraftInv, HostWaits, NEW r \in requests, r.kind = "open", Copy(r.reply),
         requests' = requests \ {r}, \A q \in requests' : q.by # "facade",
         work' \in Work, work'.draft = r.reply, work'.moved, work'.baseline = Nothing,
         flow' \in Flow, flow'.kind = "idle"
  PROVE  DraftInv'
<1>1. HostSound' /\ DraftsGoOn /\ OperationsGoOn /\ HostKnown' /\ UNCHANGED operations
  BY DEF HostWaits, HostGoesOn
<1>2. RequestsSound'
  <2>1. ASSUME NEW q \in requests' PROVE RequestSound(q)'
    BY <1>1, RequestGoesOn
  <2> QED BY <2>1 DEF RequestsSound
<1>3. r.reply \in Snapshot /\ r.reply # Nothing /\ Agrees(r.reply)'
  BY <1>1, RequestOf, AgreesGoesOn DEF DraftInv, Copy
<1>4. WorkSound'
  <2>1. (work.draft # Nothing => Agrees(work.draft))'
    BY <1>3 DEF Agrees
  <2>2. TransitionHeld'
    BY DEF TransitionHeld, WithDraft, Saving
  <2> QED BY <1>3, <2>1, <2>2 DEF WorkSound
<1>5. /\ \A p \in requests : p.kind # "open" => p.draft.id # r.reply.id
      /\ SavesFailed(r.reply.id, {})
  BY FreshIsElsewhere
<1>6. WorkNotWritten'
  <2>1. SavesGoOn
    BY <1>1 DEF SavesGoOn
  <2> QED BY <1>5, <2>1, NotSubmitted DEF Submitting
<1>7. OpenedAreFresh'
  <2>1. ASSUME NEW q \in requests', q.kind = "open", Copy(q.reply)
        PROVE  /\ work'.draft # Nothing => work'.draft.id # q.reply.id
               /\ \A p \in requests' : p.kind # "open" => p.draft.id # q.reply.id
    <3>1. q.reply.id # r.reply.id
      BY <2>1 DEF DraftInv, OpenedAreFresh
    <3>2. \A p \in requests : p.kind # "open" => p.draft.id # q.reply.id
      BY <2>1, FreshIsElsewhere
    <3> QED BY <3>1, <3>2
  <2>2. \A q \in requests' : q.kind = "open" /\ Copy(q.reply) => q \in requests
    OBVIOUS
  <2> QED BY <1>1, <2>1, <2>2, FreshStays
<1>8. AskedOnce' /\ CapturedIsCurrent'
  BY DEF AskedOnce, CapturedIsCurrent
<1> QED BY <1>1, <1>2, <1>4, <1>6, <1>7, <1>8, InvariantParts, PTL

\* finishBaselineReopen adopts a draft nobody has touched, or gives up.
LEMMA OpenedBaselineKeeps ==
  ASSUME DraftInv, NEW r \in requests, OpenedBaseline(r) PROVE DraftInv'
<1>1. /\ HostWaits /\ requests' = requests \ {r} /\ \A q \in requests' : q.by # "facade"
      /\ flow.kind = "opening" /\ (Copy(r.reply) \/ r.reply = Nothing)
      /\ r.kind = "open" /\ r \in Request /\ flow' = Idle
  <2>1. Arrives(r, "open") /\ flow' = Idle
    BY DEF OpenedBaseline
  <2> QED BY <2>1, ArrivesIs DEF WaitingFor, Arrives
<1>2. /\ work \in Work /\ work.draft = Nothing /\ work.baseline # Nothing
      /\ flow' \in Flow /\ flow'.kind = "idle"
  BY <1>1, WorkIs DEF TransitionHeld, Idle
<1>3. CASE work' = [work EXCEPT !.busy = FALSE]
  <2>1. /\ work' \in Work /\ work'.draft = work.draft /\ work'.baseline = work.baseline
        /\ work'.moved = work.moved /\ ~work'.busy /\ work.moved \in BOOLEAN
    BY <1>2, <1>3 DEF Work
  <2>2. WorkSound'
    BY <1>1, <1>2, <2>1, WorkAtRest DEF HostWaits, HostGoesOn
  <2> QED BY <1>1, <1>2, <2>1, <2>2, QuietKeeps DEF SameDraft, Submitting
<1> DEFINE s == r.reply
<1>4. CASE /\ s # Nothing
           /\ work' = [Adopted(work, s) EXCEPT !.baseline = Nothing, !.busy = FALSE]
  <2>1. Copy(s) /\ s \in Snapshot
    BY <1>1, <1>4, RequestOf
  <2>2. work' \in Work /\ work'.draft = s /\ work'.moved /\ work'.baseline = Nothing
    <3> HIDE DEF s
    <3>1. LET w == Adopted(work, s) IN w \in Work /\ w.draft = s /\ w.moved
      BY <1>2, <2>1 DEF Adopted, Work, Snapshot
    <3> QED BY <1>4, <3>1 DEF Work
  <2> QED BY <1>1, <1>2, <2>1, <2>2, AdoptingKeeps
<1> QED BY <1>3, <1>4 DEF OpenedBaseline

\* What the work may become of a draft that is observed.
LEMMA ObservedIs ==
  ASSUME DraftInv, NEW s \in Snapshot
  PROVE  LET w == Observed(work, s)
         IN /\ w \in Work
            /\ \/ /\ w.draft = work.draft /\ w.edits = work.edits /\ w.busy = work.busy
                  /\ w.baseline = work.baseline /\ w.moved = work.moved
               \/ /\ w.draft = s /\ w.moved /\ ~work.busy
                  /\ work.baseline = Nothing /\ w.baseline = Nothing
                  /\ ~Dirty(work)
<1>1. work \in Work
  BY WorkIs
<1>2. LET w == Adopted(work, s)
      IN w \in Work /\ w.draft = s /\ w.moved /\ w.baseline = work.baseline
  BY <1>1 DEF Adopted, Work, Snapshot
<1>3. LET w == [work EXCEPT !.conflict = TRUE]
      IN /\ w \in Work /\ w.draft = work.draft /\ w.edits = work.edits /\ w.busy = work.busy
         /\ w.baseline = work.baseline /\ w.moved = work.moved
  BY <1>1 DEF Work
<1>4. Observed(work, s) \in {work, [work EXCEPT !.conflict = TRUE]}
        \/ /\ Observed(work, s) = Adopted(work, s)
           /\ ~Dirty(work) /\ ~work.busy /\ work.baseline = Nothing
  BY DEF Observed, Opened
<1> QED BY <1>1, <1>2, <1>3, <1>4

\* openDraft adopts one only where nothing is to be kept.
LEMMA SettingsOpenedKeeps ==
  ASSUME DraftInv, NEW r \in requests, SettingsOpened(r) PROVE DraftInv'
<1>1. /\ r.kind = "open" /\ r.by = "settings" /\ r.reply # Unanswered
      /\ requests' = requests \ {r} /\ UNCHANGED <<host, known, flow>>
      /\ r.reply # Nothing => Copy(r.reply) /\ r.reply \in Snapshot
  BY RequestOf DEF SettingsOpened, Copy
<1>2. HostWaits /\ work.moved \in BOOLEAN /\ work \in Work
  BY <1>1, HostWaitsStill, WorkIs DEF host, Work
<1>3. CASE /\ work' \in Work /\ work'.draft = work.draft /\ work'.edits = work.edits
           /\ work'.busy = work.busy /\ work'.baseline = work.baseline
           /\ work'.moved = work.moved
  <2>1. WorkSound'
    BY <1>1, <1>2, <1>3, HeldStays DEF HostWaits, HostGoesOn
  <2>2. CapturedIsCurrent' /\ Asked({})
    BY <1>1, <1>2, <1>3, CapturedStays DEF Asked
  <2> QED BY <1>1, <1>2, <1>3, <2>1, <2>2, TransitionStays
<1>4. CASE /\ r.reply # Nothing /\ work' \in Work /\ work'.draft = r.reply /\ work'.moved
           /\ ~work.busy /\ work'.baseline = Nothing
  <2>1. flow.kind = "idle" /\ flow' \in Flow
    BY <1>1, <1>4, WorkIs DEF TransitionHeld
  <2>2. \A q \in requests' : q.by # "facade"
    BY <1>1, <2>1, NothingAsked
  <2> QED BY <1>1, <1>2, <1>4, <2>1, <2>2, AdoptingKeeps
<1>5. work' = work \/ (r.reply # Nothing /\ work' = Observed(work, r.reply))
  BY DEF SettingsOpened
<1>6. CASE work' = work
  BY <1>2, <1>3, <1>6
<1>7. CASE r.reply # Nothing /\ work' = Observed(work, r.reply)
  BY <1>1, <1>3, <1>4, <1>7, ObservedIs
<1> QED BY <1>5, <1>6, <1>7

\* finishDraftReconciliation takes a later revision only while no transition runs.
LEMMA ReconciledKeeps ==
  ASSUME DraftInv, NEW r \in requests, Reconciled(r) PROVE DraftInv'
<1>1. /\ r.kind = "get" /\ requests' = requests \ {r} /\ UNCHANGED <<host, known, flow>>
      /\ r.reply # Unanswered /\ r \in Request
  BY RequestOf DEF Reconciled
<1>2. HostWaits /\ work \in Work
  BY <1>1, HostWaitsStill, WorkIs DEF host
<1>3. CASE \E o \in BOOLEAN : work' = [work EXCEPT !.conflict = o, !.moved = TRUE]
  <2>1. /\ work' \in Work /\ work'.draft = work.draft /\ work'.edits = work.edits
        /\ work'.busy = work.busy /\ work'.baseline = work.baseline /\ work'.moved
    BY <1>2, <1>3 DEF Work
  <2>2. WorkSound'
    BY <1>1, <1>2, <2>1, HeldStays DEF HostWaits, HostGoesOn
  <2>3. CapturedIsCurrent' /\ Asked({})
    BY <1>1, <2>1, CapturedStays DEF Asked
  <2> QED BY <1>1, <1>2, <2>1, <2>2, <2>3, TransitionStays
<1> DEFINE s == r.reply
<1>4. CASE /\ work.draft # Nothing /\ work.draft.id = r.draft.id /\ s # Nothing /\ ~work.busy
           /\ work' = [Adopted(work, s) EXCEPT !.conflict = s.state = "stale"]
  <2>1. Copy(s) /\ s \in Snapshot /\ Agrees(s) /\ s.id = work.draft.id /\ s # Nothing
    BY <1>1, <1>4, RequestOf DEF AnswerSound, Copy
  <2>2. flow.kind = "idle" /\ flow' \in Flow /\ work.baseline = Nothing
    BY <1>1, <1>4, WorkIs DEF TransitionHeld
  <2>3. \A q \in requests' : q.by # "facade"
    BY <1>1, <2>2, NothingAsked
  <2>4. Agrees(s)'
    BY <1>2, <2>1, AgreesGoesOn DEF HostWaits, HostGoesOn, DraftInv
  <2> HIDE DEF s
  <2>5. /\ work' \in Work /\ work'.draft = s /\ work'.moved
        /\ work'.baseline = Nothing /\ ~work'.busy
    <3>1. LET w == Adopted(work, s)
          IN w \in Work /\ w.draft = s /\ w.moved /\ w.baseline = Nothing /\ ~w.busy
      BY <1>2, <1>4, <2>1, <2>2 DEF Adopted, Work, Snapshot
    <3>2. PICK o \in BOOLEAN : o = (s.state = "stale")
      OBVIOUS
    <3>3. work' = [Adopted(work, s) EXCEPT !.conflict = o]
      BY <1>4, <3>2
    <3> QED BY <3>1, <3>3 DEF Work
  <2>6. WorkSound'
    <3>1. (work.draft # Nothing => Agrees(work.draft))'
      BY <2>4, <2>5 DEF Agrees
    <3>2. TransitionHeld'
      BY <1>1, <2>2, <2>5 DEF TransitionHeld, WithDraft, Saving
    <3> QED BY <2>2, <2>5, <3>1, <3>2 DEF WorkSound
  <2>7. SameDraft /\ requests' \subseteq requests
    BY <1>1, <1>4, <2>1, <2>5 DEF SameDraft
  <2> QED BY <1>1, <1>2, <2>2, <2>3, <2>5, <2>6, <2>7, QuietKeeps DEF Submitting
<1>5. \/ \E o \in BOOLEAN : work' = [work EXCEPT !.conflict = o, !.moved = TRUE]
      \/ /\ work.draft # Nothing /\ work.draft.id = r.draft.id /\ s # Nothing /\ ~work.busy
         /\ work' = [Adopted(work, s) EXCEPT !.conflict = s.state = "stale"]
  <2> DEFINE retained == work.draft # Nothing /\ work.draft.id = r.draft.id
  <2>1. CASE work' = [work EXCEPT !.conflict = @ \/ retained, !.moved = TRUE]
    <3>1. PICK o \in BOOLEAN : o = (work.conflict \/ retained)
      OBVIOUS
    <3>2. work' = [work EXCEPT !.conflict = o, !.moved = TRUE]
      BY <1>2, <2>1, <3>1 DEF Work
    <3> QED BY <3>2
  <2>2. CASE work' = [work EXCEPT !.conflict = r.reply.state = "stale", !.moved = TRUE]
    <3>1. PICK o \in BOOLEAN : o = (r.reply.state = "stale")
      OBVIOUS
    <3>2. work' = [work EXCEPT !.conflict = o, !.moved = TRUE]
      BY <2>2, <3>1
    <3> QED BY <3>2
  <2>3. \/ work' = [work EXCEPT !.conflict = @ \/ retained, !.moved = TRUE]
        \/ work' = [work EXCEPT !.conflict = r.reply.state = "stale", !.moved = TRUE]
        \/ /\ work.draft # Nothing /\ work.draft.id = r.draft.id /\ s # Nothing /\ ~work.busy
           /\ work' = [Adopted(work, s) EXCEPT !.conflict = s.state = "stale"]
    BY DEF Reconciled, Acceptable
  <2> QED BY <2>1, <2>2, <2>3
<1> QED BY <1>3, <1>4, <1>5

-----------------------------------------------------------------------------
(* The invariant                                                           *)

\* The invariant holds before anything is opened.
LEMMA InitEstablishes == Init => DraftInv
<1> SUFFICES ASSUME Init PROVE DraftInv
  OBVIOUS
<1>1. /\ documents = <<1>> /\ drafts = <<>> /\ operations = <<>>
      /\ epoch = 1 /\ known = 1 /\ faults = 0 /\ requests = {}
      /\ work = NoWork /\ flow = Idle
  BY DEF Init
<1>2. HostSound
  <2>1. documents \in Seq(1..MaxTargets) /\ Len(documents) = 1
    BY <1>1, DraftAssumption
  <2>2. drafts \in Seq(Draft) /\ Len(drafts) = 0 /\ DOMAIN drafts = {}
    BY <1>1
  <2>3. operations \in Seq(Operation) /\ DOMAIN operations = {}
    BY <1>1
  <2>4. 1 \in Versions /\ 0 <= MaxDrafts /\ 1 \in Epochs /\ 0 \in 0..MaxFaults
    BY DraftAssumption DEF Versions, Epochs
  <2> QED BY <1>1, <2>1, <2>2, <2>3, <2>4 DEF HostSound, SavedOnce
<1>3. WorkSound
  <2>1. Idle \in Flow
    BY DEF Idle, Flow
  <2>2. NoWork \in Work
    <3>1. 0 \in 0..MaxTargets
      BY DraftAssumption
    <3> QED BY <3>1 DEF NoWork, Work, Content
  <2>3. /\ flow.kind = "idle" /\ work.draft = Nothing /\ work.baseline = Nothing
        /\ ~work.busy
    BY <1>1 DEF NoWork, Idle
  <2> QED BY <1>1, <2>1, <2>2, <2>3 DEF WorkSound, TransitionHeld, WithDraft, Saving
<1>4. RequestsSound /\ AskedOnce /\ CapturedIsCurrent /\ OpenedAreFresh
  BY <1>1 DEF RequestsSound, AskedOnce, CapturedIsCurrent, OpenedAreFresh
<1>5. WorkNotWritten /\ HostKnown
  BY <1>1 DEF WorkNotWritten, NoWork, HostKnown
<1> QED BY <1>2, <1>3, <1>4, <1>5, InvariantParts

\* Every step keeps it.
LEMMA NextKeeps == DraftInv /\ [Next]_vars => DraftInv'
<1> SUFFICES ASSUME DraftInv, [Next]_vars PROVE DraftInv'
  OBVIOUS
<1>1. CASE HostStep
  BY <1>1, ExecutionKeeps, OwnStepKeeps, RestartKeeps DEF HostStep
<1>2. CASE UserStep
  BY <1>2, EditKeeps, RequestNavigationKeeps, StayKeeps, CommitSaveKeeps, ReplaySaveKeeps,
     PrepareSaveKeeps, PrepareDiscardKeeps, DiscardKeeps, ReloadBaselineKeeps DEF UserStep
<1>3. CASE AnswerStep
  BY <1>3, SynchronizedKeeps, CommittedKeeps, CommitUnsentKeeps, DiscardedKeeps,
     OpenedBaselineKeeps, SettingsOpenedKeeps, ReconciledKeeps, LoseAnswerKeeps,
     PreparedKeeps, ObserveOutcomeKeeps, ReadBaselineKeeps DEF AnswerStep
<1>4. CASE ViewStep
  BY <1>4, InspectTargetKeeps, RefreshSettingsKeeps, StartReconciliationKeeps,
     ObserveHostKeeps DEF ViewStep
<1>5. CASE UNCHANGED vars
  <2>1. UNCHANGED <<documents, drafts, operations, epoch, faults, requests, known, work, flow>>
    BY <1>5 DEF vars
  <2>2. HostWaits
    BY <2>1, HostWaitsStill
  <2>3. WorkSound' /\ work.moved \in BOOLEAN
    BY <2>1, <2>2, WorkIs, HeldStays DEF HostWaits, HostGoesOn, Work
  <2>4. CapturedIsCurrent' /\ Asked({})
    BY <2>1, <2>3, CapturedStays DEF Asked
  <2> QED BY <2>1, <2>2, <2>3, <2>4, TransitionStays
<1> QED BY <1>1, <1>2, <1>3, <1>4, <1>5 DEF Next

\* What the user, the facade, the requests under way and the host hold of a draft
\* is always consistent (work-context.ts, bridge-facade.ts and drafts.rs together).
THEOREM DraftInvariant == Spec => []DraftInv
<1> QED BY InitEstablishes, NextKeeps, PTL DEF Spec

\* Every variable keeps its type, and a busy context is held by somebody.
THEOREM DraftTypeCorrect == Spec => []TypeOK
<1>1. DraftInv => TypeOK
  BY DEF DraftInv
<1> QED BY <1>1, DraftInvariant, PTL

\* The user never works on other content than the host has under the same
\* revision (set_draft_changes, draftAcknowledgementMatches).
THEOREM GenerationsAreOne == Spec => []OneGeneration
<1>1. DraftInv => OneGeneration
  <2> SUFFICES ASSUME DraftInv, work.draft # Nothing PROVE OneGeneration
    BY DEF OneGeneration
  <2>1. Agrees(work.draft)
    BY WorkIs
  <2> QED BY <2>1 DEF OneGeneration, Agrees
<1> QED BY <1>1, DraftInvariant, PTL

-----------------------------------------------------------------------------
(* What a step may do to the work                                          *)

\* A step that changes neither the draft nor its edits loses nothing.
LEMMA UnchangedWork ==
  ASSUME Dirty(work), work'.draft = work.draft, work'.edits = work.edits
  PROVE  Unchanged(work, work')
BY DEF Dirty, Unchanged

\* What the store accepts of the host replaces only what is synchronized, and by
\* a later revision.
LEMMA ReconciledReplaces ==
  ASSUME DraftInv, Dirty(work), NEW r \in requests, Reconciled(r), ~Unchanged(work, work')
  PROVE  /\ work.edits = work.draft.edits /\ work'.draft # Nothing
         /\ work'.draft.id = work.draft.id /\ work'.draft.revision > work.draft.revision
<1>1. r.kind = "get" /\ r.reply # Unanswered /\ work \in Work
  BY WorkIs DEF Reconciled
<1> DEFINE s == r.reply
<1>2. /\ ~work.moved /\ s # Nothing
      /\ Acceptable(work.draft, s)
      /\ work' = [Adopted(work, s) EXCEPT !.conflict = s.state = "stale"]
  <2>1. CASE work'.draft = work.draft /\ work'.edits = work.edits
    BY <2>1, UnchangedWork
  <2> DEFINE retained == work.draft # Nothing /\ work.draft.id = r.draft.id
  <2>2. CASE work' = [work EXCEPT !.conflict = @ \/ retained, !.moved = TRUE]
    BY <1>1, <2>1, <2>2 DEF Work
  <2>3. CASE work' = [work EXCEPT !.conflict = r.reply.state = "stale", !.moved = TRUE]
    BY <1>1, <2>1, <2>3 DEF Work
  <2> QED BY <2>2, <2>3 DEF Reconciled
<1>3. /\ work.draft = r.draft /\ Copy(s) /\ work.draft \in Snapshot
  BY <1>1, <1>2, RequestOf DEF DraftInv, CapturedIsCurrent, Copy
<1>4. /\ s \in Snapshot /\ s.id = work.draft.id /\ s.revision >= work.draft.revision
      /\ s.revision = work.draft.revision => s.edits = work.draft.edits
  BY <1>1, <1>3, RequestOf DEF AnswerSound
<1>5. s.edits # work.edits => work.edits = work.draft.edits
  BY <1>2 DEF Acceptable
<1>6. work'.draft = s /\ work'.edits = s.edits
  <2> HIDE DEF s
  <2>1. LET w == Adopted(work, s) IN w \in Work /\ w.draft = s /\ w.edits = s.edits
    BY <1>1, <1>4 DEF Adopted, Work, Snapshot
  <2> QED BY <1>2, <2>1 DEF Work
<1>7. s.edits # work.edits
  BY <1>2, <1>4, <1>6 DEF Unchanged
<1>8. s.revision \in Nat /\ work.draft.revision \in Nat
  BY <1>3, <1>4, DraftAssumption DEF Snapshot
<1> QED BY <1>2, <1>4, <1>5, <1>6, <1>7, <1>8

\* What is lost when a review is completed was written, or its discard executed.
LEMMA CompletionReplaces ==
  ASSUME DraftInv, Dirty(work), ~Unchanged(work, work'),
         ObserveOutcome \/ \E r \in requests : Discarded(r)
  PROVE  \/ work.edits = work.draft.edits /\ Written(work.draft)
         \/ flow.kind = "discarding" /\ ~drafts[work.draft.id].live
<1>1. work' # Failed
  BY FailedIs, UnchangedWork
<1>2. CASE ObserveOutcome
  <2>1. \E k \in SaveOf(work.draft) : operations[k].status \in {"changed", "no_change"}
    BY <1>1, <1>2 DEF ObserveOutcome
  <2>2. work.edits = work.draft.edits
    BY <1>2, WorkIs DEF ObserveOutcome, TransitionHeld, Saving
  <2> QED BY <2>1, <2>2 DEF Written
<1>3. ASSUME NEW r \in requests, Discarded(r)
      PROVE  flow.kind = "discarding" /\ ~drafts[work.draft.id].live
  <2>1. Arrives(r, "discard") /\ r.reply # Nothing
    BY <1>1, <1>3 DEF Discarded
  <2>2. flow.kind = "discarding" /\ r.kind = "discard" /\ r.draft = work.draft /\ Copy(r.reply)
    BY <2>1, ArrivesIs DEF WaitingFor
  <2> QED BY <2>2, RequestOf DEF AnswerSound
<1> QED BY <1>2, <1>3

\* The other answers lose nothing.
LEMMA AnswersKeepEdits ==
  ASSUME DraftInv, Dirty(work),
         \/ Prepared \/ ReadBaseline
         \/ \E r \in requests :
              \/ Synchronized(r) \/ Committed(r) \/ CommitUnsent(r)
              \/ OpenedBaseline(r) \/ SettingsOpened(r) \/ LoseAnswer(r)
  PROVE  Unchanged(work, work')
<1>1. work \in Work /\ work.draft # Nothing
  BY WorkIs DEF Dirty
<1>2. CASE work' = Failed \/ UNCHANGED work
  BY <1>2, FailedIs, UnchangedWork
<1>3. CASE Prepared \/ \E r \in requests : Committed(r) \/ CommitUnsent(r) \/ LoseAnswer(r)
  BY <1>2, <1>3 DEF Prepared, Committed, CommitUnsent, LoseAnswer
<1>4. CASE ReadBaseline
  BY <1>1, <1>4, WorkIs DEF ReadBaseline, TransitionHeld
<1>5. ASSUME NEW r \in requests, OpenedBaseline(r) PROVE FALSE
  <2>1. Arrives(r, "open")
    BY <1>5 DEF OpenedBaseline
  <2>2. flow.kind = "opening"
    BY <2>1, ArrivesIs DEF WaitingFor
  <2> QED BY <1>1, <2>2, WorkIs DEF TransitionHeld
<1>6. ASSUME NEW r \in requests, Synchronized(r) PROVE Unchanged(work, work')
  <2>1. Arrives(r, "sync")
    BY <1>6 DEF Synchronized
  <2>2. /\ r.kind = "sync" /\ r.draft = work.draft /\ r.edits = work.edits
        /\ Copy(r.reply) \/ r.reply = Nothing
    BY <2>1, ArrivesIs
  <2>3. CASE work' = Failed
    BY <1>2, <2>3
  <2> DEFINE s == r.reply
  <2>4. CASE s # Nothing /\ work' \in {Adopted(work, s), [Adopted(work, s) EXCEPT !.busy = FALSE]}
    <3>1. s \in Snapshot /\ s.id = work.draft.id /\ s.edits = work.edits
      BY <2>2, <2>4, RequestOf DEF AnswerSound
    <3>2. work'.draft = s /\ work'.edits = s.edits
      <4> HIDE DEF s
      <4>1. LET w == Adopted(work, s) IN w \in Work /\ w.draft = s /\ w.edits = s.edits
        BY <1>1, <3>1 DEF Adopted, Work, Snapshot
      <4> QED BY <2>4, <4>1 DEF Work
    <3> QED BY <2>4, <3>1, <3>2 DEF Unchanged
  <2> QED BY <1>6, <2>3, <2>4 DEF Synchronized
<1>7. ASSUME NEW r \in requests, SettingsOpened(r) PROVE Unchanged(work, work')
  <2>1. CASE work' = work
    BY <1>2, <2>1
  <2>2. CASE r.reply # Nothing /\ work' = Observed(work, r.reply)
    <3>1. r.reply \in Snapshot
      BY <1>7, <2>2, RequestOf DEF SettingsOpened, Copy
    <3>2. work'.draft = work.draft /\ work'.edits = work.edits
      BY <2>2, <3>1, ObservedIs
    <3> QED BY <3>2, UnchangedWork
  <2> QED BY <1>7, <2>1, <2>2 DEF SettingsOpened
<1> QED BY <1>3, <1>4, <1>5, <1>6, <1>7

\* Neither the host nor a view takes anything away, nor does the user unless by
\* editing.
LEMMA OthersKeepEdits ==
  ASSUME DraftInv, Dirty(work), HostStep \/ (UserStep /\ ~Edit) \/ ViewStep
  PROVE  Unchanged(work, work')
<1>1. work \in Work /\ work.draft # Nothing
  BY WorkIs DEF Dirty
<1>2. CASE UNCHANGED work \/ work' = Failed
  BY <1>2, FailedIs, UnchangedWork
<1>3. CASE \/ work' = [work EXCEPT !.busy = TRUE]
           \/ work' = [work EXCEPT !.pending = TRUE]
           \/ work' = [work EXCEPT !.moved = FALSE]
  <2>1. work'.draft = work.draft /\ work'.edits = work.edits
    BY <1>1, <1>3 DEF Work
  <2> QED BY <2>1, UnchangedWork
<1>4. CASE HostStep
  BY <1>2, <1>4 DEF HostStep, ExecuteSync, ExecuteCommit, ExecuteDiscard, ExecuteOpen,
     ExecuteGet, SaveChanges, SaveFindsNoChange, SaveFails, ForeignChange, Restart
<1>5. CASE Stay
  <2>1. PICK w \in {work, Failed} : work' = [w EXCEPT !.pending = @ /\ w.busy]
    BY <1>5 DEF Stay
  <2>2. w \in Work /\ w.draft = work.draft /\ w.edits = work.edits
    BY <1>1, FailedIs
  <2>3. work'.draft = work.draft /\ work'.edits = work.edits
    BY <2>1, <2>2 DEF Work
  <2> QED BY <2>3, UnchangedWork
<1>6. CASE UserStep /\ ~Edit /\ ~Stay
  BY <1>2, <1>3, <1>6 DEF UserStep, RequestNavigation, CommitSave, ReplaySave, PrepareSave,
     PrepareDiscard, Discard, ReloadBaseline
<1>7. CASE InspectTarget \/ RefreshSettings
  <2>1. documents[Latest] \in 0..MaxTargets
    BY HostIs DEF DraftInv, Versions
  <2>2. work' \in {work, Bound(work, documents[Latest])}
    BY <1>7 DEF InspectTarget, RefreshSettings
  <2>3. work'.draft = work.draft /\ work'.edits = work.edits
    BY <2>1, <2>2, BoundIs
  <2> QED BY <2>3, UnchangedWork
<1>8. CASE StartReconciliation \/ ObserveHost
  BY <1>2, <1>3, <1>8 DEF StartReconciliation, ObserveHost
<1> QED BY <1>4, <1>5, <1>6, <1>7, <1>8 DEF ViewStep

\* Unsaved work disappears only because the user edits it, because exactly it was
\* saved, because a confirmed discard was executed, or because the host holds a
\* later revision of what was synchronized (work-context.ts).
THEOREM EditsAreNotLost == Spec => EditsNotLost
<1> DEFINE Kept ==
      (Dirty(work) /\ ~Unchanged(work, work')) =>
        \/ Edit
        \/ work.edits = work.draft.edits /\ Written(work.draft)
        \/ flow.kind = "discarding" /\ ~drafts[work.draft.id].live
        \/ /\ work.edits = work.draft.edits /\ work'.draft # Nothing
           /\ work'.draft.id = work.draft.id /\ work'.draft.revision > work.draft.revision
<1>1. DraftInv /\ [Next]_vars => [Kept]_vars
  <2> SUFFICES ASSUME DraftInv, Next, Dirty(work), ~Unchanged(work, work'), ~Edit
               PROVE  Kept
    OBVIOUS
  <2>1. AnswerStep
    BY OthersKeepEdits DEF Next
  <2>2. \/ ObserveOutcome \/ \E r \in requests : Discarded(r)
        \/ \E r \in requests : Reconciled(r)
    BY <2>1, AnswersKeepEdits DEF AnswerStep
  <2> QED BY <2>2, CompletionReplaces, ReconciledReplaces
<1>2. Spec => [][Kept]_vars
  BY <1>1, DraftInvariant, PTL DEF Spec
<1> QED BY <1>2 DEF EditsNotLost

\* Once the user was told that a draft is discarded, no save of any revision of it
\* is under way or will be (submitDiscard, discard_draft).
THEOREM DiscardedAreNotWritten == Spec => DiscardedIsNotWritten
<1> DEFINE Told ==
      \A r \in requests :
        (Discarded(r) /\ work'.draft = Nothing) =>
          \A k \in DOMAIN operations :
            (operations[k].draft.id = r.draft.id) => operations[k].status = "failed"
<1>1. DraftInv /\ [Next]_vars => [Told]_vars
  <2> SUFFICES ASSUME DraftInv, NEW r \in requests, Discarded(r),
                      NEW k \in DOMAIN operations, operations[k].draft.id = r.draft.id
               PROVE  operations[k].status = "failed"
    OBVIOUS
  <2>1. Arrives(r, "discard")
    BY DEF Discarded
  <2>2. flow.kind = "discarding" /\ r.draft = work.draft
    BY <2>1, ArrivesIs DEF WaitingFor
  <2>3. SavesFailed(work.draft.id, {})
    BY <2>2, WorkIs DEF DraftInv, WorkNotWritten, TransitionHeld, WithDraft, Submitting
  <2> QED BY <2>2, <2>3 DEF SavesFailed
<1>2. Spec => [][Told]_vars
  BY <1>1, DraftInvariant, PTL DEF Spec
<1> QED BY <1>2 DEF DiscardedIsNotWritten

=============================================================================
