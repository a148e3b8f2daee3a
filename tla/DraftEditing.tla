---------------------------- MODULE DraftEditing ------------------------------
(***************************************************************************)
(* A configuration draft from the first edit to the written document: the  *)
(* draft the user works on (client/work-context.ts), the facade that saves  *)
(* and discards it (state/bridge-facade.ts), the Settings and Home views    *)
(* that open drafts and bind targets behind its back, and the host's drafts *)
(* (configuration/drafts.rs).                                               *)
(*                                                                         *)
(* Requests and answers travel one by one and may be lost, answered late or *)
(* executed after nobody waits any more; the host may be replaced.          *)
(***************************************************************************)
EXTENDS Naturals, Sequences, FiniteSets

CONSTANTS
  Edits,        \* what a user may stage
  NoEdits,      \* the empty list of edits
  MaxTargets,   \* bound: what the selected target may resolve to
  MaxDocuments, \* bound: versions of the document
  MaxDrafts,    \* bound: drafts opened
  MaxRevision,  \* bound: revisions of a draft
  MaxFaults,    \* bound: lost messages, host replacements and foreign writes
  MaxRequests,  \* bound: requests under way, waited for or not
  Nothing, Unanswered

ASSUME DraftAssumption ==
  /\ NoEdits \notin Edits
  /\ {MaxTargets, MaxDocuments, MaxDrafts, MaxRevision, MaxRequests} \subseteq Nat \ {0}
  /\ MaxFaults \in Nat /\ Nothing # Unanswered
  /\ Nothing \notin [reason : {"save", "discard"}, document : Nat, epoch : Nat]
  /\ \A v \in {Nothing, Unanswered} :
       v \notin [id : Nat, document : Nat, revision : Nat, edits : Edits \cup {NoEdits},
                state : {"clean", "dirty", "stale"}]

VARIABLES
  documents,  \* the versions of the document, each with the target it belongs to
  drafts,     \* DraftStore.drafts of every host, by identity
  operations, \* the saves that were admitted
  epoch,      \* the host that runs
  faults,     \* how many there were
  requests,   \* requests under way, with their answers
  known,      \* the host the client knows of
  work,       \* WorkContext
  flow        \* BridgeFacade's transition and its attempt

host == <<documents, drafts, operations, epoch, faults>>
vars == <<documents, drafts, operations, epoch, faults, requests, known, work, flow>>

Epochs == 1..(MaxFaults + 1)
Versions == 1..MaxDocuments
Content == Edits \cup {NoEdits}
Snapshot == [id : 1..MaxDrafts, document : Versions, revision : 0..MaxRevision,
             edits : Content, state : {"clean", "dirty", "stale"}]
Reply == Snapshot \cup {Nothing, Unanswered}
Request ==
  [kind : {"sync"}, by : {"facade", "nobody"}, draft : Snapshot, edits : Content, reply : Reply]
  \cup [kind : {"commit", "discard"}, by : {"facade", "nobody"}, draft : Snapshot, reply : Reply]
  \cup [kind : {"open"}, by : {"facade", "settings"}, document : Versions, reply : Reply]
  \cup [kind : {"get"}, by : {"reconciliation"}, draft : Snapshot,
        binding : 0..MaxTargets, reply : Reply]

\* The type of every variable; a busy context is held by somebody.
TypeOK ==
  /\ documents \in Seq(1..MaxTargets) /\ Len(documents) \in Versions
  /\ drafts \in Seq([epoch : Epochs, live : BOOLEAN, acked : BOOLEAN, now : Snapshot])
  /\ operations \in Seq([draft : Snapshot, document : Versions,
                         status : {"running", "changed", "no_change", "failed"}])
  /\ epoch \in Epochs /\ known \in 1..epoch /\ faults \in 0..MaxFaults
  /\ requests \subseteq Request
  /\ work \in [draft : Snapshot \cup {Nothing}, edits : Content,
               conflict : BOOLEAN, pending : BOOLEAN, busy : BOOLEAN, moved : BOOLEAN,
               binding : 0..MaxTargets,
               baseline : [reason : {"save", "discard"}, document : Versions,
                           epoch : Epochs] \cup {Nothing}]
  /\ flow \in [kind : {"idle", "syncing", "preparing", "review", "admitting", "uncertain",
                       "observing", "discard_review", "discarding", "reading", "opening"},
               purpose : {"navigation", "in_place"}, replay : BOOLEAN]
  /\ work.busy => work.draft # Nothing \/ work.baseline # Nothing

Idle == [kind |-> "idle", purpose |-> "navigation", replay |-> FALSE]
NoWork == [draft |-> Nothing, edits |-> NoEdits, conflict |-> FALSE,
           pending |-> FALSE, busy |-> FALSE, moved |-> TRUE, binding |-> 0,
           baseline |-> Nothing]

Init ==
  /\ documents = <<1>>
  /\ drafts = <<>> /\ operations = <<>>
  /\ epoch = 1 /\ known = 1 /\ faults = 0
  /\ requests = {}
  /\ work = NoWork
  /\ flow = Idle

Latest == Len(documents)
TargetOf(s) == documents[s.document]

Fault == faults < MaxFaults /\ faults' = faults + 1

-----------------------------------------------------------------------------
(* The host                                                                *)

SameRef(s, t) == s.id = t.id /\ s.document = t.document /\ s.revision = t.revision

\* DraftStore::current.
Current(s) == drafts[s.id].live /\ SameRef(drafts[s.id].now, s)

\* The draft is not the one whose document was found to have changed.
Editable(s) == Current(s) /\ drafts[s.id].now.state # "stale"

Answered(r, reply) ==
  (requests \ {r}) \cup IF r.by = "nobody" THEN {} ELSE {[r EXCEPT !.reply = reply]}

Open(r, kind) == r.kind = kind /\ r.reply = Unanswered

\* The repetition of the last acknowledged synchronization.
Repeated(r) ==
  LET d == drafts[r.draft.id]
  IN /\ d.live /\ d.acked /\ d.now.state # "stale"
     /\ d.now.document = r.draft.document /\ d.now.revision = r.draft.revision + 1
     /\ d.now.edits = r.edits

\* Seeded defect: edits are exchanged within a revision.
SyncedInPlace(s, edits) ==
  [s EXCEPT !.edits = edits,
     !.state = IF edits = NoEdits THEN "clean" ELSE "dirty"]

Synced(s, edits) ==
  [s EXCEPT !.edits = edits, !.revision = @ + 1,
     !.state = IF edits = NoEdits THEN "clean" ELSE "dirty"]

\* set_draft_changes.
ExecuteSync(r) ==
  /\ Open(r, "sync")
  /\ LET old == drafts[r.draft.id].now
     IN IF Editable(r.draft) /\ ~Repeated(r)
        THEN /\ drafts' = [drafts EXCEPT ![old.id].now = Synced(old, r.edits),
                                         ![old.id].acked = TRUE]
             /\ requests' = Answered(r, drafts'[old.id].now)
        ELSE /\ requests' = Answered(r, IF Repeated(r) THEN old ELSE Nothing)
             /\ UNCHANGED drafts
  /\ UNCHANGED <<documents, operations, epoch, faults, known, work, flow>>

\* The operation that saves s.
SaveOf(s) == {k \in DOMAIN operations : operations[k].draft = s}

\* Engine::commit under acquire_configuration: the draft is the one captured, its
\* document is the current one, and nothing else holds it.
MayAdmit(s) ==
  /\ drafts[s.id].live /\ drafts[s.id].now = s
  /\ s.document = Latest
  /\ \A k \in DOMAIN operations : operations[k].status # "running"

\* A repeated commit is answered with its operation; any commit may be refused.
ExecuteCommit(r) ==
  /\ Open(r, "commit")
  /\ \/ /\ SaveOf(r.draft) = {} /\ MayAdmit(r.draft)
        /\ operations' = Append(operations,
             [draft |-> r.draft, document |-> r.draft.document, status |-> "running"])
        /\ requests' = Answered(r, r.draft)
     \/ /\ requests' = Answered(r, IF SaveOf(r.draft) = {} THEN Nothing ELSE r.draft)
        /\ UNCHANGED operations
  /\ UNCHANGED <<documents, drafts, epoch, faults, known, work, flow>>

\* discard_draft: a save of the draft that runs is not looked at.
ExecuteDiscard(r) ==
  /\ Open(r, "discard")
  /\ drafts' = [drafts EXCEPT ![r.draft.id].live = @ /\ ~Current(r.draft)]
  /\ requests' = Answered(r, IF Current(r.draft) THEN r.draft ELSE Nothing)
  /\ UNCHANGED <<documents, operations, epoch, faults, known, work, flow>>

\* open_draft of the current document.
ExecuteOpen(r) ==
  /\ Open(r, "open")
  /\ IF r.document = Latest /\ Len(drafts) < MaxDrafts
     THEN LET s == [id |-> Len(drafts) + 1, document |-> r.document, revision |-> 0,
                    edits |-> NoEdits, state |-> "clean"]
          IN /\ drafts' = Append(drafts,
                  [epoch |-> epoch, live |-> TRUE, acked |-> FALSE, now |-> s])
             /\ requests' = Answered(r, s)
     ELSE requests' = Answered(r, Nothing) /\ UNCHANGED drafts
  /\ UNCHANGED <<documents, operations, epoch, faults, known, work, flow>>

\* get_draft: what the host holds now, if it is the host that was asked.
ExecuteGet(r) ==
  /\ Open(r, "get")
  /\ LET d == drafts[r.draft.id] IN requests' = Answered(r, IF d.live THEN d.now ELSE Nothing)
  /\ UNCHANGED <<documents, drafts, operations, epoch, faults, known, work, flow>>

\* observe: drafts of another version become stale.
Staled(document) ==
  [i \in DOMAIN drafts |->
     IF drafts[i].live /\ drafts[i].now.document # document
     THEN [drafts[i] EXCEPT !.now.state = "stale"] ELSE drafts[i]]

\* The clean draft that prepare_completion makes of the one that was saved.
Successor(s, document) ==
  [s EXCEPT !.revision = @ + 1, !.document = document, !.edits = NoEdits, !.state = "clean"]

IsSaved(d, s) == d.live /\ d.now = s

\* publish_completion.
Published(op, document) ==
  [i \in DOMAIN drafts |->
     LET d == drafts[i]
     IN IF IsSaved(d, op.draft)
        THEN [d EXCEPT !.now = Successor(d.now, document), !.acked = FALSE]
        ELSE IF d.live /\ d.now.document # document /\ TargetOf(d.now) = TargetOf(op.draft)
        THEN [d EXCEPT !.now.state = "stale"] ELSE d]

Finish(k, status, document) ==
  operations' = [operations EXCEPT ![k].status = status, ![k].document = document]

\* The owner replaces exactly the document that was captured.
SaveChanges(k) ==
  LET op == operations[k]
  IN /\ op.status = "running" /\ op.draft.document = Latest /\ Latest < MaxDocuments
     /\ documents' = Append(documents, TargetOf(op.draft))
     /\ Finish(k, "changed", Latest + 1)
     /\ drafts' = Published(op, Latest + 1)
     /\ UNCHANGED <<epoch, faults, requests, known, work, flow>>

SaveFindsNoChange(k) ==
  LET op == operations[k]
      saved == drafts[op.draft.id]
  IN /\ op.status = "running"
     /\ Finish(k, "no_change", op.draft.document)
     /\ drafts' = IF IsSaved(saved, op.draft) /\ saved.now.edits # NoEdits
                  THEN [drafts EXCEPT
                    ![op.draft.id].now = Successor(saved.now, saved.now.document),
                    ![op.draft.id].acked = FALSE]
                  ELSE drafts
     /\ UNCHANGED <<documents, epoch, faults, requests, known, work, flow>>

SaveFails(k) ==
  /\ operations[k].status = "running"
  /\ Finish(k, "failed", operations[k].document)
  /\ UNCHANGED <<documents, drafts, epoch, faults, requests, known, work, flow>>

\* Somebody else writes the document, or the selected target resolves anew.
ForeignChange(target) ==
  /\ Fault
  /\ Latest < MaxDocuments
  /\ documents' = Append(documents, target)
  /\ UNCHANGED <<drafts, operations, epoch, requests, known, work, flow>>

\* The host is replaced: drafts and requests are gone, the operations are not.
Restart ==
  /\ Fault
  /\ epoch' = epoch + 1
  /\ drafts' = [i \in DOMAIN drafts |-> [drafts[i] EXCEPT !.live = FALSE]]
  /\ requests' = {[r EXCEPT !.reply = IF @ = Unanswered THEN Nothing ELSE @] :
                    r \in {x \in requests : x.by # "nobody"}}
  /\ UNCHANGED <<documents, operations, known, work, flow>>

-----------------------------------------------------------------------------
(* The work context                                                        *)

\* hostEpochCurrent.
HostCurrent(s) == drafts[s.id].epoch = known

Dirty(w) ==
  w.draft # Nothing /\ (w.draft.state # "clean" \/ w.edits # w.draft.edits)

Adopted(w, s) ==
  [w EXCEPT !.draft = s, !.edits = s.edits, !.conflict = FALSE, !.moved = TRUE]

\* WorkContext.openDraft.
Opened(w, s) ==
  IF Dirty(w) \/ w.busy \/ w.baseline # Nothing \/ ~HostCurrent(s) THEN w ELSE Adopted(w, s)

\* Seeded defect: a draft that was opened elsewhere replaces what is not synchronized.
ObservedClean(w, s) ==
  IF ~HostCurrent(s) \/ w.draft = s THEN w
  ELSE IF w.draft # Nothing /\ w.busy THEN [w EXCEPT !.conflict = TRUE]
  ELSE Opened([w EXCEPT !.draft = Nothing], s)

\* WorkContext.observeDraft.
Observed(w, s) ==
  IF ~HostCurrent(s) \/ w.draft = s THEN w
  ELSE IF w.draft # Nothing /\ (Dirty(w) \/ w.busy) THEN [w EXCEPT !.conflict = TRUE]
  ELSE Opened(w, s)

\* bindTarget.
Bound(w, target) ==
  [w EXCEPT !.binding = target,
            !.conflict = @ \/ (w.draft # Nothing /\ TargetOf(w.draft) # target)]

\* Seeded defect: the navigation does not release the context.
NavigationsBusy(w) == {[NoWork EXCEPT !.binding = b, !.busy = w.busy] : b \in {0, w.binding}}

\* applyNavigation: another selection forgets the binding, closing does not.
Navigations(w) == {[NoWork EXCEPT !.binding = b] : b \in {0, w.binding}}

\* beginReview.
MayReview(purpose) ==
  /\ work.draft # Nothing /\ ~work.busy /\ work.baseline = Nothing /\ HostCurrent(work.draft)
  /\ IF purpose = "navigation" THEN work.pending
     ELSE ~work.pending /\ work.binding = TargetOf(work.draft)

\* matchesReview of the attempt's review.  While the context is busy with a draft
\* neither its draft nor its edits change.
Matches ==
  /\ work.busy /\ work.draft # Nothing
  /\ \/ work.binding = TargetOf(work.draft)
     \/ flow.purpose = "navigation" /\ work.binding = 0

\* failedReview, by finishSave or finishDiscard without a result, or abandonReview.
Failed == IF Matches THEN [work EXCEPT !.busy = FALSE] ELSE work

\* completeReview: navigate, or reserve the reading of the new baseline.
CompleteReview(reason, document) ==
  IF flow.purpose = "navigation"
  THEN work' \in Navigations(work) /\ flow' = Idle
  ELSE /\ work' = [NoWork EXCEPT !.binding = work.binding, !.busy = TRUE,
            !.baseline = [reason |-> reason, document |-> document,
                          epoch |-> drafts[work.draft.id].epoch]]
       /\ flow' = [flow EXCEPT !.kind = "reading"]

-----------------------------------------------------------------------------
(* The user                                                                *)

\* SettingsController.blocked.
Blocked ==
  \/ work.draft = Nothing \/ work.busy \/ work.baseline # Nothing \/ work.conflict
  \/ work.binding \notin {0, TargetOf(work.draft)} \/ ~HostCurrent(work.draft)
  \/ work.draft.state = "stale" \/ flow.kind # "idle"

\* stage.
Edit ==
  /\ ~Blocked
  /\ \E edits \in Content \ {work.edits} : work' = [work EXCEPT !.edits = edits, !.moved = TRUE]
  /\ UNCHANGED <<host, requests, known, flow>>

\* requestTarget, requestClose.
RequestNavigation ==
  /\ ~work.pending /\ ~work.busy
  /\ IF Dirty(work) THEN work' = [work EXCEPT !.pending = TRUE]
                    ELSE work' \in Navigations(work)
  /\ UNCHANGED <<host, requests, known, flow>>

\* stay: what abandonReview refuses is not released.
Stay ==
  /\ flow.kind \in {"review", "discard_review"} \/ (flow.kind = "idle" /\ work.pending)
  /\ LET released == IF flow.kind = "idle" THEN work ELSE Failed
     IN work' = [released EXCEPT !.pending = @ /\ released.busy]
  /\ flow' = Idle
  /\ UNCHANGED <<host, requests, known>>

Ask(request) ==
  /\ Cardinality(requests) < MaxRequests
  /\ requests' = requests \cup {request}

\* prepareSave, prepareSaveInPlace.
PrepareSave(purpose) ==
  /\ flow.kind = "idle" /\ MayReview(purpose)
  /\ work.draft.revision + 1 < MaxRevision
  /\ work' = [work EXCEPT !.busy = TRUE]
  /\ flow' = [Idle EXCEPT !.kind = "syncing", !.purpose = purpose]
  /\ Ask([kind |-> "sync", by |-> "facade", draft |-> work.draft, edits |-> work.edits,
          reply |-> Unanswered])
  /\ UNCHANGED <<host, known>>

Committing == [kind |-> "commit", by |-> "facade", draft |-> work.draft, reply |-> Unanswered]

\* commitSave.
CommitSave ==
  /\ flow.kind = "review" /\ HostCurrent(work.draft)
  /\ flow' = [flow EXCEPT !.kind = "admitting"]
  /\ Ask(Committing)
  /\ UNCHANGED <<host, known, work>>

\* replaySave.
ReplaySave ==
  /\ flow.kind = "uncertain"
  /\ flow' = [flow EXCEPT !.kind = "admitting", !.replay = TRUE]
  /\ Ask(Committing)
  /\ UNCHANGED <<host, known, work>>

\* prepareDiscardInPlace.
PrepareDiscard ==
  /\ flow.kind = "idle" /\ MayReview("in_place")
  /\ work' = [work EXCEPT !.busy = TRUE]
  /\ flow' = [Idle EXCEPT !.kind = "discard_review", !.purpose = "in_place"]
  /\ UNCHANGED <<host, requests, known>>

\* confirmDiscard, and discard of a draft that stands in the way.
Discard ==
  /\ \/ flow.kind = "discard_review" /\ HostCurrent(work.draft)
     \/ flow.kind = "idle" /\ MayReview("navigation")
  /\ work' = [work EXCEPT !.busy = TRUE]
  /\ flow' = [flow EXCEPT !.kind = "discarding",
                !.purpose = IF flow.kind = "idle" THEN "navigation" ELSE "in_place"]
  /\ Ask([kind |-> "discard", by |-> "facade", draft |-> work.draft, reply |-> Unanswered])
  /\ UNCHANGED <<host, known>>

\* reloadBaseline, once more.
ReloadBaseline ==
  /\ flow.kind = "idle" /\ work.baseline # Nothing
  /\ work' = [work EXCEPT !.busy = TRUE]
  /\ flow' = [flow EXCEPT !.kind = "reading", !.purpose = "in_place"]
  /\ UNCHANGED <<host, requests, known>>

-----------------------------------------------------------------------------
(* Answers to the facade                                                   *)

Arrives(r, kind) ==
  /\ r.kind = kind /\ r.by = "facade" /\ r.reply # Unanswered
  /\ requests' = requests \ {r}
  /\ UNCHANGED <<host, known>>

\* finishDraftSynchronization and what follows it: the observation store may
\* refuse the acknowledged draft.
Synchronized(r) ==
  /\ Arrives(r, "sync")
  /\ IF Matches /\ HostCurrent(work.draft) /\ r.reply # Nothing
     THEN LET synced == Adopted(work, r.reply)
          IN \/ work' = [synced EXCEPT !.busy = FALSE] /\ flow' = Idle
             \/ work' = synced /\ flow' = [flow EXCEPT !.kind = "preparing"]
     ELSE work' = Failed /\ flow' = Idle

\* The plan is prepared and its review shown, or not.
Prepared ==
  /\ flow.kind = "preparing"
  /\ \/ /\ Editable(work.draft) /\ HostCurrent(work.draft)
        /\ flow' = [flow EXCEPT !.kind = "review"]
        /\ UNCHANGED work
     \/ work' = Failed /\ flow' = Idle
  /\ UNCHANGED <<host, requests, known>>

\* acceptCommit.
Committed(r) ==
  /\ Arrives(r, "commit")
  /\ flow' = [flow EXCEPT !.kind = IF r.reply = Nothing THEN "uncertain" ELSE "observing"]
  /\ UNCHANGED work

\* Seeded defect: a repetition that was not sent returns to the review.
UnsentAlways(r) ==
  /\ r.kind = "commit" /\ r.by = "facade" /\ r.reply = Unanswered
  /\ requests' = requests \ {r}
  /\ flow' = [flow EXCEPT !.kind = "review", !.replay = FALSE]
  /\ UNCHANGED <<host, known, work>>

\* A commit that provably never left returns to the review, unless it repeats one.
CommitUnsent(r) ==
  /\ r.kind = "commit" /\ r.by = "facade" /\ r.reply = Unanswered
  /\ requests' = requests \ {r}
  /\ flow' = [flow EXCEPT !.kind = IF flow.replay THEN "uncertain" ELSE "review"]
  /\ UNCHANGED <<host, known, work>>

\* reconcileObserved and finishSave: the operation has completed and, in the same
\* host, the draft that succeeds the saved one is observed.
ObserveOutcome ==
  /\ flow.kind = "observing" /\ Matches
  /\ \E k \in SaveOf(work.draft) :
       LET op == operations[k]
           s == work.draft
           saved == op.status \in {"changed", "no_change"}
           succeeded == IF op.status = "no_change" /\ s.edits = NoEdits THEN s
                        ELSE Successor(s, op.document)
       IN \/ /\ op.status = "failed"
             /\ work' = Failed /\ flow' = Idle
          \/ /\ saved
             /\ HostCurrent(s) => drafts[s.id].live /\ drafts[s.id].now = succeeded
             /\ CompleteReview("save", op.document)
  /\ UNCHANGED <<host, requests, known>>

\* submitDiscard.  The store may refuse the receipt.
Discarded(r) ==
  /\ Arrives(r, "discard")
  /\ \/ work' = Failed /\ flow' = Idle
     \/ /\ Matches /\ HostCurrent(work.draft) /\ r.reply # Nothing
        /\ CompleteReview("discard", work.draft.document)

\* The document as it is now still has the target of the finished review.
SameTarget(baseline) == documents[Latest] = documents[baseline.document]

\* reloadBaseline: read_configuration, observed by the host, then open_draft.
ReadBaseline ==
  /\ flow.kind = "reading"
  /\ drafts' = Staled(Latest)
  /\ \/ work' = [work EXCEPT !.busy = FALSE] /\ flow' = Idle /\ UNCHANGED requests
     \/ /\ work.baseline.epoch = known /\ SameTarget(work.baseline)
        /\ flow' = [flow EXCEPT !.kind = "opening"]
        /\ Ask([kind |-> "open", by |-> "facade", document |-> Latest, reply |-> Unanswered])
        /\ UNCHANGED work
  /\ UNCHANGED <<documents, operations, epoch, faults, known>>

\* finishBaselineReopen.
OpenedBaseline(r) ==
  /\ Arrives(r, "open")
  /\ flow' = Idle
  /\ LET b == work.baseline
         s == r.reply
     IN \/ work' = [work EXCEPT !.busy = FALSE]
        \/ /\ s # Nothing
           /\ drafts[s.id].epoch = b.epoch /\ HostCurrent(s)
           /\ b.reason = "save" => s.document = b.document
           /\ TargetOf(s) = documents[b.document] /\ work.binding = documents[b.document]
           /\ work' = [Adopted(work, s) EXCEPT !.baseline = Nothing, !.busy = FALSE]

-----------------------------------------------------------------------------
(* The views, and the reconciliation of every connection and refresh       *)

\* HomeController.inspectTarget binds whatever the selection resolves to.
InspectTarget ==
  /\ work' = Bound(work, documents[Latest])
  /\ UNCHANGED <<host, requests, known, flow>>

\* SettingsController.refresh: unless the draft is of the document that is read,
\* a draft of it is opened.
RefreshSettings ==
  /\ ~work.busy /\ \A r \in requests : r.by # "settings"
  /\ drafts' = Staled(Latest)
  /\ LET drift == work.draft # Nothing /\ ~HostCurrent(work.draft)
         same == work.draft # Nothing /\ work.draft.document = Latest
     IN IF (drift /\ Dirty(work)) \/ (same /\ ~drift)
        THEN UNCHANGED <<requests, work>>
        ELSE /\ work' = IF Dirty(work) THEN work ELSE Bound(work, documents[Latest])
             /\ IF work.baseline = Nothing
                THEN Ask([kind |-> "open", by |-> "settings", document |-> Latest,
                          reply |-> Unanswered])
                ELSE UNCHANGED requests
  /\ UNCHANGED <<documents, operations, epoch, faults, known, flow>>

\* BridgeFacade.openDraft.  The store may refuse the draft.
SettingsOpened(r) ==
  /\ r.kind = "open" /\ r.by = "settings" /\ r.reply # Unanswered
  /\ requests' = requests \ {r}
  /\ work' \in {work} \cup IF r.reply = Nothing THEN {} ELSE {Observed(work, r.reply)}
  /\ UNCHANGED <<host, known, flow>>

\* captureDraftReconciliation and the query for the draft.
StartReconciliation ==
  /\ work.draft # Nothing /\ work.baseline = Nothing
  /\ \A r \in requests : r.kind # "get"
  /\ work' = [work EXCEPT !.moved = FALSE]
  /\ Ask([kind |-> "get", by |-> "reconciliation", draft |-> work.draft,
          binding |-> work.binding, reply |-> Unanswered])
  /\ UNCHANGED <<host, known, flow>>

\* The read draft is what the captured one became by its save.
SavedAs(captured, read) ==
  \E k \in SaveOf(captured) :
    /\ operations[k].status \in {"changed", "no_change"}
    /\ read = Successor(captured, operations[k].document)

\* The host's draft may replace what the context has.
Acceptable(captured, read) ==
  LET saved == SavedAs(captured, read)
      emptied == /\ ~work.busy /\ work.edits = NoEdits
                 /\ read = Successor(captured, captured.document)
  IN /\ captured.edits # NoEdits /\ read.edits = NoEdits => saved \/ emptied
     /\ read.document # captured.document => saved
     /\ ~work.busy
     /\ work.edits # captured.edits => ~saved /\ work.edits = read.edits

\* finishDraftReconciliation.  The store may refuse what was read.
Reconciled(r) ==
  LET retained == work.draft # Nothing /\ work.draft.id = r.draft.id
      refused == [work EXCEPT !.conflict = @ \/ retained, !.moved = TRUE]
      current == /\ retained /\ ~work.moved /\ work.binding = r.binding
                 /\ HostCurrent(work.draft) /\ r.reply # Nothing
  IN /\ r.kind = "get" /\ r.reply # Unanswered
     /\ requests' = requests \ {r}
     /\ \/ work' = refused
        \/ /\ current /\ r.reply = work.draft
           /\ work' = [work EXCEPT !.conflict = r.reply.state = "stale", !.moved = TRUE]
        \/ /\ current /\ r.reply # work.draft /\ Acceptable(work.draft, r.reply)
           /\ work' = [Adopted(work, r.reply) EXCEPT !.conflict = r.reply.state = "stale"]
     /\ UNCHANGED <<host, known, flow>>

\* The store sees the cursor of the host that runs now.
ObserveHost ==
  /\ known' = epoch
  /\ UNCHANGED <<host, requests, work, flow>>

\* A deadline passes or an answer is lost; the request may be executed later.
LoseAnswer(r) ==
  /\ Fault
  /\ r.by # "nobody"
  /\ \/ requests' = (requests \ {r}) \cup {[r EXCEPT !.reply = Nothing]}
     \/ /\ r.reply = Unanswered /\ r.kind \in {"sync", "commit", "discard"}
        /\ Cardinality(requests) < MaxRequests
        /\ requests' = (requests \ {r}) \cup {[r EXCEPT !.reply = Nothing], [r EXCEPT !.by = "nobody"]}
  /\ UNCHANGED <<documents, drafts, operations, epoch, known, work, flow>>

-----------------------------------------------------------------------------
HostStep ==
  \/ \E r \in requests :
       \/ ExecuteSync(r) \/ ExecuteCommit(r) \/ ExecuteDiscard(r)
       \/ ExecuteOpen(r) \/ ExecuteGet(r)
  \/ \E k \in DOMAIN operations : SaveChanges(k) \/ SaveFindsNoChange(k) \/ SaveFails(k)
  \/ \E target \in 1..MaxTargets : ForeignChange(target)
  \/ Restart

UserStep ==
  \/ Edit \/ RequestNavigation \/ Stay \/ CommitSave \/ ReplaySave
  \/ \E purpose \in {"navigation", "in_place"} : PrepareSave(purpose)
  \/ PrepareDiscard \/ Discard \/ ReloadBaseline

AnswerStep ==
  \/ \E r \in requests :
       \/ Synchronized(r) \/ Committed(r) \/ CommitUnsent(r) \/ Discarded(r)
       \/ OpenedBaseline(r) \/ SettingsOpened(r) \/ Reconciled(r) \/ LoseAnswer(r)
  \/ Prepared \/ ObserveOutcome \/ ReadBaseline

ViewStep == InspectTarget \/ RefreshSettings \/ StartReconciliation \/ ObserveHost

Next == HostStep \/ UserStep \/ AnswerStep \/ ViewStep

Spec == Init /\ [][Next]_vars

-----------------------------------------------------------------------------
(* Properties                                                              *)

\* The draft the user works on is the host's whenever they have the same revision:
\* a repeated, late or lost synchronization never leaves two contents under one
\* name (set_draft_changes, draftAcknowledgementMatches).
OneGeneration ==
  LET s == work.draft
  IN (s # Nothing /\ drafts[s.id].live /\ drafts[s.id].now.revision = s.revision) =>
       drafts[s.id].now.edits = s.edits /\ drafts[s.id].now.document = s.document

\* A save of s changed the document or found nothing to change.
Written(s) == \E k \in SaveOf(s) : operations[k].status \in {"changed", "no_change"}

Unchanged(w, v) ==
  v.draft # Nothing /\ v.draft.id = w.draft.id /\ v.edits = w.edits

\* Changes are retained: unsaved work disappears only because the user edits it,
\* because exactly it was saved, because a confirmed discard was executed, or
\* because the host holds a later revision of what was synchronized.  No view,
\* refresh, late answer or host replacement takes it away (work-context.ts).
EditsNotLost ==
  [][(Dirty(work) /\ ~Unchanged(work, work')) =>
       \/ Edit
       \/ work.edits = work.draft.edits /\ Written(work.draft)
       \/ flow.kind = "discarding" /\ ~drafts[work.draft.id].live
       \/ /\ work.edits = work.draft.edits /\ work'.draft # Nothing
          /\ work'.draft.id = work.draft.id /\ work'.draft.revision > work.draft.revision]_vars

\* Discarded means discarded: once the user was told so, no save of any revision
\* of that draft is under way or will be (submitDiscard, discard_draft, which does
\* not look at running saves).
DiscardedIsNotWritten ==
  [][\A r \in requests :
       (Discarded(r) /\ work'.draft = Nothing) =>
         \A k \in DOMAIN operations :
           (operations[k].draft.id = r.draft.id) => operations[k].status = "failed"]_vars

\* "Stay abandons navigation intent while keeping local edits"
\* (docs/next/FRONTEND_COMPONENTS.md:35): a user who is asked what to do with the
\* changes before leaving, and for whom nothing is under way, can answer.
StayAvailable == work.pending /\ flow.kind = "idle" => ~work.busy
=============================================================================
