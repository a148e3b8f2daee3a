------------------------- MODULE CommitCustodyProofs -------------------------
(***************************************************************************)
(* Theorems about CommitCustody, for any keys, any number of plans, calls  *)
(* and retained records: a reviewed change that may have been submitted is *)
(* never without the record by which it can be asked for again.            *)
(***************************************************************************)
EXTENDS CommitCustody, SequenceTheorems, TLAPS

-----------------------------------------------------------------------------
(* The inductive invariant                                                 *)

\* The host has admitted plan p under key k.
Own(k, p) == operations[k] # None /\ operations[k].plan = p

\* What key k retains is plan p.
Retained(k, p) == replays[k] # None /\ replays[k].plan = p

\* A call belongs to an original that was made no later, is certain not to be
\* sent only when it cannot be executed any more, and has a result only of an
\* operation of its own.
CallSound(i) ==
  /\ calls[i].plan \in 1..prepared
  /\ calls[i].original \in 1..i
  /\ calls[calls[i].original].original = calls[i].original
  /\ calls[i].outcome = "not_sent" => calls[i].custody = "dead"
  /\ calls[i].answered \/ calls[i].outcome = "result" =>
       Own(calls[i].key, calls[i].plan)

CallsSound == \A i \in DOMAIN calls : CallSound(i)

\* A record names an original of its key and plan, and no submission of it is
\* newer than the one the record calls its latest.
RecordSound(k, r) ==
  /\ r.request \in DOMAIN calls /\ r.latest \in DOMAIN calls
  /\ calls[r.request].key = k /\ calls[r.request].plan = r.plan
  /\ calls[r.request].original = r.request
  /\ \A i \in DOMAIN calls : calls[i].original = r.request => i <= r.latest
  /\ r.delivery = "not_sent" => calls[r.latest].custody = "dead"
  /\ r.operation => Own(k, r.plan)

RecordsSound ==
  \A k \in Keys : replays[k] # None => RecordSound(k, replays[k])

\* Where an attempt is, its submission is retained; an operation it knows is
\* one it was given a result of, and not before its first call was settled.
AttemptSound(c) ==
  LET a == attempt[c] IN
  /\ a.state # "idle" => a.plan \in 1..prepared
  /\ a.capture # 0 => a.key \in Keys
  /\ a.state \in {"admitting", "uncertain", "observing"} =>
       a.key \in Keys /\ Retained(a.key, a.plan)
  /\ a.state = "admitting" =>
       /\ a.call \in DOMAIN calls
       /\ calls[a.call].key = a.key /\ calls[a.call].plan = a.plan
  /\ a.operation =>
       /\ a.state \in {"admitting", "uncertain", "observing"}
       /\ a.state = "admitting" => a.replay
       /\ Own(a.key, a.plan)

RecoveringSound ==
  \A a \in recovering :
    /\ a.plan \in 1..prepared /\ a.key \in Keys /\ Retained(a.key, a.plan)
    /\ a.operation /\ Own(a.key, a.plan)

\* No two attempts are for the same plan.
PlansDistinct ==
  /\ \A c, d \in Controllers :
       c # d /\ ~Idle(c) /\ ~Idle(d) => attempt[c].plan # attempt[d].plan
  /\ \A a \in recovering, c \in Controllers :
       ~Idle(c) => a.plan # attempt[c].plan
  /\ \A a, b \in recovering : a.plan = b.plan => a = b

\* An attempt that is under review, or may yet return to it.
MayReview(a) ==
  \/ a.state = "review"
  \/ a.state = "admitting" /\ ~a.replay /\ ~a.prior

\* The record of key k, with this request, is the attempt's to give up.
OwnRecord(a, k, request) ==
  /\ a.owns /\ a.key = k /\ a.capture = request
  /\ a.state = "review" => a.unsent

\* What such an attempt's controller submitted of its plan is either never
\* executed or belongs to the record the attempt gives up with its review.
ReviewSound(c) ==
  LET a == attempt[c] IN
  MayReview(a) =>
    /\ \A k \in Keys :
         /\ Retained(k, a.plan)
         /\ calls[replays[k].request].caller = c
         => OwnRecord(a, k, replays[k].request)
    /\ \A i \in DOMAIN calls :
         /\ calls[i].plan = a.plan
         /\ calls[calls[i].original].caller = c
         => \/ calls[i].custody = "dead"
            \/ /\ replays[calls[i].key] # None
               /\ replays[calls[i].key].request = calls[i].original

ClientInv ==
  CallsSound /\ RepetitionIsExact /\ RecordsSound /\ ForgottenIsSettled
ControllerInv ==
  /\ \A c \in Controllers : AttemptSound(c) /\ ReviewSound(c)
  /\ RecoveringSound /\ PlansDistinct

CustodyInv == TypeOK /\ ClientInv /\ ControllerInv

-----------------------------------------------------------------------------
(* How calls, operations and records evolve                                *)

\* The calls of a state, by number.
LEMMA CallsAre ==
  ASSUME TypeOK
  PROVE  /\ Len(calls) \in Nat /\ DOMAIN calls = 1..Len(calls)
         /\ DOMAIN calls \subseteq CallIds
         /\ \A i \in DOMAIN calls : calls[i] \in Call
<1>1. calls \in Seq(Call) /\ Len(calls) <= MaxCalls /\ MaxCalls \in Nat
  BY CustodyAssumption DEF TypeOK
<1>2. /\ Len(calls) \in Nat /\ DOMAIN calls = 1..Len(calls)
      /\ calls \in [1..Len(calls) -> Call]
  BY <1>1, LenProperties
<1> QED BY <1>1, <1>2 DEF CallIds

\* None is neither a record nor an operation.
LEMMA NoneIsNothing == None \notin Replay /\ None \notin Operation
BY CustodyAssumption DEF Replay, Operation, Plans, CallIds, Deliveries

\* What a call is, and that it is dead, is for good.
SameCall(i) ==
  /\ calls'[i].key = calls[i].key /\ calls'[i].plan = calls[i].plan
  /\ calls'[i].original = calls[i].original
  /\ calls'[i].caller = calls[i].caller
  /\ calls[i].custody = "dead" => calls'[i].custody = "dead"

\* An operation keeps its plan, and a completed one is completed for good.
OperationsStay ==
  \A k \in Keys : operations[k] # None =>
    /\ operations'[k] # None /\ operations'[k].plan = operations[k].plan
    /\ operations[k].status = "completed" => operations'[k] = operations[k]

\* The calls there are go on; none is made.
CallsGoOn ==
  /\ DOMAIN calls' = DOMAIN calls
  /\ \A i \in DOMAIN calls :
       /\ SameCall(i)
       /\ calls'[i].outcome = "not_sent" => calls'[i].custody = "dead"
       /\ calls'[i].answered \/ calls'[i].outcome = "result" =>
            Own(calls[i].key, calls[i].plan)'

\* A record is told how its newest submission fares and what it led to.
RecordGoesOn(k) ==
  /\ replays[k] # None /\ replays'[k] # None
  /\ replays'[k].plan = replays[k].plan
  /\ replays'[k].request = replays[k].request
  /\ replays'[k].latest = replays[k].latest
  /\ replays'[k].delivery = "not_sent" =>
       calls'[replays[k].latest].custody = "dead"
  /\ replays'[k].operation => Own(k, replays[k].plan)'

\* Every submission of what key k retains is settled.
SettledRecord(k) ==
  \A i \in DOMAIN calls :
    calls[i].key = k /\ calls[i].original = replays[k].request =>
      \/ calls[i].custody = "dead"
      \/ /\ operations[k] # None
         /\ operations[k] = [plan |-> calls[i].plan, status |-> "completed"]

\* Without a new call, the client's side stays sound as long as records go on
\* and only settled ones are forgotten.
LEMMA ClientGoesOn ==
  ASSUME CustodyInv, CallsGoOn, OperationsStay,
         prepared \in Nat, prepared' \in Nat, prepared <= prepared',
         \A k \in Keys :
           \/ RecordGoesOn(k)
           \/ replays'[k] = None /\ (replays[k] # None => SettledRecord(k))
  PROVE  ClientInv'
<1>1. /\ CallsSound /\ RepetitionIsExact /\ RecordsSound
      /\ ForgottenIsSettled
  BY DEF CustodyInv, ClientInv
<1>2. /\ Len(calls) \in Nat /\ DOMAIN calls = 1..Len(calls)
      /\ \A i \in DOMAIN calls : calls[i].key \in Keys
  BY CallsAre DEF CustodyInv, Call
<1>3. \A i \in DOMAIN calls : calls[i].original \in DOMAIN calls
  BY <1>1, <1>2 DEF CallsSound, CallSound
<1>4. CallsSound'
  <2> SUFFICES ASSUME NEW i \in DOMAIN calls PROVE CallSound(i)'
    BY DEF CallsSound, CallsGoOn
  <2>1. /\ SameCall(i) /\ SameCall(calls[i].original) /\ CallSound(i)
        /\ i \in Nat
    BY <1>1, <1>2, <1>3 DEF CallsGoOn, CallsSound
  <2>2. calls'[i].plan \in 1..prepared'
    BY <2>1 DEF CallSound, SameCall
  <2>3. /\ calls'[i].original \in 1..i
        /\ calls'[calls'[i].original].original = calls'[i].original
    BY <2>1 DEF CallSound, SameCall
  <2>4. /\ calls'[i].outcome = "not_sent" => calls'[i].custody = "dead"
        /\ calls'[i].answered \/ calls'[i].outcome = "result" =>
             Own(calls[i].key, calls[i].plan)'
    BY DEF CallsGoOn
  <2> QED BY <2>1, <2>2, <2>3, <2>4 DEF CallSound, SameCall, Own
<1>5. RepetitionIsExact'
  BY <1>1, <1>3 DEF RepetitionIsExact, CallsGoOn, SameCall
<1>6. RecordsSound'
  <2> SUFFICES ASSUME NEW k \in Keys, replays'[k] # None
               PROVE  RecordSound(k, replays[k])'
    BY DEF RecordsSound
  <2>1. RecordGoesOn(k) /\ RecordSound(k, replays[k])
    BY <1>1 DEF RecordsSound, RecordGoesOn
  <2> QED BY <2>1 DEF RecordGoesOn, RecordSound, CallsGoOn, SameCall, Own
<1>7. ForgottenIsSettled'
  <2>1. ASSUME NEW i \in DOMAIN calls, NEW k \in Keys, k = calls[i].key
        PROVE  \/ replays'[k] # None /\ replays'[k].request = calls[i].original
               \/ calls[i].custody = "dead"
               \/ /\ operations'[k] # None
                  /\ operations'[k] =
                       [plan |-> calls[i].plan, status |-> "completed"]
    <3> DEFINE done == [plan |-> calls[i].plan, status |-> "completed"]
    <3>1. CASE operations[k] # None /\ operations[k] = done
      <4>1. operations[k].status = "completed"
        BY <3>1
      <4> QED BY <3>1, <4>1 DEF OperationsStay
    <3>2. CASE replays[k] # None /\ replays[k].request = calls[i].original
      <4>1. CASE RecordGoesOn(k)
        BY <3>2, <4>1 DEF RecordGoesOn
      <4>2. CASE SettledRecord(k)
        <5>1. \/ calls[i].custody = "dead"
              \/ operations[k] # None /\ operations[k] = done
          BY <2>1, <3>2, <4>2 DEF SettledRecord
        <5> QED BY <3>1, <5>1
      <4> QED BY <3>2, <4>1, <4>2
    <3> QED BY <1>1, <2>1, <3>1, <3>2 DEF ForgottenIsSettled
  <2> QED BY <1>2, <2>1 DEF ForgottenIsSettled, CallsGoOn, SameCall
<1> QED BY <1>4, <1>5, <1>6, <1>7 DEF ClientInv

\* Steps that concern one attempt, and records, calls and operations of one
\* plan, leave every attempt for another plan as sound as it was.
LEMMA OthersKeep ==
  ASSUME CustodyInv, NEW c, NEW p,
         \A d \in Controllers : d # c => attempt'[d] = attempt[d],
         recovering' \subseteq recovering,
         \A d \in Controllers : d # c /\ ~Idle(d) => attempt[d].plan # p,
         \A a \in recovering' : a.plan # p,
         prepared \in Nat, prepared' \in Nat, prepared <= prepared',
         DOMAIN calls \subseteq DOMAIN calls',
         \A i \in DOMAIN calls : SameCall(i),
         \A i \in DOMAIN calls' \ DOMAIN calls : calls'[i].plan = p,
         OperationsStay,
         \A k \in Keys : replays[k] # None /\ replays[k].plan # p =>
           /\ replays'[k] # None /\ replays'[k].plan = replays[k].plan
           /\ replays'[k].request = replays[k].request,
         \A k \in Keys : replays'[k] # None /\ replays'[k].plan # p =>
           replays[k] # None /\ replays[k].plan # p
  PROVE  /\ \A d \in Controllers : d # c => AttemptSound(d)' /\ ReviewSound(d)'
         /\ RecoveringSound'
<1>1. /\ CallsSound /\ RepetitionIsExact /\ RecordsSound /\ RecoveringSound
      /\ \A d \in Controllers : AttemptSound(d) /\ ReviewSound(d)
  BY DEF CustodyInv, ClientInv, ControllerInv
<1>2. /\ DOMAIN calls = 1..Len(calls) /\ Len(calls) \in Nat
      /\ \A i \in DOMAIN calls : calls[i].key \in Keys
                                 /\ calls[i].original \in DOMAIN calls
  BY <1>1, CallsAre DEF CustodyInv, Call, CallsSound, CallSound
<1>3. \A k \in Keys : \A q : Retained(k, q) /\ q # p => Retained(k, q)'
  BY DEF Retained
<1>4. \A k \in Keys : \A q : Own(k, q) => Own(k, q)'
  BY DEF Own, OperationsStay
<1>5. ASSUME NEW d \in Controllers, d # c PROVE AttemptSound(d)'
  <2> DEFINE a == attempt[d]
  <2>1. attempt'[d] = a /\ AttemptSound(d)
    BY <1>1, <1>5
  <2>2. a.state # "idle" => a.plan # p
    BY <1>5 DEF Idle
  <2>3. a.state # "idle" => a.plan \in 1..prepared'
    BY <2>1 DEF AttemptSound
  <2>4. a.state \in {"admitting", "uncertain", "observing"} =>
          a.key \in Keys /\ Retained(a.key, a.plan)'
    BY <1>3, <2>1, <2>2 DEF AttemptSound
  <2>5. a.state = "admitting" =>
          /\ a.call \in DOMAIN calls'
          /\ calls'[a.call].key = a.key /\ calls'[a.call].plan = a.plan
    BY <2>1 DEF AttemptSound, SameCall
  <2>6. a.operation =>
          /\ a.state \in {"admitting", "uncertain", "observing"}
          /\ a.state = "admitting" => a.replay
          /\ Own(a.key, a.plan)'
    BY <1>4, <2>1 DEF AttemptSound
  <2>7. a.capture # 0 => a.key \in Keys
    BY <2>1 DEF AttemptSound
  <2> QED BY <2>1, <2>3, <2>4, <2>5, <2>6, <2>7
          DEF AttemptSound, Retained, Own
<1>6. ASSUME NEW d \in Controllers, d # c PROVE ReviewSound(d)'
  <2> DEFINE a == attempt[d]
  <2>1. attempt'[d] = a /\ ReviewSound(d)
    BY <1>1, <1>6
  <2> SUFFICES ASSUME MayReview(a)
               PROVE
                 /\ \A k \in Keys :
                      /\ replays'[k] # None /\ replays'[k].plan = a.plan
                      /\ calls'[replays'[k].request].caller = d
                      => OwnRecord(a, k, replays'[k].request)
                 /\ \A i \in DOMAIN calls' :
                      /\ calls'[i].plan = a.plan
                      /\ calls'[calls'[i].original].caller = d
                      => \/ calls'[i].custody = "dead"
                         \/ /\ replays'[calls'[i].key] # None
                            /\ replays'[calls'[i].key].request
                                 = calls'[i].original
    BY <2>1 DEF ReviewSound, MayReview, OwnRecord, Retained
  <2>2. a.plan # p
    BY <1>6 DEF MayReview, Idle
  <2>3. ASSUME NEW k \in Keys, replays'[k] # None,
               replays'[k].plan = a.plan,
               calls'[replays'[k].request].caller = d
        PROVE  OwnRecord(a, k, replays'[k].request)
    <3>1. /\ replays[k] # None /\ replays[k].plan = a.plan
          /\ replays'[k].request = replays[k].request
      BY <2>2, <2>3
    <3>2. replays[k].request \in DOMAIN calls
      BY <1>1, <3>1 DEF RecordsSound, RecordSound
    <3>3. calls[replays[k].request].caller = d
      BY <2>3, <3>1, <3>2 DEF SameCall
    <3> QED BY <2>1, <3>1, <3>3 DEF ReviewSound, Retained
  <2>4. ASSUME NEW i \in DOMAIN calls', calls'[i].plan = a.plan,
               calls'[calls'[i].original].caller = d
        PROVE  \/ calls'[i].custody = "dead"
               \/ /\ replays'[calls'[i].key] # None
                  /\ replays'[calls'[i].key].request = calls'[i].original
    <3>1. /\ i \in DOMAIN calls /\ SameCall(i)
          /\ calls[i].original \in DOMAIN calls
          /\ SameCall(calls[i].original)
      BY <1>2, <2>2, <2>4
    <3>2. calls[i].plan = a.plan /\ calls[calls[i].original].caller = d
      BY <2>4, <3>1 DEF SameCall
    <3>3. CASE calls[i].custody = "dead"
      BY <3>1, <3>3 DEF SameCall
    <3>4. CASE /\ replays[calls[i].key] # None
               /\ replays[calls[i].key].request = calls[i].original
      <4>1. replays[calls[i].key].plan = a.plan
        BY <1>1, <1>2, <3>1, <3>2, <3>4
           DEF RecordsSound, RecordSound, RepetitionIsExact
      <4> QED BY <1>2, <2>2, <3>1, <3>4, <4>1 DEF SameCall
    <3> QED BY <2>1, <3>1, <3>2, <3>3, <3>4 DEF ReviewSound
  <2> QED BY <2>3, <2>4
<1>7. RecoveringSound'
  <2> SUFFICES ASSUME NEW a \in recovering'
               PROVE  /\ a.plan \in 1..prepared' /\ a.key \in Keys
                      /\ Retained(a.key, a.plan)'
                      /\ a.operation /\ Own(a.key, a.plan)'
    BY DEF RecoveringSound, Retained, Own
  <2>1. /\ a.plan \in 1..prepared /\ a.key \in Keys
        /\ Retained(a.key, a.plan) /\ a.operation /\ Own(a.key, a.plan)
    BY <1>1 DEF RecoveringSound
  <2> QED BY <1>3, <1>4, <2>1
<1> QED BY <1>5, <1>6, <1>7

\* A step of the transport or of the host concerns no attempt.
LEMMA CallStepKeeps ==
  ASSUME CustodyInv, CallsGoOn, OperationsStay,
         UNCHANGED <<prepared, attempt, recovering>>,
         \A k \in Keys : \/ RecordGoesOn(k)
                         \/ replays[k] = None /\ replays'[k] = None
  PROVE  ClientInv' /\ ControllerInv'
<1>1. prepared \in Nat
  BY CustodyAssumption DEF CustodyInv, TypeOK
<1>2. ClientInv'
  BY <1>1, ClientGoesOn
<1>3. /\ RecordsSound /\ CallsSound /\ RecoveringSound /\ PlansDistinct
      /\ \A d \in Controllers : AttemptSound(d)
  BY DEF CustodyInv, ClientInv, ControllerInv
<1>4. \A k \in Keys : replays[k] # None => replays[k].plan # 0
  BY <1>1, <1>3 DEF RecordsSound, RecordSound, CallsSound, CallSound
<1>5. /\ "other" \notin Controllers
      /\ \A d \in Controllers : ~Idle(d) => attempt[d].plan # 0
      /\ \A a \in recovering' : a.plan # 0
  BY <1>1, <1>3 DEF Controllers, AttemptSound, Idle, RecoveringSound
<1>6. /\ \A d \in Controllers : AttemptSound(d)' /\ ReviewSound(d)'
      /\ RecoveringSound'
  <2>1. \A k \in Keys : replays[k] # None =>
          /\ replays'[k] # None /\ replays'[k].plan = replays[k].plan
          /\ replays'[k].request = replays[k].request
    BY DEF RecordGoesOn
  <2>2. \A k \in Keys : replays'[k] # None =>
          replays[k] # None /\ replays[k].plan # 0
    BY <1>4 DEF RecordGoesOn
  <2>3. /\ DOMAIN calls \subseteq DOMAIN calls'
        /\ \A i \in DOMAIN calls : SameCall(i)
        /\ \A i \in DOMAIN calls' \ DOMAIN calls : calls'[i].plan = 0
    BY DEF CallsGoOn
  <2>4. /\ \A d \in Controllers : d # "other" => attempt'[d] = attempt[d]
        /\ recovering' \subseteq recovering
        /\ prepared' \in Nat /\ prepared <= prepared'
    BY <1>1
  <2>5. /\ \A d \in Controllers :
             d # "other" => AttemptSound(d)' /\ ReviewSound(d)'
        /\ RecoveringSound'
    BY <1>1, <1>5, <2>1, <2>2, <2>3, <2>4, OthersKeep
  <2> QED BY <1>5, <2>5
<1>7. PlansDistinct'
  BY <1>3 DEF PlansDistinct, Idle
<1> QED BY <1>2, <1>6, <1>7 DEF ControllerInv

-----------------------------------------------------------------------------
(* Transport and host                                                      *)

\* A change to one call.
LEMMA OneCallChanges ==
  ASSUME TypeOK, NEW i \in DOMAIN calls, NEW x \in Call,
         calls' = [calls EXCEPT ![i] = x]
  PROVE  /\ calls' \in Seq(Call) /\ Len(calls') = Len(calls)
         /\ DOMAIN calls' = DOMAIN calls
         /\ calls'[i] = x
         /\ \A j \in DOMAIN calls : j # i => calls'[j] = calls[j]
<1>1. calls \in Seq(Call) /\ i \in 1..Len(calls)
      /\ DOMAIN calls = 1..Len(calls)
  BY CallsAre DEF TypeOK
<1> QED BY <1>1, ExceptSeq

\* finish() changes nothing of a record but the delivery of its newest call.
LEMMA SettlementIs ==
  ASSUME TypeOK, NEW i \in DOMAIN calls, NEW d \in Deliveries
  PROVE  /\ Settlement(i, d) \in [Keys -> Replay \cup {None}]
         /\ \A k \in Keys :
              IF replays[k] = None THEN Settlement(i, d)[k] = None
              ELSE /\ Settlement(i, d)[k] \in Replay
                   /\ Settlement(i, d)[k].plan = replays[k].plan
                   /\ Settlement(i, d)[k].request = replays[k].request
                   /\ Settlement(i, d)[k].latest = replays[k].latest
                   /\ Settlement(i, d)[k].operation = replays[k].operation
                   /\ \/ Settlement(i, d)[k].delivery = replays[k].delivery
                      \/ /\ Settlement(i, d)[k].delivery = d
                         /\ replays[k].latest = i
<1>1. replays \in [Keys -> Replay \cup {None}] /\ calls[i].key \in Keys
  BY CallsAre DEF TypeOK, Call
<1>2. CASE /\ replays[calls[i].key] # None
           /\ replays[calls[i].key].request = calls[i].original
           /\ replays[calls[i].key].latest = i
  <2> DEFINE k == calls[i].key
             r == [replays[k] EXCEPT !.delivery = d]
  <2>1. /\ r \in Replay /\ r.delivery = d
        /\ r.plan = replays[k].plan /\ r.request = replays[k].request
        /\ r.latest = replays[k].latest
        /\ r.operation = replays[k].operation
    BY <1>1, <1>2 DEF Replay
  <2>2. Settlement(i, d) = [replays EXCEPT ![k] = r]
    BY <1>2 DEF Settlement
  <2> HIDE DEF r
  <2> QED BY <1>1, <1>2, <2>1, <2>2
<1>3. CASE ~(/\ replays[calls[i].key] # None
             /\ replays[calls[i].key].request = calls[i].original
             /\ replays[calls[i].key].latest = i)
  <2>1. Settlement(i, d) = replays
    BY <1>3 DEF Settlement
  <2> QED BY <1>1, <2>1
<1> QED BY <1>2, <1>3

\* Records are told of call i that its delivery is d, and of their own
\* operations.
RecordsTold(i, d) ==
  /\ replays' \in [Keys -> Replay \cup {None}]
  /\ \A k \in Keys :
       IF replays[k] = None THEN replays'[k] = None
       ELSE /\ replays'[k] \in Replay
            /\ replays'[k].plan = replays[k].plan
            /\ replays'[k].request = replays[k].request
            /\ replays'[k].latest = replays[k].latest
            /\ replays'[k].operation =>
                 replays[k].operation \/ Own(k, replays[k].plan)
            /\ \/ replays'[k].delivery = replays[k].delivery
               \/ replays'[k].delivery = d /\ replays[k].latest = i

\* What every settlement of a call has in common.
LEMMA SettledCallKeeps ==
  ASSUME CustodyInv, NEW i \in DOMAIN calls, NEW x \in Call,
         NEW d \in Deliveries,
         calls' = [calls EXCEPT ![i] = x],
         x.key = calls[i].key, x.plan = calls[i].plan,
         x.original = calls[i].original, x.caller = calls[i].caller,
         calls[i].custody = "dead" => x.custody = "dead",
         x.outcome = "not_sent" => x.custody = "dead",
         d = "not_sent" => x.custody = "dead",
         x.answered \/ x.outcome = "result" => Own(x.key, x.plan),
         UNCHANGED <<prepared, attempt, recovering, operations>>,
         RecordsTold(i, d)
  PROVE  CustodyInv'
<1>1. /\ CallsSound /\ RecordsSound /\ TypeOK
  BY DEF CustodyInv, ClientInv
<1>2. /\ calls' \in Seq(Call) /\ Len(calls') = Len(calls)
      /\ DOMAIN calls' = DOMAIN calls /\ calls'[i] = x
      /\ \A j \in DOMAIN calls : j # i => calls'[j] = calls[j]
  BY <1>1, OneCallChanges
<1>3. TypeOK'
  BY <1>1, <1>2 DEF TypeOK, RecordsTold
<1>4. \A k, p : Own(k, p)' <=> Own(k, p)
  BY DEF Own
<1>5. CallsGoOn
  <2> SUFFICES ASSUME NEW j \in DOMAIN calls
               PROVE  /\ SameCall(j)
                      /\ calls'[j].outcome = "not_sent" =>
                           calls'[j].custody = "dead"
                      /\ calls'[j].answered \/ calls'[j].outcome = "result" =>
                           Own(calls[j].key, calls[j].plan)
    BY <1>2, <1>4 DEF CallsGoOn, Own
  <2>1. CallSound(j)
    BY <1>1 DEF CallsSound
  <2> QED BY <1>2, <2>1 DEF CallSound, SameCall
<1>6. OperationsStay
  BY DEF OperationsStay
<1>7. ASSUME NEW k \in Keys, replays[k] # None PROVE RecordGoesOn(k)
  <2>1. RecordSound(k, replays[k])
    BY <1>1, <1>7 DEF RecordsSound
  <2>2. replays'[k] # None
    BY <1>7, NoneIsNothing DEF RecordsTold
  <2>3. replays'[k].delivery = "not_sent" =>
          calls'[replays[k].latest].custody = "dead"
    BY <1>2, <1>5, <1>7, <2>1
       DEF RecordSound, CallsGoOn, SameCall, RecordsTold
  <2>4. replays'[k].operation => Own(k, replays[k].plan)
    BY <1>7, <2>1 DEF RecordSound, RecordsTold
  <2> QED BY <1>7, <2>2, <2>3, <2>4 DEF RecordGoesOn, Own, RecordsTold
<1>8. ClientInv' /\ ControllerInv'
  <2>1. \A k \in Keys : \/ RecordGoesOn(k)
                        \/ replays[k] = None /\ replays'[k] = None
    BY <1>7 DEF RecordsTold
  <2> QED BY <1>5, <1>6, <2>1, CallStepKeeps
<1> QED BY <1>3, <1>8 DEF CustodyInv

\* The transport and the native side settle a call, or hand it on.
LEMMA TransportKeeps ==
  ASSUME CustodyInv, NEW i \in DOMAIN calls,
         \/ TransportRefuses(i) \/ Invoke(i) \/ NativeRefuses(i)
         \/ Abandon(i) \/ ReplyArrives(i)
  PROVE  CustodyInv'
<1>1. /\ TypeOK /\ CallsSound /\ calls[i] \in Call
      /\ replays \in [Keys -> Replay \cup {None}]
  BY CallsAre DEF CustodyInv, ClientInv, TypeOK
<1>2. CallSound(i)
  BY <1>1 DEF CallsSound
<1>3. {"not_sent", "may_have_reached_backend"} \subseteq Deliveries
  BY DEF Deliveries
<1>4. CASE TransportRefuses(i) \/ NativeRefuses(i)
  <2> DEFINE x == [calls[i] EXCEPT !.custody = "dead",
                                   !.outcome = "not_sent"]
  <2>1. /\ x \in Call /\ x.key = calls[i].key /\ x.plan = calls[i].plan
        /\ x.original = calls[i].original /\ x.caller = calls[i].caller
        /\ x.custody = "dead" /\ x.outcome = "not_sent"
        /\ x.answered = calls[i].answered
    BY <1>1 DEF Call, Custodies, Deliveries
  <2>2. calls' = [calls EXCEPT ![i] = x]
    BY <1>4 DEF TransportRefuses, NativeRefuses
  <2>3. /\ replays' = Settlement(i, "not_sent")
        /\ UNCHANGED <<prepared, attempt, recovering, operations>>
    BY <1>4 DEF TransportRefuses, NativeRefuses
  <2>4. x.answered \/ x.outcome = "result" => Own(x.key, x.plan)
    BY <1>2, <2>1 DEF CallSound
  <2> HIDE DEF x
  <2>5. RecordsTold(i, "not_sent")
    BY <1>1, <1>3, <2>3, SettlementIs DEF RecordsTold
  <2> QED BY <1>3, <2>1, <2>2, <2>3, <2>4, <2>5, SettledCallKeeps
<1>5. CASE Invoke(i)
  <2> DEFINE x == [calls[i] EXCEPT !.custody = "invoked"]
  <2>1. /\ x \in Call /\ x.key = calls[i].key /\ x.plan = calls[i].plan
        /\ x.original = calls[i].original /\ x.caller = calls[i].caller
        /\ x.outcome = "pending" /\ x.answered = calls[i].answered
    BY <1>1, <1>5 DEF Call, Custodies, Deliveries, Invoke, Waiting
  <2>2. calls' = [calls EXCEPT ![i] = x] /\ calls[i].custody = "waiting"
    BY <1>5 DEF Invoke
  <2>3. /\ replays' = replays
        /\ UNCHANGED <<prepared, attempt, recovering, operations>>
    BY <1>5 DEF Invoke
  <2>4. x.answered \/ x.outcome = "result" => Own(x.key, x.plan)
    BY <1>2, <2>1 DEF CallSound
  <2> HIDE DEF x
  <2>5. RecordsTold(i, "may_have_reached_backend")
    BY <1>1, <2>3 DEF RecordsTold
  <2>6. "may_have_reached_backend" \in Deliveries
    BY DEF Deliveries
  <2> QED BY <2>1, <2>2, <2>3, <2>4, <2>5, <2>6, SettledCallKeeps
<1>6. CASE Abandon(i)
  <2> DEFINE x == [calls[i] EXCEPT !.outcome = "may_have_reached_backend",
                     !.answered = FALSE,
                     !.custody = IF @ = "waiting" THEN "dead" ELSE @]
  <2>1. /\ x \in Call /\ x.key = calls[i].key /\ x.plan = calls[i].plan
        /\ x.original = calls[i].original /\ x.caller = calls[i].caller
        /\ x.outcome = "may_have_reached_backend" /\ x.answered = FALSE
        /\ calls[i].custody = "dead" => x.custody = "dead"
    BY <1>1 DEF Call, Custodies, Deliveries
  <2>2. calls' = [calls EXCEPT ![i] = x]
    BY <1>6 DEF Abandon
  <2>3. /\ replays' = Settlement(i, "may_have_reached_backend")
        /\ UNCHANGED <<prepared, attempt, recovering, operations>>
    BY <1>6 DEF Abandon
  <2> HIDE DEF x
  <2>4. RecordsTold(i, "may_have_reached_backend")
    BY <1>1, <1>3, <2>3, SettlementIs DEF RecordsTold
  <2> QED BY <1>3, <2>1, <2>2, <2>3, <2>4, SettledCallKeeps
<1>7. CASE ReplyArrives(i)
  <2> DEFINE x == [calls[i] EXCEPT !.outcome = "result", !.answered = FALSE]
             k == calls[i].key
             told == Settlement(i, "may_have_reached_backend")
  <2>1. /\ x \in Call /\ x.key = calls[i].key /\ x.plan = calls[i].plan
        /\ x.original = calls[i].original /\ x.caller = calls[i].caller
        /\ x.outcome = "result" /\ x.custody = calls[i].custody
        /\ k \in Keys
    BY <1>1 DEF Call, Custodies, Deliveries
  <2>2. calls' = [calls EXCEPT ![i] = x] /\ calls[i].answered
    BY <1>7 DEF ReplyArrives
  <2>3. Own(k, calls[i].plan)
    BY <1>2, <2>2 DEF CallSound
  <2>4. UNCHANGED <<prepared, attempt, recovering, operations>>
    BY <1>7 DEF ReplyArrives
  <2>5. /\ told \in [Keys -> Replay \cup {None}]
        /\ \A h \in Keys :
             IF replays[h] = None THEN told[h] = None
             ELSE /\ told[h] \in Replay
                  /\ told[h].plan = replays[h].plan
                  /\ told[h].request = replays[h].request
                  /\ told[h].latest = replays[h].latest
                  /\ told[h].operation = replays[h].operation
                  /\ \/ told[h].delivery = replays[h].delivery
                     \/ told[h].delivery = "may_have_reached_backend"
                        /\ replays[h].latest = i
    BY <1>1, <1>3, SettlementIs
  <2> HIDE DEF x
  <2>6. RecordsTold(i, "may_have_reached_backend")
    <3>1. CASE /\ told[k] # None /\ told[k].request = calls[i].original
               /\ told[k].plan = calls[i].plan
      <4> DEFINE r == [told[k] EXCEPT !.operation = TRUE]
      <4>1. told[k] \in Replay /\ replays[k] # None
        BY <2>1, <2>5, <3>1
      <4>2. /\ r \in Replay /\ r.plan = told[k].plan
            /\ r.request = told[k].request /\ r.latest = told[k].latest
            /\ r.delivery = told[k].delivery
        BY <4>1 DEF Replay
      <4>3. replays' = [told EXCEPT ![k] = r]
        BY <1>7, <3>1 DEF ReplyArrives
      <4> HIDE DEF r, told
      <4> QED BY <2>1, <2>3, <2>5, <3>1, <4>1, <4>2, <4>3 DEF RecordsTold
    <3>2. CASE ~(/\ told[k] # None /\ told[k].request = calls[i].original
                 /\ told[k].plan = calls[i].plan)
      <4>1. replays' = told
        BY <1>7, <3>2 DEF ReplyArrives
      <4> HIDE DEF told
      <4> QED BY <2>5, <4>1 DEF RecordsTold
    <3> QED BY <3>1, <3>2
  <2>7. x.answered \/ x.outcome = "result" => Own(x.key, x.plan)
    BY <2>1, <2>3
  <2>8. /\ calls[i].custody = "dead" => x.custody = "dead"
        /\ x.outcome # "not_sent"
    BY <2>1
  <2> QED BY <1>3, <2>1, <2>2, <2>4, <2>6, <2>7, <2>8, SettledCallKeeps
<1> QED BY <1>4, <1>5, <1>6, <1>7

\* A frame is executed when nothing is known of its call any more, too; it is
\* answered with an operation of its own only.
LEMMA ExecuteKeeps ==
  ASSUME CustodyInv, NEW i \in DOMAIN calls, Execute(i)
  PROVE  CustodyInv'
<1>1. /\ CallsSound /\ RecordsSound /\ TypeOK /\ calls[i] \in Call
      /\ operations \in [Keys -> Operation \cup {None}]
  BY CallsAre DEF CustodyInv, ClientInv, TypeOK
<1>2. PICK ops \in {operations} \cup IF Admissible(i) THEN {Admission(i)}
                                                      ELSE {} :
        operations' = ops
  BY DEF Execute
<1>3. PICK result \in BOOLEAN :
        /\ result => Own(calls[i].key, calls[i].plan)'
        /\ calls' = [calls EXCEPT ![i].custody = "executed",
                                  ![i].answered = Waiting(i) /\ result]
  <2>1. PICK result \in {FALSE, /\ operations'[calls[i].key] # None
                                /\ operations'[calls[i].key].plan
                                     = calls[i].plan} :
          calls' = [calls EXCEPT ![i].custody = "executed",
                                 ![i].answered = Waiting(i) /\ result]
    BY DEF Execute
  <2>2. result \in BOOLEAN
    BY <2>1
  <2>3. SameCall(i)
    BY <1>1, <2>1 DEF SameCall, Call, Execute
  <2>4. result => /\ operations'[calls[i].key] # None
                  /\ operations'[calls[i].key].plan = calls[i].plan
    BY <2>1
  <2> QED BY <2>1, <2>2, <2>3, <2>4 DEF Own, SameCall
<1> DEFINE x == [calls[i] EXCEPT !.custody = "executed",
                                 !.answered = Waiting(i) /\ result]
<1>4. /\ x \in Call /\ x.key = calls[i].key /\ x.plan = calls[i].plan
      /\ x.original = calls[i].original /\ x.caller = calls[i].caller
      /\ x.outcome = calls[i].outcome /\ x.answered = (Waiting(i) /\ result)
      /\ calls[i].custody = "invoked"
  BY <1>1 DEF Call, Custodies, Deliveries, Execute, Waiting
<1>5. calls' = [calls EXCEPT ![i] = x]
  BY <1>3
<1> HIDE DEF x
<1>6. /\ calls' \in Seq(Call) /\ Len(calls') = Len(calls)
      /\ DOMAIN calls' = DOMAIN calls /\ calls'[i] = x
      /\ \A j \in DOMAIN calls : j # i => calls'[j] = calls[j]
  BY <1>1, <1>4, <1>5, OneCallChanges
<1>7. OperationsStay /\ operations' \in [Keys -> Operation \cup {None}]
  <2> DEFINE k == calls[i].key
             new == [plan |-> calls[i].plan, status |-> "running"]
  <2>1. k \in Keys /\ new \in Operation
    BY <1>1 DEF Call, Operation
  <2>2. CASE operations' = operations
    BY <1>1, <2>2 DEF OperationsStay
  <2>3. CASE operations' = Admission(i) /\ Admissible(i)
    <3>1. operations' = [operations EXCEPT ![k] = new] /\ operations[k] = None
      BY <2>3 DEF Admission, Admissible
    <3> HIDE DEF new
    <3> QED BY <1>1, <2>1, <3>1 DEF OperationsStay
  <2> QED BY <1>2, <2>2, <2>3
<1>8. UNCHANGED <<prepared, replays, attempt, recovering>>
  BY DEF Execute
<1>9. TypeOK'
  BY <1>1, <1>6, <1>7, <1>8 DEF TypeOK
<1>10. \A k \in Keys, p \in Plans : Own(k, p) => Own(k, p)'
  BY <1>7 DEF Own, OperationsStay
<1>11. CallsGoOn
  <2> SUFFICES ASSUME NEW j \in DOMAIN calls
               PROVE  /\ SameCall(j)
                      /\ calls'[j].outcome = "not_sent" =>
                           calls'[j].custody = "dead"
                      /\ calls'[j].answered \/ calls'[j].outcome = "result" =>
                           Own(calls[j].key, calls[j].plan)'
    BY <1>6 DEF CallsGoOn
  <2>1. CallSound(j) /\ CallSound(i)
    BY <1>1 DEF CallsSound
  <2>2. calls[j].key \in Keys /\ calls[j].plan \in Plans
    BY <1>1, CallsAre DEF Call
  <2>3. SameCall(j)
    BY <1>4, <1>6 DEF SameCall
  <2>4. CASE j = i
    <3>1. calls'[i] = x /\ calls[i].outcome # "not_sent"
      BY <1>4, <1>6, <2>1 DEF CallSound
    <3>2. calls'[i].answered => Own(calls[i].key, calls[i].plan)'
      BY <1>3, <1>4, <3>1
    <3>3. calls'[i].outcome = "result" => Own(calls[i].key, calls[i].plan)'
      <4>1. calls'[i].outcome = "result" => Own(calls[i].key, calls[i].plan)
        BY <1>4, <2>1, <3>1 DEF CallSound
      <4> QED BY <1>7, <2>2, <2>3, <2>4, <4>1 DEF Own, OperationsStay, SameCall
    <3> QED BY <1>4, <2>3, <2>4, <3>1, <3>2, <3>3
  <2>5. CASE j # i
    <3>1. calls'[j] = calls[j]
      BY <1>6, <2>5
    <3>2. calls'[j].answered \/ calls'[j].outcome = "result" =>
            Own(calls[j].key, calls[j].plan)
      BY <2>1, <3>1 DEF CallSound
    <3> QED
      BY <1>7, <2>1, <2>2, <2>3, <3>1, <3>2
         DEF CallSound, Own, OperationsStay
  <2> QED BY <2>4, <2>5
<1>12. ASSUME NEW k \in Keys, replays[k] # None PROVE RecordGoesOn(k)
  <2>1. RecordSound(k, replays[k])
    BY <1>1, <1>12 DEF RecordsSound
  <2>2. replays[k].delivery = "not_sent" =>
          calls'[replays[k].latest].custody = "dead"
    BY <1>11, <2>1 DEF RecordSound, CallsGoOn, SameCall
  <2>3. replays[k].operation => Own(k, replays[k].plan)'
    BY <1>7, <1>8, <2>1 DEF RecordSound, Own, OperationsStay
  <2> QED BY <1>8, <1>12, <2>2, <2>3 DEF RecordGoesOn, Own
<1>13. ClientInv' /\ ControllerInv'
  BY <1>7, <1>8, <1>11, <1>12, CallStepKeeps
<1> QED BY <1>9, <1>13 DEF CustodyInv

\* The host's operation goes on.
LEMMA ProgressKeeps ==
  ASSUME CustodyInv, NEW h \in Keys, Progress(h)
  PROVE  CustodyInv'
<1>1. /\ CallsSound /\ RecordsSound /\ TypeOK
      /\ operations \in [Keys -> Operation \cup {None}]
  BY DEF CustodyInv, ClientInv, TypeOK
<1>2. /\ UNCHANGED <<prepared, calls, replays, attempt, recovering>>
      /\ operations[h] # None /\ operations[h].status # "completed"
  BY DEF Progress
<1>3. PICK status \in {"recovery", "completed"} :
        operations' = [operations EXCEPT ![h].status = status]
  BY DEF Progress
<1>4. OperationsStay /\ operations' \in [Keys -> Operation \cup {None}]
  <2> DEFINE new == [operations[h] EXCEPT !.status = status]
  <2>1. new \in Operation /\ new.plan = operations[h].plan
    BY <1>1, <1>2, <1>3 DEF Operation
  <2>2. operations' = [operations EXCEPT ![h] = new] /\ new # None
    BY <1>3, <2>1, NoneIsNothing
  <2> HIDE DEF new
  <2> QED BY <1>1, <1>2, <2>1, <2>2 DEF OperationsStay
<1>5. TypeOK'
  BY <1>1, <1>2, <1>4 DEF TypeOK
<1>6. /\ \A i \in DOMAIN calls : calls[i].key \in Keys
      /\ \A k \in Keys : \A p : Own(k, p) => Own(k, p)'
  BY <1>1, <1>4, CallsAre DEF Call, Own, OperationsStay
<1>7. CallsGoOn
  <2> SUFFICES ASSUME NEW j \in DOMAIN calls
               PROVE  /\ SameCall(j)
                      /\ calls[j].outcome = "not_sent" =>
                           calls[j].custody = "dead"
                      /\ calls[j].answered \/ calls[j].outcome = "result" =>
                           Own(calls[j].key, calls[j].plan)'
    BY <1>2 DEF CallsGoOn
  <2>1. CallSound(j) /\ calls[j].key \in Keys
    BY <1>1, <1>6 DEF CallsSound
  <2> QED BY <1>2, <1>4, <2>1 DEF CallSound, SameCall, Own, OperationsStay
<1>8. ASSUME NEW k \in Keys, replays[k] # None PROVE RecordGoesOn(k)
  <2>1. RecordSound(k, replays[k])
    BY <1>1, <1>8 DEF RecordsSound
  <2>2. replays[k].operation => Own(k, replays[k].plan)'
    BY <1>2, <1>4, <2>1 DEF RecordSound, Own, OperationsStay
  <2> QED BY <1>2, <1>8, <2>1, <2>2 DEF RecordGoesOn, RecordSound, Own
<1>9. ClientInv' /\ ControllerInv'
  BY <1>2, <1>4, <1>7, <1>8, CallStepKeeps
<1> QED BY <1>5, <1>9 DEF CustodyInv

-----------------------------------------------------------------------------
(* What is given up                                                        *)

\* A record that proves its newest submission unsent, when that is the original
\* itself, proves it of all of them.
LEMMA ProvedIsDead ==
  ASSUME CustodyInv, NEW k \in Keys, NEW r, ProvedUnsent(k, r)
  PROVE  /\ \A i \in DOMAIN calls :
              calls[i].original = r => calls[i].custody = "dead"
         /\ SettledRecord(k)
<1>1. /\ CallsSound /\ RecordsSound /\ TypeOK /\ DOMAIN calls = 1..Len(calls)
      /\ Len(calls) \in Nat
  BY CallsAre DEF CustodyInv, ClientInv
<1>2. /\ RecordSound(k, replays[k]) /\ replays[k].request = r
      /\ replays[k].latest = r /\ replays[k].delivery = "not_sent"
  BY <1>1 DEF RecordsSound, ProvedUnsent
<1>3. ASSUME NEW i \in DOMAIN calls, calls[i].original = r
      PROVE  calls[i].custody = "dead"
  <2>1. CallSound(i) /\ i <= r /\ r \in DOMAIN calls
    BY <1>1, <1>2, <1>3 DEF CallsSound, RecordSound
  <2>2. i = r
    BY <1>1, <1>3, <2>1 DEF CallSound
  <2> QED BY <1>2, <2>2 DEF RecordSound
<1> QED BY <1>2, <1>3 DEF SettledRecord

\* The records rs are those there are, without some of plan p that are settled.
Releases(rs, p) ==
  /\ rs \in [Keys -> Replay \cup {None}]
  /\ \A k \in Keys :
       \/ rs[k] = replays[k]
       \/ rs[k] = None /\ Retained(k, p) /\ SettledRecord(k)

\* With the records rs, nothing that c submitted of plan p is or will be executed.
NothingSent(c, rs, p) ==
  /\ \A k \in Keys :
       rs[k] # None /\ rs[k].plan = p => calls[rs[k].request].caller # c
  /\ \A i \in DOMAIN calls :
       calls[i].plan = p /\ calls[calls[i].original].caller = c =>
         calls[i].custody = "dead"

\* A review that can prove what it says may be closed.
LEMMA ReviewIsSettled ==
  ASSUME CustodyInv, NEW c \in Controllers, attempt[c].state = "review",
         ~Unproved(attempt[c])
  PROVE  /\ Releases(ReleaseUnsent(attempt[c]), attempt[c].plan)
         /\ NothingSent(c, ReleaseUnsent(attempt[c]), attempt[c].plan)
<1> DEFINE a == attempt[c]
           rs == ReleaseUnsent(a)
<1>1. /\ CallsSound /\ RepetitionIsExact /\ RecordsSound /\ TypeOK
      /\ AttemptSound(c) /\ ReviewSound(c) /\ MayReview(a)
      /\ DOMAIN calls \subseteq CallIds
      /\ replays \in [Keys -> Replay \cup {None}]
  BY CallsAre DEF CustodyInv, ClientInv, ControllerInv, MayReview, TypeOK
<1>2. \A i \in DOMAIN calls : calls[i].key \in Keys
                              /\ calls[i].original \in DOMAIN calls
  BY <1>1, CallsAre DEF Call, CallsSound, CallSound
<1>3. CASE a.unsent /\ Held(a)
  <2>1. /\ a.key \in Keys /\ ProvedUnsent(a.key, a.capture)
        /\ Retained(a.key, a.plan)
    BY <1>1, <1>3 DEF Held, AttemptSound, Unproved, Retained
  <2>2. rs = [replays EXCEPT ![a.key] = None]
    BY <1>3 DEF ReleaseUnsent, Forgotten
  <2>3. /\ SettledRecord(a.key)
        /\ \A i \in DOMAIN calls :
             calls[i].original = a.capture => calls[i].custody = "dead"
    BY <2>1, ProvedIsDead
  <2> HIDE DEF rs
  <2>4. Releases(rs, a.plan)
    BY <1>1, <2>1, <2>2, <2>3 DEF Releases
  <2>5. ASSUME NEW k \in Keys, rs[k] # None, rs[k].plan = a.plan
        PROVE  calls[rs[k].request].caller # c
    <3>1. rs[k] = replays[k] /\ k # a.key /\ Retained(k, a.plan)
      BY <1>1, <2>1, <2>2, <2>5 DEF Retained
    <3> QED BY <1>1, <3>1 DEF ReviewSound, OwnRecord
  <2>6. ASSUME NEW i \in DOMAIN calls, calls[i].plan = a.plan,
               calls[calls[i].original].caller = c
        PROVE  calls[i].custody = "dead"
    <3> DEFINE k == calls[i].key
    <3>1. CASE replays[k] # None /\ replays[k].request = calls[i].original
      <4>1. Retained(k, a.plan)
        BY <1>1, <1>2, <2>6, <3>1
           DEF RecordsSound, RecordSound, RepetitionIsExact, Retained
      <4>2. OwnRecord(a, k, calls[i].original)
        BY <1>1, <1>2, <2>6, <3>1, <4>1 DEF ReviewSound
      <4> QED BY <2>3, <4>2 DEF OwnRecord
    <3> QED BY <1>1, <2>6, <3>1 DEF ReviewSound
  <2>7. NothingSent(c, rs, a.plan)
    BY <2>5, <2>6 DEF NothingSent
  <2> QED BY <2>4, <2>7 DEF rs
<1>4. CASE ~(a.unsent /\ Held(a))
  <2>1. rs = replays
    BY <1>4 DEF ReleaseUnsent
  <2>2. ASSUME NEW k \in Keys, Retained(k, a.plan),
               calls[replays[k].request].caller = c
        PROVE  FALSE
    <3>1. OwnRecord(a, k, replays[k].request) /\ replays[k].request \in CallIds
      BY <1>1, <2>2 DEF ReviewSound, RecordsSound, RecordSound, Retained
    <3>2. Held(a) /\ a.unsent
      BY <2>2, <3>1 DEF OwnRecord, Held, Retained, CallIds
    <3> QED BY <1>4, <3>2
  <2>3. ASSUME NEW i \in DOMAIN calls, calls[i].plan = a.plan,
               calls[calls[i].original].caller = c
        PROVE  calls[i].custody = "dead"
    <3> DEFINE k == calls[i].key
    <3>1. CASE replays[k] # None /\ replays[k].request = calls[i].original
      <4>1. Retained(k, a.plan)
        BY <1>1, <1>2, <2>3, <3>1
           DEF RecordsSound, RecordSound, RepetitionIsExact, Retained
      <4> QED BY <1>2, <2>2, <2>3, <3>1, <4>1
    <3> QED BY <1>1, <2>3, <3>1 DEF ReviewSound
  <2>4. Releases(replays, a.plan)
    BY <1>1 DEF Releases
  <2>5. NothingSent(c, replays, a.plan)
    BY <2>2, <2>3 DEF NothingSent, Retained
  <2> QED BY <2>1, <2>4, <2>5
<1> QED BY <1>3, <1>4

-----------------------------------------------------------------------------
(* The controllers' steps that submit nothing                              *)

\* A change to one controller's attempt, with what it gives up of its plan.
LEMMA AttemptChanges ==
  ASSUME CustodyInv, NEW c \in Controllers, ~Idle(c), NEW b \in Attempt,
         attempt' = [attempt EXCEPT ![c] = b],
         UNCHANGED <<prepared, calls, recovering, operations>>,
         b.state = "idle" \/ b.plan = attempt[c].plan,
         Releases(replays', attempt[c].plan),
         AttemptSound(c)', ReviewSound(c)'
  PROVE  CustodyInv'
<1> DEFINE p == attempt[c].plan
<1>1. /\ CallsSound /\ RecordsSound /\ TypeOK /\ PlansDistinct
      /\ prepared \in Nat /\ attempt \in [Controllers -> Attempt]
  BY CustodyAssumption DEF CustodyInv, ClientInv, ControllerInv, TypeOK
<1>2. /\ attempt' \in [Controllers -> Attempt] /\ attempt'[c] = b
      /\ \A d \in Controllers : d # c => attempt'[d] = attempt[d]
  BY <1>1
<1>3. TypeOK'
  BY <1>1, <1>2 DEF TypeOK, Releases
<1>4. CallsGoOn
  BY <1>1 DEF CallsGoOn, CallsSound, CallSound, SameCall, Own
<1>5. OperationsStay
  BY DEF OperationsStay
<1>6. ASSUME NEW k \in Keys
      PROVE  \/ RecordGoesOn(k)
             \/ replays'[k] = None /\ (replays[k] # None => SettledRecord(k))
  BY <1>1, <1>6 DEF Releases, RecordGoesOn, RecordsSound, RecordSound, Own
<1>7. ClientInv'
  BY <1>1, <1>4, <1>5, <1>6, ClientGoesOn
<1>8. /\ \A d \in Controllers : d # c => AttemptSound(d)' /\ ReviewSound(d)'
      /\ RecoveringSound'
  <2>1. /\ \A d \in Controllers : d # c /\ ~Idle(d) => attempt[d].plan # p
        /\ \A a \in recovering' : a.plan # p
    BY <1>1 DEF PlansDistinct
  <2>2. /\ \A k \in Keys : replays[k] # None /\ replays[k].plan # p =>
             /\ replays'[k] # None /\ replays'[k].plan = replays[k].plan
             /\ replays'[k].request = replays[k].request
        /\ \A k \in Keys : replays'[k] # None /\ replays'[k].plan # p =>
             replays[k] # None /\ replays[k].plan # p
    BY DEF Releases, Retained
  <2>3. /\ recovering' \subseteq recovering
        /\ prepared' \in Nat /\ prepared <= prepared'
        /\ DOMAIN calls \subseteq DOMAIN calls'
        /\ \A i \in DOMAIN calls : SameCall(i)
        /\ \A i \in DOMAIN calls' \ DOMAIN calls : calls'[i].plan = p
    BY <1>1 DEF SameCall
  <2>4. prepared \in Nat
    BY <1>1
  <2> HIDE DEF p
  <2> QED BY <1>2, <1>5, <2>1, <2>2, <2>3, <2>4, OthersKeep
<1>9. PlansDistinct'
  BY <1>1, <1>2 DEF PlansDistinct, Idle
<1> QED BY <1>3, <1>7, <1>8, <1>9 DEF CustodyInv, ControllerInv

\* An attempt that is no more.
LEMMA NoAttemptSound ==
  /\ NoAttempt \in Attempt
  /\ \A c \in Controllers :
       attempt'[c] = NoAttempt => AttemptSound(c)' /\ ReviewSound(c)'
<1>1. NoAttempt \in Attempt
  BY DEF NoAttempt, Attempt
<1>2. ASSUME NEW c \in Controllers, attempt'[c] = NoAttempt
      PROVE  AttemptSound(c)' /\ ReviewSound(c)'
  BY <1>2 DEF NoAttempt, AttemptSound, ReviewSound, MayReview
<1> QED BY <1>1, <1>2

\* What was proved of the records given up is what a later review needs.
LEMMA NothingSentIsSound ==
  ASSUME NEW c \in Controllers, calls' = calls,
         NothingSent(c, replays', attempt'[c].plan)
  PROVE  ReviewSound(c)'
BY DEF NothingSent, ReviewSound, Retained

\* stay, and what is found when the attempt cannot be proved unsent.
LEMMA FindAndStayKeep ==
  ASSUME CustodyInv, NEW c \in Controllers, FindUnproved(c) \/ Stay(c)
  PROVE  CustodyInv'
<1> DEFINE a == attempt[c]
<1>1. /\ TypeOK /\ AttemptSound(c) /\ a.state = "review" /\ ~Idle(c)
      /\ a \in Attempt
      /\ attempt \in [Controllers -> Attempt]
      /\ replays \in [Keys -> Replay \cup {None}]
      /\ UNCHANGED <<prepared, calls, recovering, operations>>
  BY DEF CustodyInv, ControllerInv, TypeOK, FindUnproved, Stay, Idle
<1>2. CASE FindUnproved(c)
  <2> DEFINE b == [a EXCEPT !.unsent = FALSE, !.state = "uncertain"]
  <2>1. /\ b \in Attempt /\ b.state = "uncertain" /\ b.plan = a.plan
        /\ b.key = a.key /\ b.capture = a.capture /\ b.operation = a.operation
    BY <1>1 DEF Attempt
  <2>2. attempt' = [attempt EXCEPT ![c] = b] /\ replays' = replays
    BY <1>1, <1>2 DEF FindUnproved
  <2>3. a.key \in Keys /\ Retained(a.key, a.plan)
    BY <1>1, <1>2 DEF FindUnproved, Unproved, Held, Retained, AttemptSound
  <2>4. attempt'[c] = b
    BY <1>1, <2>2
  <2> HIDE DEF b
  <2>5. AttemptSound(c)'
    BY <1>1, <2>1, <2>2, <2>3, <2>4 DEF AttemptSound, Retained
  <2>6. ReviewSound(c)'
    BY <2>1, <2>4 DEF ReviewSound, MayReview
  <2>7. Releases(replays', a.plan)
    BY <1>1, <2>2 DEF Releases
  <2> QED BY <1>1, <2>1, <2>2, <2>5, <2>6, <2>7, AttemptChanges
<1>3. CASE Stay(c)
  <2>1. /\ ~Unproved(a) /\ replays' = ReleaseUnsent(a)
        /\ attempt' = [attempt EXCEPT ![c] = NoAttempt]
    BY <1>3 DEF Stay
  <2>2. Releases(replays', a.plan)
    BY <1>1, <2>1, ReviewIsSettled
  <2>3. attempt'[c] = NoAttempt /\ NoAttempt.state = "idle"
    BY <1>1, <2>1 DEF NoAttempt
  <2>4. NoAttempt \in Attempt /\ AttemptSound(c)' /\ ReviewSound(c)'
    BY <2>3, NoAttemptSound
  <2> QED BY <1>1, <2>1, <2>2, <2>3, <2>4, AttemptChanges
<1> QED BY <1>2, <1>3

\* A review of a host that has changed.
LEMMA ConfirmOutdatedKeeps ==
  ASSUME CustodyInv, NEW c \in Controllers, ConfirmOutdated(c)
  PROVE  CustodyInv'
<1> DEFINE a == attempt[c]
           o == a.owns /\ ~Held(a)
           b == IF c = "action" THEN NoAttempt ELSE [a EXCEPT !.owns = o]
<1>0. attempt' = [attempt EXCEPT ![c] = b]
  BY Zenon DEF ConfirmOutdated
<1>1. /\ TypeOK /\ AttemptSound(c) /\ a.state = "review" /\ ~Idle(c)
      /\ a \in Attempt
      /\ attempt \in [Controllers -> Attempt]
      /\ UNCHANGED <<prepared, calls, recovering, operations>>
      /\ ~Unproved(a) /\ replays' = ReleaseUnsent(a)
      /\ attempt' = [attempt EXCEPT ![c] = b]
  BY <1>0 DEF CustodyInv, ControllerInv, TypeOK, ConfirmOutdated, Idle
<1>2. /\ b \in Attempt
      /\ \/ b = NoAttempt /\ b.state = "idle"
         \/ /\ b.state = "review" /\ b.plan = a.plan
            /\ b.key = a.key /\ b.capture = a.capture
            /\ b.operation = a.operation
  <2>1. CASE c = "action"
    BY <2>1, NoAttemptSound DEF NoAttempt
  <2>2. CASE c # "action"
    <3>1. b = [a EXCEPT !.owns = o]
      BY <2>2
    <3>2. o \in BOOLEAN
      BY Zenon
    <3> HIDE DEF o, b
    <3> QED BY <1>1, <3>1, <3>2 DEF Attempt
  <2> QED BY <2>1, <2>2
<1>3. attempt'[c] = b
  BY <1>1
<1>4. Releases(replays', a.plan) /\ NothingSent(c, replays', a.plan)
  BY <1>1, ReviewIsSettled
<1> HIDE DEF b
<1>5. AttemptSound(c)' /\ ReviewSound(c)'
  <2>1. CASE b = NoAttempt
    BY <1>3, <2>1, NoAttemptSound
  <2>2. CASE b # NoAttempt
    <3>1. AttemptSound(c)'
      BY <1>1, <1>2, <1>3, <2>2 DEF AttemptSound
    <3> QED BY <1>1, <1>2, <1>3, <1>4, <2>2, <3>1, NothingSentIsSound
  <2> QED BY <2>1, <2>2
<1> QED BY <1>1, <1>2, <1>4, <1>5, AttemptChanges

\* acceptCommit: what is known of the attempt's operation is its own, and it
\* returns to the review only as long as it was the first to submit its plan.
LEMMA AcceptCommitKeeps ==
  ASSUME CustodyInv, NEW c \in Controllers, AcceptCommit(c)
  PROVE  CustodyInv'
<1> DEFINE a == attempt[c]
<1>1. /\ TypeOK /\ CallsSound /\ AttemptSound(c) /\ ReviewSound(c)
      /\ a.state = "admitting" /\ ~Idle(c) /\ a \in Attempt
      /\ attempt \in [Controllers -> Attempt]
      /\ replays \in [Keys -> Replay \cup {None}]
      /\ UNCHANGED <<prepared, calls, replays, recovering, operations>>
  BY DEF CustodyInv, ClientInv, ControllerInv, TypeOK, AcceptCommit, Idle
<1>2. Releases(replays', a.plan)
  BY <1>1 DEF Releases
<1>3. CASE NotSubmitted(a)
  <2> DEFINE b == [a EXCEPT !.state = "review", !.call = 0, !.unsent = TRUE]
  <2>1. /\ b \in Attempt /\ b.state = "review" /\ b.plan = a.plan
        /\ b.key = a.key /\ b.capture = a.capture /\ b.owns = a.owns
        /\ b.operation = a.operation /\ b.unsent
    BY <1>1 DEF Attempt
  <2>2. attempt' = [attempt EXCEPT ![c] = b]
    BY <1>1, <1>3 DEF AcceptCommit
  <2>3. attempt'[c] = b
    BY <1>1, <2>2
  <2>4. ~a.replay /\ MayReview(a) /\ ~a.operation
    BY <1>1, <1>3 DEF NotSubmitted, MayReview, AttemptSound
  <2> HIDE DEF b
  <2>5. AttemptSound(c)'
    BY <1>1, <2>1, <2>3, <2>4 DEF AttemptSound
  <2>6. \A k, r : OwnRecord(a, k, r) => OwnRecord(b, k, r)
    BY <2>1 DEF OwnRecord
  <2>7. ReviewSound(c)'
    BY <1>1, <2>1, <2>3, <2>4, <2>6 DEF ReviewSound, Retained
  <2> QED BY <1>1, <1>2, <2>1, <2>2, <2>5, <2>7, AttemptChanges
<1>4. ASSUME NEW b \in Attempt, attempt' = [attempt EXCEPT ![c] = b],
             b.state \in {"observing", "uncertain"}, b.plan = a.plan,
             b.key = a.key, b.capture = a.capture,
             b.operation => Own(a.key, a.plan)
      PROVE  CustodyInv'
  <2>1. attempt'[c] = b
    BY <1>1, <1>4
  <2>2. AttemptSound(c)'
    BY <1>1, <1>4, <2>1 DEF AttemptSound, Retained, Own
  <2>3. ReviewSound(c)'
    BY <1>4, <2>1 DEF ReviewSound, MayReview
  <2> QED BY <1>1, <1>2, <1>4, <2>2, <2>3, AttemptChanges
<1>5. a.operation => Own(a.key, a.plan)
  BY <1>1 DEF AttemptSound
<1>6. CASE ~NotSubmitted(a) /\ calls[a.call].outcome = "result"
  <2>1. PICK state \in {"observing", "uncertain"}, known \in {TRUE, a.operation} :
          attempt' = [attempt EXCEPT ![c].state = state, ![c].operation = known]
    BY <1>1, <1>6 DEF AcceptCommit
  <2> DEFINE b == [a EXCEPT !.state = state, !.operation = known]
  <2>2. Own(a.key, a.plan)
    BY <1>1, <1>6 DEF AttemptSound, CallsSound, CallSound
  <2>3. /\ b \in Attempt /\ b.state \in {"observing", "uncertain"}
        /\ b.plan = a.plan /\ b.key = a.key /\ b.capture = a.capture
    BY <1>1, <2>1 DEF Attempt
  <2>4. attempt' = [attempt EXCEPT ![c] = b]
    BY <1>1, <2>1
  <2> HIDE DEF b
  <2> QED BY <1>4, <2>2, <2>3, <2>4
<1>7. CASE ~NotSubmitted(a) /\ calls[a.call].outcome # "result"
  <2> DEFINE b == [a EXCEPT !.state = "uncertain"]
  <2>1. /\ b \in Attempt /\ b.state \in {"observing", "uncertain"}
        /\ b.plan = a.plan /\ b.key = a.key /\ b.capture = a.capture
        /\ b.operation = a.operation
    BY <1>1 DEF Attempt
  <2>2. attempt' = [attempt EXCEPT ![c] = b]
    BY <1>1, <1>7 DEF AcceptCommit
  <2> HIDE DEF b
  <2> QED BY <1>4, <1>5, <2>1, <2>2
<1> QED BY <1>3, <1>6, <1>7

\* A record whose own operation has completed is settled.
LEMMA CompletedIsReleased ==
  ASSUME CustodyInv, NEW a \in Attempt, Completed(a), a.key \in Keys,
         Own(a.key, a.plan)
  PROVE  Releases(Release(a), a.plan)
<1>1. /\ CallsSound /\ RepetitionIsExact /\ RecordsSound
      /\ replays \in [Keys -> Replay \cup {None}]
      /\ operations \in [Keys -> Operation \cup {None}]
  BY DEF CustodyInv, ClientInv, TypeOK
<1>2. CASE Held(a)
  <2> DEFINE k == a.key
  <2>1. Release(a) = [replays EXCEPT ![k] = None] /\ Retained(k, a.plan)
    BY <1>2 DEF Release, Forgotten, Held, Retained
  <2>2. operations[k] # None
        /\ operations[k] = [plan |-> a.plan, status |-> "completed"]
    BY <1>1 DEF Completed, Own, Operation
  <2>3. ASSUME NEW i \in DOMAIN calls, calls[i].original = replays[k].request
        PROVE  calls[i].plan = a.plan
    BY <1>1, <2>1, <2>3 DEF RecordsSound, RecordSound, RepetitionIsExact, Retained
  <2>4. SettledRecord(k)
    BY <2>2, <2>3 DEF SettledRecord
  <2> QED BY <1>1, <2>1, <2>4 DEF Releases
<1>3. CASE ~Held(a)
  BY <1>1, <1>3 DEF Release, Releases
<1> QED BY <1>2, <1>3

\* The attempt's operation is seen to have completed.
LEMMA ObserveCompletedKeeps ==
  ASSUME CustodyInv, NEW c \in Controllers, ObserveCompleted(c)
  PROVE  CustodyInv'
<1> DEFINE a == attempt[c]
<1>1. /\ TypeOK /\ AttemptSound(c) /\ a \in Attempt
      /\ attempt \in [Controllers -> Attempt]
      /\ UNCHANGED <<prepared, calls, recovering, operations>>
      /\ Completed(a) /\ replays' = Release(a)
      /\ attempt' = [attempt EXCEPT ![c] = NoAttempt]
  BY DEF CustodyInv, ControllerInv, TypeOK, ObserveCompleted
<1>2. ~Idle(c) /\ a.key \in Keys /\ Own(a.key, a.plan)
  BY <1>1 DEF AttemptSound, Completed, Idle
<1>3. Releases(replays', a.plan)
  BY <1>1, <1>2, CompletedIsReleased
<1>4. attempt'[c] = NoAttempt /\ NoAttempt.state = "idle"
  BY <1>1 DEF NoAttempt
<1>5. NoAttempt \in Attempt /\ AttemptSound(c)' /\ ReviewSound(c)'
  BY <1>4, NoAttemptSound
<1> QED BY <1>1, <1>2, <1>3, <1>4, <1>5, AttemptChanges

\* A plan of its own is prepared: nobody has submitted it.
LEMMA PrepareKeeps ==
  ASSUME CustodyInv, NEW c \in Controllers, Prepare(c)
  PROVE  CustodyInv'
<1> DEFINE p == prepared + 1
           b == [NoAttempt EXCEPT !.state = "review", !.plan = p]
<1>1. /\ CallsSound /\ RecordsSound /\ TypeOK /\ PlansDistinct
      /\ RecoveringSound /\ \A d \in Controllers : AttemptSound(d)
      /\ prepared \in Nat /\ p \in Plans
      /\ attempt \in [Controllers -> Attempt]
  BY CustodyAssumption
     DEF CustodyInv, ClientInv, ControllerInv, TypeOK, Plans, Prepare
<1>2. /\ prepared' = p /\ attempt' = [attempt EXCEPT ![c] = b]
      /\ UNCHANGED <<calls, replays, recovering, operations>>
  BY DEF Prepare
<1>3. /\ b \in Attempt /\ b.state = "review" /\ b.plan = p
      /\ b.capture = 0 /\ ~b.operation
  BY <1>1 DEF NoAttempt, Attempt
<1> HIDE DEF b
<1>4. /\ attempt' \in [Controllers -> Attempt] /\ attempt'[c] = b
      /\ \A d \in Controllers : d # c => attempt'[d] = attempt[d]
  BY <1>1, <1>2, <1>3
<1>5. TypeOK'
  BY <1>1, <1>2, <1>4, CustodyAssumption DEF TypeOK, Plans
<1>6. CallsGoOn /\ OperationsStay
  BY <1>1, <1>2
     DEF CallsGoOn, CallsSound, CallSound, SameCall, Own, OperationsStay
<1>7. \A k \in Keys : replays[k] # None => RecordGoesOn(k)
  BY <1>1, <1>2 DEF RecordGoesOn, RecordsSound, RecordSound, Own
<1>8. /\ \A i \in DOMAIN calls : calls[i].plan # p
      /\ \A k \in Keys : ~Retained(k, p)
      /\ \A d \in Controllers : ~Idle(d) => attempt[d].plan # p
      /\ \A a \in recovering : a.plan # p
  <2>1. \A x \in 1..prepared : x # p
    BY <1>1
  <2> QED BY <1>1, <2>1
          DEF CallsSound, CallSound, RecordsSound, RecordSound, Retained,
              AttemptSound, Idle, RecoveringSound
<1>9. ClientInv'
  BY <1>1, <1>2, <1>6, <1>7, ClientGoesOn
<1>10. /\ \A d \in Controllers : d # c => AttemptSound(d)' /\ ReviewSound(d)'
       /\ RecoveringSound'
  <2>1. /\ \A d \in Controllers : d # c => attempt'[d] = attempt[d]
        /\ recovering' \subseteq recovering
        /\ \A d \in Controllers : d # c /\ ~Idle(d) => attempt[d].plan # p
        /\ \A a \in recovering' : a.plan # p
        /\ prepared' \in Nat /\ prepared <= prepared'
    BY <1>1, <1>2, <1>4, <1>8
  <2>2. /\ DOMAIN calls \subseteq DOMAIN calls'
        /\ \A i \in DOMAIN calls : SameCall(i)
        /\ \A i \in DOMAIN calls' \ DOMAIN calls : calls'[i].plan = p
    BY <1>2 DEF SameCall
  <2>3. /\ \A k \in Keys : replays[k] # None /\ replays[k].plan # p =>
             /\ replays'[k] # None /\ replays'[k].plan = replays[k].plan
             /\ replays'[k].request = replays[k].request
        /\ \A k \in Keys : replays'[k] # None /\ replays'[k].plan # p =>
             replays[k] # None /\ replays[k].plan # p
    BY <1>2
  <2> QED BY <1>1, <1>6, <2>1, <2>2, <2>3, OthersKeep
<1>11. AttemptSound(c)'
  BY <1>1, <1>2, <1>3, <1>4 DEF AttemptSound
<1>12. ReviewSound(c)'
  BY <1>2, <1>3, <1>4, <1>8 DEF ReviewSound, Retained
<1>13. PlansDistinct'
  BY <1>1, <1>2, <1>3, <1>4, <1>8 DEF PlansDistinct, Idle
<1> QED BY <1>5, <1>9, <1>10, <1>11, <1>12, <1>13 DEF CustodyInv, ControllerInv

-----------------------------------------------------------------------------
(* Recovery and disposal                                                   *)

\* An action that waits for its recovery makes room.
LEMMA ObserveRecoveryKeeps ==
  ASSUME CustodyInv, ObserveRecovery
  PROVE  CustodyInv'
<1> DEFINE a == attempt["action"]
<1>1. /\ TypeOK /\ ClientInv /\ PlansDistinct /\ RecoveringSound
      /\ \A d \in Controllers : AttemptSound(d) /\ ReviewSound(d)
      /\ attempt \in [Controllers -> Attempt] /\ "action" \in Controllers
      /\ UNCHANGED <<prepared, calls, replays, operations>>
      /\ recovering' = recovering \cup {a} /\ a.operation
      /\ attempt' = [attempt EXCEPT !["action"] = NoAttempt]
  BY DEF CustodyInv, ControllerInv, TypeOK, ObserveRecovery, Controllers
<1>2. /\ a \in Attempt /\ ~Idle("action")
      /\ a.plan \in 1..prepared /\ a.key \in Keys
      /\ Retained(a.key, a.plan) /\ Own(a.key, a.plan)
  BY <1>1 DEF AttemptSound, Idle
<1>3. /\ attempt'["action"] = NoAttempt /\ NoAttempt.state = "idle"
      /\ \A d \in Controllers : d # "action" => attempt'[d] = attempt[d]
      /\ attempt' \in [Controllers -> Attempt]
  BY <1>1, NoAttemptSound DEF NoAttempt
<1>4. TypeOK'
  BY <1>1, <1>2, <1>3 DEF TypeOK
<1>5. ClientInv'
  <2>1. CallsSound' /\ RepetitionIsExact'
    BY <1>1 DEF ClientInv, CallsSound, CallSound, Own, RepetitionIsExact
  <2>2. RecordsSound' /\ ForgottenIsSettled'
    BY <1>1 DEF ClientInv, RecordsSound, RecordSound, Own, ForgottenIsSettled
  <2> QED BY <2>1, <2>2 DEF ClientInv
<1>6. ASSUME NEW d \in Controllers PROVE AttemptSound(d)' /\ ReviewSound(d)'
  <2>1. CASE d = "action"
    BY <1>3, <2>1, NoAttemptSound
  <2>2. CASE d # "action"
    <3>1. attempt'[d] = attempt[d]
      BY <1>3, <2>2
    <3>2. AttemptSound(d)'
      BY <1>1, <3>1 DEF AttemptSound, Retained, Own
    <3>3. ReviewSound(d)'
      BY <1>1, <3>1 DEF ReviewSound, Retained
    <3> QED BY <3>2, <3>3
  <2> QED BY <2>1, <2>2
<1>7. RecoveringSound'
  BY <1>1, <1>2 DEF RecoveringSound, Retained, Own
<1>8. PlansDistinct'
  BY <1>1, <1>2, <1>3 DEF PlansDistinct, Idle
<1> QED BY <1>4, <1>5, <1>6, <1>7, <1>8 DEF CustodyInv, ControllerInv

\* The operation of such an action has completed.
LEMMA ObserveRecoveredKeeps ==
  ASSUME CustodyInv, NEW a \in recovering, ObserveRecovered(a)
  PROVE  CustodyInv'
<1> DEFINE p == a.plan
<1>1. /\ CallsSound /\ RecordsSound /\ TypeOK /\ PlansDistinct
      /\ RecoveringSound
      /\ prepared \in Nat /\ a \in Attempt
  BY CustodyAssumption
     DEF CustodyInv, ClientInv, ControllerInv, TypeOK
<1>2. /\ Completed(a) /\ replays' = Release(a)
      /\ recovering' = recovering \ {a}
      /\ UNCHANGED <<prepared, calls, attempt, operations>>
  BY DEF ObserveRecovered
<1>3. Releases(replays', p)
  BY <1>1, <1>2, CompletedIsReleased DEF RecoveringSound
<1>4. TypeOK'
  BY <1>1, <1>2, <1>3 DEF TypeOK, Releases
<1>5. CallsGoOn /\ OperationsStay
  BY <1>1, <1>2
     DEF CallsGoOn, CallsSound, CallSound, SameCall, Own, OperationsStay
<1>6. ASSUME NEW k \in Keys
      PROVE  \/ RecordGoesOn(k)
             \/ replays'[k] = None /\ (replays[k] # None => SettledRecord(k))
  BY <1>1, <1>2, <1>3
     DEF Releases, RecordGoesOn, RecordsSound, RecordSound, Own
<1>7. ClientInv'
  BY <1>1, <1>2, <1>5, <1>6, ClientGoesOn
<1>8. /\ \A d \in Controllers : AttemptSound(d)' /\ ReviewSound(d)'
      /\ RecoveringSound'
  <2>1. "other" \notin Controllers
    BY DEF Controllers
  <2>2. /\ \A d \in Controllers : d # "other" => attempt'[d] = attempt[d]
        /\ recovering' \subseteq recovering
        /\ \A d \in Controllers :
             d # "other" /\ ~Idle(d) => attempt[d].plan # p
        /\ \A b \in recovering' : b.plan # p
        /\ prepared' \in Nat /\ prepared <= prepared'
    BY <1>1, <1>2 DEF PlansDistinct
  <2>3. /\ DOMAIN calls \subseteq DOMAIN calls'
        /\ \A i \in DOMAIN calls : SameCall(i)
        /\ \A i \in DOMAIN calls' \ DOMAIN calls : calls'[i].plan = p
    BY <1>2 DEF SameCall
  <2>4. /\ \A k \in Keys : replays[k] # None /\ replays[k].plan # p =>
             /\ replays'[k] # None /\ replays'[k].plan = replays[k].plan
             /\ replays'[k].request = replays[k].request
        /\ \A k \in Keys : replays'[k] # None /\ replays'[k].plan # p =>
             replays[k] # None /\ replays[k].plan # p
    BY <1>3 DEF Releases, Retained
  <2>5. /\ \A d \in Controllers :
             d # "other" => AttemptSound(d)' /\ ReviewSound(d)'
        /\ RecoveringSound'
    BY <1>1, <1>5, <2>2, <2>3, <2>4, OthersKeep
  <2> QED BY <2>1, <2>5
<1>9. PlansDistinct'
  BY <1>1, <1>2 DEF PlansDistinct, Idle
<1> QED BY <1>4, <1>7, <1>8, <1>9 DEF CustodyInv, ControllerInv

\* Both controllers are disposed of; what they could not prove unsent stays.
LEMMA DisposeKeeps ==
  ASSUME CustodyInv, Dispose
  PROVE  CustodyInv'
<1> DEFINE cut == {i \in DOMAIN calls :
                     Waiting(i) /\ calls[i].caller \in Controllers}
           unsent == {attempt[c].key : c \in {x \in Controllers :
                        /\ attempt[x].unsent /\ Held(attempt[x])
                        /\ ProvedUnsent(attempt[x].key, attempt[x].capture)}}
           After(i) == [calls[i] EXCEPT !.outcome = "may_have_reached_backend",
                          !.answered = FALSE,
                          !.custody = IF @ = "waiting" THEN "dead" ELSE @]
           Told(k) == [replays[k] EXCEPT !.delivery = "may_have_reached_backend"]
<1>1. /\ CallsSound /\ RecordsSound /\ TypeOK
      /\ \A d \in Controllers : AttemptSound(d)
      /\ prepared \in Nat
      /\ replays \in [Keys -> Replay \cup {None}]
      /\ Len(calls) \in Nat /\ DOMAIN calls = 1..Len(calls)
      /\ \A i \in DOMAIN calls : calls[i] \in Call
  BY CustodyAssumption, CallsAre
     DEF CustodyInv, ClientInv, ControllerInv, TypeOK
<1>2. /\ calls' = [i \in DOMAIN calls |->
                     IF i \in cut THEN After(i) ELSE calls[i]]
      /\ replays' = [k \in Keys |->
           IF k \in unsent \/ replays[k] = None THEN None
           ELSE IF replays[k].latest \in cut THEN Told(k) ELSE replays[k]]
      /\ attempt' = [c \in Controllers |-> NoAttempt]
      /\ recovering' = {}
      /\ UNCHANGED <<prepared, operations>>
  BY DEF Dispose
<1>3. ASSUME NEW i \in DOMAIN calls
      PROVE  /\ After(i) \in Call
             /\ After(i).key = calls[i].key /\ After(i).plan = calls[i].plan
             /\ After(i).original = calls[i].original
             /\ After(i).caller = calls[i].caller /\ ~After(i).answered
             /\ After(i).outcome = "may_have_reached_backend"
             /\ calls[i].custody = "dead" => After(i).custody = "dead"
  BY <1>1 DEF Call, Custodies, Deliveries
<1>4. ASSUME NEW k \in Keys, replays[k] # None
      PROVE  /\ Told(k) \in Replay /\ Told(k).plan = replays[k].plan
             /\ Told(k).request = replays[k].request
             /\ Told(k).latest = replays[k].latest
             /\ Told(k).operation = replays[k].operation
             /\ Told(k).delivery = "may_have_reached_backend"
  BY <1>1, <1>4 DEF Replay, Deliveries
<1>5. ASSUME NEW k \in Keys, k \in unsent PROVE SettledRecord(k)
  BY <1>5, ProvedIsDead
<1> HIDE DEF After, Told, unsent, cut
<1>6. /\ DOMAIN calls' = DOMAIN calls
      /\ \A i \in DOMAIN calls : calls'[i] = After(i) \/ calls'[i] = calls[i]
  BY <1>2
<1>7. TypeOK'
  <2>1. calls' \in [1..Len(calls) -> Call]
    BY <1>1, <1>2, <1>3
  <2>2. calls' \in Seq(Call) /\ Len(calls') = Len(calls)
    BY <1>1, <2>1, SeqDef, LenProperties
  <2>3. replays' \in [Keys -> Replay \cup {None}]
    BY <1>1, <1>2, <1>4
  <2>4. attempt' \in [Controllers -> Attempt] /\ recovering' \subseteq Attempt
    BY <1>2, NoAttemptSound
  <2> QED BY <1>1, <1>2, <2>2, <2>3, <2>4 DEF TypeOK
<1>8. CallsGoOn
  <2> SUFFICES ASSUME NEW i \in DOMAIN calls
               PROVE  /\ SameCall(i)
                      /\ calls'[i].outcome = "not_sent" =>
                           calls'[i].custody = "dead"
                      /\ calls'[i].answered \/ calls'[i].outcome = "result" =>
                           Own(calls[i].key, calls[i].plan)'
    BY <1>6 DEF CallsGoOn
  <2>1. CallSound(i)
    BY <1>1 DEF CallsSound
  <2>2. CASE calls'[i] = calls[i]
    <3>1. SameCall(i)
      BY <2>2 DEF SameCall
    <3> QED BY <1>2, <2>1, <2>2, <3>1 DEF CallSound, Own, SameCall
  <2>3. CASE calls'[i] = After(i)
    BY <1>3, <2>3 DEF SameCall
  <2> QED BY <1>6, <2>2, <2>3
<1>9. OperationsStay
  BY <1>2 DEF OperationsStay
<1>10. ASSUME NEW k \in Keys
       PROVE  \/ RecordGoesOn(k)
              \/ replays'[k] = None /\ (replays[k] # None => SettledRecord(k))
  <2>1. CASE k \in unsent \/ replays[k] = None
    BY <1>2, <1>5, <2>1
  <2>2. CASE ~(k \in unsent \/ replays[k] = None)
    <3>1. RecordSound(k, replays[k]) /\ replays[k] \in Replay
      BY <1>1, <2>2 DEF RecordsSound
    <3>2. replays'[k] = Told(k) \/ replays'[k] = replays[k]
      BY <1>2, <2>2
    <3>3. replays'[k] # None
      BY <1>4, <2>2, <3>2, NoneIsNothing
    <3>4. calls[replays[k].latest].custody = "dead" =>
            calls'[replays[k].latest].custody = "dead"
      BY <1>8, <3>1 DEF CallsGoOn, SameCall, RecordSound
    <3>5. /\ replays'[k].plan = replays[k].plan
          /\ replays'[k].request = replays[k].request
          /\ replays'[k].latest = replays[k].latest
          /\ replays'[k].operation = replays[k].operation
          /\ replays'[k].delivery = "not_sent" =>
               replays[k].delivery = "not_sent"
      BY <1>4, <2>2, <3>2
    <3>6. replays[k].operation => Own(k, replays[k].plan)'
      BY <1>2, <3>1, <3>5 DEF RecordSound, Own
    <3> QED BY <2>2, <3>1, <3>3, <3>4, <3>5, <3>6
            DEF RecordGoesOn, RecordSound, Own
  <2> QED BY <2>1, <2>2
<1>11. ClientInv'
  BY <1>1, <1>2, <1>8, <1>9, <1>10, ClientGoesOn
<1>12. \A c \in Controllers :
         attempt'[c] = NoAttempt /\ AttemptSound(c)' /\ ReviewSound(c)'
  BY <1>2, NoAttemptSound
<1>13. RecoveringSound' /\ PlansDistinct'
  BY <1>2, <1>12 DEF RecoveringSound, PlansDistinct, Idle, NoAttempt
<1> QED BY <1>7, <1>11, <1>12, <1>13 DEF CustodyInv, ControllerInv

-----------------------------------------------------------------------------
(* The steps that submit                                                   *)

\* What a submission of plan p under key k adds to the calls and the records rs.
Submitted(rs, caller, k, p) ==
  LET id == Len(calls) + 1 IN
  /\ calls' \in Seq(Call) /\ Len(calls') = id /\ id <= MaxCalls
  /\ DOMAIN calls' = DOMAIN calls \cup {id} /\ id \notin DOMAIN calls
  /\ \A i \in DOMAIN calls : calls'[i] = calls[i]
  /\ calls'[id].caller = caller /\ calls'[id].key = k /\ calls'[id].plan = p
  /\ calls'[id].original = (IF rs[k] = None THEN id ELSE rs[k].request)
  /\ calls'[id].outcome = "pending" /\ ~calls'[id].answered
  /\ replays' \in [Keys -> Replay \cup {None}]
  /\ \A h \in Keys : h # k => replays'[h] = rs[h]
  /\ replays'[k] # None /\ replays'[k].plan = p /\ replays'[k].latest = id
  /\ replays'[k].request = calls'[id].original
  /\ replays'[k].delivery = "pending"
  /\ replays'[k].operation => rs[k] # None /\ rs[k].operation
  /\ rs[k] # None => rs[k].plan = p

\* call() for a commit that it does not refuse.
LEMMA SubmitIs ==
  ASSUME CustodyInv, NEW rs, NEW p \in 1..prepared, Releases(rs, p),
         NEW k \in Keys, NEW caller \in Controllers \cup {"other"},
         Submit(rs, caller, k, p)
  PROVE  Submitted(rs, caller, k, p)
<1> DEFINE id == Len(calls) + 1
           original == IF rs[k] = None THEN id ELSE rs[k].request
           x == [caller |-> caller, key |-> k, plan |-> p,
                 original |-> original, custody |-> "waiting",
                 answered |-> FALSE, outcome |-> "pending"]
           r == IF rs[k] = None
                THEN [plan |-> p, request |-> id, operation |-> FALSE,
                      latest |-> id, delivery |-> "pending"]
                ELSE [rs[k] EXCEPT !.latest = id, !.delivery = "pending"]
<1>1. /\ TypeOK /\ calls \in Seq(Call) /\ Len(calls) \in Nat
      /\ DOMAIN calls = 1..Len(calls) /\ MaxCalls \in Nat
      /\ rs \in [Keys -> Replay \cup {None}]
      /\ p \in Plans
  BY CustodyAssumption, CallsAre DEF CustodyInv, TypeOK, Releases, Plans
<1>2. /\ id <= MaxCalls /\ Records(rs, k, p)
      /\ calls' = Append(calls, x) /\ replays' = [rs EXCEPT ![k] = r]
  BY DEF Submit
<1>3. rs[k] # None => rs[k] \in Replay /\ rs[k].plan = p
  BY <1>1, <1>2 DEF Records
<1>4. id \in CallIds /\ original \in CallIds
  BY <1>1, <1>2, <1>3 DEF CallIds, Replay
<1>5. x \in Call
  BY <1>1, <1>4 DEF Call, Custodies, Deliveries
<1>6. /\ x.caller = caller /\ x.key = k /\ x.plan = p
      /\ x.original = original /\ x.outcome = "pending" /\ ~x.answered
  OBVIOUS
<1>7. /\ r \in Replay /\ r.plan = p /\ r.latest = id /\ r.request = original
      /\ r.delivery = "pending"
      /\ r.operation => rs[k] # None /\ rs[k].operation
  BY <1>1, <1>3, <1>4 DEF Replay, Deliveries
<1> HIDE DEF x, r
<1>8. /\ calls' \in Seq(Call) /\ Len(calls') = id /\ calls'[id] = x
      /\ \A i \in DOMAIN calls : calls'[i] = calls[i]
      /\ DOMAIN calls' = DOMAIN calls \cup {id} /\ id \notin DOMAIN calls
  <2>1. /\ calls' \in Seq(Call) /\ Len(calls') = id /\ calls'[id] = x
        /\ \A i \in 1..Len(calls) : calls'[i] = calls[i]
    BY <1>1, <1>2, <1>5, AppendProperties
  <2>2. DOMAIN calls' = 1..id
    BY <2>1, LenProperties
  <2> QED BY <1>1, <2>1, <2>2
<1>9. /\ replays' \in [Keys -> Replay \cup {None}] /\ replays'[k] = r
      /\ \A h \in Keys : h # k => replays'[h] = rs[h]
      /\ replays'[k] # None
  BY <1>1, <1>2, <1>7, NoneIsNothing
<1> QED BY <1>2, <1>3, <1>6, <1>7, <1>8, <1>9 DEF Submitted

\* The client's side stays sound with a submission.
LEMMA SubmitClient ==
  ASSUME CustodyInv, NEW rs, NEW p \in 1..prepared, Releases(rs, p),
         NEW k \in Keys, NEW caller, Submitted(rs, caller, k, p),
         UNCHANGED <<prepared, operations>>
  PROVE  ClientInv'
<1>0. PICK id : id = Len(calls) + 1
  OBVIOUS
<1>1. /\ CallsSound /\ RepetitionIsExact /\ RecordsSound
      /\ ForgottenIsSettled
      /\ Len(calls) \in Nat /\ DOMAIN calls = 1..Len(calls)
      /\ \A i \in DOMAIN calls : calls[i].key \in Keys
                                 /\ calls[i].original \in DOMAIN calls
      /\ prepared \in Nat
  BY CallsAre, CustodyAssumption
     DEF CustodyInv, ClientInv, TypeOK, Call, CallsSound, CallSound
<1>2. /\ DOMAIN calls' = DOMAIN calls \cup {id} /\ id \notin DOMAIN calls
      /\ \A i \in DOMAIN calls : calls'[i] = calls[i]
      /\ calls'[id].key = k /\ calls'[id].plan = p
      /\ calls'[id].outcome = "pending" /\ ~calls'[id].answered
  BY <1>0 DEF Submitted
<1>3. /\ replays'[k] # None /\ replays'[k].plan = p
      /\ replays'[k].latest = id /\ replays'[k].delivery = "pending"
      /\ replays'[k].request = calls'[id].original
      /\ replays'[k].operation => rs[k] # None /\ rs[k].operation
  BY <1>0 DEF Submitted
<1>4. \A i, q : Own(i, q)' <=> Own(i, q)
  BY DEF Own
<1>5. rs[k] # None =>
        /\ rs[k] = replays[k] /\ RecordSound(k, replays[k])
        /\ replays[k].plan = p /\ calls'[id].original = replays[k].request
  BY <1>0, <1>1 DEF Releases, RecordsSound, Submitted
<1>6. rs[k] = None => calls'[id].original = id
  BY <1>0 DEF Submitted
<1>7. CallsSound'
  <2>1. ASSUME NEW i \in DOMAIN calls PROVE CallSound(i)'
    <3>1. CallSound(i) /\ calls[i].original \in DOMAIN calls
      BY <1>1 DEF CallsSound
    <3> QED BY <1>2, <1>4, <3>1 DEF CallSound, Own
  <2>2. CallSound(id)'
    <3>1. /\ calls'[id].original \in 1..id
          /\ calls'[calls'[id].original].original = calls'[id].original
      <4>1. CASE rs[k] = None
        BY <1>0, <1>1, <1>6, <4>1
      <4>2. CASE rs[k] # None
        BY <1>0, <1>1, <1>2, <1>5, <4>2 DEF RecordSound
      <4> QED BY <4>1, <4>2
    <3> QED BY <1>1, <1>2, <3>1 DEF CallSound, Own
  <2> QED BY <1>2, <2>1, <2>2 DEF CallsSound
<1>8. RepetitionIsExact'
  <2>1. ASSUME NEW i \in DOMAIN calls
        PROVE  /\ calls'[calls'[i].original].key = calls'[i].key
               /\ calls'[calls'[i].original].plan = calls'[i].plan
    BY <1>1, <1>2 DEF RepetitionIsExact
  <2>2. /\ calls'[calls'[id].original].key = calls'[id].key
        /\ calls'[calls'[id].original].plan = calls'[id].plan
    <3>1. CASE rs[k] = None
      BY <1>6, <3>1
    <3>2. CASE rs[k] # None
      BY <1>2, <1>5, <3>2 DEF RecordSound
    <3> QED BY <3>1, <3>2
  <2> QED BY <1>2, <2>1, <2>2 DEF RepetitionIsExact
<1>9. RecordsSound'
  <2>1. RecordSound(k, replays[k])'
    <3>1. /\ replays'[k].request \in DOMAIN calls'
          /\ replays'[k].latest \in DOMAIN calls'
      BY <1>0, <1>1, <1>2, <1>3, <1>5, <1>6 DEF RecordSound
    <3>2. /\ calls'[replays'[k].request].key = k
          /\ calls'[replays'[k].request].plan = replays'[k].plan
          /\ calls'[replays'[k].request].original = replays'[k].request
      <4>1. CASE rs[k] = None
        BY <1>2, <1>3, <1>6, <4>1
      <4>2. CASE rs[k] # None
        BY <1>2, <1>3, <1>5, <4>2 DEF RecordSound
      <4> QED BY <4>1, <4>2
    <3>3. \A i \in DOMAIN calls' : i <= replays'[k].latest
      BY <1>0, <1>1, <1>2, <1>3
    <3>4. replays'[k].operation => Own(k, p)'
      BY <1>3, <1>4, <1>5 DEF RecordSound, Own
    <3> QED BY <1>3, <3>1, <3>2, <3>3, <3>4 DEF RecordSound, Own
  <2>2. ASSUME NEW h \in Keys, h # k, replays'[h] # None
        PROVE  RecordSound(h, replays[h])'
    <3>1. replays'[h] = replays[h] /\ RecordSound(h, replays[h])
      BY <1>1, <2>2 DEF Submitted, Releases, RecordsSound
    <3>2. calls'[id].original # replays[h].request
      <4>1. replays[h].request \in DOMAIN calls
            /\ calls[replays[h].request].key = h
        BY <3>1 DEF RecordSound
      <4> QED BY <1>2, <1>5, <1>6, <2>2, <4>1 DEF RecordSound
    <3>3. \A i \in DOMAIN calls' :
            calls'[i].original = replays[h].request => i <= replays[h].latest
      BY <1>2, <3>1, <3>2 DEF RecordSound
    <3>4. replays[h].operation => Own(h, replays[h].plan)'
      BY <1>4, <3>1 DEF RecordSound
    <3> QED BY <1>2, <3>1, <3>3, <3>4 DEF RecordSound, Own
  <2> QED BY <2>1, <2>2 DEF RecordsSound
<1>10. ForgottenIsSettled'
  <2>1. ASSUME NEW i \in DOMAIN calls, NEW h \in Keys, h = calls[i].key
        PROVE  \/ replays'[h] # None /\ replays'[h].request = calls[i].original
               \/ calls[i].custody = "dead"
               \/ /\ operations[h] # None
                  /\ operations[h] =
                       [plan |-> calls[i].plan, status |-> "completed"]
    <3>1. CASE replays[h] # None /\ replays[h].request = calls[i].original
      <4>1. CASE rs[h] = None /\ SettledRecord(h)
        BY <2>1, <3>1, <4>1 DEF SettledRecord
      <4>2. CASE rs[h] = replays[h]
        <5>1. CASE h = k
          BY <1>3, <1>5, <3>1, <4>2, <5>1
        <5>2. CASE h # k
          BY <3>1, <4>2, <5>2 DEF Submitted
        <5> QED BY <5>1, <5>2
      <4> QED BY <4>1, <4>2 DEF Releases
    <3> QED BY <1>1, <2>1, <3>1 DEF ForgottenIsSettled
  <2>2. replays'[calls'[id].key] # None
        /\ replays'[calls'[id].key].request = calls'[id].original
    BY <1>2, <1>3
  <2>3. ASSUME NEW i \in DOMAIN calls'
        PROVE  LET h == calls'[i].key
               IN \/ replays'[h] # None /\ replays'[h].request = calls'[i].original
                  \/ calls'[i].custody = "dead"
                  \/ /\ operations'[h] # None
                     /\ operations'[h] =
                          [plan |-> calls'[i].plan, status |-> "completed"]
    BY <1>1, <1>2, <2>1, <2>2
  <2> QED BY <2>3 DEF ForgottenIsSettled
<1> QED BY <1>7, <1>8, <1>9, <1>10 DEF ClientInv

\* A submission that gives up nothing leaves every attempt that did not make it,
\* or that only repeats what is retained, as sound as it was.
LEMMA SubmitOthersKeep ==
  ASSUME CustodyInv, NEW p \in 1..prepared, NEW k \in Keys, NEW caller,
         Submitted(replays, caller, k, p),
         UNCHANGED <<prepared, recovering, operations>>
  PROVE  /\ RecoveringSound'
         /\ \A d \in Controllers : attempt'[d] = attempt[d] =>
              /\ AttemptSound(d)'
              /\ caller # d \/ replays[k] # None => ReviewSound(d)'
<1> DEFINE id == Len(calls) + 1
<1>1. /\ CallsSound /\ RepetitionIsExact /\ RecordsSound /\ RecoveringSound
      /\ \A d \in Controllers : AttemptSound(d) /\ ReviewSound(d)
      /\ \A i \in DOMAIN calls : calls[i].key \in Keys
                                 /\ calls[i].original \in DOMAIN calls
  BY CallsAre
     DEF CustodyInv, ClientInv, ControllerInv, Call, CallsSound, CallSound
<1>2. /\ DOMAIN calls' = DOMAIN calls \cup {id} /\ id \notin DOMAIN calls
      /\ \A i \in DOMAIN calls : calls'[i] = calls[i]
      /\ calls'[id].caller = caller /\ calls'[id].key = k
      /\ calls'[id].plan = p
      /\ calls'[id].original
           = (IF replays[k] = None THEN id ELSE replays[k].request)
      /\ \A h \in Keys : h # k => replays'[h] = replays[h]
      /\ replays'[k] # None /\ replays'[k].plan = p
      /\ replays'[k].request = calls'[id].original
      /\ replays[k] # None => replays[k].plan = p
  BY DEF Submitted
<1>3. \A h \in Keys : \A q : Retained(h, q) => Retained(h, q)'
  BY <1>2 DEF Retained
<1>4. \A h, q : Own(h, q) => Own(h, q)'
  BY DEF Own
<1>5. RecoveringSound'
  BY <1>1, <1>3, <1>4 DEF RecoveringSound, Retained, Own
<1>6. ASSUME NEW d \in Controllers, attempt'[d] = attempt[d]
      PROVE  AttemptSound(d)'
  <2> DEFINE a == attempt[d]
  <2>1. a.state \in {"admitting", "uncertain", "observing"} =>
          a.key \in Keys /\ Retained(a.key, a.plan)'
    BY <1>1, <1>3, <1>6 DEF AttemptSound, Retained
  <2>2. a.state = "admitting" =>
          /\ a.call \in DOMAIN calls'
          /\ calls'[a.call].key = a.key /\ calls'[a.call].plan = a.plan
    BY <1>1, <1>2 DEF AttemptSound
  <2>3. a.operation =>
          /\ a.state \in {"admitting", "uncertain", "observing"}
          /\ a.state = "admitting" => a.replay
          /\ Own(a.key, a.plan)'
    BY <1>1, <1>4, <1>6 DEF AttemptSound, Own
  <2>4. /\ a.state # "idle" => a.plan \in 1..prepared
        /\ a.capture # 0 => a.key \in Keys
    BY <1>1 DEF AttemptSound
  <2> QED BY <1>6, <2>1, <2>2, <2>3, <2>4 DEF AttemptSound, Retained, Own
<1>7. ASSUME NEW d \in Controllers, attempt'[d] = attempt[d],
             caller # d \/ replays[k] # None
      PROVE  ReviewSound(d)'
  <2> DEFINE a == attempt[d]
  <2> SUFFICES ASSUME MayReview(a)
               PROVE
                 /\ \A h \in Keys :
                      /\ replays'[h] # None /\ replays'[h].plan = a.plan
                      /\ calls'[replays'[h].request].caller = d
                      => OwnRecord(a, h, replays'[h].request)
                 /\ \A i \in DOMAIN calls' :
                      /\ calls'[i].plan = a.plan
                      /\ calls'[calls'[i].original].caller = d
                      => \/ calls'[i].custody = "dead"
                         \/ /\ replays'[calls'[i].key] # None
                            /\ replays'[calls'[i].key].request
                                 = calls'[i].original
    BY <1>7 DEF ReviewSound, MayReview, OwnRecord, Retained
  <2>1. ReviewSound(d)
    BY <1>1
  <2>2. ASSUME NEW h \in Keys, replays'[h] # None,
               replays'[h].plan = a.plan,
               calls'[replays'[h].request].caller = d
        PROVE  OwnRecord(a, h, replays'[h].request)
    <3>1. replays[h] # None
      BY <1>2, <1>7, <2>2
    <3>2. /\ replays'[h].request = replays[h].request
          /\ Retained(h, a.plan)
      BY <1>2, <2>2, <3>1 DEF Retained
    <3>3. calls[replays[h].request].caller = d
      BY <1>1, <1>2, <2>2, <3>1, <3>2 DEF RecordsSound, RecordSound
    <3> QED BY <2>1, <3>2, <3>3 DEF ReviewSound
  <2>3. ASSUME NEW i \in DOMAIN calls, calls[i].plan = a.plan,
               calls[calls[i].original].caller = d
        PROVE  \/ calls[i].custody = "dead"
               \/ /\ replays'[calls[i].key] # None
                  /\ replays'[calls[i].key].request = calls[i].original
    <3>1. CASE /\ replays[calls[i].key] # None
               /\ replays[calls[i].key].request = calls[i].original
      BY <1>1, <1>2, <3>1
    <3> QED BY <2>1, <2>3, <3>1 DEF ReviewSound
  <2>4. \A i \in DOMAIN calls :
          calls'[i] = calls[i]
          /\ calls'[calls[i].original] = calls[calls[i].original]
    BY <1>1, <1>2
  <2> QED BY <1>2, <2>2, <2>3, <2>4
<1> QED BY <1>5, <1>6, <1>7

\* Another caller submits, or repeats what it knows of.
LEMMA OtherSubmitsKeeps ==
  ASSUME CustodyInv, OtherSubmits
  PROVE  CustodyInv'
<1>1. PICK k \in Keys, p \in 1..prepared : Submit(replays, "other", k, p)
  BY DEF OtherSubmits
<1>2. UNCHANGED <<prepared, attempt, recovering, operations>>
  BY DEF OtherSubmits
<1>3. Releases(replays, p)
  BY DEF Releases, CustodyInv, TypeOK
<1>4. Submitted(replays, "other", k, p)
  BY <1>1, <1>3, SubmitIs
<1>5. TypeOK'
  BY <1>2, <1>4 DEF CustodyInv, TypeOK, Submitted
<1>6. ClientInv'
  BY <1>2, <1>3, <1>4, SubmitClient
<1>7. /\ RecoveringSound'
      /\ \A d \in Controllers : AttemptSound(d)' /\ ReviewSound(d)'
  BY <1>2, <1>4, SubmitOthersKeep DEF Controllers
<1>8. PlansDistinct'
  BY <1>2 DEF CustodyInv, ControllerInv, PlansDistinct, Idle
<1> QED BY <1>5, <1>6, <1>7, <1>8 DEF CustodyInv, ControllerInv

\* replay, replaySave: a repetition never returns to the review.
LEMMA RepeatKeeps ==
  ASSUME CustodyInv, NEW c \in Controllers, Repeat(c)
  PROVE  CustodyInv'
<1> DEFINE a == attempt[c]
           k == a.key
           p == a.plan
           b == [a EXCEPT !.state = "admitting", !.call = Len(calls'),
                          !.replay = TRUE]
<1>1. /\ TypeOK /\ AttemptSound(c) /\ PlansDistinct
      /\ a.state = "uncertain" /\ a \in Attempt
      /\ attempt \in [Controllers -> Attempt]
      /\ replays[k] # None /\ Submit(replays, c, k, p)
      /\ attempt' = [attempt EXCEPT ![c] = b]
      /\ UNCHANGED <<prepared, recovering, operations>>
  BY DEF CustodyInv, ControllerInv, TypeOK, Repeat
<1>2. k \in Keys /\ p \in 1..prepared
  BY <1>1 DEF AttemptSound
<1>3. Releases(replays, p)
  BY DEF Releases, CustodyInv, TypeOK
<1>4. Submitted(replays, c, k, p)
  BY <1>1, <1>2, <1>3, SubmitIs
<1>5. Len(calls') \in CallIds /\ Len(calls') \in DOMAIN calls'
      /\ calls'[Len(calls')].key = k /\ calls'[Len(calls')].plan = p
  BY <1>1, <1>4, CallsAre DEF Submitted, CallIds
<1>6. /\ b \in Attempt /\ b.state = "admitting" /\ b.plan = p /\ b.key = k
      /\ b.call = Len(calls') /\ b.replay /\ b.operation = a.operation
      /\ b.capture = a.capture
  BY <1>1, <1>5 DEF Attempt
<1> HIDE DEF b
<1>7. /\ attempt' \in [Controllers -> Attempt] /\ attempt'[c] = b
      /\ \A d \in Controllers : d # c => attempt'[d] = attempt[d]
  BY <1>1, <1>6
<1>8. TypeOK'
  BY <1>1, <1>4, <1>7 DEF TypeOK, Submitted
<1>9. ClientInv'
  BY <1>1, <1>2, <1>3, <1>4, SubmitClient
<1>10. /\ RecoveringSound'
       /\ \A d \in Controllers : d # c => AttemptSound(d)' /\ ReviewSound(d)'
  BY <1>1, <1>2, <1>4, <1>7, SubmitOthersKeep
<1>11. AttemptSound(c)'
  <2>1. replays'[k] # None /\ replays'[k].plan = p
    BY <1>4 DEF Submitted
  <2>2. b.operation => operations'[k] # None /\ operations'[k].plan = p
    BY <1>1, <1>6 DEF AttemptSound, Own
  <2> QED BY <1>1, <1>2, <1>5, <1>6, <1>7, <2>1, <2>2
          DEF AttemptSound, Retained, Own
<1>12. ReviewSound(c)'
  BY <1>6, <1>7 DEF ReviewSound, MayReview
<1>13. PlansDistinct'
  BY <1>1, <1>6, <1>7 DEF PlansDistinct, Idle
<1> QED BY <1>8, <1>9, <1>10, <1>11, <1>12, <1>13 DEF CustodyInv, ControllerInv

\* confirm: a call that is refused before it is recorded, and one that is made.
LEMMA ConfirmKeeps ==
  ASSUME CustodyInv, NEW c \in Controllers, Confirm(c)
  PROVE  CustodyInv'
<1> DEFINE a == attempt[c]
           p == a.plan
           rs == ReleaseUnsent(a)
           id == Len(calls) + 1
           Same(k) == rs[k] # None /\ rs[k].plan = p
           Sub(k) == [a EXCEPT !.key = k, !.owns = rs[k] = None,
                        !.capture = 0, !.unsent = FALSE, !.prior = Same(k)]
           Refused(k) == [Sub(k) EXCEPT
                            !.state = IF Same(k) THEN "uncertain" ELSE "review",
                            !.unsent = ~Same(k)]
           Made(k) == [Sub(k) EXCEPT !.state = "admitting", !.call = Len(calls'),
                         !.capture = IF rs[k] = None THEN Len(calls') ELSE 0,
                         !.replay = FALSE]
<1>1. PICK k \in Keys :
        \/ /\ attempt' = [attempt EXCEPT ![c] = Refused(k)]
           /\ replays' = rs /\ calls' = calls
        \/ /\ Submit(rs, c, k, p)
           /\ attempt' = [attempt EXCEPT ![c] = Made(k)]
  BY DEF Confirm
<1>2. /\ TypeOK /\ CallsSound /\ AttemptSound(c) /\ PlansDistinct
      /\ a.state = "review" /\ a \in Attempt /\ ~Idle(c) /\ ~Unproved(a)
      /\ attempt \in [Controllers -> Attempt]
      /\ UNCHANGED <<prepared, recovering, operations>>
      /\ prepared \in Nat
  BY CustodyAssumption
     DEF CustodyInv, ClientInv, ControllerInv, TypeOK, Confirm, Idle
<1>3. p \in 1..prepared /\ ~a.operation
  BY <1>2 DEF AttemptSound
<1>4. Releases(rs, p) /\ NothingSent(c, rs, p)
  BY <1>2, ReviewIsSettled
<1>5. CASE /\ attempt' = [attempt EXCEPT ![c] = Refused(k)]
           /\ replays' = rs /\ calls' = calls
  <2> DEFINE b == Refused(k)
  <2>1. /\ b \in Attempt /\ b.plan = p /\ b.key = k /\ b.capture = 0
        /\ b.operation = a.operation
        /\ IF Same(k) THEN b.state = "uncertain" ELSE b.state = "review"
    BY <1>2 DEF Attempt
  <2>2. attempt'[c] = b
    BY <1>2, <1>5
  <2>3. b.state = "uncertain" => Retained(k, p)'
    BY <1>5, <2>1 DEF Retained
  <2> HIDE DEF b, rs
  <2>4. AttemptSound(c)'
    BY <1>2, <1>3, <2>1, <2>2, <2>3 DEF AttemptSound, Retained
  <2>5. ReviewSound(c)'
    BY <1>4, <1>5, <2>1, <2>2, NothingSentIsSound
  <2> QED BY <1>2, <1>4, <1>5, <2>1, <2>4, <2>5, AttemptChanges DEF b
<1>6. CASE /\ Submit(rs, c, k, p)
           /\ attempt' = [attempt EXCEPT ![c] = Made(k)]
  <2> DEFINE b == Made(k)
  <2>1. Submitted(rs, c, k, p)
    <3> HIDE DEF rs
    <3> QED BY <1>3, <1>4, <1>6, SubmitIs
  <2>2. /\ Len(calls') = id /\ id \in CallIds /\ id \in DOMAIN calls'
        /\ calls'[id].key = k /\ calls'[id].plan = p /\ calls'[id].caller = c
        /\ replays'[k] # None /\ replays'[k].plan = p
    <3> HIDE DEF rs
    <3> QED BY <1>2, <2>1, CallsAre DEF Submitted, CallIds
  <2>3. /\ b \in Attempt /\ b.plan = p /\ b.key = k /\ b.state = "admitting"
        /\ b.operation = a.operation /\ b.call = id
        /\ b.prior = Same(k)
        /\ b.owns = (rs[k] = None)
        /\ b.capture = (IF rs[k] = None THEN id ELSE 0)
    <3> DEFINE o == rs[k] = None
               s == Same(k)
               cap == IF rs[k] = None THEN id ELSE 0
               x == [a EXCEPT !.key = k, !.owns = o, !.capture = 0,
                              !.unsent = FALSE, !.prior = s]
    <3>1. b = [x EXCEPT !.state = "admitting", !.call = id, !.capture = cap,
                        !.replay = FALSE]
      BY <2>2
    <3>2. o \in BOOLEAN /\ s \in BOOLEAN /\ cap \in CallIds \cup {0}
      BY <2>2
    <3> HIDE DEF o, s, cap, b
    <3>3. /\ x \in Attempt /\ x.plan = p /\ x.key = k
          /\ x.operation = a.operation /\ x.prior = s /\ x.owns = o
      BY <1>2, <3>2 DEF Attempt
    <3> HIDE DEF x
    <3>4. /\ b \in Attempt /\ b.plan = p /\ b.key = k /\ b.state = "admitting"
          /\ b.operation = a.operation /\ b.call = id
          /\ b.prior = s /\ b.owns = o /\ b.capture = cap
      BY <2>2, <3>1, <3>2, <3>3 DEF Attempt
    <3> QED BY <3>4 DEF o, s, cap
  <2>4. attempt' = [attempt EXCEPT ![c] = b]
    BY <1>6
  <2>5. MayReview(b) => rs[k] = None
    BY <2>1, <2>3 DEF MayReview, Submitted
  <2> HIDE DEF b, rs, Sub, Refused, Made, Same
  <2>6. /\ attempt' \in [Controllers -> Attempt] /\ attempt'[c] = b
        /\ \A d \in Controllers : d # c => attempt'[d] = attempt[d]
    BY <1>2, <2>3, <2>4
  <2>7. TypeOK'
    BY <1>2, <2>1, <2>6 DEF TypeOK, Submitted
  <2>8. ClientInv'
    BY <1>2, <1>3, <1>4, <2>1, SubmitClient
  <2>9. OperationsStay
    BY <1>2 DEF OperationsStay
  <2>10. /\ \A d \in Controllers : d # c => AttemptSound(d)' /\ ReviewSound(d)'
         /\ RecoveringSound'
    <3>1. /\ \A d \in Controllers : d # c /\ ~Idle(d) => attempt[d].plan # p
          /\ \A r \in recovering' : r.plan # p
          /\ recovering' \subseteq recovering
          /\ prepared' \in Nat /\ prepared <= prepared'
      BY <1>2 DEF PlansDistinct
    <3>2. /\ DOMAIN calls \subseteq DOMAIN calls'
          /\ \A i \in DOMAIN calls : SameCall(i)
          /\ \A i \in DOMAIN calls' \ DOMAIN calls : calls'[i].plan = p
      BY <2>1 DEF Submitted, SameCall
    <3>3. \A h \in Keys : replays[h] # None /\ replays[h].plan # p =>
            /\ replays'[h] # None /\ replays'[h].plan = replays[h].plan
            /\ replays'[h].request = replays[h].request
      BY <1>4, <2>1 DEF Releases, Submitted, Retained
    <3>4. \A h \in Keys : replays'[h] # None /\ replays'[h].plan # p =>
            replays[h] # None /\ replays[h].plan # p
      BY <1>4, <2>1 DEF Releases, Submitted
    <3>5. /\ \A d \in Controllers : d # c => attempt'[d] = attempt[d]
          /\ prepared \in Nat
      BY <1>2, <2>6
    <3> HIDE DEF p
    <3> QED BY <2>9, <3>1, <3>2, <3>3, <3>4, <3>5, OthersKeep
  <2>11. AttemptSound(c)'
    BY <1>2, <1>3, <2>2, <2>3, <2>6 DEF AttemptSound, Retained
  <2>12. ReviewSound(c)'
    <3> SUFFICES ASSUME MayReview(b)
                 PROVE
                   /\ \A h \in Keys :
                        /\ replays'[h] # None /\ replays'[h].plan = p
                        /\ calls'[replays'[h].request].caller = c
                        => OwnRecord(b, h, replays'[h].request)
                   /\ \A i \in DOMAIN calls' :
                        /\ calls'[i].plan = p
                        /\ calls'[calls'[i].original].caller = c
                        => \/ calls'[i].custody = "dead"
                           \/ /\ replays'[calls'[i].key] # None
                              /\ replays'[calls'[i].key].request
                                   = calls'[i].original
      BY <2>3, <2>6 DEF ReviewSound, MayReview, OwnRecord, Retained
    <3>1. rs[k] = None /\ replays'[k].request = id
      BY <2>1, <2>5 DEF Submitted
    <3>2. ASSUME NEW h \in Keys, replays'[h] # None, replays'[h].plan = p,
                 calls'[replays'[h].request].caller = c
          PROVE  OwnRecord(b, h, replays'[h].request)
      <4>1. CASE h = k
        BY <2>3, <3>1, <4>1 DEF OwnRecord
      <4>2. CASE h # k
        <5>1. rs[h] = replays'[h] /\ rs[h] = replays[h]
          BY <1>4, <2>1, <3>2, <4>2 DEF Submitted, Releases
        <5>2. replays[h].request \in DOMAIN calls
          BY <3>2, <5>1
             DEF CustodyInv, ClientInv, RecordsSound, RecordSound
        <5>3. calls[rs[h].request].caller = c
          BY <2>1, <3>2, <5>1, <5>2 DEF Submitted
        <5> QED BY <1>4, <3>2, <5>1, <5>3 DEF NothingSent
      <4> QED BY <4>1, <4>2
    <3>3. ASSUME NEW i \in DOMAIN calls, calls[i].plan = p,
                 calls'[calls[i].original].caller = c
          PROVE  calls[i].custody = "dead"
      <4>1. calls[i].original \in DOMAIN calls
        BY <1>2, CallsAre DEF CallsSound, CallSound
      <4>2. calls[calls[i].original].caller = c
        BY <2>1, <3>3, <4>1 DEF Submitted
      <4> QED BY <1>4, <3>3, <4>2 DEF NothingSent
    <3>4. /\ DOMAIN calls' = DOMAIN calls \cup {id}
          /\ \A i \in DOMAIN calls : calls'[i] = calls[i]
          /\ calls'[id].key = k /\ replays'[k] # None
          /\ replays'[k].request = calls'[id].original
      BY <2>1 DEF Submitted
    <3> QED BY <3>2, <3>3, <3>4
  <2>13. PlansDistinct'
    BY <1>2, <2>3, <2>6 DEF PlansDistinct, Idle
  <2> QED BY <2>7, <2>8, <2>10, <2>11, <2>12, <2>13
          DEF CustodyInv, ControllerInv
<1> QED BY <1>1, <1>5, <1>6

-----------------------------------------------------------------------------
(* The theorems                                                            *)

\* Nothing has been prepared or submitted at first.
LEMMA InitCustody == Init => CustodyInv
<1> SUFFICES ASSUME Init PROVE CustodyInv
  OBVIOUS
<1>1. DOMAIN calls = {} /\ Len(calls) = 0 /\ calls \in Seq(Call)
  BY DEF Init
<1>2. attempt \in [Controllers -> Attempt]
      /\ \A c \in Controllers : attempt[c] = NoAttempt
  BY NoAttemptSound DEF Init
<1>3. TypeOK
  BY <1>1, <1>2, CustodyAssumption DEF Init, TypeOK
<1>4. ClientInv
  BY <1>1 DEF Init, ClientInv, CallsSound, RepetitionIsExact, RecordsSound,
              ForgottenIsSettled
<1>5. \A c \in Controllers : AttemptSound(c) /\ ReviewSound(c)
  BY <1>2 DEF NoAttempt, AttemptSound, ReviewSound, MayReview
<1>6. RecoveringSound /\ PlansDistinct
  BY <1>2 DEF Init, RecoveringSound, PlansDistinct, Idle, NoAttempt
<1> QED BY <1>3, <1>4, <1>5, <1>6 DEF CustodyInv, ControllerInv

\* A step that changes nothing.
LEMMA StutterKeeps == CustodyInv /\ UNCHANGED vars => CustodyInv'
<1> SUFFICES ASSUME CustodyInv, UNCHANGED vars PROVE CustodyInv'
  OBVIOUS
<1>1. UNCHANGED <<prepared, calls, replays, attempt, recovering, operations>>
  BY DEF vars
<1>2. TypeOK' /\ ClientInv'
  <2>1. TypeOK' /\ CallsSound' /\ RepetitionIsExact'
    BY <1>1 DEF CustodyInv, TypeOK, ClientInv, CallsSound, CallSound, Own,
                RepetitionIsExact
  <2>2. RecordsSound' /\ ForgottenIsSettled'
    BY <1>1 DEF CustodyInv, ClientInv, RecordsSound, RecordSound, Own,
                ForgottenIsSettled
  <2> QED BY <2>1, <2>2 DEF ClientInv
<1>3. ASSUME NEW c \in Controllers PROVE AttemptSound(c)' /\ ReviewSound(c)'
  BY <1>1 DEF CustodyInv, ControllerInv, AttemptSound, ReviewSound, Retained, Own
<1>4. RecoveringSound' /\ PlansDistinct'
  BY <1>1 DEF CustodyInv, ControllerInv, RecoveringSound, PlansDistinct, Idle,
              Retained, Own
<1> QED BY <1>2, <1>3, <1>4 DEF CustodyInv, ControllerInv

\* Every step keeps the invariant.
LEMMA StepKeeps == CustodyInv /\ [Next]_vars => CustodyInv'
<1> SUFFICES ASSUME CustodyInv, [Next]_vars PROVE CustodyInv'
  OBVIOUS
<1>1. CASE ClientStep
  <2>1. ASSUME NEW i \in DOMAIN calls,
               \/ TransportRefuses(i) \/ Invoke(i) \/ NativeRefuses(i)
               \/ Abandon(i) \/ ReplyArrives(i)
        PROVE  CustodyInv'
    BY <2>1, TransportKeeps
  <2> QED BY <1>1, <2>1, OtherSubmitsKeeps DEF ClientStep
<1>2. CASE HostStep
  BY <1>2, ExecuteKeeps, ProgressKeeps DEF HostStep
<1>3. CASE ControllerStep
  <2>1. ASSUME NEW c \in Controllers,
               \/ Prepare(c) \/ FindUnproved(c) \/ Stay(c) \/ ConfirmOutdated(c)
               \/ Confirm(c) \/ Repeat(c) \/ AcceptCommit(c)
               \/ ObserveCompleted(c)
        PROVE  CustodyInv'
    <3>1. CASE Prepare(c) \/ FindUnproved(c) \/ Stay(c) \/ ConfirmOutdated(c)
      BY <3>1, PrepareKeeps, FindAndStayKeep, ConfirmOutdatedKeeps
    <3>2. CASE Confirm(c) \/ Repeat(c)
      BY <3>2, ConfirmKeeps, RepeatKeeps
    <3>3. CASE AcceptCommit(c) \/ ObserveCompleted(c)
      BY <3>3, AcceptCommitKeeps, ObserveCompletedKeeps
    <3> QED BY <2>1, <3>1, <3>2, <3>3
  <2> QED BY <1>3, <2>1, ObserveRecoveryKeeps, ObserveRecoveredKeeps,
             DisposeKeeps DEF ControllerStep
<1>4. CASE UNCHANGED vars
  BY <1>4, StutterKeeps
<1> QED BY <1>1, <1>2, <1>3, <1>4 DEF Next

\* What the calls, the records and the attempts know of each other is always
\* consistent (client.ts, bridge-facade.ts and action-review.ts together).
THEOREM CustodyInvariant == Spec => []CustodyInv
<1>1. Init => CustodyInv
  BY InitCustody
<1>2. CustodyInv /\ [Next]_vars => CustodyInv'
  BY StepKeeps
<1> QED BY <1>1, <1>2, PTL DEF Spec

\* Every variable keeps its type.
THEOREM CustodyTypeCorrect == Spec => []TypeOK
<1>1. CustodyInv => TypeOK
  BY DEF CustodyInv
<1> QED BY <1>1, CustodyInvariant, PTL

\* Whatever the client forgets can never be executed any more, or has completed
\* (forgetReplay, forgetUnsentReplay of client.ts).
THEOREM ForgottenAreSettled == Spec => []ForgottenIsSettled
<1>1. CustodyInv => ForgottenIsSettled
  BY DEF CustodyInv, ClientInv
<1> QED BY <1>1, CustodyInvariant, PTL

\* A repetition asks for exactly what its original asked for (replay_conflict of
\* call in client.ts).
THEOREM RepetitionsAreExact == Spec => []RepetitionIsExact
<1>1. CustodyInv => RepetitionIsExact
  BY DEF CustodyInv, ClientInv
<1> QED BY <1>1, CustodyInvariant, PTL

\* The operation a record names is that of what it retains (the reply handler of
\* call in client.ts).
THEOREM RecordedOperationsAreOwn == Spec => []RecordedOperationIsOwn
<1>1. CustodyInv => RecordedOperationIsOwn
  BY DEF CustodyInv, ClientInv, RecordsSound, RecordSound, Own,
         RecordedOperationIsOwn
<1> QED BY <1>1, CustodyInvariant, PTL

\* An uncertain attempt, and an action that waits for its recovery, can always
\* be asked for again (acceptCommit, confirm and stay of both controllers).
THEOREM UncertainAreRetained == Spec => []UncertainIsRetained
<1>1. CustodyInv => UncertainIsRetained
  <2> SUFFICES ASSUME CustodyInv,
                      NEW a \in {attempt[c] : c \in Controllers} \cup recovering,
                      a.state = "uncertain" \/ a \in recovering
               PROVE  Retained(a.key, a.plan)
    BY DEF UncertainIsRetained, Retained
  <2>1. CASE a \in recovering
    BY <2>1 DEF CustodyInv, ControllerInv, RecoveringSound
  <2>2. ASSUME NEW c \in Controllers, a = attempt[c], a.state = "uncertain"
        PROVE  Retained(a.key, a.plan)
    BY <2>2 DEF CustodyInv, ControllerInv, AttemptSound
  <2> QED BY <2>1, <2>2
<1> QED BY <1>1, CustodyInvariant, PTL

\* "Not submitted" is true: when a review is closed or submitted afresh, nothing
\* its controller submitted of the plan has been or will be executed (stay and
\* confirm of both controllers, forgetUnsentReplay of client.ts).
THEOREM GivenUpWereNeverSent == Spec => GivenUpWasNeverSent
<1> DEFINE Told ==
      \A c \in Controllers :
        (Stay(c) \/ Confirm(c) \/ ConfirmOutdated(c)) =>
          \A i \in DOMAIN calls :
            (calls[i].plan = attempt[c].plan
               /\ calls[calls[i].original].caller = c)
              => calls[i].custody = "dead"
<1>1. CustodyInv /\ [Next]_vars => [Told]_vars
  <2> SUFFICES ASSUME CustodyInv, NEW c \in Controllers,
                      Stay(c) \/ Confirm(c) \/ ConfirmOutdated(c),
                      NEW i \in DOMAIN calls, calls[i].plan = attempt[c].plan,
                      calls[calls[i].original].caller = c
               PROVE  calls[i].custody = "dead"
    OBVIOUS
  <2>1. attempt[c].state = "review" /\ ~Unproved(attempt[c])
    BY DEF Stay, Confirm, ConfirmOutdated
  <2>2. NothingSent(c, ReleaseUnsent(attempt[c]), attempt[c].plan)
    BY <2>1, ReviewIsSettled
  <2> QED BY <2>2 DEF NothingSent
<1>2. Spec => [][Told]_vars
  BY <1>1, CustodyInvariant, PTL DEF Spec
<1> QED BY <1>2 DEF GivenUpWasNeverSent

=============================================================================
