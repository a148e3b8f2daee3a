----------------------- MODULE OperationStreamProofs ------------------------
(***************************************************************************)
(* Theorems about OperationStream, for any operations, any bounds of the   *)
(* buffer and of the channel and any number of hosts: a client that trusts *)
(* what it shows has missed nothing, what it shows is current or will be   *)
(* told, and what it shows never goes back.                                *)
(***************************************************************************)
EXTENDS OperationStream, FiniteSetTheorems, SequenceTheorems,
        WellFoundedInduction, TLAPS

-----------------------------------------------------------------------------
(* Recursion over the natural numbers                                      *)

\* Every set of natural numbers that is not empty has a least element.
LEMMA LeastNumber ==
  ASSUME NEW T \in SUBSET Nat, T # {}
  PROVE  \E n \in T : \A m \in T : n <= m
<1> DEFINE R == OpToRel(<, Nat)
<1>1. IsWellFoundedOn(R, Nat)
  BY NatLessThanWellFounded
<1>2. \A m \in Nat, n \in Nat : m < n => <<m, n>> \in R
  BY DEF OpToRel
<1> HIDE DEF R
<1>3. PICK n \in T : \A m \in T : ~ (<<m, n>> \in R)
  BY <1>1, WFMin
<1>4. \A m \in T : ~(m < n)
  BY <1>2, <1>3
<1> QED BY <1>3, <1>4

\* Induction, for a set instead of a predicate.
LEMMA Induction ==
  ASSUME NEW S \in SUBSET Nat, 0 \in S, \A n \in S : n + 1 \in S
  PROVE  S = Nat
<1> SUFFICES ASSUME S # Nat PROVE FALSE
  OBVIOUS
<1>1. PICK n \in Nat \ S : \A m \in Nat \ S : n <= m
  BY LeastNumber
<1>2. n # 0 /\ n - 1 \in Nat /\ n - 1 \in S
  BY <1>1
<1> QED BY <1>1, <1>2

\* The function f has the first value b and goes on by F.
GoesOn(f, n, b, F) == f[0] = b /\ \A i \in 1..n : f[i] = F[<<i, f[i - 1]>>]

\* A first value and a step for each number up to n define a function.
LEMMA Recursion ==
  ASSUME NEW n \in Nat, NEW S, NEW b \in S, NEW F \in [(1..n) \X S -> S]
  PROVE  \E f \in [0..n -> S] : GoesOn(f, n, b, F)
<1> DEFINE Upto(k) == \E f \in [0..k -> S] :
             f[0] = b /\ \A i \in 1..k : f[i] = F[<<i, f[i - 1]>>]
           Good == {k \in Nat : k <= n => Upto(k)}
<1>1. 0 \in Good
  <2> DEFINE f == [i \in 0..0 |-> b]
  <2>1. f \in [0..0 -> S] /\ f[0] = b
    OBVIOUS
  <2>2. \A i \in 1..0 : f[i] = F[<<i, f[i - 1]>>]
    OBVIOUS
  <2>3. Upto(0)
    <3> HIDE DEF f
    <3> QED BY <2>1, <2>2
  <2> QED BY <2>3
<1>2. ASSUME NEW k \in Good PROVE k + 1 \in Good
  <2> SUFFICES ASSUME k + 1 <= n PROVE Upto(k + 1)
    OBVIOUS
  <2>1. k \in Nat /\ Upto(k)
    OBVIOUS
  <2>2. PICK f \in [0..k -> S] :
          f[0] = b /\ \A i \in 1..k : f[i] = F[<<i, f[i - 1]>>]
    BY <2>1
  <2> DEFINE g == [i \in 0..(k + 1) |->
                     IF i = k + 1 THEN F[<<k + 1, f[k]>>] ELSE f[i]]
  <2>3. F[<<k + 1, f[k]>>] \in S
    <3>1. f[k] \in S
      BY <2>1, <2>2
    <3>2. <<k + 1, f[k]>> \in (1..n) \X S
      BY <2>1, <3>1
    <3> QED BY <3>2
  <2>4. g \in [0..(k + 1) -> S]
    BY <2>1, <2>2, <2>3
  <2>5. g[0] = b /\ \A i \in 1..(k + 1) : g[i] = F[<<i, g[i - 1]>>]
    <3>1. g[0] = f[0]
      BY <2>1
    <3>2. ASSUME NEW i \in 1..(k + 1) PROVE g[i] = F[<<i, g[i - 1]>>]
      <4>1. g[i - 1] = f[i - 1]
        BY <2>1
      <4>2. CASE i = k + 1
        <5>1. g[i] = F[<<k + 1, f[k]>>]
          BY <2>1, <4>2
        <5>2. i - 1 = k
          BY <2>1, <4>2
        <5> QED BY <4>1, <4>2, <5>1, <5>2
      <4>3. CASE i # k + 1
        <5>1. i \in 1..k /\ g[i] = f[i]
          BY <2>1, <4>3
        <5> QED BY <2>2, <4>1, <5>1
      <4> QED BY <4>2, <4>3
    <3> QED BY <2>2, <3>1, <3>2
  <2> QED BY <2>4, <2>5
<1>3. Good = Nat
  BY <1>1, <1>2, Induction
<1>4. Upto(n)
  BY <1>3
<1> QED BY <1>4 DEF GoesOn

-----------------------------------------------------------------------------
(* The inductive invariant                                                 *)

\* How much of the stream is neither buffered, nor carried, nor queued.
Base == observer.cursor - Len(queue) - Len(carried) - Len(store.buffer)

\* An event behind place c of the stream says what the host has of o.
Says(o, c) ==
  \E n \in (c + 1)..Len(published) :
    published[n].operation = o /\ published[n].snapshot = operations[o]

\* The host has o only in memory: its admission could not be appended.
Unsaid(o, snapshot) == poisoned /\ operations[o] = Admitted /\ snapshot = Absent

\* What is known of each operation at place c is current or will be told.
Fresh(view, c) ==
  \A o \in Operations :
    view[o] = operations[o] \/ Says(o, c) \/ Unsaid(o, view[o])

\* Completed work is completed for the host.
Done(o, snapshot) ==
  snapshot.status = "completed" => operations[o].status = "completed"

\* What is known of an operation at one time and at a later one.
Older(a, b) == a = b \/ a.revision < b.revision

\* What can be known of an operation.
Known == Snapshots \cup {Absent}

\* Places in the streams of hosts.
Cursors == [stream : Nat, sequence : Nat]

\* What can be said of the calls under way.
CallsTyped ==
  /\ snapshotCall \in {Idle, Asked} \cup
       [state : {"answered"}, cursor : Cursors, operations : [Operations -> Known]]
  /\ operationCall \in {Idle} \cup [state : {"asked"}, operation : Operations] \cup
       [state : {"answered"}, operation : Operations, snapshot : Known]

\* The client's stores that hold events of these operations.
Stores(ops) ==
  [confidence : {"uninitialized", "anchored", "stale"}, cursor : Cursors,
   view : [Operations -> Known], buffering : BOOLEAN, bufferFailed : BOOLEAN,
   buffer : Seq(Events(ops))]

\* Types that TypeOK leaves open.
Typed ==
  /\ TypeOK
  /\ observer \in [live : BOOLEAN, cursor : Nat]
  /\ CallsTyped
  /\ store \in Stores(issued)

\* Events are numbered, and each says what the host has or is followed by one
\* that does.  The journal says the same, unless an append has failed.
StreamSound ==
  /\ \A i \in DOMAIN published :
       published[i].cursor = [stream |-> stream, sequence |-> i]
  /\ \A i \in DOMAIN published :
       \/ published[i].snapshot = operations[published[i].operation]
       \/ Says(published[i].operation, i)
  /\ \A o \in Operations \ issued : operations[o] = Absent /\ durable[o] = Absent
  /\ ~poisoned => durable = operations

\* Completed work that an event told of is completed for the host, and what is
\* completed for the host is so in its journal.
CompletionsRecorded ==
  /\ \A o \in Operations :
       operations[o].status = "completed" => durable[o].status = "completed"
  /\ \A i \in DOMAIN published :
       Done(published[i].operation, published[i].snapshot)

\* The client does not know of completed work that the host does not have.
CompletionsKnown ==
  /\ \A o \in Operations : Done(o, store.view[o])
  /\ snapshotCall.state = "answered" =>
       \A o \in Operations : Done(o, snapshotCall.operations[o])
  /\ operationCall.state = "answered" =>
       Done(operationCall.operation, operationCall.snapshot)

\* What each stage of the registration excludes.
RegistrationSound ==
  /\ registration = "none" =>
       /\ observer = [live |-> FALSE, cursor |-> 0] /\ ~fault
       /\ snapshotCall = Idle /\ operationCall = Idle
  /\ registration # "ready" =>
       /\ queue = <<>> /\ carried = <<>> /\ store.buffer = <<>>
       /\ ~observer.live /\ ~Trusting
       /\ snapshotCall.state # "answered" /\ operationCall.state # "answered"
  /\ registration = "ready" => observer.live \/ fault

\* s is the part of the stream behind place c.
Run(s, c) == \A i \in DOMAIN s : s[i] = published[c + i]

\* What is buffered, carried and queued is the end of what the owner has sent.
ComingSound ==
  /\ Base \in Nat
  /\ Run(store.buffer, Base)
  /\ Run(carried, Base + Len(store.buffer))
  /\ Run(queue, Base + Len(store.buffer) + Len(carried))

\* Events are buffered exactly while a snapshot is awaited; once one was too many,
\* none of them is kept and the client does not trust what it shows.
BufferSound ==
  /\ store.buffering <=> snapshotCall # Idle
  /\ ~store.buffering \/ store.bufferFailed => store.buffer = <<>>
  /\ store.bufferFailed => ~Trusting

\* A client that trusts what it shows knows its place in the stream of this host.
TrustSound ==
  Trusting =>
    /\ registration = "ready" /\ store.cursor.stream = stream
    /\ Base <= store.cursor.sequence /\ store.cursor.sequence <= Len(published)
    /\ Fresh(store.view, store.cursor.sequence)

\* A snapshot on its way goes back to no earlier place than the buffer does.
SnapshotSound ==
  snapshotCall.state = "answered" =>
    /\ snapshotCall.cursor.stream = stream
    /\ snapshotCall.cursor.sequence <= Len(published)
    /\ ~store.bufferFailed => Base <= snapshotCall.cursor.sequence
    /\ Fresh(snapshotCall.operations, snapshotCall.cursor.sequence)

\* An answer on its way says what the host has, or had before.
ReplySound ==
  operationCall.state = "answered" =>
    Older(operationCall.snapshot, operations[operationCall.operation])

\* All of it.
StreamInv ==
  /\ Typed /\ StreamSound /\ CompletionsRecorded /\ CompletionsKnown
  /\ RegistrationSound /\ ComingSound /\ BufferSound /\ TrustSound
  /\ SnapshotSound /\ ReplySound

-----------------------------------------------------------------------------
(* The client's store                                                      *)

\* What is shown has become w, after it was v, and has not gone back.
Advances(v, w) ==
  \A o \in Operations :
    /\ w[o].revision >= v[o].revision
    /\ v[o].status = "completed" => w[o].status = "completed"

\* What can be known of an operation has a revision and a status, and a snapshot
\* of an operation that is there is not the absent one.
LEMMA KnownIs ==
  /\ \A k \in Known : k.revision \in Nat
  /\ \A k \in Snapshots : k # Absent /\ k.revision # 0
  /\ Snapshots \subseteq Known
BY DEF Known, Snapshots, Absent, Statuses

\* Nothing goes back by staying as it is, and going on twice is going on.
LEMMA AdvancesIs ==
  /\ \A v \in [Operations -> Known] : Advances(v, v)
  /\ \A u, v, w \in [Operations -> Known] :
       Advances(u, v) /\ Advances(v, w) => Advances(u, w)
<1>1. ASSUME NEW v \in [Operations -> Known] PROVE Advances(v, v)
  BY KnownIs DEF Advances
<1>2. ASSUME NEW u \in [Operations -> Known], NEW v \in [Operations -> Known],
             NEW w \in [Operations -> Known], Advances(u, v), Advances(v, w)
      PROVE  Advances(u, w)
  <2> SUFFICES ASSUME NEW o \in Operations
               PROVE /\ w[o].revision >= u[o].revision
                     /\ u[o].status = "completed" => w[o].status = "completed"
    BY DEF Advances
  <2>1. u[o].revision \in Nat /\ v[o].revision \in Nat /\ w[o].revision \in Nat
    BY KnownIs
  <2> QED BY <1>2, <2>1 DEF Advances
<1> QED BY <1>1, <1>2

\* Losing confidence changes nothing else.
LEMMA InvalidateIs ==
  ASSUME NEW ops \in SUBSET Operations, NEW s \in Stores(ops)
  PROVE  /\ Invalidate(s) \in Stores(ops)
         /\ Invalidate(s).confidence = "stale"
         /\ Invalidate(s).cursor = s.cursor
         /\ Invalidate(s).view = s.view
         /\ Invalidate(s).buffering = s.buffering
         /\ Invalidate(s).bufferFailed = s.bufferFailed
         /\ Invalidate(s).buffer = s.buffer
BY DEF Invalidate, Stores

\* What accepting an event can make of a store that awaits a snapshot.
LEMMA AcceptBuffered ==
  ASSUME NEW ops \in SUBSET Operations, NEW s \in Stores(ops),
         NEW e \in Events(ops), s.buffering, Len(s.buffer) <= MaxBufferedEvents
  PROVE  LET t == AcceptEvent(s, e) IN
         /\ t \in Stores(ops) /\ t.buffering /\ t.view = s.view
         /\ t.cursor = s.cursor
         /\ Len(t.buffer) <= MaxBufferedEvents
         /\ \/ s.bufferFailed /\ t = s
            \/ t.bufferFailed /\ t.buffer = <<>> /\ t.confidence = "stale"
            \/ /\ ~s.bufferFailed /\ t.bufferFailed = s.bufferFailed
               /\ t.confidence = s.confidence
               /\ t.buffer = Append(s.buffer, e)
<1>1. CASE s.bufferFailed
  <2>1. AcceptEvent(s, e) = s
    BY <1>1 DEF AcceptEvent
  <2> QED BY <1>1, <2>1
<1>2. CASE ~s.bufferFailed /\ Len(s.buffer) >= MaxBufferedEvents
  <2> DEFINE u == [s EXCEPT !.buffer = <<>>, !.bufferFailed = TRUE]
  <2>1. AcceptEvent(s, e) = Invalidate(u)
    BY <1>2 DEF AcceptEvent
  <2>2. <<>> \in Seq(Events(ops)) /\ Len(<<>>) = 0
    OBVIOUS
  <2>3. u \in Stores(ops) /\ u.buffering /\ u.view = s.view
        /\ u.cursor = s.cursor /\ u.buffer = <<>> /\ u.bufferFailed
    BY <2>2 DEF Stores
  <2> HIDE DEF u
  <2>4. Invalidate(u) \in Stores(ops) /\ Invalidate(u).confidence = "stale"
        /\ Invalidate(u).cursor = u.cursor /\ Invalidate(u).view = u.view
        /\ Invalidate(u).buffering = u.buffering
        /\ Invalidate(u).bufferFailed = u.bufferFailed
        /\ Invalidate(u).buffer = u.buffer
    BY <2>3, InvalidateIs
  <2>5. Len(Invalidate(u).buffer) <= MaxBufferedEvents
    BY <2>2, <2>3, <2>4, StoreAssumption
  <2> QED BY <2>1, <2>3, <2>4, <2>5
<1>3. CASE ~s.bufferFailed /\ ~(Len(s.buffer) >= MaxBufferedEvents)
  <2> DEFINE t == [s EXCEPT !.buffer = Append(@, e)]
  <2>1. AcceptEvent(s, e) = t
    BY <1>3 DEF AcceptEvent
  <2>2. s.buffer \in Seq(Events(ops)) /\ Append(s.buffer, e) \in Seq(Events(ops))
        /\ Len(Append(s.buffer, e)) = Len(s.buffer) + 1
    BY DEF Stores
  <2>3. t \in Stores(ops) /\ t.buffering /\ t.view = s.view
        /\ t.cursor = s.cursor /\ t.confidence = s.confidence
        /\ t.bufferFailed = s.bufferFailed /\ t.buffer = Append(s.buffer, e)
    BY <2>2 DEF Stores
  <2>4. Len(Append(s.buffer, e)) <= MaxBufferedEvents
    <3>1. Len(s.buffer) \in Nat
      BY <2>2
    <3> QED BY <1>3, <2>2, <3>1, StoreAssumption
  <2> HIDE DEF t
  <2> QED BY <1>3, <2>1, <2>3, <2>4
<1> QED BY <1>1, <1>2, <1>3

\* What accepting an event can make of a store that awaits none: it is the next
\* one and is shown, or confidence is lost.
LEMMA AcceptNext ==
  ASSUME NEW ops \in SUBSET Operations, NEW s \in Stores(ops),
         NEW e \in Events(ops), ~s.buffering
  PROVE  LET t == AcceptEvent(s, e) IN
         /\ t \in Stores(ops) /\ ~t.buffering
         /\ t.bufferFailed = s.bufferFailed /\ t.buffer = s.buffer
         /\ Advances(s.view, t.view)
         /\ \/ t.confidence = "stale" /\ t.view = s.view
            \/ /\ t.confidence = s.confidence
               /\ e.cursor.stream = s.cursor.stream
               /\ e.cursor.sequence = s.cursor.sequence + 1
               /\ t.cursor = e.cursor
               /\ t.view = [s.view EXCEPT ![e.operation] = e.snapshot]
<1>1. s.view \in [Operations -> Known] /\ s.cursor \in Cursors
      /\ e.cursor.sequence \in Nat /\ e.operation \in Operations
      /\ e.snapshot \in Known /\ e.cursor \in Cursors /\ e.operation \in ops
  BY KnownIs DEF Stores, Events, Cursors
<1>2. CASE \/ e.cursor.stream # s.cursor.stream
           \/ e.cursor.sequence <= s.cursor.sequence
  <2>1. AcceptEvent(s, e) = Invalidate(s)
    BY <1>2 DEF AcceptEvent
  <2> QED BY <1>1, <2>1, InvalidateIs, AdvancesIs
<1>3. CASE /\ ~(\/ e.cursor.stream # s.cursor.stream
                \/ e.cursor.sequence <= s.cursor.sequence)
           /\ s.confidence = "stale"
  <2>1. AcceptEvent(s, e) = s
    BY <1>3 DEF AcceptEvent
  <2> QED BY <1>1, <1>3, <2>1, AdvancesIs
<1>4. CASE /\ ~(\/ e.cursor.stream # s.cursor.stream
                \/ e.cursor.sequence <= s.cursor.sequence)
           /\ s.confidence # "stale"
           /\ e.cursor.sequence = s.cursor.sequence + 1
           /\ Consistent(s.view, e.operation, e.snapshot)
  <2> DEFINE v == [s.view EXCEPT ![e.operation] = e.snapshot]
             t == [s EXCEPT !.cursor = e.cursor, !.view = v]
  <2>1. AcceptEvent(s, e) = t
    BY <1>4 DEF AcceptEvent
  <2>2. v \in [Operations -> Known]
    BY <1>1
  <2>3. Advances(s.view, v)
    <3> SUFFICES ASSUME NEW o \in Operations
                 PROVE  /\ v[o].revision >= s.view[o].revision
                        /\ s.view[o].status = "completed" => v[o].status = "completed"
      BY DEF Advances
    <3>1. CASE o = e.operation
      BY <1>1, <1>4, <3>1 DEF Consistent
    <3>2. CASE o # e.operation
      BY <1>1, <3>2, KnownIs
    <3> QED BY <3>1, <3>2
  <2> HIDE DEF v
  <2>4. t \in Stores(ops) /\ t.buffering = s.buffering /\ t.view = v
        /\ t.cursor = e.cursor /\ t.confidence = s.confidence
        /\ t.bufferFailed = s.bufferFailed /\ t.buffer = s.buffer
    BY <1>1, <2>2 DEF Stores
  <2> HIDE DEF t
  <2> QED BY <1>4, <2>1, <2>3, <2>4 DEF v
<1>5. CASE /\ ~(\/ e.cursor.stream # s.cursor.stream
                \/ e.cursor.sequence <= s.cursor.sequence)
           /\ s.confidence # "stale"
           /\ ~(/\ e.cursor.sequence = s.cursor.sequence + 1
                /\ Consistent(s.view, e.operation, e.snapshot))
  <2>1. AcceptEvent(s, e) = Invalidate(s)
    BY <1>5 DEF AcceptEvent
  <2> QED BY <1>1, <2>1, InvalidateIs, AdvancesIs
<1> QED BY <1>2, <1>3, <1>4, <1>5

\* An event of the stream that a store accepts leaves nothing behind it out, and
\* what is shown then is as fresh as it was.
LEMMA AcceptFresh ==
  ASSUME Typed, StreamSound, CompletionsRecorded,
         NEW s \in Stores(issued), ~s.buffering, NEW n \in 1..Len(published),
         s.confidence = "anchored" => Fresh(s.view, s.cursor.sequence),
         \A o \in Operations : Done(o, s.view[o])
  PROVE  LET t == AcceptEvent(s, published[n]) IN
         /\ \A o \in Operations : Done(o, t.view[o])
         /\ t.confidence = "anchored" =>
              /\ s.confidence = "anchored"
              /\ t.cursor = [stream |-> stream, sequence |-> n]
              /\ s.cursor.stream = stream /\ n = s.cursor.sequence + 1
              /\ Fresh(t.view, n)
<1> DEFINE e == published[n]
           t == AcceptEvent(s, e)
<1>1. e \in Events(issued) /\ issued \in SUBSET Operations /\ n \in DOMAIN published
  BY DEF Typed, TypeOK
<1>2. e.cursor = [stream |-> stream, sequence |-> n] /\ e.operation \in Operations
      /\ (e.snapshot = operations[e.operation] \/ Says(e.operation, n))
  BY <1>1 DEF StreamSound, Events
<1>3. /\ t \in Stores(issued)
      /\ \/ t.confidence = "stale" /\ t.view = s.view
         \/ /\ t.confidence = s.confidence
            /\ e.cursor.stream = s.cursor.stream
            /\ e.cursor.sequence = s.cursor.sequence + 1
            /\ t.cursor = e.cursor
            /\ t.view = [s.view EXCEPT ![e.operation] = e.snapshot]
  <2> HIDE DEF e
  <2> QED BY <1>1, AcceptNext
<1>4. Done(e.operation, e.snapshot)
  BY <1>1 DEF CompletionsRecorded
<1>5. s.view \in [Operations -> Known] /\ s.cursor \in Cursors
      /\ operations \in [Operations -> Known] /\ published \in Seq(Events(issued))
  BY DEF Stores, Typed, TypeOK, Known
<1> HIDE DEF e, t
<1>6. \A o \in Operations : Done(o, t.view[o])
  <2> TAKE o \in Operations
  <2>1. t.view[o] = s.view[o] \/ (o = e.operation /\ t.view[o] = e.snapshot)
    BY <1>2, <1>3, <1>5
  <2> QED BY <1>4, <2>1
<1>7. ASSUME t.confidence = "anchored"
      PROVE  /\ s.confidence = "anchored"
             /\ t.cursor = [stream |-> stream, sequence |-> n]
             /\ s.cursor.stream = stream /\ n = s.cursor.sequence + 1
             /\ Fresh(t.view, n)
  <2>1. /\ s.confidence = "anchored" /\ t.cursor = e.cursor
        /\ e.cursor.stream = s.cursor.stream
        /\ e.cursor.sequence = s.cursor.sequence + 1
        /\ t.view = [s.view EXCEPT ![e.operation] = e.snapshot]
    BY <1>3, <1>7
  <2>2. n = s.cursor.sequence + 1 /\ s.cursor.sequence \in Nat
    BY <1>2, <1>5, <2>1 DEF Cursors
  <2>3. Fresh(t.view, n)
    <3> SUFFICES ASSUME NEW o \in Operations
                 PROVE  \/ t.view[o] = operations[o] \/ Says(o, n)
                        \/ Unsaid(o, t.view[o])
      BY DEF Fresh
    <3>1. CASE o = e.operation
      <4>1. t.view[o] = e.snapshot
        BY <1>5, <2>1, <3>1
      <4> QED BY <1>2, <3>1, <4>1
    <3>2. CASE o # e.operation
      <4>1. t.view[o] = s.view[o]
        BY <1>5, <2>1, <3>2
      <4>2. \/ s.view[o] = operations[o] \/ Says(o, s.cursor.sequence)
            \/ Unsaid(o, s.view[o])
        BY <2>1 DEF Fresh
      <4>3. Says(o, s.cursor.sequence) => Says(o, n)
        <5> SUFFICES ASSUME Says(o, s.cursor.sequence) PROVE Says(o, n)
          OBVIOUS
        <5>1. PICK m \in (s.cursor.sequence + 1)..Len(published) :
                published[m].operation = o /\ published[m].snapshot = operations[o]
          BY DEF Says
        <5>2. m # n
          BY <3>2, <5>1 DEF e
        <5>3. m \in (n + 1)..Len(published)
          <6>1. Len(published) \in Nat
            BY <1>5
          <6> QED BY <2>2, <5>1, <5>2, <6>1
        <5> QED BY <5>1, <5>3 DEF Says
      <4> QED BY <4>1, <4>2, <4>3
    <3> QED BY <3>1, <3>2
  <2> QED BY <1>2, <2>1, <2>2, <2>3
<1> QED BY <1>6, <1>7 DEF e, t

\* The answers to a snapshot query.
Replies ==
  [state : {"answered"}, cursor : Cursors, operations : [Operations -> Known]]

\* The store t is what a snapshot r has made of s once the first k of the events
\* buffered behind place c are replayed.
Caught(t, s, r, c, k) ==
  /\ ~t.buffering /\ ~t.bufferFailed /\ t.buffer = <<>>
  /\ Advances(s.view, t.view)
  /\ \A o \in Operations : Done(o, t.view[o])
  /\ t.confidence = "anchored" =>
       /\ t.cursor.stream = stream
       /\ c + k <= t.cursor.sequence /\ r.cursor.sequence <= t.cursor.sequence
       /\ t.cursor.sequence <= Len(published)
       /\ Fresh(t.view, t.cursor.sequence)

\* The snapshot is one of this host, goes back to no earlier place than the
\* buffered events do, and contradicts nothing the client knows.
Fits(s, r, c) ==
  /\ c \in Nat /\ Run(s.buffer, c) /\ c + Len(s.buffer) <= Len(published)
  /\ r.cursor.stream = stream
  /\ c <= r.cursor.sequence /\ r.cursor.sequence <= Len(published)
  /\ Fresh(r.operations, r.cursor.sequence)
  /\ \A o \in Operations : Done(o, r.operations[o]) /\ Done(o, s.view[o])
  /\ ~SnapshotProblem(s, r)

\* A snapshot that fits is a place from which nothing is missed.
LEMMA AnchoredIs ==
  ASSUME Typed, NEW s \in Stores(issued), NEW r \in Replies,
         NEW c, Fits(s, r, c)
  PROVE  Anchored(s, r) \in Stores(issued) /\ Caught(Anchored(s, r), s, r, c, 0)
<1> DEFINE v == [o \in Operations |-> IF r.operations[o] = Absent THEN s.view[o]
                                      ELSE r.operations[o]]
           t == [s EXCEPT !.confidence = "anchored", !.cursor = r.cursor,
                   !.view = v, !.buffering = FALSE, !.buffer = <<>>]
<1>1. Anchored(s, r) = t
  BY DEF Anchored
<1>2. s.view \in [Operations -> Known] /\ r.operations \in [Operations -> Known]
      /\ r.cursor \in Cursors /\ <<>> \in Seq(Events(issued))
  BY DEF Stores, Replies
<1>3. v \in [Operations -> Known]
  BY <1>2
<1>4. ~s.bufferFailed
  BY DEF Fits, SnapshotProblem
<1>5. Advances(s.view, v)
  <2> SUFFICES ASSUME NEW o \in Operations
               PROVE  /\ v[o].revision >= s.view[o].revision
                      /\ s.view[o].status = "completed" => v[o].status = "completed"
    BY DEF Advances
  <2>1. CASE r.operations[o] = Absent
    BY <1>2, <2>1, KnownIs
  <2>2. CASE r.operations[o] # Absent
    <3>1. Consistent(s.view, o, r.operations[o])
      BY <2>2 DEF Fits, SnapshotProblem
    <3> QED BY <2>2, <3>1 DEF Consistent
  <2> QED BY <2>1, <2>2
<1>6. \A o \in Operations : Done(o, v[o])
  BY DEF Fits
<1>7. Fresh(v, r.cursor.sequence)
  <2> SUFFICES ASSUME NEW o \in Operations
               PROVE  \/ v[o] = operations[o] \/ Says(o, r.cursor.sequence)
                      \/ Unsaid(o, v[o])
    BY DEF Fresh
  <2>1. \/ r.operations[o] = operations[o] \/ Says(o, r.cursor.sequence)
        \/ Unsaid(o, r.operations[o])
    BY DEF Fits, Fresh
  <2>2. CASE r.operations[o] # Absent \/ s.view[o] = Absent
    BY <2>1, <2>2
  <2>3. CASE r.operations[o] = Absent /\ s.view[o] # Absent
    <3>1. s.view[o].status \in {"absent", "completed"}
      BY <2>3 DEF Fits, SnapshotProblem
    <3>2. s.view[o] \in Snapshots
      BY <1>2, <2>3 DEF Known
    <3>3. s.view[o].status = "completed"
      BY <3>1, <3>2 DEF Snapshots, Statuses
    <3>4. operations[o].status = "completed"
      BY <3>3 DEF Fits, Done
    <3>5. operations[o] # Absent /\ operations[o] # Admitted
      BY <3>4 DEF Absent, Admitted
    <3> QED BY <2>1, <2>3, <3>5 DEF Unsaid
  <2> QED BY <2>2, <2>3
<1> HIDE DEF v
<1>8. t \in Stores(issued) /\ ~t.buffering /\ ~t.bufferFailed /\ t.buffer = <<>>
      /\ t.view = v /\ t.cursor = r.cursor
  BY <1>2, <1>3, <1>4 DEF Stores
<1> HIDE DEF t
<1>9. Caught(t, s, r, c, 0)
  <2>1. c \in Nat /\ r.cursor.sequence \in Nat
    BY <1>2 DEF Fits, Cursors
  <2> QED BY <1>5, <1>6, <1>7, <1>8, <2>1 DEF Caught, Fits
<1> QED BY <1>1, <1>8, <1>9

\* One more of the buffered events: the snapshot covers it, or it is accepted.
LEMMA CaughtNext ==
  ASSUME Typed, StreamSound, CompletionsRecorded,
         NEW s \in Stores(issued), NEW r \in Replies, NEW c, Fits(s, r, c),
         NEW k \in 1..Len(s.buffer), NEW t \in Stores(issued),
         Caught(t, s, r, c, k - 1)
  PROVE  LET e == s.buffer[k]
             u == IF \/ e.cursor.stream # r.cursor.stream
                     \/ e.cursor.sequence > r.cursor.sequence
                  THEN AcceptEvent(t, e) ELSE t
         IN u \in Stores(issued) /\ Caught(u, s, r, c, k)
<1> DEFINE e == s.buffer[k]
           u == AcceptEvent(t, e)
<1>1. c \in Nat /\ Len(s.buffer) \in Nat /\ Len(published) \in Nat
      /\ r.cursor.sequence \in Nat /\ t.cursor.sequence \in Nat /\ k \in Nat
      /\ c + Len(s.buffer) <= Len(published) /\ r.cursor.stream = stream
  <2>1. s.buffer \in Seq(Events(issued)) /\ t.cursor \in Cursors
    BY DEF Stores
  <2>2. r.cursor \in Cursors
    BY DEF Replies
  <2>3. published \in Seq(Events(issued))
    BY DEF Typed, TypeOK
  <2>4. c \in Nat /\ c + Len(s.buffer) <= Len(published) /\ r.cursor.stream = stream
    BY DEF Fits
  <2>5. Len(s.buffer) \in Nat /\ Len(published) \in Nat
    BY <2>1, <2>3
  <2>6. r.cursor.sequence \in Nat /\ t.cursor.sequence \in Nat
    BY <2>1, <2>2 DEF Cursors
  <2>7. k \in Nat
    BY <2>5
  <2> QED BY <2>4, <2>5, <2>6, <2>7
<1>2. e = published[c + k] /\ c + k \in 1..Len(published)
  <2>1. k \in DOMAIN s.buffer
    BY DEF Stores
  <2> QED BY <1>1, <2>1 DEF Fits, Run
<1>3. e.cursor = [stream |-> stream, sequence |-> c + k]
  BY <1>2 DEF StreamSound, Typed, TypeOK
<1>4. CASE c + k <= r.cursor.sequence
  <2>1. ~(e.cursor.stream # r.cursor.stream
            \/ e.cursor.sequence > r.cursor.sequence)
    BY <1>1, <1>3, <1>4
  <2>2. Caught(t, s, r, c, k)
    BY <1>1, <1>4 DEF Caught
  <2> QED BY <2>1, <2>2
<1>5. CASE c + k > r.cursor.sequence
  <2>1. e.cursor.stream # r.cursor.stream
            \/ e.cursor.sequence > r.cursor.sequence
    BY <1>3, <1>5
  <2>2. /\ ~t.buffering /\ ~t.bufferFailed /\ t.buffer = <<>>
        /\ Advances(s.view, t.view)
        /\ \A o \in Operations : Done(o, t.view[o])
        /\ t.confidence = "anchored" => Fresh(t.view, t.cursor.sequence)
    BY DEF Caught
  <2>3. /\ \A o \in Operations : Done(o, u.view[o])
        /\ u.confidence = "anchored" =>
             /\ u.cursor = [stream |-> stream, sequence |-> c + k]
             /\ Fresh(u.view, c + k)
    <3>1. PICK n \in 1..Len(published) : n = c + k
      BY <1>2
    <3>2. LET w == AcceptEvent(t, published[n]) IN
          /\ \A o \in Operations : Done(o, w.view[o])
          /\ w.confidence = "anchored" =>
               /\ w.cursor = [stream |-> stream, sequence |-> n]
               /\ Fresh(w.view, n)
      BY <2>2, AcceptFresh
    <3>3. u = AcceptEvent(t, published[n])
      BY <1>2, <3>1
    <3> QED BY <3>1, <3>2, <3>3
  <2>4. u \in Stores(issued) /\ ~u.buffering /\ ~u.bufferFailed
        /\ u.buffer = <<>> /\ Advances(t.view, u.view)
    <3>1. e \in Events(issued) /\ issued \in SUBSET Operations
      BY <1>2 DEF Typed, TypeOK
    <3> HIDE DEF e
    <3>2. LET w == AcceptEvent(t, e) IN
          /\ w \in Stores(issued) /\ ~w.buffering
          /\ w.bufferFailed = t.bufferFailed /\ w.buffer = t.buffer
          /\ Advances(t.view, w.view)
      BY <2>2, <3>1, AcceptNext
    <3> QED BY <2>2, <3>2
  <2>5. Advances(s.view, u.view)
    BY <2>2, <2>4, AdvancesIs DEF Stores
  <2> HIDE DEF u
  <2>6. Caught(u, s, r, c, k)
    <3> HIDE DEF e
    <3>1. u.confidence = "anchored" =>
            /\ u.cursor.stream = stream /\ u.cursor.sequence = c + k
            /\ Fresh(u.view, u.cursor.sequence)
      BY <2>3
    <3>2. c + k <= Len(published) /\ c + k >= r.cursor.sequence
      BY <1>1, <1>2, <1>5
    <3> QED BY <1>1, <2>3, <2>4, <2>5, <3>1, <3>2 DEF Caught
  <2> QED BY <2>1, <2>4, <2>6 DEF u
<1> QED BY <1>1, <1>4, <1>5

\* What has been replayed of the buffer is caught up with, to its end.
LEMMA ReplayedIs ==
  ASSUME Typed, StreamSound, CompletionsRecorded,
         NEW s \in Stores(issued), NEW r \in Replies, NEW c, Fits(s, r, c)
  PROVE  /\ Replayed(s, r) \in Stores(issued)
         /\ Caught(Replayed(s, r), s, r, c, Len(s.buffer))
<1> DEFINE n == Len(s.buffer)
           S == {t \in Stores(issued) : ~t.buffering}
           b == Anchored(s, r)
           Later(e) == \/ e.cursor.stream # r.cursor.stream
                       \/ e.cursor.sequence > r.cursor.sequence
           F == [p \in (1..n) \X S |->
                   IF Later(s.buffer[p[1]]) THEN AcceptEvent(p[2], s.buffer[p[1]])
                   ELSE p[2]]
           Body(g) == [i \in 0..n |->
                         IF i = 0 THEN b
                         ELSE IF Later(s.buffer[i])
                              THEN AcceptEvent(g[i - 1], s.buffer[i])
                              ELSE g[i - 1]]
           after == CHOOSE g : g = Body(g)
<1>1. n \in Nat /\ \A i \in 1..n : s.buffer[i] \in Events(issued)
  BY DEF Stores
<1>2. b \in S /\ Caught(b, s, r, c, 0)
  <2>1. Anchored(s, r) \in Stores(issued) /\ Caught(Anchored(s, r), s, r, c, 0)
    BY AnchoredIs
  <2> QED BY <2>1 DEF Caught
<1>3. ASSUME NEW i \in 1..n, NEW t \in S
      PROVE  (IF Later(s.buffer[i]) THEN AcceptEvent(t, s.buffer[i]) ELSE t) \in S
  <2>1. PICK e \in Events(issued) : e = s.buffer[i]
    BY <1>1
  <2>2. issued \in SUBSET Operations
    BY DEF Typed, TypeOK
  <2>3. AcceptEvent(t, e) \in S
    BY <2>2, AcceptNext
  <2> QED BY <2>1, <2>3
<1>4. F \in [(1..n) \X S -> S]
  <2>1. ASSUME NEW p \in (1..n) \X S
        PROVE  (IF Later(s.buffer[p[1]]) THEN AcceptEvent(p[2], s.buffer[p[1]])
                ELSE p[2]) \in S
    <3>1. p[1] \in 1..n /\ p[2] \in S
      OBVIOUS
    <3> HIDE DEF S, Later, n
    <3> QED BY <1>3, <3>1
  <2> HIDE DEF S, Later, n
  <2> QED BY <2>1
<1>5. \A i \in 1..n, t \in S :
        F[<<i, t>>] = IF Later(s.buffer[i]) THEN AcceptEvent(t, s.buffer[i]) ELSE t
  <2> HIDE DEF S, Later, n
  <2> QED OBVIOUS
<1>6. PICK f \in [0..n -> S] : f[0] = b /\ \A i \in 1..n : f[i] = F[<<i, f[i - 1]>>]
  <2>1. n \in Nat /\ b \in S
    BY <1>1, <1>2
  <2> HIDE DEF S, n, b, F
  <2>2. \E f \in [0..n -> S] : GoesOn(f, n, b, F)
    BY <1>4, <2>1, Recursion
  <2> QED BY <2>2 DEF GoesOn
<1>7. f = Body(f)
  <2> HIDE DEF S, n, b, F, Later
  <2>1. ASSUME NEW i \in 1..n
        PROVE  f[i] = IF Later(s.buffer[i])
                      THEN AcceptEvent(f[i - 1], s.buffer[i]) ELSE f[i - 1]
    <3>1. i - 1 \in 0..n
      BY <1>1
    <3>2. f[i - 1] \in S
      BY <3>1
    <3> QED BY <1>5, <1>6, <3>2
  <2>2. \A i \in 0..n : i # 0 => i \in 1..n
    BY <1>1
  <2>3. \A i \in 0..n :
          f[i] = IF i = 0 THEN b
                 ELSE IF Later(s.buffer[i])
                      THEN AcceptEvent(f[i - 1], s.buffer[i]) ELSE f[i - 1]
    BY <1>6, <2>1, <2>2
  <2> QED BY <2>3
<1>8. after = Body(after)
  <2> HIDE DEF Body
  <2> QED BY <1>7
<1>9. ASSUME NEW i \in 1..n
      PROVE  after[i] = IF Later(s.buffer[i])
                        THEN AcceptEvent(after[i - 1], s.buffer[i])
                        ELSE after[i - 1]
  <2> HIDE DEF after, b, Later
  <2>1. i \in 0..n /\ i # 0
    BY <1>1
  <2> QED BY <1>8, <2>1
<1>10. after[0] = b
  <2> HIDE DEF after, b, Later
  <2>1. 0 \in 0..n
    BY <1>1
  <2> QED BY <1>8, <2>1
<1> DEFINE Good == {k \in Nat : k <= n => /\ after[k] \in S
                                          /\ Caught(after[k], s, r, c, k)}
<1>11. 0 \in Good
  <2> HIDE DEF after, b, S
  <2> QED BY <1>2, <1>10
<1>12. ASSUME NEW k \in Good PROVE k + 1 \in Good
  <2> SUFFICES ASSUME k + 1 <= n
               PROVE  /\ after[k + 1] \in S
                      /\ Caught(after[k + 1], s, r, c, k + 1)
    OBVIOUS
  <2>1. k \in Nat /\ k + 1 \in 1..n /\ (k + 1) - 1 = k
    BY <1>1
  <2>2. PICK t \in S : t = after[k] /\ Caught(t, s, r, c, k)
    <3> HIDE DEF after, S
    <3> QED BY <1>1, <2>1
  <2>3. PICK i \in 1..n : i = k + 1 /\ i - 1 = k
    BY <2>1
  <2>4. after[i] = IF Later(s.buffer[i]) THEN AcceptEvent(t, s.buffer[i]) ELSE t
    <3> HIDE DEF after, S, Later
    <3> QED BY <1>9, <2>2, <2>3
  <2>5. after[i] \in S
    <3> HIDE DEF after, S, Later
    <3> QED BY <1>3, <2>4
  <2>6. Caught(after[i], s, r, c, i)
    <3>1. Caught(t, s, r, c, i - 1) /\ t \in Stores(issued)
      BY <2>2, <2>3
    <3>2. LET e == s.buffer[i]
              u == IF \/ e.cursor.stream # r.cursor.stream
                      \/ e.cursor.sequence > r.cursor.sequence
                   THEN AcceptEvent(t, e) ELSE t
          IN Caught(u, s, r, c, i)
      <4> HIDE DEF after
      <4> QED BY <3>1, CaughtNext
    <3> HIDE DEF after
    <3> QED BY <2>4, <3>2
  <2> HIDE DEF after, S
  <2> QED BY <2>3, <2>5, <2>6
<1>13. Good = Nat
  <2> HIDE DEF Good
  <2> QED BY <1>11, <1>12, Induction DEF Good
<1>14. after[n] \in S /\ Caught(after[n], s, r, c, n)
  <2> HIDE DEF after, S
  <2> QED BY <1>1, <1>13
<1>15. Replayed(s, r) = after[n]
  BY DEF Replayed
<1> HIDE DEF after
<1> QED BY <1>14, <1>15

-----------------------------------------------------------------------------
(* The engine                                                              *)

\* What a step can do to one operation: nothing, a later revision that an event
\* tells of, or an admission that is only in memory.  Completed work stays so.
Moves(o) ==
  /\ operations[o].status = "completed" => operations'[o].status = "completed"
  /\ \/ operations'[o] = operations[o]
     \/ /\ operations[o].revision < operations'[o].revision
        /\ \E n \in (Len(published) + 1)..Len(published') :
             published'[n].operation = o /\ published'[n].snapshot = operations'[o]
     \/ poisoned' /\ operations[o] = Absent /\ operations'[o] = Admitted

\* What every step of the engine is: the stream only grows.
Grows ==
  /\ stream' = stream
  /\ issued \subseteq issued' /\ issued' \subseteq Operations
  /\ poisoned' \in BOOLEAN /\ (poisoned => poisoned')
  /\ operations' \in [Operations -> Known] /\ durable' \in [Operations -> Known]
  /\ published' \in Seq(Events(issued'))
  /\ Len(published) <= Len(published')
  /\ \A i \in DOMAIN published : i \in DOMAIN published' /\ published'[i] = published[i]
  /\ \A o \in Operations : Moves(o)
  /\ StreamSound' /\ CompletionsRecorded'

\* What the typed variables are.
LEMMA TypedIs ==
  ASSUME Typed
  PROVE  /\ stream \in 1..MaxStreams /\ stream \in Nat
         /\ operations \in [Operations -> Known] /\ durable \in [Operations -> Known]
         /\ issued \subseteq Operations /\ poisoned \in BOOLEAN
         /\ published \in Seq(Events(issued)) /\ Len(published) \in Nat
         /\ DOMAIN published = 1..Len(published)
         /\ observer \in [live : BOOLEAN, cursor : Nat]
         /\ observer.cursor <= Len(published)
         /\ queue \in Seq(Events(issued)) /\ carried \in Seq(Events(issued))
         /\ Len(queue) \in Nat /\ Len(carried) \in {0, 1}
         /\ store \in Stores(issued) /\ Len(store.buffer) \in Nat
         /\ store.buffer \in Seq(Events(issued))
<1>1. /\ stream \in 1..MaxStreams /\ stream \in Nat
      /\ operations \in [Operations -> Known] /\ durable \in [Operations -> Known]
      /\ issued \subseteq Operations /\ poisoned \in BOOLEAN
  BY StreamAssumption DEF Typed, TypeOK, Known
<1>2. /\ published \in Seq(Events(issued)) /\ Len(published) \in Nat
      /\ DOMAIN published = 1..Len(published)
  BY DEF Typed, TypeOK
<1>3. /\ observer \in [live : BOOLEAN, cursor : Nat]
      /\ observer.cursor <= Len(published)
  <2>1. observer.cursor \in 0..Len(published)
    BY DEF Typed, TypeOK
  <2> QED BY <1>2, <2>1 DEF Typed
<1>4. /\ queue \in Seq(Events(issued)) /\ carried \in Seq(Events(issued))
      /\ Len(queue) \in Nat /\ Len(carried) \in {0, 1}
  <2>1. /\ queue \in Seq(Events(issued)) /\ carried \in Seq(Events(issued))
        /\ Len(carried) <= 1
    BY DEF Typed, TypeOK
  <2>2. Len(queue) \in Nat /\ Len(carried) \in Nat
    BY <2>1
  <2>3. \A n \in Nat : n <= 1 => n \in {0, 1}
    OBVIOUS
  <2> QED BY <2>1, <2>2, <2>3
<1>5. store \in Stores(issued) /\ store.buffer \in Seq(Events(issued))
      /\ Len(store.buffer) \in Nat
  <2>1. store \in Stores(issued)
    BY DEF Typed
  <2>2. store.buffer \in Seq(Events(issued))
    BY <2>1 DEF Stores
  <2> QED BY <2>1, <2>2
<1> QED BY <1>1, <1>2, <1>3, <1>4, <1>5

\* A step that leaves the engine alone.
LEMMA EngineRests ==
  ASSUME Typed, StreamSound, CompletionsRecorded, UNCHANGED engine
  PROVE  Grows
<1>1. UNCHANGED <<stream, operations, durable, issued, published, poisoned>>
  BY DEF engine
<1>2. StreamSound' /\ CompletionsRecorded'
  BY <1>1 DEF StreamSound, CompletionsRecorded, Says, Done
<1>3. \A o \in Operations : Moves(o)
  BY <1>1 DEF Moves
<1> QED BY <1>1, <1>2, <1>3, TypedIs DEF Grows

\* A longer sequence of its beginning and its end.
LEMMA ConcatIs ==
  ASSUME NEW S, NEW s \in Seq(S), NEW t \in Seq(S)
  PROVE  /\ s \o t \in Seq(S) /\ Len(s \o t) = Len(s) + Len(t)
         /\ \A i \in 1..Len(s) : (s \o t)[i] = s[i]
         /\ \A i \in 1..Len(t) : (s \o t)[Len(s) + i] = t[i]
<1>1. s \o t \in Seq(S) /\ Len(s \o t) = Len(s) + Len(t)
  OBVIOUS
<1>2. \A i \in 1..Len(s) : (s \o t)[i] = s[i]
  OBVIOUS
<1>3. \A i \in 1..Len(t) : (s \o t)[Len(s) + i] = t[i]
  OBVIOUS
<1> QED BY <1>1, <1>2, <1>3

\* A sequence over a set is one over a larger set.
LEMMA SeqWidens ==
  ASSUME NEW S, NEW T, S \subseteq T, NEW s \in Seq(S)
  PROVE  s \in Seq(T)
OBVIOUS

\* The events of some operations are events of more of them.
LEMMA EventsWiden ==
  ASSUME NEW S, NEW T, S \subseteq T
  PROVE  Events(S) \subseteq Events(T)
BY DEF Events

\* What is published is behind what was, in order and numbered.
LEMMA PublishIs ==
  ASSUME Typed, NEW o \in Operations, NEW snapshots \in Seq(Snapshots),
         Publish(o, snapshots), issued' = issued \cup {o}
  PROVE  /\ published' \in Seq(Events(issued'))
         /\ Len(published') = Len(published) + Len(snapshots)
         /\ Len(snapshots) \in Nat
         /\ \A i \in DOMAIN published :
              i \in DOMAIN published' /\ published'[i] = published[i]
         /\ \A i \in 1..Len(snapshots) :
              published'[Len(published) + i] =
                Event(Len(published) + i, o, snapshots[i])
<1> DEFINE new == [i \in DOMAIN snapshots |->
                     Event(Len(published) + i, o, snapshots[i])]
<1>1. published' = published \o new
  BY DEF Publish
<1>2. DOMAIN snapshots = 1..Len(snapshots) /\ Len(snapshots) \in Nat
      /\ \A i \in 1..Len(snapshots) : snapshots[i] \in Snapshots
  OBVIOUS
<1>3. \A i \in 1..Len(snapshots) :
        Event(Len(published) + i, o, snapshots[i]) \in Events(issued')
  BY <1>2, TypedIs DEF Event, Events
<1>4. new \in Seq(Events(issued')) /\ Len(new) = Len(snapshots)
      /\ \A i \in 1..Len(snapshots) :
           new[i] = Event(Len(published) + i, o, snapshots[i])
  <2>1. new \in [1..Len(snapshots) -> Events(issued')]
    BY <1>2, <1>3
  <2>2. \A i \in 1..Len(snapshots) :
           new[i] = Event(Len(published) + i, o, snapshots[i])
    BY <1>2
  <2> HIDE DEF new
  <2>3. new \in Seq(Events(issued')) /\ Len(new) = Len(snapshots)
    <3>1. \A T, n, t : n \in Nat /\ t \in [1..n -> T] => t \in Seq(T) /\ Len(t) = n
      OBVIOUS
    <3> QED BY <1>2, <2>1, <3>1, Zenon
  <2> QED BY <2>2, <2>3
<1> HIDE DEF new
<1>5. published \in Seq(Events(issued'))
  <2>1. Events(issued) \subseteq Events(issued')
    BY EventsWiden
  <2> QED BY <2>1, TypedIs, SeqWidens
<1>6. /\ published \o new \in Seq(Events(issued'))
      /\ Len(published \o new) = Len(published) + Len(new)
      /\ \A i \in 1..Len(published) : (published \o new)[i] = published[i]
      /\ \A i \in 1..Len(new) : (published \o new)[Len(published) + i] = new[i]
  <2>1. PICK S : S = Events(issued')
    OBVIOUS
  <2>2. published \in Seq(S) /\ new \in Seq(S)
    BY <1>4, <1>5, <2>1
  <2>3. /\ published \o new \in Seq(S)
        /\ Len(published \o new) = Len(published) + Len(new)
        /\ \A i \in 1..Len(published) : (published \o new)[i] = published[i]
        /\ \A i \in 1..Len(new) : (published \o new)[Len(published) + i] = new[i]
    BY <2>2, ConcatIs
  <2> QED BY <2>1, <2>3
<1>7. \A i \in DOMAIN published : i \in DOMAIN published' /\ i \in 1..Len(published)
  <2>1. DOMAIN published' = 1..Len(published')
    BY <1>1, <1>6
  <2> QED BY <1>1, <1>2, <1>4, <1>6, <2>1, TypedIs
<1> QED BY <1>1, <1>2, <1>4, <1>6, <1>7

\* The shape of every step that changes one operation o to v: its journal has d
\* for it, and the events tell of snapshots up to v, or of none.
LEMMA GrowthIs ==
  ASSUME Typed, StreamSound, CompletionsRecorded,
         NEW o \in Operations, NEW snapshots \in Seq(Snapshots),
         NEW v \in Known, NEW d \in Known,
         stream' = stream, issued' = issued \cup {o},
         poisoned' \in BOOLEAN, poisoned => poisoned', ~poisoned' => d = v,
         operations' = [operations EXCEPT ![o] = v],
         durable' = [durable EXCEPT ![o] = d],
         Publish(o, snapshots),
         v.status = "completed" => d.status = "completed",
         operations[o].status = "completed" => v.status = "completed",
         \A i \in 1..Len(snapshots) :
           snapshots[i].status = "completed" => v.status = "completed",
         \/ /\ snapshots # <<>> /\ v = snapshots[Len(snapshots)]
            /\ operations[o].revision < v.revision
         \/ snapshots = <<>> /\ v = operations[o]
         \/ snapshots = <<>> /\ poisoned' /\ operations[o] = Absent /\ v = Admitted
  PROVE  Grows
<1>1. /\ published' \in Seq(Events(issued'))
      /\ Len(published') = Len(published) + Len(snapshots)
      /\ Len(snapshots) \in Nat
      /\ \A i \in DOMAIN published :
           i \in DOMAIN published' /\ published'[i] = published[i]
      /\ \A i \in 1..Len(snapshots) :
           published'[Len(published) + i] =
             Event(Len(published) + i, o, snapshots[i])
  BY PublishIs
<1>2. /\ Len(published) \in Nat /\ DOMAIN published = 1..Len(published)
      /\ \A i \in DOMAIN published : published[i] \in Events(issued)
      /\ operations \in [Operations -> Known] /\ durable \in [Operations -> Known]
      /\ issued \subseteq Operations /\ Len(published') \in Nat
      /\ DOMAIN published' = 1..Len(published')
  BY <1>1, TypedIs
<1>3. \A q \in Operations : operations'[q] = IF q = o THEN v ELSE operations[q]
  BY <1>2
<1>4. \A q \in Operations : durable'[q] = IF q = o THEN d ELSE durable[q]
  BY <1>2
<1>5. \A i \in DOMAIN published' :
        \/ i \in DOMAIN published
        \/ \E j \in 1..Len(snapshots) :
             i = Len(published) + j /\ published'[i] = Event(i, o, snapshots[j])
  <2> SUFFICES ASSUME NEW i \in DOMAIN published', i \notin DOMAIN published
               PROVE  \E j \in 1..Len(snapshots) :
                        /\ i = Len(published) + j
                        /\ published'[i] = Event(i, o, snapshots[j])
    OBVIOUS
  <2>1. i - Len(published) \in 1..Len(snapshots)
        /\ i = Len(published) + (i - Len(published))
    BY <1>1, <1>2
  <2> QED BY <1>1, <2>1
\* The last event tells of v.
<1>6. ASSUME snapshots # <<>>
      PROVE  /\ Len(published') > Len(published)
             /\ published'[Len(published')].operation = o
             /\ published'[Len(published')].snapshot = v
  <2>1. Len(snapshots) \in 1..Len(snapshots)
    BY <1>1, <1>6
  <2>2. published'[Len(published')] =
          Event(Len(published'), o, snapshots[Len(snapshots)])
    BY <1>1, <2>1
  <2>3. snapshots[Len(snapshots)] = v
    BY <1>6
  <2> QED BY <1>1, <1>2, <2>1, <2>2, <2>3 DEF Event
<1>7. \A q \in Operations : Moves(q)
  <2> TAKE q \in Operations
  <2>1. CASE q # o
    BY <1>3, <2>1 DEF Moves
  <2>2. CASE q = o /\ snapshots # <<>>
    <3>1. Len(published') \in (Len(published) + 1)..Len(published')
      BY <1>2, <1>6, <2>2
    <3>2. operations[o].revision < operations'[o].revision
      BY <1>3, <2>2
    <3> QED BY <1>3, <1>6, <2>2, <3>1, <3>2 DEF Moves
  <2>3. CASE q = o /\ snapshots = <<>>
    BY <1>3, <2>3 DEF Moves
  <2> QED BY <2>1, <2>2, <2>3
<1>8. ASSUME NEW q \in Operations, NEW c \in Nat, Says(q, c)
      PROVE  Says(q, c)' \/ (q = o /\ v # operations[o])
  <2> SUFFICES ASSUME ~(q = o /\ v # operations[o]) PROVE Says(q, c)'
    OBVIOUS
  <2>1. operations'[q] = operations[q]
    BY <1>3
  <2>2. PICK n \in (c + 1)..Len(published) :
          published[n].operation = q /\ published[n].snapshot = operations[q]
    BY <1>8 DEF Says
  <2>3. n \in DOMAIN published /\ n \in (c + 1)..Len(published')
    BY <1>1, <1>2, <2>2
  <2>4. published'[n] = published[n]
    BY <1>1, <2>3
  <2> QED BY <2>1, <2>2, <2>3, <2>4 DEF Says
<1>9. ASSUME NEW c \in Nat, snapshots # <<>>, c < Len(published')
      PROVE  Says(o, c)'
  <2>1. Len(published') \in (c + 1)..Len(published')
    BY <1>2, <1>9
  <2> QED BY <1>3, <1>6, <1>9, <2>1 DEF Says
<1>10. StreamSound'
  <2>1. \A i \in DOMAIN published' :
          published'[i].cursor = [stream |-> stream, sequence |-> i]
    <3> TAKE i \in DOMAIN published'
    <3>1. CASE i \in DOMAIN published
      BY <1>1, <3>1 DEF StreamSound
    <3>2. CASE i \notin DOMAIN published
      BY <1>5, <3>2 DEF Event
    <3> QED BY <3>1, <3>2
  <2>2. ASSUME NEW i \in Nat, i \in DOMAIN published'
        PROVE  \/ published'[i].snapshot = operations'[published'[i].operation]
               \/ Says(published[i].operation, i)'
    <3>0. i \in 1..Len(published')
      BY <1>2, <2>2
    <3>1. CASE i \in DOMAIN published
      <4>1. PICK q \in Operations : q = published[i].operation
        BY <1>2, <3>1 DEF Events
      <4>2. published'[i] = published[i]
        BY <1>1, <3>1
      <4>3. published[i].snapshot = operations[q] \/ Says(q, i)
        BY <3>1, <4>1 DEF StreamSound
      <4>4. i \in 0..Len(published) /\ i \in 1..Len(published)
            /\ i <= Len(published')
        BY <1>1, <1>2, <3>1
      <4>5. published[i].snapshot = operations'[q] \/ Says(q, i)'
        <5>1. CASE snapshots # <<>> /\ q = o
          <6>1. i < Len(published')
            BY <1>2, <1>6, <4>4, <5>1
          <6> QED BY <1>9, <4>4, <5>1, <6>1
        <5>2. CASE q # o \/ v = operations[o]
          BY <1>3, <1>8, <4>3, <4>4, <5>2
        <5>3. CASE q = o /\ operations[o] = Absent
          <6>1. published[i].snapshot # Absent
            BY <1>2, <3>1, KnownIs DEF Events
          <6>2. PICK n \in (i + 1)..Len(published) :
                  published[n].snapshot = operations[q]
            BY <4>3, <5>3, <6>1 DEF Says
          <6>3. n \in DOMAIN published
            BY <1>2, <4>4, <6>2
          <6>4. published[n].snapshot # Absent
            BY <1>2, <6>3, KnownIs DEF Events
          <6> QED BY <5>3, <6>2, <6>4
        <5> QED BY <5>1, <5>2, <5>3
      <4> QED BY <4>1, <4>2, <4>5
    <3>2. CASE i \notin DOMAIN published
      <4>1. PICK j \in 1..Len(snapshots) :
              i = Len(published) + j /\ published'[i] = Event(i, o, snapshots[j])
        BY <1>5, <2>2, <3>2
      <4>2. snapshots # <<>>
        BY <4>1
      <4>3. published'[i].operation = o
        BY <4>1 DEF Event
      <4>4. CASE i = Len(published')
        BY <1>3, <1>6, <4>2, <4>3, <4>4
      <4>5. CASE i # Len(published')
        <5>1. i < Len(published')
          <6>1. \A a \in Nat : \A b \in 1..a : b # a => b < a
            OBVIOUS
          <6>2. Len(published') \in Nat
            BY <1>2
          <6> QED BY <3>0, <4>5, <6>1, <6>2, Zenon
        <5> QED BY <1>9, <4>2, <4>3, <5>1
      <4> QED BY <4>4, <4>5
    <3> QED BY <3>1, <3>2
  <2>3. \A i \in DOMAIN published' : i \in Nat
    BY <1>2
  <2>4. \A q \in Operations \ issued' : operations'[q] = Absent /\ durable'[q] = Absent
    BY <1>3, <1>4 DEF StreamSound
  <2>5. ~poisoned' => durable' = operations'
    BY DEF StreamSound
  <2> QED BY <2>1, <2>2, <2>3, <2>4, <2>5 DEF StreamSound
<1>11. CompletionsRecorded'
  <2>1. \A q \in Operations :
          operations'[q].status = "completed" => durable'[q].status = "completed"
    BY <1>3, <1>4 DEF CompletionsRecorded
  <2>2. ASSUME NEW i \in DOMAIN published',
               published'[i].snapshot.status = "completed"
        PROVE  operations'[published'[i].operation].status = "completed"
    <3>1. CASE i \in DOMAIN published
      <4>1. PICK q \in Operations : q = published[i].operation
        BY <1>2, <3>1 DEF Events
      <4>2. published'[i] = published[i]
        BY <1>1, <3>1
      <4>3. operations[q].status = "completed"
        BY <2>2, <3>1, <4>1, <4>2 DEF CompletionsRecorded, Done
      <4> QED BY <1>3, <4>1, <4>2, <4>3
    <3>2. CASE i \notin DOMAIN published
      <4>1. PICK j \in 1..Len(snapshots) :
              i = Len(published) + j /\ published'[i] = Event(i, o, snapshots[j])
        BY <1>5, <3>2
      <4>2. v.status = "completed"
        BY <2>2, <4>1 DEF Event
      <4> QED BY <1>3, <4>1, <4>2 DEF Event
    <3> QED BY <3>1, <3>2
  <2> QED BY <2>1, <2>2 DEF CompletionsRecorded, Done
<1>12. operations' \in [Operations -> Known] /\ durable' \in [Operations -> Known]
       /\ issued \subseteq issued' /\ issued' \subseteq Operations
       /\ Len(published) <= Len(published')
  BY <1>1, <1>2
<1> QED BY <1>1, <1>7, <1>10, <1>11, <1>12 DEF Grows

-----------------------------------------------------------------------------
(* What the growth of the stream leaves true                               *)

\* What was fresh at a place of the stream is so when the stream has grown.
LEMMA FreshKept ==
  ASSUME Typed, Grows, NEW view \in [Operations -> Known], NEW c \in Nat,
         c <= Len(published), Fresh(view, c)
  PROVE  Fresh(view, c)'
<1> SUFFICES ASSUME NEW o \in Operations
             PROVE  \/ view[o] = operations'[o] \/ Says(o, c)'
                    \/ Unsaid(o, view[o])'
  BY DEF Fresh
<1>1. view[o] = operations[o] \/ Says(o, c) \/ Unsaid(o, view[o])
  BY DEF Fresh
<1>2. Moves(o) /\ (poisoned => poisoned') /\ Len(published) <= Len(published')
      /\ Len(published) \in Nat /\ Len(published') \in Nat
      /\ published \in Seq(Events(issued))
  BY TypedIs DEF Grows
<1>3. CASE operations'[o] = operations[o]
  <2>1. Says(o, c) => Says(o, c)'
    <3> SUFFICES ASSUME Says(o, c) PROVE Says(o, c)'
      OBVIOUS
    <3>1. PICK n \in (c + 1)..Len(published) :
            published[n].operation = o /\ published[n].snapshot = operations[o]
      BY DEF Says
    <3>2. n \in DOMAIN published /\ n \in (c + 1)..Len(published')
      BY <1>2, <3>1
    <3>3. published'[n] = published[n]
      BY <3>2 DEF Grows
    <3> QED BY <1>3, <3>1, <3>2, <3>3 DEF Says
  <2>2. Unsaid(o, view[o]) => Unsaid(o, view[o])'
    BY <1>2, <1>3 DEF Unsaid
  <2> QED BY <1>1, <1>3, <2>1, <2>2
<1>4. CASE \E n \in (Len(published) + 1)..Len(published') :
             published'[n].operation = o /\ published'[n].snapshot = operations'[o]
  <2>1. PICK n \in (Len(published) + 1)..Len(published') :
             published'[n].operation = o /\ published'[n].snapshot = operations'[o]
    BY <1>4
  <2>2. n \in (c + 1)..Len(published')
    BY <1>2, <2>1
  <2> QED BY <2>1, <2>2 DEF Says
<1>5. CASE poisoned' /\ operations[o] = Absent /\ operations'[o] = Admitted
  <2>1. ~Says(o, c)
    <3> SUFFICES ASSUME Says(o, c) PROVE FALSE
      OBVIOUS
    <3>1. PICK n \in (c + 1)..Len(published) : published[n].snapshot = Absent
      BY <1>5 DEF Says
    <3>2. published[n] \in Events(issued)
      BY <1>2, <3>1
    <3> QED BY <3>1, <3>2, KnownIs DEF Events
  <2>2. ~Unsaid(o, view[o])
    BY <1>5 DEF Unsaid, Absent, Admitted
  <2> QED BY <1>1, <1>5, <2>1, <2>2 DEF Unsaid, Admitted, Absent
<1> QED BY <1>2, <1>3, <1>4, <1>5 DEF Moves

\* What was completed for the host is so when the stream has grown.
LEMMA DoneKept ==
  ASSUME Grows, NEW o \in Operations, NEW snapshot, Done(o, snapshot)
  PROVE  Done(o, snapshot)'
<1>1. Moves(o)
  BY DEF Grows
<1> QED BY <1>1 DEF Moves, Done

\* What an operation was before, it still was before when the stream has grown.
LEMMA OlderKept ==
  ASSUME Typed, Grows, NEW o \in Operations, NEW k \in Known,
         Older(k, operations[o])
  PROVE  Older(k, operations'[o])
<1>1. Moves(o) /\ operations[o] \in Known /\ operations'[o] \in Known
  BY TypedIs DEF Grows
<1>2. k.revision \in Nat /\ operations[o].revision \in Nat
      /\ operations'[o].revision \in Nat
  BY <1>1, KnownIs
<1>3. CASE operations'[o] = operations[o]
  BY <1>3
<1>4. CASE operations[o].revision < operations'[o].revision
  BY <1>2, <1>4 DEF Older
<1>5. CASE operations[o] = Absent /\ operations'[o] = Admitted
  BY <1>2, <1>5 DEF Older, Absent, Admitted
<1> QED BY <1>1, <1>3, <1>4, <1>5 DEF Moves

\* A part of the stream is the same part when the stream has grown.
LEMMA RunKept ==
  ASSUME Typed, Grows, NEW c \in Nat, NEW s \in Seq(Events(issued)), Run(s, c),
         c + Len(s) <= Len(published)
  PROVE  \A i \in DOMAIN s : s[i] = published'[c + i]
<1> SUFFICES ASSUME NEW i \in DOMAIN s PROVE s[i] = published'[c + i]
  OBVIOUS
<1>1. s[i] = published[c + i]
  BY DEF Run
<1>2. c + i \in DOMAIN published
  <2>1. i \in 1..Len(s) /\ Len(s) \in Nat
    OBVIOUS
  <2> QED BY <2>1, TypedIs
<1> QED BY <1>1, <1>2 DEF Grows

\* The stream has grown and the client's store is as it was: a client that
\* trusts what it shows may go on to do so.
LEMMA TrustKept ==
  ASSUME StreamInv, Grows, store' = store,
         registration = "ready" => registration' = "ready" /\ Base' = Base
  PROVE  TrustSound'
<1> SUFFICES ASSUME Trusting
             PROVE  /\ registration' = "ready" /\ store.cursor.stream = stream'
                    /\ Base' <= store.cursor.sequence
                    /\ store.cursor.sequence <= Len(published')
                    /\ Fresh(store.view, store.cursor.sequence)'
  BY DEF TrustSound, Trusting
<1>1. /\ registration = "ready" /\ store.cursor.stream = stream
      /\ Base <= store.cursor.sequence /\ store.cursor.sequence <= Len(published)
      /\ Fresh(store.view, store.cursor.sequence)
  BY DEF StreamInv, TrustSound
<1>2. Typed /\ store.view \in [Operations -> Known] /\ store.cursor.sequence \in Nat
  BY TypedIs DEF StreamInv, Stores, Cursors
<1>3. PICK view \in [Operations -> Known] : view = store.view
  BY <1>2
<1>4. PICK c \in Nat : c = store.cursor.sequence
  BY <1>2
<1>5. Fresh(view, c)'
  BY <1>1, <1>2, <1>3, <1>4, FreshKept
<1>6. Fresh(store.view, store.cursor.sequence)'
  <2>1. store'.view = view /\ store'.cursor.sequence = c
    BY <1>3, <1>4
  <2> QED BY <1>5, <2>1
<1>7. store.cursor.sequence <= Len(published')
  <2>1. Len(published) \in Nat /\ Len(published') \in Nat
        /\ Len(published) <= Len(published')
    BY <1>2, TypedIs DEF Grows
  <2> QED BY <1>1, <1>2, <2>1
<1> QED BY <1>1, <1>6, <1>7 DEF Grows

\* The same of a snapshot on its way.
LEMMA SnapshotKept ==
  ASSUME StreamInv, Grows, store' = store, snapshotCall' = snapshotCall,
         registration = "ready" => Base' = Base
  PROVE  SnapshotSound'
<1> SUFFICES ASSUME snapshotCall.state = "answered"
             PROVE  /\ snapshotCall.cursor.stream = stream'
                    /\ snapshotCall.cursor.sequence <= Len(published')
                    /\ ~store.bufferFailed => Base' <= snapshotCall.cursor.sequence
                    /\ Fresh(snapshotCall.operations, snapshotCall.cursor.sequence)'
  BY DEF SnapshotSound
<1>1. /\ registration = "ready" /\ snapshotCall.cursor.stream = stream
      /\ snapshotCall.cursor.sequence <= Len(published)
      /\ ~store.bufferFailed => Base <= snapshotCall.cursor.sequence
      /\ Fresh(snapshotCall.operations, snapshotCall.cursor.sequence)
  BY DEF StreamInv, SnapshotSound, RegistrationSound
<1>2. Typed /\ snapshotCall.operations \in [Operations -> Known]
      /\ snapshotCall.cursor.sequence \in Nat
  BY DEF StreamInv, Typed, CallsTyped, Cursors, Idle, Asked
<1>3. PICK view \in [Operations -> Known] : view = snapshotCall.operations
  BY <1>2
<1>4. PICK c \in Nat : c = snapshotCall.cursor.sequence
  BY <1>2
<1>5. Fresh(view, c)'
  BY <1>1, <1>2, <1>3, <1>4, FreshKept
<1>6. Fresh(snapshotCall.operations, snapshotCall.cursor.sequence)'
  <2>1. snapshotCall'.operations = view /\ snapshotCall'.cursor.sequence = c
    BY <1>3, <1>4
  <2> QED BY <1>5, <2>1
<1>7. snapshotCall.cursor.sequence <= Len(published')
  <2>1. Len(published) \in Nat /\ Len(published') \in Nat
        /\ Len(published) <= Len(published')
    BY <1>2, TypedIs DEF Grows
  <2> QED BY <1>1, <1>2, <2>1
<1> QED BY <1>1, <1>6, <1>7 DEF Grows

\* What the client knows of completed work is so for the host that has gone on.
LEMMA KnownKept ==
  ASSUME StreamInv, Grows, store' = store,
         snapshotCall'.state = "answered" =>
           \/ snapshotCall' = snapshotCall
           \/ snapshotCall'.operations = operations',
         operationCall'.state = "answered" =>
           \/ operationCall' = operationCall
           \/ operationCall'.snapshot = operations'[operationCall'.operation]
  PROVE  CompletionsKnown'
<1>1. CompletionsKnown /\ Typed
  BY DEF StreamInv
<1>2. \A o \in Operations : Done(o, store.view[o])'
  <2> TAKE o \in Operations
  <2>1. PICK k : k = store.view[o]
    OBVIOUS
  <2>2. Done(o, k)'
    BY <1>1, <2>1, DoneKept DEF CompletionsKnown
  <2> QED BY <2>1, <2>2 DEF Done
<1>3. ASSUME snapshotCall'.state = "answered", NEW o \in Operations
      PROVE  Done(o, snapshotCall.operations[o])'
  <2>1. CASE snapshotCall' = snapshotCall
    <3>1. PICK k : k = snapshotCall.operations[o]
      OBVIOUS
    <3>2. Done(o, k)
      BY <1>1, <1>3, <2>1, <3>1 DEF CompletionsKnown
    <3>3. Done(o, k)'
      BY <3>2, DoneKept
    <3> QED BY <2>1, <3>1, <3>3 DEF Done
  <2>2. CASE snapshotCall'.operations = operations'
    BY <2>2 DEF Done
  <2> QED BY <1>3, <2>1, <2>2
<1>4. ASSUME operationCall'.state = "answered"
      PROVE  Done(operationCall.operation, operationCall.snapshot)'
  <2>1. CASE operationCall' = operationCall
    <3>1. operationCall.operation \in Operations
      BY <1>1, <1>4, <2>1 DEF Typed, CallsTyped, Idle
    <3>2. PICK o \in Operations : o = operationCall.operation
      BY <3>1
    <3>3. PICK k : k = operationCall.snapshot
      OBVIOUS
    <3>4. Done(o, k)
      BY <1>1, <1>4, <2>1, <3>2, <3>3 DEF CompletionsKnown
    <3>5. Done(o, k)'
      BY <3>4, DoneKept
    <3> QED BY <2>1, <3>2, <3>3, <3>5 DEF Done
  <2>2. CASE operationCall'.snapshot = operations'[operationCall'.operation]
    BY <2>2 DEF Done
  <2> QED BY <1>4, <2>1, <2>2
<1> QED BY <1>2, <1>3, <1>4 DEF CompletionsKnown

\* An answer on its way says what the host has now, or had before.
LEMMA ReplyKept ==
  ASSUME StreamInv, Grows,
         operationCall'.state = "answered" =>
           \/ operationCall' = operationCall
           \/ operationCall'.snapshot = operations'[operationCall'.operation]
  PROVE  ReplySound'
<1> SUFFICES ASSUME operationCall'.state = "answered"
             PROVE  Older(operationCall'.snapshot,
                          operations'[operationCall'.operation])
  BY DEF ReplySound, Older
<1>1. CASE operationCall' = operationCall
  <2>1. Typed /\ operationCall.operation \in Operations
        /\ operationCall.snapshot \in Known
        /\ Older(operationCall.snapshot, operations[operationCall.operation])
    BY <1>1 DEF StreamInv, Typed, CallsTyped, Idle, ReplySound
  <2> QED BY <1>1, <2>1, OlderKept
<1>2. CASE operationCall'.snapshot = operations'[operationCall'.operation]
  BY <1>2 DEF Older
<1> QED BY <1>1, <1>2

-----------------------------------------------------------------------------
(* The owner's turn                                                        *)

\* An owner's step keeps the types, if what it does to the subscription and to
\* the calls does.
LEMMA OwnerTyped ==
  ASSUME Typed, Grows, store' = store, carried' = carried, CallsTyped',
         failed' \in BOOLEAN, phase' \in {"receive", "pump"},
         registration' \in {"none", "asked", "ready"}, fault' \in BOOLEAN,
         observer' \in [live : BOOLEAN, cursor : Nat],
         observer'.cursor <= Len(published'),
         queue' \in Seq(Events(issued')), Len(queue') <= MaxObserverEvents
  PROVE  Typed'
<1>1. Events(issued) \subseteq Events(issued')
  BY EventsWiden DEF Grows
<1>2. /\ carried' \in Seq(Events(issued')) /\ Len(carried') <= 1
  <2>1. carried \in Seq(Events(issued)) /\ Len(carried) <= 1
    BY DEF Typed, TypeOK
  <2> QED BY <1>1, <2>1, SeqWidens
<1>3. store' \in Stores(issued')
  <2>1. store.buffer \in Seq(Events(issued'))
    BY <1>1, TypedIs, SeqWidens
  <2> QED BY <2>1, TypedIs DEF Stores
<1>4. snapshotCall'.state \in {"idle", "asked", "answered"}
      /\ operationCall'.state \in {"idle", "asked", "answered"}
  BY DEF CallsTyped, Idle, Asked
<1>5. stream' \in 1..MaxStreams
      /\ operations' \in [Operations -> Snapshots \cup {Absent}]
      /\ durable' \in [Operations -> Snapshots \cup {Absent}]
      /\ issued' \subseteq Operations /\ published' \in Seq(Events(issued'))
      /\ poisoned' \in BOOLEAN
  BY TypedIs DEF Grows, Known
<1>6. store'.confidence \in {"uninitialized", "anchored", "stale"}
      /\ store'.view \in [Operations -> Snapshots \cup {Absent}]
      /\ Len(store'.buffer) <= MaxBufferedEvents
  BY DEF Typed, TypeOK
<1>7. observer'.live \in BOOLEAN /\ observer'.cursor \in 0..Len(published')
  <2>1. Len(published') \in Nat /\ observer'.cursor \in Nat
    BY <1>5
  <2> QED BY <2>1
<1>8. TypeOK'
  BY <1>2, <1>4, <1>5, <1>6, <1>7 DEF TypeOK
<1> QED BY <1>3, <1>8 DEF Typed

\* How long what is coming is.
LEMMA ComingIs ==
  ASSUME StreamInv
  PROVE  /\ Base \in Nat
         /\ Base + Len(store.buffer) \in Nat
         /\ Base + Len(store.buffer) + Len(carried) \in Nat
         /\ Base + Len(store.buffer) + Len(carried) + Len(queue) = observer.cursor
         /\ Base + Len(store.buffer) + Len(carried) + Len(queue) <= Len(published)
         /\ Len(store.buffer) \in Nat /\ Len(carried) \in Nat /\ Len(queue) \in Nat
<1>1. Base \in Nat /\ Typed
  BY DEF StreamInv, ComingSound
<1>2. /\ Len(store.buffer) \in Nat /\ Len(carried) \in Nat /\ Len(queue) \in Nat
      /\ observer.cursor \in Nat /\ observer.cursor <= Len(published)
      /\ Len(published) \in Nat
  BY <1>1, TypedIs
<1>3. Base = observer.cursor - Len(queue) - Len(carried) - Len(store.buffer)
  BY DEF Base
<1>4. PICK a \in Nat, b \in Nat, d \in Nat, e \in Nat, n \in Nat, k \in Nat :
        /\ a = observer.cursor /\ b = Len(queue) /\ d = Len(carried)
        /\ e = Len(store.buffer) /\ n = Len(published) /\ k = Base
  BY <1>1, <1>2
<1>5. k = a - b - d - e /\ a <= n
  BY <1>2, <1>3, <1>4
<1>6. k + e \in Nat /\ k + e + d \in Nat /\ k + e + d + b = a
  BY <1>5
<1> QED BY <1>2, <1>4, <1>5, <1>6

\* What is coming goes on to be the end of what was sent, when what is sent is
\* put behind it.
LEMMA ComingKept ==
  ASSUME StreamInv, Grows, store' = store, carried' = carried, Base' = Base,
         queue' = queue
         \/ \A i \in DOMAIN queue' :
              queue'[i] = published'[Base + Len(store.buffer) + Len(carried) + i]
  PROVE  ComingSound'
<1>1. Typed /\ Run(store.buffer, Base) /\ Run(carried, Base + Len(store.buffer))
      /\ Run(queue, Base + Len(store.buffer) + Len(carried))
  BY DEF StreamInv, ComingSound
<1>2. /\ Base \in Nat
      /\ Base + Len(store.buffer) \in Nat
      /\ Base + Len(store.buffer) + Len(carried) \in Nat
      /\ Base + Len(store.buffer) + Len(carried) + Len(queue) <= Len(published)
      /\ Base + Len(store.buffer) + Len(carried) <= Len(published)
      /\ Base + Len(store.buffer) <= Len(published)
  <2>1. Len(published) \in Nat
    BY <1>1, TypedIs
  <2> QED BY <2>1, ComingIs
<1>3. \A i \in DOMAIN store.buffer : store.buffer[i] = published'[Base + i]
  BY <1>1, <1>2, TypedIs, RunKept
<1>4. \A i \in DOMAIN carried : carried[i] = published'[Base + Len(store.buffer) + i]
  BY <1>1, <1>2, TypedIs, RunKept
<1>5. \A i \in DOMAIN queue' :
        queue'[i] = published'[Base + Len(store.buffer) + Len(carried) + i]
  <2>1. CASE queue' = queue
    BY <1>1, <1>2, <2>1, TypedIs, RunKept
  <2>2. CASE queue' # queue
    BY <2>2
  <2> QED BY <2>1, <2>2
<1>6. Run(store.buffer, Base)' /\ Run(carried, Base + Len(store.buffer))'
      /\ Run(queue, Base + Len(store.buffer) + Len(carried))'
  BY <1>3, <1>4, <1>5 DEF Run
<1> QED BY <1>2, <1>6 DEF ComingSound

\* What a turn's first half can do to the calls.
Serves ==
  /\ \/ snapshotCall' = snapshotCall
     \/ /\ registration = "ready" /\ snapshotCall = Asked /\ UNCHANGED engine
        /\ snapshotCall' = [state |-> "answered", cursor |-> CursorNow,
                            operations |-> operations]
  /\ \/ operationCall' = operationCall
     \/ operationCall' = Idle
     \/ /\ registration = "ready" /\ operationCall.state = "asked"
        /\ operationCall' = [state |-> "answered",
                             operation |-> operationCall.operation,
                             snapshot |-> operations'[operationCall.operation]]

\* A request is answered, or someone else's is.
LEMMA ReceiveKeeps ==
  ASSUME StreamInv, Grows, Serves, phase' = "pump", failed' = failed,
         UNCHANGED <<registration, observer, fault, queue, carried, store>>
  PROVE  StreamInv'
<1>1. Typed /\ StreamSound /\ CompletionsRecorded /\ CompletionsKnown
      /\ RegistrationSound /\ BufferSound
  BY DEF StreamInv
<1>2. Base' = Base
  BY DEF Base
<1>3. CallsTyped'
  <2>1. CursorNow \in Cursors /\ operations \in [Operations -> Known]
        /\ operations' \in [Operations -> Known]
    BY <1>1, TypedIs DEF CursorNow, Cursors, Grows
  <2>2. CallsTyped
    BY <1>1 DEF Typed
  <2>3. operationCall.state = "asked" => operationCall.operation \in Operations
    BY <2>2 DEF CallsTyped, Idle
  <2>4. snapshotCall' \in {Idle, Asked} \cup
       [state : {"answered"}, cursor : Cursors, operations : [Operations -> Known]]
    BY <2>1, <2>2 DEF CallsTyped, Serves
  <2>5. operationCall' \in {Idle} \cup [state : {"asked"}, operation : Operations] \cup
       [state : {"answered"}, operation : Operations, snapshot : Known]
    BY <2>1, <2>2, <2>3 DEF CallsTyped, Serves
  <2> QED BY <2>4, <2>5 DEF CallsTyped
<1>4. Typed'
  <2>1. failed \in BOOLEAN /\ registration \in {"none", "asked", "ready"}
        /\ fault \in BOOLEAN /\ Len(queue) <= MaxObserverEvents
    BY <1>1 DEF Typed, TypeOK
  <2>2. observer'.cursor <= Len(published') /\ observer' \in [live : BOOLEAN, cursor : Nat]
    <3>1. observer.cursor \in Nat /\ Len(published) \in Nat
          /\ Len(published') \in Nat /\ Len(published) <= Len(published')
      BY <1>1, TypedIs DEF Grows
    <3> QED BY <1>1, <3>1, TypedIs
  <2>3. queue' \in Seq(Events(issued'))
    BY <1>1, TypedIs, EventsWiden, SeqWidens DEF Grows
  <2> QED BY <1>1, <1>3, <2>1, <2>2, <2>3, OwnerTyped
<1>5. StreamSound' /\ CompletionsRecorded'
  BY DEF Grows
<1>6. CompletionsKnown'
  <2>1. snapshotCall'.state = "answered" =>
           \/ snapshotCall' = snapshotCall
           \/ snapshotCall'.operations = operations'
    BY DEF Serves, engine
  <2>2. operationCall'.state = "answered" =>
           \/ operationCall' = operationCall
           \/ operationCall'.snapshot = operations'[operationCall'.operation]
    BY DEF Serves, Idle
  <2> QED BY <2>1, <2>2, KnownKept
<1>7. RegistrationSound'
  <2>1. registration # "ready" => snapshotCall' = snapshotCall
    BY DEF Serves
  <2>2. registration # "ready" => operationCall' \in {operationCall, Idle}
    BY DEF Serves
  <2> QED BY <1>1, <2>1, <2>2 DEF RegistrationSound, Idle, Trusting
<1>8. ComingSound'
  BY <1>2, ComingKept
<1>9. BufferSound'
  BY <1>1 DEF BufferSound, Trusting, Serves, Idle, Asked
<1>10. TrustSound'
  BY <1>2, TrustKept
<1>11. SnapshotSound'
  <2>1. CASE snapshotCall' = snapshotCall
    BY <1>2, <2>1, SnapshotKept
  <2>2. CASE snapshotCall' # snapshotCall
    <3>1. snapshotCall' = [state |-> "answered", cursor |-> CursorNow,
                           operations |-> operations] /\ UNCHANGED engine
      BY <2>2 DEF Serves
    <3>2. /\ snapshotCall'.cursor.stream = stream'
          /\ snapshotCall'.cursor.sequence = Len(published')
          /\ snapshotCall'.operations = operations'
      BY <3>1 DEF CursorNow, engine
    <3>3. Fresh(snapshotCall.operations, snapshotCall.cursor.sequence)'
      BY <3>2 DEF Fresh
    <3>4. Base <= Len(published') /\ Len(published') \in Nat
      <4>1. Len(published) \in Nat /\ published' = published
        BY <1>1, <3>1, TypedIs DEF engine
      <4> QED BY <4>1, ComingIs
    <3> QED BY <1>2, <3>2, <3>3, <3>4 DEF SnapshotSound
  <2> QED BY <2>1, <2>2
<1>12. ReplySound'
  <2>1. operationCall'.state = "answered" =>
           \/ operationCall' = operationCall
           \/ operationCall'.snapshot = operations'[operationCall'.operation]
    BY DEF Serves, Idle
  <2> QED BY <2>1, ReplyKept
<1> QED BY <1>4, <1>5, <1>6, <1>7, <1>8, <1>9, <1>10, <1>11, <1>12 DEF StreamInv

\* The smaller of two numbers.
LEMMA MinIs ==
  ASSUME NEW a \in Nat, NEW b \in Nat
  PROVE  Min({a, b}) \in Nat /\ Min({a, b}) <= a /\ Min({a, b}) <= b
<1>1. \E x \in {a, b} : \A y \in {a, b} : x <= y
  OBVIOUS
<1>2. Min({a, b}) \in {a, b} /\ \A y \in {a, b} : Min({a, b}) <= y
  BY <1>1 DEF Min
<1> QED BY <1>2

\* What a middle part of a sequence is.
LEMMA SubSeqIs ==
  ASSUME NEW S, NEW s \in Seq(S), NEW m \in Nat, NEW n \in Nat,
         m <= n, n <= Len(s)
  PROVE  /\ SubSeq(s, m + 1, n) \in Seq(S)
         /\ Len(SubSeq(s, m + 1, n)) = n - m
         /\ \A i \in 1..(n - m) : SubSeq(s, m + 1, n)[i] = s[m + i]
<1>1. m + 1 \in 1..(Len(s) + 1) /\ n \in m..Len(s) /\ Len(s) \in Nat
  OBVIOUS
<1>2. \A i \in (m + 1)..n : s[i] \in S
  BY <1>1
<1>3. SubSeq(s, m + 1, n) = [i \in 1..(n - m) |-> s[m + i]]
  <2>1. SubSeq(s, m + 1, n) = [i \in 1..(1 + n - (m + 1)) |-> s[i + (m + 1) - 1]]
    BY <1>1
  <2>2. 1 + n - (m + 1) = n - m /\ \A i \in Nat : i + (m + 1) - 1 = m + i
    OBVIOUS
  <2>3. \A i \in 1..(n - m) : i \in Nat
    OBVIOUS
  <2> QED BY <2>1, <2>2, <2>3
<1>4. n - m \in Nat /\ \A i \in 1..(n - m) : m + i \in (m + 1)..n
  OBVIOUS
<1>5. [i \in 1..(n - m) |-> s[m + i]] \in [1..(n - m) -> S]
  BY <1>2, <1>4
<1>6. \A T, k, t : k \in Nat /\ t \in [1..k -> T] => t \in Seq(T) /\ Len(t) = k
  OBVIOUS
<1>7. [i \in 1..(n - m) |-> s[m + i]] \in Seq(S)
      /\ Len([i \in 1..(n - m) |-> s[m + i]]) = n - m
  BY <1>4, <1>5, <1>6, Zenon
<1> QED BY <1>3, <1>7

\* What is delivered continues what was, as far as there is room.
LEMMA DeliverBatchIs ==
  ASSUME StreamInv, Grows, store' = store, carried' = carried, DeliverBatch
  PROVE  /\ queue' \in Seq(Events(issued')) /\ Len(queue') <= MaxObserverEvents
         /\ observer' \in [live : BOOLEAN, cursor : Nat]
         /\ observer'.cursor <= Len(published')
         /\ fault' \in BOOLEAN /\ (observer'.live \/ fault')
         /\ Base' = Base
         /\ \A i \in DOMAIN queue' :
              queue'[i] = published'[Base + Len(store.buffer) + Len(carried) + i]
<1> DEFINE room == MaxObserverEvents - Len(queue)
           m == Min({room, Len(Undelivered)})
           sent == SubSeq(Undelivered, 1, m)
           c == observer.cursor
           n == Len(published')
<1>1. /\ queue' = queue \o sent
      /\ observer' = [live |-> sent = Undelivered, cursor |-> c + Len(sent)]
      /\ fault' = (fault \/ sent # Undelivered)
  BY DEF DeliverBatch
<1>2. /\ Typed /\ fault \in BOOLEAN /\ published' \in Seq(Events(issued'))
      /\ c \in Nat /\ n \in Nat /\ c <= n
      /\ Len(queue) \in Nat /\ Len(queue) <= MaxObserverEvents
      /\ room \in Nat
  <2>1. Typed /\ fault \in BOOLEAN /\ Len(queue) <= MaxObserverEvents
    BY DEF StreamInv, Typed, TypeOK
  <2>2. published' \in Seq(Events(issued')) /\ Len(published) <= n
    BY DEF Grows
  <2>3. c \in Nat /\ c <= Len(published) /\ Len(published) \in Nat
        /\ Len(queue) \in Nat
    BY <2>1, TypedIs
  <2>4. n \in Nat
    BY <2>2
  <2>5. MaxObserverEvents \in Nat
    BY StreamAssumption
  <2>6. c <= n
    BY <2>2, <2>3, <2>4
  <2>7. room \in Nat
    BY <2>1, <2>3, <2>5
  <2> QED BY <2>1, <2>2, <2>3, <2>4, <2>6, <2>7
<1>3. /\ Undelivered \in Seq(Events(issued')) /\ Len(Undelivered) = n - c
      /\ \A i \in 1..(n - c) : Undelivered[i] = published'[c + i]
  <2>1. PICK S : S = Events(issued')
    OBVIOUS
  <2>2. PICK s \in Seq(S) : s = published'
    BY <1>2, <2>1
  <2>3. PICK a \in Nat, b \in Nat : a = c /\ b = n /\ a <= b /\ b = Len(s)
    BY <1>2, <2>2
  <2>4. /\ SubSeq(s, a + 1, b) \in Seq(S) /\ Len(SubSeq(s, a + 1, b)) = b - a
        /\ \A i \in 1..(b - a) : SubSeq(s, a + 1, b)[i] = s[a + i]
    BY <2>3, SubSeqIs
  <2>5. Undelivered = SubSeq(s, a + 1, b)
    BY <2>2, <2>3 DEF Undelivered
  <2> QED BY <2>1, <2>2, <2>3, <2>4, <2>5
<1>4. m \in Nat /\ m <= room /\ m <= n - c /\ n - c \in Nat
  <2>1. n - c \in Nat
    BY <1>2
  <2>2. Len(Undelivered) = n - c
    BY <1>3
  <2> HIDE DEF room, c, n
  <2> QED BY <1>2, <2>1, <2>2, MinIs
<1>5. /\ sent \in Seq(Events(issued')) /\ Len(sent) = m
      /\ \A i \in 1..m : sent[i] = published'[c + i]
  <2>1. PICK S : S = Events(issued')
    OBVIOUS
  <2>2. PICK s \in Seq(S) : s = Undelivered
    BY <1>3, <2>1
  <2>3. PICK b \in Nat : b = m /\ b <= Len(s)
    <3> HIDE DEF m, n, c
    <3> QED BY <1>3, <1>4, <2>2
  <2>4. PICK a \in Nat : a = 0 /\ a <= b
    OBVIOUS
  <2>5. /\ SubSeq(s, a + 1, b) \in Seq(S) /\ Len(SubSeq(s, a + 1, b)) = b - a
        /\ \A i \in 1..(b - a) : SubSeq(s, a + 1, b)[i] = s[a + i]
    <3>1. b <= Len(s)
      BY <2>3
    <3> HIDE DEF m, n, c, room, sent
    <3> QED BY <2>4, <3>1, SubSeqIs
  <2>6. a + 1 = 1 /\ b - a = b /\ \A i \in 1..b : a + i = i
    BY <2>4
  <2>7. sent = SubSeq(s, 1, b)
    BY <2>2, <2>3
  <2> HIDE DEF m, n, c, sent
  <2>8. \A i \in 1..b : i \in 1..(n - c)
    BY <1>3, <1>4, <2>3
  <2> QED BY <1>3, <2>1, <2>2, <2>3, <2>5, <2>6, <2>7, <2>8
<1> HIDE DEF sent, m
<1>6. /\ queue \o sent \in Seq(Events(issued'))
      /\ Len(queue \o sent) = Len(queue) + m
      /\ \A i \in 1..Len(queue) : (queue \o sent)[i] = queue[i]
      /\ \A i \in 1..m : (queue \o sent)[Len(queue) + i] = sent[i]
  <2>1. queue \in Seq(Events(issued'))
    <3>1. Events(issued) \subseteq Events(issued')
      BY EventsWiden DEF Grows
    <3> QED BY <1>2, <3>1, TypedIs, SeqWidens
  <2>2. PICK S : S = Events(issued')
    OBVIOUS
  <2>3. PICK s \in Seq(S), t \in Seq(S) : s = queue /\ t = sent
    BY <1>5, <2>1, <2>2
  <2>4. /\ s \o t \in Seq(S) /\ Len(s \o t) = Len(s) + Len(t)
        /\ \A i \in 1..Len(s) : (s \o t)[i] = s[i]
        /\ \A i \in 1..Len(t) : (s \o t)[Len(s) + i] = t[i]
    BY ConcatIs
  <2> QED BY <1>5, <2>2, <2>3, <2>4
<1>7. queue' \in Seq(Events(issued')) /\ Len(queue') = Len(queue) + m
  BY <1>1, <1>6
<1>8. Len(queue') <= MaxObserverEvents
  <2>1. MaxObserverEvents \in Nat
    BY StreamAssumption
  <2> QED BY <1>2, <1>4, <1>7, <2>1
<1>9. observer'.cursor = c + m /\ c + m <= n /\ c + m \in Nat
  BY <1>1, <1>2, <1>4, <1>5
<1>10. observer' \in [live : BOOLEAN, cursor : Nat]
  BY <1>1, <1>9
<1>11. fault' \in BOOLEAN /\ (observer'.live \/ fault')
  BY <1>1, <1>2
<1>12. Base' = Base
  <2>1. Base' = observer'.cursor - Len(queue') - Len(carried) - Len(store.buffer)
    BY DEF Base
  <2>2. Base = c - Len(queue) - Len(carried) - Len(store.buffer)
    BY DEF Base
  <2>3. Len(carried) \in Nat /\ Len(store.buffer) \in Nat
    BY ComingIs
  <2> HIDE DEF c
  <2> QED BY <1>2, <1>4, <1>7, <1>9, <2>1, <2>2, <2>3
<1>13. ASSUME NEW i \in DOMAIN queue'
       PROVE  queue'[i] = published'[Base + Len(store.buffer) + Len(carried) + i]
  <2> DEFINE b == Base + Len(store.buffer) + Len(carried)
  <2>1. b \in Nat /\ b + Len(queue) = c /\ Run(queue, b)
    BY ComingIs DEF StreamInv, ComingSound
  <2>2. DOMAIN queue' = 1..(Len(queue) + m)
    BY <1>7
  <2>3. CASE i \in 1..Len(queue)
    <3>1. queue \in Seq(Events(issued)) /\ DOMAIN queue = 1..Len(queue)
      BY <1>2, TypedIs
    <3>2. PICK s \in Seq(Events(issued)) : s = queue
      BY <3>1
    <3>3. PICK a \in Nat : a = b /\ Run(s, a)
      BY <2>1, <3>2
    <3>4. a + Len(s) <= Len(published)
      <4>1. a + Len(s) = c /\ c <= Len(published)
        BY <1>2, <2>1, <3>2, <3>3, TypedIs
      <4> QED BY <4>1
    <3>5. s[i] = published'[a + i]
      BY <1>2, <2>3, <3>1, <3>2, <3>3, <3>4, RunKept
    <3> QED BY <1>1, <1>6, <2>3, <3>2, <3>3, <3>5
  <2>4. CASE i \notin 1..Len(queue)
    <3>1. i - Len(queue) \in 1..m /\ i = Len(queue) + (i - Len(queue))
      BY <1>2, <1>4, <2>2, <2>4
    <3>2. PICK j \in 1..m : i = Len(queue) + j
      BY <3>1
    <3>3. queue'[i] = published'[c + j]
      BY <1>1, <1>5, <1>6, <3>2
    <3>4. c + j = b + i
      <4> HIDE DEF b, c
      <4> QED BY <1>2, <1>4, <2>1, <3>2
    <3> QED BY <3>3, <3>4
  <2> QED BY <2>3, <2>4
<1> QED BY <1>7, <1>8, <1>9, <1>10, <1>11, <1>12, <1>13

\* The second half of a turn: what the engine has published is delivered, as far
\* as there is room, or every observer is ended.
LEMMA PumpKeeps ==
  ASSUME StreamInv, Grows, phase' = "receive", failed' \in BOOLEAN, Deliver,
         UNCHANGED <<registration, carried, calls, store>>
  PROVE  StreamInv'
<1>1. Typed /\ StreamSound /\ CompletionsRecorded /\ CompletionsKnown
      /\ RegistrationSound /\ BufferSound
  BY DEF StreamInv
<1>2. snapshotCall' = snapshotCall /\ operationCall' = operationCall
      /\ registration' = registration /\ carried' = carried /\ store' = store
  BY DEF calls
<1>3. Len(published) \in Nat /\ Len(published') \in Nat
      /\ Len(published) <= Len(published')
      /\ observer \in [live : BOOLEAN, cursor : Nat]
      /\ observer.cursor <= Len(published)
  BY <1>1, TypedIs DEF Grows
<1>4. observer.cursor <= Len(published')
  BY <1>3
<1>5. /\ queue' \in Seq(Events(issued')) /\ Len(queue') <= MaxObserverEvents
      /\ observer' \in [live : BOOLEAN, cursor : Nat]
      /\ observer'.cursor <= Len(published')
      /\ fault' \in BOOLEAN
      /\ observer.live \/ fault => observer'.live \/ fault'
      /\ ~observer.live => UNCHANGED <<queue, observer, fault>>
      /\ Base' = Base
      /\ \/ queue' = queue
         \/ \A i \in DOMAIN queue' :
              queue'[i] = published'[Base + Len(store.buffer) + Len(carried) + i]
  <2>1. queue \in Seq(Events(issued')) /\ Len(queue) <= MaxObserverEvents
        /\ fault \in BOOLEAN
    <3>1. Len(queue) <= MaxObserverEvents /\ fault \in BOOLEAN
      BY <1>1 DEF Typed, TypeOK
    <3> QED BY <1>1, <3>1, TypedIs, EventsWiden, SeqWidens DEF Grows
  <2>2. CASE failed'
    <3>1. observer' = [observer EXCEPT !.live = FALSE] /\ queue' = queue
          /\ fault' = (fault \/ observer.live)
      BY <2>2 DEF Deliver
    <3>2. observer'.cursor = observer.cursor /\ ~observer'.live
          /\ observer' \in [live : BOOLEAN, cursor : Nat]
      BY <1>3, <3>1
    <3>3. Base' = Base
      BY <1>2, <3>1, <3>2 DEF Base
    <3>4. ~observer.live => observer' = observer /\ fault' = fault
      BY <1>3, <2>1, <3>1
    <3>5. fault' \in BOOLEAN
      BY <3>1
    <3> QED BY <1>4, <2>1, <3>1, <3>2, <3>3, <3>4, <3>5
  <2>3. CASE ~failed' /\ observer.live
    <3>1. DeliverBatch
      BY <2>3 DEF Deliver
    <3> QED BY <1>2, <2>3, <3>1, DeliverBatchIs
  <2>4. CASE ~failed' /\ ~observer.live
    <3>1. queue' = queue /\ observer' = observer /\ fault' = fault
      BY <2>4 DEF Deliver
    <3>2. Base' = Base
      BY <1>2, <3>1 DEF Base
    <3> QED BY <1>3, <1>4, <2>1, <3>1, <3>2
  <2> QED BY <2>2, <2>3, <2>4
<1>6. CallsTyped'
  BY <1>1, <1>2 DEF Typed, CallsTyped
<1>7. Typed'
  <2>1. registration \in {"none", "asked", "ready"}
    BY <1>1 DEF Typed, TypeOK
  <2> QED BY <1>1, <1>2, <1>5, <1>6, <2>1, OwnerTyped
<1>8. StreamSound' /\ CompletionsRecorded'
  BY DEF Grows
<1>9. CompletionsKnown' /\ ReplySound'
  BY <1>2, KnownKept, ReplyKept
<1>10. RegistrationSound'
  BY <1>1, <1>2, <1>5 DEF RegistrationSound, Trusting
<1>11. ComingSound'
  BY <1>2, <1>5, ComingKept
<1>12. BufferSound'
  BY <1>1, <1>2 DEF BufferSound, Trusting
<1>13. TrustSound' /\ SnapshotSound'
  BY <1>2, <1>5, TrustKept, SnapshotKept
<1> QED BY <1>7, <1>8, <1>9, <1>10, <1>11, <1>12, <1>13 DEF StreamInv

\* A registration is asked for, and the owner begins to serve it or answers with
\* its fault.
LEMMA SubscribeKeeps ==
  ASSUME StreamInv, Subscribe
  PROVE  StreamInv'
<1>1. Typed /\ StreamSound /\ CompletionsRecorded /\ CompletionsKnown
      /\ RegistrationSound /\ BufferSound
  BY DEF StreamInv
<1>2. /\ registration = "asked" /\ ~fault /\ fault' = failed /\ phase' = "pump"
      /\ registration' = (IF failed THEN "asked" ELSE "ready")
      /\ observer' = [live |-> ~failed, cursor |-> Len(published)]
      /\ UNCHANGED engine /\ failed' = failed /\ queue' = queue
      /\ carried' = carried /\ snapshotCall' = snapshotCall
      /\ operationCall' = operationCall /\ store' = store
  BY DEF Subscribe, EndReceive, calls
<1>3. Grows
  BY <1>1, <1>2, EngineRests
<1>4. /\ queue = <<>> /\ carried = <<>> /\ store.buffer = <<>> /\ ~Trusting
      /\ snapshotCall.state # "answered" /\ operationCall.state # "answered"
  BY <1>1, <1>2 DEF RegistrationSound
<1>5. Len(published) \in Nat /\ failed \in BOOLEAN /\ published' = published
      /\ issued' = issued
  BY <1>1, <1>2, TypedIs DEF Typed, TypeOK, engine
<1>6. CallsTyped'
  BY <1>1, <1>2 DEF Typed, CallsTyped
<1>7. Typed'
  <2>1. observer' \in [live : BOOLEAN, cursor : Nat]
        /\ observer'.cursor <= Len(published')
    BY <1>2, <1>5
  <2>2. queue' \in Seq(Events(issued')) /\ Len(queue') <= MaxObserverEvents
    BY <1>1, <1>2, <1>5, TypedIs DEF Typed, TypeOK
  <2> QED BY <1>1, <1>2, <1>3, <1>5, <1>6, <2>1, <2>2, OwnerTyped
<1>8. StreamSound' /\ CompletionsRecorded'
  BY <1>3 DEF Grows
<1>9. CompletionsKnown' /\ ReplySound'
  BY <1>2, <1>3, KnownKept, ReplyKept
<1>10. RegistrationSound'
  BY <1>2, <1>4, <1>5 DEF RegistrationSound, Trusting
<1>11. ComingSound'
  <2>1. queue' = <<>> /\ carried' = <<>> /\ store'.buffer = <<>>
        /\ Len(<<>>) = 0
    BY <1>2, <1>4
  <2>2. observer'.cursor = Len(published)
    BY <1>2
  <2>3. Base' = Len(published)
    BY <1>5, <2>1, <2>2 DEF Base
  <2> QED BY <1>5, <2>1, <2>3 DEF ComingSound, Run
<1>12. BufferSound'
  BY <1>1, <1>2 DEF BufferSound, Trusting
<1>13. TrustSound' /\ SnapshotSound'
  BY <1>2, <1>4 DEF TrustSound, SnapshotSound, Trusting
<1> QED BY <1>7, <1>8, <1>9, <1>10, <1>11, <1>12, <1>13 DEF StreamInv

-----------------------------------------------------------------------------
(* The steps of the engine                                                 *)

\* What is known of an operation that was only admitted.
LEMMA AdmittedIs ==
  Admitted \in Snapshots /\ Admitted.revision = 1 /\ Admitted.status = "active"
BY DEF Admitted, Snapshots, Statuses

\* What is known of an operation that nobody knows.
LEMMA AbsentIs == Absent.revision = 0 /\ Absent.status = "absent"
BY DEF Absent

\* Nothing is published.
LEMMA PublishesNothing ==
  ASSUME Typed, NEW o, published' = published
  PROVE  Publish(o, <<>>) /\ <<>> \in Seq(Snapshots)
<1>1. published \in Seq(Events(issued))
  BY TypedIs
<1>2. PICK new : new = [i \in DOMAIN <<>> |-> Event(Len(published) + i, o, <<>>[i])]
  OBVIOUS
<1>3. new = <<>>
  BY <1>2
<1>4. published \o new = published
  BY <1>1, <1>3
<1>5. Publish(o, <<>>)
  BY <1>2, <1>4 DEF Publish
<1> QED BY <1>5

\* One snapshot as a sequence.
LEMMA SnapshotsAre ==
  \A c \in Snapshots :
    <<c>> \in Seq(Snapshots) /\ Len(<<c>>) = 1 /\ <<c>>[1] = c /\ <<c>> # <<>>
OBVIOUS

\* An append that fails publishes nothing.
LEMMA UncertainGrows ==
  ASSUME Typed, StreamSound, CompletionsRecorded,
         NEW o \in Operations, NEW c \in Snapshots, PersistUncertain(o, c),
         issued' = issued \cup {o},
         operations[o] = Absent => c = Admitted,
         operations[o].status = "completed" => c.status = "completed"
  PROVE  Grows
<1>1. /\ stream' = stream /\ published' = published /\ poisoned'
      /\ durable' \in {durable, [durable EXCEPT ![o] = c]}
      /\ operations' = IF operations[o] = Absent
                       THEN [operations EXCEPT ![o] = c] ELSE operations
  BY DEF PersistUncertain
<1>2. operations \in [Operations -> Known] /\ durable \in [Operations -> Known]
      /\ c \in Known
  BY TypedIs, KnownIs
<1>3. Publish(o, <<>>) /\ <<>> \in Seq(Snapshots)
  BY <1>1, PublishesNothing
<1>4. PICK v \in Known :
        /\ operations' = [operations EXCEPT ![o] = v]
        /\ v = operations[o] \/ (operations[o] = Absent /\ v = c /\ c = Admitted)
  <2>1. operations = [operations EXCEPT ![o] = operations[o]] /\ operations[o] \in Known
    BY <1>2
  <2>2. CASE operations[o] = Absent
    <3>1. operations' = [operations EXCEPT ![o] = c] /\ c = Admitted
      BY <1>1, <2>2
    <3> QED BY <1>2, <2>2, <3>1
  <2>3. CASE operations[o] # Absent
    BY <1>1, <2>1, <2>3
  <2> QED BY <2>2, <2>3
<1>5. PICK d \in Known :
        durable' = [durable EXCEPT ![o] = d] /\ d \in {durable[o], c}
  <2>1. durable = [durable EXCEPT ![o] = durable[o]] /\ durable[o] \in Known
    BY <1>2
  <2> QED BY <1>1, <1>2, <2>1
<1>6. v.status = "completed" => d.status = "completed"
  BY <1>4, <1>5, AdmittedIs DEF CompletionsRecorded
<1>7. operations[o].status = "completed" => v.status = "completed"
  BY <1>4, AbsentIs
<1>8. \A i \in 1..Len(<<>>) : <<>>[i].status = "completed" => v.status = "completed"
  OBVIOUS
<1>9. PICK s \in Seq(Snapshots) : s = <<>> /\ Publish(o, s)
  BY <1>3
<1>10. poisoned' \in BOOLEAN
  BY DEF PersistUncertain
<1> QED BY <1>1, <1>4, <1>5, <1>6, <1>7, <1>8, <1>9, <1>10, GrowthIs

\* Snapshots that are appended, stored and published.
LEMMA ChangesGrow ==
  ASSUME Typed, StreamSound, CompletionsRecorded,
         NEW o \in Operations, NEW snapshots \in Seq(Snapshots), snapshots # <<>>,
         operations' = [operations EXCEPT ![o] = snapshots[Len(snapshots)]],
         durable' = [durable EXCEPT ![o] = snapshots[Len(snapshots)]],
         Publish(o, snapshots), UNCHANGED <<stream, poisoned>>,
         issued' = issued \cup {o},
         operations[o].revision < snapshots[Len(snapshots)].revision,
         operations[o].status = "completed" =>
           snapshots[Len(snapshots)].status = "completed",
         \A i \in 1..Len(snapshots) : snapshots[i].status = "completed" =>
           snapshots[Len(snapshots)].status = "completed"
  PROVE  Grows
<1>1. PICK v \in Known : v = snapshots[Len(snapshots)]
  <2>1. Len(snapshots) \in 1..Len(snapshots)
    OBVIOUS
  <2>2. snapshots[Len(snapshots)] \in Snapshots
    BY <2>1
  <2> QED BY <2>2, KnownIs
<1>2. poisoned' \in BOOLEAN /\ poisoned' = poisoned /\ stream' = stream
  BY TypedIs
<1>3. /\ operations' = [operations EXCEPT ![o] = v]
      /\ durable' = [durable EXCEPT ![o] = v]
      /\ operations[o].revision < v.revision
      /\ operations[o].status = "completed" => v.status = "completed"
      /\ \A i \in 1..Len(snapshots) :
           snapshots[i].status = "completed" => v.status = "completed"
  BY <1>1
<1>4. poisoned => poisoned'
  BY <1>2
<1> QED BY <1>1, <1>2, <1>3, <1>4, GrowthIs

\* A change is a later revision.
LEMMA ChangeIs ==
  ASSUME Typed, NEW o \in Operations, NEW status \in Statuses
  PROVE  /\ Change(o, status) \in Snapshots
         /\ Change(o, status).status = status
         /\ Change(o, status).revision = operations[o].revision + 1
         /\ operations[o].revision \in Nat
<1>1. operations[o].revision \in Nat
  BY TypedIs, KnownIs
<1> QED BY <1>1 DEF Change, Snapshots

\* A command is one of the operation's own changes, and leaves completed work so.
LEMMA CommandedIs ==
  ASSUME Typed, NEW o \in Operations, NEW c \in Commanded(o)
  PROVE  /\ c \in Snapshots /\ operations[o].revision < c.revision
         /\ operations[o].status = "completed" => c.status = "completed"
<1>1. PICK status \in Statuses : c = Change(o, status)
  BY DEF Commanded
<1>2. operations[o].status = "completed" => c.status = "completed"
  BY DEF Commanded
<1>3. c \in Snapshots /\ c.revision = operations[o].revision + 1
      /\ operations[o].revision \in Nat
  BY <1>1, ChangeIs
<1> QED BY <1>2, <1>3

\* What the host has, it has handed out.
LEMMA IssuedIs ==
  ASSUME Typed, StreamSound, NEW o \in Operations, operations[o] # Absent
  PROVE  issued = issued \cup {o}
BY DEF StreamSound

\* Advancing an operation records that it executes, if it was only admitted, and
\* what the port has answered.
LEMMA AdvanceIs ==
  ASSUME Typed, NEW o \in Operations, operations[o].status = "active",
         NEW c \in Answered(o)
  PROVE  /\ Executing(o) \in Seq(Snapshots)
         /\ Executing(o) = <<>> \/ Executing(o) = <<Change(o, "active")>>
         /\ c \in Snapshots /\ operations[o].revision < c.revision
         /\ Change(o, "active") \in Snapshots
         /\ Change(o, "active").status = "active"
         /\ operations[o].revision < Change(o, "active").revision
<1>1. Change(o, "active") \in Snapshots /\ Change(o, "active").status = "active"
      /\ Change(o, "active").revision = operations[o].revision + 1
      /\ operations[o].revision \in Nat
  BY ChangeIs DEF Statuses
<1>2. Executing(o) = <<>> \/ Executing(o) = <<Change(o, "active")>>
  BY DEF Executing
<1>3. <<>> \in Seq(Snapshots) /\ <<Change(o, "active")>> \in Seq(Snapshots)
      /\ Len(<<>>) = 0 /\ Len(<<Change(o, "active")>>) = 1
  BY <1>1
<1>4. Executing(o) \in Seq(Snapshots) /\ Len(Executing(o)) \in {0, 1}
  BY <1>2, <1>3
<1>5. PICK status \in Statuses :
        c = [revision |-> operations[o].revision + Len(Executing(o)) + 1,
             status |-> status]
  BY DEF Answered
<1>6. c \in Snapshots /\ operations[o].revision < c.revision
  <2>1. PICK k \in {0, 1} : k = Len(Executing(o))
    BY <1>4
  <2>2. c = [revision |-> operations[o].revision + k + 1, status |-> status]
    BY <1>5, <2>1
  <2> QED BY <1>1, <2>2 DEF Snapshots
<1> QED BY <1>1, <1>2, <1>4, <1>6

\* The next operation advances.
LEMMA AdvanceGrows ==
  ASSUME Typed, StreamSound, CompletionsRecorded,
         NEW o \in Operations, o \in Active, NEW c \in Answered(o),
         PersistChanges(o, Append(Executing(o), c)), UNCHANGED issued
  PROVE  Grows
<1>1. operations[o].status = "active" /\ operations[o] # Absent
  BY AbsentIs DEF Active
<1>2. /\ Executing(o) = <<>> \/ Executing(o) = <<Change(o, "active")>>
      /\ c \in Snapshots /\ operations[o].revision < c.revision
      /\ Change(o, "active") \in Snapshots
      /\ Change(o, "active").status = "active"
  BY <1>1, AdvanceIs
<1>3. PICK s \in Seq(Snapshots) :
        /\ s = Append(Executing(o), c) /\ s # <<>> /\ s[Len(s)] = c
        /\ \A i \in 1..Len(s) : s[i].status = "completed" => c.status = "completed"
  <2>1. CASE Executing(o) = <<>>
    <3>1. Append(Executing(o), c) = <<c>>
      BY <2>1
    <3>2. \A i \in 1..Len(<<c>>) : i = 1
      BY <1>2, SnapshotsAre
    <3> QED BY <1>2, <3>1, <3>2, SnapshotsAre
  <2>2. CASE Executing(o) = <<Change(o, "active")>>
    <3>1. PICK b \in Snapshots : b = Change(o, "active") /\ b.status = "active"
      BY <1>2
    <3>2. PICK s \in Seq(Snapshots) : s = <<b>> /\ Len(s) = 1 /\ s[1] = b
      BY SnapshotsAre
    <3>3. /\ Append(s, c) \in Seq(Snapshots) /\ Len(Append(s, c)) = 2
          /\ Append(s, c)[1] = b /\ Append(s, c)[2] = c /\ Append(s, c) # <<>>
      BY <1>2, <3>2
    <3>4. \A i \in 1..2 : i \in {1, 2}
      OBVIOUS
    <3>5. Append(Executing(o), c) = Append(s, c)
      BY <2>2, <3>1, <3>2
    <3> QED BY <1>2, <3>1, <3>3, <3>4, <3>5
  <2> QED BY <1>2, <2>1, <2>2
<1>4. /\ operations' = [operations EXCEPT ![o] = s[Len(s)]]
      /\ durable' = [durable EXCEPT ![o] = s[Len(s)]]
      /\ Publish(o, s) /\ UNCHANGED <<stream, poisoned>>
  BY <1>3 DEF PersistChanges, Last
<1>5. issued' = issued \cup {o}
  BY <1>1, IssuedIs
<1> QED BY <1>1, <1>2, <1>3, <1>4, <1>5, ChangesGrow

\* Advancing fails, with or without the record that the operation executes.
LEMMA FailureGrows ==
  ASSUME Typed, StreamSound, CompletionsRecorded,
         NEW o \in Operations, o \in Active, AdvanceFails(o)
  PROVE  Grows
<1> DEFINE now == IF operations[o] = Admitted THEN Change(o, "active")
                  ELSE operations[o]
<1>1. operations[o].status = "active" /\ operations[o] # Absent
      /\ issued = issued \cup {o}
  BY AbsentIs, IssuedIs DEF Active
<1>2. Change(o, "active") \in Snapshots /\ Change(o, "active").status = "active"
      /\ Change(o, "active").revision = operations[o].revision + 1
      /\ operations[o].revision \in Nat
  BY ChangeIs DEF Statuses
<1>3. CASE poisoned /\ UNCHANGED engine
  BY <1>3, EngineRests
<1>4. CASE operations[o] = Admitted /\ PersistUncertain(o, now) /\ UNCHANGED issued
  <2>1. PersistUncertain(o, Change(o, "active")) /\ issued' = issued \cup {o}
    BY <1>1, <1>4
  <2>2. operations[o].status # "completed"
    BY <1>1
  <2> QED BY <1>1, <1>2, <2>1, <2>2, UncertainGrows
<1>5. CASE /\ ~poisoned
           /\ operations' = [operations EXCEPT ![o] = now]
           /\ \/ poisoned' = FALSE /\ durable' = operations'
              \/ /\ poisoned' = TRUE
                 /\ \E d \in {now} \cup Answered(o) : durable' = [durable EXCEPT ![o] = d]
           /\ Publish(o, Executing(o))
           /\ UNCHANGED <<stream, issued>>
  <2>1. PICK v \in Snapshots :
          /\ v = now /\ v.status = "active"
          /\ \/ operations[o] = Admitted /\ v = Change(o, "active")
             \/ operations[o] # Admitted /\ v = operations[o]
    <3>1. operations[o] \in Snapshots
      BY <1>1, TypedIs DEF Known
    <3> QED BY <1>1, <1>2, <3>1
  <2>2. PICK d \in Known :
          durable' = [durable EXCEPT ![o] = d] /\ (~poisoned' => d = v)
    <3>1. CASE poisoned' = FALSE /\ durable' = operations'
      <4>1. durable' = [durable EXCEPT ![o] = v]
        BY <1>5, <2>1, <3>1 DEF StreamSound
      <4> QED BY <2>1, <4>1, KnownIs
    <3>2. CASE /\ poisoned' = TRUE
               /\ \E d \in {now} \cup Answered(o) : durable' = [durable EXCEPT ![o] = d]
      <4>1. \A d \in {now} \cup Answered(o) : d \in Known
        BY <1>1, <2>1, AdvanceIs, KnownIs
      <4> HIDE DEF now
      <4> QED BY <3>2, <4>1
    <3> QED BY <1>5, <3>1, <3>2
  <2>3. PICK s \in Seq(Snapshots) :
          /\ Publish(o, s)
          /\ \A i \in 1..Len(s) : s[i].status = "active"
          /\ \/ /\ s # <<>> /\ v = s[Len(s)]
                /\ operations[o].revision < v.revision
             \/ s = <<>> /\ v = operations[o]
    <3>1. CASE operations[o] = Admitted
      <4>1. PICK b \in Snapshots : b = v /\ Executing(o) = <<b>>
        BY <2>1, <3>1 DEF Executing, Admitted
      <4>2. operations[o].revision < v.revision
        BY <1>2, <2>1, <3>1
      <4>3. \A i \in 1..Len(<<b>>) : i = 1
        BY SnapshotsAre
      <4>4. PICK s \in Seq(Snapshots) : s = <<b>>
        BY SnapshotsAre
      <4>5. s # <<>> /\ Len(s) = 1 /\ s[1] = v /\ Publish(o, s)
        BY <1>5, <4>1, <4>4, SnapshotsAre
      <4>6. \A i \in 1..Len(s) : s[i].status = "active"
        BY <2>1, <4>3, <4>4, <4>5
      <4> QED BY <4>2, <4>5, <4>6
    <3>2. CASE operations[o] # Admitted
      <4>1. Executing(o) = <<>> /\ <<>> \in Seq(Snapshots)
            /\ \A i \in 1..Len(<<>>) : <<>>[i].status = "active"
        BY <3>2 DEF Executing
      <4> QED BY <1>5, <2>1, <3>2, <4>1
    <3> QED BY <3>1, <3>2
  <2>4. /\ stream' = stream /\ issued' = issued \cup {o} /\ poisoned' \in BOOLEAN
        /\ operations' = [operations EXCEPT ![o] = v] /\ ~poisoned
    BY <1>1, <1>5, <2>1
  <2>5. v \in Known /\ v.status # "completed" /\ operations[o].status # "completed"
    BY <1>1, <2>1, KnownIs
  <2>6. \A i \in 1..Len(s) : s[i].status # "completed"
    BY <2>3
  <2> HIDE DEF now
  <2> QED BY <2>2, <2>3, <2>4, <2>5, <2>6, GrowthIs
<1> QED BY <1>3, <1>4, <1>5 DEF AdvanceFails

\* Each step of the owner keeps the invariant.
LEMMA ServingKeeps ==
  ASSUME StreamInv, ReceiveNothing \/ ServeSnapshot \/ ServeOperation
  PROVE  StreamInv'
<1>1. Typed /\ StreamSound /\ CompletionsRecorded
  BY DEF StreamInv
<1>2. UNCHANGED engine
  BY DEF ReceiveNothing, ServeSnapshot, ServeOperation
<1>3. Grows
  BY <1>1, <1>2, EngineRests
<1>4. phase' = "pump" /\ failed' = failed
      /\ UNCHANGED <<registration, observer, fault, queue, carried, store>>
  BY DEF ReceiveNothing, ServeSnapshot, ServeOperation, EndReceive, subscription
<1>5. CASE ReceiveNothing
  <2>1. Serves
    BY <1>5 DEF ReceiveNothing, Serves, calls
  <2> QED BY <1>3, <1>4, <2>1, ReceiveKeeps
<1>6. CASE ServeSnapshot
  <2>1. Serves
    BY <1>2, <1>6 DEF ServeSnapshot, Serves
  <2> QED BY <1>3, <1>4, <2>1, ReceiveKeeps
<1>7. CASE ServeOperation
  <2>1. operations' = operations
    BY <1>2 DEF engine
  <2>2. Serves
    BY <1>7, <2>1 DEF ServeOperation, Serves
  <2> QED BY <1>3, <1>4, <2>2, ReceiveKeeps
<1> QED BY <1>5, <1>6, <1>7

\* An operation is admitted.
LEMMA AdmissionGrows ==
  ASSUME Typed, StreamSound, CompletionsRecorded,
         NEW o \in Operations \ issued, issued' = issued \cup {o},
         operations' = [operations EXCEPT ![o] = Admitted],
         durable' = [durable EXCEPT ![o] = Admitted],
         Publish(o, <<Admitted>>), UNCHANGED <<stream, poisoned>>
  PROVE  Grows
<1>1. operations[o] = Absent
  BY DEF StreamSound
<1>2. PICK s \in Seq(Snapshots) :
        s = <<Admitted>> /\ Len(s) = 1 /\ s[1] = Admitted /\ s # <<>>
  BY AdmittedIs, SnapshotsAre
<1>3. operations[o].revision < s[Len(s)].revision
      /\ operations[o].status # "completed"
  BY <1>1, <1>2, AdmittedIs, AbsentIs
<1>4. \A i \in 1..Len(s) : s[i].status = "completed" => s[Len(s)].status = "completed"
  BY <1>2
<1> QED BY <1>2, <1>3, <1>4, ChangesGrow

\* An admission could not be appended.
LEMMA LostAdmissionGrows ==
  ASSUME Typed, StreamSound, CompletionsRecorded,
         NEW o \in Operations \ issued, issued' = issued \cup {o},
         PersistUncertain(o, Admitted)
  PROVE  Grows
<1>1. operations[o] = Absent
  BY DEF StreamSound
<1>2. operations[o].status # "completed" /\ Admitted \in Snapshots
  BY <1>1, AbsentIs, AdmittedIs
<1> QED BY <1>2, UncertainGrows

\* The client's own commit is admitted or refused.
LEMMA CommitKeeps ==
  ASSUME StreamInv, ServeCommit \/ RefuseCommit
  PROVE  StreamInv'
<1>1. Typed /\ StreamSound /\ CompletionsRecorded
  BY DEF StreamInv
<1>2. /\ phase' = "pump" /\ failed' = failed
      /\ UNCHANGED <<registration, observer, fault, queue, carried, store>>
      /\ snapshotCall' = snapshotCall /\ registration = "ready"
      /\ operationCall.state = "asked"
  BY DEF ServeCommit, RefuseCommit, EndReceive, subscription
<1>3. PICK o \in Operations : o = operationCall.operation
  BY <1>1, <1>2 DEF Typed, CallsTyped, Idle
<1>4. CASE ServeCommit
  <2>1. /\ o \in Operations \ issued /\ issued' = issued \cup {o}
        /\ operations' = [operations EXCEPT ![o] = Admitted]
        /\ durable' = [durable EXCEPT ![o] = Admitted]
        /\ Publish(o, <<Admitted>>) /\ UNCHANGED <<stream, poisoned>>
        /\ operationCall' = [state |-> "answered", operation |-> o,
                             snapshot |-> Admitted]
    BY <1>3, <1>4 DEF ServeCommit
  <2>2. Grows
    BY <1>1, <2>1, AdmissionGrows
  <2>3. operations'[o] = Admitted
    BY <1>1, <2>1, TypedIs
  <2>4. Serves
    BY <1>2, <1>3, <2>1, <2>3 DEF Serves
  <2> QED BY <1>2, <2>2, <2>4, ReceiveKeeps
<1>5. CASE RefuseCommit
  <2>1. o \notin issued /\ operationCall' = Idle
    BY <1>3, <1>5 DEF RefuseCommit
  <2>2. CASE UNCHANGED engine
    <3>1. Grows
      BY <1>1, <2>2, EngineRests
    <3>2. Serves
      BY <1>2, <2>1 DEF Serves
    <3> QED BY <1>2, <3>1, <3>2, ReceiveKeeps
  <2>3. CASE issued' = issued \cup {o} /\ PersistUncertain(o, Admitted)
    <3>1. Grows
      BY <1>1, <2>1, <2>3, LostAdmissionGrows
    <3>2. Serves
      BY <1>2, <2>1 DEF Serves
    <3> QED BY <1>2, <3>1, <3>2, ReceiveKeeps
  <2> QED BY <1>3, <1>5, <2>2, <2>3 DEF RefuseCommit
<1> QED BY <1>4, <1>5

\* Someone else commits, or commands an operation.
LEMMA OthersKeep ==
  ASSUME StreamInv, NEW o \in Operations, OtherCommit(o) \/ OtherCommand(o)
  PROVE  StreamInv'
<1>1. Typed /\ StreamSound /\ CompletionsRecorded
  BY DEF StreamInv
<1>2. /\ phase' = "pump" /\ failed' = failed
      /\ UNCHANGED <<registration, observer, fault, queue, carried, store>>
      /\ Serves
  BY DEF OtherCommit, OtherCommand, EndReceive, subscription, calls, Serves
<1>3. CASE OtherCommit(o)
  <2>1. o \in Operations \ issued /\ issued' = issued \cup {o}
    BY <1>3 DEF OtherCommit
  <2>2. CASE PersistUncertain(o, Admitted)
    <3>1. Grows
      BY <1>1, <2>1, <2>2, LostAdmissionGrows
    <3> QED BY <1>2, <3>1, ReceiveKeeps
  <2>3. CASE ~PersistUncertain(o, Admitted)
    <3>1. /\ operations' = [operations EXCEPT ![o] = Admitted]
          /\ durable' = [durable EXCEPT ![o] = Admitted]
          /\ Publish(o, <<Admitted>>) /\ UNCHANGED <<stream, poisoned>>
      BY <1>3, <2>3 DEF OtherCommit
    <3>2. Grows
      BY <1>1, <2>1, <3>1, AdmissionGrows
    <3> QED BY <1>2, <3>2, ReceiveKeeps
  <2> QED BY <2>2, <2>3
<1>4. CASE OtherCommand(o)
  <2>1. PICK c \in Commanded(o) : PersistChanges(o, <<c>>) \/ PersistUncertain(o, c)
    BY <1>4 DEF OtherCommand
  <2>2. issued' = issued \cup {o} /\ operations[o] # Absent
    BY <1>1, <1>4, IssuedIs DEF OtherCommand
  <2>3. /\ c \in Snapshots /\ operations[o].revision < c.revision
        /\ operations[o].status = "completed" => c.status = "completed"
    BY <1>1, CommandedIs
  <2>4. CASE PersistUncertain(o, c)
    <3>1. Grows
      BY <1>1, <2>2, <2>3, <2>4, UncertainGrows
    <3> QED BY <1>2, <3>1, ReceiveKeeps
  <2>5. CASE PersistChanges(o, <<c>>)
    <3>1. PICK s \in Seq(Snapshots) :
            s = <<c>> /\ Len(s) = 1 /\ s[1] = c /\ s # <<>>
      BY <2>3, SnapshotsAre
    <3>2. /\ operations' = [operations EXCEPT ![o] = s[Len(s)]]
          /\ durable' = [durable EXCEPT ![o] = s[Len(s)]]
          /\ Publish(o, s) /\ UNCHANGED <<stream, poisoned>>
      BY <2>5, <3>1 DEF PersistChanges, Last
    <3>3. \A i \in 1..Len(s) :
            s[i].status = "completed" => s[Len(s)].status = "completed"
      BY <3>1
    <3>4. Grows
      BY <1>1, <2>2, <2>3, <3>1, <3>2, <3>3, ChangesGrow
    <3> QED BY <1>2, <3>4, ReceiveKeeps
  <2> QED BY <2>1, <2>4, <2>5
<1> QED BY <1>3, <1>4

\* The pump advances nothing, advances an operation or fails.
LEMMA PumpingKeeps ==
  ASSUME StreamInv,
         PumpNothing \/ PumpFails \/ \E o \in Operations : PumpAdvances(o)
  PROVE  StreamInv'
<1>1. Typed /\ StreamSound /\ CompletionsRecorded /\ failed \in BOOLEAN
  BY DEF StreamInv, Typed, TypeOK
<1>2. /\ phase' = "receive" /\ failed' \in {failed, TRUE} /\ Deliver
      /\ UNCHANGED <<registration, carried, calls, store>>
  <2>1. CASE PumpNothing
    BY <2>1 DEF PumpNothing, EndPump
  <2>2. CASE PumpFails
    BY <2>2 DEF PumpFails, EndPump
  <2>3. CASE \E o \in Operations : PumpAdvances(o)
    BY <2>3 DEF PumpAdvances, EndPump
  <2> QED BY <2>1, <2>2, <2>3
<1>3. failed' \in BOOLEAN
  BY <1>1, <1>2
<1>4. CASE PumpNothing
  <2>1. Grows
    BY <1>1, <1>4, EngineRests DEF PumpNothing
  <2> QED BY <1>2, <1>3, <2>1, PumpKeeps
<1>5. CASE PumpFails
  <2>1. CASE \E o \in Active : AdvanceFails(o)
    <3>1. PICK o \in Active : AdvanceFails(o)
      BY <2>1
    <3>2. o \in Operations
      BY <3>1 DEF Active
    <3>3. Grows
      BY <1>1, <3>1, <3>2, FailureGrows
    <3> QED BY <1>2, <1>3, <3>3, PumpKeeps
  <2>2. CASE \E o \in Operations : SettlementFails(o)
    <3>1. /\ poisoned' \in {poisoned, TRUE}
          /\ UNCHANGED <<stream, operations, durable, issued, published>>
      BY <2>2 DEF SettlementFails
    <3>2. poisoned' \in BOOLEAN /\ (poisoned => poisoned')
      <4>1. poisoned \in BOOLEAN
        BY <1>1, TypedIs
      <4>2. CASE poisoned' = poisoned
        BY <4>1, <4>2
      <4>3. CASE poisoned' = TRUE
        BY <4>3
      <4> QED BY <3>1, <4>2, <4>3
    <3>3. StreamSound' /\ CompletionsRecorded'
      BY <1>1, <3>1, <3>2 DEF StreamSound, CompletionsRecorded, Says, Done
    <3>4. \A o \in Operations : Moves(o)
      BY <3>1 DEF Moves
    <3>5. Grows
      BY <1>1, <3>1, <3>2, <3>3, <3>4, TypedIs DEF Grows
    <3> QED BY <1>2, <1>3, <3>5, PumpKeeps
  <2> QED BY <1>5, <2>1, <2>2 DEF PumpFails
<1>6. CASE \E o \in Operations : PumpAdvances(o)
  <2>1. PICK o \in Operations : PumpAdvances(o)
    BY <1>6
  <2>2. PICK c \in Answered(o) : PersistChanges(o, Append(Executing(o), c))
    BY <2>1 DEF PumpAdvances
  <2>3. o \in Active /\ UNCHANGED issued
    BY <2>1 DEF PumpAdvances
  <2>4. Grows
    BY <1>1, <2>2, <2>3, AdvanceGrows
  <2> QED BY <1>2, <1>3, <2>4, PumpKeeps
<1> QED BY <1>4, <1>5, <1>6

\* Every turn of the owner.
LEMMA OwnerKeeps ==
  ASSUME StreamInv, OwnerTurn
  PROVE  StreamInv'
<1>1. CASE ReceiveNothing \/ ServeSnapshot \/ ServeOperation
  BY <1>1, ServingKeeps
<1>2. CASE Subscribe
  BY <1>2, SubscribeKeeps
<1>3. CASE ServeCommit \/ RefuseCommit
  BY <1>3, CommitKeeps
<1>4. ASSUME NEW o \in Operations, OtherCommit(o) \/ OtherCommand(o)
      PROVE  StreamInv'
  BY <1>4, OthersKeep
<1>5. CASE PumpNothing \/ PumpFails \/ \E o \in Operations : PumpAdvances(o)
  BY <1>5, PumpingKeeps
<1> QED BY <1>1, <1>2, <1>3, <1>4, <1>5 DEF OwnerTurn

-----------------------------------------------------------------------------
(* The client's steps                                                      *)

\* A client's step keeps the types, if what it does to the subscription, to the
\* calls and to the store does.
LEMMA ClientTyped ==
  ASSUME Typed, UNCHANGED <<engine, failed, phase>>, CallsTyped',
         registration' \in {"none", "asked", "ready"}, fault' \in BOOLEAN,
         observer' \in [live : BOOLEAN, cursor : Nat],
         observer'.cursor <= Len(published),
         queue' \in Seq(Events(issued)), Len(queue') <= MaxObserverEvents,
         carried' \in Seq(Events(issued)), Len(carried') <= 1,
         store' \in Stores(issued), Len(store'.buffer) <= MaxBufferedEvents
  PROVE  Typed'
<1>1. snapshotCall'.state \in {"idle", "asked", "answered"}
      /\ operationCall'.state \in {"idle", "asked", "answered"}
  BY DEF CallsTyped, Idle, Asked
<1>2. stream' = stream /\ operations' = operations /\ durable' = durable
      /\ issued' = issued /\ published' = published /\ poisoned' = poisoned
      /\ failed' = failed /\ phase' = phase
  BY DEF engine
<1>3. store'.confidence \in {"uninitialized", "anchored", "stale"}
      /\ store'.view \in [Operations -> Snapshots \cup {Absent}]
  BY DEF Stores, Known
<1>4. observer'.live \in BOOLEAN /\ observer'.cursor \in 0..Len(published)
  <2>1. Len(published) \in Nat
    BY TypedIs
  <2> QED BY <2>1
<1>5. TypeOK'
  BY <1>1, <1>2, <1>3, <1>4 DEF Typed, TypeOK
<1> QED BY <1>2, <1>5 DEF Typed

\* The engine keeps what is true of it while the client goes on.
LEMMA EngineKept ==
  ASSUME StreamInv, UNCHANGED engine
  PROVE  StreamSound' /\ CompletionsRecorded'
<1> QED BY EngineRests DEF StreamInv, Grows

\* What is known of operations is as fresh after a step of the client.
LEMMA FreshSame ==
  ASSUME UNCHANGED engine, NEW view, NEW c, Fresh(view, c)
  PROVE  Fresh(view, c)'
<1> QED BY DEF Fresh, Says, Unsaid, engine

\* Every event behind a place is behind an earlier one.
LEMMA FreshEarlier ==
  ASSUME NEW view, NEW c \in Nat, NEW d \in Nat, d <= c, Fresh(view, c)
  PROVE  Fresh(view, d)
<1> SUFFICES ASSUME NEW o \in Operations, Says(o, c) PROVE Says(o, d)
  BY DEF Fresh
<1> QED BY DEF Says

\* The client begins to await a snapshot.
LEMMA BeginIs ==
  ASSUME NEW ops, NEW s \in Stores(ops)
  PROVE  LET t == BeginSnapshot(s) IN
         /\ t \in Stores(ops) /\ t.buffering /\ ~t.bufferFailed /\ t.buffer = <<>>
         /\ t.confidence = s.confidence /\ t.cursor = s.cursor /\ t.view = s.view
<1>1. <<>> \in Seq(Events(ops))
  OBVIOUS
<1> QED BY <1>1 DEF BeginSnapshot, Stores

\* The client gives up awaiting a snapshot.
LEMMA AbandonIs ==
  ASSUME NEW ops, NEW s \in Stores(ops)
  PROVE  LET t == AbandonSnapshot(s) IN
         /\ t \in Stores(ops) /\ ~t.buffering /\ t.buffer = <<>>
         /\ t.confidence = "stale" /\ t.cursor = s.cursor /\ t.view = s.view
<1>1. <<>> \in Seq(Events(ops))
  OBVIOUS
<1> QED BY <1>1 DEF AbandonSnapshot, Invalidate, Stores

\* The empty sequence.
LEMMA EmptyIs ==
  /\ \A S : <<>> \in Seq(S)
  /\ Len(<<>>) = 0
  /\ \A c : Run(<<>>, c)
<1> QED BY DEF Run

\* The buffer is kept or dropped: what is coming is the end of what was sent.
LEMMA BufferGoes ==
  ASSUME StreamInv, UNCHANGED <<published, observer, queue, carried>>,
         store'.buffer = store.buffer \/ store'.buffer = <<>>
  PROVE  /\ ComingSound' /\ Base' \in Nat /\ Base <= Base'
         /\ store'.buffer = store.buffer => Base' = Base
         /\ store'.buffer = <<>> => Base' = Base + Len(store.buffer)
<1>1. /\ Run(store.buffer, Base) /\ Run(carried, Base + Len(store.buffer))
      /\ Run(queue, Base + Len(store.buffer) + Len(carried))
  BY DEF StreamInv, ComingSound
<1>2. /\ Base \in Nat /\ Len(store.buffer) \in Nat /\ Len(carried) \in Nat
      /\ Len(queue) \in Nat /\ observer.cursor \in Nat
      /\ Base = observer.cursor - Len(queue) - Len(carried) - Len(store.buffer)
  BY ComingIs, TypedIs DEF StreamInv, Base
<1>3. Base' = observer.cursor - Len(queue) - Len(carried) - Len(store'.buffer)
  BY DEF Base
<1>4. CASE store'.buffer = store.buffer
  <2>1. Base' = Base
    BY <1>2, <1>3, <1>4
  <2>2. /\ \A i \in DOMAIN store.buffer : store.buffer[i] = published'[Base' + i]
        /\ \A i \in DOMAIN carried :
             carried[i] = published'[Base' + Len(store.buffer) + i]
        /\ \A i \in DOMAIN queue :
             queue[i] = published'[Base' + Len(store.buffer) + Len(carried) + i]
    BY <1>1, <2>1 DEF Run
  <2>3. ComingSound'
    BY <1>2, <1>4, <2>1, <2>2 DEF ComingSound, Run
  <2>4. store.buffer = <<>> => Base' = Base + Len(store.buffer)
    BY <1>2, <2>1, EmptyIs
  <2> QED BY <1>2, <1>4, <2>1, <2>3, <2>4
<1>5. CASE store'.buffer = <<>>
  <2>1. Base' = Base + Len(store.buffer)
    BY <1>2, <1>3, <1>5, EmptyIs
  <2>2. /\ \A i \in DOMAIN carried : carried[i] = published'[Base' + i]
        /\ \A i \in DOMAIN queue : queue[i] = published'[Base' + Len(carried) + i]
    BY <1>1, <2>1 DEF Run
  <2>3. Base' \in Nat /\ Base' + 0 = Base'
    BY <1>2, <2>1
  <2>4. Run(store.buffer, Base)'
    BY <1>5, EmptyIs DEF Run
  <2>5. Run(carried, Base + Len(store.buffer))'
    BY <1>5, <2>2, <2>3, EmptyIs DEF Run
  <2>6. Run(queue, Base + Len(store.buffer) + Len(carried))'
    BY <1>5, <2>2, <2>3, EmptyIs DEF Run
  <2>7. store.buffer = <<>> => Base' = Base
    BY <1>2, <2>1, EmptyIs
  <2>8. Base <= Base'
    BY <1>2, <2>1
  <2> QED BY <1>5, <2>1, <2>3, <2>4, <2>5, <2>6, <2>7, <2>8 DEF ComingSound
<1> QED BY <1>4, <1>5

\* The calls after one of them was asked or is over.
LEMMA CallsAre ==
  ASSUME Typed,
         snapshotCall' \in {snapshotCall, Idle, Asked},
         \/ operationCall' \in {operationCall, Idle}
         \/ operationCall' \in [state : {"asked"}, operation : Operations]
  PROVE  CallsTyped'
<1>1. CallsTyped
  BY DEF Typed
<1>2. snapshotCall' \in {Idle, Asked} \cup
        [state : {"answered"}, cursor : Cursors, operations : [Operations -> Known]]
  BY <1>1 DEF CallsTyped
<1>3. operationCall' \in {Idle} \cup [state : {"asked"}, operation : Operations] \cup
        [state : {"answered"}, operation : Operations, snapshot : Known]
  BY <1>1 DEF CallsTyped
<1> QED BY <1>2, <1>3 DEF CallsTyped

\* What the client awaits and knows, after a step that leaves its confidence or
\* takes it away.
LEMMA QuietKeeps ==
  ASSUME StreamInv, UNCHANGED engine,
         store'.view = store.view, store'.cursor = store.cursor,
         Base' \in Nat,
         Trusting' => Trusting /\ registration' = registration /\ Base' = Base,
         snapshotCall'.state = "answered" =>
           /\ snapshotCall' = snapshotCall
           /\ ~store'.bufferFailed => ~store.bufferFailed /\ Base' = Base,
         operationCall'.state = "answered" => operationCall' = operationCall
  PROVE  CompletionsKnown' /\ TrustSound' /\ SnapshotSound' /\ ReplySound'
<1>1. CompletionsKnown /\ TrustSound /\ SnapshotSound /\ ReplySound
      /\ stream' = stream /\ operations' = operations /\ published' = published
  BY DEF StreamInv, engine
<1>2. CompletionsKnown'
  BY <1>1 DEF CompletionsKnown, Done
<1>3. ReplySound'
  BY <1>1 DEF ReplySound, Older
<1>4. ASSUME Trusting'
      PROVE  /\ registration' = "ready" /\ store'.cursor.stream = stream'
             /\ Base' <= store'.cursor.sequence
             /\ store'.cursor.sequence <= Len(published')
             /\ Fresh(store.view, store.cursor.sequence)'
  <2>1. /\ registration = "ready" /\ store.cursor.stream = stream
        /\ Base <= store.cursor.sequence /\ store.cursor.sequence <= Len(published)
        /\ Fresh(store.view, store.cursor.sequence)
    BY <1>1, <1>4 DEF TrustSound
  <2>2. PICK view, c : view = store.view /\ c = store.cursor.sequence
    OBVIOUS
  <2>3. Fresh(view, c)'
    BY <2>1, <2>2, FreshSame
  <2>4. Fresh(store.view, store.cursor.sequence)'
    <3>1. store'.view = view /\ store'.cursor.sequence = c
      BY <2>2
    <3> QED BY <2>3, <3>1
  <2> QED BY <1>1, <1>4, <2>1, <2>4
<1>5. ASSUME snapshotCall'.state = "answered"
      PROVE  /\ snapshotCall'.cursor.stream = stream'
             /\ snapshotCall'.cursor.sequence <= Len(published')
             /\ ~store'.bufferFailed => Base' <= snapshotCall'.cursor.sequence
             /\ Fresh(snapshotCall.operations, snapshotCall.cursor.sequence)'
  <2>1. /\ snapshotCall.cursor.stream = stream
        /\ snapshotCall.cursor.sequence <= Len(published)
        /\ ~store.bufferFailed => Base <= snapshotCall.cursor.sequence
        /\ Fresh(snapshotCall.operations, snapshotCall.cursor.sequence)
    BY <1>1, <1>5 DEF SnapshotSound
  <2>2. PICK view, c : view = snapshotCall.operations
                       /\ c = snapshotCall.cursor.sequence
    OBVIOUS
  <2>3. Fresh(view, c)'
    BY <2>1, <2>2, FreshSame
  <2>4. Fresh(snapshotCall.operations, snapshotCall.cursor.sequence)'
    <3>1. snapshotCall'.operations = view /\ snapshotCall'.cursor.sequence = c
      BY <1>5, <2>2
    <3> QED BY <2>3, <3>1
  <2> QED BY <1>1, <1>5, <2>1, <2>4
<1>6. TrustSound'
  BY <1>4 DEF TrustSound
<1>7. SnapshotSound'
  BY <1>5 DEF SnapshotSound
<1> QED BY <1>2, <1>3, <1>6, <1>7

\* The client asks for a registration, or for another snapshot.
LEMMA AskingKeeps ==
  ASSUME StreamInv, Start \/ Refresh
  PROVE  StreamInv'
<1>1. Typed /\ RegistrationSound /\ BufferSound
  BY DEF StreamInv
<1>2. /\ store' = BeginSnapshot(store) /\ snapshotCall' = Asked
      /\ operationCall' = operationCall
      /\ UNCHANGED engine /\ UNCHANGED <<failed, phase>>
      /\ UNCHANGED <<observer, fault, queue, carried>>
      /\ \/ registration = "none" /\ registration' = "asked"
         \/ registration' = registration /\ registration # "none"
            /\ snapshotCall = Idle
  BY DEF Start, Refresh, subscription
<1>3. /\ store' \in Stores(issued) /\ store'.buffering /\ ~store'.bufferFailed
      /\ store'.buffer = <<>> /\ store'.confidence = store.confidence
      /\ store'.cursor = store.cursor /\ store'.view = store.view
  BY <1>1, <1>2, TypedIs, BeginIs
<1>4. store.buffer = <<>>
  BY <1>1, <1>2 DEF RegistrationSound, BufferSound
<1>5. ComingSound' /\ Base' = Base /\ Base' \in Nat
  <2>1. published' = published
    BY <1>2 DEF engine
  <2> QED BY <1>2, <1>3, <1>4, <2>1, BufferGoes
<1>6. Typed'
  <2>1. CallsTyped'
    BY <1>1, <1>2, CallsAre
  <2>2. registration' \in {"none", "asked", "ready"} /\ fault' \in BOOLEAN
        /\ Len(queue') <= MaxObserverEvents /\ Len(carried') <= 1
        /\ observer'.cursor <= Len(published)
    BY <1>1, <1>2, TypedIs DEF Typed, TypeOK
  <2>3. Len(store'.buffer) <= MaxBufferedEvents
    BY <1>3, EmptyIs, StoreAssumption
  <2> QED BY <1>1, <1>2, <1>3, <2>1, <2>2, <2>3, TypedIs, ClientTyped
<1>7. StreamSound' /\ CompletionsRecorded'
  BY <1>2, EngineKept
<1>8. RegistrationSound'
  BY <1>1, <1>2, <1>3 DEF RegistrationSound, Trusting, Idle, Asked
<1>9. BufferSound'
  BY <1>2, <1>3 DEF BufferSound, Trusting, Idle, Asked
<1>10. CompletionsKnown' /\ TrustSound' /\ SnapshotSound' /\ ReplySound'
  <2>1. Trusting' => Trusting /\ registration' = registration
    BY <1>1, <1>2, <1>3 DEF Trusting, RegistrationSound
  <2>2. snapshotCall'.state # "answered"
    BY <1>2 DEF Asked
  <2> QED BY <1>2, <1>3, <1>5, <2>1, <2>2, QuietKeeps
<1> QED BY <1>5, <1>6, <1>7, <1>8, <1>9, <1>10 DEF StreamInv

\* The client asks for one operation, or gives up on it or on a snapshot.
LEMMA AskedKeeps ==
  ASSUME StreamInv,
         \/ \E o \in Operations : AskOperation(o)
         \/ OperationFails \/ SnapshotFails
  PROVE  StreamInv'
<1>1. Typed /\ RegistrationSound /\ BufferSound
  BY DEF StreamInv
<1>2. /\ UNCHANGED engine /\ UNCHANGED <<failed, phase>>
      /\ UNCHANGED <<registration, observer, fault, queue, carried>>
      /\ \/ snapshotCall' = snapshotCall /\ store' = store
         \/ /\ snapshotCall = Asked /\ snapshotCall' = Idle
            /\ store' = AbandonSnapshot(store)
  BY DEF AskOperation, OperationFails, SnapshotFails, subscription
<1>3. \/ operationCall' \in {operationCall, Idle}
      \/ /\ registration # "none"
         /\ operationCall' \in [state : {"asked"}, operation : Operations]
  BY DEF AskOperation, OperationFails, SnapshotFails
<1>4. /\ store' \in Stores(issued) /\ store'.cursor = store.cursor
      /\ store'.view = store.view
      /\ \/ store' = store
         \/ ~store'.buffering /\ store'.buffer = <<>> /\ store'.confidence = "stale"
  <2>1. store \in Stores(issued)
    BY <1>1, TypedIs
  <2> QED BY <1>2, <2>1, AbandonIs
<1>5. ComingSound' /\ Base' \in Nat /\ (store' = store => Base' = Base)
  <2>1. published' = published
    BY <1>2 DEF engine
  <2> QED BY <1>2, <1>4, <2>1, BufferGoes
<1>6. Typed'
  <2>1. CallsTyped'
    BY <1>1, <1>2, <1>3, CallsAre
  <2>2. registration' \in {"none", "asked", "ready"} /\ fault' \in BOOLEAN
        /\ Len(queue') <= MaxObserverEvents /\ Len(carried') <= 1
        /\ observer'.cursor <= Len(published)
    BY <1>1, <1>2, TypedIs DEF Typed, TypeOK
  <2>3. Len(store'.buffer) <= MaxBufferedEvents
    BY <1>1, <1>4, EmptyIs, StoreAssumption DEF Typed, TypeOK
  <2> QED BY <1>1, <1>2, <1>4, <2>1, <2>2, <2>3, TypedIs, ClientTyped
<1>7. StreamSound' /\ CompletionsRecorded'
  BY <1>2, EngineKept
<1>8. RegistrationSound'
  <2>1. registration = "none" => operationCall' \in {operationCall, Idle}
    BY <1>3
  <2>2. operationCall'.state = "answered" => operationCall' = operationCall
    BY <1>3 DEF Idle
  <2>3. snapshotCall'.state = "answered" => snapshotCall' = snapshotCall
    BY <1>2 DEF Idle
  <2> QED BY <1>1, <1>2, <1>4, <2>1, <2>2, <2>3
          DEF RegistrationSound, Trusting, Idle, Asked
<1>9. BufferSound'
  BY <1>1, <1>2, <1>4, AbandonIs DEF BufferSound, Trusting, Idle, Asked
<1>10. CompletionsKnown' /\ TrustSound' /\ SnapshotSound' /\ ReplySound'
  <2>1. Trusting' => Trusting /\ registration' = registration /\ store' = store
    BY <1>2, <1>4 DEF Trusting
  <2>2. snapshotCall'.state = "answered" => snapshotCall' = snapshotCall /\ store' = store
    BY <1>2 DEF Idle
  <2>3. operationCall'.state = "answered" => operationCall' = operationCall
    BY <1>3 DEF Idle
  <2> QED BY <1>2, <1>4, <1>5, <2>1, <2>2, <2>3, QuietKeeps
<1> QED BY <1>5, <1>6, <1>7, <1>8, <1>9, <1>10 DEF StreamInv

\* The client drops its registration.
LEMMA DisconnectedKeeps ==
  ASSUME StreamInv, FaultArrives \/ RegistrationLost
  PROVE  StreamInv'
<1>1. Typed
  BY DEF StreamInv
<1>2. /\ UNCHANGED engine /\ UNCHANGED <<failed, phase>>
      /\ registration' = "none" /\ observer' = [live |-> FALSE, cursor |-> 0]
      /\ fault' = FALSE /\ queue' = <<>> /\ carried' = <<>>
      /\ snapshotCall' = Idle /\ operationCall' = Idle
      /\ store' = AbandonSnapshot(store)
  BY DEF FaultArrives, RegistrationLost, Disconnected
<1>3. /\ store' \in Stores(issued) /\ ~store'.buffering /\ store'.buffer = <<>>
      /\ store'.confidence = "stale" /\ store'.cursor = store.cursor
      /\ store'.view = store.view
  BY <1>1, <1>2, TypedIs, AbandonIs
<1>4. Base' = 0
  BY <1>2, <1>3, EmptyIs DEF Base
<1>5. ComingSound'
  BY <1>2, <1>3, <1>4, EmptyIs DEF ComingSound, Run
<1>6. Typed'
  <2>1. CallsTyped'
    BY <1>1, <1>2, CallsAre
  <2>2. registration' \in {"none", "asked", "ready"} /\ fault' \in BOOLEAN
        /\ Len(queue') <= MaxObserverEvents /\ Len(carried') <= 1
        /\ observer'.cursor <= Len(published)
        /\ Len(store'.buffer) <= MaxBufferedEvents
    <3>1. Len(queue') = 0 /\ Len(carried') = 0 /\ Len(store'.buffer) = 0
      BY <1>2, <1>3, EmptyIs
    <3>2. observer'.cursor = 0 /\ Len(published) \in Nat
      BY <1>1, <1>2, TypedIs
    <3>3. registration' \in {"none", "asked", "ready"} /\ fault' \in BOOLEAN
      BY <1>2
    <3>4. 0 <= MaxObserverEvents /\ 0 <= MaxBufferedEvents /\ 0 <= Len(published)
      BY <3>2, StoreAssumption, StreamAssumption
    <3>5. observer'.cursor <= Len(published)
      BY <3>2, <3>4
    <3> QED BY <3>1, <3>3, <3>4, <3>5
  <2>3. queue' \in Seq(Events(issued)) /\ carried' \in Seq(Events(issued))
        /\ observer' \in [live : BOOLEAN, cursor : Nat]
    BY <1>2, EmptyIs
  <2> QED BY <1>1, <1>2, <1>3, <2>1, <2>2, <2>3, ClientTyped
<1>7. StreamSound' /\ CompletionsRecorded'
  BY <1>2, EngineKept
<1>8. RegistrationSound'
  BY <1>2, <1>3 DEF RegistrationSound, Trusting, Idle
<1>9. BufferSound'
  BY <1>2, <1>3 DEF BufferSound, Trusting
<1>10. CompletionsKnown' /\ TrustSound' /\ SnapshotSound' /\ ReplySound'
  <2>1. ~Trusting' /\ snapshotCall'.state # "answered"
        /\ operationCall'.state # "answered"
    BY <1>2, <1>3 DEF Trusting, Idle
  <2> QED BY <1>2, <1>3, <1>4, <2>1, QuietKeeps
<1> QED BY <1>5, <1>6, <1>7, <1>8, <1>9, <1>10 DEF StreamInv

\* A snapshot arrives: it is refused, or the client trusts it and what it had
\* buffered is accounted for.
LEMMA SnapshotKeeps ==
  ASSUME StreamInv, SnapshotArrives
  PROVE  StreamInv' /\ Advances(store.view, store'.view)
<1>1. Typed /\ StreamSound /\ CompletionsRecorded /\ RegistrationSound /\ BufferSound
      /\ CompletionsKnown /\ SnapshotSound /\ ReplySound /\ ComingSound
  BY DEF StreamInv
<1>2. /\ snapshotCall.state = "answered" /\ snapshotCall' = Idle
      /\ store' = AcceptSnapshot(store, snapshotCall)
      /\ UNCHANGED engine /\ UNCHANGED <<failed, phase>>
      /\ UNCHANGED <<registration, observer, fault, queue, carried>>
      /\ operationCall' = operationCall
  BY DEF SnapshotArrives, subscription
<1>3. registration = "ready" /\ snapshotCall \in Replies /\ store \in Stores(issued)
      /\ published' = published
  BY <1>1, <1>2, TypedIs
     DEF RegistrationSound, Typed, CallsTyped, Idle, Asked, Replies, engine
<1>4. /\ store' \in Stores(issued) /\ ~store'.buffering /\ store'.buffer = <<>>
      /\ Advances(store.view, store'.view)
      /\ \A o \in Operations : Done(o, store'.view[o])
      /\ store'.confidence = "anchored" =>
           /\ store'.cursor.stream = stream
           /\ Base + Len(store.buffer) <= store'.cursor.sequence
           /\ store'.cursor.sequence <= Len(published)
           /\ Fresh(store'.view, store'.cursor.sequence)
           /\ ~store'.bufferFailed
  <2>1. CASE SnapshotProblem(store, snapshotCall)
    <3>1. store' = AbandonSnapshot(store)
      BY <1>2, <2>1 DEF AcceptSnapshot
    <3>2. /\ store' \in Stores(issued) /\ ~store'.buffering /\ store'.buffer = <<>>
          /\ store'.confidence = "stale" /\ store'.view = store.view
      BY <1>3, <3>1, AbandonIs
    <3>3. store.view \in [Operations -> Known]
      BY <1>3 DEF Stores
    <3> QED BY <1>1, <3>2, <3>3, AdvancesIs DEF CompletionsKnown
  <2>2. CASE ~SnapshotProblem(store, snapshotCall)
    <3>1. store' = Replayed(store, snapshotCall)
      BY <1>2, <2>2 DEF AcceptSnapshot
    <3>2. ~store.bufferFailed
      BY <2>2 DEF SnapshotProblem
    <3>3. Base \in Nat /\ Run(store.buffer, Base)
          /\ Base + Len(store.buffer) <= Len(published)
      <4>1. Len(published) \in Nat
        BY <1>1, TypedIs
      <4> QED BY <1>1, <4>1, ComingIs DEF ComingSound
    <3>4. Fits(store, snapshotCall, Base)
      BY <1>1, <1>2, <2>2, <3>2, <3>3 DEF Fits, SnapshotSound, CompletionsKnown
    <3>5. PICK s \in Stores(issued) : s = store
      BY <1>3
    <3>6. PICK r \in Replies : r = snapshotCall
      BY <1>3
    <3>7. PICK c \in Nat : c = Base
      BY <3>3
    <3>8. Replayed(s, r) \in Stores(issued)
          /\ Caught(Replayed(s, r), s, r, c, Len(s.buffer))
      BY <1>1, <3>4, <3>5, <3>6, <3>7, ReplayedIs
    <3>9. store' \in Stores(issued)
          /\ Caught(store', store, snapshotCall, Base, Len(store.buffer))
      BY <3>1, <3>5, <3>6, <3>7, <3>8
    <3> QED BY <3>9 DEF Caught
  <2> QED BY <2>1, <2>2
<1>5. ComingSound' /\ Base' \in Nat /\ Base' = Base + Len(store.buffer)
  BY <1>2, <1>3, <1>4, BufferGoes
<1>6. Typed'
  <2>1. CallsTyped'
    BY <1>1, <1>2, CallsAre
  <2>2. registration' \in {"none", "asked", "ready"} /\ fault' \in BOOLEAN
        /\ Len(queue') <= MaxObserverEvents /\ Len(carried') <= 1
        /\ observer'.cursor <= Len(published)
    BY <1>1, <1>2, TypedIs DEF Typed, TypeOK
  <2>3. Len(store'.buffer) <= MaxBufferedEvents
    BY <1>4, EmptyIs, StoreAssumption
  <2> QED BY <1>1, <1>2, <1>4, <2>1, <2>2, <2>3, TypedIs, ClientTyped
<1>7. StreamSound' /\ CompletionsRecorded'
  BY <1>2, EngineKept
<1>8. RegistrationSound'
  BY <1>1, <1>2, <1>3 DEF RegistrationSound, Idle
<1>9. BufferSound'
  BY <1>2, <1>4 DEF BufferSound, Trusting
<1>10. CompletionsKnown'
  BY <1>1, <1>2, <1>4 DEF CompletionsKnown, Done, Idle, engine
<1>11. ReplySound' /\ SnapshotSound'
  BY <1>1, <1>2 DEF ReplySound, SnapshotSound, Older, Idle, engine
<1>12. TrustSound'
  <2> SUFFICES ASSUME Trusting'
               PROVE  /\ registration' = "ready" /\ store'.cursor.stream = stream'
                      /\ Base' <= store'.cursor.sequence
                      /\ store'.cursor.sequence <= Len(published')
                      /\ Fresh(store.view, store.cursor.sequence)'
    BY DEF TrustSound
  <2>1. /\ store'.cursor.stream = stream
        /\ Base + Len(store.buffer) <= store'.cursor.sequence
        /\ store'.cursor.sequence <= Len(published)
        /\ Fresh(store'.view, store'.cursor.sequence)
    BY <1>4 DEF Trusting
  <2>2. PICK view, c : view = store'.view /\ c = store'.cursor.sequence
    OBVIOUS
  <2>3. Fresh(view, c)'
    BY <1>2, <2>1, <2>2, FreshSame
  <2>4. Fresh(store.view, store.cursor.sequence)'
    BY <2>2, <2>3
  <2> QED BY <1>2, <1>3, <1>5, <2>1, <2>4 DEF engine
<1> QED BY <1>4, <1>5, <1>6, <1>7, <1>8, <1>9, <1>10, <1>11, <1>12 DEF StreamInv

\* What one observed operation makes of the store.
LEMMA ObserveIs ==
  ASSUME NEW ops, NEW s \in Stores(ops), NEW o \in Operations, NEW k \in Known
  PROVE  LET t == ObserveOperation(s, o, k) IN
         /\ t \in Stores(ops) /\ t.buffering = s.buffering
         /\ t.bufferFailed = s.bufferFailed /\ t.buffer = s.buffer
         /\ t.cursor = s.cursor /\ Advances(s.view, t.view)
         /\ \/ t = s
            \/ t.confidence = "stale" /\ t.view = s.view
            \/ /\ k # Absent /\ Consistent(s.view, o, k)
               /\ t.view = [s.view EXCEPT ![o] = k] /\ t.confidence = s.confidence
<1> DEFINE t == ObserveOperation(s, o, k)
<1>1. s.view \in [Operations -> Known] /\ Advances(s.view, s.view)
  BY AdvancesIs DEF Stores
<1>2. CASE t = s
  BY <1>1, <1>2
<1>3. CASE t = Invalidate(s)
  BY <1>1, <1>3 DEF Invalidate, Stores
<1>4. CASE /\ k # Absent /\ Consistent(s.view, o, k)
           /\ t = [s EXCEPT !.view[o] = k]
  <2>1. PICK v \in [Operations -> Known] : v = [s.view EXCEPT ![o] = k]
    BY <1>1
  <2>2. t = [s EXCEPT !.view = v]
    BY <1>4, <2>1
  <2>3. /\ t \in Stores(ops) /\ t.buffering = s.buffering
        /\ t.bufferFailed = s.bufferFailed /\ t.buffer = s.buffer
        /\ t.cursor = s.cursor /\ t.view = v /\ t.confidence = s.confidence
    <3> HIDE DEF t
    <3> QED BY <2>2 DEF Stores
  <2>4. Advances(s.view, v)
    <3> SUFFICES ASSUME NEW p \in Operations
                 PROVE  /\ v[p].revision >= s.view[p].revision
                        /\ s.view[p].status = "completed" => v[p].status = "completed"
      BY DEF Advances
    <3>1. CASE p = o
      BY <1>1, <1>4, <2>1, <3>1 DEF Consistent
    <3>2. CASE p # o
      BY <1>1, <2>1, <3>2, KnownIs
    <3> QED BY <3>1, <3>2
  <2>5. /\ t \in Stores(ops) /\ t.buffering = s.buffering
        /\ t.bufferFailed = s.bufferFailed /\ t.buffer = s.buffer
        /\ t.cursor = s.cursor /\ Advances(s.view, t.view)
        /\ k # Absent /\ Consistent(s.view, o, k)
        /\ t.view = [s.view EXCEPT ![o] = k] /\ t.confidence = s.confidence
    <3> HIDE DEF t
    <3> QED BY <1>4, <2>1, <2>3, <2>4
  <2> QED BY <2>5
<1> QED BY <1>2, <1>3, <1>4 DEF ObserveOperation

\* An answer says what the host has, or what it had earlier: what the client takes
\* over from it is as fresh as what it knew.
LEMMA AnswerFresh ==
  ASSUME Typed, NEW view \in [Operations -> Known], NEW c, Fresh(view, c),
         NEW o \in Operations, NEW k \in Known, k # Absent,
         Older(k, operations[o]), Consistent(view, o, k)
  PROVE  Fresh([view EXCEPT ![o] = k], c)
<1> SUFFICES ASSUME NEW p \in Operations
             PROVE  \/ [view EXCEPT ![o] = k][p] = operations[p] \/ Says(p, c)
                    \/ Unsaid(p, [view EXCEPT ![o] = k][p])
  BY DEF Fresh
<1>1. view[p] = operations[p] \/ Says(p, c) \/ Unsaid(p, view[p])
  BY DEF Fresh
<1>2. CASE p # o
  BY <1>1, <1>2
<1>3. CASE p = o
  <2>1. [view EXCEPT ![o] = k][p] = k
    BY <1>3
  <2>2. operations[o] \in Known /\ view[o] \in Known
    BY TypedIs
  <2>3. k.revision \in Nat /\ operations[o].revision \in Nat
        /\ view[o].revision \in Nat
    BY <2>2, KnownIs
  <2>4. k.revision >= view[o].revision
    BY DEF Consistent
  <2>5. CASE view[o] = operations[o]
    <3>1. k = operations[o]
      BY <2>3, <2>4, <2>5 DEF Older
    <3> QED BY <1>3, <2>1, <3>1
  <2>6. CASE Unsaid(o, view[o])
    <3>1. k \in Snapshots
      BY DEF Known
    <3>2. k.revision # 0
      BY <3>1, KnownIs
    <3>3. operations[o].revision = 1
      BY <2>6, AdmittedIs DEF Unsaid
    <3>4. k = operations[o]
      BY <2>3, <3>2, <3>3 DEF Older
    <3> QED BY <1>3, <2>1, <3>4
  <2> QED BY <1>1, <1>3, <2>5, <2>6
<1> QED BY <1>2, <1>3

\* A single answer arrives.
LEMMA OperationKeeps ==
  ASSUME StreamInv, OperationArrives
  PROVE  StreamInv' /\ Advances(store.view, store'.view)
<1>1. Typed /\ StreamSound /\ CompletionsRecorded /\ RegistrationSound /\ BufferSound
      /\ CompletionsKnown /\ SnapshotSound /\ ReplySound /\ ComingSound /\ TrustSound
  BY DEF StreamInv
<1>2. /\ operationCall.state = "answered" /\ operationCall' = Idle
      /\ store' = ObserveOperation(store, operationCall.operation,
                                   operationCall.snapshot)
      /\ UNCHANGED engine /\ UNCHANGED <<failed, phase>>
      /\ UNCHANGED <<registration, observer, fault, queue, carried>>
      /\ snapshotCall' = snapshotCall
  BY DEF OperationArrives, subscription
<1>3. PICK o \in Operations, k \in Known :
        o = operationCall.operation /\ k = operationCall.snapshot
  BY <1>1, <1>2 DEF Typed, CallsTyped, Idle
<1>4. store \in Stores(issued) /\ store.view \in [Operations -> Known]
      /\ published' = published
  BY <1>1, <1>2, TypedIs DEF Stores, engine
<1>5. /\ store' \in Stores(issued) /\ store'.buffering = store.buffering
      /\ store'.bufferFailed = store.bufferFailed /\ store'.buffer = store.buffer
      /\ store'.cursor = store.cursor /\ Advances(store.view, store'.view)
      /\ \/ store' = store
         \/ store'.confidence = "stale" /\ store'.view = store.view
         \/ /\ k # Absent /\ Consistent(store.view, o, k)
            /\ store'.view = [store.view EXCEPT ![o] = k]
            /\ store'.confidence = store.confidence
  BY <1>2, <1>3, <1>4, ObserveIs
<1>6. Older(k, operations[o]) /\ Done(o, k)
  BY <1>1, <1>2, <1>3 DEF ReplySound, CompletionsKnown
<1>7. ComingSound' /\ Base' \in Nat /\ Base' = Base
  BY <1>2, <1>4, <1>5, BufferGoes
<1>8. Typed'
  <2>1. CallsTyped'
    BY <1>1, <1>2, CallsAre
  <2>2. registration' \in {"none", "asked", "ready"} /\ fault' \in BOOLEAN
        /\ Len(queue') <= MaxObserverEvents /\ Len(carried') <= 1
        /\ observer'.cursor <= Len(published)
    BY <1>1, <1>2, TypedIs DEF Typed, TypeOK
  <2>3. Len(store'.buffer) <= MaxBufferedEvents
    BY <1>1, <1>5 DEF Typed, TypeOK
  <2> QED BY <1>1, <1>2, <1>5, <2>1, <2>2, <2>3, TypedIs, ClientTyped
<1>9. StreamSound' /\ CompletionsRecorded'
  BY <1>2, EngineKept
<1>10. RegistrationSound'
  <2>1. Trusting' => Trusting
    BY <1>5 DEF Trusting
  <2> QED BY <1>1, <1>2, <1>5, <2>1 DEF RegistrationSound, Idle
<1>11. BufferSound'
  <2>1. Trusting' => Trusting
    BY <1>5 DEF Trusting
  <2> QED BY <1>1, <1>2, <1>5, <2>1 DEF BufferSound
<1>12. CompletionsKnown'
  <2>1. \A p \in Operations : Done(p, store'.view[p])
    <3> TAKE p \in Operations
    <3>1. Done(p, store.view[p])
      BY <1>1 DEF CompletionsKnown
    <3>2. store'.view[p] = store.view[p] \/ (p = o /\ store'.view[p] = k)
      BY <1>4, <1>5
    <3> QED BY <1>6, <3>1, <3>2
  <2> QED BY <1>1, <1>2, <2>1 DEF CompletionsKnown, Done, Idle, engine
<1>13. ReplySound'
  BY <1>2 DEF ReplySound, Idle
<1>14. SnapshotSound'
  <2> SUFFICES ASSUME snapshotCall.state = "answered"
               PROVE  /\ snapshotCall.cursor.stream = stream'
                      /\ snapshotCall.cursor.sequence <= Len(published')
                      /\ ~store'.bufferFailed => Base' <= snapshotCall.cursor.sequence
                      /\ Fresh(snapshotCall.operations,
                               snapshotCall.cursor.sequence)'
    BY <1>2 DEF SnapshotSound
  <2>1. /\ snapshotCall.cursor.stream = stream
        /\ snapshotCall.cursor.sequence <= Len(published)
        /\ ~store.bufferFailed => Base <= snapshotCall.cursor.sequence
        /\ Fresh(snapshotCall.operations, snapshotCall.cursor.sequence)
    BY <1>1 DEF SnapshotSound
  <2>2. PICK view, c : view = snapshotCall.operations
                       /\ c = snapshotCall.cursor.sequence
    OBVIOUS
  <2>3. Fresh(view, c)'
    BY <1>2, <2>1, <2>2, FreshSame
  <2>4. Fresh(snapshotCall.operations, snapshotCall.cursor.sequence)'
    <3>1. snapshotCall'.operations = view /\ snapshotCall'.cursor.sequence = c
      BY <1>2, <2>2
    <3> QED BY <2>3, <3>1
  <2> QED BY <1>2, <1>5, <1>7, <2>1, <2>4 DEF engine
<1>15. TrustSound'
  <2> SUFFICES ASSUME Trusting'
               PROVE  /\ registration' = "ready" /\ store'.cursor.stream = stream'
                      /\ Base' <= store'.cursor.sequence
                      /\ store'.cursor.sequence <= Len(published')
                      /\ Fresh(store.view, store.cursor.sequence)'
    BY DEF TrustSound
  <2>1. Trusting
    BY <1>5 DEF Trusting
  <2>2. /\ registration = "ready" /\ store.cursor.stream = stream
        /\ Base <= store.cursor.sequence /\ store.cursor.sequence <= Len(published)
        /\ Fresh(store.view, store.cursor.sequence)
    BY <1>1, <2>1 DEF TrustSound
  <2>3. PICK view \in [Operations -> Known] : view = store.view
    BY <1>4
  <2>4. PICK c : c = store.cursor.sequence
    OBVIOUS
  <2>5. Fresh(store'.view, c)
    <3>1. CASE store'.view = store.view
      BY <2>2, <2>4, <3>1
    <3>2. CASE /\ k # Absent /\ Consistent(store.view, o, k)
               /\ store'.view = [store.view EXCEPT ![o] = k]
      <4>1. Fresh([view EXCEPT ![o] = k], c)
        BY <1>1, <1>6, <2>2, <2>3, <2>4, <3>2, AnswerFresh
      <4> QED BY <2>3, <3>2, <4>1
    <3>3. store'.view = store.view
          \/ (/\ k # Absent /\ Consistent(store.view, o, k)
              /\ store'.view = [store.view EXCEPT ![o] = k])
      BY <1>5
    <3> QED BY <3>1, <3>2, <3>3
  <2>6. PICK later : later = store'.view
    OBVIOUS
  <2>7. Fresh(later, c)'
    BY <1>2, <2>5, <2>6, FreshSame
  <2>8. Fresh(store.view, store.cursor.sequence)'
    <3>1. store'.cursor.sequence = c
      BY <1>5, <2>4
    <3> QED BY <2>6, <2>7, <3>1
  <2> QED BY <1>2, <1>5, <1>7, <2>2, <2>8 DEF engine
<1> QED BY <1>5, <1>7, <1>8, <1>9, <1>10, <1>11, <1>12, <1>13, <1>14, <1>15
        DEF StreamInv

\* The first element of a sequence, and the rest of it.
LEMMA HeadIs ==
  ASSUME NEW S, NEW s \in Seq(S), s # <<>>
  PROVE  /\ <<Head(s)>> \in Seq(S) /\ Len(<<Head(s)>>) = 1 /\ <<Head(s)>>[1] = s[1]
         /\ Tail(s) \in Seq(S) /\ Len(Tail(s)) = Len(s) - 1 /\ Len(s) \in Nat \ {0}
         /\ \A i \in 1..Len(Tail(s)) : Tail(s)[i] = s[i + 1]
<1>1. Len(s) \in Nat \ {0} /\ Head(s) = s[1] /\ s[1] \in S
  OBVIOUS
<1>2. Tail(s) \in Seq(S) /\ Len(Tail(s)) = Len(s) - 1
  OBVIOUS
<1>3. \A i \in 1..Len(Tail(s)) : Tail(s)[i] = s[i + 1]
  BY <1>1, <1>2
<1> QED BY <1>1, <1>2, <1>3

\* A poll takes the next event out of the channel.
LEMMA ReadKeeps ==
  ASSUME StreamInv, PollReads
  PROVE  StreamInv'
<1>1. Typed /\ StreamSound /\ CompletionsRecorded /\ RegistrationSound /\ BufferSound
  BY DEF StreamInv
<1>2. /\ registration = "ready" /\ carried = <<>> /\ queue # <<>>
      /\ carried' = <<Head(queue)>> /\ queue' = Tail(queue)
      /\ UNCHANGED engine /\ UNCHANGED <<failed, phase>>
      /\ UNCHANGED <<registration, observer, fault, store>>
      /\ snapshotCall' = snapshotCall /\ operationCall' = operationCall
  BY DEF PollReads, calls
<1>3. /\ carried' \in Seq(Events(issued)) /\ Len(carried') = 1
      /\ carried'[1] = queue[1]
      /\ queue' \in Seq(Events(issued)) /\ Len(queue') = Len(queue) - 1
      /\ Len(queue) \in Nat /\ Len(queue) > 0
      /\ \A i \in 1..Len(queue') : queue'[i] = queue[i + 1]
  <2>1. queue \in Seq(Events(issued))
    BY <1>1, TypedIs
  <2>2. Len(queue) \in Nat \ {0} => Len(queue) \in Nat /\ Len(queue) > 0
    OBVIOUS
  <2> QED BY <1>2, <2>1, <2>2, HeadIs
<1>4. published' = published /\ Len(carried) = 0
  BY <1>2, EmptyIs DEF engine
<1>5. Base' = Base /\ Base \in Nat /\ Len(store.buffer) \in Nat
  <2>1. /\ Base = observer.cursor - Len(queue) - Len(carried) - Len(store.buffer)
        /\ Base' = observer.cursor - Len(queue') - Len(carried') - Len(store.buffer)
    BY <1>2 DEF Base
  <2>2. observer.cursor \in Nat /\ Len(store.buffer) \in Nat
    BY <1>1, TypedIs
  <2> QED BY <1>3, <1>4, <2>1, <2>2, ComingIs
<1>6. ComingSound'
  <2>1. PICK b \in Nat : b = Base + Len(store.buffer)
    BY <1>5
  <2>2. /\ \A i \in DOMAIN store.buffer : store.buffer[i] = published[Base + i]
        /\ \A i \in DOMAIN queue : queue[i] = published[b + i]
    <3>1. Run(store.buffer, Base) /\ Run(queue, Base + Len(store.buffer) + Len(carried))
      BY DEF StreamInv, ComingSound
    <3>2. Base + Len(store.buffer) + Len(carried) = b
      BY <1>4, <2>1
    <3> QED BY <3>1, <3>2 DEF Run
  <2>3. \A i \in DOMAIN carried' : carried'[i] = published[b + i]
    <3> SUFFICES ASSUME NEW i \in DOMAIN carried'
                 PROVE  carried'[i] = published[b + i]
      OBVIOUS
    <3>1. i = 1
      BY <1>3
    <3>2. 1 \in DOMAIN queue
      BY <1>1, <1>3, TypedIs
    <3> QED BY <1>3, <2>2, <3>1, <3>2
  <2>4. \A i \in DOMAIN queue' : queue'[i] = published[b + 1 + i]
    <3> SUFFICES ASSUME NEW i \in DOMAIN queue'
                 PROVE  queue'[i] = published[b + 1 + i]
      OBVIOUS
    <3>1. i \in 1..Len(queue') /\ i \in Nat
      BY <1>3
    <3>2. DOMAIN queue = 1..Len(queue)
      BY <1>1, TypedIs
    <3>3. i + 1 \in DOMAIN queue
      BY <1>3, <3>1, <3>2
    <3>4. b + (i + 1) = b + 1 + i
      BY <2>1, <3>1
    <3> QED BY <1>3, <2>2, <3>1, <3>3, <3>4
  <2>5. Run(store.buffer, Base)'
    BY <1>2, <1>4, <1>5, <2>2 DEF Run
  <2>6. Run(carried, Base + Len(store.buffer))'
    BY <1>2, <1>4, <1>5, <2>1, <2>3 DEF Run
  <2>7. Run(queue, Base + Len(store.buffer) + Len(carried))'
    BY <1>2, <1>3, <1>4, <1>5, <2>1, <2>4 DEF Run
  <2> QED BY <1>5, <2>5, <2>6, <2>7 DEF ComingSound
<1>7. Typed'
  <2>1. CallsTyped'
    BY <1>1, <1>2, CallsAre
  <2>2. registration' \in {"none", "asked", "ready"} /\ fault' \in BOOLEAN
        /\ Len(queue) <= MaxObserverEvents
        /\ observer'.cursor <= Len(published)
        /\ Len(store'.buffer) <= MaxBufferedEvents
    BY <1>1, <1>2, TypedIs DEF Typed, TypeOK
  <2>3. Len(queue') <= MaxObserverEvents /\ Len(carried') <= 1
    BY <1>3, <2>2, StreamAssumption
  <2> QED BY <1>1, <1>2, <1>3, <2>1, <2>2, <2>3, TypedIs, ClientTyped
<1>8. StreamSound' /\ CompletionsRecorded'
  BY <1>2, EngineKept
<1>9. RegistrationSound'
  BY <1>1, <1>2 DEF RegistrationSound
<1>10. BufferSound'
  BY <1>1, <1>2 DEF BufferSound, Trusting
<1>11. CompletionsKnown' /\ TrustSound' /\ SnapshotSound' /\ ReplySound'
  <2>1. Trusting' => Trusting
    BY <1>2 DEF Trusting
  <2> QED BY <1>2, <1>5, <2>1, QuietKeeps
<1> QED BY <1>6, <1>7, <1>8, <1>9, <1>10, <1>11 DEF StreamInv

\* The event that a poll carries arrives: it is buffered, or the client looks at it
\* at once.
LEMMA CarriedIs ==
  ASSUME StreamInv, PollArrives
  PROVE  /\ registration = "ready" /\ Len(carried) = 1
         /\ Base + Len(store.buffer) + 1 \in 1..Len(published)
         /\ Head(carried) = published[Base + Len(store.buffer) + 1]
         /\ Head(carried) \in Events(issued)
<1>1. Typed /\ RegistrationSound /\ carried # <<>>
  BY DEF StreamInv, PollArrives
<1>2. carried \in Seq(Events(issued)) /\ Len(carried) \in {0, 1}
  BY <1>1, TypedIs
<1>3. Len(carried) = 1 /\ Head(carried) = carried[1] /\ 1 \in DOMAIN carried
      /\ carried[1] \in Events(issued)
  BY <1>1, <1>2
<1>4. registration = "ready"
  BY <1>1 DEF RegistrationSound
<1>5. Run(carried, Base + Len(store.buffer))
  BY DEF StreamInv, ComingSound
<1>6. carried[1] = published[Base + Len(store.buffer) + 1]
  BY <1>3, <1>5 DEF Run
<1>7. Base + Len(store.buffer) + 1 \in 1..Len(published)
  <2>1. PICK a \in Nat, q \in Nat, n \in Nat :
          a = Base + Len(store.buffer) /\ q = Len(queue) /\ n = Len(published)
    BY <1>1, ComingIs, TypedIs
  <2>2. a + 1 + q <= n
    BY <1>3, <2>1, ComingIs
  <2> QED BY <2>1, <2>2
<1> QED BY <1>3, <1>4, <1>6, <1>7

\* What is coming is the end of what was sent once the poll's event has arrived.
LEMMA CarriedGoes ==
  ASSUME StreamInv, PollArrives,
         store'.buffer = <<>> \/ store'.buffer = Append(store.buffer, Head(carried))
  PROVE  /\ ComingSound' /\ Base' \in Nat
         /\ store'.buffer = <<>> => Base' = Base + Len(store.buffer) + 1
         /\ store'.buffer # <<>> => Base' = Base
<1>1. /\ Typed /\ Run(store.buffer, Base)
      /\ Run(queue, Base + Len(store.buffer) + Len(carried))
  BY DEF StreamInv, ComingSound
<1>2. carried' = <<>> /\ queue' = queue /\ observer' = observer /\ published' = published
  BY DEF PollArrives, engine
<1>3. /\ store.buffer \in Seq(Events(issued)) /\ observer.cursor \in Nat
      /\ Len(carried') = 0 /\ Len(carried) = 1
  BY <1>1, <1>2, TypedIs, EmptyIs, CarriedIs
<1>4. PICK a \in Nat, b \in Nat, q \in Nat, k \in Nat :
        /\ a = Base /\ b = Len(store.buffer) /\ q = Len(queue)
        /\ k = observer.cursor /\ a + b + 1 + q = k
  BY <1>3, ComingIs
<1>5. Base' = observer.cursor - Len(queue) - 0 - Len(store'.buffer)
  BY <1>2, <1>3 DEF Base
<1>6. \A i \in DOMAIN queue : queue[i] = published[a + b + 1 + i]
  BY <1>1, <1>3, <1>4 DEF Run
<1>7. CASE store'.buffer = <<>>
  <2>1. Base' = a + b + 1
    BY <1>4, <1>5, <1>7, EmptyIs
  <2>2. Base' \in Nat /\ Base' + 0 = a + b + 1 /\ Base' + 0 + 0 = a + b + 1
    BY <1>4, <2>1
  <2>3. Run(store.buffer, Base)' /\ Run(carried, Base + Len(store.buffer))'
    BY <1>2, <1>7 DEF Run
  <2>4. Run(queue, Base + Len(store.buffer) + Len(carried))'
    BY <1>2, <1>3, <1>6, <1>7, <2>2, EmptyIs DEF Run
  <2>5. ComingSound'
    BY <2>2, <2>3, <2>4 DEF ComingSound
  <2> QED BY <1>4, <1>7, <2>1, <2>2, <2>5
<1>8. CASE store'.buffer = Append(store.buffer, Head(carried))
  <2>1. PICK e \in Events(issued) : e = Head(carried)
    BY CarriedIs
  <2>2. /\ Len(store'.buffer) = b + 1 /\ DOMAIN store'.buffer = 1..(b + 1)
        /\ \A i \in 1..b : store'.buffer[i] = store.buffer[i]
        /\ store'.buffer[b + 1] = e
    <3>1. PICK s \in Seq(Events(issued)) : s = store.buffer
      BY <1>3
    <3>2. store'.buffer = Append(s, e) /\ Len(s) = b
      BY <1>4, <1>8, <2>1, <3>1
    <3>3. /\ Len(Append(s, e)) = Len(s) + 1
          /\ DOMAIN Append(s, e) = 1..(Len(s) + 1)
          /\ \A i \in 1..Len(s) : Append(s, e)[i] = s[i]
          /\ Append(s, e)[Len(s) + 1] = e
      BY <3>1
    <3> QED BY <3>1, <3>2, <3>3
  <2>3. Base' = a
    <3>1. PICK l \in Nat : l = Len(store'.buffer) /\ l = b + 1
      BY <1>4, <2>2
    <3>2. Base' = k - q - 0 - l
      BY <1>4, <1>5, <3>1
    <3> QED BY <1>4, <3>1, <3>2
  <2>4. Run(store.buffer, Base)'
    <3> SUFFICES ASSUME NEW i \in 1..(b + 1)
                 PROVE  store'.buffer[i] = published[a + i]
      BY <1>2, <2>2, <2>3 DEF Run
    <3>1. CASE i \in 1..b
      <4>1. store.buffer[i] = published[a + i]
        BY <1>1, <1>3, <1>4, <3>1 DEF Run
      <4> QED BY <2>2, <3>1, <4>1
    <3>2. CASE i = b + 1
      <4>1. e = published[a + b + 1] /\ a + i = a + b + 1
        BY <1>4, <2>1, <3>2, CarriedIs
      <4> QED BY <2>2, <3>2, <4>1
    <3> QED BY <1>4, <3>1, <3>2
  <2>5. Run(carried, Base + Len(store.buffer))'
    BY <1>2 DEF Run
  <2>6. Run(queue, Base + Len(store.buffer) + Len(carried))'
    <3>1. Base' + Len(store'.buffer) + Len(carried') = a + b + 1
      BY <1>3, <1>4, <2>2, <2>3
    <3> QED BY <1>2, <1>6, <3>1 DEF Run
  <2>7. ComingSound'
    BY <1>4, <2>3, <2>4, <2>5, <2>6 DEF ComingSound
  <2>8. store'.buffer # <<>>
    BY <1>4, <2>2, EmptyIs
  <2> QED BY <1>4, <2>3, <2>7, <2>8
<1> QED BY <1>7, <1>8

\* What the arriving event makes of the store.
LEMMA ArrivalIs ==
  ASSUME StreamInv, PollArrives
  PROVE  /\ store' \in Stores(issued) /\ Len(store'.buffer) <= MaxBufferedEvents
         /\ store'.buffering = store.buffering
         /\ store'.buffer = <<>> \/ store'.buffer = Append(store.buffer, Head(carried))
         /\ ~store'.buffering \/ store'.bufferFailed => store'.buffer = <<>>
         /\ ~store'.bufferFailed =>
              /\ ~store.bufferFailed
              /\ store.buffering => store'.buffer # <<>>
         /\ store'.bufferFailed => store'.confidence # "anchored"
         /\ Advances(store.view, store'.view)
         /\ \A o \in Operations : Done(o, store'.view[o])
         /\ Trusting' =>
              /\ Trusting
              /\ \/ store'.buffer # <<>> /\ store'.view = store.view
                    /\ store'.cursor = store.cursor
                 \/ /\ ~store.buffering
                    /\ store'.cursor.stream = stream
                    /\ store'.cursor.sequence = Base + 1
                    /\ Fresh(store'.view, Base + 1)
<1>1. Typed /\ StreamSound /\ CompletionsRecorded /\ BufferSound /\ CompletionsKnown
      /\ TrustSound
  BY DEF StreamInv
<1>2. PICK e \in Events(issued) : e = Head(carried)
  BY CarriedIs
<1>3. store' = AcceptEvent(store, e)
  BY <1>2 DEF PollArrives
<1>4. PICK s \in Stores(issued) : s = store
  BY <1>1, TypedIs
<1>5. issued \in SUBSET Operations /\ Len(s.buffer) <= MaxBufferedEvents
      /\ s.view \in [Operations -> Known] /\ Advances(s.view, s.view)
      /\ s.buffer \in Seq(Events(issued))
  BY <1>1, <1>4, AdvancesIs DEF Typed, TypeOK, Stores
<1>6. CASE s.buffering
  <2>1. LET t == AcceptEvent(s, e) IN
         /\ t \in Stores(issued) /\ t.buffering /\ t.view = s.view
         /\ t.cursor = s.cursor
         /\ Len(t.buffer) <= MaxBufferedEvents
         /\ \/ s.bufferFailed /\ t = s
            \/ t.bufferFailed /\ t.buffer = <<>> /\ t.confidence = "stale"
            \/ /\ ~s.bufferFailed /\ t.bufferFailed = s.bufferFailed
               /\ t.confidence = s.confidence
               /\ t.buffer = Append(s.buffer, e)
    BY <1>5, <1>6, AcceptBuffered
  <2>2. store' = AcceptEvent(s, e)
    BY <1>3, <1>4
  <2>3. /\ store' \in Stores(issued) /\ store'.buffering /\ store'.view = s.view
        /\ store'.cursor = s.cursor
        /\ Len(store'.buffer) <= MaxBufferedEvents
        /\ \/ s.bufferFailed /\ store' = s
           \/ store'.bufferFailed /\ store'.buffer = <<>>
              /\ store'.confidence = "stale"
           \/ /\ ~s.bufferFailed /\ ~store'.bufferFailed
              /\ store'.confidence = s.confidence
              /\ store'.buffer = Append(s.buffer, e)
    BY <2>1, <2>2
  <2>4. Append(s.buffer, e) # <<>>
    BY <1>5, EmptyIs
  <2>5. s.bufferFailed => s.buffer = <<>> /\ s.confidence # "anchored"
    BY <1>1, <1>4 DEF BufferSound, Trusting
  <2>6. \A o \in Operations : Done(o, s.view[o])
    BY <1>1, <1>4 DEF CompletionsKnown
  <2> QED BY <1>2, <1>4, <1>5, <1>6, <2>3, <2>4, <2>5, <2>6 DEF Trusting
<1>7. CASE ~s.buffering
  <2>1. s.buffer = <<>> /\ (s.bufferFailed => s.confidence # "anchored")
    BY <1>1, <1>4, <1>7 DEF BufferSound, Trusting
  <2>2. PICK n \in 1..Len(published) : n = Base + 1 /\ e = published[n]
    <3>1. Base + Len(store.buffer) + 1 = Base + 1
      BY <1>4, <2>1, EmptyIs, ComingIs
    <3> QED BY <1>2, <3>1, CarriedIs
  <2>3. LET t == AcceptEvent(s, e) IN
         /\ t \in Stores(issued) /\ ~t.buffering
         /\ t.bufferFailed = s.bufferFailed /\ t.buffer = s.buffer
         /\ Advances(s.view, t.view)
         /\ t.confidence = "stale" \/ t.confidence = s.confidence
    BY <1>5, <1>7, AcceptNext
  <2>4. s.confidence = "anchored" => Fresh(s.view, s.cursor.sequence)
    BY <1>1, <1>4 DEF TrustSound, Trusting
  <2>5. \A o \in Operations : Done(o, s.view[o])
    BY <1>1, <1>4 DEF CompletionsKnown
  <2>6. LET t == AcceptEvent(s, published[n]) IN
         /\ \A o \in Operations : Done(o, t.view[o])
         /\ t.confidence = "anchored" =>
              /\ s.confidence = "anchored"
              /\ t.cursor = [stream |-> stream, sequence |-> n]
              /\ Fresh(t.view, n)
    BY <1>1, <1>7, <2>4, <2>5, AcceptFresh
  <2>7. store' = AcceptEvent(s, e) /\ store' = AcceptEvent(s, published[n])
    BY <1>3, <1>4, <2>2
  <2>8. /\ store' \in Stores(issued) /\ ~store'.buffering
        /\ store'.bufferFailed = s.bufferFailed /\ store'.buffer = <<>>
        /\ Advances(s.view, store'.view)
        /\ store'.confidence = "stale" \/ store'.confidence = s.confidence
    BY <2>1, <2>3, <2>7
  <2>9. /\ \A o \in Operations : Done(o, store'.view[o])
        /\ store'.confidence = "anchored" =>
             /\ s.confidence = "anchored"
             /\ store'.cursor = [stream |-> stream, sequence |-> n]
             /\ Fresh(store'.view, n)
    BY <2>6, <2>7
  <2>10. Len(store'.buffer) <= MaxBufferedEvents
    BY <2>8, EmptyIs, StoreAssumption
  <2>11. ASSUME Trusting'
         PROVE  /\ Trusting /\ ~store.buffering
                /\ store'.cursor.stream = stream
                /\ store'.cursor.sequence = Base + 1
                /\ Fresh(store'.view, Base + 1)
    <3>1. /\ s.confidence = "anchored"
          /\ store'.cursor = [stream |-> stream, sequence |-> n]
          /\ Fresh(store'.view, n)
      BY <2>9, <2>11 DEF Trusting
    <3>2. store'.cursor.stream = stream /\ store'.cursor.sequence = n
      BY <3>1
    <3> QED BY <1>4, <1>7, <2>2, <3>1, <3>2 DEF Trusting
  <2>12. ~store.buffering /\ store'.buffering = store.buffering
         /\ store'.bufferFailed = store.bufferFailed
         /\ (store'.bufferFailed => store'.confidence # "anchored")
         /\ Advances(store.view, store'.view)
    <3>1. store.buffering \in BOOLEAN /\ store'.buffering \in BOOLEAN
      BY <1>4, <2>8 DEF Stores
    <3>2. ~store.buffering /\ ~store'.buffering
      BY <1>4, <1>7, <2>8
    <3> QED BY <1>4, <2>1, <2>8, <3>1, <3>2
  <2> QED BY <2>8, <2>9, <2>10, <2>11, <2>12
<1> QED BY <1>6, <1>7

\* The event that a poll carries arrives.
LEMMA ArrivalKeeps ==
  ASSUME StreamInv, PollArrives
  PROVE  StreamInv' /\ Advances(store.view, store'.view)
<1>1. Typed /\ RegistrationSound /\ BufferSound /\ CompletionsKnown /\ TrustSound
      /\ SnapshotSound /\ ReplySound
  BY DEF StreamInv
<1>2. /\ carried' = <<>> /\ UNCHANGED engine /\ UNCHANGED <<failed, phase>>
      /\ UNCHANGED <<registration, observer, fault, queue>>
      /\ snapshotCall' = snapshotCall /\ operationCall' = operationCall
      /\ published' = published /\ stream' = stream /\ operations' = operations
  BY DEF PollArrives, calls, engine
<1>3. ComingSound' /\ Base' \in Nat
      /\ (store'.buffer = <<>> => Base' = Base + Len(store.buffer) + 1)
      /\ (store'.buffer # <<>> => Base' = Base)
  BY ArrivalIs, CarriedGoes
<1>4. Typed'
  <2>1. CallsTyped'
    BY <1>1, <1>2, CallsAre
  <2>2. registration' \in {"none", "asked", "ready"} /\ fault' \in BOOLEAN
        /\ Len(queue') <= MaxObserverEvents
        /\ observer'.cursor <= Len(published)
    BY <1>1, <1>2, TypedIs DEF Typed, TypeOK
  <2>3. carried' \in Seq(Events(issued)) /\ Len(carried') <= 1
    BY <1>2, EmptyIs
  <2> QED BY <1>1, <1>2, <2>1, <2>2, <2>3, TypedIs, ArrivalIs, ClientTyped
<1>5. StreamSound' /\ CompletionsRecorded'
  BY <1>2, EngineKept
<1>6. RegistrationSound'
  <2>1. registration = "ready" /\ registration' = "ready"
    BY <1>2, CarriedIs
  <2> QED BY <1>1, <1>2, <2>1 DEF RegistrationSound
<1>7. BufferSound'
  BY <1>1, <1>2, ArrivalIs DEF BufferSound, Trusting
<1>8. CompletionsKnown'
  BY <1>1, <1>2, ArrivalIs DEF CompletionsKnown, Done
<1>9. ReplySound'
  BY <1>1, <1>2 DEF ReplySound, Older
<1>10. SnapshotSound'
  <2> SUFFICES ASSUME snapshotCall.state = "answered"
               PROVE  /\ snapshotCall.cursor.stream = stream'
                      /\ snapshotCall.cursor.sequence <= Len(published')
                      /\ ~store'.bufferFailed => Base' <= snapshotCall.cursor.sequence
                      /\ Fresh(snapshotCall.operations,
                               snapshotCall.cursor.sequence)'
    BY <1>2 DEF SnapshotSound
  <2>1. /\ snapshotCall.cursor.stream = stream
        /\ snapshotCall.cursor.sequence <= Len(published)
        /\ ~store.bufferFailed => Base <= snapshotCall.cursor.sequence
        /\ Fresh(snapshotCall.operations, snapshotCall.cursor.sequence)
    BY <1>1 DEF SnapshotSound
  <2>2. PICK view, c : view = snapshotCall.operations
                       /\ c = snapshotCall.cursor.sequence
    OBVIOUS
  <2>3. Fresh(view, c)'
    BY <1>2, <2>1, <2>2, FreshSame
  <2>4. Fresh(snapshotCall.operations, snapshotCall.cursor.sequence)'
    <3>1. snapshotCall'.operations = view /\ snapshotCall'.cursor.sequence = c
      BY <1>2, <2>2
    <3> QED BY <2>3, <3>1
  <2>5. store.buffering
    BY <1>1 DEF BufferSound, Idle
  <2>6. ~store'.bufferFailed => ~store.bufferFailed /\ Base' = Base
    BY <1>3, <2>5, ArrivalIs
  <2> QED BY <1>2, <2>1, <2>4, <2>6
<1>11. TrustSound'
  <2> SUFFICES ASSUME Trusting'
               PROVE  /\ registration' = "ready" /\ store'.cursor.stream = stream'
                      /\ Base' <= store'.cursor.sequence
                      /\ store'.cursor.sequence <= Len(published')
                      /\ Fresh(store.view, store.cursor.sequence)'
    BY DEF TrustSound
  <2>1. /\ registration = "ready" /\ store.cursor.stream = stream
        /\ Base <= store.cursor.sequence /\ store.cursor.sequence <= Len(published)
        /\ Fresh(store.view, store.cursor.sequence)
    BY <1>1, ArrivalIs DEF TrustSound
  <2>2. /\ store'.cursor.stream = stream /\ Base' <= store'.cursor.sequence
        /\ store'.cursor.sequence <= Len(published)
        /\ Fresh(store'.view, store'.cursor.sequence)
    <3>1. CASE store'.buffer # <<>> /\ store'.view = store.view
               /\ store'.cursor = store.cursor
      BY <1>3, <2>1, <3>1
    <3>2. CASE /\ ~store.buffering
               /\ store'.cursor.stream = stream
               /\ store'.cursor.sequence = Base + 1
               /\ Fresh(store'.view, Base + 1)
      <4>1. store.buffer = <<>>
        BY <1>1, <3>2 DEF BufferSound
      <4>2. store'.buffer = <<>>
        BY <3>2, ArrivalIs
      <4>3. Base + Len(store.buffer) + 1 = Base + 1
        BY <4>1, EmptyIs, ComingIs
      <4>4. Base' = Base + 1
        BY <1>3, <4>2, <4>3
      <4>5. Base + 1 <= Len(published) /\ Base + 1 \in Nat
        BY <1>3, <4>3, <4>4, CarriedIs
      <4> QED BY <3>2, <4>4, <4>5
    <3> QED BY <3>1, <3>2, ArrivalIs
  <2>3. PICK view, c : view = store'.view /\ c = store'.cursor.sequence
    OBVIOUS
  <2>4. Fresh(view, c)'
    BY <1>2, <2>2, <2>3, FreshSame
  <2>5. Fresh(store.view, store.cursor.sequence)'
    BY <2>3, <2>4
  <2> QED BY <1>2, <2>1, <2>2, <2>5
<1> QED BY <1>3, <1>4, <1>5, <1>6, <1>7, <1>8, <1>9, <1>10, <1>11, ArrivalIs
        DEF StreamInv

\* Every step of the client.
LEMMA ClientKeeps ==
  ASSUME StreamInv, ClientStep
  PROVE  StreamInv'
<1> QED BY AskingKeeps, AskedKeeps, SnapshotKeeps, OperationKeeps, ReadKeeps,
           ArrivalKeeps, DisconnectedKeeps DEF ClientStep

-----------------------------------------------------------------------------
(* The next host                                                           *)

\* An operation as the next host opens it: what was completed stays so.
LEMMA ReopenedIs ==
  ASSUME Typed, NEW o \in Operations
  PROVE  /\ Reopened(o) \in Known
         /\ durable[o].status = "completed" => Reopened(o) = durable[o]
         /\ durable[o] = Absent => Reopened(o) = Absent
         /\ durable[o] # Absent => Reopened(o) \in Snapshots
<1>1. durable[o] \in Known
  BY TypedIs
<1>2. CASE durable[o] = Absent
  <2>1. durable[o].status = "absent" /\ durable[o] # Admitted
    BY <1>2, AbsentIs, AdmittedIs
  <2>2. Reopened(o) = durable[o]
    BY <2>1 DEF Reopened
  <2> QED BY <1>1, <1>2, <2>1, <2>2
<1>3. CASE durable[o] \in Snapshots
  <2>1. durable[o].status \in {"active", "recovery", "completed"}
        /\ durable[o].revision \in Nat \ {0}
    BY <1>3 DEF Snapshots, Statuses
  <2>2. CASE durable[o].status = "completed"
    <3>1. Reopened(o) = durable[o]
      <4>1. durable[o] # Admitted
        BY <2>2, AdmittedIs
      <4> QED BY <2>2, <4>1 DEF Reopened
    <3> QED BY <1>1, <1>3, <2>2, <3>1, AbsentIs
  <2>3. CASE durable[o] = Admitted
    <3>1. Reopened(o) = [revision |-> 2, status |-> "completed"]
      BY <2>3, AdmittedIs DEF Reopened
    <3>2. [revision |-> 2, status |-> "completed"] \in Snapshots
      BY DEF Snapshots, Statuses
    <3> QED BY <2>3, <3>1, <3>2, KnownIs, AdmittedIs, AbsentIs
  <2>4. CASE durable[o] # Admitted /\ durable[o].status # "completed"
    <3>1. durable[o].status \notin {"absent", "completed"}
      BY <2>1, <2>4
    <3>2. Reopened(o) = [revision |-> durable[o].revision + 1, status |-> "recovery"]
      BY <2>4, <3>1 DEF Reopened
    <3>3. durable[o].revision + 1 \in Nat \ {0}
      BY <2>1
    <3>4. [revision |-> durable[o].revision + 1, status |-> "recovery"] \in Snapshots
      BY <3>3 DEF Snapshots, Statuses
    <3> QED BY <2>4, <3>1, <3>2, <3>4, KnownIs, AbsentIs
  <2> QED BY <2>2, <2>3, <2>4
<1> QED BY <1>1, <1>2, <1>3 DEF Known

\* The next host opens the journal while no client is registered.
LEMMA ReplacedKeeps ==
  ASSUME StreamInv, HostReplaced
  PROVE  StreamInv'
<1> DEFINE changes == {o \in Operations : Reopened(o) # durable[o]}
<1>1. Typed /\ StreamSound /\ CompletionsRecorded /\ CompletionsKnown
      /\ RegistrationSound /\ BufferSound
  BY DEF StreamInv
<1>2. /\ stream < MaxStreams /\ stream' = stream + 1 /\ registration = "none"
      /\ operations' = [o \in Operations |-> Reopened(o)] /\ durable' = operations'
      /\ poisoned' = FALSE /\ failed' = FALSE /\ phase' = "receive"
      /\ issued' = issued /\ store' = store
      /\ UNCHANGED <<registration, observer, fault, queue, carried>>
      /\ snapshotCall' = snapshotCall /\ operationCall' = operationCall
  BY DEF HostReplaced, subscription, calls
<1>3. PICK changed \in SetToSeqs(changes) :
        published' = [i \in DOMAIN changed |->
             [cursor |-> [stream |-> stream + 1, sequence |-> i],
              operation |-> changed[i], snapshot |-> Reopened(changed[i])]]
  BY DEF HostReplaced
<1>4. PICK n \in Nat : n = Cardinality(changes)
  <2>1. changes \in SUBSET Operations
    OBVIOUS
  <2>2. IsFiniteSet(changes)
    <3> HIDE DEF changes
    <3> QED BY <2>1, StoreAssumption, FS_Subset
  <2> HIDE DEF changes
  <2> QED BY <2>2, FS_CardinalityType
<1>5. changed \in [1..n -> changes]
  <2> HIDE DEF changes
  <2> QED BY <1>3, <1>4 DEF SetToSeqs
<1>6. stream + 1 \in 1..MaxStreams
  BY <1>1, <1>2, TypedIs, StreamAssumption
<1>7. \A o \in changes : o \in issued /\ Reopened(o) \in Snapshots
  <2> TAKE o \in changes
  <2>1. durable[o] # Absent
    BY <1>1, ReopenedIs
  <2> QED BY <1>1, <2>1, ReopenedIs DEF StreamSound
<1>8. \A i \in 1..n : changed[i] \in changes
  <2> HIDE DEF changes
  <2> QED BY <1>5
<1>9. \A i \in 1..n :
        /\ published'[i] = [cursor |-> [stream |-> stream + 1, sequence |-> i],
                            operation |-> changed[i],
                            snapshot |-> Reopened(changed[i])]
        /\ published'[i] \in Events(issued)
  <2> TAKE i \in 1..n
  <2>1. changed[i] \in issued /\ Reopened(changed[i]) \in Snapshots /\ i \in Nat
    BY <1>7, <1>8
  <2>2. published'[i] = [cursor |-> [stream |-> stream + 1, sequence |-> i],
                         operation |-> changed[i],
                         snapshot |-> Reopened(changed[i])]
    <3> HIDE DEF changes
    <3> QED BY <1>3, <1>5
  <2> QED BY <1>6, <2>1, <2>2 DEF Events
<1>10. published' \in Seq(Events(issued)) /\ Len(published') = n
       /\ DOMAIN published' = 1..n
  <2>1. DOMAIN published' = 1..n
    <3> HIDE DEF changes
    <3> QED BY <1>3, <1>5
  <2>2. published' \in [1..n -> Events(issued)]
    <3>1. published' = [i \in 1..n |-> published'[i]]
      <4> HIDE DEF changes
      <4> QED BY <1>3, <1>5
    <3> QED BY <1>9, <3>1
  <2>3. PICK p \in [1..n -> Events(issued)] : p = published'
    BY <2>2
  <2>4. p \in Seq(Events(issued)) /\ Len(p) = n
    BY <2>3
  <2> QED BY <2>1, <2>3, <2>4
<1>11. operations' \in [Operations -> Known] /\ durable' \in [Operations -> Known]
       /\ \A o \in Operations : operations'[o] = Reopened(o)
  BY <1>1, <1>2, ReopenedIs
<1>12. /\ queue = <<>> /\ carried = <<>> /\ store.buffer = <<>>
       /\ observer = [live |-> FALSE, cursor |-> 0] /\ ~Trusting
       /\ snapshotCall = Idle /\ operationCall = Idle
  BY <1>1, <1>2 DEF RegistrationSound
<1>13. Typed'
  <2>1. CallsTyped'
    BY <1>1, <1>2, CallsAre
  <2>2. store' \in Stores(issued') /\ observer' \in [live : BOOLEAN, cursor : Nat]
    BY <1>1, <1>2, TypedIs
  <2>3. observer'.cursor \in 0..Len(published') /\ observer'.live \in BOOLEAN
    <3>1. observer'.cursor = 0 /\ observer'.live = FALSE
      BY <1>2, <1>12
    <3>2. 0 \in 0..Len(published')
      BY <1>10
    <3> QED BY <3>1, <3>2
  <2>4. queue' \in Seq(Events(issued')) /\ carried' \in Seq(Events(issued'))
        /\ Len(queue') <= MaxObserverEvents /\ Len(carried') <= 1
        /\ Len(store'.buffer) <= MaxBufferedEvents
        /\ issued' \subseteq Operations
        /\ registration' \in {"none", "asked", "ready"} /\ fault' \in BOOLEAN
        /\ snapshotCall'.state \in {"idle", "asked", "answered"}
        /\ operationCall'.state \in {"idle", "asked", "answered"}
        /\ store'.confidence \in {"uninitialized", "anchored", "stale"}
        /\ store'.view \in [Operations -> Snapshots \cup {Absent}]
    BY <1>1, <1>2, TypedIs DEF Typed, TypeOK
  <2>5. stream' \in 1..MaxStreams /\ published' \in Seq(Events(issued'))
        /\ operations' \in [Operations -> Snapshots \cup {Absent}]
        /\ durable' \in [Operations -> Snapshots \cup {Absent}]
        /\ poisoned' \in BOOLEAN /\ failed' \in BOOLEAN
        /\ phase' \in {"receive", "pump"}
    BY <1>2, <1>6, <1>10, <1>11 DEF Known
  <2>6. TypeOK'
    BY <2>3, <2>4, <2>5 DEF TypeOK
  <2> QED BY <2>1, <2>2, <2>6 DEF Typed
<1>14. StreamSound'
  <2>1. \A i \in DOMAIN published' :
          /\ published'[i].cursor = [stream |-> stream', sequence |-> i]
          /\ published'[i].snapshot = operations'[published'[i].operation]
    <3> SUFFICES ASSUME NEW i \in 1..n
                 PROVE  /\ published'[i].cursor = [stream |-> stream', sequence |-> i]
                        /\ published'[i].snapshot =
                             operations'[published'[i].operation]
      BY <1>10
    <3>1. published'[i] = [cursor |-> [stream |-> stream + 1, sequence |-> i],
                           operation |-> changed[i],
                           snapshot |-> Reopened(changed[i])]
      BY <1>9
    <3>2. changed[i] \in Operations
      BY <1>8
    <3> HIDE DEF changes
    <3> QED BY <1>2, <1>11, <3>1, <3>2
  <2>2. \A o \in Operations \ issued' :
          operations'[o] = Absent /\ durable'[o] = Absent
    <3> SUFFICES ASSUME NEW o \in Operations, o \notin issued
                 PROVE  operations'[o] = Absent
      BY <1>2
    <3>1. durable[o] = Absent
      BY <1>1 DEF StreamSound
    <3> QED BY <1>1, <1>11, <3>1, ReopenedIs
  <2> HIDE DEF changes
  <2> QED BY <1>2, <2>1, <2>2 DEF StreamSound
<1>15. CompletionsRecorded'
  <2> HIDE DEF changes
  <2>1. \A i \in DOMAIN published' :
          published'[i].snapshot = operations'[published'[i].operation]
    <3> SUFFICES ASSUME NEW i \in 1..n
                 PROVE  published'[i].snapshot =
                             operations'[published'[i].operation]
      BY <1>10
    <3>1. published'[i].operation = changed[i]
          /\ published'[i].snapshot = Reopened(changed[i])
      <4>1. published'[i] = [cursor |-> [stream |-> stream + 1, sequence |-> i],
                             operation |-> changed[i],
                             snapshot |-> Reopened(changed[i])]
        BY <1>9
      <4> QED BY <4>1
    <3>2. changed[i] \in Operations
      BY <1>8 DEF changes
    <3> QED BY <1>11, <3>1, <3>2
  <2> QED BY <1>2, <2>1 DEF CompletionsRecorded, Done
<1>16. CompletionsKnown'
  <2>1. \A o \in Operations : Done(o, store.view[o])'
    <3> TAKE o \in Operations
    <3>1. store.view[o].status = "completed" => durable[o].status = "completed"
      BY <1>1 DEF CompletionsKnown, CompletionsRecorded, Done
    <3>2. durable[o].status = "completed" => operations'[o].status = "completed"
      BY <1>1, <1>11, ReopenedIs
    <3> QED BY <1>2, <3>1, <3>2 DEF Done
  <2> QED BY <1>2, <1>12, <2>1 DEF CompletionsKnown, Idle
<1>17. RegistrationSound' /\ BufferSound' /\ TrustSound' /\ SnapshotSound' /\ ReplySound'
  BY <1>1, <1>2, <1>12
     DEF RegistrationSound, BufferSound, TrustSound, SnapshotSound, ReplySound,
         Trusting, Idle
<1>18. ComingSound'
  <2>1. Base' = 0
    BY <1>2, <1>12, EmptyIs DEF Base
  <2> QED BY <1>2, <1>12, <2>1 DEF ComingSound, Run
<1> QED BY <1>13, <1>14, <1>15, <1>16, <1>17, <1>18 DEF StreamInv

-----------------------------------------------------------------------------
(* The inductive invariant holds of every behaviour                        *)

\* The first host with a client that knows nothing.
LEMMA InitSound == Init => StreamInv
<1> SUFFICES ASSUME Init PROVE StreamInv
  OBVIOUS
<1>1. /\ stream = 1 /\ operations = [o \in Operations |-> Absent]
      /\ durable = operations /\ issued = {} /\ published = <<>>
      /\ poisoned = FALSE /\ failed = FALSE /\ phase = "receive"
      /\ registration = "none" /\ observer = [live |-> FALSE, cursor |-> 0]
      /\ fault = FALSE /\ queue = <<>> /\ carried = <<>>
      /\ snapshotCall = Idle /\ operationCall = Idle
      /\ store = NewStore
  BY DEF Init
<1>2. operations \in [Operations -> Known] /\ \A o \in Operations : operations[o] = Absent
  BY <1>1 DEF Known
<1>3. /\ store.confidence = "uninitialized" /\ store.cursor = NoCursor
      /\ store.view = [o \in Operations |-> Absent]
      /\ store.buffering = FALSE /\ store.bufferFailed = FALSE
      /\ store.buffer = <<>> /\ store \in Stores(issued)
  <2>1. NoCursor \in Cursors
    BY DEF NoCursor, Cursors
  <2>2. [o \in Operations |-> Absent] \in [Operations -> Known]
    BY DEF Known
  <2> QED BY <1>1, <2>1, <2>2, EmptyIs DEF NewStore, Stores
<1>4. Typed
  <2>1. CallsTyped
    BY <1>1 DEF CallsTyped
  <2>2. stream \in 1..MaxStreams /\ 0 \in 0..Len(published)
    <3>1. 1 \in 1..MaxStreams
      BY StreamAssumption
    <3>2. Len(published) = 0
      BY <1>1, EmptyIs
    <3> QED BY <1>1, <3>1, <3>2
  <2>3. 0 <= MaxObserverEvents /\ 0 <= MaxBufferedEvents /\ 0 <= 1
    BY StreamAssumption, StoreAssumption
  <2>4. store.view \in [Operations -> Snapshots \cup {Absent}]
        /\ operations \in [Operations -> Snapshots \cup {Absent}]
    BY <1>1, <1>3
  <2>5. /\ published \in Seq(Events(issued)) /\ queue \in Seq(Events(issued))
        /\ carried \in Seq(Events(issued)) /\ Len(queue) <= MaxObserverEvents
        /\ Len(carried) <= 1 /\ Len(store.buffer) <= MaxBufferedEvents
    BY <1>1, <1>3, <2>3, EmptyIs
  <2>6. TypeOK
    BY <1>1, <1>3, <2>2, <2>4, <2>5 DEF TypeOK, Idle
  <2> QED BY <1>1, <1>3, <2>1, <2>6 DEF Typed
<1>5. StreamSound /\ CompletionsRecorded
  BY <1>1, <1>2, AbsentIs, EmptyIs DEF StreamSound, CompletionsRecorded, Done
<1>6. CompletionsKnown
  BY <1>1, <1>3, AbsentIs DEF CompletionsKnown, Done, Idle
<1>7. RegistrationSound /\ BufferSound /\ TrustSound /\ SnapshotSound /\ ReplySound
  BY <1>1, <1>3 DEF RegistrationSound, BufferSound, TrustSound, SnapshotSound,
                    ReplySound, Trusting, Idle
<1>8. ComingSound
  <2>1. Base = 0
    BY <1>1, <1>3, EmptyIs DEF Base
  <2> QED BY <1>1, <1>3, <2>1 DEF ComingSound, Run
<1> QED BY <1>4, <1>5, <1>6, <1>7, <1>8 DEF StreamInv

\* A step that changes nothing.
LEMMA RestKeeps ==
  ASSUME StreamInv, UNCHANGED vars
  PROVE  StreamInv'
<1>1. /\ UNCHANGED engine /\ UNCHANGED <<failed, phase>>
      /\ UNCHANGED <<registration, observer, fault, queue, carried, store>>
      /\ snapshotCall' = snapshotCall /\ operationCall' = operationCall
  BY DEF vars, subscription, calls
<1>2. Typed /\ RegistrationSound /\ BufferSound
  BY DEF StreamInv
<1>3. ComingSound' /\ Base' \in Nat /\ Base' = Base
  <2>1. published' = published
    BY <1>1 DEF engine
  <2> QED BY <1>1, <2>1, BufferGoes
<1>4. Typed'
  <2>1. CallsTyped'
    BY <1>1, <1>2, CallsAre
  <2>2. registration' \in {"none", "asked", "ready"} /\ fault' \in BOOLEAN
        /\ Len(queue') <= MaxObserverEvents /\ Len(carried') <= 1
        /\ observer'.cursor <= Len(published)
        /\ Len(store'.buffer) <= MaxBufferedEvents
    BY <1>1, <1>2, TypedIs DEF Typed, TypeOK
  <2> QED BY <1>1, <1>2, <2>1, <2>2, TypedIs, ClientTyped
<1>5. StreamSound' /\ CompletionsRecorded'
  BY <1>1, EngineKept
<1>6. RegistrationSound' /\ BufferSound'
  BY <1>1, <1>2 DEF RegistrationSound, BufferSound, Trusting
<1>7. CompletionsKnown' /\ TrustSound' /\ SnapshotSound' /\ ReplySound'
  <2>1. Trusting' => Trusting
    BY <1>1 DEF Trusting
  <2> QED BY <1>1, <1>3, <2>1, QuietKeeps
<1> QED BY <1>3, <1>4, <1>5, <1>6, <1>7 DEF StreamInv

\* A client, its host and the ones after it keep StreamInv: what is buffered, on
\* its way to a poll and queued is one part of the stream without a gap, a client
\* that trusts what it shows stands no further back than that part begins, and
\* behind its place the stream tells everything it does not know.
THEOREM StreamInvariant == Spec => []StreamInv
<1>1. StreamInv /\ [Next]_vars => StreamInv'
  BY OwnerKeeps, ClientKeeps, ReplacedKeeps, RestKeeps DEF Next
<1> QED BY <1>1, InitSound, PTL DEF Spec

\* The types of all variables, and the bounds of the channel and of the buffer.
THEOREM StreamTypeCorrect == Spec => []TypeOK
<1>1. StreamInv => TypeOK
  BY DEF StreamInv, Typed
<1> QED BY <1>1, StreamInvariant, PTL

-----------------------------------------------------------------------------
(* What a trusting client may rely on                                      *)

\* What is coming is the part of the stream from Base to the observer's cursor.
LEMMA ComingElements ==
  ASSUME StreamInv
  PROVE  /\ Coming \in Seq(Events(issued))
         /\ Base + Len(Coming) = observer.cursor
         /\ \A i \in 1..Len(Coming) : Coming[i] = published[Base + i]
<1>1. /\ Typed /\ BufferSound /\ Run(store.buffer, Base)
      /\ Run(carried, Base + Len(store.buffer))
      /\ Run(queue, Base + Len(store.buffer) + Len(carried))
  BY DEF StreamInv, ComingSound
<1>2. PICK b \in Seq(Events(issued)), c \in Seq(Events(issued)),
           q \in Seq(Events(issued)) :
        b = store.buffer /\ c = carried /\ q = queue
  BY <1>1, TypedIs
<1>3. Coming = (b \o c) \o q
  <2>1. (IF store.buffering THEN store.buffer ELSE <<>>) = b
    BY <1>1, <1>2 DEF BufferSound
  <2> QED BY <1>2, <2>1 DEF Coming
<1>4. /\ b \o c \in Seq(Events(issued)) /\ Len(b \o c) = Len(b) + Len(c)
      /\ \A i \in 1..Len(b) : (b \o c)[i] = b[i]
      /\ \A i \in 1..Len(c) : (b \o c)[Len(b) + i] = c[i]
  BY ConcatIs
<1>5. PICK d \in Seq(Events(issued)) : d = b \o c
  BY <1>4
<1>6. /\ d \o q \in Seq(Events(issued)) /\ Len(d \o q) = Len(d) + Len(q)
      /\ \A i \in 1..Len(d) : (d \o q)[i] = d[i]
      /\ \A i \in 1..Len(q) : (d \o q)[Len(d) + i] = q[i]
  BY ConcatIs
<1>7. PICK a \in Nat, k \in Nat, l \in Nat, m \in Nat :
        /\ a = Base /\ k = Len(b) /\ l = Len(c) /\ m = Len(q)
        /\ a + k + l + m = observer.cursor
  BY <1>2, ComingIs
<1>8. /\ \A i \in 1..k : b[i] = published[a + i]
      /\ \A i \in 1..l : c[i] = published[a + k + i]
      /\ \A i \in 1..m : q[i] = published[a + k + l + i]
  <2>1. DOMAIN b = 1..k /\ DOMAIN c = 1..l /\ DOMAIN q = 1..m
    BY <1>7
  <2>2. Run(b, a) /\ Run(c, a + k) /\ Run(q, a + k + l)
    BY <1>1, <1>2, <1>7
  <2> QED BY <2>1, <2>2 DEF Run
<1>9. Len(d \o q) = k + l + m /\ Len(d) = k + l
  BY <1>4, <1>5, <1>6, <1>7
<1>10. \A i \in 1..(k + l + m) : (d \o q)[i] = published[a + i]
  <2> SUFFICES ASSUME NEW i \in 1..(k + l + m)
               PROVE  (d \o q)[i] = published[a + i]
    OBVIOUS
  <2>1. CASE i \in 1..k
    BY <1>4, <1>5, <1>6, <1>7, <1>8, <1>9, <2>1
  <2>2. CASE i > k /\ i <= k + l
    <3>1. PICK j \in 1..l : i = k + j
      <4>1. i - k \in 1..l /\ i = k + (i - k)
        BY <1>7, <2>2
      <4> QED BY <4>1
    <3>2. (d \o q)[i] = c[j]
      BY <1>4, <1>5, <1>6, <1>7, <1>9, <2>2, <3>1
    <3>3. a + i = a + k + j
      BY <1>7, <3>1
    <3> QED BY <1>8, <3>1, <3>2, <3>3
  <2>3. CASE i > k + l
    <3>1. PICK j \in 1..m : i = k + l + j
      <4>1. i - (k + l) \in 1..m /\ i = k + l + (i - (k + l))
        BY <1>7, <2>3
      <4> QED BY <4>1
    <3>2. (d \o q)[i] = q[j]
      BY <1>6, <1>7, <1>9, <3>1
    <3>3. a + i = a + k + l + j
      BY <1>7, <3>1
    <3> QED BY <1>8, <3>1, <3>2, <3>3
  <2>4. i \in 1..k \/ (i > k /\ i <= k + l) \/ i > k + l
    BY <1>7
  <2> QED BY <2>1, <2>2, <2>3, <2>4
<1>11. Coming = d \o q
  BY <1>3, <1>5
<1>12. PICK t \in Seq(Events(issued)) : t = d \o q
  BY <1>6
<1>13. Len(t) = k + l + m /\ \A i \in 1..Len(t) : t[i] = published[a + i]
  BY <1>9, <1>10, <1>12
<1>14. a + Len(t) = observer.cursor
  <2>1. a + (k + l + m) = a + k + l + m
    BY <1>7
  <2> QED BY <1>7, <1>13, <2>1
<1> QED BY <1>7, <1>11, <1>12, <1>13, <1>14

\* The rest of what is coming behind the client's place is the rest of what was
\* sent behind it.
LEMMA RestIs ==
  ASSUME NEW S, NEW s \in Seq(S), NEW p \in Seq(S), NEW a \in Nat, NEW n \in Nat,
         a + Len(s) <= Len(p), \A i \in 1..Len(s) : s[i] = p[a + i],
         a <= n
  PROVE  \E covered \in 0..Len(s) :
           /\ a + covered <= n
           /\ SubSeq(s, covered + 1, Len(s)) = SubSeq(p, n + 1, a + Len(s))
<1>1. PICK l \in Nat : l = Len(s)
  OBVIOUS
<1>2. CASE n <= a + l
  <2>1. PICK k \in Nat : k = n - a
    OBVIOUS
  <2>2. k \in 0..l /\ a + k = n /\ k <= l
    BY <1>1, <1>2, <2>1
  <2>3. /\ SubSeq(s, k + 1, l) \in Seq(S) /\ Len(SubSeq(s, k + 1, l)) = l - k
        /\ \A i \in 1..(l - k) : SubSeq(s, k + 1, l)[i] = s[k + i]
    BY <1>1, <2>2, SubSeqIs
  <2>4. PICK m \in Nat : m = a + l /\ m <= Len(p) /\ n <= m
    BY <1>1, <1>2
  <2>5. /\ SubSeq(p, n + 1, m) \in Seq(S) /\ Len(SubSeq(p, n + 1, m)) = m - n
        /\ \A i \in 1..(m - n) : SubSeq(p, n + 1, m)[i] = p[n + i]
    BY <2>4, SubSeqIs
  <2>6. m - n = l - k
    BY <2>2, <2>4
  <2>7. \A i \in 1..(l - k) : SubSeq(s, k + 1, l)[i] = SubSeq(p, n + 1, m)[i]
    <3> SUFFICES ASSUME NEW i \in 1..(l - k)
                 PROVE  s[k + i] = p[n + i]
      BY <2>3, <2>5, <2>6
    <3>1. k + i \in 1..l /\ a + (k + i) = n + i
      BY <2>2
    <3>2. s[k + i] = p[a + (k + i)]
      BY <1>1, <3>1
    <3> QED BY <3>1, <3>2
  <2>8. SubSeq(s, k + 1, l) = SubSeq(p, n + 1, m)
    BY <2>3, <2>5, <2>6, <2>7, SeqEqual
  <2>9. k \in 0..Len(s) /\ a + k <= n
    BY <1>1, <2>2
  <2>10. SubSeq(s, k + 1, Len(s)) = SubSeq(p, n + 1, a + Len(s))
    <3>1. a + Len(s) = m
      BY <1>1, <2>4
    <3> QED BY <1>1, <2>8, <3>1, Zenon
  <2> QED BY <2>9, <2>10, Zenon
<1>3. CASE n > a + l
  <2>1. SubSeq(s, l + 1, l) = <<>>
    BY SubSeqEmpty
  <2>2. SubSeq(p, n + 1, a + l) = <<>>
    BY <1>3, SubSeqEmpty
  <2>3. l \in 0..Len(s) /\ a + l <= n
    BY <1>1, <1>3
  <2>4. /\ Len(s) \in 0..Len(s) /\ a + Len(s) <= n
        /\ SubSeq(s, Len(s) + 1, Len(s)) = SubSeq(p, n + 1, a + Len(s))
    BY <1>1, <2>1, <2>2, <2>3
  <2> QED BY <2>4
<1>4. n <= a + l \/ n > a + l
  OBVIOUS
<1> QED BY <1>2, <1>3, <1>4

\* A client that trusts what it shows has missed nothing: the inductive invariant
\* says of what is coming all that NothingMissed asks.
THEOREM NothingIsMissed == Spec => []NothingMissed
<1>1. ASSUME StreamInv PROVE NothingMissed
  <2> SUFFICES ASSUME Trusting
               PROVE  /\ registration = "ready" /\ store.cursor.stream = stream
                      /\ observer.live \/ fault
                      /\ \E covered \in 0..Len(Coming) :
                           /\ \A i \in 1..covered :
                                Coming[i].cursor.sequence <= store.cursor.sequence
                           /\ SubSeq(Coming, covered + 1, Len(Coming)) =
                                SubSeq(published, store.cursor.sequence + 1,
                                       observer.cursor)
    BY DEF NothingMissed
  <2>1. /\ registration = "ready" /\ store.cursor.stream = stream
        /\ Base <= store.cursor.sequence
    BY <1>1 DEF StreamInv, TrustSound
  <2>2. observer.live \/ fault
    BY <1>1, <2>1 DEF StreamInv, RegistrationSound
  <2>3. Typed /\ StreamSound
    BY <1>1 DEF StreamInv
  <2>4. PICK n \in Nat : n = store.cursor.sequence
    BY <2>3, TypedIs DEF Stores, Cursors
  <2>5. PICK a \in Nat : a = Base
    BY <1>1 DEF StreamInv, ComingSound
  <2>6. PICK s \in Seq(Events(issued)) : s = Coming
    BY <1>1, ComingElements
  <2>7. PICK p \in Seq(Events(issued)) : p = published
    BY <2>3, TypedIs
  <2>8. /\ a + Len(s) = observer.cursor /\ a + Len(s) <= Len(p)
        /\ \A i \in 1..Len(s) : s[i] = p[a + i]
    BY <1>1, <2>3, <2>5, <2>6, <2>7, ComingElements, TypedIs
  <2>9. PICK covered \in 0..Len(s) :
          /\ a + covered <= n
          /\ SubSeq(s, covered + 1, Len(s)) = SubSeq(p, n + 1, a + Len(s))
    BY <2>1, <2>4, <2>5, <2>8, RestIs
  <2>10. \A i \in 1..covered : s[i].cursor.sequence <= n
    <3> TAKE i \in 1..covered
    <3>1. i \in 1..Len(s) /\ a + i \in 1..Len(p) /\ a + i <= n
      BY <2>8, <2>9
    <3>2. p[a + i].cursor = [stream |-> stream, sequence |-> a + i]
      BY <2>3, <2>7, <3>1, TypedIs DEF StreamSound
    <3> QED BY <2>8, <3>1, <3>2
  <2> QED BY <2>1, <2>2, <2>4, <2>6, <2>7, <2>8, <2>9, <2>10
<1> QED BY <1>1, StreamInvariant, PTL

\* What a trusting client shows is what the host has, or an event behind its
\* cursor will say so; the one exception is an admission that is only in memory.
THEOREM ShownIsFresh == Spec => []ShownIsCurrentOrComing
<1>1. StreamInv => ShownIsCurrentOrComing
  BY DEF StreamInv, TrustSound, Fresh, Says, Unsaid, ShownIsCurrentOrComing
<1> QED BY <1>1, StreamInvariant, PTL

\* No step of anyone takes back what a client shows.
THEOREM ShownAdvances == Spec => ShownOnlyAdvances
<1>1. ASSUME StreamInv, [Next]_vars
      PROVE  [\A o \in Operations :
                /\ store'.view[o].revision >= store.view[o].revision
                /\ store.view[o].status = "completed" =>
                     store'.view[o].status = "completed"]_vars
  <2>1. store \in Stores(issued) /\ store.view \in [Operations -> Known]
    BY <1>1, TypedIs DEF StreamInv, Stores
  <2>2. CASE store' = store
    BY <2>1, <2>2, AdvancesIs DEF Advances
  <2>3. CASE OwnerTurn \/ HostReplaced \/ UNCHANGED vars
    <3>1. store' = store
      BY <2>3
         DEF OwnerTurn, HostReplaced, vars, ReceiveNothing, Subscribe, ServeSnapshot,
             ServeOperation, ServeCommit, RefuseCommit, OtherCommit, OtherCommand,
             PumpNothing, PumpAdvances, PumpFails, EndPump
    <3> QED BY <2>2, <3>1
  <2>4. CASE ClientStep
    <3>1. CASE Start \/ Refresh
      <4>1. store'.view = store.view
        BY <2>1, <3>1, BeginIs DEF Start, Refresh
      <4> QED BY <2>1, <4>1, AdvancesIs DEF Advances
    <3>2. CASE SnapshotFails \/ FaultArrives \/ RegistrationLost
      <4>1. store'.view = store.view
        BY <2>1, <3>2, AbandonIs
           DEF SnapshotFails, FaultArrives, RegistrationLost, Disconnected
      <4> QED BY <2>1, <4>1, AdvancesIs DEF Advances
    <3>3. CASE (\E o \in Operations : AskOperation(o)) \/ OperationFails \/ PollReads
      <4>1. store' = store
        BY <3>3 DEF AskOperation, OperationFails, PollReads
      <4> QED BY <2>2, <4>1
    <3>4. CASE SnapshotArrives \/ OperationArrives \/ PollArrives
      <4>1. Advances(store.view, store'.view)
        BY <1>1, <3>4, SnapshotKeeps, OperationKeeps, ArrivalKeeps
      <4> QED BY <4>1 DEF Advances
    <3> QED BY <2>4, <3>1, <3>2, <3>3, <3>4 DEF ClientStep
  <2> QED BY <1>1, <2>3, <2>4 DEF Next
<1> QED BY <1>1, StreamInvariant, PTL DEF Spec, ShownOnlyAdvances
=============================================================================
