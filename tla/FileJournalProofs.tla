------------------------- MODULE FileJournalProofs ---------------------------
(***************************************************************************)
(* Proofs about FileJournal for every set of record values and every bound *)
(* on the file: its type, the two promises of an acknowledged append, and  *)
(* that it implements DurableLog.                                          *)
(***************************************************************************)
EXTENDS FileJournal, SequenceTheorems, TLAPS

Frame == [value : Values, intact : BOOLEAN]

-----------------------------------------------------------------------------
(* The operators on sequences of frames                                    *)

\* The records of a file are as many as its frames, in their order.
LEMMA RecordedIs ==
  ASSUME NEW fs \in Seq(Frame)
  PROVE  /\ Recorded(fs) \in Seq(Values)
         /\ Len(Recorded(fs)) = Len(fs)
         /\ \A i \in 1 .. Len(fs) : Recorded(fs)[i] = fs[i].value
<1>1. /\ Len(fs) \in Nat
      /\ DOMAIN fs = 1 .. Len(fs)
      /\ \A i \in 1 .. Len(fs) : fs[i] \in Frame
  BY LenProperties, ElementOfSeq
<1>2. Recorded(fs) \in [1 .. Len(fs) -> Values]
  BY <1>1 DEF Recorded, Frame
<1>3. Recorded(fs) \in Seq(Values)
  BY <1>1, <1>2, SeqDef
<1>4. Len(Recorded(fs)) = Len(fs)
  BY <1>1, <1>2, <1>3, LenProperties
<1> QED BY <1>1, <1>3, <1>4 DEF Recorded

\* A prefix agrees with the longer sequence wherever it is defined.
LEMMA PrefixIs ==
  ASSUME NEW S, NEW s \in Seq(S), NEW t \in Seq(S)
  PROVE  IsPrefix(s, t) <=> /\ Len(s) <= Len(t)
                            /\ \A i \in 1 .. Len(s) : s[i] = t[i]
<1>1. Len(s) \in Nat /\ Len(t) \in Nat
  BY LenProperties
<1>2. SubSeq(s, 1, Len(s)) = s
  BY SubSeqFull
<1>3. ASSUME Len(s) <= Len(t)
      PROVE  /\ SubSeq(t, 1, Len(s)) \in Seq(S)
             /\ Len(SubSeq(t, 1, Len(s))) = Len(s)
             /\ \A i \in 1 .. Len(s) : SubSeq(t, 1, Len(s))[i] = t[i]
  <2>1. \A i \in 1 .. Len(s) : t[i] \in S
    BY <1>1, <1>3, ElementOfSeq
  <2>2. /\ SubSeq(t, 1, Len(s)) \in Seq(S)
        /\ Len(SubSeq(t, 1, Len(s)))
             = IF 1 <= Len(s) THEN Len(s) - 1 + 1 ELSE 0
        /\ \A i \in 1 .. Len(s) - 1 + 1 :
             SubSeq(t, 1, Len(s))[i] = t[1 + i - 1]
    BY <1>1, <2>1, SubSeqProperties
  <2> QED BY <1>1, <2>2
<1>4. ASSUME Len(s) <= Len(t), \A i \in 1 .. Len(s) : s[i] = t[i]
      PROVE  s = SubSeq(t, 1, Len(s))
  BY <1>3, <1>4, SeqEqual
<1> QED BY <1>1, <1>2, <1>3, <1>4 DEF IsPrefix

\* Frames an append writes come behind those the file had.
LEMMA RecordedAppend ==
  ASSUME NEW fs \in Seq(Frame), NEW f \in Frame
  PROVE  Recorded(Append(fs, f)) = Append(Recorded(fs), f.value)
<1>1. /\ Append(fs, f) \in Seq(Frame)
      /\ Len(Append(fs, f)) = Len(fs) + 1
      /\ \A i \in 1 .. Len(fs) : Append(fs, f)[i] = fs[i]
      /\ Append(fs, f)[Len(fs) + 1] = f
  BY AppendProperties
<1>2. /\ Recorded(Append(fs, f)) \in Seq(Values)
      /\ Len(Recorded(Append(fs, f))) = Len(fs) + 1
      /\ \A i \in 1 .. Len(fs) + 1 :
           Recorded(Append(fs, f))[i] = Append(fs, f)[i].value
  BY <1>1, RecordedIs
<1>3. /\ Recorded(fs) \in Seq(Values)
      /\ Len(Recorded(fs)) = Len(fs)
      /\ \A i \in 1 .. Len(fs) : Recorded(fs)[i] = fs[i].value
  BY RecordedIs
<1>4. f.value \in Values
  BY DEF Frame
<1>5. /\ Append(Recorded(fs), f.value) \in Seq(Values)
      /\ Len(Append(Recorded(fs), f.value)) = Len(fs) + 1
      /\ \A i \in 1 .. Len(fs) :
           Append(Recorded(fs), f.value)[i] = Recorded(fs)[i]
      /\ Append(Recorded(fs), f.value)[Len(fs) + 1] = f.value
  BY <1>3, <1>4, AppendProperties
<1>6. Len(fs) \in Nat
  BY LenProperties
<1>7. \A i \in 1 .. Len(fs) + 1 :
        Recorded(Append(fs, f))[i] = Append(Recorded(fs), f.value)[i]
  BY <1>1, <1>2, <1>3, <1>5, <1>6
<1> QED BY <1>2, <1>5, <1>7, SeqEqual

\* A run of frames holds the same run of the records.
LEMMA RecordedRun ==
  ASSUME NEW fs \in Seq(Frame), NEW m \in 1 .. Len(fs) + 1,
         NEW n \in m - 1 .. Len(fs)
  PROVE  /\ SubSeq(fs, m, n) \in Seq(Frame)
         /\ Len(SubSeq(fs, m, n)) = n - m + 1
         /\ \A i \in 1 .. n - m + 1 : SubSeq(fs, m, n)[i] = fs[m + i - 1]
         /\ Recorded(SubSeq(fs, m, n)) = SubSeq(Recorded(fs), m, n)
<1>1. Len(fs) \in Nat /\ m \in Int /\ n \in Int
  BY LenProperties
<1>2. \A i \in m .. n : fs[i] \in Frame
  BY <1>1, ElementOfSeq
<1>3. /\ SubSeq(fs, m, n) \in Seq(Frame)
      /\ Len(SubSeq(fs, m, n)) = IF m <= n THEN n - m + 1 ELSE 0
      /\ \A i \in 1 .. n - m + 1 : SubSeq(fs, m, n)[i] = fs[m + i - 1]
  BY <1>1, <1>2, SubSeqProperties
<1>4. Len(SubSeq(fs, m, n)) = n - m + 1
  BY <1>1, <1>3
<1>5. /\ Recorded(fs) \in Seq(Values)
      /\ Len(Recorded(fs)) = Len(fs)
      /\ \A i \in 1 .. Len(fs) : Recorded(fs)[i] = fs[i].value
  BY RecordedIs
<1>6. /\ Recorded(SubSeq(fs, m, n)) \in Seq(Values)
      /\ Len(Recorded(SubSeq(fs, m, n))) = n - m + 1
      /\ \A i \in 1 .. n - m + 1 :
           Recorded(SubSeq(fs, m, n))[i] = SubSeq(fs, m, n)[i].value
  BY <1>3, <1>4, RecordedIs
<1>7. \A i \in m .. n : Recorded(fs)[i] \in Values
  BY <1>1, <1>5, ElementOfSeq
<1>8. /\ SubSeq(Recorded(fs), m, n) \in Seq(Values)
      /\ Len(SubSeq(Recorded(fs), m, n)) = IF m <= n THEN n - m + 1 ELSE 0
      /\ \A i \in 1 .. n - m + 1 :
           SubSeq(Recorded(fs), m, n)[i] = Recorded(fs)[m + i - 1]
  BY <1>1, <1>7, SubSeqProperties
<1>9. \A i \in 1 .. n - m + 1 :
        Recorded(SubSeq(fs, m, n))[i] = SubSeq(Recorded(fs), m, n)[i]
  <2> SUFFICES ASSUME NEW i \in 1 .. n - m + 1
               PROVE  Recorded(SubSeq(fs, m, n))[i]
                        = SubSeq(Recorded(fs), m, n)[i]
    OBVIOUS
  <2>1. m + i - 1 \in 1 .. Len(fs)
    BY <1>1
  <2> QED BY <1>3, <1>5, <1>6, <1>8, <2>1
<1>10. Len(SubSeq(Recorded(fs), m, n)) = n - m + 1
  BY <1>1, <1>8
<1> QED BY <1>3, <1>4, <1>6, <1>8, <1>9, <1>10, SeqEqual

-----------------------------------------------------------------------------
(* The inductive invariant                                                 *)

\* A file without its header holds nothing.
NothingWithoutHeader ==
  magic # "written" => frames = <<>> /\ tail = "none"

\* Whoever holds the journal has read a file with a header, every frame of
\* which was good, and has cut off an incomplete one.
HeldIsGood ==
  /\ handle # "none" => magic = "written" /\ Intact(frames)
  /\ handle = "repairing" => tail = "none"
  /\ writing # "idle" => handle = "ready"

\* Between two appends the records in memory are those of the file; once the
\* frame of an append is written they are one behind.
MemoryFollowsFile ==
  handle = "ready" =>
    IF writing \in {"idle", "started"}
    THEN Recorded(frames) = records
    ELSE Recorded(frames) = Append(records, current)

\* An append that is about to be acknowledged has made the file durable.
SyncedBeforeAcknowledged == writing = "synced" => synced = Len(frames)

\* The inductive invariant.
JournalInv ==
  /\ TypeOK
  /\ NothingWithoutHeader
  /\ HeldIsGood
  /\ MemoryFollowsFile
  /\ SyncedBeforeAcknowledged
  /\ OpenShowsAcknowledged
  /\ AcknowledgedIsDurable

\* The invariant holds of an empty file.
LEMMA InitEstablishes == Init => JournalInv
<1> SUFFICES ASSUME Init PROVE JournalInv
  OBVIOUS
<1> USE DEF Init
<1>1. frames \in Seq(Frame) /\ Len(frames) = 0
  BY EmptySeq
<1>2. records \in Seq(Values) /\ acknowledged \in Seq(Values)
      /\ Len(acknowledged) = 0
  BY EmptySeq
<1>3. TypeOK
  BY <1>1, <1>2 DEF TypeOK, Frame
<1>4. AcknowledgedIsDurable
  <2>1. Recorded(frames) \in Seq(Values) /\ Len(Recorded(frames)) = 0
    BY <1>1, RecordedIs
  <2>2. IsPrefix(acknowledged, Recorded(frames))
    BY <1>2, <2>1, PrefixIs
  <2> QED BY <1>2, <2>2 DEF AcknowledgedIsDurable
<1> QED BY <1>3, <1>4 DEF JournalInv, NothingWithoutHeader, HeldIsGood,
                       MemoryFollowsFile, SyncedBeforeAcknowledged,
                       OpenShowsAcknowledged

\* Opening a journal, repairing it or not, keeps the invariant.
LEMMA OpenStepKeeps ==
  ASSUME JournalInv, OpenStep PROVE JournalInv'
<1> USE DEF JournalInv, NothingWithoutHeader, HeldIsGood, MemoryFollowsFile,
            SyncedBeforeAcknowledged, OpenShowsAcknowledged,
            AcknowledgedIsDurable, file
<1>1. /\ frames \in Seq(Frame) /\ Len(frames) \in Nat
      /\ synced \in 0 .. Len(frames)
      /\ Recorded(frames) \in Seq(Values)
  BY RecordedIs, LenProperties DEF TypeOK, Frame
<1>2. CASE CreateHeader
  <2>1. frames = <<>> /\ Recorded(frames) = <<>>
    BY <1>2 DEF CreateHeader, Recorded
  <2> QED BY <1>1, <1>2, <2>1, EmptySeq DEF CreateHeader, TypeOK, Intact
<1>3. CASE CreateHeaderFails
  BY <1>1, <1>3 DEF CreateHeaderFails, TypeOK
<1>4. CASE OpenClean
  BY <1>1, <1>4 DEF OpenClean, TypeOK
<1>5. CASE OpenRepair
  BY <1>1, <1>5 DEF OpenRepair, Truncate, TypeOK
<1>6. CASE OpenRepaired
  <2>1. Len(acknowledged) \in Nat /\ Len(acknowledged) <= Len(frames)
    BY <1>1, LenProperties DEF TypeOK
  <2> QED BY <1>1, <1>6, <2>1 DEF OpenRepaired, TypeOK
<1>7. CASE OpenRepairFails
  BY <1>1, <1>7 DEF OpenRepairFails, TypeOK
<1> QED BY <1>2, <1>3, <1>4, <1>5, <1>6, <1>7 DEF OpenStep

\* An append, whatever becomes of it, keeps the invariant.
LEMMA AppendStepKeeps ==
  ASSUME JournalInv, AppendStep PROVE JournalInv'
<1> USE DEF JournalInv, NothingWithoutHeader, HeldIsGood, MemoryFollowsFile,
            SyncedBeforeAcknowledged, OpenShowsAcknowledged,
            AcknowledgedIsDurable, file
<1>1. /\ frames \in Seq(Frame) /\ Len(frames) \in Nat
      /\ synced \in 0 .. Len(frames)
      /\ Recorded(frames) \in Seq(Values)
      /\ Len(Recorded(frames)) = Len(frames)
      /\ acknowledged \in Seq(Values) /\ Len(acknowledged) \in Nat
  BY RecordedIs, LenProperties DEF TypeOK, Frame
<1>2. ASSUME NEW r \in Values, AppendStart(r) PROVE JournalInv'
  BY <1>1, <1>2 DEF AppendStart, MayAppend, TypeOK
<1>3. CASE AppendWritten
  <2> DEFINE f == [value |-> current, intact |-> TRUE]
  <2>1. f \in Frame /\ f.value = current /\ f.intact
    BY DEF TypeOK, Frame
  <2>2. frames' = Append(frames, f)
    BY <1>3 DEF AppendWritten
  <2>3. /\ frames' \in Seq(Frame) /\ Len(frames') = Len(frames) + 1
        /\ \A i \in 1 .. Len(frames) : frames'[i] = frames[i]
        /\ frames'[Len(frames) + 1] = f
        /\ DOMAIN frames' = 1 .. Len(frames) + 1
        /\ DOMAIN frames = 1 .. Len(frames)
    BY <1>1, <2>1, <2>2, AppendProperties, LenProperties
  <2>4. Recorded(frames') = Append(Recorded(frames), current)
    BY <1>1, <2>1, <2>2, RecordedAppend
  <2>5. /\ Recorded(frames') \in Seq(Values)
        /\ Len(Recorded(frames')) = Len(frames) + 1
        /\ \A i \in 1 .. Len(frames) :
             Recorded(frames')[i] = Recorded(frames)[i]
    <3>1. current \in Values
      BY DEF TypeOK
    <3>2. /\ Append(Recorded(frames), current) \in Seq(Values)
          /\ Len(Append(Recorded(frames), current)) = Len(Recorded(frames)) + 1
          /\ \A i \in 1 .. Len(Recorded(frames)) :
               Append(Recorded(frames), current)[i] = Recorded(frames)[i]
      BY <1>1, <3>1, AppendProperties
    <3> QED BY <1>1, <2>4, <3>2
  <2>6. TypeOK'
    BY <1>1, <1>3, <2>3 DEF AppendWritten, TypeOK, Frame
  <2>7. Intact(frames')
    BY <1>1, <1>3, <2>1, <2>3 DEF AppendWritten, Intact
  <2>8. AcknowledgedIsDurable'
    <3>1. /\ Len(acknowledged) <= Len(frames)
          /\ \A i \in 1 .. Len(acknowledged) :
               acknowledged[i] = Recorded(frames)[i]
      BY <1>1, PrefixIs
    <3>2. IsPrefix(acknowledged, Recorded(frames'))
      <4>1. Len(acknowledged) <= Len(Recorded(frames'))
        BY <1>1, <2>5, <3>1
      <4>2. \A i \in 1 .. Len(acknowledged) :
              acknowledged[i] = Recorded(frames')[i]
        BY <1>1, <2>5, <3>1
      <4> QED BY <1>1, <2>5, <4>1, <4>2, PrefixIs
    <3> QED BY <1>3, <3>2 DEF AppendWritten
  <2> QED BY <1>3, <2>4, <2>6, <2>7, <2>8 DEF AppendWritten
<1>4. CASE AppendSynced
  BY <1>1, <1>4 DEF AppendSynced, TypeOK
<1>5. CASE AppendAcknowledged
  <2>1. /\ records' = Recorded(frames) /\ acknowledged' = Recorded(frames)
        /\ synced = Len(frames) /\ handle = "ready"
    BY <1>5 DEF AppendAcknowledged
  <2>2. IsPrefix(Recorded(frames), Recorded(frames))
    BY <1>1, PrefixIs
  <2>3. TypeOK'
    BY <1>1, <1>5, <2>1 DEF AppendAcknowledged, TypeOK
  <2> QED BY <1>1, <1>5, <2>1, <2>2, <2>3 DEF AppendAcknowledged
<1>6. CASE AppendFails
  BY <1>1, <1>6 DEF AppendFails, TypeOK
<1> QED BY <1>2, <1>3, <1>4, <1>5, <1>6 DEF AppendStep

\* No crash, power loss or damaged frame breaks the invariant.
LEMMA FaultKeeps ==
  ASSUME JournalInv, Fault PROVE JournalInv'
<1> USE DEF JournalInv, NothingWithoutHeader, HeldIsGood, MemoryFollowsFile,
            SyncedBeforeAcknowledged, OpenShowsAcknowledged,
            AcknowledgedIsDurable, file
<1>1. /\ frames \in Seq(Frame) /\ Len(frames) \in Nat
      /\ synced \in 0 .. Len(frames)
      /\ Recorded(frames) \in Seq(Values)
      /\ Len(Recorded(frames)) = Len(frames)
      /\ \A i \in 1 .. Len(frames) : Recorded(frames)[i] = frames[i].value
      /\ acknowledged \in Seq(Values) /\ Len(acknowledged) \in Nat
      /\ <<>> \in Seq(Values)
  BY RecordedIs, LenProperties, EmptySeq DEF TypeOK, Frame
<1>2. /\ Len(acknowledged) <= Len(frames)
      /\ \A i \in 1 .. Len(acknowledged) :
           acknowledged[i] = Recorded(frames)[i]
  BY <1>1, PrefixIs
<1>3. CASE Crash
  BY <1>1, <1>3 DEF Crash, TypeOK
<1>4. CASE PowerLoss
  <2>1. PICK n \in synced .. Len(frames) :
          /\ frames' = SubSeq(frames, 1, n)
          /\ magic' \in IF magic = "written" /\ n = 0
                        THEN {"absent", "partial", "written"} ELSE {magic}
    BY <1>4 DEF PowerLoss
  <2>2. n \in Nat /\ n <= Len(frames) /\ synced <= n
    BY <1>1
  <2>3. /\ frames' \in Seq(Frame) /\ Len(frames') = n
        /\ \A i \in 1 .. n : frames'[i] = frames[i]
    BY <1>1, <2>1, <2>2, RecordedRun
  <2>4. /\ Recorded(frames') \in Seq(Values)
        /\ Len(Recorded(frames')) = n
        /\ \A i \in 1 .. n : Recorded(frames')[i] = Recorded(frames)[i]
    BY <1>1, <2>2, <2>3, RecordedIs
  <2>5. TypeOK'
    BY <1>1, <1>4, <2>1, <2>2, <2>3 DEF PowerLoss, TypeOK, Frame
  <2>6. NothingWithoutHeader'
    <3>1. ASSUME magic' # "written" PROVE n = 0
      BY <1>1, <2>1, <2>2, <3>1, EmptySeq
    <3>2. n = 0 => frames' = <<>>
      BY <2>3, EmptySeq
    <3> QED BY <1>4, <3>1, <3>2 DEF PowerLoss
  <2>7. AcknowledgedIsDurable'
    <3>1. Len(acknowledged) <= n
      BY <1>1, <2>2
    <3>2. IsPrefix(acknowledged, Recorded(frames'))
      BY <1>1, <1>2, <2>2, <2>4, <3>1, PrefixIs
    <3> QED BY <1>4, <3>2 DEF PowerLoss
  <2> QED BY <1>4, <2>5, <2>6, <2>7 DEF PowerLoss
<1>5. ASSUME NEW i \in DOMAIN frames, Damage(i) PROVE JournalInv'
  <2>1. i \in 1 .. Len(frames) /\ frames[i] \in Frame
    BY <1>1, LenProperties, ElementOfSeq
  <2>2. frames' = [frames EXCEPT ![i] = [frames[i] EXCEPT !.intact = FALSE]]
    BY <1>5 DEF Damage
  <2>3. /\ [frames[i] EXCEPT !.intact = FALSE] \in Frame
        /\ [frames[i] EXCEPT !.intact = FALSE].value = frames[i].value
    BY <2>1 DEF Frame
  <2>4. /\ frames' \in Seq(Frame) /\ Len(frames') = Len(frames)
        /\ \A j \in 1 .. Len(frames) : frames'[j].value = frames[j].value
    BY <1>1, <2>1, <2>2, <2>3, ExceptSeq
  <2>5. Recorded(frames') = Recorded(frames)
    BY <1>1, <2>4, RecordedIs, SeqEqual
  <2>6. TypeOK'
    BY <1>1, <1>5, <2>4 DEF Damage, TypeOK, Frame
  <2>7. magic = "written"
    BY <1>1, <2>1, EmptySeq
  <2> QED BY <1>1, <1>5, <2>4, <2>5, <2>6, <2>7 DEF Damage
<1> QED BY <1>3, <1>4, <1>5 DEF Fault

\* The invariant holds in every reachable state: of the file and of what its
\* holder remembers, whatever the process, the machine and the storage do.
THEOREM JournalInvariant == Spec => []JournalInv
<1>1. JournalInv /\ [Next]_vars => JournalInv'
  <2>1. ASSUME JournalInv, UNCHANGED vars PROVE JournalInv'
    BY <2>1 DEF vars, file, JournalInv, TypeOK, NothingWithoutHeader,
                HeldIsGood, MemoryFollowsFile, SyncedBeforeAcknowledged,
                OpenShowsAcknowledged, AcknowledgedIsDurable
  <2> QED BY <2>1, OpenStepKeeps, AppendStepKeeps, FaultKeeps DEF Next
<1> QED BY <1>1, InitEstablishes, PTL DEF Spec

\* Every variable of the journal has its type (operations/journal.rs).
THEOREM JournalTypeCorrect == Spec => []TypeOK
<1>1. JournalInv => TypeOK
  BY DEF JournalInv
<1> QED BY <1>1, JournalInvariant, PTL

\* What FileJournal::append acknowledged is in the file, in its order and
\* durable, with everything before it: no crash, power loss, damaged frame or
\* tail repair takes it back.
THEOREM AcknowledgedDurable == Spec => []AcknowledgedIsDurable
<1>1. JournalInv => AcknowledgedIsDurable
  BY DEF JournalInv
<1> QED BY <1>1, JournalInvariant, PTL

\* FileJournal::open returns every acknowledged record in its order, or it
\* refuses; it never returns a shorter or a different journal.
THEOREM OpenReturnsAcknowledged == Spec => []OpenShowsAcknowledged
<1>1. JournalInv => OpenShowsAcknowledged
  BY DEF JournalInv
<1> QED BY <1>1, JournalInvariant, PTL

-----------------------------------------------------------------------------
(* The journal implements the durable log                                  *)

\* The two parts of a file, record by record.
LEMMA PartsAre ==
  ASSUME NEW fs \in Seq(Frame), NEW k \in 0 .. Len(fs)
  PROVE  /\ Hardened(fs, k) \in Seq(Values) /\ Len(Hardened(fs, k)) = k
         /\ \A i \in 1 .. k : Hardened(fs, k)[i] = fs[i].value
         /\ InDoubt(fs, k) \in Seq(Values)
         /\ Len(InDoubt(fs, k)) = Len(fs) - k
         /\ \A i \in 1 .. Len(fs) - k : InDoubt(fs, k)[i] = fs[k + i].value
<1>1. Len(fs) \in Nat /\ k \in Nat
  BY LenProperties
<1>2. /\ SubSeq(fs, 1, k) \in Seq(Frame)
      /\ Len(SubSeq(fs, 1, k)) = k
      /\ \A i \in 1 .. k : SubSeq(fs, 1, k)[i] = fs[i]
  <2>1. 1 \in 1 .. Len(fs) + 1 /\ k \in 1 - 1 .. Len(fs)
    BY <1>1
  <2>2. /\ SubSeq(fs, 1, k) \in Seq(Frame)
        /\ Len(SubSeq(fs, 1, k)) = k - 1 + 1
        /\ \A i \in 1 .. k - 1 + 1 : SubSeq(fs, 1, k)[i] = fs[1 + i - 1]
    BY <2>1, RecordedRun
  <2> QED BY <1>1, <2>2
<1>3. /\ SubSeq(fs, k + 1, Len(fs)) \in Seq(Frame)
      /\ Len(SubSeq(fs, k + 1, Len(fs))) = Len(fs) - k
      /\ \A i \in 1 .. Len(fs) - k :
           SubSeq(fs, k + 1, Len(fs))[i] = fs[k + i]
  <2>1. k + 1 \in 1 .. Len(fs) + 1 /\ Len(fs) \in (k + 1) - 1 .. Len(fs)
    BY <1>1
  <2>2. /\ SubSeq(fs, k + 1, Len(fs)) \in Seq(Frame)
        /\ Len(SubSeq(fs, k + 1, Len(fs))) = Len(fs) - (k + 1) + 1
        /\ \A i \in 1 .. Len(fs) - (k + 1) + 1 :
             SubSeq(fs, k + 1, Len(fs))[i] = fs[(k + 1) + i - 1]
    BY <2>1, RecordedRun
  <2> QED BY <1>1, <2>2
<1>4. /\ Hardened(fs, k) \in Seq(Values) /\ Len(Hardened(fs, k)) = k
      /\ \A i \in 1 .. k : Hardened(fs, k)[i] = fs[i].value
  BY <1>2, RecordedIs DEF Hardened
<1>5. /\ InDoubt(fs, k) \in Seq(Values)
      /\ Len(InDoubt(fs, k)) = Len(fs) - k
      /\ \A i \in 1 .. Len(fs) - k : InDoubt(fs, k)[i] = fs[k + i].value
  BY <1>3, RecordedIs DEF InDoubt
<1> QED BY <1>4, <1>5

\* The parts depend on what the frames say, not on whether they are intact.
LEMMA SameValuesSameParts ==
  ASSUME NEW fs \in Seq(Frame), NEW gs \in Seq(Frame), Len(gs) = Len(fs),
         \A i \in 1 .. Len(fs) : gs[i].value = fs[i].value,
         NEW k \in 0 .. Len(fs)
  PROVE  Hardened(gs, k) = Hardened(fs, k) /\ InDoubt(gs, k) = InDoubt(fs, k)
<1>1. /\ Recorded(gs) \in Seq(Values) /\ Len(Recorded(gs)) = Len(fs)
      /\ \A i \in 1 .. Len(fs) : Recorded(gs)[i] = gs[i].value
      /\ Recorded(fs) \in Seq(Values) /\ Len(Recorded(fs)) = Len(fs)
      /\ \A i \in 1 .. Len(fs) : Recorded(fs)[i] = fs[i].value
  BY RecordedIs
<1>2. Recorded(gs) = Recorded(fs)
  BY <1>1, SeqEqual
<1>3. Len(fs) \in Nat /\ k \in Nat /\ k <= Len(fs)
  BY LenProperties
<1>4. /\ 1 \in 1 .. Len(fs) + 1 /\ k \in 1 - 1 .. Len(fs)
      /\ k + 1 \in 1 .. Len(fs) + 1 /\ Len(fs) \in (k + 1) - 1 .. Len(fs)
  BY <1>3
<1>5. /\ Recorded(SubSeq(fs, 1, k)) = SubSeq(Recorded(fs), 1, k)
      /\ Recorded(SubSeq(gs, 1, k)) = SubSeq(Recorded(gs), 1, k)
  BY <1>4, RecordedRun
<1>6. /\ Recorded(SubSeq(fs, k + 1, Len(fs)))
           = SubSeq(Recorded(fs), k + 1, Len(fs))
      /\ Recorded(SubSeq(gs, k + 1, Len(fs)))
           = SubSeq(Recorded(gs), k + 1, Len(fs))
  BY <1>4, RecordedRun
<1> QED BY <1>2, <1>5, <1>6 DEF Hardened, InDoubt

\* A flush hardens everything that was in doubt and leaves no doubt.
LEMMA FlushHardens ==
  ASSUME NEW fs \in Seq(Frame), NEW k \in 0 .. Len(fs)
  PROVE  /\ Hardened(fs, Len(fs)) = Hardened(fs, k) \o InDoubt(fs, k)
         /\ InDoubt(fs, Len(fs)) = <<>>
<1>1. Len(fs) \in Nat /\ k \in Nat /\ Len(fs) \in 0 .. Len(fs)
  BY LenProperties
<1>2. /\ Hardened(fs, k) \o InDoubt(fs, k) \in Seq(Values)
      /\ Len(Hardened(fs, k) \o InDoubt(fs, k)) = k + (Len(fs) - k)
      /\ \A i \in 1 .. k + (Len(fs) - k) :
           (Hardened(fs, k) \o InDoubt(fs, k))[i]
             = IF i <= k THEN Hardened(fs, k)[i] ELSE InDoubt(fs, k)[i - k]
  <2>1. /\ Hardened(fs, k) \in Seq(Values) /\ Len(Hardened(fs, k)) = k
        /\ InDoubt(fs, k) \in Seq(Values)
        /\ Len(InDoubt(fs, k)) = Len(fs) - k
    BY PartsAre
  <2> DEFINE s == Hardened(fs, k)
             t == InDoubt(fs, k)
  <2> HIDE DEF s, t
  <2>2. /\ s \o t \in Seq(Values)
        /\ Len(s \o t) = Len(s) + Len(t)
        /\ \A i \in 1 .. Len(s) + Len(t) :
             (s \o t)[i] = IF i <= Len(s) THEN s[i] ELSE t[i - Len(s)]
    BY <2>1, ConcatProperties DEF s, t
  <2> QED BY <2>1, <2>2 DEF s, t
<1>3. \A i \in 1 .. Len(fs) :
        (Hardened(fs, k) \o InDoubt(fs, k))[i] = Hardened(fs, Len(fs))[i]
  <2> SUFFICES ASSUME NEW i \in 1 .. Len(fs)
               PROVE  (Hardened(fs, k) \o InDoubt(fs, k))[i]
                        = Hardened(fs, Len(fs))[i]
    OBVIOUS
  <2>1. Hardened(fs, Len(fs))[i] = fs[i].value
    BY <1>1, PartsAre
  <2>2. CASE i <= k
    BY <1>1, <1>2, <2>1, <2>2, PartsAre
  <2>3. CASE ~(i <= k)
    <3>1. i - k \in 1 .. Len(fs) - k /\ k + (i - k) = i
      BY <1>1, <2>3
    <3>2. InDoubt(fs, k)[i - k] = fs[k + (i - k)].value
      BY <3>1, PartsAre
    <3> QED BY <1>1, <1>2, <2>1, <2>3, <3>1, <3>2
  <2> QED BY <2>2, <2>3
<1>4. /\ Hardened(fs, Len(fs)) \in Seq(Values)
      /\ Len(Hardened(fs, Len(fs))) = Len(fs)
      /\ InDoubt(fs, Len(fs)) \in Seq(Values)
      /\ Len(InDoubt(fs, Len(fs))) = Len(fs) - Len(fs)
  BY <1>1, PartsAre
<1>5. Hardened(fs, Len(fs)) = Hardened(fs, k) \o InDoubt(fs, k)
  <2>1. Len(Hardened(fs, k) \o InDoubt(fs, k)) = Len(fs)
    BY <1>1, <1>2
  <2> QED BY <1>2, <1>3, <1>4, <2>1, SeqEqual
<1> QED BY <1>1, <1>4, <1>5, EmptySeq

\* A frame that is written comes last among those in doubt.
LEMMA WriteIsInDoubt ==
  ASSUME NEW fs \in Seq(Frame), NEW k \in 0 .. Len(fs), NEW f \in Frame
  PROVE  /\ Hardened(Append(fs, f), k) = Hardened(fs, k)
         /\ InDoubt(Append(fs, f), k) = Append(InDoubt(fs, k), f.value)
<1> DEFINE gs == Append(fs, f)
<1>1. /\ gs \in Seq(Frame) /\ Len(gs) = Len(fs) + 1
      /\ \A i \in 1 .. Len(fs) : gs[i] = fs[i]
      /\ gs[Len(fs) + 1] = f
      /\ Len(fs) \in Nat /\ k \in Nat /\ k \in 0 .. Len(gs)
      /\ f.value \in Values
  BY AppendProperties, LenProperties DEF Frame
<1> HIDE DEF gs
<1>2. /\ Hardened(fs, k) \in Seq(Values) /\ Len(Hardened(fs, k)) = k
      /\ \A i \in 1 .. k : Hardened(fs, k)[i] = fs[i].value
      /\ InDoubt(fs, k) \in Seq(Values)
      /\ Len(InDoubt(fs, k)) = Len(fs) - k
      /\ \A i \in 1 .. Len(fs) - k : InDoubt(fs, k)[i] = fs[k + i].value
  BY PartsAre
<1>3. /\ Hardened(gs, k) \in Seq(Values) /\ Len(Hardened(gs, k)) = k
      /\ \A i \in 1 .. k : Hardened(gs, k)[i] = gs[i].value
      /\ InDoubt(gs, k) \in Seq(Values)
      /\ Len(InDoubt(gs, k)) = Len(gs) - k
      /\ \A i \in 1 .. Len(gs) - k : InDoubt(gs, k)[i] = gs[k + i].value
  BY <1>1, PartsAre
<1>4. \A i \in 1 .. k : Hardened(gs, k)[i] = Hardened(fs, k)[i]
  <2>1. \A i \in 1 .. k : i \in 1 .. Len(fs)
    BY <1>1
  <2> QED BY <1>1, <1>2, <1>3, <2>1
<1>5. Hardened(gs, k) = Hardened(fs, k)
  BY <1>2, <1>3, <1>4, SeqEqual
<1>6. /\ Append(InDoubt(fs, k), f.value) \in Seq(Values)
      /\ Len(Append(InDoubt(fs, k), f.value)) = Len(InDoubt(fs, k)) + 1
      /\ \A i \in 1 .. Len(InDoubt(fs, k)) :
           Append(InDoubt(fs, k), f.value)[i] = InDoubt(fs, k)[i]
      /\ Append(InDoubt(fs, k), f.value)[Len(InDoubt(fs, k)) + 1] = f.value
  BY <1>1, <1>2, AppendProperties
<1>7. \A i \in 1 .. Len(gs) - k :
        InDoubt(gs, k)[i] = Append(InDoubt(fs, k), f.value)[i]
  <2> SUFFICES ASSUME NEW i \in 1 .. Len(gs) - k
               PROVE  InDoubt(gs, k)[i] = Append(InDoubt(fs, k), f.value)[i]
    OBVIOUS
  <2>1. InDoubt(gs, k)[i] = gs[k + i].value
    BY <1>3
  <2>2. CASE i = Len(fs) - k + 1
    <3>1. k + i = Len(fs) + 1
      BY <1>1, <2>2
    <3> QED BY <1>1, <1>2, <1>6, <2>1, <2>2, <3>1
  <2>3. CASE i # Len(fs) - k + 1
    <3>1. i \in 1 .. Len(fs) - k /\ k + i \in 1 .. Len(fs)
      BY <1>1, <2>3
    <3> QED BY <1>1, <1>2, <1>6, <2>1, <3>1
  <2> QED BY <2>2, <2>3
<1>8. InDoubt(gs, k) = Append(InDoubt(fs, k), f.value)
  <2>1. Len(InDoubt(gs, k)) = Len(Append(InDoubt(fs, k), f.value))
    BY <1>1, <1>2, <1>3, <1>6
  <2> QED BY <1>3, <1>6, <1>7, <2>1, SeqEqual
<1> QED BY <1>5, <1>8 DEF gs

\* A power loss takes of a file no more than a suffix of what was in doubt.
LEMMA LossLeavesPrefix ==
  ASSUME NEW fs \in Seq(Frame), NEW k \in 0 .. Len(fs),
         NEW n \in k .. Len(fs)
  PROVE  /\ Hardened(SubSeq(fs, 1, n), k) = Hardened(fs, k)
         /\ InDoubt(SubSeq(fs, 1, n), k) = SubSeq(InDoubt(fs, k), 1, n - k)
<1> DEFINE gs == SubSeq(fs, 1, n)
           d == InDoubt(fs, k)
<1>1. Len(fs) \in Nat /\ k \in Nat /\ n \in Nat /\ k <= n /\ n <= Len(fs)
  BY LenProperties
<1>2. /\ gs \in Seq(Frame) /\ Len(gs) = n
      /\ \A i \in 1 .. n : gs[i] = fs[i]
  <2>1. 1 \in 1 .. Len(fs) + 1 /\ n \in 1 - 1 .. Len(fs)
    BY <1>1
  <2>2. /\ gs \in Seq(Frame)
        /\ Len(gs) = n - 1 + 1
        /\ \A i \in 1 .. n - 1 + 1 : gs[i] = fs[1 + i - 1]
    BY <2>1, RecordedRun
  <2> QED BY <1>1, <2>2
<1> HIDE DEF gs
<1>3. /\ Hardened(fs, k) \in Seq(Values) /\ Len(Hardened(fs, k)) = k
      /\ \A i \in 1 .. k : Hardened(fs, k)[i] = fs[i].value
      /\ d \in Seq(Values) /\ Len(d) = Len(fs) - k
      /\ \A i \in 1 .. Len(fs) - k : d[i] = fs[k + i].value
  BY PartsAre
<1> HIDE DEF d
<1>4. /\ Hardened(gs, k) \in Seq(Values) /\ Len(Hardened(gs, k)) = k
      /\ \A i \in 1 .. k : Hardened(gs, k)[i] = gs[i].value
      /\ InDoubt(gs, k) \in Seq(Values) /\ Len(InDoubt(gs, k)) = n - k
      /\ \A i \in 1 .. n - k : InDoubt(gs, k)[i] = gs[k + i].value
  <2>1. k \in 0 .. Len(gs)
    BY <1>1, <1>2
  <2> QED BY <1>2, <2>1, PartsAre
<1>5. \A i \in 1 .. k : Hardened(gs, k)[i] = Hardened(fs, k)[i]
  BY <1>1, <1>2, <1>3, <1>4
<1>6. Hardened(gs, k) = Hardened(fs, k)
  BY <1>3, <1>4, <1>5, SeqEqual
<1>7. /\ SubSeq(d, 1, n - k) \in Seq(Values)
      /\ Len(SubSeq(d, 1, n - k)) = n - k
      /\ \A i \in 1 .. n - k : SubSeq(d, 1, n - k)[i] = d[i]
  <2>1. \A i \in 1 .. n - k : d[i] \in Values
    BY <1>1, <1>3, ElementOfSeq
  <2>2. /\ SubSeq(d, 1, n - k) \in Seq(Values)
        /\ Len(SubSeq(d, 1, n - k))
             = IF 1 <= n - k THEN (n - k) - 1 + 1 ELSE 0
        /\ \A i \in 1 .. (n - k) - 1 + 1 :
             SubSeq(d, 1, n - k)[i] = d[1 + i - 1]
    BY <1>1, <2>1, SubSeqProperties
  <2> QED BY <1>1, <2>2
<1>8. \A i \in 1 .. n - k : InDoubt(gs, k)[i] = SubSeq(d, 1, n - k)[i]
  <2> SUFFICES ASSUME NEW i \in 1 .. n - k
               PROVE  InDoubt(gs, k)[i] = SubSeq(d, 1, n - k)[i]
    OBVIOUS
  <2>1. k + i \in 1 .. n /\ i \in 1 .. Len(fs) - k
    BY <1>1
  <2> QED BY <1>2, <1>3, <1>4, <1>7, <2>1
<1>9. InDoubt(gs, k) = SubSeq(d, 1, n - k)
  BY <1>4, <1>7, <1>8, SeqEqual
<1> QED BY <1>6, <1>9 DEF gs, d

\* Every step of the journal is a step of the durable log, or none.
LEMMA StepIsPromised ==
  ASSUME JournalInv, Next
  PROVE  Promised!Next \/ UNCHANGED <<Hardened(frames, synced),
                                      InDoubt(frames, synced), Holder>>
<1> DEFINE log == Hardened(frames, synced)
           doubt == InDoubt(frames, synced)
<1>1. /\ frames \in Seq(Frame) /\ Len(frames) \in Nat
      /\ synced \in 0 .. Len(frames)
      /\ current \in Values
  BY LenProperties DEF JournalInv, TypeOK, Frame
<1>2. Promised!Next <=>
        \/ /\ Holder = "none" /\ Holder' = "healthy"
           /\ \/ UNCHANGED <<log, doubt>>
              \/ log' = log \o doubt /\ doubt' = <<>>
        \/ log' = log \o doubt /\ doubt' = <<>> /\ UNCHANGED Holder
        \/ /\ Holder = "healthy" /\ Holder' = "poisoned"
           /\ UNCHANGED <<log, doubt>>
        \/ Holder' = "none" /\ UNCHANGED <<log, doubt>>
        \/ /\ Holder' = "none"
           /\ \E n \in 0 .. Len(doubt) : doubt' = SubSeq(doubt, 1, n)
           /\ UNCHANGED log
        \/ \E r \in Values :
             /\ Holder = "healthy"
             /\ doubt' = Append(doubt, r)
             /\ UNCHANGED <<log, Holder>>
  BY DEF Promised!Next, Promised!Open, Promised!Harden, Promised!Fail,
         Promised!Crash, Promised!PowerLoss, Promised!Attempt
<1>3. ASSUME UNCHANGED <<frames, synced>> PROVE UNCHANGED <<log, doubt>>
  BY <1>3
<1> HIDE DEF log, doubt
<1>4. CASE OpenStep
  <2>1. CASE CreateHeader \/ OpenClean
    BY <1>2, <1>3, <2>1 DEF CreateHeader, OpenClean, file, Holder
  <2>2. CASE CreateHeaderFails \/ OpenRepair \/ OpenRepairFails
    BY <1>3, <2>2
       DEF CreateHeaderFails, OpenRepair, OpenRepairFails, Truncate, file,
           Holder, log, doubt
  <2>3. CASE OpenRepaired
    <3>1. frames' = frames /\ synced' = Len(frames)
      BY <2>3 DEF OpenRepaired
    <3>2. log' = log \o doubt /\ doubt' = <<>>
      BY <1>1, <3>1, FlushHardens DEF log, doubt
    <3> QED BY <1>2, <2>3, <3>2 DEF OpenRepaired, Holder
  <2> QED BY <1>4, <2>1, <2>2, <2>3 DEF OpenStep
<1>5. CASE AppendStep
  <2>1. ASSUME NEW r \in Values, AppendStart(r)
        PROVE  UNCHANGED <<log, doubt, Holder>>
    BY <1>3, <2>1 DEF AppendStart, Holder
  <2>2. CASE AppendAcknowledged
    BY <1>3, <2>2 DEF AppendAcknowledged, file, Holder, log, doubt
  <2>3. CASE AppendWritten
    <3> DEFINE f == [value |-> current, intact |-> TRUE]
    <3>1. f \in Frame /\ f.value = current
      BY <1>1 DEF Frame
    <3>2. frames' = Append(frames, f) /\ synced' = synced
      BY <2>3 DEF AppendWritten
    <3>3. log' = log /\ doubt' = Append(doubt, current)
      BY <1>1, <3>1, <3>2, WriteIsInDoubt DEF log, doubt
    <3>4. handle = "ready"
      BY <2>3 DEF AppendWritten, JournalInv, HeldIsGood
    <3> QED BY <1>1, <1>2, <2>3, <3>3, <3>4 DEF AppendWritten, Holder
  <2>4. CASE AppendSynced
    <3>1. frames' = frames /\ synced' = Len(frames)
      BY <2>4 DEF AppendSynced
    <3>2. log' = log \o doubt /\ doubt' = <<>>
      BY <1>1, <3>1, FlushHardens DEF log, doubt
    <3> QED BY <1>2, <2>4, <3>2 DEF AppendSynced, Holder
  <2>5. CASE AppendFails
    BY <1>2, <1>3, <2>5 DEF AppendFails, file, Holder
  <2> QED BY <1>5, <2>1, <2>2, <2>3, <2>4, <2>5 DEF AppendStep, log, doubt
<1>6. CASE Fault
  <2>1. CASE Crash
    BY <1>2, <1>3, <2>1 DEF Crash, file, Holder
  <2>2. CASE PowerLoss
    <3>1. PICK n \in synced .. Len(frames) : frames' = SubSeq(frames, 1, n)
      BY <2>2 DEF PowerLoss
    <3>2. log' = log /\ doubt' = SubSeq(doubt, 1, n - synced)
      <4>1. synced' = synced
        BY <2>2 DEF PowerLoss
      <4> QED BY <1>1, <3>1, <4>1, LossLeavesPrefix DEF log, doubt
    <3>3. n - synced \in 0 .. Len(doubt)
      <4>1. Len(doubt) = Len(frames) - synced
        BY <1>1, PartsAre DEF doubt
      <4> QED BY <1>1, <4>1
    <3> QED BY <1>2, <2>2, <3>2, <3>3 DEF PowerLoss, Holder
  <2>3. ASSUME NEW i \in DOMAIN frames, Damage(i)
        PROVE  UNCHANGED <<log, doubt, Holder>>
    <3>1. UNCHANGED <<synced, handle>>
      BY <2>3 DEF Damage
    <3>2. i \in 1 .. Len(frames) /\ frames[i] \in Frame
      BY <1>1, LenProperties, ElementOfSeq
    <3>3. frames' = [frames EXCEPT ![i] = [frames[i] EXCEPT !.intact = FALSE]]
      BY <2>3 DEF Damage
    <3>4. /\ [frames[i] EXCEPT !.intact = FALSE] \in Frame
          /\ [frames[i] EXCEPT !.intact = FALSE].value = frames[i].value
      BY <3>2 DEF Frame
    <3>5. /\ frames' \in Seq(Frame) /\ Len(frames') = Len(frames)
          /\ \A j \in 1 .. Len(frames) : frames'[j].value = frames[j].value
      BY <1>1, <3>2, <3>3, <3>4, ExceptSeq
    <3>6. log' = log /\ doubt' = doubt
      BY <1>1, <3>1, <3>5, SameValuesSameParts DEF log, doubt
    <3> QED BY <3>1, <3>6 DEF Holder
  <2> QED BY <1>6, <2>1, <2>2, <2>3 DEF Fault, log, doubt
<1> QED BY <1>4, <1>5, <1>6 DEF Next

\* The journal file implements the durable log the engine relies on
\* (operations/ports.rs, DurableJournal): whatever happens to the process, the
\* machine or the storage is something the log allows.
THEOREM JournalIsDurableLog == Spec => PromisedSpec
<1>1. Init => Promised!Init
  <2> SUFFICES ASSUME Init PROVE Promised!Init
    OBVIOUS
  <2>1. frames = <<>> /\ synced = 0 /\ frames \in Seq(Frame)
        /\ Len(frames) = 0
    BY EmptySeq DEF Init
  <2>2. synced \in 0 .. Len(frames)
    BY <2>1
  <2>3. /\ Hardened(frames, synced) \in Seq(Values)
        /\ Len(Hardened(frames, synced)) = 0
        /\ InDoubt(frames, synced) \in Seq(Values)
        /\ Len(InDoubt(frames, synced)) = 0
    <3>1. /\ Hardened(frames, synced) \in Seq(Values)
          /\ Len(Hardened(frames, synced)) = synced
          /\ InDoubt(frames, synced) \in Seq(Values)
          /\ Len(InDoubt(frames, synced)) = Len(frames) - synced
      BY <2>1, <2>2, PartsAre
    <3> QED BY <2>1, <3>1
  <2>4. Hardened(frames, synced) = <<>> /\ InDoubt(frames, synced) = <<>>
    BY <2>3, EmptySeq
  <2> QED BY <2>4 DEF Init, Promised!Init, Holder
<1>2. JournalInv /\ [Next]_vars => [Promised!Next]_(Promised!vars)
  <2>1. ASSUME JournalInv, Next PROVE [Promised!Next]_(Promised!vars)
    BY <2>1, StepIsPromised DEF Promised!vars
  <2>2. ASSUME UNCHANGED vars PROVE UNCHANGED Promised!vars
    BY <2>2 DEF vars, file, Promised!vars, Hardened, InDoubt, Holder
  <2> QED BY <2>1, <2>2
<1> QED BY <1>1, <1>2, JournalInvariant, PTL
        DEF Spec, PromisedSpec, Promised!Spec

=============================================================================
