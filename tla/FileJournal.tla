---------------------------- MODULE FileJournal -----------------------------
(***************************************************************************)
(* The engine journal (operations/journal.rs): length-framed, digested     *)
(* records in one file whose only repair is to drop an incomplete last     *)
(* frame.  A crash may come between any two system calls; a power loss may *)
(* take or damage whatever was not synchronized, and storage may damage    *)
(* any frame.                                                              *)
(*                                                                         *)
(* A frame is its record and whether its length word, its inverse and its  *)
(* digest agree with it.  The record size limits and the custody checks    *)
(* that precede the first write are refusals that change nothing.          *)
(***************************************************************************)
EXTENDS Naturals, Sequences, SequencesExt

CONSTANTS
  Values,          \* what a JournalRecord may say
  MaxFrames        \* bound: frames a file may hold

ASSUME MaxFramesAssumption == MaxFrames \in Nat

VARIABLES
  magic,           \* the file's header: "absent", "partial" or "written"
  frames,          \* complete frames in the file, as a read returns them
  tail,            \* what follows them: "none", "torn" or "garbage"
  synced,          \* how many of the frames are known to be durable
  handle,          \* the FileJournal: "none", "repairing", "ready", "poisoned"
  records,         \* FileJournal.records
  writing,         \* where append stands: "idle", "started", "written", "synced"
  current,         \* the record append was called with
  acknowledged     \* history: what the last acknowledged append had stored

file == <<magic, frames, tail, synced>>
vars == <<file, handle, records, writing, current, acknowledged>>

Recorded(fs) == [i \in DOMAIN fs |-> fs[i].value]
Intact(fs) == \A i \in DOMAIN fs : fs[i].intact

-----------------------------------------------------------------------------
(* Opening                                                                 *)

\* An empty file is given its header, which is synchronized and read back.
CreateHeader ==
  /\ handle = "none" /\ magic = "absent"
  /\ magic' = "written"
  /\ handle' = "ready" /\ records' = <<>>
  /\ UNCHANGED <<frames, tail, synced, writing, current, acknowledged>>

CreateHeaderFails ==
  /\ handle = "none" /\ magic = "absent"
  /\ magic' \in {"partial", "written"}
  /\ UNCHANGED <<frames, tail, synced, handle, records, writing, current,
                 acknowledged>>

\* Seeded defect: whatever cannot be read is taken for an incomplete tail.
Salvage ==
  /\ frames' = SelectSeq(frames, LAMBDA f : f.intact)
  /\ tail' = "none"
  /\ handle' = "repairing"

\* Parsing found an incomplete last frame; it is truncated.
Truncate ==
  /\ Intact(frames) /\ tail = "torn"
  /\ tail' = "none"
  /\ handle' = "repairing"
  /\ UNCHANGED frames

\* A length word, its inverse or a digest that does not match a complete
\* frame is CorruptJournal: such a file is never opened nor repaired.
OpenRepair ==
  /\ handle = "none" /\ magic = "written"
  /\ Truncate
  /\ UNCHANGED <<magic, synced, records, writing, current, acknowledged>>

\* The truncation was synchronized and the file has the expected length.
OpenRepaired ==
  /\ handle = "repairing"
  /\ handle' = "ready"
  /\ synced' = Len(frames)
  /\ records' = Recorded(frames)
  /\ UNCHANGED <<magic, frames, tail, writing, current, acknowledged>>

OpenRepairFails ==
  /\ handle = "repairing"
  /\ handle' = "none"
  /\ UNCHANGED <<file, records, writing, current, acknowledged>>

OpenClean ==
  /\ handle = "none" /\ magic = "written"
  /\ Intact(frames) /\ tail = "none"
  /\ handle' = "ready"
  /\ records' = Recorded(frames)
  /\ UNCHANGED <<file, writing, current, acknowledged>>

-----------------------------------------------------------------------------
(* Appending                                                               *)

\* Seeded defect: a failed append may be repeated.
MayAppendAgain ==
  handle \in {"ready", "poisoned"} /\ writing = "idle"
\* The file must still end where the last acknowledged frame does.
MayAppend ==
  /\ handle = "ready" /\ writing = "idle"
  /\ Len(frames) = Len(records) /\ tail = "none"

AppendStart(r) ==
  /\ MayAppend /\ Len(frames) < MaxFrames
  /\ current' = r
  /\ tail' = "torn"
  /\ writing' = "started"
  /\ UNCHANGED <<magic, frames, synced, handle, records, acknowledged>>

\* Length words, payload and digest are all written at the expected length.
AppendWritten ==
  /\ writing = "started"
  /\ frames' = Append(frames, [value |-> current, intact |-> TRUE])
  /\ tail' = "none"
  /\ writing' = "written"
  /\ UNCHANGED <<magic, synced, handle, records, current, acknowledged>>

\* Seeded defect: the frame is left to the operating system.
AppendUnsynced ==
  /\ writing = "written"
  /\ writing' = "synced"
  /\ UNCHANGED <<file, handle, records, current, acknowledged>>
AppendSynced ==
  /\ writing = "written"
  /\ synced' = Len(frames)
  /\ writing' = "synced"
  /\ UNCHANGED <<magic, frames, tail, handle, records, current, acknowledged>>

AppendAcknowledged ==
  /\ writing = "synced"
  /\ writing' = "idle"
  /\ records' = Append(records, current)
  /\ acknowledged' = records'
  /\ UNCHANGED <<file, handle, current>>

\* A custody or length check, a write or the flush failed.
AppendFails ==
  /\ handle = "ready"
  /\ handle' = "poisoned"
  /\ writing' = "idle"
  /\ UNCHANGED <<file, records, current, acknowledged>>

-----------------------------------------------------------------------------
(* The environment                                                         *)

\* The process ends, with or without notice; the file keeps what was written.
Crash ==
  /\ handle # "none"
  /\ handle' = "none" /\ writing' = "idle" /\ records' = <<>>
  /\ UNCHANGED <<file, current, acknowledged>>

\* Of what was not synchronized the machine keeps a prefix, and may leave
\* behind it an incomplete frame, also one a repair had truncated, or bytes
\* that were never written.  Before the first flush the header may go too.
PowerLoss ==
  /\ handle' = "none" /\ writing' = "idle" /\ records' = <<>>
  /\ \E n \in synced .. Len(frames) :
       /\ frames' = SubSeq(frames, 1, n)
       /\ magic' \in IF magic = "written" /\ n = 0
                     THEN {"absent", "partial", "written"} ELSE {magic}
  /\ tail' \in IF magic' = "written"
               THEN {"none", "torn", "garbage"} ELSE {"none"}
  /\ UNCHANGED <<synced, current, acknowledged>>

\* The storage damages a frame the journal holds.
Damage(i) ==
  /\ handle = "none" /\ frames[i].intact
  /\ frames' = [frames EXCEPT ![i].intact = FALSE]
  /\ UNCHANGED <<magic, tail, synced, handle, records, writing, current,
                 acknowledged>>

-----------------------------------------------------------------------------

Init ==
  /\ magic = "absent" /\ frames = <<>> /\ tail = "none" /\ synced = 0
  /\ handle = "none" /\ records = <<>>
  /\ writing = "idle" /\ current \in Values
  /\ acknowledged = <<>>

OpenStep ==
  \/ CreateHeader \/ CreateHeaderFails
  \/ OpenClean \/ OpenRepair \/ OpenRepaired \/ OpenRepairFails

AppendStep ==
  \/ \E r \in Values : AppendStart(r)
  \/ AppendWritten \/ AppendSynced \/ AppendAcknowledged \/ AppendFails

Fault ==
  \/ Crash \/ PowerLoss
  \/ \E i \in DOMAIN frames : Damage(i)

Next == OpenStep \/ AppendStep \/ Fault

Spec == Init /\ [][Next]_vars

-----------------------------------------------------------------------------
(* Properties                                                              *)

\* Every variable has its type.
TypeOK ==
  /\ magic \in {"absent", "partial", "written"}
  /\ frames \in Seq([value : Values, intact : BOOLEAN])
  /\ tail \in {"none", "torn", "garbage"}
  /\ synced \in 0 .. Len(frames)
  /\ handle \in {"none", "repairing", "ready", "poisoned"}
  /\ records \in Seq(Values)
  /\ writing \in {"idle", "started", "written", "synced"}
  /\ current \in Values
  /\ acknowledged \in Seq(Values)

\* Whatever append acknowledged, and whatever it had read before, a later open
\* returns in the same order or refuses: crashes, power losses, damaged frames
\* and tail repairs never make a shorter or a different journal.
OpenShowsAcknowledged ==
  handle = "ready" => IsPrefix(acknowledged, records)

\* An acknowledged record is durable, and so is every older one, also those an
\* earlier process wrote without an acknowledgement and this one adopted.
AcknowledgedIsDurable ==
  /\ IsPrefix(acknowledged, Recorded(frames))
  /\ Len(acknowledged) <= synced

\* When the first k frames are durable: the records no failure may take back,
\* those in doubt behind them, and who holds the journal.
Hardened(fs, k) == Recorded(SubSeq(fs, 1, k))
InDoubt(fs, k) == Recorded(SubSeq(fs, k + 1, Len(fs)))
Holder == CASE handle = "ready" -> "healthy"
            [] handle = "poisoned" -> "poisoned"
            [] OTHER -> "none"

\* The journal implements the log the engine relies on.
Promised == INSTANCE DurableLog WITH
  log <- Hardened(frames, synced),
  doubt <- InDoubt(frames, synced),
  holder <- Holder
PromisedSpec == Promised!Spec
=============================================================================
