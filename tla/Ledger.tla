------------------------------- MODULE Ledger -------------------------------
(***************************************************************************)
(* The crash-safe NDJSON appender of cyclops-ledger (src/lib.rs).          *)
(*                                                                         *)
(* One file, any number of daemon processes that may open it.  A process   *)
(* takes the file lease, repairs the unterminated tail an earlier crash    *)
(* left, replays the complete lines to recover its next sequence number,   *)
(* and then appends: write, fsync, acknowledge.  The processes can be      *)
(* killed between any two of those steps, writes and fsyncs can fail, and  *)
(* the machine can lose power, which drops what was not fsynced.           *)
(***************************************************************************)
EXTENDS Integers, Sequences

CONSTANTS
  Writers,    \* daemon processes that may open the ledger
  Payloads,   \* line contents; only their identity matters here
  MaxSeq,     \* u64::MAX, the largest sequence number
  MaxLines,   \* bound on the physical lines of the file
  Strict,     \* TRUE: open_strict (workspace journal); FALSE: open (session)
  NoWriter,   \* the lease is free
  NoPayload   \* content of a physical line that does not parse

ASSUME LedgerAssumption ==
  /\ MaxSeq \in Nat \ {0}
  /\ MaxLines \in Nat
  /\ Strict \in BOOLEAN
  /\ NoWriter \notin Writers
  /\ NoPayload \notin Payloads

VARIABLES
  file,     \* the newline-terminated physical lines, oldest first
  tail,     \* bytes after the last newline
  synced,   \* number of lines of file that fsync has made durable
  lease,    \* the process that holds the file lock
  pc,       \* per process: closed, repaired, ready or written
  nextSeq,  \* Inner.next_seq
  unknown,  \* Inner.write_state_unknown
  sealed,   \* Inner.sealed
  acked     \* history: lines whose append returned Ok

disk == <<file, tail, synced>>
vars == <<file, tail, synced, lease, pc, nextSeq, unknown, sealed, acked>>

(***************************************************************************)
(* A line that parses carries the sequence number its writer assigned.     *)
(* Sequence numbers start at 1. 0 marks a physical line that does not      *)
(* parse, the remains of a torn write that a lenient open terminated, and  *)
(* -1 one that is not even text: the tear went through a character.        *)
(***************************************************************************)
Line == [seq : 1..MaxSeq, payload : Payloads]
Garbage == [seq |-> 0, payload |-> NoPayload]
Broken == [seq |-> -1, payload |-> NoPayload]
Physical == Line \cup {Garbage, Broken}

\* What a write cut short leaves behind the last newline: nothing, part of
\* the record, or the whole record without its newline.
NoTail == [kind |-> "none", line |-> Garbage]
Fragments == {[kind |-> "fragment", line |-> Garbage], [kind |-> "fragment", line |-> Broken]}
Whole(l) == [kind |-> "whole", line |-> l]
CutShort(l) == {NoTail, Whole(l)} \cup Fragments
Tail_ == {NoTail} \cup Fragments \cup {Whole(l) : l \in Physical}

TypeOK ==
  /\ file \in Seq(Physical)
  /\ tail \in Tail_
  /\ synced \in 0..Len(file)
  /\ lease \in Writers \cup {NoWriter}
  /\ pc \in [Writers -> {"closed", "repaired", "ready", "written"}]
  /\ nextSeq \in [Writers -> 1..MaxSeq]
  /\ unknown \in [Writers -> BOOLEAN]
  /\ sealed \in [Writers -> BOOLEAN]
  /\ acked \subseteq Line

Init ==
  /\ file = <<>>
  /\ tail = NoTail
  /\ synced = 0
  /\ lease = NoWriter
  /\ pc = [w \in Writers |-> "closed"]
  /\ nextSeq = [w \in Writers |-> 1]
  /\ unknown = [w \in Writers |-> FALSE]
  /\ sealed = [w \in Writers |-> FALSE]
  /\ acked = {}

-----------------------------------------------------------------------------
(* Replay                                                                  *)

\* read_from_strict succeeds: every line parses, the i-th carries i, and the
\* counter that expects the next one does not overflow.
StrictReplayOK(f) ==
  \A i \in 1..Len(f) : f[i].seq = i /\ i < MaxSeq

Parses(l) == l.seq > 0

\* reader.lines() fails on a line that is not text, and the replay with it.
IsText(f) == \A i \in 1..Len(f) : f[i] # Broken

\* The last line a replay returns, as a set of at most one index: read_from
\* skips what does not parse.
LastReplayed(f) ==
  {i \in 1..Len(f) : Parses(f[i]) /\ \A j \in (i + 1)..Len(f) : ~Parses(f[j])}

\* The sequence number after the last replayed line.
SeqAfter(f) ==
  IF LastReplayed(f) = {} THEN 1 ELSE f[CHOOSE i \in LastReplayed(f) : TRUE].seq + 1

ReplayOK(f) ==
  /\ IsText(f)
  /\ Strict => StrictReplayOK(f)
  /\ SeqAfter(f) <= MaxSeq

-----------------------------------------------------------------------------
(* Opening                                                                 *)

\* Mutant: a strict open terminates the tail as a lenient one does.
RepairedFileTerminated == Append(file, tail.line)

\* A strict open truncates the unterminated tail.  A lenient open terminates
\* it with a newline: a fragment becomes a line that does not parse or is no
\* text, a whole record becomes a line.
RepairedFile == IF Strict THEN file ELSE Append(file, tail.line)

\* try_lock, then the repair of the final unterminated write, if any, and
\* its fsync.
OpenRepair(w) ==
  /\ pc[w] = "closed"
  /\ lease = NoWriter
  /\ lease' = w
  /\ pc' = [pc EXCEPT ![w] = "repaired"]
  /\ \/ tail = NoTail /\ UNCHANGED disk
     \/ /\ tail # NoTail
        /\ file' = RepairedFile
        /\ tail' = NoTail
        /\ synced' = Len(RepairedFile)
  /\ UNCHANGED <<nextSeq, unknown, sealed, acked>>

\* The repair took effect and its fsync failed: the open returns the error
\* and drops the descriptor.
OpenRepairFails(w) ==
  /\ pc[w] = "closed"
  /\ lease = NoWriter
  /\ tail # NoTail
  /\ file' = RepairedFile
  /\ tail' = NoTail
  /\ UNCHANGED <<synced, lease, pc, nextSeq, unknown, sealed, acked>>

\* The replay recovers the next sequence number; a replay error drops the
\* descriptor, and the lease with it.
OpenReplay(w) ==
  /\ pc[w] = "repaired"
  /\ \/ /\ ReplayOK(file)
        /\ pc' = [pc EXCEPT ![w] = "ready"]
        /\ nextSeq' = [nextSeq EXCEPT ![w] = SeqAfter(file)]
        /\ unknown' = [unknown EXCEPT ![w] = FALSE]
        /\ sealed' = [sealed EXCEPT ![w] = FALSE]
        /\ UNCHANGED lease
     \/ /\ ~ReplayOK(file)
        /\ pc' = [pc EXCEPT ![w] = "closed"]
        /\ lease' = NoWriter
        /\ UNCHANGED <<nextSeq, unknown, sealed>>
  /\ UNCHANGED <<disk, acked>>

-----------------------------------------------------------------------------
(* Appending                                                               *)

\* The checks at the head of append, and the bound on the file.
MayAppend(w) ==
  /\ pc[w] = "ready"
  /\ ~sealed[w]
  /\ ~unknown[w]
  /\ nextSeq[w] + 1 <= MaxSeq
  /\ Len(file) < MaxLines

LineFor(w, p) == [seq |-> nextSeq[w], payload |-> p]

\* write_all put the record and its newline in the file.
AppendWrite(w, p) ==
  /\ MayAppend(w)
  /\ file' = Append(file, LineFor(w, p))
  /\ pc' = [pc EXCEPT ![w] = "written"]
  /\ UNCHANGED <<tail, synced, lease, nextSeq, unknown, sealed, acked>>

\* write_all failed after some of the bytes, or none.
AppendWriteFails(w, p) ==
  /\ MayAppend(w)
  /\ tail' \in CutShort(LineFor(w, p))
  /\ unknown' = [unknown EXCEPT ![w] = TRUE]
  /\ UNCHANGED <<file, synced, lease, pc, nextSeq, sealed, acked>>

\* Mutant: append returns Ok without waiting for sync_data.
AppendUnsynced(w) ==
  /\ pc[w] = "written"
  /\ pc' = [pc EXCEPT ![w] = "ready"]
  /\ nextSeq' = [nextSeq EXCEPT ![w] = @ + 1]
  /\ acked' = acked \cup {file[Len(file)]}
  /\ UNCHANGED <<disk, lease, unknown, sealed>>

\* sync_data succeeded: the append is acknowledged.
AppendSync(w) ==
  /\ pc[w] = "written"
  /\ synced' = Len(file)
  /\ pc' = [pc EXCEPT ![w] = "ready"]
  /\ nextSeq' = [nextSeq EXCEPT ![w] = @ + 1]
  /\ acked' = acked \cup {file[Len(file)]}
  /\ UNCHANGED <<file, tail, lease, unknown, sealed>>

\* Mutant: a failed sync_data does not poison the writer.
SyncFailsUnnoticed(w) ==
  /\ pc[w] = "written"
  /\ pc' = [pc EXCEPT ![w] = "ready"]
  /\ UNCHANGED <<disk, lease, nextSeq, unknown, sealed, acked>>

\* sync_data failed: the line may or may not survive.
AppendSyncFails(w) ==
  /\ pc[w] = "written"
  /\ pc' = [pc EXCEPT ![w] = "ready"]
  /\ unknown' = [unknown EXCEPT ![w] = TRUE]
  /\ UNCHANGED <<disk, lease, nextSeq, sealed, acked>>

\* seal: no later append; the lease is released unless the unlock fails.
Seal(w) ==
  /\ pc[w] = "ready"
  /\ sealed' = [sealed EXCEPT ![w] = TRUE]
  /\ lease' \in (IF lease = w THEN {NoWriter, w} ELSE {lease})
  /\ UNCHANGED <<disk, pc, nextSeq, unknown, acked>>

-----------------------------------------------------------------------------
(* Faults                                                                  *)

\* The process exits or is killed, or the writer is dropped; its memory goes
\* with it.  A kill inside write_all leaves what AppendWriteFails leaves.
Exit(w) ==
  /\ pc[w] # "closed"
  /\ pc' = [pc EXCEPT ![w] = "closed"]
  /\ lease' = IF lease = w THEN NoWriter ELSE lease
  /\ nextSeq' = [nextSeq EXCEPT ![w] = 1]
  /\ unknown' = [unknown EXCEPT ![w] = FALSE]
  /\ sealed' = [sealed EXCEPT ![w] = FALSE]
  /\ UNCHANGED <<disk, acked>>

\* What may be left of the tail itself.
CutTail == IF tail = NoTail THEN {NoTail} ELSE {NoTail} \cup Fragments

\* Power loss ends every process and cuts the file anywhere behind its last
\* fsync.
PowerLoss ==
  /\ \E n \in synced..Len(file) :
       /\ file' = SubSeq(file, 1, n)
       /\ tail' \in IF n < Len(file) THEN CutShort(file[n + 1])
                                     ELSE {tail} \cup CutTail
  /\ pc' = [w \in Writers |-> "closed"]
  /\ lease' = NoWriter
  /\ nextSeq' = [w \in Writers |-> 1]
  /\ unknown' = [w \in Writers |-> FALSE]
  /\ sealed' = [w \in Writers |-> FALSE]
  /\ UNCHANGED <<synced, acked>>

Next ==
  \/ \E w \in Writers : OpenRepair(w) \/ OpenRepairFails(w) \/ OpenReplay(w)
  \/ \E w \in Writers, p \in Payloads : AppendWrite(w, p)
  \/ \E w \in Writers, p \in Payloads : AppendWriteFails(w, p)
  \/ \E w \in Writers : AppendSync(w) \/ AppendSyncFails(w)
  \/ \E w \in Writers : Seal(w) \/ Exit(w)
  \/ PowerLoss

Spec == Init /\ [][Next]_vars

-----------------------------------------------------------------------------
(* Properties                                                              *)

\* An append that returned Ok is durable (append, "append and fsync. The
\* returned line is what reached disk"): an acknowledged line is among the
\* fsynced lines, through failed writes, kills, power loss and handovers of
\* the lease from one process to the next.
AckedIsDurable ==
  \A l \in acked : \E i \in 1..synced : file[i] = l

\* One sequence number names one line (open_with_replay recovers next_seq
\* from the replay; append advances it only after the fsync): two physical
\* lines never carry the same number, so a cursor never skips or repeats.
SequenceNamesOneLine ==
  \A i, j \in 1..Len(file) :
    (Parses(file[i]) /\ Parses(file[j]) /\ i < j) => file[i].seq < file[j].seq

\* A strict replay never refuses the file the appender itself wrote, whatever
\* crashed and wherever (read_from_strict's CorruptLine, SequenceGap and
\* SequenceExhausted are for foreign damage); a lenient one refuses it only
\* for a line that is not text.
OwnFileReplays == Strict \/ IsText(file) => ReplayOK(file)

\* Either replay accepts the file the appender itself wrote ("Open relative
\* to `root`, seal a torn tail, and recover the next sequence"): false of a
\* lenient open that sealed a tear through a character.
SealedFileReplays == ReplayOK(file)

\* Only one process may be past the checks of append at a time: the lease is
\* held from the open to the seal, and a sealed writer is refused.
OneAppender ==
  \A v, w \in Writers :
    (MayAppend(v) \/ pc[v] = "written") /\ (MayAppend(w) \/ pc[w] = "written")
      => v = w

\* A durable line is never rewritten, moved or removed: the repair of a tail
\* and the next appends only ever touch what lies behind it.
DurableLinesImmutable ==
  [][/\ synced' >= synced
     /\ Len(file') >= synced
     /\ \A i \in 1..synced : file'[i] = file[i]]_vars
=============================================================================
