---------------------------- MODULE LedgerProofs ----------------------------
(***************************************************************************)
(* Proofs about the ledger, for any processes, contents, file length and   *)
(* largest sequence number, and for both ways of opening it.               *)
(***************************************************************************)
EXTENDS Ledger, TLAPS

\* A process that repaired or wrote the file, or may still append to it,
\* holds the lease; so no second process opens the file under it.
LeaseInv ==
  \A w \in Writers :
    (pc[w] \in {"repaired", "written"} \/ (pc[w] = "ready" /\ ~sealed[w]))
      => lease = w

\* What a process knows of the file it may append to: no tail, and every
\* number in the file is below its next one.
AppenderInv ==
  /\ \A w \in Writers : pc[w] = "repaired" => tail = NoTail
  /\ \A w \in Writers : (pc[w] = "ready" /\ ~sealed[w] /\ ~unknown[w]) =>
       /\ tail = NoTail
       /\ \A i \in 1..Len(file) : file[i].seq < nextSeq[w]
       /\ Strict => nextSeq[w] = Len(file) + 1
  /\ \A w \in Writers : pc[w] = "written" =>
       /\ tail = NoTail
       /\ Len(file) > 0
       /\ nextSeq[w] < MaxSeq
       /\ file[Len(file)] \in Line
       /\ file[Len(file)].seq = nextSeq[w]
       /\ Strict => nextSeq[w] = Len(file)

\* A whole record behind the last newline continues the sequence.
TailInv ==
  /\ tail.line.seq < MaxSeq
  /\ Parses(tail.line) => \A i \in 1..Len(file) : file[i].seq < tail.line.seq

\* Every prefix that holds a line that parses has a last one.
HasLast(f, n) ==
  \/ \A i \in 1..n : ~Parses(f[i])
  \/ \E i \in 1..n : Parses(f[i]) /\ \A j \in (i + 1)..n : ~Parses(f[j])

FileOK(f) ==
  /\ \A i \in 1..Len(f) : f[i].seq < MaxSeq
  /\ Strict => \A i \in 1..Len(f) : f[i].seq = i
  /\ \A i, j \in 1..Len(f) :
       (Parses(f[i]) /\ Parses(f[j]) /\ i < j) => f[i].seq < f[j].seq
  /\ \A n \in 0..Len(f) : HasLast(f, n)

\* The inductive invariant.
LedgerInv ==
  /\ TypeOK
  /\ LeaseInv
  /\ AppenderInv
  /\ TailInv
  /\ FileOK(file)
  /\ AckedIsDurable

-----------------------------------------------------------------------------
(* Facts about files                                                       *)

LEMMA PhysicalFacts ==
  /\ Line \subseteq Physical
  /\ Garbage \in Physical /\ Broken \in Physical
  /\ Garbage.seq = 0 /\ Broken.seq = -1
  /\ \A l \in Physical : l.seq \in -1..MaxSeq
  /\ \A l \in Physical : Parses(l) => l \in Line
  BY LedgerAssumption DEF Physical, Line, Garbage, Broken, Parses

LEMMA TailFacts ==
  /\ \A t \in Tail_ : t.line \in Physical
  /\ \A l \in Physical : CutShort(l) \subseteq Tail_
  /\ NoTail \in Tail_
  /\ NoTail.line = Garbage
  /\ \A l \in Physical : \A t \in CutShort(l) : t.line \in {l, Garbage, Broken}
  /\ \A t \in CutTail : t \in Tail_ /\ t.line \in {Garbage, Broken}
  <1>1. NoTail.line = Garbage /\ \A t \in Fragments : t.line \in {Garbage, Broken}
    BY DEF NoTail, Fragments
  <1>2. \A l : Whole(l).line = l
    BY DEF Whole
  <1>3. QED
    BY <1>1, <1>2, PhysicalFacts DEF Tail_, CutShort, CutTail

\* Appending a line that continues the sequence keeps the file in order.
LEMMA AppendKeepsFile ==
  ASSUME NEW f \in Seq(Physical), NEW l \in Physical,
         FileOK(f), l.seq < MaxSeq,
         Parses(l) => \A i \in 1..Len(f) : f[i].seq < l.seq,
         Strict => l.seq = Len(f) + 1
  PROVE  FileOK(Append(f, l))
  <1> DEFINE g == Append(f, l)
  <1>1. /\ g \in Seq(Physical)
        /\ Len(g) = Len(f) + 1
        /\ \A i \in 1..Len(f) : g[i] = f[i]
        /\ g[Len(f) + 1] = l
    OBVIOUS
  <1>2. \A i \in 1..Len(g) : g[i].seq < MaxSeq
    BY <1>1 DEF FileOK
  <1>3. Strict => \A i \in 1..Len(g) : g[i].seq = i
    BY <1>1 DEF FileOK
  <1>4. \A i, j \in 1..Len(g) :
          (Parses(g[i]) /\ Parses(g[j]) /\ i < j) => g[i].seq < g[j].seq
    BY <1>1 DEF FileOK
  <1>5. ASSUME NEW n \in 0..Len(g) PROVE HasLast(g, n)
    <2>1. CASE n \in 0..Len(f)
      <3>1. HasLast(f, n)
        BY <2>1 DEF FileOK
      <3>2. QED
        BY <3>1, <2>1, <1>1 DEF HasLast
    <2>2. CASE n = Len(f) + 1 /\ Parses(l)
      BY <2>2, <1>1 DEF HasLast
    <2>3. CASE n = Len(f) + 1 /\ ~Parses(l)
      <3>1. HasLast(f, Len(f))
        BY DEF FileOK
      <3>2. CASE \A i \in 1..Len(f) : ~Parses(f[i])
        BY <3>2, <2>3, <1>1 DEF HasLast
      <3>3. CASE \E i \in 1..Len(f) :
                   Parses(f[i]) /\ \A j \in (i + 1)..Len(f) : ~Parses(f[j])
        <4>1. PICK i \in 1..Len(f) :
                Parses(f[i]) /\ \A j \in (i + 1)..Len(f) : ~Parses(f[j])
          BY <3>3
        <4>2. i \in 1..n /\ Parses(g[i])
          BY <4>1, <2>3, <1>1
        <4>3. \A j \in (i + 1)..n : ~Parses(g[j])
          BY <4>1, <2>3, <1>1
        <4>4. QED
          BY <4>2, <4>3, SMTT(20) DEF HasLast
      <3>4. QED
        BY <3>1, <3>2, <3>3, Zenon DEF HasLast
    <2>4. QED
      BY <2>1, <2>2, <2>3, <1>1
  <1>6. QED
    BY <1>2, <1>3, <1>4, <1>5 DEF FileOK

\* So does cutting it anywhere.
LEMMA CutKeepsFile ==
  ASSUME NEW f \in Seq(Physical), NEW n \in 0..Len(f), FileOK(f)
  PROVE  /\ SubSeq(f, 1, n) \in Seq(Physical)
         /\ Len(SubSeq(f, 1, n)) = n
         /\ \A i \in 1..n : SubSeq(f, 1, n)[i] = f[i]
         /\ FileOK(SubSeq(f, 1, n))
  <1> DEFINE g == SubSeq(f, 1, n)
  <1>1. g \in Seq(Physical) /\ Len(g) = n /\ \A i \in 1..n : g[i] = f[i]
    OBVIOUS
  <1>2. ASSUME NEW k \in 0..n PROVE HasLast(g, k)
    <2>1. HasLast(f, k)
      BY DEF FileOK
    <2>2. QED
      BY <2>1, <1>1 DEF HasLast
  <1>3. QED
    BY <1>1, <1>2 DEF FileOK

\* The next sequence number is above every number in the file.
LEMMA SeqAfterIsAbove ==
  ASSUME NEW f \in Seq(Physical), FileOK(f)
  PROVE  /\ SeqAfter(f) \in 1..MaxSeq
         /\ \A i \in 1..Len(f) : f[i].seq < SeqAfter(f)
         /\ Strict => SeqAfter(f) = Len(f) + 1
  <1> USE LedgerAssumption
  <1>0. \A i \in 1..Len(f) : f[i].seq \in -1..MaxSeq
    BY PhysicalFacts
  <1>1. CASE LastReplayed(f) = {}
    <2>1. \A i \in 1..Len(f) : ~Parses(f[i])
      BY <1>1, SMTT(20) DEF FileOK, HasLast, LastReplayed
    <2>2. Strict => Len(f) = 0
      BY <2>1 DEF FileOK, Parses
    <2>3. QED
      BY <1>0, <1>1, <2>1, <2>2 DEF SeqAfter, Parses
  <1>2. CASE LastReplayed(f) # {}
    <2> DEFINE k == CHOOSE i \in LastReplayed(f) : TRUE
    <2>1. k \in LastReplayed(f)
      BY <1>2
    <2>2. /\ k \in 1..Len(f)
          /\ Parses(f[k])
          /\ \A j \in (k + 1)..Len(f) : ~Parses(f[j])
      BY <2>1 DEF LastReplayed
    <2>3. SeqAfter(f) = f[k].seq + 1
      BY <1>2 DEF SeqAfter
    <2> HIDE DEF k
    <2>4. \A i \in 1..Len(f) : f[i].seq <= f[k].seq
      <3>1. ASSUME NEW i \in 1..Len(f), i < k PROVE f[i].seq <= f[k].seq
        BY <3>1, <2>2, <1>0 DEF FileOK, Parses
      <3>2. ASSUME NEW i \in 1..Len(f), i > k PROVE f[i].seq <= f[k].seq
        BY <3>2, <2>2, <1>0 DEF Parses
      <3>3. QED
        BY <3>1, <3>2, <2>2, <1>0
    <2>5. Strict => k = Len(f)
      BY <2>2 DEF FileOK, Parses
    <2>6. QED
      BY <2>2, <2>3, <2>4, <2>5, <1>0 DEF FileOK, Parses
  <1>3. QED
    BY <1>1, <1>2

-----------------------------------------------------------------------------
(* The steps                                                               *)

LEMMA InitInv == Init => LedgerInv
  <1> SUFFICES ASSUME Init PROVE LedgerInv
    OBVIOUS
  <1> USE LedgerAssumption DEF Init
  <1>1. TypeOK
    BY TailFacts DEF TypeOK
  <1>2. LeaseInv /\ AppenderInv /\ AckedIsDurable
    BY DEF LeaseInv, AppenderInv, AckedIsDurable
  <1>3. TailInv
    BY TailFacts DEF TailInv, Garbage, Broken, Parses
  <1>4. FileOK(file)
    BY DEF FileOK, HasLast
  <1>5. QED
    BY <1>1, <1>2, <1>3, <1>4 DEF LedgerInv

\* Acknowledged lines stay durable when the fsynced prefix only grows.
LEMMA AckedKept ==
  ASSUME TypeOK, AckedIsDurable, acked' = acked,
         synced' \in Nat, synced <= synced',
         \A i \in 1..synced : file'[i] = file[i]
  PROVE  AckedIsDurable'
  <1> SUFFICES ASSUME NEW l \in acked PROVE \E i \in 1..synced' : file'[i] = l
    BY DEF AckedIsDurable
  <1>1. PICK i \in 1..synced : file[i] = l
    BY DEF AckedIsDurable
  <1>2. i \in 1..synced' /\ file'[i] = l
    BY <1>1 DEF TypeOK
  <1>3. QED
    BY <1>2

LEMMA RepairStep ==
  ASSUME LedgerInv, NEW w \in Writers, OpenRepair(w) \/ OpenRepairFails(w)
  PROVE  LedgerInv'
  <1> USE LedgerAssumption DEF LedgerInv
  <1>1. tail.line \in Physical /\ NoTail.line = Garbage /\ NoTail \in Tail_
    BY TailFacts DEF TypeOK
  <1>2. /\ RepairedFile \in Seq(Physical)
        /\ FileOK(RepairedFile)
        /\ Len(file) <= Len(RepairedFile)
        /\ \A i \in 1..Len(file) : RepairedFile[i] = file[i]
    <2>1. CASE Strict
      BY <2>1 DEF RepairedFile, TypeOK
    <2>2. CASE ~Strict
      <3>1. FileOK(Append(file, tail.line))
        BY <2>2, <1>1, AppendKeepsFile DEF TypeOK, TailInv
      <3>2. QED
        BY <3>1, <2>2, <1>1 DEF RepairedFile, TypeOK
    <2>3. QED
      BY <2>1, <2>2
  <1>3. /\ pc[w] = "closed"
        /\ lease = NoWriter
        /\ UNCHANGED <<nextSeq, unknown, sealed, acked>>
        /\ tail' = NoTail
        /\ \/ file' = file /\ synced' = synced
           \/ file' = RepairedFile /\ synced' \in {synced, Len(RepairedFile)}
        /\ \/ lease' = w /\ pc' = [pc EXCEPT ![w] = "repaired"]
           \/ lease' = lease /\ pc' = pc
    BY DEF OpenRepair, OpenRepairFails, disk
  <1>4. /\ file' \in Seq(Physical)
        /\ FileOK(file')
        /\ Len(file) <= Len(file')
        /\ \A i \in 1..Len(file) : file'[i] = file[i]
        /\ synced <= synced'
        /\ synced' \in 0..Len(file')
    <2>1. synced \in 0..Len(file) /\ file \in Seq(Physical)
      BY DEF TypeOK
    <2>2. CASE file' = file /\ synced' = synced
      BY <2>1, <2>2
    <2>3. CASE file' = RepairedFile /\ synced' \in {synced, Len(RepairedFile)}
      BY <2>1, <2>3, <1>2
    <2>4. QED
      BY <2>2, <2>3, <1>3
  <1>5. TypeOK'
    BY <1>1, <1>3, <1>4, SMTT(20) DEF TypeOK
  <1>6. LeaseInv'
    BY <1>3 DEF LeaseInv, TypeOK
  <1>7. AppenderInv'
    BY <1>3 DEF AppenderInv, LeaseInv, TypeOK
  <1>8. TailInv'
    BY <1>1, <1>3 DEF TailInv, Garbage, Broken, Parses
  <1>9. AckedIsDurable'
    BY <1>3, <1>4, AckedKept DEF TypeOK
  <1>10. QED
    BY <1>4, <1>5, <1>6, <1>7, <1>8, <1>9

LEMMA ReplayStep ==
  ASSUME LedgerInv, NEW w \in Writers, OpenReplay(w)
  PROVE  LedgerInv'
  <1> USE LedgerAssumption DEF LedgerInv
  <1>1. /\ SeqAfter(file) \in 1..MaxSeq
        /\ \A i \in 1..Len(file) : file[i].seq < SeqAfter(file)
        /\ Strict => SeqAfter(file) = Len(file) + 1
    BY SeqAfterIsAbove DEF TypeOK
  <1>2. /\ pc[w] = "repaired"
        /\ file' = file /\ tail' = tail /\ synced' = synced /\ acked' = acked
    BY DEF OpenReplay, disk
  <1>3. FileOK(file') /\ AckedIsDurable' /\ TailInv'
    BY <1>2 DEF AckedIsDurable, TailInv
  <1>4. CASE /\ pc' = [pc EXCEPT ![w] = "ready"]
             /\ nextSeq' = [nextSeq EXCEPT ![w] = SeqAfter(file)]
             /\ unknown' = [unknown EXCEPT ![w] = FALSE]
             /\ sealed' = [sealed EXCEPT ![w] = FALSE]
             /\ lease' = lease
    <2>1. TypeOK'
      BY <1>1, <1>2, <1>4 DEF TypeOK
    <2>2. LeaseInv'
      BY <1>2, <1>4 DEF LeaseInv, TypeOK
    <2>3. AppenderInv'
      BY <1>1, <1>2, <1>4 DEF AppenderInv, LeaseInv, TypeOK
    <2>4. QED
      BY <1>3, <2>1, <2>2, <2>3
  <1>5. CASE /\ pc' = [pc EXCEPT ![w] = "closed"]
             /\ lease' = NoWriter
             /\ UNCHANGED <<nextSeq, unknown, sealed>>
    <2>1. TypeOK'
      BY <1>2, <1>5 DEF TypeOK
    <2>2. LeaseInv'
      BY <1>2, <1>5 DEF LeaseInv, TypeOK
    <2>3. AppenderInv'
      BY <1>2, <1>5 DEF AppenderInv, TypeOK
    <2>4. QED
      BY <1>3, <2>1, <2>2, <2>3
  <1>6. QED
    BY <1>4, <1>5 DEF OpenReplay

LEMMA WriteStep ==
  ASSUME LedgerInv, NEW w \in Writers, NEW p \in Payloads, AppendWrite(w, p)
  PROVE  LedgerInv'
  <1> USE LedgerAssumption DEF LedgerInv
  <1> DEFINE l == LineFor(w, p)
  <1>1. /\ pc[w] = "ready" /\ ~sealed[w] /\ ~unknown[w]
        /\ nextSeq[w] < MaxSeq
        /\ file' = Append(file, l)
        /\ pc' = [pc EXCEPT ![w] = "written"]
        /\ UNCHANGED <<tail, synced, lease, nextSeq, unknown, sealed, acked>>
    BY DEF AppendWrite, MayAppend, TypeOK
  <1>2. /\ tail = NoTail /\ lease = w
        /\ \A i \in 1..Len(file) : file[i].seq < nextSeq[w]
        /\ Strict => nextSeq[w] = Len(file) + 1
    BY <1>1 DEF AppenderInv, LeaseInv
  <1>3. l \in Line /\ l \in Physical /\ l.seq = nextSeq[w]
    BY <1>1, PhysicalFacts DEF LineFor, Line, TypeOK
  <1> HIDE DEF l
  <1>4. FileOK(file')
    BY <1>1, <1>2, <1>3, AppendKeepsFile, Zenon DEF TypeOK
  <1>5. /\ file' \in Seq(Physical)
        /\ Len(file') = Len(file) + 1
        /\ \A i \in 1..Len(file) : file'[i] = file[i]
        /\ file'[Len(file')] = l
    BY <1>1, <1>3 DEF TypeOK
  <1>6. TypeOK' /\ LeaseInv'
    BY <1>1, <1>5 DEF TypeOK, LeaseInv
  <1>7. AppenderInv'
    BY <1>1, <1>2, <1>3, <1>5 DEF AppenderInv, LeaseInv, TypeOK
  <1>8. TailInv'
    BY <1>1, <1>2, TailFacts DEF TailInv, Garbage, Broken, Parses
  <1>9. AckedIsDurable'
    BY <1>1, <1>5, AckedKept DEF TypeOK
  <1>10. QED
    BY <1>4, <1>6, <1>7, <1>8, <1>9

LEMMA WriteFailsStep ==
  ASSUME LedgerInv, NEW w \in Writers, NEW p \in Payloads,
         AppendWriteFails(w, p)
  PROVE  LedgerInv'
  <1> USE LedgerAssumption DEF LedgerInv
  <1> DEFINE l == LineFor(w, p)
  <1>1. /\ pc[w] = "ready" /\ ~sealed[w] /\ ~unknown[w]
        /\ nextSeq[w] < MaxSeq
        /\ tail' \in CutShort(l)
        /\ unknown' = [unknown EXCEPT ![w] = TRUE]
        /\ UNCHANGED <<file, synced, lease, pc, nextSeq, sealed, acked>>
    BY DEF AppendWriteFails, MayAppend, TypeOK
  <1>2. lease = w /\ \A i \in 1..Len(file) : file[i].seq < nextSeq[w]
    BY <1>1 DEF AppenderInv, LeaseInv
  <1>3. l \in Physical /\ l.seq = nextSeq[w]
    BY <1>1, PhysicalFacts DEF LineFor, Line, TypeOK
  <1> HIDE DEF l
  <1>4. tail' \in Tail_ /\ tail'.line \in {l, Garbage, Broken}
    BY <1>1, <1>3, TailFacts
  <1>5. TypeOK' /\ LeaseInv' /\ AckedIsDurable' /\ FileOK(file')
    BY <1>1, <1>4 DEF TypeOK, LeaseInv, AckedIsDurable
  <1>6. AppenderInv'
    BY <1>1, <1>2 DEF AppenderInv, LeaseInv, TypeOK
  <1>7. TailInv'
    BY <1>1, <1>2, <1>3, <1>4 DEF TailInv, Garbage, Broken, Parses
  <1>8. QED
    BY <1>5, <1>6, <1>7

LEMMA SyncStep ==
  ASSUME LedgerInv, NEW w \in Writers, AppendSync(w)
  PROVE  LedgerInv'
  <1> USE LedgerAssumption DEF LedgerInv
  <1>1. /\ pc[w] = "written"
        /\ synced' = Len(file)
        /\ pc' = [pc EXCEPT ![w] = "ready"]
        /\ nextSeq' = [nextSeq EXCEPT ![w] = nextSeq[w] + 1]
        /\ acked' = acked \cup {file[Len(file)]}
        /\ UNCHANGED <<file, tail, lease, unknown, sealed>>
    BY DEF AppendSync
  <1>2. /\ tail = NoTail /\ Len(file) > 0 /\ nextSeq[w] < MaxSeq
        /\ file[Len(file)] \in Line /\ file[Len(file)].seq = nextSeq[w]
        /\ Strict => nextSeq[w] = Len(file)
        /\ lease = w
    BY <1>1 DEF AppenderInv, LeaseInv
  <1>3. \A i \in 1..Len(file) : file[i].seq < nextSeq[w] + 1
    <2> SUFFICES ASSUME NEW i \in 1..Len(file) PROVE file[i].seq < nextSeq[w] + 1
      OBVIOUS
    <2>1. file[i].seq \in -1..MaxSeq /\ nextSeq[w] \in 1..MaxSeq /\ Len(file) \in Nat
      BY PhysicalFacts DEF TypeOK
    <2>2. (Parses(file[i]) /\ i < Len(file)) => file[i].seq < nextSeq[w]
      BY <1>2, <2>1 DEF FileOK, Parses
    <2>3. QED
      BY <1>2, <2>1, <2>2 DEF Parses
  <1>4. TypeOK' /\ LeaseInv' /\ TailInv' /\ FileOK(file')
    BY <1>1, <1>2 DEF TypeOK, LeaseInv, TailInv
  <1>5. AppenderInv'
    BY <1>1, <1>2, <1>3 DEF AppenderInv, LeaseInv, TypeOK
  <1>6. AckedIsDurable'
    <2>1. synced \in 0..Len(file) /\ Len(file) \in Nat
      BY DEF TypeOK
    <2>2. QED
      BY <1>1, <1>2, <2>1 DEF AckedIsDurable
  <1>7. QED
    BY <1>4, <1>5, <1>6

LEMMA StopStep ==
  ASSUME LedgerInv, NEW w \in Writers,
         AppendSyncFails(w) \/ Seal(w) \/ Exit(w)
  PROVE  LedgerInv'
  <1> USE LedgerAssumption DEF LedgerInv
  <1>1. /\ file' = file /\ tail' = tail /\ synced' = synced /\ acked' = acked
    BY DEF AppendSyncFails, Seal, Exit, disk
  <1>2. FileOK(file') /\ AckedIsDurable' /\ TailInv'
    BY <1>1 DEF AckedIsDurable, TailInv
  <1>3. CASE AppendSyncFails(w)
    <2>1. TypeOK' /\ LeaseInv'
      BY <1>1, <1>3 DEF AppendSyncFails, TypeOK, LeaseInv
    <2>2. AppenderInv'
      BY <1>1, <1>3 DEF AppendSyncFails, TypeOK, AppenderInv, LeaseInv
    <2>3. QED
      BY <1>2, <2>1, <2>2
  <1>4. CASE Seal(w)
    <2>1. TypeOK' /\ LeaseInv'
      BY <1>1, <1>4 DEF Seal, TypeOK, LeaseInv
    <2>2. AppenderInv'
      BY <1>1, <1>4, Zenon DEF Seal, TypeOK, AppenderInv
    <2>3. QED
      BY <1>2, <2>1, <2>2
  <1>5. CASE Exit(w)
    <2>1. TypeOK' /\ LeaseInv'
      BY <1>1, <1>5 DEF Exit, TypeOK, LeaseInv
    <2>2. AppenderInv'
      BY <1>1, <1>5 DEF Exit, TypeOK, AppenderInv
    <2>3. QED
      BY <1>2, <2>1, <2>2
  <1>6. QED
    BY <1>3, <1>4, <1>5

LEMMA PowerLossStep ==
  ASSUME LedgerInv, PowerLoss
  PROVE  LedgerInv'
  <1> USE LedgerAssumption DEF LedgerInv
  <1>1. PICK n \in synced..Len(file) :
          /\ file' = SubSeq(file, 1, n)
          /\ tail' \in IF n < Len(file) THEN CutShort(file[n + 1])
                                        ELSE {tail} \cup CutTail
    BY DEF PowerLoss
  <1>2. /\ pc' = [w \in Writers |-> "closed"]
        /\ lease' = NoWriter
        /\ nextSeq' = [w \in Writers |-> 1]
        /\ unknown' = [w \in Writers |-> FALSE]
        /\ sealed' = [w \in Writers |-> FALSE]
        /\ UNCHANGED <<synced, acked>>
    BY DEF PowerLoss
  <1>3. n \in 0..Len(file) /\ synced \in 0..n /\ file \in Seq(Physical)
    BY <1>1 DEF TypeOK
  <1>4. /\ file' \in Seq(Physical)
        /\ Len(file') = n
        /\ \A i \in 1..n : file'[i] = file[i]
        /\ FileOK(file')
    BY <1>1, <1>3, CutKeepsFile
  <1>5. tail' \in Tail_ /\ TailInv'
    <2>1. CASE n < Len(file)
      <3> DEFINE l == file[n + 1]
      <3>1. l \in Physical /\ tail' \in CutShort(l)
        BY <1>1, <1>3, <2>1
      <3>2. l.seq < MaxSeq
        BY <1>3, <2>1 DEF FileOK
      <3>3. Parses(l) => \A i \in 1..n : file[i].seq < l.seq
        <4>1. \A i \in 1..n : file[i].seq \in -1..MaxSeq
          BY <1>3, PhysicalFacts
        <4>2. l.seq \in -1..MaxSeq
          BY <3>1, PhysicalFacts
        <4>3. ASSUME Parses(l), NEW i \in 1..n, Parses(file[i])
              PROVE  file[i].seq < l.seq
          BY <1>3, <2>1, <4>3 DEF FileOK
        <4>4. QED
          BY <4>1, <4>2, <4>3 DEF Parses
      <3> HIDE DEF l
      <3>4. tail' \in Tail_ /\ tail'.line \in {l, Garbage, Broken}
        BY <3>1, TailFacts
      <3>5. QED
        BY <1>4, <3>2, <3>3, <3>4 DEF TailInv, Garbage, Broken, Parses
    <2>2. CASE n = Len(file)
      <3>1. tail' \in {tail} \cup CutTail
        BY <1>1, <2>2
      <3>2. tail.line \in Physical
        BY TailFacts DEF TypeOK
      <3>3. tail' \in Tail_ /\ tail'.line \in {tail.line, Garbage, Broken}
        BY <3>1, <3>2, TailFacts DEF TypeOK
      <3>4. QED
        BY <1>4, <2>2, <3>3 DEF TailInv, Garbage, Broken, Parses
    <2>3. QED
      BY <2>1, <2>2, <1>3
  <1>6. TypeOK'
    BY <1>2, <1>3, <1>4, <1>5 DEF TypeOK
  <1>7. LeaseInv' /\ AppenderInv'
    BY <1>2 DEF LeaseInv, AppenderInv
  <1>8. AckedIsDurable'
    BY <1>2, <1>3, <1>4, AckedKept
  <1>9. QED
    BY <1>4, <1>5, <1>6, <1>7, <1>8

LEMMA StutterStep == LedgerInv /\ UNCHANGED vars => LedgerInv'
  BY DEF LedgerInv, TypeOK, LeaseInv, AppenderInv, TailInv, AckedIsDurable,
         FileOK, vars

LEMMA NextInv == LedgerInv /\ [Next]_vars => LedgerInv'
  BY RepairStep, ReplayStep, WriteStep, WriteFailsStep, SyncStep, StopStep,
     PowerLossStep, StutterStep DEF Next

-----------------------------------------------------------------------------
(* The theorems                                                            *)

\* Every reachable state of the ledger satisfies the inductive invariant.
THEOREM Invariance == Spec => []LedgerInv
  BY InitInv, NextInv, PTL DEF Spec

\* The values LedgerWriter keeps stay in their ranges; in particular next_seq
\* never passes the largest sequence number.
THEOREM TypeCorrect == Spec => []TypeOK
  <1>1. LedgerInv => TypeOK
    BY DEF LedgerInv
  <1>2. QED
    BY <1>1, Invariance, PTL

\* An append that returned Ok is never lost, whatever fails, is killed or
\* loses power afterwards, and whoever opens the ledger next.
THEOREM AcknowledgedIsDurable == Spec => []AckedIsDurable
  <1>1. LedgerInv => AckedIsDurable
    BY DEF LedgerInv
  <1>2. QED
    BY <1>1, Invariance, PTL

\* Two lines of the ledger never carry the same sequence number.
THEOREM SequencesAreUnique == Spec => []SequenceNamesOneLine
  <1>1. LedgerInv => SequenceNamesOneLine
    BY DEF LedgerInv, FileOK, SequenceNamesOneLine
  <1>2. QED
    BY <1>1, Invariance, PTL

\* A strict replay never refuses a file that only LedgerWriter wrote, and a
\* lenient one only for a line that a tear through a character left behind.
THEOREM OwnFileAlwaysReplays == Spec => []OwnFileReplays
  <1>1. LedgerInv => OwnFileReplays
    <2> SUFFICES ASSUME LedgerInv, Strict \/ IsText(file) PROVE ReplayOK(file)
      BY DEF OwnFileReplays
    <2>1. SeqAfter(file) <= MaxSeq
      BY SeqAfterIsAbove DEF LedgerInv, TypeOK
    <2>2. Strict => StrictReplayOK(file)
      BY DEF LedgerInv, FileOK, StrictReplayOK
    <2>3. Strict => IsText(file)
      BY PhysicalFacts DEF LedgerInv, FileOK, IsText
    <2>4. QED
      BY <2>1, <2>2, <2>3 DEF ReplayOK
  <1>2. QED
    BY <1>1, Invariance, PTL

\* At most one process is past the checks of append.
THEOREM SingleAppender == Spec => []OneAppender
  <1>1. LedgerInv => OneAppender
    BY LedgerAssumption DEF LedgerInv, LeaseInv, OneAppender, MayAppend
  <1>2. QED
    BY <1>1, Invariance, PTL

\* No step rewrites, moves or removes a durable line.
THEOREM DurableLinesStay == Spec => DurableLinesImmutable
  <1> DEFINE Kept == /\ synced' >= synced
                     /\ Len(file') >= synced
                     /\ \A i \in 1..synced : file'[i] = file[i]
  <1>1. ASSUME LedgerInv, Next PROVE Kept
    <2> USE LedgerAssumption
    <2>0. synced \in 0..Len(file) /\ file \in Seq(Physical)
      BY <1>1 DEF LedgerInv, TypeOK
    <2>1. ASSUME NEW w \in Writers, OpenRepair(w) \/ OpenRepairFails(w)
          PROVE  Kept
      <3>1. tail.line \in Physical
        BY <1>1, TailFacts DEF LedgerInv, TypeOK
      <3>2. /\ Len(RepairedFile) >= Len(file)
            /\ \A i \in 1..Len(file) : RepairedFile[i] = file[i]
        BY <2>0, <3>1 DEF RepairedFile
      <3>3. \/ file' = file /\ synced' = synced
            \/ file' = RepairedFile /\ synced' \in {synced, Len(RepairedFile)}
        BY <2>1 DEF OpenRepair, OpenRepairFails, disk
      <3>4. QED
        BY <2>0, <3>2, <3>3
    <2>2. ASSUME NEW w \in Writers, NEW p \in Payloads, AppendWrite(w, p)
          PROVE  Kept
      <3>1. LineFor(w, p) \in Physical
        BY <1>1, PhysicalFacts DEF LineFor, Line, LedgerInv, TypeOK
      <3>2. file' = Append(file, LineFor(w, p)) /\ synced' = synced
        BY <2>2 DEF AppendWrite
      <3>3. QED
        BY <2>0, <3>1, <3>2
    <2>3. ASSUME NEW w \in Writers, NEW p \in Payloads, AppendWriteFails(w, p)
          PROVE  Kept
      BY <2>0, <2>3 DEF AppendWriteFails
    <2>4. ASSUME NEW w \in Writers,
                 \/ OpenReplay(w) \/ AppendSync(w) \/ AppendSyncFails(w)
                 \/ Seal(w) \/ Exit(w)
          PROVE  Kept
      BY <2>0, <2>4 DEF OpenReplay, AppendSync, AppendSyncFails, Seal, Exit, disk
    <2>5. CASE PowerLoss
      <3>1. PICK n \in synced..Len(file) : file' = SubSeq(file, 1, n)
        BY <2>5 DEF PowerLoss
      <3>2. synced' = synced
        BY <2>5 DEF PowerLoss
      <3>3. QED
        BY <2>0, <3>1, <3>2, CutKeepsFile, <1>1 DEF LedgerInv
    <2>6. QED
      BY <1>1, <2>1, <2>2, <2>3, <2>4, <2>5 DEF Next
  <1>2. LedgerInv /\ [Next]_vars => [Kept]_vars
    BY <1>1
  <1>3. QED
    BY <1>2, Invariance, PTL DEF Spec, DurableLinesImmutable
=============================================================================
