------------------------ MODULE MessageJournalProofs ------------------------
(***************************************************************************)
(* Proofs about the message journal, for any processes, keys, bodies, file *)
(* length and largest sequence number.                                     *)
(*                                                                         *)
(* The journal is the strict ledger, and each of its steps is a step of    *)
(* that ledger or leaves it alone: what LedgerProofs proves of the ledger  *)
(* is used here for the journal's.                                         *)
(***************************************************************************)
EXTENDS MessageJournal, TLAPS

LP == INSTANCE LedgerProofs WITH Payloads <- Request, Strict <- TRUE

JournalType ==
  /\ projection \in [Writers -> Seq(LP!Physical)]
  /\ answers \subseteq [key : Keys, line : LP!Line]
  /\ powerLost \in BOOLEAN

\* A projection never runs ahead of the journal or away from it: it is a
\* prefix of the file, even in a process that has sealed or lost its writer.
ProjectionIsPrefix ==
  \A w \in Writers :
    /\ Len(projection[w]) <= Len(file)
    /\ \A i \in 1..Len(projection[w]) : projection[w][i] = file[i]

\* The process that appends knows all of the journal except the line it is
\* appending.
AppenderIsCurrent ==
  \A w \in Writers :
    /\ (pc[w] = "ready" /\ ~unknown[w] /\ ~sealed[w])
         => Len(projection[w]) = Len(file)
    /\ pc[w] = "written" => Len(projection[w]) = Len(file) - 1

\* While the page cache survives, the line an answer named is in the journal.
AnswersInFile ==
  ~powerLost => \A a \in answers :
    /\ a.key = a.line.payload.key
    /\ \E i \in 1..Len(file) : file[i] = a.line

\* The inductive invariant.
JournalInv ==
  /\ LP!LedgerInv
  /\ JournalType
  /\ ProjectionIsPrefix
  /\ AppenderIsCurrent
  /\ OneLinePerKey
  /\ AnswersInFile

-----------------------------------------------------------------------------
(* The ledger under the journal                                            *)

\* Every step of the journal is a step of the strict ledger, or leaves the
\* ledger unchanged (a retry is answered from the projection).
LEMMA StepOfLedger == [Next]_vars => [LP!Next]_LP!vars
  <1> SUFFICES ASSUME [Next]_vars PROVE [LP!Next]_LP!vars
    OBVIOUS
  <1>1. ASSUME NEW w \in Writers, Repair(w) PROVE LP!Next
    <2>1. LP!OpenRepair(w) \/ LP!OpenRepairFails(w)
      BY <1>1 DEF Repair, L!OpenRepair, L!OpenRepairFails, L!RepairedFile,
           L!NoTail, L!Garbage, L!disk, LP!OpenRepair, LP!OpenRepairFails,
           LP!RepairedFile, LP!NoTail, LP!Garbage, LP!disk
    <2>2. QED
      BY <2>1 DEF LP!Next
  <1>2. ASSUME NEW w \in Writers, Open(w) PROVE LP!Next
    <2>1. LP!OpenReplay(w)
      BY <1>2 DEF Open, L!OpenReplay, L!ReplayOK, L!IsText, L!Broken, L!StrictReplayOK, L!SeqAfter,
           L!LastReplayed, L!Parses, L!disk, LP!OpenReplay, LP!ReplayOK, LP!IsText, LP!Broken,
           LP!StrictReplayOK, LP!SeqAfter, LP!LastReplayed, LP!Parses, LP!disk
    <2>2. QED
      BY <2>1 DEF LP!Next
  <1>3. ASSUME NEW w \in Writers, Accepted(w) \/ AcceptFailed(w) PROVE LP!Next
    <2>1. LP!AppendSync(w) \/ LP!AppendSyncFails(w)
      BY <1>3 DEF Accepted, AcceptFailed, L!AppendSync, L!AppendSyncFails,
           L!disk, LP!AppendSync, LP!AppendSyncFails, LP!disk
    <2>2. QED
      BY <2>1 DEF LP!Next
  <1>4. ASSUME NEW w \in Writers, Seal(w) \/ Exit(w) PROVE LP!Next
    <2>1. LP!Seal(w) \/ LP!Exit(w)
      BY <1>4 DEF Seal, Exit, L!Seal, L!Exit, L!disk, LP!Seal, LP!Exit, LP!disk
    <2>2. QED
      BY <2>1 DEF LP!Next
  <1>5. ASSUME NEW w \in Writers, NEW r \in Request, AnswerRetry(w, r)
        PROVE  UNCHANGED LP!vars
    BY <1>5 DEF AnswerRetry, ledger, LP!vars
  <1>6. ASSUME NEW w \in Writers, NEW r \in Request, Accept(w, r) PROVE LP!Next
    <2>1. LP!AppendWrite(w, r) \/ LP!AppendWriteFails(w, r)
      BY <1>6 DEF Accept, L!AppendWrite, L!AppendWriteFails, L!MayAppend,
           L!LineFor, L!CutShort, L!NoTail, L!Fragments, L!Broken, L!Whole, L!Garbage,
           LP!AppendWrite, LP!AppendWriteFails, LP!MayAppend, LP!LineFor,
           LP!CutShort, LP!NoTail, LP!Fragments, LP!Broken, LP!Whole, LP!Garbage
    <2>2. QED
      BY <2>1 DEF LP!Next
  <1>7. ASSUME PowerLoss PROVE LP!Next
    <2>1. LP!PowerLoss
      BY <1>7 DEF PowerLoss, L!PowerLoss, L!CutTail, L!CutShort, L!NoTail,
           L!Fragments, L!Broken, L!Whole, L!Garbage, LP!PowerLoss, LP!CutTail,
           LP!CutShort, LP!NoTail, LP!Fragments, LP!Broken, LP!Whole, LP!Garbage
    <2>2. QED
      BY <2>1 DEF LP!Next
  <1>8. CASE UNCHANGED vars
    BY <1>8 DEF vars, ledger, LP!vars
  <1>9. QED
    BY <1>1, <1>2, <1>3, <1>4, <1>5, <1>6, <1>7, <1>8 DEF Next

\* The ledger's invariant is kept by every step of the journal.
LEMMA LedgerKept == LP!LedgerInv /\ [Next]_vars => LP!LedgerInv'
  BY StepOfLedger, LP!NextInv, JournalAssumption

\* What the ledger's invariant says of the strict ledger.
LEMMA LedgerFacts ==
  ASSUME LP!LedgerInv
  PROVE  /\ file \in Seq(LP!Physical)
         /\ Len(file) \in Nat
         /\ pc \in [Writers -> {"closed", "repaired", "ready", "written"}]
         /\ unknown \in [Writers -> BOOLEAN]
         /\ sealed \in [Writers -> BOOLEAN]
         /\ \A i \in 1..Len(file) : file[i] \in LP!Line
         /\ \A v, w \in Writers :
              /\ pc[v] = "written" \/ (pc[v] = "ready" /\ ~sealed[v])
              /\ pc[w] = "written" \/ (pc[w] = "ready" /\ ~sealed[w])
              => v = w
         /\ \A w \in Writers : pc[w] = "repaired" =>
              \A v \in Writers \ {w} :
                ~(pc[v] = "written" \/ (pc[v] = "ready" /\ ~sealed[v]))
         /\ \A w \in Writers : pc[w] = "written" => Len(file) > 0
  <1>1. LP!TypeOK
    BY DEF LP!LedgerInv
  <1>2. \A i \in 1..Len(file) : file[i] \in LP!Line
    <2> SUFFICES ASSUME NEW i \in 1..Len(file) PROVE file[i] \in LP!Line
      OBVIOUS
    <2>1. file[i] \in LP!Physical
      BY <1>1 DEF LP!TypeOK
    <2>2. file[i].seq = i
      BY DEF LP!LedgerInv, LP!FileOK
    <2>3. QED
      BY <2>1, <2>2 DEF LP!Physical, LP!Garbage, LP!Broken
  <1>3. QED
    BY <1>1, <1>2 DEF LP!LedgerInv, LP!TypeOK, LP!LeaseInv, LP!AppenderInv

-----------------------------------------------------------------------------
(* The steps                                                               *)

LEMMA InitInv == Init => JournalInv
  <1> SUFFICES ASSUME Init PROVE JournalInv
    OBVIOUS
  <1>1. LP!Init
    BY DEF Init, L!Init, L!NoTail, L!Garbage, LP!Init, LP!NoTail, LP!Garbage
  <1>2. LP!LedgerInv
    BY <1>1, LP!InitInv, JournalAssumption
  <1>3. file = <<>> /\ pc = [w \in Writers |-> "closed"]
    BY <1>1 DEF LP!Init
  <1>4. projection = [w \in Writers |-> <<>>] /\ answers = {} /\ powerLost = FALSE
    BY DEF Init
  <1>5. JournalType
    <2>1. \A S : <<>> \in Seq(S)
      OBVIOUS
    <2>2. projection \in [Writers -> Seq(LP!Physical)]
      BY <1>4, <2>1, Zenon
    <2>3. QED
      BY <1>4, <2>2 DEF JournalType
  <1>6. ProjectionIsPrefix /\ AppenderIsCurrent
    BY <1>3, <1>4 DEF ProjectionIsPrefix, AppenderIsCurrent
  <1>7. OneLinePerKey /\ AnswersInFile
    BY <1>3, <1>4 DEF OneLinePerKey, AnswersInFile
  <1>8. QED
    BY <1>2, <1>5, <1>6, <1>7 DEF JournalInv

\* Steps that leave the file, and the processes' knowledge of it, alone.
LEMMA QuietStep ==
  ASSUME JournalInv, NEW w \in Writers,
         Repair(w) \/ AcceptFailed(w) \/ Seal(w) \/ Exit(w) \/ Open(w)
  PROVE  JournalInv'
  <1> USE DEF JournalInv
  <1>1. LP!LedgerInv'
    BY LedgerKept DEF Next
  <1>2. file' = file /\ UNCHANGED history
    BY DEF Repair, AcceptFailed, Seal, Exit, Open, L!OpenRepair,
       L!OpenRepairFails, L!RepairedFile, L!AppendSyncFails, L!Seal, L!Exit,
       L!OpenReplay, L!disk
  <1>3. OneLinePerKey' /\ AnswersInFile'
    BY <1>2 DEF OneLinePerKey, AnswersInFile, history
  <1>4. JournalType' /\ ProjectionIsPrefix' /\ AppenderIsCurrent'
    <2> USE LedgerFacts DEF JournalType, ProjectionIsPrefix, AppenderIsCurrent,
          history
    <2>1. CASE Repair(w)
      BY <2>1, <1>2 DEF Repair, L!OpenRepair, L!OpenRepairFails
    <2>2. CASE AcceptFailed(w)
      BY <2>2, <1>2 DEF AcceptFailed, L!AppendSyncFails
    <2>3. CASE Seal(w)
      BY <2>3, <1>2 DEF Seal, L!Seal
    <2>4. CASE Exit(w)
      BY <2>4, <1>2 DEF Exit, L!Exit
    <2>5. CASE Open(w)
      BY <2>5, <1>2 DEF Open, L!OpenReplay
    <2>6. QED
      BY <2>1, <2>2, <2>3, <2>4, <2>5
  <1>5. QED
    BY <1>1, <1>3, <1>4

\* A retry is answered with the line of its key.
LEMMA RetryStep ==
  ASSUME JournalInv, NEW w \in Writers, NEW r \in Request, AnswerRetry(w, r)
  PROVE  JournalInv'
  <1> USE DEF JournalInv
  <1>1. LP!LedgerInv'
    BY LedgerKept DEF Next
  <1>2. PICK i \in Indexed(w, r.key) :
          /\ projection[w][i].payload = r
          /\ answers' = answers \cup {[key |-> r.key, line |-> projection[w][i]]}
    BY DEF AnswerRetry, Answer
  <1>3. file' = file /\ UNCHANGED <<pc, unknown, sealed, projection, powerLost>>
    BY DEF AnswerRetry, ledger
  <1>4. i \in 1..Len(file) /\ projection[w][i] = file[i] /\ file[i] \in LP!Line
    BY <1>2, LedgerFacts DEF Indexed, ProjectionIsPrefix, JournalType
  <1>5. JournalType'
    BY <1>2, <1>3, <1>4 DEF JournalType, Request
  <1>6. AnswersInFile'
    BY <1>2, <1>3, <1>4 DEF AnswersInFile, JournalType
  <1>7. ProjectionIsPrefix' /\ AppenderIsCurrent' /\ OneLinePerKey'
    BY <1>3 DEF ProjectionIsPrefix, AppenderIsCurrent, OneLinePerKey
  <1>8. QED
    BY <1>1, <1>5, <1>6, <1>7

\* A new message is appended by the one process that knows the whole journal,
\* so its key is new to the file.
LEMMA AcceptStep ==
  ASSUME JournalInv, NEW w \in Writers, NEW r \in Request, Accept(w, r)
  PROVE  JournalInv'
  <1> USE DEF JournalInv
  <1>1. LP!LedgerInv'
    BY LedgerKept DEF Next
  <1>2. /\ pc[w] = "ready" /\ ~sealed[w] /\ ~unknown[w]
        /\ Indexed(w, r.key) = {}
        /\ UNCHANGED <<projection, answers, powerLost, sealed>>
    BY DEF Accept, L!AppendWrite, L!AppendWriteFails, L!MayAppend, history
  <1>3. JournalType'
    BY <1>2 DEF JournalType
  <1>4. CASE L!AppendWriteFails(w, r)
    <2>1. file' = file /\ pc' = pc /\ unknown' = [unknown EXCEPT ![w] = TRUE]
      BY <1>4 DEF L!AppendWriteFails
    <2>2. AppenderIsCurrent'
      BY <1>2, <2>1, LedgerFacts DEF AppenderIsCurrent
    <2>3. ProjectionIsPrefix' /\ OneLinePerKey' /\ AnswersInFile'
      BY <1>2, <2>1 DEF ProjectionIsPrefix, OneLinePerKey, AnswersInFile
    <2>4. QED
      BY <1>1, <1>3, <2>2, <2>3
  <1>5. CASE L!AppendWrite(w, r)
    <2> DEFINE l == L!LineFor(w, r)
    <2>1. /\ file' = Append(file, l)
          /\ pc' = [pc EXCEPT ![w] = "written"] /\ unknown' = unknown
      BY <1>5 DEF L!AppendWrite
    <2>2. l.payload = r
      BY DEF L!LineFor
    <2> HIDE DEF l
    <2>3. /\ Len(file') = Len(file) + 1
          /\ file'[Len(file) + 1] = l
          /\ \A i \in 1..Len(file) : file'[i] = file[i]
      BY <2>1, LedgerFacts
    <2>4. projection[w] \in Seq(LP!Physical) /\ Len(projection[w]) = Len(file)
      BY <1>2 DEF AppenderIsCurrent, JournalType
    <2>5. \A i \in 1..Len(file) : file[i].payload.key # r.key
      BY <1>2, <2>4, LedgerFacts DEF Indexed, ProjectionIsPrefix
    <2>6. OneLinePerKey'
      BY <2>2, <2>3, <2>5, LedgerFacts DEF OneLinePerKey
    <2>7. ProjectionIsPrefix'
      <3>1. \A v \in Writers : Len(projection[v]) \in Nat
        BY DEF JournalType
      <3>2. QED
        BY <1>2, <2>3, <3>1, LedgerFacts DEF ProjectionIsPrefix
    <2>8. AppenderIsCurrent'
      BY <1>2, <2>1, <2>3, <2>4, LedgerFacts DEF AppenderIsCurrent
    <2>9. AnswersInFile'
      <3> SUFFICES ASSUME ~powerLost, NEW a \in answers
                   PROVE  /\ a.key = a.line.payload.key
                          /\ \E i \in 1..Len(file') : file'[i] = a.line
        BY <1>2 DEF AnswersInFile
      <3>1. PICK i \in 1..Len(file) : file[i] = a.line
        BY DEF AnswersInFile
      <3>2. i \in 1..Len(file') /\ file'[i] = a.line
        BY <3>1, <2>3, LedgerFacts
      <3>3. QED
        BY <3>2 DEF AnswersInFile
    <2>10. QED
      BY <1>1, <1>3, <2>6, <2>7, <2>8, <2>9
  <1>6. QED
    BY <1>4, <1>5 DEF Accept

\* The fsync returned: the projection catches up with the file.
LEMMA AcceptedStep ==
  ASSUME JournalInv, NEW w \in Writers, Accepted(w)
  PROVE  JournalInv'
  <1> USE DEF JournalInv
  <1> DEFINE l == file[Len(file)]
  <1>1. LP!LedgerInv'
    BY LedgerKept DEF Next
  <1>2. /\ pc[w] = "written"
        /\ pc' = [pc EXCEPT ![w] = "ready"]
        /\ projection' = [projection EXCEPT ![w] = Append(projection[w], l)]
        /\ answers' = answers \cup {[key |-> l.payload.key, line |-> l]}
        /\ UNCHANGED <<file, unknown, sealed, powerLost>>
    BY DEF Accepted, L!AppendSync, Answer
  <1>3. Len(file) > 0 /\ l \in LP!Line /\ Len(file) \in Nat
    BY <1>2, LedgerFacts
  <1>4. Len(projection[w]) = Len(file) - 1 /\ projection[w] \in Seq(LP!Physical)
    BY <1>2 DEF AppenderIsCurrent, JournalType
  <1>5. /\ projection'[w] \in Seq(LP!Physical)
        /\ Len(projection'[w]) = Len(file)
        /\ \A i \in 1..Len(file) : projection'[w][i] = file[i]
    <2>1. projection'[w] = Append(projection[w], l) /\ l \in LP!Physical
      BY <1>2, <1>3 DEF JournalType, LP!Physical
    <2> HIDE DEF l
    <2>2. /\ projection'[w] \in Seq(LP!Physical)
          /\ Len(projection'[w]) = Len(file)
          /\ projection'[w][Len(file)] = l
          /\ \A i \in 1..(Len(file) - 1) : projection'[w][i] = projection[w][i]
      BY <2>1, <1>3, <1>4
    <2>3. QED
      BY <2>2, <1>3, <1>4 DEF ProjectionIsPrefix, l
  <1>6. \A v \in Writers \ {w} : projection'[v] = projection[v]
    BY <1>2 DEF JournalType
  <1>7. JournalType'
    <2>1. l.payload.key \in Keys
      BY <1>3 DEF LP!Line, Request
    <2>2. answers' \subseteq [key : Keys, line : LP!Line]
      BY <1>2, <1>3, <2>1 DEF JournalType
    <2>3. QED
      BY <1>2, <1>5, <1>6, <2>2 DEF JournalType
  <1>8. ProjectionIsPrefix'
    BY <1>2, <1>3, <1>5, <1>6 DEF ProjectionIsPrefix
  <1>9. AppenderIsCurrent'
    BY <1>2, <1>5, <1>6, LedgerFacts DEF AppenderIsCurrent
  <1>10. OneLinePerKey' /\ AnswersInFile'
    BY <1>2, <1>3 DEF OneLinePerKey, AnswersInFile
  <1>11. QED
    BY <1>1, <1>7, <1>8, <1>9, <1>10

\* Power loss empties the projections and cuts the file: what is left still
\* holds each key once.
LEMMA PowerLossStep ==
  ASSUME JournalInv, PowerLoss
  PROVE  JournalInv'
  <1> USE DEF JournalInv
  <1>1. LP!LedgerInv'
    BY LedgerKept DEF Next
  <1>2. PICK n \in synced..Len(file) : file' = SubSeq(file, 1, n)
    BY DEF PowerLoss, L!PowerLoss
  <1>3. /\ pc' = [w \in Writers |-> "closed"]
        /\ projection' = [w \in Writers |-> <<>>]
        /\ powerLost' = TRUE /\ answers' = answers
    BY DEF PowerLoss, L!PowerLoss
  <1>4. n \in 0..Len(file)
    BY <1>2 DEF LP!LedgerInv, LP!TypeOK
  <1>5. Len(file') = n /\ \A i \in 1..n : file'[i] = file[i]
    BY <1>2, <1>4, LedgerFacts
  <1>6. OneLinePerKey'
    BY <1>4, <1>5, LedgerFacts DEF OneLinePerKey
  <1>7. JournalType'
    <2>1. \A S : <<>> \in Seq(S)
      OBVIOUS
    <2>2. projection' \in [Writers -> Seq(LP!Physical)]
      BY <1>3, <2>1, Zenon
    <2>3. QED
      BY <1>3, <2>2 DEF JournalType
  <1>8. ProjectionIsPrefix' /\ AppenderIsCurrent' /\ AnswersInFile'
    BY <1>3, <1>4, <1>5, LedgerFacts
       DEF ProjectionIsPrefix, AppenderIsCurrent, AnswersInFile
  <1>9. QED
    BY <1>1, <1>6, <1>7, <1>8

LEMMA NextInv == JournalInv /\ [Next]_vars => JournalInv'
  <1> SUFFICES ASSUME JournalInv, [Next]_vars PROVE JournalInv'
    OBVIOUS
  <1>1. CASE UNCHANGED vars
    <2>1. LP!LedgerInv'
      BY LedgerKept DEF JournalInv
    <2>2. QED
      BY <1>1, <2>1 DEF vars, ledger, JournalInv, JournalType,
           ProjectionIsPrefix, AppenderIsCurrent, OneLinePerKey, AnswersInFile
  <1>2. QED
    BY <1>1, QuietStep, RetryStep, AcceptStep, AcceptedStep, PowerLossStep
       DEF Next

-----------------------------------------------------------------------------
(* The theorems                                                            *)

\* Every reachable state of the journal satisfies the inductive invariant.
THEOREM Invariance == Spec => []JournalInv
  BY InitInv, NextInv, PTL DEF Spec

\* Retries of a request, across failed appends, handovers of the lease,
\* restarts and power loss, never put a second line with its key in the
\* journal (check_acceptance).
THEOREM KeyNamesOneLine == Spec => []OneLinePerKey
  <1>1. JournalInv => OneLinePerKey
    BY DEF JournalInv
  <1>2. QED
    BY <1>1, Invariance, PTL

\* The projection a process answers and appends from is the journal
\* (commit_line follows append).
THEOREM ProjectionAgrees == Spec => []ProjectionIsJournal
  <1>1. JournalInv => ProjectionIsJournal
    <2> SUFFICES ASSUME JournalInv, NEW w \in Writers,
                        pc[w] = "ready", ~unknown[w], ~sealed[w]
                 PROVE  projection[w] = file
      BY DEF ProjectionIsJournal
    <2>1. projection[w] \in Seq(LP!Physical) /\ file \in Seq(LP!Physical)
      BY LedgerFacts DEF JournalInv, JournalType
    <2>2. /\ Len(projection[w]) = Len(file)
          /\ \A i \in 1..Len(file) : projection[w][i] = file[i]
      BY DEF JournalInv, AppenderIsCurrent, ProjectionIsPrefix
    <2>3. QED
      BY <2>1, <2>2
  <1>2. QED
    BY <1>1, Invariance, PTL

\* The answers to a request and to its retries name one line, whichever
\* process gave them, until the machine loses its page cache.
THEOREM AnswersNameOneLine == Spec => []AnswersAgree
  <1>1. JournalInv => AnswersAgree
    BY DEF JournalInv, AnswersInFile, OneLinePerKey, AnswersAgree
  <1>2. QED
    BY <1>1, Invariance, PTL

\* The journal implements the strict ledger (MessageStore appends through
\* LedgerWriter): what LedgerProofs proves of the ledger holds of the journal.
THEOREM ImplementsLedger == Spec => LP!Spec
  <1>1. Init => LP!Init
    BY DEF Init, L!Init, L!NoTail, L!Garbage, LP!Init, LP!NoTail, LP!Garbage
  <1>2. QED
    BY <1>1, StepOfLedger, PTL DEF Spec, LP!Spec

\* MessageStore::open never refuses a journal that only the daemon wrote.
THEOREM JournalAlwaysReplays == Spec => []OwnFileReplays
  <1>1. LP!OwnFileReplays => OwnFileReplays
    BY DEF OwnFileReplays, L!ReplayOK, L!IsText, L!Broken, L!StrictReplayOK,
           L!SeqAfter, L!LastReplayed, L!Parses, LP!OwnFileReplays, LP!ReplayOK, LP!IsText, LP!Broken,
           LP!StrictReplayOK, LP!SeqAfter, LP!LastReplayed, LP!Parses
  <1>2. LP!Spec => []LP!OwnFileReplays
    BY LP!OwnFileAlwaysReplays, JournalAssumption
  <1>3. QED
    BY ImplementsLedger, <1>1, <1>2, PTL
=============================================================================
