--------------------------- MODULE MessageJournal ---------------------------
(***************************************************************************)
(* Accepting messages over the ledger (cyclopsd mailbox/store.rs).         *)
(*                                                                         *)
(* Each process keeps a projection, the lines it replayed at open plus the *)
(* ones it has appended since.  A request carries the client key that its  *)
(* retries repeat; the projection tells a retry from a new message.  The   *)
(* ledger below is the strict one, with all its faults.                    *)
(***************************************************************************)
EXTENDS Integers, Sequences

CONSTANTS
  Writers, Keys, Bodies, MaxSeq, MaxLines, NoWriter, NoPayload

VARIABLES
  file, tail, synced, lease, pc, nextSeq, unknown, sealed, acked,
  projection,    \* per process: the lines of its MailboxProjection
  answers,       \* history: the positive answers to a key, with the line each names
  powerLost      \* history: the machine lost its page cache

\* The content of a request; the digest of a draft is its body.
Request == [key : Keys, body : Bodies]

ASSUME JournalAssumption ==
  /\ MaxSeq \in Nat \ {0}
  /\ MaxLines \in Nat
  /\ NoWriter \notin Writers
  /\ NoPayload \notin Request

L == INSTANCE Ledger WITH Payloads <- Request, Strict <- TRUE

ledger == <<file, tail, synced, lease, pc, nextSeq, unknown, sealed, acked>>
vars == <<ledger, projection, answers, powerLost>>
history == <<answers, powerLost>>

TypeOK ==
  /\ L!TypeOK
  /\ \A w \in Writers : projection[w] \in Seq(L!Line)
  /\ answers \subseteq [key : Keys, line : L!Line]
  /\ powerLost \in BOOLEAN

Init ==
  /\ L!Init
  /\ projection = [w \in Writers |-> <<>>]
  /\ answers = {}
  /\ powerLost = FALSE

-----------------------------------------------------------------------------

\* MessageStore::open: the projection is rebuilt from the replayed lines.
Open(w) ==
  /\ L!OpenReplay(w)
  /\ projection' = [projection EXCEPT ![w] = IF pc'[w] = "ready" THEN file ELSE <<>>]
  /\ UNCHANGED history

\* Mutant: the retry of a key is not looked up.
IndexedNone(w, key) == {}

\* The lines the idempotency index of process w holds for a key.
Indexed(w, key) ==
  {i \in 1..Len(projection[w]) : projection[w][i].payload.key = key}

Answer(key, line) ==
  answers' = answers \cup {[key |-> key, line |-> line]}

\* Mutant: the answer names the newest line.
AnswerRetryNewest(w, r) ==
  /\ pc[w] = "ready"
  /\ \E i \in Indexed(w, r.key) : projection[w][i].payload = r
  /\ Answer(r.key, projection[w][Len(projection[w])])
  /\ UNCHANGED <<ledger, projection, powerLost>>

\* check_acceptance found the key with the same digest: answered from the
\* projection, whatever the state of the writer.
AnswerRetry(w, r) ==
  /\ pc[w] = "ready"
  /\ \E i \in Indexed(w, r.key) :
       /\ projection[w][i].payload = r
       /\ Answer(r.key, projection[w][i])
  /\ UNCHANGED <<ledger, projection, powerLost>>

\* check_acceptance found nothing: accept_canonical_at appends a line.  A key
\* it found with another digest is refused and changes nothing.
Accept(w, r) ==
  /\ Indexed(w, r.key) = {}
  /\ L!AppendWrite(w, r) \/ L!AppendWriteFails(w, r)
  /\ UNCHANGED <<projection, history>>

\* Mutant: the line is not added to the projection after the append.
AcceptedUncommitted(w) ==
  /\ L!AppendSync(w)
  /\ Answer(file[Len(file)].payload.key, file[Len(file)])
  /\ UNCHANGED <<projection, powerLost>>

\* The append returned: commit_line, then the answer.
Accepted(w) ==
  /\ L!AppendSync(w)
  /\ projection' = [projection EXCEPT ![w] = Append(@, file[Len(file)])]
  /\ Answer(file[Len(file)].payload.key, file[Len(file)])
  /\ UNCHANGED powerLost

\* The append failed, and the request with it.
AcceptFailed(w) ==
  /\ L!AppendSyncFails(w)
  /\ UNCHANGED <<projection, history>>

\* Steps of the ledger alone.
Repair(w) ==
  /\ L!OpenRepair(w) \/ L!OpenRepairFails(w)
  /\ UNCHANGED <<projection, history>>

Seal(w) ==
  /\ L!Seal(w)
  /\ UNCHANGED <<projection, history>>

Exit(w) ==
  /\ L!Exit(w)
  /\ projection' = [projection EXCEPT ![w] = <<>>]
  /\ UNCHANGED history

PowerLoss ==
  /\ L!PowerLoss
  /\ projection' = [w \in Writers |-> <<>>]
  /\ powerLost' = TRUE
  /\ UNCHANGED answers

Next ==
  \/ \E w \in Writers :
       \/ Repair(w) \/ Open(w) \/ Accepted(w) \/ AcceptFailed(w)
       \/ Seal(w) \/ Exit(w)
  \/ \E w \in Writers, r \in Request : AnswerRetry(w, r) \/ Accept(w, r)
  \/ PowerLoss

Spec == Init /\ [][Next]_vars

-----------------------------------------------------------------------------
(* Properties                                                              *)

\* A key names one message (check_acceptance): retries of a request, across
\* failed appends, restarts and power loss, never put a second line with its
\* key in the journal, so every recipient gets the message once.
OneLinePerKey ==
  \A i, j \in 1..Len(file) :
    file[i].payload.key = file[j].payload.key => i = j

\* The projection a process answers from is the journal (commit_line follows
\* append): while it may still append and is not inside one, the two agree.
ProjectionIsJournal ==
  \A w \in Writers :
    (pc[w] = "ready" /\ ~unknown[w] /\ ~sealed[w]) => projection[w] = file

\* The answers to a request and to its retries name one line
\* (accept_canonical_at returns the sequence of the existing message): true
\* as long as the page cache survives the processes.
AnswersAgree ==
  ~powerLost => \A a, b \in answers :
    a.key = b.key => a.line = b.line

\* "appends the message [...] to the workspace journal and fsyncs before
\* answering.  The response proves durable acceptance" (DELIVERY.md).
AnswersAreDurable ==
  \A a \in answers : \E i \in 1..synced : file[i] = a.line

\* A replay never refuses a journal the daemon itself wrote (MessageStore::open
\* fails otherwise).
OwnFileReplays == L!ReplayOK(file)
=============================================================================
