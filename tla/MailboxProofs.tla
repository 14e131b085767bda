---------------------------- MODULE MailboxProofs ----------------------------
(***************************************************************************)
(* Proofs about Mailbox, for any number of recipients, messages and        *)
(* attempts.  The inductive invariant Inv joins the properties with facts  *)
(* about each record (RecordOK): which states have crossed the write       *)
(* boundary, which entries can have which notification, and which          *)
(* transport a record that was not written carries.                        *)
(***************************************************************************)
EXTENDS Mailbox, TLAPS

RecordOK(r, m) ==
  /\ note[r][m].state = "none" <=> note[r][m].attempt = 0
  /\ seq[m] = 0 => entry[r][m] = "none"
  /\ entry[r][m] = "none" => note[r][m].state = "none"
  /\ entry[r][m] = "superseded" => note[r][m].state \in {"none", "superseded"}
  /\ entry[r][m] = "claimed" => note[r][m].state \notin {"queued", "gating"}
  /\ note[r][m].state \in {"queued", "gating"} =>
       note[r][m].attempt \notin WroteAttempts /\ note[r][m].transport = "doorbell"
  /\ note[r][m].state = "blocked_pre_write" =>
       \/ note[r][m].cause = "paste_command_unwritten" /\ note[r][m].attempt \in unwrote
       \/ /\ note[r][m].cause # "paste_command_unwritten"
          /\ note[r][m].attempt \notin WroteAttempts
          /\ note[r][m].transport = "doorbell"
  /\ note[r][m].state \in {"attention_required"} \cup InFlight =>
       note[r][m].attempt \in WroteAttempts /\ note[r][m].attempt \notin unwrote
  /\ note[r][m].state \in {"withdrawn", "withdrawn_by_operator", "superseded"} =>
       (note[r][m].attempt \in WroteAttempts => note[r][m].attempt \in unwrote)

Records == \A r \in Recipients, m \in Messages : RecordOK(r, m)

\* A record in flight or in alarm was written through its own context.
OwnWriter(r, m) ==
  note[r][m].state \in {"attention_required"} \cup InFlight => Context(r, m) \in wrote

Writers == \A r \in Recipients, m \in Messages : OwnWriter(r, m)

\* No two records share an attempt id, and every id in use was issued.
AttemptNamesOneRecord ==
  \A r, s \in Recipients, m, n \in Messages :
    /\ note[r][m].attempt # 0 => note[r][m].attempt \in issued
    /\ note[r][m].attempt = note[s][n].attempt /\ note[r][m].attempt # 0 => r = s /\ m = n

History ==
  /\ WroteAttempts \subseteq issued
  /\ unwrote \subseteq WroteAttempts

Sequences ==
  /\ \A m \in Messages : seq[m] <= lastSeq
  /\ \A m, n \in Messages : seq[m] = seq[n] /\ seq[m] # 0 => m = n

Inv ==
  /\ TypeOK
  /\ AttemptNamesOneRecord
  /\ DoorbellNamesOneMessage
  /\ Records
  /\ Writers
  /\ History
  /\ Sequences
  /\ OldestFirst
  /\ OneBarrierPerRecipient

-----------------------------------------------------------------------------
(* A step that replaces one record and leaves its attempt id alone.        *)

Only(r, m, rec) ==
  /\ note' = [note EXCEPT ![r][m] = rec]
  /\ rec \in Notes
  /\ rec.attempt = note[r][m].attempt

\* What such a step does to every record.
LEMMA OnlyOne ==
  ASSUME TypeOK, NEW r \in Recipients, NEW m \in Messages, NEW rec, Only(r, m, rec)
  PROVE  /\ note' \in [Recipients -> [Messages -> Notes]]
         /\ note'[r][m] = rec
         /\ \A s \in Recipients, n \in Messages :
              /\ note'[s][n].attempt = note[s][n].attempt
              /\ s # r \/ n # m => note'[s][n] = note[s][n]
  BY DEF TypeOK, Only

\* A transition keeps attempt, transport and reopenings.
LEMMA MovedRecord ==
  ASSUME NEW rec \in Notes, NEW state \in NotificationState,
         NEW cause \in PreWriteCause \cup {"none"}
  PROVE  /\ Moved(rec, state, cause) \in Notes
         /\ Moved(rec, state, cause).state = state
         /\ Moved(rec, state, cause).cause = cause
         /\ Moved(rec, state, cause).attempt = rec.attempt
         /\ Moved(rec, state, cause).transport = rec.transport
         /\ Moved(rec, state, cause).reopen = rec.reopen
  BY Zenon DEF Moved, Notes

\* The attempts written, after a step that adds at most one context.
LEMMA WrittenAttempts ==
  /\ wrote' = wrote => WroteAttempts' = WroteAttempts
  /\ \A c : wrote' = wrote \cup {c} => WroteAttempts' = WroteAttempts \cup {c.attempt}
  BY DEF WroteAttempts

\* An owned context is the one of the current record.
LEMMA OwnedContext ==
  ASSUME NEW c \in Contexts, Owns(c)
  PROVE  /\ c.recipient \in Recipients
         /\ c.message \in Messages
         /\ c = Context(c.recipient, c.message)
  BY DEF Contexts, Owns, Record, Context

\* Attempt ids stay unique when no record changes its own.
LEMMA SameAttempts ==
  ASSUME AttemptNamesOneRecord, issued' = issued,
         \A s \in Recipients, n \in Messages : note'[s][n].attempt = note[s][n].attempt
  PROVE  AttemptNamesOneRecord'
  BY DEF AttemptNamesOneRecord

\* The written doorbells after a step that changes no record and writes
\* nothing.
LEMMA SameWriters ==
  ASSUME DoorbellNamesOneMessage, Writers, note' = note, wrote' = wrote
  PROVE  DoorbellNamesOneMessage' /\ Writers'
  <1>1. DoorbellNamesOneMessage'
    BY DEF DoorbellNamesOneMessage
  <1>2. ASSUME NEW r \in Recipients, NEW m \in Messages PROVE OwnWriter(r, m)'
    <2>1. OwnWriter(r, m)
      BY DEF Writers
    <2> QED  BY <2>1, Zenon DEF OwnWriter, Context
  <1> QED  BY <1>1, <1>2 DEF Writers

\* The queue order survives a step that accepts nothing, starts no attempt
\* and puts no entry back into the queue.
LEMMA SameQueue ==
  ASSUME OldestFirst, seq' = seq,
         \A s \in Recipients, n \in Messages :
           /\ note'[s][n].attempt # 0 => note[s][n].attempt # 0
           /\ HoldsQueue(s, n)' => HoldsQueue(s, n)
  PROVE  OldestFirst'
  BY DEF OldestFirst

\* The other records keep RecordOK when the step adds at most their
\* neighbour's attempt to the histories.
LEMMA OtherRecords ==
  ASSUME Inv, NEW r \in Recipients, NEW m \in Messages, NEW rec, Only(r, m, rec),
         seq' = seq,
         \A s \in Recipients, n \in Messages : s # r \/ n # m => entry'[s][n] = entry[s][n],
         wrote' = wrote \/ wrote' = wrote \cup {Context(r, m)},
         unwrote' = unwrote \/ unwrote' = unwrote \cup {note[r][m].attempt},
         note[r][m].attempt # 0,
         RecordOK(r, m)'
  PROVE  Records'
  <1> SUFFICES ASSUME NEW s \in Recipients, NEW n \in Messages, s # r \/ n # m
               PROVE  RecordOK(s, n)'
    BY DEF Records
  <1>1. note'[s][n] = note[s][n] /\ entry'[s][n] = entry[s][n] /\ seq'[n] = seq[n]
    BY OnlyOne DEF Inv
  <1>2. note[s][n].attempt # note[r][m].attempt
    BY DEF Inv, AttemptNamesOneRecord
  <1>a. \/ WroteAttempts' = WroteAttempts
        \/ WroteAttempts' = WroteAttempts \cup {note[r][m].attempt}
    <2>1. Context(r, m).attempt = note[r][m].attempt
      BY DEF Context
    <2> QED  BY <2>1, WrittenAttempts, Zenon
  <1>3. /\ note[s][n].attempt \in WroteAttempts' <=> note[s][n].attempt \in WroteAttempts
        /\ note[s][n].attempt \in unwrote' <=> note[s][n].attempt \in unwrote
    BY <1>2, <1>a
  <1>4. RecordOK(s, n)
    BY DEF Inv, Records
  <1> QED  BY <1>1, <1>3, <1>4, Zenon DEF RecordOK

\* A step that replaces one record of an attempt, keeps its id, adds at most
\* that attempt to the histories and puts nothing back into the queue,
\* preserves Inv if the record it leaves is a good one.
LEMMA OneRecordStep ==
  ASSUME Inv, NEW r \in Recipients, NEW m \in Messages, NEW rec, Only(r, m, rec),
         note[r][m].attempt # 0,
         UNCHANGED <<lastSeq, seq, issued, cleared>>,
         phase' \in {"boot", "open"},
         entry' \in [Recipients -> [Messages -> EntryState]],
         \A s \in Recipients, n \in Messages : s # r \/ n # m => entry'[s][n] = entry[s][n],
         barriers' \in SUBSET [recipient : Recipients, attempt : AttemptIds],
         OneBarrierPerRecipient',
         wrote' = wrote \/ wrote' = wrote \cup {Context(r, m)},
         unwrote' = unwrote \/ unwrote' = unwrote \cup {note[r][m].attempt},
         unwrote' \subseteq WroteAttempts',
         RecordOK(r, m)',
         OwnWriter(r, m)',
         HoldsQueue(r, m)' => HoldsQueue(r, m)
  PROVE  Inv'
  <1>1. /\ note' \in [Recipients -> [Messages -> Notes]]
        /\ \A s \in Recipients, n \in Messages :
             /\ note'[s][n].attempt = note[s][n].attempt
             /\ s # r \/ n # m => note'[s][n] = note[s][n]
    BY OnlyOne DEF Inv
  <1>2. note[r][m].attempt \in AttemptIds /\ note[r][m].attempt \in issued
    BY DEF Inv, TypeOK, Notes, AttemptNamesOneRecord
  <1>a. Context(r, m) \in Contexts /\ Context(r, m).attempt = note[r][m].attempt
        /\ Context(r, m).recipient = r /\ Context(r, m).message = m
    BY <1>2 DEF Inv, TypeOK, Notes, Context, Contexts
  <1>3. wrote' \in SUBSET Contexts /\ unwrote' \in SUBSET AttemptIds
    BY <1>2, <1>a, Zenon DEF Inv, TypeOK
  <1>4. TypeOK'
    BY <1>1, <1>3 DEF Inv, TypeOK
  <1>5. AttemptNamesOneRecord'
    BY <1>1, SameAttempts DEF Inv
  <1>6. Records'
    BY OtherRecords
  <1>b. Writers'
    <2> SUFFICES ASSUME NEW s \in Recipients, NEW n \in Messages, s # r \/ n # m
                 PROVE  OwnWriter(s, n)'
      BY DEF Writers
    <2>1. note'[s][n] = note[s][n] /\ OwnWriter(s, n)
      BY <1>1 DEF Inv, Writers
    <2> QED  BY <2>1, Zenon DEF OwnWriter, Context
  <1>c. DoorbellNamesOneMessage'
    <2> SUFFICES ASSUME NEW c \in wrote', NEW s \in Recipients, NEW n \in Messages,
                        note'[s][n].attempt = c.attempt
                 PROVE  s = c.recipient /\ n = c.message
      BY DEF DoorbellNamesOneMessage
    <2>1. note[s][n].attempt = c.attempt
      BY <1>1
    <2>2. CASE c \in wrote
      BY <2>1, <2>2 DEF Inv, DoorbellNamesOneMessage
    <2>3. CASE c = Context(r, m)
      BY <1>a, <2>1, <2>3 DEF Inv, AttemptNamesOneRecord
    <2> QED  BY <2>2, <2>3
  <1>d. \/ WroteAttempts' = WroteAttempts
        \/ WroteAttempts' = WroteAttempts \cup {note[r][m].attempt}
    BY <1>a, WrittenAttempts
  <1>7. History'
    BY <1>2, <1>d DEF Inv, History
  <1>8. Sequences'
    BY DEF Inv, Sequences
  <1>9. OldestFirst'
    <2>1. ASSUME NEW s \in Recipients, NEW n \in Messages, HoldsQueue(s, n)'
          PROVE  HoldsQueue(s, n)
      <3>1. CASE s = r /\ n = m
        BY <2>1, <3>1
      <3>2. CASE s # r \/ n # m
        BY <1>1, <2>1, <3>2 DEF HoldsQueue, Actionable, ClaimedOperator, Pending, Claimed
      <3> QED  BY <3>1, <3>2
    <2> QED  BY <1>1, <2>1, SameQueue DEF Inv
  <1> QED  BY <1>4, <1>5, <1>6, <1>b, <1>c, <1>7, <1>8, <1>9 DEF Inv

\* The barriers of a step that leaves them alone, or removes some.
LEMMA FewerBarriers ==
  ASSUME Inv, barriers' \subseteq barriers
  PROVE  /\ barriers' \in SUBSET [recipient : Recipients, attempt : AttemptIds]
         /\ OneBarrierPerRecipient'
  BY DEF Inv, TypeOK, OneBarrierPerRecipient

\* A transition through the context of the current record.
LEMMA AdvanceRecord ==
  ASSUME NEW r \in Recipients, NEW m \in Messages, NEW state, NEW cause,
         Advance(Context(r, m), state, cause)
  PROVE  /\ note' = [note EXCEPT ![r][m] = Moved(@, state, cause)]
         /\ UNCHANGED <<lastSeq, seq, entry, issued, cleared, phase>>
  BY DEF Advance, Context

\* The current record, seen through its context.
LEMMA ContextRecord ==
  ASSUME NEW r \in Recipients, NEW m \in Messages
  PROVE  /\ Record(Context(r, m)) = note[r][m]
         /\ EntryAllows(Context(r, m)) <=> Pending(r, m)
         /\ Claimed(Context(r, m).recipient, Context(r, m).message) <=> Claimed(r, m)
  BY DEF Context, Record, EntryAllows

-----------------------------------------------------------------------------
(* One lemma per action.                                                   *)

LEMMA InitInv == Init => Inv
  <1> SUFFICES ASSUME Init PROVE Inv
    OBVIOUS
  <1>1. TypeOK
    BY DEF Init, TypeOK, EntryState, NoNote, Notes, NotificationTransport
  <1>2. \A r \in Recipients, m \in Messages :
          /\ note[r][m].state = "none"
          /\ note[r][m].attempt = 0
          /\ entry[r][m] = "none"
    BY DEF Init, NoNote
  <1>3. Records
    BY <1>2 DEF Records, RecordOK, InFlight, Submitted
  <1>4. AttemptNamesOneRecord /\ DoorbellNamesOneMessage /\ Writers
    BY <1>2 DEF Init, AttemptNamesOneRecord, DoorbellNamesOneMessage, Writers, OwnWriter,
                InFlight, Submitted
  <1>5. History /\ Sequences /\ OneBarrierPerRecipient
    BY DEF Init, History, WroteAttempts, Sequences, OneBarrierPerRecipient
  <1>6. OldestFirst
    BY <1>2 DEF OldestFirst
  <1> QED  BY <1>1, <1>3, <1>4, <1>5, <1>6 DEF Inv

\* A transition of the current record that leaves entries, barriers and
\* histories alone.
LEMMA TransitionStep ==
  ASSUME Inv, NEW r \in Recipients, NEW m \in Messages,
         NEW state \in NotificationState, NEW cause \in PreWriteCause \cup {"none"},
         note[r][m].attempt # 0,
         note' = [note EXCEPT ![r][m] = Moved(@, state, cause)],
         UNCHANGED <<lastSeq, seq, entry, issued, cleared, barriers, phase, wrote, unwrote>>,
         state # "none",
         entry[r][m] = "superseded" => state = "superseded",
         entry[r][m] = "claimed" => state \notin {"queued", "gating"},
         state \in {"queued", "gating"} =>
           note[r][m].attempt \notin WroteAttempts /\ note[r][m].transport = "doorbell",
         state = "blocked_pre_write" =>
           /\ cause # "paste_command_unwritten"
           /\ note[r][m].attempt \notin WroteAttempts
           /\ note[r][m].transport = "doorbell",
         state \in {"attention_required"} \cup InFlight =>
           /\ note[r][m].attempt \in WroteAttempts /\ note[r][m].attempt \notin unwrote
           /\ note[r][m].state \in InFlight,
         state \in {"withdrawn", "withdrawn_by_operator", "superseded"} =>
           (note[r][m].attempt \in WroteAttempts => note[r][m].attempt \in unwrote),
         state = "withdrawn_by_operator" \/ HoldsQueue(r, m)
  PROVE  Inv'
  <1> DEFINE rec == Moved(note[r][m], state, cause)
  <1>1. note[r][m] \in Notes
    BY DEF Inv, TypeOK
  <1>2. /\ rec \in Notes
        /\ rec.state = state
        /\ rec.cause = cause
        /\ rec.attempt = note[r][m].attempt
        /\ rec.transport = note[r][m].transport
        /\ rec.reopen = note[r][m].reopen
    BY <1>1, MovedRecord
  <1> HIDE DEF rec
  <1>3. Only(r, m, rec)
    BY <1>2 DEF Only, rec
  <1>4. note'[r][m] = rec
    BY <1>3, OnlyOne DEF Inv
  <1>5. RecordOK(r, m)
    BY DEF Inv, Records
  <1>6. RecordOK(r, m)'
    <2>1. /\ note'[r][m].state = state
          /\ note'[r][m].cause = cause
          /\ note'[r][m].attempt = note[r][m].attempt
          /\ note'[r][m].transport = note[r][m].transport
      BY <1>2, <1>4
    <2>2. seq[m] # 0 /\ entry[r][m] # "none"
      BY <1>5 DEF RecordOK
    <2>3. WroteAttempts' = WroteAttempts
      BY WrittenAttempts
    <2> QED  BY <2>1, <2>2, <2>3, SMTT(20) DEF RecordOK
  <1>a. OwnWriter(r, m)'
    <2>1. OwnWriter(r, m) /\ Context(r, m)' = Context(r, m) /\ note'[r][m].state = state
      BY <1>2, <1>4, Zenon DEF Inv, Writers, Context
    <2> QED  BY <2>1, Zenon DEF OwnWriter
  <1>7. HoldsQueue(r, m)' => HoldsQueue(r, m)
    BY <1>2, <1>4, Zenon DEF HoldsQueue, Actionable, ClaimedOperator, Pending, Claimed,
                      InFlight, Submitted, PreWrite
  <1>8. /\ phase' \in {"boot", "open"}
        /\ entry' \in [Recipients -> [Messages -> EntryState]]
        /\ unwrote' \subseteq WroteAttempts'
    BY WrittenAttempts DEF Inv, TypeOK, History
  <1>9. /\ barriers' \in SUBSET [recipient : Recipients, attempt : AttemptIds]
        /\ OneBarrierPerRecipient'
    BY FewerBarriers
  <1> QED  BY <1>3, <1>6, <1>a, <1>7, <1>8, <1>9, OneRecordStep

\* An entry with an attempt in one of these states holds the queue.
LEMMA LiveHoldsQueue ==
  ASSUME Inv, NEW r \in Recipients, NEW m \in Messages,
         note[r][m].state \in {"queued", "gating"} \cup InFlight
  PROVE  HoldsQueue(r, m) /\ note[r][m].attempt # 0 /\ entry[r][m] \in {"pending", "claimed"}
  <1>1. RecordOK(r, m) /\ entry[r][m] \in EntryState
    BY DEF Inv, Records, TypeOK
  <1> QED  BY <1>1 DEF RecordOK, EntryState, HoldsQueue, Actionable, Pending, Claimed,
                       InFlight, Submitted

LEMMA RecordGatingInv ==
  ASSUME Inv, NEW r \in Recipients, NEW m \in Messages, RecordGating(Context(r, m))
  PROVE  Inv'
  <1>1. /\ note[r][m].state = "queued"
        /\ Pending(r, m)
        /\ note' = [note EXCEPT ![r][m] = Moved(@, "gating", "none")]
        /\ UNCHANGED <<lastSeq, seq, entry, issued, cleared, barriers, phase, wrote, unwrote>>
    BY ContextRecord, AdvanceRecord DEF RecordGating, Unwritten
  <1>2. HoldsQueue(r, m) /\ note[r][m].attempt # 0
    BY <1>1, LiveHoldsQueue
  <1>3. RecordOK(r, m)
    BY DEF Inv, Records
  <1> QED  BY <1>1, <1>2, <1>3, TransitionStep, Zenon
           DEF RecordOK, Pending, InFlight, Submitted, NotificationState, PreWriteCause

LEMMA RecordPreWriteBlockInv ==
  ASSUME Inv, NEW r \in Recipients, NEW m \in Messages, NEW cause \in BlockCauses,
         RecordPreWriteBlock(Context(r, m), cause)
  PROVE  Inv'
  <1>1. /\ note[r][m].state = "gating"
        /\ note' = [note EXCEPT ![r][m] = Moved(@, "blocked_pre_write", cause)]
        /\ UNCHANGED <<lastSeq, seq, entry, issued, cleared, barriers, phase, wrote, unwrote>>
    BY ContextRecord, AdvanceRecord DEF RecordPreWriteBlock, Unwritten
  <1>2. /\ HoldsQueue(r, m) /\ note[r][m].attempt # 0
        /\ entry[r][m] \in {"pending", "claimed"}
    BY <1>1, LiveHoldsQueue
  <1>3. RecordOK(r, m)
    BY DEF Inv, Records
  <1>4. cause \in PreWriteCause \cup {"none"} /\ cause # "paste_command_unwritten"
    BY CausesAssumption
  <1> QED  BY <1>1, <1>2, <1>3, <1>4, TransitionStep, Zenon
           DEF RecordOK, InFlight, Submitted, NotificationState

LEMMA RecordSubmittedInv ==
  ASSUME Inv, NEW r \in Recipients, NEW m \in Messages, NEW state \in Submitted,
         RecordSubmitted(Context(r, m), state)
  PROVE  Inv'
  <1>1. /\ note[r][m].state = "writing"
        /\ note' = [note EXCEPT ![r][m] = Moved(@, state, "none")]
        /\ UNCHANGED <<lastSeq, seq, entry, issued, cleared, barriers, phase, wrote, unwrote>>
    <2>1. state \in NextStates(note[r][m].state)
      BY ContextRecord DEF RecordSubmitted
    <2>2. note[r][m].state \in NotificationState \cup {"none"}
      BY DEF Inv, TypeOK, Notes
    <2>3. note[r][m].state = "writing"
      BY <2>1, <2>2 DEF NextStates, Submitted, NotificationState
    <2> QED  BY <2>3, AdvanceRecord DEF RecordSubmitted, Unwritten
  <1>2. /\ HoldsQueue(r, m) /\ note[r][m].attempt # 0
        /\ entry[r][m] \in {"pending", "claimed"}
    BY <1>1, LiveHoldsQueue DEF InFlight
  <1>3. RecordOK(r, m)
    BY DEF Inv, Records
  <1> QED  BY <1>1, <1>2, <1>3, TransitionStep, Zenon
           DEF RecordOK, InFlight, Submitted, NotificationState

\* The steps that end an attempt in flight.
LEMMA EndInFlight ==
  ASSUME Inv, NEW r \in Recipients, NEW m \in Messages,
         NEW state \in {"notified", "attention_required"},
         note[r][m].state \in InFlight,
         note' = [note EXCEPT ![r][m] = Moved(@, state, "none")],
         UNCHANGED <<lastSeq, seq, entry, issued, cleared, barriers, phase, wrote, unwrote>>
  PROVE  Inv'
  <1>2. /\ HoldsQueue(r, m) /\ note[r][m].attempt # 0
        /\ entry[r][m] \in {"pending", "claimed"}
    BY LiveHoldsQueue
  <1>3. RecordOK(r, m)
    BY DEF Inv, Records
  <1> QED  BY <1>2, <1>3, TransitionStep, Zenon DEF RecordOK, InFlight, Submitted, NotificationState

LEMMA RecordNotifiedInv ==
  ASSUME Inv, NEW r \in Recipients, NEW m \in Messages,
         RecordNotified(Context(r, m)) \/ SettleSubmittedClaim(Context(r, m))
  PROVE  Inv'
  <1>1. note[r][m].state \in InFlight
    BY ContextRecord DEF RecordNotified, SettleSubmittedClaim, InFlight
  <1>2. /\ note' = [note EXCEPT ![r][m] = Moved(@, "notified", "none")]
        /\ UNCHANGED <<lastSeq, seq, entry, issued, cleared, barriers, phase, wrote, unwrote>>
    BY AdvanceRecord DEF RecordNotified, SettleSubmittedClaim, Unwritten
  <1> QED  BY <1>1, <1>2, EndInFlight, Zenon

LEMMA RecordAttentionInv ==
  ASSUME Inv, NEW r \in Recipients, NEW m \in Messages, RecordAttention(Context(r, m))
  PROVE  Inv'
  <1>1. "attention_required" \in NextStates(note[r][m].state)
    BY ContextRecord DEF RecordAttention
  <1>2. note[r][m].state \in NotificationState \cup {"none"}
    BY DEF Inv, TypeOK, Notes
  <1>3. note[r][m].state \in InFlight
    BY <1>1, <1>2 DEF NextStates, Submitted, NotificationState, InFlight
  <1>4. /\ note' = [note EXCEPT ![r][m] = Moved(@, "attention_required", "none")]
        /\ UNCHANGED <<lastSeq, seq, entry, issued, cleared, barriers, phase, wrote, unwrote>>
    BY AdvanceRecord DEF RecordAttention, Unwritten
  <1> QED  BY <1>3, <1>4, EndInFlight, Zenon

LEMMA RecoverInv ==
  ASSUME Inv, NEW r \in Recipients, NEW m \in Messages, Recover(r, m)
  PROVE  Inv'
  <1>1. Recovered(r, m) \in {"notified", "attention_required"}
    BY DEF Recovered
  <1> QED  BY <1>1, EndInFlight, Zenon DEF Recover

LEMMA WithdrawInv ==
  ASSUME Inv, NEW r \in Recipients, NEW m \in Messages, Withdraw(r, m)
  PROVE  Inv'
  <1>1. /\ note[r][m].state \in PreWrite
        /\ entry[r][m] \in {"pending", "claimed"}
        /\ note' = [note EXCEPT ![r][m] = Moved(@, "withdrawn_by_operator", "none")]
        /\ UNCHANGED <<lastSeq, seq, entry, issued, cleared, barriers, phase, wrote, unwrote>>
    BY DEF Withdraw, Withdrawable
  <1>2. RecordOK(r, m)
    BY DEF Inv, Records
  <1>3. /\ note[r][m].attempt # 0
        /\ note[r][m].attempt \in WroteAttempts => note[r][m].attempt \in unwrote
    BY <1>1, <1>2 DEF RecordOK, PreWrite
  <1> QED  BY <1>1, <1>3, TransitionStep, Zenon
           DEF InFlight, Submitted, NotificationState

\* A record whose write boundary is committed, by a doorbell or a raw send.
LEMMA WritingStep ==
  ASSUME Inv, NEW r \in Recipients, NEW m \in Messages, NEW rec, Only(r, m, rec),
         rec.state = "writing",
         rec.reopen = note[r][m].reopen,
         note[r][m].state = "gating",
         Pending(r, m),
         barriers' \in SUBSET [recipient : Recipients, attempt : AttemptIds],
         OneBarrierPerRecipient',
         wrote' = wrote \cup {Context(r, m)},
         UNCHANGED <<lastSeq, seq, entry, issued, cleared, phase, unwrote>>
  PROVE  Inv'
  <1>1. HoldsQueue(r, m) /\ note[r][m].attempt # 0
    BY LiveHoldsQueue
  <1>2. note'[r][m] = rec /\ rec.attempt = note[r][m].attempt
    BY OnlyOne, Zenon DEF Inv, Only
  <1>3. RecordOK(r, m)
    BY DEF Inv, Records
  <1>4. note[r][m].attempt \notin unwrote
    BY <1>3, Zenon DEF RecordOK, Inv, History
  <1>a. WroteAttempts' = WroteAttempts \cup {note[r][m].attempt}
    <2>1. Context(r, m).attempt = note[r][m].attempt
      BY DEF Context
    <2> QED  BY <2>1, WrittenAttempts, Zenon
  <1>5. RecordOK(r, m)'
    BY <1>1, <1>2, <1>3, <1>4, <1>a, Zenon DEF RecordOK, Pending
  <1>b. OwnWriter(r, m)'
    BY <1>2 DEF OwnWriter, Context
  <1>6. /\ phase' \in {"boot", "open"}
        /\ entry' \in [Recipients -> [Messages -> EntryState]]
        /\ unwrote' \subseteq WroteAttempts'
    BY <1>a DEF Inv, TypeOK, History
  <1> QED  BY <1>1, <1>5, <1>b, <1>6, OneRecordStep

\* The record that the write boundary leaves.
LEMMA WritingRecord ==
  ASSUME Inv, NEW r \in Recipients, NEW m \in Messages,
         NEW transport \in NotificationTransport
  PROVE  LET rec == [Moved(note[r][m], "writing", "none") EXCEPT !.transport = transport]
         IN  /\ rec \in Notes
             /\ rec.state = "writing"
             /\ rec.attempt = note[r][m].attempt
             /\ rec.reopen = note[r][m].reopen
  <1>1. note[r][m] \in Notes
    BY DEF Inv, TypeOK
  <1>2. /\ Moved(note[r][m], "writing", "none") \in Notes
        /\ Moved(note[r][m], "writing", "none").state = "writing"
        /\ Moved(note[r][m], "writing", "none").attempt = note[r][m].attempt
        /\ Moved(note[r][m], "writing", "none").reopen = note[r][m].reopen
    BY <1>1, MovedRecord DEF NotificationState
  <1> QED  BY <1>2 DEF Notes

LEMMA RecordWritingInv ==
  ASSUME Inv, NEW r \in Recipients, NEW m \in Messages, RecordWriting(Context(r, m))
  PROVE  Inv'
  <1> DEFINE rec == [Moved(note[r][m], "writing", "none") EXCEPT !.transport = "doorbell"]
  <1>1. /\ note[r][m].state = "gating"
        /\ Pending(r, m)
        /\ note' = [note EXCEPT ![r][m] = rec]
        /\ barriers' = {b \in barriers : b.recipient # r}
                         \cup {[recipient |-> r, attempt |-> note[r][m].attempt]}
        /\ wrote' = wrote \cup {Context(r, m)}
        /\ UNCHANGED <<lastSeq, seq, entry, issued, cleared, phase, unwrote>>
    BY ContextRecord DEF RecordWriting, MayWrite, Context
  <1>2. /\ rec \in Notes /\ rec.state = "writing"
        /\ rec.attempt = note[r][m].attempt /\ rec.reopen = note[r][m].reopen
    BY WritingRecord, Zenon DEF NotificationTransport
  <1> HIDE DEF rec
  <1>3. Only(r, m, rec)
    BY <1>1, <1>2 DEF Only
  <1>a. note[r][m].attempt # 0
    BY <1>1, LiveHoldsQueue
  <1>4. note[r][m].attempt \in AttemptIds
    BY <1>a DEF Inv, TypeOK, Notes
  <1>5. barriers' \in SUBSET [recipient : Recipients, attempt : AttemptIds]
    BY <1>1, <1>4 DEF Inv, TypeOK
  <1>6. OneBarrierPerRecipient'
    BY <1>1 DEF Inv, OneBarrierPerRecipient
  <1> QED  BY <1>1, <1>2, <1>3, <1>5, <1>6, WritingStep

LEMMA RecordWritingRawInv ==
  ASSUME Inv, NEW r \in Recipients, NEW m \in Messages, RecordWritingRaw(Context(r, m))
  PROVE  Inv'
  <1> DEFINE rec == [Moved(note[r][m], "writing", "none") EXCEPT !.transport = "raw"]
  <1>1. /\ note[r][m].state = "gating"
        /\ Pending(r, m)
        /\ note' = [note EXCEPT ![r][m] = rec]
        /\ wrote' = wrote \cup {Context(r, m)}
        /\ UNCHANGED <<lastSeq, seq, entry, issued, cleared, barriers, phase, unwrote>>
    BY ContextRecord DEF RecordWritingRaw, MayWrite, Context
  <1>2. /\ rec \in Notes /\ rec.state = "writing"
        /\ rec.attempt = note[r][m].attempt /\ rec.reopen = note[r][m].reopen
    BY WritingRecord, Zenon DEF NotificationTransport
  <1> HIDE DEF rec
  <1>3. Only(r, m, rec)
    BY <1>1, <1>2 DEF Only
  <1>4. /\ barriers' \in SUBSET [recipient : Recipients, attempt : AttemptIds]
        /\ OneBarrierPerRecipient'
    BY <1>1, FewerBarriers
  <1> QED  BY <1>1, <1>2, <1>3, <1>4, WritingStep

LEMMA RecordPasteCommandUnwrittenInv ==
  ASSUME Inv, NEW r \in Recipients, NEW m \in Messages,
         RecordPasteCommandUnwritten(Context(r, m))
  PROVE  Inv'
  <1> DEFINE rec == Moved(note[r][m], "blocked_pre_write", "paste_command_unwritten")
  <1>1. /\ note[r][m].state = "writing"
        /\ note' = [note EXCEPT ![r][m] = rec]
        /\ UNCHANGED <<lastSeq, seq, entry, issued, cleared, phase, wrote>>
    BY ContextRecord, AdvanceRecord DEF RecordPasteCommandUnwritten
  <1>2. /\ barriers' \subseteq barriers
        /\ unwrote' = unwrote \cup {note[r][m].attempt}
    BY DEF RecordPasteCommandUnwritten, Context
  <1>3. HoldsQueue(r, m) /\ note[r][m].attempt # 0 /\ entry[r][m] \in {"pending", "claimed"}
    BY <1>1, LiveHoldsQueue DEF InFlight
  <1>4. note[r][m] \in Notes
    BY DEF Inv, TypeOK
  <1>5. /\ rec \in Notes
        /\ rec.state = "blocked_pre_write"
        /\ rec.cause = "paste_command_unwritten"
        /\ rec.attempt = note[r][m].attempt
    BY <1>4, MovedRecord, SMTT(20) DEF NotificationState, PreWriteCause
  <1> HIDE DEF rec
  <1>6. Only(r, m, rec)
    BY <1>1, <1>5 DEF Only
  <1>7. note'[r][m] = rec
    BY <1>6, OnlyOne DEF Inv
  <1>8. RecordOK(r, m) /\ note[r][m].attempt \in WroteAttempts
    BY <1>1, Zenon DEF Inv, Records, RecordOK, InFlight
  <1>9. RecordOK(r, m)'
    BY <1>1, <1>2, <1>3, <1>5, <1>7, <1>8, WrittenAttempts, SMTT(20) DEF RecordOK, InFlight, Submitted
  <1>a. OwnWriter(r, m)'
    BY <1>5, <1>7, Zenon DEF OwnWriter, InFlight, Submitted
  <1>10. /\ phase' \in {"boot", "open"}
         /\ entry' \in [Recipients -> [Messages -> EntryState]]
         /\ unwrote' \subseteq WroteAttempts'
    BY <1>1, <1>2, <1>8, WrittenAttempts, Zenon DEF Inv, TypeOK, History
  <1>11. /\ barriers' \in SUBSET [recipient : Recipients, attempt : AttemptIds]
         /\ OneBarrierPerRecipient'
    BY <1>2, FewerBarriers
  <1> QED  BY <1>1, <1>2, <1>3, <1>6, <1>9, <1>a, <1>10, <1>11, OneRecordStep

LEMMA RecordMailboxNotifiedInv ==
  ASSUME Inv, NEW r \in Recipients, NEW m \in Messages, RecordMailboxNotified(Context(r, m))
  PROVE  Inv'
  <1> DEFINE rec == [Moved(note[r][m], "notified", "none") EXCEPT !.transport = "mailbox"]
  <1>1. /\ note[r][m].state = "queued"
        /\ Pending(r, m)
        /\ note' = [note EXCEPT ![r][m] = rec]
        /\ UNCHANGED <<lastSeq, seq, entry, issued, cleared, barriers, phase, wrote, unwrote>>
    BY ContextRecord DEF RecordMailboxNotified, Context
  <1>2. HoldsQueue(r, m) /\ note[r][m].attempt # 0
    BY <1>1, LiveHoldsQueue
  <1>3. note[r][m] \in Notes
    BY DEF Inv, TypeOK
  <1>4. /\ rec \in Notes
        /\ rec.state = "notified"
        /\ rec.attempt = note[r][m].attempt
    <2>1. /\ Moved(note[r][m], "notified", "none") \in Notes
          /\ Moved(note[r][m], "notified", "none").state = "notified"
          /\ Moved(note[r][m], "notified", "none").attempt = note[r][m].attempt
      BY <1>3, MovedRecord DEF NotificationState
    <2> QED  BY <2>1 DEF Notes, NotificationTransport
  <1> HIDE DEF rec
  <1>5. Only(r, m, rec)
    BY <1>1, <1>4 DEF Only
  <1>6. note'[r][m] = rec
    BY <1>5, OnlyOne DEF Inv
  <1>7. RecordOK(r, m)
    BY DEF Inv, Records
  <1>a. WroteAttempts' = WroteAttempts
    BY <1>1, WrittenAttempts
  <1>8. RecordOK(r, m)' /\ OwnWriter(r, m)'
    BY <1>1, <1>4, <1>6, <1>7, <1>a, Zenon
       DEF RecordOK, OwnWriter, Pending, InFlight, Submitted
  <1>9. /\ phase' \in {"boot", "open"}
        /\ entry' \in [Recipients -> [Messages -> EntryState]]
        /\ unwrote' \subseteq WroteAttempts'
    BY <1>1, <1>a DEF Inv, TypeOK, History
  <1>10. /\ barriers' \in SUBSET [recipient : Recipients, attempt : AttemptIds]
         /\ OneBarrierPerRecipient'
    BY <1>1, FewerBarriers
  <1> QED  BY <1>1, <1>2, <1>5, <1>8, <1>9, <1>10, OneRecordStep

\* The record a reopening leaves.
LEMMA ReopenedRecord ==
  ASSUME NEW rec \in Notes, rec.reopen = 0
  PROVE  /\ Reopened(rec) \in Notes
         /\ Reopened(rec).state = "gating"
         /\ Reopened(rec).attempt = rec.attempt
         /\ Reopened(rec).transport = rec.transport
  <1>1. Reopened(rec) = [rec EXCEPT !.state = "gating", !.cause = "none", !.reopen = 1]
    BY DEF Reopened
  <1>2. "gating" \in NotificationState \cup {"none"} /\ 1 \in {0, 1}
    BY DEF NotificationState
  <1> QED  BY <1>1, <1>2, Zenon DEF Notes

LEMMA ReopenOldestInv ==
  ASSUME Inv, NEW r \in Recipients, NEW later \in BOOLEAN, NEW ready \in BOOLEAN,
         ReopenOldest(r, later, ready)
  PROVE  Inv'
  <1>1. PICK m \in Messages :
          /\ IsFirstActionablePending(r, m)
          /\ note[r][m].state = "blocked_pre_write"
          /\ CauseChanged(note[r][m].cause, later, ready)
          /\ MayReopen(note[r][m])
          /\ note' = [note EXCEPT ![r][m] = Reopened(@)]
    BY Zenon DEF ReopenOldest
  <1>2. UNCHANGED <<lastSeq, seq, entry, issued, cleared, barriers, phase, wrote, unwrote>>
    BY DEF ReopenOldest
  <1> DEFINE rec == Reopened(note[r][m])
  <1>3. note[r][m] \in Notes /\ RecordOK(r, m)
    BY DEF Inv, TypeOK, Records
  <1>4. /\ Pending(r, m)
        /\ note[r][m].cause # "paste_command_unwritten"
        /\ note[r][m].reopen = 0
    BY <1>1, <1>3 DEF IsFirstActionablePending, CauseChanged, MayReopen, Notes
  <1>5. /\ rec \in Notes
        /\ rec.state = "gating"
        /\ rec.attempt = note[r][m].attempt
        /\ rec.transport = note[r][m].transport
    BY <1>3, <1>4, ReopenedRecord
  <1>6. Only(r, m, rec)
    BY <1>1, <1>5 DEF Only
  <1> HIDE DEF rec
  <1>7. note'[r][m] = rec
    BY <1>6, OnlyOne DEF Inv
  <1>8. /\ note[r][m].attempt # 0
        /\ HoldsQueue(r, m)
        /\ note[r][m].attempt \notin WroteAttempts
        /\ note[r][m].transport = "doorbell"
    BY <1>1, <1>3, <1>4 DEF RecordOK, HoldsQueue, Actionable
  <1>a. WroteAttempts' = WroteAttempts
    BY <1>2, WrittenAttempts
  <1>9. RecordOK(r, m)' /\ OwnWriter(r, m)'
    BY <1>2, <1>3, <1>4, <1>5, <1>7, <1>8, <1>a, Zenon
       DEF RecordOK, OwnWriter, Pending, InFlight, Submitted
  <1>10. /\ phase' \in {"boot", "open"}
         /\ entry' \in [Recipients -> [Messages -> EntryState]]
         /\ unwrote' \subseteq WroteAttempts'
    BY <1>2, <1>a DEF Inv, TypeOK, History
  <1>11. /\ barriers' \in SUBSET [recipient : Recipients, attempt : AttemptIds]
         /\ OneBarrierPerRecipient'
    BY <1>2, FewerBarriers
  <1> QED  BY <1>2, <1>6, <1>8, <1>9, <1>10, <1>11, OneRecordStep, Zenon

\* What a claim makes of a notification: it ends one that waits at the gate,
\* notifies a submitted one, and leaves every other state alone.
LEMMA SettledState ==
  ASSUME NEW state \in NotificationState \cup {"none"}, NEW transport \in NotificationTransport
  PROVE  LET settled == SettledByClaim(state, transport)
         IN  \/ settled = state /\ (transport = "doorbell" => state \notin PreWrite)
             \/ settled = "withdrawn" /\ state \in PreWrite
             \/ settled = "notified" /\ state \in Submitted
  BY DEF SettledByClaim, PreWrite, Submitted, NotificationTransport

LEMMA ClaimInv ==
  ASSUME Inv, NEW r \in Recipients, NEW m \in Messages, Claim(r, m)
  PROVE  Inv'
  <1> DEFINE settled == SettledByClaim(note[r][m].state, note[r][m].transport)
             cause == IF settled = "withdrawn" THEN "claimed_before_write" ELSE "none"
             rec == IF settled = note[r][m].state THEN note[r][m]
                    ELSE Moved(note[r][m], settled, cause)
  <1>1. /\ Pending(r, m)
        /\ entry' = [entry EXCEPT ![r][m] = "claimed"]
        /\ note' = IF settled = note[r][m].state THEN note
                   ELSE [note EXCEPT ![r][m] = Moved(@, settled, cause)]
        /\ UNCHANGED <<lastSeq, seq, issued, cleared, barriers, phase, wrote, unwrote>>
    BY DEF Claim
  <1>2. note[r][m] \in Notes /\ RecordOK(r, m)
    BY DEF Inv, TypeOK, Records
  <1>3. /\ note[r][m].state \in NotificationState \cup {"none"}
        /\ note[r][m].transport \in NotificationTransport
    BY <1>2 DEF Notes
  <1>4. \/ settled = note[r][m].state
             /\ (note[r][m].transport = "doorbell" => note[r][m].state \notin PreWrite)
        \/ settled = "withdrawn" /\ note[r][m].state \in PreWrite
        \/ settled = "notified" /\ note[r][m].state \in Submitted
    BY <1>3, SettledState
  <1> HIDE DEF settled
  <1>5. settled \in NotificationState \/ settled = note[r][m].state
    BY <1>4 DEF NotificationState
  <1>6. cause \in PreWriteCause \cup {"none"}
    BY DEF PreWriteCause
  <1> HIDE DEF cause
  <1>7. /\ rec \in Notes
        /\ rec.state = settled
        /\ rec.attempt = note[r][m].attempt
        /\ rec.transport = note[r][m].transport
        /\ rec.reopen = note[r][m].reopen
        /\ settled = note[r][m].state => rec = note[r][m]
    BY <1>2, <1>5, <1>6, MovedRecord, SMTT(20)
  <1>8. note' = [note EXCEPT ![r][m] = rec]
    BY <1>1, Zenon DEF Inv, TypeOK
  <1> HIDE DEF rec
  <1>9. Only(r, m, rec)
    BY <1>7, <1>8 DEF Only
  <1>10. note'[r][m] = rec
    BY <1>9, OnlyOne DEF Inv
  <1>11. /\ entry' \in [Recipients -> [Messages -> EntryState]]
         /\ entry'[r][m] = "claimed"
         /\ \A s \in Recipients, n \in Messages : s # r \/ n # m => entry'[s][n] = entry[s][n]
    BY <1>1 DEF Inv, TypeOK, EntryState
  <1>a. WroteAttempts' = WroteAttempts
    BY <1>1, WrittenAttempts
  <1>b. OwnWriter(r, m)'
    <2>1. OwnWriter(r, m) /\ Context(r, m)' = Context(r, m) /\ note'[r][m].state = settled
      BY <1>7, <1>10, Zenon DEF Inv, Writers, Context
    <2> QED  BY <1>1, <1>4, <2>1, Zenon DEF OwnWriter, InFlight, Submitted
  <1>12. RecordOK(r, m)'
    <2>1. CASE settled = note[r][m].state
      BY <1>1, <1>2, <1>4, <1>7, <1>10, <1>11, <1>a, <2>1, Zenon DEF RecordOK, Pending, PreWrite
    <2>2. CASE settled = "withdrawn" /\ note[r][m].state \in PreWrite
      <3>1. /\ note'[r][m].state = "withdrawn"
            /\ note'[r][m].attempt = note[r][m].attempt
        BY <1>7, <1>10, <2>2
      <3>2. /\ note[r][m].attempt # 0
            /\ seq[m] # 0
            /\ note[r][m].attempt \in WroteAttempts => note[r][m].attempt \in unwrote
        BY <1>2, <2>2, Zenon DEF RecordOK, PreWrite
      <3>3. UNCHANGED <<seq, wrote, unwrote>> /\ entry'[r][m] = "claimed"
        BY <1>1, <1>11
      <3> QED  BY <1>a, <3>1, <3>2, <3>3, Zenon DEF RecordOK, InFlight, Submitted
    <2>3. CASE settled = "notified" /\ note[r][m].state \in Submitted
      BY <1>1, <1>2, <1>a, <1>7, <1>10, <1>11, <2>3, Zenon
         DEF RecordOK, Pending, InFlight, Submitted
    <2> QED  BY <1>4, <2>1, <2>2, <2>3
  <1>13. HoldsQueue(r, m)' => HoldsQueue(r, m)
    <2>1. note[r][m].state # "withdrawn_by_operator" => HoldsQueue(r, m)
      BY <1>1 DEF HoldsQueue, Actionable
    <2>2. settled = "withdrawn_by_operator" => ~ HoldsQueue(r, m)'
      BY <1>7, <1>10, <1>11 DEF HoldsQueue, Actionable, ClaimedOperator, Pending, Claimed,
                                 InFlight, Submitted, PreWrite
    <2> QED  BY <1>4, <2>1, <2>2 DEF PreWrite, Submitted
  <1>14. /\ barriers' \in SUBSET [recipient : Recipients, attempt : AttemptIds]
         /\ OneBarrierPerRecipient'
    BY <1>1, FewerBarriers
  <1>15. phase' \in {"boot", "open"} /\ unwrote' \subseteq WroteAttempts'
    BY <1>1, <1>a DEF Inv, TypeOK, History
  <1>16. CASE note[r][m].attempt # 0
    BY <1>1, <1>9, <1>11, <1>12, <1>b, <1>13, <1>14, <1>15, <1>16, OneRecordStep
  <1>17. CASE note[r][m].attempt = 0
    <2>1. note[r][m].state = "none" /\ settled = "none"
      BY <1>2, <1>4, <1>17, Zenon DEF RecordOK, PreWrite, Submitted
    <2>2. note' = note
      BY <1>1, <2>1
    <2>3. TypeOK'
      BY <1>1, <1>11, <2>2, Zenon DEF Inv, TypeOK
    <2>4. Records'
      <3> SUFFICES ASSUME NEW s \in Recipients, NEW n \in Messages, s # r \/ n # m
                   PROVE  RecordOK(s, n)'
        BY <1>12 DEF Records
      <3>1. entry'[s][n] = entry[s][n] /\ RecordOK(s, n)
        BY <1>11, Zenon DEF Inv, Records
      <3> QED  BY <1>1, <1>a, <2>2, <3>1, Zenon DEF RecordOK
    <2>5. AttemptNamesOneRecord' /\ History' /\ Sequences'
      BY <1>1, <1>a, <2>2, SMTT(20) DEF Inv, AttemptNamesOneRecord, History, Sequences
    <2>8. DoorbellNamesOneMessage' /\ Writers'
      BY <1>1, <2>2, SameWriters DEF Inv
    <2>6. ASSUME NEW s \in Recipients, NEW n \in Messages, HoldsQueue(s, n)'
          PROVE  HoldsQueue(s, n)
      BY <1>11, <1>13, <2>2, <2>6, Zenon DEF HoldsQueue, Actionable, ClaimedOperator, Pending, Claimed
    <2>7. OldestFirst'
      BY <1>1, <2>2, <2>6, SameQueue DEF Inv
    <2> QED  BY <1>14, <2>3, <2>4, <2>5, <2>8, <2>7 DEF Inv
  <1> QED  BY <1>16, <1>17

LEMMA AcceptInv ==
  ASSUME Inv, NEW m \in Messages, NEW to \in SUBSET Recipients, Accept(m, to)
  PROVE  Inv'
  <1>1. /\ seq[m] = 0
        /\ lastSeq' = lastSeq + 1
        /\ seq' = [seq EXCEPT ![m] = lastSeq + 1]
        /\ entry' = [r \in Recipients |->
                       [entry[r] EXCEPT ![m] = IF r \in to THEN "pending" ELSE @]]
        /\ UNCHANGED <<note, issued, cleared, barriers, phase, wrote, unwrote>>
    BY Zenon DEF Accept
  <1>2. \A r \in Recipients : entry[r][m] = "none" /\ note[r][m].state = "none"
                                /\ note[r][m].attempt = 0
    BY <1>1, SMTT(20) DEF Inv, Records, RecordOK
  <1>3. /\ seq' \in [Messages -> Nat]
        /\ lastSeq' \in Nat
        /\ seq'[m] = lastSeq + 1
        /\ \A n \in Messages : n # m => seq'[n] = seq[n]
        /\ \A n \in Messages : seq[n] <= lastSeq /\ seq[n] \in Nat
    BY <1>1 DEF Inv, TypeOK, Sequences
  <1>4. /\ entry' \in [Recipients -> [Messages -> EntryState]]
        /\ \A r \in Recipients : entry'[r][m] \in {"pending", "none"}
        /\ \A r \in Recipients, n \in Messages : n # m => entry'[r][n] = entry[r][n]
    BY <1>1, <1>2 DEF Inv, TypeOK, EntryState
  <1>5. TypeOK'
    BY <1>1, <1>3, <1>4 DEF Inv, TypeOK
  <1>6. AttemptNamesOneRecord' /\ History' /\ OneBarrierPerRecipient'
    BY <1>1, WrittenAttempts DEF Inv, AttemptNamesOneRecord, History, OneBarrierPerRecipient
  <1>a. DoorbellNamesOneMessage' /\ Writers'
    BY <1>1, SameWriters DEF Inv
  <1>7. Sequences'
    BY <1>1, <1>3 DEF Inv, TypeOK, Sequences
  <1>8. Records'
    <2> SUFFICES ASSUME NEW r \in Recipients, NEW n \in Messages
                 PROVE  RecordOK(r, n)'
      BY DEF Records
    <2>1. /\ note'[r][n] = note[r][n] /\ RecordOK(r, n)
          /\ WroteAttempts' = WroteAttempts /\ unwrote' = unwrote
      BY <1>1, WrittenAttempts, Zenon DEF Inv, Records
    <2>2. CASE n = m
      <3>1. /\ note'[r][n].state = "none"
            /\ note'[r][n].attempt = 0
            /\ entry'[r][n] \in {"pending", "none"}
            /\ seq'[n] # 0
        BY <1>2, <1>3, <1>4, <2>1, <2>2, SMTT(20) DEF Inv, TypeOK
      <3> QED  BY <3>1, Zenon DEF RecordOK, InFlight, Submitted
    <2>3. CASE n # m
      BY <1>3, <1>4, <2>1, <2>3, Zenon DEF RecordOK
    <2> QED  BY <2>2, <2>3
  <1>9. OldestFirst'
    <2> SUFFICES ASSUME NEW r \in Recipients, NEW a \in Messages, NEW b \in Messages,
                        note'[r][b].attempt # 0, 0 < seq'[a], seq'[a] < seq'[b]
                 PROVE  ~ HoldsQueue(r, a)'
      BY DEF OldestFirst
    <2>1. note' = note
      BY <1>1
    <2>2. b # m
      BY <1>2, <2>1
    <2>3. a # m
      BY <1>3, <2>2 DEF Inv, TypeOK
    <2>4. ~ HoldsQueue(r, a)
      BY <1>3, <2>1, <2>2, <2>3 DEF Inv, OldestFirst
    <2> QED  BY <1>4, <2>1, <2>3, <2>4, Zenon
             DEF HoldsQueue, Actionable, ClaimedOperator, Pending, Claimed
  <1> QED  BY <1>5, <1>6, <1>a, <1>7, <1>8, <1>9 DEF Inv

LEMMA SupersedeInv ==
  ASSUME Inv, NEW m \in Messages, NEW old \in Messages, NEW r \in Recipients,
         Supersede(m, old, r)
  PROVE  Inv'
  <1> DEFINE rec == IF note[r][old].state = "none" THEN note[r][old]
                    ELSE Moved(note[r][old], "superseded", "none")
  <1>1. /\ seq[m] = 0
        /\ Pending(r, old)
        /\ Replaceable(note[r][old].state)
        /\ lastSeq' = lastSeq + 1
        /\ seq' = [seq EXCEPT ![m] = lastSeq + 1]
        /\ entry' = [entry EXCEPT ![r][m] = "pending", ![r][old] = "superseded"]
        /\ note' = IF note[r][old].state = "none" THEN note
                   ELSE [note EXCEPT ![r][old] = Moved(@, "superseded", "none")]
        /\ UNCHANGED <<issued, cleared, barriers, phase, wrote, unwrote>>
    BY DEF Supersede
  <1>2. \A s \in Recipients : entry[s][m] = "none" /\ note[s][m].state = "none"
                                /\ note[s][m].attempt = 0
    <2> TAKE s \in Recipients
    <2>1. RecordOK(s, m)
      BY DEF Inv, Records
    <2> QED  BY <1>1, <2>1, Zenon DEF RecordOK
  <1>3. m # old
    BY <1>1, <1>2 DEF Pending
  <1>4. /\ seq' \in [Messages -> Nat]
        /\ lastSeq' \in Nat
        /\ seq'[m] = lastSeq + 1
        /\ \A n \in Messages : n # m => seq'[n] = seq[n]
        /\ \A n \in Messages : seq[n] <= lastSeq /\ seq[n] \in Nat
    BY <1>1 DEF Inv, TypeOK, Sequences
  <1>5. /\ entry' \in [Recipients -> [Messages -> EntryState]]
        /\ entry'[r][old] = "superseded"
        /\ entry'[r][m] = "pending"
        /\ \A s \in Recipients, n \in Messages :
             s # r \/ n \notin {m, old} => entry'[s][n] = entry[s][n]
    BY <1>1, <1>3, Zenon DEF Inv, TypeOK, EntryState
  <1>6. note[r][old] \in Notes /\ RecordOK(r, old)
    BY DEF Inv, TypeOK, Records
  <1>7. /\ rec \in Notes
        /\ rec.attempt = note[r][old].attempt
        /\ rec.state \in {"none", "superseded"}
        /\ rec.state = "none" <=> note[r][old].state = "none"
    <2>1. CASE note[r][old].state = "none"
      BY <1>6, <2>1
    <2>2. CASE note[r][old].state # "none"
      <3>1. "superseded" \in NotificationState /\ "none" \in PreWriteCause \cup {"none"}
        BY DEF NotificationState
      <3>2. rec = Moved(note[r][old], "superseded", "none")
        BY <2>2
      <3> QED  BY <1>6, <2>2, <3>1, <3>2, MovedRecord, SMTT(20)
    <2> QED  BY <2>1, <2>2, Zenon
  <1>8. Only(r, old, rec)
    <2>1. note' = [note EXCEPT ![r][old] = rec]
      BY <1>1, Zenon DEF Inv, TypeOK
    <2> QED  BY <1>7, <2>1, Zenon DEF Only
  <1> HIDE DEF rec
  <1>9. /\ note' \in [Recipients -> [Messages -> Notes]]
        /\ note'[r][old] = rec
        /\ \A s \in Recipients, n \in Messages :
             /\ note'[s][n].attempt = note[s][n].attempt
             /\ s # r \/ n # old => note'[s][n] = note[s][n]
    BY <1>8, OnlyOne DEF Inv
  <1>10. TypeOK'
    BY <1>1, <1>4, <1>5, <1>9, Zenon DEF Inv, TypeOK
  <1>11. AttemptNamesOneRecord'
    BY <1>1, <1>9, SameAttempts DEF Inv
  <1>12. History' /\ OneBarrierPerRecipient'
    BY <1>1, WrittenAttempts DEF Inv, History, OneBarrierPerRecipient
  <1>a. DoorbellNamesOneMessage'
    BY <1>1, <1>9 DEF Inv, DoorbellNamesOneMessage
  <1>b. Writers'
    <2> SUFFICES ASSUME NEW s \in Recipients, NEW n \in Messages PROVE OwnWriter(s, n)'
      BY DEF Writers
    <2>1. CASE s = r /\ n = old
      BY <1>7, <1>9, <2>1, Zenon DEF OwnWriter, InFlight, Submitted
    <2>2. CASE s # r \/ n # old
      <3>1. note'[s][n] = note[s][n] /\ OwnWriter(s, n)
        BY <1>9, <2>2 DEF Inv, Writers
      <3>2. wrote' = wrote /\ Context(s, n)' = Context(s, n)
        BY <1>1, <3>1 DEF Context
      <3> QED  BY <3>1, <3>2, Zenon DEF OwnWriter
    <2> QED  BY <2>1, <2>2
  <1>13. Sequences'
    BY <1>1, <1>4 DEF Inv, TypeOK, Sequences
  <1>14. Records'
    <2> SUFFICES ASSUME NEW s \in Recipients, NEW n \in Messages
                 PROVE  RecordOK(s, n)'
      BY DEF Records
    <2>1. RecordOK(s, n) /\ WroteAttempts' = WroteAttempts /\ unwrote' = unwrote
      BY <1>1, WrittenAttempts DEF Inv, Records
    <2>2. CASE n = m
      <3>1. /\ note'[s][n].state = "none"
            /\ note'[s][n].attempt = 0
            /\ entry'[s][n] \in {"pending", "none"}
            /\ seq'[n] # 0
        <4>1. note'[s][m] = note[s][m]
          BY <1>3, <1>9
        <4>2. entry'[s][m] \in {"pending", "none"}
          BY <1>2, <1>5, Zenon
        <4>3. seq'[m] # 0
          BY <1>4 DEF Inv, TypeOK
        <4> QED  BY <1>2, <2>2, <4>1, <4>2, <4>3, Zenon
      <3> QED  BY <3>1, Zenon DEF RecordOK, InFlight, Submitted
    <2>3. CASE s = r /\ n = old
      <3>1. seq'[n] # 0
        BY <1>1, <1>3, <1>4, <1>6, <2>3, Zenon DEF RecordOK, Pending
      <3>2. /\ note[r][old].state \in PreWrite \cup {"withdrawn_by_operator"} =>
                 (note[r][old].attempt \in WroteAttempts => note[r][old].attempt \in unwrote)
            /\ note[r][old].state = "none" <=> note[r][old].attempt = 0
        BY <1>6, Zenon DEF RecordOK, PreWrite
      <3>3. note'[s][n] = rec /\ entry'[s][n] = "superseded"
        BY <1>5, <1>9, <2>3, Zenon
      <3>4. /\ rec.state = "none" <=> rec.attempt = 0
            /\ rec.state = "superseded" => (rec.attempt \in WroteAttempts => rec.attempt \in unwrote)
        BY <1>1, <1>7, <3>2 DEF Replaceable
      <3> QED  BY <1>7, <2>1, <3>1, <3>3, <3>4, Zenon DEF RecordOK, InFlight, Submitted
    <2>4. CASE n # m /\ (s # r \/ n # old)
      <3>1. note'[s][n] = note[s][n] /\ entry'[s][n] = entry[s][n] /\ seq'[n] = seq[n]
        BY <1>4, <1>5, <1>9, <2>4
      <3> QED  BY <2>1, <3>1, Zenon DEF RecordOK
    <2> QED  BY <2>2, <2>3, <2>4
  <1>15. OldestFirst'
    <2> SUFFICES ASSUME NEW s \in Recipients, NEW a \in Messages, NEW b \in Messages,
                        note'[s][b].attempt # 0, 0 < seq'[a], seq'[a] < seq'[b]
                 PROVE  ~ HoldsQueue(s, a)'
      BY DEF OldestFirst
    <2>1. note[s][b].attempt # 0 /\ b # m
      BY <1>2, <1>9, SMTT(20)
    <2>2. a # m
      BY <1>4, <2>1, SMTT(20) DEF Inv, TypeOK
    <2>3. ~ HoldsQueue(s, a)
      BY <1>4, <2>1, <2>2, Zenon DEF Inv, OldestFirst
    <2>4. CASE s = r /\ a = old
      BY <1>5, <2>4 DEF HoldsQueue, Actionable, ClaimedOperator, Pending, Claimed
    <2>5. CASE s # r \/ a # old
      <3>1. note'[s][a] = note[s][a] /\ entry'[s][a] = entry[s][a]
        BY <1>5, <1>9, <2>2, <2>5, Zenon
      <3> QED  BY <2>3, <3>1, Zenon DEF HoldsQueue, Actionable, ClaimedOperator, Pending, Claimed
    <2> QED  BY <2>4, <2>5
  <1> QED  BY <1>10, <1>11, <1>12, <1>a, <1>b, <1>13, <1>14, <1>15 DEF Inv

\* The sequence is numbered by naturals.
LEMMA SeqType == Inv => lastSeq \in Nat /\ lastSeq + 1 \in Nat
  BY DEF Inv, TypeOK

\* A new record for an entry that is pending.
LEMMA QueuedRecord ==
  ASSUME Inv, NEW a \in AttemptIds
  PROVE  /\ Queued(a) \in Notes
         /\ Queued(a).state = "queued"
         /\ Queued(a).attempt = a
         /\ Queued(a).transport = "doorbell"
  BY SeqType, Zenon DEF Queued, NoNote, Notes, NotificationState, NotificationTransport

\* The ids a new attempt may take.
LEMMA UnissuedIds ==
  ASSUME Inv, NEW a \in Unissued
  PROVE  /\ a \in AttemptIds /\ a # 0
         /\ a \notin issued /\ a \notin WroteAttempts
         /\ \A r \in Recipients, m \in Messages : note[r][m].attempt # a
  BY AttemptsAssumption DEF Unissued, Inv, History, AttemptNamesOneRecord

\* RecordOK of a pending entry that was given a queued record with an attempt
\* id nobody has used.
LEMMA QueuedOK ==
  ASSUME Inv, NEW r \in Recipients, NEW m \in Messages,
         note'[r][m].state = "queued",
         note'[r][m].transport = "doorbell",
         note'[r][m].attempt \in Unissued,
         Pending(r, m),
         UNCHANGED <<seq, entry, wrote, unwrote>>
  PROVE  RecordOK(r, m)' /\ OwnWriter(r, m)'
  <1>1. note'[r][m].attempt \notin WroteAttempts /\ note'[r][m].attempt # 0
    BY UnissuedIds
  <1>a. WroteAttempts' = WroteAttempts
    BY WrittenAttempts
  <1>2. RecordOK(r, m)
    BY DEF Inv, Records
  <1>3. entry[r][m] = "pending" /\ seq[m] # 0
    BY <1>2, Zenon DEF RecordOK, Pending
  <1> QED  BY <1>1, <1>a, <1>3, Zenon DEF RecordOK, OwnWriter, InFlight, Submitted

\* A record that a step leaves alone keeps its part of the invariant when
\* nothing is written.
LEMMA KeptRecord ==
  ASSUME Inv, NEW r \in Recipients, NEW m \in Messages, note'[r][m] = note[r][m],
         UNCHANGED <<seq, entry, wrote, unwrote>>
  PROVE  RecordOK(r, m)' /\ OwnWriter(r, m)'
  <1>1. RecordOK(r, m) /\ OwnWriter(r, m) /\ WroteAttempts' = WroteAttempts
    BY WrittenAttempts DEF Inv, Records, Writers
  <1>2. Context(r, m)' = Context(r, m)
    BY Zenon DEF Context
  <1> QED  BY <1>1, <1>2, Zenon DEF RecordOK, OwnWriter

LEMMA PrepareOldestInv ==
  ASSUME Inv, NEW r \in Recipients, PrepareOldest(r)
  PROVE  Inv'
  <1>1. PICK m \in Messages, x \in Unissued :
          /\ Head(r, m)
          /\ note[r][m].state = "none"
          /\ issued' = issued \cup {x}
          /\ note' = [note EXCEPT ![r][m] = Queued(x)]
    BY Zenon DEF PrepareOldest
  <1>2. /\ UNCHANGED <<seq, entry, cleared, barriers, phase, wrote, unwrote>>
        /\ lastSeq' = lastSeq + 1
    BY DEF PrepareOldest
  <1>3. /\ x \in AttemptIds /\ x # 0
        /\ x \notin issued /\ x \notin WroteAttempts
        /\ \A s \in Recipients, n \in Messages : note[s][n].attempt # x
    BY UnissuedIds
  <1> DEFINE rec == Queued(x)
  <1>4. /\ rec \in Notes
        /\ rec.state = "queued"
        /\ rec.attempt = x
        /\ rec.transport = "doorbell"
    BY <1>3, QueuedRecord, Zenon
  <1>5. note' = [note EXCEPT ![r][m] = rec]
    BY <1>1
  <1> HIDE DEF rec
  <1>6. /\ note' \in [Recipients -> [Messages -> Notes]]
        /\ note'[r][m] = rec
        /\ \A s \in Recipients, n \in Messages : s # r \/ n # m => note'[s][n] = note[s][n]
    BY <1>4, <1>5 DEF Inv, TypeOK
  <1>7. /\ Pending(r, m)
        /\ \A n \in Messages : HoldsQueue(r, n) => seq[m] <= seq[n]
    <2>1. ~ ClaimedOperator(r, m)
      BY <1>1 DEF ClaimedOperator, PreWrite
    <2>2. /\ \A n \in Messages : ~ ClaimedOperator(r, n)
          /\ IsFirstActionable(r, m)
      BY <1>1, <2>1 DEF Head
    <2> QED  BY <1>1, <2>2 DEF IsFirstActionable, HoldsQueue, Actionable, InFlight, Submitted
  <1>8. TypeOK'
    BY <1>1, <1>2, <1>3, <1>6, SeqType DEF Inv, TypeOK
  <1>a. \A s \in Recipients, n \in Messages :
          note'[s][n].attempt = IF s = r /\ n = m THEN x ELSE note[s][n].attempt
    BY <1>4, <1>6
  <1>9. AttemptNamesOneRecord'
    <2>1. /\ \A s \in Recipients, n \in Messages :
               note[s][n].attempt # 0 => note[s][n].attempt \in issued
          /\ \A s, t \in Recipients, n, k \in Messages :
               note[s][n].attempt = note[t][k].attempt /\ note[s][n].attempt # 0 => s = t /\ n = k
      BY SMTT(20) DEF Inv, AttemptNamesOneRecord
    <2> QED  BY <1>1, <1>3, <1>a, <2>1 DEF AttemptNamesOneRecord
  <1>b. DoorbellNamesOneMessage'
    <2>1. \A c \in wrote : c.attempt # x
      BY <1>3 DEF WroteAttempts
    <2> QED  BY <1>2, <1>a, <2>1 DEF Inv, DoorbellNamesOneMessage
  <1>10. Records' /\ Writers'
    <2> SUFFICES ASSUME NEW s \in Recipients, NEW n \in Messages
                 PROVE  RecordOK(s, n)' /\ OwnWriter(s, n)'
      BY DEF Records, Writers
    <2>1. CASE s = r /\ n = m
      BY <1>2, <1>4, <1>6, <1>7, <2>1, QueuedOK, Zenon
    <2>2. CASE s # r \/ n # m
      BY <1>2, <1>6, <2>2, KeptRecord, Zenon
    <2> QED  BY <2>1, <2>2
  <1>11. History'
    BY <1>1, <1>2, WrittenAttempts DEF Inv, History
  <1>12. Sequences' /\ OneBarrierPerRecipient'
    BY <1>2 DEF Inv, TypeOK, Sequences, OneBarrierPerRecipient
  <1>13. OldestFirst'
    <2> SUFFICES ASSUME NEW s \in Recipients, NEW a \in Messages, NEW b \in Messages,
                        note'[s][b].attempt # 0, 0 < seq'[a], seq'[a] < seq'[b]
                 PROVE  ~ HoldsQueue(s, a)'
      BY DEF OldestFirst
    <2>1. HoldsQueue(s, a)' => HoldsQueue(s, a)
      <3>1. CASE s = r /\ a = m
        BY <1>1, <1>7, <3>1 DEF HoldsQueue, Actionable
      <3>2. CASE s # r \/ a # m
        BY <1>2, <1>6, <3>2, Zenon DEF HoldsQueue, Actionable, ClaimedOperator, Pending, Claimed
      <3> QED  BY <3>1, <3>2
    <2>2. CASE s = r /\ b = m
      <3>1. seq[a] \in Nat /\ seq[m] \in Nat
        BY DEF Inv, TypeOK
      <3>2. seq[a] < seq[m]
        BY <1>2, <2>2
      <3> QED  BY <1>7, <2>1, <2>2, <3>1, <3>2
    <2>3. CASE s # r \/ b # m
      BY <1>2, <1>6, <2>1, <2>3, Zenon DEF Inv, OldestFirst
    <2> QED  BY <2>2, <2>3
  <1> QED  BY <1>8, <1>9, <1>b, <1>10, <1>11, <1>12, <1>13 DEF Inv

LEMMA RequeueInv ==
  ASSUME Inv, NEW m \in Messages, Requeue(m)
  PROVE  Inv'
  <1> DEFINE R == {r \in Recipients : Requeueable(r, m)}
  <1>1. PICK f \in Fresh(R) :
          /\ note' = [r \in Recipients |-> [note[r] EXCEPT ![m] =
                        IF r \in R THEN Queued(f[r]) ELSE @]]
          /\ issued' = issued \cup {f[r] : r \in R}
    BY Zenon DEF Requeue
  <1>2. /\ lastSeq' = lastSeq + 1
        /\ UNCHANGED <<seq, entry, cleared, barriers, phase, wrote, unwrote>>
    BY Zenon DEF Requeue
  <1>4. \A r \in R : /\ r \in Recipients
                     /\ Pending(r, m)
                     /\ note[r][m].state = "attention_required"
    BY DEF Requeueable
  <1> HIDE DEF R
  <1>5. /\ \A r \in R : f[r] \in Unissued
        /\ \A r, s \in R : f[r] = f[s] => r = s
    BY DEF Fresh
  <1>6. \A r \in R :
          /\ f[r] \in AttemptIds /\ f[r] # 0
          /\ f[r] \notin issued /\ f[r] \notin WroteAttempts
          /\ \A s \in Recipients, n \in Messages : note[s][n].attempt # f[r]
    BY <1>5, UnissuedIds, Zenon
  <1>7. \A r \in R : /\ Queued(f[r]) \in Notes
                     /\ Queued(f[r]).state = "queued"
                     /\ Queued(f[r]).attempt = f[r]
                     /\ Queued(f[r]).transport = "doorbell"
    BY <1>6, QueuedRecord, Zenon
  <1>8. /\ note' \in [Recipients -> [Messages -> Notes]]
        /\ \A r \in R : note'[r][m] = Queued(f[r])
        /\ \A r \in Recipients, n \in Messages :
             r \notin R \/ n # m => note'[r][n] = note[r][n]
    <2>1. note \in [Recipients -> [Messages -> Notes]]
      BY DEF Inv, TypeOK
    <2> QED  BY <1>1, <1>4, <1>7, <2>1
  <1>9. TypeOK'
    <2>1. issued' \in SUBSET AttemptIds
      BY <1>1, <1>6 DEF Inv, TypeOK
    <2> QED  BY <1>2, <1>8, <2>1, SeqType DEF Inv, TypeOK
  <1>a. \A s \in Recipients, n \in Messages :
          note'[s][n].attempt = IF s \in R /\ n = m THEN f[s] ELSE note[s][n].attempt
    BY <1>7, <1>8
  <1>10. AttemptNamesOneRecord'
    <2>1. /\ \A s \in Recipients, n \in Messages :
               note[s][n].attempt # 0 => note[s][n].attempt \in issued
          /\ \A s, t \in Recipients, n, k \in Messages :
               note[s][n].attempt = note[t][k].attempt /\ note[s][n].attempt # 0 => s = t /\ n = k
      BY SMTT(20) DEF Inv, AttemptNamesOneRecord
    <2> QED  BY <1>1, <1>5, <1>6, <1>a, <2>1 DEF AttemptNamesOneRecord
  <1>b. DoorbellNamesOneMessage'
    <2>1. \A c \in wrote : \A r \in R : c.attempt # f[r]
      BY <1>6 DEF WroteAttempts
    <2> QED  BY <1>2, <1>a, <2>1 DEF Inv, DoorbellNamesOneMessage
  <1>11. Records' /\ Writers'
    <2> SUFFICES ASSUME NEW s \in Recipients, NEW n \in Messages
                 PROVE  RecordOK(s, n)' /\ OwnWriter(s, n)'
      BY DEF Records, Writers
    <2>1. CASE s \in R /\ n = m
      BY <1>2, <1>4, <1>5, <1>7, <1>8, <2>1, QueuedOK, Zenon
    <2>2. CASE s \notin R \/ n # m
      <3>1. note'[s][n] = note[s][n]
        BY <1>8, <2>2, Zenon
      <3> QED  BY <1>2, <3>1, KeptRecord, Zenon
    <2> QED  BY <2>1, <2>2
  <1>12. History'
    BY <1>1, <1>2, WrittenAttempts DEF Inv, History
  <1>13. Sequences' /\ OneBarrierPerRecipient'
    BY <1>2 DEF Inv, TypeOK, Sequences, OneBarrierPerRecipient
  <1>14. OldestFirst'
    <2>1. ASSUME NEW s \in Recipients, NEW n \in Messages
          PROVE  /\ note'[s][n].attempt # 0 => note[s][n].attempt # 0
                 /\ HoldsQueue(s, n)' => HoldsQueue(s, n)
      <3>1. CASE s \in R /\ n = m
        <4>1. RecordOK(s, n)
          BY DEF Inv, Records
        <4> QED  BY <1>4, <3>1, <4>1, Zenon DEF RecordOK, HoldsQueue, Actionable
      <3>2. CASE s \notin R \/ n # m
        BY <1>2, <1>8, <3>2, Zenon DEF HoldsQueue, Actionable, ClaimedOperator, Pending, Claimed
      <3> QED  BY <3>1, <3>2
    <2> QED  BY <1>2, <2>1, SameQueue DEF Inv
  <1> QED  BY <1>9, <1>10, <1>b, <1>11, <1>12, <1>13, <1>14 DEF Inv

LEMMA QuietInv ==
  ASSUME Inv, (\E ids \in SUBSET Alarms : ClearAlarms(ids)) \/ Crash \/ FinishBoot \/ UNCHANGED vars
  PROVE  Inv'
  <1>1. /\ UNCHANGED <<lastSeq, seq, entry, note, issued, barriers, wrote, unwrote>>
        /\ phase' \in {"boot", "open"}
        /\ cleared' \in SUBSET AttemptIds
    <2>1. /\ cleared \in SUBSET AttemptIds /\ phase \in {"boot", "open"}
          /\ Alarms \subseteq AttemptIds
      BY DEF Inv, TypeOK, Alarms
    <2>2. CASE \E ids \in SUBSET Alarms : ClearAlarms(ids)
      BY <2>1, <2>2 DEF ClearAlarms
    <2>3. CASE Crash
      BY <2>1, <2>3 DEF Crash
    <2>4. CASE FinishBoot
      BY <2>1, <2>4 DEF FinishBoot
    <2>5. CASE UNCHANGED vars
      BY <2>1, <2>5 DEF vars
    <2> QED  BY <2>2, <2>3, <2>4, <2>5
  <1>2. TypeOK'
    BY <1>1 DEF Inv, TypeOK
  <1>3. AttemptNamesOneRecord' /\ History' /\ Sequences' /\ OneBarrierPerRecipient'
    BY <1>1, WrittenAttempts DEF Inv, AttemptNamesOneRecord, History, Sequences, OneBarrierPerRecipient
  <1>a. DoorbellNamesOneMessage' /\ Writers'
    BY <1>1, SameWriters DEF Inv
  <1>4. Records'
    <2> SUFFICES ASSUME NEW r \in Recipients, NEW m \in Messages PROVE RecordOK(r, m)'
      BY DEF Records
    <2> QED  BY <1>1, KeptRecord
  <1>5. OldestFirst'
    BY <1>1, Zenon DEF Inv, OldestFirst, HoldsQueue, Actionable, ClaimedOperator, Pending, Claimed
  <1> QED  BY <1>2, <1>3, <1>a, <1>4, <1>5 DEF Inv

\* What a worker or a scheduler commits, it commits through the context of
\* the current record.
LEMMA CurrentContext ==
  ASSUME NEW c \in Contexts, Park(c) \/ RecordMailboxNotified(c) \/ Worker(c)
  PROVE  \E r \in Recipients, m \in Messages : c = Context(r, m)
  <1>1. Owns(c)
    BY DEF Park, Worker, RecordGating, RecordPreWriteBlock, RecordMailboxNotified, RecordWriting,
           RecordWritingRaw, MayWrite, RecordPasteCommandUnwritten, RecordSubmitted,
           RecordNotified, SettleSubmittedClaim, RecordAttention
  <1> QED  BY <1>1, OwnedContext, Zenon

\* Every step preserves Inv.
LEMMA NextInv == Inv /\ [Next]_vars => Inv'
  <1> SUFFICES ASSUME Inv, [Next]_vars PROVE Inv'
    OBVIOUS
  <1>1. CASE Send
    BY <1>1, AcceptInv, SupersedeInv DEF Send
  <1>2. CASE \E r \in Recipients, m \in Messages : Claim(r, m)
    BY <1>2, ClaimInv
  <1>3. CASE \E r \in Recipients : PrepareOldest(r)
    BY <1>3, PrepareOldestInv
  <1>4. CASE \E r \in Recipients, later, ready \in BOOLEAN : ReopenOldest(r, later, ready)
    BY <1>4, ReopenOldestInv
  <1>5. ASSUME NEW r \in Recipients, NEW m \in Messages, Park(Context(r, m))
        PROVE  Inv'
    BY <1>5, RecordGatingInv, RecordPreWriteBlockInv DEF Park
  <1>6. ASSUME NEW r \in Recipients, NEW m \in Messages, Worker(Context(r, m))
        PROVE  Inv'
    BY <1>6, RecordWritingInv, RecordWritingRawInv, RecordPasteCommandUnwrittenInv,
       RecordSubmittedInv, RecordNotifiedInv, RecordAttentionInv DEF Worker
  <1>7. CASE Operator
    BY <1>7, WithdrawInv, RequeueInv, QuietInv DEF Operator
  <1>8. CASE Restart
    BY <1>8, RecoverInv, QuietInv DEF Restart
  <1>9. CASE UNCHANGED vars
    BY <1>9, QuietInv
  <1>10. ASSUME NEW c \in Contexts, Park(c) \/ RecordMailboxNotified(c) \/ Worker(c)
         PROVE  Inv'
    <2>1. PICK r \in Recipients, m \in Messages : c = Context(r, m)
      BY <1>10, CurrentContext
    <2> QED  BY <1>5, <1>6, <1>10, <2>1, RecordMailboxNotifiedInv, Zenon
  <1> QED  BY <1>1, <1>2, <1>3, <1>4, <1>7, <1>8, <1>9, <1>10 DEF Next

-----------------------------------------------------------------------------
(* What one step may do to one record.                                     *)

StepOK(old, new) ==
  \/ new = old
  \/ new.attempt # old.attempt /\ new.state = "queued"
  \/ old.state = "withdrawn_by_operator" /\ new.state = "superseded"
  \/ /\ old.state \notin Terminal
     /\ new.state = "writing" => old.state = "gating" /\ new.attempt = old.attempt

Steps == \A r \in Recipients, m \in Messages : StepOK(note[r][m], note'[r][m])

LEMMA OneStep ==
  ASSUME Inv, NEW r \in Recipients, NEW m \in Messages, NEW rec,
         note' = [note EXCEPT ![r][m] = rec], StepOK(note[r][m], rec)
  PROVE  Steps
  <1>1. /\ note'[r][m] = rec
        /\ \A s \in Recipients, n \in Messages : s # r \/ n # m => note'[s][n] = note[s][n]
    BY DEF Inv, TypeOK
  <1> QED  BY <1>1, Zenon DEF Steps, StepOK

LEMMA MoveStep ==
  ASSUME Inv, NEW r \in Recipients, NEW m \in Messages,
         NEW state \in NotificationState, NEW cause,
         note' = [note EXCEPT ![r][m] = Moved(@, state, cause)],
         \/ note[r][m].state = "withdrawn_by_operator" /\ state = "superseded"
         \/ note[r][m].state \notin Terminal /\ state # "writing"
  PROVE  Steps
  <1>1. note[r][m] \in Notes
    BY DEF Inv, TypeOK
  <1>2. Moved(note[r][m], state, cause).state = state
    BY <1>1 DEF Moved, Notes
  <1>3. StepOK(note[r][m], Moved(note[r][m], state, cause))
    BY <1>2, Zenon DEF StepOK
  <1> QED  BY <1>3, OneStep, Zenon

LEMMA WriteStep ==
  ASSUME Inv, NEW r \in Recipients, NEW m \in Messages, NEW rec,
         note' = [note EXCEPT ![r][m] = rec],
         note[r][m].state \in {"queued", "gating"},
         rec.state = "writing" =>
           note[r][m].state = "gating" /\ rec.attempt = note[r][m].attempt
  PROVE  Steps
  <1>1. StepOK(note[r][m], rec)
    BY DEF StepOK, Terminal
  <1> QED  BY <1>1, OneStep, Zenon

LEMMA SendSteps == ASSUME Inv, Send PROVE Steps
  <1>1. CASE note' = note
    BY <1>1 DEF Steps, StepOK
  <1>2. ASSUME NEW m \in Messages, NEW old \in Messages, NEW r \in Recipients,
               Supersede(m, old, r), note' # note
        PROVE  Steps
    <2>1. /\ note' = [note EXCEPT ![r][old] = Moved(@, "superseded", "none")]
          /\ note[r][old].state \in PreWrite \cup {"none", "withdrawn_by_operator"}
      BY <1>2 DEF Supersede, Replaceable
    <2> QED  BY <2>1, MoveStep, Zenon DEF NotificationState, PreWrite, Terminal
  <1> QED  BY <1>1, <1>2 DEF Send, Accept

LEMMA ClaimSteps ==
  ASSUME Inv, NEW r \in Recipients, NEW m \in Messages, Claim(r, m) PROVE Steps
  <1>1. CASE note' = note
    BY <1>1 DEF Steps, StepOK
  <1>2. CASE note' # note
    <2> DEFINE settled == SettledByClaim(note[r][m].state, note[r][m].transport)
    <2>1. PICK cause \in PreWriteCause \cup {"none"} :
            /\ settled # note[r][m].state
            /\ note' = [note EXCEPT ![r][m] = Moved(@, settled, cause)]
      BY <1>2, Zenon DEF Claim, PreWriteCause
    <2>2. /\ note[r][m].state \in NotificationState \cup {"none"}
          /\ note[r][m].transport \in NotificationTransport
      BY DEF Inv, TypeOK, Notes
    <2>3. /\ settled \in {"withdrawn", "notified"}
          /\ note[r][m].state \in PreWrite \cup Submitted
      BY <2>1, <2>2, SettledState
    <2> HIDE DEF settled
    <2> QED  BY <2>1, <2>3, MoveStep, Zenon DEF NotificationState, PreWrite, Submitted, Terminal
  <1> QED  BY <1>1, <1>2

LEMMA SchedulerSteps ==
  ASSUME Inv, NEW r \in Recipients,
         PrepareOldest(r) \/ \E later, ready \in BOOLEAN : ReopenOldest(r, later, ready)
  PROVE  Steps
  <1>1. ASSUME PrepareOldest(r) PROVE Steps
    <2>1. PICK m \in Messages, x \in Unissued :
            /\ note[r][m].state = "none"
            /\ note' = [note EXCEPT ![r][m] = Queued(x)]
      BY <1>1, Zenon DEF PrepareOldest
    <2>a. Queued(x).state = "queued"
      BY UnissuedIds, QueuedRecord
    <2>2. StepOK(note[r][m], Queued(x))
      BY <2>1, <2>a DEF StepOK, Terminal
    <2> QED  BY <2>1, <2>2, OneStep, Zenon
  <1>2. ASSUME NEW later \in BOOLEAN, NEW ready \in BOOLEAN, ReopenOldest(r, later, ready)
        PROVE  Steps
    <2>1. PICK m \in Messages :
            /\ note[r][m].state = "blocked_pre_write"
            /\ MayReopen(note[r][m])
            /\ note' = [note EXCEPT ![r][m] = Reopened(@)]
      BY <1>2, Zenon DEF ReopenOldest
    <2>2. note[r][m] \in Notes /\ note[r][m].reopen = 0
      BY <2>1 DEF Inv, TypeOK, MayReopen, Notes
    <2>3. StepOK(note[r][m], Reopened(note[r][m]))
      BY <2>1, <2>2, ReopenedRecord DEF StepOK, Terminal
    <2> QED  BY <2>1, <2>3, OneStep, Zenon
  <1> QED  BY <1>1, <1>2

LEMMA ContextSteps ==
  ASSUME Inv, NEW r \in Recipients, NEW m \in Messages,
         Park(Context(r, m)) \/ RecordMailboxNotified(Context(r, m)) \/ Worker(Context(r, m))
  PROVE  Steps
  <1> DEFINE c == Context(r, m)
  <1>1. ASSUME NEW state \in NotificationState \ {"writing"}, NEW cause,
               Advance(c, state, cause), note[r][m].state \notin Terminal
        PROVE  Steps
    BY <1>1, AdvanceRecord, MoveStep
  <1>2. /\ Record(c) = note[r][m]
        /\ c.recipient = r /\ c.message = m
    BY ContextRecord, Zenon DEF Context
  <1>a. note[r][m] \in Notes
    BY DEF Inv, TypeOK
  <1>3. CASE Park(c)
    BY <1>1, <1>2, <1>3, Zenon DEF Park, RecordGating, RecordPreWriteBlock, NotificationState, Terminal
  <1>4. CASE RecordMailboxNotified(c)
    <2> DEFINE rec == [Moved(note[r][m], "notified", "none") EXCEPT !.transport = "mailbox"]
    <2>1. note[r][m].state = "queued" /\ note' = [note EXCEPT ![r][m] = rec]
      BY <1>2, <1>4 DEF RecordMailboxNotified
    <2>2. rec.state = "notified"
      BY <1>a DEF Moved, Notes
    <2> HIDE DEF rec
    <2> QED  BY <2>1, <2>2, WriteStep, Zenon
  <1>5. CASE RecordWriting(c)
    <2> DEFINE rec == [Moved(note[r][m], "writing", "none") EXCEPT !.transport = "doorbell"]
    <2>1. note[r][m].state = "gating" /\ note' = [note EXCEPT ![r][m] = rec]
      BY <1>2, <1>5 DEF RecordWriting, MayWrite
    <2>2. rec.state = "writing" /\ rec.attempt = note[r][m].attempt
      BY <1>a DEF Moved, Notes
    <2> HIDE DEF rec
    <2> QED  BY <2>1, <2>2, WriteStep, Zenon
  <1>6. CASE RecordWritingRaw(c)
    <2> DEFINE rec == [Moved(note[r][m], "writing", "none") EXCEPT !.transport = "raw"]
    <2>1. note[r][m].state = "gating" /\ note' = [note EXCEPT ![r][m] = rec]
      BY <1>2, <1>6 DEF RecordWritingRaw, MayWrite
    <2>2. rec.state = "writing" /\ rec.attempt = note[r][m].attempt
      BY <1>a DEF Moved, Notes
    <2> HIDE DEF rec
    <2> QED  BY <2>1, <2>2, WriteStep, Zenon
  <1>7. CASE RecordPasteCommandUnwritten(c)
    BY <1>1, <1>2, <1>7, Zenon DEF RecordPasteCommandUnwritten, NotificationState, Terminal
  <1>8. ASSUME NEW state \in Submitted, RecordSubmitted(c, state)
        PROVE  Steps
    <2>1. note[r][m].state \notin Terminal
      BY <1>2, <1>8 DEF RecordSubmitted, NextStates, Terminal, Submitted
    <2> QED  BY <1>1, <1>8, <2>1 DEF RecordSubmitted, NotificationState, Submitted
  <1>9. CASE RecordNotified(c) \/ SettleSubmittedClaim(c)
    BY <1>1, <1>2, <1>9, Zenon DEF RecordNotified, SettleSubmittedClaim, NotificationState, Terminal,
                            InFlight, Submitted
  <1>10. CASE RecordAttention(c)
    BY <1>1, <1>2, <1>10, Zenon DEF RecordAttention, NotificationState
  <1> QED  BY <1>3, <1>4, <1>5, <1>6, <1>7, <1>8, <1>9, <1>10 DEF Worker

LEMMA OperatorSteps == ASSUME Inv, Operator PROVE Steps
  <1>1. ASSUME NEW r \in Recipients, NEW m \in Messages, Withdraw(r, m)
        PROVE  Steps
    <2>1. /\ note' = [note EXCEPT ![r][m] = Moved(@, "withdrawn_by_operator", "none")]
          /\ note[r][m].state \in PreWrite
      BY <1>1 DEF Withdraw, Withdrawable
    <2> QED  BY <2>1, MoveStep, Zenon DEF NotificationState, PreWrite, Terminal
  <1>2. ASSUME NEW m \in Messages, Requeue(m)
        PROVE  Steps
    <2> DEFINE R == {r \in Recipients : Requeueable(r, m)}
    <2>1. PICK f \in Fresh(R) :
            note' = [r \in Recipients |-> [note[r] EXCEPT ![m] =
                       IF r \in R THEN Queued(f[r]) ELSE @]]
      BY <1>2, Zenon DEF Requeue
    <2>2. \A r \in R : /\ f[r] \in Unissued
                       /\ f[r] # note[r][m].attempt
                       /\ Queued(f[r]).state = "queued" /\ Queued(f[r]).attempt = f[r]
      <3>1. \A r \in R : r \in Recipients /\ f[r] \in Unissued
        BY DEF Fresh
      <3> HIDE DEF R
      <3> QED  BY <3>1, UnissuedIds, QueuedRecord, Zenon
    <2>3. \A r \in Recipients, n \in Messages :
            note'[r][n] = IF r \in R /\ n = m THEN Queued(f[r]) ELSE note[r][n]
      BY <2>1, Zenon DEF Inv, TypeOK
    <2>4. ASSUME NEW r \in R
          PROVE  StepOK(note[r][m], Queued(f[r]))
      BY <2>2 DEF StepOK
    <2>5. ASSUME NEW r \in Recipients, NEW n \in Messages
          PROVE  StepOK(note[r][n], note'[r][n])
      <3>1. CASE r \in R /\ n = m
        BY <2>3, <2>4, <3>1, Zenon
      <3>2. CASE ~ (r \in R /\ n = m)
        BY <2>3, <3>2, Zenon DEF StepOK
      <3> QED  BY <3>1, <3>2, Zenon
    <2> QED  BY <2>5 DEF Steps
  <1>3. CASE note' = note
    BY <1>3 DEF Steps, StepOK
  <1> QED  BY <1>1, <1>2, <1>3 DEF Operator, ClearAlarms

LEMMA NextSteps == Inv /\ [Next]_vars => Steps
  <1> SUFFICES ASSUME Inv, [Next]_vars PROVE Steps
    OBVIOUS
  <1>1. CASE note' = note
    BY <1>1 DEF Steps, StepOK
  <1>2. CASE Restart
    <2>1. ASSUME NEW r \in Recipients, NEW m \in Messages, Recover(r, m)
          PROVE  Steps
      <3>1. /\ note' = [note EXCEPT ![r][m] = Moved(@, Recovered(r, m), "none")]
            /\ note[r][m].state \in InFlight
        BY <2>1 DEF Recover
      <3> QED  BY <3>1, MoveStep, Zenon DEF Recovered, NotificationState, InFlight, Submitted, Terminal
    <2> QED  BY <1>1, <1>2, <2>1 DEF Restart, Crash, FinishBoot
  <1>3. ASSUME NEW c \in Contexts, Park(c) \/ RecordMailboxNotified(c) \/ Worker(c)
        PROVE  Steps
    <2>1. PICK r \in Recipients, m \in Messages : c = Context(r, m)
      BY <1>3, CurrentContext
    <2> QED  BY <1>3, <2>1, ContextSteps, Zenon
  <1> QED  BY <1>1, <1>2, <1>3, SendSteps, ClaimSteps, SchedulerSteps, OperatorSteps DEF Next, vars

-----------------------------------------------------------------------------
(* The theorems.                                                           *)

\* Inv holds in every reachable state.
THEOREM Invariance == Spec => []Inv
  BY InitInv, NextInv, PTL DEF Spec

\* The mailbox's state has its type whatever the senders, recipients,
\* workers, operators and restarts do.
THEOREM TypeCorrect == Spec => []TypeOK
  <1>1. Inv => TypeOK
    BY DEF Inv
  <1> QED  BY <1>1, Invariance, PTL

\* The attempt id a doorbell was written with never stands for another
\* message or another recipient, whatever is queued and requeued later.
THEOREM DoorbellsNameOneMessage == Spec => []DoorbellNamesOneMessage
  <1>1. Inv => DoorbellNamesOneMessage
    BY DEF Inv
  <1> QED  BY <1>1, Invariance, PTL

\* withdraw_before_write, claims and supersession only end attempts that
\* wrote nothing.
THEOREM WithdrawalsWroteNothing == Spec => []WithdrawnMeansUnwritten
  <1>1. Inv => WithdrawnMeansUnwritten
    BY Zenon DEF Inv, Records, RecordOK, WithdrawnMeansUnwritten
  <1> QED  BY <1>1, Invariance, PTL

\* prepare_oldest_notification rings a recipient's doorbells in the order of
\* acceptance.
THEOREM DoorbellsAreFIFO == Spec => []OldestFirst
  <1>1. Inv => OldestFirst
    BY DEF Inv
  <1> QED  BY <1>1, Invariance, PTL

\* A claim leaves nothing at the gate.
THEOREM ClaimsEndWakes == Spec => []ClaimedNeverGates
  <1>1. Inv => ClaimedNeverGates
    BY Zenon DEF Inv, Records, RecordOK, ClaimedNeverGates, Claimed
  <1> QED  BY <1>1, Invariance, PTL

\* record_writing keeps one composer barrier per recipient.
THEOREM BarriersAreUnique == Spec => []OneBarrierPerRecipient
  <1>1. Inv => OneBarrierPerRecipient
    BY DEF Inv
  <1> QED  BY <1>1, Invariance, PTL

\* Recovery and the workers raise an alarm only for an attempt that may have
\* written, through a worker of its own attempt and epoch.
THEOREM AlarmsAreAboutWrites == Spec => []AlarmsWereWritten
  <1>1. Inv => AlarmsWereWritten
    BY Zenon DEF Inv, Records, RecordOK, Writers, OwnWriter, AlarmsWereWritten
  <1> QED  BY <1>1, Invariance, PTL

\* record_writing is reached at most once in the life of an attempt.
THEOREM AttemptsWriteOnce == Spec => WritesOnce
  <1> DEFINE A == \A r \in Recipients, m \in Messages :
                    note[r][m].state # "writing" /\ note'[r][m].state = "writing" =>
                      note'[r][m].attempt \notin WroteAttempts
  <1>1. Inv /\ [Next]_vars /\ Inv' => A
    <2> SUFFICES ASSUME Inv, [Next]_vars, NEW r \in Recipients, NEW m \in Messages,
                        note[r][m].state # "writing", note'[r][m].state = "writing"
                 PROVE  note'[r][m].attempt \notin WroteAttempts
      OBVIOUS
    <2>1. note[r][m].state = "gating" /\ note'[r][m].attempt = note[r][m].attempt
      BY NextSteps, Zenon DEF Steps, StepOK
    <2> QED  BY <2>1, Zenon DEF Inv, Records, RecordOK
  <1> HIDE DEF A
  <1>2. Spec => [][A]_vars
    BY <1>1, Invariance, PTL DEF Spec
  <1> QED  BY <1>2 DEF WritesOnce, A

\* A settled notification stays settled under its attempt id.
THEOREM OutcomesAreFinal == Spec => OutcomeIsFinal
  <1> DEFINE A == \A r \in Recipients, m \in Messages :
                    note[r][m].state \in Terminal /\ note'[r][m].attempt = note[r][m].attempt =>
                      \/ note'[r][m].state = note[r][m].state
                      \/ note[r][m].state = "withdrawn_by_operator" /\ note'[r][m].state = "superseded"
  <1>1. Inv /\ [Next]_vars => A
    BY NextSteps, Zenon DEF Steps, StepOK
  <1> HIDE DEF A
  <1>2. Spec => [][A]_vars
    BY <1>1, Invariance, PTL DEF Spec
  <1> QED  BY <1>2 DEF OutcomeIsFinal, A
=============================================================================
