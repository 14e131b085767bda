------------------------------- MODULE Mailbox -------------------------------
(***************************************************************************)
(* The durable mailbox: messages, one entry per message and recipient, and *)
(* one notification record per entry.  Every operation holds the store's   *)
(* mutex from its check to the commit of its journal line, so each one is  *)
(* a single action; Ledger and MessageJournal show what the journal line   *)
(* itself is worth across failures.  An operation that is refused appends  *)
(* nothing and is a stuttering step.                                       *)
(*                                                                         *)
(* The senders, the operator, the recipients and the delivery workers call *)
(* the operations in any order here, the workers through current contexts  *)
(* and through stale ones; Delivery composes them with the workers'        *)
(* program order.                                                          *)
(***************************************************************************)
EXTENDS Integers, Notification

CONSTANTS Recipients,   \* recipient keys of agents
          Headless,     \* the recipients that have no pane
          Messages,     \* message ids
          BlockCauses,  \* causes of the pre-write blocks that are explored
          AttemptIds    \* notification attempt ids; a bound on the attempts issued

ASSUME RecipientsAssumption == Headless \subseteq Recipients

\* 0 is the attempt of an entry that has none.
ASSUME AttemptsAssumption == 0 \notin AttemptIds

ASSUME CausesAssumption ==
  BlockCauses \subseteq PreWriteCause \ {"paste_command_unwritten", "claimed_before_write"}

VARIABLES
  lastSeq,   \* journal sequence of the last message or attempt
  seq,       \* seq[m]: the sequence of message m, 0 before its acceptance
  entry,     \* entry[r][m]: state of the mailbox entry
  note,      \* note[r][m]: the current notification record
  issued,    \* notification_attempts: every attempt id a line has queued
  cleared,   \* attempts whose alarm an operator cleared
  barriers,  \* active_notification_barriers
  phase,     \* "boot" while recovery runs, then "open"
  wrote,     \* history: contexts through which a Writing fact was committed
  unwrote    \* history: attempts whose paste was proved not to have happened

vars == <<lastSeq, seq, entry, note, issued, cleared, barriers, phase, wrote, unwrote>>

EntryState == {"none", "pending", "claimed", "superseded"}

NoNote ==
  [state |-> "none", attempt |-> 0, started |-> 0, transport |-> "doorbell",
   cause |-> "none", reopen |-> 0]

Notes ==
  [state : NotificationState \cup {"none"}, attempt : AttemptIds \cup {0}, started : Nat,
   transport : NotificationTransport, cause : PreWriteCause \cup {"none"}, reopen : {0, 1}]

\* The context a worker or a scheduler holds: one attempt and one execution
\* epoch of it.
Contexts == [recipient : Recipients, message : Messages, attempt : AttemptIds, epoch : {0, 1}]

TypeOK ==
  /\ lastSeq \in Nat
  /\ seq \in [Messages -> Nat]
  /\ entry \in [Recipients -> [Messages -> EntryState]]
  /\ note \in [Recipients -> [Messages -> Notes]]
  /\ issued \in SUBSET AttemptIds
  /\ cleared \in SUBSET AttemptIds
  /\ barriers \in SUBSET [recipient : Recipients, attempt : AttemptIds]
  /\ phase \in {"boot", "open"}
  /\ wrote \in SUBSET Contexts
  /\ unwrote \in SUBSET AttemptIds

Init ==
  /\ lastSeq = 0
  /\ seq = [m \in Messages |-> 0]
  /\ entry = [r \in Recipients |-> [m \in Messages |-> "none"]]
  /\ note = [r \in Recipients |-> [m \in Messages |-> NoNote]]
  /\ issued = {}
  /\ cleared = {}
  /\ barriers = {}
  /\ phase = "open"
  /\ wrote = {}
  /\ unwrote = {}

-----------------------------------------------------------------------------
(* Reads of the projection.                                                *)

Pending(r, m) == entry[r][m] = "pending"
Claimed(r, m) == entry[r][m] = "claimed"

\* The entries that hold the head of a recipient's notification queue.
Actionable(r, m) ==
  \/ Pending(r, m) /\ note[r][m].state # "withdrawn_by_operator"
  \/ Claimed(r, m) /\ note[r][m].state \in {"queued", "gating"} \cup InFlight

\* claimed_operator_notification: a claimed doorbell that was not submitted
\* keeps its place in the queue.
ClaimedOperator(r, m) ==
  /\ Claimed(r, m)
  /\ note[r][m].transport = "doorbell"
  /\ note[r][m].state \in PreWrite \cup {"writing"}

\* An entry that keeps younger ones of its recipient from being rung.
HoldsQueue(r, m) == Actionable(r, m) \/ ClaimedOperator(r, m)

\* first_actionable_notification_message_id
IsFirstActionable(r, m) ==
  /\ Actionable(r, m)
  /\ \A n \in Messages : Actionable(r, n) => seq[m] <= seq[n]

\* first_actionable_pending_message_id
IsFirstActionablePending(r, m) ==
  LET Waits(n) == Pending(r, n) /\ note[r][n].state # "withdrawn_by_operator"
  IN  Waits(m) /\ \A n \in Messages : Waits(n) => seq[m] <= seq[n]

\* Mutant: a claimed doorbell in the middle of its write is passed over.
HeadPending(r, m) == IsFirstActionablePending(r, m)

\* The message prepare_oldest_notification works on.
Head(r, m) ==
  \/ /\ ClaimedOperator(r, m)
     /\ \A n \in Messages : ClaimedOperator(r, n) => note[r][m].started <= note[r][n].started
  \/ /\ \A n \in Messages : ~ ClaimedOperator(r, n)
     /\ IsFirstActionable(r, m)

\* An alarm `cyclops requeue` acts on.
Requeueable(r, m) ==
  /\ Pending(r, m)
  /\ note[r][m].state = "attention_required"
  /\ note[r][m].attempt \notin cleared

\* The context of the current record.
Context(r, m) ==
  [recipient |-> r, message |-> m, attempt |-> note[r][m].attempt, epoch |-> note[r][m].reopen]

Record(c) == note[c.recipient][c.message]

\* Mutant: a context of an earlier epoch still passes.
OwnsAnyEpoch(c) == Record(c).attempt = c.attempt

\* owns: attempt and epoch of the context are those of the record.
Owns(c) == Record(c).attempt = c.attempt /\ Record(c).reopen = c.epoch

\* entry_allows_notification
EntryAllows(c) == Pending(c.recipient, c.message)

\* The record after a transition: attempt, transport and reopenings stay.
Moved(record, state, cause) == [record EXCEPT !.state = state, !.cause = cause]

-----------------------------------------------------------------------------
(* Senders.                                                                *)

\* accept_canonical_at for a new message: one line, one pending entry for
\* every recipient.
Accept(m, to) ==
  /\ phase = "open"
  /\ seq[m] = 0
  /\ to # {}
  /\ lastSeq' = lastSeq + 1
  /\ seq' = [seq EXCEPT ![m] = lastSeq + 1]
  /\ entry' = [r \in Recipients |-> [entry[r] EXCEPT ![m] = IF r \in to THEN "pending" ELSE @]]
  /\ UNCHANGED <<note, issued, cleared, barriers, phase, wrote, unwrote>>

\* The states of a notification that a superseding message may replace.
Replaceable(state) == state \in PreWrite \cup {"none", "withdrawn_by_operator"}

\* A message that supersedes an unread one of the same sender with the same
\* single recipient: one line accepts the new message and retires the old.
Supersede(m, old, r) ==
  /\ phase = "open"
  /\ seq[m] = 0
  /\ Pending(r, old)
  /\ \A s \in Recipients \ {r} : entry[s][old] = "none"
  /\ Replaceable(note[r][old].state)
  /\ lastSeq' = lastSeq + 1
  /\ seq' = [seq EXCEPT ![m] = lastSeq + 1]
  /\ entry' = [entry EXCEPT ![r][m] = "pending", ![r][old] = "superseded"]
  /\ note' = IF note[r][old].state = "none" THEN note
             ELSE [note EXCEPT ![r][old] = Moved(@, "superseded", "none")]
  /\ UNCHANGED <<issued, cleared, barriers, phase, wrote, unwrote>>

-----------------------------------------------------------------------------
(* The recipient.                                                          *)

\* claim_at and prepare_claim for a pending entry.  Claiming again answers
\* from the projection and appends nothing.
Claim(r, m) ==
  LET settled == SettledByClaim(note[r][m].state, note[r][m].transport)
  IN  /\ phase = "open"
      /\ Pending(r, m)
      /\ entry' = [entry EXCEPT ![r][m] = "claimed"]
      /\ note' = IF settled = note[r][m].state THEN note
                 ELSE [note EXCEPT ![r][m] =
                         Moved(@, settled,
                               IF settled = "withdrawn" THEN "claimed_before_write" ELSE "none")]
      /\ UNCHANGED <<lastSeq, seq, issued, cleared, barriers, phase, wrote, unwrote>>

-----------------------------------------------------------------------------
(* The scheduler.                                                          *)

\* Mutant: an id that was issued before is taken.
UnissuedAny == AttemptIds

\* NotificationAttemptId::generate draws any id; prepare_notification and
\* prepare_notification_requeue_record refuse one that was issued before
\* (NotificationAttemptReused), and the caller leaves things as they were.
Unissued == AttemptIds \ issued

\* The record of a fresh attempt.
Queued(a) == [NoNote EXCEPT !.state = "queued", !.attempt = a, !.started = lastSeq + 1]

\* prepare_oldest_notification for a head without a record: the first
\* attempt is queued.  For a head that is queued or gating the call only
\* returns the record.
PrepareOldest(r) ==
  /\ phase = "open"
  /\ \E m \in Messages, a \in Unissued :
       /\ Head(r, m)
       /\ note[r][m].state = "none"
       /\ issued' = issued \cup {a}
       /\ note' = [note EXCEPT ![r][m] = Queued(a)]
  /\ lastSeq' = lastSeq + 1
  /\ UNCHANGED <<seq, entry, cleared, barriers, phase, wrote, unwrote>>

\* The causes a complete binding reopens: at once, after later route
\* evidence, or after later evidence that finds the pane ready for a write.
CauseChanged(cause, later, ready) ==
  \/ cause \in {"session_unavailable", "worker_failed"}
  \/ cause = "binding_unprovable" /\ later
  \/ cause = "write_readiness_changed" /\ later /\ ready

\* An attempt is reopened once.
MayReopen(record) == record.reopen < 1

\* The record goes back to the gate in a new execution epoch.
Reopened(record) ==
  [record EXCEPT !.state = "gating", !.cause = "none", !.reopen = @ + 1]

\* reopen_oldest_notification_after_route_evidence with a complete binding.
ReopenOldest(r, later, ready) ==
  /\ phase = "open"
  /\ \E m \in Messages :
       /\ IsFirstActionablePending(r, m)
       /\ note[r][m].state = "blocked_pre_write"
       /\ CauseChanged(note[r][m].cause, later, ready)
       /\ MayReopen(note[r][m])
       /\ note' = [note EXCEPT ![r][m] = Reopened(@)]
  /\ UNCHANGED <<lastSeq, seq, entry, issued, cleared, barriers, phase, wrote, unwrote>>

-----------------------------------------------------------------------------
(* The delivery worker, through NotificationContext.                       *)

\* append_transition: the current record of c moves to `state`.
Advance(c, state, cause) ==
  /\ phase = "open"
  /\ note' = [note EXCEPT ![c.recipient][c.message] = Moved(@, state, cause)]
  /\ UNCHANGED <<lastSeq, seq, entry, issued, cleared, phase>>

Unwritten == UNCHANGED <<barriers, wrote, unwrote>>

\* record_gating on a queued attempt; on a gating one it changes nothing.
RecordGating(c) ==
  /\ Owns(c)
  /\ EntryAllows(c)
  /\ Record(c).state = "queued"
  /\ Advance(c, "gating", "none")
  /\ Unwritten

\* Mutant: a submitted doorbell without a receipt may be written again.
MayWriteSubmitted(c) == Owns(c) /\ Record(c).state \in {"gating", "submitted"} /\ EntryAllows(c)

\* ensure_current_gating, and the recheck inside record_writing.
MayWrite(c) == Owns(c) /\ Record(c).state = "gating" /\ EntryAllows(c)

\* record_writing: the durable write boundary, bound to the proved occupant.
\* It evicts the recipient's older barriers.
RecordWriting(c) ==
  /\ MayWrite(c)
  /\ phase = "open"
  /\ note' = [note EXCEPT ![c.recipient][c.message] =
                [Moved(@, "writing", "none") EXCEPT !.transport = "doorbell"]]
  /\ barriers' = {b \in barriers : b.recipient # c.recipient}
                   \cup {[recipient |-> c.recipient, attempt |-> c.attempt]}
  /\ wrote' = wrote \cup {c}
  /\ UNCHANGED <<lastSeq, seq, entry, issued, cleared, phase, unwrote>>

\* record_writing_raw: the boundary of a raw send, without a binding.
RecordWritingRaw(c) ==
  /\ MayWrite(c)
  /\ phase = "open"
  /\ note' = [note EXCEPT ![c.recipient][c.message] =
                [Moved(@, "writing", "none") EXCEPT !.transport = "raw"]]
  /\ wrote' = wrote \cup {c}
  /\ UNCHANGED <<lastSeq, seq, entry, issued, cleared, barriers, phase, unwrote>>

\* record_pre_write_block_with_wake_block
RecordPreWriteBlock(c, cause) ==
  /\ Owns(c)
  /\ Record(c).state = "gating"
  /\ Advance(c, "blocked_pre_write", cause)
  /\ Unwritten

\* record_paste_command_unwritten: tmux accepted no byte of the paste.
RecordPasteCommandUnwritten(c) ==
  /\ Owns(c)
  /\ Record(c).state = "writing"
  /\ Advance(c, "blocked_pre_write", "paste_command_unwritten")
  /\ barriers' = {b \in barriers : b.attempt # c.attempt}
  /\ unwrote' = unwrote \cup {c.attempt}
  /\ UNCHANGED wrote

\* record_submitted and record_submitted_unverified, after Enter.
RecordSubmitted(c, state) ==
  /\ Owns(c)
  /\ state \in Submitted \cap NextStates(Record(c).state)
  /\ Advance(c, state, "none")
  /\ Unwritten

\* record_notified; a notified attempt is answered as it is.
RecordNotified(c) ==
  /\ Owns(c)
  /\ Record(c).state \in InFlight
  /\ Advance(c, "notified", "none")
  /\ Unwritten

\* record_mailbox_notified: for a recipient without a pane the pending entry
\* is the notification.
RecordMailboxNotified(c) ==
  /\ phase = "open"
  /\ Owns(c)
  /\ c.recipient \in Headless
  /\ Record(c).state = "queued"
  /\ EntryAllows(c)
  /\ note' = [note EXCEPT ![c.recipient][c.message] =
                [Moved(@, "notified", "none") EXCEPT !.transport = "mailbox"]]
  /\ UNCHANGED <<lastSeq, seq, entry, issued, cleared, barriers, phase, wrote, unwrote>>

\* settle_submitted_claim: the claim came while the doorbell was written.
SettleSubmittedClaim(c) ==
  /\ Owns(c)
  /\ Claimed(c.recipient, c.message)
  /\ Record(c).state \in Submitted
  /\ Advance(c, "notified", "none")
  /\ Unwritten

\* Mutant: a late failure overwrites the outcome.
RecordAttentionLate(c) ==
  /\ Owns(c)
  /\ Record(c).state \in InFlight \cup {"notified"}
  /\ Advance(c, "attention_required", "none")
  /\ Unwritten

\* record_attention: a write that cannot be accounted for.
RecordAttention(c) ==
  /\ Owns(c)
  /\ Record(c).state \notin Terminal
  /\ "attention_required" \in NextStates(Record(c).state)
  /\ Advance(c, "attention_required", "none")
  /\ Unwritten

-----------------------------------------------------------------------------
(* The operator.                                                           *)

\* Mutant: the operator may withdraw an attempt whose write has begun.
WithdrawableWriting(state) == state \in PreWrite \cup {"writing"}

\* can_withdraw_before_write
Withdrawable(state) == state \in PreWrite

\* withdraw_notification_before_write; withdrawing again changes nothing.
Withdraw(r, m) ==
  /\ phase = "open"
  /\ Withdrawable(note[r][m].state)
  /\ entry[r][m] \in {"pending", "claimed"}
  /\ note' = [note EXCEPT ![r][m] = Moved(@, "withdrawn_by_operator", "none")]
  /\ UNCHANGED <<lastSeq, seq, entry, issued, cleared, barriers, phase, wrote, unwrote>>

\* Fresh attempt ids for a set of recipients: prepare_notification_requeues
\* refuses a line that names one twice.
Fresh(R) == {f \in [R -> Unissued] : \A r, s \in R : f[r] = f[s] => r = s}

\* requeue_message: one line gives every open alarm of the message whose
\* entry is still pending a fresh attempt.
Requeue(m) ==
  LET R == {r \in Recipients : Requeueable(r, m)}
  IN  /\ phase = "open"
      /\ R # {}
      /\ \E f \in Fresh(R) :
           /\ note' = [r \in Recipients |-> [note[r] EXCEPT ![m] =
                         IF r \in R THEN Queued(f[r]) ELSE @]]
           /\ issued' = issued \cup {f[r] : r \in R}
      /\ lastSeq' = lastSeq + 1
      /\ UNCHANGED <<seq, entry, cleared, barriers, phase, wrote, unwrote>>

\* The attempts that are alarms now.
Alarms ==
  {a \in issued : \E r \in Recipients, m \in Messages :
     note[r][m].state = "attention_required" /\ note[r][m].attempt = a}

\* clear_alarms: one line clears a set of named alarms.
ClearAlarms(ids) ==
  /\ phase = "open"
  /\ ids \subseteq Alarms
  /\ ~ ids \subseteq cleared
  /\ cleared' = cleared \cup ids
  /\ UNCHANGED <<lastSeq, seq, entry, note, issued, barriers, phase, wrote, unwrote>>

-----------------------------------------------------------------------------
(* Crash and restart.                                                      *)

\* The process dies.  Everything here is journal content and replays.
Crash ==
  /\ phase' = "boot"
  /\ UNCHANGED <<lastSeq, seq, entry, note, issued, cleared, barriers, wrote, unwrote>>

\* The state recovery gives a record that was in flight.
Recovered(r, m) ==
  IF note[r][m].state \in Submitted /\ note[r][m].transport = "doorbell" /\ Claimed(r, m)
  THEN "notified"
  ELSE "attention_required"

\* recover_notifications_after_restart appends one line per unresolved
\* record, so a crash may separate them.
Recover(r, m) ==
  /\ phase = "boot"
  /\ note[r][m].state \in InFlight
  /\ note' = [note EXCEPT ![r][m] = Moved(@, Recovered(r, m), "none")]
  /\ UNCHANGED <<lastSeq, seq, entry, issued, cleared, barriers, phase, wrote, unwrote>>

\* The daemon opens its socket once no record is in flight.
FinishBoot ==
  /\ phase = "boot"
  /\ \A r \in Recipients, m \in Messages : note[r][m].state \notin InFlight
  /\ phase' = "open"
  /\ UNCHANGED <<lastSeq, seq, entry, note, issued, cleared, barriers, wrote, unwrote>>

-----------------------------------------------------------------------------

Send ==
  \/ \E m \in Messages, to \in SUBSET Recipients : Accept(m, to)
  \/ \E m, old \in Messages, r \in Recipients : Supersede(m, old, r)

\* A wake nobody can deliver is parked: gating, then the block.
Park(c) ==
  \/ RecordGating(c)
  \/ \E cause \in BlockCauses : RecordPreWriteBlock(c, cause)

\* A recipient without a pane has no worker.
Worker(c) ==
  /\ c.recipient \notin Headless
  /\ \/ RecordWriting(c)
     \/ RecordWritingRaw(c)
     \/ RecordPasteCommandUnwritten(c)
     \/ \E state \in Submitted : RecordSubmitted(c, state)
     \/ RecordNotified(c)
     \/ SettleSubmittedClaim(c)
     \/ RecordAttention(c)

Operator ==
  \/ \E r \in Recipients, m \in Messages : Withdraw(r, m)
  \/ \E m \in Messages : Requeue(m)
  \/ \E ids \in SUBSET Alarms : ClearAlarms(ids)

Restart ==
  \/ Crash
  \/ \E r \in Recipients, m \in Messages : Recover(r, m)
  \/ FinishBoot

Next ==
  \/ Send
  \/ \E r \in Recipients, m \in Messages : Claim(r, m)
  \/ \E r \in Recipients : PrepareOldest(r)
  \/ \E r \in Recipients, later, ready \in BOOLEAN : ReopenOldest(r, later, ready)
  \/ \E c \in Contexts : Park(c) \/ RecordMailboxNotified(c) \/ Worker(c)
  \/ Operator
  \/ Restart

Spec == Init /\ [][Next]_vars

-----------------------------------------------------------------------------
(* Correctness properties.                                                 *)

\* A doorbell names one message for good: its text carries the attempt id,
\* stays on the screen when the attempt has ended or was requeued, and is
\* what the recipient claims with (claim_notification_locator).  The id never
\* comes to stand for another message or another recipient.
DoorbellNamesOneMessage ==
  \A c \in wrote, r \in Recipients, m \in Messages :
    note[r][m].attempt = c.attempt => r = c.recipient /\ m = c.message

\* The attempts whose write boundary was crossed.
WroteAttempts == {c.attempt : c \in wrote}

\* A withdrawn or superseded attempt wrote nothing: either its write boundary
\* was never crossed, or tmux proved that it accepted no byte of the paste.
WithdrawnMeansUnwritten ==
  \A r \in Recipients, m \in Messages :
    note[r][m].state \in {"withdrawn", "withdrawn_by_operator", "superseded"} =>
      (note[r][m].attempt \in WroteAttempts => note[r][m].attempt \in unwrote)

\* A recipient's doorbells are rung in the order of acceptance: once a message
\* has an attempt, every older message of that recipient has left the
\* notification queue, and it never returns to it.
OldestFirst ==
  \A r \in Recipients, m, n \in Messages :
    note[r][n].attempt # 0 /\ 0 < seq[m] /\ seq[m] < seq[n] =>
      ~ HoldsQueue(r, m)

\* A claim ends the wake it overtakes: no claimed message waits at the gate,
\* so no worker will write for it later.
ClaimedNeverGates ==
  \A r \in Recipients, m \in Messages :
    Claimed(r, m) => note[r][m].state \notin {"queued", "gating"}

\* A recipient's composer is guarded by at most one barrier, that of the
\* attempt that wrote last.
OneBarrierPerRecipient ==
  \A b, d \in barriers : b.recipient = d.recipient => b = d

\* An alarm is about a write: an attempt is in flight or needs attention only
\* if its write boundary was crossed by a worker of this attempt and this
\* execution epoch, and the paste not proved absent.  No worker that a
\* requeue or a reopening left behind writes for its successor, and a restart
\* or a failure before the paste never sends the operator to a pane.
AlarmsWereWritten ==
  \A r \in Recipients, m \in Messages :
    note[r][m].state \in {"attention_required"} \cup InFlight =>
      Context(r, m) \in wrote /\ note[r][m].attempt \notin unwrote

\* An attempt crosses the write boundary once.  Retries, reopenings, restarts
\* and the correction of an unwritten paste never write it a second time.
WritesOnce ==
  [][\A r \in Recipients, m \in Messages :
       note[r][m].state # "writing" /\ note'[r][m].state = "writing" =>
         note'[r][m].attempt \notin WroteAttempts]_vars

\* An outcome is final: an attempt in a terminal state keeps it, except that
\* a message whose wake the operator withdrew can still be superseded.
OutcomeIsFinal ==
  [][\A r \in Recipients, m \in Messages :
       note[r][m].state \in Terminal /\ note'[r][m].attempt = note[r][m].attempt =>
         \/ note'[r][m].state = note[r][m].state
         \/ note[r][m].state = "withdrawn_by_operator" /\ note'[r][m].state = "superseded"]_vars

\* docs/development/DELIVERY.md: "A socket claim before the write boundary
\* withdraws the doorbell ... the recipient's FIFO moves to its next pending
\* message."  When no byte was written, a claimed message holds no place in
\* the queue.
ClaimReleasesQueue ==
  \A r \in Recipients, m \in Messages :
    Claimed(r, m) => note[r][m].state \notin PreWrite \/ note[r][m].transport # "doorbell"

\* docs/reference/PROTOCOL.md: "msg.requeue takes one message_id and starts a
\* fresh attempt for a message whose current attempt is attention_required",
\* and "A clearance acknowledges the alarm and retires nothing."
AttentionIsRequeueable ==
  \A r \in Recipients, m \in Messages :
    Pending(r, m) /\ note[r][m].state = "attention_required" => Requeueable(r, m)
=============================================================================
