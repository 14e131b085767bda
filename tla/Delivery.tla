------------------------------- MODULE Delivery -------------------------------
(***************************************************************************)
(* The delivery pipeline over the durable mailbox: the callers that        *)
(* schedule a recipient, the attempts index, one worker per recipient with *)
(* its FIFO and its supervisor, the gate, the write and its receipt, the   *)
(* quiesce hold, shutdown and crash.                                       *)
(*                                                                         *)
(* Every durable step is an action of Mailbox.  Everything declared here   *)
(* is memory of one daemon process and is lost in a crash.  A step is what *)
(* the code does between two points at which another task or thread can    *)
(* come in: an await, or the release of one of the locks (store, attempts  *)
(* index, worker registry).                                                *)
(***************************************************************************)
EXTENDS Integers, Sequences, FiniteSets

CONSTANTS Recipients, Headless, Messages, AttemptIds,
          PasteCauses,   \* causes of the refused pastes that are explored
          Raw,           \* messages sent with the raw transport
          Threads,       \* tasks that run scheduling calls
          Scenarios,     \* what a behaviour may meet, one of them each
          Quiesces,      \* bound: daemon.quiesce calls
          MaxRuns        \* bound: delivery handles alive at a time

VARIABLES lastSeq, seq, entry, note, issued, cleared, barriers, phase, wrote, unwrote

\* The causes of pre-write blocks: those of a refused paste, and the ones the
\* callers, the gate and the supervisor give.
BlockCauses == PasteCauses \cup {"session_unavailable", "worker_failed", "binding_unprovable"}

M == INSTANCE Mailbox

mailbox == <<lastSeq, seq, entry, note, issued, cleared, barriers, phase, wrote, unwrote>>

VARIABLES
  runs,      \* runs[h]: the DeliveryHandle at h, or Free
  index,     \* notification_attempts: attempt |-> run, 0 when it has none
  worker,    \* notification_workers, and where each worker's task is
  calls,     \* the scheduling calls in progress
  owed,      \* recipients some task is about to schedule, and whether it
             \* is route evidence that may reopen a blocked head
  settling,  \* attempts whose claim was committed and not yet passed on
  pane,      \* what the gate would find for a recipient
  paused, stopping,
  hold,      \* hold[q]: how far quiesce call q is
  env,       \* the scenario of this behaviour
  writer,    \* the journal's writer: "open", after a failed append "unknown",
             \* "closed" between two daemon processes
  lost,      \* the line whose append failed, or NoLine
  panics,    \* panics so far
  rung       \* history: attempts for which Enter was pressed

memory == <<runs, index, worker, calls, owed, settling, pane, paused, stopping, hold,
            writer, lost, env, panics, rung>>

vars == <<mailbox, memory>>

store == <<writer, lost>>

Callers == Threads \cup Recipients   \* a worker calls the scheduler inline

\* DeliveryState; the two delivered states are one.
DeliveryState ==
  {"queued", "gating", "retry_queued", "pasting", "staged", "submitted", "delivered",
   "attention"}

\* receipt_resolved and receipt_is_queued
Resolved(state) == state \in {"delivered", "attention"}
IsQueued(state) == state \in {"queued", "gating", "retry_queued"}

\* What the gate may find at a pane.
PaneState == {"gone", "unproved", "busy", "ready"}

\* Where a worker's task can be.  In Processing a handle is being driven.
Processing ==
  {"start", "gate", "wait", "verdict", "cleared", "paste", "written", "staged",
   "entered", "submitted", "await", "alarm", "block", "blocked", "reblocked",
   "reconciled"}

WorkerPc ==
  {"off", "top", "drain", "held", "retire", "returned", "finished", "panicked",
   "recover", "stopped"} \cup Processing

NoWorker ==
  [pc |-> "off", queue |-> <<>>, current |-> 0, last |-> 0, permit |-> FALSE, fault |-> FALSE,
   wake |-> FALSE, cause |-> "none", restarts |-> 0]

Free == [state |-> "free"]

NoCall ==
  [pc |-> "idle", r |-> "none", m |-> "none", a |-> 0, epoch |-> 0, cause |-> "none",
   run |-> 0, reopens |-> FALSE, rerun |-> FALSE]

\* A line of the journal: the mailbox operation it records.
NoLine == [op |-> "none"]
Line(op, c) == [op |-> op, c |-> c]
BlockLine(c, cause) == [op |-> "block", c |-> c, cause |-> cause]

(* A scenario: the messages that are sent and to whom, the states the panes *)
(* have, delivery_retry_max, whether operators withdraw and requeue, whether *)
(* daemon.quiesce is called, whether the daemon stops or crashes, whether    *)
(* journal appends may fail, and how many tasks may panic.                   *)
Scenario ==
  [messages : SUBSET Messages, to : SUBSET SUBSET Recipients, panes : SUBSET PaneState,
   retryMax : Nat, operators : BOOLEAN, holds : BOOLEAN, stops : BOOLEAN, breaks : BOOLEAN,
   panics : Nat]

ASSUME ScenariosAssumption == Scenarios \subseteq Scenario

ASSUME BoundsAssumption == 0 \notin AttemptIds /\ MaxRuns \in Nat

ASSUME RecipientsAssumption == Headless \subseteq Recipients

ASSUME CausesAssumption ==
  PasteCauses \subseteq
    M!PreWriteCause \ {"paste_command_unwritten", "claimed_before_write", "worker_failed",
                       "binding_unprovable"}

TypeOK ==
  /\ M!TypeOK
  /\ \A h \in 1 .. MaxRuns : runs[h] = Free \/ runs[h].state \in DeliveryState
  /\ index \in [AttemptIds -> 0 .. MaxRuns]
  /\ \A r \in Recipients :
       /\ worker[r].pc \in WorkerPc
       /\ worker[r].current \in 0 .. MaxRuns
       /\ worker[r].queue \in Seq(1 .. MaxRuns)
  /\ owed \in SUBSET (Recipients \X BOOLEAN)
  /\ settling \in SUBSET AttemptIds
  /\ env \in Scenarios
  /\ pane \in [Recipients -> PaneState]
  /\ writer \in {"open", "unknown", "closed"}
  /\ rung \subseteq M!WroteAttempts

Init ==
  /\ M!Init
  /\ runs = [h \in 1 .. MaxRuns |-> Free]
  /\ index = [a \in AttemptIds |-> 0]
  /\ worker = [r \in Recipients |-> NoWorker]
  /\ calls = [t \in Callers |-> NoCall]
  /\ owed = {}
  /\ settling = {}
  /\ env \in Scenarios
  /\ \E live \in [Recipients \ Headless -> env.panes] :
       pane = [r \in Recipients |-> IF r \in Headless THEN "gone" ELSE live[r]]
  /\ paused = FALSE
  /\ stopping = FALSE
  /\ hold = [q \in 1 .. Quiesces |-> "idle"]
  /\ writer = "open"
  /\ lost = NoLine
  /\ panics = 0
  /\ rung = {}

-----------------------------------------------------------------------------
(* Handles, and who drives them.                                           *)

\* DeliveryHandle::for_notification
NewRun(c, recoveries) == [c |-> c, state |-> "queued", recoveries |-> recoveries, spent |-> 0]

Driven(r) == worker[r].current
C(r) == runs[Driven(r)].c

Queued(r) == {worker[r].queue[i] : i \in DOMAIN worker[r].queue}

\* The handles a worker owns, and those something still refers to.
Owned(r) == (Queued(r) \cup {Driven(r)}) \ {0}
Live ==
  UNION {Owned(r) \cup {worker[r].last} : r \in Recipients}
    \cup {calls[t].run : t \in Callers}

Idle(r) == worker[r].queue = <<>> /\ Driven(r) = 0

\* Where the next handle goes.
IsSlot(h) == runs[h] = Free /\ \A g \in 1 .. MaxRuns : runs[g] = Free => h <= g

\* What notification_worker_refusal answers for an attempt; "none" is
\* acceptance.
Refusal(r, a) ==
  IF stopping THEN "session_unavailable"
  ELSE IF /\ worker[r].pc \notin {"off", "stopped"}
          /\ ~ worker[r].fault
          /\ \E h \in Owned(r) : runs[h].c.attempt = a
       THEN "none" ELSE "worker_failed"

\* retire_notification_run: only the run the index names is removed.
Retired(h) ==
  [a \in AttemptIds |-> IF index[a] = h THEN 0 ELSE index[a]]

\* The last reference to h is dropped and the index loses it.
Drop(h) ==
  /\ runs' = [runs EXCEPT ![h] = Free]
  /\ index' = Retired(h)

Goto(r, pc) == worker' = [worker EXCEPT ![r].pc = pc]
RunTo(h, state) == runs' = [runs EXCEPT ![h].state = state]

\* One more panic.
Panics == panics < env.panics /\ panics' = panics + 1

-----------------------------------------------------------------------------
(* The journal.  Every operation on the mailbox appends one line.          *)

\* The daemon runs and has recovered.
Up == phase = "open" /\ writer # "closed"

\* LedgerWriter::append: the line of the mailbox step beside it is durable.
Appends == writer = "open" /\ UNCHANGED store

\* An append that fails.  Whether the line is on the disk is unknown, and
\* the writer refuses every other one until the journal is opened again.
Fails(line) ==
  /\ \/ writer = "open" /\ env.breaks /\ writer' = "unknown" /\ lost' = line
     \/ writer = "unknown" /\ UNCHANGED store
  /\ UNCHANGED mailbox

\* accept_canonical_at: a message is accepted, alone or in place of an unread
\* one.
Accepted(m, to) ==
  \/ M!Accept(m, to)
  \/ \E old \in Messages, r \in Recipients : to = {r} /\ M!Supersede(m, old, r)

\* What replay makes of the line whose append failed, when the disk has it.
Replays(l) ==
  \/ l.op = "send" /\ Accepted(l.m, l.to)
  \/ l.op = "claim" /\ M!Claim(l.r, l.m)
  \/ l.op = "withdraw" /\ M!Withdraw(l.r, l.m)
  \/ l.op = "requeue" /\ M!Requeue(l.m)
  \/ l.op = "queue" /\ M!PrepareOldest(l.r)
  \/ l.op = "reopen" /\ \E later, ready \in BOOLEAN : M!ReopenOldest(l.r, later, ready)
  \/ l.op = "mailbox" /\ M!RecordMailboxNotified(l.c)
  \/ l.op = "gating" /\ M!RecordGating(l.c)
  \/ l.op = "block" /\ M!RecordPreWriteBlock(l.c, l.cause)
  \/ l.op = "writing" /\ l.c.message \notin Raw /\ M!RecordWriting(l.c)
  \/ l.op = "writing" /\ l.c.message \in Raw /\ M!RecordWritingRaw(l.c)
  \/ l.op = "unwritten" /\ M!RecordPasteCommandUnwritten(l.c)
  \/ l.op = "submitted" /\ \E state \in M!Submitted : M!RecordSubmitted(l.c, state)
  \/ l.op = "notified" /\ M!RecordNotified(l.c)
  \/ l.op = "attention" /\ M!RecordAttention(l.c)

-----------------------------------------------------------------------------
(* Scheduling calls: schedule_recipient, and after route evidence          *)
(* schedule_recipient_after_route_evidence.                                *)

CallContext(t) ==
  [recipient |-> calls[t].r, message |-> calls[t].m, attempt |-> calls[t].a,
   epoch |-> calls[t].epoch]

\* notification_run_epoch, read when the context is built.
RunEpoch(r, m, a) == IF note[r][m].attempt = a THEN note[r][m].reopen ELSE 0

\* The records on which record_gating, a pre-write block and a reopening are
\* not refused.
MayGate(c) == M!Owns(c) /\ M!EntryAllows(c) /\ M!Record(c).state = "queued"
MayBlock(c) == M!Owns(c) /\ M!Record(c).state = "gating"
MayReopen(r, later, ready) ==
  \E m \in Messages :
    /\ M!IsFirstActionablePending(r, m)
    /\ note[r][m].state = "blocked_pre_write"
    /\ M!CauseChanged(note[r][m].cause, later, ready)
    /\ M!MayReopen(note[r][m])

\* The end of the scheduling half of a call, or of the call.
Ended(call) ==
  IF call.reopens /\ ~ call.rerun
  THEN [NoCall EXCEPT !.pc = "reopen", !.r = call.r, !.reopens = TRUE]
  ELSE NoCall

End(t) == calls' = [calls EXCEPT ![t] = Ended(@)]
CallTo(t, pc) == calls' = [calls EXCEPT ![t].pc = pc]

\* prepare_oldest_notification: the head of the queue gets its attempt, or
\* the attempt it already has is taken up, or there is nothing to ring; an
\* append that fails ends the scheduling half of the call.
Prepare(t, r, reopens) ==
  LET Take(m, a) ==
        calls' = [calls EXCEPT ![t] = [NoCall EXCEPT !.pc = "route", !.r = r, !.m = m, !.a = a,
                                                     !.reopens = reopens]]
      Nothing == calls' = [calls EXCEPT ![t] = Ended([NoCall EXCEPT !.r = r, !.reopens = reopens])]
  IN  /\ calls[t].pc = "idle"
      /\ phase = "open"
      /\ \/ /\ Appends
            /\ M!PrepareOldest(r)
            /\ \E m \in Messages : M!Head(r, m) /\ Take(m, note'[r][m].attempt)
         \/ /\ \E m \in Messages : M!Head(r, m) /\ note[r][m].state = "none"
            /\ Fails([op |-> "queue", r |-> r])
            /\ Nothing
         \/ /\ UNCHANGED <<mailbox, store>>
            /\ \E m \in Messages :
                 /\ M!Head(r, m)
                 /\ note[r][m].state \in {"queued", "gating"}
                 /\ Take(m, note[r][m].attempt)
         \/ /\ UNCHANGED <<mailbox, store>>
            /\ \A m \in Messages :
                 M!Head(r, m) => note[r][m].state \notin {"none", "queued", "gating"}
            /\ Nothing

\* A task runs the scheduling some event made due.
Schedule(t) ==
  /\ \E o \in owed :
       /\ Prepare(t, o[1], o[2])
       /\ owed' = owed \ {o}
  /\ UNCHANGED <<runs, index, worker, settling, pane, paused, stopping, hold, env, panics, rung>>

\* schedule_recipient after the head was prepared: a daemon that stops and a
\* recipient without a route park it, a headless one has it in its mailbox.
Route(t) ==
  LET call == calls[t]
      c == [CallContext(t) EXCEPT !.epoch = RunEpoch(call.r, call.m, call.a)]
      Park(cause) ==
        /\ calls' = [calls EXCEPT ![t].pc = "park", ![t].cause = cause, ![t].epoch = c.epoch]
        /\ UNCHANGED <<mailbox, store>>
  IN  /\ call.pc = "route"
      /\ \/ stopping /\ Park("session_unavailable")
         \/ /\ ~ stopping
            /\ call.r \in Headless
            /\ \/ Appends /\ M!RecordMailboxNotified(c)
               \/ MayGate(c) /\ Fails(Line("mailbox", c))
               \/ ~ MayGate(c) /\ UNCHANGED <<mailbox, store>>
            /\ End(t)
         \/ ~ stopping /\ call.r \notin Headless /\ pane[call.r] = "gone" /\ Park("session_unavailable")
         \/ /\ ~ stopping /\ call.r \notin Headless /\ pane[call.r] # "gone"
            /\ CallTo(t, "enqueue")
            /\ UNCHANGED <<mailbox, store>>
      /\ UNCHANGED <<runs, index, worker, owed, settling, pane, paused, stopping, hold, env, panics, rung>>

\* enqueue_notification_attempt under the attempts lock: a live run is left
\* in charge, unless the attempt was just reopened.
Enqueue(t) ==
  LET call == calls[t]
      epoch == RunEpoch(call.r, call.m, call.a)
  IN  /\ call.pc = "enqueue"
      /\ IF ~ call.rerun /\ index[call.a] # 0
         THEN /\ calls' = [calls EXCEPT ![t].pc = "check", ![t].epoch = epoch]
              /\ UNCHANGED <<runs, index>>
         ELSE \E h \in 1 .. MaxRuns :
                /\ IsSlot(h)
                /\ runs' = [runs EXCEPT ![h] = NewRun([CallContext(t) EXCEPT !.epoch = epoch], 0)]
                /\ index' = [index EXCEPT ![call.a] = h]
                /\ calls' = [calls EXCEPT ![t].pc = "publish", ![t].epoch = epoch, ![t].run = h]
      /\ UNCHANGED <<mailbox, worker, owed, settling, pane, paused, stopping, hold, store, env, panics, rung>>

\* enqueue_notification_worker under the registry lock.  A refused run is
\* retired from the index at once.
Publish(t) ==
  LET r == calls[t].r
      h == calls[t].run
      refusal == IF stopping THEN "session_unavailable"
                 ELSE IF worker[r].pc = "stopped" \/ worker[r].fault THEN "worker_failed"
                 ELSE "none"
  IN  /\ calls[t].pc = "publish"
      /\ IF refusal # "none"
         THEN /\ calls' = [calls EXCEPT ![t].pc = "park", ![t].cause = refusal, ![t].run = 0]
              /\ Drop(h)
              /\ worker' = [worker EXCEPT ![r].fault = @ \/ worker[r].pc = "stopped"]
         ELSE /\ calls' = [calls EXCEPT ![t].pc = "check", ![t].run = 0]
              /\ worker' = [worker EXCEPT ![r].queue = Append(@, h), ![r].permit = TRUE,
                                          ![r].pc = IF @ = "off" THEN "top" ELSE @]
              /\ UNCHANGED <<runs, index>>
      /\ UNCHANGED <<mailbox, owed, settling, pane, paused, stopping, hold, store, env, panics, rung>>

\* notification_worker_owns: the caller parks an attempt no worker holds.
Check(t) ==
  LET refusal == Refusal(calls[t].r, calls[t].a)
  IN  /\ calls[t].pc = "check"
      /\ IF refusal = "none" THEN End(t)
         ELSE calls' = [calls EXCEPT ![t].pc = "park", ![t].cause = refusal]
      /\ UNCHANGED <<mailbox, runs, index, worker, owed, settling, pane, paused, stopping, hold,
                     store, env, panics, rung>>

\* record_unowned_notification: gating, then the block, two journal lines.
\* A conflict or a failed append ends the call with an error.
Park(t) ==
  LET c == CallContext(t)
  IN  /\ \/ /\ calls[t].pc = "park"
            /\ \/ Appends /\ M!RecordGating(c) /\ CallTo(t, "parked")
               \/ MayGate(c) /\ Fails(Line("gating", c)) /\ End(t)
               \/ M!MayWrite(c) /\ CallTo(t, "parked") /\ UNCHANGED <<mailbox, store>>
               \/ ~ M!MayWrite(c) /\ ~ MayGate(c) /\ End(t) /\ UNCHANGED <<mailbox, store>>
         \/ /\ calls[t].pc = "parked"
            /\ \/ Appends /\ M!RecordPreWriteBlock(c, calls[t].cause)
               \/ MayBlock(c) /\ Fails(BlockLine(c, calls[t].cause))
               \/ ~ MayBlock(c) /\ UNCHANGED <<mailbox, store>>
            /\ End(t)
      /\ UNCHANGED <<runs, index, worker, owed, settling, pane, paused, stopping, hold, env, panics,
                     rung>>

\* prepare_recipient_after_route_evidence: with a route and a complete
\* binding the oldest blocked attempt is reopened and enqueued again.
Reopen(t) ==
  LET r == calls[t].r
  IN  /\ calls[t].pc = "reopen"
      /\ phase = "open"
      /\ \/ /\ Appends
            /\ pane[r] \in {"busy", "ready"}
            /\ \E later, ready \in BOOLEAN :
                 (ready => pane[r] = "ready") /\ M!ReopenOldest(r, later, ready)
            /\ \E m \in Messages :
                 /\ note'[r][m] # note[r][m]
                 /\ calls' = [calls EXCEPT ![t].pc = "enqueue", ![t].rerun = TRUE, ![t].m = m,
                                           ![t].a = note[r][m].attempt]
         \/ /\ pane[r] \in {"busy", "ready"}
            /\ \E later, ready \in BOOLEAN :
                 (ready => pane[r] = "ready") /\ MayReopen(r, later, ready)
            /\ Fails([op |-> "reopen", r |-> r])
            /\ calls' = [calls EXCEPT ![t] = NoCall]
         \/ /\ ~ (pane[r] \in {"busy", "ready"} /\ MayReopen(r, FALSE, FALSE))
            /\ calls' = [calls EXCEPT ![t] = NoCall]
            /\ UNCHANGED <<mailbox, store>>
      /\ UNCHANGED <<runs, index, worker, owed, settling, pane, paused, stopping, hold, env, panics, rung>>

-----------------------------------------------------------------------------
(* The worker loop and its registry entry.                                 *)

\* The top of notification_worker_loop: under a hold the worker drains;
\* otherwise current_or_next.
Top(r) ==
  /\ worker[r].pc = "top"
  /\ worker' = [worker EXCEPT ![r] =
       IF paused THEN [@ EXCEPT !.pc = "drain"]
       ELSE IF @.current # 0 THEN [@ EXCEPT !.pc = "start"]
       ELSE IF @.queue # <<>>
            THEN [@ EXCEPT !.pc = "start", !.current = Head(worker[r].queue), !.queue = Tail(worker[r].queue)]
            ELSE [@ EXCEPT !.pc = "retire"]]
  /\ UNCHANGED <<mailbox, runs, index, calls, owed, settling, pane, paused, stopping, hold, store, env, panics, rung>>

\* (A mutant of Retire: the queue is not looked at again under the lock.)
RetireUnchecked(r) ==
  /\ worker[r].pc \in {"drain", "retire"}
  /\ worker' = [worker EXCEPT ![r] = NoWorker]
  /\ UNCHANGED <<mailbox, runs, index, calls, owed, settling, pane, paused, stopping, hold, store, env, panics, rung>>

\* retire_notification_worker: only an idle worker leaves the registry, under
\* the lock that enqueuing takes.
Retire(r) ==
  /\ worker[r].pc \in {"drain", "retire"}
  /\ worker' = [worker EXCEPT ![r] =
       IF Idle(r) THEN NoWorker
       ELSE [@ EXCEPT !.pc = IF worker[r].pc = "drain" THEN "held" ELSE "top"]]
  /\ UNCHANGED <<mailbox, runs, index, calls, owed, settling, pane, paused, stopping, hold, store, env, panics, rung>>

\* The wait of a held worker; notify_one leaves a permit if nobody waits.
Unhold(r) ==
  /\ worker[r].pc = "held"
  /\ worker[r].permit
  /\ worker' = [worker EXCEPT ![r].pc = "top", ![r].permit = FALSE]
  /\ UNCHANGED <<mailbox, runs, index, calls, owed, settling, pane, paused, stopping, hold, store, env, panics, rung>>

\* After process: a faulted worker exits.  finish forgets the handle, unless
\* quiesce gave it back to the queue.
Finish(r) ==
  /\ worker[r].pc = "returned"
  /\ worker' = [worker EXCEPT ![r] =
       IF @.fault THEN [@ EXCEPT !.pc = "stopped"]
       ELSE IF @.current = 0 THEN [@ EXCEPT !.pc = "top"]
       ELSE [@ EXCEPT !.pc = "finished", !.last = worker[r].current, !.current = 0,
                      !.restarts = 0, !.wake = FALSE, !.cause = "none"]]
  /\ UNCHANGED <<mailbox, runs, index, calls, owed, settling, pane, paused, stopping, hold, store, env, panics, rung>>

\* retire_notification_run after finish.
RetireRun(r) ==
  /\ worker[r].pc = "finished"
  /\ Drop(worker[r].last)
  /\ worker' = [worker EXCEPT ![r].pc = "top", ![r].last = 0]
  /\ UNCHANGED <<mailbox, calls, owed, settling, pane, paused, stopping, hold, store, env, panics, rung>>

-----------------------------------------------------------------------------
(* process: one handle from the gate to its outcome.                       *)

Quiet(r) == UNCHANGED <<index, calls, owed, settling, pane, paused, stopping, hold, env, panics>>

\* The handle leaves the queue; record_gating.  A refusal and a failed append
\* both end the run.
Record(r) ==
  /\ worker[r].pc = "start"
  /\ RunTo(Driven(r), "gating")
  /\ \/ Appends /\ M!RecordGating(C(r)) /\ Goto(r, "gate")
     \/ M!MayWrite(C(r)) /\ Goto(r, "gate") /\ UNCHANGED <<mailbox, store>>
     \/ ~ M!MayWrite(C(r)) /\ ~ MayGate(C(r)) /\ Goto(r, "returned") /\ UNCHANGED <<mailbox, store>>
     \/ MayGate(C(r)) /\ Fails(Line("gating", C(r))) /\ Goto(r, "returned")
  /\ Quiet(r) /\ UNCHANGED rung

\* admit: a raw message needs a live pane only, a doorbell a ready composer
\* with its agent in front.
Admits(r) == pane[r] = "ready" \/ (C(r).message \in Raw /\ pane[r] # "gone")

\* One evaluation of the gate.  An occupant that cannot be proved holds once,
\* with a timer, and is a block when it is found unprovable again.
Gate(r) ==
  LET unprovable == ~ Admits(r) /\ pane[r] = "unproved"
  IN  /\ worker[r].pc = "gate"
      /\ worker' = [worker EXCEPT ![r] =
           IF ~ M!MayWrite(C(r)) THEN [@ EXCEPT !.pc = "returned"]
           ELSE IF Admits(r) THEN [@ EXCEPT !.pc = "verdict", !.cause = "none"]
           ELSE IF unprovable /\ @.cause = "binding_unprovable" THEN [@ EXCEPT !.pc = "verdict"]
           ELSE IF unprovable
                THEN [@ EXCEPT !.pc = "wait", !.cause = "binding_unprovable", !.wake = TRUE]
           ELSE [@ EXCEPT !.pc = "wait", !.cause = "none"]]
      /\ Quiet(r) /\ UNCHANGED <<mailbox, store, runs, rung>>

\* wait_pane_change: a pane or session event, or the handle's cancel.
Wait(r) ==
  /\ worker[r].pc = "wait"
  /\ worker[r].wake
  /\ worker' = [worker EXCEPT ![r].pc = "gate", ![r].wake = FALSE]
  /\ Quiet(r) /\ UNCHANGED <<mailbox, store, runs, rung>>

\* What process does with the gate's answer.  A hold found here hands the
\* handle back to the front of the queue.
Verdict(r) ==
  LET h == Driven(r)
      parked == M!MayWrite(C(r)) /\ worker[r].cause = "none" /\ paused
  IN  /\ worker[r].pc = "verdict"
      /\ worker' = [worker EXCEPT ![r] =
           IF ~ M!MayWrite(C(r)) THEN [@ EXCEPT !.pc = "returned"]
           ELSE IF @.cause # "none" THEN [@ EXCEPT !.pc = "block"]
           ELSE IF paused THEN [@ EXCEPT !.pc = "returned", !.current = 0, !.queue = <<h>> \o worker[r].queue]
           ELSE [@ EXCEPT !.pc = "cleared"]]
      /\ IF parked THEN RunTo(h, "retry_queued") ELSE UNCHANGED runs
      /\ Quiet(r) /\ UNCHANGED <<mailbox, store, rung>>

\* Past the last look at the hold: the attempt is counted and pasting begins.
BeginPaste(r) ==
  /\ worker[r].pc = "cleared"
  /\ runs' = [runs EXCEPT ![Driven(r)].state = "pasting", ![Driven(r)].spent = @ + 1]
  /\ Goto(r, "paste")
  /\ Quiet(r) /\ UNCHANGED <<mailbox, store, rung>>

\* should_retry
Retries(r) == runs[Driven(r)].spent <= env.retryMax

\* A failure proved to precede the write: back to the gate within the retry
\* budget, else a block.  A barrier another attempt holds spends nothing, and
\* its timer ends the wait at the gate.
PasteRefused(r) ==
  /\ worker[r].pc = "paste"
  /\ \E cause \in PasteCauses :
       \/ /\ Retries(r)
          /\ RunTo(Driven(r), "gating")
          /\ Goto(r, "gate")
       \/ /\ ~ Retries(r)
          /\ worker' = [worker EXCEPT ![r].pc = "block", ![r].cause = cause]
          /\ UNCHANGED runs
       \/ /\ C(r).message \notin Raw
          /\ runs' = [runs EXCEPT ![Driven(r)].state = "gating", ![Driven(r)].spent = @ - 1]
          /\ worker' = [worker EXCEPT ![r].pc = "wait", ![r].wake = TRUE]
  /\ Quiet(r) /\ UNCHANGED <<mailbox, store, rung>>

\* (A mutant of Write: the fact is appended on the strength of the gate's
\* check, without asking for ownership again under the store lock.)
WriteUnchecked(r) ==
  /\ worker[r].pc = "paste"
  /\ Appends
  /\ note' = [note EXCEPT ![r][C(r).message].state = "writing", ![r][C(r).message].cause = "none"]
  /\ barriers' = {b \in barriers : b.recipient # r}
                   \cup {[recipient |-> r, attempt |-> C(r).attempt]}
  /\ wrote' = wrote \cup {C(r)}
  /\ Goto(r, "written")
  /\ Quiet(r)
  /\ UNCHANGED <<lastSeq, seq, entry, issued, cleared, phase, unwrote, runs, rung>>

\* on_write: the ownership check and the Writing fact under one store lock.
\* A failed append counts as after the write.
Write(r) ==
  /\ worker[r].pc = "paste"
  /\ \/ Appends /\ C(r).message \notin Raw /\ M!RecordWriting(C(r)) /\ Goto(r, "written")
     \/ Appends /\ C(r).message \in Raw /\ M!RecordWritingRaw(C(r)) /\ Goto(r, "written")
     \/ ~ M!MayWrite(C(r)) /\ Goto(r, "returned") /\ UNCHANGED <<mailbox, store>>
     \/ M!MayWrite(C(r)) /\ Fails(Line("writing", C(r))) /\ Goto(r, "alarm")
  /\ Quiet(r) /\ UNCHANGED <<runs, rung>>

\* The paste command: done, failed, or proved to have written no byte.
Paste(r) ==
  /\ worker[r].pc = "written"
  /\ \/ /\ RunTo(Driven(r), IF C(r).message \in Raw THEN "submitted" ELSE "staged")
        /\ Goto(r, "staged")
        /\ UNCHANGED <<mailbox, store>>
     \/ Goto(r, "alarm") /\ UNCHANGED <<mailbox, store, runs>>
     \/ Appends /\ M!RecordPasteCommandUnwritten(C(r)) /\ Goto(r, "block") /\ UNCHANGED runs
     \/ Fails(Line("unwritten", C(r))) /\ Goto(r, "alarm") /\ UNCHANGED runs
  /\ Quiet(r) /\ UNCHANGED rung

\* Enter, after the second occupant check; either may fail.
Submit(r) ==
  /\ worker[r].pc = "staged"
  /\ \/ Goto(r, "entered") /\ rung' = rung \cup {C(r).attempt}
     \/ Goto(r, "alarm") /\ UNCHANGED rung
  /\ Quiet(r) /\ UNCHANGED <<mailbox, store, runs>>

\* (A mutant of RecordSubmitted: Enter is pressed again when the row could
\* not be read back.)
RecordSubmittedRepeats(r) ==
  /\ worker[r].pc = "entered"
  /\ \/ \E state \in M!Submitted : M!RecordSubmitted(C(r), state) /\ Goto(r, "submitted")
     \/ Goto(r, "staged") /\ UNCHANGED mailbox
  /\ Quiet(r) /\ UNCHANGED <<store, runs, rung>>

\* The Submitted fact of a doorbell; a raw write goes on to its receipt.
RecordSubmitted(r) ==
  /\ worker[r].pc = "entered"
  /\ \/ /\ C(r).message \in Raw
        /\ Goto(r, "await")
        /\ UNCHANGED <<mailbox, store>>
     \/ /\ C(r).message \notin Raw
        /\ Appends
        /\ \E state \in M!Submitted : M!RecordSubmitted(C(r), state)
        /\ Goto(r, "submitted")
     \/ C(r).message \notin Raw /\ Fails(Line("submitted", C(r))) /\ Goto(r, "alarm")
  /\ Quiet(r) /\ UNCHANGED <<runs, rung>>

\* The handle follows the journal, then a claim that came since is settled.
FollowSubmitted(r) ==
  LET claimed == M!Claimed(C(r).recipient, C(r).message)
      notified == M!Record(C(r)).state = "notified"
  IN  /\ worker[r].pc = "submitted"
      /\ \/ /\ runs[Driven(r)].state = "staged"
            /\ RunTo(Driven(r), "submitted")
            /\ UNCHANGED <<mailbox, store, worker>>
         \/ /\ runs[Driven(r)].state # "staged"
            /\ Appends
            /\ M!SettleSubmittedClaim(C(r))
            /\ RunTo(Driven(r), "delivered")
            /\ Goto(r, "returned")
         \/ /\ runs[Driven(r)].state # "staged"
            /\ notified /\ claimed
            /\ RunTo(Driven(r), "delivered")
            /\ Goto(r, "returned")
            /\ UNCHANGED <<mailbox, store>>
         \/ /\ runs[Driven(r)].state # "staged"
            /\ ~ claimed
            /\ Goto(r, "await")
            /\ UNCHANGED <<mailbox, store, runs>>
      /\ Quiet(r) /\ UNCHANGED rung

\* The settlement cannot be appended.
FollowFails(r) ==
  /\ worker[r].pc = "submitted"
  /\ runs[Driven(r)].state # "staged"
  /\ M!Claimed(C(r).recipient, C(r).message)
  /\ M!Record(C(r)).state \in M!Submitted
  /\ Fails(Line("notified", C(r)))
  /\ Goto(r, "alarm")
  /\ Quiet(r) /\ UNCHANGED <<runs, rung>>

\* await_ack, settle_without_receipt and resolve_hook_ack: a receipt, its
\* absence at the deadline, or a claim that resolved the handle.
Receipt(r) ==
  LET h == Driven(r)
  IN  /\ worker[r].pc = "await"
      /\ \/ /\ runs[h].state = "submitted"
            /\ \/ Appends /\ M!RecordNotified(C(r))
               \/ M!Record(C(r)).state = "notified" /\ UNCHANGED <<mailbox, store>>
            /\ RunTo(h, "delivered")
            /\ Goto(r, "returned")
         \/ /\ runs[h].state = "delivered"
            /\ Goto(r, "returned")
            /\ UNCHANGED <<mailbox, store, runs>>
         \/ /\ M!Record(C(r)).state \in M!InFlight
            /\ Fails(Line("notified", C(r))) /\ Goto(r, "alarm") /\ UNCHANGED runs
      /\ Quiet(r) /\ UNCHANGED rung

-----------------------------------------------------------------------------
(* The ends of a run that failed.                                          *)

\* (A mutant of Alarm: the failure is logged and not recorded.)
AlarmSilent(r) ==
  /\ worker[r].pc = "alarm"
  /\ RunTo(Driven(r), "attention")
  /\ Goto(r, "returned")
  /\ Quiet(r) /\ UNCHANGED <<mailbox, store, rung>>

\* fail_attempt after the write: the alarm, or, when it cannot be recorded, a
\* visible fault of the worker.  A failed Writing fact ends here as well, and
\* a record that is still gating admits no alarm.
Alarm(r) ==
  LET c == C(r)
      Fault ==
        /\ worker' = [worker EXCEPT ![r].pc = "returned", ![r].fault = TRUE]
        /\ RunTo(Driven(r), "attention")
  IN  /\ worker[r].pc = "alarm"
      /\ \/ Appends /\ M!RecordAttention(c) /\ RunTo(Driven(r), "attention") /\ Goto(r, "returned")
         \/ /\ ~ M!Owns(c) \/ M!Record(c).state \in M!Terminal
            /\ Goto(r, "returned")
            /\ UNCHANGED <<mailbox, store, runs>>
         \/ M!Owns(c) /\ M!Record(c).state = "gating" /\ Fault /\ UNCHANGED <<mailbox, store>>
         \/ M!Owns(c) /\ M!Record(c).state \in M!InFlight /\ Fails(Line("attention", c)) /\ Fault
      /\ Quiet(r) /\ UNCHANGED rung

\* persist_notification_prewrite_block: an obsolete attempt needs none, and
\* an append that fails faults the worker with its handle still current.
Block(r) ==
  LET c == C(r)
      blocked == M!Owns(c) /\ M!Record(c).state = "blocked_pre_write"
  IN  /\ worker[r].pc = "block"
      /\ \/ Appends /\ M!RecordPreWriteBlock(c, worker[r].cause) /\ Goto(r, "blocked")
         \/ blocked /\ Goto(r, "blocked") /\ UNCHANGED <<mailbox, store>>
         \/ ~ MayBlock(c) /\ ~ blocked /\ Goto(r, "returned") /\ UNCHANGED <<mailbox, store>>
         \/ /\ MayBlock(c) /\ Fails(BlockLine(c, worker[r].cause))
            /\ worker' = [worker EXCEPT ![r].pc = "returned", ![r].fault = TRUE]
      /\ Quiet(r) /\ UNCHANGED <<runs, rung>>

\* The worker reconciles the route inline after the block, and once more
\* after it observed the pane again, if the session is still attached.
Reconcile(r) ==
  /\ worker[r].pc \in {"blocked", "reblocked"}
  /\ calls[r].pc = "idle"
  /\ \/ /\ worker[r].pc = "blocked" \/ pane[r] # "gone"
        /\ Prepare(r, r, TRUE)
        /\ Goto(r, IF worker[r].pc = "blocked" THEN "reblocked" ELSE "reconciled")
     \/ /\ worker[r].pc = "reblocked" /\ pane[r] = "gone"
        /\ Goto(r, "returned")
        /\ UNCHANGED <<mailbox, store, calls>>
  /\ UNCHANGED <<runs, index, owed, settling, pane, paused, stopping, hold, env, panics, rung>>

Reconciled(r) ==
  /\ worker[r].pc = "reconciled"
  /\ calls[r].pc = "idle"
  /\ Goto(r, "returned")
  /\ Quiet(r) /\ UNCHANGED <<mailbox, store, runs, rung>>

\* A panic of the processing task, outside its journal appends.
Panic(r) ==
  /\ worker[r].pc \in Processing
  /\ calls[r].pc = "idle"
  /\ Panics
  /\ Goto(r, "panicked")
  /\ UNCHANGED <<mailbox, runs, index, calls, owed, settling, pane, paused, stopping, hold, store, env,
                 rung>>

\* recover_failed_job reads the record.  A run that was replaced has nothing
\* left to write; otherwise the record's state decides.
ReadFailedJob(r) ==
  LET h == Driven(r)
  IN  /\ worker[r].pc = "panicked"
      /\ runs' = [runs EXCEPT ![h].recoveries = @ + 1]
      /\ worker' = [worker EXCEPT ![r].pc = "recover",
                      ![r].cause = IF M!Owns(C(r)) THEN M!Record(C(r)).state ELSE "none"]
      /\ Quiet(r) /\ UNCHANGED <<mailbox, store, rung>>

\* The recovered run is finished and retired, and the loop goes on.
Dismissed(r) ==
  /\ worker' = [worker EXCEPT ![r].pc = "top", ![r].current = 0, ![r].restarts = 0,
                              ![r].cause = "none", ![r].wake = FALSE]
  /\ Drop(Driven(r))

\* The rest of recover_failed_job: before the write a fresh handle once, then
\* a block; after the write an alarm; for a settled record nothing.  A fact
\* that cannot be recorded leaves a visible fault.
RecoverJob(r) ==
  LET h == Driven(r)
      c == C(r)
      seen == worker[r].cause
      blocked == M!Owns(c) /\ M!Record(c).state = "blocked_pre_write"
      Fault ==
        /\ worker' = [worker EXCEPT ![r].pc = "stopped", ![r].fault = TRUE]
        /\ UNCHANGED <<runs, index>>
  IN  /\ worker[r].pc = "recover"
      /\ \/ /\ seen \in {"queued", "gating"} /\ runs[h].recoveries = 1
            /\ index[c.attempt] = h
            /\ runs' = [runs EXCEPT ![h] = NewRun(c, 1)]
            /\ worker' = [worker EXCEPT ![r].pc = "top", ![r].cause = "none", ![r].wake = FALSE]
            /\ UNCHANGED <<mailbox, store, index>>
         \/ /\ seen \in {"queued", "gating"} /\ runs[h].recoveries = 1
            /\ index[c.attempt] # h
            /\ worker' = [worker EXCEPT ![r].pc = "stopped", ![r].current = 0, ![r].fault = TRUE]
            /\ Drop(h)
            /\ UNCHANGED <<mailbox, store>>
         \/ /\ seen \in {"queued", "gating"} /\ runs[h].recoveries > 1
            /\ \/ Appends /\ M!RecordPreWriteBlock(c, "worker_failed") /\ Dismissed(r)
               \/ Appends /\ M!RecordGating(c) /\ UNCHANGED <<worker, runs, index>>
               \/ MayBlock(c) /\ Fails(BlockLine(c, "worker_failed")) /\ Fault
               \/ MayGate(c) /\ Fails(Line("gating", c)) /\ Fault
               \/ blocked /\ Fault /\ UNCHANGED <<mailbox, store>>
               \/ /\ ~ MayBlock(c) /\ ~ MayGate(c) /\ ~ blocked
                  /\ Dismissed(r) /\ UNCHANGED <<mailbox, store>>
         \/ /\ seen \in {"writing", "submitted"}
            /\ \/ Appends /\ M!RecordAttention(c) /\ Dismissed(r)
               \/ M!Record(c).state \in M!InFlight /\ Fails(Line("attention", c)) /\ Fault
               \/ M!Record(c).state \in M!Terminal /\ Fault /\ UNCHANGED <<mailbox, store>>
         \/ /\ seen \notin {"queued", "gating", "writing", "submitted"}
            /\ Dismissed(r)
            /\ UNCHANGED <<mailbox, store>>
      /\ UNCHANGED <<calls, owed, settling, pane, paused, stopping, hold, env, panics, rung>>

\* recover_outer_worker: the loop itself failed.  Its next job is recovered
\* like a failed one; without a job the loop is restarted once.
LoopFails(r) ==
  /\ worker[r].pc \in {"top", "held"}
  /\ ~ stopping
  /\ Panics
  /\ worker' = [worker EXCEPT ![r] =
       IF @.current # 0 THEN [@ EXCEPT !.pc = "panicked"]
       ELSE IF @.queue # <<>>
            THEN [@ EXCEPT !.pc = "panicked", !.current = Head(worker[r].queue), !.queue = Tail(worker[r].queue)]
       ELSE IF @.restarts = 0 THEN [@ EXCEPT !.pc = "top", !.restarts = 1]
       ELSE [@ EXCEPT !.pc = "stopped", !.fault = TRUE]]
  /\ UNCHANGED <<mailbox, runs, index, calls, owed, settling, pane, paused, stopping, hold, store, env,
                 rung>>

-----------------------------------------------------------------------------
(* Senders, recipients, operators, panes.                                  *)

\* A message is accepted, then its recipients are scheduled.  The gate of a
\* replaced attempt is not woken.  Here and below an operation whose line
\* cannot be appended answers with an error and does nothing else.
Send ==
  /\ \E m \in env.messages, to \in env.to :
       \/ /\ Appends
          /\ Accepted(m, to)
          /\ owed' = owed \cup (to \X {FALSE})
       \/ /\ Up /\ seq[m] = 0 /\ to # {}
          /\ Fails([op |-> "send", m |-> m, to |-> to])
          /\ UNCHANGED owed
  /\ UNCHANGED <<runs, index, worker, calls, settling, pane, paused, stopping, hold, env, panics, rung>>

\* claim commits; finish_claim passes the settlement on and schedules.
Claim(r, m) ==
  /\ \/ /\ Appends
        /\ M!Claim(r, m)
        /\ settling' = settling \cup ({note[r][m].attempt} \cap AttemptIds)
        /\ owed' = owed \cup {<<r, FALSE>>}
     \/ /\ Up /\ M!Pending(r, m)
        /\ Fails([op |-> "claim", r |-> r, m |-> m])
        /\ UNCHANGED <<settling, owed>>
  /\ UNCHANGED <<runs, index, worker, calls, pane, paused, stopping, hold, env, panics, rung>>

\* (A mutant of Settle: the gate is not woken.)
SettleSilent(a) ==
  /\ a \in settling
  /\ settling' = settling \ {a}
  /\ UNCHANGED <<mailbox, runs, index, worker, calls, owed, pane, paused, stopping, hold, store, env, panics, rung>>

\* settle_notification_claim and cancel_notification: a submitted handle is
\* delivered, the gate of a withdrawn one is woken.
Settle(a) ==
  /\ a \in settling
  /\ settling' = settling \ {a}
  /\ LET h == index[a]
     IN  /\ IF h # 0 /\ runs[h].state = "submitted" /\ runs[h].c.message \notin Raw
            THEN RunTo(h, "delivered") ELSE UNCHANGED runs
         /\ worker' = [r \in Recipients |->
              IF h # 0 /\ Driven(r) = h THEN [worker[r] EXCEPT !.wake = TRUE] ELSE worker[r]]
  /\ UNCHANGED <<mailbox, index, calls, owed, pane, paused, stopping, hold, store, env, panics, rung>>

\* withdraw_notification: the withdrawal, the cancel and the next head.
Withdraw(r, m) ==
  /\ env.operators
  /\ \/ /\ Appends
        /\ M!Withdraw(r, m)
        /\ settling' = settling \cup {note[r][m].attempt}
        /\ owed' = owed \cup {<<r, FALSE>>}
     \/ /\ Up /\ M!Withdrawable(note[r][m].state) /\ entry[r][m] \in {"pending", "claimed"}
        /\ Fails([op |-> "withdraw", r |-> r, m |-> m])
        /\ UNCHANGED <<settling, owed>>
  /\ UNCHANGED <<runs, index, worker, calls, pane, paused, stopping, hold, env, panics, rung>>

\* msg.requeue schedules the recipients it gave a fresh attempt.
Requeue(m) ==
  /\ env.operators
  /\ \/ /\ Appends
        /\ M!Requeue(m)
        /\ owed' = owed \cup {<<r, FALSE>> : r \in {s \in Recipients : note'[s][m] # note[s][m]}}
     \/ /\ Up /\ \E r \in Recipients : M!Requeueable(r, m)
        /\ Fails([op |-> "requeue", m |-> m])
        /\ UNCHANGED owed
  /\ UNCHANGED <<runs, index, worker, calls, settling, pane, paused, stopping, hold, env, panics, rung>>

\* A pane, its composer or its session changes: the gate's subscriptions see
\* the event, and route evidence (for a session, availability) is reconciled.
PaneChange(r) ==
  /\ Up
  /\ r \notin Headless
  /\ \E p \in env.panes \ {pane[r]} : pane' = [pane EXCEPT ![r] = p]
  /\ worker' = [worker EXCEPT ![r].wake = @ \/ worker[r].pc \in {"gate", "wait"}]
  /\ owed' = owed \cup {<<r, TRUE>>}
  /\ UNCHANGED <<mailbox, runs, index, calls, settling, paused, stopping, hold, store, env, panics, rung>>

-----------------------------------------------------------------------------
(* Quiesce, stop, crash and restart.                                       *)

\* The handles quiesce waits out.
Moving == {h \in Live \ {0} : ~ Resolved(runs[h].state) /\ ~ IsQueued(runs[h].state)}

\* daemon.quiesce sets the hold.
Quiesce(q) ==
  /\ env.holds
  /\ Up
  /\ hold[q] = "idle"
  /\ paused' = TRUE
  /\ hold' = [hold EXCEPT ![q] = "sweep"]
  /\ UNCHANGED <<mailbox, runs, index, worker, calls, owed, settling, pane, stopping, store, env, panics, rung>>

\* A sweep that finds handles past the paste waits for their outcomes.
Collect(q) ==
  /\ hold[q] = "sweep"
  /\ Moving # {}
  /\ hold' = [hold EXCEPT ![q] = "waiting"]
  /\ UNCHANGED <<mailbox, runs, index, worker, calls, owed, settling, pane, paused, stopping, store, env, panics, rung>>

\* A sweep that finds none, the first or one after a wait, answers quiet and
\* leaves the hold in place.
AnswerQuiet(q) ==
  /\ hold[q] \in {"sweep", "waiting"}
  /\ Moving = {}
  /\ hold' = [hold EXCEPT ![q] = "quiet"]
  /\ UNCHANGED <<mailbox, runs, index, worker, calls, owed, settling, pane, paused, stopping, store, env, panics, rung>>

\* (A mutant of Resume: the workers are not notified.)
ResumeSilent == paused' = FALSE /\ UNCHANGED worker

\* resume_workers
Resume ==
  /\ paused' = FALSE
  /\ worker' = [r \in Recipients |->
       IF worker[r].pc = "off" THEN worker[r] ELSE [worker[r] EXCEPT !.permit = TRUE]]

\* The call's timeout, or the bounded self-release of a quiet hold that no
\* stop followed.
ReleaseHold(q) ==
  /\ \/ hold[q] = "waiting" /\ Resume
     \/ /\ hold[q] = "quiet" /\ ~ stopping
        /\ IF paused THEN Resume ELSE UNCHANGED <<paused, worker>>
  /\ hold' = [hold EXCEPT ![q] = "over"]
  /\ UNCHANGED <<mailbox, runs, index, calls, owed, settling, pane, stopping, store, env, panics, rung>>

\* begin_stopping: no new work, and every task below the daemon is told.
Stop ==
  /\ env.stops
  /\ Up
  /\ ~ stopping
  /\ stopping' = TRUE
  /\ paused' = TRUE
  /\ UNCHANGED <<mailbox, runs, index, worker, calls, owed, settling, pane, hold, store, env, panics, rung>>

\* A worker's task is cancelled at one of its awaits.
Cancel(r) ==
  /\ stopping
  /\ worker[r].pc \in {"held", "gate", "wait", "paste", "written", "staged", "await", "reconciled"}
  /\ Goto(r, "stopped")
  /\ Quiet(r) /\ UNCHANGED <<mailbox, store, runs, rung>>

\* The process ends, in its recovery too.  Only the journal survives.
Crash ==
  /\ env.stops
  /\ writer # "closed"
  /\ writer' = "closed"
  /\ runs' = [h \in 1 .. MaxRuns |-> Free]
  /\ index' = [a \in AttemptIds |-> 0]
  /\ worker' = [r \in Recipients |-> NoWorker]
  /\ calls' = [t \in Callers |-> NoCall]
  /\ owed' = {}
  /\ settling' = {}
  /\ paused' = FALSE
  /\ stopping' = FALSE
  /\ hold' = [q \in 1 .. Quiesces |-> "idle"]
  /\ UNCHANGED <<mailbox, lost, pane, env, panics, rung>>

\* MessageStore::open: the journal is replayed, and with it the line in doubt
\* if it reached the disk.
Open ==
  /\ writer = "closed"
  /\ lost' = NoLine
  /\ \/ Replays(lost) /\ UNCHANGED writer
     \/ M!Crash /\ writer' = "open"
  /\ UNCHANGED <<runs, index, worker, calls, owed, settling, pane, paused, stopping, hold, env, panics,
                 rung>>

\* Recovery closes what was in flight; then the sessions attach, which makes
\* every pane route evidence.
Boot ==
  /\ Appends
  /\ \/ /\ \E r \in Recipients, m \in Messages : M!Recover(r, m)
        /\ UNCHANGED owed
     \/ /\ M!FinishBoot
        /\ owed' = Recipients \X {TRUE}
  /\ UNCHANGED <<runs, index, worker, calls, settling, pane, paused, stopping, hold, env, panics, rung>>

-----------------------------------------------------------------------------

Call(t) ==
  Route(t) \/ Enqueue(t) \/ Publish(t) \/ Check(t) \/ Park(t) \/ Reopen(t)

Loop(r) == Top(r) \/ Retire(r) \/ Unhold(r) \/ Finish(r) \/ RetireRun(r)

\* What process does, up to the receipt wait.
Process(r) ==
  \/ Record(r) \/ Gate(r) \/ Wait(r) \/ Verdict(r) \/ BeginPaste(r)
  \/ PasteRefused(r) \/ Write(r) \/ Paste(r) \/ Submit(r) \/ RecordSubmitted(r)
  \/ FollowSubmitted(r) \/ FollowFails(r) \/ Alarm(r) \/ Block(r) \/ Reconcile(r) \/ Reconciled(r)

Recovery(r) == ReadFailedJob(r) \/ RecoverJob(r)

Environment ==
  \/ Send
  \/ \E r \in Recipients, m \in Messages : Claim(r, m) \/ Withdraw(r, m)
  \/ \E m \in Messages : Requeue(m)
  \/ \E r \in Recipients : PaneChange(r) \/ Panic(r) \/ LoopFails(r) \/ Cancel(r)
  \/ \E q \in 1 .. Quiesces : Quiesce(q) \/ Collect(q) \/ AnswerQuiet(q) \/ ReleaseHold(q)
  \/ Stop
  \/ Crash
  \/ Open
  \/ Boot

Next ==
  \/ \E t \in Threads : Schedule(t)
  \/ \E t \in Callers : Call(t)
  \/ \E a \in AttemptIds : Settle(a)
  \/ \E r \in Recipients : Loop(r) \/ Process(r) \/ Receipt(r) \/ Recovery(r)
  \/ Environment

Spec == Init /\ [][Next]_vars

-----------------------------------------------------------------------------
(* Correctness properties.                                                 *)

\* The pipeline only ever moves the mailbox by the mailbox's own operations,
\* so what Mailbox guarantees holds under every interleaving of schedulers,
\* workers, claims, reopenings, panics, failed appends and restarts, a line
\* that turns up after its append had failed included.
\* This is M!Spec; the stuttering steps come first, as most steps are.
ImplementsMailbox == M!Init /\ [][UNCHANGED mailbox \/ M!Next]_mailbox

\* Enter is pressed once for an attempt, and only while its record says that
\* the write is under way: no retry, recovery, requeue or claim leads to a
\* second key or to one for a withdrawn attempt.
EnterOnce ==
  [][\A r \in Recipients :
       worker[r].pc = "staged" /\ worker'[r].pc = "entered" =>
         /\ C(r).attempt \notin rung
         /\ M!Owns(C(r)) /\ M!Record(C(r)).state = "writing"]_vars

\* A task is about to look at the recipient's queue.
Attended(r) ==
  \/ ~ Up \/ stopping
  \/ \E t \in Callers : calls[t].r = r
  \/ \E o \in owed : o[1] = r

Drives(r, c) ==
  \E h \in Owned(r) : runs[h].c = c

\* A notification that is queued or at the gate is never orphaned: a worker
\* holds a run for it or a scheduling call is on its way, so no wake is lost
\* between prepare, enqueue, refusal, park, retirement, panic and reopening.
\* (While the journal takes no line a wake can be neither parked nor driven;
\* the restart that opens it again owes every recipient a scheduling.  An
\* agent without a pane needs no wake.)
WakeIsOwned ==
  \A r \in Recipients \ Headless, m \in Messages :
    note[r][m].state \in {"queued", "gating"} =>
      \/ Attended(r)
      \/ Drives(r, M!Context(r, m))
      \/ worker[r].fault \/ writer = "unknown"

Accounted(r, m) ==
  \/ ~ Up \/ stopping
  \/ Driven(r) # 0 /\ C(r) = M!Context(r, m)
  \/ worker[r].fault

\* gate.rs on an in-flight attempt without an alarm: "a recipient head that
\* never advances".  A notification whose write began is driven by a worker, or
\* the worker's fault is visible, until an outcome is recorded.
InFlightIsDriven ==
  \A r \in Recipients, m \in Messages :
    note[r][m].state \in M!InFlight => Accounted(r, m)

\* The one state that recover_failed_job takes for settled.
Overlooked(r, m) == panics > 0 /\ note[r][m].state = "submitted_unverified"

\* The same, up to that state: only a panic in the receipt wait of a
\* submitted_unverified attempt leaves a write without a driver, and no
\* refused paste, failed append, hold, cancelled task or other panic does.
InFlightIsDrivenUnlessPanicked ==
  \A r \in Recipients, m \in Messages :
    note[r][m].state \in M!InFlight => Accounted(r, m) \/ Overlooked(r, m)

\* docs/development/DELIVERY.md: "Quiet means nothing is between a paste and
\* a resolved state."  While a quiet answer stands, no handle is past the
\* beginning of its paste and short of an outcome.
QuietMeansSettled ==
  \A q \in 1 .. Quiesces : hold[q] = "quiet" => Moving = {}

\* delivery/mod.rs: "Quiet keeps the pipeline held for the stop that should
\* follow, with a bounded self-release".  A quiet answer that was not released
\* by its own timer still holds the pipeline.
QuietKeepsHold ==
  \A q \in 1 .. Quiesces : hold[q] = "quiet" => paused

\* docs/development/HANDOFF.md: "worker_failed" means that "a pre-write proof
\* failed repeatedly".  Where nothing failed, no attempt is parked with it.
WorkerFailedIsAFailure ==
  \A r \in Recipients, m \in Messages :
    note[r][m].cause = "worker_failed" => panics > 0

-----------------------------------------------------------------------------
(* Liveness.  A scheduling task and a worker's task run whenever they can  *)
(* go on; the timer that releases a hold fires.  A receipt wait need not   *)
(* end, for its clock stands still while its session is detached or its    *)
(* occupant in doubt (ReceiptWait has when it ends).  Senders, panes,      *)
(* operators and failures owe nothing.                                     *)

Fairness ==
  /\ \A t \in Threads : WF_vars(Schedule(t) \/ Call(t))
  /\ \A r \in Recipients : WF_vars(Loop(r) \/ Process(r) \/ Recovery(r) \/ Call(r))
  /\ WF_vars(\E a \in AttemptIds : Settle(a))
  /\ \A q \in 1 .. Quiesces : WF_vars(Collect(q) \/ AnswerQuiet(q) \/ ReleaseHold(q))

FairSpec == Spec /\ Fairness

Ending == stopping \/ ~ Up

\* Every handle a worker owns gets its turn: whatever holds, panics,
\* withdrawals and retirements come between, the worker ends what it owns,
\* waits at the gate for its pane or for a receipt, or is visibly faulted.
QueueDrains ==
  \A r \in Recipients :
    Owned(r) # {} ~>
      Owned(r) = {} \/ worker[r].pc \in {"wait", "await"} \/ worker[r].fault \/ Ending

\* A claim or a withdrawal reaches the gate: the worker does not stay there
\* for an attempt whose message was claimed or whose wake was withdrawn.  (A
\* run that a reopening replaced is past the index and the cancel; it leaves
\* the gate with the next event of its pane.)
WithdrawalReachesGate ==
  \A r \in Recipients :
    LET Stuck ==
          /\ worker[r].pc = "wait"
          /\ index[C(r).attempt] = Driven(r)
          /\ \/ M!Claimed(r, C(r).message)
             \/ M!Owns(C(r)) /\ M!Record(C(r)).state = "withdrawn_by_operator"
    IN  Stuck ~> ~ Stuck

\* A write that began comes to an end or to its receipt wait: notified, an
\* alarm or a proof that nothing was written, unless the worker is visibly
\* faulted.
WritesEnd ==
  \A r \in Recipients, m \in Messages :
    note[r][m].state \in M!InFlight ~>
      \/ note[r][m].state \notin M!InFlight
      \/ worker[r].pc = "await" \/ worker[r].fault \/ Overlooked(r, m) \/ Ending

=============================================================================
