---------------------------- MODULE ControlPipe ----------------------------
(***************************************************************************)
(* The tmux control client (cyclops-tmux/src/control.rs): many tasks share *)
(* one `tmux -C` child.  A command takes a permit of a bounded semaphore,  *)
(* waits its turn for the stdin mutex, pushes a reply slot and writes its  *)
(* line; tmux answers the lines in order, and the reader task hands each   *)
(* reply block to the oldest slot.  The reader also queues a resume for    *)
(* every pane flow control pauses, which a worker task writes through the  *)
(* same pipe.  Three parties may close the pipe: the reader when the       *)
(* stream ends, the worker when a resume cannot be written, and shutdown.  *)
(***************************************************************************)
EXTENDS Integers, Sequences, FiniteSets

CONSTANTS
  Callers,         \* tasks that use command() and wait for the reply
  Loops,           \* the callers whose task may be aborted: the watch loop, a
                   \* lifecycle recheck, a connection's request handler
  Typists,         \* tasks that send keys and do not wait for the reply
  Panes,           \* panes that flow control may pause
  Capacity,        \* PENDING_REPLY_CAPACITY
  ResumeCapacity,  \* PAUSE_RESUME_CAPACITY
  Room,            \* lines the stdin pipe holds before a write blocks
  Loads            \* what a run may meet: how many commands each client issues,
                   \* how many pauses tmux imposes, how many resumes it refuses,
                   \* whether a reply is oversized, tasks are aborted, shutdown
                   \* is called

ASSUME PipeAssumption ==
  /\ Capacity \in Nat /\ ResumeCapacity \in Nat /\ Room \in Nat
  /\ Loads \subseteq [commands : [Callers \cup Typists -> Nat], pauses : Nat,
                       refusals : Nat, overflow : BOOLEAN, aborts : BOOLEAN,
                       stops : BOOLEAN]
  /\ Loops \subseteq Callers
  /\ Callers \cap Typists = {}
  /\ {"worker", "shutdown", "reader"} \cap (Callers \cup Typists) = {}

VARIABLES
  load,      \* what the run may still meet
  stdin,     \* the mutex still holds the child's stdin
  closed,    \* the reply-slot semaphore is closed
  lock,      \* FIFO of tasks at the stdin mutex; the first one holds it
  waiters,   \* FIFO of tasks waiting for a permit
  pending,   \* reply slots, named by the line each was pushed for
  tin,       \* lines written that tmux has not executed
  replies,   \* reply blocks tmux wrote that the reader has not read
  notices,   \* %pause notifications the reader has not read
  resumes,   \* panes queued for the resume worker
  resuming,  \* the pane the worker is resuming
  tmux,      \* the child is running
  paused,    \* panes tmux holds paused
  pauses,    \* pauses so far
  pc,        \* where each task is
  sent,      \* commands each task has begun
  got,       \* what each caller's last command returned
  stopping,  \* shutdown was called
  orphans,   \* slots whose task was dropped in the middle of its write (history)
  refused    \* panes whose resume tmux answered with %error (history)

vars == <<load, stdin, closed, lock, waiters, pending, tin, replies, notices, resumes,
          resuming, tmux, paused, pauses, pc, sent, got, stopping, orphans, refused>>

stream == <<tin, replies, notices, tmux, paused, pauses, refused>>

Clients == Callers \cup Typists
Writers == Clients \cup {"worker", "shutdown"}
Tasks == Writers \cup {"reader"}

\* A command line: whose it is, and which of its commands (for the worker,
\* which pane it resumes).
Line(t) == <<t, IF t = "worker" THEN resuming ELSE sent[t]>>
Lines == (Clients \X Nat) \cup ({"worker"} \X (Panes \cup {"none"}))
           \cup ({"shutdown"} \X Nat)

Errors == {"none", "busy", "disconnected", "failed", "timeout"}

\* A permit is held from its acquisition to the removal of the slot it moved
\* into.
Free == Capacity - Len(pending) - Cardinality({t \in Writers : pc[t] = "queued"})

\* A queue that a task leaves.
Without(s, t) ==
  LET At == {i \in DOMAIN s : s[i] = t}
      k == CHOOSE i \in At : TRUE
  IN IF At = {} THEN s
     ELSE [i \in 1..(Len(s) - 1) |-> IF i < k THEN s[i] ELSE s[i + 1]]

Init ==
  /\ load \in Loads
  /\ stdin = TRUE /\ closed = FALSE /\ lock = <<>> /\ waiters = <<>>
  /\ pending = <<>> /\ tin = <<>> /\ replies = <<>> /\ notices = <<>>
  /\ resumes = <<>> /\ resuming = "none"
  /\ tmux = TRUE /\ paused = {} /\ pauses = 0
  /\ pc = [t \in Tasks |-> "idle"]
  /\ sent = [t \in Clients \cup {"shutdown"} |-> 0]
  /\ got = [c \in Callers |-> "none"]
  /\ stopping = FALSE /\ orphans = 0 /\ refused = {}

----------------------------------------------------------------------------
\* Entering the pipe.

\* Where a command that cannot be submitted leaves its task: a client returns
\* the error, the worker and shutdown go on to close the pipe.
Refused(t) == IF t \in Clients THEN "idle" ELSE "broken"

Returns(t, r) == IF t \in Callers THEN [got EXCEPT ![t] = r] ELSE got

\* submit_target: try_acquire never waits and never overtakes a waiter.
submit(t) ==
  /\ pc[t] = "idle"
  /\ t \in Clients => sent[t] < load.commands[t]
  /\ t = "shutdown" => stopping
  /\ sent' = [sent EXCEPT ![t] = @ + 1]
  /\ \/ /\ closed \/ Free <= 0 \/ waiters # <<>>
        /\ pc' = [pc EXCEPT ![t] = Refused(t)]
        /\ got' = Returns(t, IF closed THEN "disconnected" ELSE "busy")
        /\ UNCHANGED lock
     \/ /\ ~closed /\ Free > 0 /\ waiters = <<>>
        /\ pc' = [pc EXCEPT ![t] = "queued"]
        /\ got' = Returns(t, "none")
        /\ lock' = Append(lock, t)
  /\ UNCHANGED <<load, stdin, closed, waiters, pending, resumes, resuming, stopping, orphans,
                 stream>>

\* reserve_input_capacity: a typist that found the FIFO full waits for a slot.
reserve_input_capacity(t) ==
  /\ pc[t] = "idle" /\ sent[t] < load.commands[t]
  /\ pc' = [pc EXCEPT ![t] = "reserving"]
  /\ sent' = [sent EXCEPT ![t] = @ + 1]
  /\ waiters' = Append(waiters, t)
  /\ UNCHANGED <<load, stdin, closed, lock, pending, resumes, resuming, got, stopping, orphans,
                 stream>>

\* The resume worker takes the next pane and waits for capacity.
TakeResume ==
  /\ pc["worker"] = "idle" /\ resumes # <<>>
  /\ resuming' = Head(resumes) /\ resumes' = Tail(resumes)
  /\ pc' = [pc EXCEPT !["worker"] = "reserving"]
  /\ waiters' = Append(waiters, "worker")
  /\ UNCHANGED <<load, stdin, closed, lock, pending, sent, got, stopping, orphans, stream>>

\* The reader is gone, so its sender is: the worker's queue ends.
WorkerEnds ==
  /\ pc["worker"] = "idle" /\ resumes = <<>> /\ pc["reader"] = "ended"
  /\ pc' = [pc EXCEPT !["worker"] = "ended"]
  /\ UNCHANGED <<load, stdin, closed, lock, waiters, pending, resumes, resuming, sent,
                 got, stopping, orphans, stream>>

\* acquire_owned: the oldest waiter gets the permit, or every waiter learns
\* that the semaphore is closed.
reserve_capacity(t) ==
  /\ pc[t] = "reserving"
  /\ \/ /\ ~closed /\ Free > 0 /\ t = Head(waiters)
        /\ pc' = [pc EXCEPT ![t] = "queued"]
        /\ lock' = Append(lock, t)
     \/ /\ closed
        /\ pc' = [pc EXCEPT ![t] = Refused(t)]
        /\ UNCHANGED lock
  /\ waiters' = Without(waiters, t)
  /\ UNCHANGED <<load, stdin, closed, pending, resumes, resuming, sent, got, stopping, orphans,
                 stream>>

----------------------------------------------------------------------------
\* Writing, with the stdin mutex held.

Holds(t) == lock # <<>> /\ Head(lock) = t

\* write_target: the slot is pushed before the line is written.
write_target(t) ==
  /\ pc[t] = "queued" /\ Holds(t)
  /\ IF stdin
     THEN /\ pending' = Append(pending, Line(t))
          /\ pc' = [pc EXCEPT ![t] = "writing"]
          /\ UNCHANGED <<lock, got>>
     ELSE /\ pc' = [pc EXCEPT ![t] = Refused(t)]
          /\ got' = Returns(t, "disconnected")
          /\ lock' = Tail(lock)
          /\ UNCHANGED pending
  /\ UNCHANGED <<load, stdin, closed, waiters, resumes, resuming, sent, stopping, orphans,
                 stream>>

\* After the write a caller waits for its reply, unless one was already
\* handed to its slot; shutdown goes on to close the pipe.
Written(t) ==
  CASE t \in Callers /\ got[t] = "none" -> "waiting"
    [] t = "shutdown" -> "broken"
    [] OTHER -> "idle"

\* write_command_line succeeds: it blocks while the pipe is full.
write_command_line(t) ==
  /\ pc[t] = "writing" /\ tmux /\ Len(tin) < Room
  /\ tin' = Append(tin, Line(t))
  /\ lock' = Tail(lock)
  /\ pc' = [pc EXCEPT ![t] = Written(t)]
  /\ UNCHANGED <<load, stdin, closed, waiters, pending, replies, notices, resumes,
                 resuming, tmux, paused, pauses, refused, sent, got, stopping, orphans>>

\* The callers whose receivers a drain of the slots fails.
Drained == {c \in Callers : /\ pc[c] = "waiting"
                            /\ \E i \in DOMAIN pending : pending[i] = Line(c)}

\* poison_after_write_failure: the child is gone, the write fails.
poison_after_write_failure(t) ==
  /\ pc[t] = "writing" /\ ~tmux
  /\ stdin' = FALSE /\ closed' = TRUE /\ pending' = <<>>
  /\ lock' = Tail(lock)
  /\ pc' = [u \in Tasks |-> IF u = t THEN Refused(t)
                            ELSE IF u \in Drained THEN "idle" ELSE pc[u]]
  /\ got' = [c \in Callers |-> IF c = t THEN "failed"
                               ELSE IF c \in Drained THEN "disconnected" ELSE got[c]]
  /\ UNCHANGED <<load, waiters, resumes, resuming, sent, stopping, orphans, stream>>

\* CommandPipe::close, first half: wake the capacity waiters, then queue for
\* the mutex.
close(t) ==
  /\ pc[t] = "broken"
  /\ closed' = TRUE
  /\ lock' = Append(lock, t)
  /\ pc' = [pc EXCEPT ![t] = "closing"]
  /\ UNCHANGED <<load, stdin, waiters, pending, resumes, resuming, sent, got,
                 stopping, orphans, stream>>

\* CommandPipe::close, second half: drop stdin and fail everything waiting.
drain(t) ==
  /\ pc[t] = "closing" /\ Holds(t)
  /\ stdin' = FALSE /\ pending' = <<>>
  /\ lock' = Tail(lock)
  /\ pc' = [u \in Tasks |-> IF u = t THEN (IF t = "shutdown" THEN "reaping" ELSE "ended")
                            ELSE IF u \in Drained THEN "idle" ELSE pc[u]]
  /\ got' = [c \in Callers |-> IF c \in Drained THEN "disconnected" ELSE got[c]]
  /\ UNCHANGED <<load, closed, waiters, resumes, resuming, sent, stopping, orphans, stream>>

\* Mutant of command_times_out: the timed-out call takes its slot out.
TimeoutForgets(c) ==
  /\ pc[c] = "waiting"
  /\ pc' = [pc EXCEPT ![c] = "idle"]
  /\ got' = [got EXCEPT ![c] = "timeout"]
  /\ pending' = SelectSeq(pending, LAMBDA l : l # Line(c))
  /\ UNCHANGED <<load, stdin, closed, lock, waiters, resumes, resuming, sent, stopping, orphans,
                 stream>>

\* command: the wait for the reply is bounded; the slot stays in the FIFO.
command_times_out(c) ==
  /\ pc[c] = "waiting"
  /\ pc' = [pc EXCEPT ![c] = "idle"]
  /\ got' = [got EXCEPT ![c] = "timeout"]
  /\ UNCHANGED <<load, stdin, closed, lock, waiters, pending, resumes, resuming, sent,
                 stopping, orphans, stream>>

----------------------------------------------------------------------------
\* The reader.

\* Mutant of read_reply: the slot is taken out only when its caller still
\* waits for the reply.
ReplyKept ==
  /\ pc["reader"] = "idle" /\ replies # <<>>
  /\ replies' = Tail(replies)
  /\ LET heard == {c \in Callers : /\ pending # <<>> /\ Head(pending) = Line(c)
                                   /\ pc[c] \in {"writing", "waiting"}}
     IN /\ pending' = IF heard = {} THEN pending ELSE Tail(pending)
        /\ got' = [c \in Callers |-> IF c \in heard THEN Head(replies) ELSE got[c]]
        /\ pc' = [t \in Tasks |-> IF t \in heard /\ pc[t] = "waiting" THEN "idle"
                                  ELSE pc[t]]
  /\ UNCHANGED <<load, stdin, closed, lock, waiters, tin, notices, resumes, resuming,
                 tmux, paused, pauses, refused, sent, stopping, orphans>>

\* A reply block goes to the oldest slot, whoever waits behind it.
read_reply ==
  /\ pc["reader"] = "idle" /\ replies # <<>>
  /\ replies' = Tail(replies)
  /\ pending' = IF pending = <<>> THEN pending ELSE Tail(pending)
  /\ LET heard == {c \in Callers : /\ pending # <<>> /\ Head(pending) = Line(c)
                                   /\ pc[c] \in {"writing", "waiting"}}
     IN /\ got' = [c \in Callers |-> IF c \in heard THEN Head(replies) ELSE got[c]]
        /\ pc' = [t \in Tasks |-> IF t \in heard /\ pc[t] = "waiting" THEN "idle"
                                  ELSE pc[t]]
  /\ UNCHANGED <<load, stdin, closed, lock, waiters, tin, notices, resumes, resuming,
                 tmux, paused, pauses, refused, sent, stopping, orphans>>

\* Mutant of read_pause: a pane that does not fit the queue is dropped.
PauseDropped ==
  /\ pc["reader"] = "idle" /\ notices # <<>>
  /\ notices' = Tail(notices)
  /\ resumes' = IF Len(resumes) >= ResumeCapacity THEN resumes
                ELSE Append(resumes, Head(notices))
  /\ UNCHANGED <<load, stdin, closed, lock, waiters, pending, tin, replies, resuming,
                 tmux, paused, pauses, refused, pc, sent, got, stopping, orphans>>

\* A pause is queued for the worker; a full or abandoned queue ends the
\* connection rather than lose the pane.
read_pause ==
  /\ pc["reader"] = "idle" /\ notices # <<>>
  /\ notices' = Tail(notices)
  /\ IF pc["worker"] = "ended" \/ Len(resumes) >= ResumeCapacity
     THEN pc' = [pc EXCEPT !["reader"] = "broken"] /\ UNCHANGED resumes
     ELSE resumes' = Append(resumes, Head(notices)) /\ UNCHANGED pc
  /\ UNCHANGED <<load, stdin, closed, lock, waiters, pending, tin, replies, resuming,
                 tmux, paused, pauses, refused, sent, got, stopping, orphans>>

\* A reply block larger than its envelope ends the connection, with its slot
\* still in the FIFO and the child still running.
read_overflow ==
  /\ load.overflow
  /\ pc["reader"] = "idle" /\ replies # <<>>
  /\ pc' = [pc EXCEPT !["reader"] = "broken"]
  /\ UNCHANGED <<load, stdin, closed, lock, waiters, pending, resumes, resuming, sent,
                 got, stopping, orphans, stream>>

\* End of the stream.
read_eof ==
  /\ pc["reader"] = "idle" /\ ~tmux /\ replies = <<>> /\ notices = <<>>
  /\ pc' = [pc EXCEPT !["reader"] = "broken"]
  /\ UNCHANGED <<load, stdin, closed, lock, waiters, pending, resumes, resuming, sent,
                 got, stopping, orphans, stream>>

----------------------------------------------------------------------------
\* shutdown.

\* Watcher::shutdown: its loop is told to abort, then the client shuts down.
request_shutdown ==
  /\ load.stops /\ ~stopping
  /\ stopping' = TRUE
  /\ UNCHANGED <<load, stdin, closed, lock, waiters, pending, resumes, resuming, pc,
                 sent, got, orphans, stream>>

\* A task aborted inside command(), at one of its awaits, leaves the mutex, and
\* leaves behind the slot it pushed.  A line that was being written is not
\* written: it fits the pipe whole or not at all.  The next task of its kind
\* issues the caller's further commands.
abort(c) ==
  /\ load.aborts /\ c \in Loops /\ pc[c] \in {"queued", "writing", "waiting"}
  /\ pc' = [pc EXCEPT ![c] = "idle"]
  /\ got' = [got EXCEPT ![c] = "none"]
  /\ lock' = Without(lock, c)
  /\ orphans' = IF pc[c] = "writing" THEN orphans + 1 ELSE orphans
  /\ UNCHANGED <<load, stdin, closed, waiters, pending, resumes, resuming, sent,
                 stopping, stream>>

\* The 500 ms around the detach are over.
detach_times_out ==
  /\ pc["shutdown"] \in {"queued", "writing"}
  /\ pc' = [pc EXCEPT !["shutdown"] = "broken"]
  /\ lock' = Without(lock, "shutdown")
  /\ orphans' = IF pc["shutdown"] = "writing" THEN orphans + 1 ELSE orphans
  /\ UNCHANGED <<load, stdin, closed, waiters, pending, resumes, resuming, sent, got,
                 stopping, stream>>

\* The child exits within the grace period or is killed; the reader is aborted.
reap ==
  /\ pc["shutdown"] = "reaping"
  /\ tmux' = FALSE
  /\ pc' = [pc EXCEPT !["shutdown"] = "ended", !["reader"] = "ended"]
  /\ lock' = Without(lock, "reader")
  /\ UNCHANGED <<load, stdin, closed, waiters, pending, tin, replies, notices,
                 resumes, resuming, paused, pauses, refused, sent, got, stopping, orphans>>

----------------------------------------------------------------------------
\* tmux (external): executes its input in order, pauses panes, exits.

\* A resume lifts the pause, or is answered with %error and does not.
Execute ==
  LET line == Head(tin)
  IN /\ tmux /\ tin # <<>>
     /\ tin' = Tail(tin) /\ replies' = Append(replies, line)
     /\ tmux' = (line[1] # "shutdown")
     /\ \/ /\ paused' = IF line[1] = "worker" THEN paused \ {line[2]} ELSE paused
           /\ UNCHANGED <<load, refused>>
        \/ /\ line[1] = "worker" /\ load.refusals > 0
           /\ load' = [load EXCEPT !.refusals = @ - 1]
           /\ refused' = refused \cup {line[2]}
           /\ UNCHANGED paused
     /\ UNCHANGED <<stdin, closed, lock, waiters, pending, notices, resumes,
                    resuming, pauses, pc, sent, got, stopping, orphans>>

Pause(p) ==
  /\ tmux /\ p \notin paused /\ pauses < load.pauses
  /\ paused' = paused \cup {p} /\ pauses' = pauses + 1
  /\ notices' = Append(notices, p)
  /\ UNCHANGED <<load, stdin, closed, lock, waiters, pending, tin, replies, resumes,
                 resuming, tmux, pc, sent, got, stopping, orphans, refused>>

Exit ==
  /\ tmux /\ tmux' = FALSE
  /\ UNCHANGED <<load, stdin, closed, lock, waiters, pending, tin, replies, notices,
                 resumes, resuming, paused, pauses, refused, pc, sent, got, stopping, orphans>>

----------------------------------------------------------------------------
Pipe(t) == write_target(t) \/ write_command_line(t) \/ poison_after_write_failure(t)
Closer(t) == close(t) \/ drain(t)
ReaderLoop == read_reply \/ read_pause \/ read_eof \/ Closer("reader")
Reader == ReaderLoop \/ read_overflow
Worker == TakeResume \/ WorkerEnds \/ reserve_capacity("worker") \/ Pipe("worker")
            \/ Closer("worker")
Shutdown == submit("shutdown") \/ Pipe("shutdown") \/ detach_times_out
              \/ Closer("shutdown") \/ reap
Tmux == Execute \/ Exit \/ \E p \in Panes : Pause(p)

Next ==
  \/ \E t \in Clients : submit(t) \/ Pipe(t)
  \/ \E c \in Callers : command_times_out(c) \/ abort(c)
  \/ \E t \in Typists : reserve_input_capacity(t) \/ reserve_capacity(t)
  \/ Reader \/ Worker \/ Shutdown \/ request_shutdown \/ Tmux

\* Every runtime task runs, and every timer fires.
ClientFairness ==
  /\ \A t \in Clients : WF_vars(Pipe(t))
  /\ \A c \in Callers : WF_vars(command_times_out(c))
  /\ \A t \in Typists : WF_vars(reserve_capacity(t))
  /\ WF_vars(ReaderLoop) /\ WF_vars(Worker) /\ WF_vars(Shutdown)

\* tmux goes on executing what it was sent.
Responsive == WF_vars(Execute)

WedgedSpec == Init /\ [][Next]_vars /\ ClientFairness
Spec == WedgedSpec /\ Responsive

----------------------------------------------------------------------------
TypeOK ==
  /\ stdin \in BOOLEAN /\ closed \in BOOLEAN /\ tmux \in BOOLEAN /\ stopping \in BOOLEAN
  /\ lock \in Seq(Tasks) /\ waiters \in Seq(Typists \cup {"worker"})
  /\ pending \in Seq(Lines) /\ tin \in Seq(Lines) /\ replies \in Seq(Lines)
  /\ notices \in Seq(Panes) /\ resumes \in Seq(Panes)
  /\ resuming \in Panes \cup {"none"}
  /\ paused \in SUBSET Panes /\ pauses \in Nat
  /\ pc \in [Tasks -> {"idle", "reserving", "queued", "writing", "waiting", "broken",
                       "closing", "reaping", "ended"}]
  /\ sent \in [Clients \cup {"shutdown"} -> Nat]
  /\ got \in [Callers -> Errors \cup Lines]
  /\ orphans \in Nat /\ refused \in SUBSET Panes

\* FIFO correlation (the comment on CommandPipe: queue order always matches
\* write order): a command() call that returns a reply block returns the
\* block tmux wrote for that very command, however calls interleave, time out,
\* fail or are aborted before or after their write, and through shutdown.  It is
\* lost once a task was dropped between pushing its slot and writing its line:
\* see OwnReplyAlways.
OwnReply == \A c \in Callers : got[c] \notin Errors => got[c] = Line(c) \/ orphans > 0

\* The slots that orphaned lines left are never answered and use up the FIFO.
Leaked == orphans >= Capacity

\* Every call returns, a typist's wait for capacity and shutdown included, as
\* long as tmux goes on executing commands or exits, and orphans leave a slot.
CallsReturn ==
  /\ \A t \in Clients : pc[t] # "idle" ~> pc[t] = "idle" \/ Leaked
  /\ stopping ~> pc["shutdown"] = "ended"

\* A pane that flow control paused is resumed, or the connection is closed so
\* that the session reattaches: no pane stays silent behind a live client, save
\* one whose resume tmux refused, which the reader only logs.
PausedPaneResumes ==
  \A p \in Panes : p \in paused ~> p \notin paused \/ closed \/ p \in refused \/ Leaked

\* shutdown's own comment: "a wedged stdin pipe must never hang shutdown".
ShutdownEnds == stopping ~> pc["shutdown"] = "ended"

\* OwnReply with no exception: the claim of the comment on CommandPipe.
OwnReplyAlways == \A c \in Callers : got[c] \notin Errors => got[c] = Line(c)
=============================================================================
