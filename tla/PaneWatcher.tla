---------------------------- MODULE PaneWatcher ----------------------------
(***************************************************************************)
(* The pane table of one session (cyclops-tmux/src/watcher.rs) and the     *)
(* bounded notification queue that feeds it (control.rs).  tmux pushes     *)
(* subscription values and structural hints; the control reader puts them  *)
(* into a queue of fixed capacity, or records one continuity gap; the      *)
(* watch loop applies what it receives, and replaces the whole table from  *)
(* an authoritative query when a hint, a gap or a request asks for it.     *)
(***************************************************************************)
EXTENDS Integers, Sequences, FiniteSets

CONSTANTS
  Panes,     \* pane ids; tmux never reuses one
  First,     \* the panes the session starts with
  Capacity,  \* NOTIFICATION_CAPACITY
  Loads      \* what a run may meet: how often tmux changes something, how many
             \* replies are late, how many reconciles the owner asks for, how
             \* many subscriptions tmux refuses

ASSUME WatcherAssumption ==
  /\ First \subseteq Panes /\ Capacity \in Nat
  /\ Loads \subseteq [changes : Nat, late : Nat, asks : Nat, refuse : Nat]

VARIABLES
  load,      \* what the run may still meet
  \* tmux
  rows,      \* the session's panes: a value standing for title, mode, command
             \* and pid, and whether the pane is dead
  name,      \* the session's name
  gone,      \* the session was destroyed and the client moved to another
  subs,      \* panes with a subscription, and the value last pushed
  deaths,    \* panes whose dead flag was pushed, and the flag
  armed,     \* the session-wide dead subscription exists
  wire,      \* the control stream the reader has not read
  \* control.rs
  queue,     \* queued notifications
  gap,       \* NotificationGap
  hung,      \* the reader has ended
  \* watcher.rs
  pc,        \* where the loop is: in its select, or awaiting a command
  why,       \* the arm of the select that is reconciling
  reply,     \* the reply block the awaited command received
  table, session, deadline, epoch,   \* the loop's own state
  added,     \* the panes the current reconcile added to the table
  missed     \* since the last snapshot a query failed, or a value came and went
             \* between two ticks (history)

vars == <<load, rows, name, gone, subs, deaths, armed, wire, queue, gap, hung, pc, why,
          reply, table, session, deadline, epoch, added, missed>>
server == <<rows, name, gone, subs, deaths, armed>>
watch == <<pc, why, table, session, deadline, epoch, added, missed>>

NoEpoch == -1
Nothing == [kind |-> "none"]
Row(v, d) == [val |-> v, dead |-> d]

Init ==
  /\ load \in Loads
  /\ rows = [p \in First |-> Row(0, FALSE)] /\ name = 0 /\ gone = FALSE
  /\ subs = <<>> /\ deaths = <<>> /\ armed = FALSE
  /\ wire = <<>> /\ queue = <<>> /\ gap = [pending |-> FALSE, epoch |-> 0] /\ hung = FALSE
  /\ pc = "name" /\ why = "boot" /\ reply = Nothing
  /\ table = <<>> /\ session = 0 /\ deadline = FALSE /\ epoch = NoEpoch
  /\ added = {} /\ missed = FALSE

----------------------------------------------------------------------------
\* tmux (external).

With(f, p, v) == [q \in DOMAIN f \cup {p} |-> IF q = p THEN v ELSE f[q]]
Only(f, S) == [q \in DOMAIN f \cap S |-> f[q]]

Change ==
  /\ load.changes > 0 /\ ~gone /\ ~hung
  /\ load' = [load EXCEPT !.changes = @ - 1]
  /\ UNCHANGED <<queue, gap, hung, reply, pc, why, table, session, deadline, epoch, added>>

Hint == [kind |-> "hint"]

\* A title, mode, command or pid changes: nothing is sent until the next tick,
\* and nothing then either if it went back to the value last pushed.
SetValue(p) ==
  /\ Change
  /\ p \in DOMAIN rows /\ ~rows[p].dead
  /\ rows' = [rows EXCEPT ![p].val = 1 - @]
  /\ missed' = (missed \/ (p \in DOMAIN subs /\ subs[p] = 1 - rows[p].val))
  /\ UNCHANGED <<name, gone, subs, deaths, armed, wire>>

\* A pane that stays on the screen after its process ended.
Die(p) ==
  /\ Change
  /\ p \in DOMAIN rows /\ ~rows[p].dead
  /\ rows' = [rows EXCEPT ![p].dead = TRUE]
  /\ UNCHANGED <<name, gone, subs, deaths, armed, missed, wire>>

Split(p) ==
  /\ Change
  /\ p \in Panes \ (First \cup DOMAIN rows \cup DOMAIN deaths)
  /\ rows' = With(rows, p, Row(0, FALSE))
  /\ wire' = Append(wire, Hint)
  /\ UNCHANGED <<name, gone, subs, deaths, armed, missed>>

Kill(p) ==
  /\ Change
  /\ p \in DOMAIN rows /\ DOMAIN rows # {p}
  /\ rows' = Only(rows, Panes \ {p})
  /\ wire' = Append(wire, Hint)
  /\ UNCHANGED <<name, gone, subs, deaths, armed, missed>>

Rename ==
  /\ Change
  /\ name' = 1 - name
  /\ wire' = Append(wire, [kind |-> "renamed", name |-> name'])
  /\ UNCHANGED <<rows, gone, subs, deaths, armed, missed>>

\* The session is destroyed and its client switched to a surviving session.
Destroy ==
  /\ Change
  /\ gone' = TRUE
  /\ wire' = Append(wire, Hint)
  /\ UNCHANGED <<rows, name, subs, deaths, armed, missed>>

Output(p) ==
  /\ Change
  /\ p \in DOMAIN rows
  /\ wire' = Append(wire, [kind |-> "output", pane |-> p])
  /\ UNCHANGED <<rows, name, gone, subs, deaths, armed, missed>>

\* A tick pushes a subscribed value that differs from the one last pushed.  A
\* dead pane is skipped; its death goes out on the session-wide subscription.
ValueDue(p) == p \in DOMAIN rows \cap DOMAIN subs /\ ~rows[p].dead /\ subs[p] # rows[p].val
DeathDue(p) == /\ armed /\ p \in DOMAIN rows
               /\ IF p \in DOMAIN deaths THEN deaths[p] # rows[p].dead ELSE TRUE

Tick(p) ==
  /\ ~gone /\ ~hung
  /\ \/ /\ ValueDue(p)
        /\ subs' = [subs EXCEPT ![p] = rows[p].val]
        /\ wire' = Append(wire, [kind |-> "value", pane |-> p, val |-> rows[p].val])
        /\ UNCHANGED deaths
     \/ /\ DeathDue(p)
        /\ deaths' = With(deaths, p, rows[p].dead)
        /\ wire' = Append(wire, [kind |-> "dead", pane |-> p, dead |-> rows[p].dead])
        /\ UNCHANGED subs
  /\ UNCHANGED <<load, rows, name, gone, armed, queue, gap, hung, reply, watch>>

\* The commands the loop awaits, executed at one instant each; the reply goes
\* out behind the notifications already sent.  The subscriptions of `no` are
\* refused, and so is the dead subscription when ~arms.
Answer ==
  CASE pc = "name" -> [kind |-> "reply", ok |-> ~gone, name |-> name]
    [] pc = "list" -> [kind |-> "reply", ok |-> ~gone, rows |-> rows]
    [] pc = "probe" -> [kind |-> "reply", ok |-> ~gone]
    [] OTHER -> [kind |-> "reply", ok |-> TRUE]

Waiting == pc \in {"name", "list", "subscribe", "arm", "probe"} /\ reply = Nothing

Execute(no, arms) ==
  /\ subs' = IF pc = "subscribe"
             THEN [p \in (DOMAIN subs \cap DOMAIN table) \cup (added \ no) |->
                     IF p \in DOMAIN subs THEN subs[p] ELSE -1]
             ELSE subs
  /\ armed' = (armed \/ (pc = "arm" /\ arms))

Respond ==
  /\ Waiting /\ ~hung /\ \A i \in DOMAIN wire : wire[i].kind # "reply"
  /\ wire' = Append(wire, Answer)
  /\ \/ Execute({}, TRUE) /\ UNCHANGED load
     \/ /\ load.refuse > 0
        /\ load' = [load EXCEPT !.refuse = @ - 1]
        /\ \/ pc = "subscribe" /\ \E no \in SUBSET added \ {{}} : Execute(no, TRUE)
           \/ pc = "arm" /\ Execute({}, FALSE)
  /\ UNCHANGED <<rows, name, gone, deaths, queue, gap, hung, reply, watch>>

Hangup ==
  /\ load.changes > 0 /\ ~hung
  /\ hung' = TRUE /\ load' = [load EXCEPT !.changes = 0]
  /\ UNCHANGED <<server, wire, queue, gap, reply, watch>>

----------------------------------------------------------------------------
\* The control reader.

Marker == [kind |-> "lost"]

\* enqueue_notification and record_notification_gap: a notification that finds
\* no permit leaves a marker behind the retained ones, and until the consumer
\* has reconciled every later one only moves the epoch.
Regular(q) == SelectSeq(q, LAMBDA n : n # Marker)

enqueue_notification(n) ==
  IF gap.pending
  THEN gap' = [gap EXCEPT !.epoch = @ + 1] /\ UNCHANGED queue
  ELSE IF Len(Regular(queue)) < Capacity
  THEN queue' = Append(queue, n) /\ UNCHANGED gap
  ELSE /\ queue' = Append(queue, Marker)
       /\ gap' = [pending |-> TRUE, epoch |-> gap.epoch + 1]

Read ==
  /\ wire # <<>> /\ ~hung
  /\ wire' = Tail(wire)
  /\ IF Head(wire).kind = "reply"
     THEN reply' = Head(wire) /\ UNCHANGED <<queue, gap>>
     ELSE enqueue_notification(Head(wire)) /\ UNCHANGED reply
  /\ UNCHANGED <<load, server, hung, watch>>

----------------------------------------------------------------------------
\* handle_notification, in the first arm of the select.

\* Every handler answers whether it asks for a reconcile.
Hinted(b) == deadline' = (deadline \/ b)

output_activity(n) == Hinted(n.pane \notin DOMAIN table) /\ UNCHANGED <<table, session>>

dead_edge(n) ==
  /\ Hinted(IF n.pane \in DOMAIN table THEN table[n.pane].dead # n.dead ELSE TRUE)
  /\ UNCHANGED <<table, session>>

\* A pushed value carries the dead flag too, and can only carry a live pane's.
apply_sub_value(n) ==
  /\ Hinted(n.pane \notin DOMAIN table)
  /\ table' = IF n.pane \in DOMAIN table
              THEN [table EXCEPT ![n.pane] = Row(n.val, FALSE)] ELSE table
  /\ UNCHANGED session

handle_session_renamed(n) == session' = n.name /\ UNCHANGED <<table, deadline>>

handle_notification ==
  /\ pc = "select" /\ queue # <<>> /\ Head(queue) # Marker
  /\ queue' = Tail(queue)
  /\ LET n == Head(queue)
     IN \/ n.kind = "output" /\ output_activity(n)
        \/ n.kind = "dead" /\ dead_edge(n)
        \/ n.kind = "value" /\ apply_sub_value(n)
        \/ n.kind = "renamed" /\ handle_session_renamed(n)
        \/ n.kind = "hint" /\ Hinted(TRUE) /\ UNCHANGED <<table, session>>
  /\ UNCHANGED <<load, server, wire, gap, hung, pc, why, reply, epoch, added, missed>>

----------------------------------------------------------------------------
\* The reconciling arms.

Begin(w) == pc' = "name" /\ why' = w

\* Action::ContinuityLost, with hold_continuity.
continuity_lost ==
  /\ pc = "select" /\ queue # <<>> /\ Head(queue) = Marker
  /\ queue' = Tail(queue)
  /\ gap' = [gap EXCEPT !.pending = TRUE] /\ epoch' = gap.epoch
  /\ Begin("gap")
  /\ UNCHANGED <<load, server, wire, hung, reply, table, session, deadline, added, missed>>

\* reconcile_now, asked for by the owner.
reconcile_now ==
  /\ pc = "select" /\ load.asks > 0
  /\ load' = [load EXCEPT !.asks = @ - 1]
  /\ Begin("request")
  /\ UNCHANGED <<server, wire, queue, gap, hung, reply, table, session, deadline, epoch,
                 added, missed>>

\* The debounce deadline.
deadline_passes ==
  /\ pc = "select" /\ deadline
  /\ deadline' = FALSE
  /\ Begin("hint")
  /\ UNCHANGED <<load, server, wire, queue, gap, hung, reply, table, session, epoch, added,
                 missed>>

\* The stream ended: None once the queue is empty, Disconnected in a command.
disconnected ==
  /\ hung /\ pc # "ended"
  /\ pc = "select" => queue = <<>>
  /\ pc' = "ended"
  /\ UNCHANGED <<load, server, wire, queue, gap, hung, reply, why, table, session, deadline,
                 epoch, added, missed>>

\* A reply later than the command timeout: tmux executed the command, and the
\* reply is dropped when it comes.
late ==
  /\ Waiting /\ load.late > 0 /\ \E i \in DOMAIN wire : wire[i].kind = "reply"
  /\ load' = [load EXCEPT !.late = @ - 1]
  /\ reply' = [kind |-> "reply", ok |-> FALSE, late |-> TRUE]
  /\ wire' = SelectSeq(wire, LAMBDA n : n.kind # "reply")
  /\ UNCHANGED <<server, queue, gap, hung, watch>>

Got(stage) == pc = stage /\ reply # Nothing /\ reply' = Nothing
Late == "late" \in DOMAIN reply

\* recover_session_name and follow_session_name: a failure keeps the old name.
recover_session_name ==
  /\ Got("name") /\ pc' = "list"
  /\ session' = IF reply.ok THEN reply.name ELSE session
  /\ missed' = ~reply.ok
  /\ UNCHANGED <<load, server, wire, queue, gap, hung, why, table, deadline, epoch, added>>

\* Mutant of reconcile_fails: a failed gap reconcile is not retried.
FailsUnretried ==
  /\ Got("list") /\ ~reply.ok
  /\ missed' = TRUE
  /\ deadline' = FALSE
  /\ pc' = CASE why = "boot" -> "ended"
             [] why = "gap" -> "select"
             [] OTHER -> IF epoch # NoEpoch THEN "ended" ELSE "probe"
  /\ UNCHANGED <<load, server, wire, queue, gap, hung, why, table, session, epoch, added>>

\* A failed query in each arm: bootstrap gives up, a gap is retried once, a
\* request and a hint ask whether the session is gone.
reconcile_fails ==
  /\ Got("list") /\ ~reply.ok
  /\ missed' = TRUE
  /\ deadline' = (why = "gap")
  /\ pc' = CASE why = "boot" -> "ended"
             [] why = "gap" -> "select"
             [] OTHER -> IF epoch # NoEpoch THEN "ended" ELSE "probe"
  /\ UNCHANGED <<load, server, wire, queue, gap, hung, why, table, session, epoch, added>>

\* session_gone: only a reply that says so ends the watcher.
session_gone ==
  /\ Got("probe")
  /\ pc' = IF reply.ok \/ Late THEN "select" ELSE "ended"
  /\ UNCHANGED <<load, server, wire, queue, gap, hung, why, table, session, deadline, epoch,
                 added, missed>>

\* Mutant of resume_after_reconcile: the epoch is not compared.
ResumesAnyway == TRUE

\* It refuses if anything was dropped since the epoch was read.
resume_after_reconcile == gap.epoch = epoch

\* The end of a reconcile that succeeded: bootstrap goes on to arm the dead
\* subscription; the other arms resume the stream when a gap is held.
Succeeds ==
  \/ /\ why = "boot"
     /\ pc' = "arm"
     /\ UNCHANGED <<queue, gap, deadline, epoch>>
  \/ /\ why # "boot" /\ epoch = NoEpoch
     /\ pc' = "select" /\ deadline' = FALSE
     /\ UNCHANGED <<queue, gap, epoch>>
  \/ /\ why # "boot" /\ epoch # NoEpoch /\ resume_after_reconcile
     /\ pc' = "select" /\ deadline' = FALSE
     /\ queue' = <<>> /\ gap' = [gap EXCEPT !.pending = FALSE] /\ epoch' = NoEpoch
  \/ /\ why # "boot" /\ epoch # NoEpoch /\ ~resume_after_reconcile
     /\ pc' = "ended"
     /\ UNCHANGED <<queue, gap, deadline, epoch>>

\* reconcile_target: the snapshot replaces the table.  The subscription
\* commands for the panes it adds and removes are awaited as one; one that is
\* refused is not repeated by a later reconcile, which no longer adds its pane.
reconcile_target ==
  /\ Got("list") /\ reply.ok
  /\ table' = reply.rows
  /\ added' = DOMAIN reply.rows \ DOMAIN table
  /\ IF DOMAIN reply.rows = DOMAIN table THEN Succeeds
     ELSE pc' = "subscribe" /\ UNCHANGED <<queue, gap, deadline, epoch>>
  /\ UNCHANGED <<load, server, wire, hung, why, session, missed>>

subscribe_pane ==
  /\ Got("subscribe")
  /\ Succeeds
  /\ added' = {}
  /\ UNCHANGED <<load, server, wire, hung, why, table, session, missed>>

\* Answered either way: the loop starts.
subscribe_dead ==
  /\ Got("arm")
  /\ pc' = "select"
  /\ UNCHANGED <<load, server, wire, queue, gap, hung, why, table, session, deadline, epoch,
                 added, missed>>

----------------------------------------------------------------------------
Loop == handle_notification \/ continuity_lost \/ deadline_passes \/ disconnected
          \/ recover_session_name \/ reconcile_target \/ reconcile_fails \/ session_gone
          \/ subscribe_pane \/ subscribe_dead

Tmux == \/ \E p \in Panes : SetValue(p) \/ Die(p) \/ Split(p) \/ Kill(p) \/ Output(p)
        \/ Rename \/ Destroy \/ Hangup

Next == Loop \/ Read \/ Respond \/ late \/ reconcile_now \/ Tmux \/ \E p \in Panes : Tick(p)

\* The loop and the reader run, and tmux answers what it is sent.
Spec == Init /\ [][Next]_vars /\ WF_vars(Loop) /\ WF_vars(Read) /\ WF_vars(Respond)

----------------------------------------------------------------------------
TypeOK ==
  /\ DOMAIN rows \cup DOMAIN table \cup DOMAIN subs \cup DOMAIN deaths \subseteq Panes
  /\ name \in 0..1 /\ session \in 0..1
  /\ gap.pending \in BOOLEAN /\ gap.epoch \in Nat /\ epoch \in Nat \cup {NoEpoch}
  /\ pc \in {"name", "list", "subscribe", "arm", "probe", "select", "ended"}
  /\ why \in {"boot", "gap", "request", "hint"}
  /\ Len(queue) <= Capacity + 1

\* Nothing is on its way to the loop, and tmux has nothing left to push.
Quiet ==
  /\ pc = "select" /\ ~hung /\ wire = <<>> /\ queue = <<>>
  /\ ~deadline /\ ~gap.pending
  /\ \A p \in Panes : ~ValueDue(p) /\ ~DeathDue(p)

\* What the loop can know of a pane: its death needs the session-wide
\* subscription, its value a subscription of its own as well.
Current(p) ==
  armed => /\ table[p].dead = rows[p].dead
           /\ p \in DOMAIN subs => table[p].val = rows[p].val

\* "Missed events cost freshness, never correctness" (watcher.rs): whatever was
\* dropped, delayed or applied behind a newer snapshot, once nothing is on its
\* way the panes and the name are tmux's, each pane is as tmux has it as far as
\* its subscriptions were granted, and a destroyed session is noticed.  Two
\* things are excused until the next reconcile, and SettledIsAlwaysTrue does not
\* excuse them: a query that failed, and a value that came and went between two
\* ticks.
SettledIsTrue ==
  Quiet /\ ~missed =>
    ~gone /\ session = name /\ DOMAIN table = DOMAIN rows /\ \A p \in DOMAIN rows : Current(p)

\* A gap is held until the table was replaced or the watcher gives up, and that
\* happens: no watcher goes on without notifications.
GapEnds == gap.pending ~> ~gap.pending \/ pc = "ended"

\* SettledIsTrue with no exception: the claim of the module's first comment.
SettledIsAlwaysTrue == Quiet => ~gone /\ session = name /\ table = rows
=============================================================================
