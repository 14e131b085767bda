----------------------------- MODULE ReceiptWait -----------------------------
(***************************************************************************)
(* The wait between the submit key and the settled receipt of one delivery *)
(* (await_ack): a timeline of evidence checkpoints that freezes while the  *)
(* pane cannot be observed, driven by four sources that race each other:   *)
(* the hook matcher, the daemon's event stream, the watcher's pane events  *)
(* and the clock.                                                          *)
(*                                                                         *)
(* Instants are kept relative to the present: a tick lowers every instant  *)
(* by one, so "due" is "at most 0" and no absolute time is needed.         *)
(***************************************************************************)
EXTENDS Integers, Sequences, SequencesExt

CONSTANTS
    HookWindow,     \* ack_timeout_ms in ticks, or 0 for a manifest without one
    Checkpoints,    \* ACK_CHECKPOINTS_MS in ticks
    Deadline,       \* SCREEN_ACK_DEADLINE in ticks
    IdStaged,       \* the message id was seen staged in the composer
    Doubts,         \* what may make the pane unreadable: subset of DoubtKinds
    MaxDetaches,    \* bound: losses of the control connection
    MaxEvents,      \* bound: pane and daemon events the surroundings add
    MaxOutage,      \* bound: ticks one freeze may last
    MaxLate         \* bound: ticks a due timer may be late

DoubtKinds == {"pane_in_mode", "occupant_unprovable", "capture_fails"}

ASSUME ReceiptAssumption ==
    /\ HookWindow \in Nat /\ Deadline \in Nat \ {0}
    /\ Checkpoints \in Seq(1 .. Deadline)
    /\ \A i, j \in DOMAIN Checkpoints : i <= j => Checkpoints[i] <= Checkpoints[j]
    /\ Doubts \subseteq DoubtKinds /\ IdStaged \in BOOLEAN
    /\ MaxDetaches \in Nat /\ MaxEvents \in Nat /\ MaxOutage \in Nat /\ MaxLate \in Nat

VARIABLES
    clock,      \* AckClock
    rx,         \* pane_rx: the watcher subscribed to (0: None) and its queue
    evq,        \* ev_rx: the daemon's broadcast stream
    working,    \* working_seen, of the loop and of the handle
    pass,       \* the receipt_checkpoint_pass under way
    outcome,    \* AckOutcome once await_ack has returned
    link,       \* SessionLink: the live watcher, 0 when detached; connected
    world,      \* the pane itself, the matcher, the bounds spent, and two
                \* histories: silent (a change nobody announced, or whose
                \* announcement was lost) and crossed (see Crossed)
    watched     \* history: ticks during which the clock ran, capped at Deadline

vars == <<clock, rx, evq, working, pass, outcome, link, world, watched>>

None == "none"
NotFrozen == 1

-----------------------------------------------------------------------------
(* AckClock *)

NewClock ==
    [tier |-> IF HookWindow = 0 THEN "screen" ELSE "hook", hook |-> HookWindow,
     cps |-> Checkpoints, next |-> 1, deadline |-> Deadline, frozen |-> NotFrozen]

IsFrozen(c) == c.frozen # NotFrozen

Freeze(c) == IF IsFrozen(c) THEN c ELSE [c EXCEPT !.frozen = 0]

Unfreeze(c) ==
    IF ~IsFrozen(c) THEN c
    ELSE LET lost == -c.frozen
         IN  [c EXCEPT !.frozen = NotFrozen,
                       !.hook = IF c.tier = "hook" THEN @ + lost ELSE @,
                       !.cps = [i \in DOMAIN @ |-> IF i >= c.next THEN @[i] + lost ELSE @[i]],
                       !.deadline = @ + lost]

NextTarget(c) ==
    IF c.tier = "hook" THEN c.hook
    ELSE IF c.next <= Len(c.cps) THEN c.cps[c.next] ELSE c.deadline

TimerDue(c) == ~IsFrozen(c) /\ NextTarget(c) <= 0

EndHookPhase(c) ==
    LET covered == {i \in c.next .. Len(c.cps) : c.cps[i] <= 0}
        first == CHOOSE i \in c.next .. Len(c.cps) + 1 :
                    i \notin covered /\ \A j \in c.next .. i - 1 : j \in covered
    IN  [c EXCEPT !.tier = "screen", !.hook = 0, !.next = first, !.cps = InsertAt(@, first, 0)]

AdvanceCheckpoint(c) == [c EXCEPT !.next = @ + 1]

(* A deadline taken one instant early. *)
ExpiredEarly(c) == ~IsFrozen(c) /\ c.deadline <= 1

Expired(c) == ~IsFrozen(c) /\ c.deadline <= 0

Elapse(c) ==
    [c EXCEPT !.hook = IF c.tier = "hook" THEN @ - 1 ELSE @,
              !.cps = [i \in DOMAIN @ |-> IF i >= c.next THEN @[i] - 1 ELSE 0],
              !.deadline = @ - 1,
              !.frozen = IF IsFrozen(c) THEN @ - 1 ELSE @]

-----------------------------------------------------------------------------
(* The pane, its session link and the two streams *)

Watcher == link.watcher

Subscribe(w) == [watcher |-> w, queue |-> <<>>]
Unsubscribed == Subscribe(0)

(* A watcher broadcasts to the loop only if the loop holds its receiver. *)
Broadcast(r, w, e) == IF w # 0 /\ r.watcher = w THEN [r EXCEPT !.queue = Append(@, e)] ELSE r

IdlePass == [at |-> "idle", watcher |-> 0, saw |-> None, mine |-> FALSE]

Init ==
    /\ link \in [watcher : {0, 1}, connected : BOOLEAN]
    /\ link.connected => link.watcher = 1
    /\ MaxDetaches = 0 => link.connected
    /\ rx = IF Watcher = 0 THEN Unsubscribed ELSE Subscribe(Watcher)
    /\ clock = IF Watcher = 0 THEN Freeze(NewClock) ELSE NewClock
    /\ working = FALSE /\ pass = IdlePass /\ outcome = None /\ watched = 0
    /\ evq \in {<<>>, <<"foreign">>} /\ Len(evq) <= MaxEvents
    /\ world = [doubt |-> None, ours |-> TRUE, left |-> FALSE, worked |-> FALSE,
                buffered |-> Range(evq), resolved |-> FALSE, silent |-> FALSE,
                crossed |-> FALSE,
                detaches |-> IF link.connected THEN 0 ELSE 1, events |-> Len(evq)]

Loop == <<clock, working, pass, outcome, watched>>

(* What a receiver that fell behind still gets: notice of the loss, then   *)
(* the messages the ring still holds.                                      *)
Overruns(q) == {<<"lagged">> \o SubSeq(q, k + 1, Len(q)) : k \in 1 .. Len(q)}

Spend == world.events < MaxEvents
Spent == [world EXCEPT !.events = @ + 1]

(* The agent took the message: the marker leaves the composer. *)
Land ==
    /\ world.ours /\ ~world.left
    /\ world' = [world EXCEPT !.left = TRUE]
    /\ UNCHANGED <<Loop, link, rx, evq>>

(* The agent starts working: a state event on both subscriptions. *)
StartWork ==
    /\ world.ours /\ world.left /\ ~world.worked
    /\ world' = [world EXCEPT !.worked = TRUE, !.buffered = @ \cup {"working"}]
    /\ evq' = Append(evq, "working")
    /\ UNCHANGED <<Loop, link, rx>>

(* Somebody else does: another pane, the process that took this one over,  *)
(* or this agent's work of before Enter, observed late.                    *)
ForeignWork ==
    /\ Spend
    /\ evq' = Append(evq, "foreign")
    /\ world' = [Spent EXCEPT !.buffered = @ \cup {"foreign"}]
    /\ UNCHANGED <<Loop, link, rx>>

(* A hook or a claim resolves the handle independently of this loop. *)
ResolveElsewhere ==
    /\ ~world.resolved
    /\ world' = [world EXCEPT !.resolved = TRUE]
    /\ UNCHANGED <<Loop, link, rx, evq>>

(* Copy mode is a row of tmux's table, so entering and leaving it are      *)
(* announced; an unreadable process table or a capture tmux refuses is not *)
(* announced by anyone.                                                    *)
Doubt(d) ==
    /\ world.doubt # d /\ (d = None \/ Spend)
    /\ world' = [IF d = None THEN world ELSE Spent EXCEPT
                    !.doubt = d, !.silent = @ \/ d \in {"occupant_unprovable", "capture_fails"}]
    /\ rx' = IF link.connected /\ "pane_in_mode" \in {d, world.doubt}
             THEN Broadcast(rx, Watcher, "changed") ELSE rx
    /\ UNCHANGED <<Loop, link, evq>>

(* The pane prints as long as it likes (bound: not on top of a backlog). *)
PaneOutput ==
    /\ link.connected /\ rx.queue = <<>>
    /\ rx' = Broadcast(rx, Watcher, "output")
    /\ UNCHANGED <<Loop, link, evq, world>>

(* Another process takes the pane over, or the pane goes away. *)
Rebind(e) ==
    /\ world.ours
    /\ world' = [world EXCEPT !.ours = FALSE]
    /\ rx' = IF link.connected THEN Broadcast(rx, Watcher, e) ELSE rx
    /\ UNCHANGED <<Loop, link, evq>>

(* Attach and detach of any watched session reach every subscriber. *)
OtherSession ==
    /\ Spend
    /\ evq' = Append(evq, "session") /\ world' = Spent
    /\ UNCHANGED <<Loop, link, rx>>

(* The daemon's broadcast ring overruns its two receivers, or the          *)
(* watcher's overruns the loop's: the oldest unread messages are lost. The *)
(* end of a stream is no message and is never lost.                        *)
Overrun ==
    /\ Spend
    /\ evq' \in Overruns(evq)
    /\ \E kept \in {{}, world.buffered} : world' = [Spent EXCEPT !.buffered = kept]
    /\ UNCHANGED <<Loop, link, rx>>

OverrunPane ==
    /\ Spend
    /\ \E q \in Overruns(rx.queue) :
          /\ Last(rx.queue) = "closed" => Last(q) = "closed"
          /\ rx' = [rx EXCEPT !.queue = q]
    /\ world' = [Spent EXCEPT !.silent = TRUE]
    /\ UNCHANGED <<Loop, link, evq>>

(* The control connection drops; the dead watcher is still linked. *)
Disconnect ==
    /\ link.connected /\ world.detaches < MaxDetaches
    /\ link' = [link EXCEPT !.connected = FALSE]
    /\ rx' = Broadcast(rx, Watcher, "disconnected")
    /\ world' = [world EXCEPT !.detaches = @ + 1]
    /\ UNCHANGED <<Loop, evq>>

(* The session task unlinks it and says so; its stream closes with it. *)
Detach ==
    /\ ~link.connected /\ Watcher # 0
    /\ link' = [link EXCEPT !.watcher = 0]
    /\ rx' = Broadcast(rx, Watcher, "closed")
    /\ evq' = Append(evq, "session")
    /\ UNCHANGED <<Loop, world>>

(* A new watcher is attached, linked and announced. *)
Reattach ==
    /\ ~link.connected /\ Watcher = 0
    /\ link' = [watcher |-> 2 + world.detaches, connected |-> TRUE]
    /\ evq' = Append(evq, "session")
    /\ UNCHANGED <<Loop, rx, world>>

(* Time passes; timers are at most MaxLate late, outages MaxOutage long. *)
Tick ==
    /\ outcome = None
    /\ IF IsFrozen(clock) THEN clock.frozen > -MaxOutage ELSE NextTarget(clock) > -MaxLate
    /\ clock' = Elapse(clock)
    /\ watched' = IF IsFrozen(clock) \/ watched = Deadline THEN watched ELSE watched + 1
    /\ UNCHANGED <<working, pass, outcome, link, rx, evq, world>>

-----------------------------------------------------------------------------
(* receipt_checkpoint_pass: three reads of a pane that keeps changing *)

Surroundings == <<link, watched>>

(* Any confirmed Working edge, whoever's and from whenever. *)
AnyWorkingEvent(e) == e \in {"working", "foreign"}

submitted_working_state_event(e) == e = "working"

(* The pass begins with the watcher linked now; without one it is a freeze. *)
BeginPass(c) ==
    /\ working' = (working \/ \E e \in world.buffered : submitted_working_state_event(e))
    /\ world' = [world EXCEPT !.buffered = {}]
    /\ IF Watcher = 0
       THEN clock' = Freeze(c) /\ pass' = IdlePass
       ELSE clock' = c /\ pass' = [IdlePass EXCEPT !.at = "refresh", !.watcher = Watcher]

Return(o) == outcome' = o /\ pass' = IdlePass /\ UNCHANGED clock
Doubtful == clock' = Freeze(clock) /\ pass' = IdlePass /\ UNCHANGED outcome

(* observe_pane has returned: receipt_refresh_step. *)
Refresh ==
    /\ outcome = None /\ pass.at = "refresh"
    /\ \/ world.resolved /\ Return("resolved")
       \/ ~world.resolved /\ Watcher # pass.watcher /\ Doubtful
       \/ /\ ~world.resolved /\ Watcher = pass.watcher
          /\ \/ (~link.connected \/ world.doubt # None) /\ Doubtful
             \/ ~world.ours /\ link.connected /\ Return("rebound")
             \/ /\ link.connected /\ world.doubt = None
                /\ pass' = [pass EXCEPT !.at = "bind"]
                /\ UNCHANGED <<clock, outcome>>
    /\ UNCHANGED <<rx, evq, working, world, Surroundings>>

(* submitted_binding_holds *)
BindingHolds == world.ours /\ world.doubt # "occupant_unprovable"

(* screen_evidence: the binding, then the capture. *)
Capture ==
    /\ outcome = None /\ pass.at = "bind"
    /\ \/ Watcher = 0 /\ Doubtful
       \/ Watcher # 0 /\ ~BindingHolds /\ Return("rebound")
       \/ /\ Watcher # 0 /\ BindingHolds
          /\ pass' = [pass EXCEPT !.at = "capture", !.watcher = Watcher]
          /\ UNCHANGED <<clock, outcome>>
    /\ UNCHANGED <<rx, evq, working, world, Surroundings>>

(* What the capture shows: a stranger's screen may show anything. *)
ShowsMarkerGone == IF world.ours THEN {world.left} ELSE BOOLEAN

Captured ==
    /\ outcome = None /\ pass.at = "capture"
    /\ \/ /\ ~link.connected \/ Watcher # pass.watcher \/ world.doubt = "capture_fails"
          /\ Doubtful
       \/ /\ link.connected /\ Watcher = pass.watcher /\ world.doubt # "capture_fails"
          /\ \E gone \in ShowsMarkerGone :
                pass' = [pass EXCEPT !.at = "rebind", !.mine = world.ours,
                                     !.saw = IF gone THEN "gone" ELSE "staged"]
          /\ UNCHANGED <<clock, outcome>>
    /\ UNCHANGED <<rx, evq, working, world, Surroundings>>

(* tier2_evidence for a manifest whose evidence is the receipt. *)
Tier2Evidence == working \/ IdStaged

(* The binding again, the rule, and checkpoint_step. *)
Verdict ==
    /\ outcome = None /\ pass.at = "rebind"
    /\ \/ ~BindingHolds /\ Return("rebound")
       \/ BindingHolds /\ pass.saw = "gone" /\ Tier2Evidence /\ Return("screen")
       \/ /\ BindingHolds /\ ~(pass.saw = "gone" /\ Tier2Evidence)
          /\ \/ Expired(clock) /\ Return("timeout")
             \/ ~Expired(clock) /\ pass' = IdlePass /\ UNCHANGED <<clock, outcome>>
    /\ UNCHANGED <<rx, evq, working, world, Surroundings>>

-----------------------------------------------------------------------------
(* await_ack: the top of the loop and the four arms of its select *)

Selecting == outcome = None /\ pass.at = "idle"

LoopTop ==
    /\ Selecting /\ world.resolved
    /\ Return("resolved")
    /\ UNCHANGED <<rx, evq, working, world, Surroundings>>

(* unfreeze slices the checkpoints from next on; advance_checkpoint counts *)
(* on past their end, and a slice that starts beyond the end panics.       *)
SlicePanics == IsFrozen(clock) /\ clock.next > Len(clock.cps) + 1

Resume(step) == step /\ outcome' = IF SlicePanics THEN "panicked" ELSE outcome

Timer ==
    /\ Selecting /\ ~world.resolved /\ TimerDue(clock)
    /\ IF clock.tier = "hook"
       THEN clock' = EndHookPhase(clock) /\ UNCHANGED <<pass, working, world>>
       ELSE BeginPass(AdvanceCheckpoint(clock))
    /\ UNCHANGED <<rx, evq, outcome, Surroundings>>

(* History: an event that should have made the loop look at its link was    *)
(* read while it held the receiver of an earlier watcher and a later one    *)
(* was linked already, and changed nothing.                                 *)
Crossed == [world EXCEPT !.crossed = @ \/ (0 \notin {rx.watcher, Watcher} /\ rx.watcher # Watcher)]

(* A session event compares the receiver held with the link as it is now. *)
SessionEvent ==
    \/ /\ rx.watcher = 0 /\ Watcher # 0
       /\ rx' = Subscribe(Watcher)
       /\ Resume(BeginPass(Unfreeze(clock)))
    \/ /\ rx.watcher # 0 /\ Watcher = 0
       /\ rx' = Unsubscribed /\ clock' = Freeze(clock)
       /\ UNCHANGED <<pass, working, world, outcome>>
    \/ /\ (rx.watcher = 0) = (Watcher = 0)
       /\ world' = Crossed
       /\ UNCHANGED <<rx, clock, pass, working, outcome>>

(* An overrun taken for an event of no interest. *)
LaggedIgnored == UNCHANGED <<rx, clock, pass, working, world, outcome>>

Lagged ==
    \/ /\ IsFrozen(clock) /\ Watcher # 0
       /\ rx' = Subscribe(Watcher)
       /\ Resume(clock' = Unfreeze(clock) /\ UNCHANGED <<pass, working, world>>)
    \/ /\ ~IsFrozen(clock) \/ Watcher = 0
       /\ world' = Crossed
       /\ UNCHANGED <<rx, clock, pass, working, outcome>>

ReadEvent ==
    /\ Selecting /\ ~world.resolved /\ evq # <<>>
    /\ evq' = Tail(evq)
    /\ \/ /\ Head(evq) \in {"working", "foreign"}
          /\ working' = (working \/ submitted_working_state_event(Head(evq)))
          /\ UNCHANGED <<rx, clock, pass, world, outcome>>
       \/ Head(evq) = "session" /\ SessionEvent
       \/ Head(evq) = "lagged" /\ Lagged
    /\ UNCHANGED Surroundings

(* receipt_pane_step *)
ReadPane ==
    /\ Selecting /\ ~world.resolved /\ rx.queue # <<>>
    /\ LET e == Head(rx.queue)
           rest == [rx EXCEPT !.queue = Tail(@)]
       IN  \/ /\ e = "changed" \/ (e = "output" /\ IsFrozen(clock))
              /\ Resume(BeginPass(Unfreeze(clock))) /\ rx' = rest
           \/ /\ e = "lagged" \/ (e = "output" /\ ~IsFrozen(clock))
              /\ rx' = rest /\ UNCHANGED <<clock, pass, working, world, outcome>>
           \/ /\ e = "removed" /\ rx' = rest
              /\ Return("rebound") /\ UNCHANGED <<working, world>>
           \/ /\ e \in {"disconnected", "closed"} /\ rx' = Unsubscribed /\ clock' = Freeze(clock)
              /\ UNCHANGED <<pass, working, world, outcome>>
    /\ UNCHANGED <<evq, Surroundings>>

Ended == outcome # None /\ UNCHANGED vars

Await == Refresh \/ Capture \/ Captured \/ Verdict \/ LoopTop \/ Timer \/ ReadEvent \/ ReadPane

Environment ==
    /\ outcome = None
    /\ \/ Land \/ StartWork \/ ForeignWork \/ ResolveElsewhere \/ PaneOutput \/ OtherSession
       \/ Overrun \/ OverrunPane \/ Disconnect \/ Detach \/ Reattach
       \/ \E d \in Doubts \cup {None} : Doubt(d)
       \/ \E e \in {"changed", "removed"} : Rebind(e)

Next == Await \/ Environment \/ Tick \/ Ended

Spec == Init /\ [][Next]_vars

(* The loop is a task the runtime keeps polling, its select is unbiased    *)
(* (no ready arm is passed over for ever), time passes, and the session    *)
(* task finishes the detach it began and keeps retrying the attach.        *)
Fairness ==
    /\ WF_vars(Refresh \/ Capture \/ Captured \/ Verdict) /\ WF_vars(LoopTop)
    /\ SF_vars(Timer) /\ SF_vars(ReadEvent) /\ SF_vars(ReadPane)
    /\ WF_vars(Tick)
    /\ WF_vars(Detach /\ outcome = None) /\ WF_vars(Reattach /\ outcome = None)

FairSpec == Spec /\ Fairness

-----------------------------------------------------------------------------
(* Every variable keeps the shape await_ack gives it. *)
TypeOK ==
    /\ clock.tier \in {"hook", "screen"} /\ clock.hook \in Int /\ clock.deadline \in Int
    /\ clock.frozen \in -MaxOutage .. NotFrozen
    /\ clock.next \in 1 .. Len(clock.cps) + 2
    /\ rx.queue \in Seq({"changed", "output", "removed", "disconnected", "closed", "lagged"})
    /\ evq \in Seq({"working", "foreign", "session", "lagged"})
    /\ pass.at \in {"idle", "refresh", "bind", "capture", "rebind"}
    /\ outcome \in {None, "resolved", "screen", "timeout", "rebound", "panicked"}
    /\ watched \in 0 .. Deadline

(* Time the clock spent frozen never counts against the acknowledgement    *)
(* window: await_ack gives up only after the full SCREEN_ACK_DEADLINE of   *)
(* unfrozen time, whatever detaches, copy modes and overruns came between. *)
FullWindow == outcome = "timeout" => watched = Deadline

(* A screen receipt stands on a capture of the pane while the process Enter *)
(* reached still held it, after the marker left its composer, and on turn   *)
(* evidence of that same agent: a replacement that clears the screen while  *)
(* the capture is read never confirms the delivery, and neither does a      *)
(* Working edge of another process or of before Enter.                      *)
ScreenReceiptIsOurs ==
    [][outcome' = "screen" /\ outcome # "screen"
        => /\ pass.mine /\ pass.saw = "gone" /\ world.left
           /\ IdStaged \/ world.worked]_vars

(* "Rebound" is the verdict that the pane changed hands after Enter, not   *)
(* that its owner could not be read for a moment.                          *)
ReboundIsProved == outcome = "rebound" => ~world.ours

(* However often the clock froze, it can be resumed: unfreeze finds the     *)
(* remaining checkpoints and the wait never dies of an index beyond them.  *)
ResumeSafe == outcome # "panicked"

(* Once the pane can be observed for good, the wait ends: the clock that   *)
(* froze for a detach or a doubt runs again and reaches the deadline.      *)
Observable == link.connected /\ world.doubt = None
WaitEnds == <>[](Observable \/ outcome # None) => <>(outcome # None)

(* What is left of it. A freeze whose end nobody announced, or whose       *)
(* announcement was overrun, is lifted by whatever the pane prints next,   *)
(* and a reattach notice lost in an overrun is made up for. Only a loop    *)
(* that looked at its link while it held the stream of an earlier watcher  *)
(* and a later one was linked already outlasts its deadline.               *)
Announced == []~world.silent \/ []<>(outcome # None) \/ []<><<PaneOutput>>_vars
WaitEndsUnlessCrossed ==
    <>[](Observable \/ outcome # None) /\ Announced => <>(outcome # None \/ world.crossed)
=============================================================================
