-------------------------- MODULE ReceiptWaitProofs --------------------------
(***************************************************************************)
(* Proofs about the receipt wait, for any timeline: any hook window,       *)
(* checkpoints and deadline, any number of detaches, doubts and events,    *)
(* outages of any length and timers of any lateness.                       *)
(***************************************************************************)
EXTENDS ReceiptWait, SequenceTheorems, TLAPS

ClockShape(c) ==
    /\ DOMAIN c = {"tier", "hook", "cps", "next", "deadline", "frozen"}
    /\ c.deadline \in Int
    /\ c.frozen \in Int /\ c.frozen <= NotFrozen

(* What a freeze has cost so far; unfreeze gives it back.                  *)
Lost(c) == IF IsFrozen(c) THEN -c.frozen ELSE 0

(* The time that ran off the deadline is the time the clock was watched.   *)
Balanced(c, w) == w = Deadline \/ c.deadline + Lost(c) + w >= Deadline

ClockInv(c, w) == ClockShape(c) /\ Balanced(c, w)

(* The inductive invariant of the window. *)
WindowInv ==
    /\ watched \in 0 .. Deadline
    /\ ClockInv(clock, watched)
    /\ FullWindow

DaemonEvents == {"working", "foreign", "session", "lagged"}

(* What the loop believes of the pane is true of the process that held it  *)
(* at Enter: it saw it work only if it worked, and a capture not yet       *)
(* judged, if that process still holds the pane, was taken from it.        *)
EvidenceInv ==
    /\ DOMAIN world = {"doubt", "ours", "left", "worked", "buffered", "resolved",
                       "silent", "crossed", "detaches", "events"}
    /\ DOMAIN pass = {"at", "watcher", "saw", "mine"}
    /\ evq \in Seq(DaemonEvents)
    /\ working \in BOOLEAN
    /\ working => world.worked
    /\ "working" \in world.buffered => world.worked
    /\ (\E i \in 1 .. Len(evq) : evq[i] = "working") => world.worked
    /\ pass.at = "rebind" /\ world.ours
         => pass.mine /\ (pass.saw = "gone" => world.left)

-----------------------------------------------------------------------------
(* The clock *)

LEMMA FreezeKeeps ==
  ASSUME NEW c, NEW w \in Int, ClockInv(c, w)
  PROVE  ClockInv(Freeze(c), w)
  BY ReceiptAssumption DEF ClockInv, ClockShape, Balanced, Lost, Freeze, IsFrozen, NotFrozen

LEMMA UnfreezeKeeps ==
  ASSUME NEW c, NEW w \in Int, ClockInv(c, w)
  PROVE  ClockInv(Unfreeze(c), w)
  BY ReceiptAssumption DEF ClockInv, ClockShape, Balanced, Lost, Unfreeze, IsFrozen, NotFrozen

LEMMA AdvanceKeeps ==
  ASSUME NEW c, NEW w \in Int, ClockInv(c, w)
  PROVE  ClockInv(AdvanceCheckpoint(c), w) /\ ClockInv(EndHookPhase(c), w)
  BY ReceiptAssumption DEF ClockInv, ClockShape, Balanced, Lost, AdvanceCheckpoint, EndHookPhase, IsFrozen, NotFrozen

LEMMA ElapseKeeps ==
  ASSUME NEW c, NEW w \in 0 .. Deadline, ClockInv(c, w)
  PROVE  ClockInv(Elapse(c), IF IsFrozen(c) \/ w = Deadline THEN w ELSE w + 1)
  <1> USE ReceiptAssumption DEF ClockInv, ClockShape, IsFrozen, NotFrozen
  <1> DEFINE e == Elapse(c)
  <1>1. /\ DOMAIN e = DOMAIN c
        /\ e.deadline = c.deadline - 1
        /\ e.frozen = IF IsFrozen(c) THEN c.frozen - 1 ELSE c.frozen
    BY DEF Elapse
  <1> HIDE DEF e
  <1>2. ClockShape(e)
    BY <1>1
  <1>3. Balanced(e, IF IsFrozen(c) \/ w = Deadline THEN w ELSE w + 1)
    BY <1>1 DEF Balanced, Lost
  <1>4. QED
    BY <1>2, <1>3 DEF e

-----------------------------------------------------------------------------
(* The window *)

LEMMA WindowInit == Init => WindowInv
  <1> SUFFICES ASSUME Init PROVE WindowInv
    OBVIOUS
  <1> USE ReceiptAssumption
  <1>1. ClockInv(NewClock, 0)
    BY DEF ClockInv, ClockShape, Balanced, Lost, NewClock, IsFrozen, NotFrozen
  <1>2. ClockInv(Freeze(NewClock), 0)
    BY <1>1, FreezeKeeps
  <1>3. clock \in {NewClock, Freeze(NewClock)} /\ watched = 0 /\ outcome = None
    BY DEF Init
  <1>4. QED
    BY <1>1, <1>2, <1>3 DEF WindowInv, FullWindow, None

(* Every step of the loop leaves the clock as it is, or freezes, resumes   *)
(* or advances it.                                                         *)
ClockStep ==
    \/ clock' = clock
    \/ \E c \in {clock, Unfreeze(clock), AdvanceCheckpoint(clock)} :
          clock' \in {c, Freeze(c)}
    \/ clock' = EndHookPhase(clock)

LEMMA AwaitStep ==
  ASSUME WindowInv, Await
  PROVE  /\ watched' = watched
         /\ ClockStep
         /\ outcome' = "timeout" => outcome = "timeout" \/ Expired(clock)
  <1> USE DEF Return, Doubtful, BeginPass, Resume, Surroundings, ClockStep
  <1>1. CASE Refresh
    BY <1>1 DEF Refresh
  <1>2. CASE Capture
    BY <1>2 DEF Capture
  <1>3. CASE Captured
    BY <1>3, Zenon DEF Captured
  <1>4. CASE Verdict
    BY <1>4 DEF Verdict
  <1>5. CASE LoopTop
    BY <1>5 DEF LoopTop
  <1>6. CASE Timer
    BY <1>6 DEF Timer
  <1>7. CASE ReadEvent
    BY <1>7 DEF ReadEvent, SessionEvent, Lagged
  <1>8. CASE ReadPane
    BY <1>8 DEF ReadPane
  <1>9. QED
    BY <1>1, <1>2, <1>3, <1>4, <1>5, <1>6, <1>7, <1>8 DEF Await

LEMMA WindowStep == WindowInv /\ [Next]_vars => WindowInv'
  <1> SUFFICES ASSUME WindowInv, [Next]_vars PROVE WindowInv'
    OBVIOUS
  <1>0. watched \in 0 .. Deadline /\ Deadline \in Nat \ {0} /\ ClockInv(clock, watched)
    BY ReceiptAssumption DEF WindowInv
  <1>1. CASE Await
    <2>1. /\ watched' = watched
          /\ ClockStep
          /\ outcome' = "timeout" => outcome = "timeout" \/ Expired(clock)
      BY <1>1, AwaitStep
    <2>2. ClockInv(clock', watched)
      <3>1. \A c : ClockInv(c, watched) => ClockInv(Freeze(c), watched)
        BY <1>0, FreezeKeeps
      <3>2. /\ ClockInv(Unfreeze(clock), watched)
            /\ ClockInv(AdvanceCheckpoint(clock), watched)
            /\ ClockInv(EndHookPhase(clock), watched)
        BY <1>0, UnfreezeKeeps, AdvanceKeeps
      <3>3. QED
        BY <2>1, <3>1, <3>2, <1>0 DEF ClockStep
    <2>3. Expired(clock) => watched = Deadline
      BY <1>0 DEF Expired, ClockInv, ClockShape, Balanced, Lost
    <2>4. QED
      BY <1>0, <2>1, <2>2, <2>3 DEF WindowInv, FullWindow
  <1>2. CASE Environment
    <2>1. UNCHANGED <<clock, outcome, watched>>
      BY <1>2, Zenon DEF Environment, Land, StartWork, ResolveElsewhere, PaneOutput,
           OtherSession, Overrun, OverrunPane, ForeignWork, Disconnect, Detach, Reattach, Doubt, Rebind, Loop
    <2>2. QED
      BY <2>1 DEF WindowInv, FullWindow
  <1>3. CASE Tick
    <2>1. /\ outcome = None /\ outcome' = outcome
          /\ clock' = Elapse(clock)
          /\ watched' = IF IsFrozen(clock) \/ watched = Deadline THEN watched ELSE watched + 1
      BY <1>3 DEF Tick
    <2>2. ClockInv(clock', watched')
      BY <1>0, <2>1, ElapseKeeps
    <2>3. watched' \in 0 .. Deadline
      BY <1>0, <2>1
    <2>4. QED
      BY <2>1, <2>2, <2>3 DEF WindowInv, FullWindow, None
  <1>4. CASE UNCHANGED vars
    BY <1>4 DEF vars, WindowInv, FullWindow
  <1>5. QED
    BY <1>1, <1>2, <1>3, <1>4 DEF Next, Ended

(* await_ack gives up only after the full acknowledgement deadline of      *)
(* unfrozen time, however often and however long the clock was frozen in   *)
(* between.                                                                *)
THEOREM FullWindowAlways == Spec => []FullWindow
  <1>1. WindowInv => FullWindow
    BY DEF WindowInv
  <1>2. QED
    BY <1>1, WindowInit, WindowStep, PTL DEF Spec

-----------------------------------------------------------------------------
(* The evidence *)

LEMMA EvidenceInit == Init => EvidenceInv
  <1> SUFFICES ASSUME Init PROVE EvidenceInv
    OBVIOUS
  <1>1. /\ evq \in {<<>>, <<"foreign">>} /\ working = FALSE /\ pass = IdlePass
        /\ world = [doubt |-> None, ours |-> TRUE, left |-> FALSE, worked |-> FALSE,
                    buffered |-> Range(evq), resolved |-> FALSE, silent |-> FALSE,
                    crossed |-> FALSE,
                    detaches |-> IF link.connected THEN 0 ELSE 1, events |-> Len(evq)]
    BY DEF Init
  <1>0. "working" \notin Range(evq)
    <2>1. CASE evq = <<>>
      BY <2>1 DEF Range
    <2>2. CASE evq = <<"foreign">>
      BY <2>2 DEF Range
    <2>3. QED
      BY <1>1, <2>1, <2>2
  <1>2. DOMAIN world = {"doubt", "ours", "left", "worked", "buffered", "resolved",
                        "silent", "crossed", "detaches", "events"}
        /\ "working" \notin world.buffered
    BY <1>0, <1>1
  <1>3. DOMAIN pass = {"at", "watcher", "saw", "mine"} /\ pass.at = "idle"
    BY <1>1 DEF IdlePass
  <1>4. /\ evq \in Seq(DaemonEvents)
        /\ ~\E i \in 1 .. Len(evq) : evq[i] = "working"
    <2>1. CASE evq = <<>>
      BY <2>1
    <2>2. CASE evq = <<"foreign">>
      BY <2>2 DEF DaemonEvents
    <2>3. QED
      BY <1>1, <2>1, <2>2
  <1>5. working = FALSE
    BY <1>1
  <1>6. QED
    BY <1>2, <1>3, <1>4, <1>5, Zenon DEF EvidenceInv

(* Neither a session event nor somebody else's work adds evidence, and an  *)
(* overrun only loses some.                                                *)
LEMMA AppendOther ==
  ASSUME NEW q \in Seq(DaemonEvents), NEW e \in {"session", "foreign"}
  PROVE  /\ Append(q, e) \in Seq(DaemonEvents)
         /\ (\E i \in 1 .. Len(Append(q, e)) : Append(q, e)[i] = "working")
              => \E i \in 1 .. Len(q) : q[i] = "working"
  BY DEF DaemonEvents

LEMMA OverrunLoses ==
  ASSUME NEW q \in Seq(DaemonEvents), NEW p \in Overruns(q)
  PROVE  /\ p \in Seq(DaemonEvents)
         /\ (\E i \in 1 .. Len(p) : p[i] = "working")
              => \E i \in 1 .. Len(q) : q[i] = "working"
  <1>1. PICK k \in 1 .. Len(q) : p = <<"lagged">> \o SubSeq(q, k + 1, Len(q))
    BY DEF Overruns
  <1> DEFINE rest == SubSeq(q, k + 1, Len(q))
  <1>2. /\ rest \in Seq(DaemonEvents)
        /\ Len(rest) \in Nat
        /\ \A i \in 1 .. Len(rest) : rest[i] = q[k + i] /\ k + i \in 1 .. Len(q)
    OBVIOUS
  <1> HIDE DEF rest
  <1>3. <<"lagged">> \in Seq(DaemonEvents) /\ Len(<<"lagged">>) = 1
    BY DEF DaemonEvents
  <1>0. p = <<"lagged">> \o rest
    BY <1>1 DEF rest
  <1>6. /\ p \in Seq(DaemonEvents) /\ Len(p) = Len(<<"lagged">>) + Len(rest)
        /\ \A i \in 1 .. Len(<<"lagged">>) + Len(rest) :
              p[i] = IF i <= Len(<<"lagged">>) THEN <<"lagged">>[i]
                     ELSE rest[i - Len(<<"lagged">>)]
    BY <1>0, <1>2, <1>3, ConcatProperties
  <1>4. /\ p \in Seq(DaemonEvents) /\ Len(p) = 1 + Len(rest)
        /\ p[1] = "lagged"
        /\ \A i \in 2 .. Len(p) : p[i] = rest[i - 1]
    BY <1>2, <1>3, <1>6
  <1>5. ASSUME NEW i \in 1 .. Len(p), p[i] = "working"
        PROVE  \E j \in 1 .. Len(q) : q[j] = "working"
    <2>1. i \in 2 .. Len(p) /\ i - 1 \in 1 .. Len(rest)
      BY <1>2, <1>4, <1>5
    <2>2. q[k + (i - 1)] = "working" /\ k + (i - 1) \in 1 .. Len(q)
      BY <1>2, <1>4, <1>5, <2>1
    <2>3. QED
      BY <2>2
  <1>7. QED
    BY <1>4, <1>5

LEMMA ReadingLoses ==
  ASSUME NEW q \in Seq(DaemonEvents), q # <<>>
  PROVE  /\ Tail(q) \in Seq(DaemonEvents)
         /\ (\E i \in 1 .. Len(Tail(q)) : Tail(q)[i] = "working")
              => \E i \in 1 .. Len(q) : q[i] = "working"
         /\ Head(q) = "working" => \E i \in 1 .. Len(q) : q[i] = "working"
  <1>1. /\ Tail(q) \in Seq(DaemonEvents) /\ Len(q) \in Nat \ {0}
        /\ Len(Tail(q)) = Len(q) - 1 /\ Head(q) = q[1]
        /\ \A i \in 1 .. Len(Tail(q)) : Tail(q)[i] = q[i + 1]
    OBVIOUS
  <1>2. QED
    BY <1>1

LEMMA EnvironmentKeepsEvidence ==
  ASSUME EvidenceInv, Environment
  PROVE  EvidenceInv'
  <1> USE DEF EvidenceInv, Loop
  <1>1. CASE Land
    BY <1>1 DEF Land
  <1>2. CASE StartWork
    <2>1. /\ evq' \in Seq(DaemonEvents)
          /\ world' = [world EXCEPT !.worked = TRUE, !.buffered = @ \cup {"working"}]
          /\ UNCHANGED <<working, pass>>
      BY <1>2 DEF StartWork, DaemonEvents
    <2>2. /\ DOMAIN world' = DOMAIN world
          /\ world'.worked /\ world'.ours = world.ours /\ world'.left = world.left
      BY <2>1
    <2>3. QED
      BY <2>1, <2>2
  <1>3. CASE ResolveElsewhere \/ PaneOutput \/ Disconnect
    BY <1>3 DEF ResolveElsewhere, PaneOutput, Disconnect, Spent
  <1>9. CASE OverrunPane
    <2>1. /\ world' = [Spent EXCEPT !.silent = TRUE]
          /\ UNCHANGED <<evq, working, pass>>
      BY <1>9 DEF OverrunPane
    <2>2. /\ DOMAIN world' = DOMAIN world
          /\ world'.worked = world.worked /\ world'.ours = world.ours
          /\ world'.left = world.left /\ world'.buffered = world.buffered
      BY <2>1 DEF Spent
    <2>3. QED
      BY <2>1, <2>2
  <1>4. CASE OtherSession \/ Detach \/ Reattach \/ ForeignWork
    <2>1. /\ \E e \in {"session", "foreign"} : evq' = Append(evq, e)
          /\ UNCHANGED <<working, pass>>
          /\ world' \in {world, Spent, [Spent EXCEPT !.buffered = @ \cup {"foreign"}]}
      BY <1>4 DEF OtherSession, Detach, Reattach, ForeignWork
    <2>2. /\ evq' \in Seq(DaemonEvents)
          /\ (\E i \in 1 .. Len(evq') : evq'[i] = "working")
               => \E i \in 1 .. Len(evq) : evq[i] = "working"
      BY <2>1, AppendOther, Zenon
    <2>3. /\ DOMAIN world' = DOMAIN world
          /\ world'.worked = world.worked /\ world'.ours = world.ours
          /\ world'.left = world.left
          /\ "working" \in world'.buffered => "working" \in world.buffered
      <3>1. CASE world' = world
        BY <3>1
      <3>2. CASE world' = Spent
        BY <3>2 DEF Spent
      <3>3. CASE world' = [Spent EXCEPT !.buffered = @ \cup {"foreign"}]
        BY <3>3 DEF Spent
      <3>4. QED
        BY <2>1, <3>1, <3>2, <3>3
    <2>4. QED
      BY <2>1, <2>2, <2>3
  <1>5. CASE Overrun
    <2>1. PICK kept \in {{}, world.buffered} : world' = [Spent EXCEPT !.buffered = kept]
      BY <1>5 DEF Overrun
    <2>2. evq' \in Overruns(evq) /\ UNCHANGED <<working, pass>>
      BY <1>5 DEF Overrun
    <2>3. /\ evq' \in Seq(DaemonEvents)
          /\ (\E i \in 1 .. Len(evq') : evq'[i] = "working")
               => \E i \in 1 .. Len(evq) : evq[i] = "working"
      BY <2>2, OverrunLoses, Zenon
    <2>4. /\ DOMAIN world' = DOMAIN world
          /\ world'.worked = world.worked /\ world'.ours = world.ours
          /\ world'.left = world.left
          /\ "working" \in world'.buffered => "working" \in world.buffered
      BY <2>1 DEF Spent
    <2>5. QED
      BY <2>2, <2>3, <2>4
  <1>6. ASSUME NEW d \in Doubts \cup {None}, Doubt(d) PROVE EvidenceInv'
    BY <1>6 DEF Doubt, Spent
  <1>7. ASSUME NEW e \in {"changed", "removed"}, Rebind(e) PROVE EvidenceInv'
    BY <1>7 DEF Rebind
  <1>8. QED
    BY <1>1, <1>2, <1>3, <1>4, <1>5, <1>6, <1>7, <1>9 DEF Environment

LEMMA AwaitKeepsEvidence ==
  ASSUME EvidenceInv, Await
  PROVE  EvidenceInv'
  <1>1. CASE Refresh \/ Capture \/ Verdict \/ LoopTop
    <2>1. UNCHANGED <<evq, working, world>>
      BY <1>1 DEF Refresh, Capture, Verdict, LoopTop
    <2>2. \/ pass' = IdlePass
          \/ pass' = [pass EXCEPT !.at = "bind"]
          \/ pass' = [pass EXCEPT !.at = "capture", !.watcher = Watcher]
      BY <1>1 DEF Refresh, Capture, Verdict, LoopTop, Return, Doubtful
    <2>3. DOMAIN pass' = {"at", "watcher", "saw", "mine"} /\ pass'.at # "rebind"
      <3>1. CASE pass' = IdlePass
        BY <3>1 DEF IdlePass
      <3>2. CASE pass' = [pass EXCEPT !.at = "bind"]
        BY <3>2 DEF EvidenceInv
      <3>3. CASE pass' = [pass EXCEPT !.at = "capture", !.watcher = Watcher]
        BY <3>3 DEF EvidenceInv
      <3>4. QED
        BY <2>2, <3>1, <3>2, <3>3
    <2>4. QED
      BY <2>1, <2>3 DEF EvidenceInv
  <1>2. CASE Captured
    <2>1. UNCHANGED <<evq, working, world>>
      BY <1>2, Zenon DEF Captured
    <2>2. CASE pass' = IdlePass
      <3>1. DOMAIN pass' = {"at", "watcher", "saw", "mine"} /\ pass'.at # "rebind"
        BY <2>2 DEF IdlePass
      <3>2. QED
        BY <2>1, <3>1 DEF EvidenceInv
    <2>3. CASE \E gone \in ShowsMarkerGone :
                 pass' = [pass EXCEPT !.at = "rebind", !.mine = world.ours,
                                      !.saw = IF gone THEN "gone" ELSE "staged"]
      <3>1. PICK gone \in ShowsMarkerGone :
              pass' = [pass EXCEPT !.at = "rebind", !.mine = world.ours,
                                   !.saw = IF gone THEN "gone" ELSE "staged"]
        BY <2>3, Zenon
      <3>2. /\ DOMAIN pass' = {"at", "watcher", "saw", "mine"}
            /\ pass'.mine = world.ours
            /\ pass'.saw = IF gone THEN "gone" ELSE "staged"
        BY <3>1 DEF EvidenceInv
      <3>3. world.ours => gone = world.left
        BY DEF ShowsMarkerGone
      <3>4. QED
        BY <2>1, <3>2, <3>3 DEF EvidenceInv
    <2>4. QED
      BY <1>2, <2>2, <2>3, Zenon DEF Captured, Doubtful
  <1>3. CASE Timer \/ ReadEvent \/ ReadPane
    <2>1. /\ world' \in {world, [world EXCEPT !.buffered = {}], Crossed}
          /\ evq' = evq \/ (evq # <<>> /\ evq' = Tail(evq))
          /\ \/ working' = working
             \/ working' = (working \/ \E e \in world.buffered : e = "working")
             \/ working' = (working \/ Head(evq) = "working") /\ evq # <<>>
      BY <1>3 DEF Timer, ReadEvent, SessionEvent, Lagged, ReadPane, Resume,
           Return, BeginPass, submitted_working_state_event
    <2>2. /\ pass.at = "idle"
          /\ \/ pass' \in {pass, IdlePass}
             \/ pass' = [IdlePass EXCEPT !.at = "refresh", !.watcher = Watcher]
      BY <1>3 DEF Timer, ReadEvent, SessionEvent, Lagged, ReadPane, Resume,
           Return, BeginPass, Selecting
    <2>3. DOMAIN pass' = {"at", "watcher", "saw", "mine"} /\ pass'.at # "rebind"
      <3>1. CASE pass' = pass
        BY <2>2, <3>1 DEF EvidenceInv
      <3>2. CASE pass' = IdlePass
        BY <3>2 DEF IdlePass
      <3>3. CASE pass' = [IdlePass EXCEPT !.at = "refresh", !.watcher = Watcher]
        BY <3>3 DEF IdlePass
      <3>4. QED
        BY <2>2, <3>1, <3>2, <3>3
    <2>4. /\ DOMAIN world' = DOMAIN world
          /\ world'.worked = world.worked
          /\ "working" \in world'.buffered => "working" \in world.buffered
      BY <2>1 DEF EvidenceInv, Crossed
    <2>5. /\ evq' \in Seq(DaemonEvents)
          /\ (\E i \in 1 .. Len(evq') : evq'[i] = "working")
               => \E i \in 1 .. Len(evq) : evq[i] = "working"
          /\ (evq # <<>> /\ Head(evq) = "working")
               => \E i \in 1 .. Len(evq) : evq[i] = "working"
      BY <2>1, ReadingLoses, Zenon DEF EvidenceInv
    <2>6. working' \in BOOLEAN /\ (working' => world.worked)
      <3>1. CASE working' = working
        BY <3>1 DEF EvidenceInv
      <3>2. CASE working' = (working \/ \E e \in world.buffered : e = "working")
        BY <3>2 DEF EvidenceInv
      <3>3. CASE working' = (working \/ Head(evq) = "working") /\ evq # <<>>
        BY <2>5, <3>3, Zenon DEF EvidenceInv
      <3>4. QED
        BY <2>1, <3>1, <3>2, <3>3
    <2>7. QED
      BY <2>3, <2>4, <2>5, <2>6 DEF EvidenceInv
  <1>4. QED
    BY <1>1, <1>2, <1>3 DEF Await

LEMMA EvidenceStep == EvidenceInv /\ [Next]_vars => EvidenceInv'
  <1> SUFFICES ASSUME EvidenceInv, [Next]_vars PROVE EvidenceInv'
    OBVIOUS
  <1>1. CASE UNCHANGED <<evq, working, world, pass>>
    BY <1>1 DEF EvidenceInv
  <1>2. QED
    BY <1>1, EnvironmentKeepsEvidence, AwaitKeepsEvidence DEF Next, Ended, Tick, vars

(* A screen receipt stands on a capture of the process Enter reached, after *)
(* the marker left its composer, and on turn evidence of that same process, *)
(* whoever took the pane over while the capture was read.                  *)
THEOREM ScreenReceiptAlwaysOurs == Spec => ScreenReceiptIsOurs
  <1> DEFINE Ours == outcome' = "screen" /\ outcome # "screen"
                       => /\ pass.mine /\ pass.saw = "gone" /\ world.left
                          /\ IdStaged \/ world.worked
  <1>1. ASSUME EvidenceInv, Next, outcome' = "screen", outcome # "screen"
        PROVE  Verdict
    BY <1>1, Zenon DEF Next, Ended, vars, Tick, Environment, Land, StartWork,
         ResolveElsewhere, PaneOutput, OtherSession, Overrun, OverrunPane, ForeignWork, Disconnect, Detach,
         Reattach, Doubt, Rebind, Loop, Await, Refresh, Capture, Captured, LoopTop,
         Timer, ReadEvent, SessionEvent, Lagged, ReadPane, Resume, Return, Doubtful
  <1>2. ASSUME EvidenceInv, Verdict, outcome' = "screen", outcome # "screen"
        PROVE  Ours
    BY <1>2 DEF Verdict, Return, BindingHolds, Tier2Evidence, EvidenceInv
  <1>3. EvidenceInv /\ [Next]_vars => [Ours]_vars
    BY <1>1, <1>2
  <1>4. QED
    BY <1>3, EvidenceInit, EvidenceStep, PTL DEF Spec, ScreenReceiptIsOurs
=============================================================================
