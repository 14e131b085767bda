---------------------------- MODULE ComposerHold ----------------------------
(***************************************************************************)
(* The composer barrier of one pane: what the daemon knows about text in   *)
(* the pane's input line, who may change that knowledge, and the store of  *)
(* turn ends that releases it.  Observations (recompute), delivery         *)
(* attempts, receipts, mailbox claims, hooks, a person typing and the      *)
(* agent itself all move it concurrently.                                  *)
(***************************************************************************)
EXTENDS Integers, Sequences, FiniteSets, SequencesExt

CONSTANTS
    Attempts,       \* the pane's delivery attempts in their worker's order, as barrier tokens
    Turns,          \* turn keys
    EndsCap,        \* ENDS_CAP
    Loads           \* what a run may meet: lanes, the lanes its occupants may have
                    \* (hooks name their turns); dispatch, a keyed acknowledgement is
                    \* bound before it is published; reads, recipients read their
                    \* mailbox while an attempt is open; people, a person types;
                    \* hidden, a capture may miss text that is in the composer;
                    \* agents, bound: successive occupants of the pane

Owners == Range(Attempts)

ASSUME HoldAssumption ==
    /\ EndsCap \in Nat \ {0} /\ Attempts \in Seq(Owners)
    /\ Loads \subseteq [lanes : SUBSET BOOLEAN, dispatch : BOOLEAN, reads : BOOLEAN,
                        people : BOOLEAN, hidden : BOOLEAN, agents : Nat]

VARIABLES
    load,       \* what this run may meet
    entry,      \* DetEntry: hold, hold_owner, turn, agent
    ends,       \* PaneEnds of the pane
    job,        \* each attempt's progress
    clearing,   \* attempts settled by their worker or by a mailbox read whose
                \* barrier that task has yet to clear
    pane,       \* the pane itself: text, lines queued behind the turn, turn, agent,
                \* keyed; history: a capture saw the text while no attempt owned the
                \* barrier (guarded), or while another one did (covered)
    past        \* turns that started, ended, were reported; who was taken by which

vars == <<load, entry, ends, job, clearing, pane, past>>

None == "none"
Clear == "clear"
Staged == "staged"
StagedDuringTurn == "staged_during_turn"
TurnStarted == "turn_started"

Waiting(h) == h \in {Staged, StagedDuringTurn}

-----------------------------------------------------------------------------
(* PaneEnds *)

NoEnds(a) == [agent |-> a, pinned |-> None, seen |-> <<>>, lost |-> FALSE]

(* The store of this binding, emptied when the binding changed. *)
Bound(e, a) == IF e.agent = a THEN e ELSE NoEnds(a)

(* An eviction that forgets which end a hold is waiting for. *)
EvictOldest(e) ==
    IF Len(e.seen) <= EndsCap THEN e
    ELSE [e EXCEPT !.seen = Tail(@), !.lost = TRUE]

(* Over the cap, the oldest end other than the pinned one goes. *)
Evict(e) ==
    LET loose == {i \in DOMAIN e.seen : e.seen[i] # e.pinned}
        first == CHOOSE i \in loose : \A j \in loose : i <= j
    IN  IF Len(e.seen) <= EndsCap \/ loose = {} THEN e
        ELSE [e EXCEPT !.seen = RemoveAt(@, first), !.lost = TRUE]

(* A store that keeps only the end somebody already waits for. *)
RecordPinnedOnly(e, a, t) ==
    LET b == Bound(e, a)
    IN  IF b.pinned # t THEN b ELSE Evict([b EXCEPT !.seen = Append(@, t)])

Record(e, a, t) ==
    LET b == Bound(e, a)
    IN  Evict(IF Contains(b.seen, t) THEN b ELSE [b EXCEPT !.seen = Append(@, t)])

MayPin(e, a, t) == Bound(e, a).pinned \in {None, t}
Pin(e, a, t) == [Bound(e, a) EXCEPT !.pinned = t]
Holds(e, a, t) == e.agent = a /\ Contains(e.seen, t)

(* take and retire: both need the exact pin, take also the end. *)
Unpin(e, a, t) ==
    IF e.agent # a \/ e.pinned # t THEN e
    ELSE [e EXCEPT !.pinned = None, !.seen = SelectSeq(@, LAMBDA k : k # t)]

Take(e, a, t) == IF Contains(e.seen, t) THEN Unpin(e, a, t) ELSE e

-----------------------------------------------------------------------------
(* ComposerHold::advance on one frame: [input, running], ended by the lane *)

(* An advance that releases on a clean frame whichever turn ended. *)
AdvanceAnyEnd(h, f, ended) ==
    IF f.input
    THEN IF h = StagedDuringTurn \/ f.running THEN StagedDuringTurn ELSE Staged
    ELSE IF h = Clear THEN Clear
    ELSE IF h = StagedDuringTurn THEN IF f.running THEN h ELSE Staged
    ELSE IF f.running THEN TurnStarted
    ELSE IF h = TurnStarted THEN Clear ELSE h

Advance(h, f, ended) ==
    IF f.input
    THEN IF h = StagedDuringTurn \/ f.running THEN StagedDuringTurn ELSE Staged
    ELSE IF h = Clear THEN Clear
    ELSE IF h = StagedDuringTurn THEN IF f.running THEN h ELSE Staged
    ELSE IF f.running THEN TurnStarted
    ELSE IF h = TurnStarted /\ ended THEN Clear ELSE h

(* settle_turn's answer about the turn the hold waits on; without one the  *)
(* lane is the screen's, where an idle pane has ended its turn.            *)
Ended(e, n) == n.turn = None \/ Holds(e, n.agent, n.turn)

(* settle_turn's effect on the store. *)
SettleEnds(e, n, next) ==
    IF n.turn = None \/ next = TurnStarted THEN e
    ELSE IF next = Clear /\ Ended(e, n) THEN Take(e, n.agent, n.turn)
    ELSE Unpin(e, n.agent, n.turn)

-----------------------------------------------------------------------------

Fresh(a, k) ==
    [text |-> None, covered |-> FALSE, guarded |-> "no", queue |-> <<>>, turn |-> None,
     agent |-> a, keyed |-> k]

(* The composer's text becomes x, which no capture has seen. *)
Compose(p, x) == [p EXCEPT !.text = x, !.covered = FALSE, !.guarded = "no"]

Init ==
    /\ entry = [hold |-> Clear, owner |-> None, turn |-> None, agent |-> 1]
    /\ ends = NoEnds(0)
    /\ job = [o \in Owners |-> "new"] /\ clearing = {}
    /\ load \in Loads /\ \E k \in load.lanes : pane = Fresh(1, k)
    /\ past = [started |-> {}, ended |-> {}, reported |-> {},
               took |-> [o \in Owners |-> None]]

(* composer_hold_carried_entry: first sight of an occupant starts clear. *)
Carried ==
    IF entry.agent = pane.agent THEN entry
    ELSE [hold |-> Clear, owner |-> None, turn |-> None, agent |-> pane.agent]

(* A recompute whose occupant is proven.  Text may be missing from one     *)
(* frame, but not from a capture taken after the output has settled.       *)
Observe(visible, settled) ==
    /\ settled \/ ~load.hidden => visible
    /\ LET f == [input |-> visible /\ pane.text # None, running |-> pane.turn # None]
           n == Carried
           base == IF settled /\ n.owner = None /\ Waiting(n.hold) /\ ~f.input
                   THEN Clear ELSE n.hold
           next == Advance(base, f, Ended(ends, n))
       IN  /\ ends' = SettleEnds(ends, n, next)
           /\ entry' = [hold |-> next, agent |-> n.agent,
                        turn |-> IF next = TurnStarted THEN n.turn ELSE None,
                        owner |-> IF next # Clear THEN n.owner ELSE None]
           /\ pane' = [pane EXCEPT !.guarded = IF f.input /\ n.owner = None THEN "yes" ELSE @,
                                   !.covered = @ \/ (f.input /\ n.owner \notin {None, pane.text})]
    /\ UNCHANGED <<load, job, clearing, past>>

-----------------------------------------------------------------------------
(* The delivery attempt: claim, write, submit, settle *)

To(o, s) == job' = [job EXCEPT ![o] = s]

(* The worker runs the pane's attempts one at a time, in their order. *)
IsNext(o) ==
    /\ \A p \in Owners : job[p] \notin {"claimed", "staged", "submitted"} /\ <<p, "worker">> \notin clearing
    /\ \A i, j \in DOMAIN Attempts : i < j /\ Attempts[j] = o => job[Attempts[i]] # "new"

(* A claim that takes whatever composer nobody owns. *)
ClaimHoldUnowned(o) ==
    /\ job[o] = "new" /\ IsNext(o)
    /\ entry.agent = pane.agent /\ entry.owner \in {None, o}
    /\ entry' = [entry EXCEPT !.hold = Staged, !.owner = o]
    /\ To(o, "claimed")
    /\ UNCHANGED <<load, ends, clearing, pane, past>>

(* claim_hold, refused for another binding, owner, or unowned text. *)
ClaimHold(o) ==
    /\ job[o] = "new" /\ IsNext(o)
    /\ entry.agent = pane.agent
    /\ \/ entry.owner = None /\ entry.hold \in {Clear, TurnStarted}
       \/ entry.owner = o
    /\ entry' = [entry EXCEPT !.hold = Staged, !.owner = o]
    /\ To(o, "claimed")
    /\ UNCHANGED <<load, ends, clearing, pane, past>>

(* release_unwritten_hold: the write was refused or no byte of it left; the *)
(* attempt goes back to the gate or gives up.                               *)
RollBack(o) ==
    /\ job[o] = "claimed"
    /\ To(o, "new") \/ To(o, "done")
    /\ entry' = IF entry.hold = Staged /\ entry.owner = o /\ entry.agent = pane.agent
                THEN [entry EXCEPT !.hold = Clear, !.owner = None] ELSE entry
    /\ UNCHANGED <<load, ends, clearing, pane, past>>

Paste(o) ==
    /\ job[o] = "claimed"
    /\ To(o, "staged")
    /\ pane' = Compose(pane, o)
    /\ UNCHANGED <<load, entry, ends, clearing, past>>

(* A turn starts under a key that was never used. *)
StartTurn(p) ==
    /\ pane.turn = None /\ past.started # Turns
    /\ pane' = [p EXCEPT !.turn = CHOOSE t \in Turns : t \notin past.started]

Started(o) ==
    past' = [past EXCEPT !.started = @ \cup {pane'.turn},
                         !.took = [q \in Owners |-> IF q = o THEN pane'.turn ELSE @[q]]]

(* The text is queued behind the running turn (bound: the turns there are). *)
Enqueue ==
    /\ pane.turn # None /\ Cardinality(past.started) + Len(pane.queue) < Cardinality(Turns)
    /\ pane' = [Compose(pane, None) EXCEPT !.queue = Append(@, pane.text)]

(* Enter: taken by a new turn, queued behind the running one, or swallowed. *)
Submit(o) ==
    /\ job[o] = "staged"
    /\ To(o, "submitted")
    /\ \/ pane.text = o /\ StartTurn(Compose(pane, None)) /\ Started(o)
       \/ pane.text = o /\ Enqueue /\ UNCHANGED past
       \/ UNCHANGED <<pane, past>>
    /\ UNCHANGED <<load, entry, ends, clearing>>

(* A bind that asks for an owner and not for this one. *)
MayBindAnyOwner(o, t) ==
    entry.owner # None /\ entry.turn \in {None, t} /\ MayPin(ends, entry.agent, t)

(* bind_turn: refused for a foreign barrier or a turn other than the one   *)
(* the hold or the store already waits on.                                 *)
MayBind(o, t) == entry.owner = o /\ entry.turn \in {None, t} /\ MayPin(ends, entry.agent, t)

BindTurn(o, t) ==
    IF MayBind(o, t)
    THEN /\ ends' = Pin(ends, entry.agent, t)
         /\ entry' = [entry EXCEPT !.turn = t,
                                   !.hold = IF Waiting(@) THEN TurnStarted ELSE @]
    ELSE UNCHANGED <<entry, ends>>

(* latch_turn_started and the unkeyed acknowledgement: set_hold_owned. *)
LatchTurnStarted(o) ==
    /\ entry' = IF entry.owner = o /\ Waiting(entry.hold)
                THEN [entry EXCEPT !.hold = TurnStarted] ELSE entry
    /\ UNCHANGED ends

ClearHoldOwner(o) ==
    /\ entry' = IF entry.owner = o
                THEN [entry EXCEPT !.hold = Clear, !.owner = None, !.turn = None] ELSE entry
    /\ UNCHANGED ends

(* A hook acknowledges the attempt, late ones of unverified ones included; *)
(* it names the turn that took the payload.                                *)
HookAck(o) ==
    /\ job[o] \in {"submitted", "unverified"} /\ past.took[o] # None
    /\ To(o, "verified")
    /\ IF pane.keyed THEN BindTurn(o, past.took[o]) ELSE LatchTurnStarted(o)
    /\ UNCHANGED <<load, clearing, pane, past>>

(* prepare_dispatch_ack binds before confirm_dispatch_ack publishes. *)
PrepareDispatch(o) ==
    /\ load.dispatch /\ pane.keyed /\ job[o] = "submitted" /\ past.took[o] # None
    /\ BindTurn(o, past.took[o])
    /\ UNCHANGED <<load, job, clearing, pane, past>>

ScreenReceipt(o) ==
    /\ job[o] = "submitted" /\ pane.text # o
    /\ To(o, "unverified") /\ LatchTurnStarted(o)
    /\ UNCHANGED <<load, clearing, pane, past>>

(* settle_without_receipt: the attempt is settled, its barrier not yet. *)
NoReceipt(o) ==
    /\ job[o] = "submitted"
    /\ To(o, "unverified")
    /\ clearing' = clearing \cup {<<o, "worker">>}
    /\ UNCHANGED <<load, entry, ends, pane, past>>

(* settle_notification_claim, while the engine still indexes the attempt. *)
MailboxRead(o) ==
    /\ load.reads /\ job[o] \in {"submitted", "unverified", "verified"}
    /\ job' = [job EXCEPT ![o] = IF @ = "submitted" THEN "unverified" ELSE @]
    /\ clearing' = clearing \cup {<<o, "reader">>}
    /\ UNCHANGED <<load, entry, ends, pane, past>>

(* clear_hold_owner, by the task that settled the attempt. *)
Release(o, task) ==
    /\ <<o, task>> \in clearing
    /\ clearing' = clearing \ {<<o, task>>}
    /\ ClearHoldOwner(o)
    /\ UNCHANGED <<load, job, pane, past>>

(* The engine drops the resolved attempt from its index. *)
Retire(o) ==
    /\ job[o] \in {"unverified", "verified"} /\ <<o, "worker">> \notin clearing
    /\ To(o, "done")
    /\ UNCHANGED <<load, entry, ends, clearing, pane, past>>

-----------------------------------------------------------------------------
(* The agent and the person at the keyboard *)

EndTurn ==
    /\ pane.turn # None
    /\ past' = [past EXCEPT !.ended = @ \cup {pane.turn}]
    /\ pane' = [pane EXCEPT !.turn = None]
    /\ UNCHANGED <<load, entry, ends, job, clearing>>

(* A queued line gets a turn of its own, whatever is in the composer. *)
StartQueued ==
    /\ pane.queue # <<>>
    /\ StartTurn([pane EXCEPT !.queue = Tail(@), !.guarded = IF @ = "yes" THEN "overtaken" ELSE @])
    /\ Started(Head(pane.queue))
    /\ UNCHANGED <<load, entry, ends, job, clearing>>

(* The authenticated end of a turn of the present occupant arrives. *)
EndHook(t) ==
    /\ pane.keyed /\ t \in past.ended \ past.reported
    /\ past' = [past EXCEPT !.reported = @ \cup {t}]
    /\ ends' = Record(ends, pane.agent, t)
    /\ UNCHANGED <<load, entry, job, clearing, pane>>

Type ==
    /\ load.people /\ pane.text = None
    /\ pane' = Compose(pane, "human")
    /\ UNCHANGED <<load, entry, ends, job, clearing, past>>

Erase ==
    /\ pane.text = "human"
    /\ pane' = Compose(pane, None)
    /\ UNCHANGED <<load, entry, ends, job, clearing, past>>

(* A person presses Enter, on a payload left in the composer too. *)
Send ==
    /\ pane.text # None /\ load.people
    /\ \/ StartTurn(Compose(pane, None)) /\ Started("human")
       \/ pane.text = "human" /\ Enqueue /\ UNCHANGED past
    /\ UNCHANGED <<load, entry, ends, job, clearing>>

(* Another process takes the pane; reports of the old one are refused. *)
Replace ==
    /\ pane.agent < load.agents
    /\ \E k \in load.lanes : pane' = Fresh(pane.agent + 1, k)
    /\ past' = [past EXCEPT !.ended = past.started, !.reported = past.started,
                            !.took = [o \in Owners |-> None]]
    /\ UNCHANGED <<load, entry, ends, job, clearing>>

Receipt(o) == HookAck(o) \/ ScreenReceipt(o) \/ NoReceipt(o)

(* What the worker owes an attempt it has claimed the pane for. *)
Drive(o) ==
    RollBack(o) \/ Paste(o) \/ Submit(o) \/ Receipt(o) \/ Release(o, "worker") \/ Retire(o)
EndHooks == \E t \in Turns : EndHook(t)

Next ==
    \/ \E visible, settled \in BOOLEAN : Observe(visible, settled)
    \/ \E o \in Owners : \/ ClaimHold(o) \/ Drive(o) \/ PrepareDispatch(o)
                         \/ MailboxRead(o) \/ Release(o, "reader")
    \/ EndTurn \/ EndHooks \/ StartQueued \/ Type \/ Erase \/ Send \/ Replace

Spec == Init /\ [][Next]_vars

(* Settled captures keep coming, attempts are driven to a resolution, turns *)
(* end and their ends are reported; nothing is owed about people, other     *)
(* captures or which receipt arrives.                                       *)
Fairness ==
    /\ WF_vars(Observe(TRUE, TRUE)) /\ WF_vars(EndTurn) /\ WF_vars(EndHooks)
    /\ \A o \in Owners : WF_vars(Drive(o)) /\ WF_vars(Release(o, "reader"))

FairSpec == Spec /\ Fairness

-----------------------------------------------------------------------------
(* The entry and the store keep their shape, and a cleared hold carries     *)
(* neither an owner nor a turn.                                             *)
TypeOK ==
    /\ entry.hold \in {Clear, Staged, StagedDuringTurn, TurnStarted}
    /\ entry.owner \in Owners \cup {None} /\ entry.turn \in Turns \cup {None}
    /\ ends.pinned \in Turns \cup {None} /\ ToSet(ends.seen) \subseteq Turns
    /\ Len(ends.seen) <= EndsCap
    /\ entry.hold = Clear => entry.owner = None /\ entry.turn = None

(* claim_hold never takes a composer that holds a person's draft some       *)
(* capture saw while no attempt held the barrier, however many later frames *)
(* missed the draft and whatever turn was running when it was typed, unless *)
(* a queued line's turn began under the draft since that capture.           *)
DraftProtected ==
    [][\A o \in Owners : job[o] = "new" /\ job'[o] = "claimed"
        => ~(pane.text = "human" /\ pane.guarded = "yes")]_vars

(* The same without the exception: a pane that was seen holding text stays  *)
(* refused until a turn consumes the text or it is seen erased.             *)
DraftHeld ==
    [][\A o \in Owners : job[o] = "new" /\ job'[o] = "claimed"
        => ~(pane.text = "human" /\ pane.guarded # "no")]_vars

(* A receipt, a read or a rollback of one attempt never moves the barrier   *)
(* another attempt owns, however late it arrives.                           *)
Settles(p) == job'[p] # job[p] \/ \E w \in {"worker", "reader"} : <<p, w>> \in clearing \ clearing'
ForeignReceiptHarmless ==
    [][\A o \in Owners : entry.owner = o /\ (\E p \in Owners \ {o} : Settles(p))
        => entry' = entry]_vars

(* On the exact lane only the end of the turn that took the payload lifts   *)
(* the barrier: an observation never releases a hold bound to a turn of the *)
(* present occupant that has not ended.                                     *)
OnlyItsOwnEnd ==
    [][(/\ entry.turn # None /\ entry.agent = pane.agent /\ entry'.hold = Clear
        /\ UNCHANGED <<job, clearing>>)
        => entry.turn \in past.ended /\ Holds(ends, entry.agent, entry.turn)]_vars

(* The end a hold is waiting for, once stored, stays stored as long as its  *)
(* turn stays pinned, however many later ends arrive.                       *)
PinnedEndKept ==
    [][(/\ ends.pinned # None /\ Contains(ends.seen, ends.pinned)
        /\ ends'.pinned = ends.pinned /\ ends'.agent = ends.agent)
        => Contains(ends'.seen, ends.pinned)]_vars

(* Once every attempt is resolved, nothing is in the composer and no turn   *)
(* runs, the barrier lifts, unless the store says it lost the end.          *)
Quiet ==
    /\ pane.text = None /\ pane.turn = None /\ pane.queue = <<>>
    /\ \A o \in Owners : job[o] \in {"new", "done"}
Stranded == entry.turn # None /\ ~Ended(ends, entry) /\ ends.lost
Lifts == entry.hold = Clear \/ Stranded
BarrierLifts == <>[]Quiet => []<>Lifts

(* A turn stays pinned in the store though the hold no longer waits on it. *)
PinLeaked == ends.pinned # None /\ ends.agent = entry.agent /\ entry.turn # ends.pinned

(* The barrier lifts in every behaviour in which no settled attempt leaves  *)
(* its turn pinned and no capture charges an attempt with text that is not  *)
(* its own.                                                                 *)
BarrierLiftsUnlessMarked == <>[]Quiet /\ []~(PinLeaked \/ pane.covered) => []<>Lifts

(* Undoing a claim whose write never happened leaves the barrier up when a  *)
(* capture has seen a person's draft in the composer meanwhile.             *)
RollBackKeepsDraft ==
    [][\A o \in Owners : /\ job[o] = "claimed" /\ job'[o] \in {"new", "done"}
                         /\ pane.text = "human" /\ pane.covered
        => entry'.hold # Clear]_vars
=============================================================================
