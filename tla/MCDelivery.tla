----------------------------- MODULE MCDelivery -----------------------------
(***************************************************************************)
(* Instances of Delivery for TLC.  Every set of scenarios is one run; in   *)
(* each of them r1 has a pane, r2 is headless and m2 may be raw.           *)
(***************************************************************************)
EXTENDS Delivery, TLC

CONSTANTS r1, r2, m1, m2, t1, t2, a1, a2, a3

\* Attempt ids are drawn at random; nothing orders them.
Symmetry == Permutations(AttemptIds)

\* One message for one agent at a composer that is always ready.
Calm ==
  [messages |-> {m1}, to |-> {{r1}}, panes |-> {"ready"}, retryMax |-> 0,
   operators |-> FALSE, holds |-> FALSE, stops |-> FALSE, breaks |-> FALSE, panics |-> 0]

TwoMessages == {[Calm EXCEPT !.messages = {m1, m2}]}

\* One kind of trouble at a time; what a failed append leaves behind shows
\* only after a restart.
Troubles ==
  {[Calm EXCEPT !.retryMax = 1],
   [Calm EXCEPT !.panes = {"gone", "unproved", "ready"}],
   [Calm EXCEPT !.panics = 2],
   [Calm EXCEPT !.panes = {"gone", "ready"}, !.panics = 1],
   [Calm EXCEPT !.holds = TRUE],
   [Calm EXCEPT !.stops = TRUE, !.breaks = TRUE],
   [Calm EXCEPT !.messages = {m2}, !.operators = TRUE],
   [Calm EXCEPT !.messages = {m2}, !.to = {{r1, r2}}],
   [Calm EXCEPT !.messages = {m1, m2}]}

\* A composer that comes and goes; a panic and a hold; a hold at a gate that
\* stays shut; a queue of two before that gate, and an operator who withdraws.
Lively ==
  {[Calm EXCEPT !.panes = {"busy", "ready"}],
   [Calm EXCEPT !.holds = TRUE, !.panics = 1],
   [Calm EXCEPT !.panes = {"busy"}, !.holds = TRUE, !.operators = TRUE],
   [Calm EXCEPT !.panes = {"busy"}, !.messages = {m1, m2}, !.operators = TRUE]}

Held == {[Calm EXCEPT !.holds = TRUE]}

Failing == {[Calm EXCEPT !.panics = 1]}
=============================================================================
