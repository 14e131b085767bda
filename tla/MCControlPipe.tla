--------------------------- MODULE MCControlPipe ---------------------------
(* The control client on small instances. *)
EXTENDS ControlPipe, TLC

CONSTANTS c1, c2, t1

Load(a, b, t, p, more) ==
  more @@ [commands |-> c1 :> a @@ c2 :> b @@ t1 :> t, pauses |-> p, refusals |-> 0,
           overflow |-> FALSE, aborts |-> FALSE, stops |-> FALSE]

\* A reply that comes after its call timed out, with the caller's next command
\* and another caller's under way.
Late == Load(2, 1, 0, 0, [refusals |-> 0])
\* The same with the second caller's task aborted and followed by another.
Dropped == Load(1, 2, 0, 0, [aborts |-> TRUE])
\* The reply FIFO and the resume queue both at their limits.
Full == Load(1, 0, 1, 2, [refusals |-> 0])
\* A refused resume, and an aborted call beside a typist that waits for a slot.
Denied == Load(0, 1, 1, 2, [refusals |-> 1, aborts |-> TRUE])
\* Shutdown beside two callers and an oversized reply, and beside a typist and a resume.
Stopped == Load(1, 1, 0, 0, [overflow |-> TRUE, aborts |-> TRUE, stops |-> TRUE])
Typing == Load(0, 0, 1, 1, [stops |-> TRUE])

MCLoads == {Late, Dropped, Full, Denied, Stopped, Typing}
\* An aborted call between two others, on a connection that lives on.
OrphanLoads == {Dropped}
\* Two callers behind a detach that cannot be written.
WedgedLoads == {Stopped}
=============================================================================
