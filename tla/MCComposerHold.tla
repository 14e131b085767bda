--------------------------- MODULE MCComposerHold ---------------------------
(* Two attempts, two turns and a store of one end, so that an attempt's     *)
(* receipt can arrive under its successor's barrier and an end can be       *)
(* evicted.                                                                 *)
EXTENDS ComposerHold

CONSTANTS o1, o2, t1, t2

MCAttempts == <<o1, o2>>

Load(lanes, dispatch, reads, people, hidden, agents) ==
    [lanes |-> lanes, dispatch |-> dispatch, reads |-> reads, people |-> people,
     hidden |-> hidden, agents |-> agents]

\* Reads and receipts race while the pane changes hands.
Read == Load({TRUE, FALSE}, TRUE, TRUE, FALSE, FALSE, 2)
\* A person types and sends, and captures miss what is in the composer.
Typed == Load({TRUE, FALSE}, TRUE, FALSE, TRUE, TRUE, 1)
\* A person types into a pane whose occupant changes, and mail is read.
Mixed == Load({FALSE}, FALSE, TRUE, TRUE, FALSE, 2)
MCLoads == {Read, Typed, Mixed}

\* A person types into the pane of a vendor that names its turns, or does not.
DraftLoads == {Load({TRUE}, FALSE, FALSE, TRUE, FALSE, 1)}
ErasedLoads == {Load({FALSE}, FALSE, FALSE, TRUE, FALSE, 1)}
\* The same with a capture that misses the text.
QueuedLoads == {Load({FALSE}, FALSE, FALSE, TRUE, TRUE, 1)}
\* A mailbox read beside a named turn.
WedgedLoads == {Load({TRUE}, FALSE, TRUE, FALSE, FALSE, 1)}
=============================================================================
