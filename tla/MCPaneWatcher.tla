--------------------------- MODULE MCPaneWatcher ---------------------------
(* The watcher on small instances. *)
EXTENDS PaneWatcher

Load(c, l, a, r) == [changes |-> c, late |-> l, asks |-> a, refuse |-> r]

\* Changes with at most one refusal; a late reply beside a request.
MCLoads == {Load(2, 0, 0, 1), Load(1, 1, 1, 0)}
BlipLoads == {Load(2, 0, 0, 0)}
LateLoads == {Load(1, 1, 0, 0)}
RefusedLoads == {Load(1, 0, 0, 1)}
=============================================================================
