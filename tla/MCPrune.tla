--------------------------------- MODULE MCPrune ---------------------------------
(* The main worktree, the one prune is run in, and one that is there or    *)
(* gone.                                                                   *)
EXTENDS Prune

CONSTANTS main, here, w1
=============================================================================
