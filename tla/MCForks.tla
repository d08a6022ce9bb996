--------------------------------- MODULE MCForks ---------------------------------
(* Forks on two processes and at most three stateful services; the runs    *)
(* differ in the services, in the commands that are given and in the       *)
(* faults that may happen.                                                 *)
EXTENDS Forks

CONSTANTS postgres, redis, minio, p1, p2
=============================================================================
