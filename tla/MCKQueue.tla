------------------------------ MODULE MCKQueue ------------------------------
(***************************************************************************)
(* A small instance of KQueue: a job pipe that starts empty (njqF = 0,     *)
(* njqE = PipeDepth) and a pool that starts full (erqF = 1, erqE = 0), as  *)
(* KScheduler::Init sets them up, shared by every thread.                  *)
(***************************************************************************)
EXTENDS KQueue

CONSTANTS PipeDepth, a, b

MCQueues    == {"pipe", "pool"}
MCDepth     == [q \in MCQueues |-> IF q = "pipe" THEN PipeDepth ELSE 1]
MCInitially == [q \in MCQueues |-> IF q = "pipe" THEN <<>> ELSE <<a>>]
=============================================================================
