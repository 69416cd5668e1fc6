---------------------------- MODULE MCEventLoop ----------------------------
(* Model checking of EventLoop: the threads may be exchanged in the runs    *)
(* that check no liveness.                                                  *)
EXTENDS EventLoop, TLC

ThreadSymmetry == Permutations(Threads)
=============================================================================
