---------------------------- MODULE MCScheduler -----------------------------
(* Two workers, two services and one other thread that pushes.  No symmetry *)
(* set: it is not sound for the liveness properties.                        *)
EXTENDS Scheduler
=============================================================================
