------------------------ MODULE MCGameThreadExecutor ------------------------
(* Model checking of GameThreadExecutor on a few requests. *)
EXTENDS GameThreadExecutor, TLC

(* Events are interchangeable; used where no liveness is checked. *)
EventSymmetry == Permutations(Events)
=============================================================================
