--------------------------- MODULE MCEditorBridge ---------------------------
(* Model checking of EditorBridge with a few calls, sockets and projects. *)
EXTENDS EditorBridge, TLC

(* Sockets and calls are interchangeable; used where no liveness is checked. *)
BridgeSymmetry == Permutations(Sockets) \cup Permutations(Calls)
=============================================================================
