-------------------------- MODULE RequestExecution --------------------------
(***************************************************************************)
(* What running a request on the game thread promises to its caller:       *)
(*   - the handler is entered at most once;                                *)
(*   - a "result" is the outcome of a handler that has finished;           *)
(*   - a "refused" means the handler was not and will not be entered;      *)
(*   - an "unknown" (time is up, or the editor is going away) says nothing *)
(*     about the handler, which may run, be running or start yet.          *)
(***************************************************************************)
CONSTANT Requests

VARIABLES
  phase,   (* "new", "open", "started", "finished" or "skipped".            *)
  reply    (* "none", "result", "refused" or "unknown".                     *)

avars == <<phase, reply>>

AInit ==
  /\ phase = [r \in Requests |-> "new"]
  /\ reply = [r \in Requests |-> "none"]

Move(r, from, to) ==
  /\ phase[r] = from
  /\ phase' = [phase EXCEPT ![r] = to]
  /\ UNCHANGED reply

Reply(r, phases, value) ==
  /\ phase[r] \in phases /\ reply[r] = "none"
  /\ reply' = [reply EXCEPT ![r] = value]
  /\ UNCHANGED phase

Submit(r)       == reply[r] = "none" /\ Move(r, "new", "open")
Start(r)        == Move(r, "open", "started")
Finish(r)       == Move(r, "started", "finished")
Skip(r)         == Move(r, "open", "skipped")
ReplyResult(r)  == Reply(r, {"finished"}, "result")
ReplyRefused(r) == Reply(r, {"new", "skipped"}, "refused")
ReplyUnknown(r) ==
  Reply(r, {"open", "started", "finished", "skipped"}, "unknown")

ANext ==
  \E r \in Requests :
    \/ Submit(r) \/ Start(r) \/ Finish(r) \/ Skip(r)
    \/ ReplyResult(r) \/ ReplyRefused(r) \/ ReplyUnknown(r)

ASpec == AInit /\ [][ANext]_avars
=============================================================================
