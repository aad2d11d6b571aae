---------------------------- MODULE CallDelivery ----------------------------
(***************************************************************************)
(* What a client that passes calls on to a server over sockets that may be *)
(* lost promises to whoever makes a call:                                  *)
(*   - the server runs the call at most once, and only if it was sent;     *)
(*   - a "result" is the answer of a server that has run it;               *)
(*   - a "refused" call was not sent and never will be: a retry repeats    *)
(*     nothing;                                                            *)
(*   - an "unknown" (a time-out, a lost socket) is only said of a call that *)
(*     was sent; it may have run, and it may run yet;                      *)
(*   - an answer is final.                                                 *)
(***************************************************************************)
CONSTANT Calls

VARIABLES
  reached,   (* "kept" by the client, "sent", or "run" by a server.          *)
  reply      (* "none", "result", "refused" or "unknown".                    *)

dvars == <<reached, reply>>

DInit ==
  /\ reached = [c \in Calls |-> "kept"]
  /\ reply = [c \in Calls |-> "none"]

(* The calls of S are told their outcome.                                   *)
Settle(S, from, value) ==
  /\ \A c \in S : reached[c] \in from /\ reply[c] = "none"
  /\ reply' = [c \in Calls |-> IF c \in S THEN value ELSE reply[c]]
  /\ UNCHANGED reached

(* Calls that were kept for a socket are sent when there is one.            *)
Send(S) ==
  /\ \A c \in S : reached[c] = "kept" /\ reply[c] = "none"
  /\ reached' = [c \in Calls |-> IF c \in S THEN "sent" ELSE reached[c]]
  /\ UNCHANGED reply

Run(c) ==
  /\ reached[c] = "sent"
  /\ reached' = [reached EXCEPT ![c] = "run"]
  /\ UNCHANGED reply

Return(c)  == Settle({c}, {"run"}, "result")
Refuse(c)  == Settle({c}, {"kept"}, "refused")
(* A socket that is given up takes all the calls on it along.               *)
Lose(S)    == Settle(S, {"sent", "run"}, "unknown")

DNext ==
  \/ \E c \in Calls : Run(c) \/ Return(c) \/ Refuse(c)
  \/ \E S \in SUBSET Calls : Send(S) \/ Lose(S)

DSpec == DInit /\ [][DNext]_dvars
=============================================================================
