---------------------------- MODULE EditorBridge ----------------------------
(***************************************************************************)
(* EditorBridge: the TypeScript server's one socket to the editor of the   *)
(* current project, and the calls that ride on it.  Node runs one callback *)
(* at a time and drains its microtasks before the next event, so a step is *)
(* one event, one synchronous entry into the bridge, or one resumption of  *)
(* a call after its await.                                                 *)
(*                                                                         *)
(* A port stands for the project whose editor binds it.  Generations are   *)
(* reduced to what they are compared for: `fresh` holds the attempts whose *)
(* captured generation still is targetGeneration.                          *)
(***************************************************************************)
EXTENDS Naturals, SequencesExt

CONSTANTS
  Projects,        (* The .uproject files the client is pointed at.          *)
  Start,           (* The one it starts on.                                  *)
  Calls,           (* Invocations of call(); the request id of each.         *)
  Sockets,         (* WebSocket objects, reused once closed (a bound).       *)
  NoSocket,        (* this.ws = null, this.connectInFlight = null.           *)
  NoPort,          (* What a socket not in use leads to.                     *)
  WaitsForEditor,  (* reattachWaitMs > 0, as the daemon sets it.             *)
  History          (* ABANDONED_HISTORY.                                     *)

ASSUME StartAssumption == Start \in Projects
ASSUME NoSocketAssumption == NoSocket \notin Sockets
ASSUME NoPortAssumption == NoPort \notin Projects
ASSUME WaitsAssumption == WaitsForEditor \in BOOLEAN
ASSUME HistoryAssumption == History \in Nat \ {0}

VARIABLES
  (* The target *)
  project,         (* projectPathForLockfile.                                *)
  port,            (* port.                                                  *)
  pinned,          (* portSource is "explicit" or "env".                     *)
  unverifiedPin,
  (* The sockets *)
  link,            (* readyState of each; "free" once its close was handled. *)
  to,              (* The port each was dialled at.                          *)
  fresh,           (* Attempts that may still install their socket.          *)
  shaking,         (* Sockets whose handshake promise is unsettled.          *)
  ws,              (* The installed socket.                                  *)
  inFlight,        (* connectInFlight: the attempt ensureConnected joins.    *)
  capabilities,    (* The socket whose handshake is published.               *)
  connectedState,  (* What the connection listeners were last told.          *)
  everConnected,
  (* The calls *)
  pc,              (* Where each call is; "pending" is an entry of pending.  *)
  outcome,         (* How its promise settled.                               *)
  abandoned,       (* Timed-out calls remembered, oldest first.              *)
  answered,        (* Remembered calls with answeredAt set.                  *)
  issuedFor,       (* History: the project when call() was entered.          *)
  (* The wire and the editors *)
  on,              (* The socket that carries a call, until it closes.       *)
  frames,          (* Calls written to a project's editor and not read yet.  *)
  remote,          (* How far a call got: sent, run by an editor, replied to.*)
  up               (* Projects whose editor listens.                         *)

targetVars == <<project, port, pinned, unverifiedPin>>
socketVars == <<link, to, fresh, shaking, ws, inFlight, capabilities>>
toldVars   == <<connectedState, everConnected>>
callVars   == <<pc, outcome>>
lateVars   == <<abandoned, answered>>
wireVars   == <<on, frames, remote>>
vars == <<targetVars, socketVars, toldVars, callVars, lateVars, issuedFor,
          wireVars, up>>

isConnected == ws # NoSocket /\ link[ws] = "open"

(* No call is between the settling of what it awaited and its next line.    *)
Quiet == \A c \in Calls : pc[c] \notin {"resumed", "failed"}

Init ==
  /\ project = Start /\ port = Start
  /\ pinned \in BOOLEAN /\ unverifiedPin = FALSE
  /\ link = [s \in Sockets |-> "free"]
  /\ to = [s \in Sockets |-> NoPort]
  /\ fresh = {} /\ shaking = {}
  /\ ws = NoSocket /\ inFlight = NoSocket /\ capabilities = NoSocket
  /\ connectedState = FALSE /\ everConnected = FALSE
  /\ pc = [c \in Calls |-> "idle"]
  /\ outcome = [c \in Calls |-> "none"]
  /\ abandoned = <<>> /\ answered = {}
  /\ issuedFor = [c \in Calls |-> Start]
  /\ on = [c \in Calls |-> NoSocket]
  /\ frames = {}
  /\ remote = [c \in Calls |-> "none"]
  /\ up = {}
-----------------------------------------------------------------------------
(***************************************************************************)
(* Pieces of the handlers.                                                 *)
(***************************************************************************)
Settle(settled, how) ==
  outcome' = [c \in Calls |-> IF c \in settled THEN how ELSE outcome[c]]

Pending == {c \in Calls : pc[c] = "pending"}

(* closeSocket, with the calls of `joining` moved on to `next`.             *)
CloseSocket(joining, next) ==
  /\ pc' = [c \in Calls |-> IF c \in Pending THEN "settled"
                            ELSE IF c \in joining THEN next ELSE pc[c]]
  /\ Settle(Pending, "lost")
  /\ ws' = NoSocket /\ capabilities' = NoSocket
  /\ connectedState' = (connectedState /\ ws = NoSocket)
  /\ UNCHANGED everConnected

Severed == [s \in Sockets |-> IF s = ws THEN "closing" ELSE link[s]]

(* connect() up to its first event, against the target of this very step.   *)
(* `recorded`: through ensureConnected, whose promise the others join.      *)
Dial(recorded, joining) ==
  IF unverifiedPin'
  THEN /\ CloseSocket(joining, "failed")
       /\ link' = Severed /\ fresh' = {}
       /\ UNCHANGED <<to, inFlight>>
  ELSE \E s \in Sockets :
         /\ link[s] = "free"
         /\ CloseSocket(joining, "connecting")
         /\ link' = [Severed EXCEPT ![s] = "dialing"]
         /\ to' = [to EXCEPT ![s] = port']
         /\ fresh' = {s}
         /\ inFlight' = IF recorded THEN s ELSE inFlight

(* resolveLiveBridgeAddress finds the record of an editor that is running.  *)
Target(p, found, configured) ==
  /\ found => p \in up
  /\ project' = p
  /\ pinned' = (pinned /\ ~found /\ ~configured)

Connect(recorded, joining) ==
  \E found \in BOOLEAN :
    /\ Target(project, found, FALSE)
    /\ port' = IF found THEN project ELSE port
    /\ unverifiedPin' = (unverifiedPin /\ ~found)
    /\ Dial(recorded, joining)
    /\ UNCHANGED <<shaking, lateVars, wireVars, up>>

(* The promise of an attempt settles: connectInFlight is cleared, and the   *)
(* calls that awaited it go on as `next`.                                   *)
Joined(s) == {c \in Calls : inFlight = s /\ pc[c] = "connecting"}

AttemptSettles(s, next, woken) ==
  /\ inFlight' = IF inFlight = s THEN NoSocket ELSE inFlight
  /\ pc' = [c \in Calls |->
              IF c \in Joined(s) THEN next
              ELSE IF c \in woken THEN "resumed" ELSE pc[c]]

(* setConnected(true) wakes waitForConnection only when it is a change.     *)
Waiting == {c \in Calls : pc[c] = "waiting"}
Woken(told) == IF told THEN {} ELSE Waiting
-----------------------------------------------------------------------------
(***************************************************************************)
(* Entered synchronously by the tools, whenever they run.                  *)
(***************************************************************************)
Send(c) ==
  /\ pc' = [pc EXCEPT ![c] = "pending"]
  /\ on' = [on EXCEPT ![c] = ws]
  /\ frames' = frames \cup {<<c, to[ws]>>}
  /\ remote' = [remote EXCEPT ![c] = "sent"]
  /\ UNCHANGED <<outcome, targetVars, socketVars, toldVars, lateVars, up>>

Call(c) ==
  /\ pc[c] = "idle"
  /\ issuedFor' = [issuedFor EXCEPT ![c] = project]
  /\ \/ isConnected /\ Send(c)
     \/ ~isConnected /\ inFlight = NoSocket /\ Connect(TRUE, {c})
     \/ /\ ~isConnected /\ inFlight # NoSocket
        /\ pc' = [pc EXCEPT ![c] = "connecting"]
        /\ UNCHANGED <<outcome, targetVars, socketVars, toldVars, lateVars,
                       wireVars, up>>

(* switchProject: retargetProject, and then connect() with no await between.*)
SwitchProject(p) ==
  /\ \E found, configured \in BOOLEAN :
       /\ Target(p, found, configured)
       /\ port' = IF pinned' THEN port ELSE p
       /\ unverifiedPin' = pinned'
  /\ Dial(FALSE, {})
  /\ UNCHANGED <<shaking, lateVars, issuedFor, wireVars, up>>

(* connect() called directly, as after an editor was started.               *)
ConnectDirectly ==
  /\ ~isConnected
  /\ Connect(FALSE, {})
  /\ UNCHANGED issuedFor

Disconnect ==
  /\ CloseSocket({}, "idle")
  /\ link' = Severed /\ fresh' = {}
  /\ UNCHANGED <<targetVars, to, shaking, inFlight, lateVars, issuedFor,
                 wireVars, up>>

(***************************************************************************)
(* Microtasks: a call goes on after its await.                             *)
(***************************************************************************)
Resume(c) ==
  /\ pc[c] = "resumed"
  /\ IF isConnected
     THEN Send(c)
     ELSE /\ pc' = [pc EXCEPT ![c] = "settled"]
          /\ Settle({c}, "not_connected")
          /\ UNCHANGED <<targetVars, socketVars, toldVars, lateVars, wireVars, up>>
  /\ UNCHANGED issuedFor

(* wentAway.  lastDisconnectCause says no more than everConnected: its one  *)
(* writer, the daemon, classifies a loss that its listener was told of, and *)
(* a listener is told of a loss after a connection only.                    *)
WaitsOn == WaitsForEditor /\ everConnected

ConnectFailed(c) ==
  /\ pc[c] = "failed"
  /\ pc' = [pc EXCEPT ![c] =
              IF ~WaitsOn THEN "settled"
              ELSE IF isConnected THEN "resumed" ELSE "waiting"]
  /\ Settle(IF WaitsOn THEN {} ELSE {c}, "not_connected")
  /\ UNCHANGED <<targetVars, socketVars, toldVars, lateVars, issuedFor,
                 wireVars, up>>
-----------------------------------------------------------------------------
(***************************************************************************)
(* Events.                                                                 *)
(***************************************************************************)
(* The reconnect timer, the daemon's poke, a waiting call's one-second tick.*)
PokeReconnect ==
  /\ Quiet /\ ~isConnected
  /\ inFlight = NoSocket
  /\ Connect(TRUE, {})
  /\ UNCHANGED issuedFor

WaitSeesEditor(c) ==
  /\ Quiet /\ pc[c] = "waiting"
  /\ isConnected
  /\ pc' = [pc EXCEPT ![c] = "resumed"]
  /\ UNCHANGED <<outcome, targetVars, socketVars, toldVars, lateVars,
                 issuedFor, wireVars, up>>

(* Mutant: the deadline is not checked. *)
WaitHasNoEnd(c) == FALSE

WaitRunsOut(c) ==
  /\ Quiet /\ pc[c] = "waiting"
  /\ ~isConnected
  /\ pc' = [pc EXCEPT ![c] = "settled"]
  /\ Settle({c}, "not_connected")
  /\ UNCHANGED <<targetVars, socketVars, toldVars, lateVars, issuedFor,
                 wireVars, up>>

(* targetGeneration === generation.  Mutant: it is not compared. *)
InstallsAnyway(s) == TRUE
Installs(s) == s \in fresh

(* `open`: install the socket and shake hands, unless the target moved.     *)
Opens(s) ==
  /\ Quiet /\ link[s] = "dialing"
  /\ to[s] \in up
  /\ IF Installs(s)
     THEN /\ link' = [link EXCEPT ![s] = "open"]
          /\ ws' = s /\ shaking' = shaking \cup {s}
          /\ UNCHANGED <<pc, inFlight>>
     ELSE /\ link' = [link EXCEPT ![s] = "closing"]
          /\ AttemptSettles(s, "failed", {})
          /\ UNCHANGED <<ws, shaking>>
  /\ fresh' = fresh \ {s}
  /\ UNCHANGED <<outcome, targetVars, to, capabilities, toldVars, lateVars,
                 issuedFor, wireVars, up>>

Free(s) ==
  /\ link' = [link EXCEPT ![s] = "free"]
  /\ to' = [to EXCEPT ![s] = NoPort]

(* `error` before `open`, or the connect timer: the attempt rejects.        *)
DialFails(s) ==
  /\ Quiet /\ link[s] = "dialing"
  /\ Free(s)
  /\ fresh' = fresh \ {s}
  /\ AttemptSettles(s, "failed", {})
  /\ UNCHANGED <<outcome, targetVars, shaking, ws, capabilities, toldVars,
                 lateVars, issuedFor, wireVars, up>>

(* Mutant: an obsolete handshake publishes as well. *)
PublishesAnyway(s) == TRUE
Publishable(s) == ws = s /\ link[s] = "open"

(* finish publishes what was answered; onClose, if the handshake itself     *)
(* cannot be sent, takes back what there is.                                *)
HandshakeLeaves(s) ==
  {IF Publishable(s) THEN s ELSE capabilities,
   IF ws = s THEN NoSocket ELSE capabilities}

(* Mutant: a handshake that times out is not announced. *)
HandshakeMayNotCount(s) ==
  /\ Quiet /\ s \in shaking
  /\ shaking' = shaking \ {s}
  /\ capabilities' \in HandshakeLeaves(s)
  /\ connectedState' \in {TRUE, connectedState}
  /\ AttemptSettles(s, "resumed", {})
  /\ UNCHANGED <<outcome, targetVars, link, to, fresh, ws, everConnected,
                 lateVars, issuedFor, wireVars, up>>

(* The handshake is answered or times out, or its own request cannot be     *)
(* sent; the attempt resolves whatever becomes of it.                       *)
HandshakeEnds(s) ==
  /\ Quiet /\ s \in shaking
  /\ shaking' = shaking \ {s}
  /\ capabilities' \in HandshakeLeaves(s)
  /\ connectedState' = TRUE /\ everConnected' = TRUE
  /\ AttemptSettles(s, "resumed", Woken(connectedState))
  /\ UNCHANGED <<outcome, targetVars, link, to, fresh, ws, lateVars, issuedFor,
                 wireVars, up>>

(* Mutant: a replaced socket's close counts as well. *)
AnyCloseCounts(s) == TRUE

(* this.ws === ws.                                                          *)
IsInstalled(s) == ws = s

(* Mutant: a call lost on the way is told NOT_CONNECTED. *)
LosesSocketRefusing(s) ==
  IF IsInstalled(s)
  THEN ws' = NoSocket /\ capabilities' = NoSocket /\ Settle(Pending, "not_connected")
  ELSE UNCHANGED <<ws, capabilities, outcome>>

(* `close`: the installed socket's listener, then the handshake's onClose.  *)
LosesSocket(s) ==
  IF IsInstalled(s)
  THEN ws' = NoSocket /\ capabilities' = NoSocket /\ Settle(Pending, "lost")
  ELSE UNCHANGED <<ws, capabilities, outcome>>

Closes(s) ==
  LET lost == IF IsInstalled(s) THEN Pending ELSE {}
      told == connectedState /\ ~IsInstalled(s)
  IN /\ Quiet /\ link[s] = "closing"
     /\ Free(s)
     /\ LosesSocket(s)
     /\ shaking' = shaking \ {s}
     /\ connectedState' = (told \/ s \in shaking)
     /\ everConnected' = (everConnected \/ s \in shaking)
     /\ inFlight' = IF s \in shaking /\ inFlight = s THEN NoSocket ELSE inFlight
     /\ pc' = [c \in Calls |->
                 IF c \in lost THEN "settled"
                 ELSE IF s \in shaking /\ c \in Joined(s) \cup Woken(told)
                 THEN "resumed" ELSE pc[c]]
     /\ on' = [c \in Calls |-> IF on[c] = s THEN NoSocket ELSE on[c]]
     /\ UNCHANGED <<targetVars, fresh, lateVars, issuedFor, frames, remote, up>>

Remembers(c) == \E i \in DOMAIN abandoned : abandoned[i] = c

(* Mutant: the reply is kept without its call being remembered. *)
ReconciledAlways(c) == answered \cup {c}
Reconciled(c) == IF Remembers(c) THEN answered \cup {c} ELSE answered

(* `message`, also on a socket that is closing: its reader is drained.      *)
Reply(c) ==
  /\ Quiet /\ on[c] # NoSocket /\ remote[c] = "run"
  /\ remote' = [remote EXCEPT ![c] = "replied"]
  /\ IF pc[c] = "pending"
     THEN /\ pc' = [pc EXCEPT ![c] = "settled"]
          /\ Settle({c}, "result")
          /\ UNCHANGED answered
     ELSE /\ answered' = Reconciled(c)
          /\ UNCHANGED callVars
  /\ UNCHANGED <<targetVars, socketVars, toldVars, abandoned, issuedFor, on,
                 frames, up>>

(* Mutant: the history has no cap. *)
RememberedForever(c) == Append(abandoned, c)

(* The call's timer: the call is remembered, and the oldest one forgotten.  *)
Remembered(c) ==
  LET all == Append(abandoned, c)
  IN IF Len(all) > History THEN Tail(all) ELSE all

TimesOut(c) ==
  /\ Quiet /\ pc[c] = "pending"
  /\ pc' = [pc EXCEPT ![c] = "settled"]
  /\ Settle({c}, "timeout")
  /\ abandoned' = Remembered(c)
  /\ answered' = answered \cap {abandoned'[i] : i \in DOMAIN abandoned'}
  /\ UNCHANGED <<targetVars, socketVars, toldVars, issuedFor, wireVars, up>>

(* The callback of ws.send reports an error: the frame was not written.     *)
(* The socket goes also when the call has settled meanwhile.                *)
SendFails(c) ==
  /\ Quiet /\ on[c] # NoSocket
  /\ <<c, to[on[c]]>> \in frames
  /\ frames' = frames \ {<<c, to[on[c]]>>}
  /\ pc' = [pc EXCEPT ![c] = IF @ = "pending" THEN "settled" ELSE @]
  /\ Settle({c} \cap Pending, "lost")
  /\ IF ws = on[c]
     THEN link' = Severed /\ ws' = NoSocket /\ capabilities' = NoSocket
     ELSE UNCHANGED <<link, ws, capabilities>>
  /\ UNCHANGED <<targetVars, to, fresh, shaking, inFlight, toldVars, lateVars,
                 issuedFor, on, remote, up>>
-----------------------------------------------------------------------------
(***************************************************************************)
(* The editors.                                                            *)
(***************************************************************************)
clientVars == <<targetVars, to, fresh, shaking, ws, inFlight, capabilities,
                toldVars, callVars, lateVars, issuedFor, on>>

EditorStarts(p) ==
  /\ p \notin up
  /\ up' = up \cup {p}
  /\ UNCHANGED <<clientVars, link, frames, remote>>

(* It takes its open sockets and the frames it has not read with it.        *)
EditorStops(p) ==
  /\ p \in up
  /\ up' = up \ {p}
  /\ link' = [s \in Sockets |->
                IF link[s] = "open" /\ to[s] = p THEN "closing" ELSE link[s]]
  /\ frames' = {f \in frames : f[2] # p}
  /\ UNCHANGED <<clientVars, remote>>

(* A frame in the kernel's buffers is run even when its socket is gone.     *)
EditorRuns(c) ==
  /\ \E p \in Projects :
       <<c, p>> \in frames /\ frames' = frames \ {<<c, p>>}
  /\ remote' = [remote EXCEPT ![c] = "run"]
  /\ UNCHANGED <<clientVars, link, up>>

(* The bridge closes a connection: a refused frame, a network fault.        *)
PeerCloses(s) ==
  /\ link[s] = "open"
  /\ link' = [link EXCEPT ![s] = "closing"]
  /\ UNCHANGED <<clientVars, frames, remote, up>>
-----------------------------------------------------------------------------
CallStep(c) ==
  \/ Call(c) \/ Resume(c) \/ ConnectFailed(c)
  \/ WaitSeesEditor(c) \/ WaitRunsOut(c)
  \/ Reply(c) \/ TimesOut(c) \/ SendFails(c)

SocketStep(s) ==
  Opens(s) \/ DialFails(s) \/ HandshakeEnds(s) \/ Closes(s)

Next ==
  \/ \E c \in Calls : CallStep(c) \/ EditorRuns(c)
  \/ \E s \in Sockets : SocketStep(s) \/ PeerCloses(s)
  \/ \E p \in Projects : SwitchProject(p) \/ EditorStarts(p) \/ EditorStops(p)
  \/ ConnectDirectly \/ Disconnect \/ PokeReconnect

Spec == Init /\ [][Next]_vars

(***************************************************************************)
(* Fairness: timers fire, microtasks run, a closing socket closes and what *)
(* the kernel received is read.  No editor has to start, answer or run.    *)
(***************************************************************************)
FairSpec ==
  /\ Spec
  /\ \A c \in Calls :
       /\ WF_vars(Resume(c)) /\ WF_vars(ConnectFailed(c))
       /\ WF_vars(WaitSeesEditor(c) \/ WaitRunsOut(c))
       /\ WF_vars(TimesOut(c)) /\ WF_vars(Reply(c))
  /\ \A s \in Sockets : WF_vars(SocketStep(s))

-----------------------------------------------------------------------------
(***************************************************************************)
(* Properties.                                                             *)
(***************************************************************************)
TypeOK ==
  /\ project \in Projects /\ port \in Projects
  /\ pinned \in BOOLEAN /\ unverifiedPin \in BOOLEAN
  /\ link \in [Sockets -> {"free", "dialing", "open", "closing"}]
  /\ to \in [Sockets -> Projects \cup {NoPort}]
  /\ fresh \subseteq Sockets /\ shaking \subseteq Sockets
  /\ {ws, inFlight, capabilities} \subseteq Sockets \cup {NoSocket}
  /\ connectedState \in BOOLEAN /\ everConnected \in BOOLEAN
  /\ pc \in [Calls -> {"idle", "connecting", "failed", "waiting", "resumed",
                       "pending", "settled"}]
  /\ outcome \in [Calls -> {"none", "result", "timeout", "lost", "not_connected"}]
  /\ abandoned \in Seq(Calls) /\ Len(abandoned) <= History
  /\ answered \subseteq Calls
  /\ issuedFor \in [Calls -> Projects]
  /\ on \in [Calls -> Sockets \cup {NoSocket}]
  /\ frames \subseteq Calls \X Projects
  /\ remote \in [Calls -> {"none", "sent", "run", "replied"}]
  /\ up \subseteq Projects

(* The socket in use, and the one attempt that may still be put in use,      *)
(* lead to the current project's editor: through any order of switches,      *)
(* reconnects, late `open` events and unverified pins.                       *)
RightEditor ==
  /\ ws # NoSocket => to[ws] = project
  /\ \A s \in fresh : to[s] = project

(* CallDelivery, as the bridge's state shows it. *)
Reached(c) ==
  CASE remote[c] = "none" -> "kept"
    [] remote[c] = "sent" -> "sent"
    [] remote[c] \in {"run", "replied"} -> "run"

ToldOf(c) ==
  CASE outcome[c] = "none" -> "none"
    [] outcome[c] = "result" -> "result"
    [] outcome[c] = "not_connected" -> "refused"
    [] outcome[c] \in {"timeout", "lost"} -> "unknown"

Delivery == INSTANCE CallDelivery WITH
  reached <- [c \in Calls |-> Reached(c)],
  reply   <- [c \in Calls |-> ToldOf(c)]

(* What is told of a call is CallDelivery's promise to whoever made it: a     *)
(* result was computed, a refusal means that the call was not and will not   *)
(* be sent, and only a call that was sent ends as unknown, with every other  *)
(* call that is then lost with its socket.                                   *)
KeepsCallPromise == Delivery!DSpec

(* An open socket stays in use until it is closed, and a call is told "lost" *)
(* only when the socket that carries it has gone or goes with it: the late   *)
(* close of a replaced socket takes nothing from its successor.              *)
LostWithItsSocket ==
  [][/\ ws' # ws /\ ws # NoSocket => link'[ws] # "open"
     /\ \A c \in Pending :
          outcome'[c] = "lost" => on[c] = NoSocket \/ link'[on[c]] # "open"]_vars

(* The published capabilities are those of the socket in use, also when the  *)
(* handshake of an earlier one settles late.                                 *)
CapabilitiesAreCurrent == capabilities # NoSocket => capabilities = ws

(* A socket that is in use and has shaken hands was announced, and no late   *)
(* close of an earlier one took that back.                                   *)
LiveSocketIsAnnounced ==
  isConnected /\ ws \notin shaking => connectedState

(* Every call settles: whatever the editor does, whatever happens to the     *)
(* sockets and however often the target moves.                               *)
CallSettles ==
  \A c \in Calls : pc[c] # "idle" ~> pc[c] = "settled"

(* A late reply that the bridge was given reconciles its call for as long as *)
(* the call is remembered, even off a socket that was replaced meanwhile;    *)
(* and only a call that the editor ran is reported as finished.              *)
LateReplyIsReconciled ==
  \A c \in Calls :
    c \in answered <=>
      outcome[c] = "timeout" /\ remote[c] = "replied" /\ Remembers(c)

(* "a handler can never observe the resolved project and the connected       *)
(* editor referring to different projects": a call reaches the editor of the *)
(* project it was made for, or none.                                         *)
StaysOnItsProject == \A f \in frames : f[2] = issuedFor[f[1]]
=============================================================================
