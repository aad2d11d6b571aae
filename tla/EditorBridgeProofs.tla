------------------------- MODULE EditorBridgeProofs -------------------------
(***************************************************************************)
(* Proofs that EditorBridge keeps its type, talks to the current project's *)
(* editor only, keeps every pending call on the current socket, never says *)
(* NOT_CONNECTED of a call that was sent, and reconciles late replies; that *)
(* it implements CallDelivery and loses a call only with the socket that   *)
(* carries it; that calls only advance; and that a switch is the only way  *)
(* to a wrong editor.                                                      *)
(***************************************************************************)
EXTENDS EditorBridge, SequenceTheorems, TLAPS

(* A verified port is the current project's; there is at most one attempt    *)
(* that may install its socket, and none while a socket is installed; what   *)
(* is published and announced follows the installed socket.                  *)
TargetInv ==
  /\ ~unverifiedPin => port = project
  /\ \A s \in fresh :
       /\ link[s] = "dialing" /\ to[s] = project
       /\ ws = NoSocket /\ fresh = {s}
  /\ ws # NoSocket => link[ws] \in {"open", "closing"} /\ to[ws] = project
  /\ capabilities # NoSocket => capabilities = ws
  /\ ws # NoSocket /\ ws \notin shaking => connectedState

(* A call whose send failed may leave others pending with no socket, but     *)
(* none is left when a new socket can come.                                  *)
PendingInv ==
  \A c \in Calls :
    pc[c] = "pending" => fresh = {} /\ (ws # NoSocket => on[c] = ws)

(* Until it is sent a call has no frame anywhere.                            *)
Unsent == {"idle", "connecting", "failed", "waiting", "resumed"}

SentInv ==
  /\ \A f \in frames :
       remote[f[1]] = "sent" /\ \A g \in frames : g[1] = f[1] => g = f
  /\ \A c \in Calls :
       /\ pc[c] \in Unsent => remote[c] = "none"
       /\ outcome[c] = "not_connected" => pc[c] = "settled" /\ remote[c] = "none"
       /\ on[c] # NoSocket => remote[c] # "none"

-----------------------------------------------------------------------------
(***************************************************************************)
(* Type correctness.                                                       *)
(***************************************************************************)
SocketsTyped ==
  /\ link \in [Sockets -> {"free", "dialing", "open", "closing"}]
  /\ to \in [Sockets -> Projects \cup {NoPort}]
  /\ fresh \subseteq Sockets /\ shaking \subseteq Sockets
  /\ {ws, inFlight, capabilities} \subseteq Sockets \cup {NoSocket}
  /\ connectedState \in BOOLEAN /\ everConnected \in BOOLEAN

CallsTyped ==
  /\ pc \in [Calls -> {"idle", "connecting", "failed", "waiting", "resumed",
                       "pending", "settled"}]
  /\ outcome \in [Calls -> {"none", "result", "timeout", "lost", "not_connected"}]

TargetTyped ==
  /\ project \in Projects /\ port \in Projects
  /\ pinned \in BOOLEAN /\ unverifiedPin \in BOOLEAN

LateTyped ==
  /\ abandoned \in Seq(Calls) /\ Len(abandoned) <= History
  /\ answered \subseteq Calls

WireTyped ==
  /\ issuedFor \in [Calls -> Projects]
  /\ on \in [Calls -> Sockets \cup {NoSocket}]
  /\ frames \subseteq Calls \X Projects
  /\ remote \in [Calls -> {"none", "sent", "run", "replied"}]
  /\ up \subseteq Projects

(* The type invariant, by the parts that an action disturbs together. *)
LEMMA TypeParts ==
  TypeOK <=> /\ TargetTyped /\ SocketsTyped /\ CallsTyped
             /\ LateTyped /\ WireTyped
BY DEF TypeOK, TargetTyped, SocketsTyped, CallsTyped, LateTyped, WireTyped

(* The same parts of the next state. *)
LEMMA TypePartsNext ==
  TypeOK' <=> /\ TargetTyped' /\ SocketsTyped' /\ CallsTyped'
              /\ LateTyped' /\ WireTyped'
BY DEF TypeOK, TargetTyped, SocketsTyped, CallsTyped, LateTyped, WireTyped

(* Whatever the port, dialling keeps the sockets and the calls typed.        *)
LEMMA DialTyped ==
  ASSUME TypeOK, TargetTyped', UNCHANGED shaking,
         NEW recorded \in BOOLEAN, NEW joining \in SUBSET Calls,
         Dial(recorded, joining)
  PROVE  SocketsTyped' /\ CallsTyped'
<1> USE NoSocketAssumption DEF TypeOK, TargetTyped, SocketsTyped, CallsTyped
<1>1. ASSUME NEW next \in {"failed", "connecting"}, CloseSocket(joining, next)
      PROVE  /\ CallsTyped'
             /\ {ws', capabilities'} \subseteq Sockets \cup {NoSocket}
             /\ connectedState' \in BOOLEAN /\ everConnected' \in BOOLEAN
  BY <1>1 DEF CloseSocket, Settle, Pending
<1>2. Severed \in [Sockets -> {"free", "dialing", "open", "closing"}]
  BY DEF Severed
<1>3. CASE unverifiedPin'
  <2>1. CloseSocket(joining, "failed") /\ link' = Severed /\ fresh' = {}
        /\ UNCHANGED <<to, inFlight>>
    BY <1>3 DEF Dial
  <2> QED BY <1>1, <1>2, <2>1
<1>4. CASE ~unverifiedPin'
  <2>1. PICK s \in Sockets :
          /\ CloseSocket(joining, "connecting")
          /\ link' = [Severed EXCEPT ![s] = "dialing"]
          /\ to' = [to EXCEPT ![s] = port']
          /\ fresh' = {s}
          /\ inFlight' = IF recorded THEN s ELSE inFlight
    BY <1>4 DEF Dial
  <2> QED BY <1>1, <1>2, <2>1
<1> QED BY <1>3, <1>4

(* connect() keeps the types of the target, the sockets and the calls. *)
LEMMA ConnectTyped ==
  ASSUME TypeOK, NEW recorded \in BOOLEAN, NEW joining \in SUBSET Calls,
         Connect(recorded, joining), issuedFor' \in [Calls -> Projects]
  PROVE  TypeOK'
<1>1. TargetTyped'
  BY DEF Connect, Target, TypeOK, TargetTyped
<1>2. Dial(recorded, joining)
      /\ UNCHANGED <<shaking, lateVars, wireVars, up>>
  BY DEF Connect
<1>3. SocketsTyped' /\ CallsTyped'
  BY <1>1, <1>2, DialTyped
<1>4. LateTyped' /\ WireTyped'
  BY <1>2 DEF TypeOK, LateTyped, WireTyped, lateVars, wireVars
<1> QED BY <1>1, <1>3, <1>4, TypePartsNext

(* So does writing a call's frame. *)
LEMMA SendTyped ==
  ASSUME TypeOK, ws # NoSocket => to[ws] \in Projects,
         NEW c \in Calls, isConnected, Send(c),
         issuedFor' \in [Calls -> Projects]
  PROVE  TypeOK'
<1>1. ws \in Sockets /\ to[ws] \in Projects
  BY DEF TypeOK, isConnected
<1>2. TargetTyped' /\ SocketsTyped' /\ LateTyped'
  BY DEF Send, targetVars, socketVars, toldVars, lateVars, TypeOK, TargetTyped,
         SocketsTyped, LateTyped
<1>3. CallsTyped'
  BY DEF Send, TypeOK, CallsTyped
<1>4. WireTyped'
  <2>1. frames' = frames \cup {<<c, to[ws]>>} /\ on' = [on EXCEPT ![c] = ws]
        /\ remote' = [remote EXCEPT ![c] = "sent"] /\ up' = up
    BY DEF Send
  <2>2. <<c, to[ws]>> \in Calls \X Projects
    BY <1>1
  <2>3. frames' \subseteq Calls \X Projects
    BY <2>1, <2>2 DEF TypeOK
  <2> QED BY <1>1, <2>1, <2>3 DEF TypeOK, WireTyped
<1> QED BY <1>2, <1>3, <1>4, TypePartsNext

(* A sent call needs a real port, so the type rests on TargetInv.            *)
LEMMA TypeInit == Init => TypeOK
<1> SUFFICES ASSUME Init PROVE TypeOK
  OBVIOUS
<1>1. abandoned \in Seq(Calls) /\ Len(abandoned) <= History
  BY HistoryAssumption DEF Init
<1> QED BY <1>1, StartAssumption DEF Init, TypeOK

(* rememberAbandoned keeps the history within its cap. *)
LEMMA RememberedTyped ==
  ASSUME TypeOK, NEW c \in Calls
  PROVE  Remembered(c) \in Seq(Calls) /\ Len(Remembered(c)) <= History
<1> DEFINE all == Append(abandoned, c)
<1>1. abandoned \in Seq(Calls) /\ Len(abandoned) <= History /\ History \in Nat \ {0}
  BY HistoryAssumption DEF TypeOK
<1>2. all \in Seq(Calls) /\ all # <<>> /\ Len(all) = Len(abandoned) + 1
  BY <1>1, AppendProperties
<1>3. Tail(all) \in Seq(Calls) /\ Len(Tail(all)) = Len(all) - 1
  BY <1>2, HeadTailProperties
<1> HIDE DEF all
<1>4. Remembered(c) = IF Len(all) > History THEN Tail(all) ELSE all
  BY DEF Remembered, all
<1> QED BY <1>1, <1>2, <1>3, <1>4

(* Every step keeps the types. *)
LEMMA TypeStep ==
  ASSUME TypeOK, ws # NoSocket => to[ws] \in Projects, Next
  PROVE  TypeOK'
<1> USE DEF TypeOK
<1>1. ASSUME NEW c \in Calls, Call(c)
      PROVE  TypeOK'
  <2>1. issuedFor' \in [Calls -> Projects]
    BY <1>1 DEF Call
  <2>2. CASE isConnected /\ Send(c)
    BY <2>1, <2>2, SendTyped
  <2>3. CASE Connect(TRUE, {c})
    BY <2>1, <2>3, ConnectTyped
  <2>4. CASE pc' = [pc EXCEPT ![c] = "connecting"]
             /\ UNCHANGED <<outcome, targetVars, socketVars, toldVars, lateVars,
                            wireVars, up>>
    BY <2>1, <2>4 DEF targetVars, socketVars, toldVars, lateVars, wireVars
  <2> QED BY <1>1, <2>2, <2>3, <2>4 DEF Call
<1>2. ASSUME NEW c \in Calls, Resume(c)
      PROVE  TypeOK'
  <2>1. issuedFor' \in [Calls -> Projects]
    BY <1>2 DEF Resume
  <2>2. CASE isConnected
    BY <1>2, <2>1, <2>2, SendTyped DEF Resume
  <2>3. CASE ~isConnected
    <3>1. /\ pc' = [pc EXCEPT ![c] = "settled"]
          /\ Settle({c}, "not_connected")
          /\ UNCHANGED <<targetVars, socketVars, toldVars, lateVars, wireVars, up>>
      BY <1>2, <2>3 DEF Resume
    <3> QED BY <2>1, <3>1 DEF Settle, targetVars, socketVars, toldVars, lateVars,
                              wireVars
  <2> QED BY <2>2, <2>3
<1>3. ASSUME NEW c \in Calls, ConnectFailed(c)
      PROVE  TypeOK'
  BY <1>3 DEF ConnectFailed, Settle, targetVars, socketVars, toldVars, lateVars,
              wireVars
<1>4. ASSUME NEW c \in Calls, WaitSeesEditor(c) \/ WaitRunsOut(c)
      PROVE  TypeOK'
  BY <1>4 DEF WaitSeesEditor, WaitRunsOut, Settle, targetVars, socketVars,
              toldVars, lateVars, wireVars
<1>5. ASSUME NEW c \in Calls, Reply(c)
      PROVE  TypeOK'
  BY <1>5 DEF Reply, Reconciled, Settle, targetVars, socketVars, toldVars, callVars
<1>6. ASSUME NEW c \in Calls, TimesOut(c)
      PROVE  TypeOK'
  <2>1. abandoned' \in Seq(Calls) /\ Len(abandoned') <= History
    BY <1>6, RememberedTyped DEF TimesOut
  <2> QED BY <1>6, <2>1 DEF TimesOut, Settle, targetVars, socketVars, toldVars,
                            wireVars
<1>7. ASSUME NEW c \in Calls, SendFails(c)
      PROVE  TypeOK'
  BY <1>7 DEF SendFails, Severed, Settle, targetVars, toldVars, lateVars
<1>8. ASSUME NEW c \in Calls, EditorRuns(c)
      PROVE  TypeOK'
  BY <1>8 DEF EditorRuns, clientVars, targetVars, toldVars, callVars, lateVars
<1>9. ASSUME NEW s \in Sockets, Opens(s)
      PROVE  TypeOK'
  BY <1>9 DEF Opens, Installs, AttemptSettles, targetVars, toldVars, lateVars, wireVars
<1>10. ASSUME NEW s \in Sockets, DialFails(s)
       PROVE  TypeOK'
  BY <1>10 DEF DialFails, Free, AttemptSettles, targetVars, toldVars, lateVars,
               wireVars
<1>11. ASSUME NEW s \in Sockets, HandshakeEnds(s)
       PROVE  TypeOK'
  BY <1>11 DEF HandshakeEnds, HandshakeLeaves, AttemptSettles, targetVars,
               lateVars, wireVars
<1>12. ASSUME NEW s \in Sockets, Closes(s)
       PROVE  TypeOK'
  <2>1. TargetTyped' /\ LateTyped' /\ WireTyped'
    BY <1>12 DEF Closes, IsInstalled, targetVars, lateVars, TargetTyped,
                 LateTyped, WireTyped
  <2>2. {ws', capabilities'} \subseteq Sockets \cup {NoSocket}
        /\ outcome' \in [Calls -> {"none", "result", "timeout", "lost", "not_connected"}]
    BY <1>12 DEF Closes, IsInstalled, LosesSocket, Settle
  <2>3. SocketsTyped'
    BY <1>12, <2>2 DEF Closes, IsInstalled, Free, SocketsTyped
  <2>4. CallsTyped'
    BY <1>12, <2>2 DEF Closes, IsInstalled, CallsTyped
  <2> QED BY <2>1, <2>3, <2>4, TypePartsNext
<1>13. ASSUME NEW s \in Sockets, PeerCloses(s)
       PROVE  TypeOK'
  BY <1>13 DEF PeerCloses, clientVars, targetVars, toldVars, callVars, lateVars
<1>14. ASSUME NEW p \in Projects, SwitchProject(p)
       PROVE  TypeOK'
  <2>1. TargetTyped'
    BY <1>14 DEF SwitchProject, Target, TargetTyped
  <2>2. SocketsTyped' /\ CallsTyped'
    BY <1>14, <2>1, DialTyped DEF SwitchProject
  <2>3. LateTyped' /\ WireTyped'
    BY <1>14 DEF SwitchProject, LateTyped, WireTyped, lateVars, wireVars
  <2> QED BY <2>1, <2>2, <2>3, TypePartsNext
<1>15. ASSUME NEW p \in Projects, EditorStarts(p)
       PROVE  TypeOK'
  BY <1>15 DEF EditorStarts, clientVars, targetVars, toldVars, callVars, lateVars
<1>16. ASSUME NEW p \in Projects, EditorStops(p)
       PROVE  TypeOK'
  BY <1>16 DEF EditorStops, clientVars, targetVars, toldVars, callVars, lateVars
<1>17. CASE ConnectDirectly \/ PokeReconnect
  BY <1>17, ConnectTyped DEF ConnectDirectly, PokeReconnect
<1>18. CASE Disconnect
  BY <1>18 DEF Disconnect, CloseSocket, Settle, Pending, Severed, targetVars,
               lateVars, wireVars
<1> QED
  BY <1>1, <1>2, <1>3, <1>4, <1>5, <1>6, <1>7, <1>8, <1>9, <1>10, <1>11, <1>12,
     <1>13, <1>14, <1>15, <1>16, <1>17, <1>18 DEF Next, CallStep, SocketStep

-----------------------------------------------------------------------------
(***************************************************************************)
(* The target, and the type that rests on it.                              *)
(***************************************************************************)
EditorInv == TypeOK /\ TargetInv

(* The installed socket leads to a port. *)
LEMMA TargetIsAPort ==
  EditorInv => (ws # NoSocket => to[ws] \in Projects)
BY DEF EditorInv, TypeOK, TargetInv

(* Dialling a verified port that is the project's keeps the target's parts.  *)
LEMMA DialKeepsTarget ==
  ASSUME EditorInv, NEW recorded \in BOOLEAN, NEW joining \in SUBSET Calls,
         ~unverifiedPin' => port' = project', Dial(recorded, joining)
  PROVE  TargetInv'
<1>1. CASE unverifiedPin'
  <2>1. ws' = NoSocket /\ capabilities' = NoSocket /\ fresh' = {}
    BY <1>1 DEF Dial, CloseSocket
  <2> QED BY <1>1, <2>1 DEF TargetInv
<1>2. CASE ~unverifiedPin'
  <2>1. PICK s \in Sockets :
          /\ CloseSocket(joining, "connecting")
          /\ link' = [Severed EXCEPT ![s] = "dialing"]
          /\ to' = [to EXCEPT ![s] = port']
          /\ fresh' = {s}
    BY <1>2 DEF Dial
  <2>2. ws' = NoSocket /\ capabilities' = NoSocket
    BY <2>1 DEF CloseSocket
  <2>3. link'[s] = "dialing" /\ to'[s] = project'
    BY <1>2, <2>1 DEF Severed, EditorInv, TypeOK
  <2> QED BY <1>2, <2>1, <2>2, <2>3 DEF TargetInv
<1> QED BY <1>1, <1>2

(* connect() keeps TargetInv. *)
LEMMA ConnectKeepsTarget ==
  ASSUME EditorInv, NEW recorded \in BOOLEAN, NEW joining \in SUBSET Calls,
         Connect(recorded, joining)
  PROVE  TargetInv'
<1>1. (~unverifiedPin' => port' = project') /\ Dial(recorded, joining)
  BY DEF Connect, Target, EditorInv, TargetInv
<1> QED BY <1>1, DialKeepsTarget

(* Every step keeps TargetInv. *)
LEMMA TargetStep == EditorInv /\ Next => TargetInv'
<1> SUFFICES ASSUME EditorInv, Next PROVE TargetInv'
  OBVIOUS
<1> USE NoSocketAssumption DEF EditorInv, TypeOK
<1>1. ASSUME UNCHANGED <<targetVars, socketVars, toldVars>>
      PROVE  TargetInv'
  BY <1>1 DEF TargetInv, targetVars, socketVars, toldVars
<1>2. ASSUME NEW c \in Calls, Call(c)
      PROVE  TargetInv'
  <2>1. CASE Connect(TRUE, {c})
    BY <2>1, ConnectKeepsTarget
  <2>2. CASE Send(c)
    BY <1>1, <2>2 DEF Send
  <2>3. CASE UNCHANGED <<outcome, targetVars, socketVars, toldVars, lateVars,
                         wireVars, up>>
    BY <1>1, <2>3
  <2> QED BY <1>2, <2>1, <2>2, <2>3 DEF Call
<1>3. ASSUME NEW c \in Calls,
             \/ Resume(c) \/ ConnectFailed(c) \/ WaitSeesEditor(c)
             \/ WaitRunsOut(c) \/ Reply(c) \/ TimesOut(c)
      PROVE  TargetInv'
  BY <1>1, <1>3 DEF Resume, Send, ConnectFailed, WaitSeesEditor, WaitRunsOut,
                    Reply, Reconciled, TimesOut
<1>4. ASSUME NEW c \in Calls, SendFails(c)
      PROVE  TargetInv'
  <2>1. CASE ws = on[c]
    BY <1>4, <2>1 DEF SendFails, Severed, TargetInv, targetVars, toldVars
  <2>2. CASE ws # on[c]
    BY <1>4, <2>2 DEF SendFails, TargetInv, targetVars, toldVars
  <2> QED BY <2>1, <2>2
<1>5. ASSUME NEW c \in Calls, EditorRuns(c)
      PROVE  TargetInv'
  BY <1>5 DEF EditorRuns, clientVars, targetVars, toldVars, TargetInv
<1>6. ASSUME NEW s \in Sockets, Opens(s)
      PROVE  TargetInv'
  <2>1. CASE s \in fresh
    BY <1>6, <2>1 DEF Opens, Installs, TargetInv, targetVars, toldVars
  <2>2. CASE s \notin fresh
    BY <1>6, <2>2 DEF Opens, Installs, TargetInv, targetVars, toldVars
  <2> QED BY <2>1, <2>2
<1>7. ASSUME NEW s \in Sockets, DialFails(s)
      PROVE  TargetInv'
  BY <1>7 DEF DialFails, Free, TargetInv, targetVars, toldVars
<1>8. ASSUME NEW s \in Sockets, HandshakeEnds(s)
      PROVE  TargetInv'
  BY <1>8 DEF HandshakeEnds, HandshakeLeaves, Publishable, TargetInv, targetVars,
              toldVars
<1>9. ASSUME NEW s \in Sockets, Closes(s)
      PROVE  TargetInv'
  BY <1>9 DEF Closes, IsInstalled, LosesSocket, Free, TargetInv, targetVars,
              toldVars
<1>10. ASSUME NEW s \in Sockets, PeerCloses(s)
       PROVE  TargetInv'
  BY <1>10 DEF PeerCloses, clientVars, targetVars, toldVars, TargetInv
<1>11. ASSUME NEW p \in Projects, SwitchProject(p)
       PROVE  TargetInv'
  <2>1. project' = p /\ unverifiedPin' = pinned'
        /\ port' = (IF pinned' THEN port ELSE p) /\ Dial(FALSE, {})
    BY <1>11 DEF SwitchProject, Target
  <2>2. ~unverifiedPin' => port' = project'
    BY <2>1
  <2> QED BY <2>1, <2>2, DialKeepsTarget
<1>12. ASSUME NEW p \in Projects, EditorStarts(p) \/ EditorStops(p)
       PROVE  TargetInv'
  BY <1>12 DEF EditorStarts, EditorStops, clientVars, targetVars, toldVars, TargetInv
<1>13. CASE ConnectDirectly \/ PokeReconnect
  BY <1>13, ConnectKeepsTarget DEF ConnectDirectly, PokeReconnect
<1>14. CASE Disconnect
  BY <1>14 DEF Disconnect, CloseSocket, targetVars, toldVars, TargetInv
<1> QED
  BY <1>2, <1>3, <1>4, <1>5, <1>6, <1>7, <1>8, <1>9, <1>10, <1>11, <1>12, <1>13,
     <1>14 DEF Next, CallStep, SocketStep

(* The target invariant is inductive together with the types: whatever is
   installed, published or announced follows the target of the moment. *)
THEOREM EditorInvariant == Spec => []EditorInv
<1>1. Init => EditorInv
  BY TypeInit DEF Init, EditorInv, TargetInv
<1>2. EditorInv /\ [Next]_vars => EditorInv'
  <2> SUFFICES ASSUME EditorInv, [Next]_vars PROVE EditorInv'
    OBVIOUS
  <2>1. CASE Next
    <3>1. TypeOK'
      BY <2>1, TypeStep, TargetIsAPort DEF EditorInv
    <3> QED BY <2>1, <3>1, TargetStep DEF EditorInv
  <2>2. CASE UNCHANGED vars
    BY <2>2 DEF vars, targetVars, socketVars, toldVars, callVars, lateVars,
                wireVars, EditorInv, TypeOK, TargetInv
  <2> QED BY <2>1, <2>2
<1> QED BY <1>1, <1>2, PTL DEF Spec

(* Every variable keeps its type.                                            *)
THEOREM TypeCorrect == Spec => []TypeOK
BY EditorInvariant, PTL DEF EditorInv

(* However switches, reconnects and late opens interleave, the socket in use *)
(* and the one that may come into use lead to the current project's editor.  *)
THEOREM OnlyRightEditor == Spec => []RightEditor
<1>1. EditorInv => RightEditor
  BY DEF EditorInv, TargetInv, RightEditor
<1> QED BY <1>1, EditorInvariant, PTL

(* Only the socket in use has its capabilities published.                    *)
THEOREM OnlyCurrentCapabilities == Spec => []CapabilitiesAreCurrent
<1>1. EditorInv => CapabilitiesAreCurrent
  BY DEF EditorInv, TargetInv, CapabilitiesAreCurrent
<1> QED BY <1>1, EditorInvariant, PTL

(* The listeners know of every socket that is in use and has shaken hands.   *)
THEOREM LiveSocketAnnounced == Spec => []LiveSocketIsAnnounced
<1>1. EditorInv => LiveSocketIsAnnounced
  BY DEF EditorInv, TargetInv, LiveSocketIsAnnounced, isConnected
<1> QED BY <1>1, EditorInvariant, PTL

-----------------------------------------------------------------------------
(***************************************************************************)
(* The calls.                                                              *)
(***************************************************************************)
CallInv == EditorInv /\ PendingInv /\ SentInv

(* closeSocket leaves no call pending, and settles only what was sent.       *)
LEMMA CloseLeavesNonePending ==
  ASSUME TypeOK, SentInv, NEW joining \in SUBSET Calls,
         NEW next \in {"idle", "failed", "connecting"},
         \A c \in joining : pc[c] = "idle",
         CloseSocket(joining, next), UNCHANGED wireVars
  PROVE  PendingInv' /\ SentInv'
<1>1. \A c \in Calls :
        /\ pc[c] = "pending" => pc'[c] = "settled" /\ outcome'[c] = "lost"
        /\ pc[c] # "pending" =>
             /\ outcome'[c] = outcome[c]
             /\ pc'[c] = IF c \in joining THEN next ELSE pc[c]
  BY DEF CloseSocket, Settle, Pending, TypeOK
<1>2. \A c \in Calls : pc'[c] # "pending"
  BY <1>1
<1>3. UNCHANGED <<on, frames, remote>>
  BY DEF wireVars
<1>4. \A c \in Calls :
        /\ pc'[c] \in Unsent => pc[c] \in Unsent
        /\ outcome'[c] = "not_connected" =>
             pc'[c] = "settled" /\ outcome[c] = "not_connected"
  BY <1>1 DEF Unsent, SentInv
<1> QED BY <1>2, <1>3, <1>4 DEF PendingInv, SentInv

(* connect() leaves no call pending and no trace of a call that waits for it. *)
LEMMA ConnectKeepsCalls ==
  ASSUME TypeOK, SentInv, NEW recorded \in BOOLEAN, NEW joining \in SUBSET Calls,
         \A c \in joining : pc[c] = "idle", Connect(recorded, joining)
  PROVE  PendingInv' /\ SentInv'
<1>1. UNCHANGED wireVars
      /\ (CloseSocket(joining, "failed") \/ CloseSocket(joining, "connecting"))
  BY DEF Connect, Dial
<1> QED BY <1>1, CloseLeavesNonePending

(* A call that is sent rides on the installed socket. *)
LEMMA SendKeepsCalls ==
  ASSUME CallInv, NEW c \in Calls, pc[c] \in Unsent, isConnected, Send(c)
  PROVE  PendingInv' /\ SentInv'
<1>1. ws # NoSocket /\ fresh = {}
  BY DEF isConnected, CallInv, EditorInv, TargetInv
<1>2. /\ pc' = [pc EXCEPT ![c] = "pending"]
      /\ on' = [on EXCEPT ![c] = ws]
      /\ frames' = frames \cup {<<c, to[ws]>>}
      /\ remote' = [remote EXCEPT ![c] = "sent"]
      /\ UNCHANGED <<outcome, ws, fresh>>
  BY DEF Send, socketVars
<1>3. PendingInv'
  BY <1>1, <1>2 DEF PendingInv, CallInv, EditorInv, TypeOK
<1>4. \A f \in frames : f[1] \in Calls /\ f[1] # c
  BY DEF SentInv, CallInv, EditorInv, TypeOK
<1>5. \A f \in frames' :
        remote'[f[1]] = "sent" /\ \A g \in frames' : g[1] = f[1] => g = f
  BY <1>2, <1>4 DEF SentInv, CallInv, EditorInv, TypeOK
<1>6. outcome[c] # "not_connected"
  BY DEF SentInv, CallInv, Unsent
<1>7. \A d \in Calls :
        /\ pc'[d] \in Unsent => remote'[d] = "none"
        /\ outcome'[d] = "not_connected" => pc'[d] = "settled" /\ remote'[d] = "none"
        /\ on'[d] # NoSocket => remote'[d] # "none"
  BY <1>2, <1>6 DEF SentInv, CallInv, EditorInv, TypeOK, Unsent
<1> QED BY <1>3, <1>5, <1>7 DEF SentInv

(* The callback of a failed send settles its call, if that is pending still. *)
LEMMA FailedSendSettles ==
  ASSUME TypeOK, NEW c \in Calls, SendFails(c)
  PROVE  \/ /\ pc[c] = "pending" /\ pc' = [pc EXCEPT ![c] = "settled"]
            /\ outcome' = [outcome EXCEPT ![c] = "lost"]
         \/ pc[c] # "pending" /\ UNCHANGED callVars
<1>1. /\ pc \in [Calls -> {"idle", "connecting", "waiting", "failed", "resumed", "pending", "settled"}]
      /\ outcome = [d \in Calls |-> outcome[d]]
  BY DEF TypeOK
<1>2. /\ pc' = [pc EXCEPT ![c] = IF pc[c] = "pending" THEN "settled" ELSE pc[c]]
      /\ outcome' = [d \in Calls |-> IF d = c /\ pc[d] = "pending" THEN "lost" ELSE outcome[d]]
  BY DEF SendFails, Settle, Pending
<1>3. CASE pc[c] = "pending"
  <2>1. outcome' = [outcome EXCEPT ![c] = "lost"]
    BY <1>1, <1>2, <1>3
  <2> QED BY <1>2, <1>3, <2>1
<1>4. CASE pc[c] # "pending"
  <2>1. pc' = pc
    BY <1>1, <1>2, <1>4
  <2>2. outcome' = outcome
    BY <1>1, <1>2, <1>4
  <2> QED BY <1>4, <2>1, <2>2 DEF callVars
<1> QED BY <1>3, <1>4

(* Every step keeps the invariants of the calls. *)
LEMMA CallStepKeepsCalls == CallInv /\ Next => PendingInv' /\ SentInv'
<1> SUFFICES ASSUME CallInv, Next PROVE PendingInv' /\ SentInv'
  OBVIOUS
<1> USE DEF CallInv, EditorInv
<1>1. ASSUME NEW c \in Calls, Call(c)
      PROVE  PendingInv' /\ SentInv'
  <2>1. pc[c] = "idle" /\ pc[c] \in Unsent
    BY <1>1 DEF Call, Unsent
  <2>2. CASE isConnected /\ Send(c)
    BY <2>1, <2>2, SendKeepsCalls
  <2>3. CASE Connect(TRUE, {c})
    BY <2>1, <2>3, ConnectKeepsCalls
  <2>4. CASE pc' = [pc EXCEPT ![c] = "connecting"]
             /\ UNCHANGED <<outcome, targetVars, socketVars, toldVars, lateVars,
                            wireVars, up>>
    BY <2>1, <2>4 DEF socketVars, wireVars, PendingInv, SentInv, TypeOK, Unsent
  <2> QED BY <1>1, <2>2, <2>3, <2>4 DEF Call
<1>2. ASSUME NEW c \in Calls, Resume(c)
      PROVE  PendingInv' /\ SentInv'
  <2>1. pc[c] = "resumed" /\ pc[c] \in Unsent
    BY <1>2 DEF Resume, Unsent
  <2>2. CASE isConnected
    BY <1>2, <2>1, <2>2, SendKeepsCalls DEF Resume
  <2>3. CASE ~isConnected
    <3>1. /\ pc' = [pc EXCEPT ![c] = "settled"]
          /\ Settle({c}, "not_connected")
          /\ UNCHANGED <<socketVars, wireVars>>
      BY <1>2, <2>3 DEF Resume
    <3> QED BY <2>1, <3>1 DEF Settle, socketVars, wireVars, PendingInv, SentInv,
                              TypeOK, Unsent
  <2> QED BY <2>2, <2>3
<1>3. ASSUME NEW c \in Calls, ConnectFailed(c)
      PROVE  PendingInv' /\ SentInv'
  BY <1>3 DEF ConnectFailed, Settle, socketVars, wireVars, PendingInv, SentInv,
              TypeOK, Unsent
<1>4. ASSUME NEW c \in Calls, WaitSeesEditor(c) \/ WaitRunsOut(c)
      PROVE  PendingInv' /\ SentInv'
  BY <1>4 DEF WaitSeesEditor, WaitRunsOut, Settle, socketVars, wireVars,
              PendingInv, SentInv, TypeOK, Unsent
<1>5. ASSUME NEW c \in Calls, Reply(c)
      PROVE  PendingInv' /\ SentInv'
  <2>1. /\ remote[c] = "run" /\ remote' = [remote EXCEPT ![c] = "replied"]
        /\ UNCHANGED <<on, frames, ws, fresh>>
    BY <1>5 DEF Reply, Reconciled, socketVars
  <2>2. pc[c] \notin Unsent /\ \A f \in frames : f[1] # c
    BY <2>1 DEF SentInv
  <2>3. CASE pc[c] = "pending"
    BY <1>5, <2>1, <2>2, <2>3 DEF Reply, Reconciled, Settle, PendingInv, SentInv, TypeOK, Unsent
  <2>4. CASE pc[c] # "pending"
    BY <1>5, <2>1, <2>2, <2>4 DEF Reply, Reconciled, callVars, PendingInv, SentInv, TypeOK
  <2> QED BY <2>3, <2>4
<1>6. ASSUME NEW c \in Calls, TimesOut(c)
      PROVE  PendingInv' /\ SentInv'
  BY <1>6 DEF TimesOut, Settle, socketVars, wireVars, PendingInv, SentInv, TypeOK,
              Unsent
<1>7. ASSUME NEW c \in Calls, SendFails(c)
      PROVE  PendingInv' /\ SentInv'
  <2>1. /\ frames' \subseteq frames /\ UNCHANGED <<on, remote, fresh>>
        /\ ws' = ws \/ ws' = NoSocket
    BY <1>7 DEF SendFails
  <2>2. CASE pc[c] = "pending"
    BY <1>7, <2>1, <2>2, FailedSendSettles DEF PendingInv, SentInv, TypeOK, Unsent
  <2>3. CASE pc[c] # "pending"
    BY <1>7, <2>1, <2>3, FailedSendSettles DEF PendingInv, SentInv, callVars
  <2> QED BY <2>2, <2>3
<1>8. ASSUME NEW c \in Calls, EditorRuns(c)
      PROVE  PendingInv' /\ SentInv'
  <2>1. PICK p \in Projects : <<c, p>> \in frames /\ frames' = frames \ {<<c, p>>}
    BY <1>8 DEF EditorRuns
  <2>2. remote[c] = "sent" /\ pc[c] \notin Unsent /\ outcome[c] # "not_connected"
    BY <2>1 DEF SentInv
  <2>3. remote' = [remote EXCEPT ![c] = "run"]
        /\ UNCHANGED <<pc, outcome, on, ws, fresh>>
    BY <1>8 DEF EditorRuns, clientVars, callVars
  <2>4. PendingInv'
    BY <2>3 DEF PendingInv
  <2>5. \A f \in frames' :
          remote'[f[1]] = "sent" /\ \A g \in frames' : g[1] = f[1] => g = f
    <3>1. <<c, p>>[1] = c /\ frames' \subseteq frames
      BY <2>1
    <3>2. \A f \in frames' : f[1] \in Calls /\ f[1] # c
      BY <2>1, <3>1 DEF SentInv, TypeOK
    <3> QED BY <2>3, <3>1, <3>2 DEF SentInv, TypeOK
  <2> QED BY <2>2, <2>3, <2>4, <2>5 DEF SentInv, TypeOK
<1>9. ASSUME NEW s \in Sockets, Opens(s)
      PROVE  PendingInv' /\ SentInv'
  <2>1. UNCHANGED <<outcome, on, frames, remote>> /\ fresh' = fresh \ {s}
    BY <1>9 DEF Opens, Installs, wireVars
  <2>2. CASE s \in fresh
    <3>1. pc' = pc /\ \A c \in Calls : pc[c] # "pending"
      BY <1>9, <2>2 DEF Opens, Installs, PendingInv
    <3> QED BY <2>1, <3>1 DEF PendingInv, SentInv
  <2>3. CASE s \notin fresh
    <3>1. ws' = ws /\ \A c \in Calls :
            pc'[c] = pc[c] \/ (pc[c] = "connecting" /\ pc'[c] = "failed")
      BY <1>9, <2>3 DEF Opens, Installs, AttemptSettles, Joined, TypeOK
    <3> QED BY <2>1, <3>1 DEF PendingInv, SentInv, Unsent
  <2> QED BY <2>2, <2>3
<1>10. ASSUME NEW s \in Sockets, DialFails(s)
       PROVE  PendingInv' /\ SentInv'
  <2>1. UNCHANGED <<outcome, on, frames, remote, ws>> /\ fresh' = fresh \ {s}
    BY <1>10 DEF DialFails, wireVars
  <2>2. \A c \in Calls :
          pc'[c] = pc[c] \/ (pc[c] = "connecting" /\ pc'[c] = "failed")
    BY <1>10 DEF DialFails, AttemptSettles, Joined, TypeOK
  <2> QED BY <2>1, <2>2 DEF PendingInv, SentInv, Unsent
<1>11. ASSUME NEW s \in Sockets, HandshakeEnds(s)
       PROVE  PendingInv' /\ SentInv'
  <2>1. UNCHANGED <<outcome, on, frames, remote, ws, fresh>>
    BY <1>11 DEF HandshakeEnds, HandshakeLeaves, wireVars
  <2>2. \A c \in Calls :
          pc'[c] = pc[c] \/ (pc[c] \in Unsent /\ pc'[c] = "resumed")
    BY <1>11 DEF HandshakeEnds, HandshakeLeaves, AttemptSettles, Joined, Woken,
                 Waiting, Unsent, TypeOK
  <2> QED BY <2>1, <2>2 DEF PendingInv, SentInv, Unsent
<1>12. ASSUME NEW s \in Sockets, Closes(s)
       PROVE  PendingInv' /\ SentInv'
  <2>1. UNCHANGED <<frames, remote, fresh>>
        /\ on' = [c \in Calls |-> IF on[c] = s THEN NoSocket ELSE on[c]]
    BY <1>12 DEF Closes, IsInstalled
  <2>2. CASE ws = s
    <3>1. ws' = NoSocket
      BY <1>12, <2>2 DEF Closes, IsInstalled, LosesSocket
    <3>2. \A c \in Calls :
            \/ pc[c] = "pending" /\ pc'[c] = "settled" /\ outcome'[c] = "lost"
            \/ /\ outcome'[c] = outcome[c]
               /\ pc'[c] = pc[c] \/ (pc[c] \in Unsent /\ pc'[c] = "resumed")
      BY <1>12, <2>2 DEF Closes, IsInstalled, LosesSocket, Settle, Pending,
                         Joined, Woken,
                         Waiting, Unsent, TypeOK
    <3> QED BY <2>1, <3>1, <3>2 DEF PendingInv, SentInv, Unsent, TypeOK
  <2>3. CASE ws # s
    <3>1. UNCHANGED <<ws, outcome>>
      BY <1>12, <2>3 DEF Closes, IsInstalled, LosesSocket
    <3>2. \A c \in Calls :
            pc'[c] = pc[c] \/ (pc[c] \in Unsent /\ pc'[c] = "resumed")
      BY <1>12, <2>3 DEF Closes, IsInstalled, Joined, Woken, Waiting, Unsent, TypeOK
    <3> QED BY <2>1, <2>3, <3>1, <3>2 DEF PendingInv, SentInv, Unsent, TypeOK
  <2> QED BY <2>2, <2>3
<1>13. ASSUME NEW s \in Sockets, PeerCloses(s)
       PROVE  PendingInv' /\ SentInv'
  BY <1>13 DEF PeerCloses, clientVars, callVars, PendingInv, SentInv
<1>14. ASSUME NEW p \in Projects, SwitchProject(p)
       PROVE  PendingInv' /\ SentInv'
  <2>1. UNCHANGED wireVars
        /\ (CloseSocket({}, "failed") \/ CloseSocket({}, "connecting"))
    BY <1>14 DEF SwitchProject, Dial
  <2> QED BY <2>1, CloseLeavesNonePending
<1>15. ASSUME NEW p \in Projects, EditorStarts(p)
       PROVE  PendingInv' /\ SentInv'
  BY <1>15 DEF EditorStarts, clientVars, callVars, PendingInv, SentInv
<1>16. ASSUME NEW p \in Projects, EditorStops(p)
       PROVE  PendingInv' /\ SentInv'
  BY <1>16 DEF EditorStops, clientVars, callVars, PendingInv, SentInv
<1>17. CASE ConnectDirectly \/ PokeReconnect
  BY <1>17, ConnectKeepsCalls DEF ConnectDirectly, PokeReconnect
<1>18. CASE Disconnect
  BY <1>18, CloseLeavesNonePending DEF Disconnect
<1> QED
  BY <1>1, <1>2, <1>3, <1>4, <1>5, <1>6, <1>7, <1>8, <1>9, <1>10, <1>11, <1>12,
     <1>13, <1>14, <1>15, <1>16, <1>17, <1>18 DEF Next, CallStep, SocketStep

(* The invariants of the calls hold: pending calls are on the socket in use,
   and a call that was not sent has left no trace. *)
THEOREM CallInvariant == Spec => []CallInv
<1>1. Init => PendingInv /\ SentInv
  BY DEF Init, PendingInv, SentInv
<1>2. CallInv /\ [Next]_vars => (PendingInv /\ SentInv)'
  <2> SUFFICES ASSUME CallInv, [Next]_vars PROVE (PendingInv /\ SentInv)'
    OBVIOUS
  <2>1. CASE Next
    BY <2>1, CallStepKeepsCalls
  <2>2. CASE UNCHANGED vars
    BY <2>2 DEF vars, socketVars, callVars, wireVars, CallInv, PendingInv, SentInv
  <2> QED BY <2>1, <2>2
<1> QED BY <1>1, <1>2, EditorInvariant, PTL DEF Spec, CallInv

(* A pending call waits on the socket in use, and none does while an attempt *)
(* may still install another.                                                *)
PendingOnCurrentSocket ==
  \A c \in Calls :
    pc[c] = "pending" => fresh = {} /\ (ws # NoSocket => on[c] = ws)

(* When a new socket comes into use, no pending call still waits on an old   *)
(* one: each was rejected before the new one was dialled.                    *)
THEOREM PendingIsCurrent == Spec => []PendingOnCurrentSocket
<1>1. CallInv => PendingOnCurrentSocket
  BY DEF CallInv, PendingInv, PendingOnCurrentSocket
<1> QED BY <1>1, CallInvariant, PTL

(* NOT_CONNECTED is a promise that a retry repeats nothing: the editor never *)
(* gets the frame of a call that was refused so.                             *)
NotConnectedMeansNotSent ==
  \A c \in Calls :
    outcome[c] = "not_connected" => remote[c] = "none"

(* A call refused with NOT_CONNECTED was not sent, and never will be.        *)
THEOREM RefusedWasNotSent == Spec => []NotConnectedMeansNotSent
<1>1. CallInv => NotConnectedMeansNotSent
  BY DEF CallInv, SentInv, NotConnectedMeansNotSent
<1> QED BY <1>1, CallInvariant, PTL
-----------------------------------------------------------------------------
(***************************************************************************)
(* Late replies.                                                           *)
(***************************************************************************)
(* A remembered call timed out, and a call that has not settled has no       *)
(* outcome and no reply.                                                     *)
LateInv ==
  /\ LateReplyIsReconciled
  /\ \A c \in Calls : Remembers(c) => outcome[c] = "timeout"
  /\ \A c \in Calls : pc[c] # "settled" => outcome[c] = "none" /\ remote[c] # "replied"

(* A step that neither times out a call nor brings a reply keeps account.    *)
LEMMA LateKept ==
  ASSUME LateInv, UNCHANGED lateVars,
         \A c \in Calls :
           /\ outcome'[c] = outcome[c] \/ {outcome[c], outcome'[c]} \cap {"timeout"} = {}
           /\ remote'[c] = remote[c] \/ {remote[c], remote'[c]} \cap {"replied"} = {}
           /\ pc'[c] # "settled" => pc[c] # "settled" /\ outcome'[c] = outcome[c]
  PROVE  LateInv'
<1>1. UNCHANGED <<abandoned, answered>>
  BY DEF lateVars
<1>2. \A c \in Calls : Remembers(c)' <=> Remembers(c)
  BY <1>1 DEF Remembers
<1>3. \A c \in Calls :
        /\ (outcome'[c] = "timeout") <=> (outcome[c] = "timeout")
        /\ (remote'[c] = "replied") <=> (remote[c] = "replied")
  OBVIOUS
<1> QED BY <1>1, <1>2, <1>3 DEF LateInv, LateReplyIsReconciled

(* closeSocket settles pending calls only, and as lost.                      *)
LEMMA CloseKeepsLate ==
  ASSUME TypeOK, LateInv, NEW joining \in SUBSET Calls,
         NEW next \in {"idle", "failed", "connecting"},
         \A c \in joining : pc[c] = "idle",
         CloseSocket(joining, next), UNCHANGED <<lateVars, wireVars>>
  PROVE  LateInv'
<1>1. \A c \in Calls :
        /\ pc[c] = "pending" => pc'[c] = "settled" /\ outcome'[c] = "lost"
        /\ pc[c] # "pending" =>
             /\ outcome'[c] = outcome[c]
             /\ pc'[c] = IF c \in joining THEN next ELSE pc[c]
  BY DEF CloseSocket, Settle, Pending, TypeOK
<1>2. \A c \in Calls : pc[c] = "pending" => outcome[c] = "none"
  BY DEF LateInv
<1>3. \A c \in Calls : pc'[c] # "settled" => pc[c] # "settled" /\ outcome'[c] = outcome[c]
  BY <1>1
<1>4. remote' = remote
  BY DEF wireVars
<1> QED BY <1>1, <1>2, <1>3, <1>4, LateKept

(* connect() brings no reply and times nothing out. *)
LEMMA ConnectKeepsLate ==
  ASSUME TypeOK, LateInv, NEW recorded \in BOOLEAN, NEW joining \in SUBSET Calls,
         \A c \in joining : pc[c] = "idle", Connect(recorded, joining)
  PROVE  LateInv'
<1>1. UNCHANGED <<lateVars, wireVars>>
      /\ (CloseSocket(joining, "failed") \/ CloseSocket(joining, "connecting"))
  BY DEF Connect, Dial
<1> QED BY <1>1, CloseKeepsLate

(* Nor does the sending of a frame. *)
LEMMA SendKeepsLate ==
  ASSUME TypeOK, SentInv, LateInv, NEW c \in Calls, pc[c] \in {"idle", "resumed"}, Send(c)
  PROVE  LateInv'
<1>1. /\ pc' = [pc EXCEPT ![c] = "pending"]
      /\ remote' = [remote EXCEPT ![c] = "sent"]
      /\ UNCHANGED <<outcome, lateVars>>
  BY DEF Send
<1>2. remote[c] = "none"
  BY DEF SentInv, Unsent
<1> QED BY <1>1, <1>2, LateKept DEF TypeOK

(* The history holds what it held, but for the call that just timed out.     *)
LEMMA RememberedRange ==
  ASSUME TypeOK, NEW c \in Calls, NEW d \in Calls, d # c, abandoned' = Remembered(c),
         Remembers(d)'
  PROVE  Remembers(d)
<1> DEFINE all == Append(abandoned, c)
<1>1. abandoned \in Seq(Calls) /\ all \in Seq(Calls) /\ Len(all) = Len(abandoned) + 1
  BY AppendProperties DEF TypeOK
<1>2. \A i \in DOMAIN all : all[i] = d => i \in DOMAIN abandoned /\ abandoned[i] = d
  BY <1>1, AppendProperties
<1>3. abandoned' = all \/ abandoned' = Tail(all)
  BY DEF Remembered
<1>4. PICK i \in DOMAIN abandoned' : abandoned'[i] = d
  BY DEF Remembers
<1>5. CASE abandoned' = all
  BY <1>2, <1>4, <1>5 DEF Remembers
<1>6. CASE abandoned' = Tail(all)
  <2>1. all # <<>>
    BY <1>1
  <2>2. Len(Tail(all)) = Len(all) - 1 /\ Tail(all) \in Seq(Calls)
        /\ \A j \in 1 .. Len(Tail(all)) : Tail(all)[j] = all[j + 1]
    BY <1>1, <2>1, HeadTailProperties
  <2>3. i \in 1 .. Len(Tail(all)) /\ Len(all) \in Nat
    BY <1>1, <1>4, <1>6, <2>2
  <2>4. i + 1 \in DOMAIN all /\ all[i + 1] = d
    BY <1>1, <1>4, <1>6, <2>2, <2>3
  <2> HIDE DEF all
  <2> QED BY <1>2, <2>4 DEF Remembers
<1> QED BY <1>3, <1>5, <1>6

(* Every step keeps account of the late replies.                             *)
LEMMA LateStep == CallInv /\ LateInv /\ Next => LateInv'
<1> SUFFICES ASSUME CallInv, LateInv, Next PROVE LateInv'
  OBVIOUS
<1> USE DEF CallInv, EditorInv
<1>0. \A c \in Calls : pc[c] # "settled" => outcome[c] = "none" /\ remote[c] # "replied"
  BY DEF LateInv
<1>a. ASSUME UNCHANGED <<lateVars, remote>>,
             \A c \in Calls : \/ outcome'[c] = outcome[c] /\ (pc'[c] = pc[c] \/ pc[c] # "settled")
                              \/ /\ pc[c] # "settled" /\ pc'[c] = "settled"
                                 /\ outcome'[c] \in {"lost", "not_connected"}
      PROVE  LateInv'
  BY <1>0, <1>a, LateKept
<1>1. ASSUME NEW c \in Calls, Call(c)
      PROVE  LateInv'
  <2>1. pc[c] = "idle"
    BY <1>1 DEF Call
  <2>2. CASE Send(c)
    BY <2>1, <2>2, SendKeepsLate
  <2>3. CASE Connect(TRUE, {c})
    BY <2>1, <2>3, ConnectKeepsLate
  <2>4. CASE pc' = [pc EXCEPT ![c] = "connecting"]
             /\ UNCHANGED <<outcome, targetVars, socketVars, toldVars, lateVars,
                            wireVars, up>>
    BY <1>a, <2>1, <2>4 DEF wireVars, TypeOK
  <2> QED BY <1>1, <2>2, <2>3, <2>4 DEF Call
<1>2. ASSUME NEW c \in Calls, Resume(c)
      PROVE  LateInv'
  <2>1. pc[c] = "resumed"
    BY <1>2 DEF Resume
  <2>2. CASE isConnected
    BY <1>2, <2>1, <2>2, SendKeepsLate DEF Resume
  <2>3. CASE ~isConnected
    <3>1. /\ pc' = [pc EXCEPT ![c] = "settled"]
          /\ Settle({c}, "not_connected")
          /\ UNCHANGED <<lateVars, wireVars>>
      BY <1>2, <2>3 DEF Resume
    <3> QED BY <1>a, <2>1, <3>1 DEF Settle, wireVars, TypeOK
  <2> QED BY <2>2, <2>3
<1>3. ASSUME NEW c \in Calls, ConnectFailed(c) \/ WaitSeesEditor(c) \/ WaitRunsOut(c)
      PROVE  LateInv'
  <2>1. /\ pc[c] # "settled"
        /\ pc' = [pc EXCEPT ![c] = pc'[c]]
        /\ UNCHANGED <<lateVars, wireVars>>
        /\ \/ outcome' = outcome
           \/ Settle({}, "not_connected")
           \/ pc'[c] = "settled" /\ Settle({c}, "not_connected")
    BY <1>3 DEF ConnectFailed, WaitSeesEditor, WaitRunsOut, TypeOK
  <2> QED BY <1>a, <2>1 DEF Settle, wireVars, TypeOK
<1>4. ASSUME NEW c \in Calls, Reply(c)
      PROVE  LateInv'
  <2>1. /\ remote[c] = "run" /\ remote' = [remote EXCEPT ![c] = "replied"]
        /\ abandoned' = abandoned
    BY <1>4 DEF Reply
  <2>2. \A d \in Calls : Remembers(d)' <=> Remembers(d)
    BY <2>1 DEF Remembers
  <2>3. pc[c] \in {"pending", "settled"}
    BY <2>1 DEF SentInv, Unsent, TypeOK
  <2>4. c \notin answered
    BY <2>1 DEF LateInv, LateReplyIsReconciled
  <2>5. CASE pc[c] = "pending"
    <3>1. /\ pc' = [pc EXCEPT ![c] = "settled"] /\ Settle({c}, "result")
          /\ answered' = answered
      BY <1>4, <2>5 DEF Reply
    <3>2. ~Remembers(c)
      BY <2>5, <1>0 DEF LateInv
    <3> QED BY <2>1, <2>2, <2>4, <3>1, <3>2 DEF Settle, LateInv, LateReplyIsReconciled, TypeOK
  <2>6. CASE pc[c] # "pending"
    <3>1. answered' = Reconciled(c) /\ UNCHANGED <<pc, outcome>>
      BY <1>4, <2>6 DEF Reply, callVars
    <3>2. pc[c] = "settled"
      BY <2>3, <2>6
    <3>3. \A d \in Calls : d \in answered' <=> d \in answered \/ (d = c /\ Remembers(c))
      BY <3>1 DEF Reconciled
    <3> QED BY <2>1, <2>2, <2>4, <3>1, <3>2, <3>3 DEF LateInv, LateReplyIsReconciled, TypeOK
  <2> QED BY <2>5, <2>6
<1>5. ASSUME NEW c \in Calls, TimesOut(c)
      PROVE  LateInv'
  <2>1. /\ pc[c] = "pending" /\ pc' = [pc EXCEPT ![c] = "settled"]
        /\ outcome' = [d \in Calls |-> IF d = c THEN "timeout" ELSE outcome[d]]
        /\ abandoned' = Remembered(c)
        /\ remote' = remote
    BY <1>5 DEF TimesOut, Settle, wireVars
  <2>2. \A d \in Calls : d \in answered' <=> d \in answered /\ Remembers(d)'
    BY <1>5 DEF TimesOut, Remembers
  <2>3. \A d \in Calls : d # c /\ Remembers(d)' => Remembers(d)
    BY <2>1, RememberedRange
  <2>4. c \notin answered /\ remote[c] # "replied"
    BY <2>1, <1>0 DEF LateInv, LateReplyIsReconciled
  <2> QED BY <2>1, <2>2, <2>3, <2>4 DEF LateInv, LateReplyIsReconciled, TypeOK
<1>6. ASSUME NEW c \in Calls, SendFails(c)
      PROVE  LateInv'
  <2>1. UNCHANGED <<lateVars, remote>>
    BY <1>6 DEF SendFails
  <2> QED BY <1>a, <1>6, <2>1, FailedSendSettles DEF callVars, TypeOK
<1>7. ASSUME NEW c \in Calls, EditorRuns(c)
      PROVE  LateInv'
  <2>1. PICK p \in Projects : <<c, p>> \in frames
    BY <1>7 DEF EditorRuns
  <2>2. remote[c] = "sent"
    BY <2>1 DEF SentInv
  <2>3. remote' = [remote EXCEPT ![c] = "run"] /\ UNCHANGED <<pc, outcome, lateVars>>
    BY <1>7 DEF EditorRuns, clientVars, callVars
  <2> QED BY <2>2, <2>3, <1>0, LateKept DEF TypeOK
<1>8. ASSUME NEW s \in Sockets, Opens(s) \/ DialFails(s) \/ HandshakeEnds(s)
      PROVE  LateInv'
  <2>1. UNCHANGED <<outcome, lateVars, remote>>
    BY <1>8 DEF Opens, DialFails, HandshakeEnds, HandshakeLeaves, wireVars
  <2>2. \A c \in Calls : pc'[c] = pc[c] \/ pc[c] # "settled"
    BY <1>8 DEF Opens, DialFails, HandshakeEnds, HandshakeLeaves, AttemptSettles,
                Joined, Woken, Waiting, TypeOK
  <2> QED BY <1>a, <2>1, <2>2
<1>9. ASSUME NEW s \in Sockets, Closes(s)
      PROVE  LateInv'
  <2>1. UNCHANGED <<lateVars, remote>>
    BY <1>9 DEF Closes, IsInstalled
  <2>2. CASE ws = s
    <3>1. \A c \in Calls :
            \/ pc[c] = "pending" /\ pc'[c] = "settled" /\ outcome'[c] = "lost"
            \/ outcome'[c] = outcome[c] /\ (pc'[c] = pc[c] \/ pc[c] # "settled")
      BY <1>9, <2>2 DEF Closes, IsInstalled, LosesSocket, Settle, Pending,
                        Joined, Woken, Waiting, TypeOK
    <3> QED BY <1>a, <2>1, <3>1
  <2>3. CASE ws # s
    <3>1. \A c \in Calls : outcome'[c] = outcome[c] /\ (pc'[c] = pc[c] \/ pc[c] # "settled")
      BY <1>9, <2>3 DEF Closes, IsInstalled, LosesSocket, Joined, Woken, Waiting,
                        TypeOK
    <3> QED BY <1>a, <2>1, <3>1
  <2> QED BY <2>2, <2>3
<1>10. ASSUME NEW s \in Sockets, PeerCloses(s)
       PROVE  LateInv'
  BY <1>10, <1>a DEF PeerCloses, clientVars, callVars
<1>11. ASSUME NEW p \in Projects, SwitchProject(p)
       PROVE  LateInv'
  <2>1. UNCHANGED <<lateVars, wireVars>>
        /\ (CloseSocket({}, "failed") \/ CloseSocket({}, "connecting"))
    BY <1>11 DEF SwitchProject, Dial
  <2> QED BY <2>1, CloseKeepsLate
<1>12. ASSUME NEW p \in Projects, EditorStarts(p) \/ EditorStops(p)
       PROVE  LateInv'
  BY <1>12, <1>a DEF EditorStarts, EditorStops, clientVars, callVars
<1>13. CASE ConnectDirectly \/ PokeReconnect
  BY <1>13, ConnectKeepsLate DEF ConnectDirectly, PokeReconnect
<1>14. CASE Disconnect
  BY <1>14, CloseKeepsLate DEF Disconnect
<1> QED
  BY <1>1, <1>2, <1>3, <1>4, <1>5, <1>6, <1>7, <1>8, <1>9, <1>10, <1>11, <1>12,
     <1>13, <1>14 DEF Next, CallStep, SocketStep

(* A late reply reconciles its call exactly as long as the history holds it, *)
(* for a history of any length, and off a socket that was replaced as well.  *)
THEOREM LateReplies == Spec => []LateReplyIsReconciled
<1>1. Init => LateInv
  BY DEF Init, LateInv, LateReplyIsReconciled, Remembers
<1>2. CallInv /\ LateInv /\ [Next]_vars => LateInv'
  <2> SUFFICES ASSUME CallInv, LateInv, [Next]_vars PROVE LateInv'
    OBVIOUS
  <2>1. CASE Next
    BY <2>1, LateStep
  <2>2. CASE UNCHANGED vars
    BY <2>2, LateKept DEF vars, callVars, wireVars, LateInv
  <2> QED BY <2>1, <2>2
<1>3. LateInv => LateReplyIsReconciled
  BY DEF LateInv
<1> QED BY <1>1, <1>2, <1>3, CallInvariant, PTL DEF Spec

-----------------------------------------------------------------------------
(***************************************************************************)
(* The promise to the caller: the bridge implements CallDelivery.          *)
(***************************************************************************)
(* A call waits for an answer only once its frame was written.               *)
PendingSent == \A c \in Calls : pc[c] = "pending" => remote[c] # "none"

(* A frame's way is one way, and a call becomes pending by being sent.       *)
LEMMA PendingSentStep == TypeOK /\ PendingSent /\ Next => PendingSent'
<1> SUFFICES ASSUME TypeOK, PendingSent, Next PROVE PendingSent'
  OBVIOUS
<1> USE DEF PendingSent, TypeOK
<1>1. ASSUME UNCHANGED wireVars, \A c \in Calls : pc'[c] = "pending" => pc[c] = "pending"
      PROVE  PendingSent'
  BY <1>1 DEF wireVars
<1>2. ASSUME NEW joining \in SUBSET Calls, NEW next \in {"idle", "failed", "connecting"},
             CloseSocket(joining, next), UNCHANGED wireVars
      PROVE  PendingSent'
  BY <1>1, <1>2 DEF CloseSocket
<1>3. ASSUME NEW recorded \in BOOLEAN, NEW joining \in SUBSET Calls,
             Connect(recorded, joining)
      PROVE  PendingSent'
  BY <1>2, <1>3 DEF Connect, Dial
<1>4. ASSUME NEW c \in Calls, Send(c)
      PROVE  PendingSent'
  BY <1>4 DEF Send
<1>5. ASSUME NEW c \in Calls, Call(c) \/ Resume(c)
      PROVE  PendingSent'
  BY <1>1, <1>3, <1>4, <1>5 DEF Call, Resume
<1>6. ASSUME NEW c \in Calls,
             ConnectFailed(c) \/ WaitSeesEditor(c) \/ WaitRunsOut(c) \/ TimesOut(c)
      PROVE  PendingSent'
  BY <1>1, <1>6 DEF ConnectFailed, WaitSeesEditor, WaitRunsOut, TimesOut
<1>7. ASSUME NEW c \in Calls, Reply(c) \/ SendFails(c) \/ EditorRuns(c)
      PROVE  PendingSent'
  BY <1>7 DEF Reply, SendFails, EditorRuns, clientVars, callVars
<1>8. ASSUME NEW s \in Sockets, SocketStep(s)
      PROVE  PendingSent'
  <2>1. UNCHANGED remote
    BY <1>8 DEF SocketStep, Opens, DialFails, HandshakeEnds, HandshakeLeaves,
                Closes, IsInstalled, wireVars
  <2>2. \A c \in Calls : pc'[c] = "pending" => pc[c] = "pending"
    BY <1>8 DEF SocketStep, Opens, DialFails, HandshakeEnds, HandshakeLeaves,
                Closes, IsInstalled, AttemptSettles
  <2> QED BY <2>1, <2>2
<1>9. ASSUME NEW s \in Sockets, PeerCloses(s)
      PROVE  PendingSent'
  BY <1>9 DEF PeerCloses, clientVars, callVars
<1>10. ASSUME NEW p \in Projects, SwitchProject(p)
       PROVE  PendingSent'
  BY <1>2, <1>10 DEF SwitchProject, Dial
<1>11. ASSUME NEW p \in Projects, EditorStarts(p) \/ EditorStops(p)
       PROVE  PendingSent'
  BY <1>11 DEF EditorStarts, EditorStops, clientVars, callVars
<1>12. CASE ConnectDirectly \/ PokeReconnect \/ Disconnect
  BY <1>2, <1>3, <1>12 DEF ConnectDirectly, PokeReconnect, Disconnect
<1> QED
  BY <1>5, <1>6, <1>7, <1>8, <1>9, <1>10, <1>11, <1>12 DEF Next, CallStep

(* What the steps of the bridge rest on to be steps of CallDelivery.         *)
DeliveryInv == CallInv /\ LateInv /\ PendingSent

(* DeliveryInv holds throughout. *)
LEMMA DeliveryInvariant == Spec => []DeliveryInv
<1>1. Init => LateInv /\ PendingSent
  BY DEF Init, LateInv, LateReplyIsReconciled, Remembers, PendingSent
<1>2. CallInv /\ LateInv /\ PendingSent /\ [Next]_vars => (LateInv /\ PendingSent)'
  <2> SUFFICES ASSUME CallInv, LateInv, PendingSent, [Next]_vars
               PROVE  (LateInv /\ PendingSent)'
    OBVIOUS
  <2>1. CASE Next
    BY <2>1, LateStep, PendingSentStep DEF CallInv, EditorInv
  <2>2. CASE UNCHANGED vars
    BY <2>2, LateKept DEF vars, callVars, wireVars, LateInv, PendingSent
  <2> QED BY <2>1, <2>2
<1> QED BY <1>1, <1>2, CallInvariant, PTL DEF Spec, DeliveryInv

(* The calls that a step gives up, if no frame moves, were all sent.         *)
GivesUp ==
  /\ UNCHANGED remote
  /\ \A c \in Calls :
       \/ outcome'[c] = outcome[c]
       \/ /\ outcome[c] = "none" /\ outcome'[c] \in {"lost", "timeout"}
          /\ remote[c] # "none"

(* One call's frame moves, or one call is answered.                          *)
Moves(c, here, there) ==
  /\ remote[c] = here /\ remote' = [remote EXCEPT ![c] = there]
  /\ \A d \in Calls : outcome'[d] = outcome[d]

Answers(c, how) ==
  /\ outcome[c] = "none" /\ outcome'[c] = how
  /\ \A d \in Calls \ {c} : outcome'[d] = outcome[d]

(* Giving up is a step of CallDelivery, or a stutter when nobody waited.     *)
LEMMA GivesUpMaps ==
  ASSUME TypeOK, GivesUp
  PROVE  [Delivery!DNext]_(Delivery!dvars)
<1> DEFINE S == {c \in Calls : outcome'[c] # outcome[c]}
<1>1. \A c \in Calls : Reached(c)' = Reached(c)
  BY DEF GivesUp, Reached
<1>2. \A c \in Calls : ToldOf(c)' = IF c \in S THEN "unknown" ELSE ToldOf(c)
  <2> SUFFICES ASSUME NEW c \in Calls
               PROVE  ToldOf(c)' = IF c \in S THEN "unknown" ELSE ToldOf(c)
    OBVIOUS
  <2>1. CASE outcome'[c] = outcome[c]
    BY <2>1 DEF ToldOf, TypeOK
  <2>2. CASE outcome'[c] # outcome[c]
    <3>1. outcome'[c] \in {"lost", "timeout"}
      BY <2>2 DEF GivesUp
    <3> QED BY <2>2, <3>1 DEF ToldOf
  <2> QED BY <2>1, <2>2
<1>3. \A c \in S : Reached(c) \in {"sent", "run"} /\ ToldOf(c) = "none"
  BY DEF GivesUp, Reached, ToldOf, TypeOK
<1> HIDE DEF S
<1>4. S \in SUBSET Calls
  BY DEF S
<1>5. Delivery!Lose(S)
  BY <1>1, <1>2, <1>3, <1>4 DEF Delivery!Lose, Delivery!Settle
<1> QED BY <1>4, <1>5 DEF Delivery!DNext

(* So are a frame that moves on its way and a call that is answered for it.  *)
LEMMA OneCallMaps ==
  ASSUME TypeOK, NEW c \in Calls,
         \/ Moves(c, "none", "sent") /\ outcome[c] = "none"
         \/ Moves(c, "sent", "run")
         \/ Answers(c, "not_connected") /\ remote[c] = "none" /\ UNCHANGED remote
         \/ /\ Answers(c, "result") /\ remote[c] = "run"
            /\ remote' = [remote EXCEPT ![c] = "replied"]
  PROVE  [Delivery!DNext]_(Delivery!dvars)
<1> DEFINE re == [d \in Calls |-> Reached(d)]
           told == [d \in Calls |-> ToldOf(d)]
<1>1. ASSUME NEW from \in {"none", "sent", "run"}, NEW next \in {"sent", "run", "replied"},
             remote[c] = from, remote' = [remote EXCEPT ![c] = next]
      PROVE  re' = [re EXCEPT ![c] = IF next = "sent" THEN "sent" ELSE "run"]
  <2>1. \A d \in Calls \ {c} : Reached(d)' = Reached(d)
    BY <1>1 DEF Reached, TypeOK
  <2>2. Reached(c)' = IF next = "sent" THEN "sent" ELSE "run"
    BY <1>1 DEF Reached, TypeOK
  <2> QED BY <2>1, <2>2
<1>2. ASSUME \A d \in Calls : outcome'[d] = outcome[d]
      PROVE  told' = told
  BY <1>2 DEF ToldOf, TypeOK
<1>3. ASSUME NEW how \in {"not_connected", "result"}, Answers(c, how)
      PROVE  /\ ToldOf(c) = "none"
             /\ told' = [d \in Calls |-> IF d \in {c}
                                       THEN IF how = "result" THEN "result" ELSE "refused"
                                       ELSE told[d]]
  <2>1. \A d \in Calls \ {c} : ToldOf(d)' = ToldOf(d)
    BY <1>3 DEF Answers, ToldOf
  <2>2. ToldOf(c) = "none" /\ ToldOf(c)' = IF how = "result" THEN "result" ELSE "refused"
    BY <1>3 DEF Answers, ToldOf
  <2> QED BY <2>1, <2>2
<1>4. CASE Moves(c, "none", "sent") /\ outcome[c] = "none"
  <2>1. re' = [re EXCEPT ![c] = "sent"] /\ told' = told
    BY <1>1, <1>2, <1>4 DEF Moves
  <2>2. re[c] = "kept" /\ told[c] = "none"
    BY <1>4 DEF Moves, Reached, ToldOf
  <2>3. Delivery!Send({c})
    BY <2>1, <2>2 DEF Delivery!Send
  <2> QED BY <2>3 DEF Delivery!DNext
<1>5. CASE Moves(c, "sent", "run")
  <2>1. re' = [re EXCEPT ![c] = "run"] /\ told' = told
    BY <1>1, <1>2, <1>5 DEF Moves
  <2>2. re[c] = "sent"
    BY <1>5 DEF Moves, Reached
  <2>3. Delivery!Run(c)
    BY <2>1, <2>2 DEF Delivery!Run
  <2> QED BY <2>3 DEF Delivery!DNext
<1>6. CASE Answers(c, "not_connected") /\ remote[c] = "none" /\ UNCHANGED remote
  <2>1. re' = re /\ re[c] = "kept"
    BY <1>6 DEF Reached
  <2>2. Delivery!Refuse(c)
    BY <1>3, <1>6, <2>1 DEF Delivery!Refuse, Delivery!Settle
  <2> QED BY <2>2 DEF Delivery!DNext
<1>7. CASE /\ Answers(c, "result") /\ remote[c] = "run"
           /\ remote' = [remote EXCEPT ![c] = "replied"]
  <2>1. re[c] = "run"
    BY <1>7 DEF Reached
  <2>2. re' = re
    BY <1>1, <1>7, <2>1
  <2>3. Delivery!Return(c)
    BY <1>3, <1>7, <2>1, <2>2 DEF Delivery!Return, Delivery!Settle
  <2> QED BY <2>3 DEF Delivery!DNext
<1> QED BY <1>4, <1>5, <1>6, <1>7

(* A late reply changes nothing that CallDelivery tells apart.               *)
LEMMA LateReplyMaps ==
  ASSUME TypeOK, NEW c \in Calls, remote[c] = "run",
         remote' = [remote EXCEPT ![c] = "replied"], UNCHANGED outcome
  PROVE  [Delivery!DNext]_(Delivery!dvars)
<1>1. \A d \in Calls : Reached(d)' = Reached(d) /\ ToldOf(d)' = ToldOf(d)
  BY DEF Reached, ToldOf, TypeOK
<1> QED BY <1>1 DEF Delivery!dvars

(* closeSocket gives up the pending calls.                                   *)
LEMMA CloseGivesUp ==
  ASSUME DeliveryInv, NEW joining \in SUBSET Calls,
         NEW next \in {"idle", "failed", "connecting"},
         CloseSocket(joining, next), UNCHANGED wireVars
  PROVE  GivesUp
BY DEF DeliveryInv, LateInv, PendingSent, CloseSocket, Settle, Pending, GivesUp, wireVars

(* Writing a frame sends the call.                                           *)
LEMMA SendMaps ==
  ASSUME DeliveryInv, NEW c \in Calls, pc[c] \in {"idle", "resumed"}, Send(c)
  PROVE  Moves(c, "none", "sent") /\ outcome[c] = "none"
BY DEF DeliveryInv, CallInv, SentInv, LateInv, Unsent, Send, Moves

(* Each step of the bridge is a step of CallDelivery or a stutter.           *)
LEMMA DeliveryStep ==
  ASSUME DeliveryInv, Next
  PROVE  [Delivery!DNext]_(Delivery!dvars)
<1>0. TypeOK /\ SentInv /\ LateInv /\ PendingSent
  BY DEF DeliveryInv, CallInv, EditorInv
<1>a. ASSUME UNCHANGED <<outcome, remote>>
      PROVE  GivesUp
  BY <1>a DEF GivesUp
<1>b. ASSUME NEW recorded \in BOOLEAN, NEW joining \in SUBSET Calls,
             Connect(recorded, joining)
      PROVE  GivesUp
  BY <1>b, CloseGivesUp DEF Connect, Dial
<1>1. ASSUME NEW c \in Calls, Call(c)
      PROVE  [Delivery!DNext]_(Delivery!dvars)
  <2>1. pc[c] = "idle"
    BY <1>1 DEF Call
  <2>2. CASE Send(c)
    BY <1>0, <2>1, <2>2, SendMaps, OneCallMaps
  <2>3. CASE Connect(TRUE, {c})
    BY <1>0, <1>b, <2>3, GivesUpMaps
  <2>4. CASE UNCHANGED <<outcome, wireVars>>
    BY <1>0, <1>a, <2>4, GivesUpMaps DEF wireVars
  <2> QED BY <1>1, <2>2, <2>3, <2>4 DEF Call
<1>2. ASSUME NEW c \in Calls, Resume(c) \/ ConnectFailed(c) \/ WaitSeesEditor(c) \/ WaitRunsOut(c)
      PROVE  [Delivery!DNext]_(Delivery!dvars)
  <2>1. pc[c] \in {"resumed", "failed", "waiting"}
    BY <1>2 DEF Resume, ConnectFailed, WaitSeesEditor, WaitRunsOut
  <2>2. outcome[c] = "none" /\ remote[c] = "none"
    BY <1>0, <2>1 DEF SentInv, Unsent, LateInv
  <2>3. CASE Resume(c) /\ isConnected
    BY <1>0, <2>3, SendMaps, OneCallMaps DEF Resume
  <2>4. CASE UNCHANGED wireVars /\ Settle({c}, "not_connected")
    <3>1. Answers(c, "not_connected") /\ UNCHANGED remote
      BY <2>2, <2>4 DEF Settle, Answers, wireVars
    <3> QED BY <1>0, <2>2, <3>1, OneCallMaps
  <2>5. CASE UNCHANGED wireVars /\ (UNCHANGED outcome \/ Settle({}, "not_connected"))
    <3>1. GivesUp
      BY <2>5 DEF Settle, GivesUp, wireVars
    <3> QED BY <1>0, <3>1, GivesUpMaps
  <2> QED BY <1>2, <2>3, <2>4, <2>5 DEF Resume, ConnectFailed, WaitSeesEditor, WaitRunsOut
<1>3. ASSUME NEW c \in Calls, Reply(c)
      PROVE  [Delivery!DNext]_(Delivery!dvars)
  <2>1. remote[c] = "run" /\ remote' = [remote EXCEPT ![c] = "replied"]
    BY <1>3 DEF Reply
  <2>2. CASE pc[c] = "pending"
    <3>1. Answers(c, "result")
      BY <1>0, <1>3, <2>2 DEF Reply, Settle, Answers, LateInv
    <3> QED BY <1>0, <2>1, <3>1, OneCallMaps
  <2>3. CASE pc[c] # "pending"
    BY <1>0, <1>3, <2>1, <2>3, LateReplyMaps DEF Reply, callVars
  <2> QED BY <2>2, <2>3
<1>4. ASSUME NEW c \in Calls, TimesOut(c) \/ SendFails(c)
      PROVE  [Delivery!DNext]_(Delivery!dvars)
  <2>1. UNCHANGED remote
    BY <1>4 DEF TimesOut, SendFails, wireVars
  <2>2. \/ UNCHANGED outcome
        \/ /\ pc[c] = "pending"
           /\ \A d \in Calls \ {c} : outcome'[d] = outcome[d]
           /\ outcome'[c] \in {"lost", "timeout"}
    BY <1>0, <1>4, FailedSendSettles DEF TimesOut, Settle, callVars, TypeOK
  <2>3. GivesUp
    BY <1>0, <2>1, <2>2 DEF GivesUp, LateInv, PendingSent
  <2> QED BY <1>0, <2>3, GivesUpMaps
<1>5. ASSUME NEW c \in Calls, EditorRuns(c)
      PROVE  [Delivery!DNext]_(Delivery!dvars)
  <2>1. PICK p \in Projects : <<c, p>> \in frames
    BY <1>5 DEF EditorRuns
  <2>2. remote[c] = "sent"
    BY <1>0, <2>1 DEF SentInv
  <2>3. Moves(c, "sent", "run")
    BY <1>5, <2>2 DEF EditorRuns, clientVars, callVars, Moves
  <2> QED BY <1>0, <2>3, OneCallMaps
<1>6. ASSUME NEW s \in Sockets, SocketStep(s)
      PROVE  [Delivery!DNext]_(Delivery!dvars)
  <2>1. UNCHANGED remote
    BY <1>6 DEF SocketStep, Opens, DialFails, HandshakeEnds, HandshakeLeaves,
                Closes, IsInstalled, wireVars
  <2>2. UNCHANGED outcome \/ Settle(Pending, "lost")
    BY <1>6 DEF SocketStep, Opens, DialFails, HandshakeEnds, HandshakeLeaves,
                Closes, IsInstalled, LosesSocket
  <2>3. GivesUp
    BY <1>0, <2>1, <2>2 DEF GivesUp, Settle, Pending, LateInv, PendingSent
  <2> QED BY <1>0, <2>3, GivesUpMaps
<1>7. ASSUME NEW s \in Sockets, PeerCloses(s)
      PROVE  [Delivery!DNext]_(Delivery!dvars)
  BY <1>0, <1>a, <1>7, GivesUpMaps DEF PeerCloses, clientVars, callVars
<1>8. ASSUME NEW p \in Projects, SwitchProject(p)
      PROVE  [Delivery!DNext]_(Delivery!dvars)
  BY <1>0, <1>8, CloseGivesUp, GivesUpMaps DEF SwitchProject, Dial
<1>9. ASSUME NEW p \in Projects, EditorStarts(p) \/ EditorStops(p)
      PROVE  [Delivery!DNext]_(Delivery!dvars)
  BY <1>0, <1>a, <1>9, GivesUpMaps DEF EditorStarts, EditorStops, clientVars, callVars
<1>10. CASE ConnectDirectly \/ PokeReconnect \/ Disconnect
  BY <1>0, <1>b, <1>10, CloseGivesUp, GivesUpMaps DEF ConnectDirectly, PokeReconnect, Disconnect
<1> QED
  BY <1>1, <1>2, <1>3, <1>4, <1>5, <1>6, <1>7, <1>8, <1>9, <1>10 DEF Next, CallStep

(* The bridge keeps CallDelivery's promise for any calls, sockets, projects  *)
(* and history: results were computed, refused calls never reach an editor,  *)
(* only calls that were sent end as unknown, and no answer is taken back.    *)
THEOREM BridgeKeepsPromise == Spec => KeepsCallPromise
<1>1. Init => Delivery!DInit
  <2> SUFFICES ASSUME Init PROVE Delivery!DInit
    OBVIOUS
  <2>1. \A c \in Calls : Reached(c) = "kept" /\ ToldOf(c) = "none"
    BY DEF Init, Reached, ToldOf
  <2> QED BY <2>1 DEF Delivery!DInit
<1>2. DeliveryInv /\ [Next]_vars => [Delivery!DNext]_(Delivery!dvars)
  <2> SUFFICES ASSUME DeliveryInv, [Next]_vars PROVE [Delivery!DNext]_(Delivery!dvars)
    OBVIOUS
  <2>1. CASE Next
    BY <2>1, DeliveryStep
  <2>2. CASE UNCHANGED vars
    <3>1. GivesUp /\ TypeOK
      BY <2>2 DEF vars, callVars, wireVars, GivesUp, DeliveryInv, CallInv, EditorInv
    <3> QED BY <3>1, GivesUpMaps
  <2> QED BY <2>1, <2>2
<1> QED BY <1>1, <1>2, DeliveryInvariant, PTL DEF Spec, KeepsCallPromise, Delivery!DSpec

-----------------------------------------------------------------------------
(***************************************************************************)
(* What is lost, and with which socket.                                    *)
(***************************************************************************)
(* No open socket but the one in use: one that is replaced is being closed.  *)
OpenInv == \A s \in Sockets : link[s] = "open" => s = ws

(* Dialling severs the socket in use and puts none in its place.             *)
LEMMA DialSevers ==
  ASSUME EditorInv, OpenInv, NEW recorded \in BOOLEAN, NEW joining \in SUBSET Calls,
         Dial(recorded, joining)
  PROVE  ws' = NoSocket /\ \A s \in Sockets : link'[s] # "open"
<1> USE NoSocketAssumption DEF EditorInv, TypeOK
<1>1. CASE unverifiedPin'
  BY <1>1 DEF Dial, CloseSocket, Severed, OpenInv
<1>2. CASE ~unverifiedPin'
  <2>1. PICK s \in Sockets : /\ CloseSocket(joining, "connecting")
                             /\ link' = [Severed EXCEPT ![s] = "dialing"]
    BY <1>2 DEF Dial
  <2> QED BY <2>1 DEF CloseSocket, Severed, OpenInv
<1> QED BY <1>1, <1>2

(* What a step does to the sockets and to the calls that wait on them.       *)
GoesWithIt ==
  /\ OpenInv'
  /\ ws' # ws /\ ws # NoSocket => link'[ws] # "open"
  /\ \A c \in Pending :
       outcome'[c] = "lost" => on[c] = NoSocket \/ link'[on[c]] # "open"

(* With no socket open any more a step may lose whatever was pending.        *)
LEMMA AllGone ==
  ASSUME EditorInv, \A s \in Sockets : link'[s] # "open"
  PROVE  GoesWithIt
BY DEF GoesWithIt, EditorInv, TypeOK, OpenInv, Pending

(* A step that keeps the socket in use loses no call at all.                 *)
LEMMA NoneLost ==
  ASSUME EditorInv, LateInv, OpenInv', ws' = ws \/ ws = NoSocket,
         \A c \in Pending : outcome'[c] # outcome[c] => outcome'[c] # "lost"
  PROVE  GoesWithIt
BY DEF GoesWithIt, LateInv, Pending

(* Every step keeps OpenInv and loses a call only with its socket.           *)
LEMMA LossStep == EditorInv /\ LateInv /\ OpenInv /\ Next => GoesWithIt
<1> SUFFICES ASSUME EditorInv, LateInv, OpenInv, Next PROVE GoesWithIt
  OBVIOUS
<1> USE NoSocketAssumption DEF EditorInv, TypeOK
<1>a. ASSUME UNCHANGED socketVars,
             \A c \in Pending : outcome'[c] # outcome[c] => outcome'[c] # "lost"
      PROVE  GoesWithIt
  BY <1>a, NoneLost DEF socketVars, OpenInv
<1>1. ASSUME NEW c \in Calls, Call(c)
      PROVE  GoesWithIt
  <2>1. CASE Connect(TRUE, {c})
    BY <2>1, DialSevers, AllGone DEF Connect
  <2>2. CASE UNCHANGED <<socketVars, outcome>>
    BY <1>a, <2>2
  <2> QED BY <1>1, <2>1, <2>2 DEF Call, Send
<1>2. ASSUME NEW c \in Calls,
             \/ Resume(c) \/ ConnectFailed(c) \/ WaitSeesEditor(c)
             \/ WaitRunsOut(c) \/ Reply(c) \/ TimesOut(c)
      PROVE  GoesWithIt
  <2>1. UNCHANGED socketVars
    BY <1>2 DEF Resume, Send, ConnectFailed, WaitSeesEditor, WaitRunsOut, Reply,
                TimesOut
  <2>2. \A d \in Pending : outcome'[d] # outcome[d] => outcome'[d] # "lost"
    BY <1>2 DEF Resume, Send, ConnectFailed, WaitSeesEditor, WaitRunsOut, Reply,
                TimesOut, Settle, callVars, Pending
  <2> QED BY <1>a, <2>1, <2>2
<1>3. ASSUME NEW c \in Calls, SendFails(c)
      PROVE  GoesWithIt
  <2>1. CASE ws = on[c]
    <3>1. link' = Severed
      BY <1>3, <2>1 DEF SendFails
    <3>2. \A s \in Sockets : link'[s] # "open"
      BY <3>1 DEF Severed, OpenInv
    <3> QED BY <3>2, AllGone
  <2>2. CASE ws # on[c]
    <3>1. UNCHANGED <<link, ws>> /\ on[c] \in Sockets
      BY <1>3, <2>2 DEF SendFails
    <3>2. \A d \in Calls \ {c} : outcome'[d] = outcome[d]
      BY <1>3, FailedSendSettles DEF callVars
    <3>3. link'[on[c]] # "open"
      BY <2>2, <3>1 DEF OpenInv
    <3>4. \A d \in Pending : outcome[d] = "none"
      BY DEF Pending, LateInv
    <3> QED BY <3>1, <3>2, <3>3, <3>4 DEF GoesWithIt, OpenInv, Pending
  <2> QED BY <2>1, <2>2
<1>4. ASSUME NEW s \in Sockets, Opens(s)
      PROVE  GoesWithIt
  <2>1. UNCHANGED outcome
    BY <1>4 DEF Opens
  <2>2. CASE s \in fresh
    <3>1. ws = NoSocket /\ ws' = s /\ link' = [link EXCEPT ![s] = "open"]
      BY <1>4, <2>2 DEF Opens, Installs, TargetInv
    <3> QED BY <2>1, <3>1, NoneLost DEF OpenInv
  <2>3. CASE s \notin fresh
    <3>1. ws' = ws /\ link' = [link EXCEPT ![s] = "closing"]
      BY <1>4, <2>3 DEF Opens, Installs
    <3> QED BY <2>1, <3>1, NoneLost DEF OpenInv
  <2> QED BY <2>2, <2>3
<1>5. ASSUME NEW s \in Sockets, DialFails(s) \/ HandshakeEnds(s) \/ PeerCloses(s)
      PROVE  GoesWithIt
  <2>1. UNCHANGED <<outcome, ws>> /\ \A t \in Sockets : link'[t] = "open" => link[t] = "open"
    BY <1>5 DEF DialFails, Free, HandshakeEnds, PeerCloses, clientVars, callVars
  <2> QED BY <2>1, NoneLost DEF OpenInv
<1>6. ASSUME NEW s \in Sockets, Closes(s)
      PROVE  GoesWithIt
  <2>1. link[s] = "closing" /\ link' = [link EXCEPT ![s] = "free"]
    BY <1>6 DEF Closes, Free
  <2>2. CASE ws = s
    <3>1. \A t \in Sockets : link'[t] # "open"
      BY <2>1, <2>2 DEF OpenInv
    <3> QED BY <3>1, AllGone
  <2>3. CASE ws # s
    BY <1>6, <2>1, <2>3, NoneLost DEF Closes, LosesSocket, IsInstalled, OpenInv
  <2> QED BY <2>2, <2>3
<1>7. ASSUME NEW c \in Calls, EditorRuns(c)
      PROVE  GoesWithIt
  BY <1>7, NoneLost DEF EditorRuns, clientVars, callVars, OpenInv
<1>8. ASSUME NEW p \in Projects, EditorStarts(p) \/ EditorStops(p)
      PROVE  GoesWithIt
  <2>1. UNCHANGED <<outcome, ws>> /\ \A t \in Sockets : link'[t] = "open" => link[t] = "open"
    BY <1>8 DEF EditorStarts, EditorStops, clientVars, callVars
  <2> QED BY <2>1, NoneLost DEF OpenInv
<1>9. ASSUME NEW p \in Projects, SwitchProject(p)
      PROVE  GoesWithIt
  BY <1>9, DialSevers, AllGone DEF SwitchProject
<1>10. CASE ConnectDirectly \/ PokeReconnect
  BY <1>10, DialSevers, AllGone DEF ConnectDirectly, PokeReconnect, Connect
<1>11. CASE Disconnect
  <2>1. link' = Severed
    BY <1>11 DEF Disconnect
  <2>2. \A s \in Sockets : link'[s] # "open"
    BY <2>1 DEF Severed, OpenInv
  <2> QED BY <2>2, AllGone
<1> QED
  BY <1>1, <1>2, <1>3, <1>4, <1>5, <1>6, <1>7, <1>8, <1>9, <1>10, <1>11
     DEF Next, CallStep, SocketStep

(* For any calls, sockets and projects a socket in use stays in use until it *)
(* is closed, and no call is told "lost" while its socket lives: late events *)
(* of a replaced socket take nothing from its successor.                     *)
THEOREM LossesAreReal == Spec => LostWithItsSocket
<1>1. Init => OpenInv
  BY DEF Init, OpenInv
<1>2. DeliveryInv /\ OpenInv /\ [Next]_vars => OpenInv' /\ [GoesWithIt]_vars
  <2> SUFFICES ASSUME DeliveryInv, OpenInv, [Next]_vars
               PROVE  OpenInv' /\ [GoesWithIt]_vars
    OBVIOUS
  <2>1. CASE Next
    BY <2>1, LossStep DEF DeliveryInv, CallInv, GoesWithIt
  <2>2. CASE UNCHANGED vars
    BY <2>2 DEF vars, socketVars, OpenInv
  <2> QED BY <2>1, <2>2
<1>3. [GoesWithIt]_vars =>
        [/\ ws' # ws /\ ws # NoSocket => link'[ws] # "open"
         /\ \A c \in Pending :
              outcome'[c] = "lost" => on[c] = NoSocket \/ link'[on[c]] # "open"]_vars
  BY DEF GoesWithIt
<1> QED BY <1>1, <1>2, <1>3, DeliveryInvariant, PTL DEF Spec, LostWithItsSocket

-----------------------------------------------------------------------------
(***************************************************************************)
(* What CallSettles rests on: a call moves in one direction only, and an   *)
(* attempt that calls wait for is one that a timer or an event will end.   *)
(***************************************************************************)
(* A handshake is under way on a socket that was opened; the attempt that    *)
(* ensureConnected joins is being dialled or shaking hands; and no call      *)
(* waits for an attempt that is over.                                        *)
AttemptIsUnderWay ==
  /\ \A s \in shaking : link[s] \in {"open", "closing"}
  /\ inFlight # NoSocket => link[inFlight] = "dialing" \/ inFlight \in shaking
  /\ \A c \in Calls : pc[c] = "connecting" => inFlight # NoSocket

(* The settling of an attempt takes its calls with it.                       *)
LEMMA SettlingFrees ==
  ASSUME TypeOK, AttemptIsUnderWay, NEW s \in Sockets, NEW next \in {"failed", "resumed"},
         NEW woken, AttemptSettles(s, next, woken)
  PROVE  /\ inFlight' # NoSocket => inFlight' = inFlight /\ inFlight # s
         /\ \A c \in Calls : pc'[c] = "connecting" => inFlight' # NoSocket
BY NoSocketAssumption DEF AttemptIsUnderWay, AttemptSettles, Joined, TypeOK

(* Dialling replaces the attempt that is joined or leaves it alone.          *)
LEMMA DialKeepsAttempt ==
  ASSUME EditorInv, AttemptIsUnderWay, UNCHANGED shaking, NEW recorded \in BOOLEAN,
         NEW joining \in SUBSET Calls, recorded \/ joining = {}, Dial(recorded, joining)
  PROVE  AttemptIsUnderWay'
<1> USE NoSocketAssumption DEF EditorInv, TypeOK
<1>1. \A t \in Sockets : Severed[t] = link[t] \/ (Severed[t] = "closing" /\ link[t] \in {"open", "closing"})
  BY DEF Severed, TargetInv
<1>2. CASE unverifiedPin'
  <2>1. /\ link' = Severed /\ inFlight' = inFlight
        /\ \A c \in Calls : pc'[c] = "connecting" => pc[c] = "connecting"
    BY <1>2 DEF Dial, CloseSocket
  <2> QED BY <1>1, <2>1 DEF AttemptIsUnderWay
<1>3. CASE ~unverifiedPin'
  <2>1. PICK s \in Sockets :
          /\ link[s] = "free"
          /\ CloseSocket(joining, "connecting")
          /\ link' = [Severed EXCEPT ![s] = "dialing"]
          /\ inFlight' = IF recorded THEN s ELSE inFlight
    BY <1>3 DEF Dial
  <2>2. link'[s] = "dialing" /\ \A t \in Sockets \ {s} : link'[t] = Severed[t]
    BY <2>1 DEF Severed
  <2>3. s \notin shaking /\ (inFlight # NoSocket => inFlight # s)
    BY <2>1 DEF AttemptIsUnderWay
  <2>4. \A t \in shaking' : link'[t] \in {"open", "closing"}
    BY <1>1, <2>2, <2>3 DEF AttemptIsUnderWay
  <2>5. inFlight' # NoSocket => link'[inFlight'] = "dialing" \/ inFlight' \in shaking'
    BY <1>1, <2>1, <2>2, <2>3 DEF AttemptIsUnderWay
  <2>6. ASSUME NEW c \in Calls, pc'[c] = "connecting" PROVE inFlight' # NoSocket
    BY <2>1, <2>6 DEF CloseSocket, AttemptIsUnderWay
  <2> QED BY <2>4, <2>5, <2>6 DEF AttemptIsUnderWay
<1> QED BY <1>2, <1>3

(* Every step keeps the attempt that calls wait for under way.               *)
LEMMA AttemptStep == EditorInv /\ AttemptIsUnderWay /\ Next => AttemptIsUnderWay'
<1> SUFFICES ASSUME EditorInv, AttemptIsUnderWay, Next PROVE AttemptIsUnderWay'
  OBVIOUS
<1> USE NoSocketAssumption DEF EditorInv, TypeOK
<1>1. ASSUME UNCHANGED socketVars,
             \A c \in Calls : pc'[c] = "connecting" => pc[c] = "connecting" \/ inFlight # NoSocket
      PROVE  AttemptIsUnderWay'
  BY <1>1 DEF AttemptIsUnderWay, socketVars
<1>2. ASSUME NEW recorded \in BOOLEAN, NEW joining \in SUBSET Calls,
             recorded \/ joining = {}, Connect(recorded, joining)
      PROVE  AttemptIsUnderWay'
  BY <1>2, DialKeepsAttempt DEF Connect
<1>3. ASSUME NEW c \in Calls, Call(c)
      PROVE  AttemptIsUnderWay'
  <2>1. CASE Send(c)
    BY <1>1, <2>1 DEF Send
  <2>2. CASE Connect(TRUE, {c})
    BY <1>2, <2>2
  <2>3. CASE /\ inFlight # NoSocket /\ pc' = [pc EXCEPT ![c] = "connecting"]
             /\ UNCHANGED socketVars
    BY <1>1, <2>3
  <2> QED BY <1>3, <2>1, <2>2, <2>3 DEF Call
<1>4. ASSUME NEW c \in Calls,
             \/ Resume(c) \/ ConnectFailed(c) \/ WaitSeesEditor(c)
             \/ WaitRunsOut(c) \/ Reply(c) \/ TimesOut(c)
      PROVE  AttemptIsUnderWay'
  <2>1. UNCHANGED socketVars
    BY <1>4 DEF Resume, Send, ConnectFailed, WaitSeesEditor, WaitRunsOut, Reply, TimesOut
  <2>2. \A d \in Calls : pc'[d] = "connecting" => pc[d] = "connecting"
    BY <1>4 DEF Resume, Send, ConnectFailed, WaitSeesEditor, WaitRunsOut, Reply, TimesOut,
                callVars
  <2> QED BY <1>1, <2>1, <2>2
<1>5. ASSUME NEW c \in Calls, SendFails(c)
      PROVE  AttemptIsUnderWay'
  BY <1>5 DEF SendFails, Severed, AttemptIsUnderWay, TargetInv
<1>6. ASSUME NEW c \in Calls, EditorRuns(c)
      PROVE  AttemptIsUnderWay'
  BY <1>6 DEF EditorRuns, clientVars, callVars, AttemptIsUnderWay
<1>7. ASSUME NEW s \in Sockets, Opens(s)
      PROVE  AttemptIsUnderWay'
  <2>1. link[s] = "dialing" /\ s \notin shaking
    BY <1>7 DEF Opens, AttemptIsUnderWay
  <2>2. CASE Installs(s)
    BY <1>7, <2>1, <2>2 DEF Opens, AttemptIsUnderWay
  <2>3. CASE ~Installs(s)
    <3>1. /\ link' = [link EXCEPT ![s] = "closing"] /\ shaking' = shaking
          /\ AttemptSettles(s, "failed", {})
      BY <1>7, <2>3 DEF Opens
    <3> QED BY <2>1, <3>1, SettlingFrees DEF AttemptIsUnderWay
  <2> QED BY <2>2, <2>3
<1>8. ASSUME NEW s \in Sockets, DialFails(s)
      PROVE  AttemptIsUnderWay'
  <2>1. link[s] = "dialing" /\ s \notin shaking
    BY <1>8 DEF DialFails, AttemptIsUnderWay
  <2>2. /\ link' = [link EXCEPT ![s] = "free"] /\ shaking' = shaking
        /\ AttemptSettles(s, "failed", {})
    BY <1>8 DEF DialFails, Free
  <2> QED BY <2>1, <2>2, SettlingFrees DEF AttemptIsUnderWay
<1>9. ASSUME NEW s \in Sockets, HandshakeEnds(s)
      PROVE  AttemptIsUnderWay'
  <2>1. /\ link' = link /\ shaking' = shaking \ {s}
        /\ AttemptSettles(s, "resumed", Woken(connectedState))
    BY <1>9 DEF HandshakeEnds, HandshakeLeaves
  <2> QED BY <2>1, SettlingFrees DEF AttemptIsUnderWay
<1>10. ASSUME NEW s \in Sockets, Closes(s)
       PROVE  AttemptIsUnderWay'
  <2>1. /\ link[s] = "closing" /\ link' = [link EXCEPT ![s] = "free"]
        /\ shaking' = shaking \ {s}
        /\ inFlight' = IF s \in shaking /\ inFlight = s THEN NoSocket ELSE inFlight
    BY <1>10 DEF Closes, IsInstalled, Free
  <2>2. \A c \in Calls : pc'[c] = "connecting" =>
          pc[c] = "connecting" /\ ~(s \in shaking /\ inFlight = s)
    BY <1>10 DEF Closes, IsInstalled, Joined
  <2> QED BY <2>1, <2>2 DEF AttemptIsUnderWay
<1>11. ASSUME NEW s \in Sockets, PeerCloses(s)
       PROVE  AttemptIsUnderWay'
  BY <1>11 DEF PeerCloses, clientVars, callVars, AttemptIsUnderWay
<1>12. ASSUME NEW p \in Projects, SwitchProject(p)
       PROVE  AttemptIsUnderWay'
  BY <1>12, DialKeepsAttempt DEF SwitchProject
<1>13. ASSUME NEW p \in Projects, EditorStarts(p) \/ EditorStops(p)
       PROVE  AttemptIsUnderWay'
  BY <1>13 DEF EditorStarts, EditorStops, clientVars, callVars, AttemptIsUnderWay
<1>14. CASE ConnectDirectly \/ PokeReconnect
  BY <1>2, <1>14 DEF ConnectDirectly, PokeReconnect
<1>15. CASE Disconnect
  BY <1>15 DEF Disconnect, CloseSocket, Severed, AttemptIsUnderWay, TargetInv
<1> QED
  BY <1>3, <1>4, <1>5, <1>6, <1>7, <1>8, <1>9, <1>10, <1>11, <1>12, <1>13, <1>14,
     <1>15 DEF Next, CallStep, SocketStep

(* A call that waits for a connection waits for an attempt that is being     *)
(* dialled or shaking hands, which its timer ends: no switch, disconnect or  *)
(* late close leaves it waiting for an attempt that is already over.         *)
THEOREM NoCallIsStranded == Spec => []AttemptIsUnderWay
<1>1. Init => AttemptIsUnderWay
  BY DEF Init, AttemptIsUnderWay
<1>2. EditorInv /\ AttemptIsUnderWay /\ [Next]_vars => AttemptIsUnderWay'
  <2> SUFFICES ASSUME EditorInv, AttemptIsUnderWay, [Next]_vars
               PROVE  AttemptIsUnderWay'
    OBVIOUS
  <2>1. CASE Next
    BY <2>1, AttemptStep
  <2>2. CASE UNCHANGED vars
    BY <2>2 DEF vars, socketVars, callVars, AttemptIsUnderWay
  <2> QED BY <2>1, <2>2
<1> QED BY <1>1, <1>2, EditorInvariant, PTL DEF Spec

(* The ways from one place of a call to the next; they lead in no circle.    *)
Onward ==
  {<<"idle", "connecting">>, <<"idle", "failed">>, <<"idle", "pending">>,
   <<"connecting", "failed">>, <<"connecting", "resumed">>,
   <<"failed", "waiting">>, <<"failed", "resumed">>, <<"failed", "settled">>,
   <<"waiting", "resumed">>, <<"waiting", "settled">>,
   <<"resumed", "pending">>, <<"resumed", "settled">>,
   <<"pending", "settled">>}

GoesOnward(c) == pc'[c] = pc[c] \/ <<pc[c], pc'[c]>> \in Onward

(* closeSocket settles what is pending, and moves the call that dials.       *)
LEMMA CloseGoesOnward ==
  ASSUME TypeOK, NEW joining \in SUBSET Calls, NEW next \in {"idle", "failed", "connecting"},
         joining = {} \/ (next # "idle" /\ \A c \in joining : pc[c] = "idle"),
         CloseSocket(joining, next)
  PROVE  \A c \in Calls : GoesOnward(c)
BY DEF CloseSocket, Pending, GoesOnward, Onward, TypeOK

(* Whatever a step does, every call stays where it is or goes onward.        *)
LEMMA OnwardStep ==
  ASSUME TypeOK, Next
  PROVE  \A c \in Calls : GoesOnward(c)
<1> USE DEF TypeOK, GoesOnward, Onward
<1>1. ASSUME NEW recorded \in BOOLEAN, NEW joining \in SUBSET Calls,
             \A c \in joining : pc[c] = "idle", Dial(recorded, joining)
      PROVE  \A c \in Calls : GoesOnward(c)
  <2>1. CloseSocket(joining, "failed") \/ CloseSocket(joining, "connecting")
    BY <1>1 DEF Dial
  <2> QED BY <1>1, <2>1, CloseGoesOnward
<1>2. ASSUME NEW c \in Calls, Call(c)
      PROVE  \A d \in Calls : GoesOnward(d)
  <2>1. pc[c] = "idle"
    BY <1>2 DEF Call
  <2>2. CASE Connect(TRUE, {c})
    BY <1>1, <2>1, <2>2 DEF Connect
  <2>3. CASE Send(c) \/ pc' = [pc EXCEPT ![c] = "connecting"]
    BY <2>1, <2>3 DEF Send
  <2> QED BY <1>2, <2>2, <2>3 DEF Call
<1>3. ASSUME NEW c \in Calls, Resume(c) \/ ConnectFailed(c) \/ WaitSeesEditor(c) \/ WaitRunsOut(c)
      PROVE  \A d \in Calls : GoesOnward(d)
  BY <1>3 DEF Resume, Send, ConnectFailed, WaitSeesEditor, WaitRunsOut
<1>4. ASSUME NEW c \in Calls, Reply(c) \/ TimesOut(c) \/ SendFails(c)
      PROVE  \A d \in Calls : GoesOnward(d)
  BY <1>4 DEF Reply, callVars, TimesOut, SendFails
<1>5. ASSUME NEW s \in Sockets, Opens(s) \/ DialFails(s) \/ HandshakeEnds(s)
      PROVE  \A d \in Calls : GoesOnward(d)
  BY <1>5 DEF Opens, DialFails, HandshakeEnds, HandshakeLeaves, AttemptSettles,
              Joined, Woken, Waiting
<1>6. ASSUME NEW s \in Sockets, Closes(s)
      PROVE  \A d \in Calls : GoesOnward(d)
  BY <1>6 DEF Closes, IsInstalled, Pending, Joined, Woken, Waiting
<1>7. ASSUME NEW c \in Calls, EditorRuns(c)
      PROVE  \A d \in Calls : GoesOnward(d)
  BY <1>7 DEF EditorRuns, clientVars, callVars
<1>8. ASSUME NEW s \in Sockets, PeerCloses(s)
      PROVE  \A d \in Calls : GoesOnward(d)
  BY <1>8 DEF PeerCloses, clientVars, callVars
<1>9. ASSUME NEW p \in Projects, SwitchProject(p) \/ EditorStarts(p) \/ EditorStops(p)
      PROVE  \A d \in Calls : GoesOnward(d)
  BY <1>1, <1>9 DEF SwitchProject, EditorStarts, EditorStops, clientVars, callVars
<1>10. CASE ConnectDirectly \/ PokeReconnect
  BY <1>1, <1>10 DEF ConnectDirectly, PokeReconnect, Connect
<1>11. CASE Disconnect
  BY <1>11, CloseGoesOnward DEF Disconnect
<1> QED
  BY <1>2, <1>3, <1>4, <1>5, <1>6, <1>7, <1>8, <1>9, <1>10, <1>11
     DEF Next, CallStep, SocketStep

(* A call takes six steps at most, whatever the editors, the sockets and the *)
(* other calls do: no reconnect, switch or loss puts it back.                *)
THEOREM CallsOnlyAdvance == Spec => [][\A c \in Calls : GoesOnward(c)]_vars
<1>1. TypeOK /\ [Next]_vars => [\A c \in Calls : GoesOnward(c)]_vars
  BY OnwardStep
<1> QED BY <1>1, TypeCorrect, PTL DEF Spec
-----------------------------------------------------------------------------
(***************************************************************************)
(* The finding on StaysOnItsProject, isolated: the one way for a call to   *)
(* reach another project's editor is a switch while it is on its way.      *)
(***************************************************************************)
OnItsWay(c) == pc[c] \in {"connecting", "failed", "waiting", "resumed"}

(* No project is entered between the entry of a call and its ws.send.        *)
NoSwitchMeanwhile == (\E c \in Calls : OnItsWay(c)) => UNCHANGED project

(* Then a call that is on its way is one for the project of the moment.      *)
ProjectInv ==
  /\ \A c \in Calls : OnItsWay(c) => issuedFor[c] = project
  /\ StaysOnItsProject

(* A frame is written to the editor of the project that the call is for.     *)
LEMMA SendStays ==
  ASSUME EditorInv, ProjectInv, NEW c \in Calls, isConnected, Send(c),
         issuedFor'[c] = project, \A d \in Calls \ {c} : issuedFor'[d] = issuedFor[d],
         \A f \in frames : f[1] # c
  PROVE  ProjectInv'
<1>1. /\ pc' = [pc EXCEPT ![c] = "pending"] /\ project' = project
      /\ frames' = frames \cup {<<c, to[ws]>>}
  BY DEF Send, targetVars
<1>2. to[ws] = project
  BY DEF isConnected, EditorInv, TargetInv
<1>3. \A d \in Calls : OnItsWay(d)' => d # c /\ OnItsWay(d)
  BY <1>1 DEF OnItsWay, EditorInv, TypeOK
<1>4. \A f \in frames' : f[2] = issuedFor'[f[1]]
  <2> SUFFICES ASSUME NEW f \in frames' PROVE f[2] = issuedFor'[f[1]]
    OBVIOUS
  <2>1. CASE f \in frames
    <3>1. f[1] \in Calls \ {c}
      BY <2>1 DEF EditorInv, TypeOK
    <3> QED BY <2>1, <3>1 DEF ProjectInv, StaysOnItsProject
  <2>2. CASE f = <<c, to[ws]>>
    BY <1>2, <2>2
  <2> QED BY <1>1, <2>1, <2>2
<1> QED BY <1>1, <1>3, <1>4 DEF ProjectInv, StaysOnItsProject

(* With no switch meanwhile, every step keeps the calls on their project.    *)
LEMMA ProjectStep ==
  ASSUME CallInv, ProjectInv, NoSwitchMeanwhile, Next
  PROVE  ProjectInv'
<1> USE DEF CallInv, EditorInv
<1>0. \A c \in Calls : OnItsWay(c) => \A f \in frames : f[1] # c
  BY DEF SentInv, OnItsWay, Unsent
<1>1. ASSUME UNCHANGED <<project, issuedFor>>, frames' \subseteq frames,
             \A c \in Calls : OnItsWay(c)' => OnItsWay(c)
      PROVE  ProjectInv'
  BY <1>1 DEF ProjectInv, StaysOnItsProject
<1>2. ASSUME NEW joining \in SUBSET Calls, NEW next \in {"idle", "failed", "connecting"},
             joining = {} \/ (next # "idle" /\ \A c \in joining : pc[c] = "idle"),
             \A c \in joining : issuedFor'[c] = project',
             CloseSocket(joining, next), UNCHANGED frames,
             \A c \in Calls \ joining : issuedFor'[c] = issuedFor[c],
             \A c \in joining : \A f \in frames : f[1] # c
      PROVE  ProjectInv'
  <2>1. \A c \in Calls : OnItsWay(c)' => OnItsWay(c) \/ c \in joining
    BY <1>2 DEF CloseSocket, OnItsWay, TypeOK
  <2>2. \A c \in Calls : OnItsWay(c)' => issuedFor'[c] = project'
    BY <1>2, <2>1 DEF ProjectInv, NoSwitchMeanwhile
  <2>3. \A f \in frames : f[1] \in Calls \ joining
    BY <1>2 DEF TypeOK
  <2> QED BY <1>2, <2>2, <2>3 DEF ProjectInv, StaysOnItsProject
<1>3. ASSUME NEW recorded \in BOOLEAN, Connect(recorded, {}), UNCHANGED issuedFor
      PROVE  ProjectInv'
  <2>1. UNCHANGED frames /\ (CloseSocket({}, "failed") \/ CloseSocket({}, "connecting"))
    BY <1>3 DEF Connect, Dial, wireVars
  <2> QED BY <1>2, <1>3, <2>1
<1>4. ASSUME NEW c \in Calls, Call(c)
      PROVE  ProjectInv'
  <2>1. pc[c] = "idle" /\ issuedFor' = [issuedFor EXCEPT ![c] = project]
        /\ \A f \in frames : f[1] # c
    BY <1>4 DEF Call, SentInv, Unsent
  <2>2. issuedFor'[c] = project /\ \A d \in Calls \ {c} : issuedFor'[d] = issuedFor[d]
    BY <2>1 DEF TypeOK
  <2>3. CASE isConnected /\ Send(c)
    BY <2>1, <2>2, <2>3, SendStays
  <2>4. CASE Connect(TRUE, {c})
    <3>1. /\ UNCHANGED <<frames, project>>
          /\ CloseSocket({c}, "failed") \/ CloseSocket({c}, "connecting")
      BY <2>4 DEF Connect, Target, Dial, wireVars
    <3> QED BY <1>2, <2>1, <2>2, <3>1
  <2>5. CASE /\ pc' = [pc EXCEPT ![c] = "connecting"]
             /\ UNCHANGED <<targetVars, wireVars>>
    <3>1. UNCHANGED <<project, frames>>
      BY <2>5 DEF targetVars, wireVars
    <3>2. \A d \in Calls : OnItsWay(d)' => d = c \/ OnItsWay(d)
      BY <2>5 DEF OnItsWay, TypeOK
    <3>3. \A f \in frames : f[1] \in Calls \ {c}
      BY <2>1 DEF TypeOK
    <3> QED BY <2>2, <3>1, <3>2, <3>3 DEF ProjectInv, StaysOnItsProject
  <2> QED BY <1>4, <2>3, <2>4, <2>5 DEF Call
<1>5. ASSUME NEW c \in Calls, Resume(c)
      PROVE  ProjectInv'
  <2>1. OnItsWay(c) /\ UNCHANGED issuedFor
    BY <1>5 DEF Resume, OnItsWay
  <2>2. CASE isConnected
    BY <1>0, <1>5, <2>1, <2>2, SendStays DEF Resume, ProjectInv
  <2>3. CASE ~isConnected
    BY <1>1, <1>5, <2>1, <2>3 DEF Resume, OnItsWay, targetVars, wireVars, TypeOK
  <2> QED BY <2>2, <2>3
<1>6. ASSUME NEW c \in Calls, ConnectFailed(c) \/ WaitSeesEditor(c) \/ WaitRunsOut(c)
      PROVE  ProjectInv'
  <2>1. UNCHANGED <<project, issuedFor, frames>>
    BY <1>6 DEF ConnectFailed, WaitSeesEditor, WaitRunsOut, targetVars, wireVars
  <2>2. \A d \in Calls : OnItsWay(d)' => OnItsWay(d)
    BY <1>6 DEF ConnectFailed, WaitSeesEditor, WaitRunsOut, OnItsWay, TypeOK
  <2> QED BY <1>1, <2>1, <2>2
<1>7. ASSUME NEW c \in Calls, Reply(c) \/ TimesOut(c) \/ SendFails(c) \/ EditorRuns(c)
      PROVE  ProjectInv'
  <2>1. UNCHANGED <<project, issuedFor>> /\ frames' \subseteq frames
    BY <1>7 DEF Reply, TimesOut, SendFails, EditorRuns, clientVars, targetVars, wireVars
  <2>2. \A d \in Calls : OnItsWay(d)' => OnItsWay(d)
    BY <1>7 DEF Reply, TimesOut, SendFails, EditorRuns, clientVars, callVars, OnItsWay, TypeOK
  <2> QED BY <1>1, <2>1, <2>2
<1>8. ASSUME NEW s \in Sockets, SocketStep(s)
      PROVE  ProjectInv'
  <2>1. UNCHANGED <<project, issuedFor, frames>>
    BY <1>8 DEF SocketStep, Opens, DialFails, HandshakeEnds, HandshakeLeaves,
                Closes, IsInstalled, targetVars, wireVars
  <2>2. \A d \in Calls : OnItsWay(d)' => OnItsWay(d)
    BY <1>8 DEF SocketStep, Opens, DialFails, HandshakeEnds, HandshakeLeaves,
                Closes, IsInstalled, AttemptSettles,
                Joined, Woken, Waiting, OnItsWay, TypeOK
  <2> QED BY <1>1, <2>1, <2>2
<1>9. ASSUME NEW s \in Sockets, PeerCloses(s)
      PROVE  ProjectInv'
  BY <1>1, <1>9 DEF PeerCloses, clientVars, targetVars, callVars, OnItsWay
<1>10. ASSUME NEW p \in Projects, SwitchProject(p)
       PROVE  ProjectInv'
  <2>1. /\ UNCHANGED <<frames, issuedFor>>
        /\ CloseSocket({}, "failed") \/ CloseSocket({}, "connecting")
    BY <1>10 DEF SwitchProject, Dial, wireVars
  <2> QED BY <1>2, <2>1
<1>11. ASSUME NEW p \in Projects, EditorStarts(p) \/ EditorStops(p)
       PROVE  ProjectInv'
  <2>1. UNCHANGED <<project, issuedFor, pc>> /\ frames' \subseteq frames
    BY <1>11 DEF EditorStarts, EditorStops, clientVars, targetVars, callVars
  <2> QED BY <1>1, <2>1 DEF OnItsWay
<1>12. CASE ConnectDirectly \/ PokeReconnect
  BY <1>3, <1>12 DEF ConnectDirectly, PokeReconnect
<1>13. CASE Disconnect
  BY <1>2, <1>13 DEF Disconnect, wireVars
<1> QED
  BY <1>4, <1>5, <1>6, <1>7, <1>8, <1>9, <1>10, <1>11, <1>12, <1>13
     DEF Next, CallStep

(* StaysOnItsProject fails only by a switch while a call is on its way: where *)
(* none comes in between, every call reaches its own project's editor or none. *)
THEOREM OnlyASwitchMisleads ==
  Spec /\ [][NoSwitchMeanwhile]_vars => []StaysOnItsProject
<1>1. Init => ProjectInv
  BY DEF Init, ProjectInv, OnItsWay, StaysOnItsProject
<1>2. CallInv /\ ProjectInv /\ [Next]_vars /\ [NoSwitchMeanwhile]_vars => ProjectInv'
  <2> SUFFICES ASSUME CallInv, ProjectInv, [Next]_vars, [NoSwitchMeanwhile]_vars
               PROVE  ProjectInv'
    OBVIOUS
  <2>1. CASE UNCHANGED vars
    BY <2>1 DEF vars, targetVars, callVars, wireVars, ProjectInv, OnItsWay, StaysOnItsProject
  <2>2. CASE Next /\ NoSwitchMeanwhile
    BY <2>2, ProjectStep
  <2> QED BY <2>1, <2>2
<1>3. ProjectInv => StaysOnItsProject
  BY DEF ProjectInv
<1> QED BY <1>1, <1>2, <1>3, CallInvariant, PTL DEF Spec
=============================================================================
