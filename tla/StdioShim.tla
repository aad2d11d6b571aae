----------------------------- MODULE StdioShim -----------------------------
(***************************************************************************)
(* The stdio shim between an MCP client and the project's daemon: it       *)
(* relays messages over a WebSocket that may be lost and opened again, at  *)
(* the same daemon or at another one. runShim of src/daemon/shim.ts, with  *)
(* the daemon's end of the socket, src/daemon/ws-transport.ts.             *)
(***************************************************************************)
EXTENDS Naturals, Sequences

CONSTANTS Requests,     \* the client's requests, each an id of its own
          Initialize,   \* its initialize request
          Initialized,  \* its notifications/initialized
          Nothing,
          MaxLosses     \* bound on the sockets that are lost

ASSUME MessagesAssumption ==
  /\ Initialize # Initialized
  /\ {Initialize, Initialized} \cap Requests = {}
  /\ Nothing \notin Requests \cup {Initialize, Initialized}
ASSUME MaxLossesAssumption == MaxLosses \in Nat

VARIABLES
  sent,      \* the messages the client has sent to the shim
  link,      \* ws: "down" (null), "open", "closing" (its readyState is no
             \* longer OPEN and 'close' has not been emitted), or "exited"
  fresh,     \* the first connect has not succeeded yet
  swallow,   \* the answer to initialize that is awaited is the shim's own
  queue,     \* messages that arrived while there was no daemon socket
  waiting,   \* ids the client waits on
  wire,      \* written to the socket, not read by the daemon
  serving,   \* ids the daemon of this socket has read and not answered
  replies,   \* answers on their way to the shim
  answered,  \* ids whose answer from a daemon reached the client
  lost,      \* ids the client was told are lost
  losses,    \* history: how many sockets were lost
  written,   \* history: the messages that were written to some socket
  twice,     \* history: the client's messages that were written twice
  opening    \* history: the first message on this socket, or Nothing

socket == <<link, fresh, wire, serving, replies>>
shim == <<swallow, queue, waiting>>
client == <<sent, answered, lost>>
history == <<losses, written, twice, opening>>
vars == <<socket, shim, client, history>>

Ids == Requests \cup {Initialize}
Messages == Ids \cup {Initialized}
Elements(s) == {s[k] : k \in DOMAIN s}

(* The shape of the state. initialize and initialized, which the shim      *)
(* keeps, are what of them is in `sent'.                                   *)
TypeOK ==
  /\ sent \subseteq Messages
  /\ link \in {"down", "open", "closing", "exited"}
  /\ fresh \in BOOLEAN
  /\ swallow \in BOOLEAN
  /\ queue \in Seq(Messages)
  /\ waiting \subseteq Ids
  /\ wire \in Seq(Messages)
  /\ serving \subseteq Ids
  /\ replies \in Seq(Ids)
  /\ answered \subseteq Ids
  /\ lost \subseteq Ids
  /\ losses \in 0 .. MaxLosses
  /\ written \subseteq Messages
  /\ twice \subseteq Requests
  /\ opening \in Messages \cup {Nothing}

Init ==
  /\ sent = {}
  /\ link = "down"
  /\ fresh = TRUE
  /\ swallow = FALSE
  /\ queue = << >>
  /\ waiting = {}
  /\ wire = << >>
  /\ serving = {}
  /\ replies = << >>
  /\ answered = {}
  /\ lost = {}
  /\ losses = 0
  /\ written = {}
  /\ twice = {}
  /\ opening = Nothing

-----------------------------------------------------------------------------
(* socket.send of the messages of s, in order.                             *)
Put(s, before, first) ==
  /\ wire' = before \o s
  /\ written' = written \cup Elements(s)
  /\ twice' = twice \cup {m \in Requests :
       \E k \in DOMAIN s : s[k] = m /\ (m \in written \/ \E j \in 1 .. k - 1 : s[j] = m)}
  /\ opening' = IF first = Nothing /\ s # << >> THEN Head(s) ELSE first

(* Mutant: what is flushed stays queued.                                   *)
FlushCopies(s, before, first) ==
  /\ Put(s \o queue, before, first)
  /\ UNCHANGED queue

(* flush: what is queued goes out, behind what is on the wire.             *)
FlushBehind(s, before, first) ==
  /\ Put(s \o queue, before, first)
  /\ queue' = << >>

(* Mutant: a message without a socket is dropped.                          *)
SendOrDrop(m) ==
  /\ IF link = "open" THEN Put(<<m>>, wire, opening)
     ELSE UNCHANGED <<wire, written, twice, opening>>
  /\ UNCHANGED queue

(* toDaemon.                                                               *)
ToDaemon(m) ==
  IF link = "open"
  THEN Put(<<m>>, wire, opening) /\ UNCHANGED queue
  ELSE queue' = Append(queue, m) /\ UNCHANGED <<wire, written, twice, opening>>

(* The client follows the protocol: initialize, then initialized once it   *)
(* has the answer, then requests.                                          *)
Ready(m) ==
  /\ m \notin sent
  /\ m = Initialized => Initialize \in answered
  /\ m \in Requests => Initialized \in sent

(* Mutant: a notification is waited on.                                    *)
WaitOnEverything(m) ==
  /\ link # "exited"
  /\ Ready(m)
  /\ sent' = sent \cup {m}
  /\ waiting' = waiting \cup {m}
  /\ ToDaemon(m)
  /\ UNCHANGED <<link, fresh, serving, replies, swallow, answered, lost, losses>>

(* stdio.onmessage.                                                        *)
OnMessage(m) ==
  /\ link # "exited"
  /\ Ready(m)
  /\ sent' = sent \cup {m}
  /\ waiting' = waiting \cup ({m} \cap Ids)
  /\ ToDaemon(m)
  /\ UNCHANGED <<link, fresh, serving, replies, swallow, answered, lost, losses>>

-----------------------------------------------------------------------------
(* Mutant: the queue goes out without a replay.                            *)
ConnectAsFirst ==
  /\ link = "down"
  /\ link' = "open"
  /\ fresh' = FALSE
  /\ FlushBehind(<< >>, << >>, Nothing)
  /\ UNCHANGED <<swallow, serving, replies, waiting, client, losses>>

(* connect: the socket is open. A new daemon is shown the client's         *)
(* initialize before anything else; on the first connection the client's   *)
(* own is in the queue, or still to come.                                  *)
Connect ==
  /\ link = "down"
  /\ link' = "open"
  /\ fresh' = FALSE
  /\ IF ~fresh /\ Initialize \in sent
     THEN swallow' = TRUE /\ Put(<<Initialize>>, << >>, Nothing) /\ UNCHANGED queue
     ELSE FlushBehind(<< >>, << >>, Nothing) /\ UNCHANGED swallow
  /\ UNCHANGED <<serving, replies, waiting, client, losses>>

(* The first connect fails: the shim gives up. A later one is repeated     *)
(* until it succeeds.                                                      *)
FirstConnectFails ==
  /\ link = "down"
  /\ fresh
  /\ link' = "exited"
  /\ UNCHANGED <<fresh, wire, serving, replies, shim, client, history>>

(* A message from the daemon. Only answers are modelled: what the daemon   *)
(* sends of its own accord is passed on.                                   *)
OnAnswer ==
  /\ link = "open"
  /\ replies # << >>
  /\ replies' = Tail(replies)
  /\ IF swallow /\ Head(replies) = Initialize
     THEN /\ swallow' = FALSE
          /\ FlushBehind(IF Initialized \in sent THEN <<Initialized>> ELSE << >>, wire, opening)
          /\ UNCHANGED <<waiting, answered>>
     ELSE /\ waiting' = waiting \ {Head(replies)}
          /\ answered' = answered \cup {Head(replies)}
          /\ UNCHANGED <<swallow, queue, wire, written, twice, opening>>
  /\ UNCHANGED <<link, fresh, serving, sent, lost, losses>>

(* Mutant: the waiting ids are forgotten without a word.                   *)
CloseSilently ==
  /\ link \in {"open", "closing"}
  /\ losses < MaxLosses
  /\ link' = "down"
  /\ waiting' = {}
  /\ wire' = << >>
  /\ serving' = {}
  /\ replies' = << >>
  /\ opening' = Nothing
  /\ losses' = losses + 1
  /\ UNCHANGED <<fresh, swallow, queue, client, written, twice>>

(* The close listener: whatever the client waits on is declared lost.      *)
OnClose ==
  /\ link \in {"open", "closing"}
  /\ losses < MaxLosses
  /\ link' = "down"
  /\ lost' = lost \cup waiting
  /\ waiting' = {}
  /\ wire' = << >>
  /\ serving' = {}
  /\ replies' = << >>
  /\ opening' = Nothing
  /\ losses' = losses + 1
  /\ UNCHANGED <<fresh, swallow, queue, sent, answered, written, twice>>

-----------------------------------------------------------------------------
(* The daemon's end of the socket.                                         *)

DaemonReads ==
  /\ link = "open"
  /\ wire # << >>
  /\ wire' = Tail(wire)
  /\ serving' = serving \cup ({Head(wire)} \cap Ids)
  /\ UNCHANGED <<link, fresh, replies, shim, client, history>>

DaemonAnswers(i) ==
  /\ link = "open"
  /\ i \in serving
  /\ serving' = serving \ {i}
  /\ replies' = Append(replies, i)
  /\ UNCHANGED <<link, fresh, wire, shim, client, history>>

(* The daemon closes the socket: it sends nothing more, and what it sent   *)
(* has arrived before its close frame.                                     *)
DaemonCloses ==
  /\ link = "open"
  /\ losses < MaxLosses
  /\ replies = << >>
  /\ link' = "closing"
  /\ wire' = << >>
  /\ serving' = {}
  /\ UNCHANGED <<fresh, replies, shim, client, history>>

Next ==
  \/ \E m \in Messages : OnMessage(m)
  \/ Connect \/ FirstConnectFails \/ OnAnswer \/ OnClose
  \/ DaemonReads \/ \E i \in Ids : DaemonAnswers(i)
  \/ DaemonCloses

Spec == Init /\ [][Next]_vars

(* Reconnecting succeeds in the end, a socket that closes is closed, and a *)
(* daemon that stays reads and answers (its calls have time-outs).         *)
FairSpec ==
  /\ Spec
  /\ WF_vars(Connect)
  /\ WF_vars(OnAnswer)
  /\ WF_vars(link = "closing" /\ OnClose)
  /\ WF_vars(DaemonReads)
  /\ \A i \in Ids : WF_vars(DaemonAnswers(i))

-----------------------------------------------------------------------------
(* A request runs at most once: over all the sockets of the shim's life it *)
(* is written to one of them once. Only initialize is repeated.            *)
WrittenOnce == twice = {}

(* Every daemon sees initialize before anything else, also when requests   *)
(* were queued or arrive while the shim replays it.                        *)
InitializeFirst == opening \in {Nothing, Initialize}

(* What the client waits on is in the shim's queue or with the daemon of   *)
(* this socket, or the loss that answers it is under way.                  *)
Kept ==
  \A i \in waiting :
    \/ i \in Elements(queue)
    \/ link = "open" /\ i \in Elements(wire) \cup serving \cup Elements(replies)
    \/ link = "closing"

(* Nothing is forgotten on the way from one socket to the next, and what   *)
(* is kept in the queue does not stay behind what is sent directly: it is  *)
(* empty on an open socket whose daemon has been initialized.              *)
NothingForgotten == Kept /\ (link = "open" /\ ~swallow => queue = << >>)

(* shim.ts: "A request in flight when the daemon went away is answered     *)
(* with an error, never left hanging".                                     *)
NeverLeftHanging ==
  \A r \in Requests : r \in sent ~> r \in answered \cup lost \/ link = "exited"

(* shim.ts: a lost request was "in flight" and its outcome is to be read   *)
(* back: it is not given to a daemon after that.                           *)
LostIsNotSentLater ==
  [][\A r \in Requests : r \in lost /\ r \notin written => r \notin written']_vars

=============================================================================
