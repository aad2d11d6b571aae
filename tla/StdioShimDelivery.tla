------------------------- MODULE StdioShimDelivery -------------------------
(***************************************************************************)
(* The shim and CallDelivery: what it takes for the relay to promise its   *)
(* client what the bridge promises its tools.                              *)
(***************************************************************************)
EXTENDS StdioShimProofs

(* Whether a request that was lost with its socket had been read is nowhere *)
(* in the shim's state: the requests that some daemon has read are noted    *)
(* beside it.                                                               *)
VARIABLE executed

(* A daemon reads a request, and starts on it.                             *)
Reads == IF DaemonReads THEN {Head(wire)} \cap Requests ELSE {}
Noted == executed' = executed \cup Reads

NotedSpec == Spec /\ executed = {} /\ [][Noted]_<<vars, executed>>

(* CallDelivery, as the shim's state shows it.                             *)
Reached(r) ==
  IF r \notin written THEN "kept" ELSE IF r \in executed THEN "run" ELSE "sent"

ToldOf(r) ==
  IF r \in answered THEN "result" ELSE IF r \in lost THEN "unknown" ELSE "none"

Delivery == INSTANCE CallDelivery WITH
  Calls   <- Requests,
  reached <- [r \in Requests |-> Reached(r)],
  reply   <- [r \in Requests |-> ToldOf(r)]

(* What is told of a request is CallDelivery's promise to the client.      *)
KeepsCallPromise == Delivery!DSpec

(* Where an executed request may be; and a request that is waited on has    *)
(* been written, or is queued.                                              *)
ExecutedInv ==
  /\ executed \subseteq Requests \cap written
  /\ answered \cap Requests \subseteq executed
  /\ (serving \cup Elements(replies)) \cap Requests \subseteq executed
  /\ Elements(wire) \cap executed = {}
  /\ waiting \cap Requests \subseteq written \cup Elements(queue)

DeliveryInv == AccountInv /\ LostIsGone /\ ExecutedInv

-----------------------------------------------------------------------------
(* What is written is written for the first time: the calls are sent.      *)
LEMMA SendMaps ==
  ASSUME DeliveryInv, NEW S \in SUBSET Requests, S \cap (written \cup answered \cup lost) = {},
         \A r \in Requests : r \in written' <=> r \in written \cup S,
         UNCHANGED <<executed, answered, lost>>
  PROVE  Delivery!DNext
<1>1. \A r \in Requests :
        /\ Reached(r)' = IF r \in S THEN "sent" ELSE Reached(r)
        /\ ToldOf(r)' = ToldOf(r)
        /\ r \in S => Reached(r) = "kept" /\ ToldOf(r) = "none"
  BY DEF DeliveryInv, ExecutedInv, Reached, ToldOf
<1>2. Delivery!Send(S)
  BY <1>1 DEF Delivery!Send
<1> QED BY <1>2 DEF Delivery!DNext

(* A step that writes no request and tells nothing of one is a stutter.    *)
LEMMA StutterMaps ==
  ASSUME \A r \in Requests : /\ r \in written' <=> r \in written
                             /\ r \in executed' <=> r \in executed
                             /\ r \in answered' <=> r \in answered
                             /\ r \in lost' <=> r \in lost
  PROVE  [Delivery!DNext]_(Delivery!dvars)
<1>1. \A r \in Requests : Reached(r)' = Reached(r) /\ ToldOf(r)' = ToldOf(r)
  BY DEF Reached, ToldOf
<1> QED BY <1>1 DEF Delivery!dvars

(* A flush writes what is queued, and that was written to no socket yet.   *)
LEMMA FlushMaps ==
  ASSUME DeliveryInv, NEW s \in Seq(Messages), s = << >> \/ s = <<Initialized>>,
         NEW before \in Seq(Messages), NEW first, FlushBehind(s, before, first),
         UNCHANGED <<executed, answered, lost>>
  PROVE  Delivery!DNext
<1> DEFINE S == Elements(queue) \cap Requests
<1>1. written' = written \cup Elements(s) \cup Elements(queue)
  BY Flushed DEF DeliveryInv, AccountInv
<1>2. \A r \in Requests : r \notin Elements(s)
  BY SmallElements, MessagesAssumption
<1>3. S \cap (written \cup answered \cup lost) = {}
  BY DEF DeliveryInv, AccountInv, OnceInv, ToldInv, LostIsGone
<1>4. \A r \in Requests : r \in written' <=> r \in written \cup S
  BY <1>1, <1>2
<1> HIDE DEF S
<1>5. S \in SUBSET Requests
  BY DEF S
<1> QED BY <1>3, <1>4, <1>5, SendMaps

(* Each step of the shim that loses no queued request is a step of          *)
(* CallDelivery or a stutter.                                               *)
LEMMA DeliveryStep ==
  ASSUME DeliveryInv, Next, NoLossWhileQueued, Noted
  PROVE  [Delivery!DNext]_(Delivery!dvars)
<1> USE DEF socket, shim, client, history
<1>0. /\ Initialize \in Messages /\ Initialized \in Messages /\ << >> \in Seq(Messages)
      /\ Initialize \notin Requests /\ Initialized \notin Requests
      /\ wire \in Seq(Messages) /\ TypeOK
  BY MessagesAssumption DEF Messages, Ids, DeliveryInv, AccountInv, TypeOK
<1>a. ASSUME ~DaemonReads PROVE executed' = executed
  BY <1>a DEF Noted, Reads
<1>1. ASSUME NEW m \in Messages, OnMessage(m)
      PROVE  [Delivery!DNext]_(Delivery!dvars)
  <2>1. m \notin sent /\ UNCHANGED <<answered, lost>>
    BY <1>1 DEF OnMessage, Ready
  <2>2. m \notin written \cup answered \cup lost
    BY <2>1 DEF DeliveryInv, AccountInv, SentInv, ToldInv
  <2>3. executed' = executed
    <3>1. CASE DaemonReads
      BY <1>1, <3>1, <2>1 DEF OnMessage, DaemonReads
    <3> QED BY <1>a, <3>1
  <2>4. CASE link = "open"
    <3>1. written' = written \cup {m}
      BY <1>0, <1>1, <2>4, PutOne DEF OnMessage, ToDaemon
    <3> DEFINE S == {m} \cap Requests
    <3>2. S \in SUBSET Requests /\ S \cap (written \cup answered \cup lost) = {}
          /\ \A r \in Requests : r \in written' <=> r \in written \cup S
      BY <2>2, <3>1
    <3> HIDE DEF S
    <3> QED BY <2>1, <2>3, <3>2, SendMaps
  <2>5. CASE link # "open"
    BY <1>1, <2>1, <2>3, <2>5, StutterMaps DEF OnMessage, ToDaemon
  <2> QED BY <2>4, <2>5
<1>2. CASE Connect
  <2>1. UNCHANGED <<executed, answered, lost>>
    BY <1>a, <1>2 DEF Connect, DaemonReads
  <2>2. CASE ~fresh /\ Initialize \in sent
    <3>1. written' = written \cup {Initialize}
      BY <1>0, <1>2, <2>2, PutOne DEF Connect
    <3> QED BY <1>0, <2>1, <3>1, StutterMaps
  <2>3. CASE ~(~fresh /\ Initialize \in sent)
    BY <1>0, <1>2, <2>1, <2>3, FlushMaps DEF Connect
  <2> QED BY <2>2, <2>3
<1>3. CASE OnAnswer
  <2>1. executed' = executed /\ lost' = lost
    BY <1>a, <1>3 DEF OnAnswer, DaemonReads
  <2>2. CASE swallow /\ Head(replies) = Initialize
    <3> DEFINE s == IF Initialized \in sent THEN <<Initialized>> ELSE << >>
    <3>1. s \in Seq(Messages) /\ (s = << >> \/ s = <<Initialized>>)
      BY <1>0
    <3>2. FlushBehind(s, wire, opening) /\ UNCHANGED answered
      BY <1>3, <2>2 DEF OnAnswer
    <3> HIDE DEF s
    <3> QED BY <1>0, <2>1, <3>1, <3>2, FlushMaps
  <2>3. CASE ~(swallow /\ Head(replies) = Initialize)
    <3>1. answered' = answered \cup {Head(replies)} /\ UNCHANGED written
      BY <1>3, <2>3 DEF OnAnswer
    <3>2. Head(replies) \in Elements(replies)
      BY <1>0, <1>3, TailElements DEF OnAnswer, TypeOK
    <3>3. CASE Head(replies) \in Requests
      <4> DEFINE h == Head(replies)
      <4>1. h \in executed /\ h \in written /\ h \notin answered /\ h \notin lost
        BY <3>2, <3>3 DEF DeliveryInv, ExecutedInv, AccountInv, ToldInv, LostIsGone, OnSocket
      <4>2. Reached(h) = "run" /\ ToldOf(h) = "none"
        BY <4>1 DEF Reached, ToldOf
      <4>3. \A r \in Requests : /\ Reached(r)' = Reached(r)
                                /\ ToldOf(r)' = IF r \in {h} THEN "result" ELSE ToldOf(r)
        BY <2>1, <3>1 DEF Reached, ToldOf
      <4> HIDE DEF h
      <4>4. h \in Requests
        BY <3>3 DEF h
      <4>5. Delivery!Return(h)
        BY <4>2, <4>3, <4>4 DEF Delivery!Return, Delivery!Settle
      <4> QED BY <4>4, <4>5 DEF Delivery!DNext
    <3>4. CASE Head(replies) \notin Requests
      BY <2>1, <3>1, <3>4, StutterMaps
    <3> QED BY <3>3, <3>4
  <2> QED BY <2>2, <2>3
<1>4. CASE OnClose
  <2> DEFINE S == waiting \cap Requests
  <2>1. lost' = lost \cup waiting /\ UNCHANGED <<answered, written>>
    BY <1>4 DEF OnClose
  <2>2. executed' = executed
    BY <1>a, <1>4 DEF OnClose, DaemonReads
  <2>3. \A r \in S : r \in written /\ r \notin answered /\ r \notin lost
    BY <1>4 DEF NoLossWhileQueued, DeliveryInv, ExecutedInv, AccountInv, ToldInv
  <2>4. \A r \in S : Reached(r) \in {"sent", "run"} /\ ToldOf(r) = "none"
    BY <2>3 DEF Reached, ToldOf
  <2>5. \A r \in Requests : /\ Reached(r)' = Reached(r)
                            /\ ToldOf(r)' = IF r \in S THEN "unknown" ELSE ToldOf(r)
    BY <2>1, <2>2, <2>3 DEF Reached, ToldOf
  <2> HIDE DEF S
  <2>6. S \in SUBSET Requests
    BY DEF S
  <2>7. Delivery!Lose(S)
    BY <2>4, <2>5, <2>6 DEF Delivery!Lose, Delivery!Settle
  <2> QED BY <2>6, <2>7 DEF Delivery!DNext
<1>5. CASE DaemonReads
  <2>1. Head(wire) \in Elements(wire)
    BY <1>0, <1>5, TailElements DEF DaemonReads
  <2>2. UNCHANGED <<answered, lost, written>>
    BY <1>5 DEF DaemonReads
  <2>3. executed' = executed \cup ({Head(wire)} \cap Requests)
    BY <1>5 DEF Noted, Reads
  <2>4. CASE Head(wire) \in Requests
    <3> DEFINE h == Head(wire)
    <3>1. h \in written /\ h \notin executed
      BY <2>1, <2>4 DEF DeliveryInv, ExecutedInv, AccountInv, PlaceInv, OnSocket
    <3>2. Reached(h) = "sent"
      BY <3>1 DEF Reached
    <3>3. \A r \in Requests : /\ Reached(r)' = IF r = h THEN "run" ELSE Reached(r)
                              /\ ToldOf(r)' = ToldOf(r)
      BY <2>2, <2>3, <2>4, <3>1 DEF Reached, ToldOf
    <3> HIDE DEF h
    <3>4. h \in Requests
      BY <2>4 DEF h
    <3>5. Delivery!Run(h)
      BY <3>2, <3>3, <3>4 DEF Delivery!Run
    <3> QED BY <3>4, <3>5 DEF Delivery!DNext
  <2>5. CASE Head(wire) \notin Requests
    BY <2>2, <2>3, <2>5, StutterMaps
  <2> QED BY <2>4, <2>5
<1>6. CASE FirstConnectFails \/ DaemonCloses \/ \E i \in Ids : DaemonAnswers(i)
  <2>1. UNCHANGED <<answered, lost, written>>
    BY <1>6 DEF FirstConnectFails, DaemonCloses, DaemonAnswers
  <2>2. CASE ~DaemonReads
    BY <1>a, <2>1, <2>2, StutterMaps
  <2> QED BY <1>5, <2>2
<1> QED BY <1>1, <1>2, <1>3, <1>4, <1>5, <1>6 DEF Next

(* No step brings back an executed request, or loses sight of one that is   *)
(* waited on.                                                               *)
LEMMA ExecutedStep ==
  ASSUME AccountInv, ExecutedInv, Next, Noted
  PROVE  ExecutedInv'
<1> USE DEF socket, shim, client, history
<1>0. /\ Initialize \in Messages /\ Initialized \in Messages /\ << >> \in Seq(Messages)
      /\ Initialize \notin Requests /\ Initialized \notin Requests
      /\ wire \in Seq(Messages) /\ TypeOK /\ Elements(<< >>) = {}
  BY MessagesAssumption, SmallElements DEF Messages, Ids, AccountInv, TypeOK
<1>a. ASSUME ~DaemonReads PROVE executed' = executed
  BY <1>a DEF Noted, Reads
<1>b. ASSUME NEW s \in Seq(Messages), s = << >> \/ s = <<Initialized>>,
             NEW before \in Seq(Messages), NEW first, FlushBehind(s, before, first)
      PROVE  /\ written \subseteq written' /\ Elements(queue) \subseteq written'
             /\ \A r \in Requests : r \in Elements(wire') =>
                  r \in Elements(before) \/ r \in Elements(queue)
             /\ \A r \in Requests : r \in Elements(queue) => r \notin executed
  <2>1. \A r \in Requests : r \notin Elements(s)
    BY <1>0, <1>b, SmallElements
  <2>2. /\ Elements(wire') = Elements(before) \cup Elements(s) \cup Elements(queue)
        /\ written' = written \cup Elements(s) \cup Elements(queue)
    BY <1>0, <1>b, Flushed
  <2> QED BY <2>1, <2>2 DEF AccountInv, OnceInv, ExecutedInv
<1>1. ASSUME NEW m \in Messages, OnMessage(m) PROVE ExecutedInv'
  <2>1. /\ m \notin sent /\ UNCHANGED <<serving, replies, answered>>
        /\ waiting' = waiting \cup ({m} \cap Ids)
    BY <1>1 DEF OnMessage, Ready
  <2>2. m \notin written /\ m \notin executed
    BY <2>1 DEF AccountInv, SentInv, ExecutedInv
  <2>3. executed' = executed
    BY <1>a, <1>1, <2>1 DEF OnMessage, DaemonReads
  <2>4. CASE link = "open"
    <3>1. /\ written' = written \cup {m} /\ Elements(wire') = Elements(wire) \cup {m}
          /\ queue' = queue
      BY <1>0, <1>1, <2>4, PutOne DEF OnMessage, ToDaemon
    <3> QED BY <2>1, <2>2, <2>3, <3>1 DEF ExecutedInv
  <2>5. CASE link # "open"
    <3>1. UNCHANGED <<wire, written>> /\ Elements(queue') = Elements(queue) \cup {m}
      BY <1>0, <1>1, <2>5, Queued DEF OnMessage, ToDaemon
    <3> QED BY <2>1, <2>2, <2>3, <3>1 DEF ExecutedInv
  <2> QED BY <2>4, <2>5
<1>2. CASE Connect
  <2>1. UNCHANGED <<executed, answered, waiting, serving, replies>>
    BY <1>a, <1>2 DEF Connect, DaemonReads
  <2>2. CASE ~fresh /\ Initialize \in sent
    <3>1. /\ written' = written \cup {Initialize} /\ queue' = queue
          /\ Elements(wire') = Elements(<< >>) \cup {Initialize}
      BY <1>0, <1>2, <2>2, PutOne DEF Connect
    <3> QED BY <1>0, <2>1, <3>1 DEF ExecutedInv
  <2>3. CASE ~(~fresh /\ Initialize \in sent)
    <3>1. FlushBehind(<< >>, << >>, Nothing)
      BY <1>2, <2>3 DEF Connect
    <3> QED BY <1>0, <1>b, <2>1, <3>1 DEF ExecutedInv
  <2> QED BY <2>2, <2>3
<1>3. CASE OnAnswer
  <2>1. executed' = executed /\ serving' = serving /\ replies' = Tail(replies)
    BY <1>a, <1>3 DEF OnAnswer, DaemonReads
  <2>2. Elements(replies) = {Head(replies)} \cup Elements(replies')
    BY <1>0, <1>3, <2>1, TailElements DEF OnAnswer, TypeOK
  <2>3. CASE swallow /\ Head(replies) = Initialize
    <3> DEFINE s == IF Initialized \in sent THEN <<Initialized>> ELSE << >>
    <3>1. s \in Seq(Messages) /\ (s = << >> \/ s = <<Initialized>>)
      BY <1>0
    <3>2. FlushBehind(s, wire, opening) /\ UNCHANGED <<answered, waiting>>
      BY <1>3, <2>3 DEF OnAnswer
    <3> HIDE DEF s
    <3>3. /\ written \subseteq written' /\ Elements(queue) \subseteq written'
          /\ \A r \in Requests : r \in Elements(wire') =>
               r \in Elements(wire) \/ r \in Elements(queue)
          /\ \A r \in Requests : r \in Elements(queue) => r \notin executed
      BY <1>0, <1>b, <3>1, <3>2
    <3> QED BY <2>1, <2>2, <3>2, <3>3 DEF ExecutedInv
  <2>4. CASE ~(swallow /\ Head(replies) = Initialize)
    BY <1>3, <2>1, <2>2, <2>4 DEF OnAnswer, ExecutedInv
  <2> QED BY <2>3, <2>4
<1>4. CASE OnClose
  <2>1. /\ wire' = << >> /\ serving' = {} /\ replies' = << >> /\ waiting' = {}
        /\ UNCHANGED <<answered, written>>
    BY <1>4 DEF OnClose
  <2>2. executed' = executed
    BY <1>a, <1>4 DEF OnClose, DaemonReads
  <2> QED BY <1>0, <2>1, <2>2 DEF ExecutedInv
<1>5. CASE DaemonReads
  <2>1. /\ Elements(wire) = {Head(wire)} \cup Elements(wire')
        /\ Head(wire) \in Requests => Head(wire) \notin Elements(wire')
    BY <1>0, <1>5, TailElements, OnceTail DEF DaemonReads, AccountInv, PlaceInv
  <2>2. /\ UNCHANGED <<queue, waiting, answered, replies, written>>
        /\ serving' = serving \cup ({Head(wire)} \cap Ids)
    BY <1>5 DEF DaemonReads
  <2>3. executed' = executed \cup ({Head(wire)} \cap Requests)
    BY <1>5 DEF Noted, Reads
  <2>4. Head(wire) \in Requests => Head(wire) \in written
    BY <2>1 DEF AccountInv, PlaceInv, OnSocket
  <2> QED BY <2>1, <2>2, <2>3, <2>4 DEF ExecutedInv
<1>6. ASSUME NEW i \in Ids, DaemonAnswers(i) PROVE ExecutedInv'
  <2>1. Elements(replies') = Elements(replies) \cup {i}
    BY <1>0, <1>6, AppendElements DEF DaemonAnswers, TypeOK
  <2>2. CASE ~DaemonReads
    BY <1>a, <1>6, <2>1, <2>2 DEF DaemonAnswers, ExecutedInv
  <2> QED BY <1>5, <2>2
<1>7. CASE FirstConnectFails \/ DaemonCloses
  <2>1. CASE ~DaemonReads
    BY <1>0, <1>a, <1>7, <2>1 DEF FirstConnectFails, DaemonCloses, ExecutedInv
  <2> QED BY <1>5, <2>1
<1> QED BY <1>1, <1>2, <1>3, <1>4, <1>5, <1>6, <1>7 DEF Next

(* Where nothing moves, nothing is read.                                    *)
LEMMA NothingReads == TypeOK /\ UNCHANGED vars /\ Noted => UNCHANGED executed
<1> SUFFICES ASSUME TypeOK, UNCHANGED vars, Noted PROVE executed' = executed
  OBVIOUS
<1>1. ASSUME wire # << >> PROVE Tail(wire) # wire
  <2>1. Len(Tail(wire)) # Len(wire)
    BY <1>1 DEF TypeOK
  <2> QED BY <2>1
<1>2. ~DaemonReads
  BY <1>1 DEF DaemonReads, vars, socket
<1> QED BY <1>2 DEF Noted, Reads

(* ExecutedInv holds throughout. *)
LEMMA ExecutedHolds == NotedSpec => []ExecutedInv
<1>1. Init /\ executed = {} => ExecutedInv
  BY SmallElements DEF Init, ExecutedInv
<1>2. AccountInv /\ ExecutedInv /\ [Next]_vars /\ [Noted]_<<vars, executed>> => ExecutedInv'
  <2> SUFFICES ASSUME AccountInv, ExecutedInv, [Next]_vars, [Noted]_<<vars, executed>>
               PROVE  ExecutedInv'
    OBVIOUS
  <2>1. CASE UNCHANGED vars
    <3>1. executed' = executed
      BY <2>1, NothingReads DEF AccountInv
    <3> QED BY <2>1, <3>1 DEF vars, socket, shim, client, history, ExecutedInv
  <2> QED BY <2>1, ExecutedStep
<1> QED BY <1>1, <1>2, AccountHolds, PTL DEF NotedSpec, Spec

-----------------------------------------------------------------------------
(* Whatever is lost, and whatever is told lost, no daemon reads a request   *)
(* that some daemon has read before, and the client's answers are of        *)
(* requests that were read.                                                 *)
THEOREM ExecutedOnce ==
  NotedSpec => /\ [][DaemonReads => Head(wire) \notin executed]_vars
               /\ [](answered \cap Requests \subseteq executed)
<1>1. AccountInv /\ ExecutedInv /\ DaemonReads => Head(wire) \notin executed
  <2> SUFFICES ASSUME AccountInv, ExecutedInv, DaemonReads PROVE Head(wire) \notin executed
    OBVIOUS
  <2>1. Head(wire) \in Elements(wire)
    BY TailElements DEF AccountInv, TypeOK, DaemonReads
  <2> QED BY <2>1 DEF ExecutedInv
<1>2. ExecutedInv => answered \cap Requests \subseteq executed
  BY DEF ExecutedInv
<1> QED BY <1>1, <1>2, AccountHolds, ExecutedHolds, PTL DEF NotedSpec, Spec

(* The relay keeps CallDelivery's promise to its client, for any number of  *)
(* requests and of lost sockets, as long as no socket is lost while a       *)
(* request that the client waits on is queued: each request is executed     *)
(* once at most, a result is that of its execution, and only a request that *)
(* was sent is told lost.                                                   *)
THEOREM RelayKeepsPromise ==
  NotedSpec /\ [][NoLossWhileQueued]_vars => KeepsCallPromise
<1>1. Init => Delivery!DInit
  <2> SUFFICES ASSUME Init PROVE Delivery!DInit
    OBVIOUS
  <2>1. \A r \in Requests : Reached(r) = "kept" /\ ToldOf(r) = "none"
    BY DEF Init, Reached, ToldOf
  <2> QED BY <2>1 DEF Delivery!DInit
<1>2. Init => LostIsGone
  BY DEF Init, LostIsGone
<1>3. DeliveryInv /\ [Next]_vars /\ [NoLossWhileQueued]_vars /\ [Noted]_<<vars, executed>>
        => [Delivery!DNext]_(Delivery!dvars)
  <2> SUFFICES ASSUME DeliveryInv, [Next]_vars, [NoLossWhileQueued]_vars,
                      [Noted]_<<vars, executed>>
               PROVE  [Delivery!DNext]_(Delivery!dvars)
    OBVIOUS
  <2>1. CASE UNCHANGED vars
    <3>1. executed' = executed
      BY <2>1, NothingReads DEF DeliveryInv, AccountInv
    <3> QED BY <2>1, <3>1, StutterMaps DEF vars, client, history
  <2> QED BY <2>1, DeliveryStep
<1> QED BY <1>1, <1>2, <1>3, AccountHolds, ExecutedHolds, GoneStaysGone, PTL
        DEF NotedSpec, Spec, DeliveryInv, KeepsCallPromise, Delivery!DSpec
=============================================================================
