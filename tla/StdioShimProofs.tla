-------------------------- MODULE StdioShimProofs --------------------------
(***************************************************************************)
(* What StdioShim promises, for any number of requests and of lost         *)
(* sockets: no request is written twice, every daemon is initialized       *)
(* first, nothing the client waits on is forgotten, no request is answered *)
(* twice, and only a queued one is told lost in error.                     *)
(***************************************************************************)
EXTENDS StdioShim, TLAPS

(* Whatever is anywhere was sent by the client, and it sends initialize    *)
(* first.                                                                  *)
SentInv ==
  /\ Elements(queue) \cup Elements(wire) \cup written \subseteq sent
  /\ serving \cup Elements(replies) \cup answered \subseteq sent
  /\ sent # {} => Initialize \in sent

(* A queued request occurs once, and on no socket yet.                     *)
Once(s) == \A j, k \in DOMAIN s : s[j] = s[k] /\ s[j] \in Requests => j = k

OnceInv ==
  /\ Once(queue)
  /\ \A m \in Elements(queue) : m \in Requests => m \notin written
  /\ twice = {}

(* Before the first connection everything is queued, initialize in front;  *)
(* later on an open socket carries it first.                               *)
OpeningInv ==
  /\ fresh => /\ link \in {"down", "exited"} /\ ~swallow
              /\ \/ queue = << >> /\ sent = {}
                 \/ queue # << >> /\ Head(queue) = Initialize
  /\ swallow => Initialize \in sent
  /\ link = "open" /\ opening = Nothing => Initialize \notin sent
  /\ opening \in {Nothing, Initialize}

(* The answer that is swallowed is not the one the client waits for.       *)
SwallowInv ==
  link = "open" /\ swallow /\ Initialize \in waiting => Initialize \in Elements(queue)

(* The queue waits for a handshake only.                                   *)
QueueInv == link = "open" /\ ~swallow => queue = << >>

IInv ==
  /\ TypeOK /\ SentInv /\ OnceInv /\ OpeningInv
  /\ SwallowInv /\ Kept /\ QueueInv

-----------------------------------------------------------------------------
(***************************************************************************)
(* Sequences of messages.                                                  *)
(***************************************************************************)
LEMMA AppendElements ==
  ASSUME NEW S, NEW s \in Seq(S), NEW e \in S
  PROVE  Elements(Append(s, e)) = Elements(s) \cup {e}
<1>1. Elements(Append(s, e)) \subseteq Elements(s) \cup {e}
  BY DEF Elements
<1>2. Elements(s) \subseteq Elements(Append(s, e))
  BY DEF Elements
<1>3. e \in Elements(Append(s, e))
  <2>1. Len(s) + 1 \in DOMAIN Append(s, e) /\ Append(s, e)[Len(s) + 1] = e
    OBVIOUS
  <2> QED BY <2>1 DEF Elements
<1> QED BY <1>1, <1>2, <1>3

LEMMA ConcatElements ==
  ASSUME NEW S, NEW s \in Seq(S), NEW t \in Seq(S)
  PROVE  Elements(s \o t) = Elements(s) \cup Elements(t)
<1>1. /\ s \o t \in Seq(S) /\ Len(s \o t) = Len(s) + Len(t)
      /\ \A k \in 1 .. Len(s) + Len(t) :
           (s \o t)[k] = IF k <= Len(s) THEN s[k] ELSE t[k - Len(s)]
  OBVIOUS
<1>2. Elements(s \o t) \subseteq Elements(s) \cup Elements(t)
  BY <1>1 DEF Elements
<1>3. Elements(s) \subseteq Elements(s \o t)
  BY <1>1 DEF Elements
<1>4. Elements(t) \subseteq Elements(s \o t)
  <2> SUFFICES ASSUME NEW k \in DOMAIN t PROVE t[k] \in Elements(s \o t)
    BY DEF Elements
  <2>1. /\ k \in 1 .. Len(t) /\ Len(s) \in Nat
        /\ Len(s) + k \in 1 .. Len(s) + Len(t)
        /\ (s \o t)[Len(s) + k] = t[k]
    BY <1>1
  <2> QED BY <1>1, <2>1 DEF Elements
<1> QED BY <1>2, <1>3, <1>4

LEMMA TailElements ==
  ASSUME NEW S, NEW s \in Seq(S), s # << >>
  PROVE  /\ Head(s) \in S /\ Tail(s) \in Seq(S)
         /\ Elements(s) = {Head(s)} \cup Elements(Tail(s))
<1>1. /\ Tail(s) \in Seq(S) /\ Len(s) \in Nat \ {0} /\ Len(Tail(s)) = Len(s) - 1
      /\ \A k \in 1 .. Len(s) - 1 : Tail(s)[k] = s[k + 1]
      /\ Head(s) = s[1] /\ Head(s) \in S
  OBVIOUS
<1>2. Elements(Tail(s)) \subseteq Elements(s)
  BY <1>1 DEF Elements
<1>3. Elements(s) \subseteq {Head(s)} \cup Elements(Tail(s))
  <2> SUFFICES ASSUME NEW k \in DOMAIN s, k # 1 PROVE s[k] \in Elements(Tail(s))
    BY <1>1 DEF Elements
  <2>1. k - 1 \in DOMAIN Tail(s) /\ Tail(s)[k - 1] = s[k]
    BY <1>1
  <2> QED BY <2>1 DEF Elements
<1>4. Head(s) \in Elements(s)
  BY <1>1 DEF Elements
<1> QED BY <1>1, <1>2, <1>3, <1>4

LEMMA SmallElements ==
  /\ Elements(<< >>) = {}
  /\ \A m : Elements(<<m>>) = {m}
<1>1. Elements(<< >>) = {}
  BY DEF Elements
<1>2. ASSUME NEW m PROVE Elements(<<m>>) = {m}
  <2>1. <<m>>[1] = m /\ DOMAIN <<m>> = {1}
    OBVIOUS
  <2> QED BY <2>1 DEF Elements
<1> QED BY <1>1, <1>2

LEMMA ElementsIn ==
  ASSUME NEW S, NEW s \in Seq(S) PROVE Elements(s) \subseteq S
BY DEF Elements

-----------------------------------------------------------------------------
(***************************************************************************)
(* Type correctness.                                                       *)
(***************************************************************************)
LEMMA PutTyped ==
  ASSUME TypeOK, NEW s \in Seq(Messages), NEW before \in Seq(Messages),
         NEW first \in Messages \cup {Nothing}, Put(s, before, first)
  PROVE  /\ wire' \in Seq(Messages) /\ written' \subseteq Messages
         /\ twice' \subseteq Requests /\ opening' \in Messages \cup {Nothing}
<1>1. s # << >> => Head(s) \in Messages
  OBVIOUS
<1> QED BY <1>1, ElementsIn DEF Put, TypeOK

LEMMA FlushTyped ==
  ASSUME TypeOK, NEW s \in Seq(Messages), NEW before \in Seq(Messages),
         NEW first \in Messages \cup {Nothing}, FlushBehind(s, before, first)
  PROVE  /\ wire' \in Seq(Messages) /\ written' \subseteq Messages
         /\ twice' \subseteq Requests /\ opening' \in Messages \cup {Nothing}
         /\ queue' = << >> /\ queue' \in Seq(Messages)
<1>1. s \o queue \in Seq(Messages)
  BY DEF TypeOK
<1>2. Put(s \o queue, before, first) /\ queue' = << >>
  BY DEF FlushBehind
<1> DEFINE all == s \o queue
<1>3. all \in Seq(Messages) /\ Put(all, before, first)
  BY <1>1, <1>2
<1> HIDE DEF all
<1>4. /\ wire' \in Seq(Messages) /\ written' \subseteq Messages
      /\ twice' \subseteq Requests /\ opening' \in Messages \cup {Nothing}
  BY <1>3, PutTyped
<1>5. << >> \in Seq(Messages)
  OBVIOUS
<1> QED BY <1>2, <1>4, <1>5

LEMMA TypeNext == TypeOK /\ [Next]_vars => TypeOK'
<1> SUFFICES ASSUME TypeOK, [Next]_vars PROVE TypeOK'
  OBVIOUS
<1> USE MaxLossesAssumption DEF socket, shim, client, history
<1>0. /\ Initialize \in Messages /\ Initialized \in Messages /\ Ids \subseteq Messages
      /\ << >> \in Seq(Messages) /\ << >> \in Seq(Ids)
  BY DEF Messages, Ids
<1>1. ASSUME NEW m \in Messages, OnMessage(m) PROVE TypeOK'
  <2>1. CASE link = "open"
    <3>1. Put(<<m>>, wire, opening) /\ queue' = queue
      BY <1>1, <2>1 DEF OnMessage, ToDaemon
    <3>2. <<m>> \in Seq(Messages)
      OBVIOUS
    <3> QED BY <1>1, <3>1, <3>2, PutTyped DEF OnMessage, TypeOK
  <2>2. CASE link # "open"
    <3>1. /\ queue' = Append(queue, m)
          /\ UNCHANGED <<wire, written, twice, opening>>
      BY <1>1, <2>2 DEF OnMessage, ToDaemon
    <3>2. queue' \in Seq(Messages)
      BY <3>1 DEF TypeOK
    <3> QED BY <1>1, <3>1, <3>2 DEF OnMessage, TypeOK
  <2> QED BY <2>1, <2>2
<1>2. CASE Connect
  <2>1. /\ wire' \in Seq(Messages) /\ written' \subseteq Messages
        /\ twice' \subseteq Requests /\ opening' \in Messages \cup {Nothing}
        /\ queue' \in Seq(Messages) /\ swallow' \in BOOLEAN
    <3>1. CASE ~fresh /\ Initialize \in sent
      <4>1. <<Initialize>> \in Seq(Messages)
        BY <1>0
      <4> QED BY <1>0, <1>2, <3>1, <4>1, PutTyped DEF Connect, TypeOK
    <3>2. CASE ~(~fresh /\ Initialize \in sent)
      BY <1>0, <1>2, <3>2, FlushTyped DEF Connect, TypeOK
    <3> QED BY <3>1, <3>2
  <2> QED BY <1>2, <2>1 DEF Connect, TypeOK
<1>3. CASE FirstConnectFails
  BY <1>3 DEF FirstConnectFails, TypeOK
<1>4. CASE OnAnswer
  <2>1. Head(replies) \in Ids /\ Tail(replies) \in Seq(Ids)
    BY <1>4, TailElements DEF OnAnswer, TypeOK
  <2>2. CASE swallow /\ Head(replies) = Initialize
    <3> DEFINE s == IF Initialized \in sent THEN <<Initialized>> ELSE << >>
    <3>1. s \in Seq(Messages)
      BY <1>0
    <3>2. FlushBehind(s, wire, opening) /\ UNCHANGED <<waiting, answered>> /\ swallow' = FALSE
      BY <1>4, <2>2 DEF OnAnswer
    <3> HIDE DEF s
    <3>3. /\ wire' \in Seq(Messages) /\ written' \subseteq Messages
          /\ twice' \subseteq Requests /\ opening' \in Messages \cup {Nothing}
          /\ queue' \in Seq(Messages)
      BY <3>1, <3>2, FlushTyped DEF TypeOK
    <3> QED BY <1>4, <2>1, <3>2, <3>3 DEF OnAnswer, TypeOK
  <2>3. CASE ~(swallow /\ Head(replies) = Initialize)
    BY <1>4, <2>1, <2>3 DEF OnAnswer, TypeOK
  <2> QED BY <2>2, <2>3
<1>5. CASE OnClose
  BY <1>0, <1>5 DEF OnClose, TypeOK
<1>6. CASE DaemonReads
  <2>1. Head(wire) \in Messages /\ Tail(wire) \in Seq(Messages)
    BY <1>6, TailElements DEF DaemonReads, TypeOK
  <2> QED BY <1>6, <2>1 DEF DaemonReads, TypeOK
<1>7. ASSUME NEW i \in Ids, DaemonAnswers(i) PROVE TypeOK'
  BY <1>7 DEF DaemonAnswers, TypeOK
<1>8. CASE DaemonCloses
  BY <1>0, <1>8 DEF DaemonCloses, TypeOK
<1>9. CASE UNCHANGED vars
  BY <1>9 DEF vars, TypeOK
<1> QED BY <1>1, <1>2, <1>3, <1>4, <1>5, <1>6, <1>7, <1>8, <1>9 DEF Next

-----------------------------------------------------------------------------
(***************************************************************************)
(* What reaches a socket.                                                  *)
(***************************************************************************)
(* What Connect and the swallowed answer write, with the queue behind it.  *)
LEMMA Flushed ==
  ASSUME TypeOK, NEW s \in Seq(Messages), NEW before \in Seq(Messages), NEW first,
         FlushBehind(s, before, first)
  PROVE  /\ queue' = << >>
         /\ Elements(wire') = Elements(before) \cup Elements(s) \cup Elements(queue)
         /\ written' = written \cup Elements(s) \cup Elements(queue)
<1> DEFINE all == s \o queue
<1>1. queue \in Seq(Messages) /\ all \in Seq(Messages)
  BY DEF TypeOK
<1>2. Elements(all) = Elements(s) \cup Elements(queue)
  BY <1>1, ConcatElements
<1>3. wire' = before \o all /\ written' = written \cup Elements(all) /\ queue' = << >>
  BY DEF FlushBehind, Put
<1> HIDE DEF all
<1>4. Elements(wire') = Elements(before) \cup Elements(all)
  BY <1>1, <1>3, ConcatElements
<1> QED BY <1>2, <1>3, <1>4

LEMMA PutOne ==
  ASSUME TypeOK, NEW m \in Messages, NEW before \in Seq(Messages), NEW first,
         Put(<<m>>, before, first)
  PROVE  /\ Elements(wire') = Elements(before) \cup {m}
         /\ written' = written \cup {m}
         /\ opening' = IF first = Nothing THEN m ELSE first
<1>1. <<m>> \in Seq(Messages) /\ <<m>> # << >> /\ Head(<<m>>) = m
  OBVIOUS
<1>2. Elements(<<m>>) = {m}
  BY SmallElements
<1> DEFINE s == <<m>>
<1>3. s \in Seq(Messages) /\ Elements(s) = {m} /\ s # << >> /\ Head(s) = m
  BY <1>1, <1>2
<1>4. /\ wire' = before \o s /\ written' = written \cup Elements(s)
      /\ opening' = IF first = Nothing /\ s # << >> THEN Head(s) ELSE first
  BY DEF Put
<1> HIDE DEF s
<1> QED BY <1>3, <1>4, ConcatElements

LEMMA Queued ==
  ASSUME TypeOK, NEW m \in Messages, queue' = Append(queue, m)
  PROVE  Elements(queue') = Elements(queue) \cup {m}
BY AppendElements DEF TypeOK

(* The client starts with initialize.                                      *)
LEMMA FirstIsInitialize ==
  ASSUME SentInv, NEW m \in Messages, Ready(m)
  PROVE  /\ m \notin sent
         /\ m = Initialize \/ Initialize \in sent
BY DEF SentInv, Ready, Messages, Ids

LEMMA SentNext == TypeOK /\ SentInv /\ [Next]_vars => SentInv'
<1> SUFFICES ASSUME TypeOK, SentInv, [Next]_vars PROVE SentInv'
  OBVIOUS
<1> USE DEF socket, shim, client, history
<1>0. Initialize \in Messages /\ Initialized \in Messages /\ << >> \in Seq(Messages)
  BY DEF Messages, Ids
<1>1. ASSUME NEW m \in Messages, OnMessage(m) PROVE SentInv'
  <2>1. m = Initialize \/ Initialize \in sent
    BY <1>1, FirstIsInitialize DEF OnMessage
  <2>2. CASE link = "open"
    BY <1>1, <2>1, <2>2, PutOne DEF OnMessage, ToDaemon, SentInv, TypeOK
  <2>3. CASE link # "open"
    BY <1>1, <2>1, <2>3, Queued DEF OnMessage, ToDaemon, SentInv
  <2> QED BY <2>2, <2>3
<1>2. CASE Connect
  <2>1. CASE ~fresh /\ Initialize \in sent
    <3>1. Put(<<Initialize>>, << >>, Nothing) /\ UNCHANGED <<queue, serving, replies, answered, sent>>
      BY <1>2, <2>1 DEF Connect
    <3>2. /\ Elements(wire') = Elements(<< >>) \cup {Initialize}
          /\ written' = written \cup {Initialize}
      BY <1>0, <3>1, PutOne
    <3>3. Elements(wire') = {Initialize}
      BY <3>2, SmallElements
    <3> QED BY <2>1, <3>1, <3>2, <3>3 DEF SentInv
  <2>2. CASE ~(~fresh /\ Initialize \in sent)
    <3>1. FlushBehind(<< >>, << >>, Nothing) /\ UNCHANGED <<serving, replies, answered, sent>>
      BY <1>2, <2>2 DEF Connect
    <3>2. /\ queue' = << >> /\ Elements(wire') = Elements(queue)
          /\ written' = written \cup Elements(queue)
      <4>1. /\ queue' = << >>
            /\ Elements(wire') = Elements(<< >>) \cup Elements(<< >>) \cup Elements(queue)
            /\ written' = written \cup Elements(<< >>) \cup Elements(queue)
        BY <1>0, <3>1, Flushed
      <4> QED BY <4>1, SmallElements
    <3> QED BY <3>1, <3>2, SmallElements DEF SentInv
  <2> QED BY <2>1, <2>2
<1>3. CASE FirstConnectFails
  BY <1>3 DEF FirstConnectFails, SentInv
<1>4. CASE OnAnswer
  <2>1. Elements(replies) = {Head(replies)} \cup Elements(replies')
    BY <1>4, TailElements DEF OnAnswer, TypeOK
  <2>2. CASE swallow /\ Head(replies) = Initialize
    <3> DEFINE s == IF Initialized \in sent THEN <<Initialized>> ELSE << >>
    <3>1. s \in Seq(Messages) /\ Elements(s) \subseteq sent
      BY <1>0, SmallElements
    <3>2. FlushBehind(s, wire, opening) /\ UNCHANGED <<sent, serving, answered>>
      BY <1>4, <2>2 DEF OnAnswer
    <3> HIDE DEF s
    <3> QED BY <2>1, <3>1, <3>2, Flushed, SmallElements DEF SentInv, TypeOK
  <2>3. CASE ~(swallow /\ Head(replies) = Initialize)
    BY <1>4, <2>1, <2>3 DEF OnAnswer, SentInv
  <2> QED BY <2>2, <2>3
<1>5. CASE OnClose
  BY <1>5, SmallElements DEF OnClose, SentInv
<1>6. CASE DaemonReads
  <2>1. Elements(wire) = {Head(wire)} \cup Elements(wire')
    BY <1>6, TailElements DEF DaemonReads, TypeOK
  <2> QED BY <1>6, <2>1 DEF DaemonReads, SentInv
<1>7. ASSUME NEW i \in Ids, DaemonAnswers(i) PROVE SentInv'
  <2>1. Elements(replies') = Elements(replies) \cup {i}
    BY <1>7, AppendElements DEF DaemonAnswers, TypeOK
  <2> QED BY <1>7, <2>1 DEF DaemonAnswers, SentInv
<1>8. CASE DaemonCloses
  BY <1>8, SmallElements DEF DaemonCloses, SentInv
<1>9. CASE UNCHANGED vars
  BY <1>9 DEF vars, SentInv
<1> QED BY <1>1, <1>2, <1>3, <1>4, <1>5, <1>6, <1>7, <1>8, <1>9 DEF Next

-----------------------------------------------------------------------------
(***************************************************************************)
(* Once.                                                                   *)
(***************************************************************************)
LEMMA PutOnce ==
  ASSUME OnceInv, NEW s \in Seq(Messages), NEW before, NEW first, Put(s, before, first),
         Once(s), \A m \in Elements(s) : m \in Requests => m \notin written
  PROVE  twice' = {}
<1>1. ASSUME NEW m \in Requests, NEW k \in DOMAIN s, s[k] = m
      PROVE  m \notin written /\ ~(\E j \in 1 .. k - 1 : s[j] = m)
  <2>1. m \notin written
    BY <1>1 DEF Elements
  <2>2. ASSUME NEW j \in 1 .. k - 1, s[j] = m PROVE FALSE
    <3>1. k \in 1 .. Len(s) /\ Len(s) \in Nat /\ DOMAIN s = 1 .. Len(s)
      OBVIOUS
    <3>2. j \in DOMAIN s /\ j # k
      BY <3>1
    <3> QED BY <1>1, <2>2, <3>2 DEF Once
  <2> QED BY <2>1, <2>2
<1> QED BY <1>1 DEF Put, OnceInv

(* A new message behind the queue, and one of the shim's before it.        *)
LEMMA OnceAppend ==
  ASSUME NEW s \in Seq(Messages), NEW m \in Messages, Once(s), m \notin Elements(s)
  PROVE  Once(Append(s, m))
<1>1. /\ Append(s, m) \in Seq(Messages) /\ Len(s) \in Nat
      /\ DOMAIN Append(s, m) = 1 .. Len(s) + 1
      /\ Append(s, m)[Len(s) + 1] = m
      /\ \A k \in 1 .. Len(s) : Append(s, m)[k] = s[k] /\ k \in DOMAIN s /\ s[k] # m
  BY DEF Elements
<1> QED BY <1>1 DEF Once

LEMMA OncePrepend ==
  ASSUME NEW s \in Seq(Messages), NEW t \in Seq(Messages), Once(s),
         t = << >> \/ t = <<Initialized>>
  PROVE  Once(t \o s)
<1>1. CASE t = << >>
  <2>1. t \o s = s
    BY <1>1
  <2> QED BY <2>1
<1>2. CASE t = <<Initialized>>
  <2>1. Initialized \notin Requests
    BY MessagesAssumption
  <2>2. /\ Len(s) \in Nat /\ DOMAIN s = 1 .. Len(s)
        /\ DOMAIN (t \o s) = 1 .. Len(s) + 1
        /\ (t \o s)[1] = Initialized
        /\ \A k \in 2 .. Len(s) + 1 : (t \o s)[k] = s[k - 1] /\ k - 1 \in DOMAIN s
    BY <1>2
  <2>3. SUFFICES ASSUME NEW j \in 1 .. Len(s) + 1, NEW k \in 1 .. Len(s) + 1,
                        (t \o s)[j] = (t \o s)[k], (t \o s)[j] \in Requests
                 PROVE  j = k
    BY <2>2 DEF Once
  <2>4. j \in 2 .. Len(s) + 1 /\ k \in 2 .. Len(s) + 1
    BY <2>1, <2>2, <2>3
  <2>5. j - 1 = k - 1
    BY <2>2, <2>3, <2>4 DEF Once
  <2> QED BY <2>4, <2>5
<1> QED BY <1>1, <1>2

LEMMA FlushOnce ==
  ASSUME TypeOK, OnceInv, NEW s \in Seq(Messages), NEW before, NEW first,
         s = << >> \/ s = <<Initialized>>, FlushBehind(s, before, first)
  PROVE  OnceInv'
<1> DEFINE all == s \o queue
<1>1. all \in Seq(Messages) /\ Once(all) /\ Put(all, before, first) /\ queue' = << >>
  BY OncePrepend DEF FlushBehind, TypeOK, OnceInv
<1>2. Elements(all) = Elements(s) \cup Elements(queue)
  BY ConcatElements DEF TypeOK
<1>3. Elements(s) \subseteq {Initialized} /\ Initialized \notin Requests
  BY SmallElements, MessagesAssumption
<1>4. \A m \in Elements(all) : m \in Requests => m \notin written
  BY <1>2, <1>3 DEF OnceInv
<1> HIDE DEF all
<1>5. twice' = {}
  BY <1>1, <1>4, PutOnce
<1>6. Once(queue') /\ Elements(queue') = {}
  BY <1>1, SmallElements DEF Once
<1> QED BY <1>5, <1>6 DEF OnceInv

LEMMA OnceNext == TypeOK /\ SentInv /\ OnceInv /\ [Next]_vars => OnceInv'
<1> SUFFICES ASSUME TypeOK, SentInv, OnceInv, [Next]_vars PROVE OnceInv'
  OBVIOUS
<1> USE DEF socket, shim, client, history
<1>0. /\ Initialize \in Messages /\ Initialized \in Messages /\ << >> \in Seq(Messages)
      /\ Initialize \notin Requests
  BY MessagesAssumption DEF Messages, Ids
<1>1. ASSUME NEW m \in Messages, OnMessage(m) PROVE OnceInv'
  <2>1. m \notin sent /\ m \notin written /\ m \notin Elements(queue)
    BY <1>1, FirstIsInitialize DEF OnMessage, SentInv
  <2>2. CASE link = "open"
    <3>1. Put(<<m>>, wire, opening) /\ queue' = queue
      BY <1>1, <2>2 DEF OnMessage, ToDaemon
    <3>2. <<m>> \in Seq(Messages) /\ Once(<<m>>)
      BY DEF Once
    <3>3. twice' = {}
      <4>1. \A n \in Elements(<<m>>) : n \in Requests => n \notin written
        BY <2>1, SmallElements
      <4> QED BY <3>1, <3>2, <4>1, PutOnce
    <3>4. written' = written \cup {m}
      BY <3>1, PutOne DEF TypeOK
    <3> QED BY <2>1, <3>1, <3>3, <3>4 DEF OnceInv
  <2>3. CASE link # "open"
    <3>1. queue' = Append(queue, m) /\ UNCHANGED <<written, twice>>
      BY <1>1, <2>3 DEF OnMessage, ToDaemon
    <3>2. Once(queue')
      BY <2>1, <3>1, OnceAppend DEF OnceInv, TypeOK
    <3> QED BY <2>1, <3>1, <3>2, Queued DEF OnceInv
  <2> QED BY <2>2, <2>3
<1>2. CASE Connect
  <2>1. CASE ~fresh /\ Initialize \in sent
    <3>1. Put(<<Initialize>>, << >>, Nothing) /\ queue' = queue
      BY <1>2, <2>1 DEF Connect
    <3>2. <<Initialize>> \in Seq(Messages) /\ Once(<<Initialize>>)
      BY <1>0 DEF Once
    <3>3. twice' = {}
      BY <1>0, <3>1, <3>2, PutOnce, SmallElements
    <3>4. written' = written \cup {Initialize}
      BY <1>0, <3>1, PutOne
    <3> QED BY <1>0, <3>1, <3>3, <3>4 DEF OnceInv
  <2>2. CASE ~(~fresh /\ Initialize \in sent)
    BY <1>0, <1>2, <2>2, FlushOnce DEF Connect
  <2> QED BY <2>1, <2>2
<1>3. CASE FirstConnectFails
  BY <1>3 DEF FirstConnectFails, OnceInv
<1>4. CASE OnAnswer
  <2>1. CASE swallow /\ Head(replies) = Initialize
    <3> DEFINE s == IF Initialized \in sent THEN <<Initialized>> ELSE << >>
    <3>1. s \in Seq(Messages) /\ (s = << >> \/ s = <<Initialized>>)
      BY <1>0
    <3>2. FlushBehind(s, wire, opening)
      BY <1>4, <2>1 DEF OnAnswer
    <3> HIDE DEF s
    <3> QED BY <3>1, <3>2, FlushOnce
  <2>2. CASE ~(swallow /\ Head(replies) = Initialize)
    BY <1>4, <2>2 DEF OnAnswer, OnceInv
  <2> QED BY <2>1, <2>2
<1>5. CASE OnClose
  BY <1>5 DEF OnClose, OnceInv
<1>6. CASE DaemonReads
  BY <1>6 DEF DaemonReads, OnceInv
<1>7. ASSUME NEW i \in Ids, DaemonAnswers(i) PROVE OnceInv'
  BY <1>7 DEF DaemonAnswers, OnceInv
<1>8. CASE DaemonCloses
  BY <1>8 DEF DaemonCloses, OnceInv
<1>9. CASE UNCHANGED vars
  BY <1>9 DEF vars, OnceInv
<1> QED BY <1>1, <1>2, <1>3, <1>4, <1>5, <1>6, <1>7, <1>8, <1>9 DEF Next

-----------------------------------------------------------------------------
(***************************************************************************)
(* initialize first, and a queue that does not stay.                       *)
(***************************************************************************)
(* What is put behind the others leaves the head alone, if there is one.   *)
LEMMA AppendHead ==
  ASSUME NEW s \in Seq(Messages), NEW m \in Messages
  PROVE  /\ Append(s, m) # << >>
         /\ s = << >> => Head(Append(s, m)) = m
         /\ s # << >> => Head(Append(s, m)) = Head(s)
  OBVIOUS

(* What a flush writes first, and that it empties the queue.               *)
LEMMA FlushOpening ==
  ASSUME TypeOK, NEW before, NEW first \in Messages, NEW s, FlushBehind(s, before, first)
  PROVE  opening' = first /\ queue' = << >>
<1>1. first # Nothing
  BY MessagesAssumption DEF Messages, Ids
<1> QED BY <1>1 DEF FlushBehind, Put

(* Every step keeps initialize in front, and the queue for a handshake.    *)
LEMMA OpeningNext ==
  TypeOK /\ SentInv /\ OpeningInv /\ QueueInv /\ [Next]_vars => OpeningInv' /\ QueueInv'
<1> SUFFICES ASSUME TypeOK, SentInv, OpeningInv, QueueInv, [Next]_vars
             PROVE  OpeningInv' /\ QueueInv'
  OBVIOUS
<1> USE DEF socket, shim, client, history
<1>0. /\ Initialize \in Messages /\ Initialize # Nothing
      /\ << >> \in Seq(Messages) /\ sent \subseteq Messages
  BY MessagesAssumption DEF Messages, Ids, TypeOK
<1>1. ASSUME NEW m \in Messages, OnMessage(m) PROVE OpeningInv' /\ QueueInv'
  <2>1. m = Initialize \/ Initialize \in sent
    BY <1>1, FirstIsInitialize DEF OnMessage
  <2>2. sent' = sent \cup {m} /\ UNCHANGED <<link, fresh, swallow>>
    BY <1>1 DEF OnMessage
  <2>3. CASE link = "open"
    <3>1. Put(<<m>>, wire, opening) /\ queue' = queue
      BY <1>1, <2>3 DEF OnMessage, ToDaemon
    <3>2. opening' = IF opening = Nothing THEN m ELSE opening
      BY <3>1, PutOne DEF TypeOK
    <3> QED BY <1>0, <2>1, <2>2, <2>3, <3>1, <3>2 DEF OpeningInv, QueueInv
  <2>4. CASE link # "open"
    <3>1. queue' = Append(queue, m) /\ opening' = opening
      BY <1>1, <2>4 DEF OnMessage, ToDaemon
    <3>2. /\ queue' # << >>
          /\ queue = << >> => Head(queue') = m
          /\ queue # << >> => Head(queue') = Head(queue)
      <4>1. queue \in Seq(Messages)
        BY DEF TypeOK
      <4> QED BY <3>1, <4>1, AppendHead
    <3>3. fresh' => queue' # << >> /\ Head(queue') = Initialize
      BY <2>1, <2>2, <3>2 DEF OpeningInv
    <3> QED BY <2>2, <2>4, <3>1, <3>3 DEF OpeningInv, QueueInv
  <2> QED BY <2>3, <2>4
<1>2. CASE Connect
  <2>1. ~fresh' /\ link' = "open" /\ sent' = sent
    BY <1>2 DEF Connect
  <2>2. CASE ~fresh /\ Initialize \in sent
    <3>1. Put(<<Initialize>>, << >>, Nothing) /\ swallow'
      BY <1>2, <2>2 DEF Connect
    <3>2. opening' = Initialize
      BY <1>0, <3>1, PutOne
    <3> QED BY <1>0, <2>1, <2>2, <3>1, <3>2 DEF OpeningInv, QueueInv
  <2>3. CASE ~(~fresh /\ Initialize \in sent)
    <3>1. FlushBehind(<< >>, << >>, Nothing) /\ swallow' = swallow
      BY <1>2, <2>3 DEF Connect
    <3>2. << >> \o queue = queue
      BY DEF TypeOK
    <3>3. queue' = << >> /\ opening' = IF queue # << >> THEN Head(queue) ELSE Nothing
      BY <3>1, <3>2 DEF FlushBehind, Put
    <3>4. CASE fresh
      BY <1>0, <2>1, <3>1, <3>3, <3>4 DEF OpeningInv, QueueInv
    <3>5. CASE ~fresh
      <4>1. Initialize \notin sent /\ sent = {}
        BY <2>3, <3>5 DEF SentInv
      <4>2. queue = << >>
        <5>1. queue # << >> => Head(queue) \in Elements(queue)
          BY TailElements DEF TypeOK
        <5> QED BY <4>1, <5>1 DEF SentInv
      <4> QED BY <2>1, <3>1, <3>3, <4>1, <4>2 DEF OpeningInv, QueueInv
    <3> QED BY <3>4, <3>5
  <2> QED BY <2>2, <2>3
<1>3. CASE FirstConnectFails
  BY <1>3 DEF FirstConnectFails, OpeningInv, QueueInv
<1>4. CASE OnAnswer
  <2>1. ~fresh /\ UNCHANGED <<link, fresh, sent>> /\ link = "open"
    BY <1>4 DEF OnAnswer, OpeningInv
  <2>2. CASE swallow /\ Head(replies) = Initialize
    <3>1. opening \in Messages
      BY <1>0, <2>1, <2>2 DEF OpeningInv
    <3>2. ~swallow' /\ \E s : FlushBehind(s, wire, opening)
      BY <1>4, <2>2 DEF OnAnswer
    <3>3. opening' = opening /\ queue' = << >>
      BY <3>1, <3>2, FlushOpening
    <3> QED BY <2>1, <3>2, <3>3 DEF OpeningInv, QueueInv
  <2>3. CASE ~(swallow /\ Head(replies) = Initialize)
    BY <1>4, <2>1, <2>3 DEF OnAnswer, OpeningInv, QueueInv
  <2> QED BY <2>2, <2>3
<1>5. CASE OnClose
  BY <1>5 DEF OnClose, OpeningInv, QueueInv
<1>6. CASE DaemonReads
  BY <1>6 DEF DaemonReads, OpeningInv, QueueInv
<1>7. ASSUME NEW i \in Ids, DaemonAnswers(i) PROVE OpeningInv' /\ QueueInv'
  BY <1>7 DEF DaemonAnswers, OpeningInv, QueueInv
<1>8. CASE DaemonCloses
  BY <1>8 DEF DaemonCloses, OpeningInv, QueueInv
<1>9. CASE UNCHANGED vars
  BY <1>9 DEF vars, OpeningInv, QueueInv
<1> QED BY <1>1, <1>2, <1>3, <1>4, <1>5, <1>6, <1>7, <1>8, <1>9 DEF Next

-----------------------------------------------------------------------------
(***************************************************************************)
(* Nothing is forgotten.                                                   *)
(***************************************************************************)
LEMMA ForgottenNext ==
  IInv /\ [Next]_vars => SwallowInv' /\ Kept'
<1> SUFFICES ASSUME IInv, [Next]_vars PROVE SwallowInv' /\ Kept'
  OBVIOUS
<1> USE DEF socket, shim, client, history, IInv
<1>0. /\ Initialize \in Messages /\ Initialized \in Messages /\ Ids \subseteq Messages
      /\ << >> \in Seq(Messages) /\ Initialize \in Ids
  BY DEF Messages, Ids
<1>1. ASSUME NEW m \in Messages, OnMessage(m) PROVE SwallowInv' /\ Kept'
  <2>1. m = Initialize => ~swallow
    BY <1>1 DEF OnMessage, Ready, OpeningInv
  <2>2. /\ waiting' = waiting \cup ({m} \cap Ids)
        /\ UNCHANGED <<link, swallow, serving, replies>>
    BY <1>1 DEF OnMessage
  <2>3. CASE link = "open"
    <3>1. Elements(wire') = Elements(wire) \cup {m} /\ queue' = queue
      BY <1>1, <2>3, PutOne DEF OnMessage, ToDaemon, TypeOK
    <3> QED BY <2>1, <2>2, <2>3, <3>1 DEF SwallowInv, Kept
  <2>4. CASE link # "open"
    <3>1. Elements(queue') = Elements(queue) \cup {m}
      BY <1>1, <2>4, Queued DEF OnMessage, ToDaemon
    <3> QED BY <2>2, <2>4, <3>1 DEF SwallowInv, Kept
  <2> QED BY <2>3, <2>4
<1>2. CASE Connect
  <2>1. link = "down" /\ link' = "open" /\ UNCHANGED <<waiting, serving, replies>>
    BY <1>2 DEF Connect
  <2>2. waiting \subseteq Elements(queue)
    BY <2>1 DEF Kept
  <2>3. CASE ~fresh /\ Initialize \in sent
    <3>1. queue' = queue
      BY <1>2, <2>3 DEF Connect
    <3> QED BY <2>1, <2>2, <3>1 DEF SwallowInv, Kept
  <2>4. CASE ~(~fresh /\ Initialize \in sent)
    <3>1. FlushBehind(<< >>, << >>, Nothing) /\ swallow' = swallow
      BY <1>2, <2>4 DEF Connect
    <3>2. Elements(wire') = Elements(<< >>) \cup Elements(<< >>) \cup Elements(queue)
      BY <1>0, <3>1, Flushed
    <3>3. ~swallow
      BY <2>4 DEF OpeningInv
    <3> QED BY <2>1, <2>2, <3>1, <3>2, <3>3 DEF SwallowInv, Kept
  <2> QED BY <2>3, <2>4
<1>3. CASE FirstConnectFails
  BY <1>3 DEF FirstConnectFails, SwallowInv, Kept
<1>4. CASE OnAnswer
  <2>1. /\ link = "open" /\ UNCHANGED <<link, serving>>
        /\ Elements(replies) = {Head(replies)} \cup Elements(replies')
    BY <1>4, TailElements DEF OnAnswer, TypeOK
  <2>2. CASE swallow /\ Head(replies) = Initialize
    <3> DEFINE s == IF Initialized \in sent THEN <<Initialized>> ELSE << >>
    <3>1. s \in Seq(Messages)
      BY <1>0
    <3>2. FlushBehind(s, wire, opening) /\ waiting' = waiting /\ ~swallow'
      BY <1>4, <2>2 DEF OnAnswer
    <3> HIDE DEF s
    <3>3. Elements(wire) \cup Elements(queue) \subseteq Elements(wire')
      BY <3>1, <3>2, Flushed DEF TypeOK
    <3> QED BY <2>1, <2>2, <3>2, <3>3 DEF SwallowInv, Kept
  <2>3. CASE ~(swallow /\ Head(replies) = Initialize)
    BY <1>4, <2>1, <2>3 DEF OnAnswer, SwallowInv, Kept
  <2> QED BY <2>2, <2>3
<1>5. CASE OnClose
  BY <1>5 DEF OnClose, SwallowInv, Kept
<1>6. CASE DaemonReads
  <2>1. Elements(wire) = {Head(wire)} \cup Elements(wire')
    BY <1>6, TailElements DEF DaemonReads, TypeOK
  <2> QED BY <1>6, <2>1 DEF DaemonReads, SwallowInv, Kept, TypeOK
<1>7. ASSUME NEW i \in Ids, DaemonAnswers(i) PROVE SwallowInv' /\ Kept'
  <2>1. Elements(replies') = Elements(replies) \cup {i}
    BY <1>7, AppendElements DEF DaemonAnswers, TypeOK
  <2> QED BY <1>7, <2>1 DEF DaemonAnswers, SwallowInv, Kept
<1>8. CASE DaemonCloses
  BY <1>8 DEF DaemonCloses, SwallowInv, Kept
<1>9. CASE UNCHANGED vars
  BY <1>9 DEF vars, SwallowInv, Kept
<1> QED BY <1>1, <1>2, <1>3, <1>4, <1>5, <1>6, <1>7, <1>8, <1>9 DEF Next

-----------------------------------------------------------------------------
(***************************************************************************)
(* The theorems.                                                           *)
(***************************************************************************)
LEMMA InitIInv == Init => IInv
<1> SUFFICES ASSUME Init PROVE IInv
  OBVIOUS
<1>1. TypeOK
  <2>1. << >> \in Seq(Messages) /\ << >> \in Seq(Ids) /\ 0 \in 0 .. MaxLosses
    BY MaxLossesAssumption
  <2>2. /\ sent \subseteq Messages /\ waiting \subseteq Ids /\ serving \subseteq Ids
        /\ answered \subseteq Ids /\ lost \subseteq Ids
        /\ written \subseteq Messages /\ twice \subseteq Requests
    BY DEF Init
  <2> QED BY <2>1, <2>2 DEF Init, TypeOK
<1>2. SentInv /\ OpeningInv /\ SwallowInv /\ Kept /\ QueueInv
  BY SmallElements DEF Init, SentInv, OpeningInv, SwallowInv, Kept, QueueInv
<1>3. OnceInv
  BY SmallElements DEF Init, OnceInv, Once
<1> QED BY <1>1, <1>2, <1>3 DEF IInv

LEMMA NextIInv == IInv /\ [Next]_vars => IInv'
BY TypeNext, SentNext, OnceNext, OpeningNext, ForgottenNext DEF IInv

LEMMA Inductive == Spec => []IInv
BY InitIInv, NextIInv, PTL DEF Spec

(* The shim, its socket and the client keep their shape.                   *)
THEOREM TypeCorrect == Spec => []TypeOK
BY Inductive, PTL DEF IInv

(* No request of the client is ever written to a daemon a second time.     *)
THEOREM RequestsOnce == Spec => []WrittenOnce
<1>1. IInv => WrittenOnce
  BY DEF IInv, OnceInv, WrittenOnce
<1> QED BY <1>1, Inductive, PTL

(* On every socket initialize goes first.                                  *)
THEOREM InitializedFirst == Spec => []InitializeFirst
<1>1. IInv => InitializeFirst
  BY DEF IInv, OpeningInv, InitializeFirst
<1> QED BY <1>1, Inductive, PTL

(* What the client waits on is queued, with the daemon, or being lost, and *)
(* an initialized socket leaves nothing in the queue.                      *)
THEOREM Remembered == Spec => []NothingForgotten
<1>1. IInv => NothingForgotten
  BY DEF IInv, QueueInv, NothingForgotten
<1> QED BY <1>1, Inductive, PTL

-----------------------------------------------------------------------------
(***************************************************************************)
(* The account of the requests: where each one is, and what the client was *)
(* told of it.                                                             *)
(***************************************************************************)
OnSocket == Elements(wire) \cup serving \cup Elements(replies)

(* A request is in one place on the socket, once; one that is anywhere is    *)
(* waited on or was told lost, and has not been answered; and one that is    *)
(* waited on was told nothing yet.                                           *)
PlaceInv ==
  /\ Once(wire) /\ Once(replies)
  /\ \A r \in Requests :
       /\ r \in Elements(wire) => r \notin serving /\ r \notin Elements(replies)
       /\ r \in serving => r \notin Elements(replies)
       /\ r \in OnSocket => r \in written

ToldInv ==
  /\ waiting \cup lost \subseteq sent
  /\ \A r \in Requests :
       /\ r \in Elements(queue) \cup OnSocket => r \in waiting \cup lost /\ r \notin answered
       /\ r \in waiting => r \notin answered /\ r \notin lost

(* What is taken off the head of a sequence is not in what remains of it.    *)
LEMMA OnceTail ==
  ASSUME NEW S, NEW s \in Seq(S), s # << >>, Once(s)
  PROVE  /\ Once(Tail(s))
         /\ Head(s) \in Requests => Head(s) \notin Elements(Tail(s))
<1>1. /\ Len(s) \in Nat \ {0} /\ DOMAIN s = 1 .. Len(s) /\ Head(s) = s[1]
      /\ DOMAIN Tail(s) = 1 .. Len(s) - 1
      /\ \A k \in 1 .. Len(s) - 1 : Tail(s)[k] = s[k + 1]
  OBVIOUS
<1>2. \A k \in 1 .. Len(s) - 1 : k + 1 \in DOMAIN s /\ k + 1 # 1
  BY <1>1
<1>3. ASSUME NEW j \in 1 .. Len(s) - 1, NEW k \in 1 .. Len(s) - 1,
             Tail(s)[j] = Tail(s)[k], Tail(s)[j] \in Requests
      PROVE  j = k
  <2>1. s[j + 1] = s[k + 1] /\ s[j + 1] \in Requests
    BY <1>1, <1>3
  <2>2. j + 1 = k + 1
    BY <1>2, <2>1 DEF Once
  <2> QED BY <2>2
<1>4. ASSUME NEW k \in 1 .. Len(s) - 1, s[1] = Tail(s)[k], s[1] \in Requests
      PROVE  FALSE
  <2>1. s[k + 1] = s[1] /\ 1 \in DOMAIN s
    BY <1>1, <1>4
  <2> QED BY <1>2, <1>4, <2>1 DEF Once
<1> QED BY <1>1, <1>3, <1>4 DEF Once, Elements

(* Two sequences that share no request, one behind the other.                *)
LEMMA OnceConcat ==
  ASSUME NEW S, NEW s \in Seq(S), NEW t \in Seq(S), Once(s), Once(t),
         \A r \in Requests : r \in Elements(s) => r \notin Elements(t)
  PROVE  Once(s \o t)
<1>1. /\ Len(s) \in Nat /\ Len(t) \in Nat /\ DOMAIN s = 1 .. Len(s) /\ DOMAIN t = 1 .. Len(t)
      /\ DOMAIN (s \o t) = 1 .. Len(s) + Len(t)
      /\ \A k \in 1 .. Len(s) + Len(t) :
           (s \o t)[k] = IF k <= Len(s) THEN s[k] ELSE t[k - Len(s)]
  OBVIOUS
<1> DEFINE u == s \o t
<1>2. \A k \in DOMAIN u : k <= Len(s) => k \in DOMAIN s /\ u[k] = s[k] /\ u[k] \in Elements(s)
  BY <1>1 DEF Elements
<1>3. \A k \in DOMAIN u : ~(k <= Len(s)) =>
        k - Len(s) \in DOMAIN t /\ u[k] = t[k - Len(s)] /\ u[k] \in Elements(t)
  BY <1>1 DEF Elements
<1>4. DOMAIN u \subseteq Nat
  BY <1>1
<1> HIDE DEF u
<1>5. ASSUME NEW j \in DOMAIN u, NEW k \in DOMAIN u, u[j] = u[k], u[j] \in Requests
      PROVE  j = k
  <2>1. CASE j <= Len(s) /\ k <= Len(s)
    BY <1>2, <1>5, <2>1 DEF Once
  <2>2. CASE ~(j <= Len(s)) /\ ~(k <= Len(s))
    <3>1. j - Len(s) = k - Len(s)
      BY <1>3, <1>5, <2>2 DEF Once
    <3> QED BY <1>1, <1>4, <3>1
  <2>3. CASE (j <= Len(s)) # (k <= Len(s))
    BY <1>2, <1>3, <1>5, <2>3
  <2> QED BY <2>1, <2>2, <2>3
<1>6. Once(u)
  BY <1>5 DEF Once
<1> QED BY <1>6 DEF u

(* A flush moves the queue to the end of the wire.                           *)
LEMMA FlushPlace ==
  ASSUME TypeOK, OnceInv, PlaceInv, NEW s \in Seq(Messages),
         s = << >> \/ s = <<Initialized>>, NEW before \in Seq(Messages), NEW first,
         Once(before), Elements(before) \subseteq Elements(wire), FlushBehind(s, before, first)
  PROVE  /\ Once(wire') /\ Elements(queue') = {}
         /\ \A r \in Requests :
              /\ r \in Elements(wire') <=> r \in Elements(before) \/ r \in Elements(queue)
              /\ r \in Elements(queue) => r \in written' /\ r \notin written
         /\ written \subseteq written'
<1> DEFINE all == s \o queue
<1>1. all \in Seq(Messages) /\ Once(all) /\ wire' = before \o all /\ queue' = << >>
  BY OncePrepend DEF FlushBehind, Put, TypeOK, OnceInv
<1>2. Elements(all) = Elements(s) \cup Elements(queue)
  BY ConcatElements DEF TypeOK
<1>3. \A r \in Requests : r \notin Elements(s)
  BY SmallElements, MessagesAssumption
<1> HIDE DEF all
<1>4. \A r \in Requests : r \in Elements(before) => r \notin Elements(all)
  BY <1>2, <1>3 DEF OnceInv, PlaceInv, OnSocket
<1>5. Once(wire')
  BY <1>1, <1>4, OnceConcat
<1>6. /\ Elements(wire') = Elements(before) \cup Elements(s) \cup Elements(queue)
      /\ written' = written \cup Elements(s) \cup Elements(queue)
  BY Flushed
<1> QED BY <1>1, <1>3, <1>5, <1>6, SmallElements DEF OnceInv

AccountInv == TypeOK /\ SentInv /\ OnceInv /\ PlaceInv /\ ToldInv

(* Every step keeps the account.                                             *)
LEMMA AccountNext == AccountInv /\ [Next]_vars => (PlaceInv /\ ToldInv)'
<1> SUFFICES ASSUME TypeOK, SentInv, OnceInv, PlaceInv, ToldInv, [Next]_vars
             PROVE  (PlaceInv /\ ToldInv)'
  BY DEF AccountInv
<1> USE DEF socket, shim, client, history
<1>0. /\ Initialize \in Messages /\ Initialized \in Messages /\ << >> \in Seq(Messages)
      /\ Initialize \notin Requests /\ Requests \subseteq Messages /\ Requests \subseteq Ids
      /\ Initialized \notin Requests /\ Once(<< >>) /\ Elements(<< >>) = {}
  BY MessagesAssumption, SmallElements DEF Messages, Ids, Once
<1>1. ASSUME NEW m \in Messages, OnMessage(m) PROVE (PlaceInv /\ ToldInv)'
  <2>1. /\ m \notin sent /\ sent' = sent \cup {m}
        /\ waiting' = waiting \cup ({m} \cap Ids)
        /\ UNCHANGED <<serving, replies, answered, lost>>
    BY <1>1 DEF OnMessage, Ready
  <2>2. m \notin Elements(queue) \cup OnSocket \cup written \cup answered
    BY <2>1 DEF SentInv, OnSocket
  <2>3. CASE link = "open"
    <3>1. Put(<<m>>, wire, opening) /\ queue' = queue /\ wire' = wire \o <<m>>
      BY <1>1, <2>3 DEF OnMessage, ToDaemon, Put
    <3>2. Elements(wire') = Elements(wire) \cup {m} /\ written' = written \cup {m}
      BY <3>1, PutOne DEF TypeOK
    <3>3. <<m>> \in Seq(Messages) /\ Once(<<m>>) /\ Elements(<<m>>) = {m}
      BY SmallElements DEF Once
    <3>4. Once(wire')
      <4>1. \A r \in Requests : r \in Elements(wire) => r \notin Elements(<<m>>)
        BY <2>2, <3>3 DEF OnSocket
      <4> DEFINE t == <<m>>
      <4>2. t \in Seq(Messages) /\ Once(t) /\ wire' = wire \o t
            /\ \A r \in Requests : r \in Elements(wire) => r \notin Elements(t)
        BY <3>1, <3>3, <4>1
      <4> HIDE DEF t
      <4> QED BY <4>2, OnceConcat DEF PlaceInv, TypeOK
    <3>5. PlaceInv'
      BY <2>1, <2>2, <3>2, <3>4 DEF PlaceInv, OnSocket
    <3>6. ToldInv'
      BY <1>0, <2>1, <2>2, <3>1, <3>2 DEF ToldInv, OnSocket
    <3> QED BY <3>5, <3>6
  <2>4. CASE link # "open"
    <3>1. queue' = Append(queue, m) /\ UNCHANGED <<wire, written>>
      BY <1>1, <2>4 DEF OnMessage, ToDaemon
    <3>2. Elements(queue') = Elements(queue) \cup {m}
      BY <3>1, Queued
    <3> QED BY <1>0, <2>1, <2>2, <3>1, <3>2 DEF PlaceInv, ToldInv, OnSocket
  <2> QED BY <2>3, <2>4
<1>2. CASE Connect
  <2>1. UNCHANGED <<serving, replies, waiting, sent, answered, lost>>
    BY <1>2 DEF Connect
  <2>2. CASE ~fresh /\ Initialize \in sent
    <3>1. Put(<<Initialize>>, << >>, Nothing) /\ queue' = queue
      BY <1>2, <2>2 DEF Connect
    <3>2. Elements(wire') = {Initialize} /\ written' = written \cup {Initialize}
      BY <1>0, <3>1, PutOne
    <3>3. wire' = <<Initialize>>
      BY <1>0, <3>1 DEF Put
    <3>4. Once(wire')
      BY <1>0, <3>3 DEF Once
    <3> QED BY <1>0, <2>1, <3>1, <3>2, <3>4 DEF PlaceInv, ToldInv, OnSocket
  <2>3. CASE ~(~fresh /\ Initialize \in sent)
    <3>1. FlushBehind(<< >>, << >>, Nothing)
      BY <1>2, <2>3 DEF Connect
    <3>2. /\ Once(wire') /\ Elements(queue') = {}
          /\ \A r \in Requests :
               /\ r \in Elements(wire') <=> r \in Elements(<< >>) \/ r \in Elements(queue)
               /\ r \in Elements(queue) => r \in written' /\ r \notin written
          /\ written \subseteq written'
      BY <1>0, <3>1, FlushPlace
    <3>3. \A r \in Requests : r \in Elements(wire') => r \notin serving /\ r \notin Elements(replies)
      BY <1>0, <3>2 DEF PlaceInv, OnSocket
    <3> QED BY <1>0, <2>1, <3>2, <3>3 DEF PlaceInv, ToldInv, OnSocket
  <2> QED BY <2>2, <2>3
<1>3. CASE FirstConnectFails
  BY <1>3 DEF FirstConnectFails, PlaceInv, ToldInv, OnSocket
<1>4. CASE OnAnswer
  <2>1. /\ Once(replies') /\ replies' = Tail(replies) /\ Head(replies) \in Ids
        /\ Elements(replies) = {Head(replies)} \cup Elements(replies')
        /\ Head(replies) \in Requests => Head(replies) \notin Elements(replies')
    BY <1>4, OnceTail, TailElements DEF OnAnswer, PlaceInv, TypeOK
  <2>2. UNCHANGED <<serving, sent, lost>>
    BY <1>4 DEF OnAnswer
  <2>3. CASE swallow /\ Head(replies) = Initialize
    <3> DEFINE s == IF Initialized \in sent THEN <<Initialized>> ELSE << >>
    <3>1. s \in Seq(Messages) /\ (s = << >> \/ s = <<Initialized>>)
      BY <1>0
    <3>2. FlushBehind(s, wire, opening) /\ UNCHANGED <<waiting, answered>>
      BY <1>4, <2>3 DEF OnAnswer
    <3> HIDE DEF s
    <3>3. /\ Once(wire') /\ Elements(queue') = {}
          /\ \A r \in Requests :
               /\ r \in Elements(wire') <=> r \in Elements(wire) \/ r \in Elements(queue)
               /\ r \in Elements(queue) => r \in written' /\ r \notin written
          /\ written \subseteq written'
      BY <3>1, <3>2, FlushPlace DEF PlaceInv, TypeOK
    <3>4. PlaceInv'
      BY <2>1, <2>2, <3>3 DEF PlaceInv, OnSocket
    <3>5. ToldInv'
      BY <2>1, <2>2, <3>2, <3>3 DEF ToldInv, OnSocket
    <3> QED BY <3>4, <3>5
  <2>4. CASE ~(swallow /\ Head(replies) = Initialize)
    <3>1. /\ waiting' = waiting \ {Head(replies)}
          /\ answered' = answered \cup {Head(replies)}
          /\ UNCHANGED <<queue, wire, written>>
      BY <1>4, <2>4 DEF OnAnswer
    <3>2. Head(replies) \in Requests =>
            /\ Head(replies) \in written
            /\ Head(replies) \notin Elements(queue) \cup Elements(wire) \cup serving
      BY <2>1 DEF PlaceInv, OnSocket, OnceInv
    <3>3. PlaceInv'
      BY <2>1, <2>2, <3>1 DEF PlaceInv, OnSocket
    <3>4. ToldInv'
      BY <2>1, <2>2, <3>1, <3>2 DEF ToldInv, OnSocket
    <3> QED BY <3>3, <3>4
  <2> QED BY <2>3, <2>4
<1>5. CASE OnClose
  <2>1. /\ lost' = lost \cup waiting /\ waiting' = {}
        /\ wire' = << >> /\ serving' = {} /\ replies' = << >>
        /\ UNCHANGED <<queue, sent, answered, written>>
    BY <1>5 DEF OnClose
  <2>2. OnSocket' = {} /\ Once(wire') /\ Once(replies')
    BY <1>0, <2>1 DEF OnSocket
  <2>3. PlaceInv'
    BY <1>0, <2>1, <2>2 DEF PlaceInv
  <2>4. ToldInv'
    BY <2>1, <2>2 DEF ToldInv
  <2> QED BY <2>3, <2>4
<1>6. CASE DaemonReads
  <2>1. /\ Once(wire') /\ Elements(wire) = {Head(wire)} \cup Elements(wire')
        /\ Head(wire) \in Requests => Head(wire) \notin Elements(wire')
    BY <1>6, OnceTail, TailElements DEF DaemonReads, PlaceInv, TypeOK
  <2>2. /\ serving' = serving \cup ({Head(wire)} \cap Ids)
        /\ UNCHANGED <<queue, replies, waiting, sent, answered, lost, written>>
    BY <1>6 DEF DaemonReads
  <2>3. PlaceInv'
    BY <2>1, <2>2 DEF PlaceInv, OnSocket
  <2>4. ToldInv'
    BY <2>1, <2>2 DEF ToldInv, OnSocket
  <2> QED BY <2>3, <2>4
<1>7. ASSUME NEW i \in Ids, DaemonAnswers(i) PROVE (PlaceInv /\ ToldInv)'
  <2>1. /\ i \in serving /\ serving' = serving \ {i} /\ replies' = Append(replies, i)
        /\ UNCHANGED <<queue, wire, waiting, sent, answered, lost, written>>
    BY <1>7 DEF DaemonAnswers
  <2>2. Elements(replies') = Elements(replies) \cup {i}
    BY <2>1, AppendElements DEF TypeOK
  <2>3. Once(replies')
    <3>1. \A k \in DOMAIN replies : replies[k] \in Requests => replies[k] # i
      BY <2>1 DEF PlaceInv, Elements
    <3>2. /\ Len(replies) \in Nat /\ DOMAIN replies = 1 .. Len(replies)
          /\ DOMAIN Append(replies, i) = 1 .. Len(replies) + 1
          /\ Append(replies, i)[Len(replies) + 1] = i
          /\ \A k \in 1 .. Len(replies) : Append(replies, i)[k] = replies[k]
      BY DEF TypeOK
    <3> QED BY <2>1, <3>1, <3>2 DEF PlaceInv, Once
  <2>4. PlaceInv'
    BY <2>1, <2>2, <2>3 DEF PlaceInv, OnSocket
  <2>5. ToldInv'
    BY <2>1, <2>2 DEF ToldInv, OnSocket
  <2> QED BY <2>4, <2>5
<1>8. CASE DaemonCloses
  <2>1. /\ wire' = << >> /\ serving' = {}
        /\ UNCHANGED <<queue, replies, waiting, sent, answered, lost, written>>
    BY <1>8 DEF DaemonCloses
  <2> QED BY <1>0, <2>1 DEF PlaceInv, ToldInv, OnSocket
<1>9. CASE UNCHANGED vars
  BY <1>9 DEF vars, PlaceInv, ToldInv, OnSocket
<1> QED BY <1>1, <1>2, <1>3, <1>4, <1>5, <1>6, <1>7, <1>8, <1>9 DEF Next

(* The account holds throughout.                                             *)
LEMMA AccountHolds == Spec => []AccountInv
<1>1. Init => PlaceInv /\ ToldInv
  BY SmallElements DEF Init, PlaceInv, ToldInv, OnSocket, Once
<1>2. IInv => TypeOK /\ SentInv /\ OnceInv
  BY DEF IInv
<1>3. AccountInv /\ [Next]_vars => (PlaceInv /\ ToldInv)'
  BY AccountNext
<1> QED BY <1>1, <1>2, <1>3, Inductive, PTL DEF Spec, AccountInv

(* However often sockets are lost and opened, the client is given one answer *)
(* of a daemon to a request at most, and only to one that it waits on or was *)
(* told is lost; and it is told of a loss once, and only where no answer     *)
(* came.                                                                     *)
THEOREM AnsweredOnce ==
  Spec => [][/\ OnAnswer /\ Head(replies) \in Requests =>
                  Head(replies) \in (waiting \cup lost) \ answered
             /\ OnClose => waiting \cap Requests \cap (answered \cup lost) = {}]_vars
<1>1. AccountInv /\ OnAnswer /\ Head(replies) \in Requests =>
        Head(replies) \in (waiting \cup lost) \ answered
  <2> SUFFICES ASSUME AccountInv, OnAnswer, Head(replies) \in Requests
               PROVE  Head(replies) \in (waiting \cup lost) \ answered
    OBVIOUS
  <2>1. Head(replies) \in Elements(replies)
    BY TailElements DEF OnAnswer, AccountInv, TypeOK
  <2> QED BY <2>1 DEF AccountInv, ToldInv, OnSocket
<1>2. AccountInv /\ OnClose => waiting \cap Requests \cap (answered \cup lost) = {}
  BY DEF AccountInv, ToldInv
<1> QED BY <1>1, <1>2, AccountHolds, PTL DEF Spec

-----------------------------------------------------------------------------
(***************************************************************************)
(* The finding on LostIsNotSentLater, isolated: the one way to give a lost *)
(* request to a daemon is a socket that is lost while the request is still *)
(* in the queue.                                                           *)
(***************************************************************************)
NoLossWhileQueued == OnClose => waiting \cap Requests \cap Elements(queue) = {}

(* Then a lost request is nowhere, and was not answered.                     *)
LostIsGone ==
  \A r \in Requests : r \in lost => r \notin Elements(queue) \cup OnSocket \cup answered

(* What a step writes to a socket was in the queue, or is new, or is no      *)
(* request.                                                                  *)
LEMMA WrittenFrom ==
  ASSUME TypeOK, SentInv, Next, NEW r \in Requests, r \in written', r \in sent
  PROVE  r \in written \/ r \in Elements(queue)
<1>0. /\ Initialize \in Messages /\ Initialized \in Messages /\ << >> \in Seq(Messages)
      /\ Initialize # r /\ Initialized # r /\ Elements(<< >>) = {}
  BY MessagesAssumption, SmallElements DEF Messages, Ids
<1>1. ASSUME NEW m \in Messages, OnMessage(m) PROVE r \in written
  BY <1>1, PutOne DEF OnMessage, Ready, ToDaemon, TypeOK
<1>2. CASE Connect
  <2>1. CASE ~fresh /\ Initialize \in sent
    BY <1>0, <1>2, <2>1, PutOne DEF Connect
  <2>2. CASE ~(~fresh /\ Initialize \in sent)
    <3>1. written' = written \cup Elements(<< >>) \cup Elements(queue)
      BY <1>0, <1>2, <2>2, Flushed DEF Connect
    <3> QED BY <1>0, <3>1
  <2> QED BY <2>1, <2>2
<1>3. CASE OnAnswer
  <2>1. CASE swallow /\ Head(replies) = Initialize
    <3> DEFINE s == IF Initialized \in sent THEN <<Initialized>> ELSE << >>
    <3>1. s \in Seq(Messages) /\ r \notin Elements(s)
      BY <1>0, SmallElements
    <3>2. FlushBehind(s, wire, opening)
      BY <1>3, <2>1 DEF OnAnswer
    <3> HIDE DEF s
    <3> QED BY <3>1, <3>2, Flushed DEF TypeOK
  <2>2. CASE ~(swallow /\ Head(replies) = Initialize)
    BY <1>3, <2>2 DEF OnAnswer
  <2> QED BY <2>1, <2>2
<1>4. CASE FirstConnectFails \/ OnClose \/ DaemonReads \/ DaemonCloses
           \/ \E i \in Ids : DaemonAnswers(i)
  BY <1>4 DEF FirstConnectFails, OnClose, DaemonReads, DaemonCloses, DaemonAnswers, history
<1> QED BY <1>1, <1>2, <1>3, <1>4 DEF Next

(* A step that loses no socket puts a request only where it was before, or   *)
(* where what was queued goes; and what it answers was on the socket.        *)
LEMMA StaysGone ==
  ASSUME AccountInv, Next, ~OnClose, NEW r \in Requests, r \in sent,
         r \in Elements(queue') \cup OnSocket' \cup answered'
  PROVE  r \in Elements(queue) \cup OnSocket \cup answered
<1> USE DEF AccountInv, TypeOK, socket, shim, client, history
<1>0. /\ Initialize \in Messages /\ Initialized \in Messages /\ << >> \in Seq(Messages)
      /\ Initialize # r /\ Initialized # r /\ Elements(<< >>) = {}
  BY MessagesAssumption, SmallElements DEF Messages, Ids
<1>1. ASSUME NEW m \in Messages, OnMessage(m)
      PROVE  r \in Elements(queue) \cup OnSocket \cup answered
  <2>1. r # m /\ UNCHANGED <<serving, replies, answered>>
    BY <1>1 DEF OnMessage, Ready
  <2>2. CASE link = "open"
    BY <1>1, <2>1, <2>2, PutOne DEF OnMessage, ToDaemon, OnSocket
  <2>3. CASE link # "open"
    BY <1>1, <2>1, <2>3, Queued DEF OnMessage, ToDaemon, OnSocket
  <2> QED BY <2>2, <2>3
<1>2. CASE Connect
  <2>1. UNCHANGED <<serving, replies, answered>>
    BY <1>2 DEF Connect
  <2>2. CASE ~fresh /\ Initialize \in sent
    <3>1. Put(<<Initialize>>, << >>, Nothing) /\ queue' = queue
      BY <1>2, <2>2 DEF Connect
    <3>2. Elements(wire') = Elements(<< >>) \cup {Initialize}
      BY <1>0, <3>1, PutOne
    <3> QED BY <1>0, <2>1, <3>1, <3>2 DEF OnSocket
  <2>3. CASE ~(~fresh /\ Initialize \in sent)
    <3>1. /\ queue' = << >>
          /\ Elements(wire') = Elements(<< >>) \cup Elements(<< >>) \cup Elements(queue)
      BY <1>0, <1>2, <2>3, Flushed DEF Connect
    <3> QED BY <1>0, <2>1, <3>1 DEF OnSocket
  <2> QED BY <2>2, <2>3
<1>3. CASE OnAnswer
  <2>1. Elements(replies) = {Head(replies)} \cup Elements(replies') /\ UNCHANGED serving
    BY <1>3, TailElements DEF OnAnswer
  <2>2. CASE swallow /\ Head(replies) = Initialize
    <3> DEFINE s == IF Initialized \in sent THEN <<Initialized>> ELSE << >>
    <3>1. s \in Seq(Messages) /\ r \notin Elements(s)
      BY <1>0, SmallElements
    <3>2. FlushBehind(s, wire, opening) /\ UNCHANGED answered
      BY <1>3, <2>2 DEF OnAnswer
    <3> HIDE DEF s
    <3>3. queue' = << >> /\ Elements(wire') = Elements(wire) \cup Elements(s) \cup Elements(queue)
      BY <3>1, <3>2, Flushed
    <3> QED BY <1>0, <2>1, <3>1, <3>2, <3>3 DEF OnSocket
  <2>3. CASE ~(swallow /\ Head(replies) = Initialize)
    BY <1>3, <2>1, <2>3 DEF OnAnswer, OnSocket
  <2> QED BY <2>2, <2>3
<1>4. CASE DaemonReads
  BY <1>4, TailElements DEF DaemonReads, OnSocket
<1>5. ASSUME NEW i \in Ids, DaemonAnswers(i)
      PROVE  r \in Elements(queue) \cup OnSocket \cup answered
  <2>1. Elements(replies') = Elements(replies) \cup {i}
    BY <1>5, AppendElements DEF DaemonAnswers
  <2> QED BY <1>5, <2>1 DEF DaemonAnswers, OnSocket
<1>6. CASE FirstConnectFails \/ DaemonCloses
  BY <1>0, <1>6 DEF FirstConnectFails, DaemonCloses, OnSocket
<1> QED BY <1>1, <1>2, <1>3, <1>4, <1>5, <1>6 DEF Next

(* Once gone, a lost request stays gone.                                     *)
LEMMA GoneStaysGone ==
  AccountInv /\ LostIsGone /\ [Next]_vars /\ [NoLossWhileQueued]_vars => LostIsGone'
<1> SUFFICES ASSUME AccountInv, LostIsGone, [Next]_vars, [NoLossWhileQueued]_vars
             PROVE  LostIsGone'
  OBVIOUS
<1>1. CASE UNCHANGED vars
  BY <1>1 DEF vars, socket, shim, client, LostIsGone, OnSocket
<1>2. CASE OnClose /\ NoLossWhileQueued
  <2>1. /\ lost' = lost \cup waiting /\ UNCHANGED <<queue, answered>>
        /\ wire' = << >> /\ serving' = {} /\ replies' = << >>
    BY <1>2 DEF OnClose
  <2>2. OnSocket' = {}
    BY <2>1, SmallElements DEF OnSocket
  <2> QED BY <1>2, <2>1, <2>2 DEF NoLossWhileQueued, AccountInv, ToldInv, LostIsGone
<1>3. CASE Next /\ ~OnClose
  <2>1. lost' = lost
    BY <1>3 DEF Next, OnMessage, Connect, FirstConnectFails, OnAnswer, DaemonReads,
                DaemonAnswers, DaemonCloses, client
  <2>2. \A r \in Requests : r \in lost => r \in sent
    BY DEF AccountInv, ToldInv
  <2> QED BY <1>3, <2>1, <2>2, StaysGone DEF LostIsGone
<1> QED BY <1>1, <1>2, <1>3

(* Where no socket is lost while a request that the client waits on is in    *)
(* the queue, a request that was told lost is given to no daemon after that, *)
(* and no request is both answered and told lost.                            *)
THEOREM OnlyQueuedLossesMislead ==
  Spec /\ [][NoLossWhileQueued]_vars
    => LostIsNotSentLater /\ [](answered \cap lost \cap Requests = {})
<1>1. Init => LostIsGone
  BY DEF Init, LostIsGone
<1>2. AccountInv /\ LostIsGone /\ [Next]_vars /\ [NoLossWhileQueued]_vars => LostIsGone'
  BY GoneStaysGone
<1>3. AccountInv /\ LostIsGone /\ [Next]_vars =>
        [\A r \in Requests : r \in lost /\ r \notin written => r \notin written']_vars
  BY WrittenFrom DEF AccountInv, ToldInv, LostIsGone
<1>4. LostIsGone => answered \cap lost \cap Requests = {}
  BY DEF LostIsGone
<1> QED BY <1>1, <1>2, <1>3, <1>4, AccountHolds, PTL DEF Spec, LostIsNotSentLater
=============================================================================
