---------------------- MODULE GameThreadExecutorProofs ----------------------
(***************************************************************************)
(* Theorems about GameThreadExecutor, for any set of requests and events,  *)
(* any timeout and any number of dialogs.                                  *)
(***************************************************************************)
EXTENDS GameThreadExecutor, SequenceTheorems, TLAPS

-----------------------------------------------------------------------------
(* The stack: what pushing, popping and a change of phase do to it.        *)

(* A frame entered on the stack. *)
LEMMA PushTyped ==
  ASSUME NEW s \in Seq(Frame), NEW f \in Frame
  PROVE  /\ Append(s, f) \in Seq(Frame)
         /\ Len(Append(s, f)) = Len(s) + 1
         /\ \A i \in 1 .. Len(s) : Append(s, f)[i] = s[i]
         /\ Append(s, f)[Len(s) + 1] = f
  OBVIOUS

(* A frame left: the others stay as they were. *)
LEMMA PopTyped ==
  ASSUME NEW s \in Seq(Frame), s # <<>>
  PROVE  /\ Front(s) \in Seq(Frame)
         /\ Len(Front(s)) = Len(s) - 1
         /\ \A i \in 1 .. Len(s) - 1 : Front(s)[i] = s[i]
  <1> DEFINE n == Len(s) - 1
  <1>1. n \in Nat /\ \A i \in 1 .. n : s[i] \in Frame
    OBVIOUS
  <1>2. /\ SubSeq(s, 1, n) \in Seq(Frame)
        /\ Len(SubSeq(s, 1, n)) = IF 1 <= n THEN n - 1 + 1 ELSE 0
        /\ \A i \in 1 .. n - 1 + 1 : SubSeq(s, 1, n)[i] = s[1 + i - 1]
    <2> HIDE DEF n
    <2> QED BY <1>1, SubSeqProperties
  <1>3. Front(s) = SubSeq(s, 1, n)
    BY DEF Front
  <1>4. Len(SubSeq(s, 1, n)) = n /\ \A i \in 1 .. n : SubSeq(s, 1, n)[i] = s[i]
    <2> HIDE DEF n
    <2> QED BY <1>1, <1>2
  <1> QED BY <1>2, <1>3, <1>4

(* A frame of Run is a frame. *)
LEMMA RunFrameTyped ==
  ASSUME NEW r \in Requests, NEW by \in {"ticker", "drain"}, NEW p \in RunPhases
  PROVE  RunFrame(r, by, p) \in Frame
  BY DEF RunFrame, Frame

(* Run moves on: the top frame is replaced, the others stay. *)
LEMMA ReplaceTop ==
  ASSUME NEW s \in Seq(Frame), s # <<>>, NEW f \in Frame
  PROVE  LET t == [s EXCEPT ![Len(s)] = f]
         IN  /\ t \in Seq(Frame)
             /\ Len(t) = Len(s)
             /\ \A i \in 1 .. Len(s) - 1 : t[i] = s[i]
             /\ t[Len(s)] = f
  OBVIOUS

(* A sweep keeps a queue of requests, and drops entries from its head only. *)
LEMMA SweepEffect ==
  ASSUME TypeOK, Sweep
  PROVE  /\ queue' \in Seq(Requests)
         /\ \E n \in 0 .. Len(queue) :
              /\ \A i \in 1 .. n : ~Live(queue[i])
              /\ Len(queue') = Len(queue) - n
              /\ \A i \in 1 .. Len(queue) - n : queue'[i] = queue[n + i]
  <1>1. PICK n \in 0 .. Len(queue) :
          /\ \A i \in 1 .. n : ~Live(queue[i])
          /\ queue' = SubSeq(queue, n + 1, Len(queue))
    BY DEF Sweep
  <1>2. /\ queue \in Seq(Requests) /\ n \in Nat /\ Len(queue) \in Nat
        /\ n <= Len(queue)
        /\ \A i \in n + 1 .. Len(queue) : queue[i] \in Requests
    BY DEF TypeOK
  <1>3. /\ queue' \in Seq(Requests)
        /\ Len(queue') = IF n + 1 <= Len(queue) THEN Len(queue) - (n + 1) + 1 ELSE 0
        /\ \A i \in 1 .. Len(queue) - (n + 1) + 1 : queue'[i] = queue[n + 1 + i - 1]
    BY <1>1, <1>2, SubSeqProperties
  <1>4. Len(queue') = Len(queue) - n
    BY <1>2, <1>3
  <1>5. \A i \in 1 .. Len(queue) - n : queue'[i] = queue[n + i]
    BY <1>2, <1>3
  <1> QED BY <1>1, <1>3, <1>4, <1>5

(* When a run returns, its frame is popped; nothing is added anywhere. *)
LEMMA RunReturnsEffect ==
  ASSUME TypeOK, NEW r \in Requests, OnTop("run"), RunReturns(r)
  PROVE  /\ stack' \in Seq(Frame)
         /\ Len(stack') = Len(stack) - 1
         /\ \A i \in 1 .. Len(stack) - 1 : stack'[i] = stack[i]
         /\ tickers' \subseteq tickers
         /\ queue' \in Seq(Requests)
         /\ \A i \in DOMAIN queue' : \E j \in DOMAIN queue : queue'[i] = queue[j]
  <1>1. stack \in Seq(Frame) /\ stack # <<>> /\ queue \in Seq(Requests)
    BY DEF TypeOK, OnTop, Idle
  <1>2. /\ stack' \in Seq(Frame)
        /\ Len(stack') = Len(stack) - 1
        /\ \A i \in 1 .. Len(stack) - 1 : stack'[i] = stack[i]
    BY <1>1, PopTyped DEF RunReturns
  <1>3. CASE Last(stack).by = "ticker"
    <2>1. Sweep /\ tickers' = tickers \ {r}
      BY <1>3 DEF RunReturns
    <2>2. PICK n \in 0 .. Len(queue) :
            /\ Len(queue') = Len(queue) - n
            /\ \A i \in 1 .. Len(queue) - n : queue'[i] = queue[n + i]
      BY <2>1, SweepEffect
    <2>3. queue' \in Seq(Requests)
      BY <2>1, SweepEffect
    <2>4. \A i \in DOMAIN queue' : n + i \in DOMAIN queue /\ queue'[i] = queue[n + i]
      BY <1>1, <2>2, <2>3
    <2> QED BY <1>2, <2>1, <2>3, <2>4
  <1>4. CASE Last(stack).by # "ticker"
    BY <1>1, <1>2, <1>4 DEF RunReturns
  <1> QED BY <1>3, <1>4

(* Entering a phase replaces the top frame by one of the same request. *)
LEMMA EnterEffect ==
  ASSUME TypeOK, NEW r \in Requests, NEW p \in RunPhases, OnTop("run"), Enter(r, p)
  PROVE  /\ stack' \in Seq(Frame)
         /\ Len(stack') = Len(stack)
         /\ \A i \in 1 .. Len(stack) - 1 : stack'[i] = stack[i]
         /\ stack'[Len(stack)] = RunFrame(r, Last(stack).by, p)
  <1>1. stack \in Seq(Frame) /\ stack # <<>>
    BY DEF TypeOK, OnTop, Idle
  <1>2. Last(stack) \in Frame /\ Last(stack).kind = "run"
    BY <1>1 DEF OnTop, Last
  <1>3. Last(stack).by \in {"ticker", "drain"}
    BY <1>2 DEF Frame
  <1>4. RunFrame(r, Last(stack).by, p) \in Frame
    BY <1>3, RunFrameTyped
  <1> QED BY <1>1, <1>4, ReplaceTop DEF Enter

(* The modal and drain frames, and the phases, have the types they need. *)
LEMMA OtherFramesTyped ==
  ModalFrame \in Frame /\ DrainFrame \in Frame
  BY DEF ModalFrame, DrainFrame, Frame
-----------------------------------------------------------------------------
(***************************************************************************)
(* Type correctness.  The socket threads' steps leave the stack alone; the *)
(* game thread's are typed by the lemmas above.                            *)
(***************************************************************************)

(* From Register to ForgetEvent a request has an event: without this the    *)
(* pool could be handed a null event, and TypeOK would not be inductive.    *)
HasEvent(r) == pc[r] \in {"enqueue", "wait", "sliced", "completed",
                          "abandoned", "returning"}
EventHeld == \A r \in Requests : HasEvent(r) <=> event[r] # NoEvent

TypeInv == TypeOK /\ EventHeld

(* The initial state has the types, and no call holds an event. *)
LEMMA TypeInit == Init => TypeInv
  <1> SUFFICES ASSUME Init PROVE TypeInv
    OBVIOUS
  <1>1. abandoned \in [Requests -> BOOLEAN] /\ claimed \in [Requests -> BOOLEAN]
    BY DEF Init
  <1>2. queue \in Seq(Requests) /\ stack \in Seq(Frame)
    BY DEF Init
  <1>3. modalReported \in BOOLEAN /\ gEditor \in BOOLEAN
        /\ editorReady \in BOOLEAN /\ shuttingDown \in BOOLEAN
    BY Zenon DEF Init
  <1>4. EventHeld
    BY DEF Init, EventHeld, HasEvent
  <1>5. TypeOK
    <2>1. /\ pc \in [Requests -> {"idle", "enqueue", "wait", "sliced", "completed",
                          "abandoned", "returning", "answering", "answered"}]
          /\ waited \in [Requests -> Nat]
          /\ answer \in [Requests -> {"none", "dialog", "not_ready", "timeout",
                              "shutting_down", "handler"}]
          /\ event \in [Requests -> Events \cup {NoEvent}]
          /\ lock \in [Requests -> {"free", "caller", "runner"}]
      BY DEF Init
    <2>2. /\ result \in [Requests -> {"none", "not_ready", "handler"}]
          /\ runs \in [Requests -> Nat]
          /\ pool \subseteq Events /\ signalled \subseteq Events \cup {NoEvent}
          /\ tickers \subseteq Requests /\ modals \in Nat
      BY DEF Init
    <2> QED BY <1>1, <1>2, <1>3, <2>1, <2>2, Zenon DEF TypeOK
  <1> QED BY <1>4, <1>5 DEF TypeInv

(* The steps of a socket thread keep the types. *)
LEMMA TypeCallers ==
  ASSUME TypeInv, NEW r \in Requests,
         DialogRefuses(r) \/ NotReady(r) \/ Register(r) \/ Caller(r)
  PROVE  TypeInv'
  <1> USE EventAssumption
          DEF TypeInv, TypeOK, EventHeld, HasEvent,
              callerVars, runVars, eventVars, gameVars, phaseVars
  <1>1. CASE DialogRefuses(r) BY <1>1 DEF DialogRefuses, Return, At
  <1>2. CASE NotReady(r)      BY <1>2 DEF NotReady, Return, At
  <1>3. CASE Register(r)      BY <1>3 DEF Register, At
  <1>4. CASE Enqueue(r)       BY <1>4 DEF Enqueue, At
  <1>5. CASE Wake(r)          BY <1>5 DEF Wake, At
  <1>6. CASE SliceElapses(r)  BY <1>6 DEF SliceElapses, At
  <1>7. CASE WaitAgain(r)     BY <1>7 DEF WaitAgain, At
  <1>8. CASE Abandon(r)       BY <1>8 DEF Abandon, At
  <1>9. CASE ReturnEvent(r)   BY <1>9 DEF ReturnEvent
  <1>10. CASE ForgetEvent(r)  BY <1>10 DEF ForgetEvent, At
  <1>11. CASE Answer(r)       BY <1>11 DEF Answer, Return, At
  <1> QED BY <1>1, <1>2, <1>3, <1>4, <1>5, <1>6, <1>7, <1>8, <1>9, <1>10, <1>11
          DEF Caller

(* The steps of a run on the game thread. *)
RunSteps(r) == RunStep(r) \/ HandlerReturns(r)

(* The steps of Run keep the types. *)
LEMMA TypeRuns ==
  ASSUME TypeInv, NEW r \in Requests, RunSteps(r)
  PROVE  TypeInv'
  <1> USE DEF TypeInv, RunPhases
  <1> DEFINE Moved == /\ stack' \in Seq(Frame)
                      /\ queue' \in Seq(Requests)
                      /\ tickers' \subseteq Requests
  <1>1. TypeOK /\ OnTop("run")
    BY DEF RunSteps, RunStep, CheckAbandoned, ClaimLost, Claim, FirstToClaim, HandlerReturns,
           LockEvent, Trigger, Running
  <1>2. ASSUME RunReturns(r) PROVE Moved
    <2> QED BY <1>1, <1>2, RunReturnsEffect DEF TypeOK
  <1>3. ASSUME NEW p \in RunPhases, Enter(r, p), UNCHANGED <<tickers, queue>>
        PROVE  Moved
    <2> QED BY <1>1, <1>3, EnterEffect DEF TypeOK
  <1>4. EventHeld'
    BY DEF EventHeld, HasEvent, RunSteps, RunStep, CheckAbandoned, ClaimLost, FirstToClaim,
           Claim, HandlerReturns, LockEvent, Trigger, callerVars
  <1> USE DEF callerVars, runVars, eventVars, phaseVars
  <1> HIDE DEF Moved
  <1>5. CASE CheckAbandoned(r)
    <2>1. Moved BY <1>2, <1>3, <1>5 DEF CheckAbandoned
    <2> QED BY <1>4, <1>5, <2>1 DEF CheckAbandoned, TypeOK, Moved
  <1>6. CASE ClaimLost(r)
    <2>1. Moved BY <1>2, <1>6 DEF ClaimLost, FirstToClaim
    <2> QED BY <1>4, <1>6, <2>1 DEF ClaimLost, FirstToClaim, TypeOK, Moved
  <1>7. CASE Claim(r)
    <2>1. Moved BY <1>3, <1>7 DEF Claim, FirstToClaim
    <2>2. claimed' \in [Requests -> BOOLEAN]
      BY <1>7 DEF Claim, FirstToClaim, TypeOK
    <2>3. result' \in [Requests -> {"none", "not_ready", "handler"}]
      BY <1>7 DEF Claim, FirstToClaim, TypeOK
    <2>4. runs' \in [Requests -> Nat]
      BY <1>7 DEF Claim, FirstToClaim, TypeOK
    <2> QED BY <1>4, <1>7, <2>1, <2>2, <2>3, <2>4 DEF Claim, FirstToClaim, TypeOK, Moved
  <1>8. CASE HandlerReturns(r)
    <2>1. Moved BY <1>3, <1>8 DEF HandlerReturns
    <2> QED BY <1>4, <1>8, <2>1 DEF HandlerReturns, TypeOK, Moved
  <1>9. CASE LockEvent(r)
    <2>1. Moved BY <1>2, <1>3, <1>9 DEF LockEvent
    <2> QED BY <1>4, <1>9, <2>1 DEF LockEvent, TypeOK, Moved
  <1>10. CASE Trigger(r)
    <2>1. Moved BY <1>2, <1>10 DEF Trigger
    <2> QED BY <1>4, <1>10, <2>1 DEF Trigger, TypeOK, Moved
  <1> QED BY <1>5, <1>6, <1>7, <1>8, <1>9, <1>10 DEF RunSteps, RunStep

(* The game thread between runs. *)
GameLoop ==
  \/ (\E r \in Requests : TickerFires(r)) \/ DrainStarts \/ DrainNext \/ DrainEnds
  \/ ModalOpens \/ ModalCloses \/ PreTick
  \/ (\E value \in BOOLEAN : SetGEditor(value)) \/ SetEditorReady \/ BeginShutdown

(* The other steps of the game thread keep the types. *)
LEMMA TypeGameLoop ==
  ASSUME TypeInv, GameLoop
  PROVE  TypeInv'
  <1> USE DEF TypeInv, callerVars, runVars, eventVars, gameVars, phaseVars
  <1>1. TypeOK /\ stack \in Seq(Frame) /\ queue \in Seq(Requests)
    BY DEF TypeOK
  <1>2. EventHeld'
    BY DEF EventHeld, HasEvent, GameLoop, TickerFires, DrainStarts, DrainNext,
           DrainEnds, ModalOpens, ModalCloses, PreTick, SetGEditor,
           SetEditorReady, BeginShutdown
  <1>3. ASSUME NEW r \in Requests, TickerFires(r) PROVE TypeInv'
    <2>1. stack' \in Seq(Frame)
      BY <1>1, <1>3, RunFrameTyped, PushTyped DEF TickerFires, RunPhases
    <2> QED BY <1>2, <1>3, <2>1 DEF TickerFires, TypeOK
  <1>4. CASE DrainStarts
    <2>1. stack' \in Seq(Frame)
      BY <1>1, <1>4, OtherFramesTyped, PushTyped DEF DrainStarts
    <2>2. modalReported' \in BOOLEAN
      BY <1>4 DEF DrainStarts
    <2> QED BY <1>2, <1>4, <2>1, <2>2 DEF DrainStarts, TypeOK
  <1>5. CASE DrainNext
    <2>1. Head(queue) \in Requests /\ queue' \in Seq(Requests)
      BY <1>1, <1>5, HeadTailProperties DEF DrainNext
    <2>2. stack' \in Seq(Frame)
      BY <1>1, <1>5, <2>1, RunFrameTyped, PushTyped DEF DrainNext, RunPhases
    <2> QED BY <1>2, <1>5, <2>1, <2>2 DEF DrainNext, TypeOK
  <1>6. CASE DrainEnds
    <2>1. stack' \in Seq(Frame)
      BY <1>1, <1>6, PopTyped DEF DrainEnds, OnTop, Idle
    <2> QED BY <1>2, <1>6, <2>1 DEF DrainEnds, TypeOK
  <1>7. CASE ModalOpens
    <2>1. stack' \in Seq(Frame)
      BY <1>1, <1>7, OtherFramesTyped, PushTyped DEF ModalOpens
    <2> QED BY <1>2, <1>7, <2>1 DEF ModalOpens, TypeOK
  <1>8. CASE ModalCloses
    <2>1. stack' \in Seq(Frame)
      BY <1>1, <1>8, PopTyped DEF ModalCloses, OnTop, Idle
    <2> QED BY <1>2, <1>8, <2>1 DEF ModalCloses, TypeOK
  <1>9. CASE PreTick
    <2>1. queue' \in Seq(Requests)
      BY <1>1, <1>9, SweepEffect DEF PreTick
    <2>2. modalReported' \in BOOLEAN
      BY <1>9 DEF PreTick, ModalUp
    <2> QED BY <1>2, <1>9, <2>1, <2>2 DEF PreTick, TypeOK
  <1>10. CASE \E value \in BOOLEAN : SetGEditor(value)
    BY <1>2, <1>10 DEF SetGEditor, TypeOK
  <1>11. CASE SetEditorReady
    <2>1. editorReady' \in BOOLEAN
      BY <1>11 DEF SetEditorReady
    <2> QED BY <1>2, <1>11, <2>1 DEF SetEditorReady, TypeOK
  <1>12. CASE BeginShutdown
    <2>1. shuttingDown' \in BOOLEAN
      BY <1>12 DEF BeginShutdown
    <2> QED BY <1>2, <1>12, <2>1 DEF BeginShutdown, TypeOK
  <1> QED BY <1>3, <1>4, <1>5, <1>6, <1>7, <1>8, <1>9, <1>10, <1>11, <1>12
          DEF GameLoop

(* The types hold throughout, with an event held by every waiting call. *)
LEMMA TypeInductive == Spec => []TypeInv
  <1>1. TypeInv /\ [Next]_vars => TypeInv'
    <2> SUFFICES ASSUME TypeInv, [Next]_vars PROVE TypeInv'
      OBVIOUS
    <2>1. CASE UNCHANGED vars
      BY <2>1 DEF vars, callerVars, runVars, eventVars, gameVars, phaseVars,
                  TypeInv, TypeOK, EventHeld, HasEvent
    <2>2. ASSUME NEW r \in Requests,
                 DialogRefuses(r) \/ NotReady(r) \/ Register(r) \/ Caller(r)
          PROVE  TypeInv'
      BY <2>2, TypeCallers
    <2>3. ASSUME NEW r \in Requests, RunSteps(r) PROVE TypeInv'
      BY <2>3, TypeRuns
    <2>4. ASSUME GameLoop PROVE TypeInv'
      BY <2>4, TypeGameLoop
    <2> QED BY <2>1, <2>2, <2>3, <2>4 DEF Next, RunSteps, GameLoop
  <1> QED BY <1>1, TypeInit, PTL DEF Spec

(* The state is always of its type; on the way, the pool is never handed a  *)
(* null event.                                                              *)
THEOREM TypeCorrect == Spec => []TypeOK
  <1>1. TypeInv => TypeOK
    BY DEF TypeInv
  <1> QED BY <1>1, TypeInductive, PTL
-----------------------------------------------------------------------------
(***************************************************************************)
(* At most one run.  A request can reach the game thread twice, from its   *)
(* ticker and from its queue entry.  What excludes a second run is Claimed;*)
(* what excludes a run after a refusal is that a refused request was never *)
(* offered to either runner.                                               *)
(***************************************************************************)
OnStack(r) ==
  \E i \in DOMAIN stack : stack[i].kind = "run" /\ stack[i].req = r
Offered(r) ==
  r \in tickers \/ (\E i \in DOMAIN queue : queue[i] = r) \/ OnStack(r)

Refusals == {"dialog", "not_ready"}

Claiming == {"handler", "notify", "trigger"}
Finished == {"notify", "trigger"}

StackInv ==
  \A i \in DOMAIN stack : stack[i].kind = "run" =>
    /\ stack[i].phase \in Claiming => claimed[stack[i].req]
    /\ stack[i].phase \in Finished => result[stack[i].req] # "none"

RunInv ==
  \A r \in Requests :
    /\ ~claimed[r] => runs[r] = 0 /\ result[r] = "none"
    /\ runs[r] <= 1
    /\ result[r] = "not_ready" => runs[r] = 0
    /\ answer[r] # "none" => pc[r] = "answered"
    /\ claimed[r] => pc[r] # "idle"
    /\ Offered(r) => pc[r] # "idle" /\ (answer[r] \in Refusals => claimed[r])
    /\ answer[r] \in Refusals => runs[r] = 0

(* A request whose run is under way has been offered. *)
LEMMA RunningIsOffered ==
  ASSUME TypeOK, NEW r \in Requests, NEW p, Running(r, p)
  PROVE  Offered(r)
  <1>1. Len(stack) \in DOMAIN stack /\ Last(stack) = stack[Len(stack)]
    BY DEF TypeOK, Running, OnTop, Idle, Last
  <1> QED BY <1>1 DEF Running, OnTop, Offered, OnStack

(* What a step of a run does to the stack: at most its top frame changes. *)
LEMMA RunsFrames ==
  ASSUME TypeInv, NEW r \in Requests, RunSteps(r)
  PROVE  /\ stack' \in Seq(Frame) /\ OnTop("run") /\ Offered(r)
         /\ \A i \in DOMAIN stack' :
              /\ i \in DOMAIN stack
              /\ \/ stack'[i] = stack[i]
                 \/ /\ i = Len(stack)
                    /\ \E p \in RunPhases :
                         Enter(r, p) /\ stack'[i] = RunFrame(r, stack[i].by, p)
  <1>1. TypeOK /\ stack \in Seq(Frame) /\ OnTop("run") /\ Offered(r)
    <2>1. TypeOK /\ \E p \in RunPhases : Running(r, p)
      BY DEF TypeInv, RunSteps, RunStep, CheckAbandoned, ClaimLost, Claim, FirstToClaim,
             HandlerReturns, LockEvent, Trigger, RunPhases
    <2> QED BY <2>1, RunningIsOffered DEF TypeOK, Running
  <1>3. ASSUME NEW p \in RunPhases, Enter(r, p)
        PROVE  /\ stack' \in Seq(Frame)
               /\ \A i \in DOMAIN stack' :
                    /\ i \in DOMAIN stack
                    /\ \/ stack'[i] = stack[i]
                       \/ i = Len(stack) /\ stack'[i] = RunFrame(r, stack[i].by, p)
    <2>1. /\ stack' \in Seq(Frame) /\ Len(stack') = Len(stack)
          /\ \A i \in 1 .. Len(stack) - 1 : stack'[i] = stack[i]
          /\ stack'[Len(stack)] = RunFrame(r, Last(stack).by, p)
      BY <1>1, <1>3, EnterEffect
    <2> QED BY <1>1, <2>1 DEF Last
  <1>4. RunReturns(r) \/ \E p \in RunPhases : Enter(r, p)
    BY DEF RunSteps, RunStep, CheckAbandoned, ClaimLost, Claim, FirstToClaim, HandlerReturns,
           LockEvent, Trigger, RunPhases
  <1>5. CASE \E p \in RunPhases : Enter(r, p)
    <2>1. PICK p \in RunPhases : Enter(r, p)
      BY <1>5
    <2> QED BY <1>1, <1>3, <2>1
  <1>6. CASE RunReturns(r)
    <2>1. /\ stack' \in Seq(Frame) /\ Len(stack') = Len(stack) - 1
          /\ \A i \in 1 .. Len(stack) - 1 : stack'[i] = stack[i]
      BY <1>1, <1>6, RunReturnsEffect
    <2> QED BY <1>1, <2>1
  <1> QED BY <1>4, <1>5, <1>6

(* What the game loop does to the stack: it pops frames, or pushes one that  *)
(* is no run, the run of a ticker on the empty stack, or the run of the head *)
(* of the queue.                                                             *)
Fresh(f) ==
  \/ f \in {ModalFrame, DrainFrame}
  \/ \E s \in tickers : Idle /\ f = RunFrame(s, "ticker", "check")
  \/ queue # <<>> /\ f = RunFrame(Head(queue), "drain", "check")

(* Outside Run, frames are only entered fresh or left. *)
LEMMA LoopFrames ==
  ASSUME TypeInv, GameLoop
  PROVE  /\ stack' \in Seq(Frame)
         /\ \A i \in DOMAIN stack' :
              \/ i \in DOMAIN stack /\ stack'[i] = stack[i]
              \/ i = Len(stack) + 1 /\ Fresh(stack'[i])
  <1>1. TypeOK /\ stack \in Seq(Frame) /\ queue \in Seq(Requests)
    BY DEF TypeInv, TypeOK
  <1>2. ASSUME NEW f \in Frame, stack' = Append(stack, f), Fresh(f)
        PROVE  /\ stack' \in Seq(Frame)
               /\ \A i \in DOMAIN stack' :
                    \/ i \in DOMAIN stack /\ stack'[i] = stack[i]
                    \/ i = Len(stack) + 1 /\ Fresh(stack'[i])
    BY <1>1, <1>2, PushTyped
  <1>3. ASSUME NEW r \in Requests, TickerFires(r)
        PROVE  \E f \in Frame : stack' = Append(stack, f) /\ Fresh(f)
    BY <1>3, RunFrameTyped DEF TickerFires, RunPhases, Fresh
  <1>4. CASE DrainNext
    <2>1. Head(queue) \in Requests
      BY <1>1, <1>4, HeadTailProperties DEF DrainNext
    <2>2. RunFrame(Head(queue), "drain", "check") \in Frame
      BY <2>1, RunFrameTyped DEF RunPhases
    <2>3. \/ stack' = stack
          \/ \E f \in Frame : stack' = Append(stack, f) /\ Fresh(f)
      BY <1>4, <2>2 DEF DrainNext, Fresh
    <2> QED BY <1>1, <1>2, <2>3
  <1>5. CASE DrainStarts \/ ModalOpens
    <2>1. \E f \in Frame : stack' = Append(stack, f) /\ Fresh(f)
      BY <1>5, OtherFramesTyped DEF DrainStarts, ModalOpens, Fresh
    <2> QED BY <1>2, <2>1
  <1>6. CASE DrainEnds \/ ModalCloses
    <2>1. stack # <<>> /\ stack' = Front(stack)
      BY <1>6 DEF DrainEnds, ModalCloses, OnTop, Idle
    <2>2. /\ stack' \in Seq(Frame) /\ Len(stack') = Len(stack) - 1
          /\ \A i \in 1 .. Len(stack) - 1 : stack'[i] = stack[i]
      BY <1>1, <2>1, PopTyped
    <2> QED BY <1>1, <2>2
  <1>7. CASE PreTick \/ (\E value \in BOOLEAN : SetGEditor(value))
             \/ SetEditorReady \/ BeginShutdown
    <2>1. stack' = stack
      BY <1>7 DEF PreTick, SetGEditor, SetEditorReady, BeginShutdown, gameVars
    <2> QED BY <1>1, <2>1
  <1> QED BY <1>2, <1>3, <1>4, <1>5, <1>6, <1>7 DEF GameLoop

(* What the game loop does to the queue: entries leave, none is added. *)
LEMMA LoopQueue ==
  ASSUME TypeInv, GameLoop
  PROVE  /\ tickers' = tickers
         /\ \A i \in DOMAIN queue' : \E j \in DOMAIN queue : queue'[i] = queue[j]
  <1>1. TypeOK /\ queue \in Seq(Requests)
    BY DEF TypeInv, TypeOK
  <1>2. CASE DrainNext
    <2>1. /\ queue' \in Seq(Requests) /\ Len(queue') = Len(queue) - 1
          /\ \A i \in 1 .. Len(queue') : queue'[i] = queue[i + 1]
      BY <1>1, <1>2, HeadTailProperties DEF DrainNext
    <2>2. \A i \in DOMAIN queue' : i + 1 \in DOMAIN queue /\ queue'[i] = queue[i + 1]
      BY <1>1, <2>1
    <2> QED BY <1>2, <2>2 DEF DrainNext
  <1>3. CASE PreTick
    <2>1. PICK n \in 0 .. Len(queue) :
            /\ Len(queue') = Len(queue) - n
            /\ \A i \in 1 .. Len(queue) - n : queue'[i] = queue[n + i]
      BY <1>1, <1>3, SweepEffect DEF PreTick
    <2>2. queue' \in Seq(Requests)
      BY <1>1, <1>3, SweepEffect DEF PreTick
    <2>3. \A i \in DOMAIN queue' : n + i \in DOMAIN queue /\ queue'[i] = queue[n + i]
      BY <1>1, <2>1, <2>2
    <2> QED BY <1>3, <2>3 DEF PreTick
  <1>4. CASE UNCHANGED <<tickers, queue>>
    BY <1>4
  <1> QED BY <1>2, <1>3, <1>4 DEF GameLoop, TickerFires, DrainStarts, DrainEnds,
            ModalOpens, ModalCloses, SetGEditor, SetEditorReady, BeginShutdown

(* Only Register and Enqueue offer a request: the game thread merely moves   *)
(* it from a ticker or the queue to its stack.                               *)
LEMMA RunsOfferNothing ==
  ASSUME TypeInv, NEW r \in Requests, RunSteps(r), NEW s \in Requests, Offered(s)'
  PROVE  Offered(s)
  <1>1. OnStack(s)' => OnStack(s) \/ s = r
    BY RunsFrames DEF OnStack, RunFrame
  <1>2. CASE RunReturns(r)
    <2>1. /\ tickers' \subseteq tickers
          /\ \A i \in DOMAIN queue' : \E j \in DOMAIN queue : queue'[i] = queue[j]
      BY <1>2, RunsFrames, RunReturnsEffect DEF TypeInv
    <2> QED BY <1>1, <2>1, RunsFrames DEF Offered
  <1>3. CASE UNCHANGED <<tickers, queue>>
    BY <1>1, <1>3, RunsFrames DEF Offered
  <1> QED BY <1>2, <1>3 DEF RunSteps, RunStep, CheckAbandoned, ClaimLost, Claim, FirstToClaim,
                            HandlerReturns, LockEvent, Trigger

(* Outside Run, the game thread offers no request to a runner. *)
LEMMA LoopOffersNothing ==
  ASSUME TypeInv, GameLoop, NEW s \in Requests, Offered(s)'
  PROVE  Offered(s)
  <1>1. OnStack(s)' => OnStack(s) \/ s \in tickers
                       \/ \E i \in DOMAIN queue : queue[i] = s
    <2>1. queue # <<>> => 1 \in DOMAIN queue /\ Head(queue) = queue[1]
      BY DEF TypeInv, TypeOK
    <2> QED BY <2>1, LoopFrames
            DEF OnStack, Fresh, ModalFrame, DrainFrame, RunFrame
  <1> QED BY <1>1, LoopQueue DEF Offered

(* Initially nothing was claimed, run or answered. *)
LEMMA RunInvInit == Init => RunInv
  BY DEF Init, RunInv, Offered, OnStack, Refusals

(* A socket thread's steps keep RunInv. *)
LEMMA RunInvCallers ==
  ASSUME TypeOK, RunInv, NEW r \in Requests,
         DialogRefuses(r) \/ NotReady(r) \/ Register(r) \/ Caller(r)
  PROVE  RunInv'
  <1> USE DEF TypeOK, RunInv, Refusals, runVars, gameVars, callerVars
  <1>1. ASSUME UNCHANGED <<tickers, queue, stack>>
        PROVE  \A s \in Requests : Offered(s)' = Offered(s)
    BY <1>1 DEF Offered, OnStack
  <1>2. CASE DialogRefuses(r) BY <1>1, <1>2 DEF DialogRefuses, Return, At
  <1>3. CASE NotReady(r)      BY <1>1, <1>3 DEF NotReady, Return, At
  <1>4. CASE Register(r)
    <2>1. \A s \in Requests : Offered(s)' => Offered(s) \/ s = r
      BY <1>4 DEF Register, Offered, OnStack
    <2> QED BY <1>4, <2>1 DEF Register, At
  <1>5. CASE Enqueue(r)
    <2>1. \A s \in Requests : Offered(s)' => Offered(s) \/ s = r
      BY <1>5 DEF Enqueue, Offered, OnStack
    <2> QED BY <1>5, <2>1 DEF Enqueue, At
  <1>6. CASE Wake(r)          BY <1>1, <1>6 DEF Wake, At
  <1>7. CASE SliceElapses(r)  BY <1>1, <1>7 DEF SliceElapses, At
  <1>8. CASE WaitAgain(r)     BY <1>1, <1>8 DEF WaitAgain, At
  <1>9. CASE Abandon(r)       BY <1>1, <1>9 DEF Abandon, At
  <1>10. CASE ReturnEvent(r)  BY <1>1, <1>10 DEF ReturnEvent
  <1>11. CASE ForgetEvent(r)  BY <1>1, <1>11 DEF ForgetEvent, At
  <1>12. CASE Answer(r)       BY <1>1, <1>12 DEF Answer, Return, At
  <1> QED BY <1>2, <1>3, <1>4, <1>5, <1>6, <1>7, <1>8, <1>9, <1>10, <1>11, <1>12
          DEF Caller

(* The steps of Run keep RunInv: only the first claim enters the handler. *)
LEMMA RunInvRuns ==
  ASSUME TypeInv, StackInv, RunInv, NEW r \in Requests, RunSteps(r)
  PROVE  RunInv'
  <1>1. TypeOK /\ \A s \in Requests : Offered(s)' => Offered(s)
    BY RunsOfferNothing DEF TypeInv
  <1> USE DEF TypeOK, RunInv, Refusals, runVars, callerVars
  <1>2. CASE CheckAbandoned(r)
    BY <1>1, <1>2 DEF CheckAbandoned
  <1>3. CASE ClaimLost(r)
    BY <1>1, <1>3 DEF ClaimLost, FirstToClaim
  <1>4. CASE Claim(r)
    <2>1. Offered(r) /\ ~claimed[r] /\ runs[r] = 0 /\ result[r] = "none"
      BY <1>1, <1>4, RunningIsOffered DEF Claim, FirstToClaim
    <2>2. pc[r] # "idle" /\ answer[r] \notin Refusals
      BY <2>1
    <2>3. UNCHANGED <<pc, answer>> /\ claimed' = [claimed EXCEPT ![r] = TRUE]
      BY <1>4 DEF Claim, FirstToClaim
    <2>4. \/ result' = [result EXCEPT ![r] = "not_ready"] /\ UNCHANGED runs
          \/ runs' = [runs EXCEPT ![r] = @ + 1] /\ UNCHANGED result
      BY <1>4 DEF Claim, FirstToClaim
    <2>5. CASE result' = [result EXCEPT ![r] = "not_ready"] /\ UNCHANGED runs
      BY <1>1, <2>1, <2>2, <2>3, <2>5
    <2>6. CASE runs' = [runs EXCEPT ![r] = @ + 1] /\ UNCHANGED result
      BY <1>1, <2>1, <2>2, <2>3, <2>6
    <2> QED BY <2>4, <2>5, <2>6
  <1>5. CASE HandlerReturns(r)
    <2>1. claimed[r]
      <3>1. Len(stack) \in DOMAIN stack /\ Last(stack) = stack[Len(stack)]
        BY <1>5 DEF HandlerReturns, Running, OnTop, Idle, Last
      <3> QED BY <1>5, <3>1 DEF HandlerReturns, Running, OnTop, StackInv, Claiming
    <2>2. runs[r] \in Nat /\ result' = [result EXCEPT ![r] = "handler"]
          /\ UNCHANGED <<pc, answer, claimed, runs>>
      BY <1>1, <1>5 DEF HandlerReturns
    <2> QED BY <1>1, <2>1, <2>2
  <1>6. CASE LockEvent(r)
    BY <1>1, <1>6 DEF LockEvent
  <1>7. CASE Trigger(r)
    BY <1>1, <1>7 DEF Trigger
  <1> QED BY <1>2, <1>3, <1>4, <1>5, <1>6, <1>7 DEF RunSteps, RunStep

(* The other steps of the game thread keep RunInv. *)
LEMMA RunInvLoop ==
  ASSUME TypeInv, RunInv, GameLoop
  PROVE  RunInv'
  <1>1. \A s \in Requests : Offered(s)' => Offered(s)
    BY LoopOffersNothing
  <1>2. UNCHANGED <<pc, answer, claimed, result, runs>>
    BY DEF GameLoop, TickerFires, DrainStarts, DrainNext, DrainEnds, ModalOpens,
           ModalCloses, PreTick, SetGEditor, SetEditorReady, BeginShutdown,
           callerVars, runVars
  <1> QED BY <1>1, <1>2 DEF RunInv

(* Claimed and Result are set before the phase that relies on them. *)
LEMMA StackInvRuns ==
  ASSUME TypeInv, StackInv, NEW r \in Requests, RunSteps(r)
  PROVE  StackInv'
  <1>1. TypeOK /\ OnTop("run")
    BY RunsFrames DEF TypeInv
  <1>2. \A s \in Requests : /\ claimed[s] => claimed'[s]
                            /\ result[s] # "none" => result'[s] # "none"
    BY <1>1 DEF TypeOK, RunSteps, RunStep, CheckAbandoned, ClaimLost, Claim, FirstToClaim,
                HandlerReturns, LockEvent, Trigger, runVars
  <1>3. \A i \in DOMAIN stack : stack[i].kind = "run" => stack[i].req \in Requests
    <2>1. \A i \in DOMAIN stack : stack[i] \in Frame
      BY <1>1 DEF TypeOK
    <2>2. \A f \in Frame : f.kind = "run" => f.req \in Requests
      BY DEF Frame
    <2> QED BY <2>1, <2>2
  <1>4. Len(stack) \in DOMAIN stack /\ stack[Len(stack)] = Last(stack)
    BY <1>1 DEF TypeOK, OnTop, Idle, Last
  <1>5. ASSUME NEW p \in RunPhases, Enter(r, p)
        PROVE  /\ p \in Claiming => claimed'[r]
               /\ p \in Finished => result'[r] # "none"
    <2>1. ASSUME NEW q \in RunPhases, Enter(r, q) PROVE q = p
      <3>1. /\ stack'[Len(stack)] = RunFrame(r, Last(stack).by, p)
            /\ stack'[Len(stack)] = RunFrame(r, Last(stack).by, q)
        BY <1>1, <1>5, <2>1, EnterEffect
      <3> QED BY <3>1 DEF RunFrame
    <2>2. ~RunReturns(r)
      <3>1. Len(stack') = Len(stack) /\ Len(stack) \in Nat
        BY <1>1, <1>5, EnterEffect DEF TypeOK
      <3>2. ASSUME RunReturns(r) PROVE Len(stack') = Len(stack) - 1
        BY <1>1, <3>2, RunReturnsEffect
      <3> QED BY <3>1, <3>2
    <2>3. CASE CheckAbandoned(r)
      <3>1. p = "claim" BY <2>1, <2>2, <2>3 DEF CheckAbandoned, RunPhases
      <3> QED BY <3>1 DEF Claiming, Finished
    <2>4. CASE ClaimLost(r) BY <2>2, <2>4 DEF ClaimLost, FirstToClaim
    <2>5. CASE Claim(r)
      <3>1. CASE Refused(r)
        <4>1. p = "notify" BY <2>1, <2>5, <3>1 DEF Claim, FirstToClaim, RunPhases
        <4> QED BY <1>1, <2>5, <3>1, <4>1 DEF Claim, FirstToClaim, TypeOK
      <3>2. CASE ~Refused(r)
        <4>1. p = "handler" BY <2>1, <2>5, <3>2 DEF Claim, FirstToClaim, RunPhases
        <4> QED BY <1>1, <2>5, <3>2, <4>1 DEF Claim, FirstToClaim, TypeOK, Finished
      <3> QED BY <3>1, <3>2
    <2>6. CASE HandlerReturns(r)
      <3>1. claimed[r]
        BY <1>4, <2>6 DEF HandlerReturns, Running, OnTop, StackInv, Claiming
      <3> QED BY <1>1, <1>2, <2>6, <3>1 DEF HandlerReturns, TypeOK
    <2>7. CASE LockEvent(r)
      <3>1. claimed[r] /\ result[r] # "none"
        BY <1>4, <2>7 DEF LockEvent, Running, OnTop, StackInv, Claiming, Finished
      <3> QED BY <1>2, <3>1
    <2>8. CASE Trigger(r) BY <2>2, <2>8 DEF Trigger
    <2> QED BY <2>3, <2>4, <2>5, <2>6, <2>7, <2>8 DEF RunSteps, RunStep
  <1>6. SUFFICES ASSUME NEW i \in DOMAIN stack', stack'[i].kind = "run"
                 PROVE  /\ stack'[i].phase \in Claiming => claimed'[stack'[i].req]
                        /\ stack'[i].phase \in Finished
                             => result'[stack'[i].req] # "none"
    BY DEF StackInv
  <1>7. CASE i \in DOMAIN stack /\ stack'[i] = stack[i]
    BY <1>2, <1>3, <1>6, <1>7 DEF StackInv
  <1>8. CASE \E p \in RunPhases : Enter(r, p) /\ stack'[i] = RunFrame(r, stack[i].by, p)
    BY <1>5, <1>8 DEF RunFrame
  <1> QED BY <1>7, <1>8, RunsFrames

(* The other steps of the game thread keep StackInv. *)
LEMMA StackInvLoop ==
  ASSUME TypeInv, StackInv, GameLoop
  PROVE  StackInv'
  <1>1. UNCHANGED <<claimed, result>>
    BY DEF GameLoop, TickerFires, DrainStarts, DrainNext, DrainEnds, ModalOpens,
           ModalCloses, PreTick, SetGEditor, SetEditorReady, BeginShutdown, runVars
  <1>2. ASSUME NEW f, Fresh(f), f.kind = "run" PROVE f.phase = "check"
    BY <1>2 DEF Fresh, ModalFrame, DrainFrame, RunFrame
  <1> QED BY <1>1, <1>2, LoopFrames DEF StackInv, Claiming, Finished

(* A socket thread does not touch the stack or undo a claim. *)
LEMMA StackInvCallers ==
  ASSUME StackInv, NEW r \in Requests,
         DialogRefuses(r) \/ NotReady(r) \/ Register(r) \/ Caller(r)
  PROVE  StackInv'
  BY DEF StackInv, DialogRefuses, NotReady, Register, Caller, Enqueue, Wake,
         SliceElapses, WaitAgain, Abandon, ReturnEvent, ForgetEvent, Answer,
         runVars, gameVars

RunsInductive == StackInv /\ RunInv

(* The invariants about runs hold throughout. *)
LEMMA RunsInductiveHolds == Spec => []RunsInductive
  <1>1. Init => RunsInductive
    BY RunInvInit DEF Init, StackInv, RunsInductive
  <1>2. TypeInv /\ RunsInductive /\ [Next]_vars => RunsInductive'
    <2> SUFFICES ASSUME TypeInv, RunsInductive, [Next]_vars PROVE RunsInductive'
      OBVIOUS
    <2> USE DEF RunsInductive
    <2>1. CASE UNCHANGED vars
      BY <2>1 DEF vars, callerVars, runVars, eventVars, gameVars, phaseVars,
                  StackInv, RunInv, Offered, OnStack
    <2>2. ASSUME NEW r \in Requests,
                 DialogRefuses(r) \/ NotReady(r) \/ Register(r) \/ Caller(r)
          PROVE  RunsInductive'
      BY <2>2, StackInvCallers, RunInvCallers DEF TypeInv
    <2>3. ASSUME NEW r \in Requests, RunSteps(r) PROVE RunsInductive'
      BY <2>3, StackInvRuns, RunInvRuns
    <2>4. ASSUME GameLoop PROVE RunsInductive'
      BY <2>4, StackInvLoop, RunInvLoop
    <2> QED BY <2>1, <2>2, <2>3, <2>4 DEF Next, RunSteps, GameLoop
  <1> QED BY <1>1, <1>2, TypeInductive, PTL DEF Spec

(* The handler of a request is entered at most once, and never for a request *)
(* that was answered "dialog" or "not_ready".                                *)
THEOREM AtMostOneRun == Spec => []RunsAtMostOnce
  <1>1. RunsInductive => RunsAtMostOnce
    BY DEF RunsInductive, RunInv, RunsAtMostOnce, Refusals
  <1> QED BY <1>1, RunsInductiveHolds, PTL

-----------------------------------------------------------------------------
(***************************************************************************)
(* Nothing else runs under a dialog.  A ticker fires on the empty stack    *)
(* only, so every other run comes from the queue, and only modal-safe      *)
(* requests are enqueued.                                                  *)
(***************************************************************************)
ModalInv ==
  /\ \A r \in Requests : pc[r] = "enqueue" => r \in ModalSafe
  /\ \A i \in DOMAIN queue : queue[i] \in ModalSafe
  /\ \A i \in DOMAIN stack :
       i > 1 /\ stack[i].kind = "run" => stack[i].req \in ModalSafe

(* A socket thread enqueues a modal-safe request only. *)
LEMMA ModalInvCallers ==
  ASSUME TypeOK, ModalInv, NEW r \in Requests,
         DialogRefuses(r) \/ NotReady(r) \/ Register(r) \/ Caller(r)
  PROVE  ModalInv'
  <1> USE DEF TypeOK, ModalInv, gameVars, callerVars
  <1>1. CASE Register(r)
    <2>1. UNCHANGED <<queue, stack>>
          /\ pc' = [pc EXCEPT ![r] = IF r \in ModalSafe THEN "enqueue" ELSE "wait"]
      BY <1>1 DEF Register, At
    <2> QED BY <2>1
  <1>2. CASE Enqueue(r)
    <2>1. /\ UNCHANGED stack /\ r \in ModalSafe
          /\ pc' = [pc EXCEPT ![r] = "wait"]
          /\ queue' = Append(queue, r)
      BY <1>2 DEF Enqueue, At
    <2>2. \A i \in DOMAIN queue' :
            queue'[i] = r \/ (i \in DOMAIN queue /\ queue'[i] = queue[i])
      BY <2>1
    <2> QED BY <2>1, <2>2
  <1>3. CASE DialogRefuses(r) BY <1>3 DEF DialogRefuses, Return, At
  <1>4. CASE NotReady(r)      BY <1>4 DEF NotReady, Return, At
  <1>5. CASE Wake(r)          BY <1>5 DEF Wake, At
  <1>6. CASE SliceElapses(r)  BY <1>6 DEF SliceElapses, At
  <1>7. CASE WaitAgain(r)     BY <1>7 DEF WaitAgain, At
  <1>8. CASE Abandon(r)       BY <1>8 DEF Abandon, At
  <1>9. CASE ReturnEvent(r)   BY <1>9 DEF ReturnEvent
  <1>10. CASE ForgetEvent(r)  BY <1>10 DEF ForgetEvent, At
  <1>11. CASE Answer(r)       BY <1>11 DEF Answer, Return, At
  <1> QED BY <1>1, <1>2, <1>3, <1>4, <1>5, <1>6, <1>7, <1>8, <1>9, <1>10, <1>11
          DEF Caller

(* Run enters no other request. *)
LEMMA ModalInvRuns ==
  ASSUME TypeInv, ModalInv, NEW r \in Requests, RunSteps(r)
  PROVE  ModalInv'
  <1>1. \A i \in DOMAIN queue' : \E j \in DOMAIN queue : queue'[i] = queue[j]
    <2>1. CASE RunReturns(r)
      BY <2>1, RunsFrames, RunReturnsEffect DEF TypeInv
    <2>2. CASE UNCHANGED queue
      BY <2>2
    <2> QED BY <2>1, <2>2 DEF RunSteps, RunStep, CheckAbandoned, ClaimLost, Claim, FirstToClaim,
                              HandlerReturns, LockEvent, Trigger
  <1>2. UNCHANGED pc
    BY DEF RunSteps, RunStep, CheckAbandoned, ClaimLost, Claim, FirstToClaim, HandlerReturns,
           LockEvent, Trigger, callerVars
  <1>3. stack[Len(stack)].kind = "run" /\ stack[Len(stack)].req = r
    BY DEF RunSteps, RunStep, CheckAbandoned, ClaimLost, Claim, FirstToClaim, HandlerReturns,
           LockEvent, Trigger, Running, OnTop, Last
  <1> QED BY <1>1, <1>2, <1>3, RunsFrames DEF ModalInv, RunFrame

(* A ticker fires on the empty stack, a drain takes from the queue. *)
LEMMA ModalInvLoop ==
  ASSUME TypeInv, ModalInv, GameLoop
  PROVE  ModalInv'
  <1>1. UNCHANGED pc
    BY DEF GameLoop, TickerFires, DrainStarts, DrainNext, DrainEnds, ModalOpens,
           ModalCloses, PreTick, SetGEditor, SetEditorReady, BeginShutdown,
           callerVars
  <1>2. queue # <<>> => 1 \in DOMAIN queue /\ Head(queue) = queue[1]
    BY DEF TypeInv, TypeOK
  <1>3. Idle => Len(stack) = 0
    BY DEF Idle
  <1> QED BY <1>1, <1>2, <1>3, LoopFrames, LoopQueue
          DEF ModalInv, Fresh, ModalFrame, DrainFrame, RunFrame

(* ModalInv holds throughout. *)
LEMMA ModalInvHolds == Spec => []ModalInv
  <1>1. Init => ModalInv
    BY DEF Init, ModalInv
  <1>2. TypeInv /\ ModalInv /\ [Next]_vars => ModalInv'
    <2> SUFFICES ASSUME TypeInv, ModalInv, [Next]_vars PROVE ModalInv'
      OBVIOUS
    <2>1. CASE UNCHANGED vars
      BY <2>1 DEF vars, callerVars, gameVars, ModalInv
    <2>2. ASSUME NEW r \in Requests,
                 DialogRefuses(r) \/ NotReady(r) \/ Register(r) \/ Caller(r)
          PROVE  ModalInv'
      BY <2>2, ModalInvCallers DEF TypeInv
    <2>3. ASSUME NEW r \in Requests, RunSteps(r) PROVE ModalInv'
      BY <2>3, ModalInvRuns
    <2>4. ASSUME GameLoop PROVE ModalInv'
      BY <2>4, ModalInvLoop
    <2> QED BY <2>1, <2>2, <2>3, <2>4 DEF Next, RunSteps, GameLoop
  <1> QED BY <1>1, <1>2, TypeInductive, PTL DEF Spec

(* While a dialog holds the game thread, the only requests that run are the  *)
(* modal-safe ones: "while a modal is up, nothing else runs".                *)
THEOREM OnlyModalSafeUnderModal == Spec => []NothingElseRunsUnderModal
  <1>1. TypeOK /\ ModalInv => NothingElseRunsUnderModal
    BY DEF TypeOK, ModalInv, NothingElseRunsUnderModal
  <1>2. TypeInv => TypeOK
    BY DEF TypeInv
  <1> QED BY <1>1, <1>2, TypeInductive, ModalInvHolds, PTL

-----------------------------------------------------------------------------
(***************************************************************************)
(* The pooled events.  An event serves one request from Register until the *)
(* caller takes EventMutex to return it; a run triggers it inside the same *)
(* mutex, after writing Result.  So a set event, and a wait that succeeds, *)
(* always belong to a request that was run, although events are reused.    *)
(***************************************************************************)

(* Only the top frame can be anywhere but inside its handler. *)
TopInv ==
  \A i \in DOMAIN stack :
    i < Len(stack) /\ stack[i].kind = "run" => stack[i].phase = "handler"

EventInv ==
  /\ \A r \in Requests : Owns(r) => event[r] \notin pool
  /\ \A r, s \in Requests : Owns(r) /\ Owns(s) /\ event[r] = event[s] => r = s
  /\ \A r \in Requests :
       /\ lock[r] = "caller" <=> pc[r] = "returning"
       /\ lock[r] = "runner" => Owns(r)
       /\ Running(r, "trigger") => lock[r] = "runner"
       /\ Owns(r) /\ event[r] \in signalled => result[r] # "none"
       /\ pc[r] = "completed" => result[r] # "none"
  /\ \A e \in pool : e \notin signalled

(* The steps of Run keep every lower frame inside its handler. *)
LEMMA TopInvRuns ==
  ASSUME TypeInv, TopInv, NEW r \in Requests, RunSteps(r)
  PROVE  /\ TopInv'
         /\ RunReturns(r) => \A s \in Requests : ~Running(s, "trigger")'
  <1>1. TypeOK /\ OnTop("run") /\ stack \in Seq(Frame) /\ stack' \in Seq(Frame)
    BY RunsFrames DEF TypeInv, TypeOK
  <1>2. CASE RunReturns(r)
    <2>1. /\ Len(stack') = Len(stack) - 1
          /\ \A i \in 1 .. Len(stack) - 1 : stack'[i] = stack[i]
      BY <1>1, <1>2, RunReturnsEffect
    <2>2. \A i \in DOMAIN stack' : stack'[i].kind = "run" => stack'[i].phase = "handler"
      BY <1>1, <2>1 DEF TopInv
    <2>3. ~Idle' => Len(stack') \in DOMAIN stack' /\ Last(stack)' = stack'[Len(stack')]
      BY <1>1 DEF Idle, Last
    <2> QED BY <2>2, <2>3 DEF TopInv, Running, OnTop
  <1>3. ASSUME NEW p \in RunPhases, Enter(r, p)
        PROVE  TopInv' /\ ~RunReturns(r)
    <2>1. /\ Len(stack') = Len(stack)
          /\ \A i \in 1 .. Len(stack) - 1 : stack'[i] = stack[i]
      BY <1>1, <1>3, EnterEffect
    <2>2. ~RunReturns(r)
      <3>1. ASSUME RunReturns(r) PROVE Len(stack') = Len(stack) - 1
        BY <1>1, <3>1, RunReturnsEffect
      <3> QED BY <1>1, <2>1, <3>1
    <2> QED BY <1>1, <2>1, <2>2 DEF TopInv
  <1>4. RunReturns(r) \/ \E p \in RunPhases : Enter(r, p)
    BY DEF RunSteps, RunStep, CheckAbandoned, ClaimLost, Claim, FirstToClaim, HandlerReturns,
           LockEvent, Trigger, RunPhases
  <1> QED BY <1>2, <1>3, <1>4

(* The game loop pushes a frame only on an empty stack, on a dialog or a     *)
(* drain, or on a handler that pumps the UI.                                 *)
LEMMA TopInvLoop ==
  ASSUME TypeInv, TopInv, GameLoop
  PROVE  /\ TopInv'
         /\ \A s \in Requests : Running(s, "trigger")' => Running(s, "trigger")
  <1>1. TypeOK /\ stack \in Seq(Frame) /\ queue \in Seq(Requests) /\ stack' \in Seq(Frame)
    BY LoopFrames DEF TypeInv, TypeOK
  <1>2. Len(stack') > Len(stack) =>
          Idle \/ OnTop("modal") \/ OnTop("drain") \/ \E r \in Requests : Running(r, "handler")
    <2>1. CASE DrainEnds \/ ModalCloses
      <3>1. stack # <<>> /\ stack' = Front(stack)
        BY <2>1 DEF DrainEnds, ModalCloses, OnTop, Idle
      <3> QED BY <1>1, <3>1, PopTyped
    <2>2. CASE UNCHANGED stack
      BY <1>1, <2>2
    <2> QED BY <2>1, <2>2 DEF GameLoop, TickerFires, DrainStarts, DrainNext,
              ModalOpens, MayPump, PreTick, SetGEditor, SetEditorReady,
              BeginShutdown, gameVars
  <1>3. stack # <<>> => Len(stack) \in DOMAIN stack /\ Last(stack) = stack[Len(stack)]
    BY <1>1 DEF Last
  <1>4. Len(stack') > Len(stack) /\ stack # <<>> /\ stack[Len(stack)].kind = "run"
          => stack[Len(stack)].phase = "handler"
    BY <1>2, <1>3 DEF OnTop, Idle, Running
  <1>5. TopInv'
    <2>1. SUFFICES ASSUME NEW i \in DOMAIN stack', i < Len(stack'),
                          stack'[i].kind = "run"
                   PROVE  stack'[i].phase = "handler"
      BY DEF TopInv
    <2>2. i \in DOMAIN stack /\ stack'[i] = stack[i]
      <3>1. Len(stack') <= Len(stack) + 1
        <4>1. Len(stack') \in Nat /\ (Len(stack') > 0 => Len(stack') \in DOMAIN stack')
          BY <1>1
        <4> QED BY <1>1, <4>1, LoopFrames
      <3> QED BY <1>1, <2>1, <3>1, LoopFrames
    <2>3. CASE i < Len(stack)
      BY <2>1, <2>2, <2>3 DEF TopInv
    <2>4. CASE i = Len(stack)
      BY <1>1, <1>4, <2>1, <2>2, <2>4
    <2> QED BY <1>1, <2>2, <2>3, <2>4
  <1>6. ASSUME NEW s \in Requests, Running(s, "trigger")' PROVE Running(s, "trigger")
    <2>1. /\ stack' # <<>> /\ Len(stack') \in DOMAIN stack'
          /\ stack'[Len(stack')].kind = "run"
          /\ stack'[Len(stack')].req = s /\ stack'[Len(stack')].phase = "trigger"
      BY <1>1, <1>6 DEF Running, OnTop, Idle, Last
    <2>2. ~Fresh(stack'[Len(stack')])
      BY <2>1 DEF Fresh, ModalFrame, DrainFrame, RunFrame
    <2>3. Len(stack') \in DOMAIN stack /\ stack'[Len(stack')] = stack[Len(stack')]
      BY <2>1, <2>2, LoopFrames
    <2>4. Len(stack') = Len(stack)
      BY <1>1, <2>1, <2>3 DEF TopInv
    <2> QED BY <1>3, <2>1, <2>3, <2>4 DEF Running, OnTop, Idle
  <1> QED BY <1>5, <1>6

(* A socket thread takes and returns events by the discipline of the pool. *)
LEMMA EventInvCallers ==
  ASSUME TypeInv, EventInv, NEW r \in Requests,
         DialogRefuses(r) \/ NotReady(r) \/ Register(r) \/ Caller(r)
  PROVE  EventInv'
  <1> USE EventAssumption
          DEF TypeInv, TypeOK, EventHeld, HasEvent, EventInv, Owns, runVars, eventVars
  <1>1. \A s \in Requests : Running(s, "trigger")' = Running(s, "trigger")
    BY DEF DialogRefuses, NotReady, Register, Caller, Enqueue, Wake, SliceElapses,
           WaitAgain, Abandon, ReturnEvent, ForgetEvent, Answer, gameVars,
           Running, OnTop, Idle
  <1>2. CASE DialogRefuses(r) BY <1>1, <1>2 DEF DialogRefuses, Return, At
  <1>3. CASE NotReady(r)      BY <1>1, <1>3 DEF NotReady, Return, At
  <1>4. CASE Register(r)
    <2>1. PICK e \in pool : event' = [event EXCEPT ![r] = e] /\ pool' = pool \ {e}
      BY <1>4 DEF Register
    <2>2. event[r] = NoEvent /\ pc[r] = "idle" /\ e \in Events /\ e \notin signalled
      BY <1>4, <2>1 DEF Register, At
    <2>3. pc'[r] \in {"enqueue", "wait"} /\ \A s \in Requests \ {r} : pc'[s] = pc[s]
      BY <1>4 DEF Register, At
    <2>4. UNCHANGED <<lock, result, signalled>>
      BY <1>4 DEF Register
    <2> QED BY <1>1, <2>1, <2>2, <2>3, <2>4
  <1>5. CASE Enqueue(r)       BY <1>1, <1>5 DEF Enqueue, At
  <1>6. CASE Wake(r)          BY <1>1, <1>6 DEF Wake, At
  <1>7. CASE SliceElapses(r)  BY <1>1, <1>7 DEF SliceElapses, At
  <1>8. CASE WaitAgain(r)     BY <1>1, <1>8 DEF WaitAgain, At
  <1>9. CASE Abandon(r)       BY <1>1, <1>9 DEF Abandon, At
  <1>10. CASE ReturnEvent(r)
    <2>1. Owns(r) /\ lock[r] = "free"
      BY <1>10 DEF ReturnEvent
    <2>2. /\ lock' = [lock EXCEPT ![r] = "caller"]
          /\ pc' = [pc EXCEPT ![r] = "returning"]
          /\ pool' = pool \cup {event[r]} /\ signalled' = signalled \ {event[r]}
          /\ UNCHANGED <<event, result>>
      BY <1>10 DEF ReturnEvent
    <2>3. \A s \in Requests : Owns(s)' <=> Owns(s) /\ s # r
      BY <2>2
    <2> QED BY <1>1, <2>1, <2>2, <2>3
  <1>11. CASE ForgetEvent(r)
    <2>1. /\ lock' = [lock EXCEPT ![r] = "free"] /\ pc[r] = "returning"
          /\ pc' = [pc EXCEPT ![r] = "answering"]
          /\ event' = [event EXCEPT ![r] = NoEvent]
          /\ UNCHANGED <<pool, signalled, result>>
      BY <1>11 DEF ForgetEvent, At
    <2>2. \A s \in Requests : Owns(s)' <=> Owns(s)
      BY <2>1
    <2> QED BY <1>1, <2>1, <2>2
  <1>12. CASE Answer(r)       BY <1>1, <1>12 DEF Answer, Return, At
  <1> QED BY <1>2, <1>3, <1>4, <1>5, <1>6, <1>7, <1>8, <1>9, <1>10, <1>11, <1>12
          DEF Caller

(* Run triggers the event of its own request, under the mutex. *)
LEMMA EventInvRuns ==
  ASSUME TypeInv, TopInv, StackInv, EventInv, NEW r \in Requests, RunSteps(r)
  PROVE  EventInv'
  <1> USE DEF TypeInv, TypeOK, EventInv, Owns, callerVars, runVars, eventVars
  <1>1. TypeOK /\ OnTop("run") /\ RunPhases # {}
    BY RunsFrames DEF RunPhases
  <1>2. Len(stack) \in DOMAIN stack /\ stack[Len(stack)] = Last(stack)
    BY <1>1 DEF OnTop, Idle, Last
  <1>3. ASSUME RunReturns(r) PROVE \A s \in Requests : ~Running(s, "trigger")'
    BY <1>3, TopInvRuns
  <1>4. ASSUME NEW p \in RunPhases, Enter(r, p)
        PROVE  \A s \in Requests : Running(s, "trigger")' => s = r /\ p = "trigger"
    <2>1. /\ stack' \in Seq(Frame) /\ Len(stack') = Len(stack)
          /\ stack'[Len(stack)] = RunFrame(r, Last(stack).by, p)
      BY <1>1, <1>4, EnterEffect
    <2>2. Last(stack)' = RunFrame(r, Last(stack).by, p)
      BY <2>1 DEF Last
    <2> QED BY <2>2 DEF Running, RunFrame
  <1>5. CASE CheckAbandoned(r)
    <2>1. \A s \in Requests : ~Running(s, "trigger")'
      BY <1>3, <1>4, <1>5 DEF CheckAbandoned, RunPhases
    <2> QED BY <1>5, <2>1 DEF CheckAbandoned
  <1>6. CASE ClaimLost(r)
    <2>1. \A s \in Requests : ~Running(s, "trigger")'
      BY <1>3, <1>6 DEF ClaimLost, FirstToClaim
    <2> QED BY <1>6, <2>1 DEF ClaimLost, FirstToClaim
  <1>7. CASE Claim(r)
    <2>1. \A s \in Requests : ~Running(s, "trigger")'
      BY <1>4, <1>7 DEF Claim, FirstToClaim, RunPhases
    <2>2. /\ UNCHANGED <<pc, event, lock, pool, signalled>>
          /\ \A s \in Requests : result[s] # "none" => result'[s] # "none"
      BY <1>7 DEF Claim, FirstToClaim
    <2> QED BY <2>1, <2>2
  <1>8. CASE HandlerReturns(r)
    <2>1. \A s \in Requests : ~Running(s, "trigger")'
      BY <1>4, <1>8 DEF HandlerReturns, RunPhases
    <2>2. /\ UNCHANGED <<pc, event, lock, pool, signalled>>
          /\ \A s \in Requests : result[s] # "none" => result'[s] # "none"
      BY <1>8 DEF HandlerReturns
    <2> QED BY <2>1, <2>2
  <1>9. CASE LockEvent(r)
    <2>1. CASE event[r] = NoEvent
      <3>1. \A s \in Requests : ~Running(s, "trigger")'
        BY <1>3, <1>9, <2>1 DEF LockEvent
      <3> QED BY <1>9, <2>1, <3>1 DEF LockEvent
    <2>2. CASE event[r] # NoEvent
      <3>1. \A s \in Requests : Running(s, "trigger")' => s = r
        BY <1>4, <1>9, <2>2 DEF LockEvent, RunPhases
      <3>2. /\ UNCHANGED <<pc, event, pool, signalled, result>> /\ lock[r] = "free"
            /\ lock' = [lock EXCEPT ![r] = "runner"]
        BY <1>9, <2>2 DEF LockEvent
      <3>3. Owns(r)
        BY <2>2, <3>2
      <3> QED BY <3>1, <3>2, <3>3
    <2> QED BY <2>1, <2>2
  <1>10. CASE Trigger(r)
    <2>1. \A s \in Requests : ~Running(s, "trigger")'
      BY <1>3, <1>10 DEF Trigger
    <2>2. lock[r] = "runner" /\ Owns(r) /\ event[r] \notin pool
      BY <1>10 DEF Trigger
    <2>3. result[r] # "none"
      BY <1>2, <1>10 DEF Trigger, Running, OnTop, StackInv, Finished
    <2>4. /\ UNCHANGED <<pc, event, pool, result>>
          /\ lock' = [lock EXCEPT ![r] = "free"]
          /\ signalled' = signalled \cup {event[r]}
      BY <1>10 DEF Trigger
    <2> QED BY <2>1, <2>2, <2>3, <2>4
  <1> QED BY <1>5, <1>6, <1>7, <1>8, <1>9, <1>10 DEF RunSteps, RunStep

(* The other steps of the game thread touch no event. *)
LEMMA EventInvLoop ==
  ASSUME TypeInv, TopInv, EventInv, GameLoop
  PROVE  EventInv'
  <1>1. UNCHANGED <<pc, event, lock, pool, signalled, result>>
    BY DEF GameLoop, TickerFires, DrainStarts, DrainNext, DrainEnds, ModalOpens,
           ModalCloses, PreTick, SetGEditor, SetEditorReady, BeginShutdown,
           callerVars, runVars, eventVars
  <1>2. \A s \in Requests : Running(s, "trigger")' => Running(s, "trigger")
    BY TopInvLoop
  <1> QED BY <1>1, <1>2 DEF EventInv, Owns

EventsInductive == TopInv /\ EventInv

(* The discipline of the events holds throughout. *)
LEMMA EventsInductiveHolds == Spec => []EventsInductive
  <1>1. Init => EventsInductive
    BY DEF Init, EventsInductive, TopInv, EventInv, Owns, Running, OnTop, Idle
  <1>2. TypeInv /\ RunsInductive /\ EventsInductive /\ [Next]_vars => EventsInductive'
    <2> SUFFICES ASSUME TypeInv, StackInv, TopInv, EventInv, [Next]_vars
                 PROVE  TopInv' /\ EventInv'
      BY DEF EventsInductive, RunsInductive
    <2>1. CASE UNCHANGED vars
      BY <2>1 DEF vars, callerVars, eventVars, runVars, gameVars, TopInv, EventInv,
                  Owns, Running, OnTop, Idle
    <2>2. ASSUME NEW r \in Requests,
                 DialogRefuses(r) \/ NotReady(r) \/ Register(r) \/ Caller(r)
          PROVE  TopInv' /\ EventInv'
      <3>1. UNCHANGED stack
        BY <2>2 DEF DialogRefuses, NotReady, Register, Caller, Enqueue, Wake,
             SliceElapses, WaitAgain, Abandon, ReturnEvent, ForgetEvent, Answer,
             gameVars
      <3> QED BY <2>2, <3>1, EventInvCallers DEF TopInv
    <2>3. ASSUME NEW r \in Requests, RunSteps(r) PROVE TopInv' /\ EventInv'
      BY <2>3, TopInvRuns, EventInvRuns
    <2>4. ASSUME GameLoop PROVE TopInv' /\ EventInv'
      BY <2>4, TopInvLoop, EventInvLoop
    <2> QED BY <2>1, <2>2, <2>3, <2>4 DEF Next, RunSteps, GameLoop
  <1> QED BY <1>1, <1>2, TypeInductive, RunsInductiveHolds, PTL DEF Spec

(* A wait that ends because the event was set was ended by the request's own *)
(* run, which had written its Result.                                        *)
THEOREM CompletionIsOwn == Spec => []OwnCompletion
  <1>1. EventsInductive => OwnCompletion
    BY DEF EventsInductive, EventInv, OwnCompletion
  <1> QED BY <1>1, EventsInductiveHolds, PTL

(* Trigger is only called on an event the request still owns, and no two     *)
(* requests own the same event.                                              *)
THEOREM TriggerIsLive == Spec => []TriggersLiveEvent
  <1>1. EventsInductive => TriggersLiveEvent
    BY DEF EventsInductive, EventInv, TriggersLiveEvent
  <1> QED BY <1>1, EventsInductiveHolds, PTL

-----------------------------------------------------------------------------
(***************************************************************************)
(* Nothing is lost.  A ticker is destroyed when its Run returns, and an    *)
(* entry leaves the queue when it is stale or when a drain runs it; each   *)
(* of these finds the request abandoned or claimed.                        *)
(***************************************************************************)
Awaited(r) == pc[r] \in {"enqueue", "wait", "sliced"} /\ ~claimed[r]
Queued(r)  == \E i \in DOMAIN queue : queue[i] = r

WorkInv ==
  \A r \in Requests :
    /\ pc[r] \in {"idle", "enqueue", "wait", "sliced", "completed"} => ~abandoned[r]
    /\ Awaited(r) => r \in tickers
    /\ Awaited(r) /\ pc[r] # "enqueue" /\ r \in ModalSafe
         => Queued(r) \/ OfferedTo(r, "drain")

(* A sweep spares the entry of a request that somebody waits for. *)
LEMMA SweepSpares ==
  ASSUME TypeOK, WorkInv, Sweep, NEW r \in Requests, Awaited(r), Queued(r)
  PROVE  Queued(r)'
  <1>1. Live(r)
    BY DEF WorkInv, Awaited, Live, Pins
  <1>2. PICK n \in 0 .. Len(queue) :
          /\ \A i \in 1 .. n : ~Live(queue[i])
          /\ Len(queue') = Len(queue) - n
          /\ \A i \in 1 .. Len(queue) - n : queue'[i] = queue[n + i]
    BY SweepEffect
  <1>3. PICK i \in DOMAIN queue : queue[i] = r
    BY DEF Queued
  <1>4. i \in 1 .. Len(queue) /\ Len(queue) \in Nat /\ n \in Nat
    BY <1>3 DEF TypeOK
  <1>5. i > n
    BY <1>1, <1>2, <1>3, <1>4
  <1>6. i - n \in 1 .. Len(queue) - n /\ n + (i - n) = i
    BY <1>4, <1>5
  <1>7. queue'[i - n] = r
    BY <1>2, <1>3, <1>6
  <1>8. i - n \in DOMAIN queue'
    <2>1. queue' \in Seq(Requests)
      BY SweepEffect
    <2> QED BY <1>2, <1>6, <2>1
  <1> QED BY <1>7, <1>8 DEF Queued

(* A socket thread offers its request before it waits. *)
LEMMA WorkCallers ==
  ASSUME TypeInv, WorkInv, NEW r \in Requests,
         DialogRefuses(r) \/ NotReady(r) \/ Register(r) \/ Caller(r)
  PROVE  WorkInv'
  <1> USE DEF TypeInv, TypeOK, WorkInv, Awaited, runVars, gameVars, callerVars
  <1>1. \A s \in Requests : OfferedTo(s, "drain")' = OfferedTo(s, "drain")
    BY DEF DialogRefuses, NotReady, Register, Caller, Enqueue, Wake, SliceElapses,
           WaitAgain, Abandon, ReturnEvent, ForgetEvent, Answer, OfferedTo
  <1>2. ASSUME UNCHANGED queue PROVE \A s \in Requests : Queued(s)' = Queued(s)
    BY <1>2 DEF Queued
  <1>3. CASE DialogRefuses(r) BY <1>1, <1>2, <1>3 DEF DialogRefuses, Return, At
  <1>4. CASE NotReady(r)      BY <1>1, <1>2, <1>4 DEF NotReady, Return, At
  <1>5. CASE Register(r)      BY <1>1, <1>2, <1>5 DEF Register, At
  <1>6. CASE Enqueue(r)
    <2>1. /\ pc[r] = "enqueue" /\ pc' = [pc EXCEPT ![r] = "wait"]
          /\ queue' = Append(queue, r)
          /\ UNCHANGED <<abandoned, claimed, tickers>>
      BY <1>6 DEF Enqueue, At
    <2>2. Queued(r)' /\ \A s \in Requests : Queued(s) => Queued(s)'
      <3>1. /\ \A i \in DOMAIN queue : i \in DOMAIN queue' /\ queue'[i] = queue[i]
            /\ Len(queue) + 1 \in DOMAIN queue' /\ queue'[Len(queue) + 1] = r
        BY <2>1
      <3> QED BY <3>1 DEF Queued
    <2> QED BY <1>1, <2>1, <2>2
  <1>7. CASE Wake(r)          BY <1>1, <1>2, <1>7 DEF Wake, At
  <1>8. CASE SliceElapses(r)  BY <1>1, <1>2, <1>8 DEF SliceElapses, At
  <1>9. CASE WaitAgain(r)     BY <1>1, <1>2, <1>9 DEF WaitAgain, At
  <1>10. CASE Abandon(r)      BY <1>1, <1>2, <1>10 DEF Abandon, At
  <1>11. CASE ReturnEvent(r)  BY <1>1, <1>2, <1>11 DEF ReturnEvent
  <1>12. CASE ForgetEvent(r)  BY <1>1, <1>2, <1>12 DEF ForgetEvent, At
  <1>13. CASE Answer(r)       BY <1>1, <1>2, <1>13 DEF Answer, Return, At
  <1> QED BY <1>3, <1>4, <1>5, <1>6, <1>7, <1>8, <1>9, <1>10, <1>11, <1>12, <1>13
          DEF Caller

(* Run returns for a request that nobody waits for, or that is claimed. *)
LEMMA ReturnsWhenDone ==
  ASSUME TypeInv, StackInv, WorkInv, NEW r \in Requests, RunSteps(r), RunReturns(r)
  PROVE  ~Awaited(r)
  <1>1. OnTop("run") /\ TypeOK
    BY RunsFrames DEF TypeInv
  <1>2. Len(stack) \in DOMAIN stack /\ stack[Len(stack)] = Last(stack)
    BY <1>1 DEF TypeOK, OnTop, Idle, Last
  <1>3. ASSUME NEW p \in RunPhases, Enter(r, p) PROVE FALSE
    <2>1. Len(stack') = Len(stack) /\ Len(stack') = Len(stack) - 1
      BY <1>1, <1>3, EnterEffect, RunReturnsEffect
    <2>2. Len(stack) \in Nat
      BY <1>1 DEF TypeOK
    <2> QED BY <2>1, <2>2
  <1>4. CASE CheckAbandoned(r)
    BY <1>3, <1>4 DEF CheckAbandoned, RunPhases, WorkInv, Awaited
  <1>5. CASE ClaimLost(r)
    BY <1>5 DEF ClaimLost, FirstToClaim, Awaited
  <1>6. CASE Claim(r) \/ HandlerReturns(r)
    BY <1>3, <1>6 DEF Claim, HandlerReturns, RunPhases
  <1>7. CASE LockEvent(r) \/ Trigger(r)
    BY <1>2, <1>7 DEF LockEvent, Trigger, Running, OnTop, StackInv, Claiming, Awaited
  <1> QED BY <1>4, <1>5, <1>6, <1>7 DEF RunSteps, RunStep

(* The steps of Run lose nothing. *)
LEMMA WorkRuns ==
  ASSUME TypeInv, StackInv, WorkInv, NEW r \in Requests, RunSteps(r)
  PROVE  WorkInv'
  <1>1. TypeOK /\ OnTop("run") /\ stack \in Seq(Frame)
    BY RunsFrames DEF TypeInv, TypeOK
  <1>2. UNCHANGED <<pc, abandoned>> /\ \A s \in Requests : claimed[s] => claimed'[s]
    BY <1>1 DEF RunSteps, RunStep, CheckAbandoned, ClaimLost, Claim, FirstToClaim,
           HandlerReturns, LockEvent, Trigger, callerVars, runVars, TypeOK
  <1>3. RunReturns(r) \/ \E p \in RunPhases : Enter(r, p) /\ UNCHANGED <<tickers, queue>>
    BY DEF RunSteps, RunStep, CheckAbandoned, ClaimLost, Claim, FirstToClaim, HandlerReturns,
           LockEvent, Trigger, RunPhases
  <1>4. Len(stack) \in DOMAIN stack /\ stack[Len(stack)] = Last(stack) /\ Last(stack).req = r
    BY <1>1 DEF OnTop, Idle, Last, RunSteps, RunStep, CheckAbandoned, ClaimLost, Claim,
           HandlerReturns, LockEvent, Trigger, Running
  <1>5. ASSUME NEW s \in Requests, Awaited(s)
        PROVE  /\ s \in tickers => s \in tickers'
               /\ Queued(s) => Queued(s)'
               /\ OfferedTo(s, "drain") => OfferedTo(s, "drain")'
    <2>1. CASE RunReturns(r)
      <3>1. s # r
        BY <1>5, <2>1, ReturnsWhenDone
      <3>2. s \in tickers => s \in tickers'
        BY <2>1, <3>1 DEF RunReturns
      <3>3. Queued(s) => Queued(s)'
        BY <1>1, <1>5, <2>1, SweepSpares DEF RunReturns, Queued
      <3>4. /\ stack' \in Seq(Frame) /\ Len(stack') = Len(stack) - 1
            /\ \A i \in 1 .. Len(stack) - 1 : stack'[i] = stack[i]
        BY <1>1, <2>1, RunReturnsEffect
      <3>5. ASSUME NEW i \in DOMAIN stack, stack[i].req = s
            PROVE  i \in DOMAIN stack' /\ stack'[i] = stack[i]
        <4>1. i # Len(stack)
          BY <1>4, <3>1, <3>5
        <4>2. i \in 1 .. Len(stack) - 1
          BY <1>1, <4>1
        <4> QED BY <3>4, <4>2
      <3> QED BY <3>2, <3>3, <3>5 DEF OfferedTo
    <2>2. CASE \E p \in RunPhases : Enter(r, p) /\ UNCHANGED <<tickers, queue>>
      <3>1. PICK p \in RunPhases : Enter(r, p) /\ UNCHANGED <<tickers, queue>>
        BY <2>2
      <3>2. /\ stack' \in Seq(Frame) /\ Len(stack') = Len(stack)
            /\ \A i \in 1 .. Len(stack) - 1 : stack'[i] = stack[i]
            /\ stack'[Len(stack)] = RunFrame(r, Last(stack).by, p)
        BY <1>1, <3>1, EnterEffect
      <3>3. ASSUME NEW i \in DOMAIN stack, stack[i].kind = "run"
            PROVE  /\ i \in DOMAIN stack' /\ stack'[i].kind = "run"
                   /\ stack'[i].req = stack[i].req /\ stack'[i].by = stack[i].by
        <4>1. i \in DOMAIN stack'
          BY <1>1, <3>2
        <4>2. CASE i = Len(stack)
          BY <1>4, <3>2, <3>3, <4>1, <4>2 DEF RunFrame
        <4>3. CASE i # Len(stack)
          <5>1. i \in 1 .. Len(stack) - 1
            BY <1>1, <4>3
          <5> QED BY <3>2, <3>3, <4>1, <5>1
        <4> QED BY <4>2, <4>3
      <3>4. OfferedTo(s, "drain") => OfferedTo(s, "drain")'
        BY <3>3 DEF OfferedTo
      <3> QED BY <3>1, <3>4 DEF Queued
    <2> QED BY <1>3, <2>1, <2>2
  <1>6. \A s \in Requests : Awaited(s)' => Awaited(s)
    BY <1>2 DEF Awaited
  <1> QED BY <1>2, <1>5, <1>6 DEF WorkInv

(* Outside Run, an entry leaves the queue as stale or for a drain's run. *)
LEMMA WorkLoop ==
  ASSUME TypeInv, WorkInv, GameLoop
  PROVE  WorkInv'
  <1>1. TypeOK /\ stack \in Seq(Frame) /\ queue \in Seq(Requests)
    BY DEF TypeInv, TypeOK
  <1>2. UNCHANGED <<pc, abandoned, claimed, tickers>>
    BY DEF GameLoop, TickerFires, DrainStarts, DrainNext, DrainEnds, ModalOpens,
           ModalCloses, PreTick, SetGEditor, SetEditorReady, BeginShutdown,
           callerVars, runVars
  <1>3. ASSUME NEW s \in Requests, NEW f \in Frame, stack' = Append(stack, f)
        PROVE  /\ OfferedTo(s, "drain") => OfferedTo(s, "drain")'
               /\ f = RunFrame(s, "drain", "check") => OfferedTo(s, "drain")'
    <2>1. /\ stack' \in Seq(Frame) /\ Len(stack') = Len(stack) + 1
          /\ \A i \in 1 .. Len(stack) : stack'[i] = stack[i]
          /\ stack'[Len(stack) + 1] = f
      BY <1>1, <1>3, PushTyped
    <2>2. /\ \A i \in DOMAIN stack : i \in DOMAIN stack' /\ stack'[i] = stack[i]
          /\ Len(stack) + 1 \in DOMAIN stack'
      BY <1>1, <2>1
    <2> QED BY <2>1, <2>2 DEF OfferedTo, RunFrame
  <1>4. ASSUME NEW s \in Requests, Awaited(s)
        PROVE  /\ Queued(s) => Queued(s)' \/ OfferedTo(s, "drain")'
               /\ OfferedTo(s, "drain") => OfferedTo(s, "drain")'
    <2>1. CASE DrainNext
      <3>1. /\ Head(queue) = queue[1] /\ Head(queue) \in Requests
            /\ queue' \in Seq(Requests) /\ Len(queue') = Len(queue) - 1
            /\ \A i \in 1 .. Len(queue') : queue'[i] = queue[i + 1]
        BY <1>1, <2>1, HeadTailProperties DEF DrainNext
      <3>2. RunFrame(Head(queue), "drain", "check") \in Frame
        BY <3>1, RunFrameTyped DEF RunPhases
      <3>3. OfferedTo(s, "drain") => OfferedTo(s, "drain")'
        <4>1. CASE stack' = stack BY <4>1 DEF OfferedTo
        <4>2. CASE stack' = Append(stack, RunFrame(Head(queue), "drain", "check"))
          BY <1>3, <3>2, <4>2
        <4> QED BY <2>1, <4>1, <4>2 DEF DrainNext
      <3>4. CASE Head(queue) = s
        <4>1. Pins(s)
          BY <1>4 DEF Awaited, Pins
        <4>2. stack' = Append(stack, RunFrame(s, "drain", "check"))
          BY <2>1, <3>4, <4>1 DEF DrainNext
        <4> QED BY <1>3, <3>2, <3>3, <3>4, <4>2
      <3>5. CASE Head(queue) # s
        <4>1. ASSUME NEW i \in DOMAIN queue, queue[i] = s
              PROVE  i - 1 \in DOMAIN queue' /\ queue'[i - 1] = s
          <5>1. i # 1 BY <3>1, <3>5, <4>1
          <5>2. i \in 1 .. Len(queue) /\ Len(queue) \in Nat BY <1>1
          <5>3. i - 1 \in 1 .. Len(queue') BY <3>1, <5>1, <5>2
          <5> QED BY <3>1, <4>1, <5>2, <5>3
        <4> QED BY <3>3, <4>1 DEF Queued
      <3> QED BY <3>4, <3>5
    <2>2. CASE PreTick
      <3>1. Sweep /\ UNCHANGED stack
        BY <2>2 DEF PreTick
      <3> QED BY <1>1, <1>4, <3>1, SweepSpares DEF OfferedTo
    <2>3. CASE UNCHANGED queue /\ \E f \in Frame : stack' = Append(stack, f)
      BY <1>3, <2>3 DEF Queued
    <2>4. CASE DrainEnds \/ ModalCloses
      <3>1. /\ UNCHANGED queue /\ stack # <<>> /\ stack' = Front(stack)
            /\ Last(stack).kind # "run"
        BY <2>4 DEF DrainEnds, ModalCloses, OnTop, Idle
      <3>2. /\ stack' \in Seq(Frame) /\ Len(stack') = Len(stack) - 1
            /\ \A i \in 1 .. Len(stack) - 1 : stack'[i] = stack[i]
        BY <1>1, <3>1, PopTyped
      <3>3. ASSUME NEW i \in DOMAIN stack, stack[i].kind = "run"
            PROVE  i \in DOMAIN stack' /\ stack'[i] = stack[i]
        <4>1. i # Len(stack)
          BY <3>1, <3>3 DEF Last
        <4>2. i \in 1 .. Len(stack) - 1
          BY <1>1, <4>1
        <4> QED BY <3>2, <4>2
      <3> QED BY <3>1, <3>3 DEF OfferedTo, Queued
    <2>5. CASE UNCHANGED <<queue, stack>>
      BY <2>5 DEF OfferedTo, Queued
    <2>6. ASSUME NEW r \in Requests, TickerFires(r)
          PROVE  UNCHANGED queue /\ \E f \in Frame : stack' = Append(stack, f)
      BY <2>6, RunFrameTyped DEF TickerFires, RunPhases
    <2>7. ASSUME DrainStarts \/ ModalOpens
          PROVE  UNCHANGED queue /\ \E f \in Frame : stack' = Append(stack, f)
      BY <2>7, OtherFramesTyped DEF DrainStarts, ModalOpens
    <2>8. ASSUME (\E value \in BOOLEAN : SetGEditor(value)) \/ SetEditorReady \/ BeginShutdown
          PROVE  UNCHANGED <<queue, stack>>
      BY <2>8 DEF SetGEditor, SetEditorReady, BeginShutdown, gameVars
    <2> QED BY <2>1, <2>2, <2>3, <2>4, <2>5, <2>6, <2>7, <2>8 DEF GameLoop
  <1> QED BY <1>2, <1>4 DEF WorkInv, Awaited

(* WorkInv holds throughout. *)
LEMMA WorkInvHolds == Spec => []WorkInv
  <1>1. Init => WorkInv
    BY DEF Init, WorkInv, Awaited
  <1>2. TypeInv /\ RunsInductive /\ WorkInv /\ [Next]_vars => WorkInv'
    <2> SUFFICES ASSUME TypeInv, StackInv, WorkInv, [Next]_vars PROVE WorkInv'
      BY DEF RunsInductive
    <2>1. CASE UNCHANGED vars
      BY <2>1 DEF vars, callerVars, runVars, eventVars, gameVars, phaseVars,
                  WorkInv, Awaited, Queued, OfferedTo
    <2>2. ASSUME NEW r \in Requests,
                 DialogRefuses(r) \/ NotReady(r) \/ Register(r) \/ Caller(r)
          PROVE  WorkInv'
      BY <2>2, WorkCallers
    <2>3. ASSUME NEW r \in Requests, RunSteps(r) PROVE WorkInv'
      BY <2>3, WorkRuns
    <2>4. ASSUME GameLoop PROVE WorkInv'
      BY <2>4, WorkLoop
    <2> QED BY <2>1, <2>2, <2>3, <2>4 DEF Next, RunSteps, GameLoop
  <1> QED BY <1>1, <1>2, TypeInductive, RunsInductiveHolds, PTL DEF Spec

(* As long as a caller waits for a request that nobody has claimed, its      *)
(* ticker is there, and a modal-safe request is in the queue or on its way   *)
(* to its handler in a drain.                                                *)
THEOREM WorkIsKept == Spec => []NoLostWork
  <1>1. WorkInv => NoLostWork
    BY DEF WorkInv, NoLostWork, Awaited, Queued
  <1> QED BY <1>1, WorkInvHolds, PTL
-----------------------------------------------------------------------------
(***************************************************************************)
(* A caller that gives up in time has cancelled its request.               *)
(***************************************************************************)

(* No step starts the handler of an abandoned request, or lets one of its   *)
(* runs past the test of bAbandoned.                                        *)
LEMMA AbandonedStays ==
  ASSUME TypeInv, [Next]_vars, NEW r \in Requests, Abandoned(r)
  PROVE  runs'[r] = runs[r] /\ Abandoned(r)'
  <1>1. TypeOK /\ abandoned[r]
    BY DEF TypeInv, Abandoned
  <1>2. CASE UNCHANGED vars
    BY <1>2 DEF vars, runVars, gameVars, Abandoned
  <1>3. ASSUME NEW q \in Requests,
               DialogRefuses(q) \/ NotReady(q) \/ Register(q) \/ Caller(q)
        PROVE  runs'[r] = runs[r] /\ Abandoned(r)'
    <2>1. UNCHANGED <<runs, stack>>
      BY <1>3 DEF DialogRefuses, NotReady, Register, Caller, Enqueue, Wake, SliceElapses,
             WaitAgain, Abandon, ReturnEvent, ForgetEvent, Answer, gameVars, runVars
    <2>2. abandoned'[r]
      BY <1>1, <1>3 DEF DialogRefuses, NotReady, Register, Caller, Enqueue, Wake,
             SliceElapses, WaitAgain, Abandon, ReturnEvent, ForgetEvent, Answer, TypeOK
    <2> QED BY <2>1, <2>2 DEF Abandoned
  <1>4. ASSUME NEW q \in Requests, RunSteps(q)
        PROVE  runs'[r] = runs[r] /\ Abandoned(r)'
    <2>1. OnTop("run") /\ stack \in Seq(Frame) /\ stack' \in Seq(Frame) /\ Last(stack).req = q
      <3>1. Last(stack).req = q
        BY <1>4 DEF RunSteps, RunStep, CheckAbandoned, ClaimLost, Claim, HandlerReturns,
               LockEvent, Trigger, Running
      <3> QED BY <1>1, <1>4, <3>1, RunsFrames DEF TypeOK
    <2>2. Len(stack) \in DOMAIN stack /\ stack[Len(stack)] = Last(stack)
      BY <2>1 DEF OnTop, Idle, Last
    <2>3. UNCHANGED abandoned
      BY <1>4 DEF RunSteps, RunStep, CheckAbandoned, ClaimLost, Claim, HandlerReturns,
             LockEvent, Trigger
    <2>4. CASE q = r
      <3>1. Last(stack).phase = "check"
        BY <2>1, <2>2, <2>4 DEF Abandoned, OnTop
      <3>2. CheckAbandoned(q)
        BY <1>4, <3>1 DEF RunSteps, RunStep, ClaimLost, Claim, HandlerReturns, LockEvent,
               Trigger, Running
      <3>3. RunReturns(q) /\ UNCHANGED runs
        BY <1>1, <2>4, <3>2 DEF CheckAbandoned, runVars
      <3>4. /\ Len(stack') = Len(stack) - 1
            /\ \A i \in 1 .. Len(stack) - 1 : stack'[i] = stack[i]
        BY <1>1, <2>1, <3>3, RunReturnsEffect
      <3>5. \A i \in DOMAIN stack' : i \in DOMAIN stack /\ stack'[i] = stack[i]
        BY <2>1, <3>4
      <3> QED BY <2>3, <3>3, <3>5 DEF Abandoned
    <2>5. CASE q # r
      <3>1. runs'[r] = runs[r]
        BY <1>1, <1>4, <2>5 DEF RunSteps, RunStep, CheckAbandoned, ClaimLost, Claim,
               HandlerReturns, LockEvent, Trigger, runVars, TypeOK
      <3>2. \A i \in DOMAIN stack' :
              i \in DOMAIN stack /\ (stack'[i] = stack[i] \/ stack'[i].req = q)
        BY <1>4, RunsFrames DEF RunFrame
      <3> QED BY <2>3, <2>5, <3>1, <3>2 DEF Abandoned
    <2> QED BY <2>4, <2>5
  <1>5. ASSUME GameLoop PROVE runs'[r] = runs[r] /\ Abandoned(r)'
    <2>1. UNCHANGED <<runs, abandoned>>
      BY <1>5 DEF GameLoop, TickerFires, DrainStarts, DrainNext, DrainEnds, ModalOpens,
             ModalCloses, PreTick, SetGEditor, SetEditorReady, BeginShutdown, runVars
    <2>2. ASSUME NEW f, Fresh(f), f.kind = "run" PROVE f.phase = "check"
      BY <2>2 DEF Fresh, ModalFrame, DrainFrame, RunFrame
    <2> QED BY <1>5, <2>1, <2>2, LoopFrames DEF Abandoned
  <1> QED BY <1>2, <1>3, <1>4, <1>5 DEF Next, RunSteps, GameLoop

(* Giving up before the game thread looked is a cancellation, for good.      *)
THEOREM GivingUpCancels == Spec => AbandonedNeverStarts
  <1>1. TypeInv /\ [Next]_vars
          => [\A r \in Requests : Abandoned(r) => runs'[r] = runs[r] /\ Abandoned(r)']_vars
    BY AbandonedStays
  <1> QED BY <1>1, TypeInductive, PTL DEF Spec, AbandonedNeverStarts

-----------------------------------------------------------------------------
(***************************************************************************)
(* The executor implements RequestExecution.  A request has one frame past *)
(* its claim at most, so its handler is entered and returns once; and it   *)
(* is answered without having been abandoned only when it was refused at a *)
(* gate or its Result was written.                                         *)
(***************************************************************************)
HandlerInv ==
  /\ \A i, j \in DOMAIN stack :
       /\ stack[i].kind = "run" /\ stack[i].phase \in Claiming
       /\ stack[j].kind = "run" /\ stack[j].phase \in Claiming
       /\ stack[i].req = stack[j].req
       => i = j
  /\ \A i \in DOMAIN stack :
       stack[i].kind = "run" /\ stack[i].phase = "handler"
         => runs[stack[i].req] = 1 /\ result[stack[i].req] = "none"

AnswerInv ==
  \A r \in Requests :
    /\ pc[r] \in {"returning", "answering"} /\ ~abandoned[r] => result[r] # "none"
    /\ pc[r] = "answered" /\ ~abandoned[r] /\ result[r] = "none" => answer[r] \in Refusals
    /\ pc[r] = "abandoned" => abandoned[r]

PromiseInv == HandlerInv /\ AnswerInv

(* A step of Run enters a phase past the claim from another one, except the  *)
(* claim, and then the request has no frame past its claim.                  *)
LEMMA HandlerRuns ==
  ASSUME TypeInv, StackInv, RunInv, HandlerInv, NEW r \in Requests, RunSteps(r)
  PROVE  HandlerInv'
  <1>1. TypeOK /\ OnTop("run") /\ stack \in Seq(Frame) /\ stack' \in Seq(Frame)
    BY RunsFrames DEF TypeInv, TypeOK
  <1>2. /\ Len(stack) \in DOMAIN stack /\ stack[Len(stack)] = Last(stack)
        /\ Last(stack).req = r /\ Last(stack).kind = "run"
    BY <1>1 DEF OnTop, Idle, Last, RunSteps, RunStep, CheckAbandoned, ClaimLost, Claim,
           HandlerReturns, LockEvent, Trigger, Running
  <1>3. \A i \in DOMAIN stack : stack[i].kind = "run" => stack[i].req \in Requests
    <2>1. \A i \in DOMAIN stack : stack[i] \in Frame
      BY <1>1
    <2> QED BY <2>1 DEF Frame
  <1>4. ASSUME RunReturns(r) PROVE \A i \in DOMAIN stack' : i \in DOMAIN stack /\ stack'[i] = stack[i]
    <2>1. /\ Len(stack') = Len(stack) - 1
          /\ \A i \in 1 .. Len(stack) - 1 : stack'[i] = stack[i]
      BY <1>1, <1>4, RunReturnsEffect
    <2> QED BY <1>1, <2>1
  <1>5. ASSUME NEW p \in RunPhases, Enter(r, p)
        PROVE  /\ DOMAIN stack' = DOMAIN stack
               /\ \A i \in DOMAIN stack : i # Len(stack) => stack'[i] = stack[i]
               /\ stack'[Len(stack)].kind = "run" /\ stack'[Len(stack)].req = r
               /\ stack'[Len(stack)].phase = p
    <2>1. /\ Len(stack') = Len(stack)
          /\ \A i \in 1 .. Len(stack) - 1 : stack'[i] = stack[i]
          /\ stack'[Len(stack)] = RunFrame(r, Last(stack).by, p)
      BY <1>1, <1>5, EnterEffect
    <2> QED BY <1>1, <2>1 DEF RunFrame
  <1>6. CASE CheckAbandoned(r)
    <2>1. UNCHANGED <<runs, result>>
      BY <1>6 DEF CheckAbandoned, runVars
    <2>2. CASE RunReturns(r)
      BY <1>4, <2>1, <2>2 DEF HandlerInv
    <2>3. CASE Enter(r, "claim")
      BY <1>2, <1>5, <2>1, <2>3 DEF HandlerInv, RunPhases, Claiming
    <2> QED BY <1>6, <2>2, <2>3 DEF CheckAbandoned
  <1>7. CASE ClaimLost(r)
    <2>1. UNCHANGED <<runs, result>> /\ RunReturns(r)
      BY <1>7 DEF ClaimLost, runVars
    <2> QED BY <1>4, <2>1 DEF HandlerInv
  <1>8. CASE Claim(r)
    <2>1. ~claimed[r] /\ runs[r] = 0 /\ result[r] = "none"
      BY <1>8 DEF Claim, FirstToClaim, RunInv
    <2>2. \A i \in DOMAIN stack :
            stack[i].kind = "run" /\ stack[i].phase \in Claiming => stack[i].req # r
      BY <2>1 DEF StackInv
    <2>3. CASE Refused(r)
      <3>1. Enter(r, "notify") /\ UNCHANGED runs /\ \A q \in Requests \ {r} : result'[q] = result[q]
        BY <1>1, <1>8, <2>3 DEF Claim, TypeOK
      <3>2. /\ DOMAIN stack' = DOMAIN stack
            /\ \A i \in DOMAIN stack : i # Len(stack) => stack'[i] = stack[i]
            /\ stack'[Len(stack)].kind = "run" /\ stack'[Len(stack)].req = r
            /\ stack'[Len(stack)].phase = "notify"
        BY <1>5, <3>1 DEF RunPhases
      <3> QED BY <1>2, <1>3, <2>2, <3>1, <3>2 DEF HandlerInv, Claiming
    <2>4. CASE ~Refused(r)
      <3>1. Enter(r, "handler") /\ UNCHANGED result /\ runs'[r] = 1
            /\ \A q \in Requests \ {r} : runs'[q] = runs[q]
        BY <1>1, <1>8, <2>1, <2>4 DEF Claim, TypeOK
      <3>2. /\ DOMAIN stack' = DOMAIN stack
            /\ \A i \in DOMAIN stack : i # Len(stack) => stack'[i] = stack[i]
            /\ stack'[Len(stack)].kind = "run" /\ stack'[Len(stack)].req = r
            /\ stack'[Len(stack)].phase = "handler"
        BY <1>5, <3>1 DEF RunPhases
      <3> QED BY <1>2, <1>3, <2>1, <2>2, <3>1, <3>2 DEF HandlerInv, Claiming
    <2> QED BY <2>3, <2>4
  <1>9. CASE HandlerReturns(r)
    <2>1. Enter(r, "notify") /\ UNCHANGED runs /\ \A q \in Requests \ {r} : result'[q] = result[q]
      BY <1>1, <1>9 DEF HandlerReturns, TypeOK
    <2>2. Last(stack).phase = "handler"
      BY <1>9 DEF HandlerReturns, Running
    <2>3. /\ DOMAIN stack' = DOMAIN stack
          /\ \A i \in DOMAIN stack : i # Len(stack) => stack'[i] = stack[i]
          /\ stack'[Len(stack)].kind = "run" /\ stack'[Len(stack)].req = r
          /\ stack'[Len(stack)].phase = "notify"
      BY <1>5, <2>1 DEF RunPhases
    <2>4. \A i \in DOMAIN stack :
            /\ i # Len(stack) /\ stack[i].kind = "run" /\ stack[i].phase \in Claiming
            => stack[i].req # r
      BY <1>2, <2>2 DEF HandlerInv, Claiming
    <2> QED BY <1>2, <1>3, <2>1, <2>3, <2>4 DEF HandlerInv, Claiming
  <1>10. CASE LockEvent(r)
    <2>1. UNCHANGED <<runs, result>> /\ Last(stack).phase = "notify"
      BY <1>10 DEF LockEvent, runVars, Running
    <2>2. CASE RunReturns(r)
      BY <1>4, <2>1, <2>2 DEF HandlerInv
    <2>3. CASE Enter(r, "trigger")
      <3>1. /\ DOMAIN stack' = DOMAIN stack
            /\ \A i \in DOMAIN stack : i # Len(stack) => stack'[i] = stack[i]
            /\ stack'[Len(stack)].kind = "run" /\ stack'[Len(stack)].req = r
            /\ stack'[Len(stack)].phase = "trigger"
        BY <1>5, <2>3 DEF RunPhases
      <3> QED BY <1>2, <2>1, <3>1 DEF HandlerInv, Claiming
    <2> QED BY <1>10, <2>2, <2>3 DEF LockEvent
  <1>11. CASE Trigger(r)
    <2>1. UNCHANGED <<runs, result>> /\ RunReturns(r)
      BY <1>11 DEF Trigger, runVars
    <2> QED BY <1>4, <2>1 DEF HandlerInv
  <1> QED BY <1>6, <1>7, <1>8, <1>9, <1>10, <1>11 DEF RunSteps, RunStep

(* Outside Run, a frame is entered before its claim. *)
LEMMA HandlerLoop ==
  ASSUME TypeInv, HandlerInv, GameLoop
  PROVE  HandlerInv'
  <1>1. UNCHANGED <<runs, result>>
    BY DEF GameLoop, TickerFires, DrainStarts, DrainNext, DrainEnds, ModalOpens,
           ModalCloses, PreTick, SetGEditor, SetEditorReady, BeginShutdown, runVars
  <1>2. ASSUME NEW f, Fresh(f), f.kind = "run" PROVE f.phase = "check"
    BY <1>2 DEF Fresh, ModalFrame, DrainFrame, RunFrame
  <1>3. \A i \in DOMAIN stack' :
          stack'[i].kind = "run" /\ stack'[i].phase \in Claiming
            => i \in DOMAIN stack /\ stack'[i] = stack[i]
    BY <1>2, LoopFrames DEF Claiming
  <1> QED BY <1>1, <1>3 DEF HandlerInv, Claiming

(* A socket thread answers with a Result only after its event was set. *)
LEMMA AnswerCallers ==
  ASSUME TypeInv, RunInv, EventInv, WorkInv, AnswerInv, NEW r \in Requests,
         DialogRefuses(r) \/ NotReady(r) \/ Register(r) \/ Caller(r)
  PROVE  AnswerInv'
  <1> USE DEF TypeInv, TypeOK, AnswerInv, Refusals, runVars
  <1>1. \A s \in Requests : pc[s] = "completed" => result[s] # "none" /\ ~abandoned[s]
    BY DEF EventInv, WorkInv
  <1>2. CASE DialogRefuses(r) BY <1>2 DEF DialogRefuses, Return, At
  <1>3. CASE NotReady(r)      BY <1>3 DEF NotReady, Return, At
  <1>4. CASE Register(r)      BY <1>4 DEF Register, At, callerVars
  <1>5. CASE Enqueue(r)       BY <1>5 DEF Enqueue, At
  <1>6. CASE Wake(r)          BY <1>6 DEF Wake, At
  <1>7. CASE SliceElapses(r)  BY <1>7 DEF SliceElapses, At
  <1>8. CASE WaitAgain(r)     BY <1>8 DEF WaitAgain, At
  <1>9. CASE Abandon(r)       BY <1>9 DEF Abandon, At
  <1>10. CASE ReturnEvent(r)  BY <1>1, <1>10 DEF ReturnEvent
  <1>11. CASE ForgetEvent(r)  BY <1>11 DEF ForgetEvent, At
  <1>12. CASE Answer(r)       BY <1>12 DEF Answer, Return, At
  <1> QED BY <1>2, <1>3, <1>4, <1>5, <1>6, <1>7, <1>8, <1>9, <1>10, <1>11, <1>12
          DEF Caller

(* PromiseInv holds throughout. *)
LEMMA PromiseInvHolds == Spec => []PromiseInv
  <1>1. Init => PromiseInv
    BY DEF Init, PromiseInv, HandlerInv, AnswerInv
  <1>2. /\ TypeInv /\ RunsInductive /\ EventsInductive /\ WorkInv /\ PromiseInv
        /\ [Next]_vars
        => PromiseInv'
    <2> SUFFICES ASSUME TypeInv, StackInv, RunInv, EventInv, WorkInv, HandlerInv, AnswerInv,
                        [Next]_vars
                 PROVE  HandlerInv' /\ AnswerInv'
      BY DEF RunsInductive, EventsInductive, PromiseInv
    <2>1. CASE UNCHANGED vars
      BY <2>1 DEF vars, callerVars, runVars, eventVars, gameVars, phaseVars,
                  HandlerInv, AnswerInv
    <2>2. ASSUME NEW r \in Requests,
                 DialogRefuses(r) \/ NotReady(r) \/ Register(r) \/ Caller(r)
          PROVE  HandlerInv' /\ AnswerInv'
      <3>1. UNCHANGED <<stack, runs, result>>
        BY <2>2 DEF DialogRefuses, NotReady, Register, Caller, Enqueue, Wake,
             SliceElapses, WaitAgain, Abandon, ReturnEvent, ForgetEvent, Answer,
             gameVars, runVars
      <3> QED BY <2>2, <3>1, AnswerCallers DEF HandlerInv
    <2>3. ASSUME NEW r \in Requests, RunSteps(r) PROVE HandlerInv' /\ AnswerInv'
      <3>1. UNCHANGED <<pc, answer, abandoned>>
            /\ \A s \in Requests : result[s] # "none" => result'[s] # "none"
        BY <2>3 DEF RunSteps, RunStep, CheckAbandoned, ClaimLost, Claim, HandlerReturns,
               LockEvent, Trigger, callerVars, runVars, TypeInv, TypeOK
      <3> QED BY <2>3, <3>1, HandlerRuns DEF AnswerInv
    <2>4. ASSUME GameLoop PROVE HandlerInv' /\ AnswerInv'
      <3>1. UNCHANGED <<pc, answer, abandoned, result>>
        BY <2>4 DEF GameLoop, TickerFires, DrainStarts, DrainNext, DrainEnds, ModalOpens,
               ModalCloses, PreTick, SetGEditor, SetEditorReady, BeginShutdown,
               callerVars, runVars
      <3> QED BY <2>4, <3>1, HandlerLoop DEF AnswerInv
    <2> QED BY <2>1, <2>2, <2>3, <2>4 DEF Next, RunSteps, GameLoop
  <1> QED BY <1>1, <1>2, TypeInductive, RunsInductiveHolds, EventsInductiveHolds,
             WorkInvHolds, PTL DEF Spec

(* What a step that concerns r may do to the two mapped values. *)
Stays(r)   == Phase(r)' = Phase(r) /\ ReplyOf(r)' = ReplyOf(r)
Moves(r)   ==
  /\ ReplyOf(r)' = ReplyOf(r)
  /\ \/ ReplyOf(r) = "none" /\ Phase(r) = "new" /\ Phase(r)' = "open"
     \/ Phase(r) = "open" /\ Phase(r)' \in {"started", "skipped"}
     \/ Phase(r) = "started" /\ Phase(r)' = "finished"
Replies(r) ==
  /\ Phase(r)' = Phase(r) /\ ReplyOf(r) = "none"
  /\ \/ ReplyOf(r)' = "result" /\ Phase(r) = "finished"
     \/ ReplyOf(r)' = "refused" /\ Phase(r) \in {"new", "skipped"}
     \/ /\ ReplyOf(r)' = "unknown"
        /\ Phase(r) \in {"open", "started", "finished", "skipped"}
Maps(r) ==
  /\ \A s \in Requests \ {r} : Stays(s)
  /\ Stays(r) \/ Moves(r) \/ Replies(r)

(* Such a step is a step of RequestExecution, or a stutter. *)
LEMMA MapsStep ==
  ASSUME NEW r \in Requests, Maps(r)
  PROVE  [Promise!ANext]_(Promise!avars)
  <1> USE DEF Maps, Stays, Moves, Replies
  <1> DEFINE ph == [s \in Requests |-> Phase(s)]
             re == [s \in Requests |-> ReplyOf(s)]
  <1>1. Phase(r)' = Phase(r) => ph' = ph
    OBVIOUS
  <1>2. ReplyOf(r)' = ReplyOf(r) => re' = re
    OBVIOUS
  <1>3. ph' = [ph EXCEPT ![r] = Phase(r)'] /\ re' = [re EXCEPT ![r] = ReplyOf(r)']
    OBVIOUS
  <1>4. ph[r] = Phase(r) /\ re[r] = ReplyOf(r)
    OBVIOUS
  <1>5. CASE Phase(r)' = Phase(r) /\ ReplyOf(r)' = ReplyOf(r)
    BY <1>1, <1>2, <1>5 DEF Promise!avars
  <1>6. CASE ReplyOf(r) = "none" /\ Phase(r) = "new" /\ Phase(r)' = "open" /\ ReplyOf(r)' = ReplyOf(r)
    <2>1. Promise!Submit(r)
      BY <1>2, <1>3, <1>4, <1>6 DEF Promise!Submit, Promise!Move
    <2> QED BY <2>1 DEF Promise!ANext
  <1>7. CASE Phase(r) = "open" /\ Phase(r)' = "started" /\ ReplyOf(r)' = ReplyOf(r)
    <2>1. Promise!Start(r)
      BY <1>2, <1>3, <1>4, <1>7 DEF Promise!Start, Promise!Move
    <2> QED BY <2>1 DEF Promise!ANext
  <1>8. CASE Phase(r) = "open" /\ Phase(r)' = "skipped" /\ ReplyOf(r)' = ReplyOf(r)
    <2>1. Promise!Skip(r)
      BY <1>2, <1>3, <1>4, <1>8 DEF Promise!Skip, Promise!Move
    <2> QED BY <2>1 DEF Promise!ANext
  <1>9. CASE Phase(r) = "started" /\ Phase(r)' = "finished" /\ ReplyOf(r)' = ReplyOf(r)
    <2>1. Promise!Finish(r)
      BY <1>2, <1>3, <1>4, <1>9 DEF Promise!Finish, Promise!Move
    <2> QED BY <2>1 DEF Promise!ANext
  <1>10. CASE /\ Phase(r)' = Phase(r) /\ ReplyOf(r) = "none"
              /\ ReplyOf(r)' = "result" /\ Phase(r) = "finished"
    <2>1. Promise!ReplyResult(r)
      BY <1>1, <1>3, <1>4, <1>10 DEF Promise!ReplyResult, Promise!Reply
    <2> QED BY <2>1 DEF Promise!ANext
  <1>11. CASE /\ Phase(r)' = Phase(r) /\ ReplyOf(r) = "none"
              /\ ReplyOf(r)' = "refused" /\ Phase(r) \in {"new", "skipped"}
    <2>1. Promise!ReplyRefused(r)
      BY <1>1, <1>3, <1>4, <1>11 DEF Promise!ReplyRefused, Promise!Reply
    <2> QED BY <2>1 DEF Promise!ANext
  <1>12. CASE /\ Phase(r)' = Phase(r) /\ ReplyOf(r) = "none" /\ ReplyOf(r)' = "unknown"
              /\ Phase(r) \in {"open", "started", "finished", "skipped"}
    <2>1. Promise!ReplyUnknown(r)
      BY <1>1, <1>3, <1>4, <1>12 DEF Promise!ReplyUnknown, Promise!Reply
    <2> QED BY <2>1 DEF Promise!ANext
  <1> QED BY <1>5, <1>6, <1>7, <1>8, <1>9, <1>10, <1>11, <1>12

(* What nothing is written of stays. *)
LEMMA UntouchedStays ==
  ASSUME NEW s \in Requests, pc'[s] = pc[s], answer'[s] = answer[s],
         abandoned'[s] = abandoned[s], result'[s] = result[s], runs'[s] = runs[s]
  PROVE  Stays(s)
  BY DEF Stays, Phase, ReplyOf, RefusedAtGate

(* A socket thread submits its request, is answered, or stutters. *)
LEMMA CallersMap ==
  ASSUME TypeInv, RunInv, WorkInv, AnswerInv, NEW r \in Requests,
         DialogRefuses(r) \/ NotReady(r) \/ Register(r) \/ Caller(r)
  PROVE  Maps(r)
  <1>1. TypeOK /\ UNCHANGED runVars
    BY DEF TypeInv, DialogRefuses, NotReady, Register, Caller, Enqueue, Wake, SliceElapses,
           WaitAgain, Abandon, ReturnEvent, ForgetEvent, Answer
  <1>2. UNCHANGED <<result, runs>>
    BY <1>1 DEF runVars
  <1>3. ASSUME NEW s \in Requests \ {r} PROVE Stays(s)
    <2>1. pc'[s] = pc[s] /\ answer'[s] = answer[s] /\ abandoned'[s] = abandoned[s]
      BY <1>1, <1>3 DEF TypeOK, DialogRefuses, NotReady, Register, Caller, Enqueue, Wake,
             SliceElapses, WaitAgain, Abandon, ReturnEvent, ForgetEvent, Answer, Return, At
    <2> QED BY <1>2, <2>1, UntouchedStays
  <1>4. /\ pc[r] = "idle" => ~abandoned[r] /\ result[r] = "none" /\ runs[r] = 0
        /\ pc[r] # "answered" => answer[r] = "none"
        /\ runs[r] \in Nat /\ runs[r] <= 1
    BY <1>1 DEF RunInv, WorkInv, TypeOK
  <1>5. CASE DialogRefuses(r) \/ NotReady(r)
    <2>1. /\ pc[r] = "idle" /\ pc'[r] = "answered" /\ UNCHANGED abandoned
          /\ answer'[r] \in {"dialog", "not_ready"}
      BY <1>1, <1>5 DEF TypeOK, DialogRefuses, NotReady, Return, At
    <2>2. Phase(r) = "new" /\ Phase(r)' = "new"
      BY <1>2, <1>4, <2>1 DEF Phase, RefusedAtGate
    <2>3. ReplyOf(r) = "none" /\ ReplyOf(r)' = "refused"
      BY <1>4, <2>1 DEF ReplyOf
    <2> QED BY <1>3, <2>2, <2>3 DEF Maps, Replies
  <1>6. CASE Register(r)
    <2>1. /\ pc[r] = "idle" /\ pc'[r] \in {"enqueue", "wait"}
          /\ UNCHANGED <<abandoned, answer>>
      BY <1>1, <1>6 DEF TypeOK, Register, At
    <2>2. Phase(r) = "new" /\ Phase(r)' = "open"
      BY <1>2, <1>4, <2>1 DEF Phase, RefusedAtGate
    <2>3. ReplyOf(r) = "none" /\ ReplyOf(r)' = "none"
      BY <1>4, <2>1 DEF ReplyOf
    <2> QED BY <1>3, <2>2, <2>3 DEF Maps, Moves
  <1>7. CASE Enqueue(r) \/ Wake(r) \/ SliceElapses(r) \/ WaitAgain(r) \/ Abandon(r)
             \/ ReturnEvent(r) \/ ForgetEvent(r)
    <2>1. /\ pc[r] \notin {"idle", "answered"} /\ pc'[r] \notin {"idle", "answered"}
          /\ UNCHANGED answer
      BY <1>1, <1>7 DEF TypeOK, Enqueue, Wake, SliceElapses, WaitAgain, Abandon,
             ReturnEvent, ForgetEvent, At
    <2>2. Phase(r)' = Phase(r)
      BY <1>2, <2>1 DEF Phase, RefusedAtGate
    <2>3. ReplyOf(r)' = ReplyOf(r)
      BY <2>1 DEF ReplyOf
    <2> QED BY <1>3, <2>2, <2>3 DEF Maps, Stays
  <1>8. CASE Answer(r)
    <2>1. /\ pc[r] = "answering" /\ pc'[r] = "answered" /\ UNCHANGED abandoned
          /\ answer'[r] = IF ~abandoned[r] THEN result[r]
                          ELSE IF shuttingDown THEN "shutting_down" ELSE "timeout"
      BY <1>1, <1>8 DEF TypeOK, Answer, Return, At
    <2>2. ReplyOf(r) = "none"
      BY <1>4, <2>1 DEF ReplyOf
    <2>3. abandoned[r] \/ result[r] # "none"
      BY <2>1 DEF AnswerInv
    <2>4. Phase(r)' = Phase(r)
      BY <1>2, <2>1, <2>3 DEF Phase, RefusedAtGate
    <2>5. CASE abandoned[r]
      <3>1. ReplyOf(r)' = "unknown"
        BY <2>1, <2>5 DEF ReplyOf
      <3>2. Phase(r) \in {"open", "started", "finished", "skipped"}
        BY <1>1, <1>4, <2>1 DEF Phase, RefusedAtGate, TypeOK
      <3> QED BY <1>3, <2>2, <2>4, <3>1, <3>2 DEF Maps, Replies
    <2>6. CASE ~abandoned[r] /\ result[r] = "handler"
      <3>1. ReplyOf(r)' = "result" /\ Phase(r) = "finished"
        BY <2>1, <2>6 DEF ReplyOf, Phase
      <3> QED BY <1>3, <2>2, <2>4, <3>1 DEF Maps, Replies
    <2>7. CASE ~abandoned[r] /\ result[r] = "not_ready"
      <3>1. ReplyOf(r)' = "refused" /\ Phase(r) = "skipped"
        BY <2>1, <2>7 DEF ReplyOf, Phase
      <3> QED BY <1>3, <2>2, <2>4, <3>1 DEF Maps, Replies
    <2>8. result[r] \in {"none", "not_ready", "handler"}
      BY <1>1 DEF TypeOK
    <2> QED BY <2>3, <2>5, <2>6, <2>7, <2>8
  <1> QED BY <1>5, <1>6, <1>7, <1>8 DEF Caller

(* A step of Run starts, skips or finishes its request, or stutters. *)
LEMMA RunsMap ==
  ASSUME TypeInv, StackInv, RunInv, HandlerInv, AnswerInv, NEW r \in Requests, RunSteps(r)
  PROVE  Maps(r)
  <1>1. TypeOK /\ OnTop("run") /\ Offered(r)
    BY RunsFrames DEF TypeInv
  <1>2. UNCHANGED <<pc, answer, abandoned>>
    BY DEF RunSteps, RunStep, CheckAbandoned, ClaimLost, Claim, HandlerReturns,
           LockEvent, Trigger, callerVars
  <1>3. ASSUME NEW s \in Requests \ {r} PROVE Stays(s)
    <2>1. result'[s] = result[s] /\ runs'[s] = runs[s]
      BY <1>1, <1>3 DEF RunSteps, RunStep, CheckAbandoned, ClaimLost, Claim,
             HandlerReturns, LockEvent, Trigger, runVars, TypeOK
    <2> QED BY <1>2, <2>1, UntouchedStays
  <1>4. ReplyOf(r)' = ReplyOf(r)
    BY <1>2 DEF ReplyOf
  <1>5. CASE UNCHANGED runVars
    <2>1. Stays(r)
      BY <1>2, <1>5, UntouchedStays DEF runVars
    <2> QED BY <1>3, <2>1 DEF Maps
  <1>6. CASE Claim(r)
    <2>1. runs[r] = 0 /\ result[r] = "none" /\ ~claimed[r]
      BY <1>6 DEF Claim, FirstToClaim, RunInv
    <2>2. pc[r] # "idle" /\ answer[r] \notin Refusals
      BY <1>1, <2>1 DEF RunInv
    <2>3. ~RefusedAtGate(r)
      BY <2>1, <2>2 DEF RefusedAtGate, AnswerInv
    <2>4. Phase(r) = "open"
      BY <2>1, <2>2, <2>3 DEF Phase
    <2>5. \/ result'[r] = "not_ready"
          \/ result'[r] = "none" /\ runs'[r] = 1
      BY <1>1, <1>6, <2>1 DEF Claim, TypeOK
    <2>6. Phase(r)' \in {"started", "skipped"}
      BY <2>5 DEF Phase
    <2> QED BY <1>3, <1>4, <2>4, <2>6 DEF Maps, Moves
  <1>7. CASE HandlerReturns(r)
    <2>1. Len(stack) \in DOMAIN stack /\ Last(stack) = stack[Len(stack)]
      BY <1>1 DEF TypeOK, OnTop, Idle, Last
    <2>2. runs[r] = 1 /\ result[r] = "none"
      BY <1>7, <2>1 DEF HandlerReturns, Running, OnTop, HandlerInv
    <2>3. result'[r] = "handler"
      BY <1>1, <1>7 DEF HandlerReturns, TypeOK
    <2>4. Phase(r) = "started" /\ Phase(r)' = "finished"
      BY <2>2, <2>3 DEF Phase
    <2> QED BY <1>3, <1>4, <2>4 DEF Maps, Moves
  <1> QED BY <1>5, <1>6, <1>7 DEF RunSteps, RunStep, CheckAbandoned, ClaimLost,
            LockEvent, Trigger

(* Initially every request is new and has no reply. *)
LEMMA PromiseInit == Init => Promise!AInit
  <1> SUFFICES ASSUME Init PROVE Promise!AInit
    OBVIOUS
  <1>1. \A r \in Requests : Phase(r) = "new" /\ ReplyOf(r) = "none"
    BY DEF Init, Phase, ReplyOf
  <1> QED BY <1>1 DEF Promise!AInit

(* The executor keeps the promise of RequestExecution: its steps are steps   *)
(* of the abstract specification, or change nothing the caller can tell.     *)
THEOREM ExecutorKeepsPromise == Spec => KeepsPromise
  <1>1. /\ TypeInv /\ RunsInductive /\ WorkInv /\ PromiseInv /\ [Next]_vars
        => [Promise!ANext]_(Promise!avars)
    <2> SUFFICES ASSUME TypeInv, StackInv, RunInv, WorkInv, HandlerInv, AnswerInv,
                        [Next]_vars
                 PROVE  [Promise!ANext]_(Promise!avars)
      BY DEF RunsInductive, PromiseInv
    <2>1. ASSUME UNCHANGED <<pc, answer, abandoned, result, runs>>
          PROVE  [Promise!ANext]_(Promise!avars)
      <3>1. \A s \in Requests : Phase(s)' = Phase(s) /\ ReplyOf(s)' = ReplyOf(s)
        BY <2>1, UntouchedStays DEF Stays
      <3> QED BY <3>1 DEF Promise!avars
    <2>2. CASE UNCHANGED vars
      BY <2>1, <2>2 DEF vars, callerVars, runVars
    <2>3. ASSUME NEW r \in Requests,
                 DialogRefuses(r) \/ NotReady(r) \/ Register(r) \/ Caller(r)
          PROVE  [Promise!ANext]_(Promise!avars)
      BY <2>3, CallersMap, MapsStep
    <2>4. ASSUME NEW r \in Requests, RunSteps(r) PROVE [Promise!ANext]_(Promise!avars)
      BY <2>4, RunsMap, MapsStep
    <2>5. ASSUME GameLoop PROVE [Promise!ANext]_(Promise!avars)
      <3>1. UNCHANGED <<pc, answer, abandoned, result, runs>>
        BY <2>5 DEF GameLoop, TickerFires, DrainStarts, DrainNext, DrainEnds, ModalOpens,
               ModalCloses, PreTick, SetGEditor, SetEditorReady, BeginShutdown,
               callerVars, runVars
      <3> QED BY <2>1, <3>1
    <2> QED BY <2>2, <2>3, <2>4, <2>5 DEF Next, RunSteps, GameLoop
  <1> QED BY <1>1, PromiseInit, TypeInductive, RunsInductiveHolds, WorkInvHolds,
             PromiseInvHolds, PTL DEF Spec, KeepsPromise, Promise!ASpec

-----------------------------------------------------------------------------
(***************************************************************************)
(* What a socket thread waits for.  Its waits are slices of a bounded      *)
(* number, and the only thing of the game thread's that it ever waits for  *)
(* is a run that is about to set its event.                                *)
(***************************************************************************)

(* EventMutex is the game thread's only around that one call of Trigger. *)
LockInv ==
  \A r \in Requests : lock[r] = "runner" => GameThread /\ Running(r, "trigger")

(* A caller that waits, or has yet to, has a slice left. *)
SliceInv ==
  \A r \in Requests :
    /\ waited[r] <= Slices
    /\ pc[r] \in {"idle", "enqueue", "wait"} => waited[r] < Slices

(* The steps a call has left at most, with slices left to wait. *)
StepsLeft(at, slices) ==
  IF at = "idle" THEN 2 * slices + 6
  ELSE IF at \in {"enqueue", "sliced"} THEN 2 * slices + 5
  ELSE IF at = "wait" THEN 2 * slices + 4
  ELSE IF at \in {"completed", "abandoned"} THEN 3
  ELSE IF at = "returning" THEN 2
  ELSE IF at = "answering" THEN 1 ELSE 0

CallLeft(r) == StepsLeft(pc[r], Slices - waited[r])
LeftBounded == \A r \in Requests : CallLeft(r) \in 0 .. 2 * Slices + 6

(* Each step of a caller brings its answer nearer, and no step of another  *)
(* thread puts it off.                                                     *)
CallersRunDown ==
  \A r \in Requests :
    CallLeft(r)' <= CallLeft(r) /\ (Caller(r) => CallLeft(r)' < CallLeft(r))

(* A caller that comes to return its event finds the mutex free, or the    *)
(* game thread at the call of Trigger that it holds the mutex for.         *)
OnlyATriggerHoldsUp ==
  \A r \in Requests :
    pc[r] \in {"completed", "abandoned"} =>
      lock[r] = "free" \/ (GameThread /\ Running(r, "trigger"))

(* A run that steps on is no run that holds a mutex, unless it triggers.   *)
LEMMA LockRuns ==
  ASSUME TypeInv, LockInv, NEW r \in Requests, RunSteps(r)
  PROVE  LockInv'
  <1> USE DEF TypeInv, TypeOK
  <1>1. GameThread /\ UNCHANGED shuttingDown
    BY DEF RunSteps, RunStep, CheckAbandoned, ClaimLost, Claim, HandlerReturns, LockEvent,
           Trigger, phaseVars
  <1>2. \A s \in Requests : Running(s, "trigger") => s = r /\ Trigger(r)
    <2>1. \/ \E p \in RunPhases \ {"trigger"} : Running(r, p)
          \/ Trigger(r) /\ Running(r, "trigger")
      BY DEF RunSteps, RunStep, CheckAbandoned, ClaimLost, Claim, HandlerReturns, LockEvent,
             Trigger, RunPhases
    <2> QED BY <2>1 DEF Running
  <1>3. CASE Trigger(r)
    <2>1. lock' = [lock EXCEPT ![r] = "free"]
      BY <1>3 DEF Trigger
    <2>2. \A s \in Requests : lock'[s] # "runner"
      BY <1>2, <2>1 DEF LockInv
    <2> QED BY <2>2 DEF LockInv
  <1>4. CASE ~Trigger(r)
    <2>1. \A s \in Requests : lock[s] # "runner"
      BY <1>2, <1>4 DEF LockInv
    <2>2. CASE LockEvent(r) /\ event[r] # NoEvent
      <3>1. lock' = [lock EXCEPT ![r] = "runner"] /\ Enter(r, "trigger") /\ OnTop("run")
        BY <2>2 DEF LockEvent, Running
      <3>2. /\ stack' \in Seq(Frame) /\ Len(stack') = Len(stack)
            /\ stack'[Len(stack)] = RunFrame(r, Last(stack).by, "trigger")
        BY <3>1, EnterEffect DEF RunPhases
      <3>3. ~Idle' /\ Last(stack)' = RunFrame(r, Last(stack).by, "trigger")
        BY <3>1, <3>2 DEF Idle, OnTop, Last
      <3>4. Running(r, "trigger")'
        BY <3>3 DEF Running, OnTop, RunFrame
      <3>5. \A s \in Requests : lock'[s] = "runner" => s = r
        BY <2>1, <3>1
      <3> QED BY <1>1, <3>4, <3>5 DEF LockInv, GameThread
    <2>3. CASE ~(LockEvent(r) /\ event[r] # NoEvent)
      <3>1. UNCHANGED lock
        BY <1>4, <2>3 DEF RunSteps, RunStep, CheckAbandoned, ClaimLost, Claim, HandlerReturns,
                          LockEvent
      <3> QED BY <2>1, <3>1 DEF LockInv
    <2> QED BY <2>2, <2>3
  <1> QED BY <1>3, <1>4

(* While a run holds a mutex nothing else of the game thread goes on.      *)
LEMMA LockLoop ==
  ASSUME TypeInv, LockInv, GameLoop
  PROVE  LockInv'
  <1>1. UNCHANGED lock
    BY DEF GameLoop, TickerFires, DrainStarts, DrainNext, DrainEnds, ModalOpens,
           ModalCloses, PreTick, SetGEditor, SetEditorReady, BeginShutdown
  <1>2. Idle \/ OnTop("modal") \/ OnTop("drain") \/ \E r \in Requests : Running(r, "handler")
    BY DEF GameLoop, TickerFires, DrainStarts, DrainNext, DrainEnds, ModalOpens,
           ModalCloses, PreTick, SetGEditor, SetEditorReady, BeginShutdown, MayPump
  <1>3. \A s \in Requests : ~Running(s, "trigger")
    BY <1>2 DEF Running, OnTop
  <1> QED BY <1>1, <1>3 DEF LockInv

(* A caller's steps touch neither the game thread's mutex nor its stack.   *)
LEMMA LockCallers ==
  ASSUME TypeInv, EventInv, LockInv, NEW r \in Requests,
         DialogRefuses(r) \/ NotReady(r) \/ Register(r) \/ Caller(r)
  PROVE  LockInv'
  <1>1. UNCHANGED <<stack, shuttingDown>>
    BY DEF DialogRefuses, NotReady, Register, Caller, Enqueue, Wake, SliceElapses,
           WaitAgain, Abandon, ReturnEvent, ForgetEvent, Answer, gameVars, phaseVars
  <1>2. \A s \in Requests : lock'[s] = "runner" => lock[s] = "runner"
    BY DEF TypeInv, TypeOK, DialogRefuses, NotReady, Register, Caller, Enqueue, Wake,
           SliceElapses, WaitAgain, Abandon, ReturnEvent, ForgetEvent, Answer
  <1> QED BY <1>1, <1>2 DEF LockInv, GameThread, Running, OnTop, Idle

(* A caller goes from one place to the next, and counts its slices.        *)
LEMMA CallerGoesOn ==
  ASSUME TypeInv, SliceInv, NEW r \in Requests,
         DialogRefuses(r) \/ NotReady(r) \/ Register(r) \/ Caller(r)
  PROVE  /\ \A s \in Requests \ {r} : pc'[s] = pc[s] /\ waited'[s] = waited[s]
         /\ \/ pc[r] = "wait" /\ pc'[r] = "sliced" /\ waited'[r] = waited[r] + 1
            \/ /\ waited'[r] = waited[r]
               /\ \/ pc[r] = "idle" /\ pc'[r] \in {"answered", "enqueue", "wait"}
                  \/ pc[r] = "enqueue" /\ pc'[r] = "wait"
                  \/ pc[r] = "wait" /\ pc'[r] = "completed"
                  \/ pc[r] = "sliced" /\ pc'[r] = "wait" /\ waited[r] < Slices
                  \/ pc[r] = "sliced" /\ pc'[r] = "abandoned"
                  \/ pc[r] \in {"completed", "abandoned"} /\ pc'[r] = "returning"
                  \/ pc[r] = "returning" /\ pc'[r] = "answering"
                  \/ pc[r] = "answering" /\ pc'[r] = "answered"
  <1> USE SlicesAssumption DEF TypeInv, TypeOK, At, Return
  <1>1. CASE DialogRefuses(r) \/ NotReady(r) \/ Register(r)
    BY <1>1 DEF DialogRefuses, NotReady, Register
  <1>2. CASE Enqueue(r) \/ Wake(r) \/ SliceElapses(r)
    BY <1>2 DEF Enqueue, Wake, SliceElapses
  <1>3. CASE WaitAgain(r)
    BY <1>3 DEF WaitAgain, GivesUp
  <1>4. CASE Abandon(r) \/ ReturnEvent(r) \/ ForgetEvent(r) \/ Answer(r)
    BY <1>4 DEF Abandon, ReturnEvent, ForgetEvent, Answer
  <1> QED BY <1>1, <1>2, <1>3, <1>4 DEF Caller

(* The numbers of the steps that are left.                                 *)
LEMMA StepsLeftFall ==
  ASSUME NEW n \in Nat
  PROVE  /\ n > 0 => StepsLeft("sliced", n - 1) < StepsLeft("wait", n)
         /\ \A to \in {"answered", "enqueue", "wait"} : StepsLeft(to, n) < StepsLeft("idle", n)
         /\ StepsLeft("wait", n) < StepsLeft("enqueue", n)
         /\ StepsLeft("completed", n) < StepsLeft("wait", n)
         /\ \A to \in {"wait", "abandoned"} : StepsLeft(to, n) < StepsLeft("sliced", n)
         /\ \A at \in {"completed", "abandoned"} : StepsLeft("returning", n) < StepsLeft(at, n)
         /\ StepsLeft("answering", n) < StepsLeft("returning", n)
         /\ StepsLeft("answered", n) < StepsLeft("answering", n)
BY DEF StepsLeft

(* A caller's step leaves it one step less at least.                       *)
LEMMA CallerFalls ==
  ASSUME TypeInv, SliceInv, NEW r \in Requests,
         DialogRefuses(r) \/ NotReady(r) \/ Register(r) \/ Caller(r)
  PROVE  CallLeft(r)' < CallLeft(r)
  <1> DEFINE n == Slices - waited[r]
  <1>1. /\ n \in Nat /\ (pc[r] = "wait" => n > 0)
        /\ waited'[r] = waited[r] => Slices - waited'[r] = n
        /\ waited'[r] = waited[r] + 1 => Slices - waited'[r] = n - 1
    BY SlicesAssumption DEF TypeInv, TypeOK, SliceInv
  <1>2. CallLeft(r) = StepsLeft(pc[r], n) /\ CallLeft(r)' = StepsLeft(pc'[r], Slices - waited'[r])
    BY DEF CallLeft
  <1> HIDE DEF n
  <1> QED BY <1>1, <1>2, CallerGoesOn, StepsLeftFall

(* It never waits longer than its time-out.                                *)
LEMMA SliceCallers ==
  ASSUME TypeInv, SliceInv, NEW r \in Requests,
         DialogRefuses(r) \/ NotReady(r) \/ Register(r) \/ Caller(r)
  PROVE  SliceInv'
  <1> SUFFICES ASSUME NEW s \in Requests
               PROVE  /\ waited'[s] <= Slices
                      /\ pc'[s] \in {"idle", "enqueue", "wait"} => waited'[s] < Slices
    BY DEF SliceInv
  <1>1. CASE s # r
    BY <1>1, CallerGoesOn DEF SliceInv
  <1>2. CASE s = r
    <2>1. /\ waited[r] \in Nat /\ waited[r] <= Slices /\ Slices \in Nat
          /\ pc[r] \in {"idle", "enqueue", "wait"} => waited[r] < Slices
      BY SlicesAssumption DEF SliceInv, TypeInv, TypeOK
    <2> QED BY <1>2, <2>1, CallerGoesOn
  <1> QED BY <1>1, <1>2

(* The game thread's steps leave the callers where they are.               *)
LEMMA GameLeavesCallers ==
  ASSUME [Next]_vars,
         ~\E r \in Requests : DialogRefuses(r) \/ NotReady(r) \/ Register(r) \/ Caller(r)
  PROVE  UNCHANGED <<pc, waited>>
BY DEF Next, RunStep, CheckAbandoned, ClaimLost, Claim, LockEvent, Trigger, HandlerReturns,
       TickerFires, DrainStarts, DrainNext, DrainEnds, ModalOpens, ModalCloses, PreTick,
       SetGEditor, SetEditorReady, BeginShutdown, callerVars, vars

(* The waits are in order throughout.                                      *)
LEMMA WaitsHold == Spec => [](LockInv /\ SliceInv)
  <1>1. Init => LockInv /\ SliceInv
    BY SlicesAssumption DEF Init, LockInv, SliceInv
  <1>2. TypeInv /\ EventsInductive /\ LockInv /\ SliceInv /\ [Next]_vars
          => LockInv' /\ SliceInv'
    <2> SUFFICES ASSUME TypeInv, EventInv, LockInv, SliceInv, [Next]_vars
                 PROVE  LockInv' /\ SliceInv'
      BY DEF EventsInductive
    <2>1. ASSUME NEW r \in Requests,
                 DialogRefuses(r) \/ NotReady(r) \/ Register(r) \/ Caller(r)
          PROVE  LockInv' /\ SliceInv'
      BY <2>1, LockCallers, SliceCallers
    <2>2. CASE ~\E r \in Requests : DialogRefuses(r) \/ NotReady(r) \/ Register(r) \/ Caller(r)
      <3>1. SliceInv'
        BY <2>2, GameLeavesCallers DEF SliceInv
      <3>2. LockInv'
        <4>1. CASE UNCHANGED vars
          BY <4>1 DEF vars, gameVars, phaseVars, LockInv, GameThread, Running, OnTop, Idle
        <4>2. CASE \E r \in Requests : RunSteps(r)
          BY <4>2, LockRuns
        <4>3. CASE GameLoop
          BY <4>3, LockLoop
        <4> QED BY <2>2, <4>1, <4>2, <4>3 DEF Next, RunSteps, GameLoop
      <3> QED BY <3>1, <3>2
    <2> QED BY <2>1, <2>2
  <1> QED BY <1>1, <1>2, TypeInductive, EventsInductiveHolds, PTL DEF Spec

(* Whatever the game thread does, or does no longer, the event can be      *)
(* returned: no handler, dialog, drain or shutdown goes on under a mutex   *)
(* that a caller waits for.                                                *)
THEOREM MutexIsBrief == Spec => []OnlyATriggerHoldsUp
  <1>1. EventsInductive /\ TypeInv /\ LockInv => OnlyATriggerHoldsUp
    BY DEF EventsInductive, EventInv, TypeInv, TypeOK, LockInv, OnlyATriggerHoldsUp
  <1> QED BY <1>1, TypeInductive, EventsInductiveHolds, WaitsHold, PTL

(* ExecuteOnGameThread takes 2 Slices + 6 steps at most, and each brings   *)
(* its answer nearer: neither its own request nor another's, no dialog and *)
(* no shutdown puts it off (what CallerReturns rests on).                  *)
THEOREM CallersAreBounded == Spec => []LeftBounded /\ [][CallersRunDown]_vars
  <1>1. TypeInv /\ SliceInv => LeftBounded
    <2> SUFFICES ASSUME TypeInv, SliceInv, NEW r \in Requests
                 PROVE  CallLeft(r) \in 0 .. 2 * Slices + 6
      BY DEF LeftBounded
    <2> DEFINE n == Slices - waited[r]
    <2>1. n \in Nat /\ n <= Slices /\ Slices \in Nat
      BY SlicesAssumption DEF TypeInv, TypeOK, SliceInv
    <2>2. CallLeft(r) = StepsLeft(pc[r], n)
      BY DEF CallLeft
    <2> HIDE DEF n
    <2> QED BY <2>1, <2>2 DEF StepsLeft
  <1>2. (TypeInv /\ SliceInv)' => LeftBounded'
    BY <1>1, PTL
  <1>3. ASSUME TypeInv, TypeInv', SliceInv, SliceInv', [Next]_vars PROVE CallersRunDown
    <2> SUFFICES ASSUME NEW r \in Requests
                 PROVE  CallLeft(r)' <= CallLeft(r) /\ (Caller(r) => CallLeft(r)' < CallLeft(r))
      BY DEF CallersRunDown
    <2>1. CallLeft(r) \in 0 .. 2 * Slices + 6 /\ CallLeft(r)' \in 0 .. 2 * Slices + 6
      BY <1>1, <1>2, <1>3 DEF LeftBounded
    <2>2. CASE DialogRefuses(r) \/ NotReady(r) \/ Register(r) \/ Caller(r)
      <3>1. CallLeft(r)' < CallLeft(r)
        BY <1>3, <2>2, CallerFalls
      <3> QED BY <2>1, <3>1
    <2>3. CASE ~(DialogRefuses(r) \/ NotReady(r) \/ Register(r) \/ Caller(r))
      <3>1. UNCHANGED <<pc[r], waited[r]>>
        BY <1>3, <2>3, GameLeavesCallers, CallerGoesOn
      <3>2. CallLeft(r)' = CallLeft(r)
        BY <3>1 DEF CallLeft
      <3> QED BY <2>1, <2>3, <3>2
    <2> QED BY <2>2, <2>3
  <1> QED BY <1>1, <1>3, TypeInductive, WaitsHold, PTL DEF Spec
-----------------------------------------------------------------------------
(***************************************************************************)
(* Shutdown.  Teardown takes over an idle game thread, so a handler that   *)
(* was entered has returned by then; a caller that is told "the request    *)
(* was not run" may still be wrong, but never about work that goes on.     *)
(***************************************************************************)
InHandler(r) ==
  \E i \in DOMAIN stack :
    stack[i].kind = "run" /\ stack[i].req = r /\ stack[i].phase = "handler"

EndInv ==
  /\ shuttingDown => Idle
  /\ \A r \in Requests :
       /\ runs[r] > 0 /\ result[r] = "none" => InHandler(r)
       /\ answer[r] = "shutting_down" => shuttingDown

(* A caller that was told of the shutdown: its handler was never entered, or *)
(* it returned.                                                              *)
NothingHalfDone ==
  \A r \in Requests :
    answer[r] = "shutting_down" => runs[r] = 0 \/ result[r] = "handler"

(* After teardown began no handler is entered and no Result is written.      *)
NothingRunsOn == shuttingDown => UNCHANGED <<runs, result>>

(* Outside Run, no run leaves the stack. *)
LEMMA LoopKeepsRuns ==
  ASSUME TypeInv, GameLoop, NEW i \in DOMAIN stack, stack[i].kind = "run"
  PROVE  i \in DOMAIN stack' /\ stack'[i] = stack[i]
  <1>1. stack \in Seq(Frame) /\ queue \in Seq(Requests)
    BY DEF TypeInv, TypeOK
  <1>2. ASSUME NEW f \in Frame, stack' = Append(stack, f)
        PROVE  i \in DOMAIN stack' /\ stack'[i] = stack[i]
    BY <1>1, <1>2, PushTyped
  <1>3. CASE \E r \in Requests : TickerFires(r)
    BY <1>2, <1>3, RunFrameTyped DEF TickerFires, RunPhases
  <1>4. CASE DrainNext
    <2>1. RunFrame(Head(queue), "drain", "check") \in Frame
      BY <1>1, <1>4, HeadTailProperties, RunFrameTyped DEF DrainNext, RunPhases
    <2> QED BY <1>2, <1>4, <2>1 DEF DrainNext
  <1>5. CASE DrainStarts \/ ModalOpens
    BY <1>2, <1>5, OtherFramesTyped DEF DrainStarts, ModalOpens
  <1>6. CASE DrainEnds \/ ModalCloses
    <2>1. stack # <<>> /\ stack' = Front(stack) /\ stack[Len(stack)].kind # "run"
      BY <1>6 DEF DrainEnds, ModalCloses, OnTop, Idle, Last
    <2>2. /\ stack' \in Seq(Frame) /\ Len(stack') = Len(stack) - 1
          /\ \A j \in 1 .. Len(stack) - 1 : stack'[j] = stack[j]
      BY <1>1, <2>1, PopTyped
    <2> QED BY <1>1, <2>1, <2>2
  <1>7. CASE PreTick \/ (\E value \in BOOLEAN : SetGEditor(value))
             \/ SetEditorReady \/ BeginShutdown
    BY <1>7 DEF PreTick, SetGEditor, SetEditorReady, BeginShutdown, gameVars
  <1> QED BY <1>3, <1>4, <1>5, <1>6, <1>7 DEF GameLoop

(* A step of Run leaves a handler only by writing its Result. *)
LEMMA EndRuns ==
  ASSUME TypeInv, RunInv, EndInv, NEW r \in Requests, RunSteps(r)
  PROVE  EndInv'
  <1>1. TypeOK /\ OnTop("run") /\ stack \in Seq(Frame)
    BY RunsFrames DEF TypeInv, TypeOK
  <1>2. /\ ~shuttingDown /\ UNCHANGED <<shuttingDown, answer>>
        /\ Len(stack) \in DOMAIN stack /\ stack[Len(stack)] = Last(stack)
        /\ Last(stack).kind = "run" /\ Last(stack).req = r
    BY <1>1 DEF OnTop, Idle, Last, RunSteps, RunStep, CheckAbandoned, ClaimLost, Claim,
           HandlerReturns, LockEvent, Trigger, Running, GameThread, phaseVars, callerVars
  <1>3. \A i \in DOMAIN stack : i # Len(stack) => i \in DOMAIN stack' /\ stack'[i] = stack[i]
    <2>1. RunReturns(r) \/ \E p \in RunPhases : Enter(r, p)
      BY DEF RunSteps, RunStep, CheckAbandoned, ClaimLost, Claim, HandlerReturns,
             LockEvent, Trigger, RunPhases
    <2>2. /\ stack' \in Seq(Frame)
          /\ Len(stack') \in {Len(stack) - 1, Len(stack)}
          /\ \A i \in 1 .. Len(stack) - 1 : stack'[i] = stack[i]
      BY <1>1, <2>1, RunReturnsEffect, EnterEffect
    <2> QED BY <1>1, <2>2
  <1>4. \A s \in Requests :
          InHandler(s) /\ (s # r \/ Last(stack).phase # "handler") => InHandler(s)'
    BY <1>2, <1>3 DEF InHandler
  <1>5. CASE CheckAbandoned(r) \/ ClaimLost(r) \/ LockEvent(r) \/ Trigger(r)
    <2>1. UNCHANGED <<runs, result>> /\ Last(stack).phase # "handler"
      BY <1>5 DEF CheckAbandoned, ClaimLost, LockEvent, Trigger, Running, runVars
    <2> QED BY <1>2, <1>4, <2>1 DEF EndInv
  <1>6. CASE HandlerReturns(r)
    <2>1. UNCHANGED runs /\ result' = [result EXCEPT ![r] = "handler"]
      BY <1>6 DEF HandlerReturns
    <2> QED BY <1>1, <1>2, <1>4, <2>1 DEF EndInv, TypeOK
  <1>7. CASE Claim(r)
    <2>1. runs[r] = 0 /\ result[r] = "none" /\ Last(stack).phase # "handler"
      BY <1>7 DEF Claim, FirstToClaim, RunInv, Running
    <2>2. CASE Refused(r)
      <3>1. UNCHANGED runs /\ result' = [result EXCEPT ![r] = "not_ready"]
        BY <1>7, <2>2 DEF Claim
      <3> QED BY <1>1, <1>2, <1>4, <2>1, <3>1 DEF EndInv, TypeOK
    <2>3. CASE ~Refused(r)
      <3>1. /\ UNCHANGED result /\ Enter(r, "handler")
            /\ \A s \in Requests \ {r} : runs'[s] = runs[s]
        BY <1>1, <1>7, <2>3 DEF Claim, TypeOK
      <3>2. /\ stack' \in Seq(Frame) /\ Len(stack') = Len(stack)
            /\ stack'[Len(stack)] = RunFrame(r, Last(stack).by, "handler")
        BY <1>1, <3>1, EnterEffect DEF RunPhases
      <3>3. InHandler(r)'
        BY <1>2, <3>2 DEF InHandler, RunFrame
      <3> QED BY <1>2, <1>4, <2>1, <3>1, <3>3 DEF EndInv
    <2> QED BY <2>2, <2>3
  <1> QED BY <1>5, <1>6, <1>7 DEF RunSteps, RunStep

(* EndInv holds throughout. *)
LEMMA EndHolds == Spec => []EndInv
  <1>1. Init => EndInv
    BY DEF Init, EndInv, Idle
  <1>2. TypeInv /\ RunsInductive /\ EndInv /\ [Next]_vars => EndInv'
    <2> SUFFICES ASSUME TypeInv, RunInv, EndInv, [Next]_vars PROVE EndInv'
      BY DEF RunsInductive
    <2>1. ASSUME UNCHANGED <<stack, runs, result, shuttingDown>>,
                 \A r \in Requests :
                   answer'[r] = "shutting_down" => answer[r] = "shutting_down" \/ shuttingDown
          PROVE  EndInv'
      BY <2>1 DEF EndInv, InHandler, Idle
    <2>2. CASE UNCHANGED vars
      BY <2>1, <2>2 DEF vars, callerVars, runVars, gameVars, phaseVars
    <2>3. ASSUME NEW r \in Requests,
                 DialogRefuses(r) \/ NotReady(r) \/ Register(r) \/ Caller(r)
          PROVE  EndInv'
      <3>1. UNCHANGED <<stack, runs, result, shuttingDown>>
        BY <2>3 DEF DialogRefuses, NotReady, Register, Caller, Enqueue, Wake,
             SliceElapses, WaitAgain, Abandon, ReturnEvent, ForgetEvent, Answer,
             gameVars, runVars, phaseVars
      <3>2. \A q \in Requests :
              answer'[q] = "shutting_down" => answer[q] = "shutting_down" \/ shuttingDown
        <4> USE DEF TypeInv, TypeOK
        <4>1. CASE Answer(r)        BY <4>1 DEF Answer, Return
        <4>2. CASE DialogRefuses(r) BY <4>2 DEF DialogRefuses, Return
        <4>3. CASE NotReady(r)      BY <4>3 DEF NotReady, Return
        <4>4. CASE UNCHANGED answer BY <4>4
        <4> QED BY <2>3, <4>1, <4>2, <4>3, <4>4
                DEF Register, Caller, Enqueue, Wake, SliceElapses, WaitAgain, Abandon,
                    ReturnEvent, ForgetEvent
      <3> QED BY <2>1, <3>1, <3>2
    <2>4. ASSUME NEW r \in Requests, RunSteps(r) PROVE EndInv'
      BY <2>4, EndRuns
    <2>5. CASE GameLoop
      <3>1. UNCHANGED <<runs, result, answer>>
        BY <2>5 DEF GameLoop, TickerFires, DrainStarts, DrainNext, DrainEnds, ModalOpens,
               ModalCloses, PreTick, SetGEditor, SetEditorReady, BeginShutdown,
               callerVars, runVars
      <3>2. ~shuttingDown /\ (shuttingDown' => Idle')
        BY <2>5 DEF GameLoop, TickerFires, DrainStarts, DrainNext, DrainEnds, ModalOpens,
               ModalCloses, PreTick, SetGEditor, SetEditorReady, BeginShutdown,
               GameThread, phaseVars, gameVars, Idle
      <3>3. \A r \in Requests : InHandler(r) => InHandler(r)'
        BY <2>5, LoopKeepsRuns DEF InHandler
      <3> QED BY <3>1, <3>2, <3>3 DEF EndInv
    <2> QED BY <2>2, <2>3, <2>4, <2>5 DEF Next, RunSteps, GameLoop
  <1> QED BY <1>1, <1>2, TypeInductive, RunsInductiveHolds, PTL DEF Spec

(* A caller told at shutdown that its request was not run can be wrong in  *)
(* one way only: the handler ran to its end before teardown began.  None   *)
(* is under way, and from then on none is entered.                         *)
THEOREM ShutdownIsFinal == Spec => []NothingHalfDone /\ [][NothingRunsOn]_vars
  <1>1. TypeInv /\ RunsInductive /\ EndInv => NothingHalfDone
    <2> SUFFICES ASSUME TypeInv, RunInv, EndInv, NEW r \in Requests,
                        answer[r] = "shutting_down", runs[r] # 0
                 PROVE  result[r] = "handler"
      BY DEF RunsInductive, NothingHalfDone
    <2>1. ~InHandler(r)
      BY DEF EndInv, InHandler, Idle
    <2>2. runs[r] > 0 /\ result[r] # "not_ready"
      BY DEF RunInv, TypeInv, TypeOK
    <2> QED BY <2>1, <2>2 DEF EndInv, TypeInv, TypeOK
  <1>2. [Next]_vars => NothingRunsOn
    BY DEF Next, NothingRunsOn, vars, DialogRefuses, NotReady, Register, Caller, Enqueue,
           Wake, SliceElapses, WaitAgain, Abandon, ReturnEvent, ForgetEvent, Answer,
           RunStep, CheckAbandoned, ClaimLost, Claim, HandlerReturns, LockEvent, Trigger,
           TickerFires, DrainStarts, DrainNext, DrainEnds, ModalOpens, ModalCloses,
           PreTick, SetGEditor, SetEditorReady, BeginShutdown, GameThread, runVars
  <1> QED BY <1>1, <1>2, TypeInductive, RunsInductiveHolds, EndHolds, PTL DEF Spec
=============================================================================
