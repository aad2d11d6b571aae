------------------------- MODULE GameThreadExecutor -------------------------
(***************************************************************************)
(* FMCPGameThreadExecutor: how a request that arrived on a socket thread   *)
(* is run on Unreal's game thread, and how the socket thread gets its      *)
(* answer back.  Every socket thread that calls ExecuteOnGameThread shares *)
(* one FSharedExecState with the game thread; the game thread may meet the *)
(* request from the core ticker, or, when the request is modal-safe, from  *)
(* inside the modal loop of a dialog that suspends the ticker.             *)
(*                                                                         *)
(* A request is one call.  Atomic reads and writes of another thread's     *)
(* data are separate actions; code only one thread can observe is merged.  *)
(***************************************************************************)
EXTENDS Naturals, SequencesExt

CONSTANTS
  Requests,    (* Calls of ExecuteOnGameThread, each on a thread that waits. *)
  ModalSafe,   (* The requests passed with bModalSafe = true.                *)
  Events,      (* FEvent objects; the pool hands them out and takes them back*)
  NoEvent,     (* DoneEvent = nullptr.                                       *)
  Slices,      (* 50 ms waits that fit in TimeoutSeconds.                    *)
  MaxModals    (* Bound: dialogs raised in a behaviour.                      *)

ASSUME ModalSafeAssumption == ModalSafe \subseteq Requests
ASSUME EventAssumption == NoEvent \notin Events
ASSUME SlicesAssumption == Slices \in Nat \ {0}
ASSUME MaxModalsAssumption == MaxModals \in Nat

VARIABLES
  (* The socket threads *)
  pc,            (* Where each call is inside ExecuteOnGameThread.           *)
  waited,        (* WaitedMs, in slices.                                     *)
  answer,        (* What ExecuteOnGameThread returned.                       *)
  (* FSharedExecState, one per request *)
  event,         (* DoneEvent.                                               *)
  lock,          (* EventMutex: "free", or who is inside it.                 *)
  abandoned,     (* bAbandoned.                                              *)
  claimed,       (* Claimed.                                                 *)
  result,        (* Result.                                                  *)
  runs,          (* History: how often Handler was entered.                  *)
  (* The event pool *)
  pool,          (* Events in the pool.                                      *)
  signalled,     (* Auto-reset events that are set.                          *)
  (* The game thread *)
  tickers,       (* One-shot ticker delegates still registered.              *)
  queue,         (* GModalSafeQueue: weak entries, oldest first.             *)
  stack,         (* Its call stack: runs, modal loops, drains.               *)
  modals,        (* Dialogs raised so far.                                   *)
  modalReported, (* The status snapshot says a dialog blocks the engine.     *)
  gEditor,       (* GEditor # nullptr.                                       *)
  editorReady,   (* bEditorReady.                                            *)
  shuttingDown   (* bShuttingDown.                                           *)

callerVars == <<pc, waited, answer>>
runVars    == <<claimed, result, runs>>
eventVars  == <<pool, signalled>>
gameVars   == <<stack, modals, modalReported>>
phaseVars  == <<gEditor, editorReady, shuttingDown>>
vars == <<callerVars, event, lock, abandoned, runVars, eventVars, tickers,
          queue, gameVars, phaseVars>>

(***************************************************************************)
(* Frames of the game thread's stack.  A modal loop may be entered from    *)
(* inside a handler, and its drain runs other handlers on top of it.       *)
(***************************************************************************)
RunPhases == {"check", "claim", "handler", "notify", "trigger"}
RunFrame(r, by, phase) ==
  [kind |-> "run", req |-> r, by |-> by, phase |-> phase]
ModalFrame == [kind |-> "modal"]
DrainFrame == [kind |-> "drain"]
Frame ==
  [kind : {"run"}, req : Requests, by : {"ticker", "drain"}, phase : RunPhases]
    \cup [kind : {"modal", "drain"}]

Idle == stack = <<>>
OnTop(kind) == ~Idle /\ Last(stack).kind = kind
Running(r, phase) ==
  OnTop("run") /\ Last(stack).req = r /\ Last(stack).phase = phase
ModalUp == \E i \in DOMAIN stack : stack[i].kind = "modal"

Enter(r, phase) ==
  stack' = [stack EXCEPT ![Len(stack)] = RunFrame(r, Last(stack).by, phase)]

(* The weak entry pins: the caller's frame or the ticker delegate is alive. *)
Pins(r) == pc[r] # "answered" \/ r \in tickers
Live(r) == Pins(r) /\ ~claimed[r] /\ ~abandoned[r]

(* Mutants: the sweep pops a live head, or nothing. *)
SweepHead == queue' = IF queue = <<>> THEN queue ELSE Tail(queue)
SweepNothing == UNCHANGED queue

(* SweepModalSafeQueueImpl: stale entries go, up to the first live one. *)
Sweep ==
  \E n \in 0 .. Len(queue) :
    /\ \A i \in 1 .. n : ~Live(queue[i])
    /\ n < Len(queue) => Live(queue[n + 1])
    /\ queue' = SubSeq(queue, n + 1, Len(queue))

(* Run returns: the ticker's lambda sweeps and is destroyed, the drain goes on. *)
RunReturns(r) ==
  /\ stack' = Front(stack)
  /\ IF Last(stack).by = "ticker"
     THEN tickers' = tickers \ {r} /\ Sweep
     ELSE UNCHANGED <<tickers, queue>>
-----------------------------------------------------------------------------
Init ==
  /\ pc = [r \in Requests |-> "idle"]
  /\ waited = [r \in Requests |-> 0]
  /\ answer = [r \in Requests |-> "none"]
  /\ event = [r \in Requests |-> NoEvent]
  /\ lock = [r \in Requests |-> "free"]
  /\ abandoned = [r \in Requests |-> FALSE]
  /\ claimed = [r \in Requests |-> FALSE]
  /\ result = [r \in Requests |-> "none"]
  /\ runs = [r \in Requests |-> 0]
  /\ pool = Events
  /\ signalled = {}
  /\ tickers = {}
  /\ queue = <<>>
  /\ stack = <<>>
  /\ modals = 0
  /\ modalReported = FALSE
  /\ gEditor = FALSE
  /\ editorReady = FALSE
  /\ shuttingDown = FALSE

(***************************************************************************)
(* Socket threads.                                                         *)
(***************************************************************************)
At(r, from, to) == pc[r] = from /\ pc' = [pc EXCEPT ![r] = to]

Return(r, from, value) ==
  /\ At(r, from, "answered")
  /\ answer' = [answer EXCEPT ![r] = value]

(* The dialog gate, in front of ExecuteOnGameThread. *)
PassesDialogGate(r) == r \in ModalSafe \/ ~modalReported

DialogRefuses(r) ==
  /\ ~PassesDialogGate(r)
  /\ Return(r, "idle", "dialog")
  /\ UNCHANGED <<waited, event, lock, abandoned, runVars, eventVars, tickers,
                 queue, gameVars, phaseVars>>

Gated(r) == ~editorReady /\ r \notin ModalSafe

NotReady(r) ==
  /\ PassesDialogGate(r)
  /\ Gated(r)
  /\ Return(r, "idle", "not_ready")
  /\ UNCHANGED <<waited, event, lock, abandoned, runVars, eventVars, tickers,
                 queue, gameVars, phaseVars>>

(* GetSynchEventFromPool and AddTicker. *)
Register(r) ==
  /\ PassesDialogGate(r)
  /\ ~Gated(r)
  /\ At(r, "idle", IF r \in ModalSafe THEN "enqueue" ELSE "wait")
  /\ \E e \in pool :
       /\ event' = [event EXCEPT ![r] = e]
       /\ pool' = pool \ {e}
  /\ tickers' = tickers \cup {r}
  /\ UNCHANGED <<waited, answer, lock, abandoned, runVars, signalled, queue,
                 gameVars, phaseVars>>

(* Mutant: only a request that meets a reported dialog is queued. *)
EnqueueIfBlocked(r) ==
  /\ At(r, "enqueue", "wait")
  /\ queue' = IF modalReported THEN Append(queue, r) ELSE queue
  /\ UNCHANGED <<waited, answer, event, lock, abandoned, runVars, eventVars,
                 tickers, gameVars, phaseVars>>

Enqueue(r) ==
  /\ At(r, "enqueue", "wait")
  /\ queue' = Append(queue, r)
  /\ UNCHANGED <<waited, answer, event, lock, abandoned, runVars, eventVars,
                 tickers, gameVars, phaseVars>>

(* DoneEvent->Wait returns true and consumes the auto-reset event. *)
Wake(r) ==
  /\ At(r, "wait", "completed")
  /\ event[r] \in signalled
  /\ signalled' = signalled \ {event[r]}
  /\ UNCHANGED <<waited, answer, event, lock, abandoned, runVars, pool,
                 tickers, queue, gameVars, phaseVars>>

(* DoneEvent->Wait returns false. *)
SliceElapses(r) ==
  /\ At(r, "wait", "sliced")
  /\ event[r] \notin signalled
  /\ waited' = [waited EXCEPT ![r] = @ + 1]
  /\ UNCHANGED <<answer, event, lock, abandoned, runVars, eventVars, tickers,
                 queue, gameVars, phaseVars>>

GivesUp(r) == shuttingDown \/ waited[r] >= Slices

WaitAgain(r) ==
  /\ ~GivesUp(r)
  /\ At(r, "sliced", "wait")
  /\ UNCHANGED <<waited, answer, event, lock, abandoned, runVars, eventVars,
                 tickers, queue, gameVars, phaseVars>>

Abandon(r) ==
  /\ GivesUp(r)
  /\ At(r, "sliced", "abandoned")
  /\ abandoned' = [abandoned EXCEPT ![r] = TRUE]
  /\ UNCHANGED <<waited, answer, event, lock, runVars, eventVars, tickers,
                 queue, gameVars, phaseVars>>

(* Mutant: the pointer is nulled first. *)
ReturnNulled(r) ==
  /\ pc[r] \in {"completed", "abandoned"}
  /\ lock[r] = "free"
  /\ lock' = [lock EXCEPT ![r] = "caller"]
  /\ pc' = [pc EXCEPT ![r] = "returning"]
  /\ event' = [event EXCEPT ![r] = NoEvent]
  /\ pool' = pool \cup {event'[r]}
  /\ UNCHANGED <<waited, answer, abandoned, runVars, signalled, tickers, queue,
                 gameVars, phaseVars>>

(* Mutant: without EventMutex. *)
ReturnUnlocked(r) ==
  /\ pc[r] \in {"completed", "abandoned"}
  /\ pc' = [pc EXCEPT ![r] = "returning"]
  /\ pool' = pool \cup {event[r]}
  /\ signalled' = signalled \ {event[r]}
  /\ UNCHANGED <<waited, answer, event, lock, abandoned, runVars, tickers,
                 queue, gameVars, phaseVars>>

(* Inside EventMutex: the event goes back, reset by the pool ... *)
ReturnEvent(r) ==
  /\ pc[r] \in {"completed", "abandoned"}
  /\ lock[r] = "free"
  /\ lock' = [lock EXCEPT ![r] = "caller"]
  /\ pc' = [pc EXCEPT ![r] = "returning"]
  /\ pool' = pool \cup {event[r]}
  /\ signalled' = signalled \ {event[r]}
  /\ UNCHANGED <<waited, answer, event, abandoned, runVars, tickers, queue,
                 gameVars, phaseVars>>

(* ... and the pointer is nulled before the mutex is released. *)
ForgetEvent(r) ==
  /\ At(r, "returning", "answering")
  /\ event' = [event EXCEPT ![r] = NoEvent]
  /\ lock' = [lock EXCEPT ![r] = "free"]
  /\ UNCHANGED <<waited, answer, abandoned, runVars, eventVars, tickers, queue,
                 gameVars, phaseVars>>

(* Mutant: a caller that gave up is told that its request did not start. *)
AnswerNotReady(r) ==
  /\ Return(r, "answering", IF ~abandoned[r] THEN result[r] ELSE "not_ready")
  /\ UNCHANGED <<waited, event, lock, abandoned, runVars, eventVars, tickers,
                 queue, gameVars, phaseVars>>

Answer(r) ==
  /\ Return(r, "answering",
            IF ~abandoned[r] THEN result[r]
            ELSE IF shuttingDown THEN "shutting_down" ELSE "timeout")
  /\ UNCHANGED <<waited, event, lock, abandoned, runVars, eventVars, tickers,
                 queue, gameVars, phaseVars>>

Caller(r) ==
  \/ Enqueue(r) \/ Wake(r) \/ SliceElapses(r) \/ WaitAgain(r)
  \/ Abandon(r) \/ ReturnEvent(r) \/ ForgetEvent(r) \/ Answer(r)
-----------------------------------------------------------------------------
(***************************************************************************)
(* The game thread, until module teardown takes it over.                   *)
(***************************************************************************)
GameThread == ~shuttingDown

(* Mutant: the core ticker also ticks inside a modal loop. *)
TickerFiresInModal(r) ==
  /\ GameThread /\ (Idle \/ OnTop("modal"))
  /\ r \in tickers
  /\ stack' = Append(stack, RunFrame(r, "ticker", "check"))
  /\ UNCHANGED <<callerVars, event, lock, abandoned, runVars, eventVars,
                 tickers, queue, modals, modalReported, phaseVars>>

TickerFires(r) ==
  /\ GameThread /\ Idle
  /\ r \in tickers
  /\ stack' = Append(stack, RunFrame(r, "ticker", "check"))
  /\ UNCHANGED <<callerVars, event, lock, abandoned, runVars, eventVars,
                 tickers, queue, modals, modalReported, phaseVars>>

(* The Slate modal-loop tick captures the status, then drains the queue. *)
DrainStarts ==
  /\ GameThread /\ OnTop("modal")
  /\ modalReported' = TRUE
  /\ stack' = Append(stack, DrainFrame)
  /\ UNCHANGED <<callerVars, event, lock, abandoned, runVars, eventVars,
                 tickers, queue, modals, phaseVars>>

DrainNext ==
  /\ GameThread /\ OnTop("drain")
  /\ queue # <<>>
  /\ queue' = Tail(queue)
  /\ stack' = IF Pins(Head(queue))
              THEN Append(stack, RunFrame(Head(queue), "drain", "check"))
              ELSE stack
  /\ UNCHANGED <<callerVars, event, lock, abandoned, runVars, eventVars,
                 tickers, modals, modalReported, phaseVars>>

DrainEnds ==
  /\ GameThread /\ OnTop("drain")
  /\ queue = <<>>
  /\ stack' = Front(stack)
  /\ UNCHANGED <<callerVars, event, lock, abandoned, runVars, eventVars,
                 tickers, queue, modals, modalReported, phaseVars>>

(* Mutant: bAbandoned is not looked at. *)
CheckNothing(r) ==
  /\ GameThread /\ Running(r, "check")
  /\ Enter(r, "claim")
  /\ UNCHANGED <<callerVars, event, lock, abandoned, runVars, eventVars,
                 tickers, queue, modals, modalReported, phaseVars>>

(* Run, one atomic access to the shared state at a time. *)
CheckAbandoned(r) ==
  /\ GameThread /\ Running(r, "check")
  /\ IF abandoned[r]
     THEN RunReturns(r)
     ELSE Enter(r, "claim") /\ UNCHANGED <<tickers, queue>>
  /\ UNCHANGED <<callerVars, event, lock, abandoned, runVars, eventVars,
                 modals, modalReported, phaseVars>>

(* Claimed.Set(1) = 0.  Mutant: what the counter held is not tested. *)
ClaimUntested(r) == TRUE
FirstToClaim(r) == ~claimed[r]

ClaimLost(r) ==
  /\ GameThread /\ Running(r, "claim")
  /\ ~FirstToClaim(r)
  /\ RunReturns(r)
  /\ UNCHANGED <<callerVars, event, lock, abandoned, runVars, eventVars,
                 modals, modalReported, phaseVars>>

Refused(r) == ~gEditor /\ r \notin ModalSafe

Claim(r) ==
  /\ GameThread /\ Running(r, "claim")
  /\ FirstToClaim(r)
  /\ claimed' = [claimed EXCEPT ![r] = TRUE]
  /\ IF Refused(r)
     THEN /\ result' = [result EXCEPT ![r] = "not_ready"]
          /\ Enter(r, "notify") /\ UNCHANGED runs
     ELSE /\ runs' = [runs EXCEPT ![r] = @ + 1]
          /\ Enter(r, "handler") /\ UNCHANGED result
  /\ UNCHANGED <<callerVars, event, lock, abandoned, eventVars, tickers,
                 queue, modals, modalReported, phaseVars>>

HandlerReturns(r) ==
  /\ GameThread /\ Running(r, "handler")
  /\ result' = [result EXCEPT ![r] = "handler"]
  /\ Enter(r, "notify")
  /\ UNCHANGED <<callerVars, event, lock, abandoned, claimed, runs, eventVars,
                 tickers, queue, modals, modalReported, phaseVars>>

(* Mutant: DoneEvent is tested without EventMutex. *)
TestUnlocked(r) ==
  /\ GameThread /\ Running(r, "notify")
  /\ IF event[r] = NoEvent
     THEN RunReturns(r)
     ELSE Enter(r, "trigger") /\ UNCHANGED <<tickers, queue>>
  /\ UNCHANGED <<callerVars, event, lock, abandoned, runVars, eventVars, modals,
                 modalReported, phaseVars>>

LockEvent(r) ==
  /\ GameThread /\ Running(r, "notify")
  /\ lock[r] = "free"
  /\ IF event[r] = NoEvent
     THEN RunReturns(r) /\ UNCHANGED lock
     ELSE /\ lock' = [lock EXCEPT ![r] = "runner"]
          /\ Enter(r, "trigger")
          /\ UNCHANGED <<tickers, queue>>
  /\ UNCHANGED <<callerVars, event, abandoned, runVars, eventVars, modals,
                 modalReported, phaseVars>>

(* Mutant: EventMutex is not released. *)
TriggerKeepsLock(r) ==
  /\ GameThread /\ Running(r, "trigger")
  /\ signalled' = signalled \cup {event[r]}
  /\ RunReturns(r)
  /\ UNCHANGED <<callerVars, event, lock, abandoned, runVars, pool, modals,
                 modalReported, phaseVars>>

Trigger(r) ==
  /\ GameThread /\ Running(r, "trigger")
  /\ signalled' = signalled \cup {event[r]}
  /\ lock' = [lock EXCEPT ![r] = "free"]
  /\ RunReturns(r)
  /\ UNCHANGED <<callerVars, event, abandoned, runVars, pool, modals,
                 modalReported, phaseVars>>

(* A dialog goes up: raised by a handler, or by the editor or its user. *)
MayPump == Idle \/ \E r \in Requests : Running(r, "handler")

ModalOpens ==
  /\ GameThread /\ MayPump
  /\ modals < MaxModals
  /\ modals' = modals + 1
  /\ stack' = Append(stack, ModalFrame)
  /\ UNCHANGED <<callerVars, event, lock, abandoned, runVars, eventVars,
                 tickers, queue, modalReported, phaseVars>>

ModalCloses ==
  /\ GameThread /\ OnTop("modal")
  /\ stack' = Front(stack)
  /\ UNCHANGED <<callerVars, event, lock, abandoned, runVars, eventVars,
                 tickers, queue, modals, modalReported, phaseVars>>

(* Slate's pre-tick: idle frames, modal loops, and handlers that pump the UI. *)
PreTick ==
  /\ GameThread /\ (MayPump \/ OnTop("modal"))
  /\ modalReported' = ModalUp
  /\ Sweep
  /\ UNCHANGED <<callerVars, event, lock, abandoned, runVars, eventVars,
                 tickers, stack, modals, phaseVars>>

(* Engine start-up and exit create and destroy GEditor. *)
SetGEditor(value) ==
  /\ GameThread /\ Idle
  /\ gEditor # value
  /\ ~value => editorReady
  /\ gEditor' = value
  /\ UNCHANGED <<callerVars, event, lock, abandoned, runVars, eventVars,
                 tickers, queue, gameVars, editorReady, shuttingDown>>

SetEditorReady ==
  /\ GameThread /\ Idle
  /\ gEditor /\ ~editorReady
  /\ editorReady' = TRUE
  /\ UNCHANGED <<callerVars, event, lock, abandoned, runVars, eventVars,
                 tickers, queue, gameVars, gEditor, shuttingDown>>

(* Module teardown runs on the game thread: nothing ticks after it. *)
BeginShutdown ==
  /\ GameThread /\ Idle
  /\ shuttingDown' = TRUE
  /\ UNCHANGED <<callerVars, event, lock, abandoned, runVars, eventVars,
                 tickers, queue, gameVars, gEditor, editorReady>>

RunStep(r) ==
  \/ CheckAbandoned(r) \/ ClaimLost(r) \/ Claim(r)
  \/ LockEvent(r) \/ Trigger(r)

Next ==
  \/ \E r \in Requests :
       \/ DialogRefuses(r) \/ NotReady(r) \/ Register(r) \/ Caller(r)
       \/ TickerFires(r) \/ RunStep(r) \/ HandlerReturns(r)
  \/ DrainStarts \/ DrainNext \/ DrainEnds
  \/ ModalOpens \/ ModalCloses \/ PreTick
  \/ \E value \in BOOLEAN : SetGEditor(value)
  \/ SetEditorReady \/ BeginShutdown

Spec == Init /\ [][Next]_vars

(***************************************************************************)
(* Fairness.  MutexSpec assumes only that a thread leaves an EventMutex it *)
(* is inside.  What else has to run is the antecedent of each liveness     *)
(* property: CallersRun, a socket thread is scheduled until it returns;    *)
(* GameThreadTicks, the game thread keeps ticking and draining, and its    *)
(* handlers return.  Nothing ever makes a dialog close.                    *)
(***************************************************************************)
MutexSpec ==
  Spec /\ \A r \in Requests : WF_vars(ForgetEvent(r)) /\ WF_vars(Trigger(r))

CallersRun == \A r \in Requests : WF_vars(Caller(r))

GameThreadTicks ==
  /\ \A r \in Requests :
       WF_vars(TickerFires(r)) /\ WF_vars(RunStep(r)) /\ WF_vars(HandlerReturns(r))
  /\ WF_vars(DrainStarts) /\ WF_vars(DrainNext) /\ WF_vars(DrainEnds)
  /\ WF_vars(PreTick)
-----------------------------------------------------------------------------
(***************************************************************************)
(* Properties.                                                             *)
(***************************************************************************)
TypeOK ==
  /\ pc \in [Requests -> {"idle", "enqueue", "wait", "sliced", "completed",
                          "abandoned", "returning", "answering", "answered"}]
  /\ waited \in [Requests -> Nat]
  /\ answer \in [Requests -> {"none", "dialog", "not_ready", "timeout",
                              "shutting_down", "handler"}]
  /\ event \in [Requests -> Events \cup {NoEvent}]
  /\ lock \in [Requests -> {"free", "caller", "runner"}]
  /\ abandoned \in [Requests -> BOOLEAN]
  /\ claimed \in [Requests -> BOOLEAN]
  /\ result \in [Requests -> {"none", "not_ready", "handler"}]
  /\ runs \in [Requests -> Nat]
  /\ pool \subseteq Events
  /\ signalled \subseteq Events \cup {NoEvent}
  /\ tickers \subseteq Requests
  /\ queue \in Seq(Requests)
  /\ stack \in Seq(Frame)
  /\ modals \in Nat
  /\ modalReported \in BOOLEAN
  /\ gEditor \in BOOLEAN
  /\ editorReady \in BOOLEAN
  /\ shuttingDown \in BOOLEAN

(* However the ticker and the drain meet a request, its handler is entered   *)
(* at most once, and never for a request answered "dialog" or "not_ready".   *)
RunsAtMostOnce ==
  \A r \in Requests :
    /\ runs[r] <= 1
    /\ answer[r] \in {"dialog", "not_ready"} => runs[r] = 0

(* A wait that succeeds was ended by the request's own run: its Result is    *)
(* written, whoever used the pooled event before.                            *)
Owns(r) == event[r] # NoEvent /\ pc[r] # "returning"

OwnCompletion ==
  \A r \in Requests :
    (Owns(r) /\ event[r] \in signalled) \/ pc[r] = "completed"
      => result[r] # "none"

(* Trigger is never called on an event that went back to the pool, and an    *)
(* event serves one request at a time.                                       *)
TriggersLiveEvent ==
  /\ \A r \in Requests : Running(r, "trigger") => Owns(r) /\ event[r] \notin pool
  /\ \A r, s \in Requests : Owns(r) /\ Owns(s) /\ event[r] = event[s] => r = s

(* A request whose caller still waits and that nobody has claimed is still   *)
(* offered to every runner it was offered to, or is being looked at: no      *)
(* sweep, drain or tick loses it.                                            *)
OfferedTo(r, by) == \E i \in DOMAIN stack :
  stack[i].kind = "run" /\ stack[i].req = r /\ stack[i].by = by

NoLostWork ==
  \A r \in Requests :
    pc[r] \in {"wait", "sliced"} /\ ~claimed[r] =>
      /\ r \in tickers
      /\ r \in ModalSafe => (\E i \in DOMAIN queue : queue[i] = r) \/ OfferedTo(r, "drain")

(* While a dialog is up, nothing else runs: every handler entered above a    *)
(* modal loop is modal-safe.                                                 *)
NothingElseRunsUnderModal ==
  \A i, j \in DOMAIN stack :
    i < j /\ stack[i].kind = "modal" /\ stack[j].kind = "run"
      => stack[j].req \in ModalSafe

(* A caller that gave up before the game thread looked at its request has    *)
(* cancelled it: the handler is not started any more.                        *)
Abandoned(r) ==
  abandoned[r] /\ \A i \in DOMAIN stack :
                    stack[i].kind = "run" /\ stack[i].req = r => stack[i].phase = "check"

AbandonedNeverStarts ==
  [][\A r \in Requests : Abandoned(r) => runs'[r] = runs[r] /\ Abandoned(r)']_vars

(* A socket thread always gets its answer, even when a handler never returns,*)
(* a dialog never closes or the module shuts down under it.                  *)
CallerReturns ==
  CallersRun => \A r \in Requests : pc[r] # "idle" ~> pc[r] = "answered"

(* A modal-safe request is served, also before the editor is ready and also  *)
(* when the dialog on screen never closes: the game thread finds it, however *)
(* long its caller waits (no fairness makes the caller give up).             *)
ModalSafeServed ==
  GameThreadTicks =>
    \A r \in ModalSafe :
      pc[r] \notin {"idle", "enqueue"} ~>
        runs[r] = 1 \/ abandoned[r] \/ shuttingDown

(* No entry stays in the modal-safe queue after its work is over, though no  *)
(* dialog ever drains it.                                                    *)
StaleEntriesLeave ==
  GameThreadTicks =>
    \A r \in ModalSafe :
      (\E i \in DOMAIN queue : queue[i] = r /\ ~Live(r)) ~>
        shuttingDown \/ \A i \in DOMAIN queue : queue[i] # r

(* The executor keeps the promise of RequestExecution.                       *)
RefusedAtGate(r) == pc[r] = "answered" /\ ~abandoned[r] /\ result[r] = "none"

Phase(r) ==
  CASE result[r] = "handler" -> "finished"
    [] result[r] = "not_ready" -> "skipped"
    [] result[r] = "none" /\ runs[r] > 0 -> "started"
    [] result[r] = "none" /\ runs[r] = 0 ->
         IF pc[r] = "idle" \/ RefusedAtGate(r) THEN "new" ELSE "open"

ReplyOf(r) ==
  CASE answer[r] = "none" -> "none"
    [] answer[r] = "handler" -> "result"
    [] answer[r] \in {"dialog", "not_ready"} -> "refused"
    [] OTHER -> "unknown"

Promise == INSTANCE RequestExecution
             WITH phase <- [r \in Requests |-> Phase(r)],
                  reply <- [r \in Requests |-> ReplyOf(r)]

KeepsPromise == Promise!ASpec
=============================================================================
