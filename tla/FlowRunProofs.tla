---------------------------- MODULE FlowRunProofs ----------------------------
(***************************************************************************)
(* Proofs about FlowRun, for any number of steps and any number of drops.  *)
(***************************************************************************)
EXTENDS FlowRun, WellFoundedInduction, TLAPS

(* How often step s was executed, or may yet be.                           *)
Pending(s) == IF <<"task", s>> \in late THEN 1 ELSE 0
Spent(s) == runs[s] + Pending(s)
Quota(s) == IF kind[s] = "read" THEN 2 ELSE 1

(* A step that was not sent has not been executed; one whose run is over   *)
(* was executed once, unless it reads and is run again.                    *)
OnceInv ==
  /\ \A s \in Steps : Spent(s) <= Quota(s)
  /\ phase = "task" =>
       /\ \A s \in Steps : s > at => Spent(s) = 0
       /\ (\/ pc \in {"boundary", "await"}
           \/ pc = "run" /\ call \in {"unsent", "sent"}) => Spent(at) = 0
       /\ (\/ pc \in {"run", "back"}
           \/ pc = "again" /\ call \in {"unsent", "sent"}) => Spent(at) <= 1
       /\ pc = "again" => kind[at] = "read"

(* What the runner, the guard and the request have to do with each other.  *)
RunnerInv ==
  /\ phase = "task" => failed = 0
  /\ phase = "rollback" => at \in records /\ failed # 0 /\ armed
  /\ phase = "ended" => pc = "boundary"
  /\ pc = "await" => call = "unsent"
  /\ failed = 0 => \A s \in Steps : <<"rollback", s>> \notin late
  /\ Runs /\ call \in {"sent", "ok"} /\ NeedsEditor => connected

(* The steps that the run has left behind, while nothing stopped it.       *)
Done(s) == failed = 0 /\ (phase = "ended" \/ s < at)

(* The change of such a step is there, or it was in memory when the editor *)
(* was lost; what was in memory is reported once the loss is noticed.      *)
Accounted(s) ==
  /\ <<"task", s>> \notin late
  /\ \/ s \in unsaved
     \/ effect[s] /\ (~disk[s] => s \in unsafe)
     \/ s \in unsafe /\ editor = "dead" /\ connected

HonestInv ==
  /\ unsaved \subseteq unsafe
  /\ ~connected => unsafe \subseteq unsaved \cup unknown
  /\ \A s \in Steps :
       kind[s] = "edit" /\ Done(s) /\ s \notin unknown \cup ignored => Accounted(s)
  /\ phase = "task" /\ Runs /\ call = "ok" /\ kind[at] = "edit" =>
       /\ <<"task", at>> \notin late
       /\ effect[at] \/ (~disk[at] /\ editor = "dead" /\ connected)

(* The report names the step, or a crash has brought its change back.      *)
Excused(s) == s \in unknown \cup ignored \cup {failed} \cup forgotten

(* A change that is there has an inverse to replay, or it is excused, or   *)
(* its step runs now; inverses that were replayed worked.                  *)
UndoInv ==
  \A s \in Steps : kind[s] = "edit" =>
    /\ <<"task", s>> \in late => Excused(s) \/ (phase = "task" /\ s = at)
    /\ effect[s] => s \in records \/ Excused(s) \/ (phase = "task" /\ s = at)
    /\ s \in records /\ effect[s] /\ (\/ phase = "rollback" /\ s > at
                                      \/ phase = "ended" /\ failed # 0 /\ armed)
         => Excused(s) \/ s \in undoFailed
    /\ phase = "rollback" /\ s = at /\ Runs /\ call = "ok" /\ effect[s] => Excused(s)

IInv == TypeOK /\ OnceInv /\ RunnerInv /\ HonestInv /\ UndoInv

-----------------------------------------------------------------------------
(* What the runner does at the end of a step.                              *)

(* A nonempty set of steps has a largest element.                          *)
LEMMA LargestIsLargest ==
  ASSUME NEW S \in SUBSET Steps, S # {}
  PROVE  Largest(S) \in S /\ \A t \in S : t <= Largest(S)
<1> DEFINE R == {ss \in Nat \X Nat : ss[1] < ss[2]}
           T == {N - s : s \in S}
<1>1. N \in Nat
  BY NAssumption
<1>2. T \subseteq Nat /\ T # {}
  <2>1. \A s \in S : N - s \in Nat
    BY <1>1 DEF Steps
  <2>2. PICK s \in S : TRUE
    OBVIOUS
  <2>3. N - s \in T
    BY <2>2
  <2> QED BY <2>1, <2>3
<1>3. IsWellFoundedOn(R, Nat)
  BY NatLessThanWellFounded, Zenon DEF OpToRel
<1>4. PICK x \in T : \A y \in T : ~(<<y, x>> \in R)
  <2> HIDE DEF R, T
  <2> QED BY <1>2, <1>3, WFMin
<1>5. PICK s \in S : x = N - s
  BY <1>4
<1>6. \A t \in S : t <= s
  <2> TAKE t \in S
  <2>1. N - t \in T /\ N - t \in Nat /\ x \in Nat
    BY <1>2
  <2>2. ~(N - t < x)
    BY <1>4, <2>1
  <2> QED BY <1>1, <1>5, <2>2 DEF Steps
<1> QED BY <1>6 DEF Largest

(* The run walks on to the next step, or it was the last one.              *)
Walked ==
  \/ phase' = phase /\ at' = at + 1 /\ at < N
  \/ phase' = "ended" /\ at' = at /\ at = N

LEMMA StepCompletes ==
  ASSUME TypeOK, NEW inverse, NEW notSaved, Completes(inverse, notSaved)
  PROVE  /\ records' = records \cup inverse
         /\ unsafe' = unsafe \cup notSaved
         /\ UNCHANGED <<ignored, failed, undoFailed>>
         /\ restored' \in BOOLEAN /\ at' \in Steps
         /\ Walked
BY NAssumption DEF TypeOK, Completes, WalksOn, Walked, Ends, Steps

(* The step is tolerated, or it stopped the run, which replays inverses.   *)
Stopped ==
  \/ phase' = "rollback" /\ armed /\ at' \in records' /\ \A r \in records' : r <= at'
  \/ phase' = "ended" /\ at' = at /\ (armed => records' = {})

LEMMA StepFails ==
  ASSUME TypeOK, NEW inverse \in SUBSET Steps, Fails(inverse)
  PROVE  /\ records' = records \cup inverse
         /\ UNCHANGED <<unsafe, undoFailed>>
         /\ restored' \in BOOLEAN /\ at' \in Steps
         /\ \/ /\ at \in tolerated
               /\ ignored' = ignored \cup {at} /\ failed' = failed /\ Walked
            \/ failed' = at /\ ignored' = ignored /\ Stopped
         /\ failed' \in 0 .. N /\ ignored' \subseteq tolerated
<1>0. at \in 0 .. N
  BY NAssumption DEF TypeOK, Steps
<1>1. records' = records \cup inverse /\ UNCHANGED <<unsafe, undoFailed>>
  BY DEF Fails
<1>2. CASE at \in tolerated
  <2>1. ignored' = ignored \cup {at} /\ failed' = failed /\ WalksOn
    BY <1>2 DEF Fails
  <2>2. Walked /\ at' \in Steps /\ restored' \in BOOLEAN
    BY <2>1, NAssumption DEF TypeOK, WalksOn, Walked, Ends, Steps
  <2> QED BY <1>1, <1>2, <2>1, <2>2 DEF TypeOK
<1>3. CASE at \notin tolerated /\ armed /\ records' # {}
  <2>1. records' \in SUBSET Steps
    BY <1>1 DEF TypeOK
  <2>2. Largest(records') \in records' /\ \A r \in records' : r <= Largest(records')
    BY <1>3, <2>1, LargestIsLargest
  <2>3. phase' = "rollback" /\ at' = Largest(records') /\ restored' = restored
    BY <1>3 DEF Fails
  <2>4. failed' = at /\ ignored' = ignored
    BY <1>3 DEF Fails
  <2>5. Stopped
    BY <1>3, <2>2, <2>3 DEF Stopped
  <2>6. at' \in Steps
    BY <2>1, <2>2, <2>3
  <2> QED BY <1>0, <1>1, <2>3, <2>4, <2>5, <2>6 DEF TypeOK
<1>4. CASE at \notin tolerated /\ ~(armed /\ records' # {})
  BY <1>0, <1>1, <1>4 DEF TypeOK, Fails, Ends, Stopped
<1> QED BY <1>2, <1>3, <1>4

(* The inverses below this one are next, the largest of them first.        *)
LEMMA StepIsUndone ==
  ASSUME TypeOK, NEW ok, InverseEnds(ok)
  PROVE  /\ undoFailed' = undoFailed \cup (IF ok THEN {} ELSE {at})
         /\ UNCHANGED <<records, unsafe, ignored, failed>>
         /\ restored' \in BOOLEAN /\ at' \in Steps
         /\ \/ /\ phase' = phase
               /\ at' \in records /\ at' < at
               /\ \A r \in records : r < at => r <= at'
            \/ /\ phase' = "ended" /\ at' = at
               /\ \A r \in records : ~(r < at)
<1> DEFINE Below == {r \in records : r < at}
<1>1. CASE Below # {}
  <2>1. Below \in SUBSET Steps
    BY DEF TypeOK
  <2>2. Largest(Below) \in Below /\ \A r \in Below : r <= Largest(Below)
    BY <1>1, <2>1, LargestIsLargest
  <2>3. at' = Largest(Below) /\ UNCHANGED <<phase, restored>>
    BY <1>1 DEF InverseEnds
  <2>4. at' \in records /\ at' < at /\ \A r \in records : r < at => r <= at'
    BY <2>2, <2>3
  <2> QED BY <2>3, <2>4 DEF InverseEnds, TypeOK
<1>2. CASE Below = {}
  BY <1>2 DEF InverseEnds, Ends, TypeOK
<1> QED BY <1>1, <1>2

(* A handler runs: what changes of its own step, and nothing of another.   *)
LEMMA Execution ==
  ASSUME TypeOK, NEW p \in {"task", "rollback"}, NEW s \in Steps,
         NEW outcome \in Outcomes(p, s), Executes(p, s, outcome)
  PROVE  /\ runs' \in [Steps -> Nat]
         /\ effect' \in [Steps -> BOOLEAN]
         /\ disk' \in [Steps -> BOOLEAN]
         /\ \A t \in Steps : runs'[t] = IF p = "task" /\ t = s THEN runs[t] + 1 ELSE runs[t]
         /\ \A t \in Steps : t # s => effect'[t] = effect[t] /\ disk'[t] = disk[t]
         /\ p = "task" /\ kind[s] = "edit" /\ outcome = "ok" => effect'[s]
         /\ p = "rollback" => (effect'[s] => effect[s])
         /\ p = "rollback" /\ outcome = "ok" => ~effect'[s]
         /\ UNCHANGED forgotten
<1> USE DEF TypeOK
<1>1. /\ runs' \in [Steps -> Nat] /\ UNCHANGED forgotten
      /\ \A t \in Steps : runs'[t] = IF p = "task" /\ t = s THEN runs[t] + 1 ELSE runs[t]
  BY DEF Executes
<1>2. CASE p = "task" /\ kind[s] = "edit" /\ outcome \in {"ok", "partial"}
  <2>1. effect' = [effect EXCEPT ![s] = TRUE]
    BY <1>2 DEF Executes
  <2>2. PICK saved \in BOOLEAN : disk' = [disk EXCEPT ![s] = saved]
    BY <1>2 DEF Executes
  <2>3. effect' \in [Steps -> BOOLEAN] /\ disk' \in [Steps -> BOOLEAN]
    BY <2>1, <2>2, Zenon
  <2> QED BY <1>1, <1>2, <2>1, <2>2, <2>3
<1>3. CASE p = "rollback" /\ outcome = "ok"
  <2>1. effect' = [effect EXCEPT ![s] = FALSE]
    BY <1>3 DEF Executes
  <2>2. PICK saved \in BOOLEAN : disk' = [disk EXCEPT ![s] = @ /\ ~saved]
    BY <1>3 DEF Executes
  <2>3. effect' \in [Steps -> BOOLEAN] /\ disk' \in [Steps -> BOOLEAN]
    BY <2>1, <2>2, Zenon
  <2> QED BY <1>1, <1>3, <2>1, <2>2, <2>3
<1>4. CASE outcome = "failed" \/ (p = "task" /\ kind[s] # "edit")
  <2>1. UNCHANGED <<effect, disk>>
    BY <1>4 DEF Executes
  <2> QED BY <1>1, <1>4, <2>1
<1> QED BY <1>2, <1>3, <1>4 DEF Outcomes

-----------------------------------------------------------------------------
(* The shape of the state.                                                 *)

LEMMA TypeInit == ASSUME Init PROVE TypeOK
<1>1. /\ effect \in [Steps -> BOOLEAN] /\ disk \in [Steps -> BOOLEAN]
      /\ forgotten \subseteq Steps
  BY Zenon DEF Init
<1>2. runs \in [Steps -> Nat]
  BY DEF Init
<1>3. at \in Steps /\ failed \in 0 .. N /\ drops \in 0 .. MaxDrops /\ before \in 0 .. MaxDrops
  BY NAssumption, MaxDropsAssumption DEF Init, Steps
<1>4. editor \in {"up", "dead"} /\ connected \in BOOLEAN /\ armed \in BOOLEAN /\ restored \in BOOLEAN
  BY Zenon DEF Init
<1> QED BY <1>1, <1>2, <1>3, <1>4 DEF Init, TypeOK

(* Every step keeps the shape of the state.                                *)
LEMMA TypeStep == ASSUME TypeOK, RunnerInv, [Next]_vars PROVE TypeOK'
<1> USE DEF TypeOK, config, peer, guard, request, report, runner, world
<1>1. CASE Begin
  BY <1>1 DEF Begin
<1>2. CASE AwaitEnds
  BY <1>2 DEF AwaitEnds
<1>3. CASE RunStands
  <2>1. CASE phase = "rollback"
    <3>1. InverseEnds(call = "ok")
      BY <1>3, <2>1 DEF RunStands
    <3> QED BY <1>3, <3>1, StepIsUndone DEF RunStands
  <2>2. CASE phase # "rollback" /\ call = "ok"
    <3>1. Completes(Inverse(at), NotSaved(at))
      BY <1>3, <2>2 DEF RunStands
    <3>2. Inverse(at) \subseteq Steps /\ NotSaved(at) \subseteq Steps
      BY DEF Inverse, NotSaved
    <3> HIDE DEF Inverse, NotSaved
    <3> QED BY <1>3, <3>1, <3>2, StepCompletes DEF RunStands, Walked
  <2>3. CASE phase # "rollback" /\ call # "ok"
    <3>1. PICK i \in SUBSET Steps : Fails(i)
      BY <1>3, <2>3 DEF RunStands
    <3> QED BY <1>3, <3>1, StepFails DEF RunStands, Walked, Stopped
  <2> QED BY <2>1, <2>2, <2>3
<1>4. CASE RunIsLost
  BY <1>4 DEF RunIsLost
<1>5. CASE EditorIsBack
  <2>1. CASE RunsAgain
    BY <1>5, <2>1 DEF EditorIsBack
  <2>2. CASE ~RunsAgain /\ policy = "resume"
    <3>1. PICK n \in SUBSET Steps : Completes({}, n)
      BY <1>5, <2>2 DEF EditorIsBack, NotSaved
    <3> QED BY <1>5, <2>2, <3>1, StepCompletes DEF EditorIsBack, Walked
  <2>3. CASE ~RunsAgain /\ policy # "resume"
    <3>1. Fails({})
      BY <1>5, <2>3 DEF EditorIsBack
    <3> QED BY <1>5, <2>3, <3>1, StepFails DEF EditorIsBack, Walked, Stopped
  <2> QED BY <2>1, <2>2, <2>3
<1>6. CASE BackRunsOut
  <2>1. CASE phase = "rollback"
    <3>1. InverseEnds(FALSE)
      BY <1>6, <2>1 DEF BackRunsOut
    <3>2. /\ UNCHANGED <<records, unsafe, ignored, failed>>
          /\ undoFailed' = undoFailed \cup {at}
          /\ restored' \in BOOLEAN /\ at' \in Steps /\ phase' \in {phase, "ended"}
      BY <3>1, StepIsUndone
    <3>3. /\ pc' = "boundary" /\ UNCHANGED unknown
          /\ UNCHANGED <<config, peer, before, request, unsaved, world>>
      BY <1>6, <2>1 DEF BackRunsOut
    <3> QED BY <3>2, <3>3
  <2>2. CASE phase # "rollback"
    <3>1. Fails({})
      BY <1>6, <2>2 DEF BackRunsOut
    <3> QED BY <1>6, <2>2, <3>1, StepFails DEF BackRunsOut, Walked, Stopped
  <2> QED BY <2>1, <2>2
<1>7. CASE AgainReturns
  <2>1. CASE phase = "rollback"
    <3>1. InverseEnds(call = "ok")
      BY <1>7, <2>1 DEF AgainReturns
    <3> QED BY <1>7, <3>1, StepIsUndone DEF AgainReturns
  <2>2. CASE phase # "rollback" /\ call = "ok"
    <3>1. Completes({}, {})
      BY <1>7, <2>2 DEF AgainReturns
    <3> QED BY <1>7, <3>1, StepCompletes DEF AgainReturns, Walked
  <2>3. CASE phase # "rollback" /\ call # "ok"
    <3>1. Fails({})
      BY <1>7, <2>3 DEF AgainReturns
    <3> QED BY <1>7, <3>1, StepFails DEF AgainReturns, Walked, Stopped
  <2> QED BY <2>1, <2>2, <2>3
<1>8. CASE LocalRuns
  BY <1>8 DEF LocalRuns
<1>9. CASE Send
  BY <1>9 DEF Send
<1>10. CASE TimesOut
  <2>1. phase \in {"task", "rollback"}
    BY <1>10 DEF TimesOut, RunnerInv, Runs
  <2> QED BY <1>10, <2>1 DEF TimesOut
<1>11. CASE Answer
  <2>1. phase \in {"task", "rollback"} /\ call' \in Outcomes(phase, at)
    BY <1>11 DEF Answer, RunnerInv, Runs
  <2>2. /\ runs' \in [Steps -> Nat] /\ UNCHANGED forgotten
        /\ effect' \in [Steps -> BOOLEAN] /\ disk' \in [Steps -> BOOLEAN]
    BY <1>11, <2>1, Execution DEF Answer
  <2> QED BY <1>11, <2>1, <2>2 DEF Answer, Outcomes
<1>12. CASE AnswerLate
  <2>1. PICK l \in late : /\ late' = late \ {l}
                          /\ \E o \in Outcomes(l[1], l[2]) : Executes(l[1], l[2], o)
    BY <1>12 DEF AnswerLate
  <2>2. l[1] \in {"task", "rollback"} /\ l[2] \in Steps
    BY <2>1
  <2>3. /\ runs' \in [Steps -> Nat] /\ UNCHANGED forgotten
        /\ effect' \in [Steps -> BOOLEAN] /\ disk' \in [Steps -> BOOLEAN]
    BY <2>1, <2>2, Execution
  <2> QED BY <1>12, <2>1, <2>3 DEF AnswerLate
<1>13. CASE Drop
  <2>1. phase \in {"task", "rollback"}
    BY <1>13 DEF Drop
  <2>2. late' \subseteq {"task", "rollback"} \X Steps /\ call' \in {call, "rejected"}
    BY <1>13, <2>1 DEF Drop
  <2>3. drops' \in 0 .. MaxDrops
    BY <1>13, MaxDropsAssumption DEF Drop
  <2> QED BY <1>13, <2>2, <2>3 DEF Drop
<1>14. CASE Crash
  <2>1. effect' \in [Steps -> BOOLEAN] /\ forgotten' \subseteq Steps
    BY <1>14, Zenon DEF Crash
  <2> QED BY <1>14, <2>1 DEF Crash
<1>15. CASE Return
  BY <1>15 DEF Return
<1>16. CASE UNCHANGED vars
  BY <1>16 DEF vars
<1> QED BY <1>1, <1>2, <1>3, <1>4, <1>5, <1>6, <1>7, <1>8, <1>9, <1>10, <1>11,
           <1>12, <1>13, <1>14, <1>15, <1>16 DEF Next, Run, Editor

-----------------------------------------------------------------------------
(* The runner and the guard.                                               *)

(* Every step keeps the runner, the guard and the request in agreement.    *)
LEMMA RunnerStep == ASSUME TypeOK, RunnerInv, [Next]_vars PROVE RunnerInv'
<1> USE DEF RunnerInv, Runs, NeedsEditor, config, peer, guard, request, report, runner, world
<1>0. 0 \notin Steps
  BY NAssumption DEF Steps
<1>1. CASE Begin
  BY <1>1 DEF Begin, TypeOK
<1>2. CASE AwaitEnds
  BY <1>2 DEF AwaitEnds, TypeOK
<1>3. CASE RunStands
  <2>1. CASE phase = "rollback"
    <3>1. InverseEnds(call = "ok")
      BY <1>3, <2>1 DEF RunStands
    <3> QED BY <1>3, <2>1, <3>1, StepIsUndone DEF RunStands
  <2>2. CASE phase # "rollback" /\ call = "ok"
    <3>1. PICK i, n : Completes(i, n)
      BY <1>3, <2>2 DEF RunStands
    <3> QED BY <1>3, <2>2, <3>1, StepCompletes DEF RunStands, Walked
  <2>3. CASE phase # "rollback" /\ call # "ok"
    <3>1. PICK i \in SUBSET Steps : Fails(i)
      BY <1>3, <2>3 DEF RunStands, TypeOK
    <3> QED BY <1>0, <1>3, <2>3, <3>1, StepFails DEF RunStands, Walked, Stopped, TypeOK
  <2> QED BY <2>1, <2>2, <2>3
<1>4. CASE RunIsLost
  BY <1>4 DEF RunIsLost
<1>5. CASE EditorIsBack
  <2>1. CASE RunsAgain
    BY <1>5, <2>1 DEF EditorIsBack
  <2>2. CASE ~RunsAgain /\ policy = "resume"
    <3>1. PICK n : Completes({}, n)
      BY <1>5, <2>2 DEF EditorIsBack
    <3> QED BY <1>5, <2>2, <3>1, StepCompletes DEF EditorIsBack, RunsAgain, Walked
  <2>3. CASE ~RunsAgain /\ policy # "resume"
    <3>1. Fails({})
      BY <1>5, <2>3 DEF EditorIsBack
    <3> QED BY <1>0, <1>5, <2>3, <3>1, StepFails DEF EditorIsBack, RunsAgain, Walked, Stopped, TypeOK
  <2> QED BY <2>1, <2>2, <2>3
<1>6. CASE BackRunsOut
  <2>1. CASE phase = "rollback"
    <3>1. InverseEnds(FALSE)
      BY <1>6, <2>1 DEF BackRunsOut
    <3> QED BY <1>6, <2>1, <3>1, StepIsUndone DEF BackRunsOut
  <2>2. CASE phase # "rollback"
    <3>1. Fails({})
      BY <1>6, <2>2 DEF BackRunsOut
    <3> QED BY <1>0, <1>6, <2>2, <3>1, StepFails DEF BackRunsOut, Walked, Stopped, TypeOK
  <2> QED BY <2>1, <2>2
<1>7. CASE AgainReturns
  <2>1. CASE phase = "rollback"
    <3>1. InverseEnds(call = "ok")
      BY <1>7, <2>1 DEF AgainReturns
    <3> QED BY <1>7, <2>1, <3>1, StepIsUndone DEF AgainReturns
  <2>2. CASE phase # "rollback" /\ call = "ok"
    <3>1. Completes({}, {})
      BY <1>7, <2>2 DEF AgainReturns
    <3> QED BY <1>7, <2>2, <3>1, StepCompletes DEF AgainReturns, Walked
  <2>3. CASE phase # "rollback" /\ call # "ok"
    <3>1. Fails({})
      BY <1>7, <2>3 DEF AgainReturns
    <3> QED BY <1>0, <1>7, <2>3, <3>1, StepFails DEF AgainReturns, Walked, Stopped, TypeOK
  <2> QED BY <2>1, <2>2, <2>3
<1>8. CASE LocalRuns
  BY <1>8 DEF LocalRuns
<1>9. CASE Send
  BY <1>9 DEF Send
<1>10. CASE TimesOut
  BY <1>10 DEF TimesOut, TypeOK
<1>11. CASE Answer
  BY <1>11 DEF Answer
<1>12. CASE AnswerLate
  BY <1>12 DEF AnswerLate
<1>13. CASE Drop
  BY <1>13 DEF Drop, TypeOK
<1>14. CASE Crash
  BY <1>14 DEF Crash
<1>15. CASE Return
  BY <1>15 DEF Return
<1>16. CASE UNCHANGED vars
  BY <1>16 DEF vars
<1> QED BY <1>1, <1>2, <1>3, <1>4, <1>5, <1>6, <1>7, <1>8, <1>9, <1>10, <1>11,
           <1>12, <1>13, <1>14, <1>15, <1>16 DEF Next, Run, Editor

(* What has been spent on a step does not change while its request is      *)
(* executed late, and only then by what is executed for it.                *)
LEMMA OnceStep == ASSUME TypeOK, OnceInv, RunnerInv, [Next]_vars PROVE OnceInv'
<1> USE DEF OnceInv, Spent, Pending, Quota, config, peer, guard, request, report, runner, world
<1>0. runs \in [Steps -> Nat] /\ at \in Steps
  BY DEF TypeOK
<1>a. Steps \subseteq Nat
  BY DEF Steps
<1>1. CASE Begin
  BY <1>1 DEF Begin
<1>2. CASE AwaitEnds
  BY <1>2 DEF AwaitEnds
<1>3. CASE RunStands
  <2>0. pc = "run" /\ pc' = "boundary" /\ UNCHANGED <<kind, runs, late>>
    BY <1>3 DEF RunStands
  <2>1. \/ phase' = "task" /\ phase = "task" /\ at' = at + 1
        \/ phase' \in {"rollback", "ended"}
    <3>1. CASE phase = "rollback"
      BY <1>3, <3>1, StepIsUndone DEF RunStands
    <3>2. CASE phase # "rollback" /\ call = "ok"
      <4>1. PICK i, n : Completes(i, n)
        BY <1>3, <3>2 DEF RunStands
      <4> QED BY <3>2, <4>1, StepCompletes DEF Walked, TypeOK
    <3>3. CASE phase # "rollback" /\ call # "ok"
      <4>1. PICK i \in SUBSET Steps : Fails(i)
        BY <1>3, <3>3 DEF RunStands, TypeOK
      <4> QED BY <3>3, <4>1, StepFails DEF Walked, Stopped, TypeOK
    <3> QED BY <3>1, <3>2, <3>3
  <2>2. at' \in Steps
    BY TypeStep DEF TypeOK
  <2> QED BY <1>0, <1>a, <2>0, <2>1, <2>2
<1>4. CASE RunIsLost
  BY <1>4 DEF RunIsLost
<1>5. CASE EditorIsBack
  <2>1. CASE RunsAgain
    BY <1>5, <2>1 DEF EditorIsBack, RunsAgain
  <2>2. CASE ~RunsAgain
    <3>1. \/ phase' = "task" /\ phase = "task" /\ at' = at + 1
          \/ phase' \in {"rollback", "ended"}
      <4>1. CASE policy = "resume"
        <5>1. PICK n : Completes({}, n)
          BY <1>5, <2>2, <4>1 DEF EditorIsBack
        <5> QED BY <2>2, <5>1, StepCompletes DEF RunsAgain, Walked, TypeOK
      <4>2. CASE policy # "resume"
        <5>1. Fails({})
          BY <1>5, <2>2, <4>2 DEF EditorIsBack
        <5> QED BY <2>2, <5>1, StepFails DEF RunsAgain, Walked, Stopped, TypeOK
      <4> QED BY <4>1, <4>2
    <3>2. at' \in Steps
      BY TypeStep DEF TypeOK
    <3>3. pc = "back" /\ pc' = "boundary" /\ UNCHANGED <<kind, runs, late>>
      BY <1>5, <2>2 DEF EditorIsBack
    <3> QED BY <1>0, <1>a, <3>1, <3>2, <3>3
  <2> QED BY <2>1, <2>2
<1>6. CASE BackRunsOut
  <2>1. \/ phase' = "task" /\ phase = "task" /\ at' = at + 1
        \/ phase' \in {"rollback", "ended"}
    <3>1. CASE phase = "rollback"
      BY <1>6, <3>1, StepIsUndone DEF BackRunsOut
    <3>2. CASE phase # "rollback"
      <4>1. Fails({})
        BY <1>6, <3>2 DEF BackRunsOut
      <4> QED BY <3>2, <4>1, StepFails DEF Walked, Stopped, TypeOK
    <3> QED BY <3>1, <3>2
  <2>2. at' \in Steps
    BY TypeStep DEF TypeOK
  <2>3. pc = "back" /\ pc' = "boundary" /\ UNCHANGED <<kind, runs, late>>
    BY <1>6 DEF BackRunsOut
  <2> QED BY <1>0, <1>a, <2>1, <2>2, <2>3
<1>7. CASE AgainReturns
  <2>1. \/ phase' = "task" /\ phase = "task" /\ at' = at + 1
        \/ phase' \in {"rollback", "ended"}
    <3>1. CASE phase = "rollback"
      BY <1>7, <3>1, StepIsUndone DEF AgainReturns
    <3>2. CASE phase # "rollback" /\ call = "ok"
      <4>1. Completes({}, {})
        BY <1>7, <3>2 DEF AgainReturns
      <4> QED BY <3>2, <4>1, StepCompletes DEF Walked, TypeOK
    <3>3. CASE phase # "rollback" /\ call # "ok"
      <4>1. Fails({})
        BY <1>7, <3>3 DEF AgainReturns
      <4> QED BY <3>3, <4>1, StepFails DEF Walked, Stopped, TypeOK
    <3> QED BY <3>1, <3>2, <3>3
  <2>2. at' \in Steps
    BY TypeStep DEF TypeOK
  <2>3. pc' = "boundary" /\ UNCHANGED <<kind, runs, late>>
    BY <1>7 DEF AgainReturns
  <2> QED BY <1>0, <1>a, <2>1, <2>2, <2>3
<1>8. CASE LocalRuns
  <2>1. /\ pc = "run" /\ phase # "rollback" /\ call = "unsent" /\ call' \in {"ok", "failed"}
        /\ runs' = [runs EXCEPT ![at] = @ + 1]
        /\ UNCHANGED <<kind, phase, at, pc, late>>
    BY <1>8 DEF LocalRuns, Runs, NeedsEditor, TypeOK, RunnerInv
  <2>2. \A s \in Steps : s # at => Spent(s)' = Spent(s)
    BY <1>0, <2>1
  <2>3. (Spent(at))' = Spent(at) + 1 /\ Spent(at) \in Nat
    BY <1>0, <2>1
  <2>4. Quota(at) >= 1 /\ (\A s \in Steps : Quota(s)' = Quota(s))
    BY <2>1
  <2>5. phase = "task" => Spent(at) = 0
    BY <2>1
  <2>6. CASE phase = "task"
    <3> HIDE DEF Spent, Quota
    <3> QED BY <1>0, <1>a, <2>1, <2>2, <2>3, <2>4, <2>5, <2>6
  <2>7. CASE phase # "task"
    BY <1>8, <2>1, <2>7 DEF RunnerInv, TypeOK
  <2> QED BY <2>6, <2>7
<1>9. CASE Send
  BY <1>9 DEF Send
<1>10. CASE TimesOut
  BY <1>0, <1>a, <1>10 DEF TimesOut, Runs
<1>11. CASE Answer
  <2>1. /\ phase \in {"task", "rollback"} /\ call' \in Outcomes(phase, at)
        /\ Executes(phase, at, call')
    BY <1>11 DEF Answer, RunnerInv, Runs, TypeOK
  <2>2. \A t \in Steps : runs'[t] = IF phase = "task" /\ t = at THEN runs[t] + 1 ELSE runs[t]
    BY <1>0, <2>1, Execution
  <2>3. call' \notin {"unsent", "sent"}
    BY <1>11 DEF Answer, Outcomes
  <2>4. pc \in {"run", "again"} /\ call = "sent" /\ UNCHANGED <<kind, phase, at, pc, late>>
    BY <1>11 DEF Answer, Runs
  <2>5. CASE phase = "task"
    <3>1. \A t \in Steps : t # at => Spent(t)' = Spent(t)
      BY <2>2, <2>4
    <3>2. Spent(at)' = Spent(at) + 1
      BY <1>0, <2>2, <2>4, <2>5
    <3>3. Spent(at) \in Nat
      BY <1>0
    <3> HIDE DEF Spent
    <3> QED BY <1>0, <1>a, <2>3, <2>4, <2>5, <3>1, <3>2, <3>3
  <2>6. CASE phase # "task"
    BY <2>2, <2>4, <2>6
  <2> QED BY <2>5, <2>6
<1>12. CASE AnswerLate
  <2>1. PICK l \in late : /\ late' = late \ {l}
                          /\ \E o \in Outcomes(l[1], l[2]) : Executes(l[1], l[2], o)
    BY <1>12 DEF AnswerLate
  <2>2. l[1] \in {"task", "rollback"} /\ l[2] \in Steps /\ l = <<l[1], l[2]>>
    BY <2>1 DEF TypeOK
  <2>3. \A t \in Steps : runs'[t] = IF l[1] = "task" /\ t = l[2] THEN runs[t] + 1 ELSE runs[t]
    BY <2>1, <2>2, Execution
  <2>4. \A t \in Steps : Spent(t)' = Spent(t)
    <3> TAKE t \in Steps
    <3>1. runs[t] \in Nat
      BY <1>0
    <3>2. CASE l = <<"task", t>>
      BY <2>1, <2>2, <2>3, <3>1, <3>2
    <3>3. CASE l # <<"task", t>>
      BY <2>1, <2>2, <2>3, <3>3
    <3> QED BY <3>2, <3>3
  <2>5. UNCHANGED <<kind, phase, at, pc, call>> /\ (Spent(at))' = Spent(at)
    BY <1>0, <1>12, <2>4 DEF AnswerLate
  <2> HIDE DEF Spent
  <2> QED BY <1>0, <2>4, <2>5
<1>13. CASE Drop
  <2>1. UNCHANGED <<kind, phase, at, pc, runs>>
    BY <1>13 DEF Drop
  <2>2. CASE Runs /\ call = "sent"
    BY <1>0, <1>a, <1>13, <2>1, <2>2 DEF Drop, Runs
  <2>3. CASE ~(Runs /\ call = "sent")
    <3>1. late' = late /\ (call' = call \/ (Runs /\ call' = "rejected" /\ call \notin {"unsent", "sent"}))
      BY <1>13, <2>3 DEF Drop
    <3> QED BY <2>1, <2>3, <3>1 DEF Runs
  <2> QED BY <2>2, <2>3
<1>14. CASE Crash
  <2>1. late' = {} /\ UNCHANGED <<kind, phase, at, pc, call, runs>>
    BY <1>14 DEF Crash
  <2>2. \A s \in Steps : runs[s] \in Nat /\ runs[s] + 0 = runs[s] /\ Spent(s)' = runs[s]
    BY <1>0, <2>1
  <2>3. \A s \in Steps : Spent(s) = runs[s] \/ Spent(s) = runs[s] + 1
    BY <2>2
  <2>4. \A s \in Steps : Spent(s)' <= Spent(s) /\ Spent(s)' \in Nat /\ Spent(s) \in Nat
    <3> HIDE DEF Spent
    <3> QED BY <2>2, <2>3
  <2>5. (Spent(at))' = Spent(at)'
    BY <2>1
  <2> HIDE DEF Spent
  <2> QED BY <1>0, <2>1, <2>4, <2>5
<1>15. CASE Return
  BY <1>15 DEF Return
<1>16. CASE UNCHANGED vars
  BY <1>16 DEF vars
<1> QED BY <1>1, <1>2, <1>3, <1>4, <1>5, <1>6, <1>7, <1>8, <1>9, <1>10, <1>11,
           <1>12, <1>13, <1>14, <1>15, <1>16 DEF Next, Run, Editor

-----------------------------------------------------------------------------
(* What a successful run reports.                                          *)

(* A step is left behind.                                                  *)
LEMMA HonestWalk ==
  ASSUME TypeOK, RunnerInv, HonestInv, phase = "task", pc' = "boundary",
         UNCHANGED <<kind, editor, connected, late, unsaved, effect, disk>>,
         unknown \subseteq unknown', ignored \subseteq ignored', unsafe \subseteq unsafe',
         connected \/ unsafe' = unsafe,
         \/ failed' = at
         \/ /\ failed' = 0 /\ Walked
            /\ \A s \in Steps : s = at /\ kind[s] = "edit"
                               => s \in unknown' \cup ignored' \/ Accounted(s)'
  PROVE  HonestInv'
<1> USE DEF HonestInv, RunnerInv
<1>1. unsaved' \subseteq unsafe' /\ (~connected' => unsafe' \subseteq unsaved' \cup unknown')
  OBVIOUS
<1>2. ASSUME NEW s \in Steps, kind[s] = "edit", Done(s)', s \notin unknown' \cup ignored'
      PROVE  Accounted(s)'
  <2>1. failed' = 0 /\ failed = 0 /\ Walked
    BY <1>2, NAssumption DEF Done, TypeOK, Steps
  <2>2. CASE s = at
    BY <1>2, <2>1, <2>2, NAssumption DEF TypeOK, Steps
  <2>3. CASE s # at
    <3>1. s < at
      BY <1>2, <2>1, <2>3, NAssumption DEF Done, Walked, TypeOK, Steps
    <3>2. Accounted(s)
      BY <1>2, <2>1, <3>1 DEF Done
    <3> QED BY <3>2 DEF Accounted
  <2> QED BY <2>2, <2>3
<1> QED BY <1>1, <1>2 DEF Runs

(* Every step keeps account of the changes that may be missing.            *)
LEMMA HonestStep ==
  ASSUME TypeOK, OnceInv, RunnerInv, HonestInv, [Next]_vars
  PROVE  HonestInv'
<1> USE DEF config, peer, guard, request, report, runner, world
<1>0. at \in Steps /\ Steps \subseteq Nat /\ 0 \notin Steps
  BY NAssumption DEF TypeOK, Steps
<1>1. CASE Begin
  BY <1>1 DEF Begin, HonestInv, Accounted, Done
<1>2. CASE AwaitEnds
  BY <1>2 DEF AwaitEnds, HonestInv, Accounted, Done, RunnerInv
<1>a. ASSUME phase = "rollback", NEW ok, InverseEnds(ok), pc' = "boundary",
             UNCHANGED <<kind, editor, connected, late, unsaved, unknown, effect, disk>>
      PROVE  HonestInv'
  BY <1>a, StepIsUndone DEF HonestInv, Accounted, Done, RunnerInv, Runs
<1>3. CASE RunStands
  <2>0. pc' = "boundary" /\ UNCHANGED <<kind, editor, connected, late, unsaved, unknown, effect, disk>>
    BY <1>3 DEF RunStands
  <2>1. CASE phase = "rollback"
    BY <1>3, <1>a, <2>0, <2>1 DEF RunStands
  <2>2. CASE phase = "task" /\ call = "ok"
    <3>1. Completes(Inverse(at), NotSaved(at))
      BY <1>3, <2>2 DEF RunStands
    <3>2. /\ unsafe' = unsafe \cup NotSaved(at) /\ UNCHANGED <<ignored, failed>> /\ Walked
      BY <3>1, StepCompletes
    <3>3. kind[at] = "edit" => connected
      BY <1>3, <2>2 DEF RunnerInv, RunStands, Runs, NeedsEditor
    <3>4. ASSUME NEW s \in Steps, s = at, kind[s] = "edit"
          PROVE  Accounted(s)'
      <4>1. /\ <<"task", s>> \notin late
            /\ effect[s] \/ (~disk[s] /\ editor = "dead" /\ connected)
        BY <1>3, <2>2, <3>4 DEF HonestInv, RunStands, Runs
      <4>2. ~disk[s] => s \in unsafe'
        BY <3>2, <3>4 DEF NotSaved
      <4> QED BY <2>0, <4>1, <4>2 DEF Accounted
    <3>5. connected \/ unsafe' = unsafe
      BY <3>2, <3>3 DEF NotSaved
    <3>6. failed' = 0
      BY <2>2, <3>2 DEF RunnerInv
    <3> QED BY <2>0, <2>2, <3>2, <3>4, <3>5, <3>6, HonestWalk
  <2>3. CASE phase = "task" /\ call # "ok"
    <3>1. PICK i \in SUBSET Steps : Fails(i)
      BY <1>3, <2>3 DEF RunStands, TypeOK
    <3>2. /\ unsafe' = unsafe /\ ignored \subseteq ignored'
          /\ failed' = at \/ (failed' = failed /\ Walked /\ at \in ignored')
      BY <3>1, StepFails
    <3> QED BY <2>0, <2>3, <3>2, HonestWalk DEF RunnerInv
  <2>4. phase # "ended"
    BY <1>3 DEF RunStands, RunnerInv
  <2> QED BY <2>1, <2>2, <2>3, <2>4 DEF TypeOK
<1>4. CASE RunIsLost
  BY <1>4 DEF RunIsLost, HonestInv, Accounted, Done, Runs
<1>5. CASE EditorIsBack
  <2>1. CASE RunsAgain
    BY <1>5, <2>1 DEF EditorIsBack, HonestInv, Accounted, Done
  <2>2. CASE ~RunsAgain
    <3>0. /\ pc' = "boundary" /\ UNCHANGED <<kind, editor, connected, late, unsaved, effect, disk>>
          /\ unknown' = unknown \cup {at} /\ connected
      BY <1>5, <2>2 DEF EditorIsBack
    <3>1. phase = "task"
      BY <1>5, <2>2 DEF EditorIsBack, RunsAgain, RunnerInv, TypeOK
    <3>2. CASE policy = "resume"
      <4>1. PICK n : Completes({}, n)
        BY <1>5, <2>2, <3>2 DEF EditorIsBack
      <4>2. unsafe \subseteq unsafe' /\ UNCHANGED <<ignored, failed>> /\ Walked
        BY <4>1, StepCompletes
      <4> QED BY <3>0, <3>1, <4>2, HonestWalk DEF RunnerInv
    <3>3. CASE policy # "resume"
      <4>1. Fails({})
        BY <1>5, <2>2, <3>3 DEF EditorIsBack
      <4>2. /\ unsafe' = unsafe /\ ignored \subseteq ignored'
            /\ failed' = at \/ (failed' = failed /\ Walked)
        BY <4>1, StepFails
      <4> QED BY <3>0, <3>1, <4>2, HonestWalk DEF RunnerInv
    <3> QED BY <3>2, <3>3
  <2> QED BY <2>1, <2>2
<1>6. CASE BackRunsOut
  <2>0. pc' = "boundary" /\ UNCHANGED <<kind, editor, connected, late, unsaved, effect, disk>>
    BY <1>6 DEF BackRunsOut
  <2>1. CASE phase = "rollback"
    BY <1>6, <1>a, <2>0, <2>1 DEF BackRunsOut
  <2>2. CASE phase = "task"
    <3>1. Fails({}) /\ unknown' = unknown \cup {at}
      BY <1>6, <2>2 DEF BackRunsOut
    <3>2. /\ unsafe' = unsafe /\ ignored \subseteq ignored'
          /\ failed' = at \/ (failed' = failed /\ Walked)
      BY <3>1, StepFails
    <3> QED BY <2>0, <2>2, <3>1, <3>2, HonestWalk DEF RunnerInv
  <2>3. phase # "ended"
    BY <1>6 DEF BackRunsOut, RunnerInv
  <2> QED BY <2>1, <2>2, <2>3 DEF TypeOK
<1>7. CASE AgainReturns
  <2>0. pc' = "boundary" /\ UNCHANGED <<kind, editor, connected, late, unsaved, unknown, effect, disk>>
    BY <1>7 DEF AgainReturns
  <2>1. CASE phase = "rollback"
    BY <1>7, <1>a, <2>0, <2>1 DEF AgainReturns
  <2>2. CASE phase = "task" /\ call = "ok"
    <3>1. Completes({}, {}) /\ kind[at] = "read"
      BY <1>7, <2>2 DEF AgainReturns, OnceInv
    <3>2. unsafe' = unsafe /\ UNCHANGED <<ignored, failed>> /\ Walked
      BY <3>1, StepCompletes
    <3> QED BY <2>0, <2>2, <3>1, <3>2, HonestWalk DEF RunnerInv
  <2>3. CASE phase = "task" /\ call # "ok"
    <3>1. Fails({})
      BY <1>7, <2>3 DEF AgainReturns
    <3>2. /\ unsafe' = unsafe /\ ignored \subseteq ignored'
          /\ failed' = at \/ (failed' = failed /\ Walked /\ at \in ignored')
      BY <3>1, StepFails
    <3> QED BY <2>0, <2>3, <3>2, HonestWalk DEF RunnerInv
  <2>4. phase # "ended"
    BY <1>7 DEF AgainReturns, RunnerInv
  <2> QED BY <2>1, <2>2, <2>3, <2>4 DEF TypeOK
<1>8. CASE LocalRuns
  BY <1>8 DEF LocalRuns, NeedsEditor, HonestInv, Accounted, Done
<1>9. CASE Send
  BY <1>9 DEF Send, HonestInv, Accounted, Done
<1>10. CASE TimesOut
  BY <1>0, <1>10 DEF TimesOut, HonestInv, Accounted, Done, RunnerInv, Runs
<1>11. CASE Answer
  <2>0. /\ Runs /\ call = "sent" /\ phase \in {"task", "rollback"}
        /\ call' \in Outcomes(phase, at) /\ Executes(phase, at, call')
        /\ UNCHANGED <<kind, editor, connected, pc, phase, at, late, unsaved, unknown, ignored,
                       failed, unsafe>>
    BY <1>11 DEF Answer, RunnerInv, Runs, TypeOK
  <2>1. CASE phase = "rollback"
    BY <2>0, <2>1 DEF HonestInv, Accounted, Done, RunnerInv
  <2>2. CASE phase = "task"
    <3>1. \A t \in Steps : t # at => effect'[t] = effect[t] /\ disk'[t] = disk[t]
      BY <1>0, <2>0, Execution
    <3>2. kind[at] = "edit" /\ call' = "ok" => effect'[at]
      BY <1>0, <2>0, <2>2, Execution
    <3>3. kind[at] = "edit" => <<"task", at>> \notin late
      <4>1. kind[at] = "edit" => pc = "run"
        BY <2>0, <2>2 DEF OnceInv, Runs
      <4>2. pc = "run" => runs[at] + (IF <<"task", at>> \in late THEN 1 ELSE 0) = 0
        BY <2>0, <2>2 DEF OnceInv, Spent, Pending
      <4>3. runs[at] \in Nat
        BY <1>0 DEF TypeOK
      <4> QED BY <4>1, <4>2, <4>3
    <3>4. \A s \in Steps : Done(s)' => Done(s) /\ s # at
      BY <1>0, <2>0, <2>2 DEF Done
    <3>5. \A s \in Steps : s # at /\ Accounted(s) => Accounted(s)'
      BY <2>0, <3>1 DEF Accounted
    <3> QED BY <2>0, <2>2, <3>2, <3>3, <3>4, <3>5 DEF HonestInv
  <2> QED BY <2>0, <2>1, <2>2
<1>12. CASE AnswerLate
  <2>1. PICK l \in late : /\ late' = late \ {l}
                          /\ \E o \in Outcomes(l[1], l[2]) : Executes(l[1], l[2], o)
    BY <1>12 DEF AnswerLate
  <2>2. l[1] \in {"task", "rollback"} /\ l[2] \in Steps /\ l = <<l[1], l[2]>>
    BY <2>1 DEF TypeOK
  <2>3. \A t \in Steps : t # l[2] => effect'[t] = effect[t] /\ disk'[t] = disk[t]
    BY <2>1, <2>2, Execution
  <2>4. UNCHANGED <<kind, editor, connected, pc, call, phase, at, unsaved, unknown, ignored,
                    failed, unsafe>>
    BY <1>12 DEF AnswerLate
  <2>5. failed = 0 => l[1] = "task"
    BY <2>1, <2>2 DEF RunnerInv
  <2>6. \A s \in Steps : failed = 0 /\ <<"task", s>> \notin late => s # l[2]
    BY <2>1, <2>2, <2>5
  <2>7. \A s \in Steps : failed = 0 /\ Accounted(s) => Accounted(s)'
    BY <2>1, <2>3, <2>4, <2>6 DEF Accounted
  <2>8. \A s \in Steps : Done(s)' <=> Done(s)
    BY <2>4 DEF Done
  <2>9. phase = "task" => failed = 0
    BY DEF RunnerInv
  <2> QED BY <1>0, <2>1, <2>3, <2>4, <2>6, <2>7, <2>8, <2>9 DEF HonestInv, Done, Runs
<1>13. CASE Drop
  <2>1. /\ phase # "ended" /\ unsaved' = unsafe
        /\ late' \in {late, late \cup {<<phase, at>>}}
        /\ Runs /\ call = "ok" => call' # "ok"
        /\ call' = "ok" => call = "ok"
        /\ UNCHANGED <<kind, editor, pc, phase, at, unsafe, unknown, ignored, failed, effect, disk>>
    BY <1>13 DEF Drop
  <2>2. \A s \in Steps : Done(s)' => Done(s) /\ <<"task", s>> # <<phase, at>>
    BY <1>0, <2>1 DEF Done, RunnerInv
  <2>3. \A s \in Steps : <<"task", s>> # <<phase, at>> /\ unsaved \subseteq unsafe /\ Accounted(s)
          => Accounted(s)'
    BY <2>1 DEF Accounted
  <2> QED BY <2>1, <2>2, <2>3 DEF HonestInv, Runs
<1>14. CASE Crash
  <2>1. /\ effect' = disk /\ editor' = "dead" /\ late' = {}
        /\ UNCHANGED <<kind, connected, pc, call, phase, at, unsaved, unsafe, unknown, ignored,
                       failed, disk>>
    BY <1>14 DEF Crash
  <2>2. \A s \in Steps : Done(s)' <=> Done(s)
    BY <2>1 DEF Done
  <2>3. \A s \in Steps : Accounted(s) /\ s \notin unknown /\ HonestInv => Accounted(s)'
    BY <2>1 DEF Accounted, HonestInv
  <2>4. phase = "task" /\ Runs /\ call = "ok" /\ kind[at] = "edit" => connected
    BY DEF RunnerInv, NeedsEditor
  <2> QED BY <1>0, <2>1, <2>2, <2>3, <2>4 DEF HonestInv, Runs
<1>15. CASE Return
  BY <1>15 DEF Return, HonestInv, Accounted, Done, RunnerInv, NeedsEditor, Runs
<1>16. CASE UNCHANGED vars
  BY <1>16 DEF vars, HonestInv, Accounted, Done, Runs
<1> QED BY <1>1, <1>2, <1>3, <1>4, <1>5, <1>6, <1>7, <1>8, <1>9, <1>10, <1>11,
           <1>12, <1>13, <1>14, <1>15, <1>16 DEF Next, Run, Editor

-----------------------------------------------------------------------------
(* What a failed run leaves behind.                                        *)

(* A step is left behind, or it stopped the run.                           *)
LEMMA UndoWalk ==
  ASSUME TypeOK, RunnerInv, UndoInv, phase = "task", pc' = "boundary",
         UNCHANGED <<kind, armed, late, effect, forgotten, undoFailed>>, at' \in Steps,
         unknown \subseteq unknown', ignored \subseteq ignored', records \subseteq records',
         \/ failed' = at /\ Stopped
         \/ /\ failed' = 0 /\ Walked
            /\ \A s \in Steps : s = at /\ kind[s] = "edit"
                  => \/ s \in unknown' \cup ignored'
                     \/ <<"task", s>> \notin late /\ s \in records'
  PROVE  UndoInv'
<1>0. at \in Steps /\ Steps \subseteq Nat /\ 0 \notin Steps /\ failed = 0
  BY NAssumption DEF TypeOK, Steps, RunnerInv
<1>1. ~Runs'
  BY DEF Runs
<1>2. ASSUME NEW s \in Steps, kind[s] = "edit"
      PROVE  /\ <<"task", s>> \in late' => Excused(s)' \/ (phase' = "task" /\ s = at')
             /\ effect'[s] => s \in records' \/ Excused(s)' \/ (phase' = "task" /\ s = at')
  <2>1. s # at => /\ <<"task", s>> \in late => s \in unknown \cup ignored \cup forgotten
                  /\ effect[s] => s \in records \/ s \in unknown \cup ignored \cup forgotten
    BY <1>0, <1>2 DEF UndoInv, Excused
  <2> QED BY <1>2, <2>1 DEF Excused
<1>3. ASSUME NEW s \in Steps, s \in records',
             \/ phase' = "rollback" /\ s > at'
             \/ phase' = "ended" /\ failed' # 0 /\ armed'
      PROVE  FALSE
  <2>1. failed' # 0
    BY <1>0, <1>3 DEF Walked
  <2>2. Stopped
    BY <2>1
  <2>3. phase' = "rollback" => s <= at'
    BY <1>3, <2>2 DEF Stopped
  <2>4. phase' = "ended" => ~armed
    BY <1>3, <2>2 DEF Stopped
  <2>5. s \in Nat /\ at' \in Nat
    BY <1>0
  <2> QED BY <1>3, <2>3, <2>4, <2>5
<1> QED BY <1>1, <1>2, <1>3 DEF UndoInv

(* An inverse was replayed: the step it undoes has no change left, or the  *)
(* report names it.                                                        *)
LEMMA UndoReplay ==
  ASSUME TypeOK, UndoInv, phase = "rollback", NEW ok, InverseEnds(ok), pc' = "boundary",
         UNCHANGED <<kind, armed, late, effect, forgotten, unknown>>,
         ok => \A s \in Steps : s = at /\ kind[s] = "edit" /\ effect[s] => Excused(s)
  PROVE  UndoInv'
<1>0. at \in Steps /\ at' \in Steps /\ Steps \subseteq Nat
  <2>1. at' \in Steps
    BY StepIsUndone
  <2>2. at \in Steps
    BY DEF TypeOK
  <2> QED BY <2>1, <2>2 DEF Steps
<1>1. /\ undoFailed' = undoFailed \cup (IF ok THEN {} ELSE {at})
      /\ UNCHANGED <<records, ignored, failed>>
      /\ phase' # "task"
  BY StepIsUndone
<1>2. \A s \in Steps : Excused(s)' <=> Excused(s)
  BY <1>1 DEF Excused
<1>3. ASSUME NEW s \in Steps, s \in records, phase' = "rollback" => s > at'
      PROVE  s = at \/ s > at
  <2>1. s < at => phase' = "rollback" /\ s <= at'
    BY <1>3, StepIsUndone
  <2> QED BY <1>0, <1>3, <2>1
<1>4. ASSUME NEW s \in Steps, kind[s] = "edit", s \in records, effect[s], s = at \/ s > at
      PROVE  Excused(s) \/ s \in undoFailed'
  <2>1. CASE s = at
    BY <1>1, <1>4, <2>1
  <2>2. CASE s > at
    BY <1>1, <1>4, <2>2 DEF UndoInv
  <2> QED BY <1>4, <2>1, <2>2
<1>5. ~Runs'
  BY DEF Runs
<1>6. ASSUME NEW s \in Steps, kind[s] = "edit"
      PROVE  /\ <<"task", s>> \in late => Excused(s)
             /\ effect[s] => s \in records \/ Excused(s)
  BY <1>6 DEF UndoInv
<1>7. ASSUME NEW s \in Steps, kind[s] = "edit", s \in records, effect[s],
             \/ phase' = "rollback" /\ s > at'
             \/ phase' = "ended"
      PROVE  Excused(s) \/ s \in undoFailed'
  BY <1>3, <1>4, <1>7
<1> QED BY <1>1, <1>2, <1>5, <1>6, <1>7 DEF UndoInv

(* Every step keeps account of the changes that are still to be undone.    *)
LEMMA UndoStep ==
  ASSUME TypeOK, OnceInv, RunnerInv, HonestInv, UndoInv, [Next]_vars
  PROVE  UndoInv'
<1> USE DEF config, peer, guard, request, report, runner, world
<1>0. /\ at \in Steps /\ at' \in Steps /\ Steps \subseteq Nat /\ 0 \notin Steps
      /\ phase = "task" => failed = 0
  <2>1. TypeOK'
    BY TypeStep
  <2>2. at \in Steps /\ at' \in Steps
    BY <2>1 DEF TypeOK
  <2>3. Steps \subseteq Nat /\ 0 \notin Steps
    BY NAssumption DEF Steps
  <2>4. phase = "task" => failed = 0
    BY DEF RunnerInv
  <2> QED BY <2>2, <2>3, <2>4
<1>a. /\ phase \in {"task", "rollback", "ended"}
      /\ Runs \/ pc = "back" => phase # "ended"
  BY DEF TypeOK, RunnerInv, Runs
<1>1. CASE Begin
  BY <1>1 DEF Begin, UndoInv, Excused, Runs
<1>2. CASE AwaitEnds
  BY <1>2 DEF AwaitEnds, UndoInv, Excused, Runs, RunnerInv
<1>3. CASE RunStands
  <2>0. /\ pc = "run" /\ Runs /\ pc' = "boundary"
        /\ UNCHANGED <<kind, armed, late, effect, forgotten, unknown>>
    BY <1>3 DEF RunStands, Runs
  <2>1. CASE phase = "rollback"
    <3>1. InverseEnds(call = "ok")
      BY <1>3, <2>1 DEF RunStands
    <3>2. call = "ok" => \A s \in Steps : s = at /\ kind[s] = "edit" /\ effect[s] => Excused(s)
      BY <2>0, <2>1 DEF UndoInv
    <3> QED BY <2>0, <2>1, <3>1, <3>2, UndoReplay
  <2>2. CASE phase = "task" /\ call = "ok"
    <3>1. Completes(Inverse(at), NotSaved(at))
      BY <1>3, <2>2 DEF RunStands
    <3>2. records' = records \cup Inverse(at) /\ UNCHANGED <<ignored, failed, undoFailed>> /\ Walked
      BY <3>1, StepCompletes
    <3>3. \A s \in Steps : s = at /\ kind[s] = "edit" => <<"task", s>> \notin late /\ s \in records'
      BY <2>0, <2>2, <3>2 DEF HonestInv, Inverse
    <3> QED BY <1>0, <2>0, <2>2, <3>2, <3>3, UndoWalk
  <2>3. CASE phase = "task" /\ call # "ok"
    <3>1. PICK i \in SUBSET Steps : Fails(i)
      BY <1>3, <2>3 DEF RunStands, TypeOK
    <3>2. /\ records \subseteq records' /\ ignored \subseteq ignored' /\ undoFailed' = undoFailed
          /\ \/ failed' = at /\ Stopped
             \/ failed' = failed /\ Walked /\ at \in ignored'
      BY <3>1, StepFails
    <3> QED BY <1>0, <2>0, <2>3, <3>2, UndoWalk
  <2> QED BY <1>a, <2>0, <2>1, <2>2, <2>3
<1>4. CASE RunIsLost
  BY <1>4 DEF RunIsLost, UndoInv, Excused, Runs
<1>5. CASE EditorIsBack
  <2>1. CASE RunsAgain
    BY <1>5, <2>1 DEF EditorIsBack, UndoInv, Excused, Runs
  <2>2. CASE ~RunsAgain
    <3>0. /\ pc = "back" /\ pc' = "boundary" /\ phase = "task"
          /\ UNCHANGED <<kind, armed, late, effect, forgotten>>
          /\ unknown' = unknown \cup {at}
      BY <1>5, <1>a, <2>2 DEF EditorIsBack, RunsAgain
    <3>2. CASE policy = "resume"
      <4>1. PICK n : Completes({}, n)
        BY <1>5, <2>2, <3>2 DEF EditorIsBack
      <4>2. records' = records /\ UNCHANGED <<ignored, failed, undoFailed>> /\ Walked
        BY <4>1, StepCompletes
      <4> QED BY <1>0, <3>0, <4>2, UndoWalk
    <3>3. CASE policy # "resume"
      <4>1. Fails({})
        BY <1>5, <2>2, <3>3 DEF EditorIsBack
      <4>2. /\ records' = records /\ ignored \subseteq ignored' /\ undoFailed' = undoFailed
            /\ (failed' = at /\ Stopped) \/ (failed' = failed /\ Walked)
        BY <4>1, StepFails
      <4> QED BY <1>0, <3>0, <4>2, UndoWalk
    <3> QED BY <3>2, <3>3
  <2> QED BY <2>1, <2>2
<1>6. CASE BackRunsOut
  <2>0. pc = "back" /\ pc' = "boundary" /\ UNCHANGED <<kind, armed, late, effect, forgotten>>
    BY <1>6 DEF BackRunsOut
  <2>1. CASE phase = "rollback"
    BY <1>6, <2>0, <2>1, UndoReplay DEF BackRunsOut
  <2>2. CASE phase = "task"
    <3>1. Fails({}) /\ unknown' = unknown \cup {at}
      BY <1>6, <2>2 DEF BackRunsOut
    <3>2. /\ records' = records /\ ignored \subseteq ignored' /\ undoFailed' = undoFailed
          /\ (failed' = at /\ Stopped) \/ (failed' = failed /\ Walked)
      BY <3>1, StepFails
    <3> QED BY <1>0, <2>0, <2>2, <3>1, <3>2, UndoWalk
  <2> QED BY <1>a, <2>0, <2>1, <2>2
<1>7. CASE AgainReturns
  <2>0. /\ Runs /\ pc' = "boundary" /\ UNCHANGED <<kind, armed, late, effect, forgotten, unknown>>
        /\ phase = "task" => kind[at] = "read"
    BY <1>7 DEF AgainReturns, Runs, OnceInv
  <2>1. CASE phase = "rollback"
    <3>1. InverseEnds(call = "ok")
      BY <1>7, <2>1 DEF AgainReturns
    <3>2. call = "ok" => \A s \in Steps : s = at /\ kind[s] = "edit" /\ effect[s] => Excused(s)
      BY <2>0, <2>1 DEF UndoInv
    <3> QED BY <2>0, <2>1, <3>1, <3>2, UndoReplay
  <2>2. CASE phase = "task" /\ call = "ok"
    <3>1. Completes({}, {})
      BY <1>7, <2>2 DEF AgainReturns
    <3>2. records' = records /\ UNCHANGED <<ignored, failed, undoFailed>> /\ Walked
      BY <3>1, StepCompletes
    <3> QED BY <1>0, <2>0, <2>2, <3>2, UndoWalk
  <2>3. CASE phase = "task" /\ call # "ok"
    <3>1. Fails({})
      BY <1>7, <2>3 DEF AgainReturns
    <3>2. /\ records' = records /\ ignored \subseteq ignored' /\ undoFailed' = undoFailed
          /\ (failed' = at /\ Stopped) \/ (failed' = failed /\ Walked)
      BY <3>1, StepFails
    <3> QED BY <1>0, <2>0, <2>3, <3>2, UndoWalk
  <2> QED BY <1>a, <2>0, <2>1, <2>2, <2>3
<1>8. CASE LocalRuns
  BY <1>8 DEF LocalRuns, NeedsEditor, UndoInv, Excused
<1>9. CASE Send
  BY <1>9 DEF Send, UndoInv, Excused
<1>10. CASE TimesOut
  <2>1. /\ late' = late \cup {<<phase, at>>} /\ call' = "rejected"
        /\ UNCHANGED <<kind, armed, phase, at, records, unknown, ignored, failed, undoFailed, effect,
                       forgotten>>
    BY <1>10 DEF TimesOut
  <2> QED BY <1>0, <2>1 DEF UndoInv, Excused
<1>11. CASE Answer
  <2>0. /\ Runs /\ phase \in {"task", "rollback"}
        /\ call' \in Outcomes(phase, at) /\ Executes(phase, at, call')
        /\ UNCHANGED <<kind, armed, pc, phase, at, late, records, unknown, ignored, failed,
                       undoFailed, forgotten>>
    BY <1>11, <1>a DEF Answer, Executes
  <2>1. \A s \in Steps : Excused(s)' <=> Excused(s)
    BY <2>0 DEF Excused
  <2>2. \A s \in Steps : s # at => effect'[s] = effect[s]
    BY <1>0, <2>0, Execution
  <2>3. CASE phase = "rollback"
    <3>1. effect'[at] => effect[at] /\ call' # "ok"
      BY <1>0, <2>0, <2>3, Execution
    <3>2. \A s \in Steps : effect'[s] => effect[s] /\ (s = at => call' # "ok")
      BY <2>2, <3>1
    <3> QED BY <2>0, <2>1, <2>3, <3>2 DEF UndoInv
  <2>4. CASE phase = "task"
    BY <1>0, <2>0, <2>1, <2>2, <2>4 DEF UndoInv
  <2> QED BY <2>0, <2>3, <2>4
<1>12. CASE AnswerLate
  <2>1. PICK l \in late : /\ late' = late \ {l}
                          /\ \E o \in Outcomes(l[1], l[2]) : Executes(l[1], l[2], o)
    BY <1>12 DEF AnswerLate
  <2>2. l[1] \in {"task", "rollback"} /\ l[2] \in Steps /\ l = <<l[1], l[2]>>
    BY <2>1 DEF TypeOK
  <2>3. /\ \A s \in Steps : s # l[2] => effect'[s] = effect[s]
        /\ l[1] = "rollback" => (effect'[l[2]] => effect[l[2]])
    BY <2>1, <2>2, Execution
  <2>4. UNCHANGED <<kind, armed, pc, call, phase, at, records, unknown, ignored, failed,
                    undoFailed, forgotten>>
    BY <1>12, <2>1 DEF AnswerLate, Executes
  <2>5. \A s \in Steps : (Excused(s)' <=> Excused(s)) /\ (<<"task", s>> \in late' => <<"task", s>> \in late)
    BY <2>1, <2>4 DEF Excused
  <2>6. ASSUME NEW s \in Steps, kind[s] = "edit", effect'[s]
        PROVE  effect[s] \/ Excused(s) \/ (phase = "task" /\ s = at)
    BY <2>1, <2>2, <2>3, <2>6 DEF UndoInv
  <2>7. \A s \in Steps : phase = "task" /\ s = at => phase # "rollback" /\ phase # "ended"
    OBVIOUS
  <2> QED BY <2>4, <2>5, <2>6, <2>7 DEF UndoInv, Runs
<1>13. CASE Drop
  <2>1. /\ late' \in {late, late \cup {<<phase, at>>}}
        /\ call' = "ok" => call = "ok"
        /\ UNCHANGED <<kind, armed, pc, phase, at, records, unknown, ignored, failed, undoFailed, effect,
                       forgotten>>
    BY <1>13 DEF Drop
  <2> QED BY <1>0, <2>1 DEF UndoInv, Excused, Runs
<1>14. CASE Crash
  <2>1. /\ \A s \in Steps : effect'[s] => effect[s] \/ s \in forgotten'
        /\ forgotten \subseteq forgotten' /\ late' = {}
        /\ UNCHANGED <<kind, armed, pc, call, phase, at, records, unknown, ignored, failed, undoFailed>>
    BY <1>14 DEF Crash
  <2> QED BY <1>0, <2>1 DEF UndoInv, Excused, Runs
<1>15. CASE Return
  BY <1>15 DEF Return, UndoInv, Excused, Runs
<1>16. CASE UNCHANGED vars
  BY <1>16 DEF vars, UndoInv, Excused, Runs
<1> QED BY <1>1, <1>2, <1>3, <1>4, <1>5, <1>6, <1>7, <1>8, <1>9, <1>10, <1>11,
           <1>12, <1>13, <1>14, <1>15, <1>16 DEF Next, Run, Editor

-----------------------------------------------------------------------------
(* How long a run can be.                                                  *)

(* What is left of guardedRun, at most, before the step or inverse is over. *)
RequestRank == IF call = "unsent" THEN 2 ELSE IF call = "sent" THEN 1 ELSE 0

PcRank ==
  IF Runs THEN RequestRank + (IF pc = "run" THEN 5 ELSE 1)
  ELSE IF pc = "back" THEN 4 ELSE IF pc = "await" THEN 8 ELSE 9

(* The steps that are left, this one included, and all the inverses after  *)
(* them; or the inverses that are left.                                    *)
Stage == IF phase = "task" THEN 2 * N + 1 - at ELSE at

Rank == IF phase = "ended" THEN 0 ELSE 10 * Stage + PcRank

(* Each step of the run brings its end nearer, and nothing that becomes of *)
(* the editor, no loss and no return of it, puts the end off again.        *)
RunsDown == Rank' <= Rank /\ (Run => Rank' < Rank)

RankOK ==
  /\ PcRank \in Nat /\ 1 <= PcRank /\ PcRank <= 9
  /\ Stage \in Nat /\ 1 <= Stage /\ Stage <= 2 * N
  /\ Rank \in Nat /\ Rank <= 20 * N + 9

(* The ranks are what their names say.                                     *)
LEMMA RankInRange == TypeOK => RankOK
<1> SUFFICES ASSUME TypeOK PROVE RankOK
  OBVIOUS
<1>1. PcRank \in Nat /\ 1 <= PcRank /\ PcRank <= 9
  BY DEF TypeOK, PcRank, RequestRank, Runs
<1>2. Stage \in Nat /\ 1 <= Stage /\ Stage <= 2 * N
  BY NAssumption DEF TypeOK, Stage, Steps
<1> QED BY <1>1, <1>2, NAssumption DEF Rank, RankOK

(* And those of the next state.                                            *)
LEMMA NextRankInRange == TypeOK' => RankOK'
BY RankInRange, PTL

(* A rank falls with its stage, and within a stage with guardedRun.        *)
LEMMA RanksDescend ==
  ASSUME NEW s \in Nat, NEW t \in Nat, NEW p \in Nat, NEW q \in Nat, 1 <= p, q <= 9
  PROVE  /\ t < s => 10 * t + q < 10 * s + p
         /\ q < p => 10 * s + q < 10 * s + p
         /\ 1 <= s => 0 < 10 * s + p
OBVIOUS

(* A step or inverse that is over leaves a stage behind it.                *)
LEMMA StageEnds ==
  ASSUME TypeOK, TypeOK', phase # "ended", phase' = "ended" \/ Stage' < Stage
  PROVE  Rank' < Rank
<1>1. RankOK /\ RankOK'
  BY RankInRange, NextRankInRange
<1>2. 0 < 10 * Stage + PcRank /\ (Stage' < Stage => 10 * Stage' + PcRank' < 10 * Stage + PcRank)
  BY <1>1, RanksDescend DEF RankOK
<1>3. Rank = 10 * Stage + PcRank /\ Rank' = IF phase' = "ended" THEN 0 ELSE 10 * Stage' + PcRank'
  BY DEF Rank
<1> QED BY <1>2, <1>3

(* The numbers of the stages: a step that comes later, or any inverse, is  *)
(* nearer to the end.                                                      *)
LEMMA StagesDescend ==
  ASSUME NEW n \in Nat, NEW a \in Nat, a <= n
  PROVE  /\ 2 * n + 1 - (a + 1) < 2 * n + 1 - a
         /\ \A b \in Nat : b <= n => b < 2 * n + 1 - a
OBVIOUS

(* Walking on, stopping and replaying all leave a stage behind.            *)
LEMMA StagePasses ==
  ASSUME TypeOK, TypeOK',
         \/ phase = "task" /\ Walked
         \/ phase = "task" /\ Stopped
         \/ phase = "rollback" /\ phase' \in {phase, "ended"} /\ (phase' = phase => at' < at)
  PROVE  Rank' < Rank
<1>1. at \in Nat /\ at' \in Nat /\ at' <= N /\ at <= N /\ N \in Nat
  BY NAssumption DEF TypeOK, Steps
<1>2. /\ Stage = IF phase = "task" THEN 2 * N + 1 - at ELSE at
      /\ Stage' = IF phase' = "task" THEN 2 * N + 1 - at' ELSE at'
  BY DEF Stage
<1>3. phase # "ended" /\ (phase' = "ended" \/ Stage' < Stage)
  BY <1>1, <1>2, StagesDescend DEF Walked, Stopped
<1> QED BY <1>3, StageEnds

(* Within a stage the guard only moves on.                                 *)
LEMMA StageGoesOn ==
  ASSUME TypeOK, TypeOK', phase # "ended", UNCHANGED <<phase, at>>
  PROVE  /\ PcRank' < PcRank => Rank' < Rank
         /\ PcRank' = PcRank => Rank' = Rank
<1>1. Stage' = Stage
  BY DEF Stage
<1>2. RankOK /\ RankOK'
  BY RankInRange, NextRankInRange
<1>3. PcRank' < PcRank => 10 * Stage + PcRank' < 10 * Stage + PcRank
  BY <1>2, RanksDescend DEF RankOK
<1>4. Rank = 10 * Stage + PcRank /\ Rank' = 10 * Stage' + PcRank'
  BY DEF Rank
<1> QED BY <1>1, <1>3, <1>4

(* Each step of the run brings its end nearer.                             *)
LEMMA RunFalls == ASSUME TypeOK, RunnerInv, TypeOK', Run PROVE Rank' < Rank
<1> USE DEF config, peer, guard, request, report, runner, world
<1>a. Runs \/ pc \in {"back", "await"} => phase \in {"task", "rollback"}
  BY DEF TypeOK, RunnerInv, Runs
<1>b. UNCHANGED <<phase, at>> /\ phase # "ended" /\ PcRank' < PcRank => Rank' < Rank
  BY StageGoesOn
<1>1. CASE Begin
  <2>1. PcRank' < PcRank
    BY <1>1 DEF Begin, PcRank, RequestRank, Runs
  <2> QED BY <1>1, <1>b, <2>1 DEF Begin
<1>2. CASE AwaitEnds
  <2>1. PcRank' < PcRank
    BY <1>2 DEF AwaitEnds, PcRank, RequestRank, Runs, RunnerInv
  <2> QED BY <1>2, <1>a, <1>b, <2>1 DEF AwaitEnds
<1>3. CASE RunStands
  <2>1. CASE phase = "rollback"
    BY <1>3, <2>1, StepIsUndone, StagePasses DEF RunStands
  <2>2. CASE phase # "rollback" /\ call = "ok"
    <3>1. PICK i, n : Completes(i, n)
      BY <1>3, <2>2 DEF RunStands
    <3> QED BY <1>3, <1>a, <2>2, <3>1, StepCompletes, StagePasses DEF RunStands, Runs
  <2>3. CASE phase # "rollback" /\ call # "ok"
    <3>1. PICK i \in SUBSET Steps : Fails(i)
      BY <1>3, <2>3 DEF RunStands, TypeOK
    <3> QED BY <1>3, <1>a, <2>3, <3>1, StepFails, StagePasses DEF RunStands, Runs
  <2> QED BY <2>1, <2>2, <2>3
<1>4. CASE RunIsLost
  <2>1. PcRank' < PcRank
    BY <1>4 DEF RunIsLost, PcRank, RequestRank, Runs, Settled
  <2> QED BY <1>4, <1>a, <1>b, <2>1 DEF RunIsLost, Runs
<1>5. CASE EditorIsBack
  <2>1. CASE RunsAgain
    <3>1. PcRank' < PcRank
      BY <1>5, <2>1 DEF EditorIsBack, PcRank, RequestRank, Runs
    <3> QED BY <1>5, <1>a, <1>b, <2>1, <3>1 DEF EditorIsBack
  <2>2. CASE ~RunsAgain /\ policy = "resume"
    <3>1. PICK n : Completes({}, n)
      BY <1>5, <2>2 DEF EditorIsBack
    <3> QED BY <1>5, <1>a, <2>2, <3>1, StepCompletes, StagePasses DEF EditorIsBack, RunsAgain
  <2>3. CASE ~RunsAgain /\ policy # "resume"
    <3>1. Fails({})
      BY <1>5, <2>3 DEF EditorIsBack
    <3> QED BY <1>5, <1>a, <2>3, <3>1, StepFails, StagePasses DEF EditorIsBack, RunsAgain
  <2> QED BY <2>1, <2>2, <2>3
<1>6. CASE BackRunsOut
  <2>1. CASE phase = "rollback"
    BY <1>6, <2>1, StepIsUndone, StagePasses DEF BackRunsOut
  <2>2. CASE phase # "rollback"
    <3>1. Fails({})
      BY <1>6, <2>2 DEF BackRunsOut
    <3> QED BY <1>6, <1>a, <2>2, <3>1, StepFails, StagePasses DEF BackRunsOut
  <2> QED BY <2>1, <2>2
<1>7. CASE AgainReturns
  <2>1. CASE phase = "rollback"
    BY <1>7, <2>1, StepIsUndone, StagePasses DEF AgainReturns
  <2>2. CASE phase # "rollback" /\ call = "ok"
    <3>1. PICK i, n : Completes(i, n)
      BY <1>7, <2>2 DEF AgainReturns
    <3> QED BY <1>7, <1>a, <2>2, <3>1, StepCompletes, StagePasses DEF AgainReturns, Runs
  <2>3. CASE phase # "rollback" /\ call # "ok"
    <3>1. Fails({})
      BY <1>7, <2>3 DEF AgainReturns
    <3> QED BY <1>7, <1>a, <2>3, <3>1, StepFails, StagePasses DEF AgainReturns, Runs
  <2> QED BY <2>1, <2>2, <2>3
<1>8. CASE LocalRuns
  <2>1. PcRank' < PcRank
    BY <1>8 DEF LocalRuns, Runs, PcRank, RequestRank, Settled
  <2> QED BY <1>8, <1>a, <1>b, <2>1 DEF LocalRuns
<1>9. CASE Send
  <2>1. PcRank' < PcRank
    BY <1>9 DEF Send, Runs, PcRank, RequestRank, Settled
  <2> QED BY <1>9, <1>a, <1>b, <2>1 DEF Send
<1>10. CASE TimesOut
  <2>1. PcRank' < PcRank
    BY <1>10 DEF TimesOut, Runs, PcRank, RequestRank, Settled
  <2> QED BY <1>10, <1>a, <1>b, <2>1 DEF TimesOut
<1> QED BY <1>1, <1>2, <1>3, <1>4, <1>5, <1>6, <1>7, <1>8, <1>9, <1>10 DEF Run

(* What becomes of the editor, and of the requests it has, never puts the  *)
(* end off: it settles a request at most.                                  *)
LEMMA EditorFalls ==
  ASSUME TypeOK, RunnerInv, TypeOK', Editor \/ UNCHANGED vars
  PROVE  Rank' <= Rank
<1> USE DEF config, peer, guard, request, report, runner, world
<1>1. UNCHANGED <<phase, at, pc>>
  BY DEF Editor, Answer, AnswerLate, Drop, Crash, Return, vars
<1>2. call' = call \/ (Runs /\ Settled' /\ call # "unsent")
  BY DEF Editor, Answer, AnswerLate, Drop, Crash, Return, vars, Outcomes, Settled
<1>3. PcRank' < PcRank \/ PcRank' = PcRank
  <2>1. CASE call' = call
    BY <1>1, <2>1 DEF PcRank, RequestRank, Runs
  <2>2. CASE Runs /\ Settled' /\ call # "unsent"
    BY <1>1, <2>2 DEF TypeOK, Runs, PcRank, RequestRank, Settled
  <2> QED BY <1>2, <2>1, <2>2
<1>4. Rank' < Rank \/ Rank' = Rank
  <2>1. CASE phase = "ended"
    BY <1>1, <2>1 DEF Rank
  <2>2. CASE phase # "ended"
    BY <1>1, <1>3, <2>2, StageGoesOn
  <2> QED BY <2>1, <2>2
<1> QED BY <1>4, RankInRange, NextRankInRange DEF RankOK

-----------------------------------------------------------------------------
(* The snapshot.                                                           *)

(* What is restored is what read-tree takes; a failed run has tried.       *)
RestoreInv ==
  /\ restored => ReadTree(SnapshotPaths)
  /\ phase = "ended" /\ failed # 0 => (restored <=> ReadTree(SnapshotPaths))

(* Every end of a failed run comes by the restore.                         *)
LEMMA RestoreStep ==
  ASSUME TypeOK, RunnerInv, RestoreInv, [Next]_vars
  PROVE  RestoreInv'
<1> USE DEF config, peer, guard, request, report, runner, world
<1>a. /\ phase \in {"task", "rollback", "ended"}
      /\ Runs \/ pc = "back" => phase # "ended"
      /\ phase = "task" => failed = 0
  BY DEF TypeOK, RunnerInv, Runs
<1>b. ASSUME NEW i, NEW n, phase = "task", Completes(i, n) PROVE RestoreInv'
  BY <1>a, <1>b DEF Completes, WalksOn, Ends, RestoreInv
<1>c. ASSUME NEW i, phase = "task", Fails(i) PROVE RestoreInv'
  BY <1>a, <1>c DEF Fails, WalksOn, Ends, RestoreInv
<1>d. ASSUME NEW ok, phase = "rollback", InverseEnds(ok) PROVE RestoreInv'
  BY <1>a, <1>d DEF InverseEnds, Ends, RestoreInv
<1>1. CASE RunStands
  BY <1>1, <1>a, <1>b, <1>c, <1>d DEF RunStands, Runs
<1>2. CASE EditorIsBack
  <2>1. CASE RunsAgain
    BY <1>2, <2>1 DEF EditorIsBack, RestoreInv
  <2>2. CASE ~RunsAgain
    BY <1>2, <1>a, <1>b, <1>c, <2>2 DEF EditorIsBack, RunsAgain
  <2> QED BY <2>1, <2>2
<1>3. CASE BackRunsOut
  BY <1>3, <1>a, <1>c, <1>d DEF BackRunsOut
<1>4. CASE AgainReturns
  BY <1>4, <1>a, <1>b, <1>c, <1>d DEF AgainReturns, Runs
<1>5. CASE RunIsLost
  BY <1>5, <1>a DEF RunIsLost, Runs, RestoreInv
<1>6. CASE UNCHANGED <<phase, failed, restored>>
  BY <1>6 DEF RestoreInv
<1> QED BY <1>1, <1>2, <1>3, <1>4, <1>5, <1>6
        DEF Next, Run, Editor, vars, Begin, AwaitEnds, LocalRuns, Send, TimesOut, Answer,
            AnswerLate, Drop, Crash, Return

-----------------------------------------------------------------------------
(* The theorems.                                                           *)

(* The run starts in the invariant.                                        *)
LEMMA InvInit == ASSUME Init PROVE IInv
<1>1. TypeOK
  BY TypeInit
<1>2. OnceInv
  <2>1. \A s \in Steps : Spent(s) = 0 /\ Quota(s) \in {1, 2}
    BY DEF Init, Spent, Pending, Quota
  <2>2. at \in Steps /\ pc = "boundary"
    BY <1>1 DEF Init, TypeOK
  <2> HIDE DEF Spent, Quota
  <2> QED BY <2>1, <2>2 DEF OnceInv
<1>3. RunnerInv
  BY DEF Init, RunnerInv, Runs
<1>4. HonestInv
  BY DEF Init, HonestInv, Done, Steps, Runs
<1>5. UndoInv
  <2>1. \A s \in Steps : ~effect[s]
    BY Zenon DEF Init
  <2> QED BY <2>1 DEF Init, UndoInv, Runs
<1> QED BY <1>1, <1>2, <1>3, <1>4, <1>5 DEF IInv

(* Every step of the run stays in it.                                      *)
LEMMA InvStep == ASSUME IInv, [Next]_vars PROVE IInv'
BY TypeStep, OnceStep, RunnerStep, HonestStep, UndoStep DEF IInv

(* The invariant holds throughout.                                         *)
LEMMA IInvAlways == Spec => []IInv
BY InvInit, InvStep, PTL DEF Spec

(* Type correctness, for any flow and any number of losses: the runner     *)
(* stays within the steps of the flow, whatever it walks or replays.       *)
THEOREM TypeCorrect == Spec => []TypeOK
<1>1. IInv => TypeOK
  BY DEF IInv
<1> QED BY <1>1, IInvAlways, PTL

(* A step that changes something is executed once at most: what has been   *)
(* spent on it, executions and requests that are still out together, never *)
(* exceeds its quota (guardedRun repeats only what reads).                 *)
THEOREM EditsRunOnce == Spec => []EditRunsOnce
<1>1. IInv => EditRunsOnce
  <2> SUFFICES ASSUME IInv, NEW s \in Steps
               PROVE  runs[s] <= IF kind[s] = "read" THEN 2 ELSE 1
    BY DEF EditRunsOnce
  <2>1. runs[s] \in Nat
    BY DEF IInv, TypeOK
  <2>2. runs[s] + (IF <<"task", s>> \in late THEN 1 ELSE 0) <= IF kind[s] = "read" THEN 2 ELSE 1
    BY DEF IInv, OnceInv, Spent, Pending, Quota
  <2> QED BY <2>1, <2>2
<1> QED BY <1>1, IInvAlways, PTL

(* A run that reports success accounts for every change of every step.     *)
THEOREM SuccessHonest == Spec => []SuccessIsHonest
<1>1. IInv => SuccessIsHonest
  <2> SUFFICES ASSUME IInv, phase = "ended", failed = 0, editor = "up" \/ ~connected,
                      NEW s \in Steps, kind[s] = "edit"
               PROVE  effect[s] \/ s \in unsaved \cup unknown \cup ignored
    BY DEF SuccessIsHonest
  <2>1. Accounted(s) \/ s \in unknown \cup ignored
    BY DEF IInv, HonestInv, Done
  <2> QED BY <2>1 DEF Accounted
<1> QED BY <1>1, IInvAlways, PTL

(* A run that failed with rollback armed leaves no change behind that its  *)
(* report does not name, but for one that a crash brought back.            *)
THEOREM FailureHonest == Spec => []FailureIsHonest
<1>1. IInv => FailureIsHonest
  <2> SUFFICES ASSUME IInv, phase = "ended", failed # 0, armed,
                      NEW s \in Steps, kind[s] = "edit", effect[s]
               PROVE  s \in undoFailed \cup unknown \cup ignored \cup {failed} \cup forgotten
    BY DEF FailureIsHonest
  <2>1. s \in records \/ Excused(s)
    BY DEF IInv, UndoInv
  <2>2. s \in records => Excused(s) \/ s \in undoFailed
    BY DEF IInv, UndoInv
  <2> QED BY <2>1, <2>2 DEF Excused
<1> QED BY <1>1, IInvAlways, PTL

(* A run of N steps takes at most 20 N + 9 steps of its own, however often  *)
(* the editor goes away and comes back: each of them brings the end nearer  *)
(* and no loss starts anything over (what RunEnds rests on; that the run    *)
(* does take them is its fairness).                                        *)
THEOREM RunIsBounded ==
  Spec => [](Rank \in Nat /\ Rank <= 20 * N + 9) /\ [][RunsDown]_vars
<1>1. IInv => Rank \in Nat /\ Rank <= 20 * N + 9
  BY RankInRange DEF IInv, RankOK
<1>2. ASSUME IInv, [Next]_vars, IInv' PROVE [RunsDown]_vars
  <2>1. CASE Run
    <3>1. Rank' < Rank /\ Rank \in Nat /\ Rank' \in Nat
      BY <1>2, <2>1, RunFalls, RankInRange, NextRankInRange DEF IInv, RankOK
    <3> QED BY <3>1 DEF RunsDown
  <2>2. CASE ~Run /\ Editor
    BY <1>2, <2>2, EditorFalls DEF IInv, RunsDown
  <2>3. CASE UNCHANGED vars
    BY <2>3
  <2> QED BY <1>2, <2>1, <2>2, <2>3 DEF Next
<1> QED BY <1>1, <1>2, IInvAlways, PTL DEF Spec

(* A run that failed has its files restored exactly when its snapshot names *)
(* no path: every way to such an end comes by restoreSnapshot, whatever the *)
(* policy and wherever the editor was lost, and the call of git is in vain  *)
(* each time that there is something to restore.                            *)
THEOREM RestoredInVain ==
  Spec => [](phase = "ended" /\ failed # 0 => (restored <=> SnapshotPaths = {}))
<1>1. Init => RestoreInv
  BY DEF Init, RestoreInv
<1>2. RestoreInv => (phase = "ended" /\ failed # 0 => (restored <=> SnapshotPaths = {}))
  BY DEF RestoreInv, ReadTree
<1>3. IInv /\ RestoreInv /\ [Next]_vars => RestoreInv'
  BY RestoreStep DEF IInv
<1> QED BY <1>1, <1>2, <1>3, IInvAlways, PTL DEF Spec

=============================================================================
