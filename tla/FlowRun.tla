------------------------------- MODULE FlowRun -------------------------------
(***************************************************************************)
(* One run of a flow while the editor comes and goes: the guard that       *)
(* watches the connection (src/flow/editor-loss.ts), the run it is part of *)
(* (runFlow and the runner's hooks in src/flow/flow-tool.ts) and the git   *)
(* snapshot (src/flow/git-snapshot.ts). The runner itself is the flowkit   *)
(* library: steps in order, and inverses in reverse order after a failure. *)
(***************************************************************************)
EXTENDS Naturals

CONSTANTS N,             \* number of steps of the flow
          SnapshotPaths, \* the paths of the git snapshot
          MaxDrops       \* bound on the connections that are lost

ASSUME NAssumption == N \in Nat \ {0}
ASSUME MaxDropsAssumption == MaxDrops \in Nat

Steps == 1 .. N
Kinds == {"read", "edit", "local"}
Policies == {"resume", "rollback", "fail"}

VARIABLES
  policy,    \* on_editor_loss
  armed,     \* a failed run replays the inverses
  kind,      \* kind[s]: reads, edits with an inverse, or needs no editor
  tolerated, \* steps with ignore_failure
  editor,    \* the editor's process: "up" or "dead"
  connected, \* bridge.isConnected
  drops,     \* losses the guard was told of
  phase,     \* "task" (main steps), "rollback" (inverses) or "ended"
  at,        \* the step, or the step whose inverse, runs
  pc,        \* guardedRun: "boundary", "await" (an editor, before the step),
             \* "run", "back" (await the editor after a loss) or "again"
  before,    \* guardedRun's copy of drops
  call,      \* the task's request: "unsent", "sent", "ok", "failed",
             \* "partial" (failed, with an inverse), or "rejected"
  late,      \* <<phase, step>>: requests that may be executed though nobody
             \* awaits their answer
  records,   \* the inverses that were collected
  unsafe,    \* completed steps that answered that their change is not saved
  unsaved,   \* unsavedBeforeLoss of the report
  unknown,   \* steps with an event in the report: their outcome is unknown
  ignored,   \* tolerated steps that failed
  failed,    \* the step that stopped the run, or 0
  undoFailed,\* inverses that failed
  restored,  \* the snapshot's files were reset
  effect,    \* effect[s]: the step's change is in the editor
  disk,      \* disk[s]: it is in the saved files
  forgotten, \* history: steps that were undone in the memory of an editor that
             \* crashed, and not in the files
  runs       \* history: runs[s]: how often the step was executed

config == <<policy, armed, kind, tolerated>>
peer == <<editor, connected, drops>>
guard == <<pc, before>>
request == <<call, late>>
report == <<unsaved, unknown, ignored, failed, undoFailed>>
runner == <<phase, at, records, unsafe, restored>>
world == <<effect, disk, forgotten, runs>>
vars == <<config, peer, guard, request, report, runner, world>>

(* The shape of the state; the runner stays within the flow's steps.       *)
TypeOK ==
  /\ policy \in Policies
  /\ armed \in BOOLEAN
  /\ kind \in [Steps -> Kinds]
  /\ tolerated \subseteq Steps
  /\ editor \in {"up", "dead"}
  /\ connected \in BOOLEAN
  /\ drops \in 0 .. MaxDrops
  /\ phase \in {"task", "rollback", "ended"}
  /\ at \in Steps
  /\ pc \in {"boundary", "await", "run", "back", "again"}
  /\ before \in 0 .. MaxDrops
  /\ call \in {"unsent", "sent", "ok", "failed", "partial", "rejected"}
  /\ late \subseteq {"task", "rollback"} \X Steps
  /\ records \subseteq Steps
  /\ unsafe \subseteq Steps
  /\ unsaved \subseteq Steps
  /\ unknown \subseteq Steps
  /\ ignored \subseteq tolerated
  /\ failed \in 0 .. N
  /\ undoFailed \subseteq Steps
  /\ restored \in BOOLEAN
  /\ effect \in [Steps -> BOOLEAN]
  /\ disk \in [Steps -> BOOLEAN]
  /\ forgotten \subseteq Steps
  /\ runs \in [Steps -> Nat]

(* The flow, its policy, and whether rollback is armed: by the caller, or, *)
(* unless the caller says otherwise, by the policy.                        *)
Init ==
  /\ policy \in Policies
  /\ armed \in BOOLEAN
  /\ kind \in [Steps -> Kinds]
  /\ tolerated \in SUBSET Steps
  /\ connected \in BOOLEAN
  /\ editor = IF connected THEN "up" ELSE "dead"
  /\ drops = 0
  /\ phase = "task"
  /\ at = 1
  /\ pc = "boundary"
  /\ before = 0
  /\ call = "unsent"
  /\ late = {}
  /\ records = {}
  /\ unsafe = {}
  /\ unsaved = {}
  /\ unknown = {}
  /\ ignored = {}
  /\ failed = 0
  /\ undoFailed = {}
  /\ restored = FALSE
  /\ effect = [s \in Steps |-> FALSE]
  /\ disk = [s \in Steps |-> FALSE]
  /\ forgotten = {}
  /\ runs = [s \in Steps |-> 0]

(* An inverse goes through the bridge, whatever its step did.              *)
NeedsEditor == phase = "rollback" \/ kind[at] # "local"

-----------------------------------------------------------------------------
(* How a step, or an inverse, ends; what the runner does next.             *)

Largest(set) == CHOOSE s \in set : \A t \in set : t <= s

(* git read-tree takes trees. What stands behind "--" is taken for one     *)
(* more, is none, and the command fails before it resets anything.         *)
ReadTree(paths) == paths = {}

(* afterRun: a failed run restores its snapshot.                           *)
Ends(success) ==
  /\ phase' = "ended"
  /\ restored' = (restored \/ (~success /\ ReadTree(SnapshotPaths)))
  /\ UNCHANGED at

(* Mutant: one step too many.                                              *)
WalksTooFar ==
  IF at <= N THEN at' = at + 1 /\ UNCHANGED <<phase, restored>> ELSE Ends(TRUE)

WalksOn ==
  IF at < N THEN at' = at + 1 /\ UNCHANGED <<phase, restored>> ELSE Ends(TRUE)

(* The step succeeded; afterStep tells the guard.                          *)
Completes(inverse, notSaved) ==
  /\ records' = records \cup inverse
  /\ unsafe' = unsafe \cup notSaved
  /\ WalksOn
  /\ UNCHANGED <<ignored, failed, undoFailed>>

(* The step failed: the run walks on if that was tolerated, else it stops, *)
(* and the inverses are replayed if that is armed.                         *)
Fails(inverse) ==
  /\ records' = records \cup inverse
  /\ IF at \in tolerated
     THEN ignored' = ignored \cup {at} /\ WalksOn /\ UNCHANGED failed
     ELSE /\ failed' = at
          /\ IF armed /\ records' # {}
             THEN phase' = "rollback" /\ at' = Largest(records') /\ UNCHANGED restored
             ELSE Ends(FALSE)
          /\ UNCHANGED ignored
  /\ UNCHANGED <<unsafe, undoFailed>>

(* An inverse was replayed; the one collected before it is next.           *)
InverseEnds(ok) ==
  /\ undoFailed' = undoFailed \cup (IF ok THEN {} ELSE {at})
  /\ IF \E r \in records : r < at
     THEN at' = Largest({r \in records : r < at}) /\ UNCHANGED <<phase, restored>>
     ELSE Ends(FALSE)
  /\ UNCHANGED <<records, unsafe, ignored, failed>>

Inverse(s) == IF kind[s] = "edit" THEN {s} ELSE {}
NotSaved(s) == IF kind[s] = "edit" /\ ~disk[s] THEN {s} ELSE {}

-----------------------------------------------------------------------------
(* guardedRun.                                                             *)

(* The step boundary: an editor that dropped during this run is awaited.   *)
Begin ==
  /\ phase # "ended"
  /\ pc = "boundary"
  /\ IF NeedsEditor /\ drops > 0 /\ ~connected
     THEN pc' = "await" /\ UNCHANGED before
     ELSE pc' = "run" /\ before' = drops
  /\ call' = "unsent"
  /\ UNCHANGED <<config, peer, late, report, runner, world>>

(* Mutant: the step is not run without an editor.                          *)
AwaitNeedsEditor ==
  /\ pc = "await" /\ connected
  /\ pc' = "run"
  /\ before' = drops
  /\ UNCHANGED <<config, peer, request, report, runner, world>>

(* It is back, or its time is up: the step runs either way.                *)
AwaitEnds ==
  /\ pc = "await"
  /\ pc' = "run"
  /\ before' = drops
  /\ UNCHANGED <<config, peer, request, report, runner, world>>

Settled == call \in {"ok", "failed", "partial", "rejected"}

(* Failed while the editor dropped: the outcome is unknown.                *)
Lost == call # "ok" /\ drops # before /\ NeedsEditor

(* The result stands.                                                      *)
RunStands ==
  /\ pc = "run" /\ Settled /\ ~Lost
  /\ pc' = "boundary"
  /\ IF phase = "rollback" THEN InverseEnds(call = "ok")
     ELSE IF call = "ok" THEN Completes(Inverse(at), NotSaved(at))
     ELSE Fails(IF call = "partial" THEN {at} ELSE {})
  /\ UNCHANGED <<config, peer, before, request, unsaved, unknown, world>>

(* The editor is awaited. Under "rollback" the snapshot is restored before *)
(* that, unless the editor is back already.                                *)
RunIsLost ==
  /\ pc = "run" /\ Settled /\ Lost
  /\ pc' = "back"
  /\ restored' = (restored \/ (/\ phase = "task" /\ policy = "rollback"
                               /\ ~connected /\ ReadTree(SnapshotPaths)))
  /\ UNCHANGED <<config, peer, before, request, report, phase, at, records, unsafe, world>>

(* Mutant: whatever was lost is run again.                                 *)
RunsAgainAlways == TRUE

(* An inverse, and, as its own verification, a step that only reads.       *)
RunsAgain == phase = "rollback" \/ (policy = "resume" /\ kind[at] = "read")

EditorIsBack ==
  /\ pc = "back" /\ connected
  /\ IF RunsAgain
     THEN /\ pc' = "again"
          /\ call' = "unsent"
          /\ UNCHANGED <<report, runner>>
     ELSE /\ pc' = "boundary"
          /\ unknown' = unknown \cup {at}
          /\ IF policy = "resume"
             THEN Completes({}, IF call = "partial" THEN NotSaved(at) ELSE {})
             ELSE Fails({})
          /\ UNCHANGED <<call, unsaved>>
  /\ UNCHANGED <<config, peer, before, late, world>>

(* Mutant: an inverse that could not be repeated counts as replayed.       *)
BackCountsAsUndone ==
  /\ pc = "back" /\ ~connected
  /\ pc' = "boundary"
  /\ IF phase = "rollback"
     THEN InverseEnds(TRUE) /\ UNCHANGED unknown
     ELSE unknown' = unknown \cup {at} /\ Fails({})
  /\ UNCHANGED <<config, peer, before, request, unsaved, world>>

(* It is not, and its time is up.                                          *)
BackRunsOut ==
  /\ pc = "back" /\ ~connected
  /\ pc' = "boundary"
  /\ IF phase = "rollback"
     THEN InverseEnds(FALSE) /\ UNCHANGED unknown
     ELSE unknown' = unknown \cup {at} /\ Fails({})
  /\ UNCHANGED <<config, peer, before, request, unsaved, world>>

(* The result of the second run stands.                                    *)
AgainReturns ==
  /\ pc = "again" /\ Settled
  /\ pc' = "boundary"
  /\ IF phase = "rollback" THEN InverseEnds(call = "ok")
     ELSE IF call = "ok" THEN Completes({}, {})
     ELSE Fails({})
  /\ UNCHANGED <<config, peer, before, request, unsaved, unknown, world>>

-----------------------------------------------------------------------------
(* The task, and its requests to the editor.                               *)

Runs == pc \in {"run", "again"}

(* A step that needs no editor.                                            *)
LocalRuns ==
  /\ Runs /\ call = "unsent" /\ ~NeedsEditor
  /\ call' \in {"ok", "failed"}
  /\ runs' = [runs EXCEPT ![at] = @ + 1]
  /\ UNCHANGED <<config, peer, guard, late, report, runner, effect, disk, forgotten>>

Send ==
  /\ Runs /\ call = "unsent" /\ NeedsEditor
  /\ call' = IF connected THEN "sent" ELSE "rejected"
  /\ UNCHANGED <<config, peer, guard, late, report, runner, world>>

(* The editor executes the request of step s, or of its inverse. Either    *)
(* may be left in memory; an edit's answer says so, an inverse's is not    *)
(* asked.                                                                  *)
Executes(p, s, outcome) ==
  /\ runs' = IF p = "task" THEN [runs EXCEPT ![s] = @ + 1] ELSE runs
  /\ \E saved \in BOOLEAN :
       \/ /\ p = "task" /\ kind[s] = "edit" /\ outcome \in {"ok", "partial"}
          /\ effect' = [effect EXCEPT ![s] = TRUE]
          /\ disk' = [disk EXCEPT ![s] = saved]
       \/ /\ p = "rollback" /\ outcome = "ok"
          /\ effect' = [effect EXCEPT ![s] = FALSE]
          /\ disk' = [disk EXCEPT ![s] = @ /\ ~saved]
       \/ /\ outcome = "failed" \/ (p = "task" /\ kind[s] # "edit")
          /\ UNCHANGED <<effect, disk>>
  /\ UNCHANGED forgotten

Outcomes(p, s) ==
  IF p = "task" /\ kind[s] = "edit" THEN {"ok", "failed", "partial"} ELSE {"ok", "failed"}

Answer ==
  /\ Runs /\ call = "sent" /\ editor = "up"
  /\ call' \in Outcomes(phase, at)
  /\ Executes(phase, at, call')
  /\ UNCHANGED <<config, peer, guard, late, report, runner>>

(* The client's timer; the editor may execute the request all the same.    *)
TimesOut ==
  /\ Runs /\ call = "sent"
  /\ call' = "rejected"
  /\ late' = late \cup {<<phase, at>>}
  /\ UNCHANGED <<config, peer, guard, report, runner, world>>

(* A request whose answer nobody awaits.                                   *)
AnswerLate ==
  /\ phase # "ended" /\ editor = "up"
  /\ \E l \in late :
       /\ late' = late \ {l}
       /\ \E outcome \in Outcomes(l[1], l[2]) : Executes(l[1], l[2], outcome)
  /\ UNCHANGED <<config, peer, guard, call, report, runner>>

-----------------------------------------------------------------------------
(* The connection, and the editor's process.                               *)

(* Mutant: what was not saved is not worked out at the loss.               *)
DropUncounted ==
  /\ phase # "ended"
  /\ connected /\ drops < MaxDrops
  /\ connected' = FALSE
  /\ drops' = drops + 1
  /\ IF Runs /\ call \in {"sent", "ok", "failed", "partial"}
     THEN /\ call' = "rejected"
          /\ late' = IF call = "sent" THEN late \cup {<<phase, at>>} ELSE late
     ELSE UNCHANGED request
  /\ UNCHANGED <<config, editor, guard, report, runner, world>>

(* The listener. A pending request is rejected; a task that is between two *)
(* requests goes on.                                                       *)
Drop ==
  /\ phase # "ended"
  /\ connected /\ drops < MaxDrops
  /\ connected' = FALSE
  /\ drops' = drops + 1
  /\ unsaved' = unsafe
  /\ IF Runs /\ call \in {"sent", "ok", "failed", "partial"}
     THEN /\ call' = "rejected"
          /\ late' = IF call = "sent" THEN late \cup {<<phase, at>>} ELSE late
     ELSE UNCHANGED request
  /\ UNCHANGED <<config, editor, guard, unknown, ignored, failed, undoFailed, runner, world>>

(* The process ends: what was not saved is gone, and what it had not read. *)
Crash ==
  /\ phase # "ended"
  /\ editor = "up"
  /\ editor' = "dead"
  /\ effect' = disk
  /\ forgotten' = forgotten \cup {s \in Steps : disk[s] /\ ~effect[s]}
  /\ late' = {}
  /\ UNCHANGED <<config, connected, drops, guard, call, report, runner, disk, runs>>

(* The bridge is connected again, to this process or to a new one.         *)
Return ==
  /\ phase # "ended"
  /\ ~connected
  /\ connected' = TRUE
  /\ editor' = "up"
  /\ UNCHANGED <<config, drops, guard, request, report, runner, world>>

-----------------------------------------------------------------------------
Run ==
  \/ Begin \/ AwaitEnds \/ RunStands \/ RunIsLost \/ EditorIsBack \/ BackRunsOut
  \/ AgainReturns \/ LocalRuns \/ Send \/ TimesOut

Editor == Answer \/ AnswerLate \/ Drop \/ Crash \/ Return

Next == Run \/ Editor

Spec == Init /\ [][Next]_vars

(* The runner goes on, and every wait of it has a timer. The editor need   *)
(* not run, answer or return.                                              *)
FairSpec == Spec /\ WF_vars(Run)

-----------------------------------------------------------------------------
(* A step that changes something is executed once at most, however often   *)
(* the editor is lost and whatever is executed late: only what reads is    *)
(* run again to verify it, and once (editor-loss.ts: "any other step stays *)
(* unknown").                                                              *)
EditRunsOnce == \A s \in Steps : runs[s] <= IF kind[s] = "read" THEN 2 ELSE 1

(* A run that reports success tells the truth about every step: its change *)
(* is there, or the report names it as unknown, as not saved when the      *)
(* editor went away, or as failed and tolerated. The loss of an editor     *)
(* that the bridge has not noticed when the run ends is nobody's to tell.  *)
SuccessIsHonest ==
  phase = "ended" /\ failed = 0 /\ (editor = "up" \/ ~connected) =>
    \A s \in Steps : kind[s] = "edit" =>
      effect[s] \/ s \in unsaved \cup unknown \cup ignored

(* A run that failed with rollback armed leaves no change of a step behind *)
(* but those that the report names: an inverse that failed, a step whose   *)
(* outcome is unknown, a step that failed. Not told is what a crash brings *)
(* back: a step whose inverse worked and was not saved.                    *)
FailureIsHonest ==
  phase = "ended" /\ failed # 0 /\ armed =>
    \A s \in Steps : kind[s] = "edit" /\ effect[s] =>
      s \in undoFailed \cup unknown \cup ignored \cup {failed} \cup forgotten

(* A run ends, whatever becomes of the editor: each wait has a deadline    *)
(* and none is started over by the next loss.                              *)
RunEnds == <>(phase = "ended")

(* docs/flows.md: "On failure it restores them with `git read-tree`".      *)
FilesRestored ==
  phase = "ended" /\ failed # 0 /\ (\E s \in Steps : kind[s] = "edit" /\ runs[s] > 0)
    => restored

=============================================================================
