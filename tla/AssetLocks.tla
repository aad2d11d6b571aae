----------------------------- MODULE AssetLocks -----------------------------
(***************************************************************************)
(* AssetLocks: the lock registry of one editor, and the calls that servers *)
(* wrap in its locks.  Every handler runs on the editor's game thread, so  *)
(* a lock request is one step there; between asking and being answered a   *)
(* call waits, and leases end, calls fail, servers and the editor die.     *)
(*                                                                         *)
(* An owner is a lockOwnerId: one editor session of one server process,    *)
(* gone for good when the process dies.  An asset is a normalised key, so  *)
(* Paths[c] names one twice when the call spells it in two ways, and is    *)
(* empty when the call takes no lock (reads, no path, locking is off).     *)
(***************************************************************************)
EXTENDS Naturals, Sequences

CONSTANTS
  Calls,           (* Dispatches that go through withAssetLocks.             *)
  Owners,          (* Lock owner ids.                                        *)
  NoOwner,         (* The registry has no entry.                             *)
  OwnerOf,         (* The session that serves a call.                        *)
  Assets,          (* Keys of the registry.                                  *)
  Paths,           (* classifyAction(...).paths of a call.                   *)
  ByHand,          (* Owners whose agents lock and unlock by hand.           *)
  Ttl              (* cfg.ttlSeconds, in ticks.                              *)

ASSUME NoOwnerAssumption == NoOwner \notin Owners
ASSUME OwnerOfAssumption == OwnerOf \in [Calls -> Owners]
ASSUME PathsAssumption == Paths \in [Calls -> Seq(Assets)]
ASSUME ByHandAssumption == ByHand \subseteq Owners
ASSUME TtlAssumption == Ttl \in Nat \ {0}

VARIABLES
  (* The editor *)
  holder,          (* SessionId of each entry of Locks.                      *)
  left,            (* ExpiresMono - Now; an entry at 0 awaits its purge.     *)
  frames,          (* Lock requests the editor has not executed.             *)
  (* The servers *)
  step,            (* Where a call is in withAssetLocks; "unlocked" is a run *)
                   (* without locks.                                         *)
  at,              (* The index in Paths[c] of the request it awaits.        *)
  held,            (* held.length, as releaseAll goes through it.            *)
  then,            (* What follows releaseAll.                               *)
  reply,           (* The answer on its way to the call.                     *)
  crashed,         (* Owners whose process has died.                         *)
  (* History *)
  lapsed,          (* Locks taken from a call other than by its own release. *)
  adrift           (* Leases that no release of a call is bound to follow.   *)

registryVars == <<holder, left>>
callVars == <<step, at, held, then, reply>>
vars == <<holder, left, frames, step, at, held, then, reply, crashed, lapsed, adrift>>

(* A request in flight: frame f is the one its call awaits when it is the   *)
(* call's Pending frame and no answer is there yet.                         *)
Frame == [call : Calls, step : {"acquiring", "releasing"}, at : Nat]
Pending(c) == [call |-> c, step |-> step[c], at |-> at[c]]
Asset(f) == Paths[f.call][f.at]
Awaits(c) == step[c] \in {"acquiring", "releasing"}
Unanswered(c) == Awaits(c) /\ reply[c] = "none"

(* What a call believes it holds.  An answer on its way counts: the call     *)
(* will act on it, whatever happened to the lease meanwhile.                *)
Claimed(c) ==
  {Paths[c][i] : i \in {j \in DOMAIN Paths[c] :
     \/ step[c] = "running"
     \/ step[c] = "acquiring" /\ j < at[c]
     \/ step[c] = "acquiring" /\ j = at[c] /\ reply[c] = "acquired"}}

(* What it still has to release.                                            *)
Releasing(c) ==
  {Paths[c][i] : i \in {j \in DOMAIN Paths[c] :
     step[c] = "releasing" /\ at[c] <= j /\ j <= held[c]}}

Init ==
  /\ holder = [a \in Assets |-> NoOwner] /\ left = [a \in Assets |-> 0]
  /\ frames = {}
  /\ step = [c \in Calls |-> "idle"]
  /\ at = [c \in Calls |-> 1] /\ held = [c \in Calls |-> 0]
  /\ then = [c \in Calls |-> "done"] /\ reply = [c \in Calls |-> "none"]
  /\ crashed = {} /\ lapsed = {} /\ adrift = {}
-----------------------------------------------------------------------------
(***************************************************************************)
(* The registry.                                                           *)
(***************************************************************************)
(* Mutants: expired entries stay; an entry goes a tick early.               *)
PurgedNever == holder
PurgedEarly == [a \in Assets |-> IF left[a] <= 1 THEN NoOwner ELSE holder[a]]
Purged == [a \in Assets |-> IF left[a] = 0 THEN NoOwner ELSE holder[a]]
Grants(o, a) == Purged[a] \in {NoOwner, o}

(* A fresh entry, or the lease of an entry that is the session's already.   *)
AcquireLock(o, a, ttl) ==
  /\ holder' = IF Grants(o, a) THEN [Purged EXCEPT ![a] = o] ELSE Purged
  /\ left' = IF Grants(o, a) THEN [left EXCEPT ![a] = ttl] ELSE left

Remove(S) ==
  /\ holder' = [a \in Assets |-> IF a \in S THEN NoOwner ELSE holder[a]]
  /\ left' = [a \in Assets |-> IF a \in S THEN 0 ELSE left[a]]

(* Calls that lose a lock they believe they hold.                           *)
Lapse(S) ==
  lapsed' = lapsed \cup {p \in Calls \X Assets : p[2] \in S /\ p[2] \in Claimed(p[1])}

Releasable(o, a, force) ==
  {b \in {a} : holder[b] # NoOwner /\ (force \/ holder[b] = o)}
ReleaseLock(o, a, force) ==
  Remove(Releasable(o, a, force)) /\ Lapse(Releasable(o, a, force))

(* The editor executes a request, and its answer reaches a call that still  *)
(* waits for it.  Frames are a set: the one of a lost connection may be     *)
(* read after the next one of its replacement.                              *)
Answers(f, r) ==
  /\ frames' = frames \ {f}
  /\ reply' = IF Unanswered(f.call) /\ f = Pending(f.call)
              THEN [reply EXCEPT ![f.call] = r] ELSE reply
  /\ UNCHANGED <<step, at, held, then, crashed, adrift>>

ExecuteAcquire(f) ==
  /\ f \in frames /\ f.step = "acquiring"
  /\ LET o == OwnerOf[f.call] IN
       /\ AcquireLock(o, Asset(f), Ttl)
       /\ Answers(f, IF Grants(o, Asset(f)) THEN "acquired" ELSE "busy")
       /\ lapsed' = IF Grants(o, Asset(f))
                    THEN lapsed \ {<<f.call, Asset(f)>>} ELSE lapsed

ExecuteRelease(f) ==
  /\ f \in frames /\ f.step = "releasing"
  /\ ReleaseLock(OwnerOf[f.call], Asset(f), FALSE)
  /\ Answers(f, "released")

(* The guard, or the editor's own dialog gate, refuses while a dialog is up.*)
RefusedByDialog(c) ==
  /\ Unanswered(c) /\ Pending(c) \in frames
  /\ Answers(Pending(c), "dialog")
  /\ UNCHANGED <<registryVars, lapsed>>
-----------------------------------------------------------------------------
(***************************************************************************)
(* withAssetLocks.                                                         *)
(***************************************************************************)
Ask(c, s, i) ==
  /\ step' = [step EXCEPT ![c] = s]
  /\ at' = [at EXCEPT ![c] = i]
  /\ frames' = frames \cup {[call |-> c, step |-> s, at |-> i]}

Unclaimed(C) == lapsed' = {p \in lapsed : p[1] \notin C}

(* Outside the two loops the loop variables have no value to keep; nor do    *)
(* claims, except while running.                                            *)
Forget(C) ==
  /\ at' = [c \in Calls |-> IF c \in C THEN 1 ELSE at[c]]
  /\ held' = [c \in Calls |-> IF c \in C THEN 0 ELSE held[c]]
  /\ then' = [c \in Calls |-> IF c \in C THEN "done" ELSE then[c]]

Enter(c, s) ==
  /\ step' = [step EXCEPT ![c] = s]
  /\ Forget({c})
  /\ UNCHANGED frames

Begin(c) ==
  /\ step[c] = "idle" /\ OwnerOf[c] \notin crashed
  /\ IF Paths[c] = <<>>
     THEN Enter(c, "unlocked")
     ELSE Ask(c, "acquiring", 1) /\ UNCHANGED <<held, then>>
  /\ UNCHANGED <<registryVars, reply, crashed, lapsed, adrift>>

(* releaseAll(held), one request after the other, and then on to s.          *)
ReleaseAll(c, n, s) ==
  /\ IF n = 0
     THEN Enter(c, s)
     ELSE /\ Ask(c, "releasing", 1)
          /\ held' = [held EXCEPT ![c] = n]
          /\ then' = [then EXCEPT ![c] = s]
  /\ Unclaimed({c})

LockTaken(c) ==
  /\ IF at[c] = Len(Paths[c])
     THEN Enter(c, "running")
     ELSE Ask(c, "acquiring", at[c] + 1) /\ UNCHANGED <<held, then>>
  /\ UNCHANGED lapsed

(* Busy, or refused by a dialog: release what was taken, and throw.          *)
(* Mutant: it throws at once.                                               *)
GiveUpHolding(c) == ReleaseAll(c, 0, "done")
GiveUp(c) == ReleaseAll(c, at[c] - 1, "done")

AcquireAnswered(c) ==
  /\ step[c] = "acquiring" /\ reply[c] # "none"
  /\ reply' = [reply EXCEPT ![c] = "none"]
  /\ \/ reply[c] = "acquired" /\ LockTaken(c)
     \/ reply[c] \in {"busy", "dialog"} /\ GiveUp(c)
  /\ UNCHANGED <<registryVars, crashed, adrift>>

(* releaseAll goes on whatever the answer was.  Mutants: it repeats a release *)
(* that had no effect; it runs past the end of held.                        *)
NextReleaseRepeats(c) ==
  /\ reply' = [reply EXCEPT ![c] = "none"]
  /\ IF reply[c] = "released" /\ at[c] = held[c]
     THEN Enter(c, then[c])
     ELSE /\ Ask(c, "releasing", IF reply[c] = "released" THEN at[c] + 1 ELSE at[c])
          /\ UNCHANGED <<held, then>>
  /\ UNCHANGED lapsed

NextReleasePastEnd(c) ==
  /\ reply' = [reply EXCEPT ![c] = "none"]
  /\ IF at[c] > held[c]
     THEN Enter(c, then[c])
     ELSE Ask(c, "releasing", at[c] + 1) /\ UNCHANGED <<held, then>>
  /\ UNCHANGED lapsed

NextRelease(c) ==
  /\ reply' = [reply EXCEPT ![c] = "none"]
  /\ IF at[c] = held[c]
     THEN Enter(c, then[c])
     ELSE Ask(c, "releasing", at[c] + 1) /\ UNCHANGED <<held, then>>
  /\ UNCHANGED lapsed

GoesAdrift(c) == adrift' = adrift \cup {<<OwnerOf[c], Paths[c][at[c]]>>}

ReleaseAnswered(c) ==
  /\ step[c] = "releasing" /\ reply[c] # "none"
  /\ NextRelease(c)
  /\ IF reply[c] = "dialog" THEN GoesAdrift(c) ELSE UNCHANGED adrift
  /\ UNCHANGED <<registryVars, crashed>>

(* bridge.call rejects: a time-out, a lost connection, a veto, an editor    *)
(* without the handlers.  The request may have been executed, may still be  *)
(* or may be lost.  An acquire that fails makes the call run unlocked.      *)
CallFails(c) ==
  /\ Awaits(c)
  /\ reply' = [reply EXCEPT ![c] = "none"]
  /\ \/ step[c] = "acquiring" /\ ReleaseAll(c, at[c] - 1, "unlocked")
     \/ step[c] = "releasing" /\ NextRelease(c)
  /\ GoesAdrift(c)
  /\ UNCHANGED <<registryVars, crashed>>

(* task.run() settles; its outcome plays no part.                           *)
RunEnds(c) ==
  /\ \/ step[c] = "running" /\ ReleaseAll(c, Len(Paths[c]), "done")
     \/ step[c] = "unlocked" /\ Enter(c, "done") /\ UNCHANGED lapsed
  /\ UNCHANGED <<registryVars, reply, crashed, adrift>>
-----------------------------------------------------------------------------
(***************************************************************************)
(* The actions asset(lock), asset(unlock), asset(unlock_all) and           *)
(* asset(list_locks), each one request that is answered at once.           *)
(***************************************************************************)
Lock(o, a) ==
  /\ o \in ByHand \ crashed
  /\ \E ttl \in 1..Ttl : AcquireLock(o, a, ttl)
  /\ adrift' = IF Grants(o, a) THEN adrift \cup {<<o, a>>} ELSE adrift
  /\ UNCHANGED <<frames, callVars, crashed, lapsed>>

Unlock(o, a) ==
  /\ o \in ByHand \ crashed
  /\ \E force \in BOOLEAN : ReleaseLock(o, a, force)
  /\ UNCHANGED <<frames, callVars, crashed, adrift>>

(* ReleaseSession; the session may be named, so it need not be a live one.  *)
UnlockAll(o) ==
  LET S == {a \in Assets : holder[a] = o} IN
  /\ ByHand \ crashed # {}
  /\ Remove(S) /\ Lapse(S)
  /\ UNCHANGED <<frames, callVars, crashed, adrift>>

ListLocks ==
  /\ holder' = Purged
  /\ UNCHANGED <<left, frames, callVars, crashed, lapsed, adrift>>
-----------------------------------------------------------------------------
(***************************************************************************)
(* Time, losses and crashes.                                               *)
(***************************************************************************)
Tick ==
  /\ \E a \in Assets : left[a] > 0
  /\ left' = [a \in Assets |-> IF left[a] > 0 THEN left[a] - 1 ELSE 0]
  /\ Lapse({a \in Assets : left[a] = 1})
  /\ UNCHANGED <<holder, frames, callVars, crashed, adrift>>

Lost(f) ==
  /\ f \in frames /\ frames' = frames \ {f}
  /\ UNCHANGED <<registryVars, callVars, crashed, lapsed, adrift>>

(* The registry lives in the editor's memory.                               *)
EditorRestarts ==
  /\ Remove(Assets) /\ Lapse(Assets)
  /\ frames' = {}
  /\ UNCHANGED <<callVars, crashed, adrift>>

Served(o) == {c \in Calls : OwnerOf[c] = o}

OwnerCrashes(o) ==
  /\ o \notin crashed
  /\ crashed' = crashed \cup {o}
  /\ step' = [c \in Calls |-> IF c \in Served(o) THEN "crashed" ELSE step[c]]
  /\ reply' = [c \in Calls |-> IF c \in Served(o) THEN "none" ELSE reply[c]]
  /\ Forget(Served(o)) /\ Unclaimed(Served(o))
  /\ UNCHANGED <<registryVars, frames, adrift>>
-----------------------------------------------------------------------------
CallStep(c) ==
  Begin(c) \/ AcquireAnswered(c) \/ ReleaseAnswered(c) \/ CallFails(c) \/ RunEnds(c)

Execute(f) == ExecuteAcquire(f) \/ ExecuteRelease(f)

Next ==
  \/ \E c \in Calls : CallStep(c) \/ RefusedByDialog(c)
  \/ \E f \in frames : Execute(f) \/ Lost(f)
  \/ \E o \in Owners : UnlockAll(o) \/ OwnerCrashes(o)
  \/ \E o \in Owners, a \in Assets : Lock(o, a) \/ Unlock(o, a)
  \/ ListLocks \/ Tick \/ EditorRestarts

Spec == Init /\ [][Next]_vars

(***************************************************************************)
(* Fairness: bridge.call answers or rejects, a task settles, time passes,  *)
(* and a request is executed or lost in the end.                           *)
(***************************************************************************)
FairSpec ==
  /\ Spec
  /\ \A c \in Calls :
       /\ WF_vars(AcquireAnswered(c) \/ ReleaseAnswered(c) \/ CallFails(c))
       /\ WF_vars(RunEnds(c))
  /\ WF_vars(\E f \in frames : Execute(f) \/ Lost(f))
  /\ WF_vars(Tick)
-----------------------------------------------------------------------------
(***************************************************************************)
(* Properties.                                                             *)
(***************************************************************************)
TypeOK ==
  /\ holder \in [Assets -> Owners \cup {NoOwner}]
  /\ left \in [Assets -> 0..Ttl]
  /\ \A f \in frames : f \in Frame /\ f.at \in DOMAIN Paths[f.call]
  /\ step \in [Calls -> {"idle", "acquiring", "running", "unlocked",
                         "releasing", "done", "crashed"}]
  /\ at \in [Calls -> Nat \ {0}] /\ held \in [Calls -> Nat]
  /\ then \in [Calls -> {"unlocked", "done"}]
  /\ reply \in [Calls -> {"none", "acquired", "busy", "dialog", "released"}]
  /\ \A c \in Calls : /\ held[c] <= Len(Paths[c])
                      /\ Awaits(c) => at[c] \in DOMAIN Paths[c]
  /\ crashed \subseteq Owners
  /\ lapsed \subseteq Calls \X Assets /\ adrift \subseteq Owners \X Assets

(* Two calls of different sessions are inside their tasks, both under locks  *)
(* and on one asset, only after the lease of one ended before its call did:  *)
(* it expired, was forced, or went with the editor.                          *)
Serialised ==
  \A c, d \in Calls : \A a \in Claimed(c) \cap Claimed(d) :
    /\ step[c] = "running" /\ step[d] = "running"
    /\ OwnerOf[c] # OwnerOf[d]
    => <<c, a>> \in lapsed \/ <<d, a>> \in lapsed

(* An entry of a live session has a call that holds it or is releasing it,   *)
(* unless an agent locked by hand or a request failed: no branch of          *)
(* withAssetLocks, a busy asset or a dialog in the middle of the list        *)
(* included, leaves a lock to its TTL.                                       *)
NothingStranded ==
  \A a \in Assets :
    /\ holder[a] # NoOwner /\ holder[a] \notin crashed
    /\ <<holder[a], a>> \notin adrift
    => \E c \in Calls : /\ OwnerOf[c] = holder[a]
                        /\ a \in Claimed(c) \cup Releasing(c)

(* From some time on a session that crashed, or whose agents do not lock by  *)
(* hand and make no more calls, keeps no asset from the others: lost answers *)
(* and acquire requests that are executed late leave leases, and these end.  *)
LeasesEnd ==
  \A o \in Owners, a \in Assets :
    <>[](o \in crashed \cup (Owners \ ByHand) /\ holder[a] = o
         => \A p \in Owners : Grants(p, a))

(* A call that begins ends or dies with its server: no wait of withAssetLocks *)
(* depends on another call.                                                  *)
CallEnds ==
  \A c \in Calls : step[c] = "acquiring" ~> step[c] \in {"done", "crashed"}
=============================================================================
