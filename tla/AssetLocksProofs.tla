-------------------------- MODULE AssetLocksProofs --------------------------
(***************************************************************************)
(* Proofs that AssetLocks keeps its type and that its locks exclude: calls *)
(* of two sessions are inside their tasks on one asset only after a lease  *)
(* ended early; that no lock is stranded; and that a call takes a bounded  *)
(* number of steps.  For any calls, sessions, assets, paths and TTL.       *)
(***************************************************************************)
EXTENDS AssetLocks, TLAPS

RegistryTyped ==
  /\ holder \in [Assets -> Owners \cup {NoOwner}]
  /\ left \in [Assets -> 0..Ttl]

WireTyped == \A f \in frames : f \in Frame /\ f.at \in DOMAIN Paths[f.call]

CallsTyped ==
  /\ step \in [Calls -> {"idle", "acquiring", "running", "unlocked",
                         "releasing", "done", "crashed"}]
  /\ at \in [Calls -> Nat \ {0}] /\ held \in [Calls -> Nat]
  /\ then \in [Calls -> {"unlocked", "done"}]
  /\ reply \in [Calls -> {"none", "acquired", "busy", "dialog", "released"}]
  /\ \A c \in Calls : /\ held[c] <= Len(Paths[c])
                      /\ Awaits(c) => at[c] \in DOMAIN Paths[c]

HistoryTyped ==
  /\ crashed \subseteq Owners
  /\ lapsed \subseteq Calls \X Assets /\ adrift \subseteq Owners \X Assets

(* The loop of releaseAll stays within what was taken, and an answer is on   *)
(* its way only to a call that awaits one.                                   *)
LoopInv ==
  \A c \in Calls : /\ step[c] = "releasing" => at[c] <= held[c]
                   /\ reply[c] # "none" => Awaits(c)

TypeInv ==
  RegistryTyped /\ WireTyped /\ CallsTyped /\ HistoryTyped /\ LoopInv

(* What a call believes it holds is leased to its session, unless it lapsed. *)
HeldIsLeased ==
  \A c \in Calls : \A a \in Claimed(c) :
    <<c, a>> \in lapsed \/ (holder[a] = OwnerOf[c] /\ left[a] > 0)

(* The type invariant, by the parts that an action disturbs together.        *)
LEMMA TypeParts == TypeInv => TypeOK
BY DEF TypeInv, TypeOK, RegistryTyped, WireTyped, CallsTyped, HistoryTyped

-----------------------------------------------------------------------------
(***************************************************************************)
(* Type correctness.                                                       *)
(***************************************************************************)
(* The indices of a call's paths.                                            *)
LEMMA PathIndices ==
  ASSUME NEW c \in Calls
  PROVE  /\ DOMAIN Paths[c] = 1..Len(Paths[c]) /\ Len(Paths[c]) \in Nat
         /\ \A i \in 1..Len(Paths[c]) : Paths[c][i] \in Assets
BY PathsAssumption

(* What a call claims, and what a frame asks for, are assets.                *)
LEMMA FrameAsset ==
  ASSUME WireTyped, NEW f \in frames
  PROVE  f \in Frame /\ f.call \in Calls /\ Asset(f) \in Assets
         /\ OwnerOf[f.call] \in Owners
<1>1. f \in Frame /\ f.call \in Calls /\ f.at \in DOMAIN Paths[f.call]
  BY DEF WireTyped, Frame
<1> QED BY <1>1, PathIndices, OwnerOfAssumption DEF Asset

(* Going to a step that awaits nothing.                                      *)
LEMMA EnterTyped ==
  ASSUME CallsTyped, WireTyped, LoopInv, NEW c \in Calls,
         NEW s \in {"running", "unlocked", "done"}, Enter(c, s),
         reply' = [reply EXCEPT ![c] = "none"]
  PROVE  CallsTyped' /\ WireTyped' /\ LoopInv'
<1>1. WireTyped'
  BY DEF Enter, WireTyped
<1>2. /\ step' = [step EXCEPT ![c] = s]
      /\ at' = [d \in Calls |-> IF d \in {c} THEN 1 ELSE at[d]]
      /\ held' = [d \in Calls |-> IF d \in {c} THEN 0 ELSE held[d]]
      /\ then' = [d \in Calls |-> IF d \in {c} THEN "done" ELSE then[d]]
  BY DEF Enter, Forget
<1>3. \A d \in Calls : /\ held'[d] <= Len(Paths[d])
                       /\ Awaits(d)' => at'[d] \in DOMAIN Paths[d]
                       /\ step'[d] = "releasing" => at'[d] <= held'[d]
                       /\ reply'[d] # "none" => Awaits(d)'
  BY <1>2, PathIndices DEF CallsTyped, LoopInv, Awaits
<1> QED BY <1>1, <1>2, <1>3 DEF CallsTyped, LoopInv

(* Asking for the lock, or the release, at an index of the call's paths.     *)
LEMMA AskTyped ==
  ASSUME CallsTyped, WireTyped, LoopInv, NEW c \in Calls,
         NEW s \in {"acquiring", "releasing"}, NEW i \in DOMAIN Paths[c],
         Ask(c, s, i),
         reply' = [reply EXCEPT ![c] = "none"],
         then' \in [Calls -> {"unlocked", "done"}],
         held' \in [Calls -> Nat], held'[c] <= Len(Paths[c]),
         \A d \in Calls \ {c} : held'[d] = held[d],
         s = "releasing" => i <= held'[c]
  PROVE  CallsTyped' /\ WireTyped' /\ LoopInv'
<1>1. i \in Nat \ {0}
  BY PathIndices
<1>2. /\ step' = [step EXCEPT ![c] = s] /\ at' = [at EXCEPT ![c] = i]
      /\ frames' = frames \cup {[call |-> c, step |-> s, at |-> i]}
  BY DEF Ask
<1>3. WireTyped'
  BY <1>1, <1>2 DEF WireTyped, Frame
<1>4. \A d \in Calls : /\ held'[d] <= Len(Paths[d])
                       /\ Awaits(d)' => at'[d] \in DOMAIN Paths[d]
                       /\ step'[d] = "releasing" => at'[d] <= held'[d]
                       /\ reply'[d] # "none" => Awaits(d)'
  BY <1>2 DEF CallsTyped, LoopInv, Awaits
<1> QED BY <1>1, <1>2, <1>3, <1>4 DEF CallsTyped, LoopInv

(* releaseAll of the first n locks.                                          *)
LEMMA ReleaseAllTyped ==
  ASSUME CallsTyped, WireTyped, LoopInv, NEW c \in Calls,
         NEW n \in 0..Len(Paths[c]), NEW s \in {"unlocked", "done"},
         ReleaseAll(c, n, s),
         reply' = [reply EXCEPT ![c] = "none"]
  PROVE  CallsTyped' /\ WireTyped' /\ LoopInv'
<1>1. CASE n = 0
  BY <1>1, EnterTyped DEF ReleaseAll
<1>2. CASE n # 0
  <2>1. /\ Ask(c, "releasing", 1)
        /\ held' = [held EXCEPT ![c] = n] /\ then' = [then EXCEPT ![c] = s]
    BY <1>2 DEF ReleaseAll
  <2>2. 1 \in DOMAIN Paths[c] /\ n \in Nat /\ 1 <= n /\ n <= Len(Paths[c])
    BY <1>2, PathIndices
  <2>3. /\ held' \in [Calls -> Nat] /\ held'[c] = n
        /\ \A d \in Calls \ {c} : held'[d] = held[d]
        /\ then' \in [Calls -> {"unlocked", "done"}]
    BY <2>1, <2>2 DEF CallsTyped
  <2> QED BY <2>1, <2>2, <2>3, AskTyped
<1> QED BY <1>1, <1>2

(* The next round of that loop, or its end.                                  *)
LEMMA NextReleaseTyped ==
  ASSUME CallsTyped, WireTyped, LoopInv, NEW c \in Calls,
         step[c] = "releasing", NextRelease(c)
  PROVE  CallsTyped' /\ WireTyped' /\ LoopInv'
<1>1. reply' = [reply EXCEPT ![c] = "none"]
  BY DEF NextRelease
<1>2. CASE at[c] = held[c]
  <2>1. Enter(c, then[c]) /\ then[c] \in {"running", "unlocked", "done"}
    BY <1>2 DEF NextRelease, CallsTyped
  <2> QED BY <1>1, <2>1, EnterTyped
<1>3. CASE at[c] # held[c]
  <2>1. Ask(c, "releasing", at[c] + 1) /\ UNCHANGED <<held, then>>
    BY <1>3 DEF NextRelease
  <2>2. /\ at[c] \in Nat \ {0} /\ held[c] \in Nat
        /\ at[c] < held[c] /\ held[c] <= Len(Paths[c])
    BY <1>3 DEF CallsTyped, LoopInv
  <2>3. at[c] + 1 \in DOMAIN Paths[c] /\ at[c] + 1 <= held'[c]
    BY <2>1, <2>2, PathIndices
  <2> QED BY <1>1, <2>1, <2>2, <2>3, AskTyped DEF CallsTyped
<1> QED BY <1>2, <1>3

(* The registry's operations keep its type.                                  *)
LEMMA AcquireTyped ==
  ASSUME RegistryTyped, NEW o \in Owners, NEW a \in Assets, NEW ttl \in 1..Ttl,
         AcquireLock(o, a, ttl)
  PROVE  RegistryTyped'
BY TtlAssumption DEF RegistryTyped, AcquireLock, Purged

(* So does taking entries out of it, which may lapse claims.                 *)
LEMMA RemoveTyped ==
  ASSUME RegistryTyped, HistoryTyped, NEW S, Remove(S), Lapse(S),
         UNCHANGED <<crashed, adrift>>
  PROVE  RegistryTyped' /\ HistoryTyped'
BY TtlAssumption DEF RegistryTyped, HistoryTyped, Remove, Lapse

(* And answering a request.                                                  *)
LEMMA AnswersTyped ==
  ASSUME CallsTyped, WireTyped, LoopInv, NEW f,
         NEW r \in {"acquired", "busy", "dialog", "released"}, Answers(f, r)
  PROVE  CallsTyped' /\ WireTyped' /\ LoopInv'
BY DEF CallsTyped, WireTyped, LoopInv, Answers, Unanswered, Awaits

(* A call's own steps.                                                       *)
LEMMA CallStepTyped ==
  ASSUME TypeInv, NEW c \in Calls, CallStep(c)
  PROVE  TypeInv'
<1> USE DEF TypeInv
<1>1. CASE Begin(c)
  <2>0. reply[c] = "none"
    BY <1>1 DEF Begin, LoopInv, Awaits
  <2>1. RegistryTyped' /\ HistoryTyped'
        /\ reply' = [reply EXCEPT ![c] = "none"]
    BY <1>1, <2>0 DEF Begin, registryVars, RegistryTyped, HistoryTyped, CallsTyped
  <2>2. CASE Paths[c] = <<>>
    BY <1>1, <2>1, <2>2, EnterTyped DEF Begin
  <2>3. CASE Paths[c] # <<>>
    <3>1. Ask(c, "acquiring", 1) /\ UNCHANGED <<held, then>>
      BY <1>1, <2>3 DEF Begin
    <3>2. 1 \in DOMAIN Paths[c]
      BY <2>3, PathsAssumption
    <3> QED BY <2>1, <3>1, <3>2, AskTyped DEF CallsTyped
  <2> QED BY <2>2, <2>3
<1>2. CASE AcquireAnswered(c)
  <2>1. RegistryTyped' /\ step[c] = "acquiring" /\ at[c] \in 1..Len(Paths[c])
        /\ at[c] \in DOMAIN Paths[c]
        /\ reply' = [reply EXCEPT ![c] = "none"]
    BY <1>2, PathIndices DEF AcquireAnswered, registryVars, RegistryTyped, CallsTyped, Awaits
  <2>2. CASE LockTaken(c)
    <3>1. HistoryTyped'
      BY <1>2, <2>2 DEF AcquireAnswered, LockTaken, HistoryTyped
    <3>2. CASE at[c] = Len(Paths[c])
      BY <2>1, <2>2, <3>1, <3>2, EnterTyped DEF LockTaken
    <3>3. CASE at[c] # Len(Paths[c])
      <4>1. Ask(c, "acquiring", at[c] + 1) /\ UNCHANGED <<held, then>>
        BY <2>2, <3>3 DEF LockTaken
      <4>2. at[c] + 1 \in DOMAIN Paths[c]
        BY <2>1, <3>3, PathIndices
      <4> QED BY <2>1, <3>1, <4>1, <4>2, AskTyped DEF CallsTyped
    <3> QED BY <3>2, <3>3
  <2>3. CASE GiveUp(c)
    <3>1. HistoryTyped'
      BY <1>2, <2>3 DEF AcquireAnswered, GiveUp, ReleaseAll, Unclaimed, HistoryTyped
    <3>2. at[c] - 1 \in 0..Len(Paths[c])
      BY <2>1, PathIndices
    <3> QED BY <2>1, <2>3, <3>1, <3>2, ReleaseAllTyped DEF GiveUp
  <2> QED BY <1>2, <2>2, <2>3 DEF AcquireAnswered
<1>3. CASE ReleaseAnswered(c)
  <2>1. at[c] \in DOMAIN Paths[c] /\ Paths[c][at[c]] \in Assets /\ OwnerOf[c] \in Owners
    BY <1>3, PathIndices, OwnerOfAssumption DEF ReleaseAnswered, CallsTyped, Awaits
  <2>2. RegistryTyped' /\ HistoryTyped'
    BY <1>3, <2>1 DEF ReleaseAnswered, NextRelease, GoesAdrift, registryVars,
                      RegistryTyped, HistoryTyped
  <2> QED BY <1>3, <2>2, NextReleaseTyped DEF ReleaseAnswered
<1>4. CASE CallFails(c)
  <2>1. /\ at[c] \in 1..Len(Paths[c])
        /\ Paths[c][at[c]] \in Assets /\ OwnerOf[c] \in Owners
    BY <1>4, PathIndices, OwnerOfAssumption DEF CallFails, CallsTyped
  <2>2. RegistryTyped' /\ HistoryTyped'
        /\ reply' = [reply EXCEPT ![c] = "none"]
    BY <1>4, <2>1 DEF CallFails, ReleaseAll, NextRelease, Unclaimed, GoesAdrift,
                      registryVars, RegistryTyped, HistoryTyped, CallsTyped
  <2>3. CASE step[c] = "acquiring" /\ ReleaseAll(c, at[c] - 1, "unlocked")
    <3>1. at[c] - 1 \in 0..Len(Paths[c])
      BY <2>1, PathIndices
    <3> QED BY <2>2, <2>3, <3>1, ReleaseAllTyped
  <2>4. CASE step[c] = "releasing" /\ NextRelease(c)
    BY <2>2, <2>4, NextReleaseTyped
  <2> QED BY <1>4, <2>3, <2>4 DEF CallFails
<1>5. CASE RunEnds(c)
  <2>0. reply[c] = "none"
    BY <1>5 DEF RunEnds, LoopInv, Awaits
  <2>1. RegistryTyped' /\ HistoryTyped'
        /\ reply' = [reply EXCEPT ![c] = "none"]
    BY <1>5, <2>0 DEF RunEnds, ReleaseAll, Unclaimed, registryVars,
                RegistryTyped, HistoryTyped, CallsTyped
  <2>2. CASE ReleaseAll(c, Len(Paths[c]), "done")
    <3>1. Len(Paths[c]) \in 0..Len(Paths[c])
      BY PathIndices
    <3> QED BY <2>1, <2>2, <3>1, ReleaseAllTyped
  <2>3. CASE Enter(c, "done")
    BY <2>1, <2>3, EnterTyped
  <2> QED BY <1>5, <2>2, <2>3 DEF RunEnds
<1> QED BY <1>1, <1>2, <1>3, <1>4, <1>5 DEF CallStep

(* Every step keeps the types.                                               *)
LEMMA TypeStep ==
  ASSUME TypeInv, [Next]_vars
  PROVE  TypeInv'
<1> USE DEF TypeInv
<1>1. ASSUME NEW c \in Calls, CallStep(c) PROVE TypeInv'
  BY <1>1, CallStepTyped
<1>2. ASSUME NEW c \in Calls, RefusedByDialog(c) PROVE TypeInv'
  <2>1. Answers(Pending(c), "dialog") /\ UNCHANGED <<holder, left, lapsed, crashed, adrift>>
    BY <1>2 DEF RefusedByDialog, registryVars, Answers
  <2>2. RegistryTyped' /\ HistoryTyped'
    BY <2>1 DEF RegistryTyped, HistoryTyped
  <2> QED BY <2>1, <2>2, AnswersTyped
<1>3. ASSUME NEW f \in frames, ExecuteAcquire(f) PROVE TypeInv'
  <2> DEFINE o == OwnerOf[f.call]
  <2> DEFINE r == IF Grants(o, Asset(f)) THEN "acquired" ELSE "busy"
  <2>1. o \in Owners /\ Asset(f) \in Assets /\ Ttl \in 1..Ttl
    BY FrameAsset, TtlAssumption
  <2>2. AcquireLock(o, Asset(f), Ttl) /\ Answers(f, r)
    BY <1>3 DEF ExecuteAcquire
  <2>3. RegistryTyped'
    BY <2>1, <2>2, AcquireTyped
  <2>4. HistoryTyped'
    BY <1>3 DEF ExecuteAcquire, Answers, HistoryTyped
  <2> QED BY <2>2, <2>3, <2>4, AnswersTyped
<1>4. ASSUME NEW f \in frames, ExecuteRelease(f) PROVE TypeInv'
  <2>1. Answers(f, "released") /\ UNCHANGED <<crashed, adrift>>
    BY <1>4 DEF ExecuteRelease, Answers
  <2>2. RegistryTyped' /\ HistoryTyped'
    BY <1>4, <2>1, RemoveTyped DEF ExecuteRelease, ReleaseLock
  <2> QED BY <2>1, <2>2, AnswersTyped
<1>5. ASSUME NEW f \in frames, Lost(f) PROVE TypeInv'
  BY <1>5 DEF Lost, registryVars, callVars, RegistryTyped, WireTyped, CallsTyped,
              HistoryTyped, LoopInv, Awaits
<1>6. ASSUME NEW o \in Owners, UnlockAll(o) PROVE TypeInv'
  <2>1. RegistryTyped' /\ HistoryTyped'
    BY <1>6, RemoveTyped DEF UnlockAll
  <2> QED BY <1>6, <2>1 DEF UnlockAll, callVars, WireTyped, CallsTyped, LoopInv, Awaits
<1>7. ASSUME NEW o \in Owners, OwnerCrashes(o) PROVE TypeInv'
  <2>1. RegistryTyped' /\ WireTyped' /\ HistoryTyped'
    BY <1>7 DEF OwnerCrashes, Unclaimed, registryVars, RegistryTyped, WireTyped, HistoryTyped
  <2>2. \A d \in Calls : /\ held'[d] <= Len(Paths[d])
                         /\ Awaits(d)' => at'[d] \in DOMAIN Paths[d]
                         /\ step'[d] = "releasing" => at'[d] <= held'[d]
                         /\ reply'[d] # "none" => Awaits(d)'
    BY <1>7, PathIndices DEF OwnerCrashes, Forget, CallsTyped, LoopInv, Awaits
  <2>3. CallsTyped' /\ LoopInv'
    BY <1>7, <2>2 DEF OwnerCrashes, Forget, CallsTyped, LoopInv
  <2> QED BY <2>1, <2>3
<1>8. ASSUME NEW o \in Owners, NEW a \in Assets, Lock(o, a) PROVE TypeInv'
  <2>1. RegistryTyped'
    BY <1>8, AcquireTyped DEF Lock
  <2> QED BY <1>8, <2>1 DEF Lock, callVars, WireTyped, CallsTyped, HistoryTyped, LoopInv, Awaits
<1>9. ASSUME NEW o \in Owners, NEW a \in Assets, Unlock(o, a) PROVE TypeInv'
  <2>1. RegistryTyped' /\ HistoryTyped'
    BY <1>9, RemoveTyped DEF Unlock, ReleaseLock
  <2> QED BY <1>9, <2>1 DEF Unlock, callVars, WireTyped, CallsTyped, LoopInv, Awaits
<1>10. CASE ListLocks
  BY <1>10 DEF ListLocks, Purged, callVars, RegistryTyped, WireTyped, CallsTyped,
               HistoryTyped, LoopInv, Awaits
<1>11. CASE Tick
  <2>1. RegistryTyped'
    BY <1>11, TtlAssumption DEF Tick, RegistryTyped
  <2> QED BY <1>11, <2>1 DEF Tick, Lapse, callVars, WireTyped, CallsTyped, HistoryTyped,
                             LoopInv, Awaits
<1>12. CASE EditorRestarts
  <2>1. RegistryTyped' /\ HistoryTyped'
    BY <1>12, RemoveTyped DEF EditorRestarts
  <2> QED BY <1>12, <2>1 DEF EditorRestarts, callVars, WireTyped, CallsTyped, LoopInv, Awaits
<1>13. CASE UNCHANGED vars
  BY <1>13 DEF vars, RegistryTyped, WireTyped, CallsTyped, HistoryTyped, LoopInv, Awaits
<1> QED
  BY <1>1, <1>2, <1>3, <1>4, <1>5, <1>6, <1>7, <1>8, <1>9, <1>10, <1>11, <1>12, <1>13
     DEF Next, Execute

(* The types and the bounds of the loops are an invariant.                   *)
THEOREM TypeInvariant == Spec => []TypeInv
<1>1. Init => TypeInv
  <2> SUFFICES ASSUME Init PROVE TypeInv
    OBVIOUS
  <2>1. \A c \in Calls : /\ held[c] <= Len(Paths[c]) /\ ~Awaits(c)
                         /\ step[c] # "releasing" /\ reply[c] = "none"
    <3>1. ASSUME NEW c \in Calls
          PROVE  /\ held[c] <= Len(Paths[c]) /\ ~Awaits(c)
                 /\ step[c] # "releasing" /\ reply[c] = "none"
      <4>1. held[c] = 0 /\ step[c] = "idle" /\ reply[c] = "none"
        BY DEF Init
      <4>2. Len(Paths[c]) \in Nat
        BY PathIndices
      <4> QED BY <4>1, <4>2 DEF Awaits
    <3> QED BY <3>1
  <2> QED BY <2>1, TtlAssumption DEF Init, TypeInv, RegistryTyped, WireTyped, CallsTyped,
                                     HistoryTyped, LoopInv
<1>2. TypeInv /\ [Next]_vars => TypeInv'
  BY TypeStep
<1> QED BY <1>1, <1>2, PTL DEF Spec

(* The variables keep their types, and an awaited request is for one of the  *)
(* call's own paths, whatever fails or is executed late.                     *)
THEOREM TypeCorrect == Spec => []TypeOK
BY TypeInvariant, TypeParts, PTL

-----------------------------------------------------------------------------
(***************************************************************************)
(* Exclusion.                                                              *)
(***************************************************************************)
(* Claims are on assets of the registry.                                     *)
LEMMA ClaimedAssets ==
  ASSUME NEW c \in Calls
  PROVE  Claimed(c) \subseteq Assets
BY PathIndices DEF Claimed

(* A step that leaves the registry alone and adds no claim keeps every lease *)
(* that is claimed, if it forgets the lapses of dropped claims only.         *)
LEMMA ClaimsDropped ==
  ASSUME HeldIsLeased, UNCHANGED <<holder, left>>,
         \A c \in Calls : \A a \in Claimed(c)' :
           a \in Claimed(c) /\ (<<c, a>> \in lapsed => <<c, a>> \in lapsed')
  PROVE  HeldIsLeased'
BY DEF HeldIsLeased

(* Nor does taking entries out of the registry break it: it lapses claims.   *)
LEMMA EntriesRemoved ==
  ASSUME HeldIsLeased, NEW S, Remove(S), Lapse(S),
         \A c \in Calls : Claimed(c)' = Claimed(c)
  PROVE  HeldIsLeased'
<1> SUFFICES ASSUME NEW c \in Calls, NEW a \in Claimed(c), <<c, a>> \notin lapsed'
             PROVE  holder'[a] = OwnerOf[c] /\ left'[a] > 0
  BY DEF HeldIsLeased
<1>1. a \in Assets
  BY ClaimedAssets
<1>2. <<c, a>> \notin lapsed /\ a \notin S
  BY <1>1 DEF Lapse
<1>3. holder[a] = OwnerOf[c] /\ left[a] > 0
  BY <1>2 DEF HeldIsLeased
<1> QED BY <1>1, <1>2, <1>3 DEF Remove

(* An acquire takes no lease away: what is claimed and leased stays so.      *)
LEMMA AcquireKeepsLeases ==
  ASSUME TypeInv, HeldIsLeased, NEW o \in Owners, NEW b \in Assets,
         NEW ttl \in 1..Ttl, AcquireLock(o, b, ttl),
         NEW c \in Calls, NEW a \in Claimed(c), <<c, a>> \notin lapsed
  PROVE  holder'[a] = OwnerOf[c] /\ left'[a] > 0
<1>1. a \in Assets /\ holder[a] = OwnerOf[c] /\ left[a] > 0
      /\ OwnerOf[c] \in Owners
  BY ClaimedAssets, OwnerOfAssumption DEF HeldIsLeased
<1>2. Purged[a] = OwnerOf[c]
  BY <1>1 DEF Purged
<1>3. Grants(o, b) /\ a = b => OwnerOf[c] = o
  BY <1>1, <1>2, NoOwnerAssumption DEF Grants
<1>4. Purged \in [Assets -> Owners \cup {NoOwner}] /\ left \in [Assets -> 0..Ttl]
      /\ ttl > 0
  BY DEF TypeInv, RegistryTyped, Purged
<1>5. CASE Grants(o, b)
  BY <1>1, <1>2, <1>3, <1>4, <1>5 DEF AcquireLock
<1>6. CASE ~Grants(o, b)
  BY <1>1, <1>2, <1>6 DEF AcquireLock
<1> QED BY <1>5, <1>6

(* A lock that is granted is leased to the session that asked.               *)
LEMMA GrantIsLease ==
  ASSUME TypeInv, NEW o \in Owners, NEW b \in Assets, NEW ttl \in 1..Ttl,
         AcquireLock(o, b, ttl), Grants(o, b)
  PROVE  holder'[b] = o /\ left'[b] > 0
<1>1. ttl > 0 /\ Purged \in [Assets -> Owners \cup {NoOwner}]
      /\ left \in [Assets -> 0..Ttl]
  BY DEF TypeInv, RegistryTyped, Purged
<1> QED BY <1>1 DEF AcquireLock

(* An answer adds no claim, but the lock it grants.                          *)
LEMMA AnswerClaims ==
  ASSUME TypeInv, NEW f \in frames,
         NEW r \in {"acquired", "busy", "dialog", "released"}, Answers(f, r),
         r = "acquired" => f.step = "acquiring",
         NEW c \in Calls, NEW a \in Claimed(c)'
  PROVE  \/ a \in Claimed(c)
         \/ r = "acquired" /\ c = f.call /\ a = Asset(f)
<1>1. PICK j \in DOMAIN Paths[c] :
        /\ a = Paths[c][j]
        /\ \/ step'[c] = "running"
           \/ step'[c] = "acquiring" /\ j < at'[c]
           \/ step'[c] = "acquiring" /\ j = at'[c] /\ reply'[c] = "acquired"
  BY DEF Claimed
<1>2. step' = step /\ at' = at
  BY DEF Answers
<1>3. CASE reply'[c] = reply[c]
  BY <1>1, <1>2, <1>3 DEF Claimed
<1>4. CASE reply'[c] # reply[c]
  <2>1. c = f.call /\ f = Pending(c) /\ reply'[c] = r
    BY <1>4, FrameAsset DEF Answers, TypeInv, CallsTyped
  <2>2. f.at = at[c]
    BY <2>1 DEF Pending
  <2> QED BY <1>1, <1>2, <2>1, <2>2 DEF Claimed, Asset
<1> QED BY <1>3, <1>4

(* A call that leaves its claims behind, or goes on to its next lock, claims *)
(* nothing new.                                                              *)
LEMMA CallStepClaims ==
  ASSUME TypeInv, NEW c \in Calls, CallStep(c),
         NEW d \in Calls, NEW a \in Claimed(d)'
  PROVE  /\ a \in Claimed(d)
         /\ <<d, a>> \in lapsed => <<d, a>> \in lapsed'
<1> USE DEF TypeInv, CallsTyped
<1>1. PICK j \in DOMAIN Paths[d] :
        /\ a = Paths[d][j]
        /\ \/ step'[d] = "running"
           \/ step'[d] = "acquiring" /\ j < at'[d]
           \/ step'[d] = "acquiring" /\ j = at'[d] /\ reply'[d] = "acquired"
  BY DEF Claimed
<1>2. /\ j \in 1..Len(Paths[d]) /\ Len(Paths[d]) \in Nat
      /\ at[d] \in Nat
  BY PathIndices
<1>3. CASE d # c
  <2>1. step'[d] = step[d] /\ at'[d] = at[d] /\ reply'[d] = reply[d]
    BY <1>3 DEF CallStep, Begin, AcquireAnswered, LockTaken, GiveUp, ReleaseAnswered,
                CallFails, RunEnds, ReleaseAll, NextRelease, Ask, Enter, Forget
  <2>2. a \in Claimed(d)
    BY <1>1, <2>1 DEF Claimed
  <2>3. lapsed' = lapsed \/ lapsed' = {p \in lapsed : p[1] \notin {c}}
    BY DEF CallStep, Begin, AcquireAnswered, LockTaken, GiveUp, ReleaseAnswered,
           CallFails, RunEnds, ReleaseAll, NextRelease, Unclaimed
  <2> QED BY <1>3, <2>2, <2>3
<1>4. CASE d = c
  <2>1. CASE Begin(c)
    <3>1. step'[c] \in {"unlocked", "acquiring"}
          /\ (step'[c] = "acquiring" => at'[c] = 1) /\ reply'[c] = "none"
      BY <2>1 DEF Begin, Enter, Ask, LoopInv, Awaits
    <3> QED BY <1>1, <1>2, <1>4, <3>1
  <2>2. CASE AcquireAnswered(c)
    <3>1. CASE reply[c] = "acquired" /\ LockTaken(c)
      <4>1. step[c] = "acquiring" /\ at[c] \in 1..Len(Paths[c]) /\ lapsed' = lapsed
            /\ reply'[c] = "none"
        BY <2>2, <3>1, PathIndices DEF AcquireAnswered, LockTaken, Awaits
      <4>2. j <= at[c]
        <5>1. CASE at[c] = Len(Paths[c])
          BY <1>2, <1>4, <5>1
        <5>2. CASE at[c] # Len(Paths[c])
          <6>1. step'[c] = "acquiring" /\ at'[c] = at[c] + 1
            BY <3>1, <5>2 DEF LockTaken, Ask
          <6> QED BY <1>1, <1>2, <1>4, <4>1, <6>1
        <5> QED BY <5>1, <5>2
      <4> QED BY <1>1, <1>2, <1>4, <3>1, <4>1, <4>2 DEF Claimed
    <3>2. CASE GiveUp(c)
      <4>1. step'[c] \in {"done", "releasing"}
        BY <3>2 DEF GiveUp, ReleaseAll, Enter, Ask
      <4> QED BY <1>1, <1>4, <4>1
    <3> QED BY <2>2, <3>1, <3>2 DEF AcquireAnswered
  <2>3. CASE ReleaseAnswered(c) \/ CallFails(c)
    <3>1. step'[c] \in {"done", "releasing", "unlocked"}
      BY <2>3 DEF ReleaseAnswered, CallFails, ReleaseAll, NextRelease, Enter, Ask
    <3> QED BY <1>1, <1>4, <3>1
  <2>4. CASE RunEnds(c)
    <3>1. step'[c] \in {"done", "releasing"}
      BY <2>4 DEF RunEnds, ReleaseAll, Enter, Ask
    <3> QED BY <1>1, <1>4, <3>1
  <2> QED BY <2>1, <2>2, <2>3, <2>4 DEF CallStep
<1> QED BY <1>3, <1>4

(* Every step keeps what is claimed leased.                                  *)
LEMMA HeldStep ==
  ASSUME TypeInv, HeldIsLeased, [Next]_vars
  PROVE  HeldIsLeased'
<1>1. ASSUME NEW c \in Calls, CallStep(c) PROVE HeldIsLeased'
  <2>1. UNCHANGED <<holder, left>>
    BY <1>1 DEF CallStep, Begin, AcquireAnswered, ReleaseAnswered, CallFails, RunEnds,
                registryVars
  <2> QED BY <1>1, <2>1, CallStepClaims, ClaimsDropped
<1>2. ASSUME NEW c \in Calls, RefusedByDialog(c) PROVE HeldIsLeased'
  <2>1. /\ Pending(c) \in frames /\ Answers(Pending(c), "dialog")
        /\ UNCHANGED <<holder, left, lapsed>>
    BY <1>2 DEF RefusedByDialog, registryVars
  <2>2. \A d \in Calls : \A a \in Claimed(d)' : a \in Claimed(d)
    BY <2>1, AnswerClaims
  <2> QED BY <2>1, <2>2, ClaimsDropped
<1>3. ASSUME NEW f \in frames, ExecuteAcquire(f) PROVE HeldIsLeased'
  <2> DEFINE o == OwnerOf[f.call]
  <2> DEFINE b == Asset(f)
  <2> DEFINE r == IF Grants(o, b) THEN "acquired" ELSE "busy"
  <2>1. f.call \in Calls /\ o \in Owners /\ b \in Assets /\ Ttl \in 1..Ttl
    BY FrameAsset, TtlAssumption DEF TypeInv
  <2>2. f.step = "acquiring" /\ AcquireLock(o, b, Ttl) /\ Answers(f, r)
    BY <1>3 DEF ExecuteAcquire
  <2>3. lapsed' = IF Grants(o, b) THEN lapsed \ {<<f.call, b>>} ELSE lapsed
    BY <1>3 DEF ExecuteAcquire
  <2> HIDE DEF o, b
  <2>4. ASSUME NEW c \in Calls, NEW a \in Claimed(c)', <<c, a>> \notin lapsed'
        PROVE  holder'[a] = OwnerOf[c] /\ left'[a] > 0
    <3>1. CASE Grants(o, b) /\ c = f.call /\ a = b
      BY <2>1, <2>2, <3>1, GrantIsLease DEF o
    <3>2. CASE ~(Grants(o, b) /\ c = f.call /\ a = b)
      <4>1. a \in Claimed(c)
        BY <2>2, <3>2, AnswerClaims DEF b
      <4>2. <<c, a>> \notin lapsed
        BY <2>3, <2>4, <3>2
      <4> QED BY <2>1, <2>2, <4>1, <4>2, AcquireKeepsLeases
    <3> QED BY <3>1, <3>2
  <2> QED BY <2>4 DEF HeldIsLeased
<1>4. ASSUME NEW f \in frames, ExecuteRelease(f) PROVE HeldIsLeased'
  <2> DEFINE S == Releasable(OwnerOf[f.call], Asset(f), FALSE)
  <2>1. Remove(S) /\ Lapse(S) /\ Answers(f, "released")
    BY <1>4 DEF ExecuteRelease, ReleaseLock
  <2>2. f.call \in Calls /\ f.step = "releasing"
    BY <1>4, FrameAsset DEF ExecuteRelease, TypeInv
  <2>3. step' = step /\ at' = at
    BY <2>1 DEF Answers
  <2>4. \A c \in Calls : step[c] = "acquiring" => reply'[c] = reply[c]
    BY <2>1, <2>2 DEF Answers, Pending, TypeInv, CallsTyped
  <2>5. \A c \in Calls : Claimed(c)' = Claimed(c)
    BY <2>3, <2>4 DEF Claimed
  <2> HIDE DEF S
  <2> QED BY <2>1, <2>5, EntriesRemoved
<1>5. ASSUME UNCHANGED callVars PROVE \A c \in Calls : Claimed(c)' = Claimed(c)
  BY <1>5 DEF callVars, Claimed
<1>6. ASSUME NEW f \in frames, Lost(f) PROVE HeldIsLeased'
  BY <1>5, <1>6, ClaimsDropped DEF Lost, registryVars
<1>7. ASSUME NEW o \in Owners, UnlockAll(o) PROVE HeldIsLeased'
  BY <1>5, <1>7, EntriesRemoved DEF UnlockAll
<1>8. ASSUME NEW o \in Owners, OwnerCrashes(o) PROVE HeldIsLeased'
  <2>1. \A c \in Calls \ Served(o) :
          step'[c] = step[c] /\ at'[c] = at[c] /\ reply'[c] = reply[c]
    BY <1>8 DEF OwnerCrashes, Forget
  <2>2. \A c \in Served(o) : Claimed(c)' = {}
    BY <1>8 DEF OwnerCrashes, Served, Claimed
  <2>3. \A c \in Calls \ Served(o) : Claimed(c)' = Claimed(c)
    BY <2>1 DEF Claimed
  <2>4. UNCHANGED <<holder, left>> /\ lapsed' = {p \in lapsed : p[1] \notin Served(o)}
    BY <1>8 DEF OwnerCrashes, Unclaimed, registryVars
  <2> QED BY <2>2, <2>3, <2>4, ClaimsDropped
<1>9. ASSUME NEW o \in Owners, NEW a \in Assets, Lock(o, a) PROVE HeldIsLeased'
  <2>1. PICK ttl \in 1..Ttl : AcquireLock(o, a, ttl)
    BY <1>9 DEF Lock
  <2>2. lapsed' = lapsed /\ \A c \in Calls : Claimed(c)' = Claimed(c)
    BY <1>5, <1>9 DEF Lock
  <2>3. \A c \in Calls : \A b \in Claimed(c) :
          <<c, b>> \notin lapsed => holder'[b] = OwnerOf[c] /\ left'[b] > 0
    BY <2>1, AcquireKeepsLeases
  <2> QED BY <2>2, <2>3 DEF HeldIsLeased
<1>10. ASSUME NEW o \in Owners, NEW a \in Assets, Unlock(o, a) PROVE HeldIsLeased'
  <2>1. PICK force \in BOOLEAN : ReleaseLock(o, a, force)
    BY <1>10 DEF Unlock
  <2>2. \A c \in Calls : Claimed(c)' = Claimed(c)
    BY <1>5, <1>10 DEF Unlock
  <2> QED BY <2>1, <2>2, EntriesRemoved DEF ReleaseLock
<1>11. CASE ListLocks
  <2>1. lapsed' = lapsed /\ left' = left /\ holder' = Purged
        /\ \A c \in Calls : Claimed(c)' = Claimed(c)
    BY <1>5, <1>11 DEF ListLocks
  <2>2. ASSUME NEW c \in Calls, NEW a \in Claimed(c), <<c, a>> \notin lapsed
        PROVE  holder'[a] = OwnerOf[c] /\ left'[a] > 0
    <3>1. a \in Assets /\ left[a] \in 0..Ttl
      BY ClaimedAssets DEF TypeInv, RegistryTyped
    <3>2. holder[a] = OwnerOf[c] /\ left[a] > 0
      BY <2>2 DEF HeldIsLeased
    <3> QED BY <2>1, <3>1, <3>2 DEF Purged
  <2> QED BY <2>1, <2>2 DEF HeldIsLeased
<1>12. CASE Tick
  <2>1. /\ holder' = holder /\ Lapse({b \in Assets : left[b] = 1})
        /\ left' = [b \in Assets |-> IF left[b] > 0 THEN left[b] - 1 ELSE 0]
    BY <1>12 DEF Tick
  <2>2. \A c \in Calls : Claimed(c)' = Claimed(c)
    BY <1>5, <1>12 DEF Tick
  <2>3. ASSUME NEW c \in Calls, NEW a \in Claimed(c), <<c, a>> \notin lapsed'
        PROVE  holder'[a] = OwnerOf[c] /\ left'[a] > 0
    <3>1. a \in Assets /\ left[a] \in 0..Ttl
      BY ClaimedAssets DEF TypeInv, RegistryTyped
    <3>2. <<c, a>> \notin lapsed /\ left[a] # 1
      BY <2>1, <2>3, <3>1 DEF Lapse
    <3>3. holder[a] = OwnerOf[c] /\ left[a] > 0
      BY <3>2 DEF HeldIsLeased
    <3> QED BY <2>1, <3>1, <3>2, <3>3
  <2> QED BY <2>2, <2>3 DEF HeldIsLeased
<1>13. CASE EditorRestarts
  BY <1>5, <1>13, EntriesRemoved DEF EditorRestarts
<1>14. CASE UNCHANGED vars
  <2>1. UNCHANGED <<holder, left, lapsed>> /\ \A c \in Calls : Claimed(c)' = Claimed(c)
    BY <1>5, <1>14 DEF vars, callVars
  <2> QED BY <2>1, ClaimsDropped
<1> QED
  BY <1>1, <1>2, <1>3, <1>4, <1>6, <1>7, <1>8, <1>9, <1>10, <1>11, <1>12, <1>13, <1>14
     DEF Next, Execute

(* A lock that a call relies on is leased to its session until it lapses.    *)
THEOREM ClaimsAreLeased == Spec => []HeldIsLeased
<1>1. Init => HeldIsLeased
  BY DEF Init, HeldIsLeased, Claimed
<1>2. TypeInv /\ HeldIsLeased /\ [Next]_vars => HeldIsLeased'
  BY HeldStep
<1> QED BY <1>1, <1>2, TypeInvariant, PTL DEF Spec

(* The locks exclude: two sessions run under the lock of one asset only      *)
(* after a lease ended early, however requests fail, are late or are refused. *)
THEOREM LocksExclude == Spec => []Serialised
<1>1. HeldIsLeased => Serialised
  BY DEF HeldIsLeased, Serialised
<1> QED BY <1>1, ClaimsAreLeased, PTL

-----------------------------------------------------------------------------
(***************************************************************************)
(* Nothing stranded.  A lease that a call's request created is owed by that *)
(* call, until the answer to its release: each index of its paths is taken, *)
(* being released, or named adrift.  An acquire that nobody awaits any more *)
(* may still be executed, so its frame has to be excused beforehand.        *)
(***************************************************************************)
OwedAt(c, i) ==
  \/ step[c] = "running"
  \/ step[c] = "acquiring" /\ i < at[c]
  \/ step[c] = "acquiring" /\ i = at[c] /\ reply[c] = "acquired"
  \/ /\ step[c] = "releasing" /\ at[c] <= i /\ i <= held[c]
     /\ i = at[c] => reply[c] # "released"

Excused(o, a) == o \in crashed \/ <<o, a>> \in adrift

FramesAwaited ==
  \A f \in frames : f.step = "acquiring" =>
    \/ Unanswered(f.call) /\ f = Pending(f.call)
    \/ Excused(OwnerOf[f.call], Asset(f))

ReleaseReplies ==
  \A c \in Calls : step[c] = "releasing" => reply[c] \notin {"acquired", "busy"}

LeasesOwed ==
  \A a \in Assets : holder[a] # NoOwner =>
    \/ Excused(holder[a], a)
    \/ \E c \in Calls : /\ OwnerOf[c] = holder[a]
                        /\ \E i \in DOMAIN Paths[c] : Paths[c][i] = a /\ OwedAt(c, i)

StrandInv == FramesAwaited /\ ReleaseReplies /\ LeasesOwed

(* What is owed is held or being released.                                   *)
LEMMA OwedIsKept == TypeInv /\ StrandInv => NothingStranded
<1> SUFFICES ASSUME TypeInv, StrandInv, NEW a \in Assets,
                    holder[a] # NoOwner, ~Excused(holder[a], a)
             PROVE  \E c \in Calls : /\ OwnerOf[c] = holder[a]
                                    /\ a \in Claimed(c) \cup Releasing(c)
  BY DEF NothingStranded, Excused
<1>1. PICK c \in Calls :
        /\ OwnerOf[c] = holder[a]
        /\ \E i \in DOMAIN Paths[c] : Paths[c][i] = a /\ OwedAt(c, i)
  BY DEF StrandInv, LeasesOwed
<1>2. a \in Claimed(c) \cup Releasing(c)
  BY <1>1 DEF OwedAt, Claimed, Releasing
<1> QED BY <1>1, <1>2

(* A step that adds no entry, and after which what was owed of the entries   *)
(* that stay is still owed or excused, keeps every lease owed.               *)
LEMMA StillOwed ==
  ASSUME LeasesOwed,
         \A a \in Assets : holder'[a] \in {holder[a], NoOwner},
         crashed \subseteq crashed', adrift \subseteq adrift',
         \A c \in Calls : \A i \in DOMAIN Paths[c] :
           OwedAt(c, i) /\ holder'[Paths[c][i]] = OwnerOf[c]
             => OwedAt(c, i)' \/ Excused(OwnerOf[c], Paths[c][i])'
  PROVE  LeasesOwed'
<1> SUFFICES ASSUME NEW a \in Assets, holder'[a] # NoOwner, ~Excused(holder[a], a)'
             PROVE  \E c \in Calls :
                      /\ OwnerOf[c] = holder'[a]
                      /\ \E i \in DOMAIN Paths[c] : Paths[c][i] = a /\ OwedAt(c, i)'
  BY DEF LeasesOwed
<1>1. holder'[a] = holder[a] /\ ~Excused(holder[a], a)
  BY DEF Excused
<1>2. PICK c \in Calls :
        /\ OwnerOf[c] = holder[a]
        /\ \E i \in DOMAIN Paths[c] : Paths[c][i] = a /\ OwedAt(c, i)
  BY <1>1 DEF LeasesOwed
<1>3. PICK i \in DOMAIN Paths[c] : Paths[c][i] = a /\ OwedAt(c, i)
  BY <1>2
<1>4. OwedAt(c, i)'
  BY <1>1, <1>2, <1>3
<1> QED BY <1>1, <1>2, <1>3, <1>4

(* A call's own step: what it owed it owes on, or names adrift.              *)
LEMMA CallStepOwes ==
  ASSUME TypeInv, ReleaseReplies, NEW c \in Calls, CallStep(c),
         NEW i \in DOMAIN Paths[c], OwedAt(c, i)
  PROVE  OwedAt(c, i)' \/ <<OwnerOf[c], Paths[c][i]>> \in adrift'
<1> USE DEF TypeInv, CallsTyped
<1>1. /\ i \in 1..Len(Paths[c]) /\ Len(Paths[c]) \in Nat
      /\ at[c] \in Nat \ {0} /\ held[c] \in Nat
  BY PathIndices
<1>2. ASSUME NEW n \in Nat, NEW s, ReleaseAll(c, n, s), i <= n,
             reply' = [reply EXCEPT ![c] = "none"]
      PROVE  OwedAt(c, i)'
  <2>1. step'[c] = "releasing" /\ at'[c] = 1 /\ held'[c] = n /\ reply'[c] = "none"
    BY <1>1, <1>2 DEF ReleaseAll, Ask
  <2> QED BY <1>1, <1>2, <2>1 DEF OwedAt
<1>3. CASE Begin(c)
  BY <1>3 DEF Begin, OwedAt
<1>4. CASE AcquireAnswered(c)
  <2>1. step[c] = "acquiring" /\ at[c] \in 1..Len(Paths[c])
        /\ reply' = [reply EXCEPT ![c] = "none"]
    BY <1>4, PathIndices DEF AcquireAnswered, Awaits
  <2>2. CASE reply[c] = "acquired" /\ LockTaken(c)
    <3>1. i <= at[c]
      BY <1>1, <2>1 DEF OwedAt
    <3>2. CASE at[c] = Len(Paths[c])
      <4>1. step'[c] = "running"
        BY <2>2, <3>2 DEF LockTaken, Enter
      <4> QED BY <4>1 DEF OwedAt
    <3>3. CASE at[c] # Len(Paths[c])
      <4>1. step'[c] = "acquiring" /\ at'[c] = at[c] + 1
        BY <2>2, <3>3 DEF LockTaken, Ask
      <4> QED BY <1>1, <3>1, <4>1 DEF OwedAt
    <3> QED BY <3>2, <3>3
  <2>3. CASE reply[c] \in {"busy", "dialog"} /\ GiveUp(c)
    <3>1. i <= at[c] - 1 /\ at[c] - 1 \in Nat
      BY <1>1, <2>1, <2>3 DEF OwedAt
    <3> QED BY <1>2, <2>1, <2>3, <3>1 DEF GiveUp
  <2> QED BY <1>4, <2>2, <2>3 DEF AcquireAnswered
<1>5. ASSUME step[c] = "releasing", NextRelease(c), i # at[c]
      PROVE  OwedAt(c, i)'
  <2>1. at[c] < i /\ i <= held[c]
    BY <1>1, <1>5 DEF OwedAt
  <2>2. /\ step'[c] = "releasing" /\ at'[c] = at[c] + 1
        /\ held'[c] = held[c] /\ reply'[c] = "none"
    BY <1>1, <1>5, <2>1 DEF NextRelease, Ask
  <2> QED BY <1>1, <2>1, <2>2 DEF OwedAt
<1>6. CASE ReleaseAnswered(c)
  <2>1. step[c] = "releasing" /\ reply[c] # "none" /\ NextRelease(c)
    BY <1>6 DEF ReleaseAnswered
  <2>2. CASE i # at[c]
    BY <1>5, <2>1, <2>2
  <2>3. CASE i = at[c]
    <3>1. reply[c] = "dialog"
      BY <1>1, <2>1, <2>3 DEF OwedAt, ReleaseReplies
    <3> QED BY <1>6, <2>3, <3>1 DEF ReleaseAnswered, GoesAdrift
  <2> QED BY <2>2, <2>3
<1>7. CASE CallFails(c)
  <2>1. GoesAdrift(c) /\ reply' = [reply EXCEPT ![c] = "none"]
    BY <1>7 DEF CallFails
  <2>2. CASE i = at[c]
    BY <2>1, <2>2 DEF GoesAdrift
  <2>3. CASE i # at[c] /\ step[c] = "acquiring" /\ ReleaseAll(c, at[c] - 1, "unlocked")
    <3>1. i <= at[c] - 1 /\ at[c] - 1 \in Nat
      BY <1>1, <2>3 DEF OwedAt
    <3> QED BY <1>2, <2>1, <2>3, <3>1
  <2>4. CASE i # at[c] /\ step[c] = "releasing" /\ NextRelease(c)
    BY <1>5, <2>4
  <2> QED BY <1>7, <2>2, <2>3, <2>4 DEF CallFails
<1>8. CASE RunEnds(c)
  <2>1. step[c] = "running"
    BY <1>8 DEF RunEnds, OwedAt
  <2>2. ReleaseAll(c, Len(Paths[c]), "done") /\ reply' = reply /\ reply[c] = "none"
    BY <1>8, <2>1 DEF RunEnds, LoopInv, Awaits
  <2>3. Len(Paths[c]) # 0
    BY <1>1
  <2>4. /\ step'[c] = "releasing" /\ at'[c] = 1 /\ held'[c] = Len(Paths[c])
        /\ reply'[c] = "none"
    BY <2>2, <2>3 DEF ReleaseAll, Ask
  <2> QED BY <1>1, <2>4 DEF OwedAt
<1> QED BY <1>3, <1>4, <1>6, <1>7, <1>8 DEF CallStep

(* A call's step takes the answer that was there, and is its own.            *)
LEMMA CallStepSteps ==
  ASSUME TypeInv, NEW c \in Calls, CallStep(c)
  PROVE  /\ reply'[c] = "none"
         /\ \A d \in Calls \ {c} : /\ step'[d] = step[d] /\ at'[d] = at[d]
                                   /\ reply'[d] = reply[d] /\ held'[d] = held[d]
<1> USE DEF TypeInv, CallsTyped, Ask, Enter, Forget
<1>1. CASE Begin(c)
  <2>1. reply' = reply /\ reply[c] = "none"
    BY <1>1 DEF Begin, LoopInv, Awaits
  <2>2. CASE Enter(c, "unlocked")
    BY <2>1, <2>2
  <2>3. CASE Ask(c, "acquiring", 1) /\ UNCHANGED <<held, then>>
    BY <2>1, <2>3
  <2> QED BY <1>1, <2>2, <2>3 DEF Begin
<1>2. CASE AcquireAnswered(c)
  <2>1. reply' = [reply EXCEPT ![c] = "none"]
    BY <1>2 DEF AcquireAnswered
  <2>2. CASE LockTaken(c)
    BY <2>1, <2>2 DEF LockTaken
  <2>3. CASE GiveUp(c)
    BY <2>1, <2>3 DEF GiveUp, ReleaseAll
  <2> QED BY <1>2, <2>2, <2>3 DEF AcquireAnswered
<1>3. CASE ReleaseAnswered(c)
  BY <1>3 DEF ReleaseAnswered, NextRelease
<1>4. CASE CallFails(c)
  BY <1>4 DEF CallFails, ReleaseAll, NextRelease
<1>5. CASE RunEnds(c)
  BY <1>5 DEF RunEnds, ReleaseAll, LoopInv, Awaits
<1> QED BY <1>1, <1>2, <1>3, <1>4, <1>5 DEF CallStep

(* A call's step leaves no acquire behind that could still be executed, but  *)
(* the one it awaits or one it names adrift.                                 *)
LEMMA CallStepFrames ==
  ASSUME TypeInv, FramesAwaited, NEW c \in Calls, CallStep(c)
  PROVE  FramesAwaited'
<1> USE DEF TypeInv, CallsTyped
<1>1. UNCHANGED crashed /\ adrift \subseteq adrift'
  BY DEF CallStep, Begin, AcquireAnswered, ReleaseAnswered, CallFails, RunEnds, GoesAdrift
<1>2. reply'[c] = "none" /\ \A d \in Calls \ {c} :
        step'[d] = step[d] /\ at'[d] = at[d] /\ reply'[d] = reply[d]
  BY CallStepSteps
<1>3. \/ frames' = frames
      \/ /\ frames' = frames \cup {[call |-> c, step |-> step'[c], at |-> at'[c]]}
         /\ step'[c] \in {"acquiring", "releasing"}
  BY DEF CallStep, Begin, AcquireAnswered, LockTaken, GiveUp, ReleaseAnswered,
         CallFails, RunEnds, ReleaseAll, NextRelease, Ask, Enter
<1> SUFFICES ASSUME NEW f \in frames', f.step = "acquiring"
             PROVE  \/ Unanswered(f.call)' /\ f = Pending(f.call)'
                    \/ Excused(OwnerOf[f.call], Asset(f))'
  BY DEF FramesAwaited
<1>4. CASE f \notin frames
  <2>1. f = [call |-> c, step |-> step'[c], at |-> at'[c]] /\ f.call = c
    BY <1>3, <1>4
  <2>2. Unanswered(c)'
    BY <1>2, <1>3, <1>4 DEF Unanswered, Awaits
  <2> QED BY <2>1, <2>2 DEF Pending
<1>5. CASE f \in frames
  <2>1. f.call \in Calls
    BY <1>5, FrameAsset
  <2>2. CASE Excused(OwnerOf[f.call], Asset(f))
    BY <1>1, <2>2 DEF Excused, Asset
  <2>3. CASE f.call # c /\ Unanswered(f.call) /\ f = Pending(f.call)
    BY <1>2, <2>1, <2>3 DEF Unanswered, Awaits, Pending
  <2>4. CASE f.call = c /\ Unanswered(c) /\ f = Pending(c)
    <3>1. CallFails(c)
      BY <2>4 DEF CallStep, Begin, AcquireAnswered, ReleaseAnswered, RunEnds,
                  Unanswered, Awaits
    <3>2. f.at = at[c]
      BY <2>4 DEF Pending
    <3> QED BY <2>4, <3>1, <3>2 DEF CallFails, GoesAdrift, Excused, Asset
  <2> QED BY <1>5, <2>2, <2>3, <2>4 DEF FramesAwaited
<1> QED BY <1>4, <1>5

(* An answer that reaches its call: its frame is gone, and nothing else is.  *)
LEMMA AnswerFrames ==
  ASSUME TypeInv, FramesAwaited, ReleaseReplies, NEW f \in frames,
         NEW r \in {"acquired", "busy", "dialog", "released"}, Answers(f, r),
         r \in {"acquired", "busy"} => f.step = "acquiring"
  PROVE  FramesAwaited' /\ ReleaseReplies'
<1> USE DEF TypeInv, CallsTyped
<1>1. UNCHANGED <<step, at, held, crashed, adrift>> /\ frames' = frames \ {f}
  BY DEF Answers
<1>2. \A c \in Calls : \/ reply'[c] = reply[c]
                       \/ reply'[c] = r /\ c = f.call /\ f = Pending(c) /\ Unanswered(c)
  BY DEF Answers
<1>3. FramesAwaited'
  <2> SUFFICES ASSUME NEW g \in frames', g.step = "acquiring",
                      ~Excused(OwnerOf[g.call], Asset(g))
               PROVE  Unanswered(g.call)' /\ g = Pending(g.call)'
    BY <1>1 DEF FramesAwaited, Excused, Asset
  <2>1. g \in frames /\ g # f /\ g.call \in Calls
    BY <1>1, FrameAsset
  <2>2. Unanswered(g.call) /\ g = Pending(g.call)
    BY <2>1 DEF FramesAwaited
  <2>3. reply'[g.call] = reply[g.call]
    BY <1>2, <2>1, <2>2
  <2> QED BY <1>1, <2>2, <2>3 DEF Unanswered, Awaits, Pending
<1>4. ReleaseReplies'
  <2> SUFFICES ASSUME NEW c \in Calls, step'[c] = "releasing"
               PROVE  reply'[c] \notin {"acquired", "busy"}
    BY DEF ReleaseReplies
  <2>1. CASE reply'[c] = reply[c]
    BY <1>1, <2>1 DEF ReleaseReplies
  <2>2. CASE reply'[c] = r /\ f = Pending(c)
    <3>1. f.step = "releasing"
      BY <1>1, <2>2 DEF Pending
    <3> QED BY <2>2, <3>1
  <2> QED BY <1>2, <2>1, <2>2
<1> QED BY <1>3, <1>4

(* What is owed after an answer, apart from the index that was answered.     *)
LEMMA AnswerOwes ==
  ASSUME TypeInv, NEW f \in frames,
         NEW r \in {"acquired", "busy", "dialog", "released"}, Answers(f, r),
         NEW c \in Calls, NEW i \in DOMAIN Paths[c], OwedAt(c, i)
  PROVE  \/ OwedAt(c, i)'
         \/ r = "released" /\ c = f.call /\ i = f.at
<1> USE DEF TypeInv, CallsTyped
<1>1. UNCHANGED <<step, at, held>>
  BY DEF Answers
<1>2. CASE reply'[c] = reply[c]
  BY <1>1, <1>2 DEF OwedAt
<1>3. CASE reply'[c] # reply[c]
  <2>1. c = f.call /\ f = Pending(c) /\ reply[c] = "none" /\ reply'[c] = r
    BY <1>3, FrameAsset DEF Answers, Unanswered
  <2>2. f.at = at[c]
    BY <2>1 DEF Pending
  <2> QED BY <1>1, <2>1, <2>2 DEF OwedAt
<1> QED BY <1>2, <1>3

(* A step of the rest of the system keeps the three parts, when it adds no   *)
(* frame and no entry and leaves the calls alone.                            *)
LEMMA OutsideStrands ==
  ASSUME TypeInv, StrandInv, UNCHANGED callVars, frames' \subseteq frames,
         crashed \subseteq crashed', adrift \subseteq adrift',
         \A a \in Assets : holder'[a] \in {holder[a], NoOwner}
  PROVE  StrandInv'
<1> USE DEF StrandInv, callVars
<1>1. \A c \in Calls : \A i \in DOMAIN Paths[c] : OwedAt(c, i)' = OwedAt(c, i)
  BY DEF OwedAt
<1>2. LeasesOwed'
  BY <1>1, StillOwed
<1>3. \A c \in Calls : Unanswered(c)' = Unanswered(c) /\ Pending(c)' = Pending(c)
  BY DEF Unanswered, Awaits, Pending
<1>4. \A f \in frames : f.call \in Calls
  BY FrameAsset DEF TypeInv
<1>5. FramesAwaited'
  BY <1>3, <1>4 DEF FramesAwaited, Excused, Asset
<1> QED BY <1>2, <1>5 DEF ReleaseReplies

(* Entries taken out of the registry.                                        *)
LEMMA RemoveHolder ==
  ASSUME NEW S, Remove(S)
  PROVE  \A a \in Assets : holder'[a] \in {holder[a], NoOwner}
BY DEF Remove

(* A lease that is granted: it is the only entry that a step adds.           *)
LEMMA AcquireHolder ==
  ASSUME RegistryTyped, NEW o \in Owners, NEW b \in Assets, NEW ttl, AcquireLock(o, b, ttl),
         NEW a \in Assets, holder'[a] \notin {holder[a], NoOwner}
  PROVE  Grants(o, b) /\ a = b /\ holder'[a] = o
<1>1. Purged \in [Assets -> Owners \cup {NoOwner}]
  BY DEF RegistryTyped, Purged
<1>2. Purged[a] \in {holder[a], NoOwner}
  BY DEF Purged
<1> QED BY <1>1, <1>2 DEF AcquireLock

(* Every step keeps what is leased owed.                                     *)
LEMMA StrandStep ==
  ASSUME TypeInv, StrandInv, [Next]_vars
  PROVE  StrandInv'
<1>0. FramesAwaited /\ ReleaseReplies /\ LeasesOwed /\ WireTyped /\ RegistryTyped
  BY DEF StrandInv, TypeInv
<1>1. ASSUME NEW c \in Calls, CallStep(c) PROVE StrandInv'
  <2>1. UNCHANGED <<holder, crashed>> /\ adrift \subseteq adrift'
    BY <1>1 DEF CallStep, Begin, AcquireAnswered, ReleaseAnswered, CallFails, RunEnds,
                registryVars, GoesAdrift
  <2>2. /\ reply'[c] = "none"
        /\ \A d \in Calls \ {c} : /\ step'[d] = step[d] /\ at'[d] = at[d]
                                  /\ reply'[d] = reply[d] /\ held'[d] = held[d]
    BY <1>1, CallStepSteps
  <2>3. ReleaseReplies'
    BY <1>0, <2>2 DEF ReleaseReplies
  <2>4. ASSUME NEW d \in Calls, NEW i \in DOMAIN Paths[d], OwedAt(d, i)
        PROVE  OwedAt(d, i)' \/ Excused(OwnerOf[d], Paths[d][i])'
    <3>1. CASE d = c
      BY <1>0, <1>1, <2>4, <3>1, CallStepOwes DEF Excused
    <3>2. CASE d # c
      BY <2>2, <2>4, <3>2 DEF OwedAt
    <3> QED BY <3>1, <3>2
  <2>5. LeasesOwed'
    BY <1>0, <2>1, <2>4, StillOwed
  <2> QED BY <1>0, <1>1, <2>3, <2>5, CallStepFrames DEF StrandInv
<1>2. ASSUME NEW c \in Calls, RefusedByDialog(c) PROVE StrandInv'
  <2>1. /\ Pending(c) \in frames /\ Answers(Pending(c), "dialog")
        /\ UNCHANGED <<holder, crashed, adrift>>
    BY <1>2 DEF RefusedByDialog, registryVars, Answers
  <2>2. FramesAwaited' /\ ReleaseReplies'
    BY <1>0, <2>1, AnswerFrames
  <2>3. \A d \in Calls : \A i \in DOMAIN Paths[d] : OwedAt(d, i) => OwedAt(d, i)'
    BY <2>1, AnswerOwes
  <2>4. LeasesOwed'
    BY <1>0, <2>1, <2>3, StillOwed
  <2> QED BY <2>2, <2>4 DEF StrandInv
<1>3. ASSUME NEW f \in frames, ExecuteAcquire(f) PROVE StrandInv'
  <2> DEFINE o == OwnerOf[f.call]
  <2> DEFINE b == Asset(f)
  <2> DEFINE r == IF Grants(o, b) THEN "acquired" ELSE "busy"
  <2>1. f.call \in Calls /\ o \in Owners /\ b \in Assets /\ f.at \in DOMAIN Paths[f.call]
    BY <1>0, FrameAsset DEF WireTyped
  <2>2. /\ f.step = "acquiring" /\ AcquireLock(o, b, Ttl) /\ Answers(f, r)
        /\ UNCHANGED <<step, at, held, crashed, adrift>>
    BY <1>3 DEF ExecuteAcquire, Answers
  <2>3. FramesAwaited' /\ ReleaseReplies'
    BY <1>0, <2>2, AnswerFrames
  <2>4. \A d \in Calls : \A i \in DOMAIN Paths[d] : OwedAt(d, i) => OwedAt(d, i)'
    BY <2>2, AnswerOwes
  <2>5. ASSUME Grants(o, b), ~Excused(o, b) PROVE OwedAt(f.call, f.at)'
    <3>1. Unanswered(f.call) /\ f = Pending(f.call)
      BY <1>0, <2>2, <2>5 DEF FramesAwaited
    <3>2. step[f.call] = "acquiring" /\ f.at = at[f.call]
      BY <2>2, <3>1 DEF Pending
    <3>3. reply'[f.call] = "acquired"
      BY <2>1, <2>2, <2>5, <3>1 DEF Answers, TypeInv, CallsTyped
    <3> QED BY <2>2, <3>2, <3>3 DEF OwedAt
  <2>6. LeasesOwed'
    <3> SUFFICES ASSUME NEW a \in Assets, holder'[a] # NoOwner, ~Excused(holder[a], a)'
                 PROVE  \E c \in Calls :
                          /\ OwnerOf[c] = holder'[a]
                          /\ \E i \in DOMAIN Paths[c] : Paths[c][i] = a /\ OwedAt(c, i)'
      BY DEF LeasesOwed
    <3>1. CASE holder'[a] = holder[a]
      <4>1. ~Excused(holder[a], a)
        BY <2>2, <3>1 DEF Excused
      <4>2. PICK c \in Calls :
              /\ OwnerOf[c] = holder[a]
              /\ \E i \in DOMAIN Paths[c] : Paths[c][i] = a /\ OwedAt(c, i)
        BY <1>0, <3>1, <4>1 DEF LeasesOwed
      <4> QED BY <2>4, <3>1, <4>2
    <3>2. CASE holder'[a] # holder[a]
      <4>1. Grants(o, b) /\ a = b /\ holder'[a] = o
        BY <1>0, <2>1, <2>2, <3>2, AcquireHolder
      <4>2. ~Excused(o, b)
        BY <2>2, <4>1 DEF Excused
      <4>3. OwedAt(f.call, f.at)' /\ Paths[f.call][f.at] = a
        BY <2>5, <4>1, <4>2 DEF Asset
      <4> QED BY <2>1, <4>1, <4>3
    <3> QED BY <3>1, <3>2
  <2> QED BY <2>3, <2>6 DEF StrandInv
<1>4. ASSUME NEW f \in frames, ExecuteRelease(f) PROVE StrandInv'
  <2>1. /\ Remove(Releasable(OwnerOf[f.call], Asset(f), FALSE)) /\ Answers(f, "released")
        /\ f.step = "releasing" /\ UNCHANGED <<crashed, adrift>>
    BY <1>4 DEF ExecuteRelease, ReleaseLock, Answers
  <2>2. FramesAwaited' /\ ReleaseReplies'
    BY <1>0, <2>1, AnswerFrames
  <2>3. f.call \in Calls /\ Asset(f) \in Assets /\ OwnerOf[f.call] \in Owners
    BY <1>0, FrameAsset
  <2>4. holder'[Asset(f)] # OwnerOf[f.call]
    BY <2>1, <2>3, NoOwnerAssumption DEF Remove, Releasable
  <2>5. \A d \in Calls : \A i \in DOMAIN Paths[d] :
          OwedAt(d, i) /\ holder'[Paths[d][i]] = OwnerOf[d] => OwedAt(d, i)'
    BY <2>1, <2>4, AnswerOwes DEF Asset
  <2>6. LeasesOwed'
    BY <1>0, <2>1, <2>5, RemoveHolder, StillOwed
  <2> QED BY <2>2, <2>6 DEF StrandInv
<1>5. ASSUME NEW f \in frames, Lost(f) PROVE StrandInv'
  BY <1>5, OutsideStrands DEF Lost, registryVars
<1>6. ASSUME NEW o \in Owners, UnlockAll(o) PROVE StrandInv'
  BY <1>6, RemoveHolder, OutsideStrands DEF UnlockAll
<1>7. ASSUME NEW o \in Owners, OwnerCrashes(o) PROVE StrandInv'
  <2>1. /\ UNCHANGED <<holder, frames, adrift>> /\ crashed' = crashed \cup {o}
        /\ \A c \in Calls \ Served(o) : /\ step'[c] = step[c] /\ at'[c] = at[c]
                                        /\ reply'[c] = reply[c] /\ held'[c] = held[c]
        /\ \A c \in Served(o) : step'[c] = "crashed"
    BY <1>7 DEF OwnerCrashes, Forget, registryVars, Served
  <2>2. \A c \in Served(o) : OwnerOf[c] \in crashed'
    BY <2>1 DEF Served
  <2>3. ReleaseReplies'
    BY <1>0, <2>1 DEF ReleaseReplies
  <2>4. FramesAwaited'
    <3>1. \A f \in frames : f.call \in Calls
      BY <1>0, FrameAsset
    <3> QED BY <1>0, <2>1, <2>2, <3>1 DEF FramesAwaited, Excused, Asset, Unanswered, Awaits,
                                          Pending
  <2>5. \A c \in Calls : \A i \in DOMAIN Paths[c] :
          OwedAt(c, i) => OwedAt(c, i)' \/ Excused(OwnerOf[c], Paths[c][i])'
    BY <2>1, <2>2 DEF OwedAt, Excused
  <2>6. LeasesOwed'
    BY <1>0, <2>1, <2>5, StillOwed
  <2> QED BY <2>3, <2>4, <2>6 DEF StrandInv
<1>8. ASSUME NEW o \in Owners, NEW a \in Assets, Lock(o, a) PROVE StrandInv'
  <2>1. PICK ttl \in 1..Ttl : AcquireLock(o, a, ttl)
    BY <1>8 DEF Lock
  <2>2. /\ UNCHANGED <<frames, crashed, callVars>> /\ adrift \subseteq adrift'
        /\ Grants(o, a) => <<o, a>> \in adrift'
    BY <1>8 DEF Lock
  <2>3. UNCHANGED <<step, at, held, reply>>
    BY <2>2 DEF callVars
  <2>4. FramesAwaited' /\ ReleaseReplies'
    BY <1>0, <2>2, <2>3 DEF FramesAwaited, ReleaseReplies, Excused, Asset, Unanswered, Awaits,
                            Pending
  <2>5. LeasesOwed'
    <3> SUFFICES ASSUME NEW b \in Assets, holder'[b] # NoOwner, ~Excused(holder[b], b)'
                 PROVE  \E c \in Calls :
                          /\ OwnerOf[c] = holder'[b]
                          /\ \E i \in DOMAIN Paths[c] : Paths[c][i] = b /\ OwedAt(c, i)'
      BY DEF LeasesOwed
    <3>1. holder'[b] = holder[b]
      BY <1>0, <2>1, <2>2, AcquireHolder DEF Excused
    <3>2. ~Excused(holder[b], b)
      BY <2>2, <3>1 DEF Excused
    <3>3. PICK c \in Calls :
            /\ OwnerOf[c] = holder[b]
            /\ \E i \in DOMAIN Paths[c] : Paths[c][i] = b /\ OwedAt(c, i)
      BY <1>0, <3>1, <3>2 DEF LeasesOwed
    <3> QED BY <2>3, <3>1, <3>3 DEF OwedAt
  <2> QED BY <2>4, <2>5 DEF StrandInv
<1>9. ASSUME NEW o \in Owners, NEW a \in Assets, Unlock(o, a) PROVE StrandInv'
  <2>1. PICK force \in BOOLEAN : Remove(Releasable(o, a, force))
    BY <1>9 DEF Unlock, ReleaseLock
  <2>2. \A b \in Assets : holder'[b] \in {holder[b], NoOwner}
    BY <2>1, RemoveHolder
  <2> QED BY <1>9, <2>2, OutsideStrands DEF Unlock
<1>10. CASE ListLocks
  <2>1. \A b \in Assets : holder'[b] \in {holder[b], NoOwner}
    BY <1>10 DEF ListLocks, Purged
  <2> QED BY <1>10, <2>1, OutsideStrands DEF ListLocks
<1>11. CASE Tick
  BY <1>11, OutsideStrands DEF Tick
<1>12. CASE EditorRestarts
  BY <1>12, RemoveHolder, OutsideStrands DEF EditorRestarts
<1>13. CASE UNCHANGED vars
  BY <1>13, OutsideStrands DEF vars, callVars
<1> QED
  BY <1>1, <1>2, <1>3, <1>4, <1>5, <1>6, <1>7, <1>8, <1>9, <1>10, <1>11, <1>12, <1>13
     DEF Next, Execute

(* No branch of withAssetLocks leaves a lock to its TTL: while its session   *)
(* lives, an entry is held or being released by a call, unless an agent took *)
(* it by hand or a request failed or was refused.                            *)
THEOREM LocksAreNotStranded == Spec => []NothingStranded
<1>1. Init => StrandInv
  BY DEF Init, StrandInv, FramesAwaited, ReleaseReplies, LeasesOwed
<1>2. TypeInv /\ StrandInv /\ [Next]_vars => StrandInv'
  BY StrandStep
<1> QED BY <1>1, <1>2, OwedIsKept, TypeInvariant, PTL DEF Spec

-----------------------------------------------------------------------------
(***************************************************************************)
(* How long a call can be.                                                 *)
(***************************************************************************)
(* The steps a call has left at most, with len paths, in step s, at index i *)
(* of the loop it is in, with n locks to release.                           *)
StepsLeft(len, s, i, n) ==
  IF s = "idle" THEN 2 * len + 3
  ELSE IF s = "acquiring" THEN 2 * len + 3 - i
  ELSE IF s = "running" THEN len + 2
  ELSE IF s = "releasing" THEN n + 2 - i
  ELSE IF s = "unlocked" THEN 1 ELSE 0

Left(c) == StepsLeft(Len(Paths[c]), step[c], at[c], held[c])

LeftBounded == \A c \in Calls : Left(c) \in Nat /\ Left(c) <= 2 * Len(Paths[c]) + 3

(* Each step of a call brings its end nearer; and nothing another call, an   *)
(* agent, the clock, the network or the editor does puts it off.             *)
CallsRunDown ==
  \A c \in Calls : Left(c)' <= Left(c) /\ (CallStep(c) => Left(c)' < Left(c))

(* The numbers: a step on is a step nearer, and so is a release of what was  *)
(* taken.                                                                    *)
LEMMA StepsLeftFall ==
  ASSUME NEW len \in Nat, NEW i \in Nat \ {0}, NEW n \in Nat, NEW j, NEW m
  PROVE  /\ StepsLeft(len, "unlocked", j, m) < StepsLeft(len, "idle", i, n)
         /\ StepsLeft(len, "acquiring", 1, m) < StepsLeft(len, "idle", i, n)
         /\ i <= len =>
              /\ StepsLeft(len, "acquiring", i + 1, m) < StepsLeft(len, "acquiring", i, n)
              /\ StepsLeft(len, "running", j, m) < StepsLeft(len, "acquiring", i, n)
              /\ StepsLeft(len, "releasing", 1, i - 1) < StepsLeft(len, "acquiring", i, n)
              /\ \A s \in {"unlocked", "done"} :
                   StepsLeft(len, s, j, m) < StepsLeft(len, "acquiring", i, n)
         /\ StepsLeft(len, "releasing", 1, len) < StepsLeft(len, "running", i, n)
         /\ StepsLeft(len, "done", j, m) < StepsLeft(len, "running", i, n)
         /\ StepsLeft(len, "done", j, m) < StepsLeft(len, "unlocked", i, n)
         /\ i <= n =>
              /\ StepsLeft(len, "releasing", i + 1, n) < StepsLeft(len, "releasing", i, n)
              /\ \A s \in {"unlocked", "done"} :
                   StepsLeft(len, s, j, m) < StepsLeft(len, "releasing", i, n)
BY DEF StepsLeft

(* They are numbers, and bounded by the number of paths.                     *)
LEMMA StepsLeftBounded ==
  ASSUME NEW len \in Nat, NEW i \in Nat \ {0}, NEW n \in Nat, n <= len, NEW s,
         s = "acquiring" => i <= len, s = "releasing" => i <= n
  PROVE  StepsLeft(len, s, i, n) \in Nat /\ StepsLeft(len, s, i, n) <= 2 * len + 3
BY DEF StepsLeft

(* So they are of each call.                                                 *)
LEMMA StepsLeftTyped ==
  ASSUME CallsTyped, LoopInv, NEW c \in Calls
  PROVE  Left(c) \in Nat /\ Left(c) <= 2 * Len(Paths[c]) + 3
<1>1. /\ Len(Paths[c]) \in Nat /\ at[c] \in Nat \ {0} /\ held[c] \in Nat
      /\ held[c] <= Len(Paths[c])
      /\ step[c] = "acquiring" => at[c] <= Len(Paths[c])
      /\ step[c] = "releasing" => at[c] <= held[c]
  BY PathIndices DEF CallsTyped, LoopInv, Awaits
<1> QED BY <1>1, StepsLeftBounded DEF Left

(* Where a call goes on to.                                                  *)
LEMMA EnterLands ==
  ASSUME CallsTyped, NEW c \in Calls, NEW s, Enter(c, s)
  PROVE  Left(c)' = StepsLeft(Len(Paths[c]), s, 1, 0)
BY DEF CallsTyped, Enter, Forget, Left

(* Or the request it sends next.                                             *)
LEMMA AskLands ==
  ASSUME CallsTyped, NEW c \in Calls, NEW s, NEW i, Ask(c, s, i)
  PROVE  Left(c)' = StepsLeft(Len(Paths[c]), s, i, held'[c])
BY DEF CallsTyped, Ask, Left

(* releaseAll ends the call, or sends the first of its releases.             *)
LEMMA ReleaseAllLands ==
  ASSUME CallsTyped, NEW c \in Calls, NEW n, NEW s, ReleaseAll(c, n, s)
  PROVE  Left(c)' \in {StepsLeft(Len(Paths[c]), s, 1, 0), StepsLeft(Len(Paths[c]), "releasing", 1, n)}
<1>1. CASE n = 0
  BY <1>1, EnterLands DEF ReleaseAll
<1>2. CASE n # 0
  <2>1. Ask(c, "releasing", 1) /\ held'[c] = n
    BY <1>2 DEF ReleaseAll, CallsTyped
  <2> QED BY <2>1, AskLands
<1> QED BY <1>1, <1>2

(* The next release is one step on.                                          *)
LEMMA NextReleaseLands ==
  ASSUME CallsTyped, LoopInv, NEW c \in Calls, step[c] = "releasing", NextRelease(c)
  PROVE  Left(c)' < Left(c)
<1>1. /\ Len(Paths[c]) \in Nat /\ at[c] \in Nat \ {0} /\ held[c] \in Nat
      /\ at[c] <= held[c] /\ then[c] \in {"unlocked", "done"}
      /\ Left(c) = StepsLeft(Len(Paths[c]), "releasing", at[c], held[c])
  BY PathIndices DEF CallsTyped, LoopInv, Left
<1>2. CASE at[c] = held[c]
  BY <1>1, <1>2, EnterLands, StepsLeftFall DEF NextRelease
<1>3. CASE at[c] # held[c]
  <2>1. Ask(c, "releasing", at[c] + 1) /\ held'[c] = held[c]
    BY <1>3 DEF NextRelease
  <2>2. Left(c)' = StepsLeft(Len(Paths[c]), "releasing", at[c] + 1, held[c])
    BY <2>1, AskLands
  <2> QED BY <1>1, <2>2, StepsLeftFall
<1> QED BY <1>2, <1>3

(* Each step of withAssetLocks brings its end nearer.                        *)
LEMMA CallStepFalls ==
  ASSUME TypeInv, NEW c \in Calls, CallStep(c)
  PROVE  Left(c)' < Left(c)
<1> DEFINE L == Len(Paths[c])
<1>0. /\ CallsTyped /\ LoopInv /\ L \in Nat /\ at[c] \in Nat \ {0} /\ held[c] \in Nat
      /\ step[c] = "acquiring" => at[c] <= L
      /\ Left(c) = StepsLeft(L, step[c], at[c], held[c])
  BY PathIndices DEF TypeInv, CallsTyped, Awaits, Left
<1>1. CASE Begin(c)
  <2>1. Left(c)' \in {StepsLeft(L, "unlocked", 1, 0), StepsLeft(L, "acquiring", 1, held'[c])}
    BY <1>0, <1>1, EnterLands, AskLands DEF Begin
  <2> HIDE DEF L
  <2> QED BY <1>0, <1>1, <2>1, StepsLeftFall DEF Begin
<1>a. ASSUME step[c] = "acquiring", NEW s \in {"unlocked", "done"}, ReleaseAll(c, at[c] - 1, s)
      PROVE  Left(c)' < Left(c)
  <2>1. Left(c)' \in {StepsLeft(L, s, 1, 0), StepsLeft(L, "releasing", 1, at[c] - 1)}
    BY <1>0, <1>a, ReleaseAllLands
  <2> HIDE DEF L
  <2> QED BY <1>0, <1>a, <2>1, StepsLeftFall
<1>2. CASE AcquireAnswered(c)
  <2>0. step[c] = "acquiring"
    BY <1>2 DEF AcquireAnswered
  <2>1. CASE LockTaken(c)
    <3>1. Left(c)' \in {StepsLeft(L, "running", 1, 0), StepsLeft(L, "acquiring", at[c] + 1, held'[c])}
      BY <1>0, <2>1, EnterLands, AskLands DEF LockTaken
    <3> HIDE DEF L
    <3> QED BY <1>0, <2>0, <3>1, StepsLeftFall
  <2>2. CASE GiveUp(c)
    BY <1>a, <2>0, <2>2 DEF GiveUp
  <2> QED BY <1>2, <2>1, <2>2 DEF AcquireAnswered
<1>3. CASE ReleaseAnswered(c)
  BY <1>0, <1>3, NextReleaseLands DEF ReleaseAnswered
<1>4. CASE CallFails(c)
  BY <1>0, <1>4, <1>a, NextReleaseLands DEF CallFails
<1>5. CASE RunEnds(c)
  <2>1. CASE step[c] = "running" /\ ReleaseAll(c, L, "done")
    <3>1. Left(c)' \in {StepsLeft(L, "done", 1, 0), StepsLeft(L, "releasing", 1, L)}
      BY <1>0, <2>1, ReleaseAllLands
    <3> HIDE DEF L
    <3> QED BY <1>0, <2>1, <3>1, StepsLeftFall
  <2>2. CASE step[c] = "unlocked" /\ Enter(c, "done")
    <3>1. Left(c)' = StepsLeft(L, "done", 1, 0)
      BY <1>0, <2>2, EnterLands
    <3> HIDE DEF L
    <3> QED BY <1>0, <2>2, <3>1, StepsLeftFall
  <2> QED BY <1>5, <2>1, <2>2 DEF RunEnds
<1> QED BY <1>1, <1>2, <1>3, <1>4, <1>5 DEF CallStep

(* What is not a step of a call leaves it where it is, or ends it with the   *)
(* server that made it.                                                      *)
LEMMA OthersLeaveCalls ==
  ASSUME TypeInv, [Next]_vars, NEW c \in Calls, ~CallStep(c)
  PROVE  \/ UNCHANGED <<step[c], at[c], held[c]>>
         \/ step'[c] = "crashed"
<1> USE DEF callVars
<1>1. CASE \E d \in Calls : CallStep(d)
  BY <1>1, CallStepSteps
<1>2. CASE \E d \in Calls : RefusedByDialog(d)
  BY <1>2 DEF RefusedByDialog, Answers
<1>3. CASE \E f \in frames : Execute(f) \/ Lost(f)
  BY <1>3 DEF Execute, ExecuteAcquire, ExecuteRelease, Answers, Lost
<1>4. CASE \E o \in Owners : UnlockAll(o) \/ \E a \in Assets : Lock(o, a) \/ Unlock(o, a)
  BY <1>4 DEF UnlockAll, Lock, Unlock
<1>5. CASE \E o \in Owners : OwnerCrashes(o)
  BY <1>5 DEF OwnerCrashes, Served, Forget, TypeInv, CallsTyped
<1>6. CASE ListLocks \/ Tick \/ EditorRestarts
  BY <1>6 DEF ListLocks, Tick, EditorRestarts
<1>7. CASE UNCHANGED vars
  BY <1>7 DEF vars
<1> QED BY <1>1, <1>2, <1>3, <1>4, <1>5, <1>6, <1>7 DEF Next

(* A call with L paths takes 2 L + 3 steps at most, those of its releases    *)
(* included, and each brings its end nearer; no lock that another holds, no  *)
(* lease, loss or restart puts it off (what CallEnds rests on: no wait of    *)
(* withAssetLocks depends on another call).                                  *)
THEOREM CallsAreBounded ==
  Spec => []LeftBounded /\ [][CallsRunDown]_vars
<1>1. TypeInv => LeftBounded
  BY StepsLeftTyped DEF TypeInv, LeftBounded
<1>2. TypeInv' => LeftBounded'
  BY <1>1, PTL
<1>3. ASSUME TypeInv, TypeInv', [Next]_vars PROVE CallsRunDown
  <2> SUFFICES ASSUME NEW c \in Calls
               PROVE  Left(c)' <= Left(c) /\ (CallStep(c) => Left(c)' < Left(c))
    BY DEF CallsRunDown
  <2>1. Left(c) \in Nat /\ Left(c)' \in Nat
    BY <1>1, <1>3, <1>2 DEF LeftBounded
  <2>2. CASE CallStep(c)
    <3>1. Left(c)' < Left(c)
      BY <1>3, <2>2, CallStepFalls
    <3> QED BY <2>1, <3>1
  <2>3. CASE ~CallStep(c)
    <3>1. UNCHANGED <<step[c], at[c], held[c]>> \/ step'[c] = "crashed"
      BY <1>3, <2>3, OthersLeaveCalls
    <3>2. Left(c)' \in {Left(c), 0}
      BY <3>1 DEF Left, StepsLeft
    <3> QED BY <2>1, <2>3, <3>2
  <2> QED BY <2>2, <2>3
<1> QED BY <1>1, <1>3, TypeInvariant, PTL DEF Spec
=============================================================================
