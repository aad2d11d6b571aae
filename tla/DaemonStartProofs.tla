------------------------- MODULE DaemonStartProofs -------------------------
(***************************************************************************)
(* What DaemonStart promises, for any number of processes, releases and    *)
(* crashes: one starter at a time, one daemon, which can be found, and a   *)
(* record that is never downgraded; and without which three mistakes there *)
(* is never more than one.                                                 *)
(***************************************************************************)
EXTENDS DaemonStart, TLAPS

(* Neither the lock was removed by mistake nor a live starter's for its    *)
(* age.                                                                    *)
Kept == ~raced /\ ~aged

(* Who is between the creation of the lock and its removal owns it.        *)
LockOwned == Kept => \A p \in Procs : pc[p] \in Section => lock.by = p

(* What a starter is about to remove was left by a process that is gone.   *)
SeenGone == ~aged => \A p \in Procs : seen[p] # NoProc => pc[seen[p]] = "gone"

(* The files and `existing' name processes that were launched; `existing'  *)
(* is older than its successor.                                            *)
Named ==
  /\ lock.by # NoProc => pc[lock.by] # "idle"
  /\ record # NoProc => pc[record] \in {"release", "unlink", "serve", "withdraw", "unrecord", "gone"}
  /\ \A p \in Procs : existing[p] # NoProc => pc[existing[p]] # "idle"
  /\ \A p \in Procs : existing[p] # NoProc => pc[p] # "idle"
  /\ \A p \in Procs : existing[p] # NoProc => version[existing[p]] < version[p]

(* A starter that holds the lock knows the live daemon; when it goes on to *)
(* publish with that daemon's record still there, its wait ran out. It     *)
(* meets no rival, so it never has a record of its own to remove.          *)
Knows(p) ==
  /\ pc[p] \in {"start", "await", "rival", "publish"} => LiveRecord \in {NoProc, existing[p]}
  /\ pc[p] \in {"rival", "publish"} => LiveRecord \in overran \cup {NoProc}
  /\ goal[p] # "withdraw"

StarterKnows == Kept => \A p \in Procs : Knows(p)

(* p has published, it has not removed its record, and no successor        *)
(* stopped waiting for it.                                                 *)
Published(p) ==
  /\ \/ pc[p] \in {"serve", "withdraw", "unrecord"}
     \/ pc[p] \in {"release", "unlink"} /\ goal[p] = "serve"
  /\ p \notin overran

Findable == ~Mistaken => \A p \in Procs : Published(p) => record = p

LockInv == TypeOK /\ LockOwned /\ SeenGone /\ Named

IInv == LockInv /\ StarterKnows /\ Findable

-----------------------------------------------------------------------------
(***************************************************************************)
(* Type correctness.                                                       *)
(***************************************************************************)
(* The lock files there are: none, and any that a process created.         *)
LEMMA LockFiles ==
  /\ NoLock \in LockFile
  /\ \A p \in Procs, w, o \in BOOLEAN : [by |-> p, written |-> w, old |-> o] \in LockFile
<1>1. NoLock \in [by : Procs \cup {NoProc}, written : BOOLEAN, old : BOOLEAN]
  BY DEF NoLock
<1>2. ASSUME NEW p \in Procs, NEW w \in BOOLEAN, NEW o \in BOOLEAN
      PROVE  [by |-> p, written |-> w, old |-> o] \in LockFile
  <2> DEFINE l == [by |-> p, written |-> w, old |-> o]
  <2>1. l \in [by : Procs \cup {NoProc}, written : BOOLEAN, old : BOOLEAN]
    OBVIOUS
  <2>2. l.by # NoProc
    BY NoProcAssumption
  <2> HIDE DEF l
  <2>3. l \in LockFile
    BY <2>1, <2>2 DEF LockFile
  <2> QED BY <2>3 DEF l
<1> QED BY <1>1, <1>2 DEF LockFile

(* What a lock file says.                                                  *)
LEMMA LockFields ==
  TypeOK => /\ lock.by \in Procs \cup {NoProc}
            /\ lock.written \in BOOLEAN /\ lock.old \in BOOLEAN
            /\ lock.by = NoProc <=> lock = NoLock
BY DEF TypeOK, LockFile, NoLock

LEMMA TypeInit == Init => TypeOK
<1> SUFFICES ASSUME Init PROVE TypeOK
  OBVIOUS
<1>1. PICK at \in {"serve", "gone"}, v \in Versions :
        /\ pc = [p \in Procs |-> IF p = Earlier THEN at ELSE "idle"]
        /\ version = [p \in Procs |-> IF p = Earlier THEN v ELSE 0]
        /\ record \in IF at = "serve" THEN {Earlier} ELSE {NoProc, Earlier}
        /\ \/ lock = NoLock
           \/ /\ at = "gone" /\ Earlier # NoProc
              /\ \E w \in BOOLEAN : lock = [by |-> Earlier, written |-> w, old |-> FALSE]
  BY DEF Init
<1>2. pc \in [Procs -> Steps] /\ version \in [Procs -> Nat]
  BY <1>1, VersionsAssumption DEF Steps
<1>3. record \in Procs \cup {NoProc}
  BY <1>1, EarlierAssumption
<1>4. lock \in LockFile
  <2>1. CASE Earlier = NoProc
    BY <1>1, <2>1, LockFiles
  <2>2. CASE Earlier \in Procs
    BY <1>1, <2>2, LockFiles
  <2> QED BY <2>1, <2>2, EarlierAssumption
<1>5. /\ goal \in [Procs -> {"serve", "withdraw", "gone"}]
      /\ existing \in [Procs -> Procs \cup {NoProc}]
      /\ seen \in [Procs -> Procs \cup {NoProc}]
      /\ again \in [Procs -> BOOLEAN] /\ asked \in [Procs -> BOOLEAN]
      /\ crashes \in 0 .. MaxCrashes
  BY MaxCrashesAssumption DEF Init
<1>6. raced \in BOOLEAN /\ aged \in BOOLEAN /\ recordRaced \in BOOLEAN /\ overran = {}
  BY DEF Init
<1> QED BY <1>2, <1>3, <1>4, <1>5, <1>6 DEF TypeOK

LEMMA TypeNext == TypeOK /\ [Next]_vars => TypeOK'
<1> SUFFICES ASSUME TypeOK, [Next]_vars PROVE TypeOK'
  OBVIOUS
<1> USE VersionsAssumption, MaxCrashesAssumption, LockFiles
    DEF TypeOK, Goto, Steps, own, files, races, history
<1>1. ASSUME NEW p \in Procs, Launch(p) PROVE TypeOK'
  BY <1>1 DEF Launch
<1>2. ASSUME NEW p \in Procs, Look(p) PROVE TypeOK'
  BY <1>2 DEF Look, Rival, LiveRecord
<1>3. ASSUME NEW p \in Procs, Open(p) PROVE TypeOK'
  BY <1>3 DEF Open
<1>4. ASSUME NEW p \in Procs, Write(p) PROVE TypeOK'
  BY <1>4 DEF Write
<1>5. ASSUME NEW p \in Procs, Inspect(p) PROVE TypeOK'
  <2>1. aged' \in BOOLEAN
    BY <1>5 DEF Inspect
  <2>2. seen' \in [Procs -> Procs \cup {NoProc}]
    BY <1>5, LockFields DEF Inspect
  <2> QED BY <1>5, <2>1, <2>2 DEF Inspect
<1>6. ASSUME NEW p \in Procs, Reap(p) PROVE TypeOK'
  BY <1>6 DEF Reap
<1>7. ASSUME NEW p \in Procs, Reread(p) PROVE TypeOK'
  BY <1>7 DEF Reread, Rival, LiveRecord
<1>8. ASSUME NEW p \in Procs, Start(p) PROVE TypeOK'
  BY <1>8 DEF Start, Live
<1>9. ASSUME NEW p \in Procs, StartFails(p) PROVE TypeOK'
  BY <1>9 DEF StartFails
<1>10. ASSUME NEW p \in Procs, AwaitEnds(p) PROVE TypeOK'
  BY <1>10 DEF AwaitEnds
<1>11. ASSUME NEW p \in Procs, AwaitRunsOut(p) PROVE TypeOK'
  BY <1>11 DEF AwaitRunsOut
<1>12. ASSUME NEW p \in Procs, CheckRival(p) PROVE TypeOK'
  BY <1>12 DEF CheckRival
<1>13. ASSUME NEW p \in Procs, Publish(p) PROVE TypeOK'
  BY <1>13 DEF Publish
<1>14. ASSUME NEW p \in Procs, Release(p) PROVE TypeOK'
  BY <1>14 DEF Release, Leaves
<1>15. ASSUME NEW p \in Procs, Unlink(p) PROVE TypeOK'
  BY <1>15 DEF Unlink, Leaves
<1>16. ASSUME NEW p \in Procs, HandOff(p) PROVE TypeOK'
  BY <1>16 DEF HandOff
<1>17. ASSUME NEW p \in Procs, Stop(p) PROVE TypeOK'
  BY <1>17 DEF Stop
<1>18. ASSUME NEW p \in Procs, Withdraw(p) PROVE TypeOK'
  BY <1>18 DEF Withdraw
<1>19. ASSUME NEW p \in Procs, Unrecord(p) PROVE TypeOK'
  BY <1>19 DEF Unrecord
<1>20. ASSUME NEW p \in Procs, Crash(p) PROVE TypeOK'
  BY <1>20 DEF Crash
<1>21. CASE LockAges
  <2>1. lock' = [by |-> lock.by, written |-> lock.written, old |-> TRUE]
        /\ lock.by \in Procs /\ lock.written \in BOOLEAN
    BY <1>21 DEF LockAges, LockFile
  <2>2. lock' \in LockFile
    BY <2>1, LockFiles
  <2> QED BY <1>21, <2>2 DEF LockAges
<1>22. CASE UNCHANGED vars
  BY <1>22 DEF vars
<1> QED BY <1>1, <1>2, <1>3, <1>4, <1>5, <1>6, <1>7, <1>8, <1>9, <1>10, <1>11, <1>12, <1>13, <1>14, <1>15, <1>16, <1>17, <1>18, <1>19, <1>20, <1>21, <1>22 DEF Next, Starter, Daemon

-----------------------------------------------------------------------------
(***************************************************************************)
(* The lock.                                                               *)
(***************************************************************************)
(* The section is entered with an absent lock, and left by its owner.       *)
LEMMA OwnedNext == LockInv /\ [Next]_vars => LockOwned'
<1> SUFFICES ASSUME LockInv, [Next]_vars PROVE LockOwned'
  OBVIOUS
<1> USE TypeNext, LockFields, NoProcAssumption
    DEF LockInv, LockOwned, SeenGone, Kept, TypeOK, Steps, Section, Goto, own, files, races, history
<1>1. ASSUME NEW p \in Procs, Launch(p) PROVE LockOwned'
  BY <1>1 DEF Launch
<1>2. ASSUME NEW p \in Procs, Look(p) PROVE LockOwned'
  BY <1>2 DEF Look
<1>3. ASSUME NEW p \in Procs, Open(p) PROVE LockOwned'
  BY <1>3 DEF Open
<1>4. ASSUME NEW p \in Procs, Write(p) PROVE LockOwned'
  BY <1>4 DEF Write
<1>5. ASSUME NEW p \in Procs, Inspect(p) PROVE LockOwned'
  BY <1>5 DEF Inspect
<1>6. ASSUME NEW p \in Procs, Reap(p) PROVE LockOwned'
  BY <1>6 DEF Reap
<1>7. ASSUME NEW p \in Procs, Reread(p) PROVE LockOwned'
  BY <1>7 DEF Reread
<1>8. ASSUME NEW p \in Procs, Start(p) PROVE LockOwned'
  BY <1>8 DEF Start
<1>9. ASSUME NEW p \in Procs, StartFails(p) PROVE LockOwned'
  BY <1>9 DEF StartFails
<1>10. ASSUME NEW p \in Procs, AwaitEnds(p) PROVE LockOwned'
  BY <1>10 DEF AwaitEnds
<1>11. ASSUME NEW p \in Procs, AwaitRunsOut(p) PROVE LockOwned'
  BY <1>11 DEF AwaitRunsOut
<1>12. ASSUME NEW p \in Procs, CheckRival(p) PROVE LockOwned'
  BY <1>12 DEF CheckRival
<1>13. ASSUME NEW p \in Procs, Publish(p) PROVE LockOwned'
  BY <1>13 DEF Publish
<1>14. ASSUME NEW p \in Procs, Release(p) PROVE LockOwned'
  BY <1>14 DEF Release, Leaves
<1>15. ASSUME NEW p \in Procs, Unlink(p) PROVE LockOwned'
  BY <1>15 DEF Unlink, Leaves
<1>16. ASSUME NEW p \in Procs, HandOff(p) PROVE LockOwned'
  BY <1>16 DEF HandOff
<1>17. ASSUME NEW p \in Procs, Stop(p) PROVE LockOwned'
  BY <1>17 DEF Stop
<1>18. ASSUME NEW p \in Procs, Withdraw(p) PROVE LockOwned'
  BY <1>18 DEF Withdraw
<1>19. ASSUME NEW p \in Procs, Unrecord(p) PROVE LockOwned'
  BY <1>19 DEF Unrecord
<1>20. ASSUME NEW p \in Procs, Crash(p) PROVE LockOwned'
  BY <1>20 DEF Crash
<1>21. CASE LockAges
  BY <1>21 DEF LockAges
<1>22. CASE UNCHANGED vars
  BY <1>22 DEF vars
<1> QED BY <1>1, <1>2, <1>3, <1>4, <1>5, <1>6, <1>7, <1>8, <1>9, <1>10, <1>11, <1>12, <1>13, <1>14, <1>15, <1>16, <1>17, <1>18, <1>19, <1>20, <1>21, <1>22 DEF Next, Starter, Daemon

(* A lock is read for removal when its owner is gone; nobody comes back.    *)
LEMMA SeenNext == LockInv /\ [Next]_vars => SeenGone'
<1> SUFFICES ASSUME LockInv, [Next]_vars PROVE SeenGone'
  OBVIOUS
<1> USE TypeNext, LockFields, NoProcAssumption
    DEF LockInv, SeenGone, Named, TypeOK, Steps, Goto, own, files, races, history
<1>1. ASSUME NEW p \in Procs, Launch(p) PROVE SeenGone'
  BY <1>1 DEF Launch
<1>2. ASSUME NEW p \in Procs, Look(p) PROVE SeenGone'
  BY <1>2 DEF Look
<1>3. ASSUME NEW p \in Procs, Open(p) PROVE SeenGone'
  BY <1>3 DEF Open
<1>4. ASSUME NEW p \in Procs, Write(p) PROVE SeenGone'
  BY <1>4 DEF Write
<1>5. ASSUME NEW p \in Procs, Inspect(p) PROVE SeenGone'
  BY <1>5 DEF Inspect, Held, Live
<1>6. ASSUME NEW p \in Procs, Reap(p) PROVE SeenGone'
  BY <1>6 DEF Reap
<1>7. ASSUME NEW p \in Procs, Reread(p) PROVE SeenGone'
  BY <1>7 DEF Reread
<1>8. ASSUME NEW p \in Procs, Start(p) PROVE SeenGone'
  BY <1>8 DEF Start
<1>9. ASSUME NEW p \in Procs, StartFails(p) PROVE SeenGone'
  BY <1>9 DEF StartFails
<1>10. ASSUME NEW p \in Procs, AwaitEnds(p) PROVE SeenGone'
  BY <1>10 DEF AwaitEnds
<1>11. ASSUME NEW p \in Procs, AwaitRunsOut(p) PROVE SeenGone'
  BY <1>11 DEF AwaitRunsOut
<1>12. ASSUME NEW p \in Procs, CheckRival(p) PROVE SeenGone'
  BY <1>12 DEF CheckRival
<1>13. ASSUME NEW p \in Procs, Publish(p) PROVE SeenGone'
  BY <1>13 DEF Publish
<1>14. ASSUME NEW p \in Procs, Release(p) PROVE SeenGone'
  BY <1>14 DEF Release, Leaves
<1>15. ASSUME NEW p \in Procs, Unlink(p) PROVE SeenGone'
  BY <1>15 DEF Unlink, Leaves
<1>16. ASSUME NEW p \in Procs, HandOff(p) PROVE SeenGone'
  BY <1>16 DEF HandOff
<1>17. ASSUME NEW p \in Procs, Stop(p) PROVE SeenGone'
  BY <1>17 DEF Stop
<1>18. ASSUME NEW p \in Procs, Withdraw(p) PROVE SeenGone'
  BY <1>18 DEF Withdraw
<1>19. ASSUME NEW p \in Procs, Unrecord(p) PROVE SeenGone'
  BY <1>19 DEF Unrecord
<1>20. ASSUME NEW p \in Procs, Crash(p) PROVE SeenGone'
  BY <1>20 DEF Crash
<1>21. CASE LockAges
  BY <1>21 DEF LockAges
<1>22. CASE UNCHANGED vars
  BY <1>22 DEF vars
<1> QED BY <1>1, <1>2, <1>3, <1>4, <1>5, <1>6, <1>7, <1>8, <1>9, <1>10, <1>11, <1>12, <1>13, <1>14, <1>15, <1>16, <1>17, <1>18, <1>19, <1>20, <1>21, <1>22 DEF Next, Starter, Daemon

(* The files name processes that were launched.                            *)
LEMMA NamedNext == LockInv /\ [Next]_vars => Named'
<1> SUFFICES ASSUME LockInv, [Next]_vars PROVE Named'
  OBVIOUS
<1> USE LockFields, NoProcAssumption
    DEF LockInv, Named, TypeOK, Steps, Goto, own, files, races, history
<1>1. ASSUME NEW p \in Procs, Launch(p) PROVE Named'
  BY <1>1 DEF Launch
<1>2. ASSUME NEW p \in Procs, Look(p) PROVE Named'
  BY <1>2 DEF Look
<1>3. ASSUME NEW p \in Procs, Open(p) PROVE Named'
  BY <1>3 DEF Open
<1>4. ASSUME NEW p \in Procs, Write(p) PROVE Named'
  BY <1>4 DEF Write
<1>5. ASSUME NEW p \in Procs, Inspect(p) PROVE Named'
  BY <1>5 DEF Inspect
<1>6. ASSUME NEW p \in Procs, Reap(p) PROVE Named'
  BY <1>6 DEF Reap, NoLock
<1>7. ASSUME NEW p \in Procs, Reread(p) PROVE Named'
  BY <1>7 DEF Reread, Rival, LiveRecord, Live
<1>8. ASSUME NEW p \in Procs, Start(p) PROVE Named'
  BY <1>8 DEF Start
<1>9. ASSUME NEW p \in Procs, StartFails(p) PROVE Named'
  BY <1>9 DEF StartFails
<1>10. ASSUME NEW p \in Procs, AwaitEnds(p) PROVE Named'
  BY <1>10 DEF AwaitEnds
<1>11. ASSUME NEW p \in Procs, AwaitRunsOut(p) PROVE Named'
  BY <1>11 DEF AwaitRunsOut
<1>12. ASSUME NEW p \in Procs, CheckRival(p) PROVE Named'
  BY <1>12 DEF CheckRival
<1>13. ASSUME NEW p \in Procs, Publish(p) PROVE Named'
  BY <1>13 DEF Publish
<1>14. ASSUME NEW p \in Procs, Release(p) PROVE Named'
  BY <1>14 DEF Release, Leaves
<1>15. ASSUME NEW p \in Procs, Unlink(p) PROVE Named'
  BY <1>15 DEF Unlink, Leaves, NoLock
<1>16. ASSUME NEW p \in Procs, HandOff(p) PROVE Named'
  BY <1>16 DEF HandOff
<1>17. ASSUME NEW p \in Procs, Stop(p) PROVE Named'
  BY <1>17 DEF Stop
<1>18. ASSUME NEW p \in Procs, Withdraw(p) PROVE Named'
  BY <1>18 DEF Withdraw
<1>19. ASSUME NEW p \in Procs, Unrecord(p) PROVE Named'
  BY <1>19 DEF Unrecord
<1>20. ASSUME NEW p \in Procs, Crash(p) PROVE Named'
  BY <1>20 DEF Crash
<1>21. CASE LockAges
  BY <1>21 DEF LockAges
<1>22. CASE UNCHANGED vars
  BY <1>22 DEF vars
<1> QED BY <1>1, <1>2, <1>3, <1>4, <1>5, <1>6, <1>7, <1>8, <1>9, <1>10, <1>11, <1>12, <1>13, <1>14, <1>15, <1>16, <1>17, <1>18, <1>19, <1>20, <1>21, <1>22 DEF Next, Starter, Daemon

-----------------------------------------------------------------------------
(***************************************************************************)
(* The record.                                                             *)
(***************************************************************************)
(* Only the owner of the lock publishes, and it waits first.               *)
LEMMA KnowsNext == LockInv /\ StarterKnows /\ [Next]_vars => StarterKnows'
<1> SUFFICES ASSUME LockInv /\ StarterKnows, [Next]_vars PROVE StarterKnows'
  OBVIOUS
<1> USE LockFields, NoProcAssumption
    DEF LockInv, LockOwned, Named, StarterKnows, Knows, Kept, LiveRecord, Live,
        TypeOK, Steps, Section, Goto, own, files, races, history
<1>1. ASSUME NEW p \in Procs, Launch(p) PROVE StarterKnows'
  BY <1>1 DEF Launch
<1>2. ASSUME NEW p \in Procs, Look(p) PROVE StarterKnows'
  BY <1>2 DEF Look
<1>3. ASSUME NEW p \in Procs, Open(p) PROVE StarterKnows'
  BY <1>3 DEF Open
<1>4. ASSUME NEW p \in Procs, Write(p) PROVE StarterKnows'
  BY <1>4 DEF Write
<1>5. ASSUME NEW p \in Procs, Inspect(p) PROVE StarterKnows'
  BY <1>5 DEF Inspect
<1>6. ASSUME NEW p \in Procs, Reap(p) PROVE StarterKnows'
  BY <1>6 DEF Reap
<1>7. ASSUME NEW p \in Procs, Reread(p) PROVE StarterKnows'
  <2>1. /\ UNCHANGED <<record, raced, aged, overran>> /\ pc[p] = "reread"
        /\ \A q \in Procs \ {p} : UNCHANGED <<pc[q], existing[q], goal[q]>>
        /\ goal'[p] \in {goal[p], "gone"}
    BY <1>7 DEF Reread
  <2>2. \/ pc'[p] = "release"
        \/ pc'[p] = "start" /\ existing'[p] = LiveRecord
    BY <1>7 DEF Reread
  <2>3. LiveRecord' = LiveRecord
    BY <2>1, <2>2
  <2> QED BY <2>1, <2>2, <2>3
<1>8. ASSUME NEW p \in Procs, Start(p) PROVE StarterKnows'
  <2>1. UNCHANGED <<record, raced, aged, existing, overran, goal>> /\ pc[p] = "start"
        /\ \A q \in Procs \ {p} : pc'[q] = pc[q]
    BY <1>8 DEF Start
  <2>2. pc'[p] = IF existing[p] = NoProc THEN "rival" ELSE "await"
    BY <1>8 DEF Start
  <2>3. LiveRecord' = LiveRecord
    BY <2>1, <2>2
  <2> QED BY <2>1, <2>2, <2>3
<1>9. ASSUME NEW p \in Procs, StartFails(p) PROVE StarterKnows'
  BY <1>9 DEF StartFails
<1>10. ASSUME NEW p \in Procs, AwaitEnds(p) PROVE StarterKnows'
  BY <1>10 DEF AwaitEnds
<1>11. ASSUME NEW p \in Procs, AwaitRunsOut(p) PROVE StarterKnows'
  BY <1>11 DEF AwaitRunsOut
<1>12. ASSUME NEW p \in Procs, CheckRival(p) PROVE StarterKnows'
  BY <1>12 DEF CheckRival, Rival
<1>13. ASSUME NEW p \in Procs, Publish(p) PROVE StarterKnows'
  BY <1>13 DEF Publish
<1>14. ASSUME NEW p \in Procs, Release(p) PROVE StarterKnows'
  BY <1>14 DEF Release, Leaves
<1>15. ASSUME NEW p \in Procs, Unlink(p) PROVE StarterKnows'
  BY <1>15 DEF Unlink, Leaves
<1>16. ASSUME NEW p \in Procs, HandOff(p) PROVE StarterKnows'
  BY <1>16 DEF HandOff
<1>17. ASSUME NEW p \in Procs, Stop(p) PROVE StarterKnows'
  BY <1>17 DEF Stop
<1>18. ASSUME NEW p \in Procs, Withdraw(p) PROVE StarterKnows'
  BY <1>18 DEF Withdraw
<1>19. ASSUME NEW p \in Procs, Unrecord(p) PROVE StarterKnows'
  BY <1>19 DEF Unrecord
<1>20. ASSUME NEW p \in Procs, Crash(p) PROVE StarterKnows'
  BY <1>20 DEF Crash
<1>21. CASE LockAges
  BY <1>21 DEF LockAges
<1>22. CASE UNCHANGED vars
  BY <1>22 DEF vars
<1> QED BY <1>1, <1>2, <1>3, <1>4, <1>5, <1>6, <1>7, <1>8, <1>9, <1>10, <1>11, <1>12, <1>13, <1>14, <1>15, <1>16, <1>17, <1>18, <1>19, <1>20, <1>21, <1>22 DEF Next, Starter, Daemon

(* A record is replaced when the wait for its daemon ran out, and removed  *)
(* by its own daemon.                                                      *)
LEMMA FindableNext == IInv /\ [Next]_vars => Findable'
<1> SUFFICES ASSUME IInv, [Next]_vars PROVE Findable'
  OBVIOUS
<1> USE LockFields, NoProcAssumption
    DEF IInv, LockInv, LockOwned, Named, StarterKnows, Knows, Findable, Published,
        Mistaken, Kept, LiveRecord, Live, TypeOK, Steps, Section, Goto, own, files, races, history
<1>1. ASSUME NEW p \in Procs, Launch(p) PROVE Findable'
  BY <1>1 DEF Launch
<1>2. ASSUME NEW p \in Procs, Look(p) PROVE Findable'
  BY <1>2 DEF Look
<1>3. ASSUME NEW p \in Procs, Open(p) PROVE Findable'
  BY <1>3 DEF Open
<1>4. ASSUME NEW p \in Procs, Write(p) PROVE Findable'
  BY <1>4 DEF Write
<1>5. ASSUME NEW p \in Procs, Inspect(p) PROVE Findable'
  BY <1>5 DEF Inspect
<1>6. ASSUME NEW p \in Procs, Reap(p) PROVE Findable'
  BY <1>6 DEF Reap
<1>7. ASSUME NEW p \in Procs, Reread(p) PROVE Findable'
  BY <1>7 DEF Reread
<1>8. ASSUME NEW p \in Procs, Start(p) PROVE Findable'
  BY <1>8 DEF Start
<1>9. ASSUME NEW p \in Procs, StartFails(p) PROVE Findable'
  BY <1>9 DEF StartFails
<1>10. ASSUME NEW p \in Procs, AwaitEnds(p) PROVE Findable'
  BY <1>10 DEF AwaitEnds
<1>11. ASSUME NEW p \in Procs, AwaitRunsOut(p) PROVE Findable'
  BY <1>11 DEF AwaitRunsOut
<1>12. ASSUME NEW p \in Procs, CheckRival(p) PROVE Findable'
  BY <1>12 DEF CheckRival
<1>13. ASSUME NEW p \in Procs, Publish(p) PROVE Findable'
  BY <1>13 DEF Publish
<1>14. ASSUME NEW p \in Procs, Release(p) PROVE Findable'
  BY <1>14 DEF Release, Leaves
<1>15. ASSUME NEW p \in Procs, Unlink(p) PROVE Findable'
  BY <1>15 DEF Unlink, Leaves
<1>16. ASSUME NEW p \in Procs, HandOff(p) PROVE Findable'
  BY <1>16 DEF HandOff
<1>17. ASSUME NEW p \in Procs, Stop(p) PROVE Findable'
  BY <1>17 DEF Stop
<1>18. ASSUME NEW p \in Procs, Withdraw(p) PROVE Findable'
  BY <1>18 DEF Withdraw
<1>19. ASSUME NEW p \in Procs, Unrecord(p) PROVE Findable'
  <2> SUFFICES ASSUME ~Mistaken', NEW q \in Procs, Published(q)'
               PROVE  FALSE
    BY DEF Findable
  <2>1. pc[p] = "unrecord" /\ pc' = [pc EXCEPT ![p] = "gone"]
    BY <1>19 DEF Unrecord
  <2>2. UNCHANGED <<raced, aged, overran, goal>>
        /\ recordRaced' = (recordRaced \/ record \notin {NoProc, p})
    BY <1>19 DEF Unrecord
  <2>3. q # p /\ Published(q) /\ ~Mistaken
    BY <2>1, <2>2 DEF Published
  <2>4. record = q
    BY <2>3 DEF Findable
  <2>5. overran = {}
    BY <2>2, <2>3, <2>4
  <2>6. Published(p)
    BY <2>1, <2>5 DEF Published
  <2> QED BY <2>3, <2>4, <2>6 DEF Findable
<1>20. ASSUME NEW p \in Procs, Crash(p) PROVE Findable'
  BY <1>20 DEF Crash
<1>21. CASE LockAges
  BY <1>21 DEF LockAges
<1>22. CASE UNCHANGED vars
  BY <1>22 DEF vars
<1> QED BY <1>1, <1>2, <1>3, <1>4, <1>5, <1>6, <1>7, <1>8, <1>9, <1>10, <1>11, <1>12, <1>13, <1>14, <1>15, <1>16, <1>17, <1>18, <1>19, <1>20, <1>21, <1>22 DEF Next, Starter, Daemon

-----------------------------------------------------------------------------
(***************************************************************************)
(* The theorems.                                                           *)
(***************************************************************************)
LEMMA InitIInv == Init => IInv
<1> SUFFICES ASSUME Init PROVE IInv
  OBVIOUS
<1>1. TypeOK
  BY TypeInit
<1>2. PICK at \in {"serve", "gone"}, v \in Versions :
        /\ pc = [p \in Procs |-> IF p = Earlier THEN at ELSE "idle"]
        /\ record \in IF at = "serve" THEN {Earlier} ELSE {NoProc, Earlier}
        /\ \/ lock = NoLock
           \/ /\ at = "gone" /\ Earlier # NoProc
              /\ \E w \in BOOLEAN : lock = [by |-> Earlier, written |-> w, old |-> FALSE]
  BY DEF Init
<1>3. \A p \in Procs : /\ pc[p] \in {"idle", "serve", "gone"}
                       /\ seen[p] = NoProc /\ existing[p] = NoProc /\ goal[p] = "gone"
  BY <1>2 DEF Init
<1>4. LockOwned /\ SeenGone /\ StarterKnows
  BY <1>3 DEF LockOwned, SeenGone, StarterKnows, Knows, Section
<1>5. Earlier # NoProc => Earlier \in Procs /\ pc[Earlier] \in {"serve", "gone"}
  BY <1>2, EarlierAssumption
<1>6. /\ lock.by # NoProc => lock.by = Earlier
      /\ record # NoProc => record = Earlier
  BY <1>2 DEF NoLock
<1>7. Named
  BY <1>3, <1>5, <1>6 DEF Named
<1>8. Findable
  BY <1>2, <1>3, EarlierAssumption DEF Init, Findable, Published
<1> QED BY <1>1, <1>4, <1>7, <1>8 DEF IInv, LockInv

LEMMA NextIInv == IInv /\ [Next]_vars => IInv'
BY TypeNext, OwnedNext, SeenNext, NamedNext, KnowsNext, FindableNext DEF IInv, LockInv

LEMMA Inductive == Spec => []IInv
BY InitIInv, NextIInv, PTL DEF Spec

(* The files and the processes keep their shape.                           *)
THEOREM TypeCorrect == Spec => []TypeOK
BY Inductive, PTL DEF IInv, LockInv

(* At most one process is between the creation of the start lock and its   *)
(* removal, unless a lock was removed by mistake or for its age.           *)
THEOREM StartersExclude == Spec => []OneStarter
<1>1. LockInv => OneStarter
  BY DEF LockInv, LockOwned, Kept, OneStarter, Alone
<1> QED BY <1>1, Inductive, PTL DEF IInv

(* A daemon that stays is the one that the record names.                   *)
THEOREM DaemonFound == Spec => []DaemonIsFindable
<1>1. IInv => DaemonIsFindable
  BY DEF IInv, Findable, Published, DaemonIsFindable, Stays
<1> QED BY <1>1, Inductive, PTL

(* At most one daemon serves that no successor stopped waiting for.        *)
THEOREM DaemonAlone == Spec => []OneDaemon
<1>1. DaemonIsFindable => OneDaemon
  BY DEF DaemonIsFindable, OneDaemon, Alone
<1> QED BY <1>1, DaemonFound, PTL

(* The record of a live daemon gives way to a newer daemon only.           *)
THEOREM RecordNotDowngraded == Spec => NeverDowngraded
<1> DEFINE Step == LiveRecord # NoProc /\ record' \notin {record, NoProc}
                     => raced' \/ aged' \/ version[record'] > version[record]
<1>1. IInv /\ [Next]_vars => [Step]_vars
  <2> SUFFICES ASSUME IInv, [Next]_vars, LiveRecord # NoProc, record' \notin {record, NoProc},
                      ~raced', ~aged'
               PROVE  version[record'] > version[record]
    OBVIOUS
  <2> USE DEF own, files, races, history
  <2>1. PICK p \in Procs : Publish(p)
    <3>1. ASSUME NEW p \in Procs, Unrecord(p) PROVE FALSE
      BY <3>1 DEF Unrecord
    <3> QED BY <3>1 DEF Next, Starter, Daemon, vars, Launch, Look, Open, Write, Inspect,
               Reap, Reread, Start, StartFails, AwaitEnds, AwaitRunsOut, CheckRival,
               Release, Unlink, HandOff, Stop, Withdraw, Crash, LockAges
  <2>2. Kept /\ record' = p /\ pc[p] = "publish"
    BY <2>1 DEF Publish, Kept
  <2>3. LiveRecord = existing[p] /\ LiveRecord = record
    BY <2>2 DEF IInv, StarterKnows, Knows, LiveRecord
  <2>4. version[record] < version[p]
    BY <2>3 DEF IInv, LockInv, Named
  <2>5. version[record] \in Nat /\ version[p] \in Nat
    BY <2>3 DEF IInv, LockInv, TypeOK
  <2> QED BY <2>2, <2>4, <2>5
<1> QED BY <1>1, Inductive, PTL DEF Spec, NeverDowngraded

(* What a starter removes for stale is the lock it has read, or nothing,    *)
(* which rmSync by name does not ensure.                                   *)
ReapsWhatItRead == \A p \in Procs : Reap(p) => lock.by \in {NoProc, seen[p]}

(* A live starter's lock was taken for stale by its age, or a wait for a   *)
(* handoff ran out.                                                        *)
RanOut == aged \/ overran # {}

(* If reaps removed what was read, no lock would be removed by mistake, by *)
(* its owner neither, and no record: what a daemon reads is its own, and   *)
(* stays so until it is removed. Until something runs out.                 *)
NoMistake == ~raced /\ ~recordRaced

LEMMA ReapsAreAllThatRaces ==
  IInv /\ (RanOut \/ NoMistake) /\ [Next]_vars /\ [ReapsWhatItRead]_vars
    => (RanOut \/ NoMistake)'
<1> SUFFICES ASSUME IInv, RanOut \/ NoMistake, [Next]_vars, [ReapsWhatItRead]_vars, ~RanOut'
             PROVE  NoMistake'
  OBVIOUS
<1> USE DEF own, files, races, history
<1>1. ~RanOut
  <2>1. ASSUME NEW p \in Procs, Inspect(p) PROVE ~RanOut
    BY <2>1 DEF Inspect, RanOut
  <2>2. ASSUME NEW p \in Procs, AwaitRunsOut(p) PROVE ~RanOut
    BY <2>2 DEF AwaitRunsOut, RanOut
  <2>3. CASE UNCHANGED <<aged, overran>>
    BY <2>3 DEF RanOut
  <2> QED BY <2>1, <2>2, <2>3 DEF Next, Starter, Daemon, vars, Launch, Look, Open, Write,
             Reap, Reread, Start, StartFails, AwaitEnds, CheckRival, Publish, Release,
             Unlink, HandOff, Stop, Withdraw, Unrecord, Crash, LockAges
<1>2. NoMistake /\ ~aged /\ overran = {}
  BY <1>1 DEF RanOut
<1>3. ASSUME NEW p \in Procs, Reap(p) PROVE NoMistake'
  <2>1. CASE UNCHANGED vars
    BY <1>2, <2>1 DEF vars, NoMistake
  <2>2. CASE ReapsWhatItRead
    BY <1>2, <1>3, <2>2 DEF Reap, ReapsWhatItRead, NoMistake
  <2> QED BY <2>1, <2>2
<1>4. ASSUME NEW p \in Procs, Unlink(p) PROVE NoMistake'
  <2>1. raced' = (raced \/ lock.by \notin {NoProc, p}) /\ UNCHANGED recordRaced
        /\ pc[p] \in Section
    BY <1>4 DEF Unlink, Section
  <2>2. lock.by = p
    BY <1>2, <2>1 DEF NoMistake, IInv, LockInv, LockOwned, Kept
  <2> QED BY <1>2, <2>1, <2>2 DEF NoMistake
<1>5. ASSUME NEW p \in Procs, Unrecord(p) PROVE NoMistake'
  <2>1. recordRaced' = (recordRaced \/ record \notin {NoProc, p}) /\ UNCHANGED raced
        /\ pc[p] = "unrecord"
    BY <1>5 DEF Unrecord
  <2>2. record = p
    BY <1>2, <2>1 DEF NoMistake, IInv, Findable, Mistaken, Published
  <2> QED BY <1>2, <2>1, <2>2 DEF NoMistake
<1>6. CASE UNCHANGED <<raced, recordRaced>>
  BY <1>2, <1>6 DEF NoMistake
<1> QED BY <1>3, <1>4, <1>5, <1>6 DEF Next, Starter, Daemon, vars, Launch, Look, Open,
           Write, Inspect, Reread, Start, StartFails, AwaitEnds, AwaitRunsOut, CheckRival,
           Publish, Release, HandOff, Stop, Withdraw, Crash, LockAges

(* The daemon that serves is the one that the record names.                *)
FoundAlone == \A p \in Procs : pc[p] = "serve" => record = p

LEMMA FoundUntilSomethingRunsOut ==
  Spec /\ [][ReapsWhatItRead]_vars => [](RanOut \/ FoundAlone)
<1>1. Init => RanOut \/ NoMistake
  BY DEF Init, NoMistake
<1>2. Spec /\ [][ReapsWhatItRead]_vars => [](RanOut \/ NoMistake)
  BY <1>1, Inductive, ReapsAreAllThatRaces, PTL DEF Spec
<1>3. (RanOut \/ NoMistake) /\ DaemonIsFindable => RanOut \/ FoundAlone
  BY DEF RanOut, NoMistake, DaemonIsFindable, Mistaken, Stays, FoundAlone
<1> QED BY <1>2, <1>3, DaemonFound, PTL

(* Were a stale lock only removed as the lock that was read, the start     *)
(* lock would keep one daemon per project, until one of the two deadlines  *)
(* passes: the age of a live starter's lock, the wait for a handoff. The   *)
(* removal by name is what misleads starters that run on in time.          *)
THEOREM LockWouldKeepOneDaemon ==
  Spec /\ [][ReapsWhatItRead]_vars => []LockKeepsOneDaemon
<1>1. RanOut \/ FoundAlone => LockKeepsOneDaemon
  BY DEF RanOut, FoundAlone, LockKeepsOneDaemon, Alone
<1> QED BY <1>1, FoundUntilSomethingRunsOut, PTL

(* Without three mistakes one daemon serves at most, and the record names  *)
(* it: that a starter removes another lock than the one it has read, that  *)
(* a live starter's lock is taken for stale by its age, and that a starter *)
(* gives up the wait for its predecessor. Nothing else is needed: wherever *)
(* processes die, starts fail, handoffs are not heard, and daemons shut    *)
(* down while others start.                                                *)
THEOREM NothingElseMisleads ==
  Spec /\ [][ReapsWhatItRead /\ UNCHANGED <<aged, overran>>]_vars => []FoundAlone
<1>1. Init => ~RanOut
  BY DEF Init, RanOut
<1>2. ~RanOut /\ [ReapsWhatItRead /\ UNCHANGED <<aged, overran>>]_vars => ~RanOut'
  BY DEF RanOut, vars, history, races
<1>3. [ReapsWhatItRead /\ UNCHANGED <<aged, overran>>]_vars => [ReapsWhatItRead]_vars
  OBVIOUS
<1> QED BY <1>1, <1>2, <1>3, FoundUntilSomethingRunsOut, PTL DEF Spec

=============================================================================
