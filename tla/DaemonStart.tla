----------------------------- MODULE DaemonStart -----------------------------
(***************************************************************************)
(* How a project gets its one daemon: the start lock and the discovery     *)
(* record are two files that processes share, and a process may die        *)
(* between any two of its file operations.                                 *)
(*                                                                         *)
(* src/daemon/start-lock.ts, src/daemon/discovery.ts, the start, handoff   *)
(* and shutdown of src/daemon/daemon.ts.                                   *)
(***************************************************************************)
EXTENDS Naturals

CONSTANTS Procs,      \* daemon processes; a pid is not used twice
          NoProc,
          Versions,   \* releases of the package that processes run
          Earlier,    \* a process of the past, or NoProc
          MaxCrashes  \* bound on the starts that fail and the processes that
                      \* die by themselves

ASSUME NoProcAssumption == NoProc \notin Procs
ASSUME VersionsAssumption == Versions \subseteq Nat \ {0}
ASSUME EarlierAssumption == Earlier \in Procs \cup {NoProc}
ASSUME MaxCrashesAssumption == MaxCrashes \in Nat

VARIABLES
  pc,         \* pc[p]: what process p does next
  version,    \* version[p]: the release it runs
  goal,       \* goal[p]: where it goes once it has released the lock
  existing,   \* existing[p]: the older daemon it takes over from, or NoProc
  again,      \* again[p]: tryTakeStartLock is in its second attempt
  seen,       \* seen[p]: whose lock p read and is to remove, or NoProc
  asked,      \* asked[p]: p was asked to hand off, and heard it
  lock,       \* the start lock file
  record,     \* the process that the discovery record names, or NoProc
  crashes,    \* history: how many processes died by themselves
  raced,      \* history: a lock was removed that is not the one its remover
              \* had read
  aged,       \* history: a live starter's lock was taken for stale by its age
  recordRaced, \* history: a record was removed that is not the one its
              \* remover had read
  overran     \* history: the daemons whose successor stopped waiting for
              \* them, and published

files == <<lock, record>>
own == <<version, goal, existing, again, seen>>
races == <<raced, aged, recordRaced, overran>>
history == <<crashes, races>>
vars == <<pc, own, asked, files, history>>

NoLock == [by |-> NoProc, written |-> FALSE, old |-> FALSE]

(* The lock file: who created it, whether its pid is in it yet, and        *)
(* whether it is past its age: 10 s by its mtime while it cannot be read,  *)
(* 5 min by its content afterwards.                                        *)
LockFile ==
  {l \in [by : Procs \cup {NoProc}, written : BOOLEAN, old : BOOLEAN] :
     l.by = NoProc => l = NoLock}

Steps == {"idle", "look", "open", "write", "inspect", "reap", "reread",
          "start", "await", "rival", "publish", "release", "unlink",
          "serve", "withdraw", "unrecord", "gone"}

(* The steps from the creation of the lock file to its removal.            *)
Section == {"write", "reread", "start", "await", "rival", "publish",
            "release", "unlink"}

(* The shape of the state, for the two files and for every process.        *)
TypeOK ==
  /\ pc \in [Procs -> Steps]
  /\ version \in [Procs -> Nat]
  /\ goal \in [Procs -> {"serve", "withdraw", "gone"}]
  /\ existing \in [Procs -> Procs \cup {NoProc}]
  /\ again \in [Procs -> BOOLEAN]
  /\ seen \in [Procs -> Procs \cup {NoProc}]
  /\ asked \in [Procs -> BOOLEAN]
  /\ lock \in LockFile
  /\ record \in Procs \cup {NoProc}
  /\ crashes \in 0 .. MaxCrashes
  /\ raced \in BOOLEAN
  /\ aged \in BOOLEAN
  /\ recordRaced \in BOOLEAN
  /\ overran \subseteq Procs

(* A process of the past serves, or it has ended and what it left behind   *)
(* is still there: its lock, its record, both or none.                     *)
Init ==
  /\ \E at \in {"serve", "gone"}, v \in Versions :
       /\ pc = [p \in Procs |-> IF p = Earlier THEN at ELSE "idle"]
       /\ version = [p \in Procs |-> IF p = Earlier THEN v ELSE 0]
       /\ record \in IF at = "serve" THEN {Earlier} ELSE {NoProc, Earlier}
       /\ \/ lock = NoLock
          \/ /\ at = "gone" /\ Earlier # NoProc
             /\ \E w \in BOOLEAN : lock = [by |-> Earlier, written |-> w, old |-> FALSE]
  /\ goal = [p \in Procs |-> "gone"]
  /\ existing = [p \in Procs |-> NoProc]
  /\ again = [p \in Procs |-> FALSE]
  /\ seen = [p \in Procs |-> NoProc]
  /\ asked = [p \in Procs |-> FALSE]
  /\ crashes = 0
  /\ raced = FALSE
  /\ aged = FALSE
  /\ recordRaced = FALSE
  /\ overran = {}

-----------------------------------------------------------------------------
(* What the files say.                                                     *)

Live(p) == pc[p] \notin {"idle", "gone"}

(* readLiveDiscovery: the record, when its process is alive.               *)
LiveRecord == IF record # NoProc /\ Live(record) THEN record ELSE NoProc

(* Mutant: the versions are compared the wrong way round.                  *)
OlderRival(p, ignored) ==
  /\ LiveRecord \notin {NoProc, p, ignored}
  /\ version[LiveRecord] <= version[p]

(* Another live daemon that is recorded, not older than p, not the ignored *)
(* one: rivalDaemon, and what satisfies a starter.                         *)
Rival(p, ignored) ==
  /\ LiveRecord \notin {NoProc, p, ignored}
  /\ version[LiveRecord] >= version[p]

(* Mutant: a lock that cannot be read yet is taken for an abandoned one.   *)
HeldOnceWritten(l) == l.written /\ ~l.old /\ Live(l.by)

(* Mutant: an existing lock is respected whoever left it.                  *)
HeldForEver(l) == l # NoLock

(* liveStartLock: nobody holds an absent lock, one whose owner died, or    *)
(* one past its age. An unreadable lock has no owner to ask after.         *)
Held(l) ==
  /\ l # NoLock
  /\ ~l.old
  /\ l.written => Live(l.by)

-----------------------------------------------------------------------------
(* waitForStartTurn and tryTakeStartLock.                                  *)

Goto(p, step) == pc' = [pc EXCEPT ![p] = step]

(* A shim that found neither a daemon nor a starter, or a user, runs       *)
(* `daemon run` in the release it wants.                                   *)
Launch(p) ==
  /\ pc[p] = "idle"
  /\ \E v \in Versions : version' = [version EXCEPT ![p] = v]
  /\ Goto(p, "look")
  /\ UNCHANGED <<goal, existing, again, seen, asked, files, history>>

(* A daemon that will do is running, or the lock is tried.                 *)
Look(p) ==
  /\ pc[p] = "look"
  /\ IF Rival(p, NoProc)
     THEN Goto(p, "gone") /\ UNCHANGED again
     ELSE Goto(p, "open") /\ again' = [again EXCEPT ![p] = FALSE]
  /\ UNCHANGED <<version, goal, existing, seen, asked, files, history>>

(* open(file, "wx").                                                       *)
Open(p) ==
  /\ pc[p] = "open"
  /\ IF lock = NoLock
     THEN /\ Goto(p, "write")
          /\ lock' = [by |-> p, written |-> FALSE, old |-> FALSE]
     ELSE Goto(p, "inspect") /\ UNCHANGED lock
  /\ UNCHANGED <<own, asked, record, history>>

(* Mutant: the pid is written by the file's name.                          *)
WriteByName(p) ==
  /\ pc[p] = "write"
  /\ lock' = [lock EXCEPT !.written = TRUE, !.old = FALSE]
  /\ Goto(p, "reread")
  /\ UNCHANGED <<own, asked, record, history>>

(* The pid goes into the file that was opened, wherever its name points.   *)
Write(p) ==
  /\ pc[p] = "write"
  /\ lock' = IF lock.by = p THEN [by |-> p, written |-> TRUE, old |-> FALSE] ELSE lock
  /\ Goto(p, "reread")
  /\ UNCHANGED <<own, asked, record, history>>

(* The file exists: a live starter holds it, or it is to be removed.       *)
Inspect(p) ==
  /\ pc[p] = "inspect"
  /\ IF Held(lock)
     THEN Goto(p, "look") /\ UNCHANGED seen
     ELSE Goto(p, "reap") /\ seen' = [seen EXCEPT ![p] = lock.by]
  /\ aged' = (aged \/ (~Held(lock) /\ lock.old /\ Live(lock.by)))
  /\ UNCHANGED <<version, goal, existing, again, asked, files, crashes, raced, recordRaced, overran>>

(* rmSync removes what the name points to now.                             *)
Reap(p) ==
  /\ pc[p] = "reap"
  /\ lock' = NoLock
  /\ raced' = (raced \/ lock.by \notin {NoProc, seen[p]})
  /\ seen' = [seen EXCEPT ![p] = NoProc]
  /\ again' = [again EXCEPT ![p] = ~@]
  /\ Goto(p, IF again[p] THEN "look" ELSE "open")
  /\ UNCHANGED <<version, goal, existing, asked, record, crashes, aged, recordRaced, overran>>

(* Mutant: what was read before the take is believed: there was nobody.    *)
NoReread(p) ==
  /\ pc[p] = "reread"
  /\ Goto(p, "start")
  /\ UNCHANGED <<own, asked, files, history>>

(* With the lock: a daemon may have published between the read and the     *)
(* take.                                                                   *)
Reread(p) ==
  /\ pc[p] = "reread"
  /\ IF Rival(p, NoProc)
     THEN /\ Goto(p, "release")
          /\ goal' = [goal EXCEPT ![p] = "gone"]
          /\ UNCHANGED existing
     ELSE /\ Goto(p, "start")
          /\ existing' = [existing EXCEPT ![p] = LiveRecord]
          /\ UNCHANGED goal
  /\ UNCHANGED <<version, again, seen, asked, files, history>>

-----------------------------------------------------------------------------
(* runDaemon with the lock.                                                *)

(* startDaemon is listening. With nobody to take over from it goes on to   *)
(* publish; else the older daemon is asked to hand off. A request that     *)
(* fails or is refused is logged at most: the starter waits all the same.  *)
Start(p) ==
  /\ pc[p] = "start"
  /\ IF existing[p] = NoProc
     THEN Goto(p, "rival") /\ UNCHANGED asked
     ELSE /\ Goto(p, "await")
          /\ \E heard \in {FALSE, Live(existing[p])} :
               asked' = [asked EXCEPT ![existing[p]] = @ \/ heard]
  /\ UNCHANGED <<own, files, history>>

(* startDaemon throws; the lock is released on the way out.                *)
StartFails(p) ==
  /\ pc[p] = "start"
  /\ crashes < MaxCrashes
  /\ crashes' = crashes + 1
  /\ Goto(p, "release")
  /\ goal' = [goal EXCEPT ![p] = "gone"]
  /\ UNCHANGED <<version, existing, again, seen, asked, files, races>>

(* Mutant: a daemon that shuts down is taken for one that has gone.        *)
AwaitEndsEarly(p) ==
  /\ pc[p] = "await"
  /\ LiveRecord # existing[p] \/ pc[existing[p]] \in {"withdraw", "unrecord"}
  /\ Goto(p, "rival")
  /\ UNCHANGED <<own, asked, files, history>>

(* The older daemon has withdrawn its record, or it died.                  *)
AwaitEnds(p) ==
  /\ pc[p] = "await"
  /\ LiveRecord # existing[p]
  /\ Goto(p, "rival")
  /\ UNCHANGED <<own, asked, files, history>>

(* 120 seconds: the older daemon is still there, with a call in flight, or *)
(* because it did not hear that it is to go.                               *)
AwaitRunsOut(p) ==
  /\ pc[p] = "await"
  /\ LiveRecord # NoProc /\ LiveRecord = existing[p]
  /\ Goto(p, "rival")
  /\ overran' = overran \cup {existing[p]}
  /\ UNCHANGED <<own, asked, files, crashes, raced, aged, recordRaced>>

(* rivalDaemon: one that is not older published first. startDaemon's own   *)
(* check leads to a shutdown that removes the record if it is this         *)
(* daemon's; a daemon that was to take over has none to remove.            *)
CheckRival(p) ==
  /\ pc[p] = "rival"
  /\ IF Rival(p, existing[p])
     THEN /\ Goto(p, "release")
          /\ goal' = [goal EXCEPT ![p] = IF existing[p] = NoProc THEN "withdraw" ELSE "gone"]
     ELSE Goto(p, "publish") /\ UNCHANGED goal
  /\ UNCHANGED <<version, existing, again, seen, asked, files, history>>

(* writeDiscovery: a rename, so the record is whole at every time.         *)
Publish(p) ==
  /\ pc[p] = "publish"
  /\ record' = p
  /\ Goto(p, "release")
  /\ goal' = [goal EXCEPT ![p] = "serve"]
  /\ UNCHANGED <<version, existing, again, seen, asked, lock, history>>

Leaves(p) ==
  /\ Goto(p, goal[p])
  /\ goal' = [goal EXCEPT ![p] = "gone"]
  /\ existing' = [existing EXCEPT ![p] = NoProc]

(* releaseStartLock reads the file and removes it if the pid in it is p's. *)
Release(p) ==
  /\ pc[p] = "release"
  /\ IF lock.written /\ lock.by = p
     THEN Goto(p, "unlink") /\ UNCHANGED <<goal, existing>>
     ELSE Leaves(p)
  /\ UNCHANGED <<version, again, seen, asked, files, history>>

Unlink(p) ==
  /\ pc[p] = "unlink"
  /\ lock' = NoLock
  /\ raced' = (raced \/ lock.by \notin {NoProc, p})
  /\ Leaves(p)
  /\ UNCHANGED <<version, again, seen, asked, record, crashes, aged, recordRaced, overran>>

-----------------------------------------------------------------------------
(* The life of a daemon.                                                   *)

(* handoff: no call is in flight, so the daemon shuts down.                *)
HandOff(p) ==
  /\ pc[p] = "serve"
  /\ asked[p]
  /\ Goto(p, "withdraw")
  /\ UNCHANGED <<own, asked, files, history>>

(* A shutdown for another reason: idle, a signal, /v1/shutdown.            *)
Stop(p) ==
  /\ pc[p] = "serve"
  /\ Goto(p, "withdraw")
  /\ UNCHANGED <<own, asked, files, history>>

(* removeDiscovery reads the record and removes it unless it names another *)
(* process.                                                                *)
Withdraw(p) ==
  /\ pc[p] = "withdraw"
  /\ IF record \in {NoProc, p}
     THEN Goto(p, "unrecord")
     ELSE Goto(p, "gone")
  /\ UNCHANGED <<own, asked, files, history>>

(* rmSync removes what the name points to now; the process ends.           *)
Unrecord(p) ==
  /\ pc[p] = "unrecord"
  /\ record' = NoProc
  /\ recordRaced' = (recordRaced \/ record \notin {NoProc, p})
  /\ Goto(p, "gone")
  /\ UNCHANGED <<version, goal, existing, again, seen, asked, lock, crashes, raced, aged, overran>>

(* The process dies; the files stay as they are.                           *)
Crash(p) ==
  /\ Live(p)
  /\ crashes < MaxCrashes
  /\ crashes' = crashes + 1
  /\ Goto(p, "gone")
  /\ goal' = [goal EXCEPT ![p] = "gone"]
  /\ existing' = [existing EXCEPT ![p] = NoProc]
  /\ again' = [again EXCEPT ![p] = FALSE]
  /\ seen' = [seen EXCEPT ![p] = NoProc]
  /\ UNCHANGED <<version, asked, files, races>>

(* Time passes over a lock.                                                *)
LockAges ==
  /\ lock # NoLock
  /\ ~lock.old
  /\ lock' = [lock EXCEPT !.old = TRUE]
  /\ UNCHANGED <<pc, own, asked, record, history>>

-----------------------------------------------------------------------------
Starter(p) ==
  \/ Look(p) \/ Open(p) \/ Write(p) \/ Inspect(p) \/ Reap(p) \/ Reread(p)
  \/ Start(p) \/ AwaitEnds(p) \/ AwaitRunsOut(p) \/ CheckRival(p)
  \/ Publish(p) \/ Release(p) \/ Unlink(p)

Daemon(p) ==
  \/ HandOff(p) \/ Stop(p) \/ Withdraw(p) \/ Unrecord(p)

Next ==
  \/ \E p \in Procs : Launch(p) \/ Starter(p) \/ StartFails(p) \/ Daemon(p) \/ Crash(p)
  \/ LockAges

Spec == Init /\ [][Next]_vars

(* A process runs on, its wait for a handoff has a deadline, and time      *)
(* passes over a lock. No call has to end, nobody has to stop.             *)
FairSpec ==
  /\ Spec
  /\ \A p \in Procs : WF_vars(Starter(p) \/ Withdraw(p) \/ Unrecord(p))
  /\ WF_vars(LockAges)

-----------------------------------------------------------------------------
Alone(procs) == \A p, q \in procs : p = q

(* A daemon that serves, and that no successor stopped waiting for.        *)
Stays(p) == pc[p] = "serve" /\ p \notin overran

(* A removal by mistake: of the lock, read stale or released, of a live    *)
(* starter's lock for its age, or of a record, which takes a daemon that   *)
(* was left standing when its successor published.                         *)
Mistaken == raced \/ aged \/ (recordRaced /\ overran # {})

(* One starter at a time (start-lock.ts: "A starter holds an exclusive     *)
(* lock beside the discovery file from before it starts until it has       *)
(* published"), as long as no lock was removed by mistake or for its age:  *)
(* whoever is in the section is alone in it.                               *)
OneStarter ==
  raced \/ aged \/ Alone({p \in Procs : pc[p] \in Section})

(* One daemon per project, as long as neither file was removed by mistake: *)
(* of two that serve, one is a daemon whose successor waited for its end,  *)
(* in vain, for as long as it ever does.                                   *)
OneDaemon == Mistaken \/ Alone({p \in Procs : Stays(p)})

(* The same of any two that serve, without the lock's excuse: "One daemon  *)
(* per project" (start-lock.ts), also when two starters find a lock that   *)
(* is stale, or that was released before they could read it, as long as no *)
(* live starter's lock got too old and no wait for a handoff ran out.      *)
LockKeepsOneDaemon ==
  aged \/ overran # {} \/ Alone({p \in Procs : pc[p] = "serve"})

(* A daemon that serves, and that no successor stopped waiting for, can be *)
(* found: the shutdown of its predecessor, which reads the record and then *)
(* removes it, does not take its record away, nor does a starter that      *)
(* lost. Only after a wait for a handoff ran out can the removal meet      *)
(* another record than the one that was read.                              *)
DaemonIsFindable == Mistaken \/ \A p \in Procs : Stays(p) => record = p

(* A live daemon's record is only ever replaced by a newer one's, as long  *)
(* as no lock was removed by mistake or for its age.                       *)
NeverDowngraded ==
  [][LiveRecord # NoProc /\ record' \notin {record, NoProc}
       => raced' \/ aged' \/ version[record'] > version[record]]_vars

(* Every process that is launched comes to an end of its start: it serves, *)
(* or it has left. Dead and stuck starters do not block it for ever.       *)
StarterSettles ==
  \A p \in Procs : pc[p] = "look" ~> pc[p] \in {"serve", "gone"}

=============================================================================
