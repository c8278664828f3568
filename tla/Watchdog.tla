------------------------------ MODULE Watchdog ------------------------------
(***************************************************************************)
(* src/exercises/multi_processing/watchdog: solution.cc, which starts two  *)
(* children and expects a signal from each of them within its timer, and   *)
(* child.cc, which sends it every two seconds.  Time passes in seconds,    *)
(* and only when no signal is waiting to be handled; a handler runs to its *)
(* end before the next one starts.                                         *)
(***************************************************************************)
EXTENDS Integers

CONSTANTS
  Faults,      \* what may happen to a child: "hang", "die"
  MaxFaults,   \* how often
  Period,      \* sleep(2) of child.cc
  Timeout      \* it_interval and it_value, 5

VARIABLES
  wstate,      \* of the watchdog: "running", "done" by SIGINT, "failed" in a CHECK
  proc,        \* the process whose pid is in child1pid, child2pid
  got,         \* gotusr1 and gotusr2
  pending,     \* signals for the watchdog: "CHLD", "ALRM", and 1, 2 for SIGUSR1, SIGUSR2
  timer,       \* seconds until SIGALRM
  nap,         \* seconds until a child wakes up
  faults

wvars == <<wstate, proc, got, pending, timer, nap, faults>>

Child == {1, 2}
Up == {"alive", "hung"}

WatchInit ==
  /\ wstate = "running"
  /\ proc = [c \in Child |-> "alive"]
  /\ got = [c \in Child |-> 0]
  /\ pending = [s \in {"CHLD", "ALRM", "USR1", "USR2"} |-> FALSE]
  /\ timer = Timeout
  /\ nap = [c \in Child |-> Period]
  /\ faults = 0

Usr(c) == IF c = 1 THEN "USR1" ELSE "USR2"

-----------------------------------------------------------------------------
\* Mutant of Tick: the timer runs once, without an interval.
TickNoInterval ==
  LET wakes == {c \in Child : nap[c] = 1} IN
  /\ \A s \in DOMAIN pending : ~pending[s]
  /\ nap' = [c \in Child |-> IF c \in wakes THEN Period ELSE nap[c] - 1]
  /\ timer' = timer - 1
  /\ pending' = [pending EXCEPT
       !["USR1"] = 1 \in wakes /\ proc[1] = "alive",
       !["USR2"] = 2 \in wakes /\ proc[2] = "alive",
       !["ALRM"] = timer = 1]
  /\ UNCHANGED <<wstate, proc, got, faults>>

\* A second passes: children that have slept send their signal (child.cc), and
\* the interval timer runs down and starts again.
Tick ==
  LET wakes == {c \in Child : nap[c] = 1} IN
  /\ \A s \in DOMAIN pending : ~pending[s]
  /\ nap' = [c \in Child |-> IF c \in wakes THEN Period ELSE nap[c] - 1]
  /\ timer' = IF timer = 1 THEN Timeout ELSE timer - 1
  /\ pending' = [pending EXCEPT
       !["USR1"] = 1 \in wakes /\ proc[1] = "alive",
       !["USR2"] = 2 \in wakes /\ proc[2] = "alive",
       !["ALRM"] = timer = 1]
  /\ UNCHANGED <<wstate, proc, got, faults>>

\* A child hangs or dies.
Fault(c, how) ==
  /\ faults < MaxFaults /\ proc[c] = "alive"
  /\ proc' = [proc EXCEPT ![c] = IF how = "hang" THEN "hung" ELSE "zombie"]
  /\ pending' = [pending EXCEPT !["CHLD"] = @ \/ how = "die"]
  /\ faults' = faults + 1
  /\ UNCHANGED <<wstate, got, timer, nap>>

-----------------------------------------------------------------------------
(* The handlers.                                                           *)

\* Waits for every child that is dead; wait3 fails when that leaves no child.
sigchildHandler ==
  /\ pending["CHLD"]
  /\ pending' = [pending EXCEPT !["CHLD"] = FALSE]
  /\ proc' = [c \in Child |-> IF proc[c] = "zombie" THEN "gone" ELSE proc[c]]
  /\ wstate' = IF \E c \in Child : proc[c] \in Up THEN wstate ELSE "failed"
  /\ UNCHANGED <<got, timer, nap, faults>>

\* Mutant of watchsigHandler: does not start the timer again.
NoRearm(c) ==
  /\ pending[Usr(c)]
  /\ pending' = [pending EXCEPT ![Usr(c)] = FALSE]
  /\ got' = IF got[3 - c] = 1 THEN [d \in Child |-> 0] ELSE [got EXCEPT ![c] = 1]
  /\ UNCHANGED <<wstate, proc, timer, nap, faults>>

watchsigHandler(c) ==
  /\ pending[Usr(c)]
  /\ pending' = [pending EXCEPT ![Usr(c)] = FALSE]
  /\ IF got[3 - c] = 1
     THEN timer' = Timeout /\ got' = [d \in Child |-> 0]
     ELSE got' = [got EXCEPT ![c] = 1] /\ UNCHANGED timer
  /\ UNCHANGED <<wstate, proc, nap, faults>>

\* Mutant of timeoutsigHandler: restarts child 2 only when child 1 is silent too.
RestartsFirstOnly ==
  /\ pending["ALRM"]
  /\ LET lost == {c \in Child : got[c] = 0}
         started == IF 1 \in lost THEN {1} ELSE {} IN
     /\ pending' = [pending EXCEPT !["ALRM"] = FALSE, !["CHLD"] = @ \/ started # {}]
     /\ proc' = [c \in Child |-> IF c \in started THEN "alive" ELSE proc[c]]
     /\ nap' = [c \in Child |-> IF c \in started THEN Period ELSE nap[c]]
  /\ UNCHANGED <<wstate, got, timer, faults>>

\* Kills and restarts each child not heard of.  kill fails for a child that has
\* been waited for, and ends the watchdog there.
timeoutsigHandler ==
  LET lost == {c \in Child : got[c] = 0}
      fails == {c \in lost : proc[c] = "gone"}
      started == {c \in lost : \A d \in fails : c < d} IN
  /\ pending["ALRM"]
  /\ pending' = [pending EXCEPT !["ALRM"] = FALSE, !["CHLD"] = @ \/ started # {}]
  /\ proc' = [c \in Child |-> IF c \in started THEN "alive" ELSE proc[c]]
  /\ nap' = [c \in Child |-> IF c \in started THEN Period ELSE nap[c]]
  /\ wstate' = IF fails = {} THEN wstate ELSE "failed"
  /\ UNCHANGED <<got, timer, faults>>

\* Ctrl-C.  The children are killed up to one for which kill fails, and the
\* watchdog ends.
sigintHandler ==
  LET fails == {c \in Child : proc[c] = "gone"} IN
  /\ proc' = [c \in Child |-> IF \A d \in fails : c < d THEN "zombie" ELSE proc[c]]
  /\ wstate' = "done"
  /\ UNCHANGED <<got, pending, timer, nap, faults>>

Handle == sigchildHandler \/ timeoutsigHandler \/ \E c \in Child : watchsigHandler(c)

WatchNext ==
  /\ wstate = "running"
  /\ \/ Tick
     \/ \E c \in Child : \E how \in Faults : Fault(c, how)
     \/ Handle
     \/ sigintHandler

\* Time passes while the watchdog runs, and signals are delivered.
WatchSpec ==
  /\ WatchInit /\ [][WatchNext]_wvars
  /\ WF_wvars(wstate = "running" /\ Tick)
  /\ WF_wvars(wstate = "running" /\ Handle)

-----------------------------------------------------------------------------
\* The type of the state.
WatchType ==
  /\ wstate \in {"running", "done", "failed"}
  /\ proc \in [Child -> Up \union {"zombie", "gone"}]
  /\ got \in [Child -> {0, 1}]
  /\ pending \in [{"CHLD", "ALRM", "USR1", "USR2"} -> BOOLEAN]
  /\ timer \in 1 .. Timeout /\ nap \in [Child -> 1 .. Period] /\ faults \in 0 .. MaxFaults

\* The watchdog kills only children that have stopped to signal: one that signals
\* every two seconds has always been heard of when the timer of five expires.
OnlySilentKilled ==
  pending["ALRM"] => \A c \in Child : proc[c] = "alive" => got[c] = 1

\* No CHECK of the watchdog fails, as long as its children only hang: there is always a
\* child for wait3 to wait for, and kill is only called for one that was not waited for.
ChecksPass == wstate # "failed"

\* A child that hangs or dies is restarted, unless the watchdog is told to stop.
Respawned == \A c \in Child : proc[c] # "alive" ~> (proc[c] = "alive" \/ wstate = "done")

=============================================================================
