----------------------------- MODULE MCPrograms -----------------------------
(***************************************************************************)
(* The user-space programs side by side, for model checking: the initial   *)
(* state chooses one of them, which then runs alone.                       *)
(***************************************************************************)
EXTENDS Exchanger, SyncQueue, EventfdLock, ThreadPool, Watchdog, MessageQueue

CONSTANT Repeats

VARIABLES which, demo, code, mem, buf, reg, ip

S == INSTANCE ThreadScripts

svars == <<demo, code, mem, buf, reg, ip>>
vars == <<which, xvars, qvars, evars, lvars, svars, wvars, mqvars>>

Init ==
  /\ which \in {"exchanger", "queue", "eventfd", "pool", "scripts", "watchdog", "message_queue"}
  /\ ExchangeInit /\ QueueInit /\ EventfdInit /\ PoolInit /\ S!Init /\ WatchInit
  /\ MqInit
  /\ which # "queue" => program = "cpp"
  /\ which # "scripts" => demo = "names"

Next ==
  /\ UNCHANGED which
  /\ \/ which = "exchanger" /\ ExchangeNext /\ UNCHANGED <<qvars, evars, lvars, svars, wvars, mqvars>>
     \/ which = "queue" /\ QueueNext /\ UNCHANGED <<xvars, evars, lvars, svars, wvars, mqvars>>
     \/ which = "eventfd" /\ EventfdNext /\ UNCHANGED <<xvars, qvars, lvars, svars, wvars, mqvars>>
     \/ which = "pool" /\ PoolNext /\ UNCHANGED <<xvars, qvars, evars, svars, wvars, mqvars>>
     \/ which = "scripts" /\ S!Next /\ UNCHANGED <<xvars, qvars, evars, lvars, wvars, mqvars>>
     \/ which = "watchdog" /\ WatchNext /\ UNCHANGED <<xvars, qvars, evars, lvars, svars, mqvars>>
     \/ which = "message_queue" /\ MqNext /\ UNCHANGED <<xvars, qvars, evars, lvars, svars, wvars>>

\* Every thread that can take a step takes it in the end.  A thread that wants a
\* lock gets it in the end although others take it again and again (strong
\* fairness); store buffers drain; time passes and signals are delivered.
Fairness ==
  /\ \A t \in Party : WF_xvars(which = "exchanger" /\ exchange(t))
  /\ \A i \in 0 .. 3 : WF_qvars(which = "queue" /\ i \in Worker /\ QueueStep(i))
  /\ \A t \in Readers \union Writers : WF_evars(which = "eventfd" /\ EventfdStep(t))
  /\ WF_lvars(which = "pool" /\ putq)
  /\ \A t \in PoolThread : WF_lvars(which = "pool" /\ svc(t))
  /\ \A t \in 0 .. 10 : SF_svars(which = "scripts" /\ t \in S!Threads /\ S!Step(t))
  /\ \A t \in 0 .. 10 : WF_svars(which = "scripts" /\ t \in S!Threads /\ S!Flush(t))
  /\ WF_wvars(which = "watchdog" /\ wstate = "running" /\ Tick)
  /\ WF_wvars(which = "watchdog" /\ wstate = "running" /\ Handle)
  /\ WF_mqvars(which = "message_queue" /\ (Get \/ GetWait))

Spec == Init /\ [][Next]_vars /\ Fairness

-----------------------------------------------------------------------------
(* The properties of the components.                                       *)

\* Every component keeps its type.
TypeOK ==
  ExchangeType /\ QueueType /\ EventfdType /\ PoolType /\ S!Type /\ WatchType
  /\ MqType

\* The assertions of the thread demonstrations hold on a machine with store buffers.
ChecksHold == S!ChecksHold

\* Every thread finds a partner, as long as there are two (exchanger/solution.cc).
AllMeet == which = "exchanger" => EveryoneMeets

\* Everything that is put in a queue is taken out of it (the synchronized queues).
QueueDrained == which = "queue" => AllTaken

\* Every thread gets the eventfd lock as often as it wants it.
EventfdAllEnd == which = "eventfd" => EveryoneEnds

\* Every message put in the pool's queue is processed (LF_ThreadPool.cc).
PoolServes == which = "pool" => AllProcessed

\* Every thread demonstration ends.
ScriptsEnd == which = "scripts" => S!ScriptsEnd

=============================================================================
