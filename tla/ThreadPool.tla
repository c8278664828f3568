----------------------------- MODULE ThreadPool -----------------------------
(***************************************************************************)
(* The leader/followers thread pool of                                     *)
(* src/examples/ace/Chapter-8/LF_ThreadPool.cc.  become_leader and         *)
(* elect_new_leader run under leader_lock_, which only Follower::wait      *)
(* frees, and take followers_lock_ only inside it: each is one step, or    *)
(* two if it waits.  shut_down is never called, so done() is never true.   *)
(*                                                                         *)
(* Follower::wait returns only when it is signalled.  Were it to return    *)
(* for no reason, and find no leader, become_leader would delete a         *)
(* Follower that is still in the queue: from there on the program has no   *)
(* defined behaviour to model.                                             *)
(***************************************************************************)
EXTENDS Integers, Sequences, FiniteSets

CONSTANTS
  PoolThread,   \* the threads of the pool, 5 in main
  Messages,     \* the number of messages that main puts, 30
  Nobody        \* current_leader_ is 0

VARIABLES
  current_leader_,
  followers_,   \* the queue of followers
  fwait,        \* the threads that sleep in Follower::wait
  tpc,          \* where a thread of the pool is
  unsent,       \* messages that main has still to put
  msgs,         \* messages in the message queue of the ACE_Task
  processed     \* history: messages processed

lvars == <<current_leader_, followers_, fwait, tpc, unsent, msgs, processed>>

PoolGoto(t, l) == tpc' = [tpc EXCEPT ![t] = l]

PoolInit ==
  /\ current_leader_ = Nobody
  /\ followers_ = <<>> /\ fwait = {}
  /\ tpc = [t \in PoolThread |-> "loop"]
  /\ unsent = Messages /\ msgs = 0 /\ processed = 0

\* main: putq of the next message.
putq ==
  /\ unsent > 0
  /\ unsent' = unsent - 1 /\ msgs' = msgs + 1
  /\ UNCHANGED <<current_leader_, followers_, fwait, tpc, processed>>

\* Mutant of become_leader: an if in the place of the while.
BecomeLeaderNoLoop(t) ==
  /\ \/ tpc[t] = "loop"
     \/ tpc[t] = "wait" /\ t \notin fwait
  /\ IF current_leader_ # Nobody /\ tpc[t] = "loop"
     THEN /\ followers_' = Append(followers_, t)
          /\ fwait' = fwait \cup {t} /\ PoolGoto(t, "wait")
          /\ UNCHANGED current_leader_
     ELSE current_leader_' = t /\ PoolGoto(t, "getq") /\ UNCHANGED <<followers_, fwait>>
  /\ UNCHANGED <<unsent, msgs, processed>>

\* A thread that was woken and finds a leader sleeps again; only the first time
\* does it enter the queue of followers.
become_leader(t) ==
  /\ \/ tpc[t] = "loop"
     \/ tpc[t] = "wait" /\ t \notin fwait
  /\ IF current_leader_ # Nobody
     THEN /\ followers_' = IF tpc[t] = "loop" THEN Append(followers_, t) ELSE followers_
          /\ fwait' = fwait \cup {t} /\ PoolGoto(t, "wait")
          /\ UNCHANGED current_leader_
     ELSE current_leader_' = t /\ PoolGoto(t, "getq") /\ UNCHANGED <<followers_, fwait>>
  /\ UNCHANGED <<unsent, msgs, processed>>

\* getq of svc: a message, or nothing within LONG_TIME seconds.
getq(t) ==
  /\ tpc[t] = "getq"
  /\ \/ msgs > 0 /\ msgs' = msgs - 1 /\ PoolGoto(t, "elect")
     \/ msgs = 0 /\ PoolGoto(t, "timedout") /\ UNCHANGED msgs
  /\ UNCHANGED <<current_leader_, followers_, fwait, unsent, processed>>

\* Mutant of elect_new_leader: the result of svc's test turned around.
ElectAndEnd(t) ==
  /\ tpc[t] \in {"elect", "timedout"}
  /\ current_leader_' = Nobody
  /\ IF followers_ # <<>>
     THEN followers_' = Tail(followers_) /\ fwait' = fwait \ {Head(followers_)}
     ELSE UNCHANGED <<followers_, fwait>>
  /\ PoolGoto(t, CASE tpc[t] = "elect" -> "process"
                   [] tpc[t] = "timedout" /\ followers_ = <<>> -> "end"
                   [] OTHER -> "loop")
  /\ UNCHANGED <<unsent, msgs, processed>>

\* elect_new_leader, and what svc does with its result: after a timeout a leader
\* that has elected somebody ends.
elect_new_leader(t) ==
  /\ tpc[t] \in {"elect", "timedout"}
  /\ current_leader_' = Nobody
  /\ IF followers_ # <<>>
     THEN followers_' = Tail(followers_) /\ fwait' = fwait \ {Head(followers_)}
     ELSE UNCHANGED <<followers_, fwait>>
  /\ PoolGoto(t, CASE tpc[t] = "elect" -> "process"
                   [] tpc[t] = "timedout" /\ followers_ # <<>> -> "end"
                   [] OTHER -> "loop")
  /\ UNCHANGED <<unsent, msgs, processed>>

process_message(t) ==
  /\ tpc[t] = "process"
  /\ processed' = processed + 1
  /\ PoolGoto(t, "loop")
  /\ UNCHANGED <<current_leader_, followers_, fwait, unsent, msgs>>

svc(t) == become_leader(t) \/ getq(t) \/ elect_new_leader(t) \/ process_message(t)

PoolNext == putq \/ \E t \in PoolThread : svc(t)

PoolSpec == PoolInit /\ [][PoolNext]_lvars

-----------------------------------------------------------------------------
(* Properties.                                                             *)

PoolType ==
  /\ current_leader_ \in PoolThread \cup {Nobody}
  /\ followers_ \in Seq(PoolThread) /\ fwait \subseteq PoolThread
  /\ tpc \in [PoolThread ->
       {"loop", "wait", "getq", "elect", "timedout", "process", "end"}]
  /\ unsent \in Nat /\ msgs \in Nat /\ processed \in Nat

\* There is one leader at a time, and it is the thread between become_leader and
\* elect_new_leader: only it waits for messages.
OneLeader ==
  \A t \in PoolThread :
    tpc[t] \in {"getq", "elect", "timedout"} <=> current_leader_ = t

\* The pool is never all asleep: whichever threads have ended, or sleep where no election
\* finds them, one is left that runs.
SomeoneAwake == \E t \in PoolThread : tpc[t] # "end" /\ t \notin fwait

\* No message is lost or processed twice: each is still to be sent, in the queue, with a
\* thread of the pool, or processed.
MessagesCounted ==
  unsent + msgs + Cardinality({t \in PoolThread : tpc[t] \in {"elect", "process"}})
    + processed = Messages

\* Every message is processed in the end, although the pool loses threads on the
\* way: one that is woken after another has become the leader sleeps again outside
\* the queue of followers, and a leader that no message comes to ends.
AllProcessed == <>(processed = Messages)

=============================================================================
