---------------------------- MODULE MessageQueue ----------------------------
(***************************************************************************)
(* The message queue exercise, src/exercises/c/message_queue/solution.c:   *)
(* pthread_mq_t with the two threads that main creates.                    *)
(*                                                                         *)
(* Every field of the queue is read and written between a lock and an      *)
(* unlock of m, or a wait that frees it: such a section is one step.       *)
(* Messages are numbered in the order in which the producer puts them; the *)
(* last one stands for 666, after which both threads end.                  *)
(***************************************************************************)
EXTENDS Integers, Sequences

CONSTANTS
  Size,      \* p->size, 10 in main
  Last       \* the message that stands for 666

ASSUME SizeAssumption == Size \in Nat \ {0}

ASSUME LastAssumption == Last \in Nat \ {0}

VARIABLES
  data, min, max,     \* pthread_mq_t
  cond_empty,         \* the threads that sleep on the condition variables
  cond_full,
  pc,                 \* "run", "wait" in pthread_cond_wait, or "end"
  sent,               \* the number of messages put so far
  out                 \* history: the messages got so far

mqvars == <<data, min, max, cond_empty, cond_full, pc, sent, out>>

MqThread == {"producer", "consumer"}

empty == max = min
full == (max + 1) % Size = min

\* pthread_mq_init; malloc leaves data with any contents, 0 stands for them.
MqInit ==
  /\ data = [i \in 0 .. Size - 1 |-> 0]
  /\ min = 0 /\ max = 0
  /\ cond_empty = {} /\ cond_full = {}
  /\ pc = [t \in MqThread |-> "run"]
  /\ sent = 0
  /\ out = <<>>

\* At the test of the while loop: at the start of a call, or after a wait.
MqAtTest(t) ==
  \/ pc[t] = "run"
  \/ pc[t] = "wait" /\ t \notin cond_empty \cup cond_full

\* pthread_mq_get of func_consumer, when it goes to sleep.
GetWait ==
  /\ MqAtTest("consumer") /\ empty
  /\ cond_empty' = cond_empty \cup {"consumer"}
  /\ pc' = [pc EXCEPT !["consumer"] = "wait"]
  /\ UNCHANGED <<data, min, max, cond_full, sent, out>>

\* pthread_mq_get when there is a message.  It is cond_empty that the code
\* broadcasts when the queue stops being full.
Get ==
  /\ MqAtTest("consumer") /\ ~ empty
  /\ out' = Append(out, data[min])
  /\ cond_empty' = IF full THEN {} ELSE cond_empty
  /\ min' = (min + 1) % Size
  /\ pc' = [pc EXCEPT !["consumer"] = IF data[min] = Last THEN "end" ELSE "run"]
  /\ UNCHANGED <<data, max, cond_full, sent>>

\* pthread_mq_put of func_producer, when it goes to sleep.
PutWait ==
  /\ MqAtTest("producer") /\ full
  /\ cond_full' = cond_full \cup {"producer"}
  /\ pc' = [pc EXCEPT !["producer"] = "wait"]
  /\ UNCHANGED <<data, min, max, cond_empty, sent, out>>

\* Mutant of Put: tests for empty after max has moved.
PutLateTest ==
  /\ MqAtTest("producer") /\ ~ full
  /\ data' = [data EXCEPT ![max] = sent + 1]
  /\ max' = (max + 1) % Size
  /\ cond_empty' = IF max' = min THEN {} ELSE cond_empty
  /\ sent' = sent + 1
  /\ pc' = [pc EXCEPT !["producer"] = IF sent' = Last THEN "end" ELSE "run"]
  /\ UNCHANGED <<min, cond_full, out>>

\* Mutant of Put: an if in the place of the while.
PutNoLoop ==
  /\ MqAtTest("producer") /\ (pc["producer"] = "run" => ~ full)
  /\ data' = [data EXCEPT ![max] = sent + 1]
  /\ cond_empty' = IF empty THEN {} ELSE cond_empty
  /\ max' = (max + 1) % Size
  /\ sent' = sent + 1
  /\ pc' = [pc EXCEPT !["producer"] = IF sent' = Last THEN "end" ELSE "run"]
  /\ UNCHANGED <<min, cond_full, out>>

\* pthread_mq_put when there is room.
Put ==
  /\ MqAtTest("producer") /\ ~ full
  /\ data' = [data EXCEPT ![max] = sent + 1]
  /\ cond_empty' = IF empty THEN {} ELSE cond_empty
  /\ max' = (max + 1) % Size
  /\ sent' = sent + 1
  /\ pc' = [pc EXCEPT !["producer"] = IF sent' = Last THEN "end" ELSE "run"]
  /\ UNCHANGED <<min, cond_full, out>>

\* pthread_cond_wait may return for no reason.
Spurious(t) ==
  /\ t \in cond_empty \cup cond_full
  /\ cond_empty' = cond_empty \ {t}
  /\ cond_full' = cond_full \ {t}
  /\ UNCHANGED <<data, min, max, pc, sent, out>>

MqNext ==
  \/ Get \/ GetWait
  \/ Put \/ PutWait
  \/ \E t \in MqThread : Spurious(t)

MqSpec == MqInit /\ [][MqNext]_mqvars

-----------------------------------------------------------------------------
(* Properties.                                                             *)

\* Every variable of the queue and of its two threads has its type.
MqType ==
  /\ data \in [0 .. Size - 1 -> 0 .. Last]
  /\ min \in 0 .. Size - 1
  /\ max \in 0 .. Size - 1
  /\ cond_empty \subseteq {"consumer"}
  /\ cond_full \subseteq {"producer"}
  /\ pc \in [MqThread -> {"run", "wait", "end"}]
  /\ sent \in 0 .. Last
  /\ out \in Seq(1 .. Last)

\* The messages in the queue, oldest first.
Queued == [j \in 1 .. (max - min + Size) % Size |-> data[(min + j - 1) % Size]]

\* The abstract queue.
Channel == INSTANCE BoundedChannel
             WITH Capacity <- Size - 1, chan <- Queued

\* The array with its two indices is a first-in first-out queue of Size - 1
\* places: no message is lost, overwritten, repeated or got out of order, also
\* when a wait returns for no reason.
ImplementsChannel == Channel!Spec

\* "if we turned the queue from empty -> non empty, wake up whoever is waiting"
\* (pthread_mq_put): the consumer does not sleep while there are messages.
ConsumerNotForgotten == "consumer" \in cond_empty => empty

\* "if we turned the queue from full -> non full, wake up whoever is waiting"
\* (pthread_mq_get): the producer does not sleep while there is room.
ProducerNotForgotten == "producer" \in cond_full => full

\* Every message that was put is got, whatever happens to the producer, which puts Last
\* of them at most.  Nothing is assumed of the producer, which waits for a user to type
\* numbers.
AllGot == <>[](Len(out) = sent)

=============================================================================
