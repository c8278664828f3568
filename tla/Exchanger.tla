----------------------------- MODULE Exchanger ------------------------------
(***************************************************************************)
(* The exchanger of                                                        *)
(* src/exercises/cpp/multi_threading/exchanger/solution.cc, and its        *)
(* workers.  The class is for any number of threads (that is what          *)
(* cv_overflow is for); main uses it with two.                             *)
(*                                                                         *)
(* All of exchange runs under the mutex m, which only a wait frees: from   *)
(* the lock or a wait to the next wait or the return is one step.  A value *)
(* is the pair of the thread that brings it and the loop it brings it in.  *)
(***************************************************************************)
EXTENDS Integers, FiniteSets

CONSTANTS
  Party,      \* the threads that exchange
  Rounds,     \* loop_count, 10000 in main
  NoOne       \* the null ptr

VARIABLES
  ptr,        \* whose variable the first thread has left, or NoOne
  state,      \* EMPTY, FIRST_ARRIVED or SECOND_ARRIVED
  cv_main, cv_overflow,   \* the threads that sleep on the conditions
  at,         \* "call", "overflow" or "main" in a wait, or "end"
  myval,      \* the variable that each thread hands to exchange
  loop,       \* the loop counter i of each worker
  swaps       \* history: an entry for each exchange that has returned

xvars == <<ptr, state, cv_main, cv_overflow, at, myval, loop, swaps>>

Value == Party \X (0 .. Rounds - 1)
Swap == [gave : Value, got : Value]

ExchangeInit ==
  /\ ptr = NoOne /\ state = "EMPTY"
  /\ cv_main = {} /\ cv_overflow = {}
  /\ at = [t \in Party |-> IF Rounds = 0 THEN "end" ELSE "call"]
  /\ myval = [t \in Party |-> <<t, 0>>]
  /\ loop = [t \in Party |-> 0]
  /\ swaps = {}

\* exchange returns v to t: the worker checks it and goes on to the next loop.
Return(t, v) ==
  /\ swaps' = swaps \cup {[gave |-> <<t, loop[t]>>, got |-> v]}
  /\ loop' = [loop EXCEPT ![t] = @ + 1]
  /\ at' = [at EXCEPT ![t] = IF loop[t] + 1 = Rounds THEN "end" ELSE "call"]

\* At the first test of the loop that keeps late threads out.
AtOverflowTest(t) ==
  at[t] = "call" \/ (at[t] = "overflow" /\ t \notin cv_overflow)

\* exchange, while the exchange of two others is not finished.
KeepOut(t) ==
  /\ AtOverflowTest(t) /\ state = "SECOND_ARRIVED"
  /\ cv_overflow' = cv_overflow \cup {t}
  /\ at' = [at EXCEPT ![t] = "overflow"]
  /\ UNCHANGED <<ptr, state, cv_main, myval, loop, swaps>>

\* case EMPTY of exchange, to the first wait.
ArriveFirst(t) ==
  /\ AtOverflowTest(t) /\ state = "EMPTY"
  /\ ptr' = t /\ state' = "FIRST_ARRIVED"
  /\ cv_main' = cv_main \cup {t}
  /\ at' = [at EXCEPT ![t] = "main"]
  /\ UNCHANGED <<cv_overflow, myval, loop, swaps>>

\* A first thread that a wait returned to for no reason waits again.
WaitAgain(t) ==
  /\ at[t] = "main" /\ t \notin cv_main /\ state = "FIRST_ARRIVED"
  /\ cv_main' = cv_main \cup {t}
  /\ UNCHANGED <<ptr, state, cv_overflow, at, myval, loop, swaps>>

\* Mutant of Leave: without the notify_all.
LeaveSilently(t) ==
  /\ at[t] = "main" /\ t \notin cv_main /\ state # "FIRST_ARRIVED"
  /\ ptr' = NoOne /\ state' = "EMPTY"
  /\ Return(t, myval[t])
  /\ myval' = [myval EXCEPT ![t] = <<t, loop'[t]>>]
  /\ UNCHANGED <<cv_main, cv_overflow>>

\* case EMPTY of exchange, from the last wait to the return, and the next myval.
Leave(t) ==
  /\ at[t] = "main" /\ t \notin cv_main /\ state # "FIRST_ARRIVED"
  /\ ptr' = NoOne /\ state' = "EMPTY"
  /\ cv_overflow' = {}
  /\ Return(t, myval[t])
  /\ myval' = [myval EXCEPT ![t] = <<t, loop'[t]>>]
  /\ UNCHANGED cv_main

\* Mutant of ArriveSecond: late threads are not kept out of an exchange.
ArriveThird(t) ==
  /\ AtOverflowTest(t) /\ state # "EMPTY"
  /\ state' = "SECOND_ARRIVED"
  /\ Return(t, myval[ptr])
  /\ myval' = [myval EXCEPT ![t] = <<t, loop'[t]>>, ![ptr] = myval[t]]
  /\ IF cv_main = {} THEN UNCHANGED cv_main
                     ELSE cv_main' \in {cv_main \ {u} : u \in cv_main}
  /\ UNCHANGED <<ptr, cv_overflow>>

\* case FIRST_ARRIVED of exchange: the swap, and notify_one; and the next myval.
ArriveSecond(t) ==
  /\ AtOverflowTest(t) /\ state = "FIRST_ARRIVED"
  /\ state' = "SECOND_ARRIVED"
  /\ Return(t, myval[ptr])
  /\ myval' = [myval EXCEPT ![t] = <<t, loop'[t]>>, ![ptr] = myval[t]]
  /\ IF cv_main = {} THEN UNCHANGED cv_main
                     ELSE cv_main' \in {cv_main \ {u} : u \in cv_main}
  /\ UNCHANGED <<ptr, cv_overflow>>

\* A wait on a condition variable may return for no reason.
SpuriousWakeup(t) ==
  /\ t \in cv_main \cup cv_overflow
  /\ cv_main' = cv_main \ {t} /\ cv_overflow' = cv_overflow \ {t}
  /\ UNCHANGED <<ptr, state, at, myval, loop, swaps>>

exchange(t) ==
  \/ KeepOut(t) \/ ArriveFirst(t) \/ WaitAgain(t) \/ Leave(t) \/ ArriveSecond(t)

ExchangeNext == \E t \in Party : exchange(t) \/ SpuriousWakeup(t)

ExchangeSpec == ExchangeInit /\ [][ExchangeNext]_xvars

-----------------------------------------------------------------------------
(* Properties.                                                             *)

ExchangeType ==
  /\ ptr \in Party \cup {NoOne}
  /\ state \in {"EMPTY", "FIRST_ARRIVED", "SECOND_ARRIVED"}
  /\ cv_main \subseteq Party /\ cv_overflow \subseteq Party
  /\ at \in [Party -> {"call", "overflow", "main", "end"}]
  /\ myval \in [Party -> Party \X (0 .. Rounds)]
  /\ loop \in [Party -> 0 .. Rounds]
  /\ swaps \subseteq Swap

\* exchange is an exchange: what one thread got for its value, the thread whose
\* value it got has got or will get in return, no value is handed out twice, and
\* nobody gets back its own.  The last is the assertion of Worker::operator().
ExchangeIsSwap ==
  \A s \in swaps :
    /\ s.got[1] # s.gave[1]
    /\ \A r \in swaps : (r.gave = s.got) <=> (r.got = s.gave)

\* The assertions of exchange hold whenever they are evaluated.
AssertsHold ==
  /\ state = "EMPTY" => ptr = NoOne
  /\ state = "FIRST_ARRIVED" => ptr # NoOne
  /\ \A t \in Party :
       at[t] = "main" /\ t \notin cv_main => state # "EMPTY"

\* Nobody sleeps through what it waits for: a first thread sleeps only until the second
\* is there, and late threads only as long as a first thread is awake to let them in.
ExchangeWakeups ==
  /\ cv_main # {} => state = "FIRST_ARRIVED"
  /\ cv_overflow # {} => state = "SECOND_ARRIVED" /\ at[ptr] = "main" /\ ptr \notin cv_main

\* Two threads that have exchanges to make meet: in the end at most one thread
\* is left, and it is first in an exchange that nobody else will come to.
EveryoneMeets ==
  <>(\E t \in Party : \A u \in Party :
       \/ at[u] = "end"
       \/ u = t /\ at[u] = "main" /\ state = "FIRST_ARRIVED")

=============================================================================
