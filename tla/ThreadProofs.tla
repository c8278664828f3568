---------------------------- MODULE ThreadProofs ----------------------------
(***************************************************************************)
(* Proofs about user-space programs of threads and of processes: the       *)
(* exchanger, the leader and followers pool, the watchdog, and the queues  *)
(* that threads share, each for every number of threads, loops and         *)
(* messages.  The four have nothing in common but this module.              *)
(***************************************************************************)
EXTENDS Exchanger, ThreadPool, Watchdog, SyncQueue, TLAPS

-----------------------------------------------------------------------------
(* The exchanger.                                                          *)

\* The value that a thread brings to its current exchange.
Own(t) == <<t, loop[t]>>

\* The thread of the first arrival, if there is one, is the one in the wait on cv_main.
PlaceInv ==
  /\ state = "EMPTY" => ptr = NoOne
  /\ state # "EMPTY" => ptr \in Party /\ at[ptr] = "main"
  /\ \A t \in Party : at[t] = "main" => ptr = t
  /\ \A t \in Party : at[t] # "end" => loop[t] < Rounds

\* Every variable holds its own value, except that of a first thread whose partner has
\* been there and that has not woken up.
ValueInv ==
  /\ \A t \in Party : ~(state = "SECOND_ARRIVED" /\ t = ptr) => myval[t] = Own(t)
  /\ state = "SECOND_ARRIVED" => [gave |-> myval[ptr], got |-> Own(ptr)] \in swaps

\* The other side of an exchange has returned too, or is about to.
Answered(s) ==
  \/ [gave |-> s.got, got |-> s.gave] \in swaps
  \/ state = "SECOND_ARRIVED" /\ s.got = Own(ptr) /\ s.gave = myval[ptr]

\* Each exchange is answered, and a thread gives each of its values once.
SwapInv ==
  /\ \A s \in swaps :
       /\ s.got[1] # s.gave[1]
       /\ s.gave[2] < loop[s.gave[1]]
       /\ Answered(s)
  /\ \A s, r \in swaps : s.gave = r.gave => s = r

\* The inductive invariant.
ExchInv == ExchangeType /\ PlaceInv /\ ValueInv /\ SwapInv

\* The state the constructor and the workers start with satisfies the invariant.
LEMMA InitExch ==
  ASSUME Rounds \in Nat, ExchangeInit
  PROVE  ExchInv
  <1>1. ExchangeType
    BY DEF ExchangeInit, ExchangeType
  <1>2. PlaceInv /\ ValueInv /\ SwapInv
    BY DEF ExchangeInit, PlaceInv, ValueInv, SwapInv, Own
  <1>3. QED
    BY Zenon, <1>1, <1>2 DEF ExchInv

\* The waits of exchange, in their loops, keep the invariant.
LEMMA WaitExchInv ==
  ASSUME ExchInv, Rounds \in Nat, NEW t \in Party,
         KeepOut(t) \/ WaitAgain(t) \/ SpuriousWakeup(t)
  PROVE  ExchInv'
  <1>1. UNCHANGED <<ptr, state, myval, loop, swaps>>
    BY Zenon DEF KeepOut, WaitAgain, SpuriousWakeup
  <1>2. ExchangeType'
    BY Zenon, <1>1 DEF ExchInv, ExchangeType, KeepOut, WaitAgain, SpuriousWakeup
  <1>3. PlaceInv'
    BY Zenon, <1>1 DEF ExchInv, PlaceInv, ExchangeType, KeepOut, WaitAgain, SpuriousWakeup,
       AtOverflowTest
  <1>4. ValueInv' /\ SwapInv'
    BY Zenon, <1>1 DEF ExchInv, ValueInv, SwapInv, Answered, Own
  <1>5. QED
    BY Zenon, <1>2, <1>3, <1>4 DEF ExchInv

\* A first arrival keeps the invariant.
LEMMA ArriveFirstExchInv ==
  ASSUME ExchInv, Rounds \in Nat, NoOne \notin Party, NEW t \in Party, ArriveFirst(t)
  PROVE  ExchInv'
  <1>1. ExchangeType'
    BY Zenon DEF ExchInv, ExchangeType, ArriveFirst
  <1>2. PlaceInv'
    BY Zenon DEF ExchInv, PlaceInv, ExchangeType, ArriveFirst, AtOverflowTest
  <1>3. ValueInv'
    BY Zenon DEF ExchInv, ValueInv, ArriveFirst, Own
  <1>4. SwapInv'
    BY Zenon DEF ExchInv, SwapInv, ArriveFirst, Answered, Own
  <1>5. QED
    BY Zenon, <1>1, <1>2, <1>3, <1>4 DEF ExchInv

\* exchange returning to a worker: the record it leaves is new, and the others stand.
LEMMA Returned ==
  ASSUME ExchInv, Rounds \in Nat, NEW t \in Party, at[t] # "end", NEW v \in Value,
         Return(t, v)
  PROVE  /\ swaps' = swaps \cup {[gave |-> Own(t), got |-> v]}
         /\ [gave |-> Own(t), got |-> v] \in Swap
         /\ swaps' \subseteq Swap
         /\ loop' \in [Party -> 0 .. Rounds]
         /\ at' \in [Party -> {"call", "overflow", "main", "end"}]
         /\ at'[t] \in {"call", "end"}
         /\ loop'[t] = loop[t] + 1
         /\ \A u \in Party : u # t => loop'[u] = loop[u] /\ at'[u] = at[u]
         /\ \A u \in Party : at'[u] # "end" => loop'[u] < Rounds
         /\ \A s \in swaps' : s.gave[2] < loop'[s.gave[1]]
         /\ \A s, r \in swaps' : s.gave = r.gave => s = r
  <1>1. loop[t] \in 0 .. Rounds - 1
    BY DEF ExchInv, ExchangeType, PlaceInv
  <1>2. Own(t) \in Value
    BY Zenon, <1>1 DEF Own, Value
  <1>3. /\ swaps' = swaps \cup {[gave |-> Own(t), got |-> v]}
        /\ loop' = [loop EXCEPT ![t] = @ + 1]
        /\ at' = [at EXCEPT ![t] = IF loop[t] + 1 = Rounds THEN "end" ELSE "call"]
    BY Zenon DEF Return, Own
  <1>4. [gave |-> Own(t), got |-> v] \in Swap
    BY Zenon, <1>2 DEF Swap
  <1>5. swaps' \subseteq Swap
    BY Zenon, <1>3, <1>4 DEF ExchInv, ExchangeType
  <1>6. /\ loop' \in [Party -> 0 .. Rounds]
        /\ loop'[t] = loop[t] + 1
        /\ \A u \in Party : u # t => loop'[u] = loop[u]
    BY <1>1, <1>3 DEF ExchInv, ExchangeType
  <1>7. /\ at' \in [Party -> {"call", "overflow", "main", "end"}]
        /\ at'[t] \in {"call", "end"}
        /\ \A u \in Party : u # t => at'[u] = at[u]
    BY Zenon, <1>3 DEF ExchInv, ExchangeType
  <1>8. \A u \in Party : at'[u] # "end" => loop'[u] < Rounds
    BY <1>1, <1>3, <1>6, <1>7 DEF ExchInv, ExchangeType, PlaceInv
  <1>9. \A s \in swaps : s.gave[1] \in Party /\ s.gave[2] < loop[s.gave[1]]
    BY Zenon DEF ExchInv, SwapInv, ExchangeType, Swap, Value
  <1>10. \A u \in Party : loop[u] <= loop'[u] /\ loop[u] \in Nat /\ loop'[u] \in Nat
    BY <1>1, <1>6 DEF ExchInv, ExchangeType
  <1>11. \A s \in swaps : s.gave[2] < loop'[s.gave[1]]
    <2> TAKE s \in swaps
    <2>1. s.gave[1] \in Party /\ s.gave[2] \in Nat
      BY DEF ExchInv, ExchangeType, Swap, Value
    <2>2. QED
      BY <2>1, <1>9, <1>10
  <1>12. \A s \in swaps : s.gave # Own(t)
    BY <1>9 DEF Own, ExchInv, ExchangeType
  <1>13. \A s \in swaps' : s.gave[2] < loop'[s.gave[1]]
    BY <1>1, <1>3, <1>6, <1>11 DEF Own
  <1>14. \A s, r \in swaps' : s.gave = r.gave => s = r
    BY <1>3, <1>12 DEF ExchInv, SwapInv
  <1>15. QED
    BY Zenon, <1>3, <1>4, <1>5, <1>6, <1>7, <1>8, <1>13, <1>14

\* The second arrival, which swaps, keeps the invariant.
LEMMA ArriveSecondExchInv ==
  ASSUME ExchInv, Rounds \in Nat, NEW t \in Party, ArriveSecond(t)
  PROVE  ExchInv'
  <1> DEFINE new == [gave |-> Own(t), got |-> Own(ptr)]
  <1>1. /\ state = "FIRST_ARRIVED" /\ state' = "SECOND_ARRIVED"
        /\ ptr \in Party /\ ptr' = ptr /\ at[ptr] = "main" /\ t # ptr
        /\ at[t] # "end"
    BY Zenon DEF ArriveSecond, AtOverflowTest, ExchInv, PlaceInv
  <1>2. myval[t] = Own(t) /\ myval[ptr] = Own(ptr)
    BY Zenon, <1>1 DEF ExchInv, ValueInv
  <1>3. Own(ptr) \in Value /\ Return(t, Own(ptr))
    BY <1>1, <1>2 DEF ArriveSecond, Own, Value, ExchInv, ExchangeType, PlaceInv
  <1>4. /\ swaps' = swaps \cup {new}
        /\ swaps' \subseteq Swap
        /\ loop' \in [Party -> 0 .. Rounds]
        /\ at' \in [Party -> {"call", "overflow", "main", "end"}]
        /\ at'[t] \in {"call", "end"}
        /\ \A u \in Party : u # t => loop'[u] = loop[u] /\ at'[u] = at[u]
        /\ \A u \in Party : at'[u] # "end" => loop'[u] < Rounds
        /\ \A s \in swaps' : s.gave[2] < loop'[s.gave[1]]
        /\ \A s, r \in swaps' : s.gave = r.gave => s = r
    BY Zenon, <1>1, <1>3, Returned
  <1>5. /\ myval' \in [Party -> Party \X (0 .. Rounds)]
        /\ myval'[t] = Own(t)'
        /\ myval'[ptr] = Own(t)
        /\ \A u \in Party \ {t, ptr} : myval'[u] = myval[u]
    BY Zenon, <1>1, <1>2, <1>4 DEF ArriveSecond, Own, ExchInv, ExchangeType
  <1>6. cv_main' \subseteq Party /\ cv_overflow' \subseteq Party
    BY DEF ArriveSecond, ExchInv, ExchangeType
  <1>7. ExchangeType'
    BY Zenon, <1>1, <1>4, <1>5, <1>6 DEF ExchangeType
  <1>8. PlaceInv'
    BY Zenon, <1>1, <1>4 DEF PlaceInv, ExchInv
  <1>9. Own(ptr)' = Own(ptr) /\ \A u \in Party \ {t} : Own(u)' = Own(u)
    BY Zenon, <1>1, <1>4 DEF Own
  <1>10. ValueInv'
    <2>1. \A u \in Party : u # ptr => myval'[u] = Own(u)'
      <3> SUFFICES ASSUME NEW u \in Party, u # ptr PROVE myval'[u] = Own(u)'
        BY Zenon
      <3>1. CASE u = t
        BY Zenon, <3>1, <1>5
      <3>2. CASE u # t
        BY Zenon, <3>2, <1>1, <1>5, <1>9 DEF ExchInv, ValueInv
      <3>3. QED
        BY Zenon, <3>1, <3>2
    <2>2. [gave |-> myval'[ptr], got |-> Own(ptr)'] \in swaps'
      BY Zenon, <1>4, <1>5, <1>9
    <2>3. QED
      BY Zenon, <1>1, <2>1, <2>2 DEF ValueInv, Own
  <1>11. \A s \in swaps' : s.got[1] # s.gave[1] /\ Answered(s)'
    <2>1. new.got[1] # new.gave[1]
      BY Zenon, <1>1 DEF Own
    <2>2. ASSUME NEW s, s = new PROVE Answered(s)'
      BY Zenon, <2>2, <1>1, <1>5, <1>9 DEF Answered, Own
    <2>3. \A s \in swaps : s.got[1] # s.gave[1] /\ [gave |-> s.got, got |-> s.gave] \in swaps
      BY Zenon, <1>1 DEF ExchInv, SwapInv, Answered
    <2>4. \A s \in swaps : Answered(s)'
      BY Zenon, <2>3, <1>4 DEF Answered
    <2>5. QED
      BY Zenon, <1>4, <2>1, <2>2, <2>3, <2>4
  <1>12. SwapInv'
    BY Zenon, <1>4, <1>11 DEF SwapInv
  <1>13. QED
    BY Zenon, <1>7, <1>8, <1>10, <1>12 DEF ExchInv

\* The first thread leaving with the value of the second keeps the invariant.
LEMMA LeaveExchInv ==
  ASSUME ExchInv, Rounds \in Nat, NoOne \notin Party, NEW t \in Party, Leave(t)
  PROVE  ExchInv'
  <1> DEFINE new == [gave |-> Own(t), got |-> myval[t]]
  <1>1. /\ state = "SECOND_ARRIVED" /\ state' = "EMPTY"
        /\ ptr = t /\ ptr' = NoOne /\ at[t] # "end"
    BY Zenon DEF Leave, ExchInv, PlaceInv, ExchangeType
  <1>2. [gave |-> myval[t], got |-> Own(t)] \in swaps
    BY Zenon, <1>1 DEF ExchInv, ValueInv
  <1>3. myval[t] \in Value /\ Return(t, myval[t])
    BY Zenon, <1>2 DEF Leave, ExchInv, ExchangeType, Swap
  <1>4. /\ swaps' = swaps \cup {new}
        /\ swaps' \subseteq Swap
        /\ loop' \in [Party -> 0 .. Rounds]
        /\ at' \in [Party -> {"call", "overflow", "main", "end"}]
        /\ at'[t] \in {"call", "end"}
        /\ \A u \in Party : u # t => loop'[u] = loop[u] /\ at'[u] = at[u]
        /\ \A u \in Party : at'[u] # "end" => loop'[u] < Rounds
        /\ \A s \in swaps' : s.gave[2] < loop'[s.gave[1]]
        /\ \A s, r \in swaps' : s.gave = r.gave => s = r
    BY Zenon, <1>1, <1>3, Returned
  <1>5. /\ myval' \in [Party -> Party \X (0 .. Rounds)]
        /\ myval'[t] = Own(t)'
        /\ \A u \in Party \ {t} : myval'[u] = myval[u]
    BY Zenon, <1>4 DEF Leave, Own, ExchInv, ExchangeType
  <1>6. ExchangeType'
    BY Zenon, <1>1, <1>4, <1>5 DEF Leave, ExchInv, ExchangeType
  <1>7. PlaceInv'
    BY Zenon, <1>1, <1>4 DEF PlaceInv, ExchInv
  <1>8. ValueInv'
    BY Zenon, <1>1, <1>4, <1>5 DEF ExchInv, ValueInv, Own
  <1>9. \A s \in swaps' : s.got[1] # s.gave[1] /\ Answered(s)'
    <2>1. new.got[1] # new.gave[1]
      BY Zenon, <1>2 DEF ExchInv, SwapInv, Own
    <2>2. ASSUME NEW s, s = new PROVE Answered(s)'
      BY Zenon, <2>2, <1>2, <1>4 DEF Answered
    <2>3. \A s \in swaps : s.got[1] # s.gave[1] /\ [gave |-> s.got, got |-> s.gave] \in swaps'
      BY Zenon, <1>1, <1>4 DEF ExchInv, SwapInv, Answered
    <2>4. \A s \in swaps : Answered(s)'
      BY Zenon, <2>3 DEF Answered
    <2>5. QED
      BY Zenon, <1>4, <2>1, <2>2, <2>3, <2>4
  <1>10. SwapInv'
    BY Zenon, <1>4, <1>9 DEF SwapInv
  <1>11. QED
    BY Zenon, <1>6, <1>7, <1>8, <1>10 DEF ExchInv

\* The invariant of the exchanger holds in every reachable state, for every set of threads
\* that does not contain the null pointer.
THEOREM ExchangerInvariance ==
  ASSUME Rounds \in Nat, NoOne \notin Party
  PROVE  ExchangeSpec => []ExchInv
  <1>1. ExchangeInit => ExchInv
    BY Zenon, InitExch
  <1>2. ExchInv /\ [ExchangeNext]_xvars => ExchInv'
    <2> SUFFICES ASSUME ExchInv, [ExchangeNext]_xvars PROVE ExchInv'
      BY Zenon
    <2>1. CASE UNCHANGED xvars
      BY Zenon, <2>1 DEF xvars, ExchInv, ExchangeType, PlaceInv, ValueInv, SwapInv, Answered, Own
    <2>2. CASE ExchangeNext
      <3>1. PICK t \in Party : exchange(t) \/ SpuriousWakeup(t)
        BY Zenon, <2>2 DEF ExchangeNext
      <3>2. QED
        BY Zenon, <3>1, WaitExchInv, ArriveFirstExchInv, ArriveSecondExchInv, LeaveExchInv
           DEF exchange
    <2>3. QED
      BY Zenon, <2>1, <2>2
  <1>3. QED
    BY <1>1, <1>2, PTL DEF ExchangeSpec

\* What a thread gets for a value, the thread that brought what it got gets in return, once,
\* and nobody gets back its own value (exchange, and the assertion of Worker::operator()).
THEOREM Exchanges ==
  ASSUME Rounds \in Nat, NoOne \notin Party
  PROVE  ExchangeSpec => []ExchangeIsSwap
  <1>1. ExchInv => ExchangeIsSwap
    <2> SUFFICES ASSUME ExchInv, NEW s \in swaps, NEW r \in swaps
                 PROVE  s.got[1] # s.gave[1] /\ ((r.gave = s.got) <=> (r.got = s.gave))
      BY Zenon DEF ExchangeIsSwap
    <2>1. s.got[1] # s.gave[1] /\ Answered(s) /\ Answered(r)
      BY Zenon DEF ExchInv, SwapInv
    <2>2. state = "SECOND_ARRIVED" => r.gave # Own(ptr) /\ s.gave # Own(ptr)
      BY DEF ExchInv, SwapInv, Own, PlaceInv, ExchangeType
    <2>3. s \in Swap /\ r \in Swap
      BY Zenon DEF ExchInv, ExchangeType
    <2>4. ASSUME r.gave = s.got PROVE r.got = s.gave
      BY Zenon, <2>1, <2>2, <2>4 DEF Answered, ExchInv, SwapInv
    <2>5. ASSUME r.got = s.gave PROVE r.gave = s.got
      BY <2>1, <2>2, <2>5 DEF Answered, ExchInv, SwapInv
    <2>6. QED
      BY Zenon, <2>1, <2>4, <2>5
  <1>2. QED
    BY <1>1, ExchangerInvariance, PTL

\* The assertions inside exchange hold whenever they are evaluated.
THEOREM Assertions ==
  ASSUME Rounds \in Nat, NoOne \notin Party
  PROVE  ExchangeSpec => []AssertsHold
  <1>1. ExchInv => AssertsHold
    BY Zenon DEF ExchInv, PlaceInv, ExchangeType, AssertsHold
  <1>2. QED
    BY <1>1, ExchangerInvariance, PTL

\* Who sleeps in an exchange: the first thread, alone, on cv_main.
SleepInv ==
  /\ cv_main \subseteq {ptr}
  /\ state # "FIRST_ARRIVED" => cv_main = {}
  /\ state # "SECOND_ARRIVED" => cv_overflow = {}

\* Every step of exchange keeps who sleeps.
LEMMA ExchangeSleepInv ==
  ASSUME ExchInv, SleepInv, NEW t \in Party, exchange(t) \/ SpuriousWakeup(t)
  PROVE  SleepInv'
  <1>1. CASE KeepOut(t)
    BY Zenon, <1>1 DEF KeepOut, SleepInv
  <1>2. CASE ArriveFirst(t)
    BY Zenon, <1>2 DEF ArriveFirst, SleepInv
  <1>3. CASE WaitAgain(t)
    BY Zenon, <1>3 DEF WaitAgain, SleepInv, ExchInv, PlaceInv
  <1>4. CASE Leave(t)
    BY <1>4 DEF Leave, SleepInv
  <1>5. CASE ArriveSecond(t)
    <2>1. state = "FIRST_ARRIVED" /\ state' = "SECOND_ARRIVED" /\ ptr' = ptr
      BY Zenon, <1>5 DEF ArriveSecond
    <2>2. cv_main' = {}
      BY Zenon, <1>5 DEF ArriveSecond, SleepInv
    <2>3. QED
      BY Zenon, <2>1, <2>2 DEF SleepInv
  <1>6. CASE SpuriousWakeup(t)
    BY Zenon, <1>6 DEF SpuriousWakeup, SleepInv
  <1>7. QED
    BY Zenon, <1>1, <1>2, <1>3, <1>4, <1>5, <1>6 DEF exchange

\* Nobody sleeps through what it waits for: notify_one reaches the first thread, and
\* notify_all comes after every late thread that it is for.
THEOREM ExchangerWakeups ==
  ASSUME Rounds \in Nat, NoOne \notin Party
  PROVE  ExchangeSpec => []ExchangeWakeups
  <1>1. ExchangeInit => SleepInv
    BY Zenon DEF ExchangeInit, SleepInv
  <1>2. ExchInv /\ SleepInv /\ [ExchangeNext]_xvars => SleepInv'
    <2>1. UNCHANGED xvars /\ SleepInv => SleepInv'
      BY Zenon DEF xvars, SleepInv
    <2>2. QED
      BY Zenon, <2>1, ExchangeSleepInv DEF ExchangeNext
  <1>3. ExchInv /\ SleepInv => ExchangeWakeups
    BY Zenon DEF ExchInv, ExchangeType, PlaceInv, SleepInv, ExchangeWakeups
  <1>4. QED
    BY <1>1, <1>2, <1>3, ExchangerInvariance, PTL DEF ExchangeSpec

-----------------------------------------------------------------------------
(* The leader and followers pool.                                          *)

\* The inductive invariant: the leader is the thread between become_leader and
\* elect_new_leader.
PoolInv == PoolType /\ OneLeader

\* A thread of the pool that takes a step leaves at most one leader.
LEMMA SvcPool ==
  ASSUME Nobody \notin PoolThread, PoolInv, NEW t \in PoolThread, svc(t)
  PROVE  PoolInv'
  <1>1. CASE become_leader(t)
    <2>1. PoolType'
      <3>1. followers_' \in Seq(PoolThread)
        BY <1>1 DEF PoolInv, PoolType, become_leader
      <3>2. QED
        BY Zenon, <1>1, <3>1 DEF PoolInv, PoolType, become_leader, PoolGoto
    <2>2. OneLeader'
      BY <1>1 DEF PoolInv, PoolType, OneLeader, become_leader, PoolGoto
    <2>3. QED
      BY Zenon, <2>1, <2>2 DEF PoolInv
  <1>2. CASE getq(t)
    <2>1. PoolType'
      BY <1>2 DEF PoolInv, PoolType, getq, PoolGoto
    <2>2. OneLeader'
      BY Zenon, <1>2 DEF PoolInv, PoolType, OneLeader, getq, PoolGoto
    <2>3. QED
      BY Zenon, <2>1, <2>2 DEF PoolInv
  <1>3. CASE elect_new_leader(t)
    <2>0. PICK l \in {"process", "end", "loop"} : tpc' = [tpc EXCEPT ![t] = l]
      BY Zenon, <1>3 DEF elect_new_leader, PoolGoto
    <2>1. PoolType'
      <3>1. followers_' \in Seq(PoolThread) /\ fwait' \subseteq PoolThread
        <4>1. followers_ \in Seq(PoolThread) /\ fwait \subseteq PoolThread
          BY Zenon DEF PoolInv, PoolType
        <4>2. followers_ # <<>> => Tail(followers_) \in Seq(PoolThread)
          BY <4>1
        <4>3. IF followers_ # <<>>
              THEN followers_' = Tail(followers_) /\ fwait' \subseteq fwait
              ELSE UNCHANGED <<followers_, fwait>>
          BY Zenon, <1>3 DEF elect_new_leader
        <4>4. CASE followers_ # <<>>
          BY Zenon, <4>1, <4>2, <4>3, <4>4
        <4>5. CASE followers_ = <<>>
          BY <4>1, <4>3, <4>5
        <4>6. QED
          BY Zenon, <4>4, <4>5
      <3>2. QED
        BY Zenon, <1>3, <2>0, <3>1 DEF PoolInv, PoolType, elect_new_leader
    <2>2. OneLeader'
      BY Zenon, <1>3, <2>0 DEF PoolInv, PoolType, OneLeader, elect_new_leader
    <2>3. QED
      BY Zenon, <2>1, <2>2 DEF PoolInv
  <1>4. CASE process_message(t)
    <2>1. PoolType'
      BY <1>4 DEF PoolInv, PoolType, process_message, PoolGoto
    <2>2. OneLeader'
      BY Zenon, <1>4 DEF PoolInv, PoolType, OneLeader, process_message, PoolGoto
    <2>3. QED
      BY Zenon, <2>1, <2>2 DEF PoolInv
  <1>5. QED
    BY Zenon, <1>1, <1>2, <1>3, <1>4 DEF svc

\* A step of the pool, or of main, leaves at most one leader.
LEMMA NextPool ==
  ASSUME Nobody \notin PoolThread, PoolInv, [PoolNext]_lvars
  PROVE  PoolInv'
  <1>1. CASE UNCHANGED lvars
    BY Zenon, <1>1 DEF lvars, PoolInv, PoolType, OneLeader
  <1>2. CASE putq
    BY <1>2 DEF putq, PoolInv, PoolType, OneLeader
  <1>3. QED
    BY Zenon, <1>1, <1>2, SvcPool DEF PoolNext

\* The pool has at most one leader, which alone waits for messages, for every number of
\* threads and messages, although threads time out, end and wake up late.
THEOREM PoolHasOneLeader ==
  ASSUME Messages \in Nat, Nobody \notin PoolThread
  PROVE  PoolSpec => []OneLeader
  <1>1. PoolInit => PoolInv
    BY DEF PoolInit, PoolInv, PoolType, OneLeader
  <1>2. PoolSpec => []PoolInv
    BY <1>1, NextPool, PTL DEF PoolSpec
  <1>3. PoolInv => OneLeader
    BY Zenon DEF PoolInv
  <1>4. QED
    BY <1>2, <1>3, PTL

\* Who sleeps in the pool: the threads in the queue of followers, each once, and others
\* that found a leader when they woke up.
FollowInv ==
  /\ \A i \in 1 .. Len(followers_) : followers_[i] \in fwait
  /\ \A i, j \in 1 .. Len(followers_) : followers_[i] = followers_[j] => i = j
  /\ \A t \in fwait : tpc[t] = "wait"

\* A thread that becomes leader, or sleeps, keeps the followers apart.
LEMMA BecomeFollow ==
  ASSUME PoolType, FollowInv, NEW t \in PoolThread, become_leader(t)
  PROVE  FollowInv'
  <1>1. t \notin fwait /\ tpc[t] \in {"loop", "wait"}
    BY Zenon DEF become_leader, FollowInv
  <1>2. CASE current_leader_ = Nobody
    <2>1. tpc' = [tpc EXCEPT ![t] = "getq"] /\ UNCHANGED <<followers_, fwait>>
      BY Zenon, <1>2 DEF become_leader, PoolGoto
    <2>2. QED
      BY <1>1, <2>1 DEF FollowInv, PoolType
  <1>3. CASE current_leader_ # Nobody
    <2>1. /\ followers_' = IF tpc[t] = "loop" THEN Append(followers_, t) ELSE followers_
          /\ fwait' = fwait \cup {t} /\ tpc' = [tpc EXCEPT ![t] = "wait"]
      BY Zenon, <1>3 DEF become_leader, PoolGoto
    <2>2. \A u \in fwait' : tpc'[u] = "wait"
      BY Zenon, <2>1 DEF FollowInv, PoolType
    <2>3. CASE followers_' = followers_
      BY <2>1, <2>2, <2>3 DEF FollowInv
    <2>4. CASE followers_' = Append(followers_, t)
      <3>1. /\ Len(followers_') = Len(followers_) + 1 /\ Len(followers_) \in Nat
            /\ \A i \in 1 .. Len(followers_) : followers_'[i] = followers_[i]
            /\ followers_'[Len(followers_) + 1] = t
        BY <2>4 DEF PoolType
      <3>2. \A i \in 1 .. Len(followers_) : followers_[i] # t
        BY <1>1 DEF FollowInv
      <3>3. QED
        BY <2>1, <2>2, <3>1, <3>2 DEF FollowInv
    <2>5. QED
      BY Zenon, <2>1, <2>3, <2>4
  <1>4. QED
    BY Zenon, <1>2, <1>3

\* An election wakes the first follower and takes it out of the queue.
LEMMA ElectFollow ==
  ASSUME PoolType, FollowInv, NEW t \in PoolThread, elect_new_leader(t)
  PROVE  /\ FollowInv'
         /\ tpc'[t] = "end" => \E u \in PoolThread : tpc'[u] = "wait" /\ u \notin fwait'
  <1>1. PICK l \in {"process", "end", "loop"} : tpc' = [tpc EXCEPT ![t] = l]
    BY Zenon DEF elect_new_leader, PoolGoto
  <1>2. tpc[t] # "wait" /\ t \notin fwait
    BY DEF elect_new_leader, FollowInv
  <1>3. \A u \in fwait : tpc'[u] = "wait"
    BY Zenon, <1>1, <1>2 DEF FollowInv, PoolType
  <1>4. CASE followers_ = <<>>
    <2>1. followers_' = followers_ /\ fwait' = fwait
      BY Zenon, <1>4 DEF elect_new_leader
    <2>2. tpc'[t] # "end"
      BY <1>4 DEF elect_new_leader, PoolGoto, PoolType
    <2>3. FollowInv'
      BY Zenon, <1>3, <2>1 DEF FollowInv
    <2>4. QED
      BY Zenon, <2>2, <2>3
  <1>5. CASE followers_ # <<>>
    <2>1. followers_' = Tail(followers_) /\ fwait' = fwait \ {followers_[1]}
      BY <1>5 DEF elect_new_leader
    <2>2. /\ Len(followers_) \in Nat /\ Len(followers_) > 0
          /\ Len(followers_') = Len(followers_) - 1
          /\ \A i \in 1 .. Len(followers_') : followers_'[i] = followers_[i + 1]
      BY <1>5, <2>1 DEF PoolType
    <2>3. \A i \in 1 .. Len(followers_') :
            /\ i + 1 \in 1 .. Len(followers_) /\ 1 \in 1 .. Len(followers_) /\ i + 1 # 1
      BY <2>2
    <2>4. \A i \in 1 .. Len(followers_') : followers_[i + 1] \in fwait'
      BY <2>1, <2>3 DEF FollowInv
    <2>5. \A i, j \in 1 .. Len(followers_') : followers_'[i] = followers_'[j] => i = j
      <3> TAKE i, j \in 1 .. Len(followers_')
      <3>1. followers_[i + 1] = followers_[j + 1] => i + 1 = j + 1
        BY Zenon, <2>3 DEF FollowInv
      <3>2. QED
        BY <2>2, <3>1
    <2>6. FollowInv'
      BY <1>3, <2>1, <2>2, <2>4, <2>5 DEF FollowInv
    <2>7. followers_[1] \in fwait /\ followers_[1] \in PoolThread
      <3>1. 1 \in 1 .. Len(followers_)
        BY <2>2
      <3>2. QED
        BY <3>1 DEF FollowInv, PoolType
    <2>8. tpc'[followers_[1]] = "wait" /\ followers_[1] \notin fwait'
      BY Zenon, <1>3, <2>1, <2>7
    <2>9. QED
      BY Zenon, <2>6, <2>7, <2>8
  <1>6. QED
    BY Zenon, <1>4, <1>5

\* A thread that steps leaves somebody awake.
LEMMA SvcAwake ==
  ASSUME PoolInv, PoolInv', FollowInv, NEW t \in PoolThread, svc(t), Nobody \notin PoolThread
  PROVE  FollowInv' /\ SomeoneAwake'
  <1>0. PoolType
    BY Zenon DEF PoolInv
  <1>1. CASE become_leader(t)
    <2>1. FollowInv'
      BY Zenon, <1>0, <1>1, BecomeFollow
    <2>2. CASE current_leader_ = Nobody
      <3>1. tpc'[t] = "getq"
        BY Zenon, <1>0, <1>1, <2>2 DEF become_leader, PoolGoto, PoolType
      <3>2. t \notin fwait'
        BY <2>1, <3>1 DEF FollowInv
      <3>3. QED
        BY <2>1, <3>1, <3>2 DEF SomeoneAwake
    <2>3. CASE current_leader_ # Nobody
      <3>1. current_leader_' = current_leader_
        BY Zenon, <1>1, <2>3 DEF become_leader
      <3>2. PICK u \in PoolThread : u = current_leader_'
        BY Zenon, <1>0, <2>3, <3>1 DEF PoolType
      <3>3. tpc'[u] \in {"getq", "elect", "timedout"}
        BY Zenon, <3>2 DEF PoolInv, OneLeader
      <3>4. u \notin fwait'
        BY <2>1, <3>3 DEF FollowInv
      <3>5. QED
        BY <2>1, <3>3, <3>4 DEF SomeoneAwake
    <2>4. QED
      BY Zenon, <2>2, <2>3
  <1>2. CASE elect_new_leader(t)
    <2>1. /\ FollowInv'
          /\ tpc'[t] = "end" => \E u \in PoolThread : tpc'[u] = "wait" /\ u \notin fwait'
      BY Zenon, <1>0, <1>2, ElectFollow
    <2>2. tpc'[t] # "wait"
      BY Zenon, <1>0, <1>2 DEF elect_new_leader, PoolGoto, PoolType
    <2>3. t \notin fwait'
      BY Zenon, <2>1, <2>2 DEF FollowInv
    <2>4. QED
      BY <2>1, <2>3 DEF SomeoneAwake
  <1>3. CASE getq(t) \/ process_message(t)
    <2>1. /\ tpc[t] # "wait" /\ UNCHANGED <<followers_, fwait>>
          /\ \E l \in {"elect", "timedout", "loop"} : tpc' = [tpc EXCEPT ![t] = l]
      BY <1>3 DEF getq, process_message, PoolGoto
    <2>2. t \notin fwait /\ tpc'[t] \notin {"wait", "end"}
      BY Zenon, <1>0, <2>1 DEF FollowInv, PoolType
    <2>3. \A u \in fwait : tpc'[u] = "wait"
      BY Zenon, <1>0, <2>1, <2>2 DEF FollowInv, PoolType
    <2>4. FollowInv'
      BY Zenon, <2>1, <2>3 DEF FollowInv
    <2>5. SomeoneAwake'
      BY <2>1, <2>2 DEF SomeoneAwake
    <2>6. QED
      BY Zenon, <2>4, <2>5
  <1>4. QED
    BY Zenon, <1>1, <1>2, <1>3 DEF svc

\* The pool is never all asleep, although threads that wake up late sleep where no election
\* finds them and leaders that no message comes to end.
THEOREM PoolAwake ==
  ASSUME Messages \in Nat, Nobody \notin PoolThread, PoolThread # {}
  PROVE  PoolSpec => []SomeoneAwake
  <1>1. PoolInit => PoolInv /\ FollowInv /\ SomeoneAwake
    BY DEF PoolInit, PoolInv, PoolType, OneLeader, FollowInv, SomeoneAwake
  <1>2. /\ PoolInv /\ PoolInv' /\ FollowInv /\ SomeoneAwake /\ [PoolNext]_lvars
        => FollowInv' /\ SomeoneAwake'
    <2>1. UNCHANGED <<followers_, fwait, tpc>> /\ FollowInv /\ SomeoneAwake
            => FollowInv' /\ SomeoneAwake'
      BY Zenon DEF FollowInv, SomeoneAwake
    <2>2. putq \/ UNCHANGED lvars => UNCHANGED <<followers_, fwait, tpc>>
      BY Zenon DEF putq, lvars
    <2>3. QED
      BY Zenon, <2>1, <2>2, SvcAwake DEF PoolNext
  <1>3. PoolInv /\ [PoolNext]_lvars => PoolInv'
    BY Zenon, NextPool
  <1>4. QED
    BY <1>1, <1>2, <1>3, PTL DEF PoolSpec

-----------------------------------------------------------------------------
(* The watchdog.                                                           *)

\* The children signal more often than the timer expires: 2 and 5 seconds in the code.
Timing ==
  /\ Period \in Nat \ {0} /\ Timeout \in Nat /\ Period < Timeout
  /\ MaxFaults \in Nat

\* The inductive invariant.  Of a child that is alive and has not been heard of since the
\* timer was started, the signal is on its way or comes before the timer expires.  When it
\* has expired it has just been started again, and the silent children are not alive.
WatchInv ==
  /\ WatchType
  /\ \E c \in Child : got[c] = 0
  /\ \A c \in Child : proc[c] = "alive" /\ got[c] = 0 =>
       pending[Usr(c)] \/ nap[c] < timer
  /\ pending["ALRM"] =>
       /\ timer = Timeout
       /\ \A c \in Child : got[c] = 0 => proc[c] # "alive" /\ ~ pending[Usr(c)]

\* A second that passes keeps the invariant.
LEMMA TickWatch ==
  ASSUME Timing, WatchInv, Tick
  PROVE  WatchInv'
  <1> DEFINE wakes == {c \in Child : nap[c] = 1}
  <1>1. /\ \A s \in {"CHLD", "ALRM", "USR1", "USR2"} : pending[s] = FALSE
        /\ UNCHANGED <<wstate, proc, got, faults>>
        /\ timer' = IF timer = 1 THEN Timeout ELSE timer - 1
        /\ nap' = [c \in Child |-> IF nap[c] = 1 THEN Period ELSE nap[c] - 1]
    BY Zenon DEF Tick, WatchInv, WatchType
  <1>2. /\ pending' \in [{"CHLD", "ALRM", "USR1", "USR2"} -> BOOLEAN]
        /\ pending'["ALRM"] <=> timer = 1
        /\ \A c \in Child : pending'[Usr(c)] <=> nap[c] = 1 /\ proc[c] = "alive"
    BY Zenon DEF Tick, WatchInv, WatchType, Usr, Child
  <1>3. /\ timer \in 1 .. Timeout /\ nap \in [Child -> 1 .. Period]
        /\ got \in [Child -> {0, 1}]
    BY Zenon DEF WatchInv, WatchType
  <1>4. WatchType'
    BY <1>1, <1>2, <1>3 DEF WatchInv, WatchType, Timing
  <1>5. \A c \in Child : Usr(c) \in {"USR1", "USR2"}
    BY Zenon DEF Usr
  <1>6. \A c \in Child : proc[c] = "alive" /\ got[c] = 0 => nap[c] < timer
    BY Zenon, <1>1, <1>5 DEF WatchInv
  <1>7. \A c \in Child : proc'[c] = "alive" /\ got'[c] = 0 =>
          pending'[Usr(c)] \/ nap'[c] < timer'
    BY <1>1, <1>2, <1>3, <1>6
  <1>8. pending'["ALRM"] =>
          /\ timer' = Timeout
          /\ \A c \in Child : got'[c] = 0 => proc'[c] # "alive" /\ ~ pending'[Usr(c)]
    BY <1>1, <1>2, <1>3, <1>6
  <1>9. QED
    BY Zenon, <1>1, <1>4, <1>7, <1>8 DEF WatchInv

\* A child that hangs or dies, or the end of the watchdog, keeps the invariant.
LEMMA FaultWatch ==
  ASSUME Timing, WatchInv,
         sigintHandler \/ sigchildHandler \/ \E c \in Child,
         how \in Faults : Fault(c, how)
  PROVE  WatchInv'
  <1>1. CASE sigintHandler
    BY Zenon, <1>1 DEF sigintHandler, WatchInv, WatchType
  <1>2. CASE sigchildHandler
    BY Zenon, <1>2 DEF sigchildHandler, WatchInv, WatchType, Usr, Up
  <1>3. ASSUME NEW c \in Child, NEW how \in Faults, Fault(c, how)
        PROVE  WatchInv'
    BY <1>3 DEF Fault, WatchInv, WatchType, Usr, Up, Timing
  <1>4. QED
    BY Zenon, <1>1, <1>2, <1>3

\* A signal of a child keeps the invariant: the second of the two starts the timer again.
LEMMA SignalWatch ==
  ASSUME Timing, WatchInv, NEW c \in Child, watchsigHandler(c)
  PROVE  WatchInv'
  BY DEF watchsigHandler, WatchInv, WatchType, Usr, Child, Timing

\* The timer keeps the invariant: the children it starts have not slept yet.
LEMMA TimeoutWatch ==
  ASSUME Timing, WatchInv, timeoutsigHandler
  PROVE  WatchInv'
  <1> DEFINE lost == {c \in Child : got[c] = 0}
             fails == {c \in lost : proc[c] = "gone"}
             started == {c \in lost : \A d \in fails : c < d}
  <1>1. /\ pending["ALRM"] /\ UNCHANGED <<got, timer, faults>>
        /\ pending' = [pending EXCEPT !["ALRM"] = FALSE, !["CHLD"] = @ \/ started # {}]
        /\ proc' = [c \in Child |-> IF c \in started THEN "alive" ELSE proc[c]]
        /\ nap' = [c \in Child |-> IF c \in started THEN Period ELSE nap[c]]
        /\ wstate' \in {wstate, "failed"}
    BY Zenon DEF timeoutsigHandler
  <1>2. started \subseteq lost
    BY Zenon
  <1> HIDE DEF lost, fails, started
  <1>3. WatchType'
    <2>1. pending' \in [{"CHLD", "ALRM", "USR1", "USR2"} -> BOOLEAN]
      BY Zenon, <1>1 DEF WatchInv, WatchType
    <2>2. /\ wstate' \in {"running", "done", "failed"}
          /\ proc' \in [Child -> Up \union {"zombie", "gone"}]
          /\ nap' \in [Child -> 1 .. Period]
      BY <1>1 DEF WatchInv, WatchType, Up, Timing
    <2>3. QED
      BY Zenon, <1>1, <2>1, <2>2 DEF WatchInv, WatchType
  <1>4. timer = Timeout /\ \A c \in Child : got[c] = 0 => proc[c] # "alive"
    BY Zenon, <1>1 DEF WatchInv
  <1>5. ~ pending'["ALRM"]
    BY Zenon, <1>1 DEF WatchInv, WatchType
  <1>6. \A c \in Child : proc'[c] = "alive" /\ got'[c] = 0 => nap'[c] < timer'
    BY Zenon, <1>1, <1>4 DEF Timing
  <1>7. QED
    BY Zenon, <1>1, <1>3, <1>5, <1>6 DEF WatchInv

\* A step of the watchdog or of a child keeps the invariant.
LEMMA NextWatch ==
  ASSUME Timing, WatchInv, [WatchNext]_wvars
  PROVE  WatchInv'
  <1>1. CASE UNCHANGED wvars
    BY Zenon, <1>1 DEF wvars, WatchInv, WatchType
  <1>2. CASE WatchNext
    BY Zenon, <1>2, TickWatch, FaultWatch, SignalWatch, TimeoutWatch DEF WatchNext, Handle
  <1>3. QED
    BY Zenon, <1>1, <1>2

\* The watchdog kills no child that signals in time, whatever befalls the other one,
\* whenever the period of the children is shorter than the timeout.
THEOREM OnlyTheSilent ==
  ASSUME Timing
  PROVE  WatchInit /\ [][WatchNext]_wvars => []OnlySilentKilled
  <1>1. WatchInit => WatchInv
    BY DEF WatchInit, WatchInv, WatchType, Usr, Child, Up, Timing
  <1>2. WatchInit /\ [][WatchNext]_wvars => []WatchInv
    BY <1>1, NextWatch, PTL
  <1>3. WatchInv => OnlySilentKilled
    BY Zenon DEF WatchInv, WatchType, OnlySilentKilled
  <1>4. QED
    BY <1>2, <1>3, PTL

\* The inductive invariant of a watchdog whose children do not die by themselves: while
\* it runs they are all there.
ChildrenInv ==
  /\ wstate \in {"running", "done"}
  /\ wstate = "running" => \A c \in Child : proc[c] \in Up

\* No CHECK of the watchdog fails as long as the children only hang: those it kills are
\* replaced before it waits for them, so wait3 has a child to wait for and kill a process.
THEOREM WatchdogSurvives ==
  ASSUME Faults \subseteq {"hang"}
  PROVE  WatchInit /\ [][WatchNext]_wvars => []ChecksPass
  <1>1. WatchInit => ChildrenInv
    BY DEF WatchInit, ChildrenInv, Up
  <1>2. ChildrenInv /\ [WatchNext]_wvars => ChildrenInv'
    <2> SUFFICES ASSUME ChildrenInv, [WatchNext]_wvars PROVE ChildrenInv'
      BY Zenon
    <2>1. CASE UNCHANGED wvars
      BY Zenon, <2>1 DEF wvars, ChildrenInv
    <2>2. CASE Tick \/ \E c \in Child : watchsigHandler(c)
      BY Zenon, <2>2 DEF Tick, watchsigHandler, ChildrenInv
    <2>3. CASE sigintHandler
      BY Zenon, <2>3 DEF sigintHandler, ChildrenInv
    <2>4. ASSUME WatchNext PROVE \A c \in Child : proc[c] \in Up
      BY Zenon, <2>4 DEF WatchNext, ChildrenInv
    <2>5. ASSUME WatchNext, NEW c \in Child, NEW how \in Faults, Fault(c, how)
          PROVE  ChildrenInv'
      <3>1. proc' = [proc EXCEPT ![c] = "hung"] /\ wstate' = wstate
        BY <2>5 DEF Fault
      <3>2. QED
        BY <2>4, <2>5, <3>1 DEF ChildrenInv, Up
    <2>6. ASSUME WatchNext, sigchildHandler PROVE ChildrenInv'
      BY <2>4, <2>6 DEF sigchildHandler, ChildrenInv, Child, Up
    <2>7. ASSUME WatchNext, timeoutsigHandler PROVE ChildrenInv'
      BY <2>4, <2>7 DEF timeoutsigHandler, ChildrenInv, Up
    <2>8. QED
      BY Zenon, <2>1, <2>2, <2>3, <2>5, <2>6, <2>7 DEF WatchNext, Handle
  <1>3. ChildrenInv => ChecksPass
    BY DEF ChildrenInv, ChecksPass
  <1>4. QED
    BY <1>1, <1>2, <1>3, PTL

-----------------------------------------------------------------------------
(* The queues that threads share.                                          *)

INSTANCE FiniteSetTheorems
INSTANCE SequenceTheorems

\* Only "mq" lets a producer wait, and "solution" counts who waits.
WaitInv ==
  /\ program # "mq" => inget \subseteq Consumers
  /\ program = "solution" => waiters = Cardinality(inget)

\* The sets that are counted.
FiniteInv ==
  /\ IsFiniteSet(inget) /\ Cardinality(inget) \in Nat
  /\ IsFiniteSet(Woken) /\ Cardinality(Woken) \in Nat

\* The inductive invariant.
QueueInv == QueueType /\ WaitInv /\ WakeupsCoverQueue

\* What the numbers of the program have to be.
Numbers == CpuNums \subseteq Nat /\ Count \in Nat /\ MaxSize \in Nat

-----------------------------------------------------------------------------
(* Counting.                                                               *)

\* The sets that are counted are finite.
LEMMA Finite == QueueType => FiniteInv
  <1> SUFFICES ASSUME QueueType PROVE FiniteInv
    BY Zenon
  <1>1. IsFiniteSet(Worker)
    <2>1. 0 \in Int /\ crew - 1 \in Int
      BY DEF QueueType
    <2>2. QED
      BY Zenon, <2>1, FS_Interval DEF Worker
  <1>2. inget \in SUBSET Worker /\ Woken \in SUBSET Worker
    BY Zenon DEF QueueType, Woken
  <1>3. IsFiniteSet(inget) /\ IsFiniteSet(Woken)
    BY <1>1, <1>2, FS_Subset
  <1>4. QED
    BY Zenon, <1>3, FS_CardinalityType DEF FiniteInv

\* With an empty queue, or nobody asleep, nothing has to be shown.
LEMMA NothingToCover ==
  ASSUME QueueType', queue' = <<>> \/ sleeping' = {}
  PROVE  WakeupsCoverQueue'
  <1>1. CASE sleeping' = {}
    BY <1>1 DEF WakeupsCoverQueue
  <1>2. CASE queue' = <<>>
    <2>1. FiniteInv'
      BY Finite, PTL
    <2>2. Len(queue') = 0
      BY <1>2
    <2>3. QED
      BY <2>1, <2>2 DEF FiniteInv, WakeupsCoverQueue
  <1>3. QED
    BY <1>1, <1>2

-----------------------------------------------------------------------------
(* The steps.                                                              *)

\* The queue after a put, and the producer's count.
LEMMA Putting ==
  ASSUME QueueType, NEW i \in Worker, todo[i] > 0
  PROVE  /\ Append(queue, <<i, todo[i]>>) \in Seq(Message)
         /\ Len(Append(queue, <<i, todo[i]>>)) = Len(queue) + 1
         /\ [todo EXCEPT ![i] = @ - 1] \in [Worker -> Nat]
  <1>1. crew \in Nat /\ todo[i] \in Nat
    BY Zenon DEF QueueType
  <1>2. i \in Nat
    BY <1>1 DEF Worker
  <1>3. <<i, todo[i]>> \in Message
    BY <1>1, <1>2 DEF Message
  <1>4. todo[i] - 1 \in Nat
    BY <1>1
  <1>5. QED
    BY <1>3, <1>4, AppendProperties DEF QueueType

\* The queue after the oldest message was taken.
LEMMA Taking ==
  ASSUME QueueType, queue # <<>>
  PROVE  Tail(queue) \in Seq(Message) /\ Len(Tail(queue)) = Len(queue) - 1
  BY HeadTailProperties DEF QueueType

\* The stack after the message put last was taken.
LEMMA Dropping ==
  ASSUME QueueType, queue # <<>>
  PROVE  /\ SubSeq(queue, 1, Len(queue) - 1) \in Seq(Message)
         /\ Len(SubSeq(queue, 1, Len(queue) - 1)) = Len(queue) - 1
  <1> DEFINE n == Len(queue) - 1
  <1>1. queue \in Seq(Message) /\ Len(queue) \in Nat /\ Len(queue) > 0
    BY DEF QueueType
  <1>2. n \in Nat /\ n \in Int /\ 1 \in Int
    BY <1>1
  <1>3. \A j \in 1 .. n : queue[j] \in Message
    BY <1>1
  <1> HIDE DEF n
  <1>4. SubSeq(queue, 1, n) \in Seq(Message) /\ Len(SubSeq(queue, 1, n)) = n
    BY <1>2, <1>3, SubSeqProperties
  <1>5. QED
    BY Zenon, <1>4 DEF n

\* Waking one consumer for one message keeps all messages covered.
LEMMA SignalCovers ==
  ASSUME QueueInv, QueueType', program # "mq", UNCHANGED <<program, crew, inget>>,
         Len(queue') = Len(queue) + 1, signal
  PROVE  WakeupsCoverQueue'
  <1>1. inget \subseteq Consumers /\ Consumers' = Consumers
    BY Zenon DEF QueueInv, WaitInv, Consumers, Producers, Worker
  <1>2. CASE sleeping = {}
    <2>1. sleeping' = {}
      BY Zenon, <1>2 DEF signal
    <2>2. QED
      BY <2>1, NothingToCover
  <1>3. CASE sleeping # {}
    <2>1. PICK j \in sleeping : sleeping' = sleeping \ {j}
      BY <1>3 DEF signal
    <2>2. j \in inget /\ j \in Consumers /\ j \notin Woken
      BY <1>1, <2>1 DEF QueueInv, QueueType, Woken
    <2>3. Woken' = Woken \cup {j}
      BY <1>1, <2>1, <2>2 DEF Woken
    <2>4. IsFiniteSet(Woken) /\ Cardinality(Woken) \in Nat
      BY Finite DEF QueueInv, FiniteInv
    <2>5. Cardinality(Woken') = Cardinality(Woken) + 1
      BY Zenon, <2>2, <2>3, <2>4, FS_AddElement
    <2>6. Len(queue) <= Cardinality(Woken)
      BY <2>1, <2>2 DEF QueueInv, WakeupsCoverQueue
    <2>7. Len(queue) \in Nat
      BY DEF QueueInv, QueueType
    <2>8. Len(queue') <= Cardinality(Woken')
      BY <2>4, <2>5, <2>6, <2>7
    <2>9. QED
      BY Zenon, <2>8 DEF WakeupsCoverQueue
  <1>4. QED
    BY <1>2, <1>3

\* A consumer that takes a message leaves the others covered.
LEMMA TakeCovers ==
  ASSUME QueueInv, NEW i \in Worker, UNCHANGED <<program, crew, sleeping>>,
         inget' = inget \ {i}, Len(queue') = Len(queue) - 1
  PROVE  WakeupsCoverQueue'
  <1>1. Consumers' = Consumers
    BY Zenon DEF Consumers, Producers, Worker
  <1>2. Woken' = Woken \ {i}
    BY <1>1 DEF Woken
  <1>3. IsFiniteSet(Woken) /\ Cardinality(Woken) \in Nat
    BY Finite DEF QueueInv, FiniteInv
  <1>4. Cardinality(Woken') >= Cardinality(Woken) - 1 /\ Cardinality(Woken') \in Int
    <2>1. Cardinality(Woken \ {i}) = IF i \in Woken THEN Cardinality(Woken) - 1
                                                    ELSE Cardinality(Woken)
      BY Zenon, <1>3, FS_RemoveElement
    <2>2. QED
      BY <1>2, <1>3, <2>1
  <1>5. Len(queue) \in Nat
    BY DEF QueueInv, QueueType
  <1>6. ASSUME sleeping' \cap Consumers' # {}
        PROVE  Len(queue') <= Cardinality(Woken')
    <2>1. Len(queue) <= Cardinality(Woken)
      BY <1>1, <1>6 DEF QueueInv, WakeupsCoverQueue
    <2>2. QED
      BY <1>3, <1>4, <1>5, <2>1
  <1>7. QED
    BY <1>6 DEF WakeupsCoverQueue

\* SynchronizedQueue::put keeps the invariant: it tests waiters, which counts the consumers
\* in get, where those that sleep are.
LEMMA PutQueueInv ==
  ASSUME QueueInv, NEW i \in Worker, put(i)
  PROVE  QueueInv'
  <1>1. /\ program = "solution" /\ todo[i] > 0
        /\ queue' = Append(queue, <<i, todo[i]>>)
        /\ todo' = [todo EXCEPT ![i] = @ - 1]
        /\ UNCHANGED <<program, crew, waiters, inget>>
        /\ \/ waiters > 0 /\ signal
           \/ ~ (waiters > 0) /\ sleeping' = sleeping
    BY Zenon DEF put, Runs
  <1>2. queue' \in Seq(Message) /\ Len(queue') = Len(queue) + 1 /\ todo' \in [Worker -> Nat]
    BY <1>1, Putting DEF QueueInv
  <1>3. sleeping' \subseteq sleeping
    BY Zenon, <1>1 DEF signal
  <1>4. Worker' = Worker /\ Consumers' = Consumers
    BY Zenon, <1>1 DEF Consumers, Producers, Worker
  <1>5. QueueType'
    BY <1>1, <1>2, <1>3, <1>4 DEF QueueInv, QueueType
  <1>6. WaitInv'
    BY <1>1, <1>4 DEF QueueInv, WaitInv
  <1>7. WakeupsCoverQueue'
    <2>1. CASE waiters > 0 /\ signal
      BY <1>1, <1>2, <1>5, <2>1, SignalCovers
    <2>2. CASE ~ (waiters > 0) /\ sleeping' = sleeping
      <3>1. IsFiniteSet(inget) /\ Cardinality(inget) \in Nat /\ waiters = Cardinality(inget)
        BY <1>1, Finite DEF QueueInv, WaitInv, FiniteInv
      <3>2. inget = {}
        BY <2>2, <3>1, FS_EmptySet
      <3>3. sleeping' = {}
        BY Zenon, <2>2, <3>2 DEF QueueInv, QueueType
      <3>4. QED
        BY <1>5, <3>3, NothingToCover
    <2>3. QED
      BY <1>1, <2>1, <2>2
  <1>8. QED
    BY <1>5, <1>6, <1>7 DEF QueueInv

\* SynchronizedQueue::get keeps the invariant.
LEMMA GetQueueInv ==
  ASSUME QueueInv, NEW i \in Worker, get(i)
  PROVE  QueueInv'
  <1>0. /\ program = "solution" /\ i \in Consumers /\ todo[i] > 0 /\ i \notin sleeping
        /\ UNCHANGED <<program, crew>>
    BY Zenon DEF get, Runs
  <1>1. Worker' = Worker /\ Consumers' = Consumers
    BY <1>0 DEF Consumers, Producers, Worker
  <1>2. /\ IsFiniteSet(inget) /\ Cardinality(inget) \in Nat /\ waiters = Cardinality(inget)
        /\ inget \subseteq Consumers
    BY <1>0, Finite DEF QueueInv, WaitInv, FiniteInv
  <1>3. CASE queue = <<>>
    <2>1. /\ waiters' = IF i \in inget THEN waiters ELSE waiters + 1
          /\ sleeping' = sleeping \cup {i} /\ inget' = inget \cup {i}
          /\ UNCHANGED <<queue, todo>>
      BY <1>3 DEF get
    <2>2. waiters' \in Nat /\ waiters' = Cardinality(inget')
      BY SMTT(30), <1>2, <2>1, FS_AddElement
    <2>3. QueueType'
      BY Zenon, <1>0, <1>1, <2>1, <2>2 DEF QueueInv, QueueType
    <2>4. WaitInv'
      BY <1>0, <1>1, <1>2, <2>1, <2>2 DEF WaitInv
    <2>5. WakeupsCoverQueue'
      BY <1>3, <2>1, <2>3, NothingToCover
    <2>6. QED
      BY Zenon, <2>3, <2>4, <2>5 DEF QueueInv
  <1>4. CASE queue # <<>>
    <2>1. /\ waiters' = IF i \in inget THEN waiters - 1 ELSE waiters
          /\ inget' = inget \ {i}
          /\ queue' = Tail(queue)
          /\ todo' = [todo EXCEPT ![i] = IF Poison(Head(queue)) THEN 0 ELSE 1]
          /\ UNCHANGED sleeping
      BY <1>4 DEF get
    <2>2. waiters' = Cardinality(inget') /\ waiters' \in Nat
      <3>1. IsFiniteSet(inget') /\ waiters' = Cardinality(inget')
        BY <1>2, <2>1, FS_RemoveElement
      <3>2. QED
        BY <3>1, FS_CardinalityType
    <2>3. queue' \in Seq(Message) /\ Len(queue') = Len(queue) - 1
      BY <1>4, <2>1, Taking DEF QueueInv
    <2>4. QueueType'
      <3>1. todo' \in [Worker -> Nat]
        BY <2>1 DEF QueueInv, QueueType
      <3>2. QED
        BY <1>0, <1>1, <2>1, <2>2, <2>3, <3>1 DEF QueueInv, QueueType
    <2>5. WaitInv'
      BY <1>0, <1>1, <1>2, <2>1, <2>2 DEF WaitInv
    <2>6. WakeupsCoverQueue'
      BY <1>0, <2>1, <2>3, TakeCovers
    <2>7. QED
      BY Zenon, <2>4, <2>5, <2>6 DEF QueueInv
  <1>5. QED
    BY <1>3, <1>4

\* ThreadSafeQueue::push keeps the invariant.
LEMMA PushQueueInv ==
  ASSUME QueueInv, NEW i \in Worker, push(i)
  PROVE  QueueInv'
  <1>1. /\ program = "cpp" /\ todo[i] > 0
        /\ queue' = Append(queue, <<i, todo[i]>>)
        /\ todo' = [todo EXCEPT ![i] = @ - 1]
        /\ UNCHANGED <<program, crew, waiters, inget>>
        /\ signal
    BY Zenon DEF push, Runs
  <1>2. queue' \in Seq(Message) /\ Len(queue') = Len(queue) + 1 /\ todo' \in [Worker -> Nat]
    BY <1>1, Putting DEF QueueInv
  <1>3. sleeping' \subseteq sleeping
    BY Zenon, <1>1 DEF signal
  <1>4. Worker' = Worker /\ Consumers' = Consumers
    BY Zenon, <1>1 DEF Consumers, Producers, Worker
  <1>5. QueueType'
    BY <1>1, <1>2, <1>3, <1>4 DEF QueueInv, QueueType
  <1>6. WaitInv'
    BY <1>1, <1>4 DEF QueueInv, WaitInv
  <1>7. WakeupsCoverQueue'
    BY <1>1, <1>2, <1>5, SignalCovers
  <1>8. QED
    BY Zenon, <1>5, <1>6, <1>7 DEF QueueInv

\* ThreadSafeQueue::pop keeps the invariant.
LEMMA PopQueueInv ==
  ASSUME QueueInv, NEW i \in Worker, pop(i)
  PROVE  QueueInv'
  <1>0. /\ program = "cpp" /\ i \in Consumers /\ todo[i] > 0 /\ i \notin sleeping
        /\ UNCHANGED <<program, crew, waiters>>
    BY Zenon DEF pop, Runs
  <1>1. Worker' = Worker /\ Consumers' = Consumers
    BY Zenon, <1>0 DEF Consumers, Producers, Worker
  <1>2. inget \subseteq Consumers
    BY <1>0 DEF QueueInv, WaitInv
  <1>3. CASE queue = <<>>
    <2>1. /\ sleeping' = sleeping \cup {i} /\ inget' = inget \cup {i}
          /\ UNCHANGED <<queue, todo>>
      BY Zenon, <1>3 DEF pop
    <2>2. QueueType'
      BY <1>0, <1>1, <2>1 DEF QueueInv, QueueType
    <2>3. WaitInv'
      BY <1>0, <1>1, <1>2, <2>1 DEF WaitInv
    <2>4. WakeupsCoverQueue'
      BY <1>3, <2>1, <2>2, NothingToCover
    <2>5. QED
      BY Zenon, <2>2, <2>3, <2>4 DEF QueueInv
  <1>4. CASE queue # <<>>
    <2>1. /\ inget' = inget \ {i}
          /\ queue' = Tail(queue)
          /\ todo' = [todo EXCEPT ![i] = @ - 1]
          /\ UNCHANGED sleeping
      BY Zenon, <1>4 DEF pop
    <2>2. queue' \in Seq(Message) /\ Len(queue') = Len(queue) - 1 /\ todo' \in [Worker -> Nat]
      BY Zenon, <1>0, <1>4, <2>1, Taking, Putting DEF QueueInv
    <2>3. QueueType'
      BY <1>0, <1>1, <2>1, <2>2 DEF QueueInv, QueueType
    <2>4. WaitInv'
      BY <1>0, <1>1, <1>2, <2>1 DEF WaitInv
    <2>5. WakeupsCoverQueue'
      BY <1>0, <2>1, <2>2, TakeCovers
    <2>6. QED
      BY Zenon, <2>3, <2>4, <2>5 DEF QueueInv
  <1>5. QED
    BY Zenon, <1>3, <1>4

\* mq_put keeps the invariant: it wakes everybody, or sleeps, and then no consumer is
\* concerned.
LEMMA MqPutQueueInv ==
  ASSUME QueueInv, NEW i \in Worker, mq_put(i)
  PROVE  QueueInv'
  <1>0. /\ program = "mq" /\ i \in Producers /\ todo[i] > 0
        /\ UNCHANGED <<program, crew, waiters>>
    BY Zenon DEF mq_put, Runs
  <1>1. Worker' = Worker /\ Consumers' = Consumers /\ i \notin Consumers
    BY Zenon, <1>0 DEF Consumers, Producers, Worker
  <1>2. WaitInv'
    BY Zenon, <1>0 DEF WaitInv
  <1>3. CASE Len(queue) = MaxSize
    <2>1. /\ sleeping' = sleeping \cup {i} /\ inget' = inget \cup {i}
          /\ UNCHANGED <<queue, todo>>
      BY Zenon, <1>3 DEF mq_put
    <2>2. QueueType'
      BY <1>0, <1>1, <2>1 DEF QueueInv, QueueType
    <2>3. Woken' = Woken /\ sleeping' \cap Consumers' = sleeping \cap Consumers
      BY <1>1, <2>1 DEF Woken
    <2>4. WakeupsCoverQueue'
      BY <2>1, <2>3 DEF QueueInv, WakeupsCoverQueue
    <2>5. QED
      BY <1>2, <2>2, <2>4 DEF QueueInv
  <1>4. CASE Len(queue) # MaxSize
    <2>1. /\ inget' = inget \ {i}
          /\ queue' = Append(queue, <<i, todo[i]>>)
          /\ sleeping' = {}
          /\ todo' = [todo EXCEPT ![i] = @ - 1]
      BY Zenon, <1>4 DEF mq_put
    <2>2. queue' \in Seq(Message) /\ todo' \in [Worker -> Nat]
      BY <1>0, <2>1, Putting DEF QueueInv
    <2>3. QueueType'
      BY <1>0, <1>1, <2>1, <2>2 DEF QueueInv, QueueType
    <2>4. WakeupsCoverQueue'
      BY <2>1, <2>3, NothingToCover
    <2>5. QED
      BY Zenon, <1>2, <2>3, <2>4 DEF QueueInv
  <1>5. QED
    BY <1>3, <1>4

\* mq_get keeps the invariant.
LEMMA MqGetQueueInv ==
  ASSUME QueueInv, NEW i \in Worker, mq_get(i)
  PROVE  QueueInv'
  <1>0. program = "mq" /\ UNCHANGED <<program, crew, waiters, todo>>
    BY Zenon DEF mq_get
  <1>1. Worker' = Worker
    BY <1>0 DEF Worker
  <1>2. WaitInv'
    BY Zenon, <1>0 DEF WaitInv
  <1>3. CASE queue = <<>>
    <2>1. /\ sleeping' = sleeping \cup {i} /\ inget' = inget \cup {i}
          /\ UNCHANGED queue
      BY <1>3 DEF mq_get
    <2>2. QueueType'
      BY <1>0, <1>1, <2>1 DEF QueueInv, QueueType
    <2>3. QED
      BY <1>2, <1>3, <2>1, <2>2, NothingToCover DEF QueueInv
  <1>4. CASE queue # <<>>
    <2>1. /\ inget' = inget \ {i}
          /\ queue' = SubSeq(queue, 1, Len(queue) - 1)
          /\ sleeping' = {}
      BY Zenon, <1>4 DEF mq_get
    <2>2. queue' \in Seq(Message)
      BY Zenon, <1>4, <2>1, Dropping DEF QueueInv
    <2>3. QueueType'
      BY <1>0, <1>1, <2>1, <2>2 DEF QueueInv, QueueType
    <2>4. QED
      BY <1>2, <2>1, <2>3, NothingToCover DEF QueueInv
  <1>5. QED
    BY Zenon, <1>3, <1>4

\* A wait that returns for no reason keeps the invariant: it adds to those that are awake.
LEMMA SpuriousQueueInv ==
  ASSUME QueueInv, NEW i \in Worker, SpuriousReturn(i)
  PROVE  QueueInv'
  <1>1. /\ sleeping' = sleeping \ {i}
        /\ UNCHANGED <<program, crew, queue, waiters, inget, todo>>
    BY Zenon DEF SpuriousReturn
  <1>2. Worker' = Worker /\ Consumers' = Consumers
    BY Zenon, <1>1 DEF Consumers, Producers, Worker
  <1>3. QueueType' /\ WaitInv'
    BY <1>1, <1>2 DEF QueueInv, QueueType, WaitInv
  <1>4. ASSUME sleeping' \cap Consumers' # {}
        PROVE  Len(queue') <= Cardinality(Woken')
    <2>1. Len(queue) <= Cardinality(Woken) /\ Len(queue) \in Nat
      BY <1>1, <1>2, <1>4 DEF QueueInv, WakeupsCoverQueue, QueueType
    <2>2. IsFiniteSet(Woken') /\ Cardinality(Woken') \in Nat
      <3>1. FiniteInv'
        BY <1>3, Finite, PTL
      <3>2. QED
        BY Zenon, <3>1 DEF FiniteInv
    <2>3. Woken \in SUBSET Woken'
      BY <1>1, <1>2 DEF Woken
    <2>4. Cardinality(Woken) <= Cardinality(Woken')
      BY <2>2, <2>3, FS_Subset
    <2>5. Cardinality(Woken) \in Nat
      BY Zenon, Finite DEF QueueInv, FiniteInv
    <2>6. QED
      BY <1>1, <2>1, <2>2, <2>4, <2>5
  <1>5. QED
    BY <1>3, <1>4 DEF QueueInv, WakeupsCoverQueue

-----------------------------------------------------------------------------

\* The programs start with an empty queue and nobody asleep.
LEMMA InitQueueInv ==
  ASSUME Numbers, QueueInit
  PROVE  QueueInv
  <1>1. program \in {"solution", "cpp", "mq"} /\ crew \in Nat
    BY DEF QueueInit, Numbers
  <1>2. todo \in [Worker -> Nat]
    <2>1. Count \in Nat /\ Count + 1 \in Nat /\ 2 * Count \in Nat
      BY DEF Numbers
    <2>2. \A i \in Worker : i \in Producers \/ i \in Consumers
      BY Zenon DEF Consumers
    <2>3. QED
      BY <2>1, <2>2 DEF QueueInit
  <1>3. QueueType
    BY <1>1, <1>2 DEF QueueInit, QueueType
  <1>4. WaitInv /\ WakeupsCoverQueue
    BY Zenon, FS_EmptySet DEF QueueInit, WaitInv, WakeupsCoverQueue
  <1>5. QED
    BY Zenon, <1>3, <1>4 DEF QueueInv

\* The invariant holds in every reachable state of the three programs.
THEOREM QueueInvariance ==
  ASSUME Numbers
  PROVE  QueueSpec => []QueueInv
  <1>1. QueueInit => QueueInv
    BY Zenon, InitQueueInv
  <1>2. QueueInv /\ [QueueNext]_qvars => QueueInv'
    <2> SUFFICES ASSUME QueueInv, [QueueNext]_qvars PROVE QueueInv'
      BY Zenon
    <2>1. CASE UNCHANGED qvars
      <3>1. UNCHANGED <<Worker, Consumers, Woken>>
        BY Zenon, <2>1 DEF qvars, Worker, Consumers, Producers, Woken
      <3>2. QED
        BY <2>1, <3>1 DEF qvars, QueueInv, QueueType, WaitInv, WakeupsCoverQueue
    <2>2. CASE QueueNext
      <3>1. PICK i \in Worker : QueueStep(i) \/ SpuriousReturn(i)
        BY Zenon, <2>2 DEF QueueNext
      <3>2. QED
        BY <3>1, PutQueueInv, GetQueueInv, PushQueueInv, PopQueueInv, MqPutQueueInv,
           MqGetQueueInv, SpuriousQueueInv
           DEF QueueStep
    <2>3. QED
      BY Zenon, <2>1, <2>2
  <1>3. QED
    BY <1>1, <1>2, PTL DEF QueueSpec

\* While a consumer sleeps there is a consumer awake for every message, although put wakes
\* one only, and only if the count of waiters, which also counts the woken, says so.
THEOREM QueueWakeups ==
  ASSUME Numbers
  PROVE  QueueSpec => []WakeupsCoverQueue
  <1>1. QueueInv => WakeupsCoverQueue
    BY Zenon DEF QueueInv
  <1>2. QED
    BY <1>1, QueueInvariance, PTL

-----------------------------------------------------------------------------
(* The counts of "cpp" and the stack of "mq".                              *)

\* The crews of the programs with a fixed number of threads.
CrewInv ==
  /\ program = "cpp" => crew = 3
  /\ program = "mq" => crew = 2

\* The workers of those programs.
LEMMA Crews ==
  ASSUME CrewInv
  PROVE  /\ program = "cpp" => Worker = {0, 1, 2} /\ Producers = {0, 1} /\ Consumers = {2}
         /\ program = "mq" => Worker = {0, 1} /\ Producers = {1} /\ Consumers = {0}
  <1>1. CASE program = "cpp"
    <2>1. Worker = {0, 1, 2}
      BY <1>1 DEF CrewInv, Worker
    <2>2. Producers = {0, 1}
      BY Zenon, <1>1 DEF Producers
    <2>3. QED
      BY <1>1, <2>1, <2>2 DEF Consumers
  <1>2. CASE program = "mq"
    <2>1. Worker = {0, 1}
      BY <1>2 DEF CrewInv, Worker
    <2>2. Producers = {1}
      BY Zenon, <1>2 DEF Producers
    <2>3. QED
      BY <1>2, <2>1, <2>2 DEF Consumers
  <1>3. QED
    BY Zenon, <1>1, <1>2

\* A step of "cpp" keeps the count of its consumer.
LEMMA CppStep ==
  ASSUME QueueType, CrewInv, ConsumerCountsRight, NEW i \in Worker, push(i) \/ pop(i)
  PROVE  ConsumerCountsRight'
  <1>1. program = "cpp" /\ todo[i] > 0
    BY Zenon DEF push, pop, Runs
  <1>2. Worker = {0, 1, 2} /\ Producers = {0, 1} /\ Consumers = {2}
    BY Zenon, <1>1, Crews
  <1>3. /\ todo[0] \in Nat /\ todo[1] \in Nat /\ todo[2] \in Nat /\ DOMAIN todo = {0, 1, 2}
        /\ Len(queue) \in Nat /\ todo[0] + todo[1] + Len(queue) = todo[2]
    BY <1>1, <1>2 DEF QueueType, ConsumerCountsRight
  <1>4. CASE push(i)
    <2>1. i \in {0, 1} /\ todo' = [todo EXCEPT ![i] = @ - 1]
      BY Zenon, <1>2, <1>4 DEF push
    <2>2. Len(queue') = Len(queue) + 1
      BY Zenon, <1>1, <1>4, Putting DEF push
    <2>3. QED
      BY <1>3, <2>1, <2>2 DEF ConsumerCountsRight
  <1>5. CASE pop(i)
    <2>1. i = 2
      BY Zenon, <1>2, <1>5 DEF pop
    <2>2. CASE queue = <<>>
      BY Zenon, <1>5, <2>2 DEF pop, ConsumerCountsRight
    <2>3. CASE queue # <<>>
      <3>1. queue' = Tail(queue) /\ todo' = [todo EXCEPT ![i] = @ - 1]
        BY Zenon, <1>5, <2>3 DEF pop
      <3>2. Len(queue') = Len(queue) - 1
        BY Zenon, <2>3, <3>1, Taking
      <3>3. todo'[0] = todo[0] /\ todo'[1] = todo[1] /\ todo'[2] = todo[2] - 1
        BY <1>3, <2>1, <3>1
      <3>4. QED
        BY <1>3, <3>2, <3>3 DEF ConsumerCountsRight
    <2>4. QED
      BY Zenon, <2>2, <2>3
  <1>6. QED
    BY Zenon, <1>4, <1>5

\* The consumer of "cpp" takes exactly what is put: it ends when the last message is out.
THEOREM ConsumerCounts ==
  ASSUME Numbers
  PROVE  QueueSpec => []ConsumerCountsRight
  <1>1. QueueInit => CrewInv /\ ConsumerCountsRight
    <2> SUFFICES ASSUME QueueInit PROVE CrewInv /\ ConsumerCountsRight
      BY Zenon
    <2>1. CrewInv
      BY DEF QueueInit, CrewInv
    <2>2. ASSUME program = "cpp" PROVE todo[0] + todo[1] + Len(queue) = todo[2]
      <3>1. Worker = {0, 1, 2} /\ Producers = {0, 1} /\ Consumers = {2}
        BY Zenon, <2>1, <2>2, Crews
      <3>2. todo[0] = Count /\ todo[1] = Count
        BY <2>2, <3>1 DEF QueueInit
      <3>3. todo[2] = 2 * Count
        BY <2>2, <3>1 DEF QueueInit
      <3>4. Len(queue) = 0
        BY DEF QueueInit
      <3>5. QED
        BY <3>2, <3>3, <3>4 DEF Numbers
    <2>3. QED
      BY Zenon, <2>1, <2>2 DEF ConsumerCountsRight
  <1>2. QueueInv /\ CrewInv /\ ConsumerCountsRight /\ [QueueNext]_qvars
          => CrewInv' /\ ConsumerCountsRight'
    <2> SUFFICES ASSUME QueueInv, CrewInv, ConsumerCountsRight, [QueueNext]_qvars
                 PROVE  CrewInv' /\ ConsumerCountsRight'
      BY Zenon
    <2>1. UNCHANGED <<program, crew>>
      BY Zenon DEF QueueNext, QueueStep, put, get, push, pop, mq_put, mq_get, SpuriousReturn,
                   qvars
    <2>2. CrewInv'
      BY Zenon, <2>1 DEF CrewInv
    <2>3. ASSUME NEW i \in Worker, push(i) \/ pop(i) PROVE ConsumerCountsRight'
      BY Zenon, <2>3, CppStep DEF QueueInv
    <2>4. ASSUME UNCHANGED <<program, queue, todo>> PROVE ConsumerCountsRight'
      BY Zenon, <2>4 DEF ConsumerCountsRight
    <2>5. ASSUME program # "cpp" PROVE ConsumerCountsRight'
      BY Zenon, <2>1, <2>5 DEF ConsumerCountsRight
    <2>6. UNCHANGED qvars \/ (\E i \in Worker : SpuriousReturn(i)) =>
            UNCHANGED <<program, queue, todo>>
      BY Zenon DEF qvars, SpuriousReturn
    <2>7. (\E i \in Worker : put(i) \/ get(i) \/ mq_put(i) \/ mq_get(i)) => program # "cpp"
      BY DEF put, get, mq_put, mq_get
    <2>8. QED
      BY Zenon, <2>2, <2>3, <2>4, <2>5, <2>6, <2>7 DEF QueueNext, QueueStep
  <1>3. QED
    BY <1>1, <1>2, QueueInvariance, PTL DEF QueueSpec

\* A step of "mq" keeps what its two threads wait for.
LEMMA MqStep ==
  ASSUME Numbers, QueueType, CrewInv, StackWaits, NEW i \in Worker,
         mq_put(i) \/ mq_get(i) \/ SpuriousReturn(i)
  PROVE  StackWaits'
  <1>1. UNCHANGED <<program, crew>> /\ Worker' = Worker
    BY Zenon DEF mq_put, mq_get, SpuriousReturn, Worker
  <1> SUFFICES ASSUME program = "mq"
               PROVE  /\ Len(queue') <= MaxSize
                      /\ 1 \in sleeping' => Len(queue') = MaxSize
                      /\ 0 \in sleeping' => queue' = <<>>
    <2>1. program = "mq" => Worker = {0, 1}
      BY Zenon, Crews
    <2>2. Len(<<>>) = 0
      OBVIOUS
    <2>3. QED
      BY <1>1, <2>1, <2>2 DEF StackWaits
  <1>2. Worker = {0, 1} /\ Producers = {1} /\ Consumers = {0}
    BY Zenon, Crews
  <1>3. /\ Len(queue) <= MaxSize
        /\ 1 \in sleeping => Len(queue) = MaxSize
        /\ 0 \in sleeping => queue = <<>>
        /\ Len(queue) \in Nat /\ MaxSize \in Nat
    BY DEF StackWaits, QueueType, Numbers
  <1>4. CASE mq_put(i)
    <2>1. i = 1 /\ todo[i] > 0
      BY Zenon, <1>2, <1>4 DEF mq_put, Runs
    <2>2. CASE Len(queue) = MaxSize
      BY <1>3, <1>4, <2>1, <2>2 DEF mq_put
    <2>3. CASE Len(queue) # MaxSize
      <3>1. queue' = Append(queue, <<i, todo[i]>>) /\ sleeping' = {}
        BY Zenon, <1>4, <2>3 DEF mq_put
      <3>2. Len(queue') = Len(queue) + 1
        BY Zenon, <2>1, <3>1, Putting
      <3>3. QED
        BY <1>3, <2>3, <3>1, <3>2
    <2>4. QED
      BY Zenon, <2>2, <2>3
  <1>5. CASE mq_get(i)
    <2>1. i = 0
      BY Zenon, <1>2, <1>5 DEF mq_get
    <2>2. CASE queue = <<>>
      BY <1>3, <1>5, <2>1, <2>2 DEF mq_get
    <2>3. CASE queue # <<>>
      <3>1. queue' = SubSeq(queue, 1, Len(queue) - 1) /\ sleeping' = {}
        BY Zenon, <1>5, <2>3 DEF mq_get
      <3>2. Len(queue') = Len(queue) - 1
        BY Zenon, <2>3, <3>1, Dropping
      <3>3. QED
        BY <1>3, <3>1, <3>2
    <2>4. QED
      BY Zenon, <2>2, <2>3
  <1>6. CASE SpuriousReturn(i)
    BY <1>3, <1>6 DEF SpuriousReturn
  <1>7. QED
    BY Zenon, <1>4, <1>5, <1>6

\* The stack of "mq" stays within its array, and its two threads never wait for each other.
THEOREM StackSafe ==
  ASSUME Numbers
  PROVE  QueueSpec => []StackWaits
  <1>1. QueueInit => CrewInv /\ StackWaits
    <2> SUFFICES ASSUME QueueInit PROVE CrewInv /\ StackWaits
      BY Zenon
    <2>1. CrewInv
      BY DEF QueueInit, CrewInv
    <2>2. program = "mq" => Worker # {}
      BY Zenon, <2>1, Crews
    <2>3. QED
      BY <2>1, <2>2 DEF QueueInit, StackWaits, Numbers
  <1>2. QueueInv /\ CrewInv /\ StackWaits /\ [QueueNext]_qvars => CrewInv' /\ StackWaits'
    <2> SUFFICES ASSUME QueueInv, CrewInv, StackWaits, [QueueNext]_qvars
                 PROVE  CrewInv' /\ StackWaits'
      BY Zenon
    <2>1. UNCHANGED <<program, crew>>
      BY Zenon DEF QueueNext, QueueStep, put, get, push, pop, mq_put, mq_get, SpuriousReturn,
                   qvars
    <2>2. CrewInv'
      BY Zenon, <2>1 DEF CrewInv
    <2>3. ASSUME NEW i \in Worker, mq_put(i) \/ mq_get(i) \/ SpuriousReturn(i)
          PROVE  StackWaits'
      BY Zenon, <2>3, MqStep DEF QueueInv
    <2>4. UNCHANGED qvars => StackWaits'
      BY Zenon DEF qvars, StackWaits, Worker
    <2>5. (\E i \in Worker : put(i) \/ get(i) \/ push(i) \/ pop(i)) => program # "mq"
      BY DEF put, get, push, pop
    <2>6. program # "mq" => StackWaits'
      BY Zenon, <2>1 DEF StackWaits
    <2>7. QED
      BY Zenon, <2>2, <2>3, <2>4, <2>5, <2>6 DEF QueueNext, QueueStep
  <1>3. QED
    BY <1>1, <1>2, QueueInvariance, PTL DEF QueueSpec

-----------------------------------------------------------------------------
(* The messages of the pool.                                               *)

\* The threads of the pool that have a message.
Busy == {t \in PoolThread : tpc[t] \in {"elect", "process"}}

\* A step of a thread of the pool keeps the count.
LEMMA SvcCounted ==
  ASSUME IsFiniteSet(PoolThread), PoolType, MessagesCounted, NEW t \in PoolThread, svc(t)
  PROVE  MessagesCounted'
  <1>1. /\ unsent \in Nat /\ msgs \in Nat /\ processed \in Nat
        /\ unsent + msgs + Cardinality(Busy) + processed = Messages
    BY Zenon DEF PoolType, MessagesCounted, Busy
  <1>2. IsFiniteSet(Busy) /\ Cardinality(Busy) \in Nat
    <2>1. Busy \in SUBSET PoolThread
      BY Zenon DEF Busy
    <2>2. QED
      BY <2>1, FS_Subset, FS_CardinalityType
  <1>3. ASSUME NEW l, tpc' = [tpc EXCEPT ![t] = l]
        PROVE  Busy' = IF l \in {"elect", "process"} THEN Busy \cup {t} ELSE Busy \ {t}
    <2>1. \A u \in PoolThread : tpc'[u] = IF u = t THEN l ELSE tpc[u]
      BY Zenon, <1>3 DEF PoolType
    <2>2. QED
      BY <2>1 DEF Busy
  <1>4. CASE become_leader(t) \/ (elect_new_leader(t) /\ tpc[t] = "timedout")
             \/ (getq(t) /\ msgs' = msgs)
    <2>1. /\ t \notin Busy /\ UNCHANGED <<unsent, msgs, processed>>
          /\ \E l \in {"wait", "getq", "end", "loop", "timedout"} :
               tpc' = [tpc EXCEPT ![t] = l]
      BY <1>1, <1>4 DEF become_leader, elect_new_leader, getq, PoolGoto, Busy
    <2>2. Busy' = Busy
      BY <1>3, <2>1
    <2>3. QED
      BY <1>1, <2>1, <2>2 DEF MessagesCounted, Busy
  <1>5. CASE getq(t) /\ msgs' # msgs
    <2>1. /\ t \notin Busy /\ UNCHANGED <<unsent, processed>> /\ msgs' = msgs - 1
          /\ tpc' = [tpc EXCEPT ![t] = "elect"]
      BY <1>5 DEF getq, PoolGoto, Busy
    <2>2. Busy' = Busy \cup {t}
      BY <1>3, <2>1
    <2>3. Cardinality(Busy') = Cardinality(Busy) + 1
      BY Zenon, <1>2, <2>1, <2>2, FS_AddElement
    <2>4. QED
      BY <1>1, <1>2, <2>1, <2>3 DEF MessagesCounted, Busy
  <1>6. CASE elect_new_leader(t) /\ tpc[t] # "timedout"
    <2>1. /\ t \in Busy /\ UNCHANGED <<unsent, msgs, processed>>
          /\ tpc' = [tpc EXCEPT ![t] = "process"]
      BY Zenon, <1>6 DEF elect_new_leader, PoolGoto, Busy
    <2>2. Busy' = Busy
      BY <1>3, <2>1
    <2>3. QED
      BY <1>1, <2>1, <2>2 DEF MessagesCounted, Busy
  <1>7. CASE process_message(t)
    <2>1. /\ t \in Busy /\ UNCHANGED <<unsent, msgs>> /\ processed' = processed + 1
          /\ tpc' = [tpc EXCEPT ![t] = "loop"]
      BY Zenon, <1>7 DEF process_message, PoolGoto, Busy
    <2>2. Busy' = Busy \ {t}
      <3>1. Busy' = IF "loop" \in {"elect", "process"} THEN Busy \cup {t} ELSE Busy \ {t}
        BY Zenon, <1>3, <2>1
      <3>2. QED
        BY Zenon, <3>1
    <2>3. Cardinality(Busy') = Cardinality(Busy) - 1
      BY Zenon, <1>2, <2>1, <2>2, FS_RemoveElement
    <2>4. QED
      BY <1>1, <1>2, <2>1, <2>3 DEF MessagesCounted, Busy
  <1>8. QED
    BY Zenon, <1>4, <1>5, <1>6, <1>7 DEF svc

\* No message is lost or processed twice, for every finite number of threads.
THEOREM PoolCounts ==
  ASSUME Messages \in Nat, Nobody \notin PoolThread, IsFiniteSet(PoolThread)
  PROVE  PoolSpec => []MessagesCounted
  <1>1. PoolInit => PoolInv /\ MessagesCounted
    <2> SUFFICES ASSUME PoolInit PROVE PoolInv /\ MessagesCounted
      BY Zenon
    <2>1. PoolInv
      BY DEF PoolInit, PoolInv, PoolType, OneLeader
    <2>2. Busy = {}
      BY DEF PoolInit, Busy
    <2>3. Cardinality(Busy) = 0
      BY <2>2, FS_EmptySet
    <2>4. QED
      BY <2>1, <2>3 DEF PoolInit, MessagesCounted, Busy
  <1>2. PoolInv /\ MessagesCounted /\ [PoolNext]_lvars => MessagesCounted'
    <2> SUFFICES ASSUME PoolInv, MessagesCounted, [PoolNext]_lvars PROVE MessagesCounted'
      BY Zenon
    <2>1. CASE UNCHANGED lvars
      BY Zenon, <2>1 DEF lvars, MessagesCounted
    <2>2. CASE putq
      <3>1. unsent' = unsent - 1 /\ msgs' = msgs + 1 /\ UNCHANGED <<tpc, processed>>
        BY Zenon, <2>2 DEF putq
      <3>2. Busy' = Busy
        BY Zenon, <3>1 DEF Busy
      <3>3. unsent + msgs = unsent' + msgs'
        BY <3>1 DEF PoolInv, PoolType
      <3>4. QED
        BY Zenon, <3>1, <3>2, <3>3 DEF MessagesCounted, Busy
    <2>3. ASSUME NEW t \in PoolThread, svc(t) PROVE MessagesCounted'
      BY Zenon, <2>3, SvcCounted DEF PoolInv
    <2>4. QED
      BY Zenon, <2>1, <2>2, <2>3 DEF PoolNext
  <1>3. PoolInv /\ [PoolNext]_lvars => PoolInv'
    BY Zenon, NextPool
  <1>4. QED
    BY <1>1, <1>2, <1>3, PTL DEF PoolSpec

=============================================================================
