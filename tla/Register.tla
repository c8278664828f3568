------------------------------ MODULE Register ------------------------------
(***************************************************************************)
(* Loading and unloading the drivers of src/kernel_standalone and of       *)
(* src/kernel: what each module_init function acquires, where it jumps     *)
(* when a call fails, what its error labels release in falling through     *)
(* them, and what its module_exit function releases.                       *)
(*                                                                         *)
(* A driver is data: the calls of its init function, the releases under    *)
(* its error labels from the first label down, and the releases of its     *)
(* exit function.  A call names the resource it acquires, the releases     *)
(* written in the failing branch itself, and the label of the goto, as the *)
(* position in the list of releases where the unwinding starts.  What can  *)
(* happen when the call fails is part of it: the test of the result may    *)
(* see the failure, may miss it, or may let a null pointer through that    *)
(* the next line follows.                                                  *)
(*                                                                         *)
(* Several drivers may be loaded side by side.  They share one thing, the  *)
(* fixed major number 190 of the drivers that call register_chrdev.        *)
(***************************************************************************)
EXTENDS Integers, Sequences

CONSTANT Loads   \* the sets of drivers that are loaded side by side

VARIABLES
  driver,  \* for each driver that is present, its functions
  at,      \* the number of calls its init function has completed
  plan,    \* the releases that its error path or exit function still has to do
  held,    \* how many times it holds each resource
  oops     \* the drivers whose init function has followed a null pointer

regvars == <<driver, at, plan, held, oops>>

Resource == {"memory", "proc", "region", "major", "cdev", "class", "device",
             "irq", "etherdev", "netdev", "cache", "object", "hook", "timer"}

(***************************************************************************)
(* The drivers.                                                            *)
(***************************************************************************)

Calling(resource, inline, label, fails) ==
  [get |-> resource, inline |-> inline, label |-> label, fails |-> fails]

\* A call whose failure jumps to a label.
Try(resource, label) == Calling(resource, <<>>, label, {"goto"})

\* A call whose failing branch releases something itself and returns.
TryInline(resource, inline) == Calling(resource, <<inline>>, 1, {"goto"})

\* A call whose failure the driver does not notice: proc_create returns NULL,
\* which IS_ERR does not recognise, and the driver goes on without the entry.
Unseen(resource) == Calling(resource, <<>>, 0, {"ignore"})

\* An allocation that returns NULL when it fails, which the driver does not test or
\* tests with IS_ERR, and whose memory the driver uses at once.
Untested(resource) == Calling(resource, <<>>, 0, {"crash"})

\* A call that cannot fail.
Sure(resource) == Calling(resource, <<>>, 0, {})

Driver(init, labels, exit) == [init |-> init, labels |-> labels, exit |-> exit]

\* Mutant of myzero: a failing class_create jumps one label too far.
ZeroKeepsCdev ==
  Driver(<<Try("region", 4), Try("cdev", 3), Try("class", 3), Try("device", 1)>>,
         <<"class", "cdev", "region">>,
         <<"device", "class", "cdev", "region">>)

myzero ==
  Driver(<<Try("region", 4), Try("cdev", 3), Try("class", 2), Try("device", 1)>>,
         <<"class", "cdev", "region">>,
         <<"device", "class", "cdev", "region">>)

\* The same calls, labels and releases.
aaa == myzero
use_count == myzero
myempty == myzero
markveltzer == myzero

mynull ==
  Driver(<<Try("major", 3), Try("class", 2), Try("device", 1)>>,
         <<"class", "major">>,
         <<"device", "class", "major">>)

\* The same calls, labels and releases.
sleep_wakeup == mynull
cant_kill == mynull

\* chrdev with its parameter auto_register set, as it is by default.
chrdev == mynull

irqcatch == Driver(<<Unseen("proc"), Try("irq", 1)>>, <<"proc">>, <<"irq", "proc">>)

\* cdev_alloc and cdev_add are one call: when either fails no cdev is left, because the
\* branch of cdev_add frees it.
clipboard ==
  Driver(<<Try("memory", 5), Unseen("proc"), Try("region", 3), Try("cdev", 2), Try("irq", 1)>>,
         <<"cdev", "region", "proc", "memory">>,
         <<"proc", "irq", "cdev", "region", "memory">>)

\* kmalloc is followed by a memset.  Of cdev_alloc and cdev_add, the failure of the second
\* is undone; that of the first passes IS_ERR, and the ops are stored through the pointer.
clipboard_basic ==
  Driver(<<Untested("memory"), Try("region", 4), Calling("cdev", <<>>, 3, {"goto", "crash"}),
           Try("class", 2), Try("device", 1)>>,
         <<"class", "cdev", "region", "memory">>,
         <<"device", "class", "cdev", "region", "memory">>)

netdev ==
  Driver(<<Try("etherdev", 1), TryInline("netdev", "etherdev")>>, <<>>, <<"netdev", "etherdev">>)

\* register_dev and unregister_dev of device.inc, for the drivers that include it.  The
\* kmalloc of the device passes IS_ERR when it fails, and is followed by a memset.
register_dev ==
  Driver(<<Try("class", 5), Untested("memory"), Try("region", 3), Try("cdev", 2), Try("device", 1)>>,
         <<"cdev", "region", "memory", "class">>,
         <<"device", "cdev", "region", "memory", "class">>)

kmem_cache ==
  Driver(<<Try("cache", 1), TryInline("object", "cache")>>, <<>>, <<"object", "cache">>)

netfilter == Driver(<<Try("hook", 1)>>, <<>>, <<"hook">>)

hrtimer == Driver(<<Sure("timer")>>, <<>>, <<"timer">>)

Functions ==
  [myzero |-> myzero, aaa |-> aaa, use_count |-> use_count, myempty |-> myempty,
   markveltzer |-> markveltzer, mynull |-> mynull, sleep_wakeup |-> sleep_wakeup,
   cant_kill |-> cant_kill, chrdev |-> chrdev, irqcatch |-> irqcatch,
   clipboard |-> clipboard, clipboard_basic |-> clipboard_basic, netdev |-> netdev,
   register_dev |-> register_dev, kmem_cache |-> kmem_cache, netfilter |-> netfilter,
   hrtimer |-> hrtimer]

(***************************************************************************)
(* The module loader.                                                      *)
(***************************************************************************)

RegisterInit == \E load \in Loads :
  /\ driver = [d \in load |-> Functions[d]]
  /\ at = [d \in load |-> 0]
  /\ plan = [d \in load |-> <<>>]
  /\ held = [d \in load |-> [r \in Resource |-> 0]]
  /\ oops = {}

Present == DOMAIN driver
Loaded(d) == at[d] = Len(driver[d].init) /\ plan[d] = <<>>
Absent(d) == at[d] = 0 /\ plan[d] = <<>>

\* The next call of an init function that is running, or about to run.
Call(d) == driver[d].init[at[d] + 1]
Loading(d) == d \notin oops /\ plan[d] = <<>> /\ at[d] < Len(driver[d].init)

\* The call succeeds.  A fixed major number has one owner.
Acquire(d) ==
  /\ Loading(d)
  /\ Call(d).get = "major" => \A e \in Present : held[e]["major"] = 0
  /\ held' = [held EXCEPT ![d][Call(d).get] = @ + 1]
  /\ at' = [at EXCEPT ![d] = @ + 1]
  /\ UNCHANGED <<driver, plan, oops>>

\* The call fails, and the driver unwinds.
Fail(d) ==
  /\ Loading(d) /\ "goto" \in Call(d).fails
  /\ plan' = [plan EXCEPT ![d] = Call(d).inline \o
       SubSeq(driver[d].labels, Call(d).label, Len(driver[d].labels))]
  /\ at' = [at EXCEPT ![d] = 0]
  /\ UNCHANGED <<driver, held, oops>>

\* The call fails, and the driver goes on.
GoOn(d) ==
  /\ Loading(d) /\ "ignore" \in Call(d).fails
  /\ at' = [at EXCEPT ![d] = @ + 1]
  /\ UNCHANGED <<driver, plan, held, oops>>

\* The call fails, and the driver follows the null pointer.  The init function ends where
\* it is: it releases nothing, and a module that has not been loaded cannot be unloaded.
Crash(d) ==
  /\ Loading(d) /\ "crash" \in Call(d).fails
  /\ oops' = oops \cup {d}
  /\ UNCHANGED <<driver, at, plan, held>>

\* rmmod runs the exit function.
Unload(d) ==
  /\ Loaded(d)
  /\ plan' = [plan EXCEPT ![d] = driver[d].exit]
  /\ at' = [at EXCEPT ![d] = 0]
  /\ UNCHANGED <<driver, held, oops>>

\* Who loses a resource that d releases: unregister_chrdev goes by the number.
Loser(d, r) ==
  IF r = "major" /\ \E e \in Present : held[e][r] > 0
  THEN CHOOSE e \in Present : held[e][r] > 0
  ELSE d

\* One release of an error path or of an exit function.  proc_remove(NULL) does nothing.
Release(d) ==
  /\ plan[d] # <<>>
  /\ LET r == Head(plan[d])
     IN held' = IF r = "proc" /\ held[d][r] = 0 THEN held
                ELSE [held EXCEPT ![Loser(d, r)][r] = @ - 1]
  /\ plan' = [plan EXCEPT ![d] = Tail(@)]
  /\ UNCHANGED <<driver, at, oops>>

RegisterNext == \E d \in Present :
  Acquire(d) \/ Fail(d) \/ GoOn(d) \/ Crash(d) \/ Unload(d) \/ Release(d)

RegisterSpec == RegisterInit /\ [][RegisterNext]_regvars

(***************************************************************************)
(* Properties.                                                             *)
(***************************************************************************)

\* The type of the state.
RegisterType ==
  /\ at \in [Present -> 0 .. 5]
  /\ \A d \in Present : plan[d] = <<>> \/ at[d] = 0
  /\ held \in [Present -> [Resource -> -1 .. 1]]
  /\ oops \subseteq Present

\* What a resource needs while it is there: a cdev can be opened, and an interrupt
\* delivered, so the memory behind them must be there; a device node belongs to a
\* class and names a region; an object belongs to its cache.
Needs == {<<"cdev", "region">>, <<"cdev", "memory">>, <<"irq", "memory">>, <<"device", "class">>,
          <<"device", "region">>, <<"device", "major">>, <<"netdev", "etherdev">>,
          <<"object", "cache">>}
Uses(d, r) == \E i \in DOMAIN driver[d].init : driver[d].init[i].get = r

\* The registrations of a driver are sound whichever of its calls fails, also beside
\* another driver that wants the same major number: a driver that is not loaded has
\* left nothing registered or allocated, and released nothing twice or that another
\* owns; one that is loaded holds everything it acquired; and at no point of loading,
\* unwinding or unloading is a resource there without the one that it needs.  A failed
\* allocation is fatal to the init functions of clipboard_basic and of the drivers that
\* include device.inc, which then keep what they hold, and to no other.
NothingLeft ==
  /\ \A d \in Present :
       /\ Absent(d) => \A r \in Resource : held[d][r] = 0
       /\ Loaded(d) => \A r \in Resource \ {"proc"} : Uses(d, r) => held[d][r] = 1
       /\ \A n \in Needs : Uses(d, n[2]) /\ held[d][n[1]] > 0 => held[d][n[2]] = 1
  /\ oops \subseteq {"clipboard_basic", "register_dev"}

=============================================================================
