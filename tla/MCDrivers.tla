----------------------------- MODULE MCDrivers ------------------------------
(***************************************************************************)
(* The device drivers and the echo server side by side, for model          *)
(* checking: the initial state chooses one of them, which then runs alone. *)
(***************************************************************************)
EXTENDS SimplePipe, Register, PollDevice, EchoServer

CONSTANT Quiet   \* bound: the clients that send nothing to the server with the timers

VARIABLE which

allvars == <<which, vars, regvars, pollvars, echovars>>

MCInit ==
  /\ which \in {"simple_pipe", "register", "poll", "echo"}
  /\ Init /\ RegisterInit /\ PollInit /\ EchoInit
  /\ which # "register" => DOMAIN driver = {"hrtimer"}
  /\ which # "echo" => solution = "write"

MCNext ==
  /\ UNCHANGED which
  /\ \/ which = "simple_pipe" /\ Next /\ Alone' /\ UNCHANGED <<regvars, pollvars, echovars>>
     \/ which = "register" /\ RegisterNext /\ UNCHANGED <<vars, pollvars, echovars>>
     \/ which = "poll" /\ PollNext /\ UNCHANGED <<vars, regvars, echovars>>
     \/ /\ which = "echo" /\ EchoNext /\ UNCHANGED <<vars, regvars, pollvars>>
        /\ solution = "full" => \A c \in Quiet : typed'[c] = 0

\* A process inside poll(2) or ioctl(2) goes on, and so does the server.
MCFairness ==
  /\ \A p \in Poller : WF_pollvars(which = "poll" /\ kern_poll(p))
  /\ \A c \in Caller : WF_pollvars(which = "poll" /\ WakeUpAll(c))
  /\ WF_echovars(which = "echo" /\ Serving)

MCSpec == MCInit /\ [][MCNext]_allvars /\ MCFairness

\* Every component keeps its type.  The other properties are those of the components.
TypeOK == Type /\ RegisterType /\ PollType /\ EchoType

=============================================================================
