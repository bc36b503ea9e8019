------------------------------ MODULE WorkerLoop ------------------------------
(***************************************************************************)
(* The background threads of the core: RotationManager (core/api/server.py) *)
(* and FailoverManager (core/failover/manager.py) start and stop them       *)
(* alike.  start and stop run under the manager's lock; the thread never    *)
(* takes it to learn about them, it only looks at the event _stop, and      *)
(* start clears that event for the next thread.  The two managers share     *)
(* none of this, so a behaviour is about one of them.                       *)
(*                                                                          *)
(* What a thread does to the configuration and the proxy is in Switchover.  *)
(***************************************************************************)
EXTENDS Naturals

CONSTANTS
    Threads,     \* threads alive at the same time (a bound)
    NoThread,
    MayRaise     \* whether loading the file, or a failover, may raise

ASSUME WorkerAssumption ==
    NoThread \notin Threads /\ MayRaise \in BOOLEAN

VARIABLES
    loop,      \* which of the two managers this behaviour is about
    running,   \* _running
    flag,      \* the event _stop is set
    current,   \* _thread
    at,        \* where each thread is in _run
    woken,     \* the wait the thread is in will return True
    raised,    \* history: an exception ended a thread
    late       \* history: work a thread began since stop was called, up to 2

vars == <<loop, running, flag, current, at, woken, raised, late>>

Loops == {"rotation", "failover"}

Places == {"none", "check", "load", "idle", "long", "due", "act"}

TypeOK ==
    /\ loop \in Loops
    /\ running \in BOOLEAN
    /\ flag \in BOOLEAN
    /\ current \in Threads \cup {NoThread}
    /\ at \in [Threads -> Places]
    /\ woken \in [Threads -> BOOLEAN]
    /\ raised \in BOOLEAN
    /\ late \in [Threads -> 0..2]

Init ==
    /\ loop \in Loops
    /\ running = FALSE
    /\ flag = FALSE
    /\ current = NoThread
    /\ at = [t \in Threads |-> "none"]
    /\ woken = [t \in Threads |-> FALSE]
    /\ raised = FALSE
    /\ late = [t \in Threads |-> 0]

Live(t) == at[t] # "none"

-----------------------------------------------------------------------------
(* Helpers *)

\* Failover probes and then waits; rotation waits first.
ActFirst == loop = "failover"

Move(t, place) == at' = [at EXCEPT ![t] = place]

\* Event.wait returns True at once if the event is set when it is called.
Wait(t) == Move(t, "long") /\ woken' = [woken EXCEPT ![t] = flag]

\* t begins to rotate, or to probe.
BeginAct(t) ==
    /\ Move(t, "act")
    /\ late' = [late EXCEPT ![t] = IF flag /\ @ < 2 THEN @ + 1 ELSE @]

Raise(t) == MayRaise /\ Move(t, "none") /\ raised' = TRUE

-----------------------------------------------------------------------------
(* start and stop *)

\* Variant with a bug: the event stays set.
StartKeepsFlag ==
    /\ ~running
    /\ running' = TRUE
    /\ \E t \in Threads :
          /\ ~Live(t)
          /\ current' = t
          /\ Move(t, "check")
          /\ woken' = [woken EXCEPT ![t] = FALSE]
    /\ late' = [t \in Threads |-> 0]
    /\ UNCHANGED <<loop, flag, raised>>

\* start returns at once if it is running already, also if the thread is gone.
Start ==
    /\ ~running
    /\ running' = TRUE
    /\ flag' = FALSE
    /\ \E t \in Threads :
          /\ ~Live(t)
          /\ current' = t
          /\ Move(t, "check")
          /\ woken' = [woken EXCEPT ![t] = FALSE]
    /\ late' = [t \in Threads |-> 0]
    /\ UNCHANGED <<loop, raised>>

Stop ==
    /\ running' = FALSE
    /\ flag' = TRUE
    /\ woken' = [t \in Threads |-> woken[t] \/ at[t] = "long"]
    /\ UNCHANGED <<loop, current, at, raised, late>>

-----------------------------------------------------------------------------
(* _run *)

\* Variants with a bug: the loop does not look at the event; it leaves a thread
\* that ends in a place of its own.
CheckNever(t) ==
    /\ at[t] = "check"
    /\ Move(t, "load")
    /\ UNCHANGED <<loop, running, flag, current, woken, raised, late>>

CheckMisplaces(t) ==
    /\ at[t] = "check"
    /\ Move(t, IF flag THEN "stopped" ELSE "load")
    /\ UNCHANGED <<loop, running, flag, current, woken, raised, late>>

Check(t) ==
    /\ at[t] = "check"
    /\ Move(t, IF flag THEN "none" ELSE "load")
    /\ UNCHANGED <<loop, running, flag, current, woken, raised, late>>

\* The file says whether rotation, or failover, is enabled.
Load(t) ==
    /\ at[t] = "load"
    /\ \/ Move(t, "idle") /\ UNCHANGED <<woken, raised, late>>
       \/ ActFirst /\ BeginAct(t) /\ UNCHANGED <<woken, raised>>
       \/ ~ActFirst /\ Wait(t) /\ UNCHANGED <<raised, late>>
       \/ Raise(t) /\ UNCHANGED <<woken, late>>
    /\ UNCHANGED <<loop, running, flag, current>>

\* The result of the short wait is ignored.
IdleEnds(t) ==
    /\ at[t] = "idle"
    /\ Move(t, "check")
    /\ UNCHANGED <<loop, running, flag, current, woken, raised, late>>

\* stop was called while the thread waited, or the interval is over.
WaitEnds(t) ==
    /\ at[t] = "long"
    /\ \/ woken[t] /\ Move(t, "none")
       \/ ~woken[t] /\ Move(t, IF ActFirst THEN "check" ELSE "due")
    /\ UNCHANGED <<loop, running, flag, current, woken, raised, late>>

\* The rotation calls rotate_once without another look at the event.
RotationBegins(t) ==
    /\ at[t] = "due"
    /\ BeginAct(t)
    /\ UNCHANGED <<loop, running, flag, current, woken, raised>>

\* Variant with a bug: a rotation that raised is tried again at once.
ActEndsRetries(t) ==
    /\ at[t] = "act"
    /\ \/ ActFirst /\ Wait(t) /\ UNCHANGED <<raised, late>>
       \/ ~ActFirst /\ Move(t, "check") /\ UNCHANGED <<woken, raised, late>>
       \/ ~ActFirst /\ BeginAct(t) /\ UNCHANGED <<woken, raised>>
       \/ ActFirst /\ Raise(t) /\ UNCHANGED <<woken, late>>
    /\ UNCHANGED <<loop, running, flag, current>>

\* Rotation catches what rotate_once raises; failover does not.
ActEnds(t) ==
    /\ at[t] = "act"
    /\ \/ ActFirst /\ Wait(t) /\ UNCHANGED raised
       \/ ~ActFirst /\ Move(t, "check") /\ UNCHANGED <<woken, raised>>
       \/ ActFirst /\ Raise(t) /\ UNCHANGED woken
    /\ UNCHANGED <<loop, running, flag, current, late>>

-----------------------------------------------------------------------------

Steps(t) ==
    \/ Check(t) \/ Load(t) \/ IdleEnds(t)
    \/ WaitEnds(t) \/ RotationBegins(t) \/ ActEnds(t)

Next == Start \/ Stop \/ \E t \in Threads : Steps(t)

Spec == Init /\ [][Next]_vars

\* Python schedules its threads, and every wait has a timeout.
FairSpec == Spec /\ \A t \in Threads : WF_vars(Steps(t))

-----------------------------------------------------------------------------
(* Properties *)

\* However start and stop interleave with older threads, the thread of the last
\* start lives while the manager is running, unless an exception ended one.
NewestLives == running /\ ~raised => current # NoThread /\ Live(current)

\* A stop can fall between a thread's last look at the event and its work, so
\* each thread may begin one rotation, or one probe, after it; none begins two.
LateWork == \A t \in Threads : late[t] <= 1

\* A stop that no start follows ends all threads, those of earlier starts that
\* missed their stop included.
StopsEventually == <>[]~running => <>[](\A t \in Threads : ~Live(t))
=============================================================================
