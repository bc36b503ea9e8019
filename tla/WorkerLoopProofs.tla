--------------------------- MODULE WorkerLoopProofs ---------------------------
(* Proofs about the background threads, for any number of them. *)
EXTENDS WorkerLoop, TLAPS

\* What keeps the newest thread alive: while the manager is running the event is
\* clear and nobody has woken that thread.
NewestInv ==
    /\ running => ~flag
    /\ running /\ ~raised =>
          current \in Threads /\ Live(current) /\ ~woken[current]

\* What bounds late work: a thread that waits while the event is set has been
\* woken, and a thread that began work late meets the event before it can begin
\* again: the failover in its wait, the rotation at the loop's start.
LateInv ==
    \A t \in Threads :
       /\ at[t] = "long" /\ flag => woken[t]
       /\ ActFirst => at[t] # "due"
       /\ \/ late[t] = 0
          \/ /\ late[t] = 1 /\ flag
             /\ at[t] \in {"act", IF ActFirst THEN "long" ELSE "check", "none"}

Inv == TypeOK /\ NewestInv /\ LateInv

-----------------------------------------------------------------------------

\* Every step of start, stop and _run keeps all variables in their types.
LEMMA WlTypeStep == TypeOK /\ [Next]_vars => TypeOK'
<1> SUFFICES ASSUME TypeOK, [Next]_vars PROVE TypeOK'
    OBVIOUS
<1> USE DEF TypeOK, Places, Loops
<1>1. CASE Start
  <2>1. PICK t \in Threads : current' = t /\ Move(t, "check")
                            /\ woken' = [woken EXCEPT ![t] = FALSE]
        BY <1>1 DEF Start
  <2>2. current' \in Threads /\ at' \in [Threads -> Places]
        BY <2>1 DEF Move
  <2>3. woken' \in [Threads -> BOOLEAN]
        BY <2>1
  <2>4. late' \in [Threads -> 0..2]
        BY <1>1 DEF Start
  <2>5. /\ running' \in BOOLEAN /\ flag' \in BOOLEAN /\ raised' \in BOOLEAN
        /\ loop' = loop
        BY <1>1 DEF Start
  <2>6. QED
        BY <2>2, <2>3, <2>4, <2>5
<1>2. CASE Stop
  <2>1. woken' \in [Threads -> BOOLEAN]
        BY <1>2, Zenon DEF Stop
  <2>2. running' \in BOOLEAN /\ flag' \in BOOLEAN
        BY <1>2 DEF Stop
  <2>3. UNCHANGED <<loop, current, at, raised, late>>
        BY <1>2 DEF Stop
  <2>4. QED
        BY <2>1, <2>2, <2>3
<1>3. ASSUME NEW t \in Threads, Check(t) PROVE TypeOK'
    BY <1>3 DEF Check, Move
<1>4. ASSUME NEW t \in Threads, Load(t) PROVE TypeOK'
  <2>1. at' \in [Threads -> Places]
        BY <1>4 DEF Load, Move, BeginAct, Wait, Raise
  <2>2. late' \in [Threads -> 0..2]
    <3>1. CASE BeginAct(t)
          BY <3>1 DEF BeginAct
    <3>2. CASE UNCHANGED late
          BY <3>2
    <3>3. QED
          BY <1>4, <3>1, <3>2 DEF Load
  <2>3. woken' \in [Threads -> BOOLEAN]
        BY <1>4, Zenon DEF Load, Wait
  <2>4. running' \in BOOLEAN /\ flag' \in BOOLEAN /\ raised' \in BOOLEAN
        BY <1>4 DEF Load, Raise
  <2>5. current' \in Threads \cup {NoThread} /\ loop' = loop
        BY <1>4 DEF Load
  <2>6. QED
        BY <2>1, <2>2, <2>3, <2>4, <2>5
<1>5. ASSUME NEW t \in Threads, IdleEnds(t) PROVE TypeOK'
    BY <1>5 DEF IdleEnds, Move
<1>6. ASSUME NEW t \in Threads, WaitEnds(t) PROVE TypeOK'
    BY <1>6 DEF WaitEnds, Move, ActFirst
<1>7. ASSUME NEW t \in Threads, RotationBegins(t) PROVE TypeOK'
    BY <1>7 DEF RotationBegins, Move, BeginAct
<1>8. ASSUME NEW t \in Threads, ActEnds(t) PROVE TypeOK'
    BY <1>8 DEF ActEnds, Move, Wait, Raise
<1>9. CASE UNCHANGED vars
    BY <1>9 DEF vars
<1>10. QED
    BY <1>1, <1>2, <1>3, <1>4, <1>5, <1>6, <1>7, <1>8, <1>9 DEF Next, Steps

\* Only Stop, Start and an exception change who the newest thread is or whether
\* it lives; its own loop cannot end while the event is clear.
LEMMA NewestStep == Inv /\ [Next]_vars => NewestInv'
<1> SUFFICES ASSUME Inv, [Next]_vars PROVE NewestInv'
    OBVIOUS
<1> USE DEF Inv, TypeOK, Places, NewestInv, Live
<1>1. CASE Start
    BY <1>1 DEF Start, Move
<1>2. CASE Stop
    BY <1>2 DEF Stop
<1>3. ASSUME NEW t \in Threads, Check(t) PROVE NewestInv'
    BY <1>3 DEF Check, Move
<1>4. ASSUME NEW t \in Threads, Load(t) PROVE NewestInv'
    BY <1>4 DEF Load, Move, BeginAct, Wait, Raise
<1>5. ASSUME NEW t \in Threads, IdleEnds(t) PROVE NewestInv'
    BY <1>5 DEF IdleEnds, Move
<1>6. ASSUME NEW t \in Threads, WaitEnds(t) PROVE NewestInv'
    BY <1>6 DEF WaitEnds, Move
<1>7. ASSUME NEW t \in Threads, RotationBegins(t) PROVE NewestInv'
    BY <1>7 DEF RotationBegins, Move, BeginAct
<1>8. ASSUME NEW t \in Threads, ActEnds(t) PROVE NewestInv'
    BY <1>8 DEF ActEnds, Move, Wait, Raise
<1>9. CASE UNCHANGED vars
    BY <1>9 DEF vars
<1>10. QED
    BY <1>1, <1>2, <1>3, <1>4, <1>5, <1>6, <1>7, <1>8, <1>9 DEF Next, Steps

\* A thread that began work after stop passes only through its wait, or through
\* the check at the loop's start, and there it ends.
LEMMA LateStep == Inv /\ [Next]_vars => LateInv'
<1> SUFFICES ASSUME Inv, [Next]_vars PROVE LateInv'
    OBVIOUS
<1> USE DEF Inv, TypeOK, Places, LateInv, ActFirst
<1>1. CASE Start
    BY <1>1 DEF Start, Move, Live
<1>2. CASE Stop
    BY <1>2 DEF Stop
<1>3. ASSUME NEW t \in Threads, Check(t) PROVE LateInv'
    BY <1>3 DEF Check, Move
<1>4. ASSUME NEW t \in Threads, Load(t) PROVE LateInv'
    BY <1>4 DEF Load, Move, BeginAct, Wait, Raise
<1>5. ASSUME NEW t \in Threads, IdleEnds(t) PROVE LateInv'
    BY <1>5 DEF IdleEnds, Move
<1>6. ASSUME NEW t \in Threads, WaitEnds(t) PROVE LateInv'
    BY <1>6 DEF WaitEnds, Move
<1>7. ASSUME NEW t \in Threads, RotationBegins(t) PROVE LateInv'
    BY <1>7 DEF RotationBegins, Move, BeginAct
<1>8. ASSUME NEW t \in Threads, ActEnds(t) PROVE LateInv'
    BY <1>8 DEF ActEnds, Move, Wait, Raise
<1>9. CASE UNCHANGED vars
    BY <1>9 DEF vars
<1>10. QED
    BY <1>1, <1>2, <1>3, <1>4, <1>5, <1>6, <1>7, <1>8, <1>9 DEF Next, Steps

\* The conjunction of the three is inductive.
LEMMA WlInvariant == Spec => []Inv
<1>1. Init => Inv
  <2> SUFFICES ASSUME Init PROVE Inv
      OBVIOUS
  <2>1. TypeOK
    <3>1. at \in [Threads -> Places] /\ woken \in [Threads -> BOOLEAN]
          BY DEF Init, Places
    <3>2. late \in [Threads -> 0..2]
          BY DEF Init
    <3>3. QED
          BY <3>1, <3>2 DEF Init, TypeOK
  <2>2. NewestInv /\ LateInv
        BY DEF Init, NewestInv, LateInv
  <2>3. QED
        BY <2>1, <2>2 DEF Inv
<1>2. Inv /\ [Next]_vars => Inv'
    BY WlTypeStep, NewestStep, LateStep DEF Inv
<1>3. QED
    BY <1>1, <1>2, PTL DEF Spec

-----------------------------------------------------------------------------

\* Type correctness of the thread's places, its waits and the bound on `late`,
\* for any set of threads and either kind of loop.
THEOREM WlTypeCorrect == Spec => []TypeOK
<1>1. Inv => TypeOK
    BY DEF Inv
<1>2. QED
    BY <1>1, WlInvariant, PTL

\* While RotationManager or FailoverManager says it is running, the thread of
\* the last start lives, unless an exception ended one: an older thread that
\* missed its stop cannot end it, nor can the event it left set.
THEOREM NewestLivesAlways == Spec => []NewestLives
<1>1. Inv => NewestLives
    BY WorkerAssumption DEF Inv, NewestInv, NewestLives
<1>2. QED
    BY <1>1, WlInvariant, PTL

\* After stop each thread begins at most one more rotation, or one more probe,
\* however many starts and stops interleave and however many older threads there
\* are: the stop that falls after a thread's last look at the event costs one
\* piece of work and not two.
THEOREM LateWorkBounded == Spec => []LateWork
<1>1. Inv => LateWork
  <2> SUFFICES ASSUME Inv, NEW t \in Threads PROVE late[t] <= 1
      BY DEF LateWork
  <2> QED
      BY DEF Inv, LateInv
<1>2. QED
    BY <1>1, WlInvariant, PTL
=============================================================================
