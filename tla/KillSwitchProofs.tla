--------------------------- MODULE KillSwitchProofs ---------------------------
(***************************************************************************)
(* Proofs about KillSwitch, for any number of requests and, except where a  *)
(* theorem assumes otherwise, any failures of the environment.              *)
(***************************************************************************)
EXTENDS KillSwitch, TLAPS

-----------------------------------------------------------------------------
(* Type correctness *)

\* Every step keeps the variables in their types.
LEMMA TypeStep == TypeOK /\ [Next]_vars => TypeOK'
<1> SUFFICES ASSUME TypeOK, [Next]_vars PROVE TypeOK'
  OBVIOUS
<1> USE DEF TypeOK, Procs, Labels, Answers, Phases, Commands
<1>1. ASSUME NEW c \in Callers, EnableStart(c) PROVE TypeOK'
  BY <1>1 DEF EnableStart, Goto, MarkStart
<1>2. ASSUME NEW c \in Callers, DisableStart(c) PROVE TypeOK'
  BY <1>2 DEF DisableStart, Goto, MarkStart
<1>3. ASSUME NEW c \in Callers, EnableSteps(c) PROVE TypeOK'
  BY <1>3 DEF EnableSteps, EnableDelete, EnableAdd, EnableSet, RunNetsh, Goto
<1>4. ASSUME NEW p \in Procs, DisableSteps(p) PROVE TypeOK'
  BY <1>4 DEF DisableSteps, DisableDelete, DisableSet, RunNetsh, Goto
<1>5. ASSUME NEW c \in Callers, Reply(c) \/ ReplyError(c) PROVE TypeOK'
  BY <1>5 DEF Reply, ReplyError, Goto
<1>6. CASE Signal
  BY <1>6 DEF Signal, Goto, MarkStart
<1>7. CASE MainClose
  BY <1>7 DEF MainClose, Goto
<1>8. CASE Exit \/ Kill
  BY <1>8 DEF Exit, Kill, ProcessEnds
<1>9. CASE Restart
  BY <1>9 DEF Restart
<1>10. ASSUME NEW command \in Commands, OrphanEnds(command) PROVE TypeOK'
  BY <1>10 DEF OrphanEnds
<1>11. CASE UNCHANGED vars
  BY <1>11 DEF vars
<1> QED
  BY <1>1, <1>2, <1>3, <1>4, <1>5, <1>6, <1>7, <1>8, <1>9, <1>10, <1>11
  DEF Next, Steps, MainSteps

\* The variables of the kill switch always have their types.
THEOREM TypeCorrect == Spec => []TypeOK
<1>1. Init => TypeOK
  BY DEF Init, TypeOK, Procs, Labels, Answers, Phases, Commands
<1> QED
  BY <1>1, TypeStep, PTL DEF Spec

-----------------------------------------------------------------------------
(* Requests that meet no other activity *)

\* What holds of a request that is alone, at each of its steps.
Progress(p) ==
    /\ pc[p] = "e_already" => since
    /\ pc[p] = "e_add" => ~rule
    /\ pc[p] = "e_set" => rule
    /\ pc[p] = "e_reply" => rule /\ since
    /\ pc[p] = "d_set" => ~rule
    /\ pc[p] = "d_reply" => ~rule /\ ~since

OthersIdle(p) == \A q \in Procs : q # p => pc[q] = "idle"

MainDone(p) == p = Main /\ pc[p] = "idle" /\ answer[p] = "disabled"

\* Alone means that nobody else is running and no netsh is left over, so that
\* what the request's own calls did is still in place.
LoneInv ==
    \A p \in Procs : alone[p] =>
        /\ orphans = {}
        /\ pc[p] # "idle" => OthersIdle(p)
        /\ Progress(p)
        /\ MainDone(p) => OthersIdle(p) /\ ~rule

\* main runs Disable only between the signal and Shutdown.
MainInv == pc[Main] # "idle" => phase = "stopping"

\* LoneInv is inductive.
LEMMA LoneStep == TypeOK /\ LoneInv /\ [Next]_vars => LoneInv'
<1> SUFFICES ASSUME TypeOK, LoneInv, [Next]_vars,
                    NEW r \in Procs, alone'[r]
             PROVE  /\ orphans' = {}
                    /\ pc'[r] # "idle" => OthersIdle(r)'
                    /\ Progress(r)'
                    /\ MainDone(r)' => OthersIdle(r)' /\ ~rule'
  BY DEF LoneInv
<1> DEFINE Goal == /\ orphans' = {}
                   /\ pc'[r] # "idle" => OthersIdle(r)'
                   /\ Progress(r)'
                   /\ MainDone(r)' => OthersIdle(r)' /\ ~rule'
<1> SUFFICES Goal
  OBVIOUS
<1> USE CallersAssumption
\* A step of a running process p finds r = p, or r finished and not MainDone.
<1>0. ASSUME NEW p \in Procs, pc[p] # "idle", alone'[r] = alone[r], r # p
      PROVE  pc[r] = "idle" /\ ~MainDone(r) /\ orphans = {}
  BY <1>0 DEF LoneInv, OthersIdle
<1>1. ASSUME NEW c \in Callers, EnableStart(c) PROVE Goal
  BY <1>1 DEF EnableStart, MarkStart, Goto, AllIdle, OthersIdle, Progress,
              MainDone, TypeOK, Procs
<1>2. ASSUME NEW c \in Callers, DisableStart(c) PROVE Goal
  BY <1>2 DEF DisableStart, MarkStart, Goto, AllIdle, OthersIdle, Progress,
              MainDone, TypeOK, Procs
<1>3. ASSUME NEW c \in Callers, EnableSteps(c) PROVE Goal
  <2> USE DEF TypeOK, Procs, Goto, OthersIdle, Progress, MainDone
  <2>1. CASE EnableDelete(c)
    BY <1>0, <2>1 DEF EnableDelete, RunNetsh, LoneInv
  <2>2. CASE EnableAdd(c)
    BY <1>0, <2>2 DEF EnableAdd, RunNetsh, LoneInv
  <2>3. CASE EnableSet(c)
    BY <1>0, <2>3 DEF EnableSet, LoneInv
  <2> QED BY <1>3, <2>1, <2>2, <2>3 DEF EnableSteps
<1>4. ASSUME NEW p \in Procs, DisableSteps(p) PROVE Goal
  <2> USE DEF TypeOK, Procs, Goto, OthersIdle, Progress, MainDone
  <2>1. CASE DisableDelete(p)
    BY <1>0, <2>1 DEF DisableDelete, RunNetsh, LoneInv
  <2>2. CASE DisableSet(p)
    BY <1>0, <2>2 DEF DisableSet, LoneInv
  <2> QED BY <1>4, <2>1, <2>2 DEF DisableSteps
<1>5. ASSUME NEW c \in Callers, Reply(c) \/ ReplyError(c) PROVE Goal
  BY <1>0, <1>5 DEF Reply, ReplyError, Goto, TypeOK, Procs, LoneInv,
                    OthersIdle, Progress, MainDone
<1>6. CASE Signal
  BY <1>6 DEF Signal, MarkStart, Goto, AllIdle, OthersIdle, Progress,
              MainDone, TypeOK, Procs
<1>7. CASE MainClose
  BY <1>0, <1>7 DEF MainClose, Goto, TypeOK, Procs, LoneInv, OthersIdle,
                    Progress, MainDone
<1>8. CASE Exit \/ Kill
  BY <1>8 DEF Exit, Kill, ProcessEnds
<1>9. CASE Restart
  BY <1>9 DEF Restart, TypeOK, LoneInv, OthersIdle, Progress, MainDone
<1>10. ASSUME NEW command \in Commands, OrphanEnds(command) PROVE Goal
  BY <1>10 DEF OrphanEnds
<1>11. CASE UNCHANGED vars
  BY <1>11 DEF vars, LoneInv, OthersIdle, Progress, MainDone
<1> HIDE DEF Goal
<1> QED
  BY <1>1, <1>2, <1>3, <1>4, <1>5, <1>6, <1>7, <1>8, <1>9, <1>10, <1>11
  DEF Next, Steps, MainSteps, Procs

\* MainInv is inductive.
LEMMA MainStep == TypeOK /\ MainInv /\ [Next]_vars => MainInv'
  BY CallersAssumption
  DEF TypeOK, MainInv, Next, vars, Procs, Goto, RunNetsh, EnableStart,
      DisableStart, Steps, EnableSteps, DisableSteps, EnableDelete, EnableAdd,
      EnableSet, DisableDelete, DisableSet, Reply, ReplyError, Signal,
      MainSteps, MainClose, Exit, Kill, ProcessEnds, Restart, OrphanEnds

\* The two facts about lone requests rest on the same invariant.
LEMMA LoneInvariant == Spec => [](TypeOK /\ LoneInv /\ MainInv)
<1>1. Init => TypeOK /\ LoneInv /\ MainInv
  BY DEF Init, TypeOK, LoneInv, MainInv, Procs, Labels, Answers, Phases,
         Commands
<1> QED
  BY <1>1, TypeStep, LoneStep, MainStep, PTL DEF Spec

\* A request that met no other activity does what its answer says, whatever
\* failures came before it (Manager.Enable, Manager.Disable).
THEOREM LoneRequest == Spec => LoneRequestTakesEffect
<1>1. TypeOK /\ LoneInv /\ [Next]_vars =>
        [\A c \in Callers :
          alone[c] /\ Reply(c) =>
            /\ pc[c] = "d_reply" => ~rule' /\ ~since' /\ answer'[c] = "disabled"
            /\ pc[c] = "e_reply" => rule' /\ since' /\ answer'[c] = "enabled"
            /\ pc[c] = "e_already" => answer'[c] = "enabled"]_vars
  BY DEF Reply, LoneInv, Progress, TypeOK, Procs
<1> QED
  BY <1>1, LoneInvariant, PTL DEF Spec, LoneRequestTakesEffect

\* A regular exit of the engine leaves no blocking rule behind if main's Disable
\* succeeded and met no request (engine/main.go).
THEOREM LoneExit == Spec => LoneExitUnblocks
<1>1. TypeOK /\ LoneInv /\ MainInv /\ [Next]_vars =>
        [Exit /\ alone[Main] /\ answer[Main] = "disabled" => ~rule']_vars
  BY DEF Exit, ProcessEnds, LoneInv, MainInv, MainDone, TypeOK, Procs
<1> QED
  BY <1>1, LoneInvariant, PTL DEF Spec, LoneExitUnblocks

-----------------------------------------------------------------------------
(* Status and the firewall *)

\* No request runs in a process that has ended.
PhaseInv == phase = "down" => \A p \in Procs : pc[p] = "idle"

\* PhaseInv is inductive: requests start only while the API accepts them.
LEMMA PhaseStep == TypeOK /\ PhaseInv /\ [Next]_vars => PhaseInv'
<1> SUFFICES ASSUME TypeOK, PhaseInv, [Next]_vars, phase' = "down",
                    NEW p \in Procs
             PROVE  pc'[p] = "idle"
  BY DEF PhaseInv
<1> USE DEF PhaseInv, TypeOK, Procs
<1>1. ASSUME phase = "down" PROVE pc'[p] = "idle"
  BY <1>1 DEF Next, vars, EnableStart, DisableStart, Accepting, Steps, EnableSteps,
     EnableDelete, EnableAdd, EnableSet, DisableSteps, DisableDelete, DisableSet,
     Reply, ReplyError, Signal, MainSteps, MainClose, Exit, Kill, Restart,
     OrphanEnds
<1>2. ASSUME phase # "down" PROVE pc'[p] = "idle"
  BY <1>2 DEF Next, vars, EnableStart, DisableStart, Accepting, Steps, EnableSteps,
     EnableDelete, EnableAdd, EnableSet, DisableSteps, DisableDelete, DisableSet,
     Reply, ReplyError, Signal, MainSteps, MainClose, Exit, Kill, ProcessEnds,
     Restart, OrphanEnds
<1> QED
  BY <1>1, <1>2

\* While it is calm at most one request is running, and between the firewall and
\* the field only two labels see them disagree: netsh has succeeded and `since`
\* is not yet set.
CalmInv ==
    calm =>
        /\ \A p, q \in Procs : pc[p] # "idle" /\ pc[q] # "idle" => p = q
        /\ phase # "down"
        /\ orphans = {}
        /\ \A p \in Procs :
              /\ pc[p] \in {"e_del", "e_add"} => ~since
              /\ pc[p] = "e_set" => rule
              /\ pc[p] = "d_set" => ~rule
        /\ (\A p \in Procs : pc[p] \notin {"e_set", "d_set"}) => since = rule

\* CalmInv is inductive; a request that ran alone restores it, whatever was
\* before, because LoneInv says what it leaves behind.
LEMMA CalmStep ==
  ASSUME TypeOK, LoneInv, MainInv, PhaseInv, CalmInv, [Next]_vars
  PROVE  CalmInv'
<1> SUFFICES ASSUME calm'
             PROVE  CalmInv'
  BY DEF CalmInv
<1> USE DEF CalmInv
<1>0. CASE UNCHANGED vars
  BY <1>0 DEF vars
<1>1. ASSUME NEW c \in Callers, EnableStart(c) PROVE CalmInv'
  BY <1>1 DEF EnableStart, Accepting, MarkStart, AllIdle, Goto, TypeOK, Procs
<1>2. ASSUME NEW c \in Callers, DisableStart(c) PROVE CalmInv'
  BY <1>2 DEF DisableStart, Accepting, MarkStart, AllIdle, Goto, TypeOK, Procs
<1>3. ASSUME NEW c \in Callers, EnableSteps(c) PROVE CalmInv'
  <2> USE <1>3 DEF Goto, TypeOK, Procs, RunNetsh
  <2>1. CASE EnableDelete(c)
    BY <2>1 DEF EnableDelete
  <2>2. CASE EnableAdd(c)
    BY <2>2 DEF EnableAdd
  <2>3. CASE EnableSet(c)
    BY <2>3 DEF EnableSet
  <2> QED BY <2>1, <2>2, <2>3 DEF EnableSteps
<1>4. ASSUME NEW p \in Procs, DisableSteps(p) PROVE CalmInv'
  <2> USE <1>4 DEF Goto, TypeOK, RunNetsh
  <2>1. CASE DisableDelete(p)
    BY <2>1 DEF DisableDelete
  <2>2. CASE DisableSet(p)
    BY <2>2 DEF DisableSet
  <2> QED BY <2>1, <2>2 DEF DisableSteps
<1>5. ASSUME NEW c \in Callers, ReplyError(c) PROVE CalmInv'
  BY <1>5 DEF ReplyError, Goto, TypeOK, Procs
<1>6. ASSUME NEW c \in Callers, Reply(c) PROVE CalmInv'
  <2>1. CASE calm
    BY <1>6, <2>1 DEF Reply, Goto, TypeOK, Procs
  <2>2. CASE ~calm
    <3>1. alone[c] /\ pc[c] \in {"e_reply", "d_reply"}
      BY <1>6, <2>2 DEF Reply
    <3>2. orphans = {} /\ OthersIdle(c) /\ since = rule
      BY <3>1 DEF LoneInv, Progress, Procs, TypeOK
    <3>3. phase # "down"
      BY <3>1 DEF PhaseInv, Procs
    <3>4. pc' = [pc EXCEPT ![c] = "idle"] /\ UNCHANGED <<since, rule, phase, orphans>>
      BY <1>6 DEF Reply, Goto
    <3>5. \A p \in Procs : pc'[p] = "idle"
      BY <3>2, <3>4 DEF OthersIdle, TypeOK, Procs
    <3> QED
      BY <3>2, <3>3, <3>4, <3>5
  <2> QED
    BY <2>1, <2>2 DEF TypeOK
<1>7. CASE Signal
  BY <1>7 DEF Signal, MarkStart, AllIdle, Goto, TypeOK, Procs, MainInv
<1>8. CASE MainClose
  BY <1>8 DEF MainClose, Goto, TypeOK, Procs
<1>9. CASE Exit \/ Kill
  BY <1>9 DEF Exit, Kill, ProcessEnds
<1>10. CASE Restart
  BY <1>10 DEF Restart
<1>11. ASSUME NEW command \in Commands, OrphanEnds(command) PROVE CalmInv'
  BY <1>11 DEF OrphanEnds
<1> HIDE DEF CalmInv
<1> QED
  BY <1>0, <1>1, <1>2, <1>3, <1>4, <1>5, <1>6, <1>7, <1>8, <1>9, <1>10, <1>11
  DEF Next, Steps, MainSteps, Procs

\* For any number of callers and with every fault: from the start, or from the
\* last request that ran alone to its end, Status agrees with the firewall
\* between requests until two of them overlap, netsh is cut short, or the
\* engine ends.
THEOREM StatusMatches == Spec => []StatusMatchesFirewall
<1>1. Init => TypeOK /\ LoneInv /\ MainInv /\ PhaseInv /\ CalmInv
  BY DEF Init, TypeOK, LoneInv, MainInv, PhaseInv, CalmInv, Procs, Labels, Answers,
         Phases, Commands
<1>2. TypeOK /\ LoneInv /\ MainInv /\ PhaseInv /\ CalmInv /\ [Next]_vars
        => (TypeOK /\ LoneInv /\ MainInv /\ PhaseInv /\ CalmInv)'
  BY TypeStep, LoneStep, MainStep, PhaseStep, CalmStep
<1>3. CalmInv => StatusMatchesFirewall
  BY DEF CalmInv, StatusMatchesFirewall, AllIdle
<1> QED
  BY <1>1, <1>2, <1>3, PTL DEF Spec
=============================================================================
