------------------------------ MODULE KillSwitch ------------------------------
(***************************************************************************)
(* The engine's kill switch (engine/killswitch) together with the part of   *)
(* engine/main.go that shuts it down.                                       *)
(*                                                                          *)
(* Manager.Enable and Manager.Disable run in HTTP handlers, one goroutine   *)
(* per request, and in main after SIGINT/SIGTERM.  The mutex protects only  *)
(* the field `since`: it is released while netsh changes the firewall, so   *)
(* every netsh call is a step of its own and requests interleave between    *)
(* them.                                                                    *)
(***************************************************************************)
EXTENDS Naturals

CONSTANTS
    Callers,    \* HTTP requests that can be in flight at the same time
    Main,       \* the main goroutine, which runs Disable on its way out
    Faults      \* which failures the environment may produce, see AllFaults

AllFaults ==
    { "error",      \* netsh fails and changes nothing
      "cut_short",  \* the request's deadline ends netsh after it took effect
      "kill",       \* the engine process is killed
      "restart" }   \* the engine is started again after it ended

ASSUME CallersAssumption == Main \notin Callers
ASSUME FaultsAssumption == Faults \subseteq AllFaults

Procs == Callers \cup {Main}

VARIABLES
    since,      \* Manager.since # nil: what Status reports as `enabled`
    rule,       \* the firewall holds the blocking rule of group "Kaveh"
    pc,         \* where each process is in Enable or Disable
    answer,     \* the last outcome each process saw
    phase,      \* life of the engine process
    orphans,    \* netsh commands that outlived a killed engine
    alone,      \* history: this request has met no other activity so far
    calm        \* history: see MarkStart, RunNetsh, Reply and ProcessEnds

vars == <<since, rule, pc, answer, phase, orphans, alone, calm>>

Labels ==
    { "idle",
      "e_already",                             \* Enable found since # nil
      "e_del", "e_add", "e_set", "e_reply",    \* Enable
      "d_del", "d_set", "d_reply",             \* Disable
      "fail" }                                 \* returning netsh's error
Answers == {"none", "enabled", "disabled", "error"}
Phases == {"serve", "stopping", "closing", "down"}
Commands == {"add", "delete"}

TypeOK ==
    /\ since \in BOOLEAN
    /\ rule \in BOOLEAN
    /\ pc \in [Procs -> Labels]
    /\ answer \in [Procs -> Answers]
    /\ phase \in Phases
    /\ orphans \subseteq Commands
    /\ alone \in [Procs -> BOOLEAN]
    /\ calm \in BOOLEAN

Init ==
    /\ since = FALSE
    /\ rule = FALSE
    /\ pc = [p \in Procs |-> "idle"]
    /\ answer = [p \in Procs |-> "none"]
    /\ phase = "serve"
    /\ orphans = {}
    /\ alone = [p \in Procs |-> FALSE]
    /\ calm = TRUE

-----------------------------------------------------------------------------
(* Helpers *)

AllIdle == \A p \in Procs : pc[p] = "idle"

Goto(p, label) == pc' = [pc EXCEPT ![p] = label]

\* p starts: it is alone unless something else is running, and whatever was
\* running is no longer alone.  Calm ends where two requests overlap.
MarkStart(p) ==
    /\ alone' = [q \in Procs |-> q = p /\ AllIdle /\ orphans = {}]
    /\ calm' = (calm /\ AllIdle)

\* One call of runNetsh: it may take effect and report success, report an error
\* and change nothing, or report an error after the change was made.
RunNetsh(p, command, next) ==
    \/ /\ rule' = (command = "add")
       /\ Goto(p, next)
       /\ UNCHANGED calm
    \/ /\ "error" \in Faults
       /\ Goto(p, "fail")
       /\ UNCHANGED <<rule, calm>>
    \/ /\ "cut_short" \in Faults
       /\ rule' = (command = "add")
       /\ Goto(p, "fail")
       /\ calm' = FALSE

\* The API accepts connections until apiServer.Shutdown closes its listener.
Accepting(c) == phase \in {"serve", "stopping"} /\ pc[c] = "idle"

-----------------------------------------------------------------------------
(* Manager.Enable, from POST /killswitch/enable with confirm=true *)

EnableStart(c) ==
    /\ Accepting(c)
    /\ Goto(c, IF since THEN "e_already" ELSE "e_del")
    /\ MarkStart(c)
    /\ UNCHANGED <<since, rule, answer, phase, orphans>>

EnableDelete(c) ==
    /\ pc[c] = "e_del"
    /\ RunNetsh(c, "delete", "e_add")
    /\ UNCHANGED <<since, answer, phase, orphans, alone>>

EnableAdd(c) ==
    /\ pc[c] = "e_add"
    /\ RunNetsh(c, "add", "e_set")
    /\ UNCHANGED <<since, answer, phase, orphans, alone>>

EnableSet(c) ==
    /\ pc[c] = "e_set"
    /\ since' = TRUE
    /\ Goto(c, "e_reply")
    /\ UNCHANGED <<rule, answer, phase, orphans, alone, calm>>

-----------------------------------------------------------------------------
(* Manager.Disable, from POST /killswitch/disable and from main *)

DisableStart(c) ==
    /\ Accepting(c)
    /\ Goto(c, "d_del")
    /\ MarkStart(c)
    /\ UNCHANGED <<since, rule, answer, phase, orphans>>

\* Variant with a bug: the error of netsh is ignored.
DisableDeleteIgnoresError(p) ==
    /\ pc[p] = "d_del"
    /\ rule' \in {FALSE, rule}
    /\ Goto(p, "d_set")
    /\ UNCHANGED <<since, answer, phase, orphans, alone, calm>>

DisableDelete(p) ==
    /\ pc[p] = "d_del"
    /\ RunNetsh(p, "delete", "d_set")
    /\ UNCHANGED <<since, answer, phase, orphans, alone>>

\* Variant with a bug: the field is not reset.
DisableSetKeepsSince(p) ==
    /\ pc[p] = "d_set"
    /\ Goto(p, "d_reply")
    /\ UNCHANGED <<since, rule, answer, phase, orphans, alone, calm>>

DisableSet(p) ==
    /\ pc[p] = "d_set"
    /\ since' = FALSE
    /\ Goto(p, "d_reply")
    /\ UNCHANGED <<rule, answer, phase, orphans, alone, calm>>

-----------------------------------------------------------------------------
(* The handlers' answers: Status is read again, after Enable or Disable *)

\* Variant with a bug: the early return of Enable writes no answer.
ReplyUnlessAlready(c) ==
    /\ pc[c] \in {"e_reply", "d_reply"}
    /\ answer' = [answer EXCEPT ![c] = IF since THEN "enabled" ELSE "disabled"]
    /\ Goto(c, "idle")
    /\ UNCHANGED <<since, rule, phase, orphans, alone, calm>>

\* Calm returns with a request that ran alone to its end.
Reply(c) ==
    /\ pc[c] \in {"e_already", "e_reply", "d_reply"}
    /\ answer' = [answer EXCEPT ![c] = IF since THEN "enabled" ELSE "disabled"]
    /\ Goto(c, "idle")
    /\ calm' = (calm \/ (alone[c] /\ pc[c] # "e_already"))
    /\ UNCHANGED <<since, rule, phase, orphans, alone>>

ReplyError(c) ==
    /\ pc[c] = "fail"
    /\ answer' = [answer EXCEPT ![c] = "error"]
    /\ Goto(c, "idle")
    /\ UNCHANGED <<since, rule, phase, orphans, alone, calm>>

-----------------------------------------------------------------------------
(* The engine process: main.go after the signal, a kill, and the next start *)

\* main runs ks.Disable while the API still accepts requests.
Signal ==
    /\ phase = "serve"
    /\ phase' = "stopping"
    /\ Goto(Main, "d_del")
    /\ MarkStart(Main)
    /\ UNCHANGED <<since, rule, answer, orphans>>

\* Variants with a bug: the error is taken for success; it ends the shutdown;
\* the label is stored where the outcome belongs.
MainCloseHidesError ==
    /\ phase = "stopping"
    /\ pc[Main] \in {"d_reply", "fail"}
    /\ phase' = "closing"
    /\ Goto(Main, "idle")
    /\ answer' = [answer EXCEPT ![Main] = "disabled"]
    /\ UNCHANGED <<since, rule, orphans, alone, calm>>

MainCloseStuckOnError ==
    /\ pc[Main] = "d_reply"
    /\ MainCloseHidesError

MainCloseStoresLabel ==
    /\ phase = "stopping"
    /\ pc[Main] \in {"d_reply", "fail"}
    /\ phase' = "closing"
    /\ Goto(Main, "idle")
    /\ answer' = [answer EXCEPT ![Main] = pc[Main]]
    /\ UNCHANGED <<since, rule, orphans, alone, calm>>

\* `_ = ks.Disable(ctx)`: the error is dropped, then Shutdown closes the API.
MainClose ==
    /\ phase = "stopping"
    /\ pc[Main] \in {"d_reply", "fail"}
    /\ phase' = "closing"
    /\ Goto(Main, "idle")
    /\ answer' = [answer EXCEPT
                    ![Main] = IF pc[Main] = "fail" THEN "error" ELSE "disabled"]
    /\ UNCHANGED <<since, rule, orphans, alone, calm>>

\* The process is gone: its memory is lost, its rule is not, and a netsh it was
\* waiting for may still run.
ProcessEnds ==
    /\ phase' = "down"
    /\ since' = FALSE
    /\ pc' = [p \in Procs |-> "idle"]
    /\ alone' = [p \in Procs |-> FALSE]
    /\ calm' = FALSE
    /\ orphans' = orphans
          \cup (IF \E p \in Procs : pc[p] \in {"e_del", "d_del"}
                THEN {"delete"} ELSE {})
          \cup (IF \E p \in Procs : pc[p] = "e_add" THEN {"add"} ELSE {})
    /\ UNCHANGED <<rule, answer>>

\* Shutdown returns when the requests are done or its 8 seconds are over.
Exit == phase = "closing" /\ ProcessEnds

Kill == "kill" \in Faults /\ phase # "down" /\ ProcessEnds

Restart ==
    /\ "restart" \in Faults
    /\ phase = "down"
    /\ phase' = "serve"
    /\ answer' = [p \in Procs |-> "none"]
    /\ UNCHANGED <<since, rule, pc, orphans, alone, calm>>

\* A netsh left behind completes, or dies without effect; another of its kind
\* may still be running.
OrphanEnds(command) ==
    /\ command \in orphans
    /\ orphans' \in {orphans, orphans \ {command}}
    /\ rule' \in {rule, command = "add"}
    /\ alone' = [p \in Procs |-> FALSE]
    /\ UNCHANGED <<since, pc, answer, phase, calm>>

-----------------------------------------------------------------------------

EnableSteps(c) == EnableDelete(c) \/ EnableAdd(c) \/ EnableSet(c)
DisableSteps(p) == DisableDelete(p) \/ DisableSet(p)
Steps(c) == EnableSteps(c) \/ DisableSteps(c) \/ Reply(c) \/ ReplyError(c)
MainSteps == DisableSteps(Main) \/ MainClose \/ Exit

Next ==
    \/ \E c \in Callers : EnableStart(c) \/ DisableStart(c) \/ Steps(c)
    \/ Signal
    \/ MainSteps
    \/ Kill
    \/ Restart
    \/ \E command \in Commands : OrphanEnds(command)

Spec == Init /\ [][Next]_vars

(***************************************************************************)
(* Every goroutine keeps running and every netsh call returns, because its  *)
(* context has a deadline (5 s in the handlers, 8 s in main).               *)
(***************************************************************************)
Fairness == WF_vars(MainSteps) /\ \A c \in Callers : WF_vars(Steps(c))

FairSpec == Spec /\ Fairness

-----------------------------------------------------------------------------
(* Properties *)

\* Status and the firewall agree between requests, so the UI shows the kill
\* switch as on exactly if the blocking rule is installed: from the start, or
\* from the last request that ran alone to its end, until two requests overlap,
\* netsh is cut short, or the engine ends.  Failures of netsh do not matter.
StatusMatchesFirewall == calm /\ AllIdle => since = rule

\* A Disable that met no other activity and is answered without an error leaves
\* neither the rule nor the status behind, whatever state crashes, cut-off
\* calls and earlier overlapping requests had left; an Enable of that kind that
\* installed its rule leaves it installed.  The answer says so.
LoneRequestTakesEffect ==
    [][\A c \in Callers :
          alone[c] /\ Reply(c) =>
            /\ pc[c] = "d_reply" => ~rule' /\ ~since' /\ answer'[c] = "disabled"
            /\ pc[c] = "e_reply" => rule' /\ since' /\ answer'[c] = "enabled"
            /\ pc[c] = "e_already" => answer'[c] = "enabled"]_vars

\* A regular exit removes the blocking rule if main's Disable succeeded and no
\* request ran next to it or after it.
LoneExitUnblocks ==
    [][Exit /\ alone[Main] /\ answer[Main] = "disabled" => ~rule']_vars

\* A regular exit always removes the blocking rule, as the README promises.
\* False: a request accepted before Shutdown closes the API can add the rule
\* again after main's Disable.
ExitUnblocks == [][Exit => ~rule']_vars

\* Every request accepted is answered, unless the engine ends first.
RequestsComplete ==
    \A c \in Callers : pc[c] # "idle" ~> pc[c] = "idle"

\* After the signal the engine does end, even if netsh fails or requests hang.
StopCompletes == phase = "stopping" ~> phase = "down"
=============================================================================
