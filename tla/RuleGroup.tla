------------------------------ MODULE RuleGroup ------------------------------
(***************************************************************************)
(* A group of firewall rules that the engine owns: DNS enforcement          *)
(* (engine/dns) and JavaScript leak protection (engine/fingerprint) work    *)
(* alike.  Applying a request deletes the whole group, adds the rules of    *)
(* the request one netsh call at a time, and stores what Status reports.    *)
(* Clearing deletes the group and stores that.                              *)
(*                                                                          *)
(* The mutex protects only the stored status, so requests interleave        *)
(* between any two netsh calls.  DnsEnforce and JsLeak say which rules a    *)
(* request stands for.  The groups share nothing, so a behaviour is about   *)
(* one of them.                                                             *)
(***************************************************************************)
EXTENDS Naturals, Sequences

CONSTANTS
    Callers,     \* HTTP requests that can be in flight at the same time
    Groups,      \* the rule groups of this kind; the next six are per group
    Requests,    \* what can be asked for
    Refused,     \* the requests that validation turns down
    Rules,       \* firewall rules
    Plan,        \* the rules of each request, in the order they are added
    Default,     \* the request Status shows before the first one
    KeepsRequest,\* whether Status shows the last request after a clear
    Nothing,     \* stands for "clear", where a request is expected
    Faults       \* which failures the environment may produce, see AllFaults

AllFaults ==
    { "error",      \* netsh fails and changes nothing
      "cut_short",  \* the request's context ends netsh after it took effect
      "kill" }      \* the engine is killed and started again

ASSUME PlanAssumption ==
    \A g \in Groups :
        /\ Plan[g] \in [Requests[g] -> Seq(Rules[g])]
        /\ Refused[g] \subseteq Requests[g]
ASSUME NothingAssumption ==
    \A g \in Groups :
        Nothing \notin Requests[g] /\ Default[g] \in Requests[g] \cup {Nothing}
ASSUME FlagAssumption ==
    /\ \A g \in Groups : KeepsRequest[g] \in BOOLEAN
    /\ Faults \subseteq AllFaults

VARIABLES
    group,      \* which group this behaviour is about
    rules,      \* the rules of the group that are in the firewall
    enabled,    \* Status: enabled
    current,    \* Status: servers, or config
    at,         \* where each request is
    want,       \* what it asks for
    done,       \* how many of its rules it has added
    answer,     \* the last outcome of each request
    alone,      \* history: this request has met no other activity so far
    mixed       \* history: requests have overlapped since the group was last
                \* deleted by a request that ran alone

vars == <<group, rules, enabled, current, at, want, done, answer, alone, mixed>>

Labels == {"idle", "del", "add", "set", "reply", "fail"}

TypeOK ==
    /\ group \in Groups
    /\ rules \subseteq Rules[group]
    /\ enabled \in BOOLEAN
    /\ current \in Requests[group] \cup {Nothing}
    /\ at \in [Callers -> Labels]
    /\ want \in [Callers -> Requests[group] \cup {Nothing}]
    /\ done \in [Callers -> Nat]
    /\ answer \in [Callers -> {"none", "ok", "error"}]
    /\ alone \in [Callers -> BOOLEAN]
    /\ mixed \in BOOLEAN

Init ==
    /\ group \in Groups
    /\ rules = {}
    /\ enabled = FALSE
    /\ current = Default[group]
    /\ at = [c \in Callers |-> "idle"]
    /\ want = [c \in Callers |-> Nothing]
    /\ done = [c \in Callers |-> 0]
    /\ answer = [c \in Callers |-> "none"]
    /\ alone = [c \in Callers |-> FALSE]
    /\ mixed = FALSE

-----------------------------------------------------------------------------
(* Helpers *)

AllIdle == \A c \in Callers : at[c] = "idle"

Goto(c, label) == at' = [at EXCEPT ![c] = label]

PlanOf(r) == IF r = Nothing THEN <<>> ELSE Plan[group][r]

\* The first n rules of request r.
Prefix(r, n) == {PlanOf(r)[i] : i \in 1..n}

AllRules(r) == Prefix(r, Len(PlanOf(r)))

\* Where c goes with n of its rules added.
NextCall(c, n) == IF n < Len(PlanOf(want[c])) THEN "add" ELSE "set"

\* One call of runNetsh that leaves the group as `after`: it succeeds, fails
\* without effect, or reports an error although it took effect.
RunNetsh(c, after, next) ==
    \/ rules' = after /\ Goto(c, next)
    \/ "error" \in Faults /\ UNCHANGED rules /\ Goto(c, "fail")
    \/ "cut_short" \in Faults /\ rules' = after /\ Goto(c, "fail")

Begin(c, r) ==
    /\ at[c] = "idle"
    /\ Goto(c, "del")
    /\ want' = [want EXCEPT ![c] = r]
    /\ done' = [done EXCEPT ![c] = 0]
    /\ alone' = [d \in Callers |-> d = c /\ AllIdle]
    /\ mixed' = (mixed \/ ~AllIdle)
    /\ UNCHANGED <<group, rules, enabled, current, answer>>

-----------------------------------------------------------------------------
(* The requests *)

\* A list that is empty or names something that is no IPv4 address.
Refuse(c) ==
    /\ at[c] = "idle"
    /\ Refused[group] # {}
    /\ answer' = [answer EXCEPT ![c] = "error"]
    /\ UNCHANGED <<group, rules, enabled, current, at, want, done, alone, mixed>>

Apply(c) == \E r \in Requests[group] \ Refused[group] : Begin(c, r)

Clear(c) == Begin(c, Nothing)

\* Variant with a bug: the old rules are left in place.
DeleteSkipped(c) ==
    /\ at[c] = "del"
    /\ RunNetsh(c, rules, NextCall(c, 0))
    /\ mixed' = (mixed /\ (rules' # {} \/ ~alone[c]))
    /\ UNCHANGED <<group, enabled, current, want, done, answer, alone>>

Delete(c) ==
    /\ at[c] = "del"
    /\ RunNetsh(c, {}, NextCall(c, 0))
    /\ mixed' = (mixed /\ (rules' # {} \/ ~alone[c]))
    /\ UNCHANGED <<group, enabled, current, want, done, answer, alone>>

\* Variant with a bug: an error of netsh is ignored.
AddIgnoresError(c) ==
    /\ at[c] = "add"
    /\ LET n == done[c] + 1
       IN  /\ rules' \in {rules, rules \cup {PlanOf(want[c])[n]}}
           /\ Goto(c, NextCall(c, n))
           /\ done' = [done EXCEPT ![c] = n]
    /\ UNCHANGED <<group, enabled, current, want, answer, alone, mixed>>

Add(c) ==
    /\ at[c] = "add"
    /\ LET n == done[c] + 1
       IN  /\ RunNetsh(c, rules \cup {PlanOf(want[c])[n]}, NextCall(c, n))
           /\ done' = [done EXCEPT ![c] = n]
    /\ UNCHANGED <<group, enabled, current, want, answer, alone, mixed>>

\* The only step under the mutex.
Set(c) ==
    /\ at[c] = "set"
    /\ enabled' = (want[c] # Nothing)
    /\ current' = IF want[c] = Nothing /\ KeepsRequest[group] THEN current ELSE want[c]
    /\ Goto(c, "reply")
    /\ UNCHANGED <<group, rules, want, done, answer, alone, mixed>>

\* Variant with a bug: the place is stored where the outcome belongs.
ReplyStoresLabel(c) ==
    /\ at[c] \in {"reply", "fail"}
    /\ answer' = [answer EXCEPT ![c] = at[c]]
    /\ Goto(c, "idle")
    /\ want' = [want EXCEPT ![c] = Nothing]
    /\ done' = [done EXCEPT ![c] = 0]
    /\ UNCHANGED <<group, rules, enabled, current, alone, mixed>>

Reply(c) ==
    /\ at[c] \in {"reply", "fail"}
    /\ answer' = [answer EXCEPT ![c] = IF at[c] = "fail" THEN "error" ELSE "ok"]
    /\ Goto(c, "idle")
    /\ want' = [want EXCEPT ![c] = Nothing]
    /\ done' = [done EXCEPT ![c] = 0]
    /\ UNCHANGED <<group, rules, enabled, current, alone, mixed>>

\* The engine is killed and started again.  Its rules stay; a netsh it was
\* waiting for takes effect or not.
Kill ==
    /\ "kill" \in Faults
    /\ \E wiped \in {FALSE, \E c \in Callers : at[c] = "del"} :
       \E late \in SUBSET {c \in Callers : at[c] = "add"} :
          rules' = (IF wiped THEN {} ELSE rules)
                      \cup {PlanOf(want[c])[done[c] + 1] : c \in late}
    /\ enabled' = FALSE
    /\ current' = Default[group]
    /\ at' = [c \in Callers |-> "idle"]
    /\ want' = [c \in Callers |-> Nothing]
    /\ done' = [c \in Callers |-> 0]
    /\ answer' = [c \in Callers |-> IF at[c] = "idle" THEN answer[c] ELSE "error"]
    /\ alone' = [c \in Callers |-> FALSE]
    /\ UNCHANGED <<group, mixed>>

-----------------------------------------------------------------------------

Steps(c) == Delete(c) \/ Add(c) \/ Set(c) \/ Reply(c)

Next ==
    \/ \E c \in Callers : Refuse(c) \/ Apply(c) \/ Clear(c) \/ Steps(c)
    \/ Kill

Spec == Init /\ [][Next]_vars

-----------------------------------------------------------------------------
(* Properties *)

\* A request that met no other activity and is answered without an error has
\* taken effect in full: the firewall holds its rules and no others, and Status
\* says so, whatever partial state failed calls, kills and earlier overlapping
\* requests had left behind.
LoneRequestTakesEffect ==
    [][\A c \in Callers :
          alone[c] /\ at[c] = "reply" /\ Reply(c) =>
            /\ rules' = AllRules(want[c])
            /\ enabled' = (want[c] # Nothing)
            /\ enabled' => current' = want[c]]_vars

\* The group is the first part of the rules of one single request, also after
\* failed calls and kills: rules of two requests are never mixed, unless the two
\* have overlapped, and then only until a request that runs alone has deleted
\* the group.
OnePlanAtATime ==
    ~mixed =>
        \E r \in Requests[group] \cup {Nothing} :
           \E n \in 0..Len(PlanOf(r)) : rules = Prefix(r, n)
=============================================================================
