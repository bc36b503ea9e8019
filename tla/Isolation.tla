------------------------------- MODULE Isolation -------------------------------
(***************************************************************************)
(* Isolation (engine/isolation): each rule confines one process to a proxy. *)
(* With the backend "firewall" a rule is a block and an allow rule in the   *)
(* group KavehIsolation, with "windivert" a session that holds a handle of  *)
(* the driver.                                                              *)
(*                                                                          *)
(* Enable and Disable release the mutex between their two halves, and       *)
(* SetRules has the firewall brought up to date by a goroutine, which goes  *)
(* on after the answer.  The handlers' deadline is their own, so no request *)
(* is cut short by its caller.                                              *)
(*                                                                          *)
(* A rule is known by its process here, and has one allow rule.  Left out:  *)
(* the circuit, the error texts, other systems than Windows, and the        *)
(* validation of SetRules, which refuses before anything changes.           *)
(***************************************************************************)
EXTENDS Naturals

CONSTANTS
    IsoClients,     \* requests that can be in flight at the same time
    Appliers,       \* goroutines of SetRules that can run (a bound)
    Pids,
    MaxHandles      \* bound on the handles open for a process

ASSUME IsolationAssumption ==
    /\ IsoClients \cap Appliers = {}
    /\ MaxHandles \in Nat \ {0}

VARIABLES
    backend,
    isoEnabled,     \* m.enabled
    isoRules,       \* m.rules: of each process that has a rule, Enforced
    sessions,       \* m.sessions
    handles,        \* handles of the driver that are open, for each process
    isoGroup,       \* rules in the firewall group
    place,          \* where each request or goroutine is
    copy,           \* its copy of the rules
    todo,           \* those it has still to enforce
    erred,          \* one of its calls has failed
    single,         \* history: it has met no other
    claimed,        \* history: the rules stored as enforced because the request
                    \* that set them said so
    entangled,      \* history: some have met since the last one that had not
    faulty          \* history: a call has failed, or the engine was killed,
                    \* since the last request that met none and did not fail

isoVars == <<backend, isoEnabled, isoRules, sessions, handles, isoGroup, place,
             copy, todo, erred, single, claimed, entangled, faulty>>

Actors == IsoClients \cup Appliers
RuleLists == UNION {[P -> BOOLEAN] : P \in SUBSET Pids}
Unenforced(P) == [p \in P |-> FALSE]
Places == {"idle", "sessions", "apply", "delete", "block", "allow", "clear",
           "stopped"}

IsoTypeOK ==
    /\ backend \in {"firewall", "windivert"}
    /\ isoEnabled \in BOOLEAN
    /\ isoRules \in RuleLists
    /\ sessions \subseteq Pids
    /\ handles \in [Pids -> 0..MaxHandles]
    /\ isoGroup \subseteq Pids \X {"block", "allow"}
    /\ place \in [Actors -> Places]
    /\ copy \in [Actors -> RuleLists]
    /\ todo \in [Actors -> SUBSET Pids]
    /\ erred \in [Actors -> BOOLEAN]
    /\ single \in [Actors -> BOOLEAN]
    /\ claimed \subseteq Pids
    /\ entangled \in BOOLEAN
    /\ faulty \in BOOLEAN

IsoInit ==
    /\ backend \in {"firewall", "windivert"}
    /\ isoEnabled = FALSE
    /\ isoRules = Unenforced({})
    /\ sessions = {}
    /\ handles = [p \in Pids |-> 0]
    /\ isoGroup = {}
    /\ place = [a \in Actors |-> "idle"]
    /\ copy = [a \in Actors |-> Unenforced({})]
    /\ todo = [a \in Actors |-> {}]
    /\ erred = [a \in Actors |-> FALSE]
    /\ single = [a \in Actors |-> TRUE]
    /\ claimed = {}
    /\ entangled = FALSE
    /\ faulty = FALSE

-----------------------------------------------------------------------------
(* Sessions of the driver *)

\* startSessionsLocked: the driver opens a handle, or not.  A session that the
\* process had before is overwritten, its handle stays open.
StartSessions(P, was, open) ==
    \E started \in SUBSET P :
        /\ \A p \in started : open[p] < MaxHandles
        /\ sessions' = was \cup started
        /\ handles' = [p \in Pids |->
                          IF p \in started THEN open[p] + 1 ELSE open[p]]
        /\ isoRules' = [p \in P |-> p \in started]
    /\ claimed' = {}

\* stopAllSessionsLocked: what is open then.
Stopped ==
    [p \in Pids |-> IF p \in sessions THEN handles[p] - 1 ELSE handles[p]]

-----------------------------------------------------------------------------
(* Requests *)

Quiet == \A a \in Actors : place[a] = "idle"

\* a sets out; all that are under way meet it.
Enter(a, where) ==
    /\ place' = [place EXCEPT ![a] = where]
    /\ single' = [d \in Actors |-> Quiet]
    /\ entangled' = (entangled \/ ~Quiet)

\* A request that is over at once, too.
Interfere ==
    /\ place' = place
    /\ single' = [d \in Actors |-> Quiet]
    /\ entangled' = (entangled \/ ~Quiet)

Leave(a) ==
    /\ place' = [place EXCEPT ![a] = "idle"]
    /\ copy' = [copy EXCEPT ![a] = Unenforced({})]
    /\ todo' = [todo EXCEPT ![a] = {}]
    /\ erred' = [erred EXCEPT ![a] = FALSE]
    /\ single' = [single EXCEPT ![a] = TRUE]

\* The list is stored as it was sent, Enforced included.
SetRules(sent) ==
    /\ IF isoEnabled /\ backend = "windivert"
       THEN StartSessions(DOMAIN sent, {}, Stopped)
       ELSE /\ isoRules' = sent
            /\ claimed' = {p \in DOMAIN sent : sent[p]}
            /\ UNCHANGED <<sessions, handles>>
    /\ IF isoEnabled /\ backend = "firewall"
       THEN \E g \in Appliers : place[g] = "idle" /\ Enter(g, "apply")
       ELSE Interfere
    /\ UNCHANGED <<backend, isoEnabled, isoGroup, copy, todo, erred, faulty>>

\* The first half; nothing happens if isolation is on.
Enable(c) ==
    /\ ~isoEnabled /\ place[c] = "idle"
    /\ copy' = [copy EXCEPT ![c] = isoRules]
    /\ Enter(c, IF backend = "firewall" THEN "delete" ELSE "sessions")
    /\ UNCHANGED <<backend, isoEnabled, isoRules, sessions, handles, isoGroup,
                   todo, erred, claimed, faulty>>

\* The second half, with the driver: isolation is on unless no session started.
EnableSessions(c) ==
    /\ place[c] = "sessions"
    /\ \/ /\ StartSessions(DOMAIN isoRules, sessions, handles)
          /\ isoEnabled' =
                (isoEnabled \/ sessions' # {} \/ DOMAIN isoRules = {})
       \/ UNCHANGED <<isoRules, sessions, handles, isoEnabled, claimed>>
    /\ Leave(c)
    /\ UNCHANGED <<backend, isoGroup, entangled, faulty>>

Disable(c) ==
    /\ isoEnabled /\ place[c] = "idle"
    /\ isoEnabled' = FALSE
    /\ Enter(c, IF backend = "firewall" THEN "clear" ELSE "stopped")
    /\ UNCHANGED <<backend, isoRules, sessions, handles, isoGroup, copy, todo,
                   erred, claimed, faulty>>

\* An error of netsh is ignored.
DisableClear(c) ==
    /\ place[c] = "clear"
    /\ isoGroup' \in {isoGroup, {}}
    /\ \E failed \in {FALSE, TRUE} :
          /\ ~failed => isoGroup' = {}
          /\ erred' = [erred EXCEPT ![c] = failed]
          /\ faulty' = (faulty \/ failed)
    /\ place' = [place EXCEPT ![c] = "stopped"]
    /\ UNCHANGED <<backend, isoEnabled, isoRules, sessions, handles, copy,
                   todo, single, claimed, entangled>>

\* The second half.
DisableEnds(c) ==
    /\ place[c] = "stopped"
    /\ handles' = Stopped
    /\ sessions' = {}
    /\ isoRules' = Unenforced(DOMAIN isoRules)
    /\ claimed' = {}
    /\ entangled' =
          (entangled /\ (erred[c] \/ ~single[c] \/ backend = "windivert"))
    /\ faulty' = (faulty /\ (erred[c] \/ ~single[c]))
    /\ Leave(c)
    /\ UNCHANGED <<backend, isoEnabled, isoGroup>>

-----------------------------------------------------------------------------
(* enforceFirewallRules, for Enable and for the goroutine *)

\* applyFirewallIfNeeded: the first half.
ApplyBegins(g) ==
    /\ place[g] = "apply"
    /\ IF isoEnabled
       THEN /\ place' = [place EXCEPT ![g] = "delete"]
            /\ copy' = [copy EXCEPT ![g] = isoRules]
            /\ UNCHANGED <<todo, erred, single>>
       ELSE Leave(g)
    /\ UNCHANGED <<backend, isoEnabled, isoRules, sessions, handles, isoGroup,
                   claimed, entangled, faulty>>

\* An error leaves every rule marked as not enforced.
EnforceDelete(a) ==
    /\ place[a] = "delete"
    /\ \/ /\ isoGroup' = {}
          /\ todo' = [todo EXCEPT ![a] = DOMAIN copy[a]]
          /\ UNCHANGED <<copy, erred, faulty>>
       \/ /\ isoGroup' \in {isoGroup, {}}
          /\ copy' = [copy EXCEPT ![a] = Unenforced(DOMAIN copy[a])]
          /\ erred' = [erred EXCEPT ![a] = TRUE]
          /\ faulty' = TRUE
          /\ UNCHANGED todo
    /\ place' = [place EXCEPT ![a] = "block"]
    /\ UNCHANGED <<backend, isoEnabled, isoRules, sessions, handles, single,
                   claimed, entangled>>

\* The current rule of a is done.
Outcome(a, p, enforced) ==
    /\ copy' = [copy EXCEPT ![a][p] = enforced]
    /\ todo' = [todo EXCEPT ![a] = @ \ {p}]
    /\ erred' = [erred EXCEPT ![a] = @ \/ ~enforced]
    /\ faulty' = (faulty \/ ~enforced)
    /\ place' = [place EXCEPT ![a] = "block"]

Current(a) == CHOOSE p \in todo[a] : TRUE

\* The process may be gone, the proxy's address wrong, or netsh fail.
EnforceBlock(a) ==
    /\ place[a] = "block" /\ todo[a] # {}
    /\ LET p == Current(a)
           after == isoGroup \cup {<<p, "block">>}
       IN  \/ /\ isoGroup' = after
              /\ place' = [place EXCEPT ![a] = "allow"]
              /\ UNCHANGED <<copy, todo, erred, faulty>>
           \/ isoGroup' \in {isoGroup, after} /\ Outcome(a, p, FALSE)
    /\ UNCHANGED <<backend, isoEnabled, isoRules, sessions, handles, single,
                   claimed, entangled>>

\* Variant with a bug: a rule counts as enforced although its allow rule failed.
EnforceAllowAnyway(a) ==
    /\ place[a] = "allow"
    /\ LET p == Current(a)
           after == isoGroup \cup {<<p, "allow">>}
       IN  isoGroup' \in {isoGroup, after} /\ Outcome(a, p, TRUE)
    /\ UNCHANGED <<backend, isoEnabled, isoRules, sessions, handles, single,
                   claimed, entangled>>

EnforceAllow(a) ==
    /\ place[a] = "allow"
    /\ LET p == Current(a)
           after == isoGroup \cup {<<p, "allow">>}
       IN  \/ isoGroup' = after /\ Outcome(a, p, TRUE)
           \/ isoGroup' \in {isoGroup, after} /\ Outcome(a, p, FALSE)
    /\ UNCHANGED <<backend, isoEnabled, isoRules, sessions, handles, single,
                   claimed, entangled>>

\* The copy is stored, over rules that may have been set meanwhile; Enable sets
\* m.enabled if no call has failed.
EnforceEnds(a) ==
    /\ place[a] = "block" /\ todo[a] = {}
    /\ isoRules' = copy[a]
    /\ claimed' = {}
    /\ isoEnabled' = (isoEnabled \/ (a \in IsoClients /\ ~erred[a]))
    /\ entangled' = (entangled /\ (erred[a] \/ ~single[a]))
    /\ faulty' = (faulty /\ (erred[a] \/ ~single[a]))
    /\ Leave(a)
    /\ UNCHANGED <<backend, sessions, handles, isoGroup>>

\* The engine is killed and started again: the rules in the firewall stay, and
\* a netsh it was waiting for takes effect or not; the driver closes handles.
IsoKill ==
    /\ \E late \in SUBSET Actors :
          LET In(where) == {a \in late : place[a] = where}
              kept == IF In("delete") \cup In("clear") = {}
                      THEN isoGroup ELSE {}
              kind(a) == IF place[a] = "block" THEN "block" ELSE "allow"
              adding == {a \in In("block") \cup In("allow") : todo[a] # {}}
          IN  isoGroup' = kept \cup {<<Current(a), kind(a)>> : a \in adding}
    /\ isoEnabled' = FALSE
    /\ isoRules' = Unenforced({})
    /\ sessions' = {}
    /\ handles' = [p \in Pids |-> 0]
    /\ place' = [a \in Actors |-> "idle"]
    /\ copy' = [a \in Actors |-> Unenforced({})]
    /\ todo' = [a \in Actors |-> {}]
    /\ erred' = [a \in Actors |-> FALSE]
    /\ single' = [a \in Actors |-> TRUE]
    /\ claimed' = {}
    /\ entangled' = FALSE
    /\ faulty' = TRUE
    /\ UNCHANGED backend

-----------------------------------------------------------------------------

IsoNext ==
    \/ \E sent \in RuleLists : SetRules(sent)
    \/ \E c \in IsoClients :
          \/ Enable(c) \/ EnableSessions(c)
          \/ Disable(c) \/ DisableClear(c) \/ DisableEnds(c)
    \/ \E g \in Appliers : ApplyBegins(g)
    \/ \E a \in Actors :
          \/ EnforceDelete(a) \/ EnforceBlock(a) \/ EnforceAllow(a)
          \/ EnforceEnds(a)
    \/ IsoKill

IsoSpec == IsoInit /\ [][IsoNext]_isoVars

-----------------------------------------------------------------------------
(* Properties *)

\* A rule that Status shows as enforced is, whatever calls have failed before,
\* unless Status only repeats what a request claimed.
EnforcedHolds ==
    \A p \in DOMAIN isoRules \ claimed : isoRules[p] =>
        IF backend = "firewall"
        THEN {<<p, "block">>, <<p, "allow">>} \subseteq isoGroup
        ELSE p \in sessions /\ handles[p] > 0

\* With no failed call since the last request that worked, all rules are in
\* force while isolation is on, and nothing is left of them when it is off.
SwitchHolds ==
    backend = "firewall" /\ ~faulty =>
        isoGroup = (IF isoEnabled THEN DOMAIN isoRules ELSE {})
                      \X {"block", "allow"}

\* Every handle belongs to a session, so that Disable closes it.
HandlesKept ==
    \A p \in Pids : handles[p] = IF p \in sessions THEN 1 ELSE 0

\* Status tells the truth about isolation whenever nothing is under way, unless
\* requests or goroutines have met since one last ran on its own and worked:
\* after failed calls, partly added rules and restarts, too.  Left out is what
\* SetRules stores of a request that calls its own rules enforced, until they
\* are enforced or isolation is switched.
IsolationTruthful ==
    Quiet /\ ~entangled =>
        EnforcedHolds /\ SwitchHolds /\ (backend = "windivert" => HandlesKept)
=============================================================================
