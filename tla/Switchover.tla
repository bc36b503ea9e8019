------------------------------ MODULE Switchover ------------------------------
(***************************************************************************)
(* How the Python core switches the engine's proxy to another upstream:     *)
(* rotation (RotationManager in core/api/server.py), failover               *)
(* (core/failover/manager.py), and the requests of the UI that start, stop  *)
(* or reconfigure the proxy.                                                *)
(*                                                                          *)
(* Every one of them loads the configuration file, changes a few fields,    *)
(* saves the whole file and then calls the engine, without a lock around    *)
(* any two of these steps.  The engine is module ProxyManager: an actor of  *)
(* this module is the caller of its Start and Stop.                         *)
(*                                                                          *)
(* How threads begin and end is in WorkerLoop; as it shows, threads of      *)
(* earlier starts can live on beside the newest, so there are any number    *)
(* of either kind here.                                                     *)
(*                                                                          *)
(* Left out: last_error, time stamps and audit entries, which only feed the *)
(* status pages, and calls that do not reach the engine.                    *)
(***************************************************************************)
EXTENDS ProxyManager, Sequences

CONSTANTS
    Rots,        \* the threads kaveh-rotation
    Fos,         \* the threads kaveh-failover
    Pool,        \* proxy_rotation_pool
    Backups,     \* failover_backups
    Primary,     \* the upstream configured at first
    ChainRoute,  \* where traffic goes when upstream_proxy_chain is not empty
    Alive,       \* the routes that work: a probe through them succeeds
    Flaky,       \* whether a probe may fail although its route works
    Jobs,        \* what the UI asks for, a subset of AllJobs
    EditFields,  \* the fields the UI changes with PUT /config
    MaxFails     \* bound on the count of failed probes (2 is the threshold)

AllJobs == {"start", "stop", "rotate", "force", "put"}
Users == Callers \ (Rots \cup Fos)      \* requests to the core in flight

Upstreams == Routes \cup {BadRoute}
Profiles == {"light", "moderate", "high", "custom"}

ASSUME ActorsAssumption ==
    Rots \subseteq Callers /\ Fos \subseteq Callers /\ Rots \cap Fos = {}
ASSUME ListsAssumption ==
    /\ Pool \in Seq(Upstreams \ {Direct})
    /\ Backups \in Seq(Upstreams \ {Direct})
ASSUME SettingsAssumption ==
    /\ Primary \in Routes
    /\ ChainRoute \in Routes \ {Direct}
    /\ Alive \subseteq Routes
    /\ Flaky \in BOOLEAN
    /\ Jobs \subseteq AllJobs
ASSUME EditFieldsAssumption ==
    EditFields \subseteq {"upstream", "chain", "rotOn", "foOn", "profile"}
ASSUME MaxFailsAssumption == MaxFails \in Nat /\ MaxFails >= 2

VARIABLES
    config,      \* the configuration file
    at,          \* where each actor is
    job,         \* what it is doing
    snap,        \* the configuration it has loaded, then the one it has saved
    fails,       \* FailoverManager._consecutive_failures
    badProbes,   \* history: failed probes since the last good one
    edited,      \* history: the file was PUT after the engine last started
    rotations,   \* history: saves by each thread of rotation since rotation
                 \* was switched off
    met,         \* history: switchovers under way that have met another one,
                 \* or a PUT, since they loaded the file
    tangled      \* history: some have, since one that met none started the proxy

swVars == <<config, at, job, snap, fails, badProbes, edited, rotations>>
vars == <<pmVars, swVars, met, tangled>>

\* The indices matter only modulo the length of their list, see NextIndex.
Config == [ upstream : Upstreams, chain : BOOLEAN, rotOn : BOOLEAN,
            rotIndex : Nat, foOn : BOOLEAN, foIndex : Nat, profile : Profiles ]

NoSnap == <<>>      \* an actor at rest has loaded nothing

Places == {"rest", "wait", "probe", "judge", "load", "save", "stop", "start",
           "after", "edit"}
MaxRotations == 2   \* the history counter stops here

TypeOK ==
    /\ PmTypeOK
    /\ config \in Config
    /\ at \in [Callers -> Places]
    /\ job \in [Callers -> AllJobs \cup {"none", "failover"}]
    /\ snap \in [Callers -> Config \cup {NoSnap}]
    /\ fails \in 0..MaxFails
    /\ badProbes \in 0..MaxFails
    /\ edited \in BOOLEAN
    /\ rotations \in [Rots -> 0..MaxRotations]
    /\ met \subseteq Callers
    /\ tangled \in BOOLEAN

Init ==
    /\ PmInit
    /\ config \in [ upstream : {Primary}, chain : {FALSE}, rotOn : BOOLEAN,
                    rotIndex : {0}, foOn : BOOLEAN, foIndex : {0},
                    profile : {"custom"} ]
    /\ at = [a \in Callers |-> "rest"]
    /\ job = [a \in Callers |-> "none"]
    /\ snap = [a \in Callers |-> NoSnap]
    /\ fails = 0
    /\ badProbes = 0
    /\ edited = FALSE
    /\ rotations = [t \in Rots |-> 0]
    /\ met = {}
    /\ tangled = FALSE

-----------------------------------------------------------------------------
(* Helpers *)

\* apply_profile, as far as it touches the fields modelled here.
ApplyProfile(c) ==
    CASE c.profile = "high" -> [c EXCEPT !.rotOn = TRUE]
      [] c.profile \in {"light", "moderate"} -> [c EXCEPT !.rotOn = FALSE]
      [] OTHER -> c

\* parseOptionalURLChain in the engine: a chain wins over the upstream.
RouteOf(c) == IF c.chain THEN ChainRoute ELSE c.upstream

Want(c) == [addr |-> DefaultAddr, route |-> RouteOf(c)]

\* `index % len(list)`, and index + 1 up to that remainder.
Entry(list, index) == list[(index % Len(list)) + 1]
NextIndex(list, index) == (index + 1) % Len(list)

\* rotate_once falls back to the current upstream if the pool is empty.
PoolOf(c) == IF Pool = <<>> THEN <<c.upstream>> ELSE Pool

Move(a, place) == at' = [at EXCEPT ![a] = place]
Bump(n) == IF n < MaxFails THEN n + 1 ELSE n

\* a returns: a thread to the top of its loop, a request to its caller.
Rest(a) ==
    /\ Move(a, "rest")
    /\ job' = [job EXCEPT ![a] = "none"]
    /\ snap' = [snap EXCEPT ![a] = NoSnap]

\* a loads the file for a switchover and goes on if the file allows it.
LoadIf(a, what, allowed) ==
    IF allowed
    THEN /\ snap' = [snap EXCEPT ![a] = config]
         /\ job' = [job EXCEPT ![a] = what]
         /\ Move(a, "save")
    ELSE Rest(a)

\* A request of the UI arrives, if this run has such requests.
Request(a, what) == a \in Users /\ what \in Jobs /\ at[a] = "rest"

Begin(a, what, place) ==
    /\ job' = [job EXCEPT ![a] = what]
    /\ Move(a, place)

Save(a, new) ==
    /\ config' = new
    /\ rotations' = [t \in Rots |->
                       IF new.rotOn THEN 0
                       ELSE IF t = a /\ rotations[t] < MaxRotations
                            THEN rotations[t] + 1 ELSE rotations[t]]

-----------------------------------------------------------------------------
(* RotationManager *)

\* _run finds rotation enabled and waits for the interval.
\* Variant with a bug: the thread does not look at the setting.
RotArmAlways(t) ==
    /\ at[t] = "rest"
    /\ Begin(t, "rotate", "wait")
    /\ UNCHANGED <<config, snap, fails, badProbes, edited, rotations, pmVars>>

RotArm(t) ==
    /\ config.rotOn
    /\ at[t] = "rest"
    /\ Begin(t, "rotate", "wait")
    /\ UNCHANGED <<config, snap, fails, badProbes, edited, rotations, pmVars>>

\* rotate_once: in the thread when the interval is over, whatever the file says
\* by now, and for POST /proxy/rotation/rotate.
RotateLoad(a) ==
    /\ (a \in Rots /\ at[a] = "wait") \/ Request(a, "rotate")
    /\ LoadIf(a, "rotate", ~config.chain /\ PoolOf(config)[1] # Direct)
    /\ UNCHANGED <<config, fails, badProbes, edited, rotations, pmVars>>

\* Variant with a bug: the engine is started with the configuration loaded, not
\* with the one saved.
RotateSaveStartsOld(a) ==
    /\ at[a] = "save" /\ job[a] = "rotate"
    /\ LET pool == PoolOf(snap[a])
       IN  Save(a, ApplyProfile([snap[a] EXCEPT
                      !.upstream = Entry(pool, snap[a].rotIndex),
                      !.rotIndex = NextIndex(pool, @)]))
    /\ Move(a, "stop")
    /\ UNCHANGED <<job, snap, fails, badProbes, edited, pmVars>>

RotateSave(a) ==
    /\ at[a] = "save" /\ job[a] = "rotate"
    /\ LET pool == PoolOf(snap[a])
       IN  Save(a, ApplyProfile([snap[a] EXCEPT
                      !.upstream = Entry(pool, snap[a].rotIndex),
                      !.rotIndex = NextIndex(pool, @)]))
    /\ snap' = [snap EXCEPT ![a] = config']
    /\ Move(a, "stop")
    /\ UNCHANGED <<job, fails, badProbes, edited, pmVars>>

-----------------------------------------------------------------------------
(* FailoverManager *)

\* Top of _run: the file is loaded for this round; nothing happens if failover
\* is off.
FoCheck(t) ==
    /\ config.foOn
    /\ at[t] = "rest"
    /\ Begin(t, "failover", "probe")
    /\ snap' = [snap EXCEPT ![t] = config]
    /\ UNCHANGED <<config, fails, badProbes, edited, rotations, pmVars>>

\* A CONNECT through the local proxy gets its 200.
Reachable ==
    \E s \in Servers :
        /\ state[s] = "serving"
        /\ conf[s].addr = DefaultAddr
        /\ conf[s].route \in Alive

\* _probe reports success without a probe under rotation and with a chain.
Skipped(c) == c.rotOn \/ c.chain

ProbeGood(t) ==
    /\ at[t] = "probe"
    /\ Skipped(snap[t]) \/ Reachable
    /\ fails' = 0
    /\ badProbes' = 0
    /\ Rest(t)
    /\ UNCHANGED <<config, edited, rotations, pmVars>>

ProbeBad(t) ==
    /\ at[t] = "probe"
    /\ ~Skipped(snap[t])
    /\ Flaky \/ ~Reachable
    /\ fails' = Bump(fails)
    /\ badProbes' = Bump(badProbes)
    /\ Move(t, "judge")
    /\ UNCHANGED <<config, job, snap, edited, rotations, pmVars>>

\* Variant with a bug: one failed probe is enough.
JudgeAtOnce(t) ==
    /\ at[t] = "judge"
    /\ IF fails >= 1 THEN Move(t, "load") /\ UNCHANGED <<job, snap>> ELSE Rest(t)
    /\ UNCHANGED <<config, fails, badProbes, edited, rotations, pmVars>>

\* The count is read again without the lock: a trigger may have reset it.
Judge(t) ==
    /\ at[t] = "judge"
    /\ IF fails >= 2 THEN Move(t, "load") /\ UNCHANGED <<job, snap>> ELSE Rest(t)
    /\ UNCHANGED <<config, fails, badProbes, edited, rotations, pmVars>>

\* _failover_once, and POST /proxy/failover/trigger, which forces it: blocked by
\* rotation or a chain unless forced; it needs a backup.
FailoverLoad(a) ==
    /\ \/ /\ a \in Fos /\ at[a] = "load"
          /\ LoadIf(a, "failover", ~Skipped(config) /\ Backups # <<>>)
       \/ /\ Request(a, "force")
          /\ LoadIf(a, "force", Backups # <<>>)
    /\ UNCHANGED <<config, fails, badProbes, edited, rotations, pmVars>>

\* Variant with a bug: the index does not advance.
FailoverSaveStays(a) ==
    /\ at[a] = "save" /\ job[a] \in {"failover", "force"}
    /\ Save(a, ApplyProfile([snap[a] EXCEPT
                  !.upstream = Entry(Backups, snap[a].foIndex)]))
    /\ snap' = [snap EXCEPT ![a] = config']
    /\ Move(a, "stop")
    /\ UNCHANGED <<job, fails, badProbes, edited, pmVars>>

FailoverSave(a) ==
    /\ at[a] = "save" /\ job[a] \in {"failover", "force"}
    /\ Save(a, ApplyProfile([snap[a] EXCEPT
                  !.upstream = Entry(Backups, snap[a].foIndex),
                  !.foIndex = NextIndex(Backups, @)]))
    /\ snap' = [snap EXCEPT ![a] = config']
    /\ Move(a, "stop")
    /\ UNCHANGED <<job, fails, badProbes, edited, pmVars>>

-----------------------------------------------------------------------------
(* The other requests of the UI *)

\* POST /engine/proxy/start
UserStart(a) ==
    /\ Request(a, "start") /\ Begin(a, "start", "start")
    /\ snap' = [snap EXCEPT ![a] = config]
    /\ UNCHANGED <<config, fails, badProbes, edited, rotations, pmVars>>

\* POST /engine/proxy/stop
UserStop(a) ==
    /\ Request(a, "stop") /\ Begin(a, "stop", "stop")
    /\ UNCHANGED <<config, snap, fails, badProbes, edited, rotations, pmVars>>

\* GET /config, on which the UI bases its draft
UserGet(a) ==
    /\ Request(a, "put") /\ Begin(a, "put", "edit")
    /\ snap' = [snap EXCEPT ![a] = config]
    /\ UNCHANGED <<config, fails, badProbes, edited, rotations, pmVars>>

Values(field) ==
    CASE field = "upstream" -> Upstreams
      [] field = "profile" -> Profiles
      [] OTHER -> BOOLEAN

\* PUT /config: the draft replaces the whole file.
UserPut(a) ==
    /\ at[a] = "edit"
    /\ \E field \in EditFields : \E value \in Values(field) :
          Save(a, ApplyProfile([snap[a] EXCEPT ![field] = value]))
    /\ edited' = TRUE
    /\ Rest(a)
    /\ UNCHANGED <<fails, badProbes, pmVars>>

-----------------------------------------------------------------------------
(* The calls to the engine, shared by all of the above *)

\* client.proxy_stop(): its outcome is ignored by rotation and failover.
CallStop(a) ==
    /\ at[a] = "stop"
    /\ StopTake(a)
    /\ Move(a, IF job[a] = "stop" THEN "after" ELSE "start")
    /\ UNCHANGED <<config, job, snap, fails, badProbes, edited, rotations>>

\* client.proxy_start(...), once the Stop has returned.
CallStart(a) ==
    /\ at[a] = "start"
    /\ Start(a, Want(snap[a]))
    /\ edited' = (edited /\ answer'[a] # "ok")
    /\ Move(a, "after")
    /\ UNCHANGED <<config, job, snap, fails, badProbes, rotations>>

\* Variant with a bug: the count is decremented, not reset.
FinishedDecrements(a) ==
    /\ at[a] = "after" /\ pc[a] = "idle"
    /\ fails' = IF job[a] \in {"failover", "force"} /\ answer[a] = "ok"
                THEN fails - 1 ELSE fails
    /\ answer' = [answer EXCEPT ![a] = "none"]
    /\ Rest(a)
    /\ UNCHANGED <<config, badProbes, edited, rotations, server, cfg, conf, state,
                   shut, drained, pc, victim, conn>>

\* The engine's answer arrives: a failover that succeeded clears the count.
Finished(a) ==
    /\ at[a] = "after" /\ pc[a] = "idle"
    /\ fails' = IF job[a] \in {"failover", "force"} /\ answer[a] = "ok"
                THEN 0 ELSE fails
    /\ answer' = [answer EXCEPT ![a] = "none"]
    /\ Rest(a)
    /\ UNCHANGED <<config, badProbes, edited, rotations, server, cfg, conf, state,
                   shut, drained, pc, victim, conn>>

-----------------------------------------------------------------------------

SwitchSteps(a) ==
    \/ RotateLoad(a) \/ RotateSave(a)
    \/ FailoverLoad(a) \/ FailoverSave(a)
    \/ CallStop(a) \/ CallStart(a) \/ Finished(a)

RotSteps(t) == RotArm(t) \/ SwitchSteps(t)
FoSteps(t) ==
    FoCheck(t) \/ ProbeGood(t) \/ ProbeBad(t) \/ Judge(t) \/ SwitchSteps(t)

EditSteps(a) == UserGet(a) \/ UserPut(a)
UserSteps(a) == UserStart(a) \/ UserStop(a) \/ SwitchSteps(a)

Engine == EngineSteps /\ UNCHANGED swVars

\* A switchover is under way from the load of the file to the engine's answer.
Switching(a) == at[a] \in {"save", "stop", "start", "after"}
Busy == {a \in Callers : Switching(a)}

\* Two switchovers are under way now, or a PUT has fallen into one.
Collision ==
    \/ \E a, b \in Busy' : a # b
    \/ Busy' # {} /\ \E a \in Callers : at[a] = "edit" /\ at'[a] # "edit"

\* What the two history variables remember of a step.
Watch ==
    /\ met' = IF Collision THEN Busy' ELSE met \cap Busy'
    /\ tangled' = \/ Collision
                  \/ tangled /\ ~(server = None /\ server' # None /\ met = {})

\* Everything but the requests that edit the file.
QuietNext ==
    /\ \/ \E t \in Rots : RotSteps(t)
       \/ \E t \in Fos : FoSteps(t)
       \/ \E a \in Users : UserSteps(a)
       \/ Engine
    /\ Watch

EditNext == (\E a \in Users : EditSteps(a)) /\ Watch

Next == QuietNext \/ EditNext

Spec == Init /\ [][Next]_vars

\* Threads are scheduled, requests run to their end, and the engine's own steps
\* are as fair as in ProxyManager.  Beyond that, Stop does not overtake the new
\* server's goroutine every single time, for none of the upstreams: at least 5
\* seconds, the failover interval, lie between a Start and the next Stop of the
\* failover thread.
ServesInTime(r) ==
    \E s \in Servers : ServeEnters(s) /\ ~shut[s] /\ conf[s].route = r

Fairness ==
    /\ \A t \in Rots : WF_vars(RotSteps(t) /\ Watch)
    /\ \A t \in Fos : WF_vars(FoSteps(t) /\ Watch)
    /\ \A a \in Users : WF_vars(at[a] # "rest" /\ SwitchSteps(a) /\ Watch)
    /\ \A a \in Callers : WF_vars(StopSteps(a) /\ UNCHANGED swVars /\ Watch)
    /\ \A s \in Servers : WF_vars(ServeEnters(s) /\ UNCHANGED swVars /\ Watch)
    /\ \A r \in Routes : SF_vars(ServesInTime(r) /\ UNCHANGED swVars /\ Watch)

\* What Recovers is about comes after the last edit of the file, so there are
\* none here; each of rotation and failover is on or off from the start.
FairSpec == Init /\ [][QuietNext]_vars /\ Fairness

\* No two switchovers overlap, and no PUT falls into one.
OneSwitchAtATime ==
    /\ \A a, b \in Busy : a = b
    /\ Busy # {} => \A a \in Callers : at[a] # "edit"

SerialSpec == Init /\ [][Next /\ OneSwitchAtATime']_vars

-----------------------------------------------------------------------------
(* Properties *)

\* A thread of failover decides to act only if at least two probes have failed
\* with no good one in between, whichever thread made them, also when a trigger
\* resets the count meanwhile.
TwoFailedProbes ==
    [][\A t \in Fos : at[t] = "judge" /\ at'[t] = "load" => badProbes >= 2]_vars

\* Once rotation has been switched off in the file, each thread that was already
\* waiting for its interval rotates once more, never twice.
OneLateRotation == \A t \in Rots : rotations[t] <= 1

\* At rest a proxy that runs has the upstream the file names, unless the file
\* was edited since: what rotation and failover report as the current upstream
\* is what carries the traffic.  Switchovers that overlap break this, and lose
\* each other's saves; the next one that meets no other and starts the proxy
\* makes it true again, whatever they left behind.
EngineFollowsFile ==
    Busy = {} /\ server # None /\ ~edited /\ ~tangled
        => cfg.route = RouteOf(config)

\* A forced failover ends with the proxy running, as the release checklist in
\* the README demands.  False.
TriggerLeavesProxyRunning ==
    [][\A a \in Users :
          job[a] = "force" /\ at[a] = "after" /\ Finished(a) => server # None]_vars

\* With failover on, rotation and chain off and no request of the UI in the
\* way, the proxy comes back to a working upstream again and again, whichever
\* way it went down, provided one of the backups works.
Undisturbed ==
    /\ config.foOn /\ ~Skipped(config)
    /\ \A a \in Users : at[a] = "rest"

Recovers == <>[]Undisturbed => []<>Reachable
=============================================================================
