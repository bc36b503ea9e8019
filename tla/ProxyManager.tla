----------------------------- MODULE ProxyManager -----------------------------
(***************************************************************************)
(* The engine's local proxy: Manager.Start, Stop and Status                 *)
(* (engine/proxy/proxy.go), the goroutine that runs Serve, and the          *)
(* connections a server accepts.                                            *)
(*                                                                          *)
(* Start runs under the manager's mutex from its first check to its last    *)
(* assignment, so it is one step.  Stop holds the mutex only while it takes *)
(* the server out of the manager: the server goes on listening until        *)
(* Shutdown closes its listener, and Shutdown knows the listener only once  *)
(* the goroutine started by Start has handed it to Serve.                   *)
(***************************************************************************)
EXTENDS Naturals, FiniteSets

CONSTANTS
    Callers,    \* requests to /proxy/start and /proxy/stop in flight
    Servers,    \* http.Server objects alive at the same time (a bound)
    Conns,      \* client connections open at the same time (a bound)
    Addrs,      \* addresses the proxy can listen on
    DefaultAddr,
    NoAddr,     \* an empty listen_addr, replaced by DefaultAddr
    Routes,     \* where the handler sends traffic: upstreams, chains, directly
    Direct,     \* no upstream and no chain
    BadRoute,   \* an upstream that parseOptionalURLChain refuses
    OtherPrograms, \* whether another program may hold an address
    None

ASSUME AddrAssumption == DefaultAddr \in Addrs /\ NoAddr \notin Addrs
ASSUME RouteAssumption == Direct \in Routes /\ BadRoute \notin Routes
ASSUME NoneAssumption == None \notin Servers
ASSUME OtherProgramsAssumption == OtherPrograms \in BOOLEAN

Configs == [addr : Addrs, route : Routes]
Requested == [addr : Addrs \cup {NoAddr}, route : Routes \cup {BadRoute}]

VARIABLES
    server,     \* Manager.server
    cfg,        \* Manager.cfg: what Status reports while server # nil
    conf,       \* the configuration each http.Server was created with
    state,      \* the listener of each server
    shut,       \* http.Server.inShutdown
    drained,    \* history: Shutdown of this server returned without an error
    pc,         \* where each request is in Stop
    victim,     \* the server a request's Stop took out of the manager
    answer,     \* the last outcome of each request
    conn        \* what each connection does, and on which server

pmVars == <<server, cfg, conf, state, shut, drained, pc, victim, answer, conn>>

\* "free": not created; "bound": listening, Serve not entered yet;
\* "serving": accepting; "closed": the listener is closed.
States == {"free", "bound", "serving", "closed"}
Labels == {"idle", "close", "drain"}
Answers == {"none", "ok", "already running", "bad upstream", "listen failed",
            "timeout"}

\* "http": a plain request being relayed; "dial": CONNECT, dialling upstream;
\* "tunnel": CONNECT, hijacked from the server and piped in both directions.
Kinds == {"http", "dial", "tunnel"}
NoConn == [kind |-> "none", on |-> None]

PmTypeOK ==
    /\ server \in Servers \cup {None}
    /\ cfg \in Configs
    /\ conf \in [Servers -> Configs]
    /\ state \in [Servers -> States]
    /\ shut \in [Servers -> BOOLEAN]
    /\ drained \in [Servers -> BOOLEAN]
    /\ pc \in [Callers -> Labels]
    /\ victim \in [Callers -> Servers \cup {None}]
    /\ answer \in [Callers -> Answers]
    /\ conn \in [Conns -> [kind : Kinds, on : Servers] \cup {NoConn}]

PmInit ==
    /\ server = None
    /\ cfg = [addr |-> DefaultAddr, route |-> Direct]
    /\ conf = [s \in Servers |-> cfg]
    /\ state = [s \in Servers |-> "free"]
    /\ shut = [s \in Servers |-> FALSE]
    /\ drained = [s \in Servers |-> FALSE]
    /\ pc = [c \in Callers |-> "idle"]
    /\ victim = [c \in Callers |-> None]
    /\ answer = [c \in Callers |-> "none"]
    /\ conn = [k \in Conns |-> NoConn]

-----------------------------------------------------------------------------
(* Helpers *)

Holds(s) == state[s] \in {"bound", "serving"}
\* Variant with a bug: the listener is opened with SO_REUSEADDR.
InUseReused(a) == a \notin Addrs

InUse(a) == \E s \in Servers : Holds(s) /\ conf[s].addr = a

\* The connections that Shutdown waits for: a hijacked one is not tracked.
Active(s) == {k \in Conns : conn[k].on = s /\ conn[k].kind \in {"http", "dial"}}

\* Nothing refers to s any more: its place can be taken by a new http.Server.
Garbage(s) ==
    /\ state[s] \in {"free", "closed"}
    /\ server # s
    /\ \A c \in Callers : victim[c] # s
    /\ \A k \in Conns : conn[k].on # s

Effective(want) ==
    IF want.addr = NoAddr THEN [want EXCEPT !.addr = DefaultAddr] ELSE want

Answered(c, text) == answer' = [answer EXCEPT ![c] = text]

-----------------------------------------------------------------------------
(* Manager.Start *)

\* Variant with a bug: the configuration is stored before the checks.
StartRefusedStores(c, want) ==
    /\ pc[c] = "idle"
    /\ server # None /\ Answered(c, "already running")
    /\ cfg' = Effective(want)
    /\ UNCHANGED <<server, conf, state, shut, drained, pc, victim, conn>>

StartRefused(c, want) ==
    /\ pc[c] = "idle"
    /\ \/ server # None /\ Answered(c, "already running")
       \/ server = None /\ want.route = BadRoute /\ Answered(c, "bad upstream")
    /\ UNCHANGED <<server, cfg, conf, state, shut, drained, pc, victim, conn>>

\* The address is taken, by a server that is still closing or by another program.
StartListenFails(c, want) ==
    /\ pc[c] = "idle"
    /\ server = None
    /\ want.route # BadRoute
    /\ InUse(Effective(want).addr) \/ OtherPrograms
    /\ Answered(c, "listen failed")
    /\ UNCHANGED <<server, cfg, conf, state, shut, drained, pc, victim, conn>>

\* Variants with a bug: no check for a running server; the empty address is
\* stored as it came.
StartListensAgain(c, want) ==
    /\ pc[c] = "idle"
    /\ want.route # BadRoute
    /\ ~InUse(Effective(want).addr)
    /\ \E s \in Servers :
          /\ Garbage(s)
          /\ server' = s
          /\ conf' = [conf EXCEPT ![s] = Effective(want)]
          /\ state' = [state EXCEPT ![s] = "bound"]
          /\ shut' = [shut EXCEPT ![s] = FALSE]
          /\ drained' = [drained EXCEPT ![s] = FALSE]
    /\ cfg' = Effective(want)
    /\ Answered(c, "ok")
    /\ UNCHANGED <<pc, victim, conn>>

StartListensRaw(c, want) ==
    /\ pc[c] = "idle"
    /\ server = None
    /\ want.route # BadRoute
    /\ ~InUse(Effective(want).addr)
    /\ \E s \in Servers :
          /\ Garbage(s)
          /\ server' = s
          /\ conf' = [conf EXCEPT ![s] = Effective(want)]
          /\ state' = [state EXCEPT ![s] = "bound"]
          /\ shut' = [shut EXCEPT ![s] = FALSE]
          /\ drained' = [drained EXCEPT ![s] = FALSE]
    /\ cfg' = want
    /\ Answered(c, "ok")
    /\ UNCHANGED <<pc, victim, conn>>

StartListens(c, want) ==
    /\ pc[c] = "idle"
    /\ server = None
    /\ want.route # BadRoute
    /\ ~InUse(Effective(want).addr)
    /\ \E s \in Servers :
          /\ Garbage(s)
          /\ server' = s
          /\ cfg' = Effective(want)
          /\ conf' = [conf EXCEPT ![s] = Effective(want)]
          /\ state' = [state EXCEPT ![s] = "bound"]
          /\ shut' = [shut EXCEPT ![s] = FALSE]
          /\ drained' = [drained EXCEPT ![s] = FALSE]
    /\ Answered(c, "ok")
    /\ UNCHANGED <<pc, victim, conn>>

Start(c, want) ==
    StartRefused(c, want) \/ StartListenFails(c, want) \/ StartListens(c, want)

\* Variant with a bug: a Shutdown that came first is not noticed.
ServeEntersAnyway(s) ==
    /\ state[s] = "bound"
    /\ state' = [state EXCEPT ![s] = "serving"]
    /\ UNCHANGED <<server, cfg, conf, shut, drained, pc, victim, answer, conn>>

\* The goroutine enters Serve; it finds inShutdown set if Stop was faster.
ServeEnters(s) ==
    /\ state[s] = "bound"
    /\ state' = [state EXCEPT ![s] = IF shut[s] THEN "closed" ELSE "serving"]
    /\ UNCHANGED <<server, cfg, conf, shut, drained, pc, victim, answer, conn>>

\* Accept fails for good: Serve closes the listener, the error is only logged
\* and Manager.server stays set.
ServeFails(s) ==
    /\ state[s] = "serving"
    /\ state' = [state EXCEPT ![s] = "closed"]
    /\ UNCHANGED <<server, cfg, conf, shut, drained, pc, victim, answer, conn>>

-----------------------------------------------------------------------------
(* Manager.Stop *)

StopTake(c) ==
    /\ pc[c] = "idle"
    /\ victim' = [victim EXCEPT ![c] = server]
    /\ server' = None
    /\ IF server = None
       THEN Answered(c, "ok") /\ UNCHANGED pc
       ELSE pc' = [pc EXCEPT ![c] = "close"] /\ UNCHANGED answer
    /\ UNCHANGED <<cfg, conf, state, shut, drained, conn>>

\* Variant with a bug: the listener is left open.
StopCloseNothing(c) ==
    /\ pc[c] = "close"
    /\ shut' = [shut EXCEPT ![victim[c]] = TRUE]
    /\ pc' = [pc EXCEPT ![c] = "drain"]
    /\ UNCHANGED <<server, cfg, conf, state, drained, victim, answer, conn>>

\* Shutdown: set inShutdown and close the listeners Serve has registered.
StopClose(c) ==
    /\ pc[c] = "close"
    /\ shut' = [shut EXCEPT ![victim[c]] = TRUE]
    /\ state' = [state EXCEPT ![victim[c]] = IF @ = "serving" THEN "closed" ELSE @]
    /\ pc' = [pc EXCEPT ![c] = "drain"]
    /\ UNCHANGED <<server, cfg, conf, drained, victim, answer, conn>>

StopReturn(c, text) ==
    /\ pc[c] = "drain"
    /\ pc' = [pc EXCEPT ![c] = "idle"]
    /\ victim' = [victim EXCEPT ![c] = None]
    /\ Answered(c, text)
    /\ UNCHANGED <<server, cfg, conf, state, shut, conn>>

StopDrained(c) ==
    /\ pc[c] = "drain" => Active(victim[c]) = {}
    /\ StopReturn(c, "ok")
    /\ drained' = [drained EXCEPT ![victim[c]] = TRUE]

\* The handler's 5 seconds are over while requests are still being relayed.
StopTimesOut(c) ==
    /\ pc[c] = "drain" => Active(victim[c]) # {}
    /\ StopReturn(c, "timeout")
    /\ UNCHANGED drained

-----------------------------------------------------------------------------
(* forwardProxy.ServeHTTP: handleHTTP and handleConnect *)

Accept(k, s) ==
    /\ state[s] = "serving"
    /\ conn[k] = NoConn
    /\ \E kind \in {"http", "dial"} :
          conn' = [conn EXCEPT ![k] = [kind |-> kind, on |-> s]]
    /\ UNCHANGED <<server, cfg, conf, state, shut, drained, pc, victim, answer>>

\* The upstream answered the dial; Hijack takes the connection off the server.
Hijack(k) ==
    /\ conn[k].kind = "dial"
    /\ conn' = [conn EXCEPT ![k].kind = "tunnel"]
    /\ UNCHANGED <<server, cfg, conf, state, shut, drained, pc, victim, answer>>

\* The response is complete, the dial failed, or a side of the tunnel closed.
Finish(k) ==
    /\ conn[k] # NoConn
    /\ conn' = [conn EXCEPT ![k] = NoConn]
    /\ UNCHANGED <<server, cfg, conf, state, shut, drained, pc, victim, answer>>

-----------------------------------------------------------------------------

StopSteps(c) == StopClose(c) \/ StopDrained(c) \/ StopTimesOut(c)

\* Everything the engine does on its own account.
EngineSteps ==
    \/ \E c \in Callers : StopSteps(c)
    \/ \E s \in Servers : ServeEnters(s) \/ ServeFails(s)
    \/ \E k \in Conns : Hijack(k) \/ Finish(k) \/ \E s \in Servers : Accept(k, s)

PmNext ==
    \/ \E c \in Callers : StopTake(c) \/ \E want \in Requested : Start(c, want)
    \/ EngineSteps

PmSpec == PmInit /\ [][PmNext]_pmVars

\* Goroutines are scheduled, and Shutdown returns at its deadline at the latest.
PmFairness ==
    /\ \A c \in Callers : WF_pmVars(StopSteps(c))
    /\ \A s \in Servers : WF_pmVars(ServeEnters(s))

PmFairSpec == PmSpec /\ PmFairness

-----------------------------------------------------------------------------
(* Properties *)

\* What Status reports is the configuration the running server was created
\* with, and that server is not being shut down: a Start that is refused, or
\* fails to listen, changes nothing Status shows.
StatusTruthful ==
    server # None =>
        /\ cfg = conf[server]
        /\ ~shut[server]
        /\ state[server] # "free"

\* A listener is either the manager's, or some Stop is about to close it, or its
\* own goroutine will: no Stop, however it interleaves with others and with
\* Start, loses a server that holds its port.
NoStrayListener ==
    \A s \in Servers : Holds(s) =>
        \/ server = s
        \/ \E c \in Callers : pc[c] = "close" /\ victim[c] = s
        \/ state[s] = "bound" /\ shut[s]

\* A client that connects to the address Status shows is relayed by the server
\* Status describes, never by an earlier one with another upstream that is
\* still on its way out.
RoutedAsReported ==
    [][\A k \in Conns, s \in Servers :
          Accept(k, s) /\ server # None /\ conf[s].addr = cfg.addr
            => s = server]_pmVars

\* Once Shutdown has returned without an error, no request is relayed on that
\* server any more, not even one accepted during the call.
DrainedStaysDrained ==
    \A s \in Servers : drained[s] => Active(s) = {}

\* Stop frees the port in the end, also when it overtakes Serve.
StopFreesPort ==
    \A s \in Servers :
        (\E c \in Callers : pc[c] = "close" /\ victim[c] = s) ~> ~Holds(s)
=============================================================================
