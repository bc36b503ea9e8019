-------------------------- MODULE ProxyManagerProofs --------------------------
(***************************************************************************)
(* Proofs about ProxyManager, for any number of requests, servers,          *)
(* connections, addresses and upstreams.                                    *)
(***************************************************************************)
EXTENDS ProxyManager, TLAPS

\* A want that names no address gets the default one.
LEMMA EffectiveConfig ==
  ASSUME NEW want \in Requested, want.route # BadRoute
  PROVE  Effective(want) \in Configs
  BY AddrAssumption DEF Requested, Configs, Effective

\* Every step keeps the variables in their types.
LEMMA PmTypeStep == PmTypeOK /\ [PmNext]_pmVars => PmTypeOK'
<1> SUFFICES ASSUME PmTypeOK, [PmNext]_pmVars PROVE PmTypeOK'
  OBVIOUS
<1> USE DEF PmTypeOK, States, Labels, Answers
<1>1. ASSUME NEW c \in Callers, NEW want \in Requested, Start(c, want)
      PROVE  PmTypeOK'
  <2>1. CASE StartRefused(c, want)
    BY <2>1 DEF StartRefused, Answered
  <2>2. CASE StartListenFails(c, want)
    BY <2>2 DEF StartListenFails, Answered
  <2>3. CASE StartListens(c, want)
    BY <2>3, EffectiveConfig DEF StartListens, Answered
  <2> QED BY <1>1, <2>1, <2>2, <2>3 DEF Start
<1>2. ASSUME NEW c \in Callers, StopTake(c) PROVE PmTypeOK'
  BY <1>2 DEF StopTake, Answered
<1>3. ASSUME NEW c \in Callers, StopSteps(c) PROVE PmTypeOK'
  <2>1. CASE StopClose(c)
    BY <2>1 DEF StopClose
  <2>2. CASE StopDrained(c)
    BY <2>2 DEF StopDrained, StopReturn, Answered
  <2>3. CASE StopTimesOut(c)
    BY <2>3 DEF StopTimesOut, StopReturn, Answered
  <2> QED BY <1>3, <2>1, <2>2, <2>3 DEF StopSteps
<1>4. ASSUME NEW s \in Servers, ServeEnters(s) \/ ServeFails(s) PROVE PmTypeOK'
  BY <1>4 DEF ServeEnters, ServeFails
<1>5. ASSUME NEW k \in Conns, NEW s \in Servers, Accept(k, s) PROVE PmTypeOK'
  <2>1. PICK kind \in {"http", "dial"} :
            conn' = [conn EXCEPT ![k] = [kind |-> kind, on |-> s]]
    BY <1>5 DEF Accept
  <2>2. [kind |-> kind, on |-> s] \in [kind : Kinds, on : Servers]
    BY DEF Kinds
  <2>3. conn' \in [Conns -> [kind : Kinds, on : Servers] \cup {NoConn}]
    BY <2>1, <2>2
  <2> QED
    BY <1>5, <2>3 DEF Accept
<1>6. ASSUME NEW k \in Conns, Hijack(k) PROVE PmTypeOK'
  <2>1. conn[k].kind = "dial" /\ conn' = [conn EXCEPT ![k].kind = "tunnel"]
    BY <1>6 DEF Hijack
  <2>2. conn[k] # NoConn
    <3>1. NoConn.kind = "none"
      BY DEF NoConn
    <3> QED
      BY <2>1, <3>1
  <2>3. conn[k] \in [kind : Kinds, on : Servers]
    BY <2>2
  <2>4. [conn[k] EXCEPT !.kind = "tunnel"] \in [kind : Kinds, on : Servers]
    BY <2>3 DEF Kinds
  <2> DEFINE tunnel == [conn[k] EXCEPT !.kind = "tunnel"]
  <2> HIDE DEF tunnel
  <2>5. conn' = [conn EXCEPT ![k] = tunnel]
    BY <2>1 DEF tunnel
  <2>6. tunnel \in [kind : Kinds, on : Servers]
    BY <2>4 DEF tunnel
  <2>7. conn' \in [Conns -> [kind : Kinds, on : Servers] \cup {NoConn}]
    BY <2>5, <2>6
  <2> QED
    BY <1>6, <2>7 DEF Hijack
<1>7. ASSUME NEW k \in Conns, Finish(k) PROVE PmTypeOK'
  BY <1>7 DEF Finish
<1>8. CASE UNCHANGED pmVars
  BY <1>8 DEF pmVars
<1> QED
  BY <1>1, <1>2, <1>3, <1>4, <1>5, <1>6, <1>7, <1>8 DEF PmNext, EngineSteps

-----------------------------------------------------------------------------
(* The inductive invariant *)

\* Exactly the requests inside Stop have a victim, each its own, and never the
\* server the manager still holds.
VictimInv ==
    /\ \A c \in Callers :
          /\ pc[c] = "idle" <=> victim[c] = None
          /\ victim[c] # None => victim[c] # server
    /\ \A c, d \in Callers : victim[c] = victim[d] /\ victim[c] # None => c = d

\* inServing and inShutdown exclude each other, and Shutdown's wait begins after
\* inShutdown is set.
ShutInv ==
    /\ \A s \in Servers : shut[s] => state[s] # "serving"
    /\ \A s \in Servers : drained[s] => shut[s]
    /\ \A c \in Callers : pc[c] = "drain" => shut[victim[c]]

\* Two servers never compete for an address, counting the manager's own server
\* even when its listener has failed.
PortInv ==
    \A s, t \in Servers :
        Holds(s) /\ conf[s].addr = conf[t].addr /\ (Holds(t) \/ server = t)
          => s = t

PmInv ==
    /\ VictimInv
    /\ ShutInv
    /\ PortInv
    /\ StatusTruthful
    /\ NoStrayListener
    /\ DrainedStaysDrained

\* Start keeps the invariant: a new server takes a place nothing refers to and
\* an address nobody holds.
LEMMA StartStep ==
  ASSUME PmTypeOK, PmInv, NEW c \in Callers, NEW want \in Requested,
         Start(c, want)
  PROVE  PmInv'
<1> USE NoneAssumption DEF PmTypeOK, PmInv
<1>1. CASE StartRefused(c, want) \/ StartListenFails(c, want)
  <2>1. UNCHANGED <<server, cfg, conf, state, shut, drained, pc, victim, conn>>
    BY <1>1 DEF StartRefused, StartListenFails
  <2>2. VictimInv' /\ ShutInv' /\ PortInv' /\ StatusTruthful'
    BY <2>1 DEF VictimInv, ShutInv, PortInv, StatusTruthful, Holds
  <2>3. NoStrayListener' /\ DrainedStaysDrained'
    BY <2>1 DEF NoStrayListener, DrainedStaysDrained, Holds, Active
  <2> QED
    BY <2>2, <2>3
<1>2. CASE StartListens(c, want)
  <2>1. PICK s \in Servers :
            /\ Garbage(s)
            /\ server' = s
            /\ cfg' = Effective(want)
            /\ conf' = [conf EXCEPT ![s] = Effective(want)]
            /\ state' = [state EXCEPT ![s] = "bound"]
            /\ shut' = [shut EXCEPT ![s] = FALSE]
            /\ drained' = [drained EXCEPT ![s] = FALSE]
    BY <1>2 DEF StartListens
  <2>2. UNCHANGED <<pc, victim, conn>> /\ server = None
    BY <1>2 DEF StartListens
  <2>3. ~InUse(Effective(want).addr)
    BY <1>2 DEF StartListens
  <2>4. VictimInv'
    BY <2>1, <2>2 DEF VictimInv, Garbage
  <2>5. ShutInv'
    BY <2>1, <2>2 DEF ShutInv, VictimInv, Garbage, Labels
  <2>6. PortInv'
    BY <2>1, <2>2, <2>3 DEF PortInv, InUse, Holds
  <2>7. StatusTruthful'
    BY <2>1 DEF StatusTruthful
  <2>8. NoStrayListener'
    BY <2>1, <2>2 DEF NoStrayListener, Holds, Garbage
  <2>9. DrainedStaysDrained'
    BY <2>1, <2>2 DEF DrainedStaysDrained, Active
  <2> QED
    BY <2>4, <2>5, <2>6, <2>7, <2>8, <2>9
<1> QED
  BY <1>1, <1>2 DEF Start

\* Stop keeps the invariant: the server it takes is its own victim until the
\* listener is closed or marked.
LEMMA StopStep ==
  ASSUME PmTypeOK, PmInv, NEW c \in Callers, StopTake(c) \/ StopSteps(c)
  PROVE  PmInv'
<1> USE NoneAssumption DEF PmTypeOK, PmInv
<1>1. CASE StopTake(c)
  <2> USE <1>1 DEF StopTake
  <2>1. VictimInv'
    BY DEF VictimInv
  <2>2. ShutInv'
    BY DEF ShutInv, VictimInv
  <2>3. PortInv' /\ StatusTruthful' /\ DrainedStaysDrained'
    BY DEF PortInv, StatusTruthful, DrainedStaysDrained, Holds, Active
  <2>4. NoStrayListener'
    BY DEF NoStrayListener, VictimInv, Holds
  <2> QED
    BY <2>1, <2>2, <2>3, <2>4
<1>2. CASE StopClose(c)
  <2> USE <1>2 DEF StopClose
  <2>0. victim[c] \in Servers /\ victim[c] # server
    BY DEF VictimInv
  <2>1. VictimInv'
    BY DEF VictimInv
  <2>2. ShutInv'
    BY <2>0 DEF ShutInv
  <2>3. PortInv' /\ StatusTruthful' /\ DrainedStaysDrained'
    BY <2>0 DEF PortInv, StatusTruthful, DrainedStaysDrained, Holds, Active
  <2>4. NoStrayListener'
    BY <2>0 DEF NoStrayListener, VictimInv, Holds
  <2> QED
    BY <2>1, <2>2, <2>3, <2>4
<1>3. CASE StopDrained(c) \/ StopTimesOut(c)
  <2> USE <1>3 DEF StopDrained, StopTimesOut, StopReturn
  <2>0. pc[c] = "drain" /\ victim[c] \in Servers
    BY DEF VictimInv
  <2>1. VictimInv'
    BY DEF VictimInv
  <2>2. ShutInv'
    BY <2>0 DEF ShutInv
  <2>3. PortInv' /\ StatusTruthful'
    BY DEF PortInv, StatusTruthful, Holds
  <2>4. DrainedStaysDrained'
    BY <2>0 DEF DrainedStaysDrained, Active
  <2>5. NoStrayListener'
    BY <2>0 DEF NoStrayListener, Holds
  <2> QED
    BY <2>1, <2>2, <2>3, <2>4, <2>5
<1> QED
  BY <1>1, <1>2, <1>3 DEF StopSteps

\* The goroutine that runs Serve keeps the invariant.
LEMMA ServeStep ==
  ASSUME PmTypeOK, PmInv, NEW s \in Servers, ServeEnters(s) \/ ServeFails(s)
  PROVE  PmInv'
<1> USE DEF PmTypeOK, PmInv, ServeEnters, ServeFails
<1>1. VictimInv' /\ ShutInv'
  BY DEF VictimInv, ShutInv
<1>2. PortInv' /\ StatusTruthful' /\ DrainedStaysDrained'
  BY DEF PortInv, StatusTruthful, DrainedStaysDrained, Holds, Active
<1>3. NoStrayListener'
  BY DEF NoStrayListener, Holds
<1> QED
  BY <1>1, <1>2, <1>3

\* The connections keep the invariant: only a serving server gets new ones.
LEMMA ConnStep ==
  ASSUME PmTypeOK, PmInv, NEW k \in Conns,
         Hijack(k) \/ Finish(k) \/ \E s \in Servers : Accept(k, s)
  PROVE  PmInv'
<1> USE DEF PmTypeOK, PmInv
<1>1. UNCHANGED <<server, cfg, conf, state, shut, drained, pc, victim>>
  BY DEF Hijack, Finish, Accept
<1>2. VictimInv' /\ ShutInv' /\ PortInv' /\ StatusTruthful' /\ NoStrayListener'
  BY <1>1 DEF VictimInv, ShutInv, PortInv, StatusTruthful, NoStrayListener, Holds
<1>3. ASSUME NEW s \in Servers, drained[s] PROVE Active(s)' \subseteq Active(s)
  <2>1. ASSUME NEW t \in Servers, Accept(k, t) PROVE Active(s)' \subseteq Active(s)
    <3>1. s # t
      BY <1>3, <2>1 DEF Accept, ShutInv
    <3> QED
      BY <2>1, <3>1 DEF Accept, Active
  <2>2. CASE Hijack(k)
    BY <2>2 DEF Hijack, Active
  <2>3. CASE Finish(k)
    BY <2>3 DEF Finish, Active, NoConn
  <2> QED
    BY <2>1, <2>2, <2>3
<1>4. DrainedStaysDrained'
  BY <1>1, <1>3 DEF DrainedStaysDrained
<1> QED
  BY <1>2, <1>4

\* Every step of Start, Stop, Serve and the connections keeps PmInv.
LEMMA PmInvStep == PmTypeOK /\ PmInv /\ [PmNext]_pmVars => PmInv'
<1> SUFFICES ASSUME PmTypeOK, PmInv, [PmNext]_pmVars PROVE PmInv'
  OBVIOUS
<1>1. CASE UNCHANGED pmVars
  BY <1>1 DEF pmVars, PmInv, VictimInv, ShutInv, PortInv, StatusTruthful,
    NoStrayListener, DrainedStaysDrained, Holds, Active
<1> QED
  BY <1>1, StartStep, StopStep, ServeStep, ConnStep DEF PmNext, EngineSteps

\* Types and PmInv together hold in every reachable state.
LEMMA PmInvariant == PmSpec => [](PmTypeOK /\ PmInv)
<1>1. PmInit => PmTypeOK /\ PmInv
  BY AddrAssumption, RouteAssumption, NoneAssumption
  DEF PmInit, PmTypeOK, PmInv, VictimInv, ShutInv, PortInv, StatusTruthful,
    NoStrayListener, DrainedStaysDrained, Holds, Active, Configs, States,
    Labels, Answers, NoConn
<1> QED
  BY <1>1, PmTypeStep, PmInvStep, PTL DEF PmSpec

-----------------------------------------------------------------------------
(* Theorems *)

\* The variables of the proxy manager always have their types.
THEOREM PmTypeCorrect == PmSpec => []PmTypeOK
  BY PmInvariant, PTL

\* Status describes the server that is running (Manager.Status).
THEOREM StatusTruthfulAlways == PmSpec => []StatusTruthful
  BY PmInvariant, PTL DEF PmInv

\* No interleaving of Start and Stop loses a server that holds its port.
THEOREM NoStrayListenerEver == PmSpec => []NoStrayListener
  BY PmInvariant, PTL DEF PmInv

\* A server whose Shutdown returned relays no request any more.
THEOREM DrainedForGood == PmSpec => []DrainedStaysDrained
  BY PmInvariant, PTL DEF PmInv

\* A new connection to the reported address is relayed as reported.
THEOREM NewConnectionsRouted == PmSpec => RoutedAsReported
<1>1. PmTypeOK /\ PmInv /\ [PmNext]_pmVars =>
        [\A k \in Conns, s \in Servers :
          Accept(k, s) /\ server # None /\ conf[s].addr = cfg.addr
            => s = server]_pmVars
  BY DEF PmInv, PmTypeOK, PortInv, StatusTruthful, Holds, Accept
<1> QED
  BY <1>1, PmInvariant, PTL DEF PmSpec, RoutedAsReported
=============================================================================
