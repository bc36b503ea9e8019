---------------------------- MODULE SwitchoverProofs ----------------------------
(***************************************************************************)
(* Proofs about Switchover, for any lists of upstreams, any number of       *)
(* requests and any upstreams that work.  They rest on those about the      *)
(* engine's proxy in ProxyManagerProofs.                                    *)
(***************************************************************************)
EXTENDS Switchover, ProxyManagerProofs

-----------------------------------------------------------------------------
(* The operators *)

\* An index into a list that is not empty stays one.
LEMMA IndexInRange ==
  ASSUME NEW n \in Nat, NEW k \in Nat, k # 0
  PROVE  n % k \in Nat /\ (n % k) + 1 \in 1..k
  OBVIOUS

\* What rotation and failover take from their lists is an upstream.
LEMMA EntryIsUpstream ==
  ASSUME NEW list \in Seq(Upstreams), list # <<>>, NEW i \in Nat
  PROVE  Entry(list, i) \in Upstreams /\ NextIndex(list, i) \in Nat
<1>1. Len(list) \in Nat /\ Len(list) # 0
  OBVIOUS
<1>2. (i % Len(list)) + 1 \in 1..Len(list) /\ (i + 1) % Len(list) \in Nat
  BY <1>1, IndexInRange
<1> QED
  BY <1>2 DEF Entry, NextIndex

\* The pool, or the current upstream in its place, is never empty.
LEMMA PoolIsUpstreams ==
  ASSUME NEW c \in Config
  PROVE  PoolOf(c) \in Seq(Upstreams) /\ PoolOf(c) # <<>>
  BY ListsAssumption DEF PoolOf, Config

\* A profile changes the switch of rotation at most.
LEMMA ApplyProfileKeeps ==
  ASSUME NEW c \in Config
  PROVE  /\ ApplyProfile(c) \in Config
         /\ RouteOf(ApplyProfile(c)) = RouteOf(c)
<1>1. /\ [c EXCEPT !.rotOn = TRUE] \in Config
      /\ [c EXCEPT !.rotOn = FALSE] \in Config
  BY DEF Config
<1> QED
  BY <1>1 DEF ApplyProfile, Config, RouteOf

\* What the engine is asked for is a request it knows.
LEMMA WantIsRequested ==
  ASSUME NEW c \in Config
  PROVE  Want(c) \in Requested
  BY AddrAssumption, SettingsAssumption
  DEF Want, RouteOf, Requested, Config, Upstreams

-----------------------------------------------------------------------------
(* Types, strengthened by what an actor has loaded *)

SwTypeOK ==
    /\ config \in Config
    /\ at \in [Callers -> Places]
    /\ job \in [Callers -> AllJobs \cup {"none", "failover"}]
    /\ snap \in [Callers -> Config \cup {NoSnap}]
    /\ fails \in 0..MaxFails
    /\ badProbes \in 0..MaxFails
    /\ edited \in BOOLEAN
    /\ rotations \in [Rots -> 0..MaxRotations]

\* Whoever is about to save the file or to start the engine has loaded it, and
\* a failover that saves has a backup to take.
SnapInv ==
    \A a \in Callers :
        /\ at[a] \in {"save", "start", "edit"} => snap[a] \in Config
        /\ at[a] = "stop" /\ job[a] # "stop" => snap[a] \in Config
        /\ at[a] = "start" => job[a] # "stop"
        /\ at[a] = "save" =>
              \/ job[a] = "rotate"
              \/ job[a] \in {"failover", "force"} /\ Backups # <<>>

SwInv == SwTypeOK /\ SnapInv

\* Threads of either kind and requests are all there is, and no two are the same.
LEMMA WhoActs ==
    /\ \A t \in Rots : t \in Callers /\ t \notin Fos
    /\ \A t \in Fos : t \in Callers /\ t \notin Rots
    /\ \A a \in Users : a \in Callers /\ a \notin Rots /\ a \notin Fos
BY ActorsAssumption DEF Users

\* A thread at the top of its loop, or a request that waits to be told, has
\* nothing in hand.
LEMMA RestStep ==
    ASSUME SwInv, NEW a \in Callers, Rest(a),
           UNCHANGED config, fails' \in 0..MaxFails,
           badProbes' \in 0..MaxFails, edited' \in BOOLEAN,
           UNCHANGED rotations
    PROVE  SwInv'
BY DEF SwInv, SwTypeOK, SnapInv, Rest, Move, Places, AllJobs

\* A step that loads the file for a switchover.
LEMMA LoadStep ==
    ASSUME SwInv, NEW a \in Callers, NEW what, NEW allowed \in BOOLEAN,
           \/ what = "rotate"
           \/ what \in {"failover", "force"} /\ (allowed => Backups # <<>>),
           LoadIf(a, what, allowed),
           UNCHANGED <<config, fails, badProbes, edited, rotations>>
    PROVE  SwInv'
<1>1. CASE allowed
  BY <1>1 DEF LoadIf, SwInv, SwTypeOK, SnapInv, Move, Places, AllJobs
<1>2. CASE ~allowed
  <2>1. Rest(a)
    BY <1>2 DEF LoadIf
  <2> QED
    BY <2>1, RestStep DEF SwInv, SwTypeOK
<1> QED
  BY <1>1, <1>2

\* Saving a configuration keeps the file and the history counter in their types.
LEMMA SaveTypes ==
    ASSUME SwTypeOK, NEW a \in Callers, NEW new \in Config, Save(a, new)
    PROVE  /\ config' \in Config /\ config' = new
           /\ rotations' \in [Rots -> 0..MaxRotations]
BY DEF Save, SwTypeOK, MaxRotations

\* What rotate_once saves.
LEMMA RotateSaves ==
    ASSUME SwInv, NEW a \in Callers, RotateSave(a)
    PROVE  \E new \in Config : Save(a, new)
<1> DEFINE pool == PoolOf(snap[a])
           moved == [snap[a] EXCEPT !.upstream = Entry(pool, snap[a].rotIndex),
                                    !.rotIndex = NextIndex(pool, @)]
<1>1. snap[a] \in Config
  BY DEF SwInv, SnapInv, RotateSave
<1>2. snap[a].rotIndex \in Nat
  BY <1>1 DEF Config
<1>3. pool \in Seq(Upstreams) /\ pool # <<>>
  BY <1>1, PoolIsUpstreams
<1>4. /\ Entry(pool, snap[a].rotIndex) \in Upstreams
      /\ NextIndex(pool, snap[a].rotIndex) \in Nat
  BY <1>2, <1>3, EntryIsUpstream
<1>5. moved \in Config
  <2> HIDE DEF pool
  <2> QED BY <1>1, <1>4 DEF Config
<1>6. Save(a, ApplyProfile(moved))
  BY DEF RotateSave
<1> QED
  BY <1>5, <1>6, ApplyProfileKeeps

\* What _failover_once saves.
LEMMA FailoverSaves ==
    ASSUME SwInv, NEW a \in Callers, FailoverSave(a)
    PROVE  \E new \in Config : Save(a, new)
<1> DEFINE moved == [snap[a] EXCEPT
                        !.upstream = Entry(Backups, snap[a].foIndex),
                        !.foIndex = NextIndex(Backups, @)]
<1>1. snap[a] \in Config /\ Backups # <<>>
  BY DEF SwInv, SnapInv, FailoverSave
<1>2. snap[a].foIndex \in Nat
  BY <1>1 DEF Config
<1>3. Backups \in Seq(Upstreams)
  BY ListsAssumption
<1>4. /\ Entry(Backups, snap[a].foIndex) \in Upstreams
      /\ NextIndex(Backups, snap[a].foIndex) \in Nat
  BY <1>1, <1>2, <1>3, EntryIsUpstream
<1>5. moved \in Config
  BY <1>1, <1>4 DEF Config
<1>6. Save(a, ApplyProfile(moved))
  BY DEF FailoverSave
<1> QED
  BY <1>5, <1>6, ApplyProfileKeeps

\* What PUT /config saves.
LEMMA PutSaves ==
    ASSUME SwInv, NEW a \in Callers, UserPut(a)
    PROVE  \E new \in Config : Save(a, new)
<1>1. snap[a] \in Config
  BY DEF SwInv, SnapInv, UserPut
<1>2. PICK field \in EditFields : \E value \in Values(field) :
          Save(a, ApplyProfile([snap[a] EXCEPT ![field] = value]))
  BY DEF UserPut
<1>3. PICK value \in Values(field) :
          Save(a, ApplyProfile([snap[a] EXCEPT ![field] = value]))
  BY <1>2
<1>4. field \in {"upstream", "chain", "rotOn", "foOn", "profile"}
  BY EditFieldsAssumption
<1>5. [snap[a] EXCEPT ![field] = value] \in Config
  <2>1. CASE field = "upstream"
    BY <1>1, <2>1 DEF Config, Values
  <2>2. CASE field = "chain"
    BY <1>1, <2>2 DEF Config, Values
  <2>3. CASE field = "rotOn"
    BY <1>1, <2>3 DEF Config, Values
  <2>4. CASE field = "foOn"
    BY <1>1, <2>4 DEF Config, Values
  <2>5. CASE field = "profile"
    BY <1>1, <2>5 DEF Config, Values
  <2> QED
    BY <1>4, <2>1, <2>2, <2>3, <2>4, <2>5
<1> QED
  BY <1>3, <1>5, ApplyProfileKeeps

\* Rotation keeps SwInv.
LEMMA RotationTypes ==
    ASSUME SwInv, NEW a \in Callers,
           RotArm(a) \/ RotateLoad(a) \/ RotateSave(a)
    PROVE  SwInv'
<1>1. CASE RotArm(a)
  BY <1>1
  DEF RotArm, Begin, Move, SwInv, SwTypeOK, SnapInv, Places, AllJobs
<1>2. CASE RotateLoad(a)
  <2> DEFINE allowed == ~config.chain /\ PoolOf(config)[1] # Direct
  <2>1. LoadIf(a, "rotate", allowed)
    BY <1>2 DEF RotateLoad
  <2>2. UNCHANGED <<config, fails, badProbes, edited, rotations>>
    BY <1>2 DEF RotateLoad
  <2>3. allowed \in BOOLEAN
    OBVIOUS
  <2> HIDE DEF allowed
  <2> QED
    BY <2>1, <2>2, <2>3, LoadStep
<1>3. CASE RotateSave(a)
  <2>1. config' \in Config /\ rotations' \in [Rots -> 0..MaxRotations]
    BY <1>3, RotateSaves, SaveTypes DEF SwInv
  <2> QED
    BY <1>3, <2>1 DEF RotateSave, Move, SwInv, SwTypeOK, SnapInv, Places
<1> QED
  BY <1>1, <1>2, <1>3

\* Failover keeps SwInv.
LEMMA FailoverTypes ==
    ASSUME SwInv, NEW a \in Callers,
           \/ FoCheck(a) \/ ProbeGood(a) \/ ProbeBad(a) \/ Judge(a)
           \/ FailoverLoad(a) \/ FailoverSave(a)
    PROVE  SwInv'
<1> USE WhoActs, MaxFailsAssumption
<1>1. CASE FoCheck(a)
  BY <1>1 DEF FoCheck, Begin, Move, SwInv, SwTypeOK, SnapInv, Places, AllJobs
<1>2. CASE ProbeGood(a)
  BY <1>2, RestStep DEF ProbeGood, SwInv, SwTypeOK
<1>3. CASE ProbeBad(a)
  BY <1>3 DEF ProbeBad, Move, Bump, SwInv, SwTypeOK, SnapInv, Places
<1>4. CASE Judge(a)
  <2>1. CASE fails >= 2
    BY <1>4, <2>1 DEF Judge, Move, SwInv, SwTypeOK, SnapInv, Places
  <2>2. CASE ~(fails >= 2)
    <3>1. Rest(a)
      BY <1>4, <2>2 DEF Judge
    <3> QED
      BY <1>4, <3>1, RestStep DEF Judge, SwInv, SwTypeOK
  <2> QED
    BY <2>1, <2>2
<1>5. CASE FailoverLoad(a)
  <2>0. UNCHANGED <<config, fails, badProbes, edited, rotations>>
    BY <1>5 DEF FailoverLoad
  <2>1. CASE LoadIf(a, "failover", ~Skipped(config) /\ Backups # <<>>)
    <3> DEFINE allowed == ~Skipped(config) /\ Backups # <<>>
    <3>1. allowed \in BOOLEAN /\ (allowed => Backups # <<>>)
      OBVIOUS
    <3>2. LoadIf(a, "failover", allowed)
      BY <2>1
    <3> HIDE DEF allowed
    <3> QED
      BY <2>0, <3>1, <3>2, LoadStep
  <2>2. CASE LoadIf(a, "force", Backups # <<>>)
    <3> DEFINE allowed == Backups # <<>>
    <3>1. allowed \in BOOLEAN /\ (allowed => Backups # <<>>)
      OBVIOUS
    <3>2. LoadIf(a, "force", allowed)
      BY <2>2
    <3> HIDE DEF allowed
    <3> QED
      BY <2>0, <3>1, <3>2, LoadStep
  <2> QED
    BY <1>5, <2>1, <2>2 DEF FailoverLoad
<1>6. CASE FailoverSave(a)
  <2>1. config' \in Config /\ rotations' \in [Rots -> 0..MaxRotations]
    BY <1>6, FailoverSaves, SaveTypes DEF SwInv
  <2> QED
    BY <1>6, <2>1 DEF FailoverSave, Move, SwInv, SwTypeOK, SnapInv, Places
<1> QED
  BY <1>1, <1>2, <1>3, <1>4, <1>5, <1>6

\* The other requests of the UI keep SwInv.
LEMMA UserTypes ==
    ASSUME SwInv, NEW a \in Users,
           UserStart(a) \/ UserStop(a) \/ UserGet(a) \/ UserPut(a)
    PROVE  SwInv'
<1> USE WhoActs
<1>1. CASE UserStart(a)
  BY <1>1 DEF UserStart, Begin, Move, SwInv, SwTypeOK, SnapInv, Places, AllJobs
<1>2. CASE UserStop(a)
  BY <1>2 DEF UserStop, Begin, Move, SwInv, SwTypeOK, SnapInv, Places, AllJobs
<1>3. CASE UserGet(a)
  BY <1>3 DEF UserGet, Begin, Move, SwInv, SwTypeOK, SnapInv, Places, AllJobs
<1>4. CASE UserPut(a)
  <2>1. config' \in Config /\ rotations' \in [Rots -> 0..MaxRotations]
    BY <1>4, PutSaves, SaveTypes DEF SwInv
  <2> QED
    BY <1>4, <2>1
    DEF UserPut, Rest, Move, SwInv, SwTypeOK, SnapInv, Places, AllJobs
<1> QED
  BY <1>1, <1>2, <1>3, <1>4

\* The calls to the engine keep SwInv.
LEMMA CallTypes ==
    ASSUME SwInv, NEW a \in Callers,
           CallStop(a) \/ CallStart(a) \/ Finished(a)
    PROVE  SwInv'
<1> USE MaxFailsAssumption
<1>1. CASE CallStop(a)
  BY <1>1 DEF CallStop, Move, SwInv, SwTypeOK, SnapInv, Places
<1>2. CASE CallStart(a)
  BY <1>2 DEF CallStart, Move, SwInv, SwTypeOK, SnapInv, Places
<1>3. CASE Finished(a)
  <2>1. fails' \in 0..MaxFails
    BY <1>3 DEF Finished, SwInv, SwTypeOK
  <2> QED
    BY <1>3, <2>1, RestStep DEF Finished, SwInv, SwTypeOK
<1> QED
  BY <1>1, <1>2, <1>3

\* Every step is one of these, or one of the engine, which leaves the manager's
\* server and its configuration alone.
LEMMA StepCases ==
    ASSUME [Next]_vars
    PROVE  \/ UNCHANGED <<swVars, server, cfg>>
           \/ \E a \in Rots : RotArm(a)
           \/ \E a \in Callers : RotateLoad(a) \/ RotateSave(a)
           \/ \E a \in Fos :
                 FoCheck(a) \/ ProbeGood(a) \/ ProbeBad(a) \/ Judge(a)
           \/ \E a \in Callers : FailoverLoad(a) \/ FailoverSave(a)
           \/ \E a \in Users :
                 UserStart(a) \/ UserStop(a) \/ UserGet(a) \/ UserPut(a)
           \/ \E a \in Callers : CallStop(a) \/ CallStart(a) \/ Finished(a)
<1> USE WhoActs
<1>1. CASE UNCHANGED vars
  BY <1>1 DEF vars, pmVars
<1>2. CASE Engine
  BY <1>2 DEF Engine, EngineSteps, StopSteps, StopClose, StopDrained,
    StopTimesOut, StopReturn, ServeEnters, ServeFails, Hijack, Finish, Accept
<1>3. CASE \E a \in Rots : RotSteps(a)
  BY <1>3 DEF RotSteps, SwitchSteps
<1>4. CASE \E a \in Fos : FoSteps(a)
  BY <1>4 DEF FoSteps, SwitchSteps
<1>5. CASE \E a \in Users : UserSteps(a)
  BY <1>5 DEF UserSteps, SwitchSteps
<1>6. CASE \E a \in Users : EditSteps(a)
  BY <1>6 DEF EditSteps
<1> QED
  BY <1>1, <1>2, <1>3, <1>4, <1>5, <1>6 DEF Next, QuietNext, EditNext

\* Every step keeps SwInv.
LEMMA SwInvStep ==
    ASSUME SwInv, [Next]_vars
    PROVE  SwInv'
<1>1. CASE UNCHANGED <<swVars, server, cfg>>
  BY <1>1 DEF swVars, SwInv, SwTypeOK, SnapInv
<1> QED
  BY <1>1, WhoActs, StepCases, RotationTypes, FailoverTypes, UserTypes, CallTypes

\* The history of collisions follows every step.
LEMMA Watched ==
    ASSUME [Next]_vars
    PROVE  Watch \/ UNCHANGED vars
BY DEF Next, QuietNext, EditNext

WatchTypeOK == met \subseteq Callers /\ tangled \in BOOLEAN

\* Its types.
LEMMA WatchTypes ==
    ASSUME WatchTypeOK, [Next]_vars
    PROVE  WatchTypeOK'
<1>1. CASE UNCHANGED vars
  BY <1>1 DEF vars, WatchTypeOK
<1>2. CASE Watch
  <2>1. Busy' \subseteq Callers
    BY DEF Busy
  <2>2. met' \subseteq Callers
    BY <1>2, <2>1 DEF Watch, WatchTypeOK
  <2>3. tangled' \in BOOLEAN
    BY <1>2 DEF Watch
  <2> QED
    BY <2>2, <2>3 DEF WatchTypeOK
<1> QED
  BY <1>1, <1>2, Watched

\* The engine sees nothing but its own steps, and answers being read.
LEMMA EngineSees ==
    ASSUME SwInv, [Next]_vars
    PROVE  \/ [PmNext]_pmVars
           \/ \E a \in Callers :
                 /\ answer' = [answer EXCEPT ![a] = "none"]
                 /\ UNCHANGED <<server, cfg, conf, state, shut, drained, pc,
                                victim, conn>>
<1>1. CASE Engine
  BY <1>1 DEF Engine, PmNext
<1>2. CASE UNCHANGED vars
  BY <1>2 DEF vars
<1>3. ASSUME NEW a \in Callers, CallStop(a) PROVE PmNext
  BY <1>3 DEF CallStop, PmNext
<1>4. ASSUME NEW a \in Callers, CallStart(a) PROVE PmNext
  <2>1. snap[a] \in Config
    BY <1>4 DEF CallStart, SwInv, SnapInv
  <2>2. Want(snap[a]) \in Requested
    BY <2>1, WantIsRequested
  <2>3. Start(a, Want(snap[a]))
    BY <1>4 DEF CallStart
  <2> QED
    BY <2>2, <2>3 DEF PmNext
<1>5. ASSUME NEW a \in Callers, Finished(a)
      PROVE  /\ answer' = [answer EXCEPT ![a] = "none"]
             /\ UNCHANGED <<server, cfg, conf, state, shut, drained, pc,
                            victim, conn>>
  BY <1>5 DEF Finished
<1>6. ASSUME NEW a \in Callers,
             \/ RotArm(a) \/ RotateLoad(a) \/ RotateSave(a)
             \/ FoCheck(a) \/ ProbeGood(a) \/ ProbeBad(a) \/ Judge(a)
             \/ FailoverLoad(a) \/ FailoverSave(a)
             \/ UserStart(a) \/ UserStop(a) \/ UserGet(a) \/ UserPut(a)
      PROVE  UNCHANGED pmVars
  BY <1>6 DEF RotArm, RotateLoad, RotateSave, FoCheck, ProbeGood, ProbeBad,
    Judge, FailoverLoad, FailoverSave, UserStart, UserStop, UserGet, UserPut
<1>7. CASE \E a \in Rots : RotSteps(a)
  BY <1>3, <1>4, <1>5, <1>6, <1>7, WhoActs DEF RotSteps, SwitchSteps
<1>8. CASE \E a \in Fos : FoSteps(a)
  BY <1>3, <1>4, <1>5, <1>6, <1>8, WhoActs DEF FoSteps, SwitchSteps
<1>9. CASE \E a \in Users : UserSteps(a)
  BY <1>3, <1>4, <1>5, <1>6, <1>9, WhoActs DEF UserSteps, SwitchSteps
<1>10. CASE \E a \in Users : EditSteps(a)
  BY <1>6, <1>10, WhoActs DEF EditSteps
<1> QED
  BY <1>1, <1>2, <1>7, <1>8, <1>9, <1>10 DEF Next, QuietNext, EditNext

\* Hence what ProxyManagerProofs shows of the engine's proxy holds here too.
LEMMA EngineStep ==
    ASSUME PmTypeOK, PmInv, SwInv, [Next]_vars
    PROVE  PmTypeOK' /\ PmInv'
<1>1. CASE [PmNext]_pmVars
  BY <1>1, PmTypeStep, PmInvStep
<1>2. ASSUME NEW a \in Callers, answer' = [answer EXCEPT ![a] = "none"],
             UNCHANGED <<server, cfg, conf, state, shut, drained, pc, victim,
                         conn>>
      PROVE  PmTypeOK' /\ PmInv'
  BY <1>2 DEF PmTypeOK, Answers, PmInv, VictimInv, ShutInv, PortInv,
    StatusTruthful, NoStrayListener, DrainedStaysDrained, Holds, Active
<1> QED
  BY <1>1, <1>2, EngineSees

\* Types, and the engine's invariant, always hold.
LEMMA SwInvariant == Spec => [](PmTypeOK /\ PmInv /\ SwInv /\ WatchTypeOK)
<1>1. Init => PmTypeOK /\ PmInv
  BY AddrAssumption, RouteAssumption, NoneAssumption
  DEF Init, PmInit, PmTypeOK, PmInv, VictimInv, ShutInv, PortInv,
    StatusTruthful, NoStrayListener, DrainedStaysDrained, Holds, Active,
    Configs, States, Labels, Answers, NoConn
<1>2. Init => SwInv
  <2> SUFFICES ASSUME Init PROVE SwInv
    OBVIOUS
  <2>1. Primary \in Upstreams /\ "custom" \in Profiles /\ 0 \in Nat
    BY SettingsAssumption DEF Upstreams, Profiles
  <2>2. config \in Config
    <3>1. config \in [ upstream : {Primary}, chain : {FALSE}, rotOn : BOOLEAN,
                       rotIndex : {0}, foOn : BOOLEAN, foIndex : {0},
                       profile : {"custom"} ]
      BY DEF Init
    <3> QED
      BY <2>1, <3>1, Zenon DEF Config
  <2>3. SwTypeOK
    <3>1. fails \in 0..MaxFails /\ badProbes \in 0..MaxFails
      BY MaxFailsAssumption DEF Init
    <3>2. rotations \in [Rots -> 0..MaxRotations]
      BY DEF Init, MaxRotations
    <3>3. /\ at \in [Callers -> Places] /\ edited \in BOOLEAN
          /\ job \in [Callers -> AllJobs \cup {"none", "failover"}]
          /\ snap \in [Callers -> Config \cup {NoSnap}]
      BY DEF Init, Places
    <3> QED
      BY <2>2, <3>1, <3>2, <3>3 DEF SwTypeOK
  <2>4. SnapInv
    BY DEF Init, SnapInv
  <2> QED
    BY <2>3, <2>4 DEF SwInv
<1>3. PmTypeOK /\ PmInv /\ SwInv /\ WatchTypeOK /\ [Next]_vars
        => (PmTypeOK /\ PmInv /\ SwInv /\ WatchTypeOK)'
  BY EngineStep, SwInvStep, WatchTypes
<1>4. Init => WatchTypeOK
  BY DEF Init, WatchTypeOK
<1> QED
  BY <1>1, <1>2, <1>3, <1>4, PTL DEF Spec

\* The variables of rotation, failover and the engine's proxy always have their
\* types; in particular no index leaves its list (rotate_once, _failover_once).
THEOREM TypeCorrect == Spec => []TypeOK
<1>1. PmTypeOK /\ PmInv /\ SwInv /\ WatchTypeOK => TypeOK
  BY DEF SwInv, SwTypeOK, WatchTypeOK, TypeOK
<1> QED
  BY <1>1, SwInvariant, PTL

\* Whatever rotation, failover and the UI ask for, and in whatever order, Status
\* describes the server that runs and no Stop loses one (Manager.Start, Stop).
THEOREM EngineTruthfulUnderSwitchovers ==
    Spec => [](StatusTruthful /\ NoStrayListener)
BY SwInvariant, PTL DEF PmInv

-----------------------------------------------------------------------------
(* Failover and the failed probes *)

\* The count of the manager never exceeds the failed probes since the last good
\* one: a failover only takes it back.
FoInv == fails <= badProbes

\* Every step keeps FoInv.
LEMMA FoInvStep ==
    ASSUME SwInv, FoInv, [Next]_vars
    PROVE  FoInv'
<1> USE MaxFailsAssumption DEF SwInv, SwTypeOK, FoInv
<1>1. CASE UNCHANGED <<swVars, server, cfg>>
  BY <1>1 DEF swVars
<1>2. ASSUME NEW a \in Callers,
             \/ RotArm(a) \/ RotateLoad(a) \/ RotateSave(a)
             \/ FailoverLoad(a) \/ FailoverSave(a)
      PROVE  FoInv'
  BY <1>2 DEF RotArm, RotateLoad, RotateSave, FailoverLoad, FailoverSave
<1>3. ASSUME NEW a \in Fos,
             FoCheck(a) \/ ProbeGood(a) \/ ProbeBad(a) \/ Judge(a)
      PROVE  FoInv'
  BY <1>3 DEF FoCheck, ProbeGood, ProbeBad, Judge, Bump
<1>4. ASSUME NEW a \in Users,
             UserStart(a) \/ UserStop(a) \/ UserGet(a) \/ UserPut(a)
      PROVE  FoInv'
  BY <1>4 DEF UserStart, UserStop, UserGet, UserPut
<1>5. ASSUME NEW a \in Callers, CallStop(a) \/ CallStart(a) \/ Finished(a)
      PROVE  FoInv'
  BY <1>5 DEF CallStop, CallStart, Finished
<1> QED
  BY <1>1, <1>2, <1>3, <1>4, <1>5, StepCases, WhoActs

\* Only its own judgement takes a thread of failover from the probe to the
\* switchover.
LEMMA JudgeDecides ==
    ASSUME SwInv, [Next]_vars, NEW t \in Fos, at[t] = "judge", at'[t] = "load"
    PROVE  fails >= 2
<1> USE WhoActs DEF SwInv, SwTypeOK
<1>1. CASE UNCHANGED <<swVars, server, cfg>>
  BY <1>1 DEF swVars
<1>2. ASSUME NEW a \in Callers,
             RotArm(a) \/ RotateLoad(a) \/ RotateSave(a)
      PROVE  fails >= 2
  BY <1>2 DEF RotArm, Begin, RotateLoad, LoadIf, RotateSave, Move, Rest
<1>3. ASSUME NEW a \in Callers, FailoverLoad(a) \/ FailoverSave(a)
      PROVE  fails >= 2
  BY <1>3 DEF FailoverLoad, LoadIf, FailoverSave, Move, Rest
<1>4. ASSUME NEW a \in Fos, FoCheck(a) \/ ProbeGood(a) \/ ProbeBad(a)
      PROVE  fails >= 2
  BY <1>4 DEF FoCheck, Begin, ProbeGood, ProbeBad, Move, Rest
<1>5. ASSUME NEW a \in Fos, Judge(a) PROVE fails >= 2
  BY <1>5 DEF Judge, Move, Rest
<1>6. ASSUME NEW a \in Users,
             UserStart(a) \/ UserStop(a) \/ UserGet(a) \/ UserPut(a)
      PROVE  fails >= 2
  BY <1>6 DEF UserStart, UserStop, UserGet, UserPut, Begin, Move, Rest
<1>7. ASSUME NEW a \in Callers, CallStop(a) \/ CallStart(a) \/ Finished(a)
      PROVE  fails >= 2
  BY <1>7 DEF CallStop, CallStart, Finished, Move, Rest
<1> QED
  BY <1>1, <1>2, <1>3, <1>4, <1>5, <1>6, <1>7, StepCases

\* No thread of failover acts on its own account before two failed probes in a
\* row, whatever forced failovers do to the count meanwhile, and however many
\* threads of earlier starts probe beside it (FailoverManager._run).
THEOREM TwoFailedProbesAlways == Spec => TwoFailedProbes
<1>1. Init => FoInv
  BY DEF Init, FoInv
<1>2. SwInv /\ FoInv /\ [Next]_vars => FoInv'
  BY FoInvStep
<1>3. SwInv /\ FoInv /\ [Next]_vars =>
        [\A t \in Fos : at[t] = "judge" /\ at'[t] = "load"
                          => badProbes >= 2]_vars
  <2> SUFFICES ASSUME SwInv, FoInv, [Next]_vars, NEW t \in Fos,
                      at[t] = "judge", at'[t] = "load"
               PROVE  badProbes >= 2
    OBVIOUS
  <2>1. fails >= 2
    BY JudgeDecides
  <2> QED
    BY <2>1, MaxFailsAssumption DEF SwInv, SwTypeOK, FoInv
<1> QED
  BY <1>1, <1>2, <1>3, SwInvariant, PTL DEF Spec, TwoFailedProbes

-----------------------------------------------------------------------------
(* The late rotations *)

\* Rotation is counted from the save that switches it off, and a thread that has
\* rotated since then is not waiting for another interval.
RotInv ==
    \A t \in Rots :
        /\ config.rotOn => rotations[t] = 0
        /\ rotations[t] # 0 => at[t] \notin {"wait", "save"}
        /\ rotations[t] <= 1

\* Saving keeps the counts right if the thread that saves was about to.
LEMMA SaveCounts ==
    ASSUME SwTypeOK, RotInv, NEW a \in Callers, NEW new \in Config,
           Save(a, new), a \in Rots => at[a] = "save"
    PROVE  \A t \in Rots :
              /\ config'.rotOn => rotations'[t] = 0
              /\ rotations'[t] <= 1
              /\ t # a /\ rotations[t] = 0 => rotations'[t] = 0
BY DEF SwTypeOK, RotInv, Save, MaxRotations

\* A step that moves one actor and leaves the file and the counts alone.
LEMMA CountsKept ==
    ASSUME SwInv, RotInv, NEW a \in Callers, UNCHANGED <<config, rotations>>,
           NEW place \in Places, at' = [at EXCEPT ![a] = place],
           \/ place \notin {"wait", "save"}
           \/ a \notin Rots
           \/ at[a] = "wait"
           \/ config.rotOn
    PROVE  RotInv'
BY DEF SwInv, SwTypeOK, RotInv

\* Every step keeps RotInv.
LEMMA RotInvStep ==
    ASSUME SwInv, RotInv, [Next]_vars
    PROVE  RotInv'
<1> USE WhoActs DEF Places
<1>1. CASE UNCHANGED <<swVars, server, cfg>>
  BY <1>1 DEF swVars, RotInv
<1>2. ASSUME NEW a \in Rots, RotArm(a) PROVE RotInv'
  BY <1>2, CountsKept DEF RotArm, Begin, Move
<1>3. ASSUME NEW a \in Callers, RotateLoad(a) \/ FailoverLoad(a) PROVE RotInv'
  <2>1. \/ at' = [at EXCEPT ![a] = "rest"]
        \/ at' = [at EXCEPT ![a] = "save"] /\ (at[a] = "wait" \/ a \notin Rots)
    BY <1>3 DEF RotateLoad, FailoverLoad, LoadIf, Move, Rest, Request
  <2>2. UNCHANGED <<config, rotations>>
    BY <1>3 DEF RotateLoad, FailoverLoad
  <2> QED
    BY <2>1, <2>2, CountsKept
<1>4. ASSUME NEW a \in Callers, RotateSave(a) \/ FailoverSave(a) PROVE RotInv'
  <2>1. PICK new \in Config : Save(a, new)
    BY <1>4, RotateSaves, FailoverSaves
  <2>2. at[a] = "save" /\ at' = [at EXCEPT ![a] = "stop"]
    BY <1>4 DEF RotateSave, FailoverSave, Move
  <2>3. \A t \in Rots : /\ config'.rotOn => rotations'[t] = 0
                        /\ rotations'[t] <= 1
                        /\ t # a /\ rotations[t] = 0 => rotations'[t] = 0
    BY <2>1, <2>2, SaveCounts DEF SwInv
  <2> QED
    BY <2>2, <2>3 DEF RotInv, SwInv, SwTypeOK
<1>5. ASSUME NEW a \in Fos,
             FoCheck(a) \/ ProbeGood(a) \/ ProbeBad(a) \/ Judge(a)
      PROVE  RotInv'
  <2>1. PICK place \in {"rest", "probe", "judge", "load"} :
            at' = [at EXCEPT ![a] = place]
    BY <1>5 DEF FoCheck, Begin, ProbeGood, ProbeBad, Judge, Move, Rest
  <2>2. UNCHANGED <<config, rotations>>
    BY <1>5 DEF FoCheck, ProbeGood, ProbeBad, Judge
  <2> QED
    BY <2>1, <2>2, CountsKept
<1>6. ASSUME NEW a \in Users, UserStart(a) \/ UserStop(a) \/ UserGet(a)
      PROVE  RotInv'
  BY <1>6, CountsKept DEF UserStart, UserStop, UserGet, Begin, Move
<1>7. ASSUME NEW a \in Users, UserPut(a) PROVE RotInv'
  <2>1. PICK new \in Config : Save(a, new)
    BY <1>7, PutSaves
  <2>2. at' = [at EXCEPT ![a] = "rest"] /\ a \notin Rots
    BY <1>7 DEF UserPut, Rest, Move
  <2>3. \A t \in Rots : /\ config'.rotOn => rotations'[t] = 0
                        /\ rotations'[t] <= 1
                        /\ t # a /\ rotations[t] = 0 => rotations'[t] = 0
    BY <2>1, <2>2, SaveCounts DEF SwInv
  <2> QED
    BY <2>2, <2>3 DEF RotInv, SwInv, SwTypeOK
<1>8. ASSUME NEW a \in Callers, CallStop(a) \/ CallStart(a) \/ Finished(a)
      PROVE  RotInv'
  <2>1. PICK place \in {"after", "start", "rest"} :
            at' = [at EXCEPT ![a] = place]
    BY <1>8 DEF CallStop, CallStart, Finished, Move, Rest
  <2>2. UNCHANGED <<config, rotations>>
    BY <1>8 DEF CallStop, CallStart, Finished
  <2> QED
    BY <2>1, <2>2, CountsKept
<1> QED
  BY <1>1, <1>2, <1>3, <1>4, <1>5, <1>6, <1>7, <1>8, StepCases

\* Each thread that was waiting when rotation was switched off rotates at most
\* once more, for any number of threads of earlier starts and of saves by others
\* (RotationManager._run).
THEOREM OneLateRotationAtMost == Spec => []OneLateRotation
<1>1. Init => RotInv
  BY DEF Init, RotInv
<1>2. SwInv /\ RotInv /\ [Next]_vars => RotInv'
  BY RotInvStep
<1>3. RotInv => OneLateRotation
  BY DEF RotInv, OneLateRotation
<1> QED
  BY <1>1, <1>2, <1>3, SwInvariant, PTL DEF Spec

-----------------------------------------------------------------------------
(* What the engine carries *)

\* The histories are right: switchovers that run beside each other have met, and
\* while one of those is under way things are tangled.
MetInv ==
    /\ met \subseteq Busy
    /\ \A a, d \in Busy : a # d => a \in met
    /\ met # {} => tangled

\* From its load to the engine's answer a switchover that has met nobody is the
\* only one to touch the file and the proxy: what it loaded, and then saved, is
\* what the file says, and once Stop has returned no proxy runs until Start.
LoneSwitchInv ==
    \A a \in Busy \ met :
        /\ at[a] \in {"save", "start"} => snap[a] = config
        /\ at[a] = "stop" /\ job[a] # "stop" => snap[a] = config
        /\ at[a] = "start" => job[a] = "start" \/ server = None

\* Unless things are tangled, the file is ahead of the proxy only between the
\* save of a switchover and its Stop.
AheadInv ==
    ~tangled /\ (\A a \in Callers : at[a] = "stop" => job[a] = "stop")
        => (server # None /\ ~edited => cfg.route = RouteOf(config))

FollowInv == MetInv /\ LoneSwitchInv /\ AheadInv

\* Where two have met, nothing is promised but that it is remembered.
LEMMA CollisionStep ==
    ASSUME Watch, Collision
    PROVE  FollowInv'
<1>1. met' = Busy' /\ tangled'
  BY DEF Watch
<1> QED
  BY <1>1 DEF FollowInv, MetInv, LoneSwitchInv, AheadInv

\* Otherwise one switchover is under way at most, and the histories change only
\* when it ends or, having met nobody, starts the proxy.
LEMMA NoCollisionStep ==
    ASSUME MetInv, WatchTypeOK, Watch, ~Collision
    PROVE  /\ MetInv'
           /\ \A a, d \in Busy' : a = d
           /\ met' = met \cap Busy'
           /\ ~tangled' => met = {}
           /\ ~tangled' => ~tangled \/ (server = None /\ server' # None)
<1>1. \A a, d \in Busy' : a = d
  BY DEF Collision
<1>2. met' = met \cap Busy'
  BY DEF Watch
<1>3. tangled' = (tangled /\ ~(server = None /\ server' # None /\ met = {}))
  BY DEF Watch
<1>4. met # {} => tangled /\ tangled'
  BY <1>3 DEF MetInv
<1>5. MetInv'
  BY <1>1, <1>2, <1>4 DEF MetInv
<1> QED
  BY <1>1, <1>2, <1>3, <1>4, <1>5 DEF WatchTypeOK

\* A step that leaves file and proxy alone, and after which whoever is under way
\* was so before with the same in hand, or has just loaded the file.
LEMMA BystanderStep ==
    ASSUME FollowInv, WatchTypeOK, Watch,
           UNCHANGED <<config, server, cfg, edited>>,
           \A a \in Callers : Switching(a)' =>
              \/ Switching(a) /\ UNCHANGED <<at[a], job[a], snap[a]>>
              \/ at'[a] = "save" /\ snap'[a] = config
              \/ at'[a] = "start" /\ snap'[a] = config /\ job'[a] = "start"
              \/ at'[a] = "stop" /\ job'[a] = "stop",
           \A a \in Callers : at[a] = "stop" => UNCHANGED <<at[a], job[a]>>
    PROVE  FollowInv'
<1>1. CASE Collision
  BY <1>1, CollisionStep
<1>2. CASE ~Collision
  <2>1. /\ MetInv' /\ met' = met \cap Busy' /\ (~tangled' => ~tangled)
    BY <1>2, NoCollisionStep DEF FollowInv
  <2>2. LoneSwitchInv'
    <3> SUFFICES ASSUME NEW a \in Callers, Switching(a)', a \notin met
                 PROVE  /\ at'[a] \in {"save", "start"} => snap'[a] = config
                        /\ at'[a] = "stop" /\ job'[a] # "stop"
                              => snap'[a] = config
                        /\ at'[a] = "start" => job'[a] = "start" \/ server = None
      BY <2>1 DEF LoneSwitchInv, Busy
    <3>1. CASE Switching(a) /\ UNCHANGED <<at[a], job[a], snap[a]>>
      BY <3>1 DEF FollowInv, LoneSwitchInv, Busy
    <3> QED
      BY <3>1
  <2>3. AheadInv'
    BY <2>1 DEF FollowInv, AheadInv, RouteOf
  <2> QED
    BY <2>1, <2>2, <2>3 DEF FollowInv
<1> QED
  BY <1>1, <1>2

\* What rotation and failover do before they save, and what the UI does before it
\* is answered.
LEMMA BystanderSteps ==
    ASSUME SwInv, FollowInv, WatchTypeOK, Watch, NEW a \in Callers,
           \/ RotArm(a) \/ RotateLoad(a) \/ FailoverLoad(a)
           \/ FoCheck(a) \/ ProbeGood(a) \/ ProbeBad(a) \/ Judge(a)
           \/ UserStart(a) \/ UserStop(a) \/ UserGet(a) \/ Finished(a)
    PROVE  FollowInv'
<1> USE DEF SwInv, SwTypeOK, Switching, Move, Rest, Begin, Request, pmVars
<1>1. UNCHANGED <<config, server, cfg, edited>>
  BY DEF RotArm, RotateLoad, FailoverLoad, FoCheck, ProbeGood, ProbeBad, Judge,
    UserStart, UserStop, UserGet, Finished
<1>2. /\ at[a] # "stop"
      /\ \A d \in Callers : d # a => UNCHANGED <<at[d], job[d], snap[d]>>
  BY DEF RotArm, RotateLoad, FailoverLoad, LoadIf, FoCheck, ProbeGood, ProbeBad,
    Judge, UserStart, UserStop, UserGet, Finished
<1>3. Switching(a)' =>
        \/ at'[a] = "save" /\ snap'[a] = config
        \/ at'[a] = "start" /\ snap'[a] = config /\ job'[a] = "start"
        \/ at'[a] = "stop" /\ job'[a] = "stop"
  BY DEF RotArm, RotateLoad, FailoverLoad, LoadIf, FoCheck, ProbeGood, ProbeBad,
    Judge, UserStart, UserStop, UserGet, Finished
<1> QED
  BY <1>1, <1>2, <1>3, BystanderStep

\* A switchover saves.
LEMMA SaveFollows ==
    ASSUME SwInv, FollowInv, WatchTypeOK, Watch, NEW a \in Callers,
           RotateSave(a) \/ FailoverSave(a)
    PROVE  FollowInv'
<1>1. /\ at[a] = "save" /\ at' = [at EXCEPT ![a] = "stop"]
      /\ snap' = [snap EXCEPT ![a] = config'] /\ job' = job
      /\ job[a] # "stop"
  BY DEF RotateSave, FailoverSave, Move
<1>2. CASE Collision
  BY <1>2, CollisionStep
<1>3. CASE ~Collision
  <2>1. MetInv' /\ \A d, e \in Busy' : d = e
    BY <1>3, NoCollisionStep DEF FollowInv
  <2>2. at'[a] = "stop" /\ snap'[a] = config' /\ job'[a] # "stop"
    BY <1>1 DEF SwInv, SwTypeOK
  <2>3. \A d \in Busy' : d = a
    BY <2>1, <2>2 DEF Busy, Switching
  <2>4. LoneSwitchInv' /\ AheadInv'
    BY <2>2, <2>3 DEF LoneSwitchInv, AheadInv
  <2> QED
    BY <2>1, <2>4 DEF FollowInv
<1> QED
  BY <1>2, <1>3

\* The UI saves: into a switchover, which has then met it, or beside none.
LEMMA PutFollows ==
    ASSUME SwInv, FollowInv, WatchTypeOK, Watch, NEW a \in Users, UserPut(a)
    PROVE  FollowInv'
<1>1. a \in Callers /\ at[a] = "edit" /\ at'[a] = "rest" /\ edited' = TRUE
  BY WhoActs DEF UserPut, Rest, Move, SwInv, SwTypeOK
<1>2. CASE Collision
  BY <1>2, CollisionStep
<1>3. CASE ~Collision
  <2>1. MetInv' /\ Busy' = {}
    BY <1>1, <1>3, NoCollisionStep DEF FollowInv, Collision
  <2> QED
    BY <1>1, <2>1 DEF FollowInv, LoneSwitchInv, AheadInv
<1> QED
  BY <1>2, <1>3

\* The proxy is stopped.
LEMMA StopFollows ==
    ASSUME SwInv, FollowInv, WatchTypeOK, Watch, NEW a \in Callers, CallStop(a)
    PROVE  FollowInv'
<1>1. /\ at[a] = "stop"
      /\ at' = [at EXCEPT ![a] = IF job[a] = "stop" THEN "after" ELSE "start"]
      /\ server' = None /\ UNCHANGED <<config, job, snap>>
  BY DEF CallStop, StopTake, Move
<1>2. CASE Collision
  BY <1>2, CollisionStep
<1>3. CASE ~Collision
  <2>1. /\ MetInv' /\ met' = met \cap Busy' /\ \A d, e \in Busy' : d = e
    BY <1>3, NoCollisionStep DEF FollowInv
  <2>2. a \in Busy /\ a \in Busy'
    BY <1>1 DEF Busy, Switching, SwInv, SwTypeOK
  <2>3. Busy' \ met' \subseteq {a} \ met
    BY <2>1, <2>2
  <2>4. a \notin met /\ job[a] # "stop" => snap[a] = config
    BY <1>1, <2>2 DEF FollowInv, LoneSwitchInv
  <2>5. LoneSwitchInv'
    BY <1>1, <2>3, <2>4 DEF LoneSwitchInv, SwInv, SwTypeOK
  <2>6. AheadInv'
    BY <1>1 DEF AheadInv
  <2> QED
    BY <2>1, <2>5, <2>6 DEF FollowInv
<1> QED
  BY <1>2, <1>3

\* The proxy is started, with what the file says if the switchover met nobody.
LEMMA StartFollows ==
    ASSUME PmTypeOK, SwInv, FollowInv, WatchTypeOK, Watch, NEW a \in Callers,
           CallStart(a)
    PROVE  FollowInv'
<1>1. /\ at[a] = "start" /\ at' = [at EXCEPT ![a] = "after"]
      /\ edited' = (edited /\ answer'[a] # "ok")
      /\ UNCHANGED <<config, job, snap>>
      /\ Start(a, Want(snap[a]))
  BY DEF CallStart, Move
<1>2. CASE Collision
  BY <1>2, CollisionStep
<1>3. CASE ~Collision
  <2>1. /\ MetInv' /\ met' = met \cap Busy' /\ \A d, e \in Busy' : d = e
        /\ ~tangled' => met = {}
        /\ ~tangled' => ~tangled \/ (server = None /\ server' # None)
    BY <1>3, NoCollisionStep DEF FollowInv
  <2>2. a \in Busy /\ a \in Busy' /\ at'[a] = "after"
    BY <1>1 DEF Busy, Switching, SwInv, SwTypeOK
  <2>3. LoneSwitchInv'
    BY <2>1, <2>2 DEF LoneSwitchInv
  <2>4. RouteOf(config)' = RouteOf(config)
    BY <1>1 DEF RouteOf
  <2>5. AheadInv'
    <3>1. CASE StartListens(a, Want(snap[a]))
      <4> SUFFICES ASSUME ~tangled' PROVE cfg'.route = RouteOf(config)
        BY <2>4 DEF AheadInv
      <4>1. snap[a] = config
        BY <1>1, <2>1, <2>2 DEF FollowInv, LoneSwitchInv
      <4>2. cfg' = Effective(Want(snap[a]))
        BY <3>1 DEF StartListens
      <4> QED
        BY <4>1, <4>2 DEF Want, Effective
    <3>2. CASE \/ StartRefused(a, Want(snap[a]))
               \/ StartListenFails(a, Want(snap[a]))
      <4>1. UNCHANGED <<server, cfg>> /\ answer'[a] # "ok"
        BY <3>2 DEF StartRefused, StartListenFails, Answered, PmTypeOK
      <4>2. (\A d \in Callers : at'[d] = "stop" => job'[d] = "stop")
              => (\A d \in Callers : at[d] = "stop" => job[d] = "stop")
        BY <1>1 DEF SwInv, SwTypeOK
      <4> QED
        BY <1>1, <2>1, <2>4, <4>1, <4>2 DEF FollowInv, AheadInv
    <3> QED
      BY <1>1, <3>1, <3>2 DEF Start
  <2> QED
    BY <2>1, <2>3, <2>5 DEF FollowInv
<1> QED
  BY <1>2, <1>3

\* Every step keeps FollowInv.
LEMMA FollowStep ==
    ASSUME PmTypeOK, SwInv, WatchTypeOK, FollowInv, [Next]_vars
    PROVE  FollowInv'
<1>1. CASE UNCHANGED vars
  BY <1>1 DEF vars, pmVars, swVars, FollowInv, MetInv, LoneSwitchInv, AheadInv,
    Busy, Switching, RouteOf
<1>2. CASE Watch
  <2>1. CASE UNCHANGED <<swVars, server, cfg>>
    BY <1>2, <2>1, BystanderStep DEF swVars, Switching
  <2> QED
    BY <1>2, <2>1, StepCases, WhoActs, BystanderSteps, SaveFollows, PutFollows,
      StopFollows, StartFollows
<1> QED
  BY <1>1, <1>2, Watched

\* A switchover that meets no other leaves the engine carrying what the file
\* says, whatever switchovers that overlapped have left behind before it: what
\* rotation and failover then report is what carries the traffic (rotate_once,
\* _failover_once).
THEOREM EngineFollowsFileAlways == Spec => []EngineFollowsFile
<1>1. Init => FollowInv
  BY DEF Init, PmInit, FollowInv, MetInv, LoneSwitchInv, AheadInv, Busy,
    Switching
<1>2. PmTypeOK /\ SwInv /\ WatchTypeOK /\ FollowInv /\ [Next]_vars => FollowInv'
  BY FollowStep
<1>3. FollowInv => EngineFollowsFile
  BY DEF FollowInv, AheadInv, EngineFollowsFile, Busy, Switching
<1> QED
  BY <1>1, <1>2, <1>3, SwInvariant, PTL DEF Spec
=============================================================================
