-------------------------- MODULE ConfigStoreProofs --------------------------
(* Proofs about ConfigStore, for every set of threads, versions and files. *)
EXTENDS ConfigStore, TLAPS

\* A thread holds a file exactly while it reads or writes, and a value exactly
\* while it saves.
HoldInv ==
    \A t \in Threads :
        /\ IF at[t] \in {"read", "write"} THEN handle[t] \in Files
                                          ELSE handle[t] = None
        /\ Saving(t) => value[t] \in Versions

NamesDiffer == path # None => path # tmp

\* While no two saves have overlapped there is one writer of the temporary
\* file, and what it has done so far is in that file.
AloneInv ==
    ~clash =>
        /\ \A t, u \in Threads : Saving(t) /\ Saving(u) => t = u
        /\ \A t \in Threads :
              /\ at[t] = "write" => handle[t] = tmp /\ data[tmp] = "empty"
              /\ at[t] = "replace" => tmp # None /\ data[tmp] = value[t]

\* Under the rules of Windows, whoever writes, writes the temporary file; and
\* once all have written it, the file is not empty when it is renamed.
WindowsInv ==
    os = "windows" =>
        /\ \A t \in Threads : at[t] = "write" => handle[t] = tmp
        /\ tmp # None /\ data[tmp] = "empty"
              /\ (\A t \in Threads : at[t] # "write")
              => \A t \in Threads : at[t] # "replace"

StoreInv ==
    /\ TypeOK
    /\ HoldInv
    /\ NamesDiffer
    /\ AloneInv
    /\ WindowsInv
    /\ WholeFile
    /\ NeverSilentDefaults

USE VersionAssumption, StoreAssumption
    DEF StoreInv, TypeOK, HoldInv, NamesDiffer, AloneInv, WindowsInv,
        WholeFile, NeverSilentDefaults, Saving, Move, Contents, Places

-----------------------------------------------------------------------------

LEMMA StoreInitInv == Init => StoreInv
BY DEF Init

LEMMA BeginSaveStep ==
    ASSUME StoreInv, NEW t \in Threads, NEW v \in Versions, at[t] = "rest",
           BeginSave(t, v), UNCHANGED <<os, path, tmp, data, handle>>
    PROVE  StoreInv'
<1> USE DEF BeginSave
<1>1. TypeOK' /\ HoldInv' /\ NamesDiffer'
      OBVIOUS
<1>2. AloneInv'
  <2> SUFFICES ASSUME ~clash'
               PROVE  /\ ~clash
                      /\ \A u \in Threads \ {t} :
                            ~Saving(u) /\ at'[u] = at[u]
                      /\ at'[t] = "open"
      OBVIOUS
  <2> QED OBVIOUS
<1>3. WindowsInv'
  <2>1. /\ at'[t] = "open" /\ at[t] = "rest"
        /\ \A u \in Threads \ {t} : at'[u] = at[u]
        OBVIOUS
  <2> QED BY <2>1
<1>4. WholeFile' /\ NeverSilentDefaults'
      OBVIOUS
<1> QED BY <1>1, <1>2, <1>3, <1>4

\* A step of t that leaves the files alone, and after which t holds none and
\* saves nothing: the end of a load, or a rename that failed.
LEMMA EndStep ==
    ASSUME StoreInv, NEW t \in Threads, Done(t) \/ Raise(t),
           handle' = [handle EXCEPT ![t] = None], at[t] # "write",
           UNCHANGED <<os, path, tmp, data, clash>>
    PROVE  StoreInv'
<1>1. /\ at' \in [Threads -> Places]
      /\ at'[t] \in {"rest", "dead"}
      /\ \A u \in Threads \ {t} : at'[u] = at[u]
      BY DEF Done, Raise
<1>2. value' = [value EXCEPT ![t] = None]
      BY DEF Done, Raise
<1>3. TypeOK' /\ HoldInv' /\ NamesDiffer'
      BY <1>1, <1>2
<1>4. AloneInv' /\ WindowsInv'
      BY <1>1, <1>2
<1>5. WholeFile' /\ NeverSilentDefaults'
      OBVIOUS
<1> QED BY <1>3, <1>4, <1>5

LEMMA LoadStep ==
    ASSUME StoreInv, NEW t \in Threads, Load(t)
    PROVE  StoreInv'
<1> USE DEF Load
<1>1. CASE path = None
      BY <1>1, BeginSaveStep
<1>2. CASE path # None
  <2>1. /\ at'[t] = "read" /\ at[t] = "rest"
        /\ \A u \in Threads \ {t} : at'[u] = at[u] /\ handle'[u] = handle[u]
        BY <1>2
  <2>2. TypeOK' /\ HoldInv' /\ NamesDiffer'
        BY <1>2
  <2>3. AloneInv' /\ WindowsInv'
        BY <1>2, <2>1
  <2>4. WholeFile' /\ NeverSilentDefaults'
        BY <1>2
  <2> QED BY <2>2, <2>3, <2>4
<1> QED BY <1>1, <1>2

LEMMA OpenStep ==
    ASSUME StoreInv, NEW t \in Threads, Open(t)
    PROVE  StoreInv'
<1> USE DEF Open
<1>1. PICK f \in IF tmp = None THEN Free ELSE {tmp} :
         /\ tmp' = f
         /\ data' = [data EXCEPT ![f] = "empty"]
         /\ handle' = [handle EXCEPT ![t] = f]
      OBVIOUS
<1>2. f \in Files /\ f # path /\ (tmp # None => f = tmp)
      BY <1>1 DEF Free
<1>3. /\ at[t] = "open" /\ at'[t] = "write" /\ handle'[t] = f
      /\ \A u \in Threads \ {t} : at'[u] = at[u] /\ handle'[u] = handle[u]
      /\ data'[f] = "empty"
      /\ \A g \in Files \ {f} : data'[g] = data[g]
      BY <1>1, <1>2
<1>4. TypeOK' /\ HoldInv' /\ NamesDiffer'
      BY <1>1, <1>2, <1>3
<1>5. AloneInv'
  <2> SUFFICES ASSUME ~clash
               PROVE  \A u \in Threads \ {t} : ~Saving(u)
      BY <1>1, <1>3
  <2> QED BY <1>3
<1>6. WindowsInv'
      BY <1>1, <1>2, <1>3
<1>7. WholeFile' /\ NeverSilentDefaults'
      BY <1>2, <1>3
<1> QED BY <1>4, <1>5, <1>6, <1>7

LEMMA WriteStep ==
    ASSUME StoreInv, NEW t \in Threads, Write(t)
    PROVE  StoreInv'
<1> USE DEF Write
<1> DEFINE f == handle[t]
<1>1. PICK new \in Over(data[f], value[t]) :
         data' = [data EXCEPT ![f] = new]
      OBVIOUS
<1>2. f \in Files /\ value[t] \in Versions
      OBVIOUS
<1>3. new \in Versions \cup {"torn"} /\ (data[f] = "empty" => new = value[t])
      BY <1>1, <1>2 DEF Over
<1>4. /\ at[t] = "write" /\ at'[t] = "replace" /\ handle'[t] = None
      /\ \A u \in Threads \ {t} : at'[u] = at[u] /\ handle'[u] = handle[u]
      /\ data'[f] = new
      /\ \A g \in Files \ {f} : data'[g] = data[g]
      BY <1>1, <1>2
<1> HIDE DEF f
<1>5. TypeOK' /\ HoldInv' /\ NamesDiffer'
      BY <1>1, <1>2, <1>3, <1>4
<1>6. AloneInv' /\ WholeFile'
  <2> SUFFICES ASSUME ~clash
               PROVE  AloneInv' /\ WholeFile'
      OBVIOUS
  <2>1. f = tmp /\ data[f] = "empty" /\ f # path
        BY <1>2, <1>4 DEF f
  <2>2. \A u \in Threads \ {t} : ~Saving(u)
        BY <1>4
  <2> QED BY <1>2, <1>3, <1>4, <2>1, <2>2
<1>7. WindowsInv' /\ NeverSilentDefaults'
  <2> SUFFICES ASSUME os = "windows"
               PROVE  WindowsInv' /\ NeverSilentDefaults'
      OBVIOUS
  <2>1. f = tmp /\ data'[f] # "empty"
        BY <1>3, <1>4 DEF f
  <2> QED BY <1>2, <1>4, <2>1
<1> QED BY <1>5, <1>6, <1>7

LEMMA ReplaceStep ==
    ASSUME StoreInv, NEW t \in Threads, Replace(t)
    PROVE  StoreInv'
<1> USE DEF Replace
<1>1. CASE ~CanReplace
  <2>1. handle' = [handle EXCEPT ![t] = None]
        BY <1>1
  <2> QED BY <1>1, <2>1, EndStep
<1>2. CASE CanReplace
  <2>1. tmp \in Files /\ path' = tmp /\ tmp' = None
        BY <1>2 DEF CanReplace
  <2>2. /\ at[t] = "replace" /\ at'[t] = "rest"
        /\ \A u \in Threads \ {t} : at'[u] = at[u] /\ value'[u] = value[u]
        BY <1>2 DEF Done
  <2>3. TypeOK' /\ HoldInv' /\ NamesDiffer'
        BY <1>2, <2>1, <2>2 DEF Done
  <2>4. AloneInv' /\ WholeFile'
    <3> SUFFICES ASSUME ~clash
                 PROVE  AloneInv' /\ WholeFile'
        OBVIOUS
    <3>1. data[tmp] \in Versions
          BY <2>2
    <3>2. \A u \in Threads \ {t} : ~Saving(u)
          BY <2>2
    <3> QED BY <2>1, <2>2, <3>1, <3>2
  <2>5. WindowsInv' /\ NeverSilentDefaults'
    <3> SUFFICES ASSUME os = "windows"
                 PROVE  WindowsInv' /\ NeverSilentDefaults'
        OBVIOUS
    <3>1. \A u \in Threads : at[u] # "write"
          BY <1>2, <2>1 DEF CanReplace
    <3>2. data[tmp] # "empty"
          BY <2>1, <2>2, <3>1
    <3> QED BY <2>1, <2>2, <3>1, <3>2
  <2> QED BY <2>3, <2>4, <2>5
<1> QED BY <1>1, <1>2

LEMMA StoreStep == StoreInv /\ [Next]_vars => StoreInv'
<1> SUFFICES ASSUME StoreInv, [Next]_vars
             PROVE  StoreInv'
    OBVIOUS
<1>1. ASSUME NEW t \in Threads, Load(t)
      PROVE  StoreInv'
      BY <1>1, LoadStep
<1>2. ASSUME NEW t \in Threads, Read(t)
      PROVE  StoreInv'
      BY <1>2, EndStep DEF Read
<1>3. ASSUME NEW t \in Threads, SaveSteps(t)
      PROVE  StoreInv'
      BY <1>3, OpenStep, WriteStep, ReplaceStep DEF SaveSteps
<1>4. ASSUME NEW t \in Threads, NEW v \in Versions, Save(t, v)
      PROVE  StoreInv'
      BY <1>4, BeginSaveStep DEF Save
<1>5. CASE Kill
      BY <1>5 DEF Kill
<1>6. CASE UNCHANGED vars
      BY <1>6 DEF vars
<1> QED BY <1>1, <1>2, <1>3, <1>4, <1>5, <1>6 DEF Next

LEMMA StoreInvariant == Spec => []StoreInv
BY StoreInitInv, StoreStep, PTL DEF Spec

-----------------------------------------------------------------------------

\* Every variable keeps its type.
THEOREM StoreTypeCorrect == Spec => []TypeOK
<1>1. StoreInv => TypeOK
      OBVIOUS
<1> QED BY <1>1, StoreInvariant, PTL

\* While no two saves have overlapped, whoever reads kaveh.json at any moment,
\* also after crashes, finds a whole configuration (save and load, store.py).
THEOREM WholeFileAlways == Spec => []WholeFile
<1>1. StoreInv => WholeFile
      OBVIOUS
<1> QED BY <1>1, StoreInvariant, PTL

\* However many saves overlap, under the rules of Windows an empty file is
\* never renamed to kaveh.json, so load does not take one for the defaults.
THEOREM NeverSilentDefaultsAlways == Spec => []NeverSilentDefaults
<1>1. StoreInv => NeverSilentDefaults
      OBVIOUS
<1> QED BY <1>1, StoreInvariant, PTL

\* While no two saves have overlapped, a rename gives kaveh.json the contents
\* that this thread saved.
SaveTakesEffect ==
    [][\A t \in Threads :
          ~clash /\ Replace(t) /\ path' # path => data'[path'] = value[t]]_vars

THEOREM SavesTakeEffect == Spec => SaveTakesEffect
<1>1. ASSUME StoreInv
      PROVE  \A t \in Threads :
                ~clash /\ Replace(t) /\ path' # path => data'[path'] = value[t]
  <2> SUFFICES ASSUME NEW t \in Threads, ~clash, Replace(t), path' # path
               PROVE  data'[path'] = value[t]
      OBVIOUS
  <2>1. at[t] = "replace" /\ path' = tmp /\ data' = data
        BY DEF Replace
  <2> QED BY <1>1, <2>1
<1> QED BY <1>1, StoreInvariant, PTL DEF SaveTakesEffect

-----------------------------------------------------------------------------
(* Saving implements AtomicStore, step by step. *)

\* A thread that saves nothing has no value: a raise, a rename and a kill all
\* take it away.
RestInv == \A t \in Threads : ~Saving(t) => value[t] = None

USE DEF RestInv

LEMMA RestStep == StoreInv /\ RestInv /\ [Next]_vars => RestInv'
<1> SUFFICES ASSUME StoreInv, RestInv, [Next]_vars
             PROVE  RestInv'
    OBVIOUS
<1>1. ASSUME NEW t \in Threads, Load(t)
      PROVE  RestInv'
      BY <1>1 DEF Load, BeginSave
<1>2. ASSUME NEW t \in Threads, Read(t)
      PROVE  RestInv'
      BY <1>2 DEF Read, Done, Raise
<1>3. ASSUME NEW t \in Threads, SaveSteps(t)
      PROVE  RestInv'
      BY <1>3 DEF SaveSteps, Open, Write, Replace, Done, Raise
<1>4. ASSUME NEW t \in Threads, NEW v \in Versions, Save(t, v)
      PROVE  RestInv'
      BY <1>4 DEF Save, BeginSave
<1>5. CASE Kill
      BY <1>5 DEF Kill
<1>6. CASE UNCHANGED vars
      BY <1>6 DEF vars
<1> QED BY <1>1, <1>2, <1>3, <1>4, <1>5, <1>6 DEF Next

LEMMA RestInvariant == Spec => []RestInv
<1>1. Init => RestInv
      BY DEF Init
<1> QED BY <1>1, RestStep, StoreInvariant, PTL DEF Spec

\* A thread has a value exactly while it saves.
LEMMA ValueWhileSaving ==
    ASSUME StoreInv, RestInv, NEW t \in Threads
    PROVE  value[t] # None <=> Saving(t)
OBVIOUS

LEMMA AtomicInit == Init => Atomic!Init
BY DEF Init, Atomic!Init, Atomic!Idle, Stored

\* The beginning of a save is the beginning of an abstract one.
LEMMA AtomicBegin ==
    ASSUME StoreInv, RestInv, NEW t \in Threads, NEW v \in Versions,
           at[t] = "rest", BeginSave(t, v), UNCHANGED <<path, data>>
    PROVE  Atomic!Begin(t, v)
<1>1. \A u \in Threads : value[u] # None <=> Saving(u)
      BY ValueWhileSaving
<1>2. value[t] = None
      BY <1>1
<1>3. clash' = (clash \/ \E u \in Threads \ {t} : value[u] # None)
      BY <1>1 DEF BeginSave
<1>4. value' = [value EXCEPT ![t] = v]
      BY DEF BeginSave
<1> QED BY <1>2, <1>3, <1>4 DEF Atomic!Begin, Stored

\* Truncating the temporary file leaves what is stored.
LEMMA AtomicOpen ==
    ASSUME StoreInv, NEW t \in Threads, Open(t)
    PROVE  UNCHANGED <<Stored, value, clash>>
<1>1. PICK f \in IF tmp = None THEN Free ELSE {tmp} :
         data' = [data EXCEPT ![f] = "empty"]
      BY DEF Open
<1>2. f # path
      BY <1>1 DEF Free
<1>3. UNCHANGED <<path, value, clash>>
      BY DEF Open
<1> QED BY <1>1, <1>2, <1>3 DEF Stored

\* So does writing it, as long as no two saves overlap; after an overlap its
\* writer may still hold what another thread has renamed to kaveh.json.
LEMMA AtomicWrite ==
    ASSUME StoreInv, StoreInv', NEW t \in Threads, Write(t)
    PROVE  Atomic!Garble \/ UNCHANGED <<Stored, value, clash>>
<1>1. PICK new \in Over(data[handle[t]], value[t]) :
         data' = [data EXCEPT ![handle[t]] = new]
      BY DEF Write
<1>2. UNCHANGED <<path, value, clash>> /\ at[t] = "write"
      BY DEF Write
<1>3. CASE path = None \/ handle[t] # path
      BY <1>1, <1>2, <1>3 DEF Stored
<1>4. CASE path # None /\ handle[t] = path
  <2>1. clash
        BY <1>2, <1>4
  <2>2. Stored' \in Contents
        BY <1>2, <1>4 DEF Stored
  <2> QED BY <1>2, <2>1, <2>2 DEF Atomic!Garble
<1> QED BY <1>3, <1>4

\* A rename commits what its thread saves, or raises and abandons it.
LEMMA AtomicReplace ==
    ASSUME StoreInv, RestInv, NEW t \in Threads, Replace(t)
    PROVE  Atomic!Commit(t) \/ Atomic!Abandon(t) \/ Atomic!Garble
<1>1. /\ value[t] # None
      /\ value' = [value EXCEPT ![t] = None]
      /\ UNCHANGED <<data, clash>>
      BY DEF Replace, Done, Raise
<1>2. CASE ~CanReplace
  <2>1. UNCHANGED Stored
        BY <1>1, <1>2 DEF Replace, Stored
  <2> QED BY <1>1, <2>1 DEF Atomic!Abandon
<1>3. CASE CanReplace
  <2>1. tmp # None /\ Stored' = data[tmp] /\ at[t] = "replace"
        BY <1>1, <1>3 DEF CanReplace, Replace, Stored
  <2>2. CASE clash
    <3>1. Stored' \in Contents
          BY <2>1
    <3> QED BY <1>1, <2>2, <3>1 DEF Atomic!Garble
  <2>3. CASE ~clash
    <3>1. Stored' = value[t]
          BY <2>1, <2>3
    <3> QED BY <1>1, <3>1 DEF Atomic!Commit
  <2> QED BY <2>2, <2>3
<1> QED BY <1>2, <1>3

\* Reading leaves the store alone, also when the file is torn.
LEMMA AtomicRead ==
    ASSUME StoreInv, RestInv, NEW t \in Threads, Read(t)
    PROVE  UNCHANGED <<Stored, value, clash>>
<1>1. value' = [value EXCEPT ![t] = None] /\ value[t] = None
      BY DEF Read, Done, Raise
<1>2. value' = value
      BY <1>1
<1> QED BY <1>2 DEF Read, Stored

LEMMA AtomicStep ==
    StoreInv /\ StoreInv' /\ RestInv /\ [Next]_vars
        => [Atomic!Next]_<<Stored, value, clash>>
<1> SUFFICES ASSUME StoreInv, StoreInv', RestInv, [Next]_vars
             PROVE  Atomic!Next \/ UNCHANGED <<Stored, value, clash>>
    OBVIOUS
<1>1. ASSUME NEW t \in Threads, Load(t)
      PROVE  Atomic!Next \/ UNCHANGED <<Stored, value, clash>>
  <2>1. CASE path = None
        BY <1>1, <2>1, AtomicBegin DEF Load, Atomic!Next
  <2>2. CASE path # None
        BY <1>1, <2>2 DEF Load, Stored
  <2> QED BY <2>1, <2>2
<1>2. ASSUME NEW t \in Threads, Read(t)
      PROVE  UNCHANGED <<Stored, value, clash>>
      BY <1>2, AtomicRead
<1>3. ASSUME NEW t \in Threads, SaveSteps(t)
      PROVE  Atomic!Next \/ UNCHANGED <<Stored, value, clash>>
      BY <1>3, AtomicOpen, AtomicWrite, AtomicReplace
         DEF SaveSteps, Atomic!Next
<1>4. ASSUME NEW t \in Threads, NEW v \in Versions, Save(t, v)
      PROVE  Atomic!Next
      BY <1>4, AtomicBegin DEF Save, Atomic!Next
<1>5. CASE Kill
      BY <1>5 DEF Kill, Stored, Atomic!Next, Atomic!Crash, Atomic!Idle
<1>6. CASE UNCHANGED vars
      BY <1>6 DEF vars, Stored
<1> QED BY <1>1, <1>2, <1>3, <1>4, <1>5, <1>6 DEF Next

\* Saving implements the abstract store: each initial state is one of its, and
\* each step, including renames that fail, kills and everything that
\* overlapping saves do, is one of its steps or changes nothing that it sees.
THEOREM SavesAreAtomic == Spec => AtomicSaves
<1>1. Spec => [][Atomic!Next]_<<Stored, value, clash>>
      BY AtomicStep, StoreInvariant, RestInvariant, PTL DEF Spec
<1> QED BY <1>1, AtomicInit, PTL
        DEF AtomicSaves, Atomic!Spec, Atomic!storeVars, Spec
=============================================================================
