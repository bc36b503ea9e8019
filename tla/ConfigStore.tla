----------------------------- MODULE ConfigStore -----------------------------
(***************************************************************************)
(* The configuration file (core/config/store.py).  Every thread of the core *)
(* loads and saves it without a lock.  save writes the whole file under one *)
(* fixed temporary name and renames that to kaveh.json; load reads          *)
(* kaveh.json and takes an empty file for the default configuration.        *)
(*                                                                          *)
(* Files are modelled as names bound to data that open handles refer to.    *)
(* On Windows os.replace fails while a handle on either name is open; on    *)
(* POSIX it never does, and an open handle follows its data to the new      *)
(* name.                                                                    *)
(***************************************************************************)
EXTENDS Naturals, FiniteSets

CONSTANTS
    Users,      \* handler threads: GET /config, PUT /config and the like
    Workers,    \* threads whose loop does not catch what load and save raise
    Versions,   \* configurations
    Default,    \* AppConfig()
    Size,       \* the length of each version as JSON
    Files,      \* data of files that exist at the same time (a bound)
    Systems,    \* operating systems: which rules os.replace follows
    None

Threads == Users \cup Workers

ASSUME VersionAssumption ==
    /\ Default \in Versions
    /\ Size \in [Versions -> Nat \ {0}]
    /\ {"empty", "torn"} \cap Versions = {}
ASSUME StoreAssumption ==
    /\ None \notin Files \cup Versions
    /\ Systems \subseteq {"windows", "posix"}

VARIABLES
    os,        \* the system the core runs on
    path,      \* what the name kaveh.json is bound to
    tmp,       \* what the name kaveh.json.tmp is bound to
    data,      \* the contents of each file
    at,        \* where each thread is
    handle,    \* the file it has open
    value,     \* the configuration it saves
    clash      \* history: two saves have overlapped

vars == <<os, path, tmp, data, at, handle, value, clash>>

\* "torn": the end of a longer version behind a shorter one, which is no JSON.
Contents == Versions \cup {"empty", "torn"}

Places == {"rest", "read", "open", "write", "replace", "dead"}

TypeOK ==
    /\ os \in Systems
    /\ path \in Files \cup {None}
    /\ tmp \in Files \cup {None}
    /\ data \in [Files -> Contents]
    /\ at \in [Threads -> Places]
    /\ handle \in [Threads -> Files \cup {None}]
    /\ value \in [Threads -> Versions \cup {None}]
    /\ clash \in BOOLEAN

\* The first start finds no file, a later one finds what was saved before.
Init ==
    /\ os \in Systems
    /\ path \in {None} \cup Files
    /\ tmp = None
    /\ data \in [Files -> {"empty"} \cup Versions]
    /\ \A f \in Files : data[f] = "empty" <=> f # path
    /\ at = [t \in Threads |-> "rest"]
    /\ handle = [t \in Threads |-> None]
    /\ value = [t \in Threads |-> None]
    /\ clash = FALSE

-----------------------------------------------------------------------------
(* Helpers *)

Move(t, place) == at' = [at EXCEPT ![t] = place]

Saving(t) == at[t] \in {"open", "write", "replace"}

\* t begins to save v, which takes it through open, write and replace.
BeginSave(t, v) ==
    /\ Move(t, "open")
    /\ value' = [value EXCEPT ![t] = v]
    /\ clash' = (clash \/ \E u \in Threads \ {t} : Saving(u))

\* What one write of v from the start of a file makes of its contents.
Over(old, v) ==
    CASE old = "empty" -> {v}
      [] old = "torn"  -> {v, "torn"}
      [] OTHER         -> IF Size[old] > Size[v] THEN {"torn"} ELSE {v}

\* load or save raises: a handler answers with an error, a worker ends.
Raise(t) ==
    /\ Move(t, IF t \in Workers THEN "dead" ELSE "rest")
    /\ value' = [value EXCEPT ![t] = None]

Done(t) == Move(t, "rest") /\ value' = [value EXCEPT ![t] = None]

Free == {f \in Files : f # path /\ f # tmp /\ \A t \in Threads : handle[t] # f}

-----------------------------------------------------------------------------
(* ConfigStore.load *)

\* load finds the file, or saves the defaults where there is none.
Load(t) ==
    /\ at[t] = "rest"
    /\ IF path = None
       THEN BeginSave(t, Default) /\ UNCHANGED handle
       ELSE /\ Move(t, "read")
            /\ handle' = [handle EXCEPT ![t] = path]
            /\ UNCHANGED <<value, clash>>
    /\ UNCHANGED <<os, path, tmp, data>>

\* An empty file counts as the defaults, JSON that is torn raises.
Read(t) ==
    /\ at[t] = "read"
    /\ handle' = [handle EXCEPT ![t] = None]
    /\ IF data[handle[t]] = "torn" THEN Raise(t) ELSE Done(t)
    /\ UNCHANGED <<os, path, tmp, data, clash>>

-----------------------------------------------------------------------------
(* ConfigStore.save *)

\* PUT /config, a rotation, a failover, a DNS request: what was loaded before,
\* with some fields changed.
Save(t, v) ==
    /\ at[t] = "rest"
    /\ BeginSave(t, v)
    /\ UNCHANGED <<os, path, tmp, data, handle>>

\* Variants with a bug: the file is opened without being truncated; the file
\* itself is opened, not a temporary one.
OpenKeepsContents(t) ==
    /\ at[t] = "open"
    /\ Move(t, "write")
    /\ \E f \in IF tmp = None THEN Free ELSE {tmp} :
          /\ tmp' = f
          /\ data' = IF tmp = None THEN [data EXCEPT ![f] = "empty"] ELSE data
          /\ handle' = [handle EXCEPT ![t] = f]
    /\ UNCHANGED <<os, path, value, clash>>

OpenInPlace(t) ==
    /\ at[t] = "open"
    /\ Move(t, "write")
    /\ \E f \in IF path = None THEN Free ELSE {path} :
          /\ tmp' = f
          /\ data' = [data EXCEPT ![f] = "empty"]
          /\ handle' = [handle EXCEPT ![t] = f]
    /\ UNCHANGED <<os, path, value, clash>>

\* Opening the temporary file for writing creates or truncates it.
Open(t) ==
    /\ at[t] = "open"
    /\ Move(t, "write")
    /\ \E f \in IF tmp = None THEN Free ELSE {tmp} :
          /\ tmp' = f
          /\ data' = [data EXCEPT ![f] = "empty"]
          /\ handle' = [handle EXCEPT ![t] = f]
    /\ UNCHANGED <<os, path, value, clash>>

\* The text is buffered and written as the file is closed.
Write(t) ==
    /\ at[t] = "write"
    /\ Move(t, "replace")
    /\ \E new \in Over(data[handle[t]], value[t]) :
          data' = [data EXCEPT ![handle[t]] = new]
    /\ handle' = [handle EXCEPT ![t] = None]
    /\ UNCHANGED <<os, path, tmp, value, clash>>

\* Variant with a bug: Windows is told to rename a file in use.
CanReplaceAlways == tmp # None

CanReplace ==
    /\ tmp # None
    /\ os = "posix" \/ \A t \in Threads : handle[t] \notin {path, tmp} \ {None}

Replace(t) ==
    /\ at[t] = "replace"
    /\ IF CanReplace
       THEN path' = tmp /\ tmp' = None /\ Done(t)
       ELSE UNCHANGED <<path, tmp>> /\ Raise(t)
    /\ UNCHANGED <<os, data, handle, clash>>

\* The core is killed and started again: files stay, threads do not.
Kill ==
    /\ at' = [t \in Threads |-> "rest"]
    /\ handle' = [t \in Threads |-> None]
    /\ value' = [t \in Threads |-> None]
    /\ UNCHANGED <<os, path, tmp, data, clash>>

-----------------------------------------------------------------------------

SaveSteps(t) == Open(t) \/ Write(t) \/ Replace(t)

Next ==
    \/ \E t \in Threads :
          Load(t) \/ Read(t) \/ SaveSteps(t) \/ \E v \in Versions : Save(t, v)
    \/ Kill

Spec == Init /\ [][Next]_vars

-----------------------------------------------------------------------------
(* Properties *)

\* As long as no two saves overlap, every reader sees a whole configuration at
\* every moment: crashes and leftover temporary files never show through.
WholeFile == ~clash /\ path # None => data[path] \in Versions

\* Whatever overlaps, the file is never empty under the rules of Windows, so
\* load never takes a half-written file for the default configuration.
NeverSilentDefaults == os = "windows" /\ path # None => data[path] # "empty"

\* What a reader of kaveh.json finds
Stored == IF path = None THEN None ELSE data[path]

Atomic == INSTANCE AtomicStore WITH
              Threads <- Threads, Versions <- Versions, Contents <- Contents,
              None <- None, stored <- Stored, saving <- value,
              overlapped <- clash

\* Saving implements the abstract store.  As long as no two saves overlap, the
\* file changes in the rename only, to the whole configuration of the thread
\* that renames; a save that raises and a crash at any point change nothing.
AtomicSaves == Atomic!Spec

\* A background thread survives: what it does on the file never raises.  False:
\* os.replace raises while another thread reads the file, and after two
\* overlapping saves load may raise.
WorkersSurvive == \A t \in Workers : at[t] # "dead"
=============================================================================
