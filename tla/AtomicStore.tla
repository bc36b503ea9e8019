----------------------------- MODULE AtomicStore -----------------------------
(***************************************************************************)
(* What saving the configuration promises: a save takes effect as a whole   *)
(* in one step, or not at all, and a crash leaves what was stored last.     *)
(* All of that is off once two saves have overlapped.                       *)
(*                                                                          *)
(* An abstraction of core/config/store.py: the temporary file, the open     *)
(* handles, the rules of the operating system and all readers are left out. *)
(***************************************************************************)
CONSTANTS
    Threads,        \* who saves
    Versions,       \* configurations
    Contents,       \* what overlapping saves may leave behind
    None            \* nothing is stored yet, or a thread saves nothing

VARIABLES
    stored,         \* what a reader finds
    saving,         \* the configuration that each thread is saving
    overlapped      \* history: two saves have overlapped

storeVars == <<stored, saving, overlapped>>

Idle == [t \in Threads |-> None]

Init ==
    /\ stored \in Versions \cup {None}
    /\ saving = Idle
    /\ overlapped = FALSE

Begin(t, v) ==
    /\ saving[t] = None
    /\ saving' = [saving EXCEPT ![t] = v]
    /\ overlapped' = (overlapped \/ \E u \in Threads \ {t} : saving[u] # None)
    /\ UNCHANGED stored

\* The save takes effect.
Commit(t) ==
    /\ saving[t] # None
    /\ stored' = saving[t]
    /\ saving' = [saving EXCEPT ![t] = None]
    /\ UNCHANGED overlapped

\* The save fails, and changes nothing.
Abandon(t) ==
    /\ saving[t] # None
    /\ saving' = [saving EXCEPT ![t] = None]
    /\ UNCHANGED <<stored, overlapped>>

Crash ==
    /\ saving' = Idle
    /\ UNCHANGED <<stored, overlapped>>

\* After an overlap, anything may be stored at any time, except nothing.
Garble ==
    /\ overlapped
    /\ stored' \in Contents
    /\ saving' \in {saving} \cup {[saving EXCEPT ![t] = None] : t \in Threads}
    /\ UNCHANGED overlapped

Next ==
    \/ \E t \in Threads :
          Commit(t) \/ Abandon(t) \/ \E v \in Versions : Begin(t, v)
    \/ Crash
    \/ Garble

Spec == Init /\ [][Next]_storeVars
=============================================================================
