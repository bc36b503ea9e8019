-------------------------------- MODULE Confirm --------------------------------
(***************************************************************************)
(* What a confirmed action promises: the first press raises its flag, the   *)
(* second carries it out, and everything else can only take the flag down.  *)
(* Actions may share a flag, and then a first press of one allows the       *)
(* other.  Of two rival flags at most one is up.                            *)
(*                                                                          *)
(* An abstraction of the flags ...Armed of ui/src/main.ts: which button     *)
(* sits where, what is shown, and what is asked of the engine are left out. *)
(***************************************************************************)
CONSTANTS
    Actions,        \* what can be confirmed
    Flag(_),        \* the flag of an action
    Rivals(_),      \* the flags that raising one takes down at least
    None            \* the last step has carried out nothing

VARIABLES
    armed,          \* the flags that are up
    fired           \* the action that the last step has carried out

confirmVars == <<armed, fired>>

Init ==
    /\ armed = {}
    /\ fired = None

\* The first press; it may take down more than the rivals.
Arm(a) ==
    /\ Flag(a) \notin armed
    /\ Flag(a) \in armed'
    /\ armed' \ {Flag(a)} \subseteq armed \ Rivals(Flag(a))
    /\ fired' = None

\* The second press.
Fire(a) ==
    /\ Flag(a) \in armed
    /\ armed' = armed \ {Flag(a)}
    /\ fired' = a

\* ESC
Cancel ==
    /\ armed' = {}
    /\ fired' = None

\* Whatever else happens
Pass ==
    /\ armed' = armed
    /\ fired' = None

Next == Pass \/ Cancel \/ \E a \in Actions : Arm(a) \/ Fire(a)

Spec == Init /\ [][Next]_confirmVars
=============================================================================
