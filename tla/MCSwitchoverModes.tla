-------------------------- MODULE MCSwitchoverModes --------------------------
(***************************************************************************)
(* Three kinds of behaviour of Switchover in one run; `mode` says which one *)
(* this is:                                                                 *)
(*   "serial"   no two switchovers overlap, with all requests of the UI,    *)
(*              which switch on rotation or a chain, not both at once;      *)
(*   "free"     they overlap in every way, with forced failovers, saves     *)
(*              that switch rotation off, and one thread of each kind;      *)
(*   "older"    they overlap, with a thread of an earlier start beside the  *)
(*              newest of either kind, and saves that switch rotation off.  *)
(***************************************************************************)
EXTENDS MCSwitchover

CONSTANT Older       \* threads of earlier starts

VARIABLE mode

modeVars == <<vars, mode>>

ModeInit ==
    /\ Init
    /\ mode \in {"serial", "free", "older"}
    /\ mode = "older" => config.rotOn # config.foOn

\* The bound of the serial behaviours: rotation and a chain take turns.
NotBoth == ~(config'.rotOn /\ config'.chain)

\* The bounds of the other behaviours: what the user saves has rotation off; in
\* the free ones he saves when he finds it on, and forces a failover when he
\* finds it off.
SwitchesOff == \A u \in Users : UserPut(u) => ~config'.rotOn /\ ~config'.chain

FewRequests ==
    \A u \in Users : at[u] = "rest" =>
        /\ job'[u] \in {"none", "force", "put"}
        /\ job'[u] = "put" => config.rotOn
        /\ job'[u] = "force" => ~config.rotOn

OnlyPuts == \A u \in Users : job'[u] \in {"none", "put"}

NoOlder == \A t \in Older : at'[t] = "rest"

ModeNext ==
    /\ Next
    /\ mode' = mode
    /\ mode = "serial" => OneSwitchAtATime' /\ NotBoth /\ NoOlder
    /\ mode = "free" => SwitchesOff /\ FewRequests /\ NoOlder
    /\ mode = "older" => SwitchesOff /\ OnlyPuts

ModeSpec == ModeInit /\ [][ModeNext]_modeVars
=============================================================================
