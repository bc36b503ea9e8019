----------------------------- MODULE TrackerBlocks -----------------------------
(***************************************************************************)
(* Tracker blocking (engine/monitor/blocks.go): one firewall rule for each  *)
(* blocked address, and the map blockedIPs, from which Status is told.      *)
(*                                                                          *)
(* The mutex protects only the map: a request calls netsh first and changes *)
(* the map afterwards, so requests interleave between the two.  Left out:   *)
(* requests without `confirm` and addresses that are no IPv4 addresses,     *)
(* which are refused before anything changes.                               *)
(***************************************************************************)
CONSTANTS
    Clients,    \* requests that can be in flight at the same time
    Remotes     \* addresses

VARIABLES
    blockRules, \* addresses with a rule in the group KavehTracker
    blockedIPs,
    stage,      \* where each request is
    op,         \* what it is
    about,      \* the addresses it is about
    sole,       \* history: it has met no request about one of them
    doubtful    \* history: addresses of which a request has failed or met
                \* another, or whose rule an older engine has left

blockVars == <<blockRules, blockedIPs, stage, op, about, sole, doubtful>>

TbTypeOK ==
    /\ blockRules \subseteq Remotes
    /\ blockedIPs \subseteq Remotes
    /\ stage \in [Clients -> {"idle", "delete", "add", "store", "failed"}]
    /\ op \in [Clients -> {"none", "block", "unblock", "clear"}]
    /\ about \in [Clients -> SUBSET Remotes]
    /\ sole \in [Clients -> BOOLEAN]
    /\ doubtful \subseteq Remotes

TbInit ==
    /\ blockRules = {}
    /\ blockedIPs = {}
    /\ stage = [c \in Clients |-> "idle"]
    /\ op = [c \in Clients |-> "none"]
    /\ about = [c \in Clients |-> {}]
    /\ sole = [c \in Clients |-> TRUE]
    /\ doubtful = {}

-----------------------------------------------------------------------------

Meets(c, ips) == {d \in Clients \ {c} : about[d] \cap ips # {}}

TbBegin(c, what, ips) ==
    /\ stage[c] = "idle"
    /\ stage' = [stage EXCEPT ![c] = "delete"]
    /\ op' = [op EXCEPT ![c] = what]
    /\ about' = [about EXCEPT ![c] = ips]
    /\ sole' = [d \in Clients |->
                  IF d = c THEN Meets(c, ips) = {}
                  ELSE sole[d] /\ d \notin Meets(c, ips)]
    /\ UNCHANGED <<blockRules, blockedIPs, doubtful>>

\* runNetsh leaves the rules as `after`: it succeeds, fails without effect, or
\* reports an error although it took effect.
TbNetsh(c, after, next, otherwise) ==
    \/ blockRules' = after /\ stage' = [stage EXCEPT ![c] = next]
    \/ /\ blockRules' \in {blockRules, after}
       /\ stage' = [stage EXCEPT ![c] = otherwise]

\* The delete of a block may fail; the rule need not be there.
TbDelete(c) ==
    /\ stage[c] = "delete"
    /\ LET after == blockRules \ about[c]
       IN  IF op[c] = "block" THEN TbNetsh(c, after, "add", "add")
                              ELSE TbNetsh(c, after, "store", "failed")
    /\ UNCHANGED <<blockedIPs, op, about, sole, doubtful>>

TbAdd(c) ==
    /\ stage[c] = "add"
    /\ TbNetsh(c, blockRules \cup about[c], "store", "failed")
    /\ UNCHANGED <<blockedIPs, op, about, sole, doubtful>>

TbRest(c) ==
    /\ stage' = [stage EXCEPT ![c] = "idle"]
    /\ op' = [op EXCEPT ![c] = "none"]
    /\ about' = [about EXCEPT ![c] = {}]
    /\ sole' = [sole EXCEPT ![c] = TRUE]

\* Variant with a bug: Clear leaves the map alone.
TbStoreForgetsClear(c) ==
    /\ stage[c] = "store"
    /\ blockedIPs' = CASE op[c] = "block" -> blockedIPs \cup about[c]
                       [] op[c] = "unblock" -> blockedIPs \ about[c]
                       [] op[c] = "clear" -> blockedIPs
    /\ doubtful' = IF sole[c] THEN doubtful \ about[c]
                              ELSE doubtful \cup about[c]
    /\ TbRest(c)
    /\ UNCHANGED blockRules

\* Under the mutex; the request is answered.
TbStore(c) ==
    /\ stage[c] = "store"
    /\ blockedIPs' = CASE op[c] = "block" -> blockedIPs \cup about[c]
                       [] op[c] = "unblock" -> blockedIPs \ about[c]
                       [] op[c] = "clear" -> {}
    /\ doubtful' = IF sole[c] THEN doubtful \ about[c]
                              ELSE doubtful \cup about[c]
    /\ TbRest(c)
    /\ UNCHANGED blockRules

TbFailed(c) ==
    /\ stage[c] = "failed"
    /\ doubtful' = doubtful \cup about[c]
    /\ TbRest(c)
    /\ UNCHANGED <<blockRules, blockedIPs>>

\* The engine is killed and started again: the rules stay, the map does not.  A
\* netsh it was waiting for takes effect or not.
TbKill ==
    /\ \E late \in SUBSET Clients :
          LET At(where) == {c \in late : stage[c] = where}
              gone == UNION {about[c] : c \in At("delete")}
              come == UNION {about[c] : c \in At("add")}
          IN  blockRules' = (blockRules \ gone) \cup come
    /\ blockedIPs' = {}
    /\ stage' = [c \in Clients |-> "idle"]
    /\ op' = [c \in Clients |-> "none"]
    /\ about' = [c \in Clients |-> {}]
    /\ sole' = [c \in Clients |-> TRUE]
    /\ doubtful' = Remotes

BlockIP(c) == \E ip \in Remotes : TbBegin(c, "block", {ip})
UnblockIP(c) == \E ip \in Remotes : TbBegin(c, "unblock", {ip})
ClearBlocks(c) == TbBegin(c, "clear", Remotes)

TbNext ==
    \/ \E c \in Clients :
          \/ BlockIP(c) \/ UnblockIP(c) \/ ClearBlocks(c)
          \/ TbDelete(c) \/ TbAdd(c) \/ TbStore(c) \/ TbFailed(c)
    \/ TbKill

TbSpec == TbInit /\ [][TbNext]_blockVars

-----------------------------------------------------------------------------
(* Properties *)

\* What Status lists is what the firewall blocks, address by address, while no
\* request about the address is in flight: requests about other addresses may
\* overlap as they like, and after one that failed or overlapped, or after a
\* restart, one request that succeeds on its own sets the address right again.
BlocksAgree ==
    \A ip \in Remotes \ doubtful :
        (\A c \in Clients : ip \notin about[c])
            => (ip \in blockRules <=> ip \in blockedIPs)
=============================================================================
