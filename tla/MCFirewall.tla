------------------------------ MODULE MCFirewall ------------------------------
(***************************************************************************)
(* The rule groups of the engine in one run: DNS enforcement and JavaScript *)
(* leaks (RuleGroup), tracker blocks, and isolation.  They share nothing,   *)
(* so a behaviour is one of a single part, chosen at the start.  Isolation  *)
(* is there twice: with two requests for one process, and with one request  *)
(* at a time for two.                                                       *)
(***************************************************************************)
EXTENDS MCRuleGroup, TrackerBlocks, Isolation

CONSTANTS i1, i2, x1, x2

VARIABLE part

mcVars == <<vars, blockVars, isoVars, part>>

Parts == {"groups", "blocks", "two requests", "two processes"}

MCInit ==
    /\ part \in Parts
    /\ Init
    /\ TbInit
    /\ IsoInit
    \* The initial states of the other parts do not multiply.
    /\ part # "groups" => group = "KavehDNS"
    /\ part \notin {"two requests", "two processes"} => backend = "firewall"

RuleGroupPart ==
    /\ part = "groups"
    /\ Next
    /\ UNCHANGED <<blockVars, isoVars, part>>

BlocksPart ==
    /\ part = "blocks"
    /\ TbNext
    /\ UNCHANGED <<vars, isoVars, part>>

IsolationPart ==
    /\ IsoNext
    /\ \/ part = "two requests" /\ DOMAIN isoRules' \subseteq {x1}
       \/ part = "two processes" /\ place'[i2] = "idle"
    /\ UNCHANGED <<vars, blockVars, part>>

MCNext == RuleGroupPart \/ BlocksPart \/ IsolationPart

MCSpec == MCInit /\ [][MCNext]_mcVars

\* The type invariants of the parts.
FirewallTypes == TypeOK /\ TbTypeOK /\ IsoTypeOK
=============================================================================
