----------------------------- MODULE DnsEnforce -----------------------------
(***************************************************************************)
(* DNS enforcement (engine/dns): a request is a list of servers.  For each  *)
(* of them two rules let its DNS traffic pass, then two rules block all     *)
(* other DNS traffic.  The order matters when netsh fails half-way.         *)
(***************************************************************************)
EXTENDS RuleGroup, Filter

CONSTANTS
    Ips,        \* IPv4 addresses
    Blank,      \* an entry that is empty after trimming
    Bad,        \* an entry that is no IPv4 address
    MaxServers  \* the longest list asked for (a bound)

DnsLists == UNION {[1..n -> Ips \cup {Blank, Bad}] : n \in 0..MaxServers}

Cleaned(servers) == Filter(servers, {i \in DOMAIN servers : servers[i] # Blank})

DnsRefused ==
    {servers \in DnsLists :
        \/ Cleaned(servers) = <<>>
        \/ \E i \in DOMAIN servers : servers[i] = Bad}

Allow(ip, protocol) == [allow |-> {ip}, protocol |-> protocol]
Block(protocol) == [allow |-> {}, protocol |-> protocol]

DnsRules == [allow : {{}} \cup {{ip} : ip \in Ips}, protocol : {"UDP", "TCP"}]

\* Variant with a bug: the blocking rules come first.
BlockFirst(servers) ==
    LET ips == Cleaned(servers)
    IN  [i \in 1..(2 * Len(ips) + 2) |->
           LET protocol == IF i % 2 = 1 THEN "UDP" ELSE "TCP"
           IN  IF i > 2 THEN Allow(ips[(i - 1) \div 2], protocol)
               ELSE Block(protocol)]

DnsPlanOf(servers) ==
    LET ips == Cleaned(servers)
    IN  [i \in 1..(2 * Len(ips) + 2) |->
           LET protocol == IF i % 2 = 1 THEN "UDP" ELSE "TCP"
           IN  IF i <= 2 * Len(ips) THEN Allow(ips[(i + 1) \div 2], protocol)
               ELSE Block(protocol)]

\* A refused list has no rules: Enforce returns before its first netsh call.
DnsPlan ==
    [servers \in DnsLists |->
        IF servers \in DnsRefused THEN <<>> ELSE DnsPlanOf(servers)]

\* KavehDNS among the groups of RuleGroup.
ASSUME DnsAssumption ==
    /\ MaxServers \in Nat
    /\ "KavehDNS" \in Groups =>
          /\ Requests["KavehDNS"] \subseteq DnsLists
          /\ Refused["KavehDNS"] = Requests["KavehDNS"] \cap DnsRefused
          /\ \A servers \in Requests["KavehDNS"] :
                Plan["KavehDNS"][servers] = DnsPlan[servers]

-----------------------------------------------------------------------------
(* Properties *)

\* Enforcement that fails half-way never cuts the user off: while a blocking
\* rule is installed, some list asked for has all its servers let through, by
\* both protocols.  Overlapping requests may break that, until one that runs
\* alone has deleted the group.
NeverOnlyBlocked ==
    /\ group = "KavehDNS" /\ ~mixed
    /\ \E p \in {"UDP", "TCP"} : Block(p) \in rules
    =>
        \E servers \in DnsLists \ DnsRefused :
           \A i \in DOMAIN Cleaned(servers) : \A p \in {"UDP", "TCP"} :
              Allow(Cleaned(servers)[i], p) \in rules
=============================================================================
