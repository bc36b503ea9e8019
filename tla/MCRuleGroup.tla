----------------------------- MODULE MCRuleGroup -----------------------------
(* Small instances of RuleGroup: the groups of DNS and of JavaScript leaks. *)
EXTENDS DnsEnforce, JsLeak, TLC

CONSTANTS ip1, ip2

\* Short and long lists, one with an entry that is trimmed away, one that is
\* empty after that, and one with an entry that is no address.
MCDnsLists ==
    {<<ip1>>, <<ip2>>, <<ip1, ip2>>, <<Blank, ip2>>, <<Blank>>, <<ip1, Bad>>}

\* None, one, two and three rules.
MCJsRequests == {r \in JsRequests : r.webrtc = r.mdns}

MCGroups == {"KavehDNS", "KavehJSLeak"}
MCRequests == "KavehDNS" :> MCDnsLists @@ "KavehJSLeak" :> MCJsRequests
MCRefused == "KavehDNS" :> MCDnsLists \cap DnsRefused @@ "KavehJSLeak" :> {}
MCRules == "KavehDNS" :> DnsRules @@ "KavehJSLeak" :> JsRules
MCPlan == "KavehDNS" :> [s \in MCDnsLists |-> DnsPlan[s]]
          @@ "KavehJSLeak" :> [r \in MCJsRequests |-> JsPlan[r]]
MCDefault == "KavehDNS" :> Nothing @@ "KavehJSLeak" :> JsDefault
MCKeepsRequest == "KavehDNS" :> FALSE @@ "KavehJSLeak" :> TRUE

CallerSymmetry == Permutations(Callers)
=============================================================================
