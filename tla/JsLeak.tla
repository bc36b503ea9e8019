-------------------------------- MODULE JsLeak --------------------------------
(***************************************************************************)
(* JavaScript leak protection (engine/fingerprint/jsleak): a request says   *)
(* which of three kinds of traffic to block, one rule each.  Status goes on *)
(* showing the last request after Disable.                                  *)
(***************************************************************************)
EXTENDS RuleGroup

JsRequests == [webrtc : BOOLEAN, mdns : BOOLEAN, quic : BOOLEAN]
JsDefault == [webrtc |-> TRUE, mdns |-> TRUE, quic |-> FALSE]
JsRules == {"STUN", "mDNS", "QUIC"}

Blocks(request, rule) ==
    CASE rule = "STUN" -> request.webrtc
      [] rule = "mDNS" -> request.mdns
      [] rule = "QUIC" -> request.quic

JsPlan ==
    [request \in JsRequests |->
        SelectSeq(<<"STUN", "mDNS", "QUIC">>, LAMBDA rule : Blocks(request, rule))]
=============================================================================
