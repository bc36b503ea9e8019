------------------------------- MODULE MCWindow -------------------------------
(***************************************************************************)
(* The parts of the window in one run.  They share nothing but the page, so *)
(* a behaviour is one of a single part, chosen at the start.                *)
(***************************************************************************)
EXTENDS Window, ConfirmButtons, TrafficHistory, ChainEditor, ConfigDraft, TLC

CONSTANTS c1, c2, c3, ip1, ip2

VARIABLE part

\* Two connections with a public remote address, one of which an answer lists
\* twice, and one without.
MCAnswers == {<<c1>>, <<c1, c1, c2>>, <<c2, c3>>}
MCIpOf == c1 :> ip1 @@ c2 :> ip2 @@ c3 :> Private
MCFilters == {{c1, c2, c3}, {c2}}

mcVars == <<winVars, cbVars, trafficVars, chainVars, draftVars, part>>

Parts == {"controls", "confirm", "traffic", "chain", "draft"}

MCInit ==
    /\ part \in Parts
    /\ WinInit
    /\ CbInit
    /\ TrafficInit
    /\ ChainInit
    /\ DraftInit
    \* The initial states of the other parts do not multiply.
    /\ part # "controls" => ~engine.up /\ ~engine.ks
    /\ part # "chain" => chain = <<>>
    /\ part # "draft" => lastConfig = Null

Controls ==
    /\ part = "controls"
    /\ WinNext
    /\ UNCHANGED <<cbVars, trafficVars, chainVars, draftVars, part>>

ConfirmPart ==
    /\ part = "confirm"
    /\ CbNext
    /\ UNCHANGED <<winVars, trafficVars, chainVars, draftVars, part>>

TrafficPart ==
    /\ part = "traffic"
    /\ TrafficNext
    /\ UNCHANGED <<winVars, cbVars, chainVars, draftVars, part>>

ChainPart ==
    /\ part = "chain"
    /\ ChainNext
    /\ UNCHANGED <<winVars, cbVars, trafficVars, draftVars, part>>

DraftPart ==
    /\ part = "draft"
    /\ DraftNext
    /\ UNCHANGED <<winVars, cbVars, trafficVars, chainVars, part>>

MCNext == Controls \/ ConfirmPart \/ TrafficPart \/ ChainPart \/ DraftPart

MCFairness ==
    /\ WF_winVars(part = "controls" /\ TickBegins)
    /\ \A a \in Asyncs : WF_winVars(part = "controls" /\ PollSteps(a))

MCSpec == MCInit /\ [][MCNext]_mcVars /\ MCFairness

\* The type invariants of the parts.
WindowTypes ==
    /\ WinTypeOK
    /\ CbTypeOK
    /\ TrafficTypeOK
    /\ ChainTypeOK
    /\ DraftTypeOK

\* StatusCatchesUp of module Window: when the engine has come to rest, the
\* window shows its state, whatever order the polls end in.
WindowCatchesUp == part = "controls" => StatusCatchesUp
=============================================================================
