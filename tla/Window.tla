-------------------------------- MODULE Window --------------------------------
(***************************************************************************)
(* The window (ui/src/main.ts): the status poll, how its result is shown,   *)
(* and the controls that are in every view, the kill switch and the proxy   *)
(* toggle with their shortcuts.                                             *)
(*                                                                          *)
(* The code between two awaits is one step.  render() rebuilds the page and *)
(* binds every handler to the state it was given; patch() only rewrites     *)
(* some texts, so a handler may still hold the state of an older poll while *)
(* the page shows the newest.  Polls overlap: the timer starts one every    *)
(* 1.5 seconds and every request ends with one of its own.                  *)
(*                                                                          *)
(* The other panels are modules of their own (ConfirmButtons, ConfigDraft,  *)
(* TrafficHistory); what they do to this part is Rerender and Retype.       *)
(* Left out: the banner's text, the theme, icons, and the status dot.       *)
(***************************************************************************)
EXTENDS Naturals

CONSTANTS
    Handlers,   \* handlers of the user's clicks and keys that run at a time
    Tick,       \* the timer's callback, and at first DOMContentLoaded
    NoState     \* lastState is null

ASSUME TickAssumption == Tick \notin Handlers

VARIABLES
    engine,           \* what the engine's status requests would answer now
    at,               \* where each asynchronous function is
    what,             \* what it was started for
    snap,             \* the HealthState its poll has gathered so far
    lastState,        \* result of the poll that ended last
    bound,            \* the state the last render() bound the handlers to
    shown,            \* the state the page shows, and whether as armed
    killswitchArmed,
    keyArmed          \* Ctrl+Shift+K was pressed less than 1.5 seconds ago

winVars == <<engine, at, what, snap, lastState, bound, shown, killswitchArmed,
             keyArmed>>

Asyncs == Handlers \cup {Tick}
State == [proxy : BOOLEAN, ks : BOOLEAN]
Blank == [proxy |-> FALSE, ks |-> FALSE]      \* poll() starts from this

ASSUME NoStateAssumption == NoState \notin State

Requests == {"ks-enable", "ks-disable", "proxy-start", "proxy-stop"}
Places == {"idle", "sent", "answered", "poll", "proxy", "ks"}

WinTypeOK ==
    /\ engine \in [up : BOOLEAN, proxy : BOOLEAN, ks : BOOLEAN]
    /\ at \in [Asyncs -> Places]
    /\ what \in [Asyncs -> Requests \cup {"look", "none"}]
    /\ snap \in [Asyncs -> State]
    /\ lastState \in State \cup {NoState}
    /\ bound \in State \cup {NoState}
    /\ shown \in [state : State \cup {NoState}, armed : BOOLEAN]
    /\ killswitchArmed \in BOOLEAN
    /\ keyArmed \in BOOLEAN

WinInit ==
    /\ engine \in [up : BOOLEAN, proxy : {FALSE}, ks : BOOLEAN]
    /\ at = [a \in Asyncs |-> IF a = Tick THEN "poll" ELSE "idle"]
    /\ what = [a \in Asyncs |-> "none"]
    /\ snap = [a \in Asyncs |-> Blank]
    /\ lastState = NoState
    /\ bound = NoState
    /\ shown = [state |-> NoState, armed |-> FALSE]
    /\ killswitchArmed = FALSE
    /\ keyArmed = FALSE

-----------------------------------------------------------------------------
(* What the page shows *)

Paint(s, armed) == shown' = [state |-> s, armed |-> armed]

\* patch(): the texts change, the handlers stay bound to the old state.
Patch(s) ==
    /\ Paint(s, killswitchArmed')
    /\ bound' = bound

\* render()
Render(s) ==
    /\ Paint(s, killswitchArmed')
    /\ bound' = s

\* setAction(), with which every request begins and ends: it renders lastState.
SetAction == Render(lastState)

Drawn == bound # NoState

\* killswitchLabel: what the kill switch button says.
KsLabel(s, armed) ==
    IF s.ks THEN "DISABLE" ELSE IF armed THEN "CONFIRM" ELSE "KILL SWITCH"

-----------------------------------------------------------------------------
(* Requests *)

Go(a, place, why) ==
    /\ at' = [at EXCEPT ![a] = place]
    /\ what' = [what EXCEPT ![a] = why]

Send(h, request) ==
    /\ at[h] = "idle"
    /\ Go(h, "sent", request)
    /\ SetAction

Wanted(request) ==
    CASE request = "ks-enable" -> [engine EXCEPT !.ks = TRUE]
      [] request = "ks-disable" -> [engine EXCEPT !.ks = FALSE]
      [] request = "proxy-start" -> [engine EXCEPT !.proxy = TRUE]
      [] request = "proxy-stop" -> [engine EXCEPT !.proxy = FALSE]

\* The request is carried out, or it is not: refused, failed, or lost.
Answer(h) ==
    /\ at[h] = "sent"
    /\ engine' \in {engine} \cup (IF engine.up THEN {Wanted(what[h])} ELSE {})
    /\ Go(h, "answered", what[h])
    /\ UNCHANGED <<snap, lastState, bound, shown, killswitchArmed, keyArmed>>

\* apiJson() has the answer or an error: a message, then refreshNow(false).
Answered(h) ==
    /\ at[h] = "answered"
    /\ Go(h, "poll", what[h])
    /\ killswitchArmed' = killswitchArmed
    /\ SetAction
    /\ UNCHANGED <<engine, snap, lastState, keyArmed>>

-----------------------------------------------------------------------------
(* The kill switch button and its shortcut *)

\* The click decides by the state its handler is bound to: it does what the
\* button would say of that state.
KsDoes == KsLabel(bound, killswitchArmed)

KsClick(h) ==
    /\ Drawn
    /\ \/ /\ KsDoes = "DISABLE"
          /\ killswitchArmed' = FALSE
          /\ Send(h, "ks-disable")
       \/ /\ KsDoes = "KILL SWITCH"
          /\ killswitchArmed' = TRUE
          /\ Patch(bound)
          /\ UNCHANGED <<at, what>>
       \/ /\ KsDoes = "CONFIRM"
          /\ killswitchArmed' = FALSE
          /\ Send(h, "ks-enable")
    /\ UNCHANGED <<engine, snap, lastState, keyArmed>>

\* Ctrl+Shift+K decides by lastState, and arms for 1.5 seconds.
KsKey(h) ==
    /\ lastState # NoState
    /\ \/ /\ lastState.ks
          /\ killswitchArmed' = FALSE
          /\ Send(h, "ks-disable")
          /\ UNCHANGED keyArmed
       \/ /\ ~lastState.ks /\ keyArmed
          /\ keyArmed' = FALSE
          /\ killswitchArmed' = FALSE
          /\ Send(h, "ks-enable")
       \/ /\ ~lastState.ks /\ ~keyArmed
          /\ keyArmed' = TRUE
          /\ killswitchArmed' = TRUE
          /\ Render(lastState)
          /\ UNCHANGED <<at, what>>
    /\ UNCHANGED <<engine, snap, lastState>>

\* The 1.5 seconds are over; killswitchArmed stays.
KeyExpires ==
    /\ keyArmed
    /\ keyArmed' = FALSE
    /\ UNCHANGED <<engine, at, what, snap, lastState, bound, shown, killswitchArmed>>

\* Variant with a bug: the page is not rendered again.
EscapeUnseen ==
    /\ lastState # NoState
    /\ killswitchArmed' = FALSE
    /\ UNCHANGED <<engine, at, what, snap, lastState, bound, shown, keyArmed>>

\* ESC disarms, but not the shortcut: ksKeyArmedAt stays.
Escape ==
    /\ lastState # NoState
    /\ killswitchArmed' = FALSE
    /\ Render(lastState)
    /\ UNCHANGED <<engine, at, what, snap, lastState, keyArmed>>

-----------------------------------------------------------------------------
(* The proxy, navigation, and the other panels *)

\* START PROXY and STOP PROXY
ProxyButton(h, request) ==
    /\ Drawn
    /\ killswitchArmed' = killswitchArmed
    /\ Send(h, request)
    /\ UNCHANGED <<engine, snap, lastState, keyArmed>>

\* Ctrl+P toggles what lastState says.
ProxyKey(h) ==
    /\ lastState # NoState
    /\ killswitchArmed' = killswitchArmed
    /\ Send(h, IF lastState.proxy THEN "proxy-stop" ELSE "proxy-start")
    /\ UNCHANGED <<engine, snap, lastState, keyArmed>>

\* A navigation button or Ctrl+1..6: a message, then refreshNow(true).
Navigate(h) ==
    /\ lastState # NoState
    /\ at[h] = "idle"
    /\ Go(h, "poll", "look")
    /\ killswitchArmed' = killswitchArmed
    /\ SetAction
    /\ UNCHANGED <<engine, snap, lastState, keyArmed>>

\* setAction() of another panel, or of bootDiagnostics().
Rerender ==
    /\ Drawn
    /\ killswitchArmed' = killswitchArmed
    /\ SetAction
    /\ UNCHANGED <<engine, at, what, snap, lastState, keyArmed>>

\* render(state) of another panel: the page shows the handlers' state again.
Retype ==
    /\ Drawn
    /\ killswitchArmed' = killswitchArmed
    /\ Render(bound)
    /\ UNCHANGED <<engine, at, what, snap, lastState, keyArmed>>

-----------------------------------------------------------------------------
(* poll() and its callers *)

TickBegins ==
    /\ at[Tick] = "idle"
    /\ Go(Tick, "poll", "none")
    /\ UNCHANGED <<engine, snap, lastState, bound, shown, killswitchArmed, keyArmed>>

\* GET /engine/proxy/status; FALSE if the core or the engine does not answer.
ReadProxy(a) ==
    /\ at[a] = "poll"
    /\ Go(a, "proxy", what[a])
    /\ snap' = [snap EXCEPT ![a].proxy = engine.up /\ engine.proxy]
    /\ UNCHANGED <<engine, lastState, bound, shown, killswitchArmed, keyArmed>>

\* GET /engine/killswitch/status
ReadKs(a) ==
    /\ at[a] = "proxy"
    /\ Go(a, "ks", what[a])
    /\ snap' = [snap EXCEPT ![a].ks = engine.up /\ engine.ks]
    /\ UNCHANGED <<engine, lastState, bound, shown, killswitchArmed, keyArmed>>

\* Variant with a bug: only the first poll is kept.
PollEndsOnce(a) ==
    /\ at[a] = "ks"
    /\ lastState' = IF lastState = NoState THEN snap[a] ELSE lastState
    /\ killswitchArmed' = killswitchArmed
    /\ IF what[a] = "look" \/ lastState = NoState
       THEN Render(lastState') ELSE Patch(lastState')
    /\ snap' = [snap EXCEPT ![a] = Blank]
    /\ Go(a, "idle", "none")
    /\ UNCHANGED <<engine, keyArmed>>

\* Variant with a bug: the poll's state is dropped, not blank again.
PollEndsBare(a) ==
    /\ at[a] = "ks"
    /\ lastState' = snap[a]
    /\ killswitchArmed' = killswitchArmed
    /\ Patch(lastState')
    /\ snap' = [snap EXCEPT ![a] = NoState]
    /\ Go(a, "idle", "none")
    /\ UNCHANGED <<engine, keyArmed>>

\* The poll has ended: the timer's is patched in, except for the first one, and
\* so are those of refreshNow(false); refreshNow(true) renders.
PollEnds(a) ==
    /\ at[a] = "ks"
    /\ lastState' = snap[a]
    /\ killswitchArmed' = killswitchArmed
    /\ IF what[a] = "look" \/ lastState = NoState
       THEN Render(lastState') ELSE Patch(lastState')
    /\ snap' = [snap EXCEPT ![a] = Blank]
    /\ Go(a, "idle", "none")
    /\ UNCHANGED <<engine, keyArmed>>

\* The engine's state changes otherwise, or it stops or starts answering.
EngineChanges ==
    /\ engine' \in [up : BOOLEAN, proxy : BOOLEAN, ks : BOOLEAN] \ {engine}
    /\ UNCHANGED <<at, what, snap, lastState, bound, shown, killswitchArmed, keyArmed>>

-----------------------------------------------------------------------------

PollSteps(a) == ReadProxy(a) \/ ReadKs(a) \/ PollEnds(a)

HandlerSteps(h) ==
    \/ KsClick(h) \/ KsKey(h)
    \/ \E r \in {"proxy-start", "proxy-stop"} : ProxyButton(h, r)
    \/ ProxyKey(h) \/ Navigate(h)
    \/ Answer(h) \/ Answered(h)

WinNext ==
    \/ \E h \in Handlers : HandlerSteps(h)
    \/ \E a \in Asyncs : PollSteps(a)
    \/ TickBegins \/ KeyExpires \/ Escape \/ Rerender \/ Retype
    \/ EngineChanges

WinSpec == WinInit /\ [][WinNext]_winVars

\* The timer fires, and every request of a poll ends, with an answer or an error.
WinFairness ==
    /\ WF_winVars(TickBegins)
    /\ \A a \in Asyncs : WF_winVars(PollSteps(a))

WinFairSpec == WinSpec /\ WinFairness

-----------------------------------------------------------------------------
(* Properties *)

\* What the kill switch button says can be relied on this far: a click on KILL
\* SWITCH never enables the kill switch, a click on CONFIRM never only arms it,
\* and a click does what the button says while the page shows the switch as the
\* handlers are bound to it; whatever order polls, renders, clicks and keys come
\* in.  When a poll has patched the page since, DISABLE may enable and the other
\* two may disable.
ClickAsLabelled ==
    Drawn =>
       LET says == KsLabel(shown.state, shown.armed)
       IN  /\ says = "KILL SWITCH" => KsDoes # "CONFIRM"
           /\ says = "CONFIRM" => KsDoes # "KILL SWITCH"
           /\ shown.state.ks = bound.ks => KsDoes = says

\* Once the engine answers and its state no longer changes, lastState becomes
\* that state for good, although late polls have put older answers over newer
\* ones, and the page shows it again and again.
Truth == [proxy |-> engine.proxy, ks |-> engine.ks]

StatusCatchesUp ==
    <>[](engine.up) /\ <>[][engine' = engine]_winVars
        => <>[](lastState = Truth) /\ []<>(shown.state = Truth)
=============================================================================
