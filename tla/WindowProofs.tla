----------------------------- MODULE WindowProofs -----------------------------
(***************************************************************************)
(* Proofs about the parts of the window, and all of them side by side       *)
(* (MCWindow): its controls (Window), the draft of the configuration        *)
(* (ConfigDraft), the chain's rows (ChainEditor), the traffic history       *)
(* (TrafficHistory), and the buttons that act on the second press           *)
(* (ConfirmButtons); for any number of handlers, addresses, polls and hops. *)
(***************************************************************************)
EXTENDS MCWindow, FilterProofs

-----------------------------------------------------------------------------
(* Window: types, and what the page shows *)

\* The first poll that ends is shown, and something has been shown ever since.
DrawnInv ==
    /\ lastState = NoState <=> bound = NoState
    /\ bound = NoState <=> shown.state = NoState
    /\ shown.armed = killswitchArmed

\* What is sent is a request.
SentInv == \A a \in Asyncs : at[a] = "sent" => what[a] \in Requests

WinInv == WinTypeOK /\ DrawnInv /\ SentInv

LEMMA WinInitInv == WinInit => WinInv
<1> SUFFICES ASSUME WinInit PROVE WinInv
    OBVIOUS
<1> USE DEF WinInit
<1>1. engine \in [up : BOOLEAN, proxy : BOOLEAN, ks : BOOLEAN]
      OBVIOUS
<1>2. /\ at \in [Asyncs -> Places]
      /\ \A a \in Asyncs : at[a] # "sent"
      BY DEF Places
<1>3. what \in [Asyncs -> Requests \cup {"look", "none"}]
      OBVIOUS
<1>4. snap \in [Asyncs -> State]
      BY DEF State, Blank
<1>5. shown \in [state : State \cup {NoState}, armed : BOOLEAN]
      OBVIOUS
<1>6. DrawnInv
      BY DEF DrawnInv
<1> QED BY <1>1, <1>2, <1>3, <1>4, <1>5, <1>6 DEF WinInv, WinTypeOK, SentInv

\* What the types say of the asynchronous functions after a step that moves one
\* of them, or none.
GoTypes ==
    /\ at' \in [Asyncs -> Places]
    /\ what' \in [Asyncs -> Requests \cup {"look", "none"}]
    /\ SentInv'

LEMMA GoKeeps ==
    ASSUME WinInv, NEW a \in Asyncs, NEW place \in Places,
           NEW why \in Requests \cup {"look", "none"}, Go(a, place, why),
           place = "sent" => why \in Requests
    PROVE  GoTypes
BY DEF WinInv, WinTypeOK, SentInv, Go, GoTypes

LEMMA StayKeeps ==
    ASSUME WinInv, UNCHANGED <<at, what>>
    PROVE  GoTypes
BY DEF WinInv, WinTypeOK, SentInv, GoTypes

\* What is drawn is what the handlers are bound to, or the newest state.
LEMMA DrawKeeps ==
    ASSUME WinInv, NEW s \in {lastState, bound}, lastState # NoState,
           killswitchArmed' \in BOOLEAN, lastState' = lastState,
           Render(s) \/ (s = bound /\ Patch(s))
    PROVE  /\ DrawnInv'
           /\ bound' \in State \cup {NoState}
           /\ shown' \in [state : State \cup {NoState}, armed : BOOLEAN]
BY DEF WinInv, WinTypeOK, DrawnInv, Render, Patch, Paint

\* The steps of a click or a key that draw and may start a request.
LEMMA PressStep ==
    ASSUME WinInv, NEW h \in Handlers,
           KsClick(h) \/ KsKey(h) \/ ProxyKey(h)
           \/ \E r \in {"proxy-start", "proxy-stop"} : ProxyButton(h, r)
    PROVE  WinInv'
<1> USE DEF WinInv, WinTypeOK, DrawnInv, Drawn
<1>1. /\ UNCHANGED <<engine, snap, lastState>>
      /\ lastState # NoState
      /\ killswitchArmed' \in BOOLEAN /\ keyArmed' \in BOOLEAN
      BY DEF KsClick, KsKey, ProxyKey, ProxyButton
<1>2. GoTypes
  <2>1. (\E r \in Requests : Send(h, r)) \/ UNCHANGED <<at, what>>
        BY DEF KsClick, KsKey, ProxyKey, ProxyButton, Requests
  <2>2. ASSUME NEW r \in Requests, Send(h, r)
        PROVE  Go(h, "sent", r) /\ h \in Asyncs /\ "sent" \in Places
        BY <2>2 DEF Send, Asyncs, Places
  <2> HIDE DEF WinInv, WinTypeOK, DrawnInv
  <2> QED BY <2>1, <2>2, GoKeeps, StayKeeps
<1>3. \E s \in {lastState, bound} : Render(s) \/ (s = bound /\ Patch(s))
      BY DEF KsClick, KsKey, ProxyKey, ProxyButton, Send, SetAction
<1>4. /\ DrawnInv'
      /\ bound' \in State \cup {NoState}
      /\ shown' \in [state : State \cup {NoState}, armed : BOOLEAN]
  <2> HIDE DEF WinInv, WinTypeOK, DrawnInv
  <2> QED BY <1>1, <1>3, DrawKeeps
<1> QED BY <1>1, <1>2, <1>4 DEF GoTypes

LEMMA EscapeStep ==
    ASSUME WinInv, Escape
    PROVE  WinInv'
BY DEF WinInv, WinTypeOK, DrawnInv, SentInv, Escape, Render, Paint

\* A message, navigation, or the render of another panel.
LEMMA MessageStep ==
    ASSUME WinInv,
           (\E h \in Handlers : Navigate(h) \/ Answered(h)) \/ Rerender \/ Retype
    PROVE  WinInv'
<1> USE DEF WinInv, WinTypeOK, DrawnInv, Drawn
<1>1. /\ UNCHANGED <<engine, snap, lastState, killswitchArmed, keyArmed>>
      /\ \E s \in {lastState, bound} : Render(s)
      BY DEF Navigate, Answered, Rerender, Retype, SetAction
<1>2. GoTypes
  <2>1. ASSUME NEW h \in Handlers, Navigate(h) \/ Answered(h)
        PROVE  GoTypes
    <3>1. PICK why \in Requests \cup {"look", "none"} : Go(h, "poll", why)
          BY <2>1 DEF Navigate, Answered, Asyncs
    <3>2. h \in Asyncs /\ "poll" \in Places
          BY DEF Asyncs, Places
    <3> HIDE DEF WinInv, WinTypeOK, DrawnInv
    <3> QED BY <3>1, <3>2, GoKeeps
  <2> HIDE DEF WinInv, WinTypeOK, DrawnInv
  <2> QED BY <2>1, StayKeeps DEF Rerender, Retype
<1>3. /\ DrawnInv'
      /\ bound' \in State \cup {NoState}
      /\ shown' \in [state : State \cup {NoState}, armed : BOOLEAN]
      BY <1>1 DEF Render, Paint
<1> QED BY <1>1, <1>2, <1>3 DEF GoTypes

LEMMA ReadStep ==
    ASSUME WinInv, NEW a \in Asyncs, ReadProxy(a) \/ ReadKs(a)
    PROVE  WinInv'
<1> USE DEF WinInv, WinTypeOK, DrawnInv
<1>1. snap' \in [Asyncs -> State]
  <2>1. /\ engine.up \in BOOLEAN /\ engine.proxy \in BOOLEAN
        /\ engine.ks \in BOOLEAN
        /\ snap[a] \in State
        OBVIOUS
  <2>2. CASE ReadProxy(a)
    <3>1. [snap[a] EXCEPT !.proxy = engine.up /\ engine.proxy] \in State
          BY <2>1 DEF State
    <3> QED BY <3>1, <2>2 DEF ReadProxy
  <2>3. CASE ReadKs(a)
    <3>1. [snap[a] EXCEPT !.ks = engine.up /\ engine.ks] \in State
          BY <2>1 DEF State
    <3> QED BY <3>1, <2>3 DEF ReadKs
  <2> QED BY <2>2, <2>3
<1>2. GoTypes
      BY DEF ReadProxy, ReadKs, Go, Places, GoTypes, SentInv
<1>3. UNCHANGED <<engine, lastState, bound, shown, killswitchArmed, keyArmed>>
      BY DEF ReadProxy, ReadKs
<1> QED BY <1>1, <1>2, <1>3 DEF GoTypes

LEMMA PollEndsStep ==
    ASSUME WinInv, NEW a \in Asyncs, PollEnds(a)
    PROVE  WinInv'
<1> USE DEF WinInv, WinTypeOK, DrawnInv
<1>1. /\ lastState' \in State /\ lastState' # NoState
      /\ UNCHANGED <<engine, keyArmed, killswitchArmed>>
      BY NoStateAssumption DEF PollEnds
<1>2. /\ shown' = [state |-> lastState', armed |-> killswitchArmed]
      /\ bound' \in {bound, lastState'}
      /\ lastState = NoState => bound' = lastState'
      BY <1>1 DEF PollEnds, Render, Patch, Paint
<1>3. snap' \in [Asyncs -> State]
      BY DEF PollEnds, Blank, State
<1>4. GoTypes
      BY DEF PollEnds, Go, Places, GoTypes, SentInv
<1> QED BY <1>1, <1>2, <1>3, <1>4 DEF GoTypes

LEMMA OtherStep ==
    ASSUME WinInv,
           TickBegins \/ KeyExpires \/ EngineChanges
           \/ \E h \in Handlers : Answer(h)
    PROVE  WinInv'
<1> USE DEF WinInv, WinTypeOK, DrawnInv
<1>1. UNCHANGED <<snap, lastState, bound, shown, killswitchArmed>>
      BY DEF TickBegins, KeyExpires, EngineChanges, Answer
<1>2. GoTypes
      BY DEF TickBegins, KeyExpires, EngineChanges, Answer, Go, Places, Asyncs,
             GoTypes, SentInv
<1>3. engine' \in [up : BOOLEAN, proxy : BOOLEAN, ks : BOOLEAN]
  <2>1. ASSUME NEW h \in Handlers, Answer(h)
        PROVE  engine' \in [up : BOOLEAN, proxy : BOOLEAN, ks : BOOLEAN]
    <3>1. what[h] \in Requests
          BY <2>1 DEF Answer, SentInv, Asyncs
    <3>2. engine' = engine \/ engine' = Wanted(what[h])
          BY <2>1 DEF Answer
    <3>3. ASSUME NEW r \in Requests
          PROVE  Wanted(r) \in [up : BOOLEAN, proxy : BOOLEAN, ks : BOOLEAN]
          BY DEF Wanted, Requests
    <3> QED BY <3>1, <3>2, <3>3
  <2> QED BY <2>1 DEF TickBegins, KeyExpires, EngineChanges
<1>4. keyArmed' \in BOOLEAN
      BY DEF TickBegins, KeyExpires, EngineChanges, Answer
<1> QED BY <1>1, <1>2, <1>3, <1>4 DEF GoTypes

LEMMA WinStep == WinInv /\ [WinNext]_winVars => WinInv'
<1> SUFFICES ASSUME WinInv, [WinNext]_winVars PROVE WinInv'
    OBVIOUS
<1>1. CASE UNCHANGED winVars
      BY <1>1 DEF winVars, WinInv, WinTypeOK, DrawnInv, SentInv
<1>2. ASSUME NEW h \in Handlers, HandlerSteps(h) PROVE WinInv'
      BY <1>2, PressStep, MessageStep, OtherStep DEF HandlerSteps
<1>3. ASSUME NEW a \in Asyncs, PollSteps(a) PROVE WinInv'
      BY <1>3, ReadStep, PollEndsStep DEF PollSteps
<1>4. CASE TickBegins \/ KeyExpires \/ EngineChanges
      BY <1>4, OtherStep
<1>5. CASE Escape
      BY <1>5, EscapeStep
<1>6. CASE Rerender \/ Retype
      BY <1>6, MessageStep
<1> QED BY <1>1, <1>2, <1>3, <1>4, <1>5, <1>6 DEF WinNext

\* The types of the window's controls, for any number of handlers that run at
\* a time.
THEOREM WinTypeCorrect == WinSpec => []WinTypeOK
<1>1. WinInv => WinTypeOK
      BY DEF WinInv
<1> QED BY WinInitInv, WinStep, <1>1, PTL DEF WinSpec

\* Whatever order polls, renders, clicks and keys come in, a click on KILL SWITCH
\* never enables the kill switch, a click on CONFIRM never only arms it, and a
\* click does what the button says while the page shows the switch as the
\* handlers are bound to it.
THEOREM ClickAsLabelledAlways == WinSpec => []ClickAsLabelled
<1>1. WinInv => ClickAsLabelled
      BY DEF WinInv, DrawnInv, ClickAsLabelled, Drawn, KsDoes, KsLabel
<1> QED BY WinInitInv, WinStep, <1>1, PTL DEF WinSpec

-----------------------------------------------------------------------------
(* ConfigDraft *)

Values == Texts \cup BOOLEAN \cup Profiles \cup {Untouched}

Touched == {f \in Fields : edits[f] # Untouched}

MaybeConfig == AppConfig \cup {Null}

\* The part of DraftTypeOK that the proofs need.
Types ==
    /\ file \in AppConfig
    /\ served \subseteq AppConfig
    /\ lastConfig \in MaybeConfig
    /\ boundConfig \in MaybeConfig
    /\ configDraft \in MaybeConfig
    /\ configSaving \in BOOLEAN
    /\ configError \in BOOLEAN
    /\ saveBtn \in BOOLEAN
    /\ raced \in BOOLEAN
    /\ edits \in [Fields -> Values]
    /\ saver \in [Savers -> {Idle} \cup Sent]

\* Unless an edit was made meanwhile, a save in flight carries all of them.
Carried == raced \/ \A s \in InFlight : Touched \subseteq saver[s].edits

DraftInv == Types /\ Carried /\ EditsKept /\ SaveOffered

-----------------------------------------------------------------------------
(* Helpers *)

LEMMA IdleIsNotSent == Idle \notin Sent
BY DEF Idle, Sent

LEMMA SaverIsSent ==
    ASSUME Types, NEW s \in InFlight
    PROVE  s \in Savers /\ saver[s] \in Sent
BY DEF Types, InFlight

LEMMA DefaultIsConfig == defaultConfig \in AppConfig
BY DEF defaultConfig, AppConfig, Texts, Profiles

LEMMA EnsureIsConfig ==
    ASSUME Types
    PROVE  /\ EnsureConfigDraft \in AppConfig
           /\ configDraft # Null => EnsureConfigDraft = configDraft
BY DefaultIsConfig DEF Types, EnsureConfigDraft, Or, MaybeConfig

LEMMA ProfileIsConfig ==
    ASSUME NEW p \in Profiles, NEW c \in AppConfig
    PROVE  /\ ApplyProfile(p, c) \in AppConfig
           /\ ApplyProfile(p, c).profile = p
           /\ ApplyProfile(p, c).upstream = c.upstream
           /\ p = "custom" => ApplyProfile(p, c).rotation = c.rotation
BY DEF ApplyProfile, AppConfig, Profiles

LEMMA PayloadIsConfig ==
    ASSUME Types, configDraft' \in MaybeConfig
    PROVE  Payload \in AppConfig
<1>1. Or(configDraft', boundConfig) \in MaybeConfig
      BY DEF Types, Or
<1>2. normalizeConfig(Or(configDraft', boundConfig)) \in AppConfig
      BY <1>1, DefaultIsConfig DEF normalizeConfig, Or, MaybeConfig
<1>3. \A c \in AppConfig : [c EXCEPT !.upstream = Trim(@)] \in AppConfig
      BY DEF AppConfig, Trim, Texts
<1> QED BY <1>2, <1>3 DEF Payload

LEMMA DraftInitInv == DraftInit => DraftInv
<1> SUFFICES ASSUME DraftInit
             PROVE  DraftInv
    OBVIOUS
<1>1. file \in AppConfig
      BY DEF DraftInit, defaultConfig, AppConfig, Texts, Profiles
<1>2. edits \in [Fields -> Values] /\ Touched = {}
      BY DEF DraftInit, NoEdits, Values, Touched
<1>3. Types
      BY <1>1, <1>2 DEF DraftInit, Types, MaybeConfig
<1>4. Carried /\ EditsKept /\ SaveOffered
      BY <1>2 DEF DraftInit, Carried, EditsKept, SaveOffered, Touched
<1> QED BY <1>3, <1>4 DEF DraftInv

-----------------------------------------------------------------------------
(* Edits *)

\* A step that puts v into field f of the draft and notes it as an edit.
LEMMA EditKeeps ==
    ASSUME DraftInv, NEW f \in Fields, NEW v, Edit(f, v),
           [EnsureConfigDraft EXCEPT ![f] = v] \in AppConfig, v \in Values,
           UNCHANGED saver
    PROVE  /\ configDraft' \in AppConfig
           /\ edits' \in [Fields -> Values]
           /\ raced' \in BOOLEAN
           /\ Carried' /\ EditsKept'
<1> USE DEF DraftInv, Edit, Note
<1>1. configDraft' \in AppConfig /\ configDraft' # Null
      BY NullAssumption
<1>2. edits' \in [Fields -> Values] /\ raced' \in BOOLEAN
      BY DEF Types
<1>3. raced' \/ (~raced /\ InFlight' = {})
      BY DEF Types, InFlight
<1>4. Carried'
      BY <1>2, <1>3 DEF Carried
<1>5. EditsKept'
  <2> SUFFICES ASSUME ~raced', NEW g \in Fields, edits'[g] # Untouched
               PROVE  configDraft'[g] = edits'[g]
      BY <1>1, <1>2 DEF EditsKept
  <2>1. EnsureConfigDraft \in AppConfig
        BY EnsureIsConfig
  <2>2. CASE g = f
        BY <2>1, <2>2 DEF Types, AppConfig, Fields
  <2>3. CASE g # f
    <3>1. edits'[g] = edits[g]
          BY <2>3 DEF Types
    <3>2. configDraft # Null /\ configDraft[g] = edits[g]
          BY <1>3, <3>1 DEF EditsKept
    <3>3. configDraft' = [configDraft EXCEPT ![f] = v]
          BY <3>2, EnsureIsConfig
    <3>4. configDraft \in AppConfig
          BY <3>2 DEF Types, MaybeConfig
    <3> QED BY <2>3, <3>1, <3>2, <3>3, <3>4 DEF AppConfig, Fields
  <2> QED BY <2>2, <2>3
<1> QED BY <1>1, <1>2, <1>4, <1>5

LEMMA TypeUpstreamStep ==
    ASSUME DraftInv, NEW t \in Texts, TypeUpstream(t) \/ Preset(t)
    PROVE  DraftInv'
<1>1. EnsureConfigDraft \in AppConfig
      BY EnsureIsConfig DEF DraftInv
<1>2. [EnsureConfigDraft EXCEPT !["upstream"] = t] \in AppConfig
      BY <1>1 DEF AppConfig
<1>3. Edit("upstream", t) /\ UNCHANGED saver
      BY DEF TypeUpstream, Preset
<1>4. /\ configDraft' \in AppConfig
      /\ edits' \in [Fields -> Values]
      /\ raced' \in BOOLEAN
      /\ Carried' /\ EditsKept'
      BY <1>2, <1>3, EditKeeps DEF Fields, Values
<1>5. Types' /\ SaveOffered'
      BY <1>4 DEF DraftInv, Types, MaybeConfig, SaveOffered, TypeUpstream,
                  Preset, DrawConfig
<1> QED BY <1>4, <1>5 DEF DraftInv

LEMMA ToggleStep ==
    ASSUME DraftInv, ToggleRotation
    PROVE  DraftInv'
<1> DEFINE v == ~EnsureConfigDraft.rotation
<1>1. EnsureConfigDraft \in AppConfig
      BY EnsureIsConfig DEF DraftInv
<1>2. v \in BOOLEAN
      BY <1>1 DEF AppConfig
<1>3. Edit("rotation", v) /\ UNCHANGED saver
      BY DEF ToggleRotation
<1> HIDE DEF v
<1>4. [EnsureConfigDraft EXCEPT !["rotation"] = v] \in AppConfig
      BY <1>1, <1>2 DEF AppConfig
<1>5. /\ configDraft' \in AppConfig
      /\ edits' \in [Fields -> Values]
      /\ raced' \in BOOLEAN
      /\ Carried' /\ EditsKept'
      BY <1>2, <1>3, <1>4, EditKeeps DEF Fields, Values
<1>6. Types' /\ SaveOffered'
      BY <1>5 DEF DraftInv, Types, MaybeConfig, SaveOffered, ToggleRotation
<1> QED BY <1>5, <1>6 DEF DraftInv

-----------------------------------------------------------------------------
(* Saves *)

\* What SaveBegins does, whatever its caller has done to the draft.
LEMMA SaveBeginsKeeps ==
    ASSUME DraftInv, NEW s \in Savers, NEW then \in Thens, SaveBegins(s, then),
           configDraft' \in MaybeConfig, edits' \in [Fields -> Values],
           raced' \in BOOLEAN,
           raced' \/ (~raced /\ (InFlight = {} \/ edits' = edits))
    PROVE  Types' /\ Carried' /\ SaveOffered'
<1> DEFINE sent == [at |-> "sent", payload |-> Payload, then |-> then,
                    ctx |-> IF then = "render" THEN boundConfig ELSE Null,
                    edits |-> {f \in Fields : edits'[f] # Untouched}]
<1> USE DEF DraftInv
<1>1. saver' = [saver EXCEPT ![s] = sent]
      BY DEF SaveBegins
<1>2. Payload \in AppConfig
      BY PayloadIsConfig
<1>3. boundConfig \in AppConfig \cup {Null}
      BY DEF Types, MaybeConfig
<1>4. sent \in Sent /\ sent.edits = Touched'
      BY <1>2, <1>3 DEF Sent, Touched
<1> HIDE DEF sent
<1>5. Types'
      BY <1>1, <1>4 DEF Types, SaveBegins, DrawMessage, DrawConfig
<1>6. Carried'
  <2> SUFFICES ASSUME ~raced', NEW u \in InFlight'
               PROVE  Touched' \subseteq saver'[u].edits
      BY DEF Carried
  <2>1. u \in Savers
        BY DEF InFlight
  <2>2. CASE u = s
        BY <1>1, <1>4, <2>1, <2>2 DEF Types
  <2>3. CASE u # s
    <3>1. saver'[u] = saver[u] /\ u \in InFlight
          BY <1>1, <2>1, <2>3 DEF Types, InFlight
    <3>2. edits' = edits /\ ~raced
          BY <3>1
    <3> QED BY <3>1, <3>2 DEF Carried, Touched
  <2> QED BY <2>2, <2>3
<1>7. SaveOffered'
      BY DEF SaveOffered, SaveBegins, DrawMessage, DrawConfig, Types
<1> QED BY <1>5, <1>6, <1>7

LEMMA DraftPressStep ==
    ASSUME DraftInv, NEW s \in Savers, PressSave(s) \/ PressOther(s)
    PROVE  DraftInv'
<1>1. /\ SaveBegins(s, "none")
      /\ UNCHANGED <<configDraft, edits, raced>>
      BY DEF PressSave, PressOther, Save
<1>2. Types' /\ Carried' /\ SaveOffered'
      BY <1>1, SaveBeginsKeeps DEF DraftInv, Types, Thens
<1>3. EditsKept'
      BY <1>1 DEF DraftInv, EditsKept
<1> QED BY <1>2, <1>3 DEF DraftInv

LEMMA ThemeStep ==
    ASSUME DraftInv, NEW s \in Savers, ChooseTheme(s)
    PROVE  DraftInv'
<1>1. /\ SaveBegins(s, "none")
      /\ configDraft' = EnsureConfigDraft
      /\ UNCHANGED <<edits, raced>>
      BY DEF ChooseTheme
<1>2. /\ EnsureConfigDraft \in AppConfig
      /\ configDraft # Null => EnsureConfigDraft = configDraft
      BY EnsureIsConfig DEF DraftInv
<1>3. Types' /\ Carried' /\ SaveOffered'
      BY <1>1, <1>2, SaveBeginsKeeps DEF DraftInv, Types, Thens, MaybeConfig
<1>4. EditsKept'
      BY <1>1, <1>2 DEF DraftInv, EditsKept
<1> QED BY <1>3, <1>4 DEF DraftInv

LEMMA ProfileStep ==
    ASSUME DraftInv, NEW s \in Savers, NEW p \in Profiles, ChooseProfile(s, p)
    PROVE  DraftInv'
<1> DEFINE d == ApplyProfile(p, EnsureConfigDraft)
<1>1. EnsureConfigDraft \in AppConfig
      BY EnsureIsConfig DEF DraftInv
<1>2. /\ d \in AppConfig
      /\ d.profile = p
      /\ d.upstream = EnsureConfigDraft.upstream
      /\ p = "custom" => d.rotation = EnsureConfigDraft.rotation
      BY <1>1, ProfileIsConfig
<1>3. /\ SaveBegins(s, "render")
      /\ configDraft' = d
      /\ edits' = [edits EXCEPT !["profile"] = p,
                                !["rotation"] = IF p = "custom" THEN @
                                                ELSE configDraft'.rotation]
      /\ raced' = (raced \/ InFlight # {})
      BY DEF ChooseProfile
<1> HIDE DEF d
<1>4. d.rotation \in BOOLEAN
      BY <1>2 DEF AppConfig
<1>5. edits' \in [Fields -> Values] /\ raced' \in BOOLEAN
      BY <1>3, <1>4 DEF DraftInv, Types, Fields, Values
<1>6. Types' /\ Carried' /\ SaveOffered'
      BY <1>2, <1>3, <1>5, SaveBeginsKeeps DEF Thens, MaybeConfig
<1>7. EditsKept'
  <2> SUFFICES ASSUME ~raced', NEW f \in Fields, edits'[f] # Untouched
               PROVE  configDraft' # Null /\ configDraft'[f] = edits'[f]
      BY DEF EditsKept
  <2>1. configDraft' # Null
        BY <1>2, <1>3, NullAssumption
  <2>2. edits[f] # Untouched => EnsureConfigDraft[f] = edits[f]
        BY <1>3, EnsureIsConfig DEF DraftInv, EditsKept
  <2>3. CASE f = "profile"
        BY <1>2, <1>3, <2>1, <2>3 DEF DraftInv, Types, Fields
  <2>4. CASE f = "rotation"
        BY <1>2, <1>3, <2>1, <2>2, <2>4 DEF DraftInv, Types, Fields
  <2>5. CASE f = "upstream"
        BY <1>2, <1>3, <2>1, <2>2, <2>5 DEF DraftInv, Types, Fields
  <2> QED BY <2>3, <2>4, <2>5 DEF Fields
<1> QED BY <1>6, <1>7 DEF DraftInv

LEMMA PutStep ==
    ASSUME DraftInv, NEW s \in Savers, Put(s)
    PROVE  DraftInv'
<1> USE DEF DraftInv
<1>1. s \in InFlight /\ saver[s] \in Sent
      BY SaverIsSent DEF Put
<1>2. PICK answer \in {"stored", "failed"} : PutAnswered(s, answer)
      BY DEF Put
<1>3. saver' = [saver EXCEPT ![s] = [saver[s] EXCEPT !.at = answer,
                                             !.payload = defaultConfig]]
      BY <1>2 DEF PutAnswered, Types
<1>4. saver'[s] \in Sent /\ saver'[s].edits = saver[s].edits
      BY <1>1, <1>2, <1>3, DefaultIsConfig DEF Types, Sent
<1>5. file' \in AppConfig
  <2>1. saver[s].payload \in AppConfig /\ saver[s].payload.profile \in Profiles
        BY <1>1 DEF Sent, AppConfig
  <2> QED BY <2>1, ProfileIsConfig DEF Put, Types
<1>6. saver' \in [Savers -> {Idle} \cup Sent]
      BY <1>3, <1>4 DEF Types
<1>7. \A u \in Savers \ {s} : saver'[u] = saver[u]
      BY <1>3 DEF Types
<1>8. Types' /\ EditsKept' /\ SaveOffered'
      BY <1>5, <1>6 DEF Put, Types, EditsKept, SaveOffered
<1>9. Carried'
      BY <1>1, <1>4, <1>7 DEF Put, Carried, InFlight, Touched
<1> QED BY <1>8, <1>9

LEMMA SavedStep ==
    ASSUME DraftInv, NEW s \in Savers, Saved(s)
    PROVE  DraftInv'
<1> USE DEF DraftInv
<1>1. s \in InFlight /\ saver[s] \in Sent
      BY SaverIsSent DEF Saved
<1>2. saver[s].ctx \in MaybeConfig
      BY <1>1 DEF Sent, MaybeConfig
<1>3. edits' \in [Fields -> Values]
      BY DEF Saved, Types, Values
<1>4. Types' /\ SaveOffered'
      BY <1>2, <1>3 DEF Saved, Types, MaybeConfig, DrawConfig, DrawMessage,
                        SaveOffered
<1>5. raced' \/ Touched' = {}
      BY <1>1 DEF Saved, Carried, Touched
<1>6. Carried' /\ EditsKept'
      BY <1>5 DEF Carried, EditsKept, Touched
<1> QED BY <1>4, <1>6

LEMMA FailedStep ==
    ASSUME DraftInv, NEW s \in Savers, SaveFailed(s)
    PROVE  DraftInv'
<1> USE DEF DraftInv
<1>1. s \in InFlight /\ saver[s] \in Sent
      BY SaverIsSent DEF SaveFailed
<1>2. saver[s].ctx \in MaybeConfig
      BY <1>1 DEF Sent, MaybeConfig
<1>3. Types' /\ SaveOffered' /\ EditsKept'
      BY <1>2 DEF SaveFailed, Types, DrawConfig, DrawMessage, SaveOffered,
                  EditsKept
<1>4. \A u \in InFlight' : u \in InFlight /\ saver'[u] = saver[u]
      BY DEF SaveFailed, InFlight, Types
<1>5. Carried'
      BY <1>4 DEF SaveFailed, Carried, Touched
<1> QED BY <1>3, <1>5

-----------------------------------------------------------------------------
(* The rest of the window, and of the core *)

LEMMA ReloadStep == DraftInv /\ Reload => DraftInv'
<1> SUFFICES ASSUME DraftInv, Reload
             PROVE  DraftInv'
    OBVIOUS
<1> USE DEF DraftInv, Reload
<1>1. edits' \in [Fields -> Values] /\ Touched' = {}
      BY DEF NoEdits, Values, Touched
<1>2. Types' /\ SaveOffered'
      BY <1>1 DEF Types, MaybeConfig, DrawMessage, DrawConfig, SaveOffered
<1>3. Carried' /\ EditsKept'
      BY <1>1 DEF Carried, EditsKept, Touched
<1> QED BY <1>2, <1>3

\* What a step may do that neither edits nor saves.
DrawsAtMost ==
    /\ UNCHANGED <<configDraft, configSaving, configError, saver, edits, raced>>
    /\ \/ UNCHANGED <<boundConfig, saveBtn>>
       \/ \E c \in MaybeConfig : DrawConfig(c, configSaving)
    /\ lastConfig' \in MaybeConfig
    /\ file' \in AppConfig
    /\ served' \subseteq served \cup {file'}

LEMMA DrawsAtMostStep == DraftInv /\ DrawsAtMost => DraftInv'
<1> SUFFICES ASSUME DraftInv, DrawsAtMost
             PROVE  DraftInv'
    OBVIOUS
<1> USE DEF DraftInv, DrawsAtMost
<1>1. Types' /\ SaveOffered'
      BY DEF Types, SaveOffered, DrawConfig
<1>2. Carried' /\ EditsKept'
      BY DEF Carried, EditsKept, Touched, InFlight
<1> QED BY <1>1, <1>2

LEMMA DraftOtherStep ==
    ASSUME DraftInv,
           \/ RedrawConfig
           \/ \E full \in BOOLEAN : ConfigPolled(full)
           \/ Switch("")
           \/ UNCHANGED draftVars
    PROVE  DraftInv'
<1> USE DEF DraftInv, DrawsAtMost
<1>1. CASE RedrawConfig
  <2>1. DrawsAtMost
        BY <1>1 DEF RedrawConfig, Types
  <2> QED BY <2>1, DrawsAtMostStep
<1>2. ASSUME NEW full \in BOOLEAN, ConfigPolled(full)
      PROVE  DraftInv'
  <2>1. lastConfig' \in MaybeConfig
        BY <1>2 DEF ConfigPolled, Types, MaybeConfig
  <2>2. \/ UNCHANGED <<boundConfig, saveBtn>>
        \/ DrawConfig(lastConfig', configSaving)
        BY <1>2 DEF ConfigPolled
  <2>3. DrawsAtMost
        BY <1>2, <2>1, <2>2 DEF ConfigPolled, Types
  <2> QED BY <2>3, DrawsAtMostStep
<1>3. CASE Switch("")
  <2>1. file' \in AppConfig
        BY <1>3 DEF Switch, Types, AppConfig, Texts
  <2>2. DrawsAtMost
        BY <1>3, <2>1 DEF Switch, Types
  <2> QED BY <2>2, DrawsAtMostStep
<1>4. CASE UNCHANGED draftVars
  <2>1. DrawsAtMost
        BY <1>4 DEF draftVars, Types
  <2> QED BY <2>1, DrawsAtMostStep
<1> QED BY <1>1, <1>2, <1>3, <1>4

LEMMA DraftStep == DraftInv /\ [DraftNext]_draftVars => DraftInv'
BY TypeUpstreamStep, ToggleStep, DraftPressStep, ThemeStep, ProfileStep, PutStep,
   SavedStep, FailedStep, ReloadStep, DraftOtherStep DEF DraftNext, WindowSteps

LEMMA DraftInvariant == DraftSpec => []DraftInv
BY DraftInitInv, DraftStep, PTL DEF DraftSpec

-----------------------------------------------------------------------------

\* No poll, render, failed save or other edit loses what the user typed or
\* switched before it was stored; only an edit made during a save can be lost
\* with that save's draft (saveConfig, main.ts).
THEOREM EditsKeptAlways == DraftSpec => []EditsKept
<1>1. DraftInv => EditsKept
      BY DEF DraftInv
<1> QED BY <1>1, DraftInvariant, PTL

\* SAVE is disabled while configSaving is set, and offered again after it unless
\* the error of a failed save is shown, however saves overlap.
THEOREM SaveOfferedAlways == DraftSpec => []SaveOffered
<1>1. DraftInv => SaveOffered
      BY DEF DraftInv
<1> QED BY <1>1, DraftInvariant, PTL

-----------------------------------------------------------------------------
(* Types of the edits *)

\* What a field of the configuration can be.
ValuesOf(f) == {c[f] : c \in AppConfig}

\* An edit is a value of its field, and the writes stay within their bound.
NotedInv ==
    /\ \A f \in Fields : edits[f] \in ValuesOf(f) \cup {Untouched}
    /\ writes \in 0..MaxWrites

\* What a field of a configuration holds is a value of that field.
LEMMA FieldValue ==
    ASSUME NEW c \in AppConfig, NEW f \in Fields
    PROVE  c[f] \in ValuesOf(f)
BY DEF ValuesOf

LEMMA NotedInit == DraftInit => NotedInv
BY DraftAssumption DEF DraftInit, NotedInv, NoEdits

\* An edit, whichever field it is of.
LEMMA EditNoted ==
    ASSUME DraftInv, NotedInv, NEW f \in Fields, NEW v, Edit(f, v),
           [EnsureConfigDraft EXCEPT ![f] = v] \in AppConfig
    PROVE  \A g \in Fields : edits'[g] \in ValuesOf(g) \cup {Untouched}
<1> DEFINE c == [EnsureConfigDraft EXCEPT ![f] = v]
<1>1. EnsureConfigDraft \in AppConfig
      BY EnsureIsConfig DEF DraftInv
<1>2. c[f] = v
      BY <1>1 DEF AppConfig, Fields
<1>3. v \in ValuesOf(f)
  <2> HIDE DEF c
  <2> QED BY <1>2, FieldValue DEF c
<1>4. edits' = [edits EXCEPT ![f] = v]
      BY DEF Edit, Note
<1> QED BY <1>3, <1>4 DEF NotedInv, DraftInv, Types

\* A profile is an edit of two fields.
LEMMA ProfileNoted ==
    ASSUME DraftInv, NotedInv, NEW s \in Savers, NEW p \in Profiles,
           ChooseProfile(s, p)
    PROVE  \A g \in Fields : edits'[g] \in ValuesOf(g) \cup {Untouched}
<1>1. EnsureConfigDraft \in AppConfig
      BY EnsureIsConfig DEF DraftInv
<1>2. /\ configDraft' \in AppConfig
      /\ configDraft'.profile = p
      BY <1>1, ProfileIsConfig DEF ChooseProfile
<1>3. /\ p \in ValuesOf("profile")
      /\ configDraft'.rotation \in ValuesOf("rotation")
      BY <1>2, FieldValue DEF Fields
<1>4. /\ DOMAIN edits' = DOMAIN edits
      /\ edits'["profile"] = p
      /\ edits'["rotation"] \in {edits["rotation"], configDraft'.rotation}
      /\ edits'["upstream"] = edits["upstream"]
      BY DEF ChooseProfile, DraftInv, Types, Fields
<1> QED BY <1>3, <1>4 DEF NotedInv, Fields

LEMMA NotedStep ==
    DraftInv /\ NotedInv /\ [DraftNext]_draftVars => NotedInv'
<1> SUFFICES ASSUME DraftInv, NotedInv, [DraftNext]_draftVars
             PROVE  NotedInv'
    OBVIOUS
<1>1. CountWrite => writes' \in 0..MaxWrites
      BY DraftAssumption DEF CountWrite, NotedInv
<1>2. EnsureConfigDraft \in AppConfig
      BY EnsureIsConfig DEF DraftInv
<1>3. ASSUME NEW t \in Texts, TypeUpstream(t) \/ Preset(t)
      PROVE  NotedInv'
  <2>1. Edit("upstream", t) /\ CountWrite
        BY <1>3 DEF TypeUpstream, Preset, Edit, Note
  <2>2. [EnsureConfigDraft EXCEPT !["upstream"] = t] \in AppConfig
        BY <1>2 DEF AppConfig
  <2>3. \A g \in Fields : edits'[g] \in ValuesOf(g) \cup {Untouched}
        BY <2>1, <2>2, EditNoted DEF Fields
  <2> QED BY <1>1, <2>1, <2>3 DEF NotedInv
<1>4. CASE ToggleRotation
  <2> DEFINE v == ~EnsureConfigDraft.rotation
  <2>1. Edit("rotation", v) /\ CountWrite /\ v \in BOOLEAN
        BY <1>4 DEF ToggleRotation, Edit, Note
  <2> HIDE DEF v
  <2>2. [EnsureConfigDraft EXCEPT !["rotation"] = v] \in AppConfig
        BY <1>2, <2>1 DEF AppConfig
  <2>3. \A g \in Fields : edits'[g] \in ValuesOf(g) \cup {Untouched}
        BY <2>1, <2>2, EditNoted DEF Fields
  <2> QED BY <1>1, <2>1, <2>3 DEF NotedInv
<1>5. ASSUME NEW s \in Savers, NEW p \in Profiles, ChooseProfile(s, p)
      PROVE  NotedInv'
      BY <1>1, <1>5, ProfileNoted DEF ChooseProfile, NotedInv
<1>6. ASSUME NEW s \in Savers, Saved(s)
      PROVE  NotedInv'
      BY <1>6 DEF Saved, NotedInv
<1>7. CASE Reload
      BY <1>7 DEF Reload, NoEdits, NotedInv
<1>8. ASSUME \/ \E s \in Savers : PressSave(s) \/ PressOther(s) \/ ChooseTheme(s)
             \/ \E s \in Savers : Put(s) \/ SaveFailed(s)
             \/ RedrawConfig \/ Switch("") \/ UNCHANGED draftVars
             \/ \E full \in BOOLEAN : ConfigPolled(full)
      PROVE  NotedInv'
  <2>1. edits' = edits /\ (writes' = writes \/ CountWrite)
        BY <1>8 DEF PressSave, PressOther, Save, ChooseTheme, Put, SaveFailed,
           RedrawConfig, Switch, ConfigPolled, draftVars
  <2> QED BY <1>1, <2>1 DEF NotedInv
<1> QED BY <1>3, <1>4, <1>5, <1>6, <1>7, <1>8 DEF DraftNext, WindowSteps

-----------------------------------------------------------------------------
(* ChainEditor *)

\* What an element of the array can be.
Elements == Hops \cup {Undefined, Hole}

\* Until a row without a hop is used, the array holds hops and nothing else.
ChainInv == ChainTypeOK /\ (~overrun => chain \in Seq(Hops))

\* A sequence is what its domain and elements are.
LEMMA ArrayOf ==
    ASSUME NEW S, NEW n \in Nat, NEW f \in [1..n -> S]
    PROVE  f \in Seq(S) /\ Len(f) = n /\ DOMAIN f = 1..n
<1>1. f \in Seq(S) /\ DOMAIN f = 1..n
  OBVIOUS
<1> QED
  BY <1>1

\* Spreading keeps the length, and an array without holes.
LEMMA SpreadFacts ==
    ASSUME NEW s \in Seq(Elements)
    PROVE  /\ Spread(s) \in Seq(Elements)
           /\ Len(Spread(s)) = Len(s)
           /\ s \in Seq(Hops) => Spread(s) \in Seq(Hops)
<1>1. Len(s) \in Nat /\ DOMAIN s = 1..Len(s)
  OBVIOUS
<1>2. Spread(s) \in [1..Len(s) -> Elements]
  BY <1>1 DEF Spread, Elements
<1>3. s \in Seq(Hops) => Spread(s) \in [1..Len(s) -> Hops]
  BY <1>1, ChainAssumption DEF Spread
<1> QED
  BY <1>1, <1>2, <1>3, ArrayOf

\* Writing at an index that the array has.
LEMMA AssignInside ==
    ASSUME NEW S, NEW s \in Seq(S), NEW i \in 1..Len(s), NEW v \in S
    PROVE  Assign(s, i, v) \in Seq(S) /\ Len(Assign(s, i, v)) = Len(s)
<1>1. Len(s) \in Nat /\ DOMAIN s = 1..Len(s) /\ ~(i > Len(s))
  OBVIOUS
<1>2. Assign(s, i, v) \in [1..Len(s) -> S]
  BY <1>1 DEF Assign
<1> QED
  BY <1>1, <1>2, ArrayOf

\* Writing anywhere: the holes are elements, and the array may have grown.
LEMMA AssignAnywhere ==
    ASSUME NEW s \in Seq(Elements), NEW i \in 1..MaxHops, NEW v \in Elements,
           Len(s) <= MaxHops
    PROVE  /\ Assign(s, i, v) \in Seq(Elements)
           /\ Len(Assign(s, i, v)) = (IF i > Len(s) THEN i ELSE Len(s))
<1> DEFINE n == IF i > Len(s) THEN i ELSE Len(s)
<1>1. Len(s) \in Nat /\ DOMAIN s = 1..Len(s) /\ n \in Nat
  BY ChainAssumption
<1>2. Assign(s, i, v) \in [1..n -> Elements]
  BY <1>1 DEF Assign, Elements
<1> QED
  BY <1>1, <1>2, ArrayOf

\* What the core has stored: no hop, or one.
LEMMA StoredChain ==
    ASSUME NEW c \in {<<>>} \cup {<<h>> : h \in Hops}
    PROVE  /\ c \in Seq(Hops) /\ c \in Seq(Elements)
           /\ Len(c) <= MaxHops
           /\ DOMAIN c \subseteq 1..MaxHops
<1>1. CASE c = <<>>
  BY <1>1, ChainAssumption
<1>2. ASSUME NEW h \in Hops, c = <<h>>
      PROVE  /\ c \in Seq(Hops) /\ c \in Seq(Elements)
             /\ Len(c) <= MaxHops
             /\ DOMAIN c \subseteq 1..MaxHops
  <2>1. c \in Seq(Hops) /\ c \in Seq(Elements)
    BY <1>2 DEF Elements
  <2>2. Len(c) = 1 /\ DOMAIN c = 1..1
    BY <1>2
  <2> QED
    BY <2>1, <2>2, ChainAssumption
<1> QED
  BY <1>1, <1>2

\* At first the page shows what the core has stored.
LEMMA ChainInitInv == ChainInit => ChainInv
<1> SUFFICES ASSUME ChainInit PROVE ChainInv
  OBVIOUS
<1>1. /\ chain \in Seq(Hops) /\ chain \in Seq(Elements)
      /\ Len(chain) <= MaxHops
      /\ DOMAIN chain \subseteq 1..MaxHops
  BY StoredChain DEF ChainInit
<1> QED
  BY <1>1 DEF ChainInit, ChainInv, ChainTypeOK, Elements

\* The steps of the user, and of the page
LEMMA InputStep ==
    ASSUME ChainInv, NEW i \in 1..MaxHops, NEW h \in Hops, Input(i, h)
    PROVE  ChainInv'
<1> DEFINE s == Spread(chain)
<1>1. /\ chain \in Seq(Elements) /\ Len(chain) <= MaxHops
      /\ Len(chain) \in Nat /\ h \in Elements /\ overrun \in BOOLEAN
  BY DEF ChainInv, ChainTypeOK, Elements
<1>2. /\ s \in Seq(Elements) /\ Len(s) = Len(chain)
      /\ chain \in Seq(Hops) => s \in Seq(Hops)
  BY <1>1, SpreadFacts
<1>3. chain' = Assign(s, i, h)
  BY DEF Input
<1> HIDE DEF s
<1>4. chain' \in Seq(Elements) /\ Len(chain') <= MaxHops
  <2>1. i \in Nat /\ i <= MaxHops
    BY ChainAssumption
  <2>2. /\ chain' \in Seq(Elements)
        /\ Len(chain') = IF i > Len(s) THEN i ELSE Len(s)
    BY <1>1, <1>2, <1>3, AssignAnywhere
  <2> QED
    BY <1>1, <1>2, <2>1, <2>2
<1>5. ASSUME ~overrun' PROVE chain' \in Seq(Hops)
  <2>1. ~overrun /\ i \in 1..Len(s)
    <3>1. ~overrun /\ ~(i > Len(chain))
      BY <1>5 DEF Input, Use
    <3> QED
      BY <1>1, <1>2, <3>1, ChainAssumption
  <2>2. s \in Seq(Hops)
    BY <1>2, <2>1 DEF ChainInv
  <2> QED
    BY <1>3, <2>1, <2>2, AssignInside
<1> QED
  BY <1>1, <1>4, <1>5
  DEF Input, Use, ChainInv, ChainTypeOK, Elements

\* Two neighbours change places; the second may be past the end.
LEMMA SwapFacts ==
    ASSUME NEW s \in Seq(Elements), NEW i \in 1..MaxHops, i + 1 <= MaxHops,
           Len(s) <= MaxHops
    PROVE  /\ Swap(s, i, i + 1) \in Seq(Elements)
           /\ Len(Swap(s, i, i + 1)) <= MaxHops
           /\ s \in Seq(Hops) /\ i + 1 <= Len(s) =>
                 Swap(s, i, i + 1) \in Seq(Hops)
<1> DEFINE t == Assign(s, i, At(s, i + 1))
<1>1. /\ At(s, i) \in Elements /\ At(s, i + 1) \in Elements
      /\ i + 1 \in 1..MaxHops /\ MaxHops \in Nat /\ Len(s) \in Nat
  BY ChainAssumption DEF At, Elements
<1>2. /\ t \in Seq(Elements)
      /\ Len(t) = IF i > Len(s) THEN i ELSE Len(s)
  BY <1>1, AssignAnywhere
<1>3. Swap(s, i, i + 1) = Assign(t, i + 1, At(s, i))
  BY DEF Swap
<1> HIDE DEF t
<1>4. Len(t) <= MaxHops /\ Len(t) \in Nat
  BY <1>1, <1>2
<1>5. /\ Swap(s, i, i + 1) \in Seq(Elements)
      /\ Len(Swap(s, i, i + 1)) = IF i + 1 > Len(t) THEN i + 1 ELSE Len(t)
  <2> DEFINE j == i + 1
             v == At(s, i)
  <2>1. j \in 1..MaxHops /\ v \in Elements
    BY <1>1
  <2> HIDE DEF j, v
  <2>2. /\ Assign(t, j, v) \in Seq(Elements)
        /\ Len(Assign(t, j, v)) = IF j > Len(t) THEN j ELSE Len(t)
    BY <1>2, <1>4, <2>1, AssignAnywhere
  <2> QED
    BY <1>3, <2>2 DEF j, v
<1>6. ASSUME s \in Seq(Hops), i + 1 <= Len(s)
      PROVE  Swap(s, i, i + 1) \in Seq(Hops)
  <2>1. i \in 1..Len(s) /\ i + 1 \in 1..Len(s)
    BY <1>1, <1>6
  <2>2. At(s, i) \in Hops /\ At(s, i + 1) \in Hops
    BY <1>6, <2>1 DEF At
  <2>3. t \in Seq(Hops) /\ Len(t) = Len(s)
    BY <1>6, <2>1, <2>2, AssignInside DEF t
  <2> QED
    BY <1>3, <2>1, <2>2, <2>3, AssignInside
<1> QED
  BY <1>1, <1>4, <1>5, <1>6

LEMMA SwapStep ==
    ASSUME ChainInv, NEW i \in 1..MaxHops, i + 1 <= MaxHops,
           chain' = Swap(Spread(chain), i, i + 1),
           overrun' \in BOOLEAN,
           ~overrun' => ~overrun /\ i + 1 <= Len(chain),
           rows' = rows
    PROVE  ChainInv'
<1> DEFINE s == Spread(chain)
<1>1. chain \in Seq(Elements) /\ Len(chain) <= MaxHops
  BY DEF ChainInv, ChainTypeOK, Elements
<1>2. /\ s \in Seq(Elements) /\ Len(s) = Len(chain)
      /\ chain \in Seq(Hops) => s \in Seq(Hops)
  BY <1>1, SpreadFacts
<1> HIDE DEF s
<1>3. /\ Swap(s, i, i + 1) \in Seq(Elements)
      /\ Len(Swap(s, i, i + 1)) <= MaxHops
      /\ s \in Seq(Hops) /\ i + 1 <= Len(s) =>
            Swap(s, i, i + 1) \in Seq(Hops)
  BY <1>1, <1>2, SwapFacts
<1> QED
  BY <1>1, <1>2, <1>3 DEF s, ChainInv, ChainTypeOK, Elements

LEMMA UpStep ==
    ASSUME ChainInv, NEW i \in 1..MaxHops, Up(i)
    PROVE  ChainInv'
<1> DEFINE j == i - 1
<1>1. j \in 1..MaxHops /\ j + 1 = i /\ j + 1 <= MaxHops
  BY ChainAssumption DEF Up
<1>2. /\ chain' = Swap(Spread(chain), j, i)
      /\ overrun' = (overrun \/ i > Len(chain)) /\ rows' = rows
  BY DEF Up, Use
<1>3. overrun \in BOOLEAN /\ Len(chain) \in Nat
  BY DEF ChainInv, ChainTypeOK
<1> HIDE DEF j
<1>4. /\ chain' = Swap(Spread(chain), j, j + 1)
      /\ overrun' \in BOOLEAN
      /\ ~overrun' => ~overrun /\ j + 1 <= Len(chain)
  <2>1. chain' = Swap(Spread(chain), j, j + 1) /\ overrun' \in BOOLEAN
    BY <1>1, <1>2
  <2>2. ~overrun' => ~overrun /\ ~(i > Len(chain))
    BY <1>2
  <2>3. ~(i > Len(chain)) => j + 1 <= Len(chain)
    BY <1>1, <1>3, ChainAssumption
  <2> QED
    BY <2>1, <2>2, <2>3
<1> QED
  BY <1>1, <1>2, <1>4, SwapStep

LEMMA DownStep ==
    ASSUME ChainInv, NEW i \in 1..MaxHops, Down(i)
    PROVE  ChainInv'
<1>1. Len(chain) \in Nat /\ Len(chain) <= MaxHops /\ overrun \in BOOLEAN
  BY DEF ChainInv, ChainTypeOK
<1>2. /\ i + 1 <= MaxHops /\ i + 1 <= Len(chain)
      /\ chain' = Swap(Spread(chain), i, i + 1)
      /\ overrun' = overrun /\ rows' = rows
  BY <1>1, ChainAssumption DEF Down
<1> QED
  BY <1>1, <1>2, SwapStep

LEMMA DelStep ==
    ASSUME ChainInv, NEW i \in 1..MaxHops, Del(i)
    PROVE  ChainInv'
<1> DEFINE K == {k \in DOMAIN chain : k # i /\ chain[k] # Hole}
<1>1. /\ chain \in Seq(Elements) /\ Len(chain) <= MaxHops
      /\ K \in SUBSET DOMAIN chain /\ MaxHops \in Nat /\ Len(chain) \in Nat
  BY ChainAssumption DEF ChainInv, ChainTypeOK, Elements
<1>2. chain' = Filter(chain, K) /\ UNCHANGED <<rows, overrun>>
  BY DEF Del
<1> HIDE DEF K
<1>3. chain' \in Seq(Elements) /\ Len(chain') \in 0..Len(chain)
  BY <1>1, <1>2, FilterProperties
<1>4. chain \in Seq(Hops) => chain' \in Seq(Hops)
  BY <1>1, <1>2, FilterProperties
<1> QED
  BY <1>1, <1>2, <1>3, <1>4 DEF ChainInv, ChainTypeOK, Elements

LEMMA AddStep ==
    ASSUME ChainInv, NEW h \in Hops, Add(h)
    PROVE  ChainInv'
<1> DEFINE s == Spread(chain)
<1>1. chain \in Seq(Elements) /\ Len(chain) < MaxHops /\ h \in Elements
      /\ MaxHops \in Nat
  BY ChainAssumption DEF ChainInv, ChainTypeOK, Elements, Add
<1>2. /\ s \in Seq(Elements) /\ Len(s) = Len(chain)
      /\ chain \in Seq(Hops) => s \in Seq(Hops)
  BY <1>1, SpreadFacts
<1>3. chain' = Append(s, h) /\ UNCHANGED <<rows, overrun>>
  BY DEF Add
<1> HIDE DEF s
<1>4. chain' \in Seq(Elements) /\ Len(chain') <= MaxHops
  <2>1. chain' \in Seq(Elements) /\ Len(chain') = Len(s) + 1
    BY <1>1, <1>2, <1>3
  <2>2. Len(s) \in Nat
    BY <1>2
  <2> QED
    BY <1>1, <1>2, <2>1, <2>2
<1>5. chain \in Seq(Hops) => chain' \in Seq(Hops)
  BY <1>2, <1>3
<1> QED
  BY <1>3, <1>4, <1>5 DEF ChainInv, ChainTypeOK, Elements

LEMMA DrawChainStep == ChainInv /\ DrawChain => ChainInv'
<1> SUFFICES ASSUME ChainInv, DrawChain PROVE ChainInv'
  OBVIOUS
<1>1. DOMAIN chain \subseteq 1..MaxHops
  BY ChainAssumption DEF ChainInv, ChainTypeOK
<1> QED
  BY <1>1 DEF DrawChain, ChainInv, ChainTypeOK

LEMMA LoadChainStep == ChainInv /\ LoadChain => ChainInv'
<1> SUFFICES ASSUME LoadChain PROVE ChainInv'
  OBVIOUS
<1>1. /\ chain' \in Seq(Hops) /\ chain' \in Seq(Elements)
      /\ Len(chain') <= MaxHops
      /\ DOMAIN chain' \subseteq 1..MaxHops
  BY StoredChain DEF LoadChain
<1> QED
  BY <1>1 DEF LoadChain, ChainInv, ChainTypeOK, Elements

LEMMA ChainStep == ChainInv /\ [ChainNext]_chainVars => ChainInv'
<1>1. CASE UNCHANGED chainVars
  BY <1>1 DEF chainVars, ChainInv, ChainTypeOK
<1> QED
  BY <1>1, InputStep, UpStep, DownStep, DelStep, AddStep, DrawChainStep,
     LoadChainStep DEF ChainNext

\* Unless a row whose hop was deleted has been used, every element of the chain
\* is a hop the user entered: UP, DOWN, DEL and ADD put no undefined and no hole
\* among them, whatever rows are still on the page.  Which hop a stale row moves
\* or deletes is not said.
THEOREM ChainOfHopsAlways == ChainSpec => []ChainOfHops
<1>1. ChainInv => ChainOfHops
  BY DEF ChainInv, ChainOfHops, ToSet
<1> QED
  BY <1>1, ChainInitInv, ChainStep, PTL DEF ChainSpec

-----------------------------------------------------------------------------
(* TrafficHistory *)

\* What the polls and the history hold.
Asked == [at : {"asked"}, taken_at : 1..MaxTime, connections : Answers]

\* Sightings of one connection have one time, by index.
HistoryInv ==
    /\ Len(trafficHistory) <= HistoryMax
    /\ \A i, j \in DOMAIN trafficHistory :
          trafficHistory[i].conn = trafficHistory[j].conn =>
              trafficHistory[i].seen_at = trafficHistory[j].seen_at

TrafficInv == TrafficTypeOK /\ HistoryInv

\* slice keeps a part of the sequence, from its start.
LEMMA CutFacts ==
    ASSUME NEW S, NEW s \in Seq(S), NEW n \in Nat
    PROVE  /\ Cut(s, n) \in Seq(S)
           /\ Len(Cut(s, n)) <= n
           /\ Len(Cut(s, n)) <= Len(s)
           /\ \A i \in DOMAIN Cut(s, n) : i \in DOMAIN s /\ Cut(s, n)[i] = s[i]
<1> DEFINE m == Min({n, Len(s)})
<1>1. m \in Nat /\ m <= n /\ m <= Len(s)
  <2>1. Len(s) \in Nat
    OBVIOUS
  <2>2. \E x \in {n, Len(s)} : \A y \in {n, Len(s)} : x <= y
    BY <2>1
  <2>3. m \in {n, Len(s)} /\ \A y \in {n, Len(s)} : m <= y
    BY <2>2 DEF Min
  <2> QED
    BY <2>1, <2>3
<1>2. Cut(s, n) = SubSeq(s, 1, m)
  BY DEF Cut
<1> HIDE DEF m
<1>3. /\ SubSeq(s, 1, m) \in Seq(S)
      /\ Len(SubSeq(s, 1, m)) = m
      /\ \A i \in 1..m : SubSeq(s, 1, m)[i] = s[i]
  BY <1>1
<1>4. DOMAIN SubSeq(s, 1, m) = 1..m /\ 1..m \subseteq DOMAIN s
  BY <1>1, <1>3
<1> QED
  BY <1>1, <1>2, <1>3, <1>4

\* Of an answer, the connections that the history does not have.
LEMMA FreshFacts ==
    ASSUME NEW answer \in Seq(Conns), NEW t, trafficHistory \in Seq(Sightings)
    PROVE  /\ Fresh(answer, t) \in Seq(Conns)
           /\ \A n \in DOMAIN Fresh(answer, t) : \A i \in DOMAIN trafficHistory :
                 trafficHistory[i].conn # Fresh(answer, t)[n]
<1> DEFINE K == {i \in DOMAIN answer :
                   \A e \in ToSet(trafficHistory) : e.conn # answer[i]}
<1>1. K \in SUBSET DOMAIN answer /\ Fresh(answer, t) = Filter(answer, K)
  BY DEF Fresh
<1>2. \A k \in K : \A i \in DOMAIN trafficHistory :
         trafficHistory[i].conn # answer[k]
  BY DEF ToSet
<1> HIDE DEF K
<1>3. /\ Filter(answer, K) \in Seq(Conns)
      /\ \A n \in DOMAIN Filter(answer, K) :
            \E k \in K : Filter(answer, K)[n] = answer[k]
  BY <1>1, FilterProperties
<1> QED
  BY <1>1, <1>2, <1>3

-----------------------------------------------------------------------------
(* What is drawn *)

\* What TrafficTypeOK says of the page.
PageOK ==
    /\ ToSet(page.rows) \subseteq Sightings
    /\ \A item \in page.items : item.count > 0

\* The rows of the dashboard are sightings.
LEMMA RowsFacts ==
    ASSUME NEW h \in Seq(Sightings), NEW f
    PROVE  ToSet(ConnectionRows(h, f)) \subseteq Sightings
<1> DEFINE K == {i \in DOMAIN h : h[i].conn \in f}
<1>1. K \in SUBSET DOMAIN h /\ Shown(h, f) = Filter(h, K)
  BY DEF Shown
<1> HIDE DEF K
<1>2. Shown(h, f) \in Seq(Sightings)
  BY <1>1, FilterProperties
<1>3. RowsMax \in Nat
  BY TrafficAssumption
<1>4. ConnectionRows(h, f) \in Seq(Sightings)
  BY <1>2, <1>3, CutFacts DEF ConnectionRows
<1> QED
  BY <1>4 DEF ToSet

\* An address in the tracker view was seen at least once.
LEMMA ItemsFacts ==
    ASSUME NEW h \in Seq(Sightings)
    PROVE  \A item \in TrackerItems(h) : item.count > 0
<1> SUFFICES ASSUME NEW item \in TrackerItems(h)
             PROVE  item.count > 0
  OBVIOUS
<1>1. PICK ip \in {IpOf[e.conn] : e \in ToSet(h)} :
         item.count = Cardinality(Hits(h, ip))
  <2> DEFINE
        ips == {IpOf[e.conn] : e \in ToSet(h)} \ {Private}
        it(ip) == [ip |-> ip, count |-> Cardinality(Hits(h, ip)),
                   last_seen |-> Max({h[i].seen_at : i \in Hits(h, ip)})]
        before(x, y) ==
          \/ it(x).count > it(y).count
          \/ /\ it(x).count = it(y).count
             /\ Min(Hits(h, x)) < Min(Hits(h, y))
        few(y) == Cardinality({x \in ips : before(x, y)}) < ItemsMax
  <2>1. TrackerItems(h) = {it(ip) : ip \in {y \in ips : few(y)}}
    BY DEF TrackerItems
  <2> HIDE DEF few, before
  <2>2. PICK ip \in ips : item = it(ip)
    BY <2>1
  <2> QED
    BY <2>2
<1>2. PICK i \in DOMAIN h : IpOf[h[i].conn] = ip
  BY <1>1 DEF ToSet
<1>3. Hits(h, ip) \in SUBSET (1..Len(h)) /\ Len(h) \in Nat /\ i \in Hits(h, ip)
  BY <1>2 DEF Hits
<1> DEFINE K == Hits(h, ip)
<1> HIDE DEF K
<1>4. IsFiniteSet(K) /\ Cardinality(K) \in Nat
  BY <1>3, IndicesFinite DEF K
<1>5. Cardinality(K) # 0
  BY <1>3, <1>4, FS_EmptySet DEF K
<1> QED
  BY <1>1, <1>4, <1>5 DEF K

\* render() draws what is in the history.
LEMMA DrawFacts ==
    ASSUME trafficHistory' \in Seq(Sightings), DrawTraffic
    PROVE  PageOK'
<1>1. ToSet(<<>>) = {}
  BY DEF ToSet
<1>2. ToSet(page'.rows) \subseteq Sightings
  BY <1>1, RowsFacts DEF DrawTraffic
<1>3. \A item \in page'.items : item.count > 0
  BY ItemsFacts DEF DrawTraffic
<1> QED
  BY <1>2, <1>3 DEF PageOK

-----------------------------------------------------------------------------

\* The window opens with an empty history.
LEMMA TrafficInitInv == TrafficInit => TrafficInv
<1> SUFFICES ASSUME TrafficInit PROVE TrafficInv
  OBVIOUS
<1> USE DEF TrafficInit
<1>1. clock \in 1..MaxTime
  BY TrafficAssumption
<1>2. poller \in [Pollers -> {Resting, Ending} \cup Asked]
  OBVIOUS
<1>3. trafficHistory \in Seq(Sightings) /\ HistoryInv
  BY TrafficAssumption DEF HistoryInv
<1>4. PageOK
  BY DEF PageOK, ToSet
<1> QED
  BY <1>1, <1>2, <1>3, <1>4, TrafficAssumption
  DEF TrafficInv, TrafficTypeOK, TrafficViews, PageOK, Asked

\* A poll that has asked has an answer on its way.
LEMMA AskedFacts ==
    ASSUME TrafficInv, NEW p \in Pollers, poller[p].at = "asked"
    PROVE  poller[p] \in Asked
<1>1. poller[p] \in {Resting, Ending} \cup Asked
  BY DEF TrafficInv, TrafficTypeOK, Asked
<1>2. Resting.at # "asked" /\ Ending.at # "asked"
  BY DEF Resting, Ending
<1> QED
  BY <1>1, <1>2

\* The steps of a poll
LEMMA AskStep ==
    ASSUME TrafficInv, NEW p \in Pollers, NEW answer \in Answers, Ask(p, answer)
    PROVE  TrafficInv'
<1> USE DEF TrafficInv
<1>1. clock \in 1..MaxTime /\ clock' \in 1..MaxTime
  BY TrafficAssumption DEF TrafficTypeOK, Ask
<1>2. poller' \in [Pollers -> {Resting, Ending} \cup Asked]
  <2> DEFINE r == [at |-> "asked", taken_at |-> clock, connections |-> answer]
  <2>1. r \in Asked
    BY <1>1 DEF Asked
  <2>2. poller' = [poller EXCEPT ![p] = r]
    BY DEF Ask
  <2> HIDE DEF r
  <2> QED
    BY <2>1, <2>2 DEF TrafficTypeOK, Asked
<1> QED
  BY <1>1, <1>2 DEF Ask, TrafficTypeOK, HistoryInv, Asked

\* The sightings of an answer share their time and none is in the history, so
\* two of the same connection have the same time.
LEMMA ArrivesStep ==
    ASSUME TrafficInv, NEW p \in Pollers, Arrives(p)
    PROVE  TrafficInv'
<1> USE DEF TrafficInv
<1>1. poller[p] \in Asked /\ trafficHistory \in Seq(Sightings)
  BY AskedFacts DEF Arrives, TrafficTypeOK
<1> DEFINE t == poller[p].taken_at
           answer == poller[p].connections
           fresh == Fresh(answer, t)
           next == [i \in DOMAIN fresh |-> [conn |-> fresh[i], seen_at |-> t]]
           both == next \o trafficHistory
<1>2. t \in 1..MaxTime /\ answer \in Seq(Conns)
  BY <1>1, TrafficAssumption DEF Asked
<1> HIDE DEF t, answer
<1>3. /\ fresh \in Seq(Conns)
      /\ \A n \in DOMAIN fresh : \A i \in DOMAIN trafficHistory :
            trafficHistory[i].conn # fresh[n]
  BY <1>1, <1>2, FreshFacts
<1> HIDE DEF fresh
<1>4. /\ next \in Seq(Sightings) /\ DOMAIN next = DOMAIN fresh
      /\ \A i \in DOMAIN next : next[i].conn = fresh[i] /\ next[i].seen_at = t
  <2>1. next \in [1..Len(fresh) -> Sightings] /\ Len(fresh) \in Nat
    BY <1>2, <1>3 DEF Sightings
  <2>2. \A i \in DOMAIN next : next[i].conn = fresh[i] /\ next[i].seen_at = t
    OBVIOUS
  <2>3. DOMAIN next = DOMAIN fresh
    OBVIOUS
  <2> HIDE DEF next
  <2> QED
    BY <2>1, <2>2, <2>3
<1> HIDE DEF next
<1>5. /\ both \in Seq(Sightings)
      /\ \A i \in DOMAIN both :
            \/ i \in DOMAIN next /\ both[i] = next[i]
            \/ \E j \in DOMAIN trafficHistory : both[i] = trafficHistory[j]
  <2>1. both \in Seq(Sightings) /\ Len(both) = Len(next) + Len(trafficHistory)
    BY <1>1, <1>4
  <2>2. ASSUME NEW i \in 1..Len(both), i > Len(next)
        PROVE  \E j \in DOMAIN trafficHistory : both[i] = trafficHistory[j]
    <3>1. i - Len(next) \in DOMAIN trafficHistory
      BY <1>1, <1>4, <2>1, <2>2
    <3>2. both[i] = trafficHistory[i - Len(next)]
      BY <1>1, <1>4, <2>1, <2>2
    <3> QED
      BY <3>1, <3>2
  <2>3. ASSUME NEW i \in 1..Len(both), ~(i > Len(next))
        PROVE  i \in DOMAIN next /\ both[i] = next[i]
    BY <1>1, <1>4, <2>1, <2>3
  <2>4. DOMAIN both = 1..Len(both)
    BY <2>1
  <2> HIDE DEF both
  <2> QED
    BY <2>1, <2>2, <2>3, <2>4
<1> HIDE DEF both
<1>6. \A i, j \in DOMAIN both :
         both[i].conn = both[j].conn => both[i].seen_at = both[j].seen_at
  <2>1. \A i \in DOMAIN next : \A j \in DOMAIN trafficHistory :
           trafficHistory[j].conn # next[i].conn
    BY <1>3, <1>4
  <2>2. \A i, j \in DOMAIN next : next[i].seen_at = next[j].seen_at
    BY <1>4
  <2> QED
    BY <1>5, <2>1, <2>2 DEF HistoryInv
<1>7. trafficHistory' = IF trafficPaused THEN trafficHistory
                        ELSE Cut(both, HistoryMax)
  BY DEF Arrives, both, next, fresh, t, answer
<1>8. trafficHistory' \in Seq(Sightings) /\ HistoryInv'
  <2>1. HistoryMax \in Nat
    BY TrafficAssumption
  <2>2. /\ Cut(both, HistoryMax) \in Seq(Sightings)
        /\ Len(Cut(both, HistoryMax)) <= HistoryMax
        /\ \A i \in DOMAIN Cut(both, HistoryMax) :
              i \in DOMAIN both /\ Cut(both, HistoryMax)[i] = both[i]
    BY <1>5, <2>1, CutFacts
  <2>3. CASE trafficPaused
    BY <1>1, <1>7, <2>3 DEF HistoryInv
  <2>4. CASE ~trafficPaused
    BY <1>6, <1>7, <2>2, <2>4 DEF HistoryInv
  <2> QED
    BY <2>3, <2>4
<1>9. poller' \in [Pollers -> {Resting, Ending} \cup Asked]
  BY DEF Arrives, TrafficTypeOK, Asked
<1> QED
  BY <1>8, <1>9 DEF Arrives, TrafficTypeOK, Asked

\* A poll that failed or ends
LEMMA EndingStep ==
    ASSUME TrafficInv, NEW p \in Pollers, Fails(p) \/ Ends(p)
    PROVE  TrafficInv'
<1> USE DEF TrafficInv
<1>1. poller' \in [Pollers -> {Resting, Ending} \cup Asked]
  BY DEF Fails, Ends, TrafficTypeOK, Asked
<1>2. UNCHANGED <<clock, trafficHistory, trafficPaused, trafficFilter,
                  trafficView>>
  BY DEF Fails, Ends
<1>3. PageOK'
  <2>1. page' = page => PageOK'
    BY DEF PageOK, TrafficTypeOK
  <2>2. DrawTraffic => PageOK'
    BY <1>2, DrawFacts DEF TrafficTypeOK
  <2> QED
    BY <2>1, <2>2 DEF Fails, Ends, PatchTraffic
<1> QED
  BY <1>1, <1>2, <1>3 DEF TrafficTypeOK, HistoryInv, Asked, PageOK

\* The buttons of the dashboard, and navigation
LEMMA ButtonStep ==
    ASSUME TrafficInv,
           \/ Pause \/ Clear
           \/ \E f \in Filters : TypeFilter(f)
           \/ \E v \in TrafficViews : Look(v)
    PROVE  TrafficInv'
<1> USE DEF TrafficInv
<1>1. UNCHANGED <<clock, poller>> /\ DrawTraffic
  BY DEF Pause, Clear, TypeFilter, Look
<1>2. /\ trafficHistory' \in Seq(Sightings)
      /\ trafficHistory' \in {trafficHistory, <<>>}
      /\ trafficPaused' \in BOOLEAN
      /\ trafficFilter' \in Filters
      /\ trafficView' \in TrafficViews
  <2>1. trafficHistory \in Seq(Sightings) /\ <<>> \in Seq(Sightings)
    BY DEF TrafficTypeOK
  <2>2. trafficPaused' \in BOOLEAN
    BY DEF Pause, Clear, TypeFilter, Look, TrafficTypeOK
  <2>3. trafficHistory' \in {trafficHistory, <<>>}
    BY DEF Pause, Clear, TypeFilter, Look
  <2>4. trafficFilter' \in Filters /\ trafficView' \in TrafficViews
    BY DEF Pause, Clear, TypeFilter, Look, TrafficTypeOK
  <2> QED
    BY <2>1, <2>2, <2>3, <2>4
<1>3. HistoryInv'
  BY <1>2, TrafficAssumption DEF HistoryInv
<1>4. PageOK'
  BY <1>1, <1>2, DrawFacts
<1> QED
  BY <1>1, <1>2, <1>3, <1>4 DEF TrafficTypeOK, PageOK

LEMMA TrafficStep == TrafficInv /\ [TrafficNext]_trafficVars => TrafficInv'
<1>1. TrafficInv /\ UNCHANGED trafficVars => TrafficInv'
  BY DEF trafficVars, TrafficInv, TrafficTypeOK, HistoryInv
<1> QED
  BY <1>1, AskStep, ArrivesStep, EndingStep, ButtonStep DEF TrafficNext

\* However polls overlap, pause and clear come in, the history is bounded, and
\* two sightings of one connection come from one answer.
THEOREM OneSightingAlways == TrafficSpec => []OneSighting
<1>1. TrafficInv => OneSighting
  BY DEF TrafficInv, HistoryInv, OneSighting, ToSet
<1> QED
  BY <1>1, TrafficInitInv, TrafficStep, PTL DEF TrafficSpec

\* An answer changes the history, and its poll has then still to end.
LEMMA PageKept ==
    ASSUME TrafficInv, PageShowsHistory, NEW p \in Pollers,
           \/ \E answer \in Answers : Ask(p, answer)
           \/ Arrives(p) \/ Fails(p)
    PROVE  PageShowsHistory'
<1>1. \/ trafficHistory' = trafficHistory
      \/ poller'[p] = Ending /\ ~trafficPaused
  BY DEF Ask, Arrives, Fails, TrafficInv, TrafficTypeOK
<1>2. \A q \in Pollers : poller[q] = Ending => poller'[q] = Ending
  BY DEF Ask, Arrives, Fails, Ending, Resting, TrafficInv, TrafficTypeOK
<1>3. UNCHANGED <<trafficPaused, trafficFilter, trafficView, page>>
  BY DEF Ask, Arrives, Fails
<1> QED
  BY <1>1, <1>2, <1>3 DEF PageShowsHistory

\* The end of a poll draws the dashboard, and leaves the history alone.
LEMMA PageEnds ==
    ASSUME PageShowsHistory, NEW p \in Pollers, Ends(p)
    PROVE  PageShowsHistory'
<1>1. UNCHANGED <<trafficHistory, trafficPaused, trafficFilter, trafficView>>
  BY DEF Ends
<1>2. CASE DrawTraffic
  BY <1>1, <1>2 DEF DrawTraffic, PageShowsHistory
<1>3. CASE PatchTraffic /\ ~DrawTraffic
  BY <1>1, <1>3 DEF PatchTraffic, PageShowsHistory
<1> QED
  BY <1>2, <1>3 DEF Ends

\* The dashboard lists the history but for polls that have not ended, and the
\* tracker counts it once PAUSE was pressed, for any history and any filter.
THEOREM PageShowsHistoryAlways == TrafficSpec => []PageShowsHistory
<1>1. TrafficInit => PageShowsHistory
  <2> SUFFICES ASSUME TrafficInit PROVE PageShowsHistory
    OBVIOUS
  <2>1. ConnectionRows(<<>>, Conns) = <<>>
    <3>1. <<>> \in Seq(Sightings)
      OBVIOUS
    <3>2. /\ Shown(<<>>, Conns) \in Seq(Sightings)
          /\ Len(Shown(<<>>, Conns)) = 0
      <4> DEFINE K == {i \in DOMAIN <<>> : <<>>[i].conn \in Conns}
      <4>1. K \in SUBSET DOMAIN <<>> /\ Shown(<<>>, Conns) = Filter(<<>>, K)
        BY DEF Shown
      <4> HIDE DEF K
      <4>2. /\ Filter(<<>>, K) \in Seq(Sightings)
            /\ Len(Filter(<<>>, K)) \in 0..Len(<<>>)
        BY <3>1, <4>1, FilterProperties
      <4> QED
        BY <4>1, <4>2
    <3>3. RowsMax \in Nat
      BY TrafficAssumption
    <3>4. /\ ConnectionRows(<<>>, Conns) \in Seq(Sightings)
          /\ Len(ConnectionRows(<<>>, Conns)) <= 0
      BY <3>2, <3>3, CutFacts DEF ConnectionRows
    <3> QED
      BY <3>4
  <2>2. /\ page.rows = <<>> /\ trafficHistory = <<>> /\ trafficFilter = Conns
        /\ trafficView # "tracker"
    BY DEF TrafficInit
  <2> QED
    BY <2>1, <2>2 DEF PageShowsHistory
<1>2. TrafficInv /\ PageShowsHistory /\ [TrafficNext]_trafficVars
         => PageShowsHistory'
  <2> SUFFICES ASSUME TrafficInv, PageShowsHistory, [TrafficNext]_trafficVars
               PROVE  PageShowsHistory'
    OBVIOUS
  <2>1. CASE UNCHANGED trafficVars
    BY <2>1 DEF trafficVars, PageShowsHistory
  <2>2. CASE \/ Pause \/ Clear
             \/ \E f \in Filters : TypeFilter(f)
             \/ \E v \in TrafficViews : Look(v)
    <3>1. DrawTraffic
      BY <2>2 DEF Pause, Clear, TypeFilter, Look
    <3> QED
      BY <3>1 DEF DrawTraffic, PageShowsHistory
  <2> QED
    BY <2>1, <2>2, PageKept, PageEnds DEF TrafficNext
<1> QED
  BY <1>1, <1>2, TrafficInitInv, TrafficStep, PTL DEF TrafficSpec

-----------------------------------------------------------------------------
(* ConfirmButtons: types, and which buttons are on the page *)

USE DEF Actions, DnsActions, MacActions, JslActions, RowActions, ClearAction,
        TrackerActions, Flags, MacFlags, SpoofFlag

LEMMA PanelActions ==
    ASSUME NEW view, NEW listed \in SUBSET Ips, NEW blocked
    PROVE  /\ Panel(view, listed, blocked) \subseteq Actions
           /\ view = "dns" => Panel(view, listed, blocked) = DnsActions
           /\ view = "tracker" =>
                 Panel(view, listed, blocked) \subseteq TrackerActions
BY DEF Panel, DnsPanel, FingerprintPanel, TrackerPanel

\* The buttons of the DNS and of the tracker view are on the page in that view.
ButtonsInv ==
    /\ activeView = "dns" => buttons \subseteq DnsActions
    /\ activeView = "tracker" => buttons \subseteq TrackerActions

CbInv == CbTypeOK /\ ButtonsInv /\ ConfirmIsShown

LEMMA CbInitInv == CbInit => CbInv
BY DEF CbInit, CbInv, CbTypeOK, ButtonsInv, ConfirmIsShown, Views, Announced

\* After a step that draws, what is shown is what is armed.
LEMMA DrawStep ==
    ASSUME CbInv, activeView' \in Views, armed' \subseteq Flags,
           fired' \in Actions \cup {None}, trackerBlocks' \subseteq Ips,
           NEW blocked \in SUBSET Ips, Draw(activeView', blocked)
    PROVE  CbInv'
<1>1. PICK listed \in SUBSET Ips : buttons' = Panel(activeView', listed, blocked)
      BY DEF Draw
<1>2. /\ buttons' \subseteq Actions
      /\ activeView' = "dns" => buttons' \subseteq DnsActions
      /\ activeView' = "tracker" => buttons' \subseteq TrackerActions
  <2> HIDE DEF Actions, DnsActions, TrackerActions
  <2> QED BY <1>1, PanelActions
<1>3. boundBlocks' = blocked /\ drawn' = Announced(buttons', armed')
      BY DEF Draw
<1> HIDE DEF Actions, Flags, DnsActions, TrackerActions
<1>4. drawn' \subseteq Actions
      BY <1>2, <1>3 DEF Announced
<1> QED BY <1>2, <1>3, <1>4 DEF CbInv, CbTypeOK, ButtonsInv, ConfirmIsShown

\* The first press of a button.
LEMMA ArmStep ==
    ASSUME CbInv, NEW a \in Actions, a \in buttons, Arm(a), fired' = None,
           UNCHANGED <<activeView, trackerBlocks>>
    PROVE  CbInv'
<1>1. armed' \subseteq Flags
  <2>1. PICK f \in Flags : Raise(f)
        BY DEF Arm, ArmDns, ArmMac, ArmJsl, ArmRow, ArmClear, Flag
  <2> HIDE DEF Flags
  <2> QED BY <2>1 DEF Raise, CbInv, CbTypeOK
<1>2. CASE Draw(activeView, boundBlocks)
  <2> HIDE DEF Actions, Flags
  <2> QED BY <1>1, <1>2, DrawStep DEF CbInv, CbTypeOK
<1>3. CASE NoDraw /\ a \in MacActions \cup JslActions
  <2>1. activeView \notin {"dns", "tracker"}
        BY <1>3 DEF CbInv, ButtonsInv
  <2> HIDE DEF Actions, Flags
  <2> QED BY <2>1, <1>1, <1>3
          DEF CbInv, CbTypeOK, ButtonsInv, ConfirmIsShown, NoDraw
<1> QED BY <1>2, <1>3 DEF Arm, ArmDns, ArmMac, ArmJsl, ArmRow, ArmClear

LEMMA CbStep == CbInv /\ [CbNext]_cbVars => CbInv'
<1> SUFFICES ASSUME CbInv, [CbNext]_cbVars PROVE CbInv'
    OBVIOUS
<1> HIDE DEF Actions, Flags
<1>1. CASE UNCHANGED cbVars
      BY <1>1 DEF cbVars, CbInv, CbTypeOK, ButtonsInv, ConfirmIsShown
<1>2. ASSUME NEW a \in Actions, Press(a) PROVE CbInv'
  <2>1. CASE Arm(a) /\ fired' = None
        BY <1>2, <2>1, ArmStep DEF Press
  <2>2. CASE Fire(a)
        BY <1>2, <2>2, DrawStep DEF Press, Fire, CbInv, CbTypeOK
  <2> QED BY <1>2, <2>1, <2>2 DEF Press
<1>3. CASE CancelAll
      BY <1>3, DrawStep DEF CancelAll, CbInv, CbTypeOK
<1>4. ASSUME NEW view \in Views, ChangeView(view) PROVE CbInv'
      BY <1>4, DrawStep DEF ChangeView, CbInv, CbTypeOK
<1>5. CASE BlocksPolled
      BY <1>5 DEF BlocksPolled, CbInv, CbTypeOK, ButtonsInv, ConfirmIsShown
<1>6. CASE Redraw
      BY <1>6, DrawStep DEF Redraw, CbInv, CbTypeOK
<1> QED BY <1>1, <1>2, <1>3, <1>4, <1>5, <1>6 DEF CbNext

\* In the DNS and the tracker view the buttons that say CONFIRM are those whose
\* flag is up, for any number of addresses.
THEOREM ConfirmIsShownAlways == CbSpec => []ConfirmIsShown
<1>1. CbInv => ConfirmIsShown
      BY DEF CbInv
<1> QED BY CbInitInv, CbStep, <1>1, PTL DEF CbSpec

-----------------------------------------------------------------------------
(* ConfirmButtons implements Confirm *)

\* A first press takes down the rivals of the flag it raises.
LEMMA ArmImplements ==
    ASSUME NEW a \in Actions, Arm(a), fired' = None
    PROVE  Confirmation!Arm(a)
<1>1. Flag(a) \in Flags /\ Flag(a) \notin armed /\ Raise(Flag(a))
      BY DEF Arm, ArmDns, ArmMac, ArmJsl, ArmRow, ArmClear, Flag
<1>2. \A f \in Flags : Rivals(f) \subseteq Disarms(f)
      BY DEF Rivals, Disarms
<1> HIDE DEF Actions, Flags
<1> QED BY <1>1, <1>2 DEF Raise, Confirmation!Arm

LEMMA StepImplements ==
    [CbNext]_cbVars => [Confirmation!Next]_Confirmation!confirmVars
<1> SUFFICES ASSUME [CbNext]_cbVars
             PROVE  [Confirmation!Next]_Confirmation!confirmVars
    OBVIOUS
<1> HIDE DEF Actions
<1>1. CASE UNCHANGED cbVars
      BY <1>1 DEF cbVars, Confirmation!confirmVars
<1>2. ASSUME NEW a \in Actions, Press(a) PROVE Confirmation!Next
  <2>1. CASE Arm(a) /\ fired' = None
        BY <2>1, ArmImplements DEF Confirmation!Next
  <2>2. CASE Fire(a)
    <3>1. Confirmation!Fire(a)
          BY <2>2 DEF Fire, Confirmation!Fire
    <3> QED BY <3>1 DEF Confirmation!Next
  <2> QED BY <1>2, <2>1, <2>2 DEF Press
<1>3. CASE CancelAll
      BY <1>3 DEF CancelAll, Confirmation!Next, Confirmation!Cancel
<1>4. CASE (\E view \in Views : ChangeView(view)) \/ BlocksPolled \/ Redraw
      BY <1>4 DEF ChangeView, BlocksPolled, Redraw, Confirmation!Next,
                  Confirmation!Pass
<1> QED BY <1>1, <1>2, <1>3, <1>4 DEF CbNext

\* No request leaves the window unless a first press has raised its flag, which
\* only SPOOF RANDOM and SPOOF CUSTOM share, and neither ESC nor a rival has
\* taken it down since: the buttons implement confirmed actions, for any number
\* of addresses.
THEOREM ButtonsConfirm == CbSpec => Confirmed
<1>1. CbInit => Confirmation!Init
      BY DEF CbInit, Confirmation!Init
<1> QED BY <1>1, StepImplements, PTL DEF CbSpec, Confirmed, Confirmation!Spec

HIDE DEF Actions, DnsActions, MacActions, JslActions, RowActions, ClearAction,
         TrackerActions, Flags, MacFlags, SpoofFlag

-----------------------------------------------------------------------------
(* All parts side by side *)

\* Every part keeps its types, whichever of them moves.
THEOREM WindowTypesAlways == MCSpec => []WindowTypes
<1>1. MCInit => WinInit /\ CbInit /\ TrafficInit /\ ChainInit /\ DraftInit
  BY DEF MCInit
<1>2. [MCNext]_mcVars =>
         /\ [WinNext]_winVars /\ [CbNext]_cbVars /\ [TrafficNext]_trafficVars
         /\ [ChainNext]_chainVars /\ [DraftNext]_draftVars
  BY DEF MCNext, Controls, ConfirmPart, TrafficPart, ChainPart, DraftPart, mcVars
<1>3. DraftInv /\ NotedInv => DraftTypeOK
  BY DEF DraftInv, Types, NotedInv, DraftTypeOK, MaybeConfig, ValuesOf
<1>4. WinInv /\ CbInv /\ TrafficInv /\ ChainInv /\ DraftTypeOK => WindowTypes
  BY DEF WinInv, CbInv, TrafficInv, ChainInv, WindowTypes
<1> QED
  BY <1>1, <1>2, <1>3, <1>4, WinInitInv, WinStep, CbInitInv, CbStep,
     TrafficInitInv, TrafficStep, ChainInitInv, ChainStep, DraftInitInv,
     DraftStep, NotedInit, NotedStep, PTL DEF MCSpec
=============================================================================
