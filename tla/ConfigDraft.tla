------------------------------ MODULE ConfigDraft ------------------------------
(***************************************************************************)
(* Editing and saving the configuration in the window (ui/src/main.ts).     *)
(*                                                                          *)
(* Input handlers collect the user's edits in configDraft, a copy of the    *)
(* configuration of the state they were bound to by the last render().      *)
(* saveConfig() sends the whole draft, and forgets it when the core says    *)
(* that it has stored it.  Polls do not touch the draft.                    *)
(*                                                                          *)
(* Of the configuration three fields are kept: upstream stands for those    *)
(* that are typed, rotation for the switches, which a profile sets as well, *)
(* and profile.  Left out: the theme itself, the other two profiles, which  *)
(* also only set switches, the view, which decides only which of the inputs *)
(* can be seen, and the requests that follow a save (modules ProxyManager,  *)
(* Switchover, JsLeak).  The chain's rows are in module ChainEditor.        *)
(***************************************************************************)
EXTENDS Naturals

CONSTANTS
    Savers,     \* calls of saveConfig() that run at a time
    Null,       \* no draft; no configuration, since the poll failed
    Untouched,  \* the user has not edited the field
    MaxWrites   \* bound on the edits, saves, switches and failed polls

ASSUME DraftAssumption == MaxWrites \in Nat

VARIABLES
    file,           \* what the core has stored
    served,         \* what it has stored since the window was opened
    lastConfig,     \* lastState.config
    boundConfig,    \* state.config of the handlers
    configDraft,
    configSaving,
    configError,
    saveBtn,        \* SAVE and SAVE & START can be pressed
    saver,          \* the calls of saveConfig()
    edits,          \* history: the user's edits, neither saved nor dropped yet
    raced,          \* history: one of them was made while a save was in flight
    writes          \* edits, saves, switches and failed polls so far

draftVars == <<file, served, lastConfig, boundConfig, configDraft, configSaving,
               configError, saveBtn, saver, edits, raced, writes>>

Texts == {"", "u", "u "}
Profiles == {"custom", "high"}
AppConfig == [upstream : Texts, rotation : BOOLEAN, profile : Profiles]
Fields == {"upstream", "rotation", "profile"}

ASSUME NullAssumption == Null \notin AppConfig

defaultConfig == [upstream |-> "", rotation |-> FALSE, profile |-> "custom"]

\* What a caller of saveConfig() does next: render(state), or nothing here; a
\* request of its own begins with a RedrawConfig.
Thens == {"none", "render"}
Idle == [at |-> "idle"]
Sent == [at : {"sent", "stored", "failed"}, payload : AppConfig, then : Thens,
         ctx : AppConfig \cup {Null}, edits : SUBSET Fields]

DraftTypeOK ==
    /\ file \in AppConfig
    /\ served \subseteq AppConfig
    /\ {lastConfig, boundConfig, configDraft} \subseteq AppConfig \cup {Null}
    /\ {configSaving, configError, saveBtn, raced} \subseteq BOOLEAN
    /\ saver \in [Savers -> {Idle} \cup Sent]
    /\ DOMAIN edits = Fields
    /\ \A f \in Fields :
          edits[f] \in {c[f] : c \in AppConfig} \cup {Untouched}
    /\ writes \in 0..MaxWrites

NoEdits == [f \in Fields |-> Untouched]

\* After the first render; the core has stored something already.
DraftInit ==
    /\ file = [defaultConfig EXCEPT !.upstream = "u"]
    /\ served = {file}
    /\ lastConfig \in {file, Null}
    /\ boundConfig = lastConfig
    /\ configDraft = Null
    /\ configSaving = FALSE
    /\ configError = FALSE
    /\ saveBtn = TRUE
    /\ saver = [s \in Savers |-> Idle]
    /\ edits = NoEdits
    /\ raced = FALSE
    /\ writes = 0

-----------------------------------------------------------------------------
(* Helpers *)

\* a ?? b
Or(a, b) == IF a = Null THEN b ELSE a

\* What is missing is filled in from the defaults.
normalizeConfig(c) == Or(c, defaultConfig)

\* applyProfile of the window, and apply_profile of the core
ApplyProfile(p, cfg) ==
    [cfg EXCEPT !.profile = p, !.rotation = (p = "high") \/ @]

Trim(t) == IF t = "u " THEN "u" ELSE t

\* render(): the panels show the configuration, and bind the handlers to it.
DrawConfig(c, saving) ==
    /\ boundConfig' = c
    /\ saveBtn' = ~saving

DrawMessage(saving) == DrawConfig(lastConfig, saving)

InFlight == {s \in Savers : saver[s] # Idle}

-----------------------------------------------------------------------------
(* Edits *)

\* ensureConfigDraft()
EnsureConfigDraft == Or(configDraft, Or(boundConfig, defaultConfig))

\* One more write, if the bound allows it.
CountWrite ==
    /\ writes < MaxWrites
    /\ writes' = writes + 1

Note(f, v) ==
    /\ CountWrite
    /\ edits' = [edits EXCEPT ![f] = v]
    /\ raced' = (raced \/ InFlight # {})

Edit(f, v) ==
    /\ configDraft' = [EnsureConfigDraft EXCEPT ![f] = v]
    /\ Note(f, v)

\* The inputs of the proxy and onboarding views, and of the DNS view.
TypeUpstream(t) ==
    /\ Edit("upstream", t)
    /\ UNCHANGED <<file, served, lastConfig, boundConfig, configSaving,
                   configError, saveBtn, saver>>

\* The switches: ON and OFF.  They are not drawn again.
ToggleRotation ==
    /\ Edit("rotation", ~EnsureConfigDraft.rotation)
    /\ UNCHANGED <<file, served, lastConfig, boundConfig, configSaving,
                   configError, saveBtn, saver>>

\* The DNS presets: an edit, then render(state).
Preset(t) ==
    /\ Edit("upstream", t)
    /\ DrawConfig(boundConfig, configSaving)
    /\ UNCHANGED <<file, served, lastConfig, configSaving, configError, saver>>

-----------------------------------------------------------------------------
(* saveConfig() *)

\* The payload is the draft as this step leaves it.
Payload ==
    LET cfg == normalizeConfig(Or(configDraft', boundConfig))
    IN  [cfg EXCEPT !.upstream = Trim(@)]

SaveBegins(s, then) ==
    /\ InFlight # Savers
    /\ s = CHOOSE idle \in Savers : saver[idle] = Idle
    /\ saver' = [saver EXCEPT ![s] =
                    [at |-> "sent", payload |-> Payload, then |-> then,
                     ctx |-> IF then = "render" THEN boundConfig ELSE Null,
                     edits |-> {f \in Fields : edits'[f] # Untouched}]]
    /\ configError' = FALSE
    /\ configSaving' = TRUE
    /\ DrawMessage(TRUE)
    /\ UNCHANGED <<file, served, lastConfig>>

Save(s) ==
    /\ CountWrite
    /\ UNCHANGED <<configDraft, edits, raced>>
    /\ SaveBegins(s, "none")

\* SAVE and SAVE & START of the proxy view
PressSave(s) == saveBtn /\ Save(s)

\* The same buttons of the onboarding view, which stay enabled, and those that
\* save before they start: the failover monitor and the JavaScript protection.
PressOther(s) == Save(s)

\* Choosing a theme makes a draft, and saves it.
ChooseTheme(s) ==
    /\ configDraft' = EnsureConfigDraft
    /\ CountWrite
    /\ UNCHANGED <<edits, raced>>
    /\ SaveBegins(s, "none")

\* A profile of the proxy view or of the onboarding view.
ChooseProfile(s, p) ==
    /\ configDraft' = ApplyProfile(p, EnsureConfigDraft)
    /\ CountWrite
    /\ edits' = [edits EXCEPT !["profile"] = p,
                              !["rotation"] = IF p = "custom" THEN @
                                              ELSE configDraft'.rotation]
    /\ raced' = (raced \/ InFlight # {})
    /\ SaveBegins(s, "render")

\* The payload matters no more.
PutAnswered(s, answer) ==
    saver' = [saver EXCEPT ![s].at = answer, ![s].payload = defaultConfig]

\* PUT /config: the core applies the profile and stores.  It may fail before
\* that, and its answer may be lost after it.
Put(s) ==
    /\ s \in InFlight
    /\ saver[s].at = "sent"
    /\ \/ /\ file' = ApplyProfile(saver[s].payload.profile, saver[s].payload)
          /\ \E answer \in {"stored", "failed"} :
                PutAnswered(s, answer)
       \/ /\ file' = file
          /\ PutAnswered(s, "failed")
    /\ served' = served \cup {file'}
    /\ UNCHANGED <<lastConfig, boundConfig, configDraft, configSaving,
                   configError, saveBtn, edits, raced, writes>>

\* Variant with a bug: the message is set, and the page drawn, too early.
SavedShownEarly(s) ==
    /\ s \in InFlight
    /\ saver[s].at = "stored"
    /\ saver' = [saver EXCEPT ![s] = Idle]
    /\ configDraft' = Null
    /\ configSaving' = FALSE
    /\ edits' = [f \in Fields |->
                    IF f \in saver[s].edits THEN Untouched ELSE edits[f]]
    /\ DrawMessage(configSaving)
    /\ UNCHANGED <<file, served, lastConfig, configError, raced, writes>>

\* The draft is forgotten, and with it edits made since the request was sent.
\* The message renders lastState, in which the configuration is the old one
\* unless a poll has ended since.
Saved(s) ==
    /\ s \in InFlight
    /\ saver[s].at = "stored"
    /\ saver' = [saver EXCEPT ![s] = Idle]
    /\ configDraft' = Null
    /\ configSaving' = FALSE
    /\ edits' = [f \in Fields |->
                    IF f \in saver[s].edits THEN Untouched ELSE edits[f]]
    /\ IF saver[s].then = "render"
       THEN DrawConfig(saver[s].ctx, FALSE) ELSE DrawMessage(FALSE)
    /\ UNCHANGED <<file, served, lastConfig, configError, raced, writes>>

\* Variant with a bug: a failed save forgets the draft.
SaveFailedForgets(s) ==
    /\ s \in InFlight
    /\ saver[s].at = "failed"
    /\ saver' = [saver EXCEPT ![s] = Idle]
    /\ configDraft' = Null
    /\ configError' = TRUE
    /\ configSaving' = FALSE
    /\ DrawMessage(configSaving)
    /\ UNCHANGED <<file, served, lastConfig, edits, raced, writes>>

\* The message is rendered while configSaving is still set; only a caller that
\* renders again enables the buttons.
SaveFailed(s) ==
    /\ s \in InFlight
    /\ saver[s].at = "failed"
    /\ saver' = [saver EXCEPT ![s] = Idle]
    /\ configError' = TRUE
    /\ configSaving' = FALSE
    /\ IF saver[s].then = "render"
       THEN DrawConfig(saver[s].ctx, FALSE) ELSE DrawMessage(configSaving)
    /\ UNCHANGED <<file, served, lastConfig, configDraft, edits, raced, writes>>

-----------------------------------------------------------------------------
(* The rest of the window, and of the core *)

\* RELOAD drops the draft; a message, then refreshNow(true), whose poll begins.
Reload ==
    /\ configError' = FALSE
    /\ configDraft' = Null
    /\ edits' = NoEdits
    /\ raced' = FALSE
    /\ DrawMessage(configSaving)
    /\ UNCHANGED <<file, served, lastConfig, configSaving, saver, writes>>

\* A message of another handler renders lastState, the filters and the steps of
\* the onboarding view render the state they are bound to.
RedrawConfig ==
    /\ \E c \in {lastConfig, boundConfig} : DrawConfig(c, configSaving)
    /\ UNCHANGED <<file, served, lastConfig, configDraft, configSaving,
                   configError, saver, edits, raced, writes>>

\* A poll ends, in which GET /config was answered or not; full for
\* refreshNow(true).  Any number of polls can be under way, so one that is late
\* brings what the core had stored some time ago, over what newer ones brought.
ConfigPolled(full) ==
    /\ \/ lastConfig' \in served /\ writes' = writes
       \/ lastConfig' = Null /\ CountWrite
    /\ IF full THEN DrawConfig(lastConfig', configSaving)
               ELSE UNCHANGED <<boundConfig, saveBtn>>
    /\ UNCHANGED <<file, served, configDraft, configSaving, configError, saver,
                   edits, raced>>

\* The core switches to another upstream (module Switchover).
Switch(t) ==
    /\ file' = [file EXCEPT !.upstream = t]
    /\ served' = served \cup {file'}
    /\ CountWrite
    /\ UNCHANGED <<lastConfig, boundConfig, configDraft, configSaving,
                   configError, saveBtn, saver, edits, raced>>

-----------------------------------------------------------------------------

WindowSteps ==
    \/ \E t \in Texts : TypeUpstream(t) \/ Preset(t)
    \/ ToggleRotation \/ Reload \/ RedrawConfig
    \/ \E s \in Savers :
          \/ PressSave(s) \/ PressOther(s) \/ ChooseTheme(s)
          \/ \E p \in Profiles : ChooseProfile(s, p)
          \/ Put(s) \/ Saved(s) \/ SaveFailed(s)
    \/ \E full \in BOOLEAN : ConfigPolled(full)

DraftNext == WindowSteps \/ Switch("")

DraftSpec == DraftInit /\ [][DraftNext]_draftVars

\* Only the window writes the configuration, and every poll is answered.
AloneSpec ==
    /\ DraftInit /\ lastConfig # Null
    /\ [][WindowSteps /\ lastConfig' # Null]_draftVars

-----------------------------------------------------------------------------
(* Properties *)

\* Every edit that the core has not stored is still in the draft, whatever
\* polls, renders, failed saves and other edits came in between; only an edit
\* made while a save was in flight may be lost with that save's draft.
EditsKept ==
    raced \/ \A f \in Fields :
        edits[f] # Untouched => /\ configDraft # Null
                                /\ configDraft[f] = edits[f]

\* While configSaving is set SAVE cannot be pressed, and when it is not, SAVE
\* is offered again unless the error of a failed save is shown, also when saves
\* from several buttons overlap.
SaveOffered ==
    /\ configSaving => ~saveBtn
    /\ ~configSaving => saveBtn \/ configError

\* A save changes only fields that the user has edited since the last one.
\* False, even if every poll is answered: the draft is based on the
\* configuration of the last render, which may be older than the last save.
Edited(s, f) ==
    \/ f \in saver[s].edits
    \/ f = "rotation" /\ saver[s].payload.profile # "custom"

=============================================================================
