---------------------------- MODULE ConfirmButtons ----------------------------
(***************************************************************************)
(* The buttons of the window that act on the second press: DNS, MAC         *)
(* address, JavaScript leak protection and tracker blocking                 *)
(* (ui/src/main.ts).  Each has a flag in a module variable; here the set    *)
(* `armed` holds the flags that are up.  The kill switch is in module       *)
(* Window.                                                                  *)
(*                                                                          *)
(* What the page shows is what the last render() drew from: the view, the   *)
(* flags, and the blocked addresses of the state it was given.  Polls only  *)
(* replace lastState here: patch() changes nothing in these views.          *)
(*                                                                          *)
(* The engine's side of the requests is in RuleGroup and TrackerBlocks; a   *)
(* poll may answer with any set of blocked addresses, since it may be late  *)
(* or fail.  Left out: the adapter and the address typed for MAC spoofing,  *)
(* the filters, and the messages.                                           *)
(***************************************************************************)
EXTENDS FiniteSets

CONSTANTS
    Ips,        \* remote addresses in the tracker view
    NoIp,       \* a button that is not in a row
    None        \* the last step has requested nothing

VARIABLES
    activeView,
    armed,          \* the flags that are up
    fired,          \* the action that the last step has requested
    trackerBlocks,  \* lastState.trackerBlocks
    boundBlocks,    \* trackerBlocks of the state that was rendered last
    buttons,        \* the actions whose button is on the page
    drawn           \* those whose button says CONFIRM

cbVars ==
    <<activeView, armed, fired, trackerBlocks, boundBlocks, buttons, drawn>>

Views == {"dns", "fingerprint", "tracker", "other"}

\* A button, and the address of its row if there is one for every address.
DnsActions == {"dns-apply", "dns-enforce", "dns-unenforce"} \X {NoIp}
MacActions == {"mac-random", "mac-custom", "mac-reset"} \X {NoIp}
JslActions == {"jsl-enable", "jsl-disable"} \X {NoIp}
RowActions == {"block", "unblock"} \X Ips
ClearAction == <<"trk-clear", NoIp>>
TrackerActions == RowActions \cup {ClearAction}
Actions == DnsActions \cup MacActions \cup JslActions \cup TrackerActions

\* SPOOF RANDOM and SPOOF CUSTOM request different things and share a flag.
SpoofFlag == <<"mac-spoof", NoIp>>
Flag(a) == IF a \in {"mac-random", "mac-custom"} \X {NoIp} THEN SpoofFlag ELSE a
MacFlags == {SpoofFlag, <<"mac-reset", NoIp>>}
Flags == DnsActions \cup MacFlags \cup JslActions \cup TrackerActions

CbTypeOK ==
    /\ activeView \in Views
    /\ armed \subseteq Flags
    /\ fired \in Actions \cup {None}
    /\ trackerBlocks \subseteq Ips
    /\ boundBlocks \subseteq Ips
    /\ buttons \subseteq Actions
    /\ drawn \subseteq Actions

CbInit ==
    /\ activeView = "other"
    /\ armed = {}
    /\ fired = None
    /\ trackerBlocks = {}
    /\ boundBlocks = {}
    /\ buttons = {}
    /\ drawn = {}

-----------------------------------------------------------------------------
(* The panels *)

\* dnsPanel
DnsPanel == DnsActions

\* fingerprintPanel
FingerprintPanel == MacActions \cup JslActions

\* trackerPanel: a row offers to block its address, or to unblock it.
TrackerPanel(listed, blocked) ==
    {ClearAction} \cup ({"unblock"} \X (listed \cap blocked))
                  \cup ({"block"} \X (listed \ blocked))

\* The actions whose button is in a view.
Panel(view, listed, blocked) ==
    CASE view = "dns" -> DnsPanel
      [] view = "fingerprint" -> FingerprintPanel
      [] view = "tracker" -> TrackerPanel(listed, blocked)
      [] OTHER -> {}

\* The buttons that say CONFIRM when they are drawn.
Announced(placed, flags) == {a \in placed : Flag(a) \in flags}

\* render(): the page is built from the view and the flags as they now are; the
\* addresses listed are those of the traffic history that pass the filter.
Draw(view, blocked) ==
    /\ boundBlocks' = blocked
    /\ \E listed \in SUBSET Ips : buttons' = Panel(view, listed, blocked)
    /\ drawn' = Announced(buttons', armed')

NoDraw == UNCHANGED <<boundBlocks, buttons, drawn>>

-----------------------------------------------------------------------------
(* Pressing a button *)

\* The flags that are taken down when one goes up.
Disarms(f) ==
    CASE f \in DnsActions -> DnsActions
      [] f = SpoofFlag -> MacFlags
      [] f = <<"mac-reset", NoIp>> -> MacFlags \cup JslActions
      [] f \in JslActions -> MacFlags \cup JslActions
      [] f \in TrackerActions -> TrackerActions

Raise(f) == armed' = (armed \ Disarms(f)) \cup {f}

\* First press.  The buttons of the fingerprint view are not drawn again.
ArmDns(a) ==
    /\ a \in DnsActions \ armed
    /\ Raise(a)
    /\ Draw(activeView, boundBlocks)

ArmMac(a) ==
    /\ a \in MacActions /\ Flag(a) \notin armed
    /\ Raise(Flag(a))
    /\ NoDraw

ArmJsl(a) ==
    /\ a \in JslActions \ armed
    /\ Raise(a)
    /\ NoDraw

\* Variant with a bug: the button of another address stays armed.
ArmRowKeeps(a) ==
    /\ a \in RowActions \ armed
    /\ armed' = (armed \ {ClearAction}) \cup {a}
    /\ Draw(activeView, boundBlocks)

ArmRow(a) ==
    /\ a \in RowActions \ armed
    /\ Raise(a)
    /\ Draw(activeView, boundBlocks)

\* Variant with a bug: the page is not drawn again.
ArmClearUnseen(a) ==
    /\ a \in {ClearAction} \ armed
    /\ Raise(a)
    /\ NoDraw

ArmClear(a) ==
    /\ a \in {ClearAction} \ armed
    /\ Raise(a)
    /\ Draw(activeView, boundBlocks)

Arm(a) == ArmDns(a) \/ ArmMac(a) \/ ArmJsl(a) \/ ArmRow(a) \/ ArmClear(a)

\* Second press: the flag goes down, a message is set, which renders lastState,
\* and the request is sent.
Fire(a) ==
    /\ Flag(a) \in armed
    /\ armed' = armed \ {Flag(a)}
    /\ fired' = a
    /\ Draw(activeView, trackerBlocks)

Press(a) ==
    /\ a \in buttons
    /\ \/ Arm(a) /\ fired' = None
       \/ Fire(a)
    /\ UNCHANGED <<activeView, trackerBlocks>>

\* ESC
CancelAll ==
    /\ armed' = {}
    /\ Draw(activeView, trackerBlocks)
    /\ fired' = None
    /\ UNCHANGED <<activeView, trackerBlocks>>

-----------------------------------------------------------------------------
(* The rest of the window *)

\* The flags stay up in a view that is left.
ChangeView(view) ==
    /\ activeView' = view
    /\ armed' = armed
    /\ Draw(view, trackerBlocks)
    /\ fired' = None
    /\ UNCHANGED trackerBlocks

\* A poll ends, in refreshNow(false) or by the timer.
BlocksPolled ==
    /\ trackerBlocks' \in SUBSET Ips
    /\ fired' = None
    /\ UNCHANGED <<activeView, armed, boundBlocks, buttons, drawn>>

\* A message of another handler, and the render of refreshNow(true).
Redraw ==
    /\ armed' = armed
    /\ Draw(activeView, trackerBlocks)
    /\ fired' = None
    /\ UNCHANGED <<activeView, trackerBlocks>>

CbNext ==
    \/ \E a \in Actions : Press(a)
    \/ CancelAll
    \/ \E view \in Views : ChangeView(view)
    \/ BlocksPolled \/ Redraw

CbSpec == CbInit /\ [][CbNext]_cbVars

-----------------------------------------------------------------------------
(* Properties *)

\* Flags that are never up at the same time.
Rivals(f) ==
    CASE f \in DnsActions -> DnsActions
      [] f \in MacFlags -> MacFlags
      [] f \in JslActions -> JslActions
      [] f \in TrackerActions -> TrackerActions

\* The flags and the request that was sent last are what Confirm speaks of.
Confirmation ==
    INSTANCE Confirm WITH Actions <- Actions, Flag <- Flag, Rivals <- Rivals,
                          None <- None, armed <- armed, fired <- fired

\* The buttons implement confirmed actions: no request leaves the window unless
\* a first press has raised its flag and neither ESC nor a rival has taken it
\* down since, whatever is drawn, polled or navigated in between.  The flag is
\* that of the very button, except that one press on SPOOF RANDOM also allows
\* SPOOF CUSTOM, and the other way round.
Confirmed == Confirmation!Spec

\* In the DNS and the tracker view the buttons that say CONFIRM are those whose
\* flag is up: a press that sends a request is always announced, also
\* after polls that change which addresses are blocked.
ConfirmIsShown ==
    activeView \in {"dns", "tracker"}
        => drawn = Announced(buttons, armed)
=============================================================================
