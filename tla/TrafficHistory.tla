---------------------------- MODULE TrafficHistory ----------------------------
(***************************************************************************)
(* The connections the window remembers (trafficHistory in ui/src/main.ts): *)
(* filled by every poll, listed in the dashboard, and counted by remote     *)
(* address in the tracker view.                                             *)
(*                                                                          *)
(* Two polls run at a time, the timer's and that of a request, so the       *)
(* answer of an older one may come in last.  The code between two awaits is *)
(* one step; a poll goes on to other requests after this one, and shows its *)
(* result only when it ends.  The page is drawn from the history, not from  *)
(* lastState, so only the drawing matters here.                             *)
(*                                                                          *)
(* Left out: the text of the filters, of which there is here the set of     *)
(* what they let through, the columns, and the order of the tracker's rows. *)
(***************************************************************************)
EXTENDS Filter, SequencesExt, FiniteSetsExt

CONSTANTS
    Pollers,      \* polls that run at a time
    Answers,      \* what the engine may list: sequences of connections
    IpOf,         \* the public remote address of a connection, or Private
    Private,      \* its remote address is not public
    Filters,      \* what a filter lets through: sets of connections
    HistoryMax,   \* 500 in the code
    RowsMax,      \* 220
    ItemsMax,     \* 120
    MaxTime       \* bound on the engine's clock

Conns == UNION {ToSet(answer) : answer \in Answers}

ASSUME TrafficAssumption ==
    /\ Answers \subseteq Seq(Conns)
    /\ DOMAIN IpOf = Conns
    /\ Conns \in Filters /\ \A f \in Filters : f \subseteq Conns
    /\ {HistoryMax, RowsMax, ItemsMax, MaxTime} \subseteq Nat \ {0}

VARIABLES
    clock,            \* the engine's clock, which an answer carries as taken_at
    poller,           \* where each poll is, and the answer on its way
    trafficHistory,   \* what was seen and when, newest answer first
    trafficPaused,
    trafficFilter,
    trafficView,      \* activeView
    page              \* the rows on the page

trafficVars == <<clock, poller, trafficHistory, trafficPaused, trafficFilter,
                 trafficView, page>>

TrafficViews == {"dashboard", "tracker", "other"}
Sightings == [conn : Conns, seen_at : 1..MaxTime]
Resting == [at |-> "rest"]
Ending == [at |-> "ending"]

TrafficTypeOK ==
    /\ clock \in 1..MaxTime
    /\ poller \in [Pollers -> {Resting, Ending} \cup
          [at : {"asked"}, taken_at : 1..MaxTime, connections : Answers]]
    /\ trafficHistory \in Seq(Sightings)
    /\ trafficPaused \in BOOLEAN
    /\ trafficFilter \in Filters
    /\ trafficView \in TrafficViews
    /\ ToSet(page.rows) \subseteq Sightings
    /\ \A item \in page.items : item.count > 0

TrafficInit ==
    /\ clock = 1
    /\ poller = [p \in Pollers |-> Resting]
    /\ trafficHistory = <<>>
    /\ trafficPaused = FALSE
    /\ trafficFilter = Conns
    /\ trafficView = "dashboard"
    /\ page = [rows |-> <<>>, items |-> {}]

-----------------------------------------------------------------------------
(* What is drawn *)

\* s.slice(0, n)
Cut(s, n) == SubSeq(s, 1, Min({n, Len(s)}))

Shown(history, filter) ==
    Filter(history, {i \in DOMAIN history : history[i].conn \in filter})

\* connectionRows
ConnectionRows(history, filter) == Cut(Shown(history, filter), RowsMax)

\* trackerItems: the addresses that were seen most, with the time of the latest
\* sighting, which need not be the first in the history.
Hits(history, ip) == {i \in DOMAIN history : IpOf[history[i].conn] = ip}

TrackerItems(history) ==
    LET ips == {IpOf[e.conn] : e \in ToSet(history)} \ {Private}
        item(ip) == [ip |-> ip, count |-> Cardinality(Hits(history, ip)),
                     last_seen |-> Max({history[i].seen_at : i \in Hits(history, ip)})]
        before(x, y) ==
            \/ item(x).count > item(y).count
            \/ /\ item(x).count = item(y).count
               /\ Min(Hits(history, x)) < Min(Hits(history, y))
    IN  {item(ip) : ip \in
            {y \in ips : Cardinality({x \in ips : before(x, y)}) < ItemsMax}}

\* render(): the view's rows, drawn from the history as it now is.
DrawTraffic ==
    page' = [rows |-> IF trafficView' = "dashboard"
                      THEN ConnectionRows(trafficHistory', trafficFilter') ELSE <<>>,
             items |-> IF trafficView' = "tracker"
                       THEN TrackerItems(trafficHistory') ELSE {}]

\* patch(): only the dashboard's rows are drawn again.
PatchTraffic == IF trafficView = "dashboard" THEN DrawTraffic ELSE page' = page

-----------------------------------------------------------------------------
(* poll() *)

\* GET /engine/monitor/connections: the engine has listed them.
Ask(p, answer) ==
    /\ poller[p] = Resting
    /\ clock < MaxTime
    /\ clock' = clock + 1
    /\ poller' = [poller EXCEPT ![p] =
          [at |-> "asked", taken_at |-> clock, connections |-> answer]]
    /\ UNCHANGED <<trafficHistory, trafficPaused, trafficFilter, trafficView, page>>

\* Variant with a bug: a connection is known by when it was seen, too.
FreshByTime(answer, taken_at) ==
    Filter(answer, {i \in DOMAIN answer :
        [conn |-> answer[i], seen_at |-> taken_at] \notin ToSet(trafficHistory)})

\* The connections of an answer that are not in the history.
Fresh(answer, taken_at) ==
    Filter(answer, {i \in DOMAIN answer :
        \A e \in ToSet(trafficHistory) : e.conn # answer[i]})

\* Variant with a bug: an answer asked for before PAUSE is stored.
ArrivesUnpaused(p) ==
    /\ poller[p].at = "asked"
    /\ LET t == poller[p].taken_at
           fresh == Fresh(poller[p].connections, t)
           next == [i \in DOMAIN fresh |-> [conn |-> fresh[i], seen_at |-> t]]
       IN  trafficHistory' = Cut(next \o trafficHistory, HistoryMax)
    /\ poller' = [poller EXCEPT ![p] = Ending]
    /\ UNCHANGED <<clock, trafficPaused, trafficFilter, trafficView, page>>

\* The answer is there; while paused it is dropped.
Arrives(p) ==
    /\ poller[p].at = "asked"
    /\ LET t == poller[p].taken_at
           fresh == Fresh(poller[p].connections, t)
           next == [i \in DOMAIN fresh |-> [conn |-> fresh[i], seen_at |-> t]]
       IN  trafficHistory' = IF trafficPaused THEN trafficHistory
                             ELSE Cut(next \o trafficHistory, HistoryMax)
    /\ poller' = [poller EXCEPT ![p] = Ending]
    /\ UNCHANGED <<clock, trafficPaused, trafficFilter, trafficView, page>>

\* The request failed.
Fails(p) ==
    /\ poller[p].at = "asked"
    /\ poller' = [poller EXCEPT ![p] = Ending]
    /\ UNCHANGED <<clock, trafficHistory, trafficPaused, trafficFilter, trafficView, page>>

\* The poll ends with patch(), or with render().
Ends(p) ==
    /\ poller[p] = Ending
    /\ poller' = [poller EXCEPT ![p] = Resting]
    /\ UNCHANGED <<clock, trafficHistory, trafficPaused, trafficFilter, trafficView>>
    /\ PatchTraffic \/ DrawTraffic

-----------------------------------------------------------------------------
(* The dashboard's buttons, and navigation *)

\* PAUSE and RESUME
Pause ==
    /\ trafficView = "dashboard"
    /\ trafficPaused' = ~trafficPaused
    /\ UNCHANGED <<clock, poller, trafficHistory, trafficFilter, trafficView>>
    /\ DrawTraffic

Clear ==
    /\ trafficView = "dashboard"
    /\ trafficHistory' = <<>>
    /\ UNCHANGED <<clock, poller, trafficPaused, trafficFilter, trafficView>>
    /\ DrawTraffic

TypeFilter(f) ==
    /\ trafficView = "dashboard"
    /\ trafficFilter' = f
    /\ UNCHANGED <<clock, poller, trafficHistory, trafficPaused, trafficView>>
    /\ DrawTraffic

\* A message of another handler; with another view, navigation.
Look(v) ==
    /\ trafficView' = v
    /\ UNCHANGED <<clock, poller, trafficHistory, trafficPaused, trafficFilter>>
    /\ DrawTraffic

TrafficNext ==
    \/ \E p \in Pollers :
          Arrives(p) \/ Fails(p) \/ Ends(p) \/ \E answer \in Answers : Ask(p, answer)
    \/ Pause \/ Clear
    \/ \E f \in Filters : TypeFilter(f)
    \/ \E v \in TrafficViews : Look(v)

TrafficSpec == TrafficInit /\ [][TrafficNext]_trafficVars

-----------------------------------------------------------------------------
(* Properties *)

\* However polls overlap, pause and clear come in, the history is bounded and
\* counts a connection once: two entries of it come from one answer, which
\* listed it twice.  The tracker's hits rest on this.
OneSighting ==
    /\ Len(trafficHistory) <= HistoryMax
    /\ \A e, f \in ToSet(trafficHistory) : e.conn = f.conn => e.seen_at = f.seen_at

\* The dashboard lists what the history holds and the filter lets through, but
\* for answers of polls that have not ended yet; and once PAUSE was pressed, the
\* tracker view, which polls do not draw again, counts what the history holds,
\* whatever answers were on their way.
PageShowsHistory ==
    /\ trafficView = "dashboard" /\ (\A p \in Pollers : poller[p] # Ending)
          => page.rows = ConnectionRows(trafficHistory, trafficFilter)
    /\ trafficView = "tracker" /\ trafficPaused
          => page.items = TrackerItems(trafficHistory)
=============================================================================
