------------------------------- MODULE LivePage -------------------------------
(***************************************************************************)
(* The Command Center's pages over the event stream (refresh and the live  *)
(* events of command-center-assets.ts).  A page shows the overview that it *)
(* last fetched.  Fetches are coalesced: one asked for while another is in *)
(* flight follows it, after the debounce timer.  An event, a reset and the *)
(* opening of the stream ask for one, and so does an interval while the    *)
(* stream is down.  What a page shows is abstracted to whether the latest  *)
(* event's change is in it.                                                *)
(***************************************************************************)
EXTENDS EventStream

VARIABLE view  \* what each page shows, its fetch, timers and lastEventSequence

pageVars == <<streamVars, view>>

\* A page that has just been opened shows no data yet.
NewView == [shown |-> "NOTHING", fetch |-> "NONE", queued |-> FALSE, timer |-> FALSE,
            fallback |-> FALSE, seen |-> 0]

PagesInit == StreamInit /\ view = [p \in Page |-> NewView]

-----------------------------------------------------------------------------
(* refresh() and the functions around it. *)

\* Mutant: the fetch in flight answers for the one asked for now.
JoinFetch(v) == IF v.fetch = "NONE" THEN [v EXCEPT !.fetch = "ASKED"] ELSE v

Refresh(v) == IF v.fetch = "NONE" THEN [v EXCEPT !.fetch = "ASKED"] ELSE [v EXCEPT !.queued = TRUE]

ScheduleRefresh(v) == [v EXCEPT !.timer = TRUE]

StartFallback(v) == IF v.fallback THEN v ELSE [Refresh(v) EXCEPT !.fallback = TRUE]
StopFallback(v) == [v EXCEPT !.fallback = FALSE]

\* The fetch is over: `shown' is what the page shows now.
FetchEnds(v, shown) ==
  [v EXCEPT !.shown = shown, !.fetch = "NONE", !.queued = FALSE, !.timer = @ \/ v.queued]

AcceptCursor(v, id) == IF id > v.seen THEN ScheduleRefresh([v EXCEPT !.seen = id]) ELSE v

-----------------------------------------------------------------------------
(* Steps of the page alone. *)

RefreshTimer(p) ==
  /\ view[p].timer
  /\ view' = [view EXCEPT ![p] = Refresh([@ EXCEPT !.timer = FALSE])]
  /\ UNCHANGED streamVars

FallbackInterval(p) ==
  /\ view[p].fallback
  /\ view' = [view EXCEPT ![p] = Refresh(@)]
  /\ UNCHANGED streamVars

\* The server reads the overview for the page.
ReadOverview(p) ==
  /\ view[p].fetch = "ASKED" /\ server # "DOWN"
  /\ view' = [view EXCEPT ![p].fetch = "CURRENT"]
  /\ UNCHANGED streamVars

RenderOverview(p) ==
  /\ view[p].fetch \in {"CURRENT", "BEHIND"}
  /\ view' = [view EXCEPT ![p] = FetchEnds(@, view[p].fetch)]
  /\ UNCHANGED streamVars

\* The page says that the local API could not be reached.
FetchFails(p) ==
  /\ view[p].fetch # "NONE"
  /\ \/ server # "UP" /\ UNCHANGED streamFaults
     \/ StreamFaults
  /\ view' = [view EXCEPT ![p] = FetchEnds(@, "ERROR")]
  /\ UNCHANGED <<tableVars, server, eventRequest, cursors, pump, wire, eventSource>>

-----------------------------------------------------------------------------
(* Steps of the stream, with the listeners they call. *)

PageReceives(p) ==
  /\ Receive(p)
  /\ LET frame == Head(wire[p]) IN
       view' = [view EXCEPT ![p] =
         CASE frame.kind = "OPEN" -> Refresh(StopFallback(@))
           [] frame.kind = "EVENT" -> AcceptCursor(@, frame.id)
           [] frame.kind = "RESET" -> ScheduleRefresh([@ EXCEPT !.seen = frame.id])
           [] OTHER -> StartFallback(@)]

\* Steps after which the EventSource may have got an error.
Connection(p) == RequestArrives(p) \/ RequestFails(p) \/ ConnectionLost(p)

PageConnection(p) ==
  /\ Connection(p)
  /\ view' = [view EXCEPT ![p] =
       IF eventSource'[p].state \in {"WAITING", "FAILED"} THEN StartFallback(@) ELSE @]

HidePage(p) == Hide(p) /\ view' = [view EXCEPT ![p] = StopFallback(@)]

\* What was read before an event is behind.
Outdated(content) == IF content = "CURRENT" THEN "BEHIND" ELSE content

ChangeHappens ==
  /\ AppendEvent
  /\ view' = [p \in Page |->
       [view[p] EXCEPT !.shown = Outdated(@), !.fetch = Outdated(@)]]

ServerStep ==
  /\ \/ PruneEvents \/ PumpReadsWindow \/ PumpSendsBatch \/ PumpFails
     \/ ServerCloses \/ ServerEnds \/ ServerIsKilled \/ StartServer
     \/ \E p \in Page : ReadWindow(p) \/ LoadReplay(p) \/ Reconnect(p) \/ Show(p)
  /\ UNCHANGED view

PagesNext ==
  \/ ChangeHappens \/ ServerStep
  \/ \E p \in Page :
       \/ RefreshTimer(p) \/ FallbackInterval(p)
       \/ ReadOverview(p) \/ RenderOverview(p) \/ FetchFails(p)
       \/ PageReceives(p) \/ PageConnection(p) \/ HidePage(p)

PagesSpec == PagesInit /\ [][PagesNext]_pageVars

\* The timers of the server and of the pages fire, reads and fetches end, and the
\* service manager starts the server again.
PageStep(p) ==
  \/ RequestArrives(p) /\ PageConnection(p)
  \/ (ReadWindow(p) \/ LoadReplay(p) \/ Reconnect(p)) /\ UNCHANGED view

PagesFairness ==
  /\ WF_pageVars((PumpReadsWindow \/ PumpSendsBatch) /\ UNCHANGED view)
  /\ WF_pageVars((ServerEnds \/ StartServer) /\ UNCHANGED view)
  /\ \A p \in Page :
       /\ WF_pageVars(PageStep(p))
       /\ WF_pageVars(PageReceives(p))
       /\ WF_pageVars(RefreshTimer(p)) /\ WF_pageVars(FallbackInterval(p))
       /\ WF_pageVars(ReadOverview(p) \/ RenderOverview(p) \/ FetchFails(p))

PagesFairSpec == PagesSpec /\ PagesFairness

-----------------------------------------------------------------------------
(* Properties. *)

Hidden(p) == eventSource[p].state = "CLOSED"

\* A page that is looked at does not go on showing data from before a change: it
\* fetches again, or says that the server cannot be reached - whatever happens to
\* its connection, to the server and to the events (refresh, startLiveFallback,
\* connectLiveEvents).
PagesCatchUp == \A p \in Page : view[p].shown = "BEHIND" ~> view[p].shown # "BEHIND" \/ Hidden(p)

=============================================================================
