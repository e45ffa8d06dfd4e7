----------------------------- MODULE EventStream -----------------------------
(***************************************************************************)
(* The operational events as the Command Center streams them to its pages  *)
(* (#handleEventStream, #loadReplay and #pumpEvents of                     *)
(* command-center-server.ts, over operations_events).  A page reads with a *)
(* browser's EventSource, which comes back with the last identifier it     *)
(* saw.  The request is answered by a replay, or by a reset when the       *)
(* cursor is out of the window or too far behind; then the page joins the  *)
(* connections that one pump serves from the slowest cursor on.  Each read *)
(* of the events is a transaction of its own: others append events, the    *)
(* retention prunes them, and pages come and go in between.  Events have   *)
(* the numbers firstEvent..lastEvent; a page is known by its one request.  *)
(***************************************************************************)
EXTENDS Integers, Sequences, FiniteSetsExt

CONSTANTS
  Page,
  ConnectionLimit,   \* eventConnectionLimit
  EventBatch,        \* EVENT_BATCH_SIZE
  MaxReplay,         \* eventMaxReplay
  MaxBuffer,         \* frames that may wait for one page
  RetainNewest,      \* events that the retention keeps
  LastEventNumber,   \* bound: events
  MaxStreamFaults    \* bound: lost connections, failing reads, ends of the server

ASSUME StreamAssumption ==
  /\ {ConnectionLimit, EventBatch, MaxReplay, MaxBuffer, RetainNewest} \subseteq Nat \ {0}
  /\ {LastEventNumber, MaxStreamFaults} \subseteq Nat

VARIABLES
  firstEvent, lastEvent,  \* the events in the table
  server,                 \* "UP", "CLOSING" after a signal, or "DOWN"
  eventRequest,           \* what the handler of each page's request has read
  cursors,                \* #eventConnections: the cursor of each joined page
  pump,                   \* the pump's step, and the cursor it reads from
  wire,                   \* frames on their way to each page
  eventSource,            \* the EventSource of each page
  streamFaults

tableVars == <<firstEvent, lastEvent>>
streamVars == <<tableVars, server, eventRequest, cursors, pump, wire, eventSource, streamFaults>>

NotJoined == -1
NoRequest == [at |-> "NONE", requested |-> 0, cursor |-> 0, high |-> 0, loaded |-> <<>>]
PumpIdle == [at |-> "IDLE", after |-> 0]
NewSource == [state |-> "CONNECTING", lastId |-> 0]

StreamInit ==
  /\ firstEvent = 1 /\ lastEvent = 0
  /\ server = "UP"
  /\ eventRequest = [p \in Page |-> NoRequest]
  /\ cursors = [p \in Page |-> NotJoined]
  /\ pump = PumpIdle
  /\ wire = [p \in Page |-> <<>>]
  /\ eventSource = [p \in Page |-> NewSource]
  /\ streamFaults = 0

Joined == {p \in Page : cursors[p] # NotJoined}

Frame(kind, id) == [kind |-> kind, id |-> id]
EventFrames(ids) == [i \in 1..Len(ids) |-> Frame("EVENT", ids[i])]
Ended == <<Frame("END", 0)>>

StreamFaults ==
  /\ streamFaults < MaxStreamFaults
  /\ streamFaults' = streamFaults + 1

-----------------------------------------------------------------------------
(* The table. *)

AppendEvent ==
  /\ lastEvent < LastEventNumber
  /\ lastEvent' = lastEvent + 1
  /\ UNCHANGED <<firstEvent, server, eventRequest, cursors, pump, wire, eventSource, streamFaults>>

\* A pass of the retention has a limit, and may leave more than RetainNewest.
PruneEvents ==
  /\ \E first \in (firstEvent + 1)..(lastEvent - RetainNewest + 1) : firstEvent' = first
  /\ UNCHANGED <<lastEvent, server, eventRequest, cursors, pump, wire, eventSource, streamFaults>>

\* The events from one number to another, in their order.
EventsOf(from, to) == [i \in 1..(to - from + 1) |-> from + i - 1]

\* listAfter: the oldest events behind the cursor.
EventsAfter(cursor, limit) ==
  LET from == Max({cursor + 1, firstEvent}) IN
  EventsOf(from, Min({lastEvent, from + limit - 1}))

-----------------------------------------------------------------------------
(* A page's request. *)

\* The EventSource gives up for good on any answer but 200, and comes back when
\* there is none.
RequestArrives(p) ==
  /\ eventSource[p].state = "CONNECTING"
  /\ eventRequest[p] = NoRequest /\ cursors[p] = NotJoined /\ wire[p] = <<>>
  /\ \/ /\ server = "UP" /\ Cardinality(Joined) < ConnectionLimit
        /\ eventRequest' = [eventRequest EXCEPT ![p] =
             [NoRequest EXCEPT !.at = "WINDOW", !.requested = eventSource[p].lastId]]
        /\ UNCHANGED eventSource
     \/ /\ \/ server = "CLOSING"
           \/ server = "UP" /\ Cardinality(Joined) >= ConnectionLimit
        /\ eventSource' = [eventSource EXCEPT ![p].state = "FAILED"]
        /\ UNCHANGED eventRequest
     \/ /\ server # "UP"
        /\ eventSource' = [eventSource EXCEPT ![p].state = "WAITING"]
        /\ UNCHANGED eventRequest
  /\ UNCHANGED <<tableVars, server, cursors, pump, wire, streamFaults>>

\* The answer's headers and the frames that fit into the buffer leave at once.  With
\* all of them written the page joins those that the pump serves.
Answer(p, frames, cursor) ==
  LET answer == <<Frame("OPEN", 0)>> \o frames IN
  /\ eventRequest' = [eventRequest EXCEPT ![p] = NoRequest]
  /\ IF Len(answer) <= MaxBuffer
       THEN /\ wire' = [wire EXCEPT ![p] = answer]
            /\ cursors' = [cursors EXCEPT ![p] = cursor]
       ELSE /\ wire' = [wire EXCEPT ![p] = SubSeq(answer, 1, MaxBuffer) \o Ended]
            /\ UNCHANGED cursors

ReadWindow(p) ==
  LET requested == eventRequest[p].requested IN
  /\ eventRequest[p].at = "WINDOW"
  /\ \/ /\ requested = 0
        /\ Answer(p, <<>>, lastEvent)
     \/ /\ requested # 0 /\ requested \notin (firstEvent - 1)..lastEvent
        /\ Answer(p, <<Frame("RESET", lastEvent)>>, lastEvent)
     \/ /\ requested # 0 /\ requested = lastEvent
        /\ Answer(p, <<>>, requested)
     \/ /\ requested # 0 /\ requested \in (firstEvent - 1)..(lastEvent - 1)
        /\ eventRequest' = [eventRequest EXCEPT ![p] =
             [@ EXCEPT !.at = "REPLAY", !.cursor = requested, !.high = lastEvent]]
        /\ UNCHANGED <<wire, cursors>>
  /\ UNCHANGED <<tableVars, server, pump, eventSource, streamFaults>>

\* One turn of the loop of #loadReplay.
LoadReplay(p) ==
  LET request == eventRequest[p]
      limit == Min({EventBatch, MaxReplay - Len(request.loaded) + 1})
      batch == EventsAfter(request.cursor, limit)
      loaded == request.loaded \o batch
      cursor == IF batch = <<>> THEN request.cursor ELSE batch[Len(batch)]
      done == cursor >= request.high \/ Len(batch) < limit
  IN
  /\ request.at = "REPLAY"
  /\ \/ /\ Len(loaded) >= MaxReplay /\ (Len(loaded) = MaxReplay => ~done)
        /\ Answer(p, <<Frame("RESET", request.high)>>, request.high)
     \/ /\ Len(loaded) <= MaxReplay /\ done
        /\ Answer(p, EventFrames(loaded), cursor)
     \/ /\ Len(loaded) < MaxReplay /\ ~done
        /\ eventRequest' = [eventRequest EXCEPT ![p] = [@ EXCEPT !.cursor = cursor, !.loaded = loaded]]
        /\ UNCHANGED <<wire, cursors>>
  /\ UNCHANGED <<tableVars, server, pump, eventSource, streamFaults>>

\* A read that fails is answered with status 500.
RequestFails(p) ==
  /\ eventRequest[p] # NoRequest
  /\ StreamFaults
  /\ eventRequest' = [eventRequest EXCEPT ![p] = NoRequest]
  /\ eventSource' = [eventSource EXCEPT ![p].state = "FAILED"]
  /\ UNCHANGED <<tableVars, server, cursors, pump, wire>>

-----------------------------------------------------------------------------
(* The pump. *)

\* Frames for the joined pages; a page for which they do not fit loses its connection.
Fits(p, frames) == Len(wire[p]) + Len(frames) <= MaxBuffer

Send(frames) ==
  wire' = [p \in Page |->
    IF p \notin Joined THEN wire[p]
    ELSE IF Fits(p, frames[p]) THEN wire[p] \o frames[p]
    ELSE wire[p] \o SubSeq(frames[p], 1, MaxBuffer - Len(wire[p])) \o Ended]

\* The pump starts on the timer and after every join.  Cursors that have fallen out of
\* the window are reset.
PumpReadsWindow ==
  LET expired == {p \in Joined : firstEvent <= lastEvent /\ cursors[p] < firstEvent - 1}
      frames == [p \in Page |-> IF p \in expired THEN <<Frame("RESET", lastEvent)>> ELSE <<>>]
      moved == [p \in Page |->
        IF p \in Joined /\ ~Fits(p, frames[p]) THEN NotJoined
        ELSE IF p \in expired THEN lastEvent ELSE cursors[p]]
      remaining == {moved[p] : p \in Page} \ {NotJoined}
  IN
  /\ pump = PumpIdle /\ Joined # {}
  /\ Send(frames)
  /\ cursors' = moved
  /\ pump' = IF remaining = {} THEN PumpIdle ELSE [at |-> "LIST", after |-> Min(remaining)]
  /\ UNCHANGED <<tableVars, server, eventRequest, eventSource, streamFaults>>

\* Mutant: every page is sent the whole batch.
WholeBatch(p, batch) == batch

\* What of a batch, whose numbers are consecutive, lies ahead of a page.
Unseen(p, batch) ==
  IF batch = <<>> THEN batch ELSE EventsOf(Max({batch[1], cursors[p] + 1}), batch[Len(batch)])

PumpSendsBatch ==
  LET batch == EventsAfter(pump.after, EventBatch)
      frames == [p \in Page |-> EventFrames(Unseen(p, batch))]
  IN
  /\ pump.at = "LIST"
  /\ Send(frames)
  /\ cursors' = [p \in Page |->
       IF p \notin Joined \/ frames[p] = <<>> THEN cursors[p]
       ELSE IF Fits(p, frames[p]) THEN batch[Len(batch)] ELSE NotJoined]
  /\ pump' = PumpIdle
  /\ UNCHANGED <<tableVars, server, eventRequest, eventSource, streamFaults>>

\* A failing read of the pump: every connection is told, and ended.
PumpFails ==
  /\ Joined # {} /\ StreamFaults
  /\ wire' = [p \in Page |->
       IF p \notin Joined THEN wire[p]
       ELSE IF Fits(p, <<Frame("UNAVAILABLE", 0)>>) THEN wire[p] \o <<Frame("UNAVAILABLE", 0)>> \o Ended
       ELSE wire[p] \o Ended]
  /\ cursors' = [p \in Page |-> NotJoined]
  /\ pump' = PumpIdle
  /\ UNCHANGED <<tableVars, server, eventRequest, eventSource>>

-----------------------------------------------------------------------------
(* The server's life. *)

\* close() ends the connections there are; requests that are still being read for
\* join later, and the server waits for them.
ServerCloses ==
  /\ server = "UP" /\ StreamFaults
  /\ server' = "CLOSING"
  /\ wire' = [p \in Page |->
       IF p \notin Joined THEN wire[p]
       ELSE IF Fits(p, <<Frame("SHUTDOWN", 0)>>) THEN wire[p] \o <<Frame("SHUTDOWN", 0)>> \o Ended
       ELSE wire[p] \o Ended]
  /\ cursors' = [p \in Page |-> NotJoined]
  /\ UNCHANGED <<tableVars, eventRequest, pump, eventSource>>

ServerIsGone ==
  /\ server' = "DOWN"
  /\ wire' = [p \in Page |-> IF p \in Joined \/ eventRequest[p] # NoRequest THEN wire[p] \o Ended ELSE wire[p]]
  /\ cursors' = [p \in Page |-> NotJoined]
  /\ eventRequest' = [p \in Page |-> NoRequest]
  /\ pump' = PumpIdle
  /\ UNCHANGED <<tableVars, eventSource>>

ServerEnds ==
  /\ server = "CLOSING" /\ Joined = {} /\ \A p \in Page : eventRequest[p] = NoRequest
  /\ ServerIsGone
  /\ UNCHANGED streamFaults

ServerIsKilled == server # "DOWN" /\ StreamFaults /\ ServerIsGone

StartServer ==
  /\ server = "DOWN"
  /\ server' = "UP"
  /\ UNCHANGED <<tableVars, eventRequest, cursors, pump, wire, eventSource, streamFaults>>

-----------------------------------------------------------------------------
(* The page's EventSource. *)

\* The server's side of a connection that is gone: its reads go on for nobody.
Disconnect(p) ==
  /\ eventRequest' = [eventRequest EXCEPT ![p] = NoRequest]
  /\ cursors' = [cursors EXCEPT ![p] = NotJoined]
  /\ wire' = [wire EXCEPT ![p] = <<>>]

Receive(p) ==
  /\ wire[p] # <<>>
  /\ wire' = [wire EXCEPT ![p] = Tail(@)]
  /\ LET frame == Head(wire[p]) IN
       eventSource' = [eventSource EXCEPT ![p] =
         CASE frame.kind = "OPEN" -> [@ EXCEPT !.state = "OPEN"]
           [] frame.kind = "END" -> [@ EXCEPT !.state = "WAITING"]
           [] frame.kind \in {"EVENT", "RESET"} -> [@ EXCEPT !.lastId = frame.id]
           [] OTHER -> @]
  /\ UNCHANGED <<tableVars, server, eventRequest, cursors, pump, streamFaults>>

Reconnect(p) ==
  /\ eventSource[p].state = "WAITING"
  /\ eventSource' = [eventSource EXCEPT ![p].state = "CONNECTING"]
  /\ UNCHANGED <<tableVars, server, eventRequest, cursors, pump, wire, streamFaults>>

\* With the connection go the frames on their way.
ConnectionLost(p) ==
  /\ eventRequest[p] # NoRequest \/ wire[p] # <<>> \/ cursors[p] # NotJoined
  /\ StreamFaults
  /\ Disconnect(p)
  /\ eventSource' = [eventSource EXCEPT ![p].state = "WAITING"]
  /\ UNCHANGED <<tableVars, server, pump>>

\* A hidden page closes its EventSource, and opens a new one when it is shown again.
Hide(p) ==
  /\ eventSource[p].state # "CLOSED"
  /\ Disconnect(p)
  /\ eventSource' = [eventSource EXCEPT ![p].state = "CLOSED"]
  /\ UNCHANGED <<tableVars, server, pump, streamFaults>>

Show(p) ==
  /\ eventSource[p].state = "CLOSED"
  /\ eventSource' = [eventSource EXCEPT ![p] = NewSource]
  /\ UNCHANGED <<tableVars, server, eventRequest, cursors, pump, wire, streamFaults>>

-----------------------------------------------------------------------------
StreamNext ==
  \/ AppendEvent \/ PruneEvents
  \/ PumpReadsWindow \/ PumpSendsBatch \/ PumpFails
  \/ ServerCloses \/ ServerEnds \/ ServerIsKilled \/ StartServer
  \/ \E p \in Page :
       \/ RequestArrives(p) \/ ReadWindow(p) \/ LoadReplay(p) \/ RequestFails(p)
       \/ Receive(p) \/ Reconnect(p) \/ ConnectionLost(p) \/ Hide(p) \/ Show(p)

StreamSpec == StreamInit /\ [][StreamNext]_streamVars

-----------------------------------------------------------------------------
(* Properties. *)

Cursor == 0..LastEventNumber
FrameKind == {"OPEN", "EVENT", "RESET", "UNAVAILABLE", "SHUTDOWN", "END"}

\* The tables and the memories keep their shapes.
StreamTypeOK ==
  /\ firstEvent \in 1..(LastEventNumber + 1) /\ lastEvent \in Cursor
  /\ server \in {"UP", "CLOSING", "DOWN"}
  /\ \A p \in Page :
       /\ eventRequest[p].at \in {"NONE", "WINDOW", "REPLAY"}
       /\ {eventRequest[p].requested, eventRequest[p].cursor, eventRequest[p].high} \subseteq Cursor
       /\ Len(eventRequest[p].loaded) <= MaxReplay
       /\ cursors[p] \in {NotJoined} \union Cursor
       /\ Len(wire[p]) <= MaxBuffer + 1
       /\ \A i \in 1..Len(wire[p]) : wire[p][i].kind \in FrameKind /\ wire[p][i].id \in Cursor
       /\ eventSource[p].state \in {"CLOSED", "CONNECTING", "OPEN", "WAITING", "FAILED"}
       /\ eventSource[p].lastId \in Cursor
  /\ pump.at \in {"IDLE", "LIST"} /\ pump.after \in Cursor
  /\ streamFaults \in 0..MaxStreamFaults

Receives(p, kind) == wire[p] # <<>> /\ Head(wire[p]).kind = kind /\ wire'[p] = Tail(wire[p])

\* A page is sent no event that it has already seen, over any number of lost
\* connections, replays and pages with other cursors; and the pump skips no event
\* of a page's but those pruned since it read the window, or those before the batch
\* that it was reading when the page joined (#handleEventStream, #pumpEvents).
EventsFollow ==
  [][\A p \in Page :
       /\ Receives(p, "EVENT") => Head(wire[p]).id > eventSource[p].lastId
       /\ PumpSendsBatch /\ p \in Joined /\ Len(wire'[p]) > Len(wire[p]) =>
            \/ wire'[p][Len(wire[p]) + 1].kind = "END"
            \/ wire'[p][Len(wire[p]) + 1].id = cursors[p] + 1
            \/ cursors[p] + 1 < firstEvent
            \/ cursors[p] < pump.after]_streamVars

=============================================================================
