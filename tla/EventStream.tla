----------------------------- MODULE EventStream -----------------------------
(***************************************************************************)
(* The live event stream to the browser and its reconnect snapshot         *)
(* (crates/harness/src/server.rs, server/output.rs; web/src/ws-client.ts,  *)
(* protocol.ts, live-output.ts).                                           *)
(*                                                                         *)
(* Publishers change the projected snapshot, allocate sequence numbers and *)
(* broadcast events under one lock.  A WebSocket session subscribes before *)
(* the upgrade, sends a captured snapshot, then forwards the events the    *)
(* snapshot does not cover; when its bounded receiver lags it captures     *)
(* another snapshot, and it answers snapshot requests.  Publishers go on   *)
(* between a capture and the end of its send.  The browser gates events on *)
(* a snapshot and applies an event only at the exact next sequence.        *)
(***************************************************************************)
EXTENDS Integers, Sequences, FiniteSets, Extremes

CONSTANTS Keys,      \* actor and conversation identities of the projection
          Rows,      \* contents of a row
          Gone,      \* no row
          Commands,  \* command ids of receipts
          Items,     \* output items of the running model request
          Topics,    \* the sets of publishers considered together
          Limit,     \* receipts and live items kept (128 in the code)
          Buffer,    \* capacity of the broadcast channel
          Window,    \* frames the socket buffers before a send waits
          MaxSeq,    \* events published
          MaxLosses, \* connection losses
          MaxBad     \* frames the browser's validators refuse

ASSUME StreamAssumption == /\ \A t \in Topics : t \subseteq {"rows", "receipts", "output"}
                           /\ Gone \notin Rows /\ IsFiniteSet(Keys)
                           /\ {Limit, Buffer, Window} \subseteq Nat \ {0}
                           /\ {MaxSeq, MaxLosses, MaxBad} \subseteq Nat

VARIABLES
    topics,     \* the publishers of this behaviour
    log,        \* the events published so far; log[n] has sequence n
    shown,      \* the projected snapshot, without its sequence
    truth,      \* history: the projection that sequence n stands for
    session,    \* the server's session task
    down,       \* frames on their way to the browser
    asked,      \* snapshot requests on their way to the server
    current,    \* the browser's normalized state: [seq, view], or NoState
    phase,      \* the browser's transport phase
    requested,  \* requestedSnapshot
    losses, bad

publisher == <<log, shown, truth>>
transport == <<session, down, asked>>
client == <<current, phase, requested>>
streamVars == <<topics, publisher, transport, client, losses, bad>>

seq == Len(log)
\* A bounded table keeps its entries in the order they came: since says when.
Receipts == [id : Commands, since : Nat]
Outputs == [id : Items, streaming : BOOLEAN, since : Nat]
Projections == [rows : [Keys -> Rows \cup {Gone}], receipts : SUBSET Receipts, live : SUBSET Outputs]
NoState == [seq |-> MaxSeq + 1, view |-> <<>>]
Session(at, cursor, last, frame) == [at |-> at, cursor |-> cursor, last |-> last, frame |-> frame]
Closed == Session("closed", 0, 0, <<>>)

-----------------------------------------------------------------------------
(* Projections, changed by an event.                                       *)

Known(table, id) == \E x \in table : x.id = id
Without(table, id) == {x \in table : x.id # id}
Upcoming(table) == 1 + Highest({0} \cup {x.since : x \in table})
Newest(table) == {x \in table : Cardinality({y \in table : y.since > x.since}) < Limit}

Received(receipts, c) == receipts \cup {[id |-> c, since |-> Upcoming(receipts)]}
Streamed(live, i) == live \cup {[id |-> i, streaming |-> TRUE, since |-> Upcoming(live)]}
Stopped(live) == {[id |-> x.id, streaming |-> FALSE, since |-> x.since] : x \in live}

\* A receipt moves to the back; the oldest beyond the limit are dropped.
setCommandReceipt(receipts, c) == Newest(Received(Without(receipts, c), c))

\* What the browser makes of an event.
applyStateEvent(view, e) ==
    CASE e.kind = "row" -> [view EXCEPT !.rows[e.key] = e.value]
      [] e.kind = "receipt" -> [view EXCEPT !.receipts = setCommandReceipt(@, e.key)]
      [] e.kind = "remove" -> [view EXCEPT !.live = Without(@, e.key)]
      [] e.kind = "delta" -> [view EXCEPT !.live =
            IF Known(@, e.key) THEN @ ELSE Newest(Streamed(@, e.key))]
      [] e.kind = "stopped" -> [view EXCEPT !.live = Stopped(@)]

-----------------------------------------------------------------------------
(* Publishers.  All of a publication happens under the sequence lock and    *)
(* the snapshot lock.                                                      *)

Event(kind, key, value) == [kind |-> kind, key |-> key, value |-> value]

\* Publish the events; after[n] is the projection that the publisher's first n
\* events announce, and the last of them the snapshot it leaves.
Publish(events, after) ==
    /\ events # <<>>
    /\ seq + Len(events) <= MaxSeq
    /\ log' = log \o events
    /\ truth' = truth \o after
    /\ shown' = after[Len(events)]
    /\ UNCHANGED <<topics, transport, client, losses, bad>>

\* One event for every row that the new projection changes or removes; the order
\* is that of the identities' keys.
update_host_projection(rows) ==
    LET changed == {k \in Keys : rows[k] # shown.rows[k]}
        size == Cardinality(changed)
    IN \E order \in [1..size -> changed] :
         /\ \A k \in changed : \E n \in 1..size : order[n] = k
         /\ Publish([n \in 1..size |-> Event("row", order[n], rows[order[n]])],
                    [n \in 1..size |-> [shown EXCEPT !.rows =
                        IF n = size THEN rows
                        ELSE [k \in Keys |-> IF \E m \in 1..n : order[m] = k
                                             THEN rows[k] ELSE shown.rows[k]]]])

ReceiptKept(c) ==
    Publish(<<Event("receipt", c, Gone)>>,
            <<[shown EXCEPT !.receipts = IF Known(@, c) THEN @ ELSE Newest(Received(@, c))]>>)

publish_command_receipt(c) ==
    Publish(<<Event("receipt", c, Gone)>>,
            <<[shown EXCEPT !.receipts = Newest(Received(Without(@, c), c))]>>)

\* A delta of a new item evicts the oldest one, with an event of its own.
ObserveDelta(i) ==
    IF Known(shown.live, i)
    THEN /\ \E x \in shown.live : x.id = i /\ x.streaming
         /\ Publish(<<Event("delta", i, Gone)>>, <<shown>>)
    ELSE IF Cardinality(shown.live) < Limit
    THEN Publish(<<Event("delta", i, Gone)>>, <<[shown EXCEPT !.live = Streamed(@, i)]>>)
    ELSE LET old == CHOOSE x \in shown.live : \A y \in shown.live : x.since <= y.since
         IN Publish(<<Event("remove", old.id, Gone), Event("delta", i, Gone)>>,
                    <<[shown EXCEPT !.live = @ \ {old}],
                      [shown EXCEPT !.live = Streamed(@ \ {old}, i)]>>)

ObserveStopped ==
    /\ \E x \in shown.live : x.streaming
    /\ Publish(<<Event("stopped", Gone, Gone)>>, <<[shown EXCEPT !.live = Stopped(@)]>>)

-----------------------------------------------------------------------------
(* The session task of the server.                                         *)

Snapshot == [kind |-> "snapshot", seq |-> seq, body |-> shown]
Oldest == Highest({1, seq - Buffer + 1})

\* The browser opens a socket; the session subscribes before the upgrade.
Open ==
    /\ session.at = "closed" /\ phase = "disconnected"
    /\ session' = Session("upgrade", seq + 1, 0, <<>>)
    /\ current' = NoState /\ phase' = "connecting" /\ requested' = FALSE
    /\ UNCHANGED <<topics, publisher, down, asked, losses, bad>>

\* A snapshot is captured; the send that follows may wait for the socket.
Capture(cursor) == session' = Session("sending", cursor, session.last, Snapshot)

SendFirst ==
    /\ session.at = "upgrade"
    /\ Capture(session.cursor)
    /\ UNCHANGED <<topics, publisher, down, asked, client, losses, bad>>

AnswerRequest ==
    /\ session.at = "loop" /\ asked > 0
    /\ asked' = asked - 1
    /\ Capture(session.cursor)
    /\ UNCHANGED <<topics, publisher, down, client, losses, bad>>

\* The receiver lost events: it continues at the oldest one, after a snapshot.
Lagged ==
    /\ session.at = "loop" /\ session.cursor < Oldest
    /\ Capture(Oldest)
    /\ UNCHANGED <<topics, publisher, down, asked, client, losses, bad>>

\* An event is forwarded unless the last snapshot covers it.
Forward ==
    /\ session.at = "loop" /\ session.cursor \in Oldest..seq
    /\ session' = IF session.cursor > session.last
                  THEN Session("sending", session.cursor + 1, session.last,
                               [kind |-> "event", seq |-> session.cursor, body |-> log[session.cursor]])
                  ELSE [session EXCEPT !.cursor = @ + 1]
    /\ UNCHANGED <<topics, publisher, down, asked, client, losses, bad>>

Sent ==
    /\ session.at = "sending" /\ Len(down) < Window
    /\ down' = Append(down, session.frame)
    /\ session' = Session("loop", session.cursor, session.frame.seq, <<>>)
    /\ UNCHANGED <<topics, publisher, asked, client, losses, bad>>

-----------------------------------------------------------------------------
(* The browser's connection.                                               *)

RequestSilently ==
    IF requested THEN UNCHANGED <<phase, requested, asked>>
    ELSE /\ phase' = IF current = NoState THEN "awaiting_snapshot" ELSE "resync"
         /\ requested' = TRUE
         /\ UNCHANGED asked

\* One request is outstanding at a time.
requestSnapshot ==
    IF requested THEN UNCHANGED <<phase, requested, asked>>
    ELSE /\ phase' = IF current = NoState THEN "awaiting_snapshot" ELSE "resync"
         /\ requested' = TRUE
         /\ asked' = asked + 1

ReceiveSnapshot ==
    /\ phase # "disconnected" /\ down # <<>> /\ Head(down).kind = "snapshot"
    /\ down' = Tail(down)
    /\ IF current # NoState /\ Head(down).seq < current.seq
       THEN UNCHANGED client
       ELSE /\ current' = [seq |-> Head(down).seq, view |-> Head(down).body]
            /\ phase' = "ready"
            /\ requested' = FALSE
    /\ UNCHANGED <<topics, publisher, session, asked, losses, bad>>

ReceiveEvent ==
    /\ phase # "disconnected" /\ down # <<>> /\ Head(down).kind = "event"
    /\ down' = Tail(down)
    /\ IF phase = "ready" /\ Head(down).seq = current.seq + 1
       THEN /\ current' = [seq |-> Head(down).seq,
                           view |-> applyStateEvent(current.view, Head(down).body)]
            /\ UNCHANGED <<phase, requested, asked>>
       ELSE requestSnapshot /\ UNCHANGED current
    /\ UNCHANGED <<topics, publisher, session, losses, bad>>

\* A frame this browser cannot decode is dropped and a snapshot is requested.
ReceiveBad ==
    /\ phase # "disconnected" /\ down # <<>> /\ bad < MaxBad
    /\ bad' = bad + 1
    /\ down' = Tail(down)
    /\ requestSnapshot
    /\ UNCHANGED <<topics, publisher, session, current, losses>>

\* The socket closes: an error, a refused authentication, or the resync timer.
Disconnect ==
    /\ session.at # "closed" /\ losses < MaxLosses
    /\ losses' = losses + 1
    /\ session' = Closed /\ down' = <<>> /\ asked' = 0
    /\ phase' = "disconnected"
    /\ UNCHANGED <<topics, publisher, current, requested, bad>>

-----------------------------------------------------------------------------
StreamInit ==
    /\ topics \in Topics
    /\ log = <<>> /\ truth = <<>>
    /\ shown = [rows |-> [k \in Keys |-> Gone], receipts |-> {}, live |-> {}]
    /\ session = Closed /\ down = <<>> /\ asked = 0
    /\ current = NoState /\ phase = "disconnected" /\ requested = FALSE
    /\ losses = 0 /\ bad = 0

ServerStep == SendFirst \/ AnswerRequest \/ Lagged \/ Forward \/ Sent
ClientStep == ReceiveSnapshot \/ ReceiveEvent

StreamNext ==
    \/ "rows" \in topics /\ \E rows \in [Keys -> Rows \cup {Gone}] : update_host_projection(rows)
    \/ "receipts" \in topics /\ \E c \in Commands : publish_command_receipt(c)
    \/ "output" \in topics /\ (ObserveStopped \/ \E i \in Items : ObserveDelta(i))
    \/ ServerStep \/ ClientStep \/ ReceiveBad \/ Open \/ Disconnect

StreamFairness == WF_streamVars(ServerStep) /\ WF_streamVars(ClientStep) /\ WF_streamVars(Open)

StreamSpec == StreamInit /\ [][StreamNext]_streamVars /\ StreamFairness

-----------------------------------------------------------------------------
(* Properties.                                                             *)

\* The projection that sequence n stands for, from the start.
Truth(n) == IF n = 0 THEN [rows |-> [k \in Keys |-> Gone], receipts |-> {}, live |-> {}]
            ELSE truth[n]

(***************************************************************************)
(* What the browser shows at a sequence is exactly what the server's       *)
(* snapshot was at that sequence, row by row, including what each side     *)
(* evicted on its own from its bounded tables; and the session hands over  *)
(* from snapshot to events without a hole and without going back: a ready  *)
(* browser finds the exact next event at the head of its socket, and no    *)
(* snapshot older than what it shows.                                      *)
(***************************************************************************)
ViewMatches ==
    current # NoState =>
        /\ current.view = Truth(current.seq)
        /\ down # <<>> => IF Head(down).kind = "event"
                          THEN phase = "ready" => Head(down).seq = current.seq + 1
                          ELSE Head(down).seq >= current.seq

(***************************************************************************)
(* Broadcast lag, refused frames and lost connections never leave the      *)
(* browser behind for good: whatever was published, it is ready with the   *)
(* newest sequence again and again.                                        *)
(***************************************************************************)
CatchesUp == []<>(seq > 0 => phase = "ready" /\ current.seq = seq)
=============================================================================
