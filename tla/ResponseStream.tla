--------------------------- MODULE ResponseStream ---------------------------
(***************************************************************************)
(* One model request on the wire (crates/harness/src/transport/client.rs,  *)
(* sse.rs, admission.rs).                                                  *)
(*                                                                         *)
(* A request compares its prepared contract, waits for one of the run's    *)
(* shared inference permits, looks up the credential, sends, and reads the *)
(* response body chunk by chunk.  The framer turns bytes into events, the  *)
(* assembly turns events into completed items and one terminal, and the    *)
(* items go to the engine while the body is still being read.  The body    *)
(* may end or fail anywhere, the engine may stop listening, and the whole  *)
(* request may be dropped at any await.                                    *)
(*                                                                         *)
(* A byte is a token: a line break, the field name of a data line or of    *)
(* another line, bytes that are not UTF-8, or one piece of the text of an  *)
(* event.  Text deltas, tool names for display, usage and the fields of    *)
(* the observation other than its end are left out.                        *)
(***************************************************************************)
EXTENDS Naturals, Sequences, TLC
LOCAL INSTANCE SequencesExt
LOCAL INSTANCE FiniteSetsExt

CONSTANTS Bodies,      \* the requests of a run, and the body [docs, bytes] that
                       \* the provider sends to each
          MaxInflight, \* inference permits shared by the run's clients
          MaxLine,     \* bytes of the longest line the framer accepts
          Capacity     \* events the engine's channel holds

ASSUME TransportAssumption == {MaxInflight, MaxLine, Capacity} \subseteq Nat \ {0}

VARIABLES
    body,       \* the body sent to each request
    wire,       \* the future of each request
    permits,    \* free permits of the shared semaphore
    channel,    \* events on their way to the engine
    listening,  \* the engine still holds the receiver
    observed    \* history: the ends published, per request

transportVars == <<body, wire, permits, channel, listening, observed>>

HttpRequests == DOMAIN body
CR == <<"cr">>
LF == <<"lf">>
DataField == <<"data">>
OtherField == <<"other">>
NotUtf8 == <<"bad">>
Text(doc, part) == <<"text", doc, part>>

None == "none"
-----------------------------------------------------------------------------
(* The framer.                                                             *)

NewFramer == [line |-> <<>>, data |-> <<>>, skip |-> FALSE]
Pushed(f) == [framer |-> f, events |-> <<>>, error |-> FALSE, used |-> 0]

\* The end of a line: a blank line closes an event that has data.
end_line(p, skip) ==
    LET f == p.framer
        cleared == [f EXCEPT !.line = <<>>, !.skip = skip]
    IN IF NotUtf8 \in ToSet(f.line) THEN [p EXCEPT !.error = TRUE]
       ELSE IF f.line = <<>>
       THEN [p EXCEPT !.framer = [cleared EXCEPT !.data = <<>>],
                      !.events = IF f.data = <<>> THEN @ ELSE Append(@, f.data)]
       ELSE [p EXCEPT !.framer =
                IF Head(f.line) = DataField
                THEN [cleared EXCEPT !.data = Append(@, Tail(f.line))] ELSE cleared]

PushByteUnskipped(p, b) ==
    LET f == p.framer
        q == [p EXCEPT !.used = @ + 1]
    IN IF p.error THEN p
       ELSE IF b \in {CR, LF} THEN end_line(q, FALSE)
       ELSE [q EXCEPT !.framer = [f EXCEPT !.line = Append(@, b), !.skip = FALSE],
                      !.error = Len(f.line) + 1 > MaxLine]

\* One byte: a line feed after a carriage return is part of the same break.
PushByte(p, b) ==
    LET f == p.framer
        q == [p EXCEPT !.used = @ + 1]
    IN IF p.error THEN p
       ELSE IF f.skip /\ b = LF THEN [q EXCEPT !.framer.skip = FALSE]
       ELSE IF b \in {CR, LF} THEN end_line(q, b = CR)
       ELSE [q EXCEPT !.framer = [f EXCEPT !.line = Append(@, b), !.skip = FALSE],
                      !.error = Len(f.line) + 1 > MaxLine]

\* Events framed before a malformed line of the same chunk are kept.
push(framer, chunk) == FoldLeft(PushByte, Pushed(framer), chunk)

-----------------------------------------------------------------------------
(* The assembly.                                                           *)

NewAssembly == [items |-> <<>>, created |-> None, completed |-> FALSE]
Accepted(a) == [assembly |-> a, sends |-> <<>>, refused |-> FALSE, terminal |-> FALSE]
Refused(a) == [Accepted(a) EXCEPT !.refused = TRUE]

\* The event whose JSON the data lines hold, if they hold one.
Parsed(docs, data) ==
    {d \in DOMAIN docs : data = [n \in 1..docs[d].lines |-> <<Text(d, n)>>]}

OtherIdentity(a, e) == a.created \notin {None, e.id}

\* A nonempty terminal output is reconciled with the items already streamed.
AcceptCompleted(a, e) ==
    LET final == [n \in 0..(Len(e.output) - 1) |-> e.output[n + 1]]
        conflict == \E n \in DOMAIN final \cap DOMAIN a.items : final[n] # a.items[n]
        merged == a.items @@ final
        complete == [Accepted([a EXCEPT !.items = IF e.output = <<>> THEN @ ELSE merged,
                                        !.completed = TRUE]) EXCEPT !.terminal = TRUE]
    IN CASE OtherIdentity(a, e) -> Refused(a)
         [] e.output = <<>> -> complete
         [] conflict -> Refused(a)
         [] Cardinality(DOMAIN merged) # Len(e.output) -> Refused(a)
         [] OTHER -> complete

accept(a, e) ==
    CASE e.type = "created" ->
            IF OtherIdentity(a, e) THEN Refused(a) ELSE Accepted([a EXCEPT !.created = e.id])
      [] e.type = "done" ->
            IF e.index \in DOMAIN a.items /\ a.items[e.index] # e.item THEN Refused(a)
            ELSE [Accepted([a EXCEPT !.items = (e.index :> e.item) @@ @])
                    EXCEPT !.sends = <<[index |-> e.index, item |-> e.item]>>]
      [] e.type = "completed" -> AcceptCompleted(a, e)
      [] e.type = "incomplete" ->
            [Refused(a) EXCEPT !.terminal = ~OtherIdentity(a, e)]
      [] e.type = "failed" -> [Refused(a) EXCEPT !.terminal = TRUE]
      [] e.type = "malformed" -> Refused(a)
      [] OTHER -> Accepted(a)

\* The turn: every position from the first must be there.
finish(a) ==
    IF a.completed /\ DOMAIN a.items = 0..(Cardinality(DOMAIN a.items) - 1)
    THEN [ok |-> TRUE, items |-> a.items]
    ELSE [ok |-> FALSE, items |-> <<>>]

-----------------------------------------------------------------------------
(* The request.                                                            *)

Failed == [ok |-> FALSE, items |-> <<>>]
Fresh == [pc |-> "idle", held |-> FALSE, dispatched |-> FALSE, read |-> 0,
          framer |-> NewFramer, frames |-> <<>>, malformed |-> FALSE,
          assembly |-> NewAssembly, framed |-> <<>>, sent |-> {}, sending |-> <<>>,
          result |-> Failed]

TransportInit ==
    /\ body \in Bodies
    /\ wire = [r \in DOMAIN body |-> Fresh]
    /\ permits = MaxInflight
    /\ channel = [r \in DOMAIN body |-> <<>>]
    /\ listening = [r \in DOMAIN body |-> TRUE]
    /\ observed = [r \in DOMAIN body |-> <<>>]

\* What is left of a request that returned: its result, and what it sent.
Returned(w, result) == [Fresh EXCEPT !.pc = "done", !.dispatched = w.dispatched,
                                     !.sent = w.sent, !.result = result]

EndHolding(r, w, end, result) ==
    /\ wire' = [wire EXCEPT ![r] = [Returned(w, result) EXCEPT !.held = w.held]]
    /\ observed' = [observed EXCEPT ![r] = Append(@, end)]
    /\ UNCHANGED <<body, permits, listening>>

\* The future returns: its guards publish the observation and free the permit.
End(r, w, end, result) ==
    /\ wire' = [wire EXCEPT ![r] = Returned(w, result)]
    /\ permits' = permits + (IF w.held THEN 1 ELSE 0)
    /\ observed' = [observed EXCEPT ![r] = Append(@, end)]
    /\ UNCHANGED <<body, listening>>

Go(r, w) ==
    /\ wire' = [wire EXCEPT ![r] = w]
    /\ UNCHANGED <<body, listening, observed>>

\* A request prepared for another contract is refused before anything is
\* observed; a client that could not be built fails the admission.
Execute(r) ==
    /\ wire[r].pc = "idle"
    /\ \/ Go(r, [wire[r] EXCEPT !.pc = "queued"]) /\ UNCHANGED permits
       \/ Go(r, [wire[r] EXCEPT !.pc = "refused"]) /\ UNCHANGED permits
       \/ End(r, wire[r], "AdmissionFailed", Failed)
    /\ UNCHANGED channel

Acquire(r) ==
    /\ wire[r].pc = "queued"
    /\ permits > 0
    /\ permits' = permits - 1
    /\ Go(r, [wire[r] EXCEPT !.pc = "auth", !.held = TRUE])
    /\ UNCHANGED channel

\* The credential worker answers, and the request is dispatched at once.
Access(r) ==
    /\ wire[r].pc = "auth"
    /\ \/ Go(r, [wire[r] EXCEPT !.pc = "sending", !.dispatched = TRUE]) /\ UNCHANGED permits
       \/ End(r, wire[r], "AuthenticationFailed", Failed)
    /\ UNCHANGED channel

Responded(r) ==
    /\ wire[r].pc = "sending"
    /\ \/ Go(r, [wire[r] EXCEPT !.pc = "reading"]) /\ UNCHANGED permits
       \/ \E end \in {"SendFailed", "HttpRejected"} : End(r, wire[r], end, Failed)
    /\ UNCHANGED channel

AtChunk(r) == /\ wire[r].pc = "reading"
              /\ wire[r].frames = <<>>
              /\ wire[r].sending = <<>>
              /\ ~wire[r].malformed

\* A chunk of any size arrives and is framed as a whole.
ReadChunk(r) ==
    /\ AtChunk(r)
    /\ \E n \in (wire[r].read + 1)..Len(body[r].bytes) :
          LET p == push(wire[r].framer, SubSeq(body[r].bytes, wire[r].read + 1, n))
          IN Go(r, [wire[r] EXCEPT !.framer = p.framer, !.read = @ + p.used,
                                   !.frames = p.events, !.framed = @ \o p.events,
                                   !.malformed = p.error])
    /\ UNCHANGED <<permits, channel>>

\* The body ends, in order or not, wherever the provider stopped.
BodyEnds(r) ==
    /\ AtChunk(r)
    /\ \E end \in {"CleanEof", "ReadFailed"} : End(r, wire[r], end, finish(wire[r].assembly))
    /\ UNCHANGED channel

\* The framing error is reported once the frames before it are interpreted.
Malformed(r) ==
    /\ wire[r].pc = "reading"
    /\ wire[r].malformed
    /\ wire[r].frames = <<>>
    /\ wire[r].sending = <<>>
    /\ End(r, wire[r], "ProtocolError", Failed)
    /\ UNCHANGED channel

\* One frame is interpreted; the terminal ends the reading, whatever follows.
Interpret(r) ==
    LET w == [wire[r] EXCEPT !.frames = Tail(@)]
        docs == Parsed(body[r].docs, Head(wire[r].frames))
        step == IF docs = {} THEN Refused(w.assembly)
                ELSE accept(w.assembly, body[r].docs[CHOOSE d \in docs : TRUE])
        next == [w EXCEPT !.assembly = step.assembly, !.sending = step.sends]
    IN /\ wire[r].pc = "reading"
       /\ wire[r].frames # <<>>
       /\ wire[r].sending = <<>>
       /\ IF step.refused
          THEN End(r, w, IF step.terminal THEN "ProviderTerminal" ELSE "ProtocolError", Failed)
          ELSE IF step.assembly.completed
          THEN End(r, next, "ProviderTerminal", finish(step.assembly))
          ELSE Go(r, next) /\ UNCHANGED permits
       /\ UNCHANGED channel

\* The item waits for room in the engine's channel, or is lost with the
\* receiver; the request goes on either way.
SendItem(r) ==
    /\ wire[r].pc = "reading"
    /\ wire[r].sending # <<>>
    /\ listening[r] => Len(channel[r]) < Capacity
    /\ Go(r, [wire[r] EXCEPT !.sending = <<>>,
                             !.sent = IF listening[r] THEN @ \cup ToSet(wire[r].sending) ELSE @])
    /\ channel' = [channel EXCEPT ![r] = IF listening[r] THEN @ \o wire[r].sending ELSE @]
    /\ UNCHANGED permits

\* The request is dropped at an await.
DropRequest(r) ==
    /\ \/ wire[r].pc \in {"queued", "auth", "sending"}
       \/ wire[r].pc = "reading" /\ (AtChunk(r) \/ wire[r].sending # <<>>)
    /\ End(r, wire[r], "Abandoned", Failed)
    /\ UNCHANGED channel

\* The engine takes an item, or stops listening.
TakeItem(r) ==
    /\ channel[r] # <<>>
    /\ channel' = [channel EXCEPT ![r] = Tail(@)]
    /\ UNCHANGED <<body, wire, permits, listening, observed>>

StopListening(r) ==
    /\ listening[r]
    /\ wire[r].pc # "idle"
    /\ listening' = [listening EXCEPT ![r] = FALSE]
    /\ channel' = [channel EXCEPT ![r] = <<>>]
    /\ UNCHANGED <<body, wire, permits, observed>>

RequestStep(r) == \/ Execute(r) \/ Acquire(r) \/ Access(r) \/ Responded(r) \/ ReadChunk(r)
                  \/ BodyEnds(r) \/ Malformed(r) \/ Interpret(r) \/ SendItem(r)

TransportNext == \E r \in HttpRequests :
    \/ RequestStep(r) \/ TakeItem(r) \/ StopListening(r) \/ DropRequest(r)

\* The runtime polls every future, the HTTP client's total timeout ends every
\* exchange, and the engine drains its channel while it listens.
TransportFairness == \A r \in UNION {DOMAIN b : b \in Bodies} :
    /\ WF_transportVars(r \in HttpRequests /\ RequestStep(r))
    /\ WF_transportVars(r \in HttpRequests /\ TakeItem(r))

TransportSpec == TransportInit /\ [][TransportNext]_transportVars /\ TransportFairness

-----------------------------------------------------------------------------
(* The framing of a whole body, by positions rather than byte by byte.     *)

Breaks(b) == {n \in DOMAIN b : \/ b[n] = CR
                               \/ b[n] = LF /\ ~(n > 1 /\ b[n - 1] = CR)}
Start(b, n) == Max({0} \cup {m \in Breaks(b) : m < n}) + 1
LineAt(b, n) == SelectSeq(SubSeq(b, Start(b, n), n - 1), LAMBDA x : x # LF)
Blank(b, n) == LineAt(b, n) = <<>>
DataBefore(b, n) ==
    LET from == Max({0} \cup {m \in Breaks(b) : m < n /\ Blank(b, m)})
        lines == SetToSortSeq({m \in Breaks(b) : /\ from < m /\ m < n
                                                 /\ Head(LineAt(b, m)) = DataField}, <)
    IN [k \in DOMAIN lines |-> Tail(LineAt(b, lines[k]))]
Reference(b) ==
    LET ends == SetToSortSeq({n \in Breaks(b) : Blank(b, n) /\ DataBefore(b, n) # <<>>}, <)
    IN [k \in DOMAIN ends |-> DataBefore(b, ends[k])]

\* However the network cuts the body, the events framed are those of the bytes
\* received: a break split over two chunks is one break, an event of several
\* data lines is one event, and an unfinished event is not framed (client.rs,
\* SseFramer: "Terminal interpretation must not depend on network chunking").
FramingExact == \A r \in HttpRequests :
    wire[r].framed = Reference(SubSeq(body[r].bytes, 1, wire[r].read))

\* Every request that is issued ends, behind any number of others that were
\* refused, dropped or cut off: no path keeps its permit.
RequestsEnd == []<>(\A r \in HttpRequests : wire[r].pc \in {"idle", "done", "refused"})
=============================================================================
