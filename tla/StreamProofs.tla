---------------------------- MODULE StreamProofs ----------------------------
(***************************************************************************)
(* The operation rows an observer is shown (EventStream), for any commands,*)
(* bounds and faults.                                                      *)
(*                                                                         *)
(* The stream's invariant says which events each place has, in the order   *)
(* they pass: the publishers, the bounded log, the session, the frames on  *)
(* the wire and the browser.  The row a place shows is then the truth at   *)
(* the event it has reached, and the tables, bounded by forgetting the     *)
(* oldest, agree because each forgets by the age of its rows.              *)
(***************************************************************************)
EXTENDS EventStream, NaturalsInduction, FiniteSetTheorems, TLAPS

\* A set of numbers has a least one.
LEMMA Least ==
    ASSUME NEW T \in SUBSET Nat, T # {}
    PROVE  \E x \in T : \A y \in T : x <= y
  <1> DEFINE R == OpToRel(<, Nat)
  <1>1. IsWellFoundedOn(R, Nat)
    BY Zenon, NatLessThanWellFounded
  <1> HIDE DEF R
  <1>2. PICK x \in T : \A y \in T : <<y, x>> \notin R
    BY Zenon, <1>1, WFMin
  <1>3. \A y \in T : y < x => <<y, x>> \in R
    BY SMT DEF R, OpToRel
  <1>4. \A y \in T : ~(y < x)
    BY Zenon, <1>2, <1>3
  <1>5. \A y \in T : x <= y
    BY SMT, <1>4
  <1> QED BY Zenon, <1>5

\* A bounded one also has a greatest, which is its Highest.
LEMMA MaxIs ==
    ASSUME NEW T \in SUBSET Nat, T # {}, NEW b \in Nat, \A y \in T : y <= b
    PROVE  Highest(T) \in T /\ \A y \in T : y <= Highest(T)
  <1> DEFINE U == {m \in Nat : \A y \in T : y <= m}
  <1>1. U \in SUBSET Nat /\ b \in U
    BY Zenon
  <1>2. PICK m \in U : \A u \in U : m <= u
    BY Zenon, <1>1, Least
  <1>3. m \in Nat /\ \A y \in T : y <= m
    BY Zenon
  <1>4. ASSUME m \notin T PROVE FALSE
    <2>1. \A y \in T : y <= m - 1
      BY <1>3, <1>4
    <2>2. m - 1 \in Nat
      <3>1. PICK y \in T : y \in Nat /\ y <= m - 1
        BY Zenon, <2>1
      <3> QED BY SMT, <1>3, <3>1
    <2>3. m - 1 \in U
      BY Zenon, <2>1, <2>2
    <2>4. m <= m - 1
      BY Zenon, <1>2, <2>3
    <2> QED BY <1>3, <2>4
  <1>5. m \in T /\ \A y \in T : m >= y
    <2>1. m \in T
      BY Zenon, <1>4
    <2> QED BY SMT, <1>3, <2>1
  <1>6. Highest(T) \in T /\ \A y \in T : Highest(T) >= y
    BY Zenon, <1>5 DEF Highest
  <1> QED BY SMT, <1>6

\* Sequences, by their positions.
LEMMA ConcatIs ==
    ASSUME NEW S, NEW a \in Seq(S), NEW b \in Seq(S)
    PROVE  /\ a \o b \in Seq(S) /\ Len(a \o b) = Len(a) + Len(b) /\ Len(a) \in Nat /\ Len(b) \in Nat
           /\ \A n \in 1..Len(a) : (a \o b)[n] = a[n]
           /\ \A n \in (Len(a) + 1)..(Len(a) + Len(b)) : (a \o b)[n] = b[n - Len(a)]
  <1>1. a \o b \in Seq(S) /\ Len(a \o b) = Len(a) + Len(b) /\ Len(a) \in Nat /\ Len(b) \in Nat
    BY SMT
  <1>2. ASSUME NEW n \in 1..Len(a) PROVE (a \o b)[n] = a[n]
    BY SMT
  <1>3. ASSUME NEW n \in (Len(a) + 1)..(Len(a) + Len(b)) PROVE (a \o b)[n] = b[n - Len(a)]
    BY SMT
  <1> QED BY Zenon, <1>1, <1>2, <1>3

LEMMA TailIs ==
    ASSUME NEW S, NEW a \in Seq(S), a # <<>>
    PROVE  /\ Tail(a) \in Seq(S) /\ Len(a) \in Nat \ {0} /\ Len(Tail(a)) = Len(a) - 1
           /\ Head(a) = a[1] /\ a[1] \in S /\ 1 \in 1..Len(a)
           /\ \A n \in 1..(Len(a) - 1) : Tail(a)[n] = a[n + 1]
           /\ (Tail(a) = <<>> <=> Len(a) = 1)
  <1>1. Tail(a) \in Seq(S) /\ Len(a) \in Nat \ {0} /\ Len(Tail(a)) = Len(a) - 1
    BY SMT
  <1>2. Head(a) = a[1] /\ a[1] \in S /\ 1 \in 1..Len(a)
    BY SMT, <1>1
  <1>3. ASSUME NEW n \in 1..(Len(a) - 1) PROVE Tail(a)[n] = a[n + 1]
    BY SMT, <1>1
  <1>4. Tail(a) = <<>> <=> Len(a) = 1
    BY SMT, <1>1
  <1> QED BY Zenon, <1>1, <1>2, <1>3, <1>4

LEMMA AppendIs ==
    ASSUME NEW S, NEW a \in Seq(S), NEW x \in S
    PROVE  /\ Append(a, x) \in Seq(S) /\ Len(Append(a, x)) = Len(a) + 1 /\ Len(a) \in Nat
           /\ Append(a, x)[Len(a) + 1] = x /\ Append(a, x) # <<>>
           /\ \A n \in 1..Len(a) : Append(a, x)[n] = a[n]
           /\ (a = <<>> => Append(a, x)[1] = x) /\ (a # <<>> => Append(a, x)[1] = a[1])
  <1>1. /\ Append(a, x) \in Seq(S) /\ Len(Append(a, x)) = Len(a) + 1 /\ Len(a) \in Nat
        /\ Append(a, x)[Len(a) + 1] = x
        /\ \A n \in 1..Len(a) : Append(a, x)[n] = a[n]
    BY SMT
  <1>2. Append(a, x) # <<>>
    BY SMT, <1>1
  <1>3. a = <<>> => Len(a) + 1 = 1
    BY SMT
  <1>4. a # <<>> => 1 \in 1..Len(a)
    BY SMT
  <1> QED BY Zenon, <1>1, <1>2, <1>3, <1>4

-----------------------------------------------------------------------------
(* The bounded tables *)

\* No entry of a table came after b; and it is within its limit, with no id twice
\* and no two entries at once.
Dated(table, b) == \A x \in table : x.since \in Nat /\ x.since <= b
Bounded(table, b) ==
    /\ IsFiniteSet(table) /\ Cardinality(table) <= Limit
    /\ Dated(table, b)
    /\ \A x, y \in table : x.id = y.id \/ x.since = y.since => x = y

LEMMA UpcomingIs ==
    ASSUME NEW table, NEW b \in Nat, Dated(table, b)
    PROVE  /\ Upcoming(table) \in Nat /\ Upcoming(table) <= b + 1
           /\ \A x \in table : x.since < Upcoming(table)
  <1> DEFINE T == {0} \cup {x.since : x \in table}
  <1>1. T \in SUBSET Nat /\ T # {} /\ \A y \in T : y <= b
    BY SMT DEF Dated
  <1>2. Highest(T) \in T /\ \A y \in T : y <= Highest(T)
    BY Zenon, <1>1, MaxIs
  <1>3. \A x \in table : x.since \in T
    BY Zenon
  <1>4. Upcoming(table) = 1 + Highest(T)
    BY Zenon DEF Upcoming
  <1> HIDE DEF T
  <1>5. Highest(T) \in Nat /\ Highest(T) <= b /\ \A x \in table : x.since \in Nat /\ x.since <= Highest(T)
    BY Zenon, <1>1, <1>2, <1>3
  <1> QED BY SMT, <1>4, <1>5

\* What is within the limit loses nothing.
LEMMA NewestAll ==
    ASSUME NEW table, IsFiniteSet(table), Cardinality(table) <= Limit,
           \A x \in table : x.since \in Nat
    PROVE  Newest(table) = table
  <1>1. Limit \in Nat
    BY StreamAssumption
  <1>2. SUFFICES ASSUME NEW x \in table
                 PROVE  Cardinality({y \in table : y.since > x.since}) < Limit
    BY Zenon DEF Newest
  <1> DEFINE L == {y \in table : y.since > x.since}
  <1>3. L \in SUBSET (table \ {x})
    BY SMT
  <1>4. IsFiniteSet(table \ {x}) /\ Cardinality(table \ {x}) = Cardinality(table) - 1
    BY Zenon, FS_RemoveElement
  <1>5. Cardinality(L) <= Cardinality(table \ {x}) /\ IsFiniteSet(L)
    BY Zenon, <1>3, <1>4, FS_Subset
  <1>6. Cardinality(L) \in Nat /\ Cardinality(table) \in Nat
    BY Zenon, <1>5, FS_CardinalityType
  <1> HIDE DEF L
  <1>7. Cardinality(L) < Limit
    BY SMT, <1>1, <1>4, <1>5, <1>6
  <1> QED BY Zenon, <1>7 DEF L

\* One more entry, later than the others, with an id the table does not have.
LEMMA Added ==
    ASSUME NEW table, NEW b \in Nat, Bounded(table, b), Cardinality(table) < Limit,
           NEW e, e.since = Upcoming(table), ~Known(table, e.id)
    PROVE  Bounded(table \cup {e}, b + 1) /\ Newest(table \cup {e}) = table \cup {e}
  <1>1. Limit \in Nat
    BY StreamAssumption
  <1>2. e.since \in Nat /\ e.since <= b + 1 /\ \A x \in table : x.since < e.since
    BY Zenon, UpcomingIs DEF Bounded
  <1>3. \A x \in table : x.since \in Nat /\ x.since <= b
    BY Zenon DEF Bounded, Dated
  <1>4. e \notin table
    BY SMT, <1>2, <1>3
  <1>5. IsFiniteSet(table) /\ Cardinality(table) \in Nat
    BY Zenon, FS_CardinalityType DEF Bounded
  <1>6. IsFiniteSet(table \cup {e}) /\ Cardinality(table \cup {e}) = Cardinality(table) + 1
    BY Zenon, <1>4, <1>5, FS_AddElement
  <1>7. Cardinality(table \cup {e}) <= Limit
    BY SMT, <1>1, <1>5, <1>6
  <1>8. \A x \in table \cup {e} : x.since \in Nat /\ x.since <= b + 1
    BY SMT, <1>2, <1>3
  <1>9. \A x, y \in table \cup {e} : x.id = y.id \/ x.since = y.since => x = y
    <2>1. \A x, y \in table : x.id = y.id \/ x.since = y.since => x = y
      BY Zenon DEF Bounded
    <2>2. \A x \in table : x.id # e.id /\ x.since # e.since
      <3>1. \A x \in table : x.id # e.id
        BY Zenon DEF Known
      <3> QED BY SMT, <1>2, <1>3, <3>1
    <2> QED BY Zenon, <2>1, <2>2
  <1>10. Newest(table \cup {e}) = table \cup {e}
    BY Zenon, <1>6, <1>7, <1>8, NewestAll
  <1> QED BY Zenon, <1>6, <1>7, <1>8, <1>9, <1>10 DEF Bounded, Dated

LEMMA Fewer ==
    ASSUME NEW table, NEW b \in Nat, Bounded(table, b), NEW part \in SUBSET table
    PROVE  Bounded(part, b)
  <1>1. Limit \in Nat
    BY StreamAssumption
  <1>2. IsFiniteSet(table) /\ IsFiniteSet(part) /\ Cardinality(part) <= Cardinality(table)
    BY Zenon, FS_Subset DEF Bounded
  <1>3. Cardinality(part) \in Nat /\ Cardinality(table) \in Nat
    BY Zenon, <1>2, FS_CardinalityType
  <1>4. Cardinality(part) <= Limit
    BY SMT, <1>1, <1>2, <1>3 DEF Bounded
  <1> QED BY Zenon, <1>2, <1>4 DEF Bounded, Dated

LEMMA Longer ==
    ASSUME NEW table, NEW b \in Nat, NEW c \in Nat, b <= c, Bounded(table, b)
    PROVE  Bounded(table, c)
  <1>1. \A x \in table : x.since \in Nat /\ x.since <= c
    BY SMT DEF Bounded, Dated
  <1> QED BY Zenon, <1>1 DEF Bounded, Dated

\* The oldest entry is one, and removing its id removes just it.
LEMMA OldestIs ==
    ASSUME NEW table, NEW b \in Nat, Bounded(table, b), table # {},
           NEW old, old = CHOOSE x \in table : \A y \in table : x.since <= y.since
    PROVE  old \in table /\ Without(table, old.id) = table \ {old}
  <1> DEFINE T == {x.since : x \in table}
  <1>1. T \in SUBSET Nat /\ T # {}
    BY SMT DEF Bounded, Dated
  <1>2. PICK n \in T : \A y \in T : n <= y
    BY Zenon, <1>1, Least
  <1>3. PICK x \in table : n = x.since
    BY Zenon
  <1>4. \A y \in table : x.since <= y.since
    BY Zenon, <1>2, <1>3
  <1>5. old \in table
    BY Zenon, <1>4
  <1>6. \A y \in table : y.id = old.id <=> y = old
    BY Zenon, <1>5 DEF Bounded
  <1> QED BY Zenon, <1>5, <1>6 DEF Without

-----------------------------------------------------------------------------
(* The inductive invariant of the stream *)

Events == [kind : {"row", "receipt", "remove", "delta", "stopped"},
           key : Keys \cup Commands \cup Items \cup {Gone}, value : Rows \cup {Gone}]
Frames == [kind : {"snapshot", "event"}, seq : Nat, body : Projections \cup Events]
Sessions == [at : {"closed", "upgrade", "loop", "sending"}, cursor : Nat, last : Nat,
             frame : Frames \cup {<<>>}]
Phases == {"disconnected", "connecting", "awaiting_snapshot", "resync", "ready"}

LogTyped ==
    /\ log \in Seq(Events) /\ Len(log) <= MaxSeq
    /\ truth \in Seq(Projections) /\ Len(truth) = Len(log)
    /\ shown \in Projections

WireTyped ==
    /\ session \in Sessions /\ (session.at = "sending" => session.frame \in Frames)
    /\ down \in Seq(Frames)
    /\ current \in [seq : Nat, view : Projections \cup {<<>>}]
    /\ phase \in Phases /\ requested \in BOOLEAN

\* The events tell exactly how the projection came to be what it is.
Announced ==
    /\ shown = Truth(seq)
    /\ \A n \in 1..seq : Truth(n) = applyStateEvent(Truth(n - 1), log[n])

Tables == Dated(shown.receipts, seq) /\ Bounded(shown.live, seq)

\* A frame says what was published at its sequence.
FrameTrue(f) ==
    IF f.kind = "event" THEN f.seq \in 1..seq /\ f.body = log[f.seq]
    ELSE f.seq \in 0..seq /\ f.body = Truth(f.seq)
FramesTrue ==
    /\ \A n \in 1..Len(down) : FrameTrue(down[n])
    /\ session.at = "sending" => FrameTrue(session.frame)

\* The frame continues after sequence n.
Follows(n, f) == IF f.kind = "event" THEN f.seq = n + 1 ELSE f.seq >= n
InOrder ==
    /\ \A n \in 1..(Len(down) - 1) : Follows(down[n].seq, down[n + 1])
    /\ down # <<>> => session.last = down[Len(down)].seq
    /\ session.at = "sending" => Follows(session.last, session.frame)

\* The receiver is never ahead of what the session sent.
CursorNear ==
    /\ session.last <= seq
    /\ session.at = "upgrade" => session.cursor <= seq + 1
    /\ session.at = "loop" => session.cursor <= session.last + 1
    /\ session.at = "sending" => session.cursor <= session.frame.seq + 1

Holds == current.seq \in 0..seq /\ current.view = Truth(current.seq)

\* What the browser shows, and what the next frame finds there.
BrowserTrue ==
    /\ phase = "disconnected" <=> session.at = "closed"
    /\ session.at = "closed" => down = <<>>
    /\ current # NoState => Holds
    /\ current # NoState /\ phase # "disconnected" =>
          IF down = <<>> THEN current.seq <= session.last ELSE current.seq <= down[1].seq
    /\ phase = "ready" =>
          /\ ~requested /\ current # NoState
          /\ IF down = <<>> THEN session.last = current.seq ELSE Follows(current.seq, down[1])

StreamInv ==
    /\ LogTyped /\ WireTyped /\ Announced /\ Tables
    /\ FramesTrue /\ InOrder /\ CursorNear /\ BrowserTrue

LEMMA StreamStart == StreamInit => StreamInv
  <1> SUFFICES ASSUME StreamInit PROVE StreamInv
    OBVIOUS
  <1>1. log = <<>> /\ truth = <<>> /\ seq = 0 /\ down = <<>> /\ session = Closed
        /\ current = NoState /\ phase = "disconnected" /\ requested = FALSE
        /\ shown = [rows |-> [k \in Keys |-> Gone], receipts |-> {}, live |-> {}]
    BY DEF StreamInit, seq
  <1>2. Limit \in Nat /\ MaxSeq \in Nat
    BY StreamAssumption
  <1>3. LogTyped
    BY SMT, <1>1, <1>2 DEF LogTyped, Projections
  <1>4. WireTyped
    <2>1. session \in Sessions /\ session.at = "closed"
      BY SMT, <1>1 DEF Sessions, Closed, Session
    <2>2. current \in [seq : Nat, view : Projections \cup {<<>>}]
      BY SMT, <1>1, <1>2 DEF NoState
    <2>3. down \in Seq(Frames)
      BY SMT, <1>1
    <2>4. phase \in Phases /\ requested \in BOOLEAN
      BY Zenon, <1>1 DEF Phases
    <2> QED BY Zenon, <2>1, <2>2, <2>3, <2>4 DEF WireTyped
  <1>5. Announced
    BY SMT, <1>1 DEF Announced, Truth
  <1>6. Tables
    BY <1>1, <1>2, FS_EmptySet DEF Tables, Dated, Bounded
  <1>7. FramesTrue /\ InOrder /\ CursorNear
    BY SMT, <1>1 DEF FramesTrue, InOrder, CursorNear, Closed, Session
  <1>8. BrowserTrue
    BY SMT, <1>1 DEF BrowserTrue, Closed, Session
  <1> QED BY Zenon, <1>3, <1>4, <1>5, <1>6, <1>7, <1>8 DEF StreamInv

-----------------------------------------------------------------------------
(* Publishers *)

\* What was published stays.
LEMMA PublishKeeps ==
    ASSUME StreamInv, NEW events \in Seq(Events), NEW after \in Seq(Projections),
           Len(after) = Len(events), Publish(events, after),
           after[1] = applyStateEvent(shown, events[1]),
           \A n \in 2..Len(events) : after[n] = applyStateEvent(after[n - 1], events[n]),
           Dated(after[Len(events)].receipts, seq + Len(events)),
           Bounded(after[Len(events)].live, seq + Len(events))
    PROVE  StreamInv'
  <1>1. Len(events) \in Nat \ {0} /\ seq \in Nat /\ seq + Len(events) <= MaxSeq /\ MaxSeq \in Nat
    <2>1. events # <<>> /\ seq + Len(events) <= MaxSeq /\ log \in Seq(Events)
      BY Zenon DEF Publish, StreamInv, LogTyped
    <2> QED BY SMT, <2>1, StreamAssumption DEF seq
  <1>2. log \in Seq(Events) /\ truth \in Seq(Projections) /\ Len(truth) = seq /\ Len(log) = seq
    BY Zenon DEF StreamInv, LogTyped, seq
  <1>3. log' = log \o events /\ truth' = truth \o after /\ shown' = after[Len(events)]
        /\ session' = session /\ down' = down
        /\ current' = current /\ phase' = phase /\ requested' = requested
    BY Zenon DEF Publish, transport, client
  <1>4. log' \in Seq(Events) /\ Len(log') = seq + Len(events) /\ seq' = seq + Len(events)
        /\ (\A n \in 1..seq : log'[n] = log[n])
        /\ \A n \in (seq + 1)..(seq + Len(events)) : log'[n] = events[n - seq]
    BY ZenonT(60), <1>2, <1>3, ConcatIs DEF seq
  <1>5. truth' \in Seq(Projections) /\ Len(truth') = seq + Len(events)
        /\ (\A n \in 1..seq : truth'[n] = truth[n])
        /\ \A n \in (seq + 1)..(seq + Len(events)) : truth'[n] = after[n - seq]
    <2>1. /\ truth \o after \in Seq(Projections) /\ Len(truth \o after) = Len(truth) + Len(after)
          /\ \A n \in 1..Len(truth) : (truth \o after)[n] = truth[n]
          /\ \A n \in (Len(truth) + 1)..(Len(truth) + Len(after)) :
                (truth \o after)[n] = after[n - Len(truth)]
      BY ZenonT(60), <1>2, ConcatIs
    <2>2. Len(truth) = seq /\ Len(after) = Len(events) /\ truth' = truth \o after
      BY Zenon, <1>2, <1>3
    <2> QED BY SMT, <2>1, <2>2
  <1>6. \A n \in 0..seq : Truth(n)' = Truth(n)
    BY SMT, <1>1, <1>5 DEF Truth
  <1>7. \A n \in (seq + 1)..(seq + Len(events)) : Truth(n)' = after[n - seq]
    BY SMT, <1>1, <1>5 DEF Truth
  <1>8. LogTyped'
    <2>1. shown' \in Projections
      BY SMT, <1>1, <1>3
    <2> QED BY Zenon, <1>1, <1>4, <1>5, <2>1 DEF LogTyped
  <1>9. WireTyped'
    <2>1. WireTyped
      BY Zenon DEF StreamInv
    <2> QED BY Zenon, <1>3, <2>1 DEF WireTyped
  <1>10. Announced'
    <2>1. shown' = Truth(seq)'
      <3>1. Truth(seq)' = (IF seq' = 0 THEN Truth(0) ELSE truth'[seq'])
        BY Zenon DEF Truth
      <3> QED BY SMT, <1>1, <1>3, <1>4, <1>5, <3>1
    <2>2. shown = Truth(seq) /\ \A n \in 1..seq : Truth(n) = applyStateEvent(Truth(n - 1), log[n])
      BY Zenon DEF StreamInv, Announced
    <2>3. ASSUME NEW n \in 1..(seq + Len(events))
          PROVE  Truth(n)' = applyStateEvent(Truth(n - 1)', log'[n])
      <3>1. CASE n <= seq
        <4>1. n \in 1..seq /\ n \in 0..seq /\ n - 1 \in 0..seq
          BY SMT, <1>1, <3>1
        <4> QED BY Zenon, <4>1, <1>4, <1>6, <2>2
      <3>2. CASE n = seq + 1
        <4>1. Truth(n)' = after[1] /\ log'[n] = events[1]
          BY SMT, <1>1, <1>4, <1>7, <3>2
        <4>2. Truth(n - 1)' = shown
          <5>1. n - 1 = seq /\ seq \in 0..seq
            BY SMT, <1>1, <3>2
          <5> QED BY Zenon, <5>1, <1>6, <2>2
        <4> QED BY Zenon, <4>1, <4>2
      <3>3. CASE n > seq + 1
        <4>1. n - seq \in 2..Len(events) /\ (n - 1) - seq = (n - seq) - 1
              /\ n \in (seq + 1)..(seq + Len(events)) /\ n - 1 \in (seq + 1)..(seq + Len(events))
          BY SMT, <1>1, <3>3
        <4>2. Truth(n)' = after[n - seq] /\ Truth(n - 1)' = after[(n - seq) - 1] /\ log'[n] = events[n - seq]
          BY Zenon, <4>1, <1>4, <1>7
        <4> QED BY Zenon, <4>1, <4>2
      <3> QED BY SMT, <1>1, <3>1, <3>2, <3>3
    <2> QED BY Zenon, <1>4, <2>1, <2>3 DEF Announced
  <1>11. Tables'
    BY Zenon, <1>3, <1>4 DEF Tables
  <1>12. \A f : FrameTrue(f) => FrameTrue(f)'
    <2> SUFFICES ASSUME NEW f, FrameTrue(f) PROVE FrameTrue(f)'
      BY Zenon
    <2>1. CASE f.kind = "event"
      BY SMT, <1>1, <1>4, <2>1 DEF FrameTrue
    <2>2. CASE f.kind # "event"
      <3>1. f.seq \in 0..seq /\ f.body = Truth(f.seq)
        BY Zenon, <2>2 DEF FrameTrue
      <3>2. f.seq \in 0..seq'
        BY SMT, <1>1, <1>4, <3>1
      <3>3. f.body = Truth(f.seq)'
        BY Zenon, <1>6, <3>1
      <3> QED BY Zenon, <2>2, <3>2, <3>3 DEF FrameTrue
    <2> QED BY Zenon, <2>1, <2>2
  <1>13. FramesTrue'
    BY Zenon, <1>3, <1>12 DEF StreamInv, FramesTrue
  <1>14. InOrder'
    BY Zenon, <1>3 DEF StreamInv, InOrder
  <1>15. CursorNear'
    <2>1. CursorNear /\ session \in Sessions
      BY Zenon DEF StreamInv, WireTyped
    <2> QED BY SMT, <1>1, <1>3, <1>4, <2>1 DEF CursorNear, Sessions
  <1>16. BrowserTrue'
    <2>1. Holds => Holds'
      <3> SUFFICES ASSUME Holds PROVE Holds'
        BY Zenon
      <3>1. current.seq \in 0..seq /\ current.view = Truth(current.seq)
        BY Zenon DEF Holds
      <3>2. current.seq \in 0..seq'
        BY SMT, <1>1, <1>4, <3>1
      <3>4. Truth(current.seq)' = (IF current'.seq = 0 THEN Truth(0) ELSE truth'[current'.seq])
        BY Zenon DEF Truth
      <3>5. current.view = (IF current.seq = 0 THEN Truth(0) ELSE truth'[current.seq])
        BY SMT, <1>1, <1>5, <3>1 DEF Truth
      <3> QED BY Zenon, <1>3, <3>2, <3>4, <3>5 DEF Holds
    <2>2. BrowserTrue
      BY Zenon DEF StreamInv
    <2> QED BY Zenon, <1>3, <2>1, <2>2 DEF BrowserTrue
  <1> QED BY Zenon, <1>8, <1>9, <1>10, <1>11, <1>13, <1>14, <1>15, <1>16 DEF StreamInv

\* A projection by its fields.
LEMMA Same ==
    ASSUME NEW v \in Projections, NEW w \in Projections,
           v.rows = w.rows, v.receipts = w.receipts, v.live = w.live
    PROVE  v = w
  BY SMT DEF Projections

LEMMA NewRows ==
    ASSUME NEW v \in Projections, NEW rows \in [Keys -> Rows \cup {Gone}],
           NEW w, w = [v EXCEPT !.rows = rows]
    PROVE  w \in Projections /\ w.rows = rows /\ w.receipts = v.receipts /\ w.live = v.live
  BY SMT DEF Projections

LEMMA NewReceipts ==
    ASSUME NEW v \in Projections, NEW r \in SUBSET Receipts, NEW w, w = [v EXCEPT !.receipts = r]
    PROVE  w \in Projections /\ w.rows = v.rows /\ w.receipts = r /\ w.live = v.live
  BY SMT DEF Projections

LEMMA NewLive ==
    ASSUME NEW v \in Projections, NEW l \in SUBSET Outputs, NEW w, w = [v EXCEPT !.live = l]
    PROVE  w \in Projections /\ w.rows = v.rows /\ w.receipts = v.receipts /\ w.live = l
  BY SMT DEF Projections

LEMMA ApplyReceipt ==
    ASSUME NEW v, NEW key, NEW value
    PROVE  applyStateEvent(v, Event("receipt", key, value)) = [v EXCEPT !.receipts = setCommandReceipt(v.receipts, key)]
  BY SMT DEF applyStateEvent, Event

LEMMA ApplyRemove ==
    ASSUME NEW v, NEW key, NEW value
    PROVE  applyStateEvent(v, Event("remove", key, value)) = [v EXCEPT !.live = Without(v.live, key)]
  BY SMT DEF applyStateEvent, Event

LEMMA ApplyDelta ==
    ASSUME NEW v, NEW key, NEW value
    PROVE  applyStateEvent(v, Event("delta", key, value)) = [v EXCEPT !.live =
               IF Known(v.live, key) THEN v.live ELSE Newest(Streamed(v.live, key))]
  BY SMT DEF applyStateEvent, Event

LEMMA ApplyStopped ==
    ASSUME NEW v, NEW key, NEW value
    PROVE  applyStateEvent(v, Event("stopped", key, value)) = [v EXCEPT !.live = Stopped(v.live)]
  BY SMT DEF applyStateEvent, Event

\* Row by row, the events lead to the new projection.
LEMMA RowsKeep ==
    ASSUME StreamInv, NEW rows \in [Keys -> Rows \cup {Gone}], update_host_projection(rows)
    PROVE  StreamInv'
  <1> DEFINE changed == {k \in Keys : rows[k] # shown.rows[k]}
  <1>1. PICK N : N = Cardinality(changed)
    BY Zenon
  <1>2. PICK o \in [1..N -> changed] :
          /\ \A k \in changed : \E n \in 1..N : o[n] = k
          /\ Publish([n \in 1..N |-> Event("row", o[n], rows[o[n]])],
                     [n \in 1..N |-> [shown EXCEPT !.rows =
                         IF n = N THEN rows
                         ELSE [k \in Keys |-> IF \E m \in 1..n : o[m] = k THEN rows[k] ELSE shown.rows[k]]]])
    BY Zenon, <1>1 DEF update_host_projection
  <1>3. shown \in Projections /\ seq \in Nat /\ Tables
    BY SMT DEF StreamInv, LogTyped, seq
  <1>4. N \in Nat
    <2>1. changed \in SUBSET Keys
      BY Zenon
    <2>2. IsFiniteSet(changed)
      BY Zenon, <2>1, StreamAssumption, FS_Subset
    <2> QED BY Zenon, <1>1, <2>2, FS_CardinalityType
  <1>5. /\ shown.rows \in [Keys -> Rows \cup {Gone}]
        /\ \A n \in 1..N : o[n] \in Keys
        /\ \A k \in Keys : ~(\E n \in 1..N : o[n] = k) => rows[k] = shown.rows[k]
    <2>1. shown.rows \in [Keys -> Rows \cup {Gone}]
      BY SMT, <1>3 DEF Projections
    <2> QED BY Zenon, <1>2, <2>1
  <1> HIDE DEF changed
  <1> DEFINE Part(n) == [k \in Keys |-> IF \E m \in 1..n : o[m] = k THEN rows[k] ELSE shown.rows[k]]
  <1>6. \A n : Part(n) \in [Keys -> Rows \cup {Gone}] /\ \A k \in Keys :
            Part(n)[k] = IF \E m \in 1..n : o[m] = k THEN rows[k] ELSE shown.rows[k]
    BY SMT, <1>5
  <1>7. PICK e, a : /\ e = [n \in 1..N |-> Event("row", o[n], rows[o[n]])]
                    /\ a = [n \in 1..N |-> [shown EXCEPT !.rows = IF n = N THEN rows ELSE Part(n)]]
                    /\ Publish(e, a)
    BY Zenon, <1>2
  <1> HIDE DEF Part
  <1>8. Part(N) = rows
    <2>1. \A k \in Keys : Part(N)[k] = rows[k]
      BY Zenon, <1>5, <1>6
    <2> QED BY SMT, <1>6, <2>1
  <1>9. Part(0) = shown.rows
    <2>1. 1..0 = {}
      BY SMT
    <2>2. \A k \in Keys : Part(0)[k] = shown.rows[k]
      BY Zenon, <1>6, <2>1
    <2> QED BY SMT, <1>5, <1>6, <2>2
  <1>10. ASSUME NEW n \in 1..N
         PROVE  Part(n) = [Part(n - 1) EXCEPT ![o[n]] = rows[o[n]]]
    <2>1. n \in Nat /\ \A m : m \in 1..n <=> m \in 1..(n - 1) \/ m = n
      BY SMT, <1>4
    <2>2. \A k \in Keys : (\E m \in 1..n : o[m] = k) <=> (\E m \in 1..(n - 1) : o[m] = k) \/ k = o[n]
      BY Zenon, <2>1
    <2>3. \A k \in Keys : Part(n)[k] = IF k = o[n] THEN rows[o[n]] ELSE Part(n - 1)[k]
      BY SMT, <1>6, <2>2
    <2>4. Part(n) \in [Keys -> Rows \cup {Gone}] /\ Part(n - 1) \in [Keys -> Rows \cup {Gone}] /\ o[n] \in Keys
      BY Zenon, <1>5, <1>6
    <2> QED BY SMT, <2>3, <2>4
  <1>11. \A n \in 1..N : e[n] = Event("row", o[n], rows[o[n]]) /\ a[n] = [shown EXCEPT !.rows = Part(n)]
    <2>1. ASSUME NEW n \in 1..N PROVE (IF n = N THEN rows ELSE Part(n)) = Part(n)
      BY Zenon, <1>8
    <2> QED BY Zenon, <1>7, <2>1
  <1>12. \A n \in 1..N : /\ a[n] \in Projections /\ a[n].rows = Part(n)
                         /\ a[n].receipts = shown.receipts /\ a[n].live = shown.live
    <2> SUFFICES ASSUME NEW n \in 1..N
                 PROVE  /\ a[n] \in Projections /\ a[n].rows = Part(n)
                        /\ a[n].receipts = shown.receipts /\ a[n].live = shown.live
      BY Zenon
    <2>1. a[n] = [shown EXCEPT !.rows = Part(n)] /\ Part(n) \in [Keys -> Rows \cup {Gone}]
      BY Zenon, <1>6, <1>11
    <2>2. PICK rr \in [Keys -> Rows \cup {Gone}] : rr = Part(n)
      BY Zenon, <2>1
    <2>3. [shown EXCEPT !.rows = rr] \in Projections
          /\ [shown EXCEPT !.rows = rr].rows = rr
          /\ [shown EXCEPT !.rows = rr].receipts = shown.receipts
          /\ [shown EXCEPT !.rows = rr].live = shown.live
      BY Zenon, <1>3, NewRows
    <2>4. a[n] = [shown EXCEPT !.rows = rr]
      BY Zenon, <2>1, <2>2
    <2> QED BY Zenon, <2>2, <2>3, <2>4
  <1>13. \A n \in 1..N : e[n] \in Events
    <2>1. \A n \in 1..N : o[n] \in Keys /\ rows[o[n]] \in Rows \cup {Gone}
      BY Zenon, <1>5
    <2>2. \A n \in 1..N : Event("row", o[n], rows[o[n]]) \in Events
      BY SMT, <2>1 DEF Events, Event
    <2> QED BY Zenon, <1>11, <2>2
  <1>14. e \in Seq(Events) /\ a \in Seq(Projections) /\ Len(e) = N /\ Len(a) = N
    <2>1. e \in [1..N -> Events]
      BY Zenon, <1>7, <1>13
    <2>2. a \in [1..N -> Projections]
      BY Zenon, <1>7, <1>12
    <2> QED BY SMT, <1>4, <2>1, <2>2
  <1>15. N # 0
    <2>1. e # <<>>
      BY Zenon, <1>7 DEF Publish
    <2> QED BY SMT, <1>14, <2>1
  <1>16. \A n \in 1..N : \A v \in Projections :
            v.rows = Part(n - 1) /\ v.receipts = shown.receipts /\ v.live = shown.live
              => a[n] = applyStateEvent(v, e[n])
    <2> SUFFICES ASSUME NEW n \in 1..N, NEW v \in Projections, v.rows = Part(n - 1),
                        v.receipts = shown.receipts, v.live = shown.live
                 PROVE  a[n] = applyStateEvent(v, e[n])
      BY Zenon
    <2>1. applyStateEvent(v, e[n]) = [v EXCEPT !.rows = [v.rows EXCEPT ![o[n]] = rows[o[n]]]]
      <3>1. applyStateEvent(v, Event("row", o[n], rows[o[n]]))
              = [v EXCEPT !.rows = [v.rows EXCEPT ![o[n]] = rows[o[n]]]]
        BY SMT DEF applyStateEvent, Event
      <3>2. e[n] = Event("row", o[n], rows[o[n]])
        BY Zenon, <1>11
      <3> QED BY Zenon, <3>1, <3>2
    <2>2. [v.rows EXCEPT ![o[n]] = rows[o[n]]] = Part(n)
      BY Zenon, <1>10
    <2>3. PICK w : w = applyStateEvent(v, e[n])
      BY Zenon
    <2>4. w = [v EXCEPT !.rows = Part(n)]
      BY Zenon, <2>1, <2>2, <2>3
    <2>5. w \in Projections /\ w.rows = Part(n) /\ w.receipts = v.receipts /\ w.live = v.live
      BY SMT, <1>6, <2>4, NewRows
    <2>6. a[n] = w
      BY SMT, <1>12, <2>5, Same
    <2> QED BY Zenon, <2>3, <2>6
  <1>17. a[1] = applyStateEvent(shown, e[1])
    <2>1. 1 \in 1..N /\ 1 - 1 = 0
      BY SMT, <1>4, <1>15
    <2> QED BY Zenon, <2>1, <1>3, <1>9, <1>16
  <1>18. \A n \in 2..Len(e) : a[n] = applyStateEvent(a[n - 1], e[n])
    <2> SUFFICES ASSUME NEW n \in 2..Len(e) PROVE a[n] = applyStateEvent(a[n - 1], e[n])
      BY Zenon
    <2>1. n \in 1..N /\ n - 1 \in 1..N
      BY SMT, <1>4, <1>14
    <2> QED BY Zenon, <2>1, <1>12, <1>16
  <1>19. Dated(a[Len(e)].receipts, seq + Len(e)) /\ Bounded(a[Len(e)].live, seq + Len(e))
    <2>1. Len(e) \in 1..N
      BY SMT, <1>4, <1>14, <1>15
    <2>2. seq <= seq + Len(e) /\ seq + Len(e) \in Nat
      BY SMT, <1>3, <1>4, <1>14
    <2>3. Bounded(shown.live, seq + Len(e))
      BY Zenon, <1>3, <2>2, Longer DEF Tables
    <2>4. Dated(shown.receipts, seq + Len(e))
      BY SMT, <1>3, <2>2 DEF Tables, Dated
    <2>5. a[Len(e)].receipts = shown.receipts /\ a[Len(e)].live = shown.live
      BY Zenon, <1>12, <2>1
    <2> QED BY Zenon, <2>3, <2>4, <2>5
  <1>20. Len(a) = Len(e)
    BY Zenon, <1>14
  <1> QED BY ZenonT(60), <1>7, <1>14, <1>17, <1>18, <1>19, <1>20, PublishKeeps

\* One event and the projection it leads to.
LEMMA OneEvent ==
    ASSUME StreamInv, NEW e \in Events, NEW a \in Projections, Publish(<<e>>, <<a>>),
           a = applyStateEvent(shown, e), Dated(a.receipts, seq + 1), Bounded(a.live, seq + 1)
    PROVE  StreamInv'
  <1> DEFINE es == <<e>>
             as == <<a>>
  <1>1. es \in Seq(Events) /\ as \in Seq(Projections) /\ Len(es) = 1 /\ Len(as) = 1 /\ es[1] = e /\ as[1] = a
    BY SMT
  <1>2. \A n \in 2..Len(es) : as[n] = applyStateEvent(as[n - 1], es[n])
    BY SMT, <1>1
  <1>3. Publish(es, as)
    BY Zenon
  <1> HIDE DEF es, as
  <1>4. Len(as) = Len(es) /\ as[1] = applyStateEvent(shown, es[1])
        /\ Dated(as[Len(es)].receipts, seq + Len(es)) /\ Bounded(as[Len(es)].live, seq + Len(es))
    BY Zenon, <1>1
  <1> QED BY Zenon, <1>1, <1>2, <1>3, <1>4, PublishKeeps

LEMMA ShownTyped ==
    ASSUME StreamInv
    PROVE  /\ shown \in Projections /\ seq \in Nat
           /\ shown.receipts \in SUBSET Receipts /\ shown.live \in SUBSET Outputs
           /\ Dated(shown.receipts, seq) /\ Bounded(shown.live, seq) /\ Dated(shown.receipts, seq + 1)
           /\ Bounded(shown.live, seq + 1)
  <1>1. shown \in Projections /\ log \in Seq(Events) /\ Tables
    BY Zenon DEF StreamInv, LogTyped
  <1>2. seq \in Nat /\ seq + 1 \in Nat /\ seq <= seq + 1
    BY SMT, <1>1 DEF seq
  <1>3. shown.receipts \in SUBSET Receipts /\ shown.live \in SUBSET Outputs
    BY SMT, <1>1 DEF Projections
  <1>4. Dated(shown.receipts, seq + 1)
    BY SMT, <1>1, <1>2 DEF Tables, Dated
  <1>5. Bounded(shown.live, seq + 1)
    BY Zenon, <1>1, <1>2, Longer DEF Tables
  <1> QED BY Zenon, <1>1, <1>2, <1>3, <1>4, <1>5 DEF Tables

LEMMA ReceiptKeeps ==
    ASSUME StreamInv, NEW c \in Commands, publish_command_receipt(c)
    PROVE  StreamInv'
  <1> DEFINE w == Without(shown.receipts, c)
             r == Newest(Received(w, c))
             a == [shown EXCEPT !.receipts = r]
             e == Event("receipt", c, Gone)
  <1>1. Publish(<<e>>, <<a>>)
    BY Zenon DEF publish_command_receipt
  <1>2. w \in SUBSET Receipts /\ Dated(w, seq)
    <2>1. w \in SUBSET shown.receipts
      BY Zenon DEF Without
    <2> HIDE DEF w
    <2> QED BY Zenon, <2>1, ShownTyped DEF Dated
  <1>3. Upcoming(w) \in Nat /\ Upcoming(w) <= seq + 1
    BY Zenon, <1>2, ShownTyped, UpcomingIs
  <1>4. Received(w, c) \in SUBSET Receipts /\ Dated(Received(w, c), seq + 1)
    <2> HIDE DEF w
    <2>1. [id |-> c, since |-> Upcoming(w)] \in Receipts
      BY SMT, <1>3 DEF Receipts
    <2>2. \A x \in w : x.since \in Nat /\ x.since <= seq + 1
      BY SMT, <1>2, ShownTyped DEF Dated
    <2> QED BY SMT, <1>2, <1>3, <2>1, <2>2 DEF Received, Dated
  <1>5. r \in SUBSET Receipts /\ Dated(r, seq + 1)
    <2>1. r \in SUBSET Received(w, c)
      BY Zenon DEF Newest
    <2> HIDE DEF r, w
    <2> QED BY Zenon, <2>1, <1>4 DEF Dated
  <1>6. a = applyStateEvent(shown, e)
    BY Zenon, ApplyReceipt DEF setCommandReceipt
  <1> HIDE DEF r, w
  <1>7. a \in Projections /\ a.receipts = r /\ a.live = shown.live
    BY SMT, <1>5, ShownTyped DEF Projections
  <1>8. e \in Events
    BY SMT DEF Events, Event
  <1> HIDE DEF a, e
  <1>9. Dated(a.receipts, seq + 1) /\ Bounded(a.live, seq + 1)
    BY Zenon, <1>5, <1>7, ShownTyped
  <1> QED BY Zenon, <1>1, <1>6, <1>7, <1>8, <1>9, OneEvent

\* A new item among fewer than the limit.
LEMMA StreamedIs ==
    ASSUME NEW live \in SUBSET Outputs, NEW b \in Nat, Bounded(live, b), Cardinality(live) < Limit,
           NEW i \in Items, ~Known(live, i)
    PROVE  /\ Streamed(live, i) \in SUBSET Outputs /\ Bounded(Streamed(live, i), b + 1)
           /\ Newest(Streamed(live, i)) = Streamed(live, i)
  <1> DEFINE e == [id |-> i, streaming |-> TRUE, since |-> Upcoming(live)]
  <1>1. Upcoming(live) \in Nat
    BY Zenon, UpcomingIs DEF Bounded
  <1>2. e \in Outputs /\ e.id = i /\ e.since = Upcoming(live)
    BY SMT, <1>1 DEF Outputs
  <1>3. Streamed(live, i) = live \cup {e}
    BY Zenon DEF Streamed
  <1> HIDE DEF e
  <1>4. ~Known(live, e.id)
    BY Zenon, <1>2
  <1>5. Bounded(live \cup {e}, b + 1) /\ Newest(live \cup {e}) = live \cup {e}
    BY Zenon, <1>2, <1>4, Added
  <1> QED BY Zenon, <1>2, <1>3, <1>5

LEMMA DeltaKeeps ==
    ASSUME StreamInv, NEW i \in Items, ObserveDelta(i)
    PROVE  StreamInv'
  <1> DEFINE e == Event("delta", i, Gone)
  <1>1. e \in Events
    BY SMT DEF Events, Event
  <1>2. applyStateEvent(shown, e) = [shown EXCEPT !.live =
           IF Known(shown.live, i) THEN shown.live ELSE Newest(Streamed(shown.live, i))]
    BY Zenon, ApplyDelta
  <1>3. CASE Known(shown.live, i)
    <2>1. Publish(<<e>>, <<shown>>)
      BY Zenon, <1>3 DEF ObserveDelta
    <2>2. applyStateEvent(shown, e) = shown
      <3> HIDE DEF e
      <3>1. applyStateEvent(shown, e) = [shown EXCEPT !.live = shown.live]
        BY Zenon, <1>2, <1>3
      <3> QED BY SMT, <3>1, ShownTyped DEF Projections
    <2> HIDE DEF e
    <2> QED BY Zenon, <1>1, <2>1, <2>2, ShownTyped, OneEvent
  <1>4. CASE ~Known(shown.live, i) /\ Cardinality(shown.live) < Limit
    <2> DEFINE l == Streamed(shown.live, i)
               a == [shown EXCEPT !.live = l]
    <2>1. Publish(<<e>>, <<a>>)
      BY Zenon, <1>4 DEF ObserveDelta
    <2>2. l \in SUBSET Outputs /\ Bounded(l, seq + 1) /\ Newest(l) = l
      BY Zenon, <1>4, ShownTyped, StreamedIs
    <2>3. applyStateEvent(shown, e) = a
      <3> HIDE DEF e
      <3> QED BY Zenon, <1>2, <1>4, <2>2
    <2> HIDE DEF l
    <2>4. a \in Projections /\ a.receipts = shown.receipts /\ a.live = l
      BY SMT, <2>2, ShownTyped DEF Projections
    <2> HIDE DEF e, a
    <2>5. Dated(a.receipts, seq + 1) /\ Bounded(a.live, seq + 1)
      BY Zenon, <2>2, <2>4, ShownTyped
    <2> QED BY Zenon, <1>1, <2>1, <2>3, <2>4, <2>5, OneEvent
  <1>5. CASE ~Known(shown.live, i) /\ ~(Cardinality(shown.live) < Limit)
    <2> DEFINE old == CHOOSE x \in shown.live : \A y \in shown.live : x.since <= y.since
               rest == shown.live \ {old}
               l == Streamed(rest, i)
               r == Event("remove", old.id, Gone)
               a1 == [shown EXCEPT !.live = rest]
               a2 == [shown EXCEPT !.live = l]
    <2>1. Publish(<<r, e>>, <<a1, a2>>)
      BY Zenon, <1>5 DEF ObserveDelta
    <2>2. IsFiniteSet(shown.live) /\ Cardinality(shown.live) \in Nat /\ Cardinality(shown.live) <= Limit
      BY Zenon, ShownTyped, FS_CardinalityType DEF Bounded
    <2>3. Limit \in Nat \ {0}
      BY StreamAssumption
    <2>4. shown.live # {}
      <3>1. Cardinality(shown.live) # 0
        BY SMT, <1>5, <2>2, <2>3
      <3> QED BY Zenon, <3>1, FS_EmptySet
    <2>5. PICK o : o = old
      BY Zenon
    <2>6. o \in shown.live /\ Without(shown.live, o.id) = shown.live \ {o}
      BY Zenon, <2>4, <2>5, ShownTyped, OldestIs
    <2>7. rest = shown.live \ {o} /\ r = Event("remove", o.id, Gone)
      BY Zenon, <2>5
    <2> HIDE DEF old
    <2>8. Cardinality(rest) < Limit
      <3>1. Cardinality(shown.live \ {o}) = Cardinality(shown.live) - 1
        BY Zenon, <2>2, <2>6, FS_RemoveElement
      <3>2. Cardinality(shown.live) - 1 < Limit
        BY SMT, <2>2, <2>3
      <3> QED BY Zenon, <2>7, <3>1, <3>2
    <2> HIDE DEF r, rest
    <2>9. rest \in SUBSET shown.live
      BY Zenon, <2>7
    <2>10. Bounded(rest, seq + 1) /\ rest \in SUBSET Outputs /\ ~Known(rest, i) /\ seq + 1 \in Nat
      <3>1. seq + 1 \in Nat
        BY SMT, ShownTyped
      <3>2. Bounded(rest, seq + 1)
        BY Zenon, <2>9, <3>1, ShownTyped, Fewer
      <3> QED BY Zenon, <1>5, <2>9, <3>1, <3>2, ShownTyped DEF Known
    <2>11. l \in SUBSET Outputs /\ Bounded(l, (seq + 1) + 1) /\ Newest(l) = l
      BY Zenon, <2>8, <2>10, StreamedIs
    <2>12. a1 = applyStateEvent(shown, r)
      <3>1. applyStateEvent(shown, r) = [shown EXCEPT !.live = Without(shown.live, o.id)]
        <4>1. applyStateEvent(shown, Event("remove", o.id, Gone)) = [shown EXCEPT !.live = Without(shown.live, o.id)]
          BY Zenon, ApplyRemove
        <4> QED BY Zenon, <2>7, <4>1
      <3> QED BY Zenon, <2>6, <2>7, <3>1
    <2>13. a1 \in Projections /\ a1.live = rest /\ a1.rows = shown.rows /\ a1.receipts = shown.receipts
      BY SMT, <2>10, ShownTyped, NewLive
    <2>14. a2 = applyStateEvent(a1, e)
      <3>1. applyStateEvent(a1, e) = [a1 EXCEPT !.live =
               IF Known(a1.live, i) THEN a1.live ELSE Newest(Streamed(a1.live, i))]
        BY Zenon, ApplyDelta
      <3>2. PICK b1, b2 : b1 = a1 /\ b2 = a2
        BY Zenon
      <3>3. PICK w : w = applyStateEvent(a1, e)
        BY Zenon
      <3>4. w = [b1 EXCEPT !.live = l]
        <4>1. (IF Known(rest, i) THEN rest ELSE Newest(Streamed(rest, i))) = l
          BY Zenon, <2>10, <2>11
        <4> HIDE DEF l, a1, e
        <4> QED BY Zenon, <2>13, <3>1, <3>2, <3>3, <4>1
      <3>5. b2 \in Projections /\ b2.rows = shown.rows /\ b2.receipts = shown.receipts /\ b2.live = l
        <4> HIDE DEF l
        <4> QED BY SMT, <2>11, <3>2, ShownTyped, NewLive
      <3> HIDE DEF l, a1, e
      <3>6. w \in Projections /\ w.rows = b1.rows /\ w.receipts = b1.receipts /\ w.live = l
        BY SMT, <2>11, <2>13, <3>2, <3>4, NewLive
      <3>7. w = b2
        BY Zenon, <2>13, <3>2, <3>5, <3>6, Same
      <3> QED BY Zenon, <3>2, <3>3, <3>7
    <2> HIDE DEF l
    <2>15. a2 \in Projections /\ a2.receipts = shown.receipts /\ a2.live = l
      BY SMT, <2>11, ShownTyped, NewLive
    <2>16. r \in Events
      <3>1. o.id \in Items
        BY SMT, <2>6, ShownTyped DEF Outputs
      <3> QED BY SMT, <2>7, <3>1 DEF Events, Event
    <2> HIDE DEF a1, a2, e
    <2> DEFINE es == <<r, e>>
               as == <<a1, a2>>
    <2>17. /\ es \in Seq(Events) /\ as \in Seq(Projections) /\ Len(es) = 2 /\ Len(as) = 2
           /\ es[1] = r /\ es[2] = e /\ as[1] = a1 /\ as[2] = a2
      BY SMT, <1>1, <2>13, <2>15, <2>16
    <2>18. Publish(es, as)
      BY Zenon, <2>1
    <2> HIDE DEF es, as
    <2>19. \A n \in 2..Len(es) : as[n] = applyStateEvent(as[n - 1], es[n])
      <3>1. \A n \in 2..Len(es) : n = 2 /\ n - 1 = 1
        BY SMT, <2>17
      <3> QED BY Zenon, <2>14, <2>17, <3>1
    <2>20. Dated(a2.receipts, seq + 2) /\ Bounded(a2.live, seq + 2)
      <3>1. (seq + 1) + 1 = seq + 2 /\ seq + 2 \in Nat
        BY SMT, ShownTyped
      <3>2. Bounded(l, seq + 2)
        BY Zenon, <2>11, <3>1
      <3>3. Dated(shown.receipts, seq + 2)
        BY SMT, ShownTyped DEF Dated
      <3> QED BY Zenon, <2>15, <3>2, <3>3
    <2>21. Len(as) = Len(es) /\ as[1] = applyStateEvent(shown, es[1])
           /\ Dated(as[Len(es)].receipts, seq + Len(es)) /\ Bounded(as[Len(es)].live, seq + Len(es))
      BY Zenon, <2>12, <2>17, <2>20
    <2> QED BY Zenon, <2>17, <2>18, <2>19, <2>21, PublishKeeps
  <1> QED BY Zenon, <1>3, <1>4, <1>5

Still(x) == [id |-> x.id, streaming |-> FALSE, since |-> x.since]

LEMMA StoppedKeeps ==
    ASSUME StreamInv, ObserveStopped
    PROVE  StreamInv'
  <1> DEFINE l == Stopped(shown.live)
             a == [shown EXCEPT !.live = l]
             e == Event("stopped", Gone, Gone)
  <1>1. Publish(<<e>>, <<a>>)
    BY Zenon DEF ObserveStopped
  <1>2. a = applyStateEvent(shown, e)
    BY Zenon, ApplyStopped
  <1>3. e \in Events
    BY SMT DEF Events, Event
  <1>4. \A x \in shown.live : /\ Still(x) \in Outputs
                              /\ Still(x).id = x.id
                              /\ Still(x).since = x.since
    <2>1. \A x \in Outputs : Still(x) \in Outputs /\ Still(x).id = x.id /\ Still(x).since = x.since
      BY SMT DEF Outputs, Still
    <2> QED BY Zenon, <2>1, ShownTyped
  <1>5. l \in SUBSET Outputs /\ \A y \in l : \E x \in shown.live : y = Still(x)
    BY SMT, <1>4 DEF Stopped, Still
  <1>6. Bounded(l, seq + 1)
    <2>1. IsFiniteSet(shown.live) /\ Cardinality(shown.live) <= Limit /\ Limit \in Nat
      BY Zenon, ShownTyped, StreamAssumption DEF Bounded
    <2>2. IsFiniteSet(l) /\ Cardinality(l) <= Cardinality(shown.live)
      <3> DEFINE f == [x \in shown.live |-> Still(x)]
      <3>1. f \in Surjection(shown.live, l)
        <4>1. l = {Still(x) : x \in shown.live}
          BY Zenon DEF Stopped, Still
        <4> HIDE DEF l
        <4>2. f \in [shown.live -> l] /\ \A y \in l : \E x \in shown.live : f[x] = y
          BY Zenon, <4>1
        <4> QED BY Zenon, <4>2 DEF Surjection
      <3> HIDE DEF f
      <3> QED BY Zenon, <2>1, <3>1, FS_Surjection
    <2>3. Cardinality(l) \in Nat /\ Cardinality(shown.live) \in Nat
      BY Zenon, <2>1, <2>2, FS_CardinalityType
    <2> HIDE DEF l
    <2>4. Cardinality(l) <= Limit
      BY SMT, <2>1, <2>2, <2>3
    <2>5. Dated(l, seq + 1)
      <3>1. Dated(shown.live, seq + 1)
        BY Zenon, ShownTyped DEF Bounded
      <3> QED BY Zenon, <1>4, <1>5, <3>1 DEF Dated
    <2>6. ASSUME NEW x \in l, NEW y \in l, x.id = y.id \/ x.since = y.since PROVE x = y
      <3>1. PICK p \in shown.live : x = Still(p)
        BY Zenon, <1>5
      <3>2. PICK q \in shown.live : y = Still(q)
        BY Zenon, <1>5
      <3>3. p.id = q.id \/ p.since = q.since
        BY Zenon, <1>4, <2>6, <3>1, <3>2
      <3>4. p = q
        BY Zenon, <3>3, ShownTyped DEF Bounded
      <3> QED BY Zenon, <3>1, <3>2, <3>4
    <2> QED BY Zenon, <2>2, <2>4, <2>5, <2>6 DEF Bounded
  <1> HIDE DEF l
  <1>7. a \in Projections /\ a.receipts = shown.receipts /\ a.live = l
    BY SMT, <1>5, ShownTyped DEF Projections
  <1> HIDE DEF a, e
  <1>8. Dated(a.receipts, seq + 1) /\ Bounded(a.live, seq + 1)
    BY Zenon, <1>6, <1>7, ShownTyped
  <1> QED BY Zenon, <1>1, <1>2, <1>3, <1>7, <1>8, OneEvent

-----------------------------------------------------------------------------
(* The session *)

LEMMA PublisherSame ==
    ASSUME StreamInv, UNCHANGED publisher
    PROVE  /\ seq' = seq /\ seq \in Nat /\ seq <= MaxSeq /\ MaxSeq \in Nat /\ log' = log /\ shown' = shown
           /\ \A n : Truth(n)' = Truth(n)
           /\ \A f : FrameTrue(f)' <=> FrameTrue(f)
           /\ LogTyped' /\ Announced' /\ Tables'
  <1>1. log' = log /\ shown' = shown /\ truth' = truth /\ seq' = seq
    BY Zenon DEF publisher, seq
  <1>2. LogTyped /\ Announced /\ Tables
    BY Zenon DEF StreamInv
  <1>3. seq \in Nat /\ seq <= MaxSeq /\ MaxSeq \in Nat
    BY <1>2, StreamAssumption DEF LogTyped, seq
  <1>4. \A n : Truth(n)' = Truth(n)
    BY Zenon, <1>1 DEF Truth
  <1>5. \A f : FrameTrue(f)' <=> FrameTrue(f)
    BY Zenon, <1>1, <1>4 DEF FrameTrue
  <1>6. LogTyped'
    BY Zenon, <1>1, <1>2 DEF LogTyped
  <1>7. Tables'
    BY Zenon, <1>1, <1>2 DEF Tables
  <1>8. Announced'
    <2>1. Truth(seq)' = Truth(seq)
      BY Zenon, <1>1 DEF Truth
    <2> QED BY Zenon, <1>1, <1>2, <1>4, <2>1 DEF Announced
  <1> QED BY Zenon, <1>1, <1>3, <1>4, <1>5, <1>6, <1>7, <1>8

LEMMA WireFacts ==
    ASSUME StreamInv
    PROVE  /\ session \in Sessions /\ down \in Seq(Frames) /\ phase \in Phases /\ requested \in BOOLEAN
           /\ session.at = "sending" => session.frame \in Frames
           /\ current \in [seq : Nat, view : Projections \cup {<<>>}]
           /\ Len(down) \in Nat /\ session.cursor \in Nat /\ session.last \in Nat
           /\ \A n \in 1..Len(down) : down[n] \in Frames /\ down[n].seq \in Nat
           /\ FramesTrue /\ InOrder /\ CursorNear /\ BrowserTrue
  <1>1. /\ session \in Sessions /\ down \in Seq(Frames) /\ phase \in Phases /\ requested \in BOOLEAN
        /\ session.at = "sending" => session.frame \in Frames
        /\ current \in [seq : Nat, view : Projections \cup {<<>>}]
        /\ FramesTrue /\ InOrder /\ CursorNear /\ BrowserTrue
    BY Zenon DEF StreamInv, WireTyped
  <1>2. session.cursor \in Nat /\ session.last \in Nat
    BY SMT, <1>1 DEF Sessions
  <1>3. Len(down) \in Nat /\ \A n \in 1..Len(down) : down[n] \in Frames
    BY SMT, <1>1
  <1>4. \A f \in Frames : f.seq \in Nat
    BY SMT DEF Frames
  <1> QED BY Zenon, <1>1, <1>2, <1>3, <1>4

LEMMA TruthTyped ==
    ASSUME StreamInv, NEW n \in 0..seq
    PROVE  Truth(n) \in Projections
  <1>1. truth \in Seq(Projections) /\ Len(truth) = seq /\ log \in Seq(Events)
    BY Zenon DEF StreamInv, LogTyped, seq
  <1>2. CASE n = 0
    BY SMT, <1>2 DEF Truth, Projections
  <1>3. CASE n # 0
    BY SMT, <1>1, <1>3 DEF Truth, seq
  <1> QED BY Zenon, <1>2, <1>3

\* The browser's part of the invariant, when nothing it depends on changes.
LEMMA BrowserSame ==
    ASSUME StreamInv, UNCHANGED <<publisher, client>>, down' = down,
           session'.last = session.last, session'.at = "closed" <=> session.at = "closed"
    PROVE  BrowserTrue'
  <1>1. current' = current /\ phase' = phase /\ requested' = requested
    BY Zenon DEF client
  <1>2. Holds' <=> Holds
    <2>1. seq' = seq /\ truth' = truth
      BY Zenon DEF publisher, seq
    <2> QED BY Zenon, <1>1, <2>1 DEF Holds, Truth
  <1>3. BrowserTrue
    BY Zenon DEF StreamInv
  <1> QED BY Zenon, <1>1, <1>2, <1>3 DEF BrowserTrue

LEMMA CaptureKeeps ==
    ASSUME StreamInv, NEW c \in Nat, c <= seq + 1, session.at \in {"upgrade", "loop"},
           Capture(c),
           UNCHANGED <<publisher, client>>, down' = down
    PROVE  StreamInv'
  <1> UNCHANGED publisher
    BY Zenon
  <1>1. shown = Truth(seq) /\ shown \in Projections
    BY Zenon DEF StreamInv, Announced, LogTyped
  <1>2. PICK f : f = Snapshot
    BY Zenon
  <1>3. f = [kind |-> "snapshot", seq |-> seq, body |-> shown]
    BY Zenon, <1>2 DEF Snapshot
  <1>4. f \in Frames /\ f.kind = "snapshot" /\ f.seq = seq /\ f.body = shown
    BY SMT, <1>1, <1>3, PublisherSame DEF Frames
  <1>5. /\ session' \in Sessions /\ session'.at = "sending" /\ session'.cursor = c
        /\ session'.last = session.last /\ session'.frame = f
    <2>1. session' = Session("sending", c, session.last, f) /\ session.last \in Nat
      BY Zenon, <1>2, WireFacts DEF Capture
    <2>2. LET t == Session("sending", c, session.last, f)
          IN t \in Sessions /\ t.at = "sending" /\ t.cursor = c /\ t.last = session.last /\ t.frame = f
      BY SMT, <1>4, <2>1 DEF Sessions, Session
    <2> QED BY Zenon, <2>1, <2>2
  <1>6. WireTyped'
    <2>1. current' = current /\ phase' = phase /\ requested' = requested
      BY Zenon DEF client
    <2> QED BY Zenon, <1>4, <1>5, <2>1, WireFacts DEF WireTyped
  <1>7. FramesTrue'
    <2>1. FrameTrue(f)
      <3>1. seq \in 0..seq
        BY SMT, PublisherSame
      <3> QED BY Zenon, <1>1, <1>4, <3>1 DEF FrameTrue
    <2>2. FrameTrue(f)'
      BY Zenon, <2>1, PublisherSame
    <2>3. FrameTrue(session.frame)'
      BY Zenon, <1>5, <2>2 DEF FrameTrue
    <2> QED BY Zenon, <2>3, PublisherSame, WireFacts DEF FramesTrue
  <1>8. InOrder'
    <2>1. Follows(session.last, f)
      <3>1. session.last <= seq /\ session.last \in Nat /\ seq \in Nat
        BY Zenon, WireFacts, PublisherSame DEF CursorNear
      <3> QED BY SMT, <1>4, <3>1 DEF Follows
    <2> QED BY Zenon, <1>5, <2>1, WireFacts DEF InOrder
  <1>9. CursorNear'
    <2>1. session.last <= seq
      BY Zenon, WireFacts DEF CursorNear
    <2>2. session'.last <= seq' /\ session'.cursor <= session'.frame.seq + 1
      BY Zenon, <1>4, <1>5, <2>1, PublisherSame
    <2> QED BY Zenon, <1>5, <2>2 DEF CursorNear
  <1>10. BrowserTrue'
    BY <1>5, BrowserSame
  <1> QED BY Zenon, <1>6, <1>7, <1>8, <1>9, <1>10, PublisherSame DEF StreamInv

LEMMA OldestBounds ==
    ASSUME StreamInv
    PROVE  Oldest \in Nat /\ Oldest >= 1 /\ Oldest <= seq + 1
  <1> DEFINE T == {1, seq - Buffer + 1}
  <1>1. seq \in Nat /\ Buffer \in Nat \ {0}
    <2>1. log \in Seq(Events)
      BY Zenon DEF StreamInv, LogTyped
    <2> QED BY <2>1, StreamAssumption DEF seq
  <1>2. Oldest = CHOOSE x \in T : \A y \in T : x >= y
    BY Zenon DEF Oldest, Highest
  <1>3. \E x \in T : \A y \in T : x >= y
    BY SMT, <1>1
  <1>4. Oldest \in T /\ \A y \in T : Oldest >= y
    BY Zenon, <1>2, <1>3
  <1> QED BY SMT, <1>1, <1>4

LEMMA SendFirstKeeps == ASSUME StreamInv, SendFirst PROVE StreamInv'
  <1>1. session.at = "upgrade" /\ Capture(session.cursor)
        /\ UNCHANGED <<publisher, client>> /\ down' = down
    BY Zenon DEF SendFirst
  <1>2. session.cursor \in Nat /\ session.cursor <= seq + 1
    BY Zenon, <1>1, WireFacts DEF CursorNear
  <1> QED BY Zenon, <1>1, <1>2, CaptureKeeps

LEMMA AnswerKeeps == ASSUME StreamInv, AnswerRequest PROVE StreamInv'
  <1>1. session.at = "loop" /\ Capture(session.cursor)
        /\ UNCHANGED <<publisher, client>> /\ down' = down
    BY Zenon DEF AnswerRequest
  <1>2. session.cursor \in Nat /\ session.cursor <= seq + 1
    <2>1. session.cursor <= session.last + 1 /\ session.last <= seq
      BY Zenon, <1>1, WireFacts DEF CursorNear
    <2>2. seq \in Nat
      BY Zenon, ShownTyped
    <2> QED BY SMT, <2>1, <2>2, WireFacts
  <1> QED BY Zenon, <1>1, <1>2, CaptureKeeps

LEMMA LaggedKeeps == ASSUME StreamInv, Lagged PROVE StreamInv'
  <1>1. session.at = "loop" /\ Capture(Oldest)
        /\ UNCHANGED <<publisher, client>> /\ down' = down
    BY Zenon DEF Lagged
  <1> QED BY Zenon, <1>1, OldestBounds, CaptureKeeps

LEMMA ForwardKeeps == ASSUME StreamInv, Forward PROVE StreamInv'
  <1>1. session.at = "loop" /\ session.cursor \in Oldest..seq /\ UNCHANGED <<publisher, client>> /\ down' = down
    BY Zenon DEF Forward
  <1> UNCHANGED publisher
    BY Zenon, <1>1
  <1>2. current' = current /\ phase' = phase /\ requested' = requested
    BY Zenon, <1>1 DEF client
  <1>3. session.cursor <= session.last + 1 /\ session.last <= seq /\ session.cursor \in 1..seq
    <2>1. session.cursor <= session.last + 1 /\ session.last <= seq
      BY Zenon, <1>1, WireFacts DEF CursorNear
    <2> QED BY SMT, <1>1, <2>1, OldestBounds, PublisherSame, WireFacts
  <1>4. CASE session.cursor > session.last
    <2> DEFINE f == [kind |-> "event", seq |-> session.cursor, body |-> log[session.cursor]]
    <2>1. session' = Session("sending", session.cursor + 1, session.last, f)
      BY Zenon, <1>4 DEF Forward
    <2>2. session.cursor = session.last + 1
      BY SMT, <1>3, <1>4, WireFacts
    <2>3. log[session.cursor] \in Events
      <3>1. log \in Seq(Events)
        BY Zenon DEF StreamInv, LogTyped
      <3> QED BY SMT, <1>3, <3>1 DEF seq
    <2>4. f \in Frames /\ f.kind = "event" /\ f.seq = session.cursor /\ f.body = log[session.cursor]
      BY SMT, <2>3, WireFacts DEF Frames
    <2>5. PICK g : g = f
      BY Zenon
    <2> HIDE DEF f
    <2>6. /\ session' \in Sessions /\ session'.at = "sending" /\ session'.cursor = session.cursor + 1
          /\ session'.last = session.last /\ session'.frame = g
      <3>1. session.last \in Nat /\ session.cursor \in Nat
        BY Zenon, WireFacts
      <3>2. session.cursor + 1 \in Nat
        BY SMT, <3>1
      <3>3. session' = Session("sending", session.cursor + 1, session.last, g)
        BY Zenon, <2>1, <2>5
      <3>4. LET t == Session("sending", session.cursor + 1, session.last, g)
            IN t \in Sessions /\ t.at = "sending" /\ t.cursor = session.cursor + 1 /\ t.last = session.last /\ t.frame = g
        BY SMT, <2>4, <2>5, <3>1, <3>2 DEF Sessions, Session
      <3> QED BY Zenon, <3>3, <3>4
    <2>7. WireTyped'
      BY Zenon, <1>1, <1>2, <2>4, <2>5, <2>6, WireFacts DEF WireTyped
    <2>8. FramesTrue'
      <3>1. FrameTrue(g)
        BY Zenon, <1>3, <2>4, <2>5 DEF FrameTrue
      <3>2. FrameTrue(g)'
        BY Zenon, <3>1, PublisherSame
      <3>3. FrameTrue(session.frame)'
        BY Zenon, <2>6, <3>2 DEF FrameTrue
      <3> QED BY Zenon, <1>1, <3>3, PublisherSame, WireFacts DEF FramesTrue
    <2>9. InOrder'
      <3>1. Follows(session.last, g)
        BY Zenon, <2>2, <2>4, <2>5 DEF Follows
      <3> QED BY Zenon, <1>1, <2>6, <3>1, WireFacts DEF InOrder
    <2>10. CursorNear'
      <3>1. session'.last <= seq'
        BY Zenon, <1>3, <2>6, PublisherSame
      <3>2. session'.cursor <= session'.frame.seq + 1
        BY SMT, <2>4, <2>5, <2>6, WireFacts
      <3> QED BY Zenon, <2>6, <3>1, <3>2 DEF CursorNear
    <2>11. BrowserTrue'
      BY <1>1, <2>6, BrowserSame
    <2> QED BY Zenon, <2>7, <2>8, <2>9, <2>10, <2>11, PublisherSame DEF StreamInv
  <1>5. CASE ~(session.cursor > session.last)
    <2>1. session' = [session EXCEPT !.cursor = @ + 1]
      BY Zenon, <1>5 DEF Forward
    <2>2. /\ session' \in Sessions /\ session'.at = "loop" /\ session'.cursor = session.cursor + 1
          /\ session'.last = session.last
      BY SMT, <1>1, <2>1, WireFacts DEF Sessions
    <2>3. WireTyped'
      BY Zenon, <1>1, <1>2, <2>2, WireFacts DEF WireTyped
    <2>4. FramesTrue'
      BY Zenon, <1>1, <2>2, PublisherSame, WireFacts DEF FramesTrue
    <2>5. InOrder'
      BY Zenon, <1>1, <2>2, WireFacts DEF InOrder
    <2>6. CursorNear'
      <3>1. session'.last <= seq'
        BY Zenon, <1>3, <2>2, PublisherSame
      <3>2. session'.cursor <= session'.last + 1
        BY SMT, <1>5, <2>2, WireFacts
      <3> QED BY Zenon, <2>2, <3>1, <3>2 DEF CursorNear
    <2>7. BrowserTrue'
      BY <1>1, <2>2, BrowserSame
    <2> QED BY Zenon, <2>3, <2>4, <2>5, <2>6, <2>7, PublisherSame DEF StreamInv
  <1> QED BY Zenon, <1>4, <1>5

LEMMA SentKeeps == ASSUME StreamInv, Sent PROVE StreamInv'
  <1>1. /\ session.at = "sending" /\ down' = Append(down, session.frame)
        /\ session' = Session("loop", session.cursor, session.frame.seq, <<>>)
        /\ UNCHANGED <<publisher, client>>
    BY Zenon DEF Sent
  <1> UNCHANGED publisher
    BY Zenon, <1>1
  <1>2. current' = current /\ phase' = phase /\ requested' = requested
    BY Zenon, <1>1 DEF client
  <1>3. PICK f \in Frames : f = session.frame
    BY Zenon, <1>1, WireFacts
  <1>4. f.seq \in Nat /\ FrameTrue(f) /\ Follows(session.last, f) /\ session.cursor <= f.seq + 1
    <2>1. f.seq \in Nat
      BY SMT DEF Frames
    <2>2. FrameTrue(session.frame) /\ Follows(session.last, session.frame)
          /\ session.cursor <= session.frame.seq + 1
      BY Zenon, <1>1, WireFacts DEF FramesTrue, InOrder, CursorNear
    <2> QED BY Zenon, <1>3, <2>1, <2>2 DEF FrameTrue
  <1>5. f.seq <= seq /\ session.last <= f.seq
    BY SMT, <1>4, PublisherSame, WireFacts DEF FrameTrue, Follows
  <1>6. /\ session' \in Sessions /\ session'.at = "loop" /\ session'.cursor = session.cursor
        /\ session'.last = f.seq
    <2>1. session.cursor \in Nat /\ session' = Session("loop", session.cursor, f.seq, <<>>)
      BY Zenon, <1>1, <1>3, WireFacts
    <2>2. <<>> \in Frames \cup {<<>>}
      BY Zenon
    <2>3. LET t == Session("loop", session.cursor, f.seq, <<>>)
          IN t \in Sessions /\ t.at = "loop" /\ t.cursor = session.cursor /\ t.last = f.seq /\ t.frame = <<>>
      BY SMT, <1>4, <2>1, <2>2 DEF Sessions, Session
    <2> QED BY Zenon, <2>1, <2>3
  <1>7. /\ down' \in Seq(Frames) /\ Len(down') = Len(down) + 1 /\ down'[Len(down) + 1] = f
        /\ down' # <<>> /\ \A n \in 1..Len(down) : down'[n] = down[n]
    BY SMT, <1>1, <1>3, WireFacts, AppendIs
  <1>8. WireTyped'
    BY Zenon, <1>2, <1>6, <1>7, WireFacts DEF WireTyped
  <1>9. FramesTrue'
    <2>1. ASSUME NEW n \in 1..Len(down') PROVE FrameTrue(down'[n])
      <3>1. n \in 1..Len(down) \/ n = Len(down) + 1
        BY SMT, <1>7, WireFacts
      <3> QED BY Zenon, <1>4, <1>7, <3>1, WireFacts DEF FramesTrue
    <2>2. ASSUME NEW n \in 1..Len(down') PROVE FrameTrue(down[n])'
      <3>1. PICK g : g = down'[n]
        BY Zenon
      <3>2. FrameTrue(g)'
        BY Zenon, <2>1, <3>1, PublisherSame
      <3> QED BY Zenon, <3>1, <3>2 DEF FrameTrue
    <2> QED BY Zenon, <1>6, <2>2 DEF FramesTrue
  <1>10. InOrder'
    <2>1. ASSUME NEW n \in 1..(Len(down') - 1) PROVE Follows(down'[n].seq, down'[n + 1])
      <3>1. CASE n = Len(down)
        <4>1. down # <<>> /\ n \in 1..Len(down)
          BY SMT, <1>7, <3>1, WireFacts
        <4>2. session.last = down[Len(down)].seq
          BY Zenon, <4>1, WireFacts DEF InOrder
        <4> QED BY Zenon, <1>4, <1>7, <3>1, <4>1, <4>2
      <3>2. CASE n # Len(down)
        <4>1. n \in 1..(Len(down) - 1) /\ n \in 1..Len(down) /\ n + 1 \in 1..Len(down)
          BY SMT, <1>7, <3>2, WireFacts
        <4> QED BY Zenon, <1>7, <4>1, WireFacts DEF InOrder
      <3> QED BY Zenon, <3>1, <3>2
    <2>2. session'.last = down'[Len(down')].seq
      BY Zenon, <1>6, <1>7
    <2> QED BY Zenon, <1>6, <2>1, <2>2 DEF InOrder
  <1>11. CursorNear'
    <2>1. session'.last <= seq' /\ session'.cursor <= session'.last + 1
      BY Zenon, <1>4, <1>5, <1>6, PublisherSame
    <2> QED BY Zenon, <1>6, <2>1 DEF CursorNear
  <1>12. BrowserTrue'
    <2>1. Holds' <=> Holds
      <3>1. seq' = seq /\ truth' = truth
        BY Zenon DEF publisher, seq
      <3> QED BY Zenon, <1>2, <3>1 DEF Holds, Truth
    <2>2. phase # "disconnected" /\ (current # NoState => Holds)
          /\ (current # NoState => IF down = <<>> THEN current.seq <= session.last ELSE current.seq <= down[1].seq)
          /\ (phase = "ready" => /\ ~requested /\ current # NoState
                /\ IF down = <<>> THEN session.last = current.seq ELSE Follows(current.seq, down[1]))
      BY Zenon, <1>1, WireFacts DEF BrowserTrue
    <2>3. current.seq \in Nat
      BY SMT, WireFacts
    <2>4. CASE down = <<>>
      <3>1. down'[1] = f
        BY SMT, <1>1, <1>3, <2>4, WireFacts, AppendIs
      <3>2. current # NoState => current.seq <= down'[1].seq
        BY SMT, <1>4, <1>5, <2>2, <2>3, <2>4, <3>1, WireFacts
      <3>3. phase = "ready" => Follows(current.seq, down'[1])
        BY Zenon, <1>4, <2>2, <2>4, <3>1
      <3> QED BY Zenon, <1>2, <1>6, <1>7, <2>1, <2>2, <3>2, <3>3 DEF BrowserTrue
    <2>5. CASE down # <<>>
      <3>1. down'[1] = down[1]
        BY SMT, <1>1, <1>3, <2>5, WireFacts, AppendIs
      <3>2. current # NoState => current.seq <= down'[1].seq
        BY Zenon, <2>2, <2>5, <3>1
      <3>3. phase = "ready" => Follows(current.seq, down'[1])
        BY Zenon, <2>2, <2>5, <3>1
      <3> QED BY Zenon, <1>2, <1>6, <1>7, <2>1, <2>2, <3>2, <3>3 DEF BrowserTrue
    <2> QED BY Zenon, <2>4, <2>5
  <1> QED BY Zenon, <1>8, <1>9, <1>10, <1>11, <1>12, PublisherSame DEF StreamInv

-----------------------------------------------------------------------------
(* The browser *)

\* The frame at the head of the socket is true, and what comes next continues it.
LEMMA Popped ==
    ASSUME StreamInv, down # <<>>, down' = Tail(down), session' = session, UNCHANGED publisher
    PROVE  /\ down' \in Seq(Frames) /\ FramesTrue' /\ InOrder' /\ CursorNear'
           /\ Head(down) = down[1] /\ down[1] \in Frames /\ down[1].seq \in Nat /\ FrameTrue(down[1])
           /\ IF down' = <<>> THEN session'.last = down[1].seq ELSE Follows(down[1].seq, down'[1])
           /\ down' # <<>> => down'[1].seq \in Nat
  <1>1. /\ down' \in Seq(Frames) /\ Len(down) \in Nat \ {0} /\ Len(down') = Len(down) - 1
        /\ Head(down) = down[1] /\ down[1] \in Frames /\ 1 \in 1..Len(down)
        /\ \A n \in 1..(Len(down) - 1) : down'[n] = down[n + 1]
        /\ (down' = <<>> <=> Len(down) = 1)
    BY Zenon, WireFacts, TailIs
  <1>2. \A n \in 1..Len(down) : FrameTrue(down[n]) /\ down[n].seq \in Nat
    BY Zenon, WireFacts DEF FramesTrue
  <1>3. FramesTrue'
    <2>1. ASSUME NEW n \in 1..Len(down') PROVE FrameTrue(down[n])'
      <3>1. n \in 1..(Len(down) - 1) /\ n + 1 \in 1..Len(down)
        BY SMT, <1>1
      <3>2. PICK g : g = down'[n]
        BY Zenon
      <3>3. FrameTrue(g)
        BY Zenon, <1>1, <1>2, <3>1, <3>2
      <3>4. FrameTrue(g)'
        BY Zenon, <3>3, PublisherSame
      <3> QED BY Zenon, <3>2, <3>4 DEF FrameTrue
    <2>2. session.at = "sending" => FrameTrue(session.frame)'
      <3>1. PICK g : g = session.frame
        BY Zenon
      <3>2. session.at = "sending" => FrameTrue(g)
        BY Zenon, <3>1, WireFacts DEF FramesTrue
      <3>3. session.at = "sending" => FrameTrue(g)'
        BY Zenon, <3>2, PublisherSame
      <3> QED BY Zenon, <3>1, <3>3 DEF FrameTrue
    <2> QED BY Zenon, <2>1, <2>2 DEF FramesTrue
  <1>4. InOrder'
    <2>1. ASSUME NEW n \in 1..(Len(down') - 1) PROVE Follows(down'[n].seq, down'[n + 1])
      <3>1. n \in 1..(Len(down) - 1) /\ n + 1 \in 1..(Len(down) - 1)
        BY SMT, <1>1
      <3> QED BY Zenon, <1>1, <3>1, WireFacts DEF InOrder
    <2>2. down' # <<>> => down'[Len(down')] = down[Len(down)]
      BY SMT, <1>1
    <2>3. down' # <<>> => session'.last = down'[Len(down')].seq
      BY Zenon, <2>2, WireFacts DEF InOrder
    <2> QED BY Zenon, <2>1, <2>3, WireFacts DEF InOrder
  <1>5. CursorNear'
    BY Zenon, PublisherSame, WireFacts DEF CursorNear
  <1>6. IF down' = <<>> THEN session'.last = down[1].seq ELSE Follows(down[1].seq, down'[1])
    <2>1. CASE down' = <<>>
      <3>1. Len(down) = 1
        BY Zenon, <1>1, <2>1
      <3> QED BY Zenon, <2>1, <3>1, WireFacts DEF InOrder
    <2>2. CASE down' # <<>>
      <3>1. 1 \in 1..(Len(down) - 1) /\ down'[1] = down[1 + 1]
        BY SMT, <1>1, <2>2
      <3> QED BY Zenon, <2>2, <3>1, WireFacts DEF InOrder
    <2> QED BY Zenon, <2>1, <2>2
  <1>7. down' # <<>> => down'[1].seq \in Nat
    <2>1. down' # <<>> => 1 \in 1..(Len(down) - 1) /\ 1 + 1 \in 1..Len(down)
      BY SMT, <1>1
    <2> QED BY Zenon, <1>1, <1>2, <2>1
  <1> QED BY Zenon, <1>1, <1>2, <1>3, <1>4, <1>5, <1>6, <1>7

\* Frames are at or after what the browser shows.
LEMMA StillBehind ==
    ASSUME StreamInv, down # <<>>, down' = Tail(down), session' = session, UNCHANGED publisher,
           current' = current, phase # "disconnected", current # NoState
    PROVE  IF down' = <<>> THEN current'.seq <= session'.last ELSE current'.seq <= down'[1].seq
  <1>1. current.seq <= down[1].seq
    BY Zenon, WireFacts DEF BrowserTrue
  <1>2. current.seq \in Nat
    BY SMT, WireFacts
  <1>3. /\ down[1].seq \in Nat /\ (down' # <<>> => down'[1].seq \in Nat)
        /\ IF down' = <<>> THEN session'.last = down[1].seq ELSE Follows(down[1].seq, down'[1])
    BY Zenon, Popped
  <1> QED BY SMT, <1>1, <1>2, <1>3 DEF Follows

\* A dropped frame leaves the browser waiting for a snapshot.
LEMMA DroppedKeeps ==
    ASSUME StreamInv, down # <<>>, down' = Tail(down), session' = session, UNCHANGED publisher,
           current' = current, phase # "disconnected", requestSnapshot
    PROVE  StreamInv'
  <1>1. /\ phase' \in Phases /\ phase' # "disconnected" /\ phase' # "ready" /\ requested' \in BOOLEAN
    <2>1. phase = "ready" => ~requested
      BY Zenon, WireFacts DEF BrowserTrue
    <2>2. CASE requested
      BY Zenon, <2>1, <2>2, WireFacts DEF requestSnapshot
    <2>3. CASE ~requested
      <3>1. phase' = "awaiting_snapshot" \/ phase' = "resync"
        BY Zenon, <2>3 DEF requestSnapshot
      <3>2. requested' = TRUE
        BY Zenon, <2>3 DEF requestSnapshot
      <3> QED BY SMT, <3>1, <3>2 DEF Phases
    <2> QED BY Zenon, <2>2, <2>3
  <1>2. WireTyped'
    BY Zenon, <1>1, Popped, WireFacts DEF WireTyped
  <1>3. BrowserTrue'
    <2>1. Holds' <=> Holds
      <3>1. seq' = seq /\ truth' = truth
        BY Zenon DEF publisher, seq
      <3> QED BY Zenon, <3>1 DEF Holds, Truth
    <2>2. session.at # "closed" /\ (current # NoState => Holds)
      BY Zenon, WireFacts DEF BrowserTrue
    <2>3. current' # NoState =>
            IF down' = <<>> THEN current'.seq <= session'.last ELSE current'.seq <= down'[1].seq
      BY Zenon, StillBehind
    <2> QED BY Zenon, <1>1, <2>1, <2>2, <2>3 DEF BrowserTrue
  <1> QED BY Zenon, <1>2, <1>3, Popped, PublisherSame DEF StreamInv

\* A frame taken over: the browser is ready where the next frame finds it.
LEMMA TakenKeeps ==
    ASSUME StreamInv, down # <<>>, down' = Tail(down), session' = session, UNCHANGED publisher,
           phase # "disconnected", NEW v \in Projections, v = Truth(down[1].seq),
           current' = [seq |-> down[1].seq, view |-> v], phase' = "ready", requested' = FALSE
    PROVE  StreamInv'
  <1>1. PICK n : n = down[1].seq
    BY Zenon
  <1>2. n \in 0..seq
    BY SMT, <1>1, Popped, PublisherSame DEF FrameTrue
  <1>3. current'.seq = n /\ current'.view = v /\ current' \in [seq : Nat, view : Projections \cup {<<>>}]
    BY SMT, <1>1, Popped
  <1>4. current' # NoState
    <2>1. n # MaxSeq + 1
      BY SMT, <1>2, PublisherSame
    <2> QED BY SMT, <1>3, <2>1 DEF NoState
  <1>5. WireTyped'
    <2>1. phase' \in Phases /\ requested' \in BOOLEAN
      BY Zenon DEF Phases
    <2> QED BY Zenon, <1>3, <2>1, Popped, WireFacts DEF WireTyped
  <1>6. Holds'
    <2>1. v = Truth(n)'
      BY Zenon, <1>1, PublisherSame
    <2>2. Truth(current.seq)' = Truth(n)'
      BY Zenon, <1>3 DEF Truth
    <2>3. current'.seq \in 0..seq'
      BY Zenon, <1>2, <1>3, PublisherSame
    <2> QED BY Zenon, <1>3, <2>1, <2>2, <2>3 DEF Holds
  <1>7. IF down' = <<>> THEN session'.last = n ELSE Follows(n, down'[1])
    BY Zenon, <1>1, Popped
  <1>8. IF down' = <<>> THEN current'.seq <= session'.last ELSE current'.seq <= down'[1].seq
    <2>1. down' # <<>> => down'[1].seq \in Nat
      BY Zenon, Popped
    <2> QED BY SMT, <1>2, <1>3, <1>7, <2>1 DEF Follows
  <1>9. BrowserTrue'
    <2>1. session.at # "closed"
      BY Zenon, WireFacts DEF BrowserTrue
    <2> QED BY Zenon, <1>3, <1>4, <1>6, <1>7, <1>8, <2>1 DEF BrowserTrue
  <1> QED BY Zenon, <1>5, <1>9, Popped, PublisherSame DEF StreamInv

LEMMA SnapshotKeeps == ASSUME StreamInv, ReceiveSnapshot PROVE StreamInv'
  <1>1. /\ phase # "disconnected" /\ down # <<>> /\ Head(down).kind = "snapshot" /\ down' = Tail(down)
        /\ session' = session /\ UNCHANGED publisher
    BY Zenon DEF ReceiveSnapshot
  <1>2. Head(down) = down[1] /\ down[1].seq \in Nat /\ FrameTrue(down[1])
    BY Zenon, <1>1, Popped
  <1>3. ~(current # NoState /\ Head(down).seq < current.seq)
    <2>1. current # NoState => current.seq <= down[1].seq
      BY Zenon, <1>1, WireFacts DEF BrowserTrue
    <2>2. current.seq \in Nat
      BY SMT, WireFacts
    <2>3. current # NoState => ~(down[1].seq < current.seq)
      BY SMT, <1>2, <2>1, <2>2
    <2> QED BY Zenon, <1>2, <2>3
  <1>4. current' = [seq |-> down[1].seq, view |-> down[1].body] /\ phase' = "ready" /\ requested' = FALSE
    BY Zenon, <1>2, <1>3 DEF ReceiveSnapshot
  <1>5. down[1].seq \in 0..seq /\ down[1].body = Truth(down[1].seq)
    <2>1. down[1].kind # "event"
      BY <1>1, <1>2
    <2> QED BY Zenon, <1>2, <2>1 DEF FrameTrue
  <1>6. down[1].body \in Projections
    BY Zenon, <1>5, TruthTyped
  <1> QED BY Zenon, <1>1, <1>4, <1>5, <1>6, TakenKeeps

LEMMA EventKeeps == ASSUME StreamInv, ReceiveEvent PROVE StreamInv'
  <1>1. /\ phase # "disconnected" /\ down # <<>> /\ Head(down).kind = "event" /\ down' = Tail(down)
        /\ session' = session /\ UNCHANGED publisher
    BY Zenon DEF ReceiveEvent
  <1>2. Head(down) = down[1] /\ down[1].seq \in Nat /\ FrameTrue(down[1])
    BY Zenon, <1>1, Popped
  <1>3. CASE phase = "ready" /\ Head(down).seq = current.seq + 1
    <2>1. /\ current' = [seq |-> down[1].seq, view |-> applyStateEvent(current.view, down[1].body)]
          /\ phase' = "ready" /\ requested' = requested
      BY Zenon, <1>2, <1>3 DEF ReceiveEvent
    <2>2. ~requested /\ current # NoState /\ Holds
      BY Zenon, <1>3, WireFacts DEF BrowserTrue
    <2>3. requested' = FALSE
      BY Zenon, <2>1, <2>2, WireFacts
    <2>4. down[1].seq \in 1..seq /\ down[1].body = log[down[1].seq]
      BY Zenon, <1>1, <1>2 DEF FrameTrue
    <2>5. down[1].seq - 1 = current.seq
      <3>1. current.seq \in Nat
        BY SMT, WireFacts
      <3> QED BY SMT, <1>2, <1>3, <3>1
    <2>6. current.view = Truth(down[1].seq - 1)
      BY Zenon, <2>2, <2>5 DEF Holds
    <2>7. Truth(down[1].seq) = applyStateEvent(Truth(down[1].seq - 1), log[down[1].seq])
      BY Zenon, <2>4 DEF StreamInv, Announced
    <2>8. applyStateEvent(current.view, down[1].body) = Truth(down[1].seq)
      BY Zenon, <2>4, <2>6, <2>7
    <2>9. Truth(down[1].seq) \in Projections
      <3>1. down[1].seq \in 0..seq
        BY SMT, <2>4, ShownTyped
      <3> QED BY Zenon, <3>1, TruthTyped
    <2> QED BY Zenon, <1>1, <2>1, <2>3, <2>8, <2>9, TakenKeeps
  <1>4. CASE ~(phase = "ready" /\ Head(down).seq = current.seq + 1)
    <2>1. requestSnapshot /\ current' = current
      BY Zenon, <1>4 DEF ReceiveEvent
    <2> QED BY Zenon, <1>1, <2>1, DroppedKeeps
  <1> QED BY Zenon, <1>3, <1>4

LEMMA BadKeeps == ASSUME StreamInv, ReceiveBad PROVE StreamInv'
  <1>1. /\ phase # "disconnected" /\ down # <<>> /\ down' = Tail(down) /\ session' = session
        /\ UNCHANGED publisher /\ current' = current /\ requestSnapshot
    BY Zenon DEF ReceiveBad
  <1> QED BY Zenon, <1>1, DroppedKeeps

LEMMA OpenKeeps == ASSUME StreamInv, Open PROVE StreamInv'
  <1>1. /\ session.at = "closed" /\ UNCHANGED publisher /\ down' = down
        /\ session' = Session("upgrade", seq + 1, 0, <<>>)
        /\ current' = NoState /\ phase' = "connecting" /\ requested' = FALSE
    BY Zenon DEF Open
  <1>2. down = <<>>
    BY Zenon, <1>1, WireFacts DEF BrowserTrue
  <1>3. session' \in Sessions /\ session'.at = "upgrade" /\ session'.cursor = seq + 1 /\ session'.last = 0
    <2>1. seq + 1 \in Nat
      BY SMT, <1>1, PublisherSame
    <2>2. <<>> \in Frames \cup {<<>>} /\ 0 \in Nat
      BY SMT
    <2>3. LET t == Session("upgrade", seq + 1, 0, <<>>)
          IN t \in Sessions /\ t.at = "upgrade" /\ t.cursor = seq + 1 /\ t.last = 0 /\ t.frame = <<>>
      BY SMT, <2>1, <2>2 DEF Sessions, Session
    <2> QED BY Zenon, <1>1, <2>3
  <1>4. WireTyped'
    <2>1. current' \in [seq : Nat, view : Projections \cup {<<>>}]
      BY SMT, <1>1, PublisherSame DEF NoState
    <2>2. phase' \in Phases /\ requested' \in BOOLEAN
      BY Zenon, <1>1 DEF Phases
    <2> QED BY Zenon, <1>1, <1>3, <2>1, <2>2, WireFacts DEF WireTyped
  <1>5. FramesTrue' /\ InOrder'
    <2>1. Len(down') = 0 /\ down' = <<>> /\ 1..0 = {} /\ 1..(0 - 1) = {}
      BY SMT, <1>1, <1>2
    <2> QED BY Zenon, <1>3, <2>1 DEF FramesTrue, InOrder
  <1>6. CursorNear'
    BY SMT, <1>1, <1>3, PublisherSame DEF CursorNear
  <1>7. BrowserTrue'
    BY SMT, <1>1, <1>2, <1>3 DEF BrowserTrue
  <1> QED BY Zenon, <1>1, <1>4, <1>5, <1>6, <1>7, PublisherSame DEF StreamInv

LEMMA DisconnectKeeps == ASSUME StreamInv, Disconnect PROVE StreamInv'
  <1>1. /\ UNCHANGED publisher /\ session' = Closed /\ down' = <<>> /\ phase' = "disconnected"
        /\ current' = current /\ requested' = requested
    BY Zenon DEF Disconnect
  <1>2. session' \in Sessions /\ session'.at = "closed" /\ session'.last = 0
    <2>2. <<>> \in Frames \cup {<<>>} /\ 0 \in Nat
      BY SMT
    <2>3. LET t == Session("closed", 0, 0, <<>>)
          IN t \in Sessions /\ t.at = "closed" /\ t.cursor = 0 /\ t.last = 0 /\ t.frame = <<>>
      BY SMT, <2>2 DEF Sessions, Session
    <2> QED BY Zenon, <1>1, <2>3 DEF Closed
  <1>3. WireTyped'
    <2>1. down' \in Seq(Frames) /\ phase' \in Phases
      BY SMT, <1>1 DEF Phases
    <2> QED BY Zenon, <1>1, <1>2, <2>1, WireFacts DEF WireTyped
  <1>4. FramesTrue' /\ InOrder'
    <2>1. Len(down') = 0 /\ down' = <<>> /\ 1..0 = {} /\ 1..(0 - 1) = {}
      BY SMT, <1>1
    <2> QED BY Zenon, <1>2, <2>1 DEF FramesTrue, InOrder
  <1>5. CursorNear'
    BY SMT, <1>1, <1>2, PublisherSame DEF CursorNear
  <1>6. BrowserTrue'
    <2>1. Holds' <=> Holds
      <3>1. seq' = seq /\ truth' = truth
        BY Zenon, <1>1 DEF publisher, seq
      <3> QED BY Zenon, <1>1, <3>1 DEF Holds, Truth
    <2>2. current # NoState => Holds
      BY Zenon, WireFacts DEF BrowserTrue
    <2> QED BY Zenon, <1>1, <1>2, <2>1, <2>2 DEF BrowserTrue
  <1> QED BY Zenon, <1>1, <1>3, <1>4, <1>5, <1>6, PublisherSame DEF StreamInv

LEMMA StreamStep == StreamInv /\ [StreamNext]_streamVars => StreamInv'
  <1> SUFFICES ASSUME StreamInv, [StreamNext]_streamVars PROVE StreamInv'
    OBVIOUS
  <1>1. CASE \E rows \in [Keys -> Rows \cup {Gone}] : update_host_projection(rows)
    BY Zenon, <1>1, RowsKeep
  <1>2. CASE \E c \in Commands : publish_command_receipt(c)
    BY Zenon, <1>2, ReceiptKeeps
  <1>3. CASE ObserveStopped \/ \E i \in Items : ObserveDelta(i)
    BY Zenon, <1>3, StoppedKeeps, DeltaKeeps
  <1>4. CASE ServerStep
    BY Zenon, <1>4, SendFirstKeeps, AnswerKeeps, LaggedKeeps, ForwardKeeps, SentKeeps DEF ServerStep
  <1>5. CASE ClientStep
    BY Zenon, <1>5, SnapshotKeeps, EventKeeps DEF ClientStep
  <1>6. CASE ReceiveBad \/ Open \/ Disconnect
    BY Zenon, <1>6, BadKeeps, OpenKeeps, DisconnectKeeps
  <1>7. CASE UNCHANGED streamVars
    <2>1. UNCHANGED publisher /\ UNCHANGED <<publisher, client>> /\ session' = session /\ down' = down
          /\ current' = current /\ phase' = phase /\ requested' = requested
      BY Zenon, <1>7 DEF streamVars, transport, client
    <2>2. WireTyped' /\ InOrder'
      BY Zenon, <2>1, WireFacts DEF WireTyped, InOrder
    <2>3. CursorNear'
      BY Zenon, <2>1, PublisherSame, WireFacts DEF CursorNear
    <2>4. FramesTrue'
      <3>1. log' = log /\ truth' = truth /\ seq' = seq
        BY Zenon, <2>1 DEF publisher, seq
      <3> QED BY Zenon, <2>1, <3>1, WireFacts DEF FramesTrue, FrameTrue, Truth
    <2>5. BrowserTrue'
      BY Zenon, <2>1, BrowserSame
    <2> QED BY Zenon, <2>1, <2>2, <2>3, <2>4, <2>5, PublisherSame DEF StreamInv
  <1> QED BY Zenon, <1>1, <1>2, <1>3, <1>4, <1>5, <1>6, <1>7 DEF StreamNext

\* The inductive invariant holds: every frame under way and what the browser shows
\* are what the server had published at that sequence, and frames come in order.
THEOREM StreamInvariant == StreamSpec => []StreamInv
  BY StreamStart, StreamStep, PTL DEF StreamSpec

\* The browser shows exactly what the server's snapshot was at its sequence,
\* however publications, lag, refused frames and reconnections interleave, for
\* every limit, buffer and set of keys; a ready browser finds the next event.
THEOREM ViewsMatch == StreamSpec => []ViewMatches
  <1>1. StreamInv => ViewMatches
    <2> SUFFICES ASSUME StreamInv, current # NoState
                 PROVE  /\ current.view = Truth(current.seq)
                        /\ down # <<>> => IF Head(down).kind = "event"
                                          THEN phase = "ready" => Head(down).seq = current.seq + 1
                                          ELSE Head(down).seq >= current.seq
      BY Zenon DEF ViewMatches
    <2>1. current.view = Truth(current.seq)
      BY Zenon, WireFacts DEF BrowserTrue, Holds
    <2>2. CASE down # <<>>
      <3>1. phase # "disconnected"
        BY Zenon, <2>2, WireFacts DEF BrowserTrue
      <3>2. current.seq <= down[1].seq /\ (phase = "ready" => Follows(current.seq, down[1]))
        BY Zenon, <2>2, <3>1, WireFacts DEF BrowserTrue
      <3>3. Head(down) = down[1] /\ down[1].seq \in Nat /\ current.seq \in Nat
        BY SMT, <2>2, WireFacts
      <3> QED BY SMT, <2>1, <3>2, <3>3 DEF Follows
    <2> QED BY Zenon, <2>1, <2>2
  <1> QED BY <1>1, StreamInvariant, PTL
=============================================================================
