---------------------------- MODULE HistoryPages ----------------------------
(***************************************************************************)
(* The retained items of one request, read page by page: history_page of   *)
(* store/history.rs, what web/src/history-client.ts demands of a page, and *)
(* the inspection window that follows its cursors (web/src/NodeWindow.tsx).*)
(*                                                                         *)
(* An item is what it weighs: the bytes it is retained with, and those of  *)
(* the model item that is shown beside it.  Positions count from 0.        *)
(***************************************************************************)
EXTENDS Naturals, Sequences, FiniteSets, FiniteSetsExt

CONSTANTS Histories,   \* the item sequences a request may come to retain
          PageItems,   \* items of a page (50)
          ItemBudget,  \* ITEM_BUDGET: retained bytes of a page
          WireBytes    \* MAX_HISTORY_BYTES: the encoded page

ASSUME HistoryAssumption ==
  /\ Histories \subseteq Seq([bytes : Nat, model : Nat])
  /\ PageItems \in Nat \ {0} /\ ItemBudget \in Nat /\ WireBytes \in Nat /\ WireBytes >= ItemBudget

VARIABLES items,     \* what the request retains in the end
          retained,  \* how many of them it retains by now
          wanted,    \* the offset to read, and those of the pages behind it
          reading,   \* a read of it is in flight
          loaded,    \* the page shown, the offsets it was read with, and how many
                     \* items the request retained then
          seenItems,     \* history: positions whose item or notice was shown
          readFailed     \* the last read ended in an error

historyVars == <<items, retained, wanted, reading, loaded, seenItems, readFailed>>

\* A page names its next offset and the item too large for it as sets of at
\* most one position.
NoPage == [ok |-> TRUE, items |-> {}, next |-> {}, oversized |-> {}]
InvalidPage == [NoPage EXCEPT !.ok = FALSE]

HistoryInit ==
  /\ items \in Histories /\ retained \in 0..Len(items)
  /\ wanted = <<0>> /\ reading = TRUE
  /\ loaded = [page |-> NoPage, offsets |-> <<>>, of |-> 0]
  /\ seenItems = {} /\ readFailed = FALSE

Item(position) == items[position + 1]
StoredBytes(S) == MapThenSumSet(LAMBDA p : Item(p).bytes, S)

\* The model item of a larger notice is left out.
NoticeBytes(position) == IF Item(position).model > ItemBudget THEN 0 ELSE Item(position).model
Wire(S) == MapThenSumSet(LAMBDA p : Item(p).bytes + Item(p).model, S)

UpTo(S, p) == {q \in S : q <= p}
Encodable(S) == {p \in S : \A r \in UpTo(S, p) : Wire(UpTo(S, r)) <= WireBytes}

\* As HistoryTrim, but the next page begins behind the item that was left out.
HistoryTrimPast(page) ==
  LET kept == Encodable(page.items)
  IN  IF page.oversized # {} \/ kept = page.items THEN page
      ELSE IF kept = {} THEN InvalidPage
      ELSE [page EXCEPT !.items = kept, !.next = {Min(page.items \ kept) + 1}]

\* The final loop: items whose encoding does not fit are left to the next page.
HistoryTrim(page) ==
  LET kept == Encodable(page.items)
  IN  IF page.oversized # {} \/ kept = page.items THEN page
      ELSE IF kept = {} THEN InvalidPage
      ELSE [page EXCEPT !.items = kept, !.next = {Min(page.items \ kept)}]

\* Items in order while they fit the budget.  One larger than the whole budget
\* is named by its position, on a page with room for its notice.
Noticed(taken, position) ==
  IF Item(position).bytes > ItemBudget /\ Wire(taken) + NoticeBytes(position) <= WireBytes
  THEN {position} ELSE {}

history_page(offset) ==
  LET rest == {p \in 0..(retained - 1) : p >= offset}
      window == {p \in rest : p < offset + PageItems}
      taken == {p \in window :
                  \A r \in UpTo(window, p) : StoredBytes(UpTo(window, r)) <= ItemBudget}
      left == rest \ taken
  IN  HistoryTrim([NoPage EXCEPT
                     !.items = taken,
                     !.next = IF left = {} THEN {} ELSE {Min(left)},
                     !.oversized = IF taken = window THEN {} ELSE Noticed(taken, Min(left))])

\* decodeHistoryPage: what the browser demands of a page read at an offset.
decodeHistoryPage(page, offset) ==
  /\ Cardinality(page.items) <= PageItems
  /\ \A p \in page.items : p >= offset
  /\ StoredBytes(page.items) <= ItemBudget
  /\ \A large \in page.oversized :
       /\ large >= offset /\ \A p \in page.items : p < large
       /\ Item(large).bytes > ItemBudget
       /\ page.next = {large}
  /\ \A next \in page.next :
       /\ next >= offset /\ \A p \in page.items : p < next
       /\ page.oversized = {} => next > offset
  /\ page.items = {} /\ page.next # {} => page.oversized # {}

-----------------------------------------------------------------------------
\* The request retains one more item.
RetainItem ==
  /\ retained < Len(items)
  /\ retained' = retained + 1
  /\ UNCHANGED <<items, wanted, reading, loaded, seenItems, readFailed>>

\* The read of the current intent ends.  A page that is refused, like a read
\* that fails, leaves the page shown before it; a read of an older intent was
\* aborted when the intent changed.
ReadHistoryPage ==
  LET page == history_page(Head(wanted)) IN
  /\ reading
  /\ reading' = FALSE
  /\ IF ~page.ok \/ ~decodeHistoryPage(page, Head(wanted))
     THEN readFailed' = TRUE /\ UNCHANGED <<loaded, seenItems>>
     ELSE /\ readFailed' = FALSE
          /\ loaded' = [page |-> page, offsets |-> wanted, of |-> retained]
          /\ seenItems' = seenItems \cup page.items \cup page.oversized
  /\ UNCHANGED <<items, retained, wanted>>

ReadFails ==
  /\ reading
  /\ reading' = FALSE /\ readFailed' = TRUE
  /\ UNCHANGED <<items, retained, wanted, loaded, seenItems>>

Intend(offsets) ==
  /\ wanted' = offsets /\ reading' = TRUE /\ readFailed' = FALSE
  /\ UNCHANGED <<items, retained, loaded, seenItems>>

\* Next page, or skip the item that was only named.
NextPage ==
  /\ ~reading
  /\ \E next \in loaded.page.next :
       Intend(<<IF loaded.page.oversized # {} THEN next + 1 ELSE next>> \o loaded.offsets)

PreviousPage ==
  /\ ~reading /\ Len(loaded.offsets) > 1
  /\ Intend(Tail(loaded.offsets))

\* Refresh reads the visible page again, Retry the one that failed; a refresh
\* may come while a read is in flight, which is then aborted.
Refresh == loaded.offsets # <<>> /\ Intend(loaded.offsets)
Retry == ~reading /\ readFailed /\ Intend(wanted)

HistoryNext ==
  \/ RetainItem \/ ReadHistoryPage \/ ReadFails \/ NextPage \/ PreviousPage \/ Refresh \/ Retry

HistorySpec == HistoryInit /\ [][HistoryNext]_historyVars

-----------------------------------------------------------------------------
(* Properties. *)

\* Forward and back through the pages, with failed reads, refreshes and items
\* retained meanwhile, no item before the offset being read was passed over in
\* silence, and a page without a successor ends at the request's last item as
\* it was when that page was read: "It is never silently skipped".
NothingPassedOver ==
  /\ \A p \in 0..(Head(wanted) - 1) : p \in seenItems
  /\ loaded.page.next = {} => \A p \in 0..(loaded.of - 1) : p \in seenItems

=============================================================================
