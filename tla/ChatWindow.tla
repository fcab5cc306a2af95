----------------------------- MODULE ChatWindow -----------------------------
(***************************************************************************)
(* The conversation window of the web client over the publication journal: *)
(* the store's backward pages (store/chat.rs), their bounds on the wire    *)
(* (ws_protocol/contract_extensions.rs), and the hook that keeps a bounded *)
(* window of them while it polls for the newest page and reads older ones  *)
(* (web/src/useConversationHistory.ts, chat-timeline.ts).                  *)
(*                                                                         *)
(* An entry is its sequence in the publications; what it says does not     *)
(* matter, only whether it belongs to this conversation and what it weighs *)
(* at the three places its bytes are counted: as stored, with the evidence *)
(* project_provider_items and project_tools add, and as encoded for the    *)
(* browser.  The conversation's lineage grows only by publication.         *)
(***************************************************************************)
EXTENDS Integers, Sequences, FiniteSets, Extremes

CONSTANTS Journals,    \* the journals a run may publish: sequences of events
          PageEntries,       \* entries of a page (50)
          PageBytes,   \* MAX_HISTORY_BYTES
          Keep,        \* entries of the client's window (400)
          KeepBytes,   \* bytes of the client's window (2 MiB)
          MaxInterruptions  \* bound: failed reads and runs of the effect anew

\* Every entry fits a page on its own, and a page fits the window: store/chat.rs
\* replaces a larger item by a notice, and forms and outputs are refused earlier.
ASSUME WindowAssumption ==
  /\ PageEntries \in Nat \ {0} /\ Keep \in Nat /\ Keep >= PageEntries
  /\ PageBytes \in Nat /\ KeepBytes \in Nat /\ KeepBytes >= PageBytes
  /\ Journals \subseteq Seq([ours : BOOLEAN, weight : [1..3 -> 0..PageBytes]])

VARIABLES publications,       \* the events in order: whether each is ours, and its weight
          published,     \* how many of them are committed
          entries,       \* the sequences the window holds
          older,         \* cursor of "Load older messages"; 0 is none
          pinned,        \* the viewport follows the newest row
          replaceLatest, \* the next page replaces the window
          windowed,      \* the window says that messages were left out
          ready,         \* the host is connected
          poll,          \* the read of the newest page
          olderRead,     \* the read of an older page
          loadingOlder,  \* the button is disabled
          moved,         \* history: the window's first entry moved during that read
          interruptions, \* failed reads and effects so far
          torn           \* history: such a read was merged into the window

windowVars == <<publications, published, entries, older, pinned, replaceLatest, windowed, ready,
                poll, olderRead, loadingOlder, interruptions, moved, torn>>

NoPageRead == [at |-> "idle", before |-> 0, page |-> {}, previous |-> 0]
ReadSent(before) == [at |-> "sent", before |-> before, page |-> {}, previous |-> 0]

WindowInit ==
  /\ publications \in Journals /\ published = 0 /\ entries = {} /\ older = 0 /\ pinned = TRUE
  /\ replaceLatest = FALSE /\ windowed = FALSE /\ ready = TRUE
  /\ poll = ReadSent(0) /\ olderRead = NoPageRead /\ loadingOlder = FALSE
  /\ interruptions = 0 /\ moved = FALSE /\ torn = FALSE

Ours == {n \in 1..published : publications[n].ours}

\* The bytes of the entries S of a journal, as they are counted at a stage.
Bytes(journal, S, stage) ==
  LET total[n \in 0..Len(journal)] ==
        IF n = 0 THEN 0 ELSE total[n - 1] + IF n \in S THEN journal[n].weight[stage] ELSE 0
  IN  total[Len(journal)]

Fits(S, count, stage, bytes) ==
  Cardinality(S) <= count /\ Bytes(publications, S, stage) <= bytes

-----------------------------------------------------------------------------
(* The page of the store. *)

\* The newest entries of S that are at most `count` and whose bytes fit.
Fitting(S, count, stage, bytes) == {n \in S : Fits({m \in S : m >= n}, count, stage, bytes)}

\* A page from which entries were left out names its oldest entry as the cursor.
Cut(page, stage) ==
  LET kept == Fitting(page.entries, PageEntries, stage, PageBytes)
  IN  [entries |-> kept,
       previous |-> IF kept = page.entries \/ kept = {} THEN page.previous ELSE Lowest(kept)]

\* chat_page_at with Cursor::Before: candidates newest first up to the limit and
\* the byte bound, and the entries that still fit once their evidence is added.
chat_page_before(before) ==
  Cut(Cut([entries |-> {n \in Ours : before = 0 \/ n < before}, previous |-> 0], 1), 2)

bounded(page) == Cut(page, 3)

\* decodeUnifiedPage: what the client demands of a backward page.
decodeUnifiedPage(read) ==
  /\ Cardinality(read.page) <= 2 * PageEntries
  /\ \A n \in read.page : n > 0 /\ (read.before # 0 => n < read.before)
  /\ read.previous # 0 => read.page # {} /\ read.previous = Lowest(read.page)

Answered(read) ==
  LET page == bounded(chat_page_before(read.before))
  IN  [at |-> "answered", before |-> read.before, page |-> page.entries, previous |-> page.previous]

-----------------------------------------------------------------------------
(* The publications, the viewport and the connection. *)

Interrupt ==
  /\ interruptions < MaxInterruptions
  /\ interruptions' = interruptions + 1

PublishNext ==
  /\ published < Len(publications)
  /\ published' = published + 1
  /\ UNCHANGED <<publications, entries, older, pinned, replaceLatest, windowed, ready, poll,
                 olderRead, loadingOlder, moved, torn, interruptions>>

Scroll ==
  /\ pinned' = ~pinned
  /\ UNCHANGED <<publications, published, entries, older, replaceLatest, windowed, ready, poll,
                 olderRead, loadingOlder, moved, torn, interruptions>>

\* The effect runs again (a new request or revision, a refresh, a reconnection):
\* its cleanup aborts both reads, and it reads the newest page at once.
Effect ==
  /\ poll' = ReadSent(0) /\ olderRead' = NoPageRead /\ loadingOlder' = FALSE /\ moved' = FALSE
  /\ UNCHANGED <<publications, published, entries, older, windowed, torn>>
  /\ Interrupt

Restart ==
  /\ ready' = TRUE
  /\ Effect
  /\ UNCHANGED <<pinned, replaceLatest>>

returnToLatest ==
  /\ ready
  /\ replaceLatest' = TRUE /\ pinned' = TRUE
  /\ Effect
  /\ UNCHANGED ready

\* Disconnected: the cleanup aborts both reads, and an aborted older read leaves
\* the button disabled until the effect runs again.
Disconnected ==
  /\ ready
  /\ ready' = FALSE
  /\ poll' = NoPageRead /\ olderRead' = NoPageRead /\ moved' = FALSE
  /\ UNCHANGED <<publications, published, entries, older, pinned, replaceLatest, windowed, loadingOlder, torn>>
  /\ Interrupt

-----------------------------------------------------------------------------
(* The newest page. *)

PollSend ==
  /\ ready /\ poll.at = "idle"
  /\ poll' = ReadSent(0)
  /\ UNCHANGED <<publications, published, entries, older, pinned, replaceLatest, windowed, ready,
                 olderRead, loadingOlder, moved, torn, interruptions>>

PollAnswered ==
  /\ poll.at = "sent"
  /\ poll' = Answered(poll)
  /\ UNCHANGED <<publications, published, entries, older, pinned, replaceLatest, windowed, ready,
                 olderRead, loadingOlder, moved, torn, interruptions>>

PollFails ==
  /\ poll.at = "sent"
  /\ poll' = NoPageRead
  /\ UNCHANGED <<publications, published, entries, older, pinned, replaceLatest, windowed, ready,
                 olderRead, loadingOlder, moved, torn>>
  /\ Interrupt

boundLatest(S) == Fitting(S, Keep, 3, KeepBytes)
boundOldest(S) == {n \in S : Fits({m \in S : m <= n}, Keep, 3, KeepBytes)}

\* As newerWindow, but a page that does not meet the window is merged into it.
NewerWindowMissed(next) == FALSE

newerWindow(next) ==
  entries # {} /\ next # {} /\ next \cap entries = {} /\ Lowest(next) > Highest(entries)

\* A first page, or one that overlaps the window: an unpinned window keeps its
\* rows and takes no new ones, a pinned one moves on and forgets its oldest.
MergeLatest(next, previous) ==
  LET merged == entries \cup (IF ~pinned /\ entries # {} THEN next \cap entries ELSE next)
      kept == boundLatest(merged)
  IN  /\ entries' = kept
      /\ windowed' = (windowed \/ kept # merged)
      /\ older' = IF kept # merged THEN Lowest(kept)
                  ELSE IF entries = {} THEN previous ELSE older

ReplaceLatest(next, previous) ==
  /\ entries' = next /\ older' = previous /\ windowed' = FALSE

PollApplied ==
  LET next == poll.page IN
  /\ poll.at = "answered" /\ decodeUnifiedPage(poll)
  /\ poll' = NoPageRead
  /\ replaceLatest' = FALSE
  /\ \/ replaceLatest /\ ReplaceLatest(next, poll.previous)
     \/ ~replaceLatest /\ newerWindow(next) /\ ~pinned
        /\ windowed' = TRUE /\ UNCHANGED <<entries, older>>
     \/ ~replaceLatest /\ newerWindow(next) /\ pinned /\ ReplaceLatest(next, poll.previous)
     \/ ~replaceLatest /\ ~newerWindow(next) /\ MergeLatest(next, poll.previous)
  /\ moved' = (moved \/ (olderRead # NoPageRead /\ ~ (Lowest(entries) \in entries')))
  /\ torn' = (torn /\ ~ (entries' \subseteq next))
  /\ UNCHANGED <<publications, published, pinned, ready, olderRead, loadingOlder, interruptions>>

-----------------------------------------------------------------------------
(* The older pages. *)

loadOlder ==
  /\ ready /\ older # 0 /\ ~loadingOlder
  /\ olderRead' = ReadSent(older) /\ loadingOlder' = TRUE /\ moved' = FALSE
  /\ UNCHANGED <<publications, published, entries, older, pinned, replaceLatest, windowed, ready, poll, torn, interruptions>>

OlderAnswered ==
  /\ olderRead.at = "sent"
  /\ olderRead' = Answered(olderRead)
  /\ UNCHANGED <<publications, published, entries, older, pinned, replaceLatest, windowed, ready,
                 poll, loadingOlder, moved, torn, interruptions>>

OlderFails ==
  /\ olderRead.at = "sent"
  /\ olderRead' = NoPageRead /\ loadingOlder' = FALSE /\ moved' = FALSE
  /\ UNCHANGED <<publications, published, entries, older, pinned, replaceLatest, windowed, ready, poll, torn>>
  /\ Interrupt

OlderApplied ==
  LET merged == entries \cup olderRead.page
      kept == boundOldest(merged)
  IN  /\ olderRead.at = "answered" /\ decodeUnifiedPage(olderRead)
      /\ entries' = kept
      /\ windowed' = (windowed \/ kept # merged)
      /\ older' = olderRead.previous
      /\ pinned' = FALSE /\ loadingOlder' = FALSE
      /\ olderRead' = NoPageRead /\ moved' = FALSE
      /\ torn' = (torn \/ moved)
      /\ UNCHANGED <<publications, published, replaceLatest, ready, poll, interruptions>>

WindowNext ==
  \/ PublishNext \/ Scroll \/ Restart \/ returnToLatest \/ Disconnected
  \/ PollSend \/ PollAnswered \/ PollFails \/ PollApplied
  \/ loadOlder \/ OlderAnswered \/ OlderFails \/ OlderApplied

WindowSpec == WindowInit /\ [][WindowNext]_windowVars

-----------------------------------------------------------------------------
(* Properties. *)

\* No publication of the conversation is missing between two entries that the
\* window shows, through polling, older pages, eviction at both ends, scrolling
\* and reconnection; and "Load older messages" continues exactly where the window
\* ends, at its first entry, or is not offered because nothing is older.  The one
\* exception the code has is in the hypothesis: an older page that was being read
\* while the newest page moved the window's first entry is merged by its old
\* cursor, and leaves a hole.
WindowWhole ==
  entries # {} =>
    /\ ~torn => \A n \in Ours : n \in Lowest(entries)..Highest(entries) => n \in entries
    /\ IF older = 0 THEN \A n \in Ours : n >= Lowest(entries) ELSE older = Lowest(entries)

=============================================================================
