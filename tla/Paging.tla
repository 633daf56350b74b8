------------------------------- MODULE Paging -------------------------------
(***************************************************************************)
(* Reading a conversation's messages page by page, from the newest back,   *)
(* while nodes go on writing: PagedMessages of PostgresStore and           *)
(* pageMessages of MemoryStore.  PostgresStore orders messages by the      *)
(* clock of the node that wrote them, MemoryStore as they were written.    *)
(***************************************************************************)
EXTENDS Integers, Sequences, FiniteSets

CONSTANTS
  MaxWritten,  \* bound: messages of the conversation
  Times,       \* what the clocks of the nodes show
  PageSizes    \* the limits readers ask for, once out-of-range ones are 50

ASSUME WrittenAssumption == MaxWritten \in Nat
ASSUME TimesAssumption == Times \subseteq Int
ASSUME SizesAssumption == PageSizes \subseteq Nat \ {0}

NoCursor == 0

VARIABLES
  written,  \* the messages in the order they were written: time and random id
  cursor,   \* next_before of the page before: a position in written
  pages,    \* what the reader has, oldest first
  atStart,  \* the positions there when it began
  ended,    \* has_more was FALSE
  cutShort  \* history: because a read had failed

pagingVars == <<written, cursor, pages, atStart, ended, cutShort>>

Positions == DOMAIN written
Ids == 1..MaxWritten

\* (created_at, server_msg_id) < (created_at, server_msg_id)
Before(i, j) ==
  \/ written[i].at < written[j].at
  \/ written[i].at = written[j].at /\ written[i].id < written[j].id

\* ORDER BY created_at, server_msg_id
ByTime(S) ==
  CHOOSE s \in [1..Cardinality(S) -> S] :
    \A i, j \in DOMAIN s : i < j => Before(s[i], s[j])

Page(list, more) ==
  [list |-> list, more |-> more, next |-> IF more /\ list # << >> THEN list[1] ELSE NoCursor]

\* PostgresStore: limit + 1 messages below the cursor, the oldest only to see
\* whether there are more.  A cursor that is not found compares as NULL.
PgPage(limit, before) ==
  LET older == IF before = NoCursor THEN Positions
               ELSE {i \in Positions : before \in Positions /\ Before(i, before)}
      found == ByTime(older)
      newest == SubSeq(found, Len(found) - limit, Len(found))
  IN IF Len(found) > limit THEN Page(Tail(newest), TRUE) ELSE Page(found, FALSE)

\* Fault: the slice ends with the cursor's message.
FaultyMemoryPage(limit, before) ==
  LET end == IF before \in Positions THEN before ELSE Len(written)
      start == IF end > limit THEN end - limit ELSE 0
  IN Page([i \in 1..(end - start) |-> start + i], start > 0)

\* MemoryStore: a slice that ends at the cursor; at the end, if it is not found.
MemoryPage(limit, before) ==
  LET end == IF before \in Positions THEN before - 1 ELSE Len(written)
      start == IF end > limit THEN end - limit ELSE 0
  IN Page([i \in 1..(end - start) |-> start + i], start > 0)

-----------------------------------------------------------------------------
WriteMessage(at, id) ==
  /\ \A i \in Positions : written[i].id # id
  /\ written' = Append(written, [at |-> at, id |-> id])
  /\ UNCHANGED <<cursor, pages, atStart, ended, cutShort>>

\* Fault: the page ends with the cursor's message.
FaultyReadPage(limit) ==
  LET page == PgPage(limit, cursor)
  IN /\ ~ended
     /\ pages' = page.list \o pages
     /\ cursor' = IF page.list = << >> THEN cursor ELSE page.list[Len(page.list)]
     /\ ended' = ~page.more
     /\ atStart' = IF cursor = NoCursor THEN Positions ELSE atStart
     /\ UNCHANGED <<written, cutShort>>

ReadPage(limit) ==
  LET page == PgPage(limit, cursor)
  IN /\ ~ended
     /\ pages' = page.list \o pages
     /\ cursor' = page.next
     /\ ended' = ~page.more
     /\ atStart' = IF cursor = NoCursor THEN Positions ELSE atStart
     /\ UNCHANGED <<written, cutShort>>

\* The query fails: an empty page, which to the reader is the last one.
PageFails ==
  /\ ~ended
  /\ cursor' = NoCursor
  /\ ended' = TRUE
  /\ cutShort' = TRUE
  /\ atStart' = IF cursor = NoCursor THEN Positions ELSE atStart
  /\ UNCHANGED <<written, pages>>

PagingInit ==
  /\ written = << >>
  /\ cursor = NoCursor
  /\ pages = << >>
  /\ atStart = {}
  /\ ended = FALSE
  /\ cutShort = FALSE

PagingNext ==
  \/ \E at \in Times, id \in Ids : WriteMessage(at, id)
  \/ \E limit \in PageSizes : ReadPage(limit)
  \/ PageFails

PagingSpec == PagingInit /\ [][PagingNext]_pagingVars

-----------------------------------------------------------------------------
\* A reader gets no message twice and in the order of their times, whatever is
\* written between two pages, behind the cursor included.  What it lacks of the
\* messages there when it began is at any time older than all it has, with no gap;
\* and at the end it lacks nothing, unless a read had failed: PagedMessages reports
\* no error, and the reader cannot tell.
PagesAreComplete ==
  LET missing == atStart \ {pages[i] : i \in DOMAIN pages} IN
  /\ \A i, j \in DOMAIN pages : i < j => Before(pages[i], pages[j])
  /\ \A m \in missing, i \in DOMAIN pages : Before(m, pages[i])
  /\ ended /\ ~cutShort => missing = {}

\* As long as the clocks tell messages apart in the order of writing, both stores
\* return the same page for every cursor.
StoresAgree ==
  (\A i, j \in Positions : i < j => written[i].at < written[j].at)
    => \A limit \in PageSizes, before \in Positions \cup {NoCursor} :
         PgPage(limit, before) = MemoryPage(limit, before)

=============================================================================
