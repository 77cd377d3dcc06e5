---------------------------- MODULE Reservation ----------------------------
(***************************************************************************)
(* How AtomicDict hands out the entries of its pages (pages.c and the      *)
(* reservation buffers of accessor_storage.c).                             *)
(*                                                                         *)
(* An entry is named by its location.  Threads reserve a whole block of    *)
(* BufferSize entries by raising the flag of the block's first entry, keep *)
(* the block in their reservation buffer and pop entries from it.  When    *)
(* the inserting page is full they race to allocate the next one, and when *)
(* there is no next one the table grows (module Resize).                   *)
(***************************************************************************)
EXTENDS Integers, FiniteSets, FiniteSetsExt

CONSTANTS
  Threads,
  EntriesInPage,  \* ATOMIC_DICT_ENTRIES_IN_PAGE
  BufferSize,     \* reservation_buffer_size, divides EntriesInPage
  InitialLens,    \* the possible sizes of the dict given to __init__
  MaxPages        \* bound on the growth of the table, in pages

ASSUME ReservationAssumption ==
  /\ EntriesInPage \in Nat \ {0, 1}
  /\ BufferSize \in Nat \ {0}
  /\ EntriesInPage % BufferSize = 0
  /\ InitialLens \subseteq Nat
  /\ MaxPages \in Nat \ {0}

VARIABLES
  flags,       \* locations whose flag says RESERVED
  filled,      \* locations whose key, hash and value have been written
  pages,       \* page number -> "uninit" memory, "null", or a "page"
  page_count,  \* how many pages the table may have, SIZE_OF(meta) / EntriesInPage
  gap,         \* greatest_allocated_page
  buffer,      \* thread -> its reservation buffer
  pc,          \* thread -> what it does next
  page,        \* thread -> the page it looks for a block in, then its new page
  start,       \* thread -> the block its hash makes it try first
  offset,      \* thread -> how far from there it has got
  location     \* thread -> the entry it popped, or 0

vars == <<flags, filled, pages, page_count, gap, buffer, pc, page, start, offset,
          location>>

PageOf(e) == e \div EntriesInPage
Pages == 0..(MaxPages - 1)
Locations == 0..(MaxPages * EntriesInPage - 1)
Blocks == {e \in 0..(EntriesInPage - 1) : e % BufferSize = 0}   \* within a page

\* The entries a buffer can still give.
Remaining(rb) == (rb.start + rb.used)..(rb.start + rb.size - 1)
NoBuffer == [start |-> 0, size |-> 0, used |-> 0]
\* Mutant: a buffer reaches into the next block.
LongBuffer(e, n) == [start |-> e, size |-> n + 1, used |-> 0]

FullBuffer(e, n) == [start |-> e, size |-> n, used |-> 0]
-----------------------------------------------------------------------------
\* AtomicDict_init: pages for twice the initial entries, one entry more when
\* that fills them exactly, because entry 0 stays empty.
InitPages(len) ==
  LET size == IF (2 * len) % EntriesInPage = 0 THEN 2 * len + 1 ELSE 2 * len
  IN (size + EntriesInPage - 1) \div EntriesInPage

InitPageCount(len) == Min({2 ^ k : k \in {j \in 0..len : 2 ^ j >= InitPages(len)}})

\* The new table has room for its pages, and the bound for the new table.
ASSUME InitialLensFit ==
  \A len \in InitialLens : InitPageCount(len) \in InitPages(len)..MaxPages

\* Mutant: the initialising thread's buffer starts one entry too early.
EarlyInitBuffer(len) ==
  IF len = 0 THEN FullBuffer(0, BufferSize)
  ELSE FullBuffer(len, BufferSize - (len % BufferSize))

\* AtomicDict_init: the rest of the last block goes to the initialising thread.
InitBuffer(len) ==
  IF len = 0 THEN FullBuffer(1, BufferSize - 1)
  ELSE FullBuffer(len + 1,
                  Min({BufferSize - ((len + 1) % BufferSize),
                       InitPages(len) * EntriesInPage - 1 - len}))

Init ==
  \E len \in InitialLens, creator \in Threads :
    /\ flags = 0..len
    /\ filled = 1..len
    /\ page_count = InitPageCount(len)
    /\ gap = InitPages(len) - 1
    /\ pages = [i \in Pages |-> IF i < InitPages(len) THEN "page"
                                ELSE IF i = InitPages(len) /\ i < InitPageCount(len)
                                THEN "null" ELSE "uninit"]
    /\ buffer = [t \in Threads |-> IF t = creator THEN InitBuffer(len) ELSE NoBuffer]
    /\ pc = [t \in Threads |-> "idle"]
    /\ page = [t \in Threads |-> 0]
    /\ start = [t \in Threads |-> 0]
    /\ offset = [t \in Threads |-> 0]
    /\ location = [t \in Threads |-> 0]

Goto(t, label) == pc' = [pc EXCEPT ![t] = label]

\* reservation_buffer_pop from the non-empty buffer rb.
Pop(t, rb) ==
  /\ location' = [location EXCEPT ![t] = rb.start + rb.used]
  /\ buffer' = [buffer EXCEPT ![t] = [rb EXCEPT !.used = @ + 1]]
  /\ Goto(t, "fill")

\* get_empty_entry: the buffer has an entry left.
PopEntry(t) ==
  /\ pc[t] = "idle"
  /\ buffer[t].used # buffer[t].size
  /\ Pop(t, buffer[t])
  /\ UNCHANGED <<flags, filled, pages, page_count, gap, page, start, offset>>

\* reserve_entry: choose the inserting page; the hash chooses the first block.
BeginReserve(t, block) ==
  /\ pc[t] = "idle"
  /\ buffer[t].used = buffer[t].size
  /\ page' = [page EXCEPT ![t] = gap]
  /\ start' = [start EXCEPT ![t] = block]
  /\ offset' = [offset EXCEPT ![t] = 0]
  /\ Goto(t, "reserve")
  /\ UNCHANGED <<flags, filled, pages, page_count, gap, buffer, location>>

\* reserve_entry_in_inserting_page: try to raise one block's flag.
TryBlock(t) ==
  /\ pc[t] = "reserve"
  /\ offset[t] < EntriesInPage
  /\ LET e == page[t] * EntriesInPage + ((start[t] + offset[t]) % EntriesInPage) IN
     \/ /\ e \notin flags
        /\ flags' = flags \cup {e}
        /\ Pop(t, FullBuffer(e, BufferSize))
        /\ UNCHANGED offset
     \/ /\ e \in flags
        /\ offset' = [offset EXCEPT ![t] = @ + BufferSize]
        /\ UNCHANGED <<flags, buffer, location, pc>>
  /\ UNCHANGED <<filled, pages, page_count, gap, page, start>>

\* Mutant: greatest_allocated_page is not read again.
NeverFollows(t) ==
  /\ pc[t] = "reserve"
  /\ offset[t] >= EntriesInPage
  /\ Goto(t, IF page[t] + 1 >= page_count THEN "grow" ELSE "alloc")
  /\ UNCHANGED <<flags, filled, pages, page_count, gap, buffer, page, start, offset, location>>

\* reserve_entry: the page is full.  Follow greatest_allocated_page if another
\* thread moved it, else allocate the next page or tell the caller to grow.
PageIsFull(t) ==
  /\ pc[t] = "reserve"
  /\ offset[t] >= EntriesInPage
  /\ \/ /\ gap # page[t]
        /\ page' = [page EXCEPT ![t] = gap]
        /\ offset' = [offset EXCEPT ![t] = 0]
        /\ UNCHANGED pc
     \/ /\ gap = page[t]
        /\ Goto(t, IF gap + 1 >= page_count THEN "grow" ELSE "alloc")
        /\ UNCHANGED <<page, offset>>
  /\ UNCHANGED <<flags, filled, pages, page_count, gap, buffer, start, location>>

\* reserve_entry: install a new page whose first flag is already raised, unless
\* another thread has, or there is no memory for it.
AllocPage(t) ==
  /\ pc[t] = "alloc"
  /\ LET new == page[t] + 1 IN
     \/ /\ pages[new] = "null"
        /\ pages' = [pages EXCEPT ![new] = "page"]
        /\ flags' = flags \cup {new * EntriesInPage}
        /\ page' = [page EXCEPT ![t] = new]
        /\ Goto(t, "next_page")
        /\ UNCHANGED offset
     \/ /\ pages[new] # "null"
        /\ offset' = [offset EXCEPT ![t] = 0]
        /\ Goto(t, "reserve")
        /\ UNCHANGED <<pages, flags, page>>
     \/ /\ Goto(t, "idle")
        /\ UNCHANGED <<pages, flags, page, offset>>
  /\ UNCHANGED <<filled, page_count, gap, buffer, start, location>>

\* Mutant: the pointer that is set to NULL is the new page's own.
ForgetsNewPage(t) ==
  /\ pc[t] = "next_page"
  /\ pages' = [pages EXCEPT ![page[t]] = "null"]
  /\ Goto(t, "announce")
  /\ UNCHANGED <<flags, filled, page_count, gap, buffer, page, start, offset, location>>

\* handle_page_allocated: initialise the next pointer, then announce the page.
InitNextPage(t) ==
  /\ pc[t] = "next_page"
  /\ pages' = IF page[t] + 1 < page_count
              THEN [pages EXCEPT ![page[t] + 1] = "null"] ELSE pages
  /\ Goto(t, "announce")
  /\ UNCHANGED <<flags, filled, page_count, gap, buffer, page, start, offset, location>>

AnnouncePage(t) ==
  /\ pc[t] = "announce"
  /\ gap' = IF gap = page[t] - 1 THEN page[t] ELSE gap
  /\ Pop(t, FullBuffer(page[t] * EntriesInPage, BufferSize))
  /\ UNCHANGED <<flags, filled, pages, page_count, page, start, offset>>

\* AtomicDict_CompareAndSet: write the entry, then publish it or, if the call
\* turned out to be an update or to fail, clear it and put it back.
FillEntry(t) ==
  /\ pc[t] = "fill"
  /\ filled' = filled \cup {location[t]}
  /\ Goto(t, "insert")
  /\ UNCHANGED <<flags, pages, page_count, gap, buffer, page, start, offset, location>>

Publish(t) ==
  /\ pc[t] = "insert"
  /\ location' = [location EXCEPT ![t] = 0]
  /\ Goto(t, "idle")
  /\ UNCHANGED <<flags, filled, pages, page_count, gap, buffer, page, start, offset>>

PutBack(t) ==
  /\ pc[t] = "insert"
  /\ filled' = filled \ {location[t]}
  /\ buffer' = [buffer EXCEPT ![t].used = @ - 1]
  /\ location' = [location EXCEPT ![t] = 0]
  /\ Goto(t, "idle")
  /\ UNCHANGED <<flags, pages, page_count, gap, page, start, offset>>

\* leader_resize, meta_copy_pages: with every other thread out of its critical
\* section, a table of twice the size takes over the pages.
Grow(t) ==
  /\ pc[t] = "grow"
  /\ \A u \in Threads : pc[u] \in {"idle", "grow"}
  /\ 2 * page_count <= MaxPages
  /\ page_count' = 2 * page_count
  /\ pages' = [i \in Pages |-> IF i <= gap THEN pages[i]
                               ELSE IF i = gap + 1 THEN "null" ELSE "uninit"]
  /\ Goto(t, "idle")
  /\ UNCHANGED <<flags, filled, gap, buffer, page, start, offset, location>>

\* leader_resize fails: the call ends with an error.
GrowFailed(t) ==
  /\ pc[t] = "grow"
  /\ Goto(t, "idle")
  /\ UNCHANGED <<flags, filled, pages, page_count, gap, buffer, page, start, offset,
                 location>>

Step(t) ==
  \/ TryBlock(t) \/ PageIsFull(t) \/ AllocPage(t) \/ InitNextPage(t)
  \/ AnnouncePage(t) \/ FillEntry(t) \/ Publish(t) \/ PutBack(t)

Next ==
  \E t \in Threads :
    \/ PopEntry(t)
    \/ \E block \in Blocks : BeginReserve(t, block)
    \/ Step(t) \/ Grow(t) \/ GrowFailed(t)

\* A thread inside get_empty_entry or insert keeps being scheduled; nobody is
\* obliged to start a call or to grow the table.
Spec == Init /\ [][Next]_vars /\ \A t \in Threads : WF_vars(Step(t))
-----------------------------------------------------------------------------
\* The variables keep their types.
TypeOK ==
  /\ flags \subseteq Locations /\ filled \subseteq Locations
  /\ pages \in [Pages -> {"uninit", "null", "page"}]
  /\ page_count \in 1..MaxPages /\ gap \in Pages
  /\ buffer \in [Threads -> [start : Locations, size : 0..BufferSize, used : 0..BufferSize]]
  /\ pc \in [Threads -> {"idle", "reserve", "alloc", "next_page", "announce", "fill",
                         "insert", "grow"}]
  /\ page \in [Threads -> Pages]
  /\ start \in [Threads -> Blocks]
  /\ offset \in [Threads -> 0..EntriesInPage]
  /\ location \in [Threads -> Locations]

\* The assertions at the end of get_empty_entry: the entry is blank, it is not
\* entry 0 and its page is allocated.
EmptyEntryIsBlank ==
  \A t \in Threads : pc[t] = "fill" =>
    /\ location[t] \notin filled
    /\ location[t] > 0
    /\ PageOf(location[t]) <= gap

\* An entry that can still be handed out by one thread's buffer is in no other
\* buffer, is held by no other thread and has never been published: whole blocks
\* change hands with a single flag, the one of their first entry.
ReservedOnce ==
  /\ TypeOK
  /\ \A t, u \in Threads :
       /\ t # u => Remaining(buffer[t]) \cap Remaining(buffer[u]) = {}
       /\ Remaining(buffer[t]) \cap filled = {}
       /\ location[u] \notin Remaining(buffer[t])
       /\ t # u /\ location[t] # 0 => location[t] # location[u]

\* No entry that a buffer gives, and no page that a thread scans, lies beyond the
\* pages the table has allocated, and the next page pointer that reserve_entry
\* compares with NULL has been initialised.
PagesAreAllocated ==
  /\ \A i \in 0..gap : pages[i] = "page"
  /\ \A t \in Threads :
       /\ \A e \in Remaining(buffer[t]) : pages[PageOf(e)] = "page"
       /\ pc[t] = "reserve" => page[t] <= gap
       /\ pc[t] = "alloc" => pages[page[t] + 1] # "uninit"

\* get_empty_entry ends, although threads that find the page full spin until the
\* page another one is allocating has been announced.
ReservationEnds ==
  \A t \in Threads : pc[t] = "reserve" ~> pc[t] \in {"fill", "grow", "idle"}
=============================================================================
