------------------------- MODULE ReservationProofs -------------------------
(***************************************************************************)
(* AtomicDict hands out every entry once, blank, and from an allocated     *)
(* page, for every number of threads, every size of pages and buffers and  *)
(* any growth of the table.                                                *)
(*                                                                         *)
(* The argument.  A buffer lies within one block of BufferSize entries, a  *)
(* block within one page, and only the thread that raised the flag of the  *)
(* block's first entry has the block.  A page is installed when no flag in *)
(* it is up, by the one thread that finds its pointer NULL, and it is      *)
(* announced by that thread, which then owns the page's first block.       *)
(*                                                                         *)
(* This needs that __init__ leaves the initialising thread in the middle   *)
(* of a block (NoLenFillsItsBlock): when the initial entries fill their    *)
(* block the code gives it the next block without raising the flag, which  *)
(* MCReservationAligned.cfg shows to break EmptyEntryIsBlank.              *)
(***************************************************************************)
EXTENDS Reservation, TLAPS

NoLenFillsItsBlock == \A len \in InitialLens : len = 0 \/ (len + 1) % BufferSize # 0

\* The number of the block of an entry, counted through all pages.
BlockOf(e) == e \div BufferSize

\* The entry whose flag stands for the block of e.
FlagOf(e) == BufferSize * BlockOf(e)

\* A thread that has installed a page and not yet announced it.
Installing(t) == pc[t] \in {"next_page", "announce"}

PageState ==
  /\ gap < page_count
  /\ \A i \in 0..gap : pages[i] = "page"
  /\ gap + 1 < page_count => pages[gap + 1] # "uninit"
  /\ \A i \in Pages : i > gap /\ pages[i] = "page" =>
       \E t \in Threads : Installing(t) /\ page[t] = i

FlagState ==
  /\ 0 \in flags
  /\ \A e \in flags : PageOf(e) > gap =>
       \E t \in Threads : Installing(t) /\ e = page[t] * EntriesInPage

ScanState ==
  \A t \in Threads :
    /\ offset[t] % BufferSize = 0
    /\ pc[t] \in {"reserve", "alloc"} => page[t] <= gap
    /\ pc[t] = "alloc" => page[t] + 1 < page_count

InstallState ==
  \A t \in Threads : Installing(t) =>
    /\ page[t] = gap + 1
    /\ page[t] < page_count
    /\ pages[page[t]] = "page"
    /\ page[t] * EntriesInPage \in flags
    /\ \A u \in Threads : Installing(u) => u = t
    /\ pc[t] = "announce" /\ page[t] + 1 < page_count => pages[page[t] + 1] = "null"

BufferState ==
  \A t \in Threads :
    /\ buffer[t].used <= buffer[t].size
    /\ buffer[t].size > 0 =>
         /\ buffer[t].start > 0
         /\ PageOf(buffer[t].start) <= gap
         /\ FlagOf(buffer[t].start) \in flags
         /\ buffer[t].start + buffer[t].size <= FlagOf(buffer[t].start) + BufferSize
         /\ \A u \in Threads \ {t} :
              buffer[u].size > 0 => BlockOf(buffer[u].start) # BlockOf(buffer[t].start)

LocationState ==
  \A t \in Threads :
    IF pc[t] \in {"fill", "insert"}
    THEN buffer[t].used > 0 /\ location[t] = buffer[t].start + buffer[t].used - 1
    ELSE location[t] = 0

FilledState ==
  \A e \in filled :
    /\ e > 0
    /\ PageOf(e) <= gap
    /\ FlagOf(e) \in flags
    /\ \A t \in Threads :
         /\ e \notin Remaining(buffer[t])
         /\ pc[t] = "fill" => e # location[t]

Inv ==
  /\ TypeOK
  /\ PageState
  /\ FlagState
  /\ ScanState
  /\ InstallState
  /\ BufferState
  /\ LocationState
  /\ FilledState
-----------------------------------------------------------------------------
\* Division by a positive number, as an equation and bounds.
LEMMA DivMod ==
  ASSUME NEW a \in Int, NEW b \in Nat \ {0}
  PROVE  /\ a \div b \in Int
         /\ a % b \in 0..(b - 1)
         /\ a = b * (a \div b) + (a % b)
  OBVIOUS

\* The quotient and the remainder are determined by these.
LEMMA DivIsUnique ==
  ASSUME NEW b \in Nat \ {0}, NEW q \in Int, NEW r \in 0..(b - 1)
  PROVE  (b * q + r) \div b = q /\ (b * q + r) % b = r
<1> DEFINE a == b * q + r
<1>1. a \in Int
  OBVIOUS
<1>2. PICK p \in Int, s \in 0..(b - 1) : p = a \div b /\ s = a % b /\ a = b * p + s
  BY <1>1, DivMod
<1>3. b * (p - q) = r - s
  BY <1>2
<1>4. r - s < b /\ s - r < b
  OBVIOUS
<1>5. ~ (p - q >= 1)
  BY <1>3, <1>4
<1>6. ~ (p - q <= -1)
  BY <1>3, <1>4
<1>7. p = q
  BY <1>5, <1>6
<1> QED
  BY <1>2, <1>3, <1>7

\* The quotient, from its bounds.
LEMMA Quotient ==
  ASSUME NEW a \in Int, NEW b \in Nat \ {0}, NEW q \in Int, b * q <= a, a < b * q + b
  PROVE  a \div b = q
<1>1. a - b * q \in 0..(b - 1)
  OBVIOUS
<1>2. (b * q + (a - b * q)) \div b = q
  BY <1>1, DivIsUnique
<1>3. b * q + (a - b * q) = a
  OBVIOUS
<1> QED
  BY <1>2, <1>3

\* A number without remainder is a multiple.
LEMMA Multiple ==
  ASSUME NEW a \in Nat, NEW b \in Nat \ {0}, a % b = 0
  PROVE  \E n \in Nat : a = b * n
<1>1. a = b * (a \div b) + 0 /\ a \div b \in Int
  BY DivMod
<1>2. a \div b >= 0
  BY <1>1
<1> QED
  BY <1>1, <1>2

\* A page consists of whole blocks.
LEMMA PageIsBlocks ==
  /\ EntriesInPage \div BufferSize \in Nat \ {0}
  /\ EntriesInPage = BufferSize * (EntriesInPage \div BufferSize)
  BY ReservationAssumption, DivMod

\* Blocks and their flags.
LEMMA BlockBounds ==
  ASSUME NEW e \in Nat
  PROVE  /\ BlockOf(e) \in Nat /\ FlagOf(e) \in Nat
         /\ FlagOf(e) <= e /\ e < FlagOf(e) + BufferSize
         /\ e % BufferSize = 0 <=> FlagOf(e) = e
  BY ReservationAssumption, DivMod DEF BlockOf, FlagOf

\* An entry between the flag of a block and the next is in the block.
LEMMA SameBlock ==
  ASSUME NEW e \in Nat, NEW f \in Nat, FlagOf(e) <= f, f < FlagOf(e) + BufferSize
  PROVE  BlockOf(f) = BlockOf(e) /\ FlagOf(f) = FlagOf(e)
<1>1. BlockOf(e) \in Int
  BY BlockBounds
<1>2. f \div BufferSize = BlockOf(e)
  BY <1>1, Quotient, ReservationAssumption DEF FlagOf
<1> QED
  BY <1>2 DEF BlockOf, FlagOf

\* Where the page of an entry begins and ends.
LEMMA PageBounds ==
  ASSUME NEW e \in Nat
  PROVE  /\ PageOf(e) \in Nat
         /\ PageOf(e) * EntriesInPage <= e
         /\ e < PageOf(e) * EntriesInPage + EntriesInPage
         /\ \A p \in Nat : e < p * EntriesInPage <=> PageOf(e) < p
  BY ReservationAssumption, DivMod DEF PageOf

\* A block lies within one page.
LEMMA PageOfBlock ==
  ASSUME NEW e \in Nat
  PROVE  PageOf(FlagOf(e)) = PageOf(e)
<1> DEFINE K == EntriesInPage \div BufferSize
           k == BlockOf(e)
           r == e % BufferSize
<1>1. K \in Nat \ {0} /\ EntriesInPage = BufferSize * K
  BY PageIsBlocks
<1>2. k \in Nat /\ r \in 0..(BufferSize - 1) /\ e = BufferSize * k + r
  <2>1. k \in Nat
    BY BlockBounds
  <2>2. r \in 0..(BufferSize - 1) /\ e = BufferSize * (e \div BufferSize) + r
    BY ReservationAssumption, DivMod
  <2> QED
    BY <2>1, <2>2 DEF BlockOf
<1>3. PICK p \in Int, s \in 0..(K - 1) : k = K * p + s
  <2> HIDE DEF K, k
  <2>0. k \in Int /\ K \in Nat \ {0}
    BY <1>1, <1>2
  <2>1. /\ k \div K \in Int /\ k % K \in 0..(K - 1)
        /\ k = K * (k \div K) + (k % K)
    BY <2>0, DivMod
  <2> QED
    BY <2>1
<1> HIDE DEF K, k, r
<1>4. /\ BufferSize * k = EntriesInPage * p + BufferSize * s
      /\ e = EntriesInPage * p + (BufferSize * s + r)
  <2>1. BufferSize * (K * p + s) = BufferSize * K * p + BufferSize * s
    BY <1>1, <1>3, ReservationAssumption
  <2> QED
    BY <2>1, <1>1, <1>2, <1>3, ReservationAssumption
<1>5. BufferSize * s + BufferSize <= BufferSize * K /\ BufferSize * s >= 0
  <2>1. BufferSize * (K - s - 1) >= 0
    BY <1>1, <1>3, ReservationAssumption
  <2> QED
    BY <2>1, <1>1, <1>3, ReservationAssumption
<1>6. /\ BufferSize * s \in 0..(EntriesInPage - 1)
      /\ BufferSize * s + r \in 0..(EntriesInPage - 1)
  BY <1>1, <1>2, <1>3, <1>5, ReservationAssumption
<1>7. PageOf(BufferSize * k) = p /\ PageOf(e) = p
  <2>1. (EntriesInPage * p + BufferSize * s) \div EntriesInPage = p
    BY <1>3, <1>6, DivIsUnique, ReservationAssumption
  <2>2. (EntriesInPage * p + (BufferSize * s + r)) \div EntriesInPage = p
    BY <1>3, <1>6, DivIsUnique, ReservationAssumption
  <2> QED
    BY <2>1, <2>2, <1>4 DEF PageOf
<1> QED
  BY <1>7 DEF FlagOf, k

\* Two entries of one block are in one page.
LEMMA SamePage ==
  ASSUME NEW e \in Nat, NEW f \in Nat, BlockOf(e) = BlockOf(f)
  PROVE  PageOf(e) = PageOf(f)
  BY PageOfBlock DEF FlagOf

\* The first entry of a page is the first of its block.
LEMMA FirstOfPage ==
  ASSUME NEW p \in Nat
  PROVE  /\ p * EntriesInPage \in Nat
         /\ PageOf(p * EntriesInPage) = p
         /\ FlagOf(p * EntriesInPage) = p * EntriesInPage
<1> DEFINE K == EntriesInPage \div BufferSize
<1>1. K \in Nat \ {0} /\ EntriesInPage = BufferSize * K
  BY PageIsBlocks
<1>2. p * EntriesInPage = EntriesInPage * p + 0 /\ p * EntriesInPage \in Nat
  BY ReservationAssumption
<1> HIDE DEF K
<1>3. p * EntriesInPage = BufferSize * (p * K) + 0 /\ p * K \in Nat
  BY <1>1, ReservationAssumption
<1>4. PageOf(p * EntriesInPage) = p
  BY <1>2, DivIsUnique, ReservationAssumption DEF PageOf
<1>5. BlockOf(p * EntriesInPage) = p * K
  BY <1>3, DivIsUnique, ReservationAssumption DEF BlockOf
<1>6. FlagOf(p * EntriesInPage) = p * EntriesInPage
  <2>1. BufferSize * (p * K) \in Nat
    BY <1>3, ReservationAssumption
  <2> QED
    BY <2>1, <1>3, <1>5 DEF FlagOf
<1> QED
  BY <1>2, <1>4, <1>6

\* The entry that reserve_entry_in_inserting_page tries is the first of a block
\* of the page.
LEMMA TriedEntry ==
  ASSUME NEW p \in Nat, NEW s \in Blocks, NEW o \in Nat, o % BufferSize = 0
  PROVE  LET e == p * EntriesInPage + ((s + o) % EntriesInPage) IN
         /\ e \in Nat
         /\ PageOf(e) = p
         /\ FlagOf(e) = e
<1> DEFINE K == EntriesInPage \div BufferSize
           x == s + o
           r == x % EntriesInPage
           e == p * EntriesInPage + r
<1>1. K \in Nat \ {0} /\ EntriesInPage = BufferSize * K
  BY PageIsBlocks
<1>2. PICK y \in Nat : x = BufferSize * y
  <2>1. s \in Nat /\ s % BufferSize = 0
    BY ReservationAssumption DEF Blocks
  <2>2. PICK m \in Nat, n \in Nat : s = BufferSize * m /\ o = BufferSize * n
    BY <2>1, Multiple, ReservationAssumption
  <2>3. x = BufferSize * (m + n)
    BY <2>2, ReservationAssumption
  <2> QED
    BY <2>2, <2>3
<1>3. PICK q \in Int : r \in 0..(EntriesInPage - 1) /\ x = EntriesInPage * q + r
  <2>1. x \in Int
    BY <1>2, ReservationAssumption
  <2> QED
    BY <2>1, DivMod, ReservationAssumption
<1> HIDE DEF K, x, r
<1>4. e = EntriesInPage * p + r /\ e \in Nat
  BY <1>3, ReservationAssumption
<1>5. e = BufferSize * (K * p + y - K * q) + 0
  <2>1. BufferSize * (K * p + y - K * q)
          = BufferSize * K * p + BufferSize * y - BufferSize * K * q
    BY <1>1, <1>2, <1>3, ReservationAssumption
  <2> QED
    BY <2>1, <1>1, <1>2, <1>3, <1>4, ReservationAssumption
<1>6. PageOf(e) = p
  BY <1>3, <1>4, DivIsUnique, ReservationAssumption DEF PageOf
<1>7. BlockOf(e) = K * p + y - K * q
  <2>1. K * p + y - K * q \in Int
    BY <1>1, <1>2, <1>3
  <2> QED
    <3> DEFINE Q == K * p + y - K * q
    <3> HIDE DEF Q
    <3>1. Q \in Int /\ e = BufferSize * Q + 0
      BY <2>1, <1>5 DEF Q
    <3>2. (BufferSize * Q + 0) \div BufferSize = Q
      BY <3>1, DivIsUnique, ReservationAssumption
    <3> QED
      BY <3>1, <3>2 DEF BlockOf, Q
<1>8. FlagOf(e) = e
  <2>1. K * p + y - K * q \in Int
    BY <1>1, <1>2, <1>3
  <2> QED
    BY <2>1, <1>5, <1>7, ReservationAssumption DEF FlagOf
<1> QED
  BY <1>4, <1>6, <1>8 DEF r, x

\* Another block of a page that is not yet searched through fits into the page.
LEMMA NextOffset ==
  ASSUME NEW o \in Nat, o % BufferSize = 0, o < EntriesInPage
  PROVE  o + BufferSize <= EntriesInPage /\ (o + BufferSize) % BufferSize = 0
<1> DEFINE K == EntriesInPage \div BufferSize
<1>1. K \in Nat \ {0} /\ EntriesInPage = BufferSize * K
  BY PageIsBlocks
<1>2. PICK n \in Nat : o = BufferSize * n
  BY Multiple, ReservationAssumption
<1> HIDE DEF K
<1>3. n < K
  BY <1>1, <1>2, ReservationAssumption
<1>4. BufferSize * (K - n - 1) >= 0
  BY <1>1, <1>2, <1>3, ReservationAssumption
<1>5. o + BufferSize = BufferSize * (n + 1) + 0
  BY <1>2, ReservationAssumption
<1>6. (o + BufferSize) % BufferSize = 0
  BY <1>2, <1>5, DivIsUnique, ReservationAssumption
<1> QED
  BY <1>1, <1>2, <1>4, <1>6, ReservationAssumption

\* The locations are the entries of the pages.
LEMMA LocationBounds ==
  ASSUME NEW e \in Nat
  PROVE  e \in Locations <=> PageOf(e) < MaxPages
<1>1. e < MaxPages * EntriesInPage <=> PageOf(e) < MaxPages
  BY PageBounds, ReservationAssumption
<1>2. MaxPages * EntriesInPage \in Nat
  BY ReservationAssumption
<1> QED
  BY <1>1, <1>2 DEF Locations

\* Locations are natural numbers.
LEMMA LocationIsNat ==
  ASSUME NEW e \in Locations
  PROVE  e \in Nat
<1>1. MaxPages * EntriesInPage \in Nat
  BY ReservationAssumption
<1> QED
  BY <1>1 DEF Locations

Buffers == [start : Locations, size : 0..BufferSize, used : 0..BufferSize]

\* The fields of a buffer.
LEMMA BufferTypes ==
  ASSUME NEW rb \in Buffers
  PROVE  /\ rb.start \in Locations /\ rb.start \in Nat
         /\ rb.size \in 0..BufferSize /\ rb.size \in Nat
         /\ rb.used \in 0..BufferSize /\ rb.used \in Nat
         /\ rb = [start |-> rb.start, size |-> rb.size, used |-> rb.used]
  BY LocationIsNat, ReservationAssumption DEF Buffers

\* The types of the counters, without the sets they come from.
LEMMA PageTypes ==
  ASSUME TypeOK
  PROVE  /\ gap \in Int /\ gap \in Nat /\ gap < MaxPages
         /\ page_count \in Nat /\ page_count <= MaxPages
         /\ MaxPages \in Nat
         /\ DOMAIN pages = Pages
         /\ \A t \in Threads : page[t] \in Nat /\ page[t] < MaxPages
         /\ \A i \in Int : i \in Pages <=> 0 <= i /\ i < MaxPages
         /\ \A e \in flags : e \in Nat
         /\ \A e \in filled : e \in Nat
  BY LocationIsNat, ReservationAssumption DEF TypeOK, Pages

Labels == {"idle", "reserve", "alloc", "next_page", "announce", "fill", "insert", "grow"}
-----------------------------------------------------------------------------
\* What thread t may pop from: a block's rest that nobody else has.
GivenTo(t, rb) ==
  /\ rb \in Buffers
  /\ rb.used < rb.size
  /\ rb.start > 0
  /\ rb.start + rb.size <= FlagOf(rb.start) + BufferSize
  /\ \A u \in Threads \ {t} :
       buffer[u].size > 0 => BlockOf(buffer[u].start) # BlockOf(rb.start)
  /\ \A e \in Remaining(rb) : e \notin filled

\* The entries of a buffer are in its block.
LEMMA InBuffer ==
  ASSUME Inv, NEW t \in Threads, NEW e \in Int,
         buffer[t].start <= e, e < buffer[t].start + buffer[t].size
  PROVE  /\ e \in Nat /\ e > 0 /\ e \in Locations
         /\ buffer[t].size > 0
         /\ BlockOf(e) = BlockOf(buffer[t].start)
         /\ PageOf(e) = PageOf(buffer[t].start)
         /\ PageOf(e) <= gap
         /\ FlagOf(e) \in flags
<1> DEFINE rb == buffer[t]
<1>1. rb \in Buffers
  BY DEF Inv, TypeOK, Buffers
<1> HIDE DEF rb
<1>2. rb.start \in Nat /\ rb.size \in Nat /\ rb.start \in Locations
  BY <1>1, BufferTypes
<1>3. rb.start <= e /\ e < rb.start + rb.size
  BY DEF rb
<1>4. rb.size > 0
  BY <1>2, <1>3
<1>5. /\ rb.start > 0
      /\ PageOf(rb.start) <= gap
      /\ FlagOf(rb.start) \in flags
      /\ rb.start + rb.size <= FlagOf(rb.start) + BufferSize
  BY <1>4 DEF Inv, BufferState, rb
<1>6. e \in Nat /\ e > 0
  BY <1>2, <1>3, <1>5
<1>7. FlagOf(rb.start) \in Nat /\ FlagOf(rb.start) <= rb.start
  BY <1>2, BlockBounds
<1>8. BlockOf(e) = BlockOf(rb.start) /\ FlagOf(e) = FlagOf(rb.start)
  BY <1>2, <1>3, <1>5, <1>6, <1>7, SameBlock, ReservationAssumption
<1>9. PageOf(e) = PageOf(rb.start)
  BY <1>2, <1>6, <1>8, SamePage
<1>10. e \in Locations
  BY <1>2, <1>6, <1>9, LocationBounds
<1> QED
  BY <1>4, <1>5, <1>6, <1>8, <1>9, <1>10 DEF rb

\* The entry a thread holds is in its buffer, before what remains.
LEMMA Held ==
  ASSUME Inv, NEW t \in Threads, pc[t] \in {"fill", "insert"}
  PROVE  /\ location[t] \in Nat
         /\ buffer[t].start <= location[t]
         /\ location[t] < buffer[t].start + buffer[t].size
         /\ location[t] < buffer[t].start + buffer[t].used
<1>1. buffer[t] \in Buffers
  BY DEF Inv, TypeOK, Buffers
<1>2. buffer[t].start \in Nat /\ buffer[t].size \in Nat /\ buffer[t].used \in Nat
  BY <1>1, BufferTypes
<1>3. buffer[t].used > 0 /\ location[t] = buffer[t].start + buffer[t].used - 1
  BY DEF Inv, LocationState
<1>4. buffer[t].used <= buffer[t].size
  BY DEF Inv, BufferState
<1> QED
  BY <1>2, <1>3, <1>4

\* Popping an entry keeps the buffers apart and blank.
LEMMA PopKeeps ==
  ASSUME Inv, NEW t \in Threads, NEW rb, GivenTo(t, rb), Pop(t, rb),
         filled' = filled, flags \subseteq flags', gap' \in Int, gap' >= gap,
         PageOf(rb.start) <= gap', FlagOf(rb.start) \in flags'
  PROVE  /\ buffer' \in [Threads -> Buffers]
         /\ location' \in [Threads -> Locations]
         /\ BufferState' /\ LocationState' /\ FilledState'
<1> DEFINE nb == [rb EXCEPT !.used = @ + 1]
           e == rb.start + rb.used
<1>1. /\ rb.start \in Locations /\ rb.start \in Nat
      /\ rb.size \in 0..BufferSize /\ rb.used \in Nat
      /\ rb = [start |-> rb.start, size |-> rb.size, used |-> rb.used]
      /\ rb.used < rb.size /\ rb.start > 0
      /\ rb.start + rb.size <= FlagOf(rb.start) + BufferSize
  BY BufferTypes DEF GivenTo
<1>2. nb = [start |-> rb.start, size |-> rb.size, used |-> rb.used + 1]
  BY <1>1
<1>3. nb \in Buffers
  BY <1>1, <1>2, ReservationAssumption DEF Buffers
<1>4. e \in Nat /\ BlockOf(e) = BlockOf(rb.start) /\ e \in Remaining(rb)
  <2>1. FlagOf(rb.start) \in Nat /\ FlagOf(rb.start) <= rb.start
    BY <1>1, BlockBounds
  <2>2. e \in Nat /\ e >= FlagOf(rb.start) /\ e < FlagOf(rb.start) + BufferSize
    BY <1>1, <2>1, ReservationAssumption
  <2>3. e \in Remaining(rb)
    BY <1>1, ReservationAssumption DEF Remaining
  <2> QED
    BY <1>1, <2>2, <2>3, SameBlock
<1>5. e \in Locations
  <2>1. PageOf(e) = PageOf(rb.start)
    BY <1>1, <1>4, SamePage
  <2> QED
    BY <1>1, <1>4, <2>1, LocationBounds
<1>6. /\ buffer' = [buffer EXCEPT ![t] = nb]
      /\ location' = [location EXCEPT ![t] = e]
      /\ pc' = [pc EXCEPT ![t] = "fill"]
  BY DEF Pop, Goto
<1>7. /\ buffer \in [Threads -> Buffers] /\ location \in [Threads -> Locations]
      /\ pc \in [Threads -> Labels]
  BY DEF Inv, TypeOK, Buffers, Labels
<1>8. /\ buffer'[t] = nb /\ location'[t] = e /\ pc'[t] = "fill"
      /\ \A u \in Threads \ {t} :
           buffer'[u] = buffer[u] /\ location'[u] = location[u] /\ pc'[u] = pc[u]
  BY <1>6, <1>7
<1>9. buffer' \in [Threads -> Buffers] /\ location' \in [Threads -> Locations]
  BY <1>3, <1>5, <1>6, <1>7
<1>10. gap \in Int /\ \A x \in Nat : PageOf(x) \in Nat
  <2>1. gap \in Int
    BY PageTypes DEF Inv
  <2> QED
    BY <2>1, PageBounds
<1> HIDE DEF nb, e
<1>11. BufferState'
  <2> SUFFICES ASSUME NEW u \in Threads
               PROVE  /\ buffer'[u].used <= buffer'[u].size
                      /\ buffer'[u].size > 0 =>
                           /\ buffer'[u].start > 0
                           /\ PageOf(buffer'[u].start) <= gap'
                           /\ FlagOf(buffer'[u].start) \in flags'
                           /\ buffer'[u].start + buffer'[u].size
                                <= FlagOf(buffer'[u].start) + BufferSize
                           /\ \A v \in Threads \ {u} : buffer'[v].size > 0 =>
                                BlockOf(buffer'[v].start) # BlockOf(buffer'[u].start)
    BY DEF BufferState, FlagOf, BlockOf, PageOf
  <2>1. CASE u = t
    BY <2>1, <1>1, <1>2, <1>8 DEF GivenTo
  <2>2. CASE u # t
    <3>1. buffer[u].start \in Nat
      BY <1>7, BufferTypes
    <3>2. buffer[u].size > 0 =>
            /\ BlockOf(buffer[u].start) # BlockOf(nb.start)
            /\ PageOf(buffer[u].start) <= gap'
      BY <2>2, <3>1, <1>2, <1>10 DEF GivenTo, Inv, BufferState
    <3> QED
      BY <2>2, <3>2, <1>8 DEF Inv, BufferState
  <2> QED
    BY <2>1, <2>2
<1>12. LocationState'
  <2>1. buffer'[t].used > 0 /\ location'[t] = buffer'[t].start + buffer'[t].used - 1
    BY <1>1, <1>2, <1>8 DEF e
  <2> QED
    BY <2>1, <1>8 DEF Inv, LocationState
<1>13. FilledState'
  <2> SUFFICES ASSUME NEW f \in filled
               PROVE  /\ f > 0 /\ PageOf(f) <= gap' /\ FlagOf(f) \in flags'
                      /\ \A u \in Threads :
                           /\ f \notin Remaining(buffer'[u])
                           /\ pc'[u] = "fill" => f # location'[u]
    BY DEF FilledState, FlagOf, BlockOf, PageOf, Remaining
  <2>1. f \in Nat
    BY LocationIsNat DEF Inv, TypeOK
  <2>2. f > 0 /\ PageOf(f) <= gap' /\ FlagOf(f) \in flags'
    BY <2>1, <1>10 DEF Inv, FilledState
  <2>3. f \notin Remaining(rb)
    BY DEF GivenTo
  <2>4. f \notin Remaining(nb) /\ f # e
    BY <2>3, <1>1, <1>2, <1>4 DEF Remaining
  <2> QED
    BY <2>2, <2>4, <1>8 DEF Inv, FilledState
<1> QED
  BY <1>9, <1>11, <1>12, <1>13

\* A step of thread t that installs nothing and leaves the pages alone.
LEMMA PagesKept ==
  ASSUME Inv, NEW t \in Threads, ~ Installing(t), pc'[t] \notin {"next_page", "announce"},
         \A u \in Threads \ {t} : pc'[u] = pc[u] /\ page'[u] = page[u],
         UNCHANGED <<flags, pages, page_count, gap>>
  PROVE  PageState' /\ FlagState' /\ InstallState'
<1>1. \A u \in Threads : Installing(u)' => Installing(u) /\ u # t
  BY DEF Installing
<1>2. \A u \in Threads : Installing(u) => Installing(u)' /\ u # t
  BY DEF Installing
<1>3. PageState'
  BY <1>2 DEF Inv, PageState
<1>4. FlagState'
  BY <1>2 DEF Inv, FlagState, PageOf
<1>5. InstallState'
  BY <1>1 DEF Inv, InstallState
<1> QED
  BY <1>3, <1>4, <1>5

\* A step of thread t that neither takes nor gives an entry.
LEMMA BuffersKept ==
  ASSUME Inv, NEW t \in Threads, pc[t] \notin {"fill", "insert"},
         pc'[t] \notin {"fill", "insert"},
         \A u \in Threads \ {t} : pc'[u] = pc[u],
         UNCHANGED <<buffer, location, filled, gap>>, flags \subseteq flags'
  PROVE  BufferState' /\ LocationState' /\ FilledState'
<1>1. BufferState'
  BY DEF Inv, BufferState, FlagOf, BlockOf, PageOf
<1>2. LocationState'
  BY DEF Inv, LocationState
<1>3. FilledState'
  BY DEF Inv, FilledState, FlagOf, BlockOf, PageOf, Remaining
<1> QED
  BY <1>1, <1>2, <1>3

\* A step of thread t that searches no further.
LEMMA ScanKept ==
  ASSUME Inv, NEW t \in Threads, pc'[t] \notin {"reserve", "alloc"},
         \A u \in Threads \ {t} :
           pc'[u] = pc[u] /\ page'[u] = page[u] /\ offset'[u] = offset[u],
         offset'[t] = offset[t],
         page_count' = page_count, gap' \in Int, gap' >= gap
  PROVE  ScanState'
<1>1. gap \in Int /\ \A u \in Threads : page[u] \in Nat
  BY PageTypes DEF Inv
<1> QED
  BY <1>1 DEF Inv, ScanState
-----------------------------------------------------------------------------
\* get_empty_entry takes the next entry of its buffer.
LEMMA PopEntryStep ==
  ASSUME Inv, NEW t \in Threads, PopEntry(t)
  PROVE  Inv'
<1> DEFINE rb == buffer[t]
<1>1. /\ pc[t] = "idle" /\ rb.used # rb.size /\ Pop(t, rb)
      /\ UNCHANGED <<flags, filled, pages, page_count, gap, page, start, offset>>
  BY DEF PopEntry
<1>2. pc \in [Threads -> Labels] /\ rb \in Buffers /\ gap \in Int
  BY PageTypes DEF Inv, TypeOK, Labels, Buffers
<1>3. pc' = [pc EXCEPT ![t] = "fill"]
  BY <1>1 DEF Pop, Goto
<1>4. pc' \in [Threads -> Labels] /\ pc'[t] = "fill"
      /\ \A u \in Threads \ {t} : pc'[u] = pc[u]
  BY <1>2, <1>3 DEF Labels
<1> HIDE DEF rb
<1>5. /\ rb.start \in Nat /\ rb.size \in Nat /\ rb.used \in Nat
      /\ rb.used < rb.size /\ rb.size > 0
  <2>1. rb.used <= rb.size
    BY DEF Inv, BufferState, rb
  <2>2. rb.start \in Nat /\ rb.size \in Nat /\ rb.used \in Nat
    BY <1>2, BufferTypes
  <2> QED
    BY <1>1, <2>1, <2>2
<1>6. /\ rb.start > 0
      /\ PageOf(rb.start) <= gap
      /\ FlagOf(rb.start) \in flags
      /\ rb.start + rb.size <= FlagOf(rb.start) + BufferSize
      /\ \A u \in Threads \ {t} :
           buffer[u].size > 0 => BlockOf(buffer[u].start) # BlockOf(rb.start)
  BY <1>5 DEF Inv, BufferState, rb
<1>7. \A e \in Remaining(rb) : e \notin filled
  BY DEF Inv, FilledState, rb
<1>8. GivenTo(t, rb)
  BY <1>2, <1>5, <1>6, <1>7 DEF GivenTo
<1>9. /\ buffer' \in [Threads -> Buffers]
      /\ location' \in [Threads -> Locations]
      /\ BufferState' /\ LocationState' /\ FilledState'
  BY <1>1, <1>2, <1>6, <1>8, PopKeeps
<1>10. PageState' /\ FlagState' /\ InstallState'
  BY <1>1, <1>4, PagesKept DEF Installing
<1>11. ScanState'
  BY <1>1, <1>2, <1>4, ScanKept
<1>12. TypeOK'
  BY <1>1, <1>4, <1>9 DEF Inv, TypeOK, Buffers, Labels, Locations, Pages, Blocks
<1> QED
  BY <1>9, <1>10, <1>11, <1>12 DEF Inv

\* reserve_entry begins.
LEMMA BeginReserveStep ==
  ASSUME Inv, NEW t \in Threads, NEW block \in Blocks, BeginReserve(t, block)
  PROVE  Inv'
<1>1. /\ pc[t] = "idle" /\ page' = [page EXCEPT ![t] = gap]
      /\ start' = [start EXCEPT ![t] = block] /\ offset' = [offset EXCEPT ![t] = 0]
      /\ pc' = [pc EXCEPT ![t] = "reserve"]
      /\ UNCHANGED <<flags, filled, pages, page_count, gap, buffer, location>>
  BY DEF BeginReserve, Goto
<1>2. /\ pc \in [Threads -> Labels] /\ page \in [Threads -> Pages] /\ gap \in Pages
      /\ start \in [Threads -> Blocks] /\ offset \in [Threads -> 0..EntriesInPage]
  BY DEF Inv, TypeOK, Labels
<1>3. /\ pc'[t] = "reserve" /\ page'[t] = gap /\ offset'[t] = 0
      /\ \A u \in Threads \ {t} :
           pc'[u] = pc[u] /\ page'[u] = page[u] /\ offset'[u] = offset[u]
  BY <1>1, <1>2
<1>4. PageState' /\ FlagState' /\ InstallState'
  BY <1>1, <1>3, PagesKept DEF Installing
<1>5. BufferState' /\ LocationState' /\ FilledState'
  BY <1>1, <1>3, BuffersKept
<1>6. ScanState'
  <2>1. gap <= gap /\ 0 % BufferSize = 0
    BY PageTypes, ReservationAssumption DEF Inv
  <2> QED
    BY <2>1, <1>1, <1>3 DEF Inv, ScanState
<1>7. /\ pc' \in [Threads -> Labels] /\ page' \in [Threads -> Pages]
      /\ start' \in [Threads -> Blocks] /\ offset' \in [Threads -> 0..EntriesInPage]
  BY <1>1, <1>2, ReservationAssumption DEF Labels
<1>8. TypeOK'
  BY <1>1, <1>7 DEF Inv, TypeOK, Labels, Locations, Pages, Blocks
<1> QED
  BY <1>4, <1>5, <1>6, <1>8 DEF Inv

\* reserve_entry_in_inserting_page raises a flag or goes on to the next block.
LEMMA TryBlockStep ==
  ASSUME Inv, NEW t \in Threads, TryBlock(t)
  PROVE  Inv'
<1> DEFINE e == page[t] * EntriesInPage + ((start[t] + offset[t]) % EntriesInPage)
<1>1. /\ pc[t] = "reserve" /\ offset[t] < EntriesInPage
      /\ UNCHANGED <<filled, pages, page_count, gap, page, start>>
  BY DEF TryBlock
<1>2. /\ pc \in [Threads -> Labels] /\ page[t] \in Nat /\ page[t] < MaxPages
      /\ gap \in Int /\ start[t] \in Blocks /\ offset \in [Threads -> 0..EntriesInPage]
      /\ offset[t] \in Nat
  BY PageTypes, ReservationAssumption DEF Inv, TypeOK, Labels
<1>3. page[t] <= gap /\ offset[t] % BufferSize = 0
  BY <1>1 DEF Inv, ScanState
<1>4. e \in Nat /\ PageOf(e) = page[t] /\ FlagOf(e) = e
  BY <1>2, <1>3, TriedEntry
<1>5. CASE e \notin flags /\ flags' = flags \cup {e} /\ offset' = offset
             /\ Pop(t, FullBuffer(e, BufferSize))
  <2> HIDE DEF e
  <2> DEFINE rb == FullBuffer(e, BufferSize)
  <2>1. pc' = [pc EXCEPT ![t] = "fill"]
    BY <1>5 DEF Pop, Goto
  <2>2. /\ pc' \in [Threads -> Labels] /\ pc'[t] = "fill"
        /\ \A u \in Threads \ {t} : pc'[u] = pc[u]
    BY <1>2, <2>1 DEF Labels
  <2>3. e \in Locations
    BY <1>2, <1>4, LocationBounds
  <2>4. rb.start = e /\ rb.size = BufferSize /\ rb.used = 0 /\ rb \in Buffers
    BY <2>3, ReservationAssumption DEF FullBuffer, Buffers
  <2> HIDE DEF rb
  <2>5. e > 0
    BY <1>4, <1>5 DEF Inv, FlagState
  <2>6. \A u \in Threads \ {t} :
           buffer[u].size > 0 => BlockOf(buffer[u].start) # BlockOf(e)
    BY <1>4, <1>5 DEF Inv, BufferState, FlagOf
  <2>7. \A f \in Remaining(rb) : f \notin filled
    <3> SUFFICES ASSUME NEW f \in Remaining(rb), f \in filled PROVE FALSE
      OBVIOUS
    <3>1. f \in Nat /\ FlagOf(e) <= f /\ f < FlagOf(e) + BufferSize
      BY <1>4, <2>4, ReservationAssumption DEF Remaining
    <3>2. FlagOf(f) = e
      BY <1>4, <3>1, SameBlock
    <3> QED
      BY <1>5, <3>2 DEF Inv, FilledState
  <2>8. GivenTo(t, rb)
    <3>1. rb.start + rb.size <= FlagOf(rb.start) + BufferSize /\ rb.used < rb.size
      BY <1>4, <2>4, ReservationAssumption
    <3> QED
      BY <2>4, <2>5, <2>6, <2>7, <3>1 DEF GivenTo
  <2>9. /\ buffer' \in [Threads -> Buffers]
        /\ location' \in [Threads -> Locations]
        /\ BufferState' /\ LocationState' /\ FilledState'
    <3>1. PageOf(rb.start) <= gap' /\ FlagOf(rb.start) \in flags'
      BY <1>1, <1>3, <1>4, <1>5, <2>4
    <3>2. Pop(t, rb)
      BY <1>5 DEF rb
    <3> QED
      BY <1>1, <1>2, <1>5, <2>8, <3>1, <3>2, PopKeeps
  <2>10. \A u \in Threads : (Installing(u)' <=> Installing(u)) /\ (pc'[u] = "announce" <=> pc[u] = "announce")
    BY <1>1, <2>2 DEF Installing
  <2>11. PageState'
    BY <1>1, <2>10 DEF Inv, PageState
  <2>12. FlagState'
    <3>1. ~ (PageOf(e) > gap)
      BY <1>2, <1>3, <1>4
    <3>2. \A f \in flags' : PageOf(f) > gap =>
             \E u \in Threads : Installing(u)' /\ f = page[u] * EntriesInPage
      BY <1>5, <2>10, <3>1 DEF Inv, FlagState
    <3> QED
      BY <1>1, <1>5, <3>2 DEF Inv, FlagState, PageOf
  <2>13. InstallState'
    BY <1>1, <1>5, <2>10 DEF Inv, InstallState
  <2>14. ScanState'
    BY <1>1, <1>2, <1>5, <2>2, ScanKept
  <2>15. TypeOK'
    BY <1>1, <1>5, <2>2, <2>3, <2>9 DEF Inv, TypeOK, Buffers, Labels, Locations, Pages, Blocks
  <2> QED
    BY <2>9, <2>11, <2>12, <2>13, <2>14, <2>15 DEF Inv
<1>6. CASE /\ offset' = [offset EXCEPT ![t] = @ + BufferSize]
           /\ UNCHANGED <<flags, buffer, location, pc>>
  <2> HIDE DEF e
  <2>1. /\ offset[t] + BufferSize \in 0..EntriesInPage
        /\ (offset[t] + BufferSize) % BufferSize = 0
    BY <1>1, <1>2, <1>3, NextOffset, ReservationAssumption
  <2>2. /\ offset' \in [Threads -> 0..EntriesInPage]
        /\ offset'[t] = offset[t] + BufferSize
        /\ \A u \in Threads \ {t} : offset'[u] = offset[u]
    BY <1>2, <1>6, <2>1
  <2>3. PageState' /\ FlagState' /\ InstallState'
    BY <1>1, <1>6, PagesKept DEF Installing
  <2>4. BufferState' /\ LocationState' /\ FilledState'
    BY <1>1, <1>6, BuffersKept
  <2>5. ScanState'
    BY <1>1, <1>6, <2>1, <2>2 DEF Inv, ScanState
  <2>6. TypeOK'
    BY <1>1, <1>6, <2>2 DEF Inv, TypeOK, Locations, Pages, Blocks
  <2> QED
    BY <2>3, <2>4, <2>5, <2>6 DEF Inv
<1> QED
  BY <1>5, <1>6 DEF TryBlock

\* reserve_entry finds the page full.
LEMMA PageIsFullStep ==
  ASSUME Inv, NEW t \in Threads, PageIsFull(t)
  PROVE  Inv'
<1>1. /\ pc[t] = "reserve"
      /\ UNCHANGED <<flags, filled, pages, page_count, gap, buffer, start, location>>
  BY DEF PageIsFull
<1>2. /\ pc \in [Threads -> Labels] /\ page \in [Threads -> Pages] /\ gap \in Pages
      /\ gap \in Int /\ page_count \in Int
      /\ offset \in [Threads -> 0..EntriesInPage]
  BY PageTypes DEF Inv, TypeOK, Labels
<1>3. CASE /\ page' = [page EXCEPT ![t] = gap] /\ offset' = [offset EXCEPT ![t] = 0]
           /\ pc' = pc
  <2>1. /\ page'[t] = gap /\ offset'[t] = 0
        /\ \A u \in Threads \ {t} : page'[u] = page[u] /\ offset'[u] = offset[u]
    BY <1>2, <1>3
  <2>2. PageState' /\ FlagState' /\ InstallState'
    BY <1>1, <1>3, <2>1, PagesKept DEF Installing
  <2>3. BufferState' /\ LocationState' /\ FilledState'
    BY <1>1, <1>3, BuffersKept
  <2>4. ScanState'
    <3>1. gap <= gap /\ 0 % BufferSize = 0
      BY <1>2, ReservationAssumption
    <3> QED
      BY <3>1, <1>1, <1>3, <2>1 DEF Inv, ScanState
  <2>5. page' \in [Threads -> Pages] /\ offset' \in [Threads -> 0..EntriesInPage]
    BY <1>2, <1>3, ReservationAssumption
  <2>6. TypeOK'
    BY <1>1, <1>3, <2>5 DEF Inv, TypeOK, Locations, Pages, Blocks
  <2> QED
    BY <2>2, <2>3, <2>4, <2>6 DEF Inv
<1>4. CASE /\ gap = page[t]
           /\ pc' = [pc EXCEPT ![t] = IF gap + 1 >= page_count THEN "grow" ELSE "alloc"]
           /\ UNCHANGED <<page, offset>>
  <2>1. /\ pc'[t] = IF gap + 1 >= page_count THEN "grow" ELSE "alloc"
        /\ \A u \in Threads \ {t} : pc'[u] = pc[u]
        /\ pc' \in [Threads -> Labels]
    BY <1>2, <1>4 DEF Labels
  <2>2. pc'[t] \notin {"next_page", "announce", "fill", "insert", "reserve"}
    BY <2>1
  <2>3. PageState' /\ FlagState' /\ InstallState'
    BY <1>1, <1>4, <2>1, <2>2, PagesKept DEF Installing
  <2>4. BufferState' /\ LocationState' /\ FilledState'
    BY <1>1, <1>4, <2>1, <2>2, BuffersKept
  <2>5. ScanState'
    <3>1. page[t] <= gap /\ (pc'[t] = "alloc" => page[t] + 1 < page_count)
      BY <1>2, <1>4, <2>1
    <3> QED
      BY <3>1, <1>1, <1>4, <2>1 DEF Inv, ScanState
  <2>6. TypeOK'
    BY <1>1, <1>4, <2>1 DEF Inv, TypeOK, Labels, Locations, Pages, Blocks
  <2> QED
    BY <2>3, <2>4, <2>5, <2>6 DEF Inv
<1> QED
  BY <1>3, <1>4 DEF PageIsFull, Goto

\* reserve_entry installs the next page, or finds it installed, or has no memory.
LEMMA AllocPageStep ==
  ASSUME Inv, NEW t \in Threads, AllocPage(t)
  PROVE  Inv'
<1> DEFINE new == page[t] + 1
<1>1. pc[t] = "alloc" /\ UNCHANGED <<filled, page_count, gap, buffer, start, location>>
  BY DEF AllocPage
<1>2. /\ pc \in [Threads -> Labels] /\ page \in [Threads -> Pages]
      /\ offset \in [Threads -> 0..EntriesInPage]
      /\ gap \in Int /\ gap \in Nat /\ page_count \in Nat /\ page[t] \in Nat
      /\ page_count <= MaxPages /\ MaxPages \in Nat
  BY PageTypes DEF Inv, TypeOK, Labels
<1>3. page[t] <= gap /\ page[t] + 1 < page_count
  BY <1>1 DEF Inv, ScanState
<1>4. CASE /\ pages[new] = "null"
           /\ pages' = [pages EXCEPT ![new] = "page"]
           /\ flags' = flags \cup {new * EntriesInPage}
           /\ page' = [page EXCEPT ![t] = new]
           /\ pc' = [pc EXCEPT ![t] = "next_page"]
           /\ offset' = offset
  <2>1. new = gap + 1 /\ new \in Nat /\ new \in Pages
    <3>1. new \in Pages
      BY <1>2, <1>3, PageTypes DEF Inv
    <3>2. ~ (new <= gap)
      BY <1>2, <1>4 DEF Inv, PageState
    <3> QED
      BY <1>2, <1>3, <3>1, <3>2
  <2> HIDE DEF new
  <2>2. /\ new * EntriesInPage \in Nat
        /\ PageOf(new * EntriesInPage) = new
        /\ new * EntriesInPage \in Locations
    <3>1. new < MaxPages
      BY <1>2, <1>3 DEF new
    <3> QED
      BY <2>1, <3>1, FirstOfPage, LocationBounds
  <2>3. /\ pc' \in [Threads -> Labels] /\ page' \in [Threads -> Pages]
        /\ pc'[t] = "next_page" /\ page'[t] = new
        /\ \A u \in Threads \ {t} : pc'[u] = pc[u] /\ page'[u] = page[u]
    BY <1>2, <1>4, <2>1 DEF Labels
  <2>4. \A u \in Threads : ~ Installing(u)
    BY <1>4, <2>1 DEF Inv, InstallState
  <2>5. \A u \in Threads : Installing(u)' <=> u = t
    BY <2>3, <2>4 DEF Installing
  <2>6. /\ pages \in [Pages -> {"uninit", "null", "page"}]
        /\ pages' \in [Pages -> {"uninit", "null", "page"}]
        /\ pages'[new] = "page" /\ \A i \in Pages \ {new} : pages'[i] = pages[i]
    BY <1>4, <2>1 DEF Inv, TypeOK
  <2>7. \A i \in 0..gap : i \in Pages /\ i # new
    BY <1>2, <2>1, PageTypes DEF Inv
  <2>8. PageState'
    <3>1. \A i \in 0..gap : pages'[i] = "page"
      BY <2>6, <2>7 DEF Inv, PageState
    <3>2. \A i \in Pages : i > gap /\ pages'[i] = "page" =>
             \E u \in Threads : Installing(u)' /\ page'[u] = i
      BY <2>3, <2>4, <2>5, <2>6 DEF Inv, PageState
    <3>3. gap < page_count
      BY DEF Inv, PageState
    <3> QED
      BY <1>1, <2>1, <2>6, <3>1, <3>2, <3>3 DEF PageState, Pages
  <2>9. FlagState'
    <3>1. \A e \in flags' : PageOf(e) > gap => e = new * EntriesInPage
      BY <1>4, <2>4 DEF Inv, FlagState
    <3> QED
      BY <1>1, <1>4, <2>3, <2>5, <3>1 DEF Inv, FlagState, PageOf
  <2>10. InstallState'
    <3>1. new < page_count
      BY <1>3 DEF new
    <3>2. new * EntriesInPage \in flags'
      BY <1>4
    <3> QED
      BY <1>1, <2>1, <2>3, <2>5, <2>6, <3>1, <3>2 DEF InstallState
  <2>11. BufferState' /\ LocationState' /\ FilledState'
    BY <1>1, <1>4, <2>3, BuffersKept
  <2>12. ScanState'
    BY <1>1, <1>2, <1>4, <2>3, ScanKept
  <2>13. TypeOK'
    BY <1>1, <1>4, <2>2, <2>3, <2>6 DEF Inv, TypeOK, Labels, Locations, Pages, Blocks
  <2> QED
    BY <2>8, <2>9, <2>10, <2>11, <2>12, <2>13 DEF Inv
<1>5. CASE /\ offset' = [offset EXCEPT ![t] = 0]
           /\ pc' = [pc EXCEPT ![t] = "reserve"]
           /\ UNCHANGED <<pages, flags, page>>
  <2>1. /\ pc' \in [Threads -> Labels] /\ offset' \in [Threads -> 0..EntriesInPage]
        /\ pc'[t] = "reserve" /\ offset'[t] = 0
        /\ \A u \in Threads \ {t} : pc'[u] = pc[u] /\ offset'[u] = offset[u]
    BY <1>2, <1>5, ReservationAssumption DEF Labels
  <2>2. PageState' /\ FlagState' /\ InstallState'
    BY <1>1, <1>5, <2>1, PagesKept DEF Installing
  <2>3. BufferState' /\ LocationState' /\ FilledState'
    BY <1>1, <1>5, <2>1, BuffersKept
  <2>4. ScanState'
    <3>1. 0 % BufferSize = 0
      BY ReservationAssumption
    <3> QED
      BY <3>1, <1>1, <1>3, <1>5, <2>1 DEF Inv, ScanState
  <2>5. TypeOK'
    BY <1>1, <1>5, <2>1 DEF Inv, TypeOK, Labels, Locations, Pages, Blocks
  <2> QED
    BY <2>2, <2>3, <2>4, <2>5 DEF Inv
<1>6. CASE pc' = [pc EXCEPT ![t] = "idle"] /\ UNCHANGED <<pages, flags, page, offset>>
  <2>1. /\ pc' \in [Threads -> Labels] /\ pc'[t] = "idle"
        /\ \A u \in Threads \ {t} : pc'[u] = pc[u]
    BY <1>2, <1>6 DEF Labels
  <2>2. PageState' /\ FlagState' /\ InstallState'
    BY <1>1, <1>6, <2>1, PagesKept DEF Installing
  <2>3. BufferState' /\ LocationState' /\ FilledState'
    BY <1>1, <1>6, <2>1, BuffersKept
  <2>4. ScanState'
    BY <1>1, <1>2, <1>6, <2>1, ScanKept
  <2>5. TypeOK'
    BY <1>1, <1>6, <2>1 DEF Inv, TypeOK, Labels, Locations, Pages, Blocks
  <2> QED
    BY <2>2, <2>3, <2>4, <2>5 DEF Inv
<1> QED
  BY <1>4, <1>5, <1>6 DEF AllocPage, Goto

\* handle_page_allocated initialises the pointer after the new page.
LEMMA InitNextPageStep ==
  ASSUME Inv, NEW t \in Threads, InitNextPage(t)
  PROVE  Inv'
<1>1. /\ pc[t] = "next_page" /\ pc' = [pc EXCEPT ![t] = "announce"]
      /\ pages' = IF page[t] + 1 < page_count
                  THEN [pages EXCEPT ![page[t] + 1] = "null"] ELSE pages
      /\ UNCHANGED <<flags, filled, page_count, gap, buffer, page, start, offset, location>>
  BY DEF InitNextPage, Goto
<1>2. /\ pc \in [Threads -> Labels] /\ pages \in [Pages -> {"uninit", "null", "page"}]
      /\ gap \in Int /\ gap \in Nat /\ page_count \in Nat /\ page[t] \in Nat
      /\ page_count <= MaxPages /\ MaxPages \in Nat
  BY PageTypes DEF Inv, TypeOK, Labels
<1>3. /\ pc' \in [Threads -> Labels] /\ pc'[t] = "announce"
      /\ \A u \in Threads \ {t} : pc'[u] = pc[u]
  BY <1>1, <1>2 DEF Labels
<1>4. /\ page[t] = gap + 1 /\ page[t] < page_count /\ pages[page[t]] = "page"
      /\ page[t] * EntriesInPage \in flags
      /\ \A u \in Threads : Installing(u) => u = t
  BY <1>1 DEF Inv, InstallState, Installing
<1>5. \A u \in Threads : (Installing(u)' <=> u = t) /\ (Installing(u) <=> u = t)
  BY <1>1, <1>3, <1>4 DEF Installing
<1>6. /\ pages' \in [Pages -> {"uninit", "null", "page"}]
      /\ \A i \in Pages : i <= gap + 1 => pages'[i] = pages[i]
      /\ page[t] + 1 < page_count => pages'[page[t] + 1] = "null"
      /\ \A i \in Pages : pages'[i] = "page" => pages[i] = "page"
  <2>1. CASE page[t] + 1 < page_count
    <3>1. page[t] + 1 \in Pages
      BY <2>1, <1>2, PageTypes DEF Inv
    <3>2. \A i \in Pages : i <= gap + 1 => i # page[t] + 1
      BY <1>2, <1>4, ReservationAssumption DEF Pages
    <3> QED
      BY <2>1, <3>1, <3>2, <1>1, <1>2
  <2>2. CASE ~ (page[t] + 1 < page_count)
    BY <2>2, <1>1, <1>2
  <2> QED
    BY <2>1, <2>2
<1>7. \A i \in 0..(gap + 1) : i \in Pages
  BY <1>2, <1>4, PageTypes DEF Inv
<1>8. PageState'
  <2>1. /\ \A i \in 0..gap : pages'[i] = "page"
        /\ pages'[gap + 1] = "page"
    BY <1>2, <1>4, <1>6, <1>7 DEF Inv, PageState
  <2>2. \A i \in Pages : i > gap /\ pages'[i] = "page" =>
           \E u \in Threads : Installing(u)' /\ page[u] = i
    BY <1>5, <1>6 DEF Inv, PageState
  <2>3. gap < page_count
    BY DEF Inv, PageState
  <2> QED
    BY <1>1, <2>1, <2>2, <2>3 DEF PageState, Pages
<1>9. FlagState'
  BY <1>1, <1>5 DEF Inv, FlagState, PageOf
<1>10. InstallState'
  <2>1. page[t] \in Pages /\ pages'[page[t]] = "page"
    BY <1>2, <1>4, <1>6, <1>7
  <2> QED
    BY <2>1, <1>1, <1>4, <1>5, <1>6 DEF InstallState
<1>11. BufferState' /\ LocationState' /\ FilledState'
  BY <1>1, <1>3, BuffersKept
<1>12. ScanState'
  BY <1>1, <1>2, <1>3, ScanKept
<1>13. TypeOK'
  BY <1>1, <1>3, <1>6 DEF Inv, TypeOK, Labels, Locations, Pages, Blocks
<1> QED
  BY <1>8, <1>9, <1>10, <1>11, <1>12, <1>13 DEF Inv

\* The new page is announced, and its first block is its thread's.
LEMMA AnnouncePageStep ==
  ASSUME Inv, NEW t \in Threads, AnnouncePage(t)
  PROVE  Inv'
<1> DEFINE e == page[t] * EntriesInPage
           rb == FullBuffer(e, BufferSize)
<1>1. /\ pc[t] = "announce" /\ Pop(t, rb)
      /\ gap' = IF gap = page[t] - 1 THEN page[t] ELSE gap
      /\ UNCHANGED <<flags, filled, pages, page_count, page, start, offset>>
  BY DEF AnnouncePage
<1>2. /\ pc \in [Threads -> Labels] /\ gap \in Nat /\ page_count \in Nat
      /\ page[t] \in Nat /\ page[t] < MaxPages /\ page[t] \in Pages
  BY PageTypes DEF Inv, TypeOK, Labels
<1>3. /\ page[t] = gap + 1 /\ page[t] < page_count /\ pages[page[t]] = "page"
      /\ e \in flags
      /\ \A u \in Threads : Installing(u) => u = t
      /\ page[t] + 1 < page_count => pages[page[t] + 1] = "null"
  BY <1>1 DEF Inv, InstallState, Installing
<1>4. gap' = gap + 1 /\ gap' \in Nat /\ gap' \in Int /\ gap' >= gap
  BY <1>1, <1>2, <1>3
<1>5. pc' = [pc EXCEPT ![t] = "fill"]
  BY <1>1 DEF Pop, Goto
<1>6. /\ pc' \in [Threads -> Labels] /\ pc'[t] = "fill"
      /\ \A u \in Threads \ {t} : pc'[u] = pc[u]
  BY <1>2, <1>5 DEF Labels
<1>7. e \in Nat /\ PageOf(e) = gap + 1 /\ FlagOf(e) = e /\ e \in Locations
  BY <1>2, <1>3, FirstOfPage, LocationBounds
<1>8. e > 0
  BY <1>2, <1>3, ReservationAssumption
<1> HIDE DEF e
<1>9. rb.start = e /\ rb.size = BufferSize /\ rb.used = 0 /\ rb \in Buffers
  BY <1>7, ReservationAssumption DEF FullBuffer, Buffers
<1> HIDE DEF rb
<1>10. \A u \in Threads \ {t} :
         buffer[u].size > 0 => BlockOf(buffer[u].start) # BlockOf(e)
  <2> SUFFICES ASSUME NEW u \in Threads, buffer[u].size > 0,
                      BlockOf(buffer[u].start) = BlockOf(e)
               PROVE  FALSE
    OBVIOUS
  <2>1. buffer[u].start \in Nat
    BY BufferTypes DEF Inv, TypeOK, Buffers
  <2>2. PageOf(buffer[u].start) = gap + 1
    BY <1>7, <2>1, SamePage
  <2> QED
    BY <1>2, <2>2 DEF Inv, BufferState
<1>11. \A f \in Remaining(rb) : f \notin filled
  <2> SUFFICES ASSUME NEW f \in Remaining(rb), f \in filled PROVE FALSE
    OBVIOUS
  <2>1. f \in Nat /\ FlagOf(e) <= f /\ f < FlagOf(e) + BufferSize
    BY <1>7, <1>9, ReservationAssumption DEF Remaining
  <2>2. PageOf(f) = gap + 1
    BY <1>7, <2>1, SameBlock, SamePage
  <2> QED
    BY <1>2, <2>2 DEF Inv, FilledState
<1>12. GivenTo(t, rb)
  <2>1. rb.start + rb.size <= FlagOf(rb.start) + BufferSize /\ rb.used < rb.size
    BY <1>7, <1>9, ReservationAssumption
  <2> QED
    BY <1>8, <1>9, <1>10, <1>11, <2>1 DEF GivenTo
<1>13. /\ buffer' \in [Threads -> Buffers]
       /\ location' \in [Threads -> Locations]
       /\ BufferState' /\ LocationState' /\ FilledState'
  <2>1. PageOf(rb.start) <= gap' /\ FlagOf(rb.start) \in flags'
    BY <1>1, <1>2, <1>3, <1>4, <1>7, <1>9
  <2> QED
    BY <1>1, <1>4, <1>12, <2>1, PopKeeps
<1>14. \A u \in Threads : ~ Installing(u)'
  BY <1>3, <1>6 DEF Installing
<1>15. PageState'
  <2>1. \A i \in 0..(gap + 1) : pages[i] = "page"
    <3>1. \A i \in 0..(gap + 1) : i \in 0..gap \/ i = page[t]
      BY <1>2, <1>3
    <3> QED
      BY <1>3, <3>1 DEF Inv, PageState
  <2>2. \A i \in Pages : i > gap + 1 => pages[i] # "page"
    <3> SUFFICES ASSUME NEW i \in Pages, i > gap + 1, pages[i] = "page" PROVE FALSE
      OBVIOUS
    <3>1. i \in Nat /\ i > gap
      BY <1>2, ReservationAssumption DEF Pages
    <3>2. PICK u \in Threads : Installing(u) /\ page[u] = i
      BY <3>1 DEF Inv, PageState
    <3> QED
      BY <1>2, <1>3, <3>1, <3>2
  <2>3. gap + 1 < page_count /\ (gap + 1 + 1 < page_count => pages[gap + 1 + 1] = "null")
    BY <1>3
  <2> QED
    BY <1>1, <1>4, <2>1, <2>2, <2>3 DEF PageState, Pages
<1>16. FlagState'
  <2>1. \A f \in flags : ~ (PageOf(f) > gap + 1)
    <3> SUFFICES ASSUME NEW f \in flags, PageOf(f) > gap + 1 PROVE FALSE
      OBVIOUS
    <3>1. f \in Nat /\ PageOf(f) \in Nat
      BY PageTypes, PageBounds DEF Inv
    <3>2. PageOf(f) > gap
      BY <1>2, <3>1
    <3>3. f = e
      BY <1>3, <3>2 DEF Inv, FlagState, e
    <3> QED
      BY <1>2, <1>7, <3>3
  <2> QED
    BY <1>1, <1>4, <2>1 DEF Inv, FlagState, PageOf
<1>17. InstallState'
  BY <1>14 DEF InstallState
<1>18. ScanState'
  <2>1. gap \in Int
    BY <1>2
  <2> QED
    BY <1>1, <1>4, <1>6, <2>1, ScanKept
<1>19. gap' \in Pages
  BY <1>2, <1>3, <1>4
<1>20. TypeOK'
  BY <1>1, <1>6, <1>13, <1>19 DEF Inv, TypeOK, Buffers, Labels, Locations, Pages, Blocks
<1> QED
  BY <1>13, <1>15, <1>16, <1>17, <1>18, <1>20 DEF Inv

\* The entry that a thread holds is nobody else's.
LEMMA HeldOnce ==
  ASSUME Inv, NEW t \in Threads, NEW u \in Threads \ {t}, pc[t] \in {"fill", "insert"},
         NEW e \in Int, buffer[u].start <= e, e < buffer[u].start + buffer[u].size
  PROVE  e # location[t]
<1>1. /\ BlockOf(e) = BlockOf(buffer[u].start)
      /\ buffer[u].size > 0
  BY InBuffer
<1>2. /\ BlockOf(location[t]) = BlockOf(buffer[t].start)
      /\ buffer[t].size > 0
  BY Held, InBuffer
<1> QED
  BY <1>1, <1>2 DEF Inv, BufferState

\* compare_and_set writes the key, the hash and the value into the entry.
LEMMA FillEntryStep ==
  ASSUME Inv, NEW t \in Threads, FillEntry(t)
  PROVE  Inv'
<1> DEFINE e == location[t]
<1>1. /\ pc[t] = "fill" /\ filled' = filled \cup {e} /\ pc' = [pc EXCEPT ![t] = "insert"]
      /\ UNCHANGED <<flags, pages, page_count, gap, buffer, page, start, offset, location>>
  BY DEF FillEntry, Goto
<1>2. pc \in [Threads -> Labels] /\ gap \in Int /\ buffer \in [Threads -> Buffers]
  BY PageTypes DEF Inv, TypeOK, Labels, Buffers
<1>3. /\ pc' \in [Threads -> Labels] /\ pc'[t] = "insert"
      /\ \A u \in Threads \ {t} : pc'[u] = pc[u]
  BY <1>1, <1>2 DEF Labels
<1>4. /\ e \in Nat /\ buffer[t].start <= e /\ e < buffer[t].start + buffer[t].size
      /\ e < buffer[t].start + buffer[t].used
  BY <1>1, Held
<1>5. e > 0 /\ e \in Locations /\ PageOf(e) <= gap /\ FlagOf(e) \in flags
  BY <1>4, InBuffer
<1> HIDE DEF e
<1>6. PageState' /\ FlagState' /\ InstallState'
  BY <1>1, <1>3, PagesKept DEF Installing
<1>7. BufferState'
  BY <1>1 DEF Inv, BufferState, FlagOf, BlockOf, PageOf
<1>8. LocationState'
  BY <1>1, <1>3 DEF Inv, LocationState
<1>9. \A u \in Threads :
        e \notin Remaining(buffer[u]) /\ (pc'[u] = "fill" => e # location[u])
  <2> SUFFICES ASSUME NEW u \in Threads
               PROVE  e \notin Remaining(buffer[u]) /\ (pc'[u] = "fill" => e # location[u])
    OBVIOUS
  <2>1. /\ buffer[u].start \in Nat /\ buffer[u].size \in Nat /\ buffer[u].used \in Nat
    BY <1>2, BufferTypes
  <2>2. CASE u = t
    BY <1>3, <1>4, <2>1, <2>2 DEF Remaining
  <2>3. CASE u # t
    <3>1. ~ (buffer[u].start <= e /\ e < buffer[u].start + buffer[u].size)
      BY <1>1, <1>4, <2>3, HeldOnce DEF e
    <3>2. e \notin Remaining(buffer[u])
      BY <2>1, <3>1, <1>4 DEF Remaining
    <3>3. pc'[u] = "fill" => e # location[u]
      BY <1>3, <2>3, <3>1, Held
    <3> QED
      BY <3>2, <3>3
  <2> QED
    BY <2>2, <2>3
<1>10. FilledState'
  <2>1. \A f \in filled' :
          /\ f > 0 /\ PageOf(f) <= gap /\ FlagOf(f) \in flags
          /\ \A u \in Threads : f \notin Remaining(buffer[u]) /\ (pc'[u] = "fill" => f # location[u])
    BY <1>1, <1>3, <1>5, <1>9 DEF Inv, FilledState
  <2> QED
    BY <1>1, <2>1 DEF FilledState, FlagOf, BlockOf, PageOf, Remaining
<1>11. ScanState'
  BY <1>1, <1>2, <1>3, ScanKept
<1>12. TypeOK'
  BY <1>1, <1>3, <1>5 DEF Inv, TypeOK, Labels, Locations, Pages, Blocks
<1> QED
  BY <1>6, <1>7, <1>8, <1>10, <1>11, <1>12 DEF Inv

\* The entry is published.
LEMMA PublishStep ==
  ASSUME Inv, NEW t \in Threads, Publish(t)
  PROVE  Inv'
<1>1. /\ pc[t] = "insert" /\ location' = [location EXCEPT ![t] = 0]
      /\ pc' = [pc EXCEPT ![t] = "idle"]
      /\ UNCHANGED <<flags, filled, pages, page_count, gap, buffer, page, start, offset>>
  BY DEF Publish, Goto
<1>2. /\ pc \in [Threads -> Labels] /\ gap \in Int
      /\ location \in [Threads -> Locations] /\ 0 \in Locations
  BY PageTypes DEF Inv, TypeOK, Labels, FlagState
<1>3. /\ pc' \in [Threads -> Labels] /\ location' \in [Threads -> Locations]
      /\ pc'[t] = "idle" /\ location'[t] = 0
      /\ \A u \in Threads \ {t} : pc'[u] = pc[u] /\ location'[u] = location[u]
  BY <1>1, <1>2 DEF Labels
<1>4. PageState' /\ FlagState' /\ InstallState'
  BY <1>1, <1>3, PagesKept DEF Installing
<1>5. BufferState'
  BY <1>1 DEF Inv, BufferState, FlagOf, BlockOf, PageOf
<1>6. LocationState'
  BY <1>1, <1>3 DEF Inv, LocationState
<1>7. FilledState'
  BY <1>1, <1>3 DEF Inv, FilledState, FlagOf, BlockOf, PageOf, Remaining
<1>8. ScanState'
  BY <1>1, <1>2, <1>3, ScanKept
<1>9. TypeOK'
  BY <1>1, <1>3 DEF Inv, TypeOK, Labels, Locations, Pages, Blocks
<1> QED
  BY <1>4, <1>5, <1>6, <1>7, <1>8, <1>9 DEF Inv

\* The entry is cleared and put back into the buffer.
LEMMA PutBackStep ==
  ASSUME Inv, NEW t \in Threads, PutBack(t)
  PROVE  Inv'
<1> DEFINE e == location[t]
           rb == buffer[t]
<1>1. /\ pc[t] = "insert" /\ location' = [location EXCEPT ![t] = 0]
      /\ pc' = [pc EXCEPT ![t] = "idle"]
      /\ filled' = filled \ {e} /\ buffer' = [buffer EXCEPT ![t].used = @ - 1]
      /\ UNCHANGED <<flags, pages, page_count, gap, page, start, offset>>
  BY DEF PutBack, Goto
<1>2. /\ pc \in [Threads -> Labels] /\ gap \in Int /\ buffer \in [Threads -> Buffers]
      /\ location \in [Threads -> Locations] /\ 0 \in Locations
  BY PageTypes DEF Inv, TypeOK, Labels, FlagState, Buffers
<1>3. /\ rb.used > 0 /\ e = rb.start + rb.used - 1
      /\ rb.start \in Nat /\ rb.size \in Nat /\ rb.used \in 0..BufferSize
      /\ rb.start \in Locations /\ rb.size \in 0..BufferSize
      /\ rb.used <= rb.size
  <2>1. rb \in Buffers
    BY <1>2
  <2> HIDE DEF rb
  <2>2. /\ rb.start \in Nat /\ rb.size \in Nat /\ rb.used \in 0..BufferSize
        /\ rb.start \in Locations /\ rb.size \in 0..BufferSize
    BY <2>1, BufferTypes
  <2> QED
    BY <2>2, <1>1 DEF Inv, LocationState, BufferState, rb
<1>4. /\ buffer'[t] = [start |-> rb.start, size |-> rb.size, used |-> rb.used - 1]
      /\ \A u \in Threads \ {t} : buffer'[u] = buffer[u]
      /\ buffer' \in [Threads -> Buffers]
  <2>1. buffer'[t] = [rb EXCEPT !.used = @ - 1]
        /\ buffer' = [buffer EXCEPT ![t] = [rb EXCEPT !.used = @ - 1]]
    BY <1>1, <1>2
  <2>2. [rb EXCEPT !.used = @ - 1] = [start |-> rb.start, size |-> rb.size, used |-> rb.used - 1]
    BY <1>2 DEF Buffers
  <2>3. [rb EXCEPT !.used = @ - 1] \in Buffers
    BY <2>2, <1>3, ReservationAssumption DEF Buffers
  <2> QED
    BY <2>1, <2>2, <2>3, <1>2
<1>5. /\ pc' \in [Threads -> Labels] /\ location' \in [Threads -> Locations]
      /\ pc'[t] = "idle" /\ location'[t] = 0
      /\ \A u \in Threads \ {t} : pc'[u] = pc[u] /\ location'[u] = location[u]
  BY <1>1, <1>2 DEF Labels
<1> HIDE DEF rb, e
<1>6. /\ buffer'[t].start = rb.start /\ buffer'[t].size = rb.size
      /\ buffer'[t].used = rb.used - 1
  BY <1>4
<1>7. PageState' /\ FlagState' /\ InstallState'
  BY <1>1, <1>5, PagesKept DEF Installing
<1>8. BufferState'
  <2>1. buffer'[t].used <= buffer'[t].size
    BY <1>3, <1>6
  <2>2. \A u \in Threads : buffer'[u].start = buffer[u].start /\ buffer'[u].size = buffer[u].size
    BY <1>4, <1>6 DEF rb
  <2> QED
    BY <2>1, <2>2, <1>1, <1>4 DEF Inv, BufferState, FlagOf, BlockOf, PageOf
<1>9. LocationState'
  BY <1>1, <1>4, <1>5 DEF Inv, LocationState
<1>10. FilledState'
  <2>1. \A f \in filled' : f \notin Remaining(buffer'[t])
    <3> SUFFICES ASSUME NEW f \in filled' PROVE f \notin Remaining(buffer'[t])
      OBVIOUS
    <3>1. f \in Int /\ f # e /\ f \in filled
      BY <1>1, PageTypes DEF Inv
    <3>2. f \notin Remaining(rb)
      BY <3>1 DEF Inv, FilledState, rb
    <3> QED
      BY <3>1, <3>2, <1>3, <1>6 DEF Remaining
  <2>2. \A f \in filled' :
          /\ f > 0 /\ PageOf(f) <= gap /\ FlagOf(f) \in flags
          /\ \A u \in Threads : f \notin Remaining(buffer'[u]) /\ (pc'[u] = "fill" => f # location'[u])
    BY <2>1, <1>1, <1>4, <1>5 DEF Inv, FilledState
  <2> QED
    BY <2>2, <1>1 DEF FilledState, FlagOf, BlockOf, PageOf, Remaining
<1>11. ScanState'
  BY <1>1, <1>2, <1>5, ScanKept
<1>12. TypeOK'
  BY <1>1, <1>4, <1>5 DEF Inv, TypeOK, Labels, Buffers, Locations, Pages, Blocks
<1> QED
  BY <1>7, <1>8, <1>9, <1>10, <1>11, <1>12 DEF Inv

\* The table grows when no thread is within the pages.
LEMMA GrowStep ==
  ASSUME Inv, NEW t \in Threads, Grow(t)
  PROVE  Inv'
<1>1. /\ pc[t] = "grow" /\ pc' = [pc EXCEPT ![t] = "idle"]
      /\ \A u \in Threads : pc[u] \in {"idle", "grow"}
      /\ 2 * page_count <= MaxPages /\ page_count' = 2 * page_count
      /\ pages' = [i \in Pages |-> IF i <= gap THEN pages[i]
                                   ELSE IF i = gap + 1 THEN "null" ELSE "uninit"]
      /\ UNCHANGED <<flags, filled, gap, buffer, page, start, offset, location>>
  BY DEF Grow, Goto
<1>2. /\ pc \in [Threads -> Labels] /\ pages \in [Pages -> {"uninit", "null", "page"}]
      /\ gap \in Nat /\ gap \in Int /\ gap < MaxPages /\ page_count \in Nat /\ page_count \in 1..MaxPages
      /\ MaxPages \in Nat
  BY PageTypes DEF Inv, TypeOK, Labels
<1>3. /\ pc' \in [Threads -> Labels] /\ pc'[t] = "idle"
      /\ \A u \in Threads : pc'[u] \in {"idle", "grow"}
      /\ \A u \in Threads \ {t} : pc'[u] = pc[u]
  BY <1>1, <1>2 DEF Labels
<1>4. \A u \in Threads : ~ Installing(u) /\ ~ Installing(u)'
  BY <1>1, <1>3 DEF Installing
<1>5. \A i \in 0..gap : i \in Pages /\ i <= gap
  BY <1>2, PageTypes DEF Inv
<1>6. PageState'
  <2>1. \A i \in 0..gap : pages'[i] = "page"
    BY <1>1, <1>5 DEF Inv, PageState
  <2>2. gap < 2 * page_count
    BY <1>2 DEF Inv, PageState
  <2>3. gap + 1 < 2 * page_count => pages'[gap + 1] = "null"
    <3>1. gap + 1 < 2 * page_count => gap + 1 \in Pages
      BY <1>1, <1>2, PageTypes DEF Inv
    <3> QED
      BY <3>1, <1>1, <1>2
  <2>4. \A i \in Pages : i > gap => pages'[i] # "page"
    <3>1. \A i \in Pages : i \in Int
      BY <1>2 DEF Pages
    <3> QED
      BY <3>1, <1>1, <1>2
  <2> QED
    BY <2>1, <2>2, <2>3, <2>4, <1>1 DEF PageState, Pages
<1>7. FlagState'
  BY <1>1, <1>4 DEF Inv, FlagState, PageOf
<1>8. InstallState'
  BY <1>4 DEF InstallState
<1>9. BufferState' /\ LocationState' /\ FilledState'
  BY <1>1, <1>3, BuffersKept
<1>10. ScanState'
  BY <1>1, <1>3 DEF Inv, ScanState
<1>11. page_count' \in 1..MaxPages /\ pages' \in [Pages -> {"uninit", "null", "page"}]
  BY <1>1, <1>2
<1>12. TypeOK'
  BY <1>1, <1>3, <1>11 DEF Inv, TypeOK, Labels, Locations, Pages, Blocks
<1> QED
  BY <1>6, <1>7, <1>8, <1>9, <1>10, <1>12 DEF Inv

\* The table fails to grow.
LEMMA GrowFailedStep ==
  ASSUME Inv, NEW t \in Threads, GrowFailed(t)
  PROVE  Inv'
<1>1. /\ pc[t] = "grow" /\ pc' = [pc EXCEPT ![t] = "idle"]
      /\ UNCHANGED <<flags, filled, pages, page_count, gap, buffer, page, start, offset,
                     location>>
  BY DEF GrowFailed, Goto
<1>2. pc \in [Threads -> Labels] /\ gap \in Int
  BY PageTypes DEF Inv, TypeOK, Labels
<1>3. /\ pc' \in [Threads -> Labels] /\ pc'[t] = "idle"
      /\ \A u \in Threads \ {t} : pc'[u] = pc[u]
  BY <1>1, <1>2 DEF Labels
<1>4. PageState' /\ FlagState' /\ InstallState'
  BY <1>1, <1>3, PagesKept DEF Installing
<1>5. BufferState' /\ LocationState' /\ FilledState'
  BY <1>1, <1>3, BuffersKept
<1>6. ScanState'
  BY <1>1, <1>2, <1>3, ScanKept
<1>7. TypeOK'
  BY <1>1, <1>3 DEF Inv, TypeOK, Labels, Locations, Pages, Blocks
<1> QED
  BY <1>4, <1>5, <1>6, <1>7 DEF Inv

-----------------------------------------------------------------------------
\* AtomicDict_init allocates pages for the initial entries and one more.
LEMMA InitialPages ==
  ASSUME NEW len \in Nat
  PROVE  InitPages(len) \in Nat /\ len < InitPages(len) * EntriesInPage
<1> DEFINE size == IF (2 * len) % EntriesInPage = 0 THEN 2 * len + 1 ELSE 2 * len
           n == InitPages(len)
<1>1. size \in Nat /\ size > len
  <2>1. len = 0 => size = 1
    <3>1. 0 % EntriesInPage = 0
      BY ReservationAssumption
    <3> QED
      BY <3>1
  <2> QED
    BY <2>1
<1>2. n = (size + EntriesInPage - 1) \div EntriesInPage
  BY DEF InitPages
<1> HIDE DEF size, n
<1>3. size + EntriesInPage - 1 \in Int
  BY <1>1, ReservationAssumption
<1>4. PICK r \in 0..(EntriesInPage - 1) :
        n \in Int /\ size + EntriesInPage - 1 = EntriesInPage * n + r
  <2> DEFINE a == size + EntriesInPage - 1
  <2>1. a \in Int /\ EntriesInPage \in Nat \ {0}
    BY <1>3, ReservationAssumption
  <2> HIDE DEF a
  <2>2. /\ a \div EntriesInPage \in Int /\ a % EntriesInPage \in 0..(EntriesInPage - 1)
        /\ a = EntriesInPage * (a \div EntriesInPage) + (a % EntriesInPage)
    BY <2>1, DivMod
  <2> QED
    BY <2>2, <1>2 DEF a
<1>5. EntriesInPage * n >= size /\ n * EntriesInPage = EntriesInPage * n
  BY <1>1, <1>4, ReservationAssumption
<1>6. n >= 0
  BY <1>1, <1>4, <1>5, ReservationAssumption
<1> QED
  BY <1>1, <1>4, <1>5, <1>6, ReservationAssumption DEF n

\* The initialising thread gets the rest of the block of the last initial entry.
LEMMA InitialBuffer ==
  ASSUME NEW len \in Nat, len = 0 \/ (len + 1) % BufferSize # 0,
         InitPages(len) <= MaxPages
  PROVE  LET rb == InitBuffer(len) IN
         /\ rb \in Buffers /\ rb.used = 0 /\ rb.start = len + 1
         /\ rb.size > 0 =>
              /\ PageOf(len + 1) < InitPages(len)
              /\ FlagOf(len + 1) \in 0..len
              /\ len + 1 + rb.size <= FlagOf(len + 1) + BufferSize
<1> DEFINE rb == InitBuffer(len)
           r == (len + 1) % BufferSize
           n == InitPages(len) * EntriesInPage
<1>1. InitPages(len) \in Nat /\ n \in Nat /\ len < n
  BY InitialPages, ReservationAssumption
<1>2. /\ len + 1 \in Nat /\ r \in 0..(BufferSize - 1)
      /\ FlagOf(len + 1) \in Nat
      /\ len + 1 = FlagOf(len + 1) + r
  <2>1. len + 1 \in Int
    OBVIOUS
  <2>2. r \in 0..(BufferSize - 1) /\ len + 1 = BufferSize * ((len + 1) \div BufferSize) + r
    BY <2>1, DivMod, ReservationAssumption
  <2>3. FlagOf(len + 1) \in Nat
    BY BlockBounds
  <2> QED
    BY <2>2, <2>3 DEF FlagOf, BlockOf
<1>3. FlagOf(n) = n /\ n \in Nat
  BY <1>1, FirstOfPage
<1> HIDE DEF r, n
<1>4. CASE len = 0 /\ (len + 1) % BufferSize = 0
  <2>1. rb = [start |-> 1, size |-> BufferSize - 1, used |-> 0]
    BY <1>4 DEF InitBuffer, FullBuffer
  <2>2. BufferSize = 1
    <3>1. FlagOf(1) = 1
      BY <1>4, BlockBounds
    <3>2. 1 = BufferSize * BlockOf(1) /\ BlockOf(1) \in Nat
      BY <3>1, BlockBounds DEF FlagOf
    <3> QED
      BY <3>2, ReservationAssumption
  <2>3. 1 \in Locations
    <3>1. MaxPages * EntriesInPage >= 2
      BY ReservationAssumption
    <3> QED
      BY <3>1, ReservationAssumption DEF Locations
  <2> QED
    BY <1>4, <2>1, <2>2, <2>3 DEF Buffers
<1>5. CASE (len + 1) % BufferSize # 0
  <2>1. r > 0 /\ r = (len + 1) % BufferSize
    BY <1>2, <1>5 DEF r
  <2>2. FlagOf(len + 1) \in 0..len /\ FlagOf(len + 1) + BufferSize = len + 1 + (BufferSize - r)
    BY <1>2, <2>1, ReservationAssumption
  <2>3. len + 1 < n
    <3>1. len + 1 # n
      BY <1>2, <1>3, <2>1
    <3> QED
      BY <1>1, <1>3, <3>1
  <2>4. PageOf(len + 1) < InitPages(len)
    BY <2>3, <1>1, <1>2, PageBounds DEF n
  <2>5. len + 1 \in Locations
    <3>1. PageOf(len + 1) \in Nat
      BY <1>2, PageBounds
    <3> QED
      BY <2>4, <3>1, <1>1, <1>2, LocationBounds, ReservationAssumption
  <2>6. PICK z \in 0..BufferSize :
          rb = [start |-> len + 1, size |-> z, used |-> 0] /\ z <= BufferSize - r
    <3>1. CASE len = 0
      <4>1. rb = [start |-> 1, size |-> BufferSize - 1, used |-> 0]
        BY <3>1 DEF InitBuffer, FullBuffer
      <4>2. r = 1
        BY <1>2, <2>1, <2>2, <3>1
      <4>3. BufferSize - 1 \in 0..BufferSize
        BY ReservationAssumption
      <4> QED
        BY <3>1, <4>1, <4>2, <4>3
    <3>2. CASE len # 0
      <4> DEFINE a == BufferSize - r
                 b == n - 1 - len
                 z == Min({a, b})
      <4>1. a \in Nat /\ b \in Nat /\ a <= BufferSize
        BY <1>2, <1>3, <2>3, ReservationAssumption
      <4>2. rb = [start |-> len + 1, size |-> z, used |-> 0]
        BY <3>2, <2>1 DEF InitBuffer, FullBuffer, n
      <4> HIDE DEF a, b
      <4>3. z \in {a, b} /\ \A y \in {a, b} : z <= y
        <5>1. \E x \in {a, b} : \A y \in {a, b} : x <= y
          <6>1. CASE a <= b
            BY <4>1, <6>1
          <6>2. CASE b <= a
            BY <4>1, <6>2
          <6> QED
            BY <4>1, <6>1, <6>2
        <5> QED
          BY <5>1 DEF Min
      <4> HIDE DEF z
      <4>4. z \in 0..BufferSize /\ z <= BufferSize - r
        BY <4>1, <4>3, ReservationAssumption DEF a
      <4> QED
        BY <4>2, <4>4
    <3> QED
      BY <3>1, <3>2
  <2>7. rb \in Buffers /\ rb.used = 0 /\ rb.start = len + 1 /\ rb.size = z
    BY <2>5, <2>6, ReservationAssumption DEF Buffers
  <2>8. len + 1 + z <= FlagOf(len + 1) + BufferSize
    BY <1>2, <2>2, <2>6, ReservationAssumption
  <2> QED
    BY <2>2, <2>4, <2>7, <2>8
<1> QED
  BY <1>4, <1>5

\* What __init__ leaves satisfies the invariant.
LEMMA InitIsGood ==
  ASSUME NoLenFillsItsBlock, Init
  PROVE  Inv
<1>1. PICK len \in InitialLens, creator \in Threads :
        /\ flags = 0..len
        /\ filled = 1..len
        /\ page_count = InitPageCount(len)
        /\ gap = InitPages(len) - 1
        /\ pages = [i \in Pages |-> IF i < InitPages(len) THEN "page"
                                    ELSE IF i = InitPages(len) /\ i < InitPageCount(len)
                                    THEN "null" ELSE "uninit"]
        /\ buffer = [t \in Threads |-> IF t = creator THEN InitBuffer(len) ELSE NoBuffer]
        /\ pc = [t \in Threads |-> "idle"]
        /\ page = [t \in Threads |-> 0]
        /\ start = [t \in Threads |-> 0]
        /\ offset = [t \in Threads |-> 0]
        /\ location = [t \in Threads |-> 0]
  BY DEF Init
<1> DEFINE n == InitPages(len)
           c == InitPageCount(len)
           rb == InitBuffer(len)
<1>2. /\ len \in Nat /\ n \in Nat /\ len < n * EntriesInPage
      /\ c \in n..MaxPages /\ MaxPages \in Nat
  BY InitialPages, InitialLensFit, ReservationAssumption
<1>3. n > 0
  BY <1>2, ReservationAssumption
<1>4. /\ c \in Nat /\ n <= c /\ c <= MaxPages
  BY <1>2
<1>5. /\ rb \in Buffers /\ rb.used = 0 /\ rb.start = len + 1
      /\ rb.size > 0 =>
           /\ PageOf(len + 1) < n
           /\ FlagOf(len + 1) \in 0..len
           /\ len + 1 + rb.size <= FlagOf(len + 1) + BufferSize
  BY <1>2, <1>4, InitialBuffer DEF NoLenFillsItsBlock
<1>6. \A e \in 0..len :
        /\ e \in Nat /\ PageOf(e) \in Nat /\ PageOf(e) < n
        /\ FlagOf(e) \in 0..len /\ e \in Locations
  <2> SUFFICES ASSUME NEW e \in 0..len
               PROVE  /\ e \in Nat /\ PageOf(e) \in Nat /\ PageOf(e) < n
                      /\ FlagOf(e) \in 0..len /\ e \in Locations
    OBVIOUS
  <2> HIDE DEF n, c
  <2>1. e \in Nat
    BY <1>2
  <2>2. e < n * EntriesInPage
    BY <1>2, <2>1, ReservationAssumption
  <2>3. PageOf(e) \in Nat /\ PageOf(e) < n
    BY <1>2, <2>1, <2>2, PageBounds
  <2>4. FlagOf(e) \in 0..len
    BY <1>2, <2>1, BlockBounds
  <2>5. e \in Locations
    BY <1>2, <1>4, <2>1, <2>3, LocationBounds
  <2> QED
    BY <2>1, <2>3, <2>4, <2>5
<1> HIDE DEF n, c, rb
<1>7. /\ buffer = [t \in Threads |-> IF t = creator THEN rb ELSE NoBuffer]
      /\ gap = n - 1 /\ page_count = c
      /\ pages = [i \in Pages |-> IF i < n THEN "page"
                                  ELSE IF i = n /\ i < c THEN "null" ELSE "uninit"]
  BY <1>1 DEF n, c, rb
<1>8. \A i \in Int : i \in Pages <=> 0 <= i /\ i < MaxPages
  BY <1>2 DEF Pages
<1>9. TypeOK
  <2>1. 0 \in Blocks
    BY ReservationAssumption DEF Blocks
  <2>2. 0 \in Locations /\ 0 \in Pages /\ 0 \in 0..EntriesInPage
    BY <1>2, <1>4, <1>6, <1>8, ReservationAssumption
  <2>3. NoBuffer \in Buffers
    BY <2>2, ReservationAssumption DEF NoBuffer, Buffers
  <2>4. buffer \in [Threads -> Buffers]
    BY <2>3, <1>5, <1>7
  <2>5. gap \in Pages /\ page_count \in 1..MaxPages
    BY <1>2, <1>3, <1>4, <1>7, <1>8
  <2>6. flags \subseteq Locations /\ filled \subseteq Locations
    <3>1. \A e \in 1..len : e \in 0..len
      BY <1>2
    <3> QED
      BY <1>1, <1>6, <3>1
  <2> QED
    BY <1>1, <1>7, <2>1, <2>2, <2>4, <2>5, <2>6 DEF TypeOK, Buffers
<1>10. \A t \in Threads : ~ Installing(t)
  BY <1>1 DEF Installing
<1>11. PageState
  <2>1. gap < page_count /\ \A i \in 0..gap : i \in Pages /\ i < n
    BY <1>2, <1>4, <1>7, <1>8
  <2>2. \A i \in Pages : i \in Int
    BY <1>2 DEF Pages
  <2>3. n < c => n \in Pages
    BY <1>2, <1>4, <1>8
  <2>4. gap + 1 = n
    BY <1>2, <1>7
  <2> QED
    BY <2>1, <2>2, <2>3, <2>4, <1>2, <1>4, <1>7 DEF PageState
<1>12. FlagState
  BY <1>1, <1>2, <1>6, <1>7 DEF FlagState
<1>13. ScanState
  <2>1. 0 % BufferSize = 0
    BY ReservationAssumption
  <2> QED
    BY <2>1, <1>1 DEF ScanState
<1>14. InstallState
  BY <1>10 DEF InstallState
<1>15. BufferState
  <2>1. NoBuffer.size = 0 /\ NoBuffer.used = 0
    BY DEF NoBuffer
  <2>2. 0 <= rb.size
    BY <1>5, BufferTypes
  <2>3. rb.size > 0 =>
          /\ rb.start > 0 /\ PageOf(rb.start) <= gap /\ FlagOf(rb.start) \in flags
          /\ rb.start + rb.size <= FlagOf(rb.start) + BufferSize
    <3>1. PageOf(len + 1) \in Nat
      BY <1>2, PageBounds
    <3> QED
      BY <3>1, <1>1, <1>2, <1>5, <1>7
  <2> QED
    BY <2>1, <2>2, <2>3, <1>5, <1>7 DEF BufferState
<1>16. LocationState
  BY <1>1 DEF LocationState
<1>17. FilledState
  <2> SUFFICES ASSUME NEW e \in filled
               PROVE  /\ e > 0 /\ PageOf(e) <= gap /\ FlagOf(e) \in flags
                      /\ \A t \in Threads : e \notin Remaining(buffer[t])
    BY <1>1 DEF FilledState
  <2>1. e \in 0..len /\ e > 0 /\ e <= len
    BY <1>1, <1>2
  <2>2. PageOf(e) <= gap /\ FlagOf(e) \in flags
    <3>1. PageOf(e) \in Nat /\ PageOf(e) < n /\ FlagOf(e) \in 0..len
      BY <2>1, <1>6
    <3> QED
      BY <3>1, <1>1, <1>2, <1>7
  <2>3. e \notin Remaining(rb)
    <3>1. rb.size \in Nat
      BY <1>5, BufferTypes
    <3> QED
      BY <2>1, <3>1, <1>2, <1>5 DEF Remaining
  <2>4. e \notin Remaining(NoBuffer)
    BY <2>1 DEF Remaining, NoBuffer
  <2> QED
    BY <2>1, <2>2, <2>3, <2>4, <1>7
<1> QED
  BY <1>9, <1>11, <1>12, <1>13, <1>14, <1>15, <1>16, <1>17 DEF Inv

\* A step that changes nothing.
LEMMA Stutter ==
  ASSUME Inv, UNCHANGED vars
  PROVE  Inv'
  BY DEF vars, Inv, TypeOK, PageState, FlagState, ScanState, InstallState, BufferState,
         LocationState, FilledState, Installing, Remaining, FlagOf, BlockOf, PageOf,
         Locations, Pages, Blocks

\* The invariant holds in every reachable state.
LEMMA InvHolds ==
  NoLenFillsItsBlock => (Spec => []Inv)
<1>1. NoLenFillsItsBlock /\ Init => Inv
  BY InitIsGood
<1>2. Inv /\ [Next]_vars => Inv'
  <2> SUFFICES ASSUME Inv, [Next]_vars PROVE Inv'
    OBVIOUS
  <2>1. CASE UNCHANGED vars
    BY <2>1, Stutter
  <2>2. ASSUME NEW t \in Threads, PopEntry(t) PROVE Inv'
    BY <2>2, PopEntryStep
  <2>3. ASSUME NEW t \in Threads, NEW block \in Blocks, BeginReserve(t, block) PROVE Inv'
    BY <2>3, BeginReserveStep
  <2>4. ASSUME NEW t \in Threads, Step(t) PROVE Inv'
    BY <2>4, TryBlockStep, PageIsFullStep, AllocPageStep, InitNextPageStep,
       AnnouncePageStep, FillEntryStep, PublishStep, PutBackStep DEF Step
  <2>5. ASSUME NEW t \in Threads, Grow(t) \/ GrowFailed(t) PROVE Inv'
    BY <2>5, GrowStep, GrowFailedStep
  <2> QED
    BY <2>1, <2>2, <2>3, <2>4, <2>5 DEF Next
<1> QED
  BY <1>1, <1>2, PTL DEF Spec

\* get_empty_entry returns a blank entry other than entry 0 of an allocated page,
\* whatever the number of threads and the sizes, as its closing assertions say.
THEOREM EntriesAreBlank ==
  NoLenFillsItsBlock => (Spec => []EmptyEntryIsBlank)
<1>1. Inv => EmptyEntryIsBlank
  <2> SUFFICES ASSUME Inv, NEW t \in Threads, pc[t] = "fill"
               PROVE  location[t] \notin filled /\ location[t] > 0 /\ PageOf(location[t]) <= gap
    BY DEF EmptyEntryIsBlank
  <2>1. location[t] \notin filled
    BY DEF Inv, FilledState
  <2> QED
    BY <2>1, Held, InBuffer
<1> QED
  BY <1>1, InvHolds, PTL

\* No entry is handed out by two threads, or after it was published: the one flag
\* per block that reserve_entry_in_inserting_page raises is enough.
THEOREM ReservationsAreExclusive ==
  NoLenFillsItsBlock => (Spec => []ReservedOnce)
<1>1. Inv => ReservedOnce
  <2> SUFFICES ASSUME Inv, NEW t \in Threads, NEW u \in Threads
               PROVE  /\ t # u => Remaining(buffer[t]) \cap Remaining(buffer[u]) = {}
                      /\ Remaining(buffer[t]) \cap filled = {}
                      /\ location[u] \notin Remaining(buffer[t])
                      /\ t # u /\ location[t] # 0 => location[t] # location[u]
    BY DEF ReservedOnce, Inv
  <2>1. \A v \in Threads : \A e \in Remaining(buffer[v]) :
          e \in Int /\ buffer[v].start <= e /\ e < buffer[v].start + buffer[v].size
          /\ e >= buffer[v].start + buffer[v].used
    <3> SUFFICES ASSUME NEW v \in Threads, NEW e \in Remaining(buffer[v])
                 PROVE  e \in Int /\ buffer[v].start <= e
                        /\ e < buffer[v].start + buffer[v].size
                        /\ e >= buffer[v].start + buffer[v].used
      OBVIOUS
    <3>1. buffer[v].start \in Nat /\ buffer[v].size \in Nat /\ buffer[v].used \in Nat
      BY BufferTypes DEF Inv, TypeOK, Buffers
    <3> QED
      BY <3>1 DEF Remaining
  <2>2. ASSUME t # u, NEW e \in Remaining(buffer[t]), e \in Remaining(buffer[u])
        PROVE  FALSE
    <3>1. /\ BlockOf(e) = BlockOf(buffer[t].start) /\ buffer[t].size > 0
          /\ BlockOf(e) = BlockOf(buffer[u].start) /\ buffer[u].size > 0
      BY <2>1, <2>2, InBuffer
    <3> QED
      BY <2>2, <3>1 DEF Inv, BufferState
  <2>3. Remaining(buffer[t]) \cap filled = {}
    BY DEF Inv, FilledState
  <2>4. location[u] \notin Remaining(buffer[t])
    <3> SUFFICES ASSUME location[u] \in Remaining(buffer[t]) PROVE FALSE
      OBVIOUS
    <3>1. /\ location[u] \in Int /\ buffer[t].start <= location[u]
          /\ location[u] < buffer[t].start + buffer[t].size
          /\ location[u] >= buffer[t].start + buffer[t].used
          /\ location[u] > 0
      BY <2>1, InBuffer
    <3>2. pc[u] \in {"fill", "insert"}
      BY <3>1 DEF Inv, LocationState
    <3>3. CASE u = t
      <4>1. location[t] < buffer[t].start + buffer[t].used
        BY <3>2, <3>3, Held
      <4>2. buffer[t].start \in Nat /\ buffer[t].used \in Nat
        BY BufferTypes DEF Inv, TypeOK, Buffers
      <4> QED
        BY <3>1, <3>3, <4>1, <4>2
    <3>4. CASE u # t
      BY <3>1, <3>2, <3>4, HeldOnce
    <3> QED
      BY <3>3, <3>4
  <2>5. ASSUME t # u, location[t] # 0, location[t] = location[u] PROVE FALSE
    <3>1. pc[t] \in {"fill", "insert"} /\ pc[u] \in {"fill", "insert"}
      BY <2>5 DEF Inv, LocationState
    <3>2. /\ location[u] \in Int /\ buffer[u].start <= location[u]
          /\ location[u] < buffer[u].start + buffer[u].size
      BY <3>1, Held
    <3> QED
      BY <2>5, <3>1, <3>2, HeldOnce
  <2> QED
    BY <2>2, <2>3, <2>4, <2>5
<1> QED
  BY <1>1, InvHolds, PTL

\* Entries and pages that are used are allocated, and the pointer that reserve_entry
\* compares with NULL was initialised by whoever allocated the page before.
THEOREM PagesExist ==
  NoLenFillsItsBlock => (Spec => []PagesAreAllocated)
<1>1. Inv => PagesAreAllocated
  <2> SUFFICES ASSUME Inv
               PROVE  /\ \A i \in 0..gap : pages[i] = "page"
                      /\ \A t \in Threads :
                           /\ \A e \in Remaining(buffer[t]) : pages[PageOf(e)] = "page"
                           /\ pc[t] = "reserve" => page[t] <= gap
                           /\ pc[t] = "alloc" => pages[page[t] + 1] # "uninit"
    BY DEF PagesAreAllocated
  <2>1. \A i \in 0..gap : pages[i] = "page"
    BY DEF Inv, PageState
  <2>2. ASSUME NEW t \in Threads, NEW e \in Remaining(buffer[t])
        PROVE  pages[PageOf(e)] = "page"
    <3>1. buffer[t].start \in Nat /\ buffer[t].size \in Nat /\ buffer[t].used \in Nat
      BY BufferTypes DEF Inv, TypeOK, Buffers
    <3>2. e \in Int /\ buffer[t].start <= e /\ e < buffer[t].start + buffer[t].size
      BY <3>1 DEF Remaining
    <3>3. e \in Nat /\ PageOf(e) <= gap
      BY <3>2, InBuffer
    <3>4. PageOf(e) \in Nat /\ gap \in Nat
      BY <3>3, PageBounds, PageTypes DEF Inv
    <3> QED
      BY <2>1, <3>3, <3>4
  <2>3. ASSUME NEW t \in Threads, pc[t] = "alloc"
        PROVE  pages[page[t] + 1] # "uninit"
    <3>1. page[t] <= gap /\ page[t] + 1 < page_count
      BY <2>3 DEF Inv, ScanState
    <3>2. page[t] \in Nat /\ gap \in Nat /\ page_count \in Nat
      BY PageTypes DEF Inv
    <3>3. page[t] + 1 \in 0..gap \/ page[t] + 1 = gap + 1
      BY <3>1, <3>2
    <3> QED
      BY <2>1, <3>1, <3>3 DEF Inv, PageState
  <2> QED
    BY <2>1, <2>2, <2>3 DEF Inv, ScanState
<1> QED
  BY <1>1, InvHolds, PTL
=============================================================================
