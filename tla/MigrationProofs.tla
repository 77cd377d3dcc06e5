-------------------------- MODULE MigrationProofs --------------------------
(***************************************************************************)
(* Blocks that are migrated side by side give a complete and searchable    *)
(* index, for every size of the index and of the blocks, every index that  *)
(* inserts and deletes can build and every interleaving.                   *)
(*                                                                         *)
(* The argument.  A thread goes round the index without taking slots       *)
(* modulo its size: the slots from the first empty one of its block to the *)
(* first empty one after it are the block's territory, and the territories *)
(* of different blocks share no slot.  The node in old slot u goes to new  *)
(* slots between its home and 2 * u + 1, because 2 * u and 2 * u + 1 are   *)
(* still empty when its turn comes; and its home lies in the territory,    *)
(* because no slot between a node and its home is empty.  So all that a    *)
(* thread writes or relies on is in its territory, and what it clears is   *)
(* in its territory, too, or belongs to an empty old slot, next to which   *)
(* nothing is ever written.                                                *)
(***************************************************************************)
EXTENDS Migration, FiniteSetTheorems, WellFoundedInduction, TLAPS

\* The territory of block b begins at its first empty slot and ends at the
\* first one after the block.
HasEmpty(b) == Empties(b, EndOf(b) - 1) # {}
First(b) == Min(Empties(b, EndOf(b) - 1))
Last(b) == Min(Empties(EndOf(b), EndOf(b) + Size - 1))
Owns(b, u) == HasEmpty(b) /\ u \in First(b)..(Last(b) - 1)

\* Where the hash of the node in old slot u leads, u slots on.
Distance(u) == OldSlot(u - (OldNode(u).hash \div 2))
Home(u) == 2 * (u - Distance(u)) + (OldNode(u).hash % 2)

\* The new slot p, not taken modulo the size.
At(p) == new[NewSlot(p)]

\* The thread of block b has been at old slot u.
Passed(b, u) == HasEmpty(b) /\ pc[b] # "start" /\ u \in First(b)..(i[b] - 1)
Moved(b, u) == Passed(b, u) /\ IsNode(OldNode(u))

\* The node of old slot u is in new slot p, where a lookup finds it.
Seated(u, p) ==
  /\ p \in Home(u)..(2 * u + 1)
  /\ At(p) = Node(OldSlot(u), OldNode(u).hash, p - Home(u))
  /\ \A r \in Home(u)..p : At(r) # EMPTY

\* The old index, which does not change.
OldState ==
  /\ \E s \in Slots : old[s] = EMPTY
  /\ \A s \in Slots : IsNode(old[s]) =>
       /\ old[s].id = s
       /\ old[s].hash \in NewSlots
       /\ old[s].distance = Cap(OldSlot(s - (old[s].hash \div 2)))
       /\ \A d \in 0..OldSlot(s - (old[s].hash \div 2)) : old[OldSlot(s - d)] # EMPTY

Types ==
  /\ new \in [NewSlots -> {EMPTY, GARBAGE}
                            \cup [id : Slots, hash : NewSlots, distance : 0..MaxDistance]]
  /\ pc \in [BlocksOf -> {"start", "block", "tail", "done"}]
  /\ i \in [BlocksOf -> Nat]
  /\ count \in [BlocksOf -> Nat]

ThreadState ==
  \A b \in BlocksOf :
    /\ pc[b] = "start" \/ ~HasEmpty(b) => i[b] = b /\ count[b] = 0
    /\ pc[b] = "block" => HasEmpty(b) /\ i[b] \in First(b)..EndOf(b)
    /\ pc[b] = "tail" => HasEmpty(b) /\ i[b] \in EndOf(b)..Last(b)
    /\ pc[b] = "done" /\ HasEmpty(b) => i[b] = Last(b)
    /\ pc[b] # "start" /\ HasEmpty(b) => count[b] <= i[b] - First(b)

\* What a thread has cleared stays initialised.
Cleared ==
  \A b \in BlocksOf : HasEmpty(b) /\ pc[b] # "start" =>
    \A p \in (2 * First(b))..(IF pc[b] = "block" THEN 2 * EndOf(b) + 1 ELSE 2 * Last(b) - 1) :
      At(p) # GARBAGE

\* A node that has been migrated is in the new index, in one place, ...
Placed ==
  \A b \in BlocksOf : \A u \in Nat : Moved(b, u) => \E p \in Nat : Seated(u, p)
Once ==
  \A b \in BlocksOf : \A u, p, q \in Nat :
    Moved(b, u) /\ Seated(u, p) /\ Seated(u, q) => p = q

\* ... and nothing else is.
Source ==
  \A s \in NewSlots : IsNode(new[s]) =>
    \E b \in BlocksOf : \E u, p \in Nat : Moved(b, u) /\ Seated(u, p) /\ NewSlot(p) = s

\* The old slots whose nodes have been migrated, and how many have been counted.
MovedSlots ==
  {s \in Slots : IsNode(old[s]) /\ \E b \in BlocksOf : \E u \in Nat : Passed(b, u) /\ OldSlot(u) = s}
CountState == Cardinality(Counted) = Cardinality(MovedSlots)

Inv ==
  /\ OldState
  /\ Types
  /\ ThreadState
  /\ Cleared
  /\ Placed
  /\ Once
  /\ Source
  /\ CountState
-----------------------------------------------------------------------------
\* Every set of numbers has a least one.
LEMMA LeastElement ==
  ASSUME NEW T \in SUBSET Nat, T # {}
  PROVE  Min(T) \in T /\ \A y \in T : Min(T) <= y
<1> DEFINE R == OpToRel(<, Nat)
<1>1. IsWellFoundedOn(R, Nat)
  BY NatLessThanWellFounded
<1>2. \A x, y \in Nat : x < y => <<x, y>> \in R
  BY DEF OpToRel
<1> HIDE DEF R
<1>3. PICK x \in T : \A y \in Nat : <<y, x>> \in R => y \notin T
  BY <1>1, WFMin
<1>4. \A y \in T : x <= y
  <2> SUFFICES ASSUME NEW y \in T PROVE ~(y < x)
    OBVIOUS
  <2>1. x \in Nat /\ y \in Nat
    OBVIOUS
  <2> QED
    BY <2>1, <1>2, <1>3, Zenon
<1> QED
  BY <1>4 DEF Min

\* Division by a positive number, as an equation and bounds.
LEMMA DivMod ==
  ASSUME NEW a \in Int, NEW m \in Nat \ {0}
  PROVE  /\ a \div m \in Int
         /\ a % m \in 0..(m - 1)
         /\ a = m * (a \div m) + (a % m)
  OBVIOUS

\* The remainder, from the equation and the bounds.
LEMMA Remainder ==
  ASSUME NEW m \in Nat \ {0}, NEW k \in Int, NEW r \in 0..(m - 1)
  PROVE  (m * k + r) % m = r
<1> DEFINE a == m * k + r
<1>1. a \in Int
  OBVIOUS
<1>2. PICK p \in Int, s \in 0..(m - 1) : p = a \div m /\ s = a % m /\ a = m * p + s
  BY <1>1, DivMod
<1>3. m * (p - k) = r - s
  BY <1>2
<1>4. r - s < m /\ s - r < m
  OBVIOUS
<1>5. ~ (p - k >= 1)
  BY <1>3, <1>4
<1>6. ~ (p - k <= -1)
  BY <1>3, <1>4
<1>7. p = k
  BY <1>5, <1>6
<1> QED
  BY <1>2, <1>3, <1>7

\* Remainders near zero.
LEMMA SmallMod ==
  ASSUME NEW m \in Nat \ {0}, NEW x \in Int, -m <= x, x < 2 * m
  PROVE  x % m = IF x < 0 THEN x + m ELSE IF x < m THEN x ELSE x - m
<1>1. CASE x < 0
  <2>1. (m * (-1) + (x + m)) % m = x + m
    BY <1>1, Remainder
  <2>2. m * (-1) + (x + m) = x
    OBVIOUS
  <2> QED
    BY <1>1, <2>1, <2>2
<1>2. CASE x >= 0 /\ x < m
  <2>1. (m * 0 + x) % m = x
    BY <1>2, Remainder
  <2>2. m * 0 + x = x
    OBVIOUS
  <2> QED
    BY <1>2, <2>1, <2>2
<1>3. CASE x >= m
  <2>1. (m * 1 + (x - m)) % m = x - m
    BY <1>3, Remainder
  <2>2. m * 1 + (x - m) = x
    OBVIOUS
  <2> QED
    BY <1>3, <2>1, <2>2
<1> QED
  BY <1>1, <1>2, <1>3

\* Old slots of the first two rounds.
LEMMA OldMod ==
  \A x \in Int : -Size <= x /\ x < 2 * Size =>
    /\ OldSlot(x) = IF x < 0 THEN x + Size ELSE IF x < Size THEN x ELSE x - Size
    /\ OldSlot(x) \in Slots /\ OldSlot(x) \in Nat
<1> SUFFICES ASSUME NEW x \in Int, -Size <= x, x < 2 * Size
             PROVE  /\ x % Size = IF x < 0 THEN x + Size ELSE IF x < Size THEN x ELSE x - Size
                    /\ x % Size \in Slots /\ x % Size \in Nat
  BY DEF OldSlot
<1>1. Size \in Nat \ {0}
  BY MigrationAssumption
<1>2. x % Size = IF x < 0 THEN x + Size ELSE IF x < Size THEN x ELSE x - Size
  BY <1>1, SmallMod
<1> QED
  BY <1>1, <1>2 DEF Slots

\* New slots of the first two rounds.
LEMMA NewMod ==
  \A x \in Int : -2 * Size <= x /\ x < 4 * Size =>
    /\ NewSlot(x) = IF x < 0 THEN x + 2 * Size ELSE IF x < 2 * Size THEN x ELSE x - 2 * Size
    /\ NewSlot(x) \in NewSlots /\ NewSlot(x) \in Nat
<1> SUFFICES ASSUME NEW x \in Int, -2 * Size <= x, x < 4 * Size
             PROVE  /\ x % (2 * Size) = IF x < 0 THEN x + 2 * Size
                                        ELSE IF x < 2 * Size THEN x ELSE x - 2 * Size
                    /\ x % (2 * Size) \in NewSlots /\ x % (2 * Size) \in Nat
  BY DEF NewSlot
<1>1. PICK m \in Nat \ {0} : m = 2 * Size
  BY MigrationAssumption
<1>2. -m <= x /\ x < 2 * m
  BY <1>1, MigrationAssumption
<1>3. x % m = IF x < 0 THEN x + m ELSE IF x < m THEN x ELSE x - m
  BY <1>2, SmallMod
<1> QED
  BY <1>1, <1>2, <1>3 DEF NewSlots

\* A new slot belongs to the old slot of half its number, in every round.
LEMMA HalfMod ==
  \A x \in Nat : x < 4 * Size =>
    /\ x \div 2 \in Nat /\ x \div 2 < 2 * Size
    /\ 2 * (x \div 2) <= x /\ x <= 2 * (x \div 2) + 1
    /\ OldSlot(x \div 2) = NewSlot(x) \div 2
<1> SUFFICES ASSUME NEW x \in Nat, x < 4 * Size
             PROVE  /\ x \div 2 \in Nat /\ x \div 2 < 2 * Size
                    /\ 2 * (x \div 2) <= x /\ x <= 2 * (x \div 2) + 1
                    /\ OldSlot(x \div 2) = NewSlot(x) \div 2
  OBVIOUS
<1>1. Size \in Nat \ {0}
  BY MigrationAssumption
<1>2. NewSlot(x) = IF x < 2 * Size THEN x ELSE x - 2 * Size
  BY <1>1, NewMod
<1>3. PICK y \in Nat : y = x \div 2 /\ y < 2 * Size /\ 2 * y <= x /\ x <= 2 * y + 1
  BY <1>1
<1>4. OldSlot(y) = IF y < Size THEN y ELSE y - Size
  BY <1>1, <1>3, OldMod
<1> QED
  BY <1>1, <1>2, <1>3, <1>4

\* A node's home, taken modulo the new size, is its hash.
LEMMA HomeMod ==
  ASSUME NEW u \in Nat, u < 2 * Size, NEW h \in NewSlots
  PROVE  LET d == OldSlot(u - (h \div 2)) IN
         /\ d \in 0..(Size - 1)
         /\ OldSlot(OldSlot(u) - (h \div 2)) = d
         /\ u - d >= 0 => NewSlot(2 * (u - d) + (h % 2)) = h
<1>1. Size \in Nat \ {0} /\ h \in 0..(2 * Size - 1)
  BY MigrationAssumption DEF NewSlots
<1>2. PICK g \in 0..(Size - 1), c \in 0..1 : g = h \div 2 /\ c = h % 2 /\ h = 2 * g + c
  BY <1>1
<1>3. PICK d \in 0..(Size - 1) : d = OldSlot(u - g)
  BY <1>1, <1>2, OldMod DEF Slots
<1>4. d = IF u - g < 0 THEN u - g + Size ELSE IF u - g < Size THEN u - g ELSE u - g - Size
  BY <1>1, <1>2, <1>3, OldMod
<1>5. PICK s \in 0..(Size - 1) : s = OldSlot(u) /\ s = IF u < Size THEN u ELSE u - Size
  BY <1>1, OldMod DEF Slots
<1>6. OldSlot(s - g) = IF s - g < 0 THEN s - g + Size ELSE s - g
  BY <1>1, <1>2, <1>5, OldMod
<1>7. OldSlot(s - g) = d
  BY <1>1, <1>4, <1>5, <1>6
<1>8. ASSUME u - d >= 0
      PROVE  NewSlot(2 * (u - d) + c) = h
  <2>1. PICK x \in Nat : x = 2 * (u - d) + c /\ x < 4 * Size
    BY <1>1, <1>4, <1>8
  <2>2. NewSlot(x) = IF x < 2 * Size THEN x ELSE x - 2 * Size
    BY <1>1, <2>1, NewMod
  <2> QED
    BY <1>1, <1>2, <1>4, <2>1, <2>2
<1> QED
  BY <1>2, <1>3, <1>5, <1>7, <1>8
-----------------------------------------------------------------------------
\* Blocks do not overlap and fit the index.
LEMMA BlockBounds ==
  ASSUME NEW b \in BlocksOf
  PROVE  /\ b \in Nat /\ EndOf(b) \in Nat /\ b < EndOf(b) /\ EndOf(b) <= Size
         /\ \A c \in BlocksOf : b < c => EndOf(b) <= c
<1>1. /\ Size \in Nat \ {0} /\ BlockSize \in Nat \ {0}
      /\ Size = BlockSize * (Size \div BlockSize) + 0 /\ Size \div BlockSize \in Int
  BY MigrationAssumption, DivMod
<1>2. PICK n \in Int : Size = BlockSize * n
  BY <1>1
<1>3. \A c \in BlocksOf : \E k \in Int : c \in Nat /\ c < Size /\ c = BlockSize * k
  <2> SUFFICES ASSUME NEW c \in BlocksOf
               PROVE  \E k \in Int : c \in Nat /\ c < Size /\ c = BlockSize * k
    OBVIOUS
  <2>1. c \in Nat /\ c < Size /\ c % BlockSize = 0
    BY <1>1 DEF BlocksOf, Slots
  <2>2. c = BlockSize * (c \div BlockSize) + 0 /\ c \div BlockSize \in Int
    BY <1>1, <2>1, DivMod
  <2> QED
    BY <1>1, <2>1, <2>2
<1>4. ASSUME NEW j \in Int, NEW k \in Int, BlockSize * j < BlockSize * k
      PROVE  BlockSize * j + BlockSize <= BlockSize * k
  <2>1. j < k
    BY <1>1, <1>4
  <2>2. PICK e \in Nat : k = j + 1 + e
    <3>1. k - j - 1 \in Nat /\ k = j + 1 + (k - j - 1)
      BY <2>1
    <3> QED
      BY <3>1
  <2>3. BlockSize * k = BlockSize * j + BlockSize + BlockSize * e /\ BlockSize * e >= 0
    BY <1>1, <2>2
  <2> QED
    BY <1>1, <2>3
<1>5. PICK j \in Int : b \in Nat /\ b < Size /\ b = BlockSize * j
  BY <1>3
<1>6. b + BlockSize <= Size
  BY <1>2, <1>4, <1>5
<1>7. \A c \in BlocksOf : b < c => b + BlockSize <= c
  BY <1>3, <1>4, <1>5
<1> QED
  BY <1>1, <1>5, <1>6, <1>7 DEF EndOf

\* Every slot is in a block.
LEMMA InBlock ==
  ASSUME NEW e \in Slots
  PROVE  \E b \in BlocksOf : b <= e /\ e < EndOf(b)
<1>1. /\ Size \in Nat \ {0} /\ BlockSize \in Nat \ {0} /\ e \in Nat /\ e < Size
  BY MigrationAssumption DEF Slots
<1>2. PICK q \in Int, r \in 0..(BlockSize - 1) : e = BlockSize * q + r
  <2>1. /\ e \div BlockSize \in Int /\ e % BlockSize \in 0..(BlockSize - 1)
        /\ e = BlockSize * (e \div BlockSize) + (e % BlockSize)
    BY <1>1, DivMod
  <2> QED
    BY <2>1
<1>3. BlockSize * q \in Int /\ BlockSize * q <= e /\ e < BlockSize * q + BlockSize
  BY <1>1, <1>2
<1>4. BlockSize * q >= 0
  <2> SUFFICES ASSUME q < 0 PROVE FALSE
    BY <1>1
  <2>1. BlockSize * q <= -BlockSize
    <3>1. BlockSize * (q + 1) = BlockSize * q + BlockSize /\ BlockSize * (q + 1) <= 0
      BY <1>1
    <3> QED
      BY <3>1, <1>1
  <2> QED
    BY <1>1, <1>3, <2>1
<1>5. (BlockSize * q + 0) % BlockSize = 0
  BY <1>1, Remainder
<1>6. BlockSize * q \in BlocksOf
  BY <1>1, <1>3, <1>4, <1>5 DEF BlocksOf, Slots
<1> QED
  BY <1>3, <1>6 DEF EndOf

\* The first empty slots of a block and after it.
LEMMA Bounds ==
  ASSUME OldState, NEW b \in BlocksOf
  PROVE  /\ Last(b) \in Nat /\ EndOf(b) <= Last(b) /\ Last(b) < EndOf(b) + Size
         /\ OldNode(Last(b)) = EMPTY
         /\ \A v \in Nat : EndOf(b) <= v /\ v < Last(b) => OldNode(v) # EMPTY
         /\ HasEmpty(b) =>
              /\ First(b) \in Nat /\ b <= First(b) /\ First(b) < EndOf(b)
              /\ OldNode(First(b)) = EMPTY
              /\ Last(b) <= First(b) + Size
<1> DEFINE E == Empties(EndOf(b), EndOf(b) + Size - 1)
           F == Empties(b, EndOf(b) - 1)
<1>1. /\ Size \in Nat \ {0} /\ b \in Nat /\ EndOf(b) \in Nat /\ b < EndOf(b) /\ EndOf(b) <= Size
  BY BlockBounds, MigrationAssumption
<1>2. E \in SUBSET Nat /\ F \in SUBSET Nat
  BY <1>1 DEF Empties
<1>3. E # {}
  <2>1. PICK s \in Slots : old[s] = EMPTY
    BY DEF OldState
  <2>2. s \in Nat /\ s < Size /\ OldSlot(s) = s /\ OldSlot(s + Size) = s
    BY <1>1, OldMod DEF Slots
  <2>3. CASE s >= EndOf(b)
    BY <2>1, <2>2, <2>3, <1>1 DEF Empties, OldNode
  <2>4. CASE s < EndOf(b)
    <3>1. s + Size \in EndOf(b)..(EndOf(b) + Size - 1)
      BY <1>1, <2>2, <2>4
    <3> QED
      BY <3>1, <2>1, <2>2 DEF Empties, OldNode
  <2> QED
    BY <2>2, <2>3, <2>4, <1>1
<1>4. Last(b) \in E /\ \A y \in E : Last(b) <= y
  BY <1>2, <1>3, LeastElement DEF Last
<1>5. /\ Last(b) \in Nat /\ EndOf(b) <= Last(b) /\ Last(b) < EndOf(b) + Size
      /\ OldNode(Last(b)) = EMPTY
  BY <1>1, <1>4 DEF Empties
<1>6. \A v \in Nat : EndOf(b) <= v /\ v < Last(b) => OldNode(v) # EMPTY
  <2> SUFFICES ASSUME NEW v \in Nat, EndOf(b) <= v, v < Last(b), OldNode(v) = EMPTY PROVE FALSE
    OBVIOUS
  <2>1. v \in E
    BY <1>1, <1>5 DEF Empties
  <2> QED
    BY <2>1, <1>4, <1>5
<1>7. ASSUME HasEmpty(b)
      PROVE  /\ First(b) \in Nat /\ b <= First(b) /\ First(b) < EndOf(b)
             /\ OldNode(First(b)) = EMPTY
             /\ Last(b) <= First(b) + Size
  <2>1. First(b) \in F
    BY <1>2, <1>7, LeastElement DEF First, HasEmpty
  <2>2. /\ First(b) \in Nat /\ b <= First(b) /\ First(b) < EndOf(b)
        /\ OldNode(First(b)) = EMPTY
    BY <1>1, <2>1 DEF Empties
  <2>3. OldSlot(First(b) + Size) = OldSlot(First(b))
    BY <1>1, <2>2, OldMod
  <2>4. First(b) + Size \in E
    BY <1>1, <2>2, <2>3 DEF Empties, OldNode
  <2> QED
    BY <2>2, <2>4, <1>4
<1> QED
  BY <1>5, <1>6, <1>7

\* Different territories have no slot in common, and no territory goes round
\* more than once.
LEMMA Disjoint ==
  ASSUME OldState, NEW b \in BlocksOf, NEW c \in BlocksOf, NEW u \in Nat, NEW w \in Nat,
         Owns(b, u), Owns(c, w), OldSlot(u) = OldSlot(w)
  PROVE  b = c /\ u = w
<1>1. Size \in Nat \ {0}
  BY MigrationAssumption
<1>2. ASSUME NEW d \in BlocksOf, NEW x \in Nat, Owns(d, x)
      PROVE  /\ HasEmpty(d) /\ First(d) \in Nat /\ Last(d) \in Nat
             /\ First(d) <= x /\ x < Last(d) /\ x < 2 * Size
             /\ First(d) < Size /\ Last(d) <= First(d) + Size /\ EndOf(d) <= Size
             /\ OldNode(First(d)) = EMPTY /\ OldNode(First(d) + Size) = EMPTY
  <2>1. /\ First(d) \in Nat /\ b \in Nat /\ First(d) < EndOf(d) /\ EndOf(d) <= Size
        /\ EndOf(d) \in Nat /\ HasEmpty(d)
        /\ OldNode(First(d)) = EMPTY /\ Last(d) <= First(d) + Size /\ Last(d) \in Nat
    BY <1>2, Bounds, BlockBounds DEF Owns
  <2>2. OldSlot(First(d) + Size) = OldSlot(First(d))
    BY <1>1, <2>1, OldMod
  <2>3. x \in First(d)..(Last(d) - 1)
    BY <1>2 DEF Owns
  <2> QED
    BY <1>1, <2>1, <2>2, <2>3 DEF OldNode
<1>3. ASSUME NEW d \in BlocksOf, NEW x \in Nat, Owns(d, x),
             NEW f \in BlocksOf, NEW y \in Nat, Owns(f, y), x = y + Size
      PROVE  FALSE
  <2>1. /\ First(f) + Size <= x /\ x < Last(d) /\ EndOf(d) <= Size /\ EndOf(d) \in Nat
        /\ First(f) \in Nat /\ Last(d) \in Nat /\ OldNode(First(f) + Size) = EMPTY
    BY <1>1, <1>2, <1>3, BlockBounds
  <2>2. First(f) + Size \in Nat /\ EndOf(d) <= First(f) + Size /\ First(f) + Size < Last(d)
    BY <1>1, <2>1
  <2> QED
    BY <2>1, <2>2, Bounds
<1>4. ASSUME NEW d \in BlocksOf, NEW x \in Nat, Owns(d, x),
             NEW f \in BlocksOf, Owns(f, x), d < f
      PROVE  FALSE
  <2>1. /\ First(f) <= x /\ x < Last(d) /\ First(f) \in Nat /\ Last(d) \in Nat
        /\ OldNode(First(f)) = EMPTY /\ HasEmpty(f)
    BY <1>2, <1>4
  <2>2. EndOf(d) <= f /\ f <= First(f) /\ EndOf(d) \in Nat /\ f \in Nat
    BY <1>4, <2>1, BlockBounds, Bounds
  <2>3. EndOf(d) <= First(f) /\ First(f) < Last(d)
    BY <2>1, <2>2
  <2> QED
    BY <2>1, <2>3, Bounds
<1>5. u = w \/ u = w + Size \/ w = u + Size
  <2>1. u < 2 * Size /\ w < 2 * Size
    BY <1>2
  <2>2. /\ u < Size => OldSlot(u) = u
        /\ u >= Size => OldSlot(u) = u - Size
        /\ w < Size => OldSlot(w) = w
        /\ w >= Size => OldSlot(w) = w - Size
    BY <1>1, <2>1, OldMod
  <2> QED
    BY <1>1, <2>2
<1>6. u = w
  BY <1>3, <1>5
<1>7. b \in Nat /\ c \in Nat
  BY BlockBounds
<1>8. ~(b < c) /\ ~(c < b)
  BY <1>4, <1>6
<1> QED
  BY <1>6, <1>7, <1>8

\* The territories cover the index.
LEMMA Covered ==
  ASSUME OldState, NEW s \in Slots
  PROVE  \E b \in BlocksOf : \E u \in Nat : Owns(b, u) /\ OldSlot(u) = s
<1> DEFINE D == {d \in 0..(Size - 1) : OldNode(s + Size - d) = EMPTY}
<1>1. Size \in Nat \ {0} /\ s \in Nat /\ s < Size
  BY MigrationAssumption DEF Slots
<1>2. D # {}
  <2>1. PICK e \in Slots : old[e] = EMPTY
    BY DEF OldState
  <2>2. e \in Nat /\ e < Size
    BY <1>1 DEF Slots
  <2>3. PICK d \in 0..(Size - 1) : d = IF e <= s THEN s - e ELSE s + Size - e
    <3>1. e <= s => s - e \in 0..(Size - 1)
      BY <1>1, <2>2
    <3>2. ~(e <= s) => s + Size - e \in 0..(Size - 1)
      BY <1>1, <2>2
    <3> QED
      BY <3>1, <3>2
  <2>4. OldSlot(s + Size - d) = e
    <3>1. s + Size - d = IF e <= s THEN e + Size ELSE e
      BY <1>1, <2>2, <2>3
    <3>2. OldSlot(e) = e /\ OldSlot(e + Size) = e
      BY <1>1, <2>2, OldMod
    <3> QED
      BY <3>1, <3>2
  <2> QED
    BY <2>1, <2>3, <2>4 DEF OldNode
<1>3. D \in SUBSET Nat
  BY <1>1
<1>4. PICK d \in D : \A x \in D : d <= x
  BY <1>2, <1>3, LeastElement
<1> HIDE DEF D
<1>5. d \in 0..(Size - 1) /\ OldNode(s + Size - d) = EMPTY
  BY <1>4 DEF D
<1>6. ASSUME NEW x \in 0..(d - 1) PROVE OldNode(s + Size - x) # EMPTY
  <2>1. x \in 0..(Size - 1) /\ x < d
    BY <1>1, <1>5
  <2>2. x \notin D
    BY <1>1, <1>3, <1>4, <1>5, <2>1
  <2> QED
    BY <2>1, <2>2 DEF D
<1> DEFINE e == IF d <= s THEN s - d ELSE s + Size - d
           u == IF d <= s THEN s ELSE s + Size
<1>7. e \in Slots /\ e \in Nat /\ u \in Nat /\ e <= u /\ u = e + d
  BY <1>1, <1>5 DEF Slots
<1>8. OldNode(e) = EMPTY
  <2>1. OldSlot(e) = OldSlot(s + Size - d)
    BY <1>1, <1>5, OldMod
  <2> QED
    BY <2>1, <1>5 DEF OldNode
<1>9. ASSUME NEW v \in Nat, e < v, v <= u PROVE OldNode(v) # EMPTY
  <2>1. PICK x \in 0..(d - 1) : x = u - v
    BY <1>5, <1>7, <1>9
  <2>2. OldSlot(v) = OldSlot(s + Size - x)
    <3>1. v = u - x
      BY <1>7, <2>1
    <3>2. v < 2 * Size /\ -Size <= v
      BY <1>1, <1>9
    <3> QED
      BY <1>1, <1>5, <1>7, <2>1, <3>1, <3>2, OldMod
  <2> QED
    BY <2>2, <1>6 DEF OldNode
<1>10. OldSlot(u) = s
  BY <1>1, OldMod
<1> HIDE DEF e, u
<1>11. PICK b \in BlocksOf : b <= e /\ e < EndOf(b)
  BY <1>7, InBlock
<1>12. b \in Nat /\ EndOf(b) \in Nat
  BY BlockBounds
<1>13. e \in Empties(b, EndOf(b) - 1)
  BY <1>7, <1>8, <1>11, <1>12 DEF Empties
<1>14. HasEmpty(b) /\ First(b) <= e
  <2>1. Empties(b, EndOf(b) - 1) \in SUBSET Nat
    BY <1>12 DEF Empties
  <2> QED
    BY <1>13, <2>1, LeastElement DEF HasEmpty, First
<1>15. u < Last(b)
  <2> SUFFICES ASSUME Last(b) <= u PROVE FALSE
    BY <1>7, Bounds
  <2>1. Last(b) \in Nat /\ EndOf(b) <= Last(b) /\ OldNode(Last(b)) = EMPTY
    BY Bounds
  <2>2. e < Last(b)
    BY <1>7, <1>11, <1>12, <2>1
  <2> QED
    BY <1>9, <2>1, <2>2
<1>16. Owns(b, u)
  BY <1>7, <1>14, <1>15, Bounds DEF Owns
<1> QED
  BY <1>7, <1>10, <1>16

\* The way from a node's home to the node has no empty slot, so it lies within
\* the territory; migrate_node_d0 gives the hash.
LEMMA HomeIsNear ==
  ASSUME OldState, NEW b \in BlocksOf, NEW u \in Nat, Owns(b, u), IsNode(OldNode(u))
  PROVE  /\ Home(u) \in Nat /\ 2 * First(b) + 2 <= Home(u) /\ Home(u) <= 2 * u + 1
         /\ 2 * u + 1 < Home(u) + 2 * Size /\ u < 2 * Size
         /\ OldNode(u).id = OldSlot(u) /\ OldSlot(u) \in Slots
         /\ OldNode(u).hash \in NewSlots
         /\ NewSlot(Home(u)) = OldNode(u).hash
         /\ NewD0(OldNode(u), u) = OldNode(u).hash
         /\ \A p \in Nat : Home(u) <= p /\ p <= 2 * u + 1 =>
              /\ p \div 2 \in Nat /\ p \div 2 <= u
              /\ Owns(b, p \div 2) /\ OldNode(p \div 2) # EMPTY
<1> DEFINE s == OldSlot(u)
           h == OldNode(u).hash
           d == OldSlot(u - (h \div 2))
<1>1. /\ Size \in Nat \ {0} /\ First(b) \in Nat /\ First(b) < Size /\ First(b) <= u
      /\ Last(b) \in Nat /\ u < Last(b) /\ u < 2 * Size /\ OldNode(First(b)) = EMPTY
  BY MigrationAssumption, Bounds, BlockBounds DEF Owns
<1>2. s \in Slots /\ s \in Nat /\ s = IF u < Size THEN u ELSE u - Size
  BY <1>1, OldMod
<1>3. /\ OldNode(u).id = s /\ h \in NewSlots
      /\ OldNode(u).distance = Cap(OldSlot(s - (h \div 2)))
      /\ \A x \in 0..OldSlot(s - (h \div 2)) : old[OldSlot(s - x)] # EMPTY
  BY <1>2 DEF OldState, OldNode
<1>4. /\ d \in 0..(Size - 1) /\ OldSlot(s - (h \div 2)) = d
      /\ u - d >= 0 => NewSlot(2 * (u - d) + (h % 2)) = h
  BY <1>1, <1>3, HomeMod
<1>5. h % 2 \in 0..1
  BY <1>1, <1>3 DEF NewSlots
<1>6. Home(u) = 2 * (u - d) + (h % 2)
  BY DEF Home, Distance
<1> HIDE DEF d, h, s
<1>7. ASSUME NEW x \in 0..d PROVE OldNode(u - x) # EMPTY
  <2>1. OldSlot(u - x) = OldSlot(s - x)
    <3>1. x \in Nat /\ x < Size
      BY <1>1, <1>4
    <3>2. /\ u - x < 0 => OldSlot(u - x) = u - x + Size
          /\ u - x >= 0 /\ u - x < Size => OldSlot(u - x) = u - x
          /\ u - x >= Size => OldSlot(u - x) = u - x - Size
      BY <1>1, <3>1, OldMod
    <3>3. /\ s - x < 0 => OldSlot(s - x) = s - x + Size
          /\ s - x >= 0 /\ s - x < Size => OldSlot(s - x) = s - x
      BY <1>1, <1>2, <3>1, OldMod
    <3> QED
      BY <1>1, <1>2, <3>1, <3>2, <3>3
  <2> QED
    BY <2>1, <1>3, <1>4 DEF OldNode
<1>8. First(b) < u - d
  <2> SUFFICES ASSUME u - d <= First(b) PROVE FALSE
    BY <1>1, <1>4
  <2>1. u - First(b) \in 0..d /\ u - (u - First(b)) = First(b)
    BY <1>1, <1>4
  <2> QED
    BY <2>1, <1>1, <1>7
<1>9. /\ Home(u) \in Nat /\ 2 * First(b) + 2 <= Home(u) /\ Home(u) <= 2 * u + 1
      /\ 2 * u + 1 < Home(u) + 2 * Size
  BY <1>1, <1>4, <1>5, <1>6, <1>8
<1>10. NewSlot(Home(u)) = h
  BY <1>1, <1>4, <1>6, <1>8
<1>11. NewD0(OldNode(u), u) = h
  <2>1. OldNode(u).distance < MaxDistance => OldNode(u).distance = d
    BY <1>3, <1>4, MigrationAssumption DEF Cap
  <2> QED
    BY <2>1, <1>6, <1>10 DEF NewD0, h
<1>12. ASSUME NEW p \in Nat, Home(u) <= p, p <= 2 * u + 1
       PROVE  /\ p \div 2 \in Nat /\ p \div 2 <= u
              /\ Owns(b, p \div 2) /\ OldNode(p \div 2) # EMPTY
  <2>1. PICK w \in Nat : w = p \div 2 /\ 2 * w <= p /\ p <= 2 * w + 1
    OBVIOUS
  <2>2. u - d <= w /\ w <= u /\ First(b) < w /\ w < Last(b)
    BY <1>1, <1>4, <1>5, <1>6, <1>8, <1>12, <2>1
  <2>3. u - w \in 0..d /\ u - (u - w) = w
    BY <1>4, <2>2
  <2>4. OldNode(w) # EMPTY
    BY <1>7, <2>3
  <2> QED
    BY <1>1, <2>1, <2>2, <2>4 DEF Owns
<1> QED
  BY <1>1, <1>2, <1>3, <1>9, <1>10, <1>11, <1>12 DEF h, s

\* A thread stays in its territory.
LEMMA PassedIsOwned ==
  ASSUME OldState, Types, ThreadState, NEW b \in BlocksOf, NEW u \in Nat, Passed(b, u)
  PROVE  Owns(b, u) /\ u < i[b] /\ i[b] <= Last(b)
<1>1. pc[b] \in {"block", "tail", "done"} /\ i[b] \in Nat /\ HasEmpty(b)
  BY DEF Types, Passed
<1>2. /\ First(b) \in Nat /\ Last(b) \in Nat /\ EndOf(b) \in Nat /\ EndOf(b) <= Last(b)
  BY <1>1, Bounds, BlockBounds
<1>3. i[b] <= Last(b)
  BY <1>1, <1>2 DEF ThreadState
<1>4. u \in First(b)..(i[b] - 1)
  BY DEF Passed
<1> QED
  BY <1>1, <1>2, <1>3, <1>4 DEF Owns

\* Two passed slots are the same, or not the same slot of the index.
LEMMA PassedOnce ==
  ASSUME OldState, Types, ThreadState, NEW b \in BlocksOf, NEW c \in BlocksOf,
         NEW u \in Nat, NEW w \in Nat,
         Owns(b, u), Passed(c, w), OldSlot(u) = OldSlot(w)
  PROVE  b = c /\ u = w /\ u < i[b]
  BY PassedIsOwned, Disjoint

\* A node stands in a new slot that belongs to a passed slot of its territory
\* that is not empty, and so does everything on the way from its home.
LEMMA SeatedNearby ==
  ASSUME OldState, Types, ThreadState, NEW b \in BlocksOf, NEW u \in Nat, NEW p \in Nat,
         Moved(b, u), Home(u) <= p, p <= 2 * u + 1
  PROVE  /\ p < 4 * Size /\ p \div 2 \in Nat /\ Passed(b, p \div 2)
         /\ OldNode(p \div 2) # EMPTY /\ NewSlot(p) \in NewSlots
<1>1. Owns(b, u) /\ u < i[b] /\ i[b] \in Nat
  BY PassedIsOwned DEF Moved, Types
<1>2. /\ p \div 2 \in Nat /\ p \div 2 <= u /\ Owns(b, p \div 2) /\ OldNode(p \div 2) # EMPTY
      /\ u < 2 * Size
  BY <1>1, HomeIsNear DEF Moved
<1>3. Size \in Nat \ {0} /\ First(b) \in Nat
  BY MigrationAssumption, Bounds DEF Owns, Moved, Passed
<1>4. p < 4 * Size
  BY <1>2, <1>3
<1>5. p \div 2 \in First(b)..(i[b] - 1)
  BY <1>1, <1>2, <1>3 DEF Owns
<1>6. Passed(b, p \div 2)
  BY <1>5 DEF Moved, Passed
<1> QED
  BY <1>2, <1>3, <1>4, <1>6, NewMod

\* The new slots of an old slot that no thread has been at hold no node.
LEMMA NotYetSeated ==
  ASSUME OldState, Types, ThreadState, Source, NEW b \in BlocksOf, NEW v \in Nat, Owns(b, v),
         ~Passed(b, v), NEW p \in Nat, 2 * v <= p, p <= 2 * v + 1
  PROVE  ~IsNode(At(p))
<1> SUFFICES ASSUME IsNode(At(p)) PROVE FALSE
  OBVIOUS
<1>1. /\ Size \in Nat \ {0} /\ v < 2 * Size /\ p < 4 * Size /\ p \div 2 = v
  BY MigrationAssumption, Bounds, BlockBounds DEF Owns
<1>2. NewSlot(p) \in NewSlots /\ NewSlot(p) \in Nat /\ OldSlot(v) = NewSlot(p) \div 2
  BY <1>1, NewMod, HalfMod
<1>3. PICK c \in BlocksOf : \E u, q \in Nat : Moved(c, u) /\ Seated(u, q) /\ NewSlot(q) = NewSlot(p)
  BY <1>2 DEF Source, At
<1>4. PICK u \in Nat, q \in Nat : Moved(c, u) /\ Seated(u, q) /\ NewSlot(q) = NewSlot(p)
  BY <1>3
<1>5. /\ q < 4 * Size /\ q \div 2 \in Nat /\ Passed(c, q \div 2)
  BY <1>4, SeatedNearby DEF Seated
<1>6. OldSlot(q \div 2) = OldSlot(v)
  BY <1>2, <1>4, <1>5, HalfMod
<1>7. b = c /\ v = q \div 2
  BY <1>5, <1>6, PassedOnce
<1> QED
  BY <1>5, <1>7

\* As long as the old index is the same, so is all that depends on it only.
LEMMA OldFrame ==
  ASSUME old' = old
  PROVE  /\ OldState' <=> OldState
         /\ \A u : OldNode(u)' = OldNode(u) /\ Home(u)' = Home(u)
         /\ \A b : (HasEmpty(b)' <=> HasEmpty(b)) /\ First(b)' = First(b) /\ Last(b)' = Last(b)
  BY DEF OldState, OldNode, Home, Distance, HasEmpty, First, Last, Empties
-----------------------------------------------------------------------------
\* The part of the invariant that a step of block b leaves to show once it is
\* known which nodes it has moved and that all nodes stay where they are.
SeatsKept ==
  \A c \in BlocksOf : \A u, p \in Nat : Moved(c, u) /\ Seated(u, p) => Seated(u, p)'

\* What is cleared is empty, the rest is as it was.
LEMMA ClearChanges ==
  ASSUME Types, NEW x \in Nat, NEW y \in Nat, y < 2 * Size, new' = Clear(x, y)
  PROVE  /\ new' \in [NewSlots -> {EMPTY, GARBAGE}
                            \cup [id : Slots, hash : NewSlots, distance : 0..MaxDistance]]
         /\ \A s \in NewSlots : new'[s] = EMPTY \/ new'[s] = new[s]
         /\ \A p \in Nat : 2 * x <= p /\ p <= 2 * y + 1 => At(p)' = EMPTY
         /\ \A s \in NewSlots : new'[s] # new[s] =>
              \E p \in Nat : 2 * x <= p /\ p <= 2 * y + 1 /\ NewSlot(p) = s
<1>1. Size \in Nat \ {0}
  BY MigrationAssumption
<1>2. new \in [NewSlots -> {EMPTY, GARBAGE}
                            \cup [id : Slots, hash : NewSlots, distance : 0..MaxDistance]]
  BY DEF Types
<1>3. new' = [s \in NewSlots |->
                IF s \in {NewSlot(p) : p \in (2 * x)..(2 * (y + 1) - 1)} THEN EMPTY ELSE new[s]]
  BY DEF Clear
<1>4. \A p : p \in (2 * x)..(2 * (y + 1) - 1) <=> p \in Nat /\ 2 * x <= p /\ p <= 2 * y + 1
  OBVIOUS
<1>5. \A p \in Nat : p <= 2 * y + 1 => NewSlot(p) \in NewSlots
  BY <1>1, NewMod
<1> QED
  BY <1>2, <1>3, <1>4, <1>5 DEF At

\* Clearing leaves every node in its place if it stays away from the passed
\* slots that are not empty.
LEMMA ClearKeepsSeats ==
  ASSUME Inv, old' = old, NEW x \in Nat, NEW y \in Nat, y < 2 * Size, new' = Clear(x, y),
         \A c \in BlocksOf : \A w, v \in Nat :
           Passed(c, w) /\ OldNode(w) # EMPTY /\ x <= v /\ v <= y => OldSlot(v) # OldSlot(w)
  PROVE  SeatsKept
<1> SUFFICES ASSUME NEW c \in BlocksOf, NEW u \in Nat, NEW p \in Nat, Moved(c, u), Seated(u, p)
             PROVE  Seated(u, p)'
  BY DEF SeatsKept
<1>1. Size \in Nat \ {0}
  BY MigrationAssumption
<1>2. Home(u) \in Nat /\ p <= 2 * u + 1 /\ Home(u) <= p
  BY PassedIsOwned, HomeIsNear DEF Inv, Moved, Seated
<1>3. ASSUME NEW r \in Home(u)..p PROVE At(r)' = At(r)
  <2> SUFFICES ASSUME At(r)' # At(r) PROVE FALSE
    OBVIOUS
  <2>1. r \in Nat /\ Home(u) <= r /\ r <= 2 * u + 1
    BY <1>2
  <2>2. /\ r < 4 * Size /\ r \div 2 \in Nat /\ Passed(c, r \div 2)
        /\ OldNode(r \div 2) # EMPTY /\ NewSlot(r) \in NewSlots
    BY <2>1, SeatedNearby DEF Inv
  <2>3. PICK q \in Nat : 2 * x <= q /\ q <= 2 * y + 1 /\ NewSlot(q) = NewSlot(r)
    BY <2>2, ClearChanges DEF Inv, At
  <2>4. q < 4 * Size
    BY <1>1, <2>3
  <2>5. PICK v \in Nat : v = q \div 2 /\ x <= v /\ v <= y
    BY <2>3
  <2>6. OldSlot(v) = OldSlot(r \div 2)
    BY <2>1, <2>2, <2>3, <2>4, <2>5, HalfMod
  <2> QED
    BY <2>2, <2>5, <2>6
<1>4. At(p)' = At(p)
  BY <1>2, <1>3
<1>5. Home(u)' = Home(u) /\ OldNode(u)' = OldNode(u)
  BY OldFrame
<1> QED
  BY <1>3, <1>4, <1>5 DEF Seated

\* After a step that only clears, the nodes are as before.
LEMMA ClearKeepsNodes ==
  ASSUME Inv, old' = old, count' = count, SeatsKept,
         \A s \in NewSlots : new'[s] = EMPTY \/ new'[s] = new[s],
         \A c \in BlocksOf : \A u \in Nat : Passed(c, u)' <=> Passed(c, u)
  PROVE  Placed' /\ Once' /\ Source' /\ CountState'
<1>1. \A u : OldNode(u)' = OldNode(u) /\ Home(u)' = Home(u)
  BY OldFrame
<1>2. \A c \in BlocksOf : \A u \in Nat : Moved(c, u)' <=> Moved(c, u)
  BY <1>1 DEF Moved, IsNode
<1>3. Placed'
  BY <1>2 DEF Inv, Placed, SeatsKept
<1>4. Once'
  <2> SUFFICES ASSUME NEW c \in BlocksOf, NEW u \in Nat, NEW p \in Nat, NEW q \in Nat,
                      Moved(c, u), Seated(u, p)', Seated(u, q)'
               PROVE  p = q
    BY <1>2 DEF Once
  <2>1. ASSUME NEW r \in Nat, Seated(u, r)' PROVE Seated(u, r)
    <3>1. Home(u) \in Nat /\ r <= 2 * u + 1 /\ Home(u) <= r
      BY <1>1, <2>1, PassedIsOwned, HomeIsNear DEF Inv, Moved, Seated
    <3>2. ASSUME NEW a \in Home(u)..r PROVE At(a)' = At(a) /\ At(a)' # EMPTY
      <4>1. NewSlot(a) \in NewSlots
        BY <3>1, SeatedNearby DEF Inv
      <4>2. At(a)' # EMPTY
        BY <1>1, <2>1 DEF Seated
      <4> QED
        BY <4>1, <4>2 DEF At
    <3>3. At(r)' = At(r)
      BY <3>1, <3>2
    <3> QED
      BY <1>1, <2>1, <3>1, <3>2, <3>3 DEF Seated
  <2> QED
    BY <2>1 DEF Inv, Once
<1>5. Source'
  <2> SUFFICES ASSUME NEW s \in NewSlots, IsNode(new'[s])
               PROVE  \E b \in BlocksOf : \E u, p \in Nat :
                        Moved(b, u)' /\ Seated(u, p)' /\ NewSlot(p) = s
    BY DEF Source
  <2>1. IsNode(new[s])
    BY DEF IsNode
  <2> QED
    BY <2>1, <1>2 DEF Inv, Source, SeatsKept
<1>6. MovedSlots' = MovedSlots /\ Counted' = Counted
  BY DEF MovedSlots, Counted
<1> QED
  BY <1>3, <1>4, <1>5, <1>6 DEF Inv, CountState

\* block_wise_migrate begins.
LEMMA StartStep ==
  ASSUME Inv, NEW b \in BlocksOf, Start(b)
  PROVE  Inv'
<1>1. /\ Size \in Nat \ {0} /\ OldState /\ Types /\ ThreadState
  BY MigrationAssumption DEF Inv
<1>2. old' = old /\ count' = count /\ pc[b] = "start" /\ i[b] = b /\ count[b] = 0
  BY <1>1 DEF Start, ThreadState
<1>3. /\ OldState'
      /\ \A u : OldNode(u)' = OldNode(u) /\ Home(u)' = Home(u)
      /\ \A c : (HasEmpty(c)' <=> HasEmpty(c)) /\ First(c)' = First(c) /\ Last(c)' = Last(c)
  BY <1>1, <1>2, OldFrame
<1>4. CASE ~HasEmpty(b)
  <2>1. pc' = [pc EXCEPT ![b] = "done"] /\ new' = new /\ i' = i
    BY <1>4 DEF Start, HasEmpty
  <2>2. Types'
    BY <1>1, <1>2, <2>1 DEF Types
  <2>3. \A c \in BlocksOf \ {b} : pc'[c] = pc[c]
    BY <2>1, <1>1 DEF Types
  <2>4. pc'[b] = "done"
    BY <2>1, <1>1 DEF Types
  <2>5. ThreadState'
    BY <1>1, <1>2, <1>3, <1>4, <2>1, <2>3, <2>4 DEF ThreadState
  <2>6. Cleared'
    BY <1>3, <1>4, <2>1, <2>3 DEF Inv, Cleared, At
  <2>7. \A c \in BlocksOf : \A u \in Nat : Passed(c, u)' <=> Passed(c, u)
    BY <1>3, <1>4, <2>1, <2>3 DEF Passed
  <2>8. SeatsKept
    BY <1>3, <2>1 DEF SeatsKept, Seated, At
  <2> QED
    BY <1>2, <1>3, <2>1, <2>2, <2>5, <2>6, <2>7, <2>8, ClearKeepsNodes DEF Inv
<1>5. CASE HasEmpty(b)
  <2>1. /\ new' = Clear(First(b), EndOf(b))
        /\ i' = [i EXCEPT ![b] = First(b)] /\ pc' = [pc EXCEPT ![b] = "block"]
    BY <1>5 DEF Start, HasEmpty, First
  <2>2. /\ First(b) \in Nat /\ b <= First(b) /\ First(b) < EndOf(b) /\ EndOf(b) <= Size
        /\ EndOf(b) \in Nat /\ EndOf(b) <= Last(b) /\ Last(b) \in Nat
        /\ OldNode(Last(b)) = EMPTY
    BY <1>1, <1>5, Bounds, BlockBounds
  <2>3. EndOf(b) < 2 * Size
    BY <1>1, <2>2
  <2>4. /\ new' \in [NewSlots -> {EMPTY, GARBAGE}
                            \cup [id : Slots, hash : NewSlots, distance : 0..MaxDistance]]
        /\ \A s \in NewSlots : new'[s] = EMPTY \/ new'[s] = new[s]
        /\ \A p \in Nat : 2 * First(b) <= p /\ p <= 2 * EndOf(b) + 1 => At(p)' = EMPTY
    BY <1>1, <2>1, <2>2, <2>3, ClearChanges
  <2>5. /\ \A c \in BlocksOf \ {b} : pc'[c] = pc[c] /\ i'[c] = i[c]
        /\ pc'[b] = "block" /\ i'[b] = First(b)
    BY <1>1, <2>1 DEF Types
  <2>6. Types'
    BY <1>1, <1>2, <2>1, <2>2, <2>4 DEF Types
  <2>7. ThreadState'
    BY <1>1, <1>2, <1>3, <1>5, <2>2, <2>5 DEF ThreadState
  <2>8. Cleared'
    <3> SUFFICES ASSUME NEW c \in BlocksOf, HasEmpty(c), pc'[c] # "start",
                        NEW p \in (2 * First(c))..(IF pc'[c] = "block" THEN 2 * EndOf(c) + 1
                                                   ELSE 2 * Last(c) - 1)
                 PROVE  At(p)' # GARBAGE
      BY <1>3 DEF Cleared
    <3>1. CASE c = b
      <4>1. p \in Nat /\ 2 * First(b) <= p /\ p <= 2 * EndOf(b) + 1
        BY <2>2, <2>5, <3>1
      <4> QED
        BY <4>1, <2>4, SlotsAssumption
    <3>2. CASE c # b
      <4>1. At(p) # GARBAGE
        BY <2>5, <3>2 DEF Inv, Cleared
      <4>2. /\ First(c) \in Nat /\ EndOf(c) \in Nat /\ Last(c) \in Nat /\ EndOf(c) <= Size
            /\ First(c) < EndOf(c) /\ Last(c) <= First(c) + Size
        BY <1>1, Bounds, BlockBounds
      <4>3. p \in Nat /\ p < 4 * Size
        BY <1>1, <4>2
      <4>4. NewSlot(p) \in NewSlots
        BY <1>1, <4>3, NewMod
      <4> QED
        BY <4>1, <4>4, <2>4, SlotsAssumption DEF At
    <3> QED
      BY <3>1, <3>2
  <2>9. \A c \in BlocksOf : \A u \in Nat : Passed(c, u)' <=> Passed(c, u)
    BY <1>2, <1>3, <2>2, <2>5 DEF Passed
  <2>10. SeatsKept
    <3> SUFFICES ASSUME NEW c \in BlocksOf, NEW w \in Nat, NEW v \in Nat, Passed(c, w),
                        OldNode(w) # EMPTY, First(b) <= v, v <= EndOf(b),
                        OldSlot(v) = OldSlot(w)
                 PROVE  FALSE
      BY <1>2, <2>1, <2>2, <2>3, ClearKeepsSeats
    <3>1. CASE v < Last(b)
      <4>1. Owns(b, v)
        BY <1>5, <2>2, <3>1 DEF Owns
      <4>2. b = c
        BY <1>1, <4>1, PassedOnce
      <4> QED
        BY <4>2, <1>2 DEF Passed
    <3>2. CASE v >= Last(b)
      <4>1. v = Last(b)
        BY <2>2, <3>2
      <4> QED
        BY <4>1, <2>2 DEF OldNode
    <3> QED
      BY <3>1, <3>2, <2>2
  <2> QED
    BY <1>2, <1>3, <2>4, <2>6, <2>7, <2>8, <2>9, <2>10, ClearKeepsNodes DEF Inv
<1> QED
  BY <1>4, <1>5

\* The end of the block.
LEMMA EndBlockStep ==
  ASSUME Inv, NEW b \in BlocksOf, EndBlock(b)
  PROVE  Inv'
<1>1. /\ Size \in Nat \ {0} /\ OldState /\ Types /\ ThreadState
  BY MigrationAssumption DEF Inv
<1>2. /\ old' = old /\ count' = count /\ i' = i /\ pc[b] = "block" /\ i[b] = EndOf(b)
      /\ HasEmpty(b)
  BY <1>1 DEF EndBlock, ThreadState
<1>3. /\ OldState'
      /\ \A u : OldNode(u)' = OldNode(u) /\ Home(u)' = Home(u)
      /\ \A c : (HasEmpty(c)' <=> HasEmpty(c)) /\ First(c)' = First(c) /\ Last(c)' = Last(c)
  BY <1>1, <1>2, OldFrame
<1>4. /\ First(b) \in Nat /\ b <= First(b) /\ First(b) < EndOf(b) /\ EndOf(b) <= Size
      /\ EndOf(b) \in Nat /\ EndOf(b) <= Last(b) /\ Last(b) \in Nat
      /\ Last(b) <= First(b) + Size
  BY <1>1, <1>2, Bounds, BlockBounds
<1>5. CASE Last(b) = EndOf(b)
  <2>1. pc' = [pc EXCEPT ![b] = "done"] /\ new' = new
    BY <1>4, <1>5 DEF EndBlock, Last
  <2>2. Types'
    BY <1>1, <1>2, <2>1 DEF Types
  <2>3. (\A c \in BlocksOf \ {b} : pc'[c] = pc[c]) /\ pc'[b] = "done"
    BY <2>1, <1>1 DEF Types
  <2>4. ThreadState'
    BY <1>1, <1>2, <1>3, <1>5, <2>3 DEF ThreadState
  <2>5. Cleared'
    <3> SUFFICES ASSUME NEW c \in BlocksOf, HasEmpty(c), pc'[c] # "start",
                        NEW p \in (2 * First(c))..(IF pc'[c] = "block" THEN 2 * EndOf(c) + 1
                                                   ELSE 2 * Last(c) - 1)
                 PROVE  At(p) # GARBAGE
      BY <1>3, <2>1 DEF Cleared, At
    <3>1. CASE c = b
      <4>1. p \in (2 * First(b))..(2 * EndOf(b) + 1)
        BY <1>4, <1>5, <2>3, <3>1
      <4> QED
        BY <1>2, <4>1 DEF Inv, Cleared
    <3>2. CASE c # b
      BY <2>3, <3>2 DEF Inv, Cleared
    <3> QED
      BY <3>1, <3>2
  <2>6. \A c \in BlocksOf : \A u \in Nat : Passed(c, u)' <=> Passed(c, u)
    BY <1>2, <1>3, <2>3 DEF Passed
  <2>7. SeatsKept
    BY <1>3, <2>1 DEF SeatsKept, Seated, At
  <2> QED
    BY <1>2, <1>3, <2>1, <2>2, <2>4, <2>5, <2>6, <2>7, ClearKeepsNodes DEF Inv
<1>6. CASE Last(b) # EndOf(b)
  <2>1. pc' = [pc EXCEPT ![b] = "tail"] /\ new' = Clear(EndOf(b), Last(b) - 1)
    BY <1>4, <1>6 DEF EndBlock, Last
  <2>2. Last(b) - 1 \in Nat /\ Last(b) - 1 < 2 * Size /\ EndOf(b) <= Last(b) - 1
    BY <1>1, <1>4, <1>6
  <2>3. /\ new' \in [NewSlots -> {EMPTY, GARBAGE}
                            \cup [id : Slots, hash : NewSlots, distance : 0..MaxDistance]]
        /\ \A s \in NewSlots : new'[s] = EMPTY \/ new'[s] = new[s]
        /\ \A p \in Nat : 2 * EndOf(b) <= p /\ p <= 2 * (Last(b) - 1) + 1 => At(p)' = EMPTY
    BY <1>1, <1>4, <2>1, <2>2, ClearChanges
  <2>4. (\A c \in BlocksOf \ {b} : pc'[c] = pc[c]) /\ pc'[b] = "tail"
    BY <1>1, <2>1 DEF Types
  <2>5. Types'
    BY <1>1, <1>2, <2>1, <2>3 DEF Types
  <2>6. ThreadState'
    BY <1>1, <1>2, <1>3, <1>4, <2>4 DEF ThreadState
  <2>7. Cleared'
    <3> SUFFICES ASSUME NEW c \in BlocksOf, HasEmpty(c), pc'[c] # "start",
                        NEW p \in (2 * First(c))..(IF pc'[c] = "block" THEN 2 * EndOf(c) + 1
                                                   ELSE 2 * Last(c) - 1)
                 PROVE  At(p)' # GARBAGE
      BY <1>3 DEF Cleared
    <3>1. /\ First(c) \in Nat /\ EndOf(c) \in Nat /\ Last(c) \in Nat /\ EndOf(c) <= Size
          /\ First(c) < EndOf(c) /\ Last(c) <= First(c) + Size
      BY <1>1, Bounds, BlockBounds
    <3>2. p \in Nat /\ p < 4 * Size
      BY <1>1, <3>1
    <3>3. NewSlot(p) \in NewSlots
      BY <1>1, <3>2, NewMod
    <3>4. At(p) # GARBAGE => At(p)' # GARBAGE
      BY <3>3, <2>3, SlotsAssumption DEF At
    <3>5. CASE c = b /\ p < 2 * EndOf(b)
      <4>1. p \in (2 * First(b))..(2 * EndOf(b) + 1)
        BY <1>4, <3>2, <3>5
      <4>2. At(p) # GARBAGE
        BY <1>2, <4>1 DEF Inv, Cleared
      <4> QED
        BY <3>4, <4>2
    <3>6. CASE c = b /\ p >= 2 * EndOf(b)
      <4>1. p <= 2 * (Last(b) - 1) + 1
        BY <1>4, <2>4, <3>6
      <4> QED
        BY <2>3, <3>2, <3>6, <4>1, SlotsAssumption
    <3>7. CASE c # b
      <4>1. At(p) # GARBAGE
        BY <2>4, <3>7 DEF Inv, Cleared
      <4> QED
        BY <3>4, <4>1
    <3> QED
      BY <3>2, <3>5, <3>6, <3>7, <1>4
  <2>8. \A c \in BlocksOf : \A u \in Nat : Passed(c, u)' <=> Passed(c, u)
    BY <1>2, <1>3, <2>4 DEF Passed
  <2>9. SeatsKept
    <3> SUFFICES ASSUME NEW c \in BlocksOf, NEW w \in Nat, NEW v \in Nat, Passed(c, w),
                        OldNode(w) # EMPTY, EndOf(b) <= v, v <= Last(b) - 1,
                        OldSlot(v) = OldSlot(w)
                 PROVE  FALSE
      BY <1>2, <1>4, <2>1, <2>2, ClearKeepsSeats
    <3>1. Owns(b, v)
      BY <1>2, <1>4 DEF Owns
    <3>2. v < i[b]
      BY <1>1, <3>1, PassedOnce
    <3> QED
      BY <3>2, <1>2, <1>4
  <2> QED
    BY <1>2, <1>3, <2>3, <2>5, <2>6, <2>7, <2>8, <2>9, ClearKeepsNodes DEF Inv
<1> QED
  BY <1>5, <1>6
-----------------------------------------------------------------------------
\* The thread of block b is at the old slot i[b], whose two new slots it has
\* cleared.
AtWork(b) ==
  /\ HasEmpty(b) /\ pc[b] \in {"block", "tail"}
  /\ i[b] < Last(b)
  /\ pc[b] = "block" => i[b] < EndOf(b)

\* When the turn of a node comes, its own two new slots are free, so it is
\* placed between its home and these.
LEMMA Placement ==
  ASSUME Inv, NEW b \in BlocksOf, AtWork(b), IsNode(OldNode(i[b])), MigrateNode(b, i[b])
  PROVE  \E p \in Nat :
           /\ Home(i[b]) <= p /\ p <= 2 * i[b] + 1
           /\ At(p) = EMPTY
           /\ \A r \in Home(i[b])..(p - 1) : At(r) # EMPTY
           /\ new' = [new EXCEPT ![NewSlot(p)] =
                        Node(OldSlot(i[b]), OldNode(i[b]).hash, p - Home(i[b]))]
<1> DEFINE u == i[b]
           h == OldNode(u).hash
           D == FreeDistances(OldNode(u), u)
<1>1. /\ Size \in Nat \ {0} /\ OldState /\ Types /\ ThreadState /\ Source
  BY MigrationAssumption DEF Inv
<1>2. /\ u \in Nat /\ First(b) \in Nat /\ Last(b) \in Nat /\ EndOf(b) \in Nat
      /\ First(b) <= u /\ u < Last(b) /\ HasEmpty(b) /\ First(b) < EndOf(b)
  BY <1>1, Bounds, BlockBounds DEF AtWork, Types, ThreadState
<1>3. Owns(b, u) /\ ~Passed(b, u)
  BY <1>2 DEF Owns, Passed
<1>4. /\ Home(u) \in Nat /\ Home(u) <= 2 * u + 1 /\ 2 * u + 1 < Home(u) + 2 * Size
      /\ u < 2 * Size /\ OldNode(u).id = OldSlot(u) /\ h \in NewSlots /\ h \in Nat
      /\ NewSlot(Home(u)) = h /\ NewD0(OldNode(u), u) = h
  <2>1. /\ Home(u) \in Nat /\ Home(u) <= 2 * u + 1 /\ 2 * u + 1 < Home(u) + 2 * Size
        /\ u < 2 * Size /\ OldNode(u).id = OldSlot(u) /\ h \in NewSlots
        /\ NewSlot(Home(u)) = h /\ NewD0(OldNode(u), u) = h
    BY <1>1, <1>2, <1>3, HomeIsNear
  <2> QED
    BY <1>1, <2>1 DEF NewSlots
<1> HIDE DEF u, h
<1>5. ASSUME NEW p \in Nat, 2 * u <= p, p <= 2 * u + 1 PROVE At(p) = EMPTY
  <2>1. ~IsNode(At(p))
    BY <1>1, <1>2, <1>3, <1>5, NotYetSeated
  <2>2. At(p) # GARBAGE
    <3>1. p \in (2 * First(b))..(IF pc[b] = "block" THEN 2 * EndOf(b) + 1 ELSE 2 * Last(b) - 1)
      BY <1>2, <1>5 DEF AtWork, u
    <3> QED
      BY <1>2, <3>1 DEF Inv, Cleared, AtWork
  <2>3. At(p) \in {EMPTY, GARBAGE}
                    \cup [id : Slots, hash : NewSlots, distance : 0..MaxDistance]
    <3>1. NewSlot(p) \in NewSlots
      BY <1>1, <1>2, <1>4, <1>5, NewMod
    <3> QED
      BY <3>1, <1>1 DEF Types, At
  <2>4. ASSUME At(p) \in [id : Slots, hash : NewSlots, distance : 0..MaxDistance]
        PROVE  FALSE
    BY <2>1, <2>4, SlotsAssumption
  <2> QED
    BY <2>2, <2>3, <2>4
<1>6. \A d \in Nat : Home(u) + d <= 2 * u + 1 => NewSlot(h + d) = NewSlot(Home(u) + d)
  <2> SUFFICES ASSUME NEW d \in Nat, Home(u) + d <= 2 * u + 1
               PROVE  NewSlot(h + d) = NewSlot(Home(u) + d)
    OBVIOUS
  <2>1. /\ Home(u) < 2 * Size => h = Home(u)
        /\ Home(u) >= 2 * Size => h = Home(u) - 2 * Size
    BY <1>1, <1>2, <1>4, NewMod
  <2>2. d < 2 * Size /\ Home(u) + d < 4 * Size
    BY <1>1, <1>2, <1>4
  <2>3. CASE Home(u) < 2 * Size
    BY <2>1, <2>3
  <2>4. CASE Home(u) >= 2 * Size
    <3>1. PICK x \in Nat : x = h + d /\ x + 2 * Size = Home(u) + d /\ x + 2 * Size < 4 * Size
      BY <1>1, <1>4, <2>1, <2>2, <2>4
    <3>2. NewSlot(x) = x /\ NewSlot(x + 2 * Size) = x
      BY <1>1, <3>1, NewMod
    <3> QED
      BY <3>1, <3>2
  <2> QED
    BY <1>1, <1>4, <2>3, <2>4
<1>7. \A d : d \in D <=> d \in 0..(2 * Size - 1) /\ new[NewSlot(h + d)] = EMPTY
  BY <1>4 DEF FreeDistances
<1> HIDE DEF D
<1>8. PICK e \in Nat : Home(u) + e <= 2 * u + 1 /\ e \in D
  <2>1. CASE Home(u) <= 2 * u
    <3>1. PICK e \in Nat : Home(u) + e = 2 * u
      <4>1. 2 * u - Home(u) \in Nat /\ Home(u) + (2 * u - Home(u)) = 2 * u
        BY <1>2, <1>4, <2>1
      <4> QED
        BY <4>1
    <3>2. e \in 0..(2 * Size - 1)
      BY <1>1, <1>2, <1>4, <3>1
    <3>3. At(2 * u) = EMPTY
      BY <1>2, <1>5
    <3>4. new[NewSlot(h + e)] = EMPTY
      BY <1>2, <1>6, <3>1, <3>3 DEF At
    <3> QED
      BY <1>2, <1>7, <3>1, <3>2, <3>4
  <2>2. CASE Home(u) = 2 * u + 1
    <3>1. PICK e \in Nat : e \in 0..(2 * Size - 1) /\ Home(u) + e = 2 * u + 1
      <4>1. 0 \in 0..(2 * Size - 1) /\ Home(u) + 0 = 2 * u + 1
        BY <1>1, <1>2, <2>2
      <4> QED
        BY <4>1
    <3>2. At(2 * u + 1) = EMPTY
      BY <1>2, <1>5
    <3>3. new[NewSlot(h + e)] = EMPTY
      BY <1>2, <1>6, <3>1, <3>2 DEF At
    <3> QED
      BY <1>2, <1>7, <3>1, <3>3
  <2> QED
    BY <1>2, <1>4, <2>1, <2>2
<1>9. D \in SUBSET Nat
  BY <1>1, <1>7
<1>10. PICK d \in Nat : d = Min(D) /\ d \in D /\ \A x \in D : d <= x
  BY <1>8, <1>9, LeastElement
<1>11. Home(u) + d \in Nat /\ Home(u) + d <= 2 * u + 1
  BY <1>2, <1>4, <1>8, <1>10
<1>12. At(Home(u) + d) = EMPTY
  BY <1>6, <1>7, <1>10, <1>11 DEF At
<1>13. ASSUME NEW r \in Home(u)..(Home(u) + d - 1) PROVE At(r) # EMPTY
  <2>1. PICK x \in Nat : r = Home(u) + x /\ x < d
    <3>1. r - Home(u) \in Nat /\ r = Home(u) + (r - Home(u)) /\ r - Home(u) < d
      BY <1>4, <1>10
    <3> QED
      BY <3>1
  <2>2. x \notin D /\ d \in 0..(2 * Size - 1)
    BY <2>1, <1>7, <1>10
  <2>3. x \in 0..(2 * Size - 1)
    BY <1>1, <2>1, <2>2
  <2>4. NewSlot(h + x) = NewSlot(Home(u) + x)
    BY <1>2, <1>4, <1>6, <1>11, <2>1
  <2> QED
    BY <1>7, <2>1, <2>2, <2>3, <2>4 DEF At
<1>14. new' = [new EXCEPT ![NewSlot(h + d)] = Node(OldSlot(u), h, d)]
  BY <1>4, <1>8, <1>10 DEF MigrateNode, D, u, h
<1>15. NewSlot(h + d) = NewSlot(Home(u) + d) /\ (Home(u) + d) - Home(u) = d
  BY <1>4, <1>6, <1>11
<1>16. PICK p \in Nat : p = Home(u) + d
  BY <1>11
<1>17. /\ Home(u) <= p /\ p <= 2 * u + 1 /\ At(p) = EMPTY
       /\ \A r \in Home(u)..(p - 1) : At(r) # EMPTY
       /\ new' = [new EXCEPT ![NewSlot(p)] = Node(OldSlot(u), h, p - Home(u))]
  <2>1. NewSlot(h + d) = NewSlot(p) /\ d = p - Home(u)
    BY <1>4, <1>15, <1>16
  <2>2. new' = [new EXCEPT ![NewSlot(p)] = Node(OldSlot(u), h, p - Home(u))]
    BY <1>14, <2>1
  <2>3. Home(u) <= p /\ p <= 2 * u + 1 /\ At(p) = EMPTY
    BY <1>4, <1>11, <1>12, <1>16
  <2>4. \A r \in Home(u)..(p - 1) : At(r) # EMPTY
    BY <1>4, <1>13, <1>16
  <2> QED
    BY <2>2, <2>3, <2>4
<1> QED
  BY <1>17 DEF u, h

\* A step that goes on to the next old slot and has migrated what was there.
Migrated(b) ==
  /\ AtWork(b)
  /\ MigrateNode(b, i[b])
  /\ i' = [i EXCEPT ![b] = @ + 1]
  /\ UNCHANGED <<old, pc>>

\* What is common to the slots with a node and those without.
LEMMA MigratedFrame ==
  ASSUME Inv, NEW b \in BlocksOf, Migrated(b)
  PROVE  /\ i[b] \in Nat /\ Owns(b, i[b]) /\ ~Passed(b, i[b]) /\ i[b] < 2 * Size
         /\ pc' = pc /\ i' \in [BlocksOf -> Nat]
         /\ i'[b] = i[b] + 1 /\ \A c \in BlocksOf \ {b} : i'[c] = i[c]
         /\ \A c \in BlocksOf : \A u \in Nat :
              Passed(c, u)' <=> Passed(c, u) \/ (c = b /\ u = i[b])
         /\ OldSlot(i[b]) \notin MovedSlots
         /\ OldSlot(i[b]) \in Slots
<1>1. /\ Size \in Nat \ {0} /\ OldState /\ Types /\ ThreadState
  BY MigrationAssumption DEF Inv
<1>2. /\ i[b] \in Nat /\ First(b) \in Nat /\ Last(b) \in Nat /\ EndOf(b) \in Nat
      /\ First(b) <= i[b] /\ i[b] < Last(b) /\ HasEmpty(b) /\ First(b) < EndOf(b)
      /\ EndOf(b) <= Size /\ Last(b) < EndOf(b) + Size
  BY <1>1, Bounds, BlockBounds DEF Migrated, AtWork, Types, ThreadState
<1>3. Owns(b, i[b]) /\ ~Passed(b, i[b]) /\ i[b] < 2 * Size
  BY <1>1, <1>2 DEF Owns, Passed
<1>4. /\ pc' = pc /\ i' \in [BlocksOf -> Nat]
      /\ i'[b] = i[b] + 1 /\ \A c \in BlocksOf \ {b} : i'[c] = i[c]
  BY <1>1 DEF Migrated, Types
<1>5. /\ \A c : (HasEmpty(c)' <=> HasEmpty(c)) /\ First(c)' = First(c)
  BY OldFrame DEF Migrated
<1>6. ASSUME NEW c \in BlocksOf, NEW u \in Nat
      PROVE  Passed(c, u)' <=> Passed(c, u) \/ (c = b /\ u = i[b])
  <2>1. CASE c = b
    <3>1. u \in First(b)..(i'[b] - 1) <=> u \in First(b)..(i[b] - 1) \/ u = i[b]
      BY <1>2, <1>4
    <3>2. pc[b] # "start"
      BY DEF Migrated, AtWork
    <3> QED
      BY <1>2, <1>4, <1>5, <2>1, <3>1, <3>2 DEF Passed
  <2>2. CASE c # b
    BY <1>4, <1>5, <2>2 DEF Passed
  <2> QED
    BY <2>1, <2>2
<1>7. OldSlot(i[b]) \notin MovedSlots
  BY <1>1, <1>2, <1>3, PassedOnce DEF MovedSlots
<1>8. OldSlot(i[b]) \in Slots
  BY <1>1, <1>2, <1>3, OldMod
<1> QED
  BY <1>2, <1>3, <1>4, <1>6, <1>7, <1>8

\* The program counters and positions after such a step.
LEMMA MigratedThreads ==
  ASSUME Inv, NEW b \in BlocksOf, Migrated(b)
  PROVE  ThreadState' /\ count' \in [BlocksOf -> Nat]
<1>1. /\ Size \in Nat \ {0} /\ OldState /\ Types /\ ThreadState
  BY MigrationAssumption DEF Inv
<1>2. /\ i[b] \in Nat /\ First(b) \in Nat /\ Last(b) \in Nat /\ EndOf(b) \in Nat
      /\ count[b] \in Nat
      /\ First(b) <= i[b] /\ i[b] < Last(b) /\ HasEmpty(b) /\ First(b) < EndOf(b)
      /\ pc[b] \in {"block", "tail"}
      /\ pc[b] = "block" => i[b] < EndOf(b)
      /\ pc[b] = "tail" => EndOf(b) <= i[b]
      /\ count[b] <= i[b] - First(b)
  BY <1>1, Bounds, BlockBounds DEF Migrated, AtWork, Types, ThreadState
<1>3. /\ pc' = pc /\ i'[b] = i[b] + 1 /\ \A c \in BlocksOf \ {b} : i'[c] = i[c]
  BY MigratedFrame
<1>4. /\ \A c : (HasEmpty(c)' <=> HasEmpty(c)) /\ First(c)' = First(c) /\ Last(c)' = Last(c)
  BY OldFrame DEF Migrated
<1>5. /\ count' \in [BlocksOf -> Nat]
      /\ count'[b] \in {count[b], count[b] + 1}
      /\ \A c \in BlocksOf \ {b} : count'[c] = count[c]
  BY <1>1 DEF Types, Migrated, MigrateNode
<1>6. ThreadState'
  <2> SUFFICES ASSUME NEW c \in BlocksOf
               PROVE  /\ pc[c] = "start" \/ ~HasEmpty(c) => i'[c] = c /\ count'[c] = 0
                      /\ pc[c] = "block" => HasEmpty(c) /\ i'[c] \in First(c)..EndOf(c)
                      /\ pc[c] = "tail" => HasEmpty(c) /\ i'[c] \in EndOf(c)..Last(c)
                      /\ pc[c] = "done" /\ HasEmpty(c) => i'[c] = Last(c)
                      /\ pc[c] # "start" /\ HasEmpty(c) => count'[c] <= i'[c] - First(c)
    BY <1>3, <1>4 DEF ThreadState
  <2>1. CASE c # b
    BY <1>1, <1>3, <1>5, <2>1 DEF ThreadState
  <2>2. CASE c = b
    BY <1>2, <1>3, <1>5, <2>2
  <2> QED
    BY <2>1, <2>2
<1> QED
  BY <1>5, <1>6

\* Sets that are counted are finite.
LEMMA FiniteCounts ==
  ASSUME Types
  PROVE  IsFiniteSet(Counted) /\ IsFiniteSet(MovedSlots)
<1> DEFINE S == {{b} \X (1..count[b]) : b \in BlocksOf}
           m == [b \in BlocksOf |-> {b} \X (1..count[b])]
<1>1. IsFiniteSet(Slots)
  BY MigrationAssumption, FS_Interval DEF Slots
<1>2. IsFiniteSet(BlocksOf) /\ IsFiniteSet(MovedSlots)
  BY <1>1, FS_Subset DEF BlocksOf, MovedSlots
<1>3. m \in Surjection(BlocksOf, S)
  BY DEF Surjection
<1>4. IsFiniteSet(S)
  BY <1>2, <1>3, FS_Surjection
<1>5. \A T \in S : IsFiniteSet(T)
  <2> SUFFICES ASSUME NEW b \in BlocksOf PROVE IsFiniteSet({b} \X (1..count[b]))
    OBVIOUS
  <2>1. count[b] \in Int /\ 1 \in Int
    BY DEF Types
  <2>2. IsFiniteSet(1..count[b])
    BY <2>1, FS_Interval
  <2>3. IsFiniteSet({b})
    BY FS_Singleton
  <2> QED
    BY <2>2, <2>3, FS_Product
<1>6. IsFiniteSet(Counted)
  BY <1>4, <1>5, FS_UNION DEF Counted
<1> QED
  BY <1>2, <1>6

\* A step that passes a slot without a node.
LEMMA SkipStep ==
  ASSUME Inv, NEW b \in BlocksOf, Migrated(b), ~IsNode(OldNode(i[b]))
  PROVE  Inv'
<1>1. new' = new /\ count' = count /\ old' = old /\ pc' = pc
  BY DEF Migrated, MigrateNode
<1>2. \A u : OldNode(u)' = OldNode(u) /\ Home(u)' = Home(u)
  BY <1>1, OldFrame
<1>3. Types' /\ ThreadState'
  BY <1>1, MigratedFrame, MigratedThreads DEF Inv, Types
<1>4. OldState' /\ Cleared'
  BY <1>1, OldFrame DEF Inv, Cleared, At
<1>5. \A c \in BlocksOf : \A u \in Nat : Moved(c, u)' <=> Moved(c, u)
  BY <1>2, MigratedFrame DEF Moved, IsNode
<1>6. \A u, p : Seated(u, p)' <=> Seated(u, p)
  BY <1>1, <1>2 DEF Seated, At
<1>7. Placed' /\ Once' /\ Source'
  BY <1>1, <1>5, <1>6 DEF Inv, Placed, Once, Source, IsNode
<1>8. MovedSlots' = MovedSlots /\ Counted' = Counted
  <2>1. ASSUME NEW s \in Slots, IsNode(old[s])
        PROVE  (\E c \in BlocksOf : \E u \in Nat : Passed(c, u)' /\ OldSlot(u) = s)
                 <=> (\E c \in BlocksOf : \E u \in Nat : Passed(c, u) /\ OldSlot(u) = s)
    BY <2>1, MigratedFrame DEF OldNode
  <2> QED
    BY <1>1, <2>1 DEF MovedSlots, Counted, IsNode
<1> QED
  BY <1>3, <1>4, <1>7, <1>8 DEF Inv, CountState

\* A step that migrates a node: it goes to an empty slot, so nothing that was
\* there is lost.
LEMMA MoveStep ==
  ASSUME Inv, NEW b \in BlocksOf, Migrated(b), IsNode(OldNode(i[b]))
  PROVE  Inv'
<1>1. /\ Size \in Nat \ {0} /\ OldState /\ Types /\ ThreadState
  BY MigrationAssumption DEF Inv
<1>2. /\ old' = old /\ pc' = pc /\ count' = [count EXCEPT ![b] = @ + 1]
  BY DEF Migrated, MigrateNode
<1>3. /\ OldState'
      /\ \A w : OldNode(w)' = OldNode(w) /\ Home(w)' = Home(w)
      /\ \A c : (HasEmpty(c)' <=> HasEmpty(c)) /\ First(c)' = First(c) /\ Last(c)' = Last(c)
  BY <1>1, <1>2, OldFrame
<1>u. PICK u \in Nat : u = i[b]
  BY MigratedFrame
<1>4. /\ u \in Nat /\ Owns(b, u) /\ ~Passed(b, u) /\ u < 2 * Size
      /\ \A c \in BlocksOf : \A w \in Nat : Passed(c, w)' <=> Passed(c, w) \/ (c = b /\ w = u)
      /\ OldSlot(u) \notin MovedSlots /\ OldSlot(u) \in Slots
      /\ IsNode(OldNode(u))
  BY <1>u, MigratedFrame
<1>5. PICK p \in Nat :
           /\ Home(u) <= p /\ p <= 2 * u + 1
           /\ At(p) = EMPTY
           /\ \A r \in Home(u)..(p - 1) : At(r) # EMPTY
           /\ new' = [new EXCEPT ![NewSlot(p)] = Node(OldSlot(u), OldNode(u).hash, p - Home(u))]
  BY <1>u, Placement DEF Migrated
<1>6. /\ Home(u) \in Nat /\ OldNode(u).id = OldSlot(u) /\ OldNode(u).hash \in NewSlots
      /\ p < 4 * Size
  BY <1>1, <1>4, <1>5, HomeIsNear
<1> DEFINE n == Node(OldSlot(u), OldNode(u).hash, p - Home(u))
           q == NewSlot(p)
<1>7. q \in NewSlots
  BY <1>1, <1>6, NewMod
<1>8. n \in [id : Slots, hash : NewSlots, distance : 0..MaxDistance] /\ n.id = OldSlot(u)
  <2>1. p - Home(u) \in Nat
    BY <1>5, <1>6
  <2>2. Cap(p - Home(u)) \in 0..MaxDistance
    BY <2>1, MigrationAssumption DEF Cap
  <2> QED
    BY <1>4, <1>6, <2>2 DEF Node
<1>9. IsNode(n) /\ n # EMPTY /\ n # GARBAGE
  <2>1. IsNode(n)
    BY <1>8, SlotsAssumption
  <2> QED
    BY <2>1 DEF IsNode
<1>10. n = Node(OldSlot(u), OldNode(u).hash, p - Home(u)) /\ q = NewSlot(p)
  OBVIOUS
<1> HIDE DEF n, q
<1>11. /\ new'[q] = n /\ \A s \in NewSlots \ {q} : new'[s] = new[s]
       /\ new' \in [NewSlots -> {EMPTY, GARBAGE}
                            \cup [id : Slots, hash : NewSlots, distance : 0..MaxDistance]]
  BY <1>1, <1>5, <1>7, <1>8, <1>10 DEF Types
<1>12. Types' /\ ThreadState'
  BY <1>1, <1>2, <1>11, MigratedFrame, MigratedThreads DEF Types
<1>13. \A x : NewSlot(x) \in NewSlots => At(x)' = IF NewSlot(x) = q THEN n ELSE At(x)
  BY <1>11 DEF At
<1>14. Cleared'
  <2> SUFFICES ASSUME NEW c \in BlocksOf, HasEmpty(c), pc[c] # "start",
                      NEW x \in (2 * First(c))..(IF pc[c] = "block" THEN 2 * EndOf(c) + 1
                                                 ELSE 2 * Last(c) - 1)
               PROVE  At(x)' # GARBAGE
    BY <1>2, <1>3 DEF Cleared
  <2>1. At(x) # GARBAGE
    BY DEF Inv, Cleared
  <2>2. /\ First(c) \in Nat /\ EndOf(c) \in Nat /\ Last(c) \in Nat /\ EndOf(c) <= Size
        /\ First(c) < EndOf(c) /\ Last(c) <= First(c) + Size
    BY <1>1, Bounds, BlockBounds
  <2>3. x \in Nat /\ x < 4 * Size
    BY <1>1, <2>2
  <2>4. NewSlot(x) \in NewSlots
    BY <1>1, <2>3, NewMod
  <2> QED
    BY <1>9, <1>13, <2>1, <2>4
<1>15. \A c \in BlocksOf : \A w \in Nat : Moved(c, w)' <=> Moved(c, w) \/ (c = b /\ w = u)
  BY <1>3, <1>4 DEF Moved, IsNode
<1>16. SeatsKept
  <2> SUFFICES ASSUME NEW c \in BlocksOf, NEW w \in Nat, NEW x \in Nat, Moved(c, w), Seated(w, x)
               PROVE  Seated(w, x)'
    BY DEF SeatsKept
  <2>1. Home(w) \in Nat /\ x <= 2 * w + 1 /\ Home(w) <= x
    BY <1>1, PassedIsOwned, HomeIsNear DEF Moved, Seated
  <2>2. ASSUME NEW r \in Home(w)..x PROVE At(r)' = At(r)
    <3>1. NewSlot(r) \in NewSlots
      BY <1>1, <2>1, SeatedNearby
    <3>2. At(r) # EMPTY
      BY DEF Seated
    <3>3. NewSlot(r) # q
      BY <1>5, <1>10, <3>2 DEF At
    <3> QED
      BY <1>13, <3>1, <3>3
  <2>3. At(x)' = At(x)
    BY <2>1, <2>2
  <2> QED
    BY <1>3, <2>2, <2>3 DEF Seated
<1>17. Seated(u, p)'
  <2>1. p \in Home(u)..(2 * u + 1)
    BY <1>4, <1>5, <1>6
  <2>2. At(p)' = n
    BY <1>7, <1>10, <1>13
  <2>3. ASSUME NEW r \in Home(u)..p PROVE At(r)' # EMPTY
    <3>1. r \in Nat /\ (r = p \/ r \in Home(u)..(p - 1)) /\ r < 4 * Size
      BY <1>1, <1>5, <1>6
    <3>2. NewSlot(r) \in NewSlots
      BY <1>1, <3>1, NewMod
    <3> QED
      BY <1>5, <1>9, <1>13, <2>2, <3>1, <3>2
  <2> QED
    BY <1>3, <1>10, <2>1, <2>2, <2>3 DEF Seated
<1>18. Placed'
  BY <1>4, <1>15, <1>16, <1>17 DEF Inv, Placed, SeatsKept
<1>19. ASSUME NEW x \in Nat, IsNode(At(x)), NewSlot(x) \in NewSlots, At(x).id = OldSlot(u)
       PROVE  FALSE
  <2>1. PICK d \in BlocksOf : \E v, y \in Nat : Moved(d, v) /\ Seated(v, y) /\ NewSlot(y) = NewSlot(x)
    BY <1>19 DEF Inv, Source, At
  <2>2. PICK v \in Nat, y \in Nat : Moved(d, v) /\ Seated(v, y) /\ NewSlot(y) = NewSlot(x)
    BY <2>1
  <2>3. At(x) = Node(OldSlot(v), OldNode(v).hash, y - Home(v))
    BY <2>2 DEF Seated, At
  <2>4. OldSlot(v) = OldSlot(u)
    BY <1>19, <2>3 DEF Node
  <2>5. b = d /\ v = u
    BY <1>1, <1>4, <2>2, <2>4, PassedOnce DEF Moved
  <2> QED
    BY <1>4, <2>2, <2>5 DEF Moved
<1>20. Once'
  <2> SUFFICES ASSUME NEW c \in BlocksOf, NEW w \in Nat, NEW x \in Nat, NEW y \in Nat,
                      Moved(c, w)', Seated(w, x)', Seated(w, y)'
               PROVE  x = y
    BY DEF Once
  <2>1. CASE c = b /\ w = u
    <3> SUFFICES ASSUME NEW z \in Nat, Seated(u, z)'
                 PROVE  z = p
      BY <2>1
    <3>1. /\ Home(u) <= z /\ z <= 2 * u + 1 /\ z < 4 * Size
          /\ At(z)' = Node(OldSlot(u), OldNode(u).hash, z - Home(u))
      BY <1>1, <1>3, <1>4, <1>6 DEF Seated
    <3>2. NewSlot(z) \in NewSlots
      BY <1>1, <3>1, NewMod
    <3>3. NewSlot(z) = q
      <4> SUFFICES ASSUME NewSlot(z) # q PROVE FALSE
        OBVIOUS
      <4>1. At(z) = Node(OldSlot(u), OldNode(u).hash, z - Home(u))
        BY <1>13, <3>1, <3>2
      <4>2. At(z).id = OldSlot(u)
        BY <4>1 DEF Node
      <4>3. IsNode(At(z))
        <5>1. z - Home(u) \in Nat
          BY <1>6, <3>1
        <5>2. Cap(z - Home(u)) \in 0..MaxDistance
          BY <5>1, MigrationAssumption DEF Cap
        <5> QED
          BY <1>4, <1>6, <4>1, <5>2, SlotsAssumption DEF Node
      <4> QED
        BY <1>19, <3>2, <4>2, <4>3
    <3>4. /\ z < 2 * Size => NewSlot(z) = z
          /\ z >= 2 * Size => NewSlot(z) = z - 2 * Size
          /\ p < 2 * Size => NewSlot(p) = p
          /\ p >= 2 * Size => NewSlot(p) = p - 2 * Size
      BY <1>1, <1>6, <3>1, NewMod
    <3>5. z - p < 2 * Size /\ p - z < 2 * Size
      <4>1. 2 * u + 1 < Home(u) + 2 * Size
        BY <1>1, <1>4, HomeIsNear
      <4> QED
        BY <1>1, <1>4, <1>5, <1>6, <3>1, <4>1
    <3> QED
      BY <1>1, <1>10, <3>3, <3>4, <3>5
  <2>2. CASE ~(c = b /\ w = u)
    <3>1. Moved(c, w)
      BY <1>15, <2>2
    <3>2. ASSUME NEW z \in Nat, Seated(w, z)' PROVE Seated(w, z)
      <4>1. Home(w) \in Nat /\ z <= 2 * w + 1 /\ Home(w) <= z
        BY <1>1, <1>3, <3>1, <3>2, PassedIsOwned, HomeIsNear DEF Moved, Seated
      <4>2. NewSlot(z) \in NewSlots
        BY <1>1, <3>1, <4>1, SeatedNearby
      <4>3. At(z)' = Node(OldSlot(w), OldNode(w).hash, z - Home(w))
        BY <1>3, <3>2 DEF Seated
      <4>4. NewSlot(z) # q
        <5> SUFFICES ASSUME NewSlot(z) = q PROVE FALSE
          OBVIOUS
        <5>1. OldSlot(w) = OldSlot(u)
          BY <1>8, <1>13, <4>2, <4>3 DEF Node
        <5>2. b = c /\ u = w
          BY <1>1, <1>4, <3>1, <5>1, PassedOnce DEF Moved
        <5> QED
          BY <2>2, <5>2
      <4>5. At(z) = Node(OldSlot(w), OldNode(w).hash, z - Home(w))
        BY <1>13, <4>2, <4>3, <4>4
      <4>6. PICK d \in BlocksOf : \E v, y3 \in Nat :
              Moved(d, v) /\ Seated(v, y3) /\ NewSlot(y3) = NewSlot(z)
        <5>1. IsNode(At(z))
          <6>1. Cap(z - Home(w)) \in 0..MaxDistance
            BY <4>1, MigrationAssumption DEF Cap
          <6>2. OldSlot(w) \in Slots /\ OldNode(w).hash \in NewSlots
            BY <1>1, <3>1, PassedIsOwned, HomeIsNear DEF Moved
          <6> QED
            BY <4>5, <6>1, <6>2, SlotsAssumption DEF Node
        <5> QED
          BY <4>2, <5>1 DEF Inv, Source, At
      <4>7. PICK v \in Nat, y3 \in Nat : Moved(d, v) /\ Seated(v, y3) /\ NewSlot(y3) = NewSlot(z)
        BY <4>6
      <4>8. OldSlot(v) = OldSlot(w)
        BY <4>5, <4>7 DEF Seated, At, Node
      <4>9. v = w
        BY <1>1, <3>1, <4>7, <4>8, PassedIsOwned, Disjoint DEF Moved
      <4>10. z = y3
        <5>1. /\ z < 4 * Size /\ y3 < 4 * Size /\ Home(w) <= y3 /\ y3 <= 2 * w + 1
              /\ 2 * w + 1 < Home(w) + 2 * Size
          BY <1>1, <3>1, <4>1, <4>7, <4>9, SeatedNearby, PassedIsOwned, HomeIsNear
             DEF Seated, Moved
        <5>2. /\ z < 2 * Size => NewSlot(z) = z
              /\ z >= 2 * Size => NewSlot(z) = z - 2 * Size
              /\ y3 < 2 * Size => NewSlot(y3) = y3
              /\ y3 >= 2 * Size => NewSlot(y3) = y3 - 2 * Size
          BY <1>1, <5>1, NewMod
        <5> QED
          BY <1>1, <4>1, <4>7, <5>1, <5>2
      <4> QED
        BY <4>7, <4>9, <4>10
    <3> QED
      BY <3>1, <3>2 DEF Inv, Once
  <2> QED
    BY <2>1, <2>2
<1>21. Source'
  <2> SUFFICES ASSUME NEW s \in NewSlots, IsNode(new'[s])
               PROVE  \E c \in BlocksOf : \E w, x \in Nat :
                        Moved(c, w)' /\ Seated(w, x)' /\ NewSlot(x) = s
    BY DEF Source
  <2>1. CASE s = q
    BY <1>4, <1>10, <1>15, <1>17, <2>1
  <2>2. CASE s # q
    <3>1. IsNode(new[s])
      BY <1>11, <2>2
    <3>2. PICK c \in BlocksOf : \E w, x \in Nat : Moved(c, w) /\ Seated(w, x) /\ NewSlot(x) = s
      BY <3>1 DEF Inv, Source
    <3> QED
      BY <1>15, <1>16, <3>2 DEF SeatsKept
  <2> QED
    BY <2>1, <2>2
<1>22. CountState'
  <2>1. MovedSlots' = MovedSlots \cup {OldSlot(u)}
    <3>1. IsNode(old[OldSlot(u)])
      BY <1>4 DEF OldNode
    <3>2. \A s \in Slots :
            (\E c \in BlocksOf : \E w \in Nat : Passed(c, w)' /\ OldSlot(w) = s)
              <=> (\E c \in BlocksOf : \E w \in Nat : Passed(c, w) /\ OldSlot(w) = s) \/ s = OldSlot(u)
      BY <1>4
    <3> QED
      BY <1>2, <1>4, <3>1, <3>2 DEF MovedSlots, IsNode
  <2>2. count[b] \in Nat /\ count'[b] = count[b] + 1 /\ \A c \in BlocksOf \ {b} : count'[c] = count[c]
    BY <1>1, <1>2 DEF Types
  <2>3. <<b, count[b] + 1>> \notin Counted
    BY <2>2 DEF Counted
  <2>4. Counted' = Counted \cup {<<b, count[b] + 1>>}
    <3>1. 1..count'[b] = (1..count[b]) \cup {count[b] + 1}
      BY <2>2
    <3>2. \A c \in BlocksOf : {c} \X (1..count'[c]) =
            IF c = b THEN ({c} \X (1..count[c])) \cup {<<b, count[b] + 1>>} ELSE {c} \X (1..count[c])
      BY <2>2, <3>1
    <3> QED
      BY <3>2 DEF Counted
  <2>5. /\ Cardinality(Counted') = Cardinality(Counted) + 1
        /\ Cardinality(MovedSlots') = Cardinality(MovedSlots) + 1
    BY <1>1, <1>4, <2>1, <2>3, <2>4, FiniteCounts, FS_AddElement
  <2> QED
    BY <2>5 DEF Inv, CountState
<1> QED
  BY <1>3, <1>12, <1>14, <1>18, <1>20, <1>21, <1>22 DEF Inv

\* A step over one slot of the block, or of the cluster at its end.
LEMMA MigrateBlockStep ==
  ASSUME Inv, NEW b \in BlocksOf, MigrateBlock(b)
  PROVE  Inv'
<1>1. /\ pc[b] = "block" /\ HasEmpty(b) /\ i[b] \in Nat /\ i[b] < EndOf(b)
      /\ EndOf(b) \in Nat /\ Last(b) \in Nat /\ EndOf(b) <= Last(b)
  BY Bounds, BlockBounds DEF Inv, Types, ThreadState, MigrateBlock
<1>2. Migrated(b)
  BY <1>1 DEF Migrated, AtWork, MigrateBlock
<1> QED
  BY <1>2, SkipStep, MoveStep

LEMMA MigrateTailStep ==
  ASSUME Inv, NEW b \in BlocksOf, MigrateTail(b)
  PROVE  Inv'
<1>1. /\ OldState /\ Types /\ ThreadState
  BY DEF Inv
<1>2. /\ pc[b] = "tail" /\ HasEmpty(b) /\ i[b] \in Nat /\ EndOf(b) <= i[b] /\ i[b] <= Last(b)
      /\ EndOf(b) \in Nat /\ Last(b) \in Nat /\ OldNode(Last(b)) = EMPTY
  BY <1>1, Bounds, BlockBounds DEF Types, ThreadState, MigrateTail
<1>3. CASE OldNode(i[b]) # EMPTY
  <2>1. i[b] < Last(b)
    BY <1>2, <1>3
  <2>2. Migrated(b)
    BY <1>2, <1>3, <2>1 DEF Migrated, AtWork, MigrateTail
  <2> QED
    BY <2>2, SkipStep, MoveStep
<1>4. CASE OldNode(i[b]) = EMPTY
  <2>1. i[b] = Last(b)
    BY <1>1, <1>2, <1>4, Bounds
  <2>2. /\ pc' = [pc EXCEPT ![b] = "done"]
        /\ new' = new /\ i' = i /\ count' = count /\ old' = old
    BY <1>4 DEF MigrateTail
  <2>3. /\ OldState'
        /\ \A u : OldNode(u)' = OldNode(u) /\ Home(u)' = Home(u)
        /\ \A c : (HasEmpty(c)' <=> HasEmpty(c)) /\ First(c)' = First(c) /\ Last(c)' = Last(c)
    BY <1>1, <2>2, OldFrame
  <2>4. Types'
    BY <1>1, <2>2 DEF Types
  <2>5. (\A c \in BlocksOf \ {b} : pc'[c] = pc[c]) /\ pc'[b] = "done"
    BY <2>2, <1>1 DEF Types
  <2>6. ThreadState'
    BY <1>1, <1>2, <2>1, <2>2, <2>3, <2>5 DEF ThreadState
  <2>7. \A c \in BlocksOf : (pc'[c] = "start" <=> pc[c] = "start")
                            /\ (pc'[c] = "block" <=> pc[c] = "block")
    BY <1>2, <2>5
  <2>8. Cleared'
    BY <2>2, <2>3, <2>7 DEF Inv, Cleared, At
  <2>9. \A c \in BlocksOf : \A u \in Nat : Passed(c, u)' <=> Passed(c, u)
    BY <2>2, <2>3, <2>7 DEF Passed
  <2>10. SeatsKept
    BY <2>2, <2>3 DEF SeatsKept, Seated, At
  <2> QED
    BY <2>2, <2>3, <2>4, <2>6, <2>8, <2>9, <2>10, ClearKeepsNodes DEF Inv
<1> QED
  BY <1>3, <1>4
-----------------------------------------------------------------------------
\* The invariant holds in every index that inserts and deletes can build.
LEMMA InvInit ==
  ASSUME Init
  PROVE  Inv
<1>1. Size \in Nat \ {0}
  BY MigrationAssumption
<1>2. PICK hashes \in [Slots -> NewSlots \cup {EMPTY, TOMBSTONE}] :
        /\ Reachable(hashes)
        /\ old = [s \in Slots |->
                    IF hashes[s] \in NewSlots
                    THEN Node(s, hashes[s], OldSlot(s - (hashes[s] \div 2)))
                    ELSE hashes[s]]
  BY DEF Init
<1>3. ASSUME NEW s \in Slots
      PROVE  old[s] = EMPTY <=> hashes[s] = EMPTY
  <2>1. CASE hashes[s] \in NewSlots
    <3>1. PICK d \in 0..(Size - 1) : d = OldSlot(s - (hashes[s] \div 2))
      BY <1>1, <2>1, HomeMod DEF Slots
    <3>2. Cap(d) \in 0..MaxDistance
      BY <1>1, <3>1, MigrationAssumption DEF Cap
    <3>3. IsNode(old[s])
      BY <1>2, <2>1, <3>1, <3>2, SlotsAssumption DEF Node
    <3> QED
      BY <2>1, <3>3, SlotsAssumption DEF IsNode
  <2>2. CASE hashes[s] \notin NewSlots
    BY <1>2, <2>2
  <2> QED
    BY <2>1, <2>2
<1>4. OldState
  <2>1. \E s \in Slots : old[s] = EMPTY
    BY <1>2, <1>3 DEF Reachable
  <2>2. ASSUME NEW s \in Slots, IsNode(old[s])
        PROVE  /\ old[s].id = s
               /\ old[s].hash \in NewSlots
               /\ old[s].distance = Cap(OldSlot(s - (old[s].hash \div 2)))
               /\ \A d \in 0..OldSlot(s - (old[s].hash \div 2)) : old[OldSlot(s - d)] # EMPTY
    <3>1. hashes[s] \in NewSlots
      BY <1>2, <2>2 DEF IsNode
    <3>2. old[s] = Node(s, hashes[s], OldSlot(s - (hashes[s] \div 2)))
      BY <1>2, <3>1
    <3>3. old[s].id = s /\ old[s].hash = hashes[s]
          /\ old[s].distance = Cap(OldSlot(s - (hashes[s] \div 2)))
      BY <3>2 DEF Node
    <3>4. ASSUME NEW d \in 0..OldSlot(s - (hashes[s] \div 2)) PROVE old[OldSlot(s - d)] # EMPTY
      <4>1. hashes[OldSlot(s - d)] # EMPTY
        BY <1>2, <3>1 DEF Reachable
      <4>2. OldSlot(s - (hashes[s] \div 2)) \in 0..(Size - 1) /\ s \in Nat /\ s < Size
        BY <1>1, <3>1, HomeMod DEF Slots
      <4>3. d \in Nat /\ d < Size
        BY <1>1, <4>2
      <4>4. OldSlot(s - d) \in Slots
        BY <1>1, <4>2, <4>3, OldMod
      <4> QED
        BY <1>3, <4>1, <4>4
    <3> QED
      BY <3>1, <3>3, <3>4
  <2> QED
    BY <2>1, <2>2 DEF OldState
<1>5. \A b \in BlocksOf : b \in Nat /\ pc[b] = "start" /\ i[b] = b /\ count[b] = 0
  BY BlockBounds DEF Init
<1>6. \A s \in NewSlots : new[s] = GARBAGE
  BY DEF Init
<1>7. Types
  BY <1>5 DEF Init, Types
<1>8. ThreadState /\ Cleared
  BY <1>5 DEF ThreadState, Cleared
<1>9. \A b \in BlocksOf : \A u : ~Passed(b, u)
  BY <1>5 DEF Passed
<1>10. Placed /\ Once /\ Source
  BY <1>6, <1>9 DEF Placed, Once, Source, Moved, IsNode
<1>11. CountState
  <2>1. MovedSlots = {}
    BY <1>9 DEF MovedSlots
  <2>2. \A b \in BlocksOf : 1..count[b] = {}
    BY <1>5
  <2>3. Counted = {}
    BY <2>2 DEF Counted
  <2> QED
    BY <2>1, <2>3 DEF CountState
<1> QED
  BY <1>4, <1>7, <1>8, <1>10, <1>11 DEF Inv

\* Every step keeps it.
LEMMA InvStep ==
  ASSUME Inv, [Next]_vars
  PROVE  Inv'
<1>1. CASE UNCHANGED vars
  <2>1. UNCHANGED <<old, new, pc, i, count>>
    BY <1>1 DEF vars
  <2>2. /\ OldState'
        /\ \A u : OldNode(u)' = OldNode(u) /\ Home(u)' = Home(u)
        /\ \A c : (HasEmpty(c)' <=> HasEmpty(c)) /\ First(c)' = First(c) /\ Last(c)' = Last(c)
    BY <2>1, OldFrame DEF Inv
  <2>3. Types' /\ ThreadState' /\ Cleared'
    BY <2>1, <2>2 DEF Inv, Types, ThreadState, Cleared, At
  <2>4. \A c \in BlocksOf : \A u \in Nat : Passed(c, u)' <=> Passed(c, u)
    BY <2>1, <2>2 DEF Passed
  <2>5. SeatsKept
    BY <2>1, <2>2 DEF SeatsKept, Seated, At
  <2> QED
    BY <2>1, <2>2, <2>3, <2>4, <2>5, ClearKeepsNodes DEF Inv
<1>2. CASE Next
  BY <1>2, StartStep, EndBlockStep, MigrateBlockStep, MigrateTailStep DEF Next
<1> QED
  BY <1>1, <1>2

LEMMA Invariance == Spec => []Inv
  BY InvInit, InvStep, PTL DEF Spec

\* Once all blocks are done, every slot of the old index has been passed.
LEMMA AllPassed ==
  ASSUME Inv, AllDone, NEW s \in Slots
  PROVE  \E b \in BlocksOf : \E u \in Nat : Passed(b, u) /\ Owns(b, u) /\ OldSlot(u) = s
<1>1. PICK b \in BlocksOf, u \in Nat : Owns(b, u) /\ OldSlot(u) = s
  BY Covered DEF Inv
<1>2. i[b] = Last(b) /\ HasEmpty(b) /\ pc[b] = "done"
  BY <1>1 DEF Inv, ThreadState, AllDone, Owns
<1> QED
  BY <1>1, <1>2 DEF Passed, Owns

\* Migrated blocks make a complete index (block_wise_migrate): whatever the
\* interleaving of the threads that migrate blocks, when all are done every node
\* of the old index is in exactly one slot of the new one, which holds nothing
\* else, and as many nodes have been counted as there are.
THEOREM EveryNodeArrives == Spec => []MigrationIsComplete
<1>1. ASSUME Inv PROVE MigrationIsComplete
  <2>1. /\ Size \in Nat \ {0} /\ OldState /\ Types /\ ThreadState
    BY <1>1, MigrationAssumption DEF Inv
  <2>2. TypeOK
    <3>1. ASSUME NEW s \in NewSlots, IsNode(new[s])
          PROVE  new[s].id \in Slots /\ new[s].distance \in 0..MaxDistance
      BY <2>1, <3>1 DEF Types, IsNode
    <3>2. ASSUME NEW b \in BlocksOf PROVE i[b] \in 0..(2 * Size) /\ count[b] \in 0..Size
      <4>1. /\ b \in Nat /\ EndOf(b) \in Nat /\ b < EndOf(b) /\ EndOf(b) <= Size
            /\ i[b] \in Nat /\ count[b] \in Nat
            /\ pc[b] \in {"start", "block", "tail", "done"}
        BY <2>1, BlockBounds DEF Types
      <4>2. CASE pc[b] = "start" \/ ~HasEmpty(b)
        BY <2>1, <4>1, <4>2 DEF ThreadState
      <4>3. CASE pc[b] # "start" /\ HasEmpty(b)
        <5>1. /\ First(b) \in Nat /\ Last(b) \in Nat /\ EndOf(b) <= Last(b)
              /\ First(b) < EndOf(b) /\ Last(b) <= First(b) + Size
          BY <2>1, <4>3, Bounds
        <5>2. i[b] <= Last(b) /\ count[b] <= i[b] - First(b)
          BY <2>1, <4>1, <4>3, <5>1 DEF ThreadState
        <5> QED
          BY <2>1, <4>1, <5>1, <5>2
      <4> QED
        BY <4>2, <4>3
    <3> QED
      BY <2>1, <3>1, <3>2 DEF TypeOK, Types
  <2>3. ASSUME AllDone, NEW s \in Slots, IsNode(old[s])
        PROVE  Cardinality(Position(s)) = 1
    <3>1. PICK b \in BlocksOf, u \in Nat : Passed(b, u) /\ Owns(b, u) /\ OldSlot(u) = s
      BY <1>1, <2>3, AllPassed
    <3>2. Moved(b, u)
      BY <2>3, <3>1 DEF Moved, OldNode
    <3>3. PICK p \in Nat : Seated(u, p)
      BY <1>1, <3>2 DEF Inv, Placed
    <3>4. NewSlot(p) \in Position(s)
      <4>1. NewSlot(p) \in NewSlots /\ Home(u) \in Nat /\ p - Home(u) \in Nat
        BY <2>1, <3>1, <3>2, <3>3, SeatedNearby, HomeIsNear DEF Seated, Moved
      <4>2. OldSlot(u) \in Slots /\ OldNode(u).hash \in NewSlots
        BY <2>1, <3>1, <3>2, HomeIsNear DEF Moved
      <4>3. Cap(p - Home(u)) \in 0..MaxDistance
        BY <4>1, MigrationAssumption DEF Cap
      <4>4. IsNode(At(p)) /\ At(p).id = s
        BY <3>1, <3>3, <4>2, <4>3, SlotsAssumption DEF Seated, Node
      <4> QED
        BY <4>1, <4>4 DEF Position, At
    <3>5. ASSUME NEW q \in Position(s) PROVE q = NewSlot(p)
      <4>1. q \in NewSlots /\ IsNode(new[q]) /\ new[q].id = s
        BY DEF Position
      <4>2. PICK c \in BlocksOf : \E w, r \in Nat : Moved(c, w) /\ Seated(w, r) /\ NewSlot(r) = q
        BY <1>1, <4>1 DEF Inv, Source
      <4>3. PICK w \in Nat, r \in Nat : Moved(c, w) /\ Seated(w, r) /\ NewSlot(r) = q
        BY <4>2
      <4>4. OldSlot(w) = s
        BY <4>1, <4>3 DEF Seated, At, Node
      <4>5. w = u
        BY <2>1, <3>1, <4>3, <4>4, PassedOnce DEF Moved
      <4>6. r = p
        BY <1>1, <3>2, <3>3, <4>3, <4>5 DEF Inv, Once
      <4> QED
        BY <4>3, <4>6
    <3>6. Position(s) = {NewSlot(p)}
      BY <3>4, <3>5
    <3> QED
      BY <3>6, FS_Singleton
  <2>4. ASSUME AllDone, NEW q \in NewSlots
        PROVE  new[q] = EMPTY \/ IsNode(new[q])
    <3>1. q \in Nat /\ q < 2 * Size
      BY <2>1 DEF NewSlots
    <3>2. PICK s \in Slots : s = q \div 2 /\ 2 * s <= q /\ q <= 2 * s + 1
      BY <2>1, <3>1 DEF Slots
    <3>3. PICK b \in BlocksOf, u \in Nat : Passed(b, u) /\ Owns(b, u) /\ OldSlot(u) = s
      BY <1>1, <2>4, AllPassed
    <3>4. /\ HasEmpty(b) /\ First(b) \in Nat /\ Last(b) \in Nat /\ First(b) <= u /\ u < Last(b)
          /\ pc[b] = "done" /\ u < 2 * Size
      BY <2>1, <2>4, <3>3, Bounds, BlockBounds DEF Owns, AllDone
    <3>5. /\ s \in Nat /\ s < Size
          /\ u < Size => u = s
          /\ u >= Size => u = s + Size
      BY <2>1, <3>3, <3>4, OldMod DEF Slots
    <3>6. PICK p \in Nat : p = q + 2 * (u - s) /\ 2 * u <= p /\ p <= 2 * u + 1 /\ NewSlot(p) = q
      <4>1. q + 2 * (u - s) \in Nat /\ 2 * u <= q + 2 * (u - s) /\ q + 2 * (u - s) <= 2 * u + 1
        BY <2>1, <3>1, <3>2, <3>5
      <4>2. PICK p \in Nat : p = q + 2 * (u - s)
        BY <4>1
      <4>3. (p = q /\ p < 2 * Size) \/ (p = q + 2 * Size /\ p < 4 * Size)
        BY <2>1, <3>1, <3>5, <4>2
      <4>4. NewSlot(p) = q
        BY <2>1, <3>1, <4>2, <4>3, NewMod
      <4> QED
        BY <4>1, <4>2, <4>4
    <3>7. p \in (2 * First(b))..(2 * Last(b) - 1)
      BY <3>4, <3>6
    <3>8. new[q] # GARBAGE
      BY <1>1, <3>4, <3>6, <3>7 DEF Inv, Cleared, At
    <3> QED
      BY <2>1, <2>4, <3>8, SlotsAssumption DEF Types
  <2>5. ASSUME AllDone
        PROVE  Cardinality(Counted) = Cardinality({s \in Slots : IsNode(old[s])})
    <3>1. MovedSlots = {s \in Slots : IsNode(old[s])}
      BY <1>1, <2>5, AllPassed DEF MovedSlots
    <3> QED
      BY <1>1, <3>1 DEF Inv, CountState
  <2> QED
    BY <2>2, <2>3, <2>4, <2>5 DEF MigrationIsComplete
<1> QED
  BY <1>1, Invariance, PTL

\* A lookup finds every migrated key (migrate_node): on the way from the slot its
\* hash chooses to its node no slot of the new index is empty, and the distance
\* in the node is that way's length, as far as a node can say it.
THEOREM MigratedNodesAreFound == Spec => []MigratedAreFindable
<1>1. ASSUME Inv PROVE MigratedAreFindable
  <2> SUFFICES ASSUME NEW s \in NewSlots, IsNode(new[s])
               PROVE  LET d == NewSlot(s - new[s].hash) IN
                      /\ \A c \in 0..d : new[NewSlot(new[s].hash + c)] # EMPTY
                      /\ new[s].distance = Cap(d)
    BY DEF MigratedAreFindable
  <2>1. /\ Size \in Nat \ {0} /\ OldState /\ Types /\ ThreadState
    BY <1>1, MigrationAssumption DEF Inv
  <2>2. PICK b \in BlocksOf : \E u, p \in Nat : Moved(b, u) /\ Seated(u, p) /\ NewSlot(p) = s
    BY <1>1 DEF Inv, Source
  <2>3. PICK u \in Nat, p \in Nat : Moved(b, u) /\ Seated(u, p) /\ NewSlot(p) = s
    BY <2>2
  <2>4. /\ Home(u) \in Nat /\ Home(u) <= p /\ p <= 2 * u + 1 /\ 2 * u + 1 < Home(u) + 2 * Size
        /\ NewSlot(Home(u)) = OldNode(u).hash /\ p < 4 * Size
    BY <2>1, <2>3, PassedIsOwned, HomeIsNear, SeatedNearby DEF Moved, Seated
  <2>5. new[s].hash = NewSlot(Home(u)) /\ new[s].distance = Cap(p - Home(u))
    BY <2>3, <2>4 DEF Seated, At, Node
  <2>6. PICK h \in Nat : h = new[s].hash /\ h < 2 * Size
                         /\ (h = Home(u) \/ (h + 2 * Size = Home(u) /\ p >= 2 * Size))
    BY <2>1, <2>4, <2>5, NewMod
  <2>7. /\ s \in Nat /\ s < 2 * Size /\ (s = p \/ s + 2 * Size = p)
        /\ p < 2 * Size => s = p
        /\ p >= 2 * Size => s + 2 * Size = p
    BY <2>1, <2>3, <2>4, NewMod
  <2>8. NewSlot(s - h) = p - Home(u)
    <3>1. s - h < 0 => NewSlot(s - h) = s - h + 2 * Size
      BY <2>1, <2>6, <2>7, NewMod
    <3>2. s - h >= 0 => NewSlot(s - h) = s - h
      BY <2>1, <2>6, <2>7, NewMod
    <3> QED
      BY <2>1, <2>4, <2>6, <2>7, <3>1, <3>2
  <2>9. ASSUME NEW c \in 0..(p - Home(u)) PROVE new[NewSlot(h + c)] # EMPTY
    <3>1. c \in Nat /\ Home(u) + c \in Home(u)..p /\ Home(u) + c < 4 * Size
      BY <2>1, <2>4
    <3>2. At(Home(u) + c) # EMPTY
      BY <2>3, <3>1 DEF Seated
    <3>3. NewSlot(h + c) = NewSlot(Home(u) + c)
      <4>1. CASE h = Home(u)
        BY <4>1
      <4>2. CASE h + 2 * Size = Home(u)
        <5>1. PICK x \in Nat : x = h + c /\ x + 2 * Size = Home(u) + c /\ x + 2 * Size < 4 * Size
          BY <2>1, <2>4, <2>6, <3>1, <4>2
        <5>2. NewSlot(x) = x /\ NewSlot(x + 2 * Size) = x
          BY <2>1, <5>1, NewMod
        <5> QED
          BY <5>1, <5>2
      <4> QED
        BY <2>6, <4>1, <4>2
    <3> QED
      BY <3>2, <3>3 DEF At
  <2> QED
    BY <2>5, <2>6, <2>8, <2>9
<1> QED
  BY <1>1, Invariance, PTL
=============================================================================
