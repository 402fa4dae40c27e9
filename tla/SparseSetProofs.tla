--------------------------- MODULE SparseSetProofs ---------------------------
(***************************************************************************)
(* A component table, for every page length, index range and set of        *)
(* components: the paged array and the dense vectors agree after any       *)
(* sequence of insertions and removals.  The first half of the module says *)
(* what the array's operations do to a lookup, the second half uses only   *)
(* that.                                                                   *)
(***************************************************************************)
EXTENDS SparseSet, FiniteSetTheorems, WellFoundedInduction, TLAPS

-----------------------------------------------------------------------------
(* Page and offset tell indices apart. *)
LEMMA Address ==
  ASSUME NEW i \in Nat
  PROVE  /\ PageOf(i) \in Nat \ {0} /\ OffsetOf(i) \in Offsets
         /\ \A j \in Nat : PageOf(i) = PageOf(j) /\ OffsetOf(i) = OffsetOf(j) => i = j
<1>1. ASSUME NEW n \in Nat
      PROVE  /\ n \div PageLen \in Nat /\ n % PageLen \in 0 .. PageLen - 1
             /\ n = PageLen * (n \div PageLen) + (n % PageLen)
  BY PageAssumption
<1>2. PageOf(i) \in Nat \ {0} /\ OffsetOf(i) \in Offsets
  BY <1>1 DEF PageOf, OffsetOf, Offsets
<1>3. ASSUME NEW j \in Nat, PageOf(i) = PageOf(j), OffsetOf(i) = OffsetOf(j)
      PROVE  i = j
  <2>1. PICK q : q = i \div PageLen /\ q = j \div PageLen
    BY <1>1, <1>3 DEF PageOf
  <2>2. PICK r : r = i % PageLen /\ r = j % PageLen
    BY <1>3 DEF OffsetOf
  <2>3. i = PageLen * q + r /\ j = PageLen * q + r
    BY <1>1, <2>1, <2>2
  <2>4. QED
    BY <2>3
<1>4. QED
  BY <1>2, <1>3

(* A set of numbers with a bound has a largest one, Max. *)
LEMMA MaxOfBounded ==
  ASSUME NEW S \in SUBSET Nat, S # {}, NEW n \in Nat, \A s \in S : s <= n
  PROVE  Max(S) \in S /\ \A s \in S : s <= Max(S)
<1>1. PICK D : D = {d \in 0 .. n : n - d \in S}
  OBVIOUS
<1>2. D \subseteq Nat
  BY <1>1
<1>3. D # {}
  <2>1. PICK s \in S : s <= n
    OBVIOUS
  <2>2. n - s \in 0 .. n /\ n - (n - s) = s
    BY <2>1
  <2>3. QED
    BY <1>1, <2>1, <2>2
<1>4. \E d \in D : \A e \in D : ~ <<e, d>> \in OpToRel(<, Nat)
  BY <1>2, <1>3, WFMin, NatLessThanWellFounded
<1>5. PICK d \in D : \A e \in D : ~ e < d
  BY <1>2, <1>4 DEF OpToRel
<1>6. n - d \in S /\ d \in 0 .. n
  BY <1>1
<1>7. ASSUME NEW s \in S PROVE n - d >= s
  <2>1. n - s \in 0 .. n /\ n - (n - s) = s
    BY <1>7
  <2>2. n - s \in D
    BY <1>1, <1>7, <2>1
  <2>3. ~ n - s < d
    BY <1>5, <2>2
  <2>4. QED
    BY <1>6, <2>1, <2>3
<1>8. Max(S) \in S /\ \A s \in S : Max(S) >= s
  BY <1>6, <1>7 DEF Max
<1>9. QED
  BY <1>8

(* What a page holds is finite. *)
LEMMA HeldFinite == ASSUME NEW page PROVE IsFiniteSet(Held(page))
<1>1. IsFiniteSet(0 .. PageLen - 1)
  BY PageAssumption, FS_Interval
<1>2. Held(page) \subseteq 0 .. PageLen - 1
  BY DEF Held, Offsets
<1>3. QED
  BY <1>1, <1>2, FS_Subset

(* Entries held before and after one offset is written. *)
LEMMA HeldAfterWrite ==
  ASSUME NEW page \in Page, NEW offset \in Offsets, NEW value \in Nat
  PROVE  /\ [page EXCEPT ![offset] = value] \in Page
         /\ Cardinality(Held([page EXCEPT ![offset] = value])) =
              IF page[offset] = Absent THEN Cardinality(Held(page)) + 1
              ELSE Cardinality(Held(page))
         /\ Cardinality(Held(page)) \in Nat
<1>1. Held([page EXCEPT ![offset] = value]) = Held(page) \cup {offset}
  BY PageAssumption DEF Held, Page
<1>2. offset \in Held(page) <=> page[offset] # Absent
  BY DEF Held
<1>3. QED
  BY <1>1, <1>2, HeldFinite, FS_AddElement, FS_CardinalityType DEF Page

(* And after one entry is taken. *)
LEMMA HeldAfterTake ==
  ASSUME NEW page \in Page, NEW offset \in Offsets, page[offset] # Absent
  PROVE  /\ [page EXCEPT ![offset] = Absent] \in Page
         /\ Cardinality(Held([page EXCEPT ![offset] = Absent])) = Cardinality(Held(page)) - 1
         /\ Cardinality(Held(page)) \in Nat \ {0}
         /\ Cardinality(Held(page)) = 1 =>
              \A other \in Offsets : other # offset => page[other] = Absent
<1>1. Held([page EXCEPT ![offset] = Absent]) = Held(page) \ {offset}
  BY DEF Held, Page
<1>2. offset \in Held(page)
  BY DEF Held
<1>3. /\ IsFiniteSet(Held(page) \ {offset})
      /\ Cardinality(Held(page) \ {offset}) = Cardinality(Held(page)) - 1
  BY <1>2, HeldFinite, FS_RemoveElement
<1>4. Cardinality(Held(page)) \in Nat /\ Cardinality(Held(page) \ {offset}) \in Nat
  BY <1>3, HeldFinite, FS_CardinalityType
<1>5. Cardinality(Held(page)) \in Nat \ {0}
  BY <1>3, <1>4
<1>6. ASSUME Cardinality(Held(page)) = 1, NEW other \in Offsets, other # offset
      PROVE  page[other] = Absent
  <2>1. Held(page) \ {offset} = {}
    BY <1>3, <1>6, FS_EmptySet
  <2>2. QED
    BY <1>6, <2>1 DEF Held
<1>7. QED
  BY <1>1, <1>3, <1>5, <1>6 DEF Page

-----------------------------------------------------------------------------
(* A lookup returns a position or nothing. *)
LEMMA GetType ==
  ASSUME NEW array \in Seq(Slot), NEW index \in Nat
  PROVE  Get(array, index) \in Nat \cup {Absent}
<1>1. CASE PageOf(index) \in DOMAIN array /\ array[PageOf(index)].page # NoPage
  <2>1. array[PageOf(index)] \in Slot
    BY <1>1
  <2>2. array[PageOf(index)].page \in Page
    BY <1>1, <2>1 DEF Slot
  <2>3. QED
    BY <1>1, <2>2, Address DEF Get, Page
<1>2. CASE ~ (PageOf(index) \in DOMAIN array /\ array[PageOf(index)].page # NoPage)
  BY <1>2 DEF Get
<1>3. QED
  BY <1>1, <1>2

(* Growing an array adds empty slots and changes no lookup. *)
LEMMA GrownEffect ==
  ASSUME NEW array \in Seq(Slot), NEW p \in Nat \ {0}
  PROVE  LET grown == Grown(array, p)
             size == IF p > Len(array) THEN p ELSE Len(array)
         IN  /\ grown \in Seq(Slot) /\ Len(grown) = size /\ p \in 1 .. size
             /\ \A q \in 1 .. size :
                  grown[q] = IF q \in 1 .. Len(array) THEN array[q] ELSE EmptySlot
<1> DEFINE size == IF p > Len(array) THEN p ELSE Len(array)
           grown == Grown(array, p)
<1>1. size \in Nat /\ p \in 1 .. size /\ DOMAIN array = 1 .. Len(array)
  OBVIOUS
<1>2. EmptySlot \in Slot
  BY DEF EmptySlot, Slot
<1>3. grown = [q \in 1 .. size |-> IF q \in 1 .. Len(array) THEN array[q] ELSE EmptySlot]
  BY <1>1 DEF Grown
<1>4. \A q \in 1 .. size : (IF q \in 1 .. Len(array) THEN array[q] ELSE EmptySlot) \in Slot
  BY <1>2
<1> HIDE DEF size
<1>5. grown \in Seq(Slot) /\ Len(grown) = size
  BY <1>1, <1>3, <1>4
<1>6. QED
  BY <1>1, <1>3, <1>5 DEF size

(* An array with one slot replaced. *)
WithSlot(array, p, new) == [array EXCEPT ![p] = new]

(* An array that differs from another in one slot. *)
Replaced(result, array, p, new) ==
  /\ result \in Seq(Slot)
  /\ Len(result) = Len(array) /\ DOMAIN result = 1 .. Len(array)
  /\ \A q \in 1 .. Len(array) : result[q] = IF q = p THEN new ELSE array[q]

(* So does the one with the slot replaced. *)
LEMMA SlotReplaced ==
  ASSUME NEW array \in Seq(Slot), NEW p \in 1 .. Len(array), NEW new \in Slot
  PROVE  Replaced(WithSlot(array, p, new), array, p, new)
<1>1. WithSlot(array, p, new) \in Seq(Slot)
  BY DEF WithSlot
<1>2. /\ Len(WithSlot(array, p, new)) = Len(array)
      /\ DOMAIN WithSlot(array, p, new) = 1 .. Len(array)
  BY DEF WithSlot
<1>3. \A q \in 1 .. Len(array) : WithSlot(array, p, new)[q] = IF q = p THEN new ELSE array[q]
  BY DEF WithSlot
<1>4. QED
  BY <1>1, <1>2, <1>3 DEF Replaced

(* insert changes the lookup of its index only, and counts right. *)
LEMMA InsertEffect ==
  ASSUME NEW array \in Seq(Slot), Tight(array), NEW index \in Nat, NEW value \in Nat
  PROVE  /\ Insert(array, index, value) \in Seq(Slot)
         /\ Tight(Insert(array, index, value))
         /\ \A j \in Nat : Get(Insert(array, index, value), j) =
              IF j = index THEN value ELSE Get(array, j)
<1>1. PICK p \in Nat \ {0} : p = PageOf(index)
  BY Address
<1>2. PICK offset \in Offsets : offset = OffsetOf(index)
  BY Address
<1>3. PICK size : size = IF p > Len(array) THEN p ELSE Len(array)
  OBVIOUS
<1>4. PICK grown \in Seq(Slot) :
        /\ grown = Grown(array, p)
        /\ Len(grown) = size /\ p \in 1 .. size /\ size \in Nat
        /\ \A q \in 1 .. size :
             grown[q] = IF q \in 1 .. Len(array) THEN array[q] ELSE EmptySlot
  BY <1>3, GrownEffect
<1>5. PICK page : page = IF grown[p].page = NoPage THEN EmptyPage ELSE grown[p].page
  OBVIOUS
<1>6. /\ grown[p] \in Slot /\ page \in Page
      /\ grown[p].page = NoPage => page = EmptyPage
      /\ grown[p].page # NoPage => page = grown[p].page
      /\ grown[p].len = Cardinality(Held(page))
  <2>1. grown[p] \in Slot
    BY <1>4
  <2>2. EmptyPage \in Page /\ Held(EmptyPage) = {}
    BY DEF EmptyPage, Page, Held
  <2>3. page \in Page
    BY <1>5, <2>1, <2>2 DEF Slot
  <2>4. CASE p \in 1 .. Len(array)
    <3>1. grown[p] = array[p] /\ DOMAIN array = 1 .. Len(array)
      BY <1>4, <2>4
    <3>2. QED
      BY <1>5, <2>2, <2>3, <2>1, <2>4, <3>1, FS_EmptySet DEF Tight
  <2>5. CASE p \notin 1 .. Len(array)
    <3>1. grown[p].page = NoPage /\ grown[p].len = 0
      BY <1>4, <2>5 DEF EmptySlot
    <3>2. page = EmptyPage /\ Cardinality(Held(page)) = 0
      BY <1>5, <2>2, <3>1, FS_EmptySet
    <3>3. QED
      BY <2>1, <2>3, <3>1, <3>2
  <2>6. QED
    BY <2>4, <2>5
<1>7. PICK written \in Page :
        /\ written = [page EXCEPT ![offset] = value]
        /\ \A o \in Offsets : written[o] = IF o = offset THEN value ELSE page[o]
        /\ Cardinality(Held(written)) = IF page[offset] = Absent THEN grown[p].len + 1
                                        ELSE grown[p].len
        /\ Cardinality(Held(written)) \in Nat \ {0}
  <2>1. [page EXCEPT ![offset] = value] \in Page
    BY <1>6, HeldAfterWrite
  <2>2. \A o \in Offsets : [page EXCEPT ![offset] = value][o] =
          IF o = offset THEN value ELSE page[o]
    BY <1>6 DEF Page
  <2>3. Cardinality(Held([page EXCEPT ![offset] = value])) =
          IF page[offset] = Absent THEN grown[p].len + 1 ELSE grown[p].len
    BY <1>6, HeldAfterWrite
  <2>4. value # Absent /\ [page EXCEPT ![offset] = value][offset] # Absent
    BY <2>2, PageAssumption
  <2>5. Cardinality(Held([page EXCEPT ![offset] = value])) \in Nat \ {0}
    BY <2>1, <2>4, HeldAfterTake
  <2>6. QED
    BY <2>1, <2>2, <2>3, <2>5
<1>8. PICK new \in Slot : /\ new = [page |-> written, len |-> Cardinality(Held(written))]
                          /\ new.page = written /\ new.page # NoPage
                          /\ new.len = Cardinality(Held(written)) /\ new.len > 0
  <2>1. PICK count \in Nat \ {0} : count = Cardinality(Held(written))
    BY <1>7
  <2>2. [page |-> written, len |-> count] \in Slot
    BY DEF Slot
  <2>3. written # NoPage /\ count > 0
    BY <2>1, NoPageAssumption
  <2>4. QED
    BY <2>1, <2>2, <2>3
<1>9. Insert(array, index, value) = WithSlot(grown, p, new)
  BY <1>1, <1>2, <1>4, <1>5, <1>6, <1>7, <1>8 DEF Insert, WithSlot
<1>10. PICK result \in Seq(Slot) :
        /\ result = WithSlot(grown, p, new)
        /\ Len(result) = size /\ DOMAIN result = 1 .. size
        /\ \A q \in 1 .. size : result[q] = IF q = p THEN new ELSE grown[q]
  <2>1. p \in 1 .. Len(grown)
    BY <1>4
  <2>2. PICK result : result = WithSlot(grown, p, new)
    OBVIOUS
  <2>3. Replaced(result, grown, p, new)
    BY <2>1, <2>2, SlotReplaced
  <2>4. QED
    BY <1>4, <2>2, <2>3 DEF Replaced
<1>11. ASSUME NEW j \in Nat
       PROVE  Get(result, j) = IF j = index THEN value ELSE Get(array, j)
  <2>1. PICK q \in Nat \ {0} : q = PageOf(j)
    BY Address
  <2>2. PICK o \in Offsets : o = OffsetOf(j)
    BY Address
  <2>3. CASE q = p
    <3>1. Get(result, j) = IF o = offset THEN value ELSE page[o]
      <4>1. p \in DOMAIN result /\ result[p] = new
        BY <1>4, <1>10
      <4>2. Get(result, j) = written[o]
        BY <1>8, <2>1, <2>2, <2>3, <4>1 DEF Get
      <4>3. QED
        BY <1>7, <4>2
    <3>2. Get(array, j) = page[o]
      <4>1. CASE p \in 1 .. Len(array)
        BY <1>4, <1>6, <2>1, <2>2, <2>3, <4>1 DEF Get, EmptyPage
      <4>2. CASE p \notin 1 .. Len(array)
        <5>1. grown[p].page = NoPage
          BY <1>4, <4>2 DEF EmptySlot
        <5>2. QED
          BY <1>6, <2>1, <2>2, <2>3, <4>2, <5>1 DEF Get, EmptyPage
      <4>3. QED
        BY <4>1, <4>2
    <3>3. o = offset <=> j = index
      BY <1>1, <1>2, <2>1, <2>2, <2>3, Address
    <3>4. QED
      BY <3>1, <3>2, <3>3
  <2>4. CASE q # p
    <3>1. j # index
      BY <1>1, <2>1, <2>4
    <3>2. CASE q \in 1 .. Len(array)
      <4>1. q \in 1 .. size /\ result[q] = array[q]
        BY <1>3, <1>4, <1>10, <2>4, <3>2
      <4>2. QED
        BY <1>10, <2>1, <2>2, <3>1, <3>2, <4>1 DEF Get
    <3>3. CASE q \notin 1 .. Len(array)
      <4>1. q \in 1 .. size => result[q].page = NoPage
        BY <1>4, <1>10, <2>4, <3>3 DEF EmptySlot
      <4>2. QED
        BY <1>10, <2>1, <2>2, <3>1, <3>3, <4>1 DEF Get
    <3>4. QED
      BY <3>2, <3>3
  <2>5. QED
    BY <2>3, <2>4
<1>12. Tight(result)
  <2>1. ASSUME NEW q \in 1 .. size
        PROVE  /\ result[q].len = IF result[q].page = NoPage THEN 0
                                  ELSE Cardinality(Held(result[q].page))
               /\ result[q].page # NoPage => result[q].len > 0
    <3>1. CASE q = p
      BY <1>8, <1>10, <3>1
    <3>2. CASE q # p /\ q \in 1 .. Len(array)
      BY <1>4, <1>10, <2>1, <3>2 DEF Tight
    <3>3. CASE q # p /\ q \notin 1 .. Len(array)
      BY <1>4, <1>10, <2>1, <3>3 DEF EmptySlot
    <3>4. QED
      BY <3>1, <3>2, <3>3
  <2>2. result[size].page # NoPage
    <3>1. CASE size = p
      BY <1>4, <1>8, <1>10, <3>1
    <3>2. CASE size # p
      <4>1. size = Len(array) /\ size \in 1 .. Len(array) /\ array # <<>>
        BY <1>3, <1>4, <3>2
      <4>2. QED
        BY <1>4, <1>10, <3>2, <4>1 DEF Tight
    <3>3. QED
      BY <3>1, <3>2
  <2>3. QED
    BY <1>10, <2>1, <2>2 DEF Tight
<1>13. QED
  BY <1>9, <1>10, <1>11, <1>12

(* The slots count their pages' entries, and no page is empty. *)
Counted(array) ==
  \A p \in 1 .. Len(array) :
    /\ array[p].len = IF array[p].page = NoPage THEN 0
                      ELSE Cardinality(Held(array[p].page))
    /\ array[p].page # NoPage => array[p].len > 0

(* Popping the slots at the end that have no page changes no lookup. *)
LEMMA TrimmedEffect ==
  ASSUME NEW array \in Seq(Slot), Counted(array)
  PROVE  /\ Trimmed(array) \in Seq(Slot)
         /\ Tight(Trimmed(array))
         /\ \A j \in Nat : Get(Trimmed(array), j) = Get(array, j)
<1>1. PICK paged : paged = {0} \cup {p \in DOMAIN array : array[p].page # NoPage}
  OBVIOUS
<1>2. /\ paged \in SUBSET Nat /\ paged # {} /\ Len(array) \in Nat
      /\ \A p \in paged : p <= Len(array)
  BY <1>1
<1>3. Max(paged) \in paged /\ \A p \in paged : p <= Max(paged)
  BY <1>2, MaxOfBounded
<1>4. PICK last \in 0 .. Len(array) :
        /\ last = Max(paged)
        /\ last > 0 => array[last].page # NoPage
        /\ \A p \in 1 .. Len(array) : array[p].page # NoPage => p <= last
  <2>1. Max(paged) \in 0 .. Len(array)
    <3>1. Max(paged) \in Nat /\ Max(paged) <= Len(array)
      BY <1>2, <1>3
    <3>2. QED
      BY <1>2, <3>1
  <2>2. Max(paged) > 0 => array[Max(paged)].page # NoPage
    BY <1>1, <1>3
  <2>3. \A p \in 1 .. Len(array) : array[p].page # NoPage => p <= Max(paged)
    BY <1>1, <1>3
  <2>4. QED
    BY <2>1, <2>2, <2>3
<1>5. Trimmed(array) = SubSeq(array, 1, last)
  BY <1>1, <1>4 DEF Trimmed
<1>6. PICK result \in Seq(Slot) :
        /\ result = SubSeq(array, 1, last)
        /\ Len(result) = last /\ DOMAIN result = 1 .. last
        /\ \A p \in 1 .. last : result[p] = array[p]
  <2>1. SubSeq(array, 1, last) \in Seq(Slot)
    BY <1>4
  <2>2. Len(SubSeq(array, 1, last)) = last /\ DOMAIN SubSeq(array, 1, last) = 1 .. last
    BY <1>4
  <2>3. \A p \in 1 .. last : SubSeq(array, 1, last)[p] = array[p]
    BY <1>4
  <2>4. QED
    BY <2>1, <2>2, <2>3
<1>7. Tight(result)
  <2>1. \A p \in 1 .. last : p \in 1 .. Len(array)
    BY <1>4
  <2>2. result # <<>> => last > 0 /\ last \in 1 .. last
    BY <1>4, <1>6
  <2>3. QED
    BY <1>4, <1>6, <2>1, <2>2 DEF Tight, Counted
<1>8. ASSUME NEW j \in Nat PROVE Get(result, j) = Get(array, j)
  <2>1. PICK p \in Nat \ {0} : p = PageOf(j)
    BY Address
  <2>2. CASE p <= last
    <3>1. p \in DOMAIN result /\ p \in DOMAIN array /\ result[p] = array[p]
      BY <1>4, <1>6, <2>2
    <3>2. QED
      BY <2>1, <3>1 DEF Get
  <2>3. CASE p > last
    <3>1. p \notin DOMAIN result /\ (p \in DOMAIN array => array[p].page = NoPage)
      BY <1>4, <1>6, <2>3
    <3>2. QED
      BY <2>1, <3>1 DEF Get
  <2>4. QED
    BY <1>4, <2>2, <2>3
<1>9. QED
  BY <1>5, <1>6, <1>7, <1>8

(* remove changes the lookup of its index only, and counts right: a page    *)
(* that is given back held nothing else.                                    *)
LEMMA RemoveEffect ==
  ASSUME NEW array \in Seq(Slot), Tight(array), NEW index \in Nat, Get(array, index) # Absent
  PROVE  /\ Remove(array, index) \in Seq(Slot)
         /\ Tight(Remove(array, index))
         /\ \A j \in Nat : Get(Remove(array, index), j) =
              IF j = index THEN Absent ELSE Get(array, j)
<1>1. PICK p \in Nat \ {0} : p = PageOf(index)
  BY Address
<1>2. PICK offset \in Offsets : offset = OffsetOf(index)
  BY Address
<1>3. p \in 1 .. Len(array) /\ DOMAIN array = 1 .. Len(array) /\ array[p].page # NoPage
  BY <1>1 DEF Get
<1>4. PICK page \in Page : page = array[p].page /\ page[offset] # Absent
  <2>1. array[p] \in Slot
    BY <1>3
  <2>2. array[p].page \in Page
    BY <1>3, <2>1 DEF Slot
  <2>3. array[p].page[offset] # Absent
    BY <1>1, <1>2, <1>3 DEF Get
  <2>4. QED
    BY <2>2, <2>3
<1>5. array[p].len = Cardinality(Held(page)) /\ Counted(array)
  BY <1>3, <1>4 DEF Tight, Counted
<1>6. PICK count \in Nat \ {0} : count = Cardinality(Held(page))
  BY <1>4, HeldAfterTake
<1>7. ASSUME NEW new \in Slot, NEW result \in Seq(Slot),
             Len(result) = Len(array),
             \A q \in 1 .. Len(array) : result[q] = IF q = p THEN new ELSE array[q],
             \A o \in Offsets : (IF new.page = NoPage THEN Absent ELSE new.page[o]) =
                                  IF o = offset THEN Absent ELSE page[o],
             NEW j \in Nat
      PROVE  Get(result, j) = IF j = index THEN Absent ELSE Get(array, j)
  <2>1. PICK q \in Nat \ {0} : q = PageOf(j)
    BY Address
  <2>2. PICK o \in Offsets : o = OffsetOf(j)
    BY Address
  <2>3. DOMAIN result = 1 .. Len(array)
    BY <1>7
  <2>4. CASE q = p
    <3>1. Get(result, j) = IF o = offset THEN Absent ELSE page[o]
      BY <1>3, <1>7, <2>1, <2>2, <2>3, <2>4 DEF Get
    <3>2. Get(array, j) = page[o]
      BY <1>3, <1>4, <2>1, <2>2, <2>4 DEF Get
    <3>3. o = offset <=> j = index
      BY <1>1, <1>2, <2>1, <2>2, <2>4, Address
    <3>4. QED
      BY <3>1, <3>2, <3>3
  <2>5. CASE q # p
    <3>1. j # index
      BY <1>1, <2>1, <2>5
    <3>2. Get(result, j) = Get(array, j)
      BY <1>3, <1>7, <2>1, <2>3, <2>5 DEF Get
    <3>3. QED
      BY <3>1, <3>2
  <2>6. QED
    BY <2>4, <2>5
<1>8. CASE count = 1
  <2>1. EmptySlot \in Slot /\ EmptySlot.page = NoPage /\ EmptySlot.len = 0
    BY DEF EmptySlot, Slot
  <2>2. PICK result \in Seq(Slot) :
          /\ result = WithSlot(array, p, EmptySlot)
          /\ Len(result) = Len(array)
          /\ \A q \in 1 .. Len(array) : result[q] = IF q = p THEN EmptySlot ELSE array[q]
    <3>1. PICK result : result = WithSlot(array, p, EmptySlot)
      OBVIOUS
    <3>2. Replaced(result, array, p, EmptySlot)
      BY <1>3, <2>1, <3>1, SlotReplaced
    <3>3. QED
      BY <3>1, <3>2 DEF Replaced
  <2>3. \A o \in Offsets : (IF EmptySlot.page = NoPage THEN Absent ELSE EmptySlot.page[o]) =
                             IF o = offset THEN Absent ELSE page[o]
    BY <1>4, <1>6, <1>8, <2>1, HeldAfterTake
  <2>4. Counted(result)
    BY <1>5, <2>1, <2>2 DEF Counted
  <2>5. Remove(array, index) = Trimmed(result)
    BY <1>1, <1>5, <1>6, <1>8, <2>2 DEF Remove, WithSlot
  <2>6. \A j \in Nat : Get(result, j) = IF j = index THEN Absent ELSE Get(array, j)
    BY <1>7, <2>1, <2>2, <2>3
  <2>7. QED
    BY <2>2, <2>4, <2>5, <2>6, TrimmedEffect
<1>9. CASE count # 1
  <2>1. PICK left \in Page :
          /\ left = [page EXCEPT ![offset] = Absent]
          /\ \A o \in Offsets : left[o] = IF o = offset THEN Absent ELSE page[o]
          /\ Cardinality(Held(left)) = count - 1
    <3>1. [page EXCEPT ![offset] = Absent] \in Page
      BY <1>4, HeldAfterTake
    <3>2. \A o \in Offsets : [page EXCEPT ![offset] = Absent][o] =
            IF o = offset THEN Absent ELSE page[o]
      BY <1>4 DEF Page
    <3>3. Cardinality(Held([page EXCEPT ![offset] = Absent])) = count - 1
      BY <1>4, <1>6, HeldAfterTake
    <3>4. QED
      BY <3>1, <3>2, <3>3
  <2>2. PICK new \in Slot : /\ new = [page |-> left, len |-> count - 1]
                            /\ new.page = left /\ new.page # NoPage
                            /\ new.len = Cardinality(Held(left)) /\ new.len > 0
    <3>1. count - 1 \in Nat /\ count - 1 > 0
      BY <1>6, <1>9
    <3>2. [page |-> left, len |-> count - 1] \in Slot
      BY <3>1 DEF Slot
    <3>3. left # NoPage
      BY NoPageAssumption
    <3>4. QED
      BY <2>1, <3>1, <3>2, <3>3
  <2>3. array[p] = [page |-> page, len |-> count]
    <3>1. array[p] \in Slot
      BY <1>3
    <3>2. QED
      BY <1>4, <1>5, <1>6, <3>1 DEF Slot
  <2>4. Remove(array, index) = WithSlot(array, p, new)
    BY <1>1, <1>2, <1>4, <1>5, <1>6, <1>9, <2>1, <2>2 DEF Remove, WithSlot
  <2>5. PICK result \in Seq(Slot) :
          /\ result = WithSlot(array, p, new)
          /\ Len(result) = Len(array)
          /\ \A q \in 1 .. Len(array) : result[q] = IF q = p THEN new ELSE array[q]
    <3>1. PICK result : result = WithSlot(array, p, new)
      OBVIOUS
    <3>2. Replaced(result, array, p, new)
      BY <1>3, <3>1, SlotReplaced
    <3>3. QED
      BY <3>1, <3>2 DEF Replaced
  <2>6. \A j \in Nat : Get(result, j) = IF j = index THEN Absent ELSE Get(array, j)
    <3>1. \A o \in Offsets : (IF new.page = NoPage THEN Absent ELSE new.page[o]) =
                               IF o = offset THEN Absent ELSE page[o]
      BY <2>1, <2>2
    <3>2. QED
      BY <1>7, <2>5, <3>1
  <2>7. Tight(result)
    <3>1. \A q \in 1 .. Len(array) :
            /\ result[q].len = IF result[q].page = NoPage THEN 0
                               ELSE Cardinality(Held(result[q].page))
            /\ result[q].page # NoPage => result[q].len > 0
      BY <1>5, <2>2, <2>5 DEF Counted
    <3>2. result[Len(array)].page # NoPage
      <4>1. Len(array) \in 1 .. Len(array) /\ array # <<>>
        BY <1>3
      <4>2. array[Len(array)].page # NoPage
        BY <4>1 DEF Tight
      <4>3. QED
        BY <2>2, <2>5, <4>1, <4>2
    <3>3. QED
      BY <2>5, <3>1, <3>2 DEF Tight
  <2>8. QED
    BY <2>4, <2>5, <2>6, <2>7
<1>10. QED
  BY <1>8, <1>9

-----------------------------------------------------------------------------
(* The table's inductive invariant: the agreement needs no strengthening    *)
(* but the types and the counts of the array, on which a page's return      *)
(* depends.                                                                 *)
IInv == TypeOK /\ PositionsAgree /\ PagesTight

(* swap_remove: one element less, and the last one in the gap. *)
LEMMA SwapRemoveEffect ==
  ASSUME NEW S, NEW seq \in Seq(S), NEW k \in 1 .. Len(seq)
  PROVE  /\ SwapRemove(seq, k) \in Seq(S)
         /\ Len(SwapRemove(seq, k)) = Len(seq) - 1
         /\ \A l \in 1 .. Len(seq) - 1 :
              SwapRemove(seq, k)[l] = IF l = k THEN seq[Len(seq)] ELSE seq[l]
<1>1. PICK moved \in Seq(S) :
        /\ moved = [seq EXCEPT ![k] = seq[Len(seq)]]
        /\ Len(moved) = Len(seq)
        /\ \A l \in 1 .. Len(seq) : moved[l] = IF l = k THEN seq[Len(seq)] ELSE seq[l]
  <2>1. Len(seq) \in 1 .. Len(seq) /\ seq[Len(seq)] \in S
    OBVIOUS
  <2>2. [seq EXCEPT ![k] = seq[Len(seq)]] \in Seq(S)
    BY <2>1
  <2>3. Len([seq EXCEPT ![k] = seq[Len(seq)]]) = Len(seq)
    OBVIOUS
  <2>4. \A l \in 1 .. Len(seq) : [seq EXCEPT ![k] = seq[Len(seq)]][l] =
          IF l = k THEN seq[Len(seq)] ELSE seq[l]
    OBVIOUS
  <2>5. QED
    BY <2>2, <2>3, <2>4
<1>2. SwapRemove(seq, k) = SubSeq(moved, 1, Len(seq) - 1)
  BY <1>1 DEF SwapRemove
<1>3. SubSeq(moved, 1, Len(seq) - 1) \in Seq(S)
  BY <1>1
<1>4. Len(SubSeq(moved, 1, Len(seq) - 1)) = Len(seq) - 1
  BY <1>1
<1>5. \A l \in 1 .. Len(seq) - 1 : SubSeq(moved, 1, Len(seq) - 1)[l] = moved[l]
  BY <1>1
<1>6. QED
  BY <1>1, <1>2, <1>3, <1>4, <1>5

(* The invariant in terms of ranges of numbers. *)
LEMMA Positions ==
  ASSUME IInv
  PROVE  /\ sparse \in Seq(Slot) /\ Tight(sparse)
         /\ dense \in Seq(Entity) /\ data \in Seq(Value) /\ Len(data) = Len(dense)
         /\ \A k \in 1 .. Len(dense) : /\ dense[k] \in Entity /\ dense[k].index \in Index
                                       /\ Get(sparse, dense[k].index) = k - 1
         /\ \A index \in Index :
              \/ Get(sparse, index) = Absent
              \/ /\ Get(sparse, index) \in Nat
                 /\ Get(sparse, index) + 1 \in 1 .. Len(dense)
                 /\ dense[Get(sparse, index) + 1].index = index
         /\ Index \subseteq Nat
<1>1. /\ sparse \in Seq(Slot) /\ Tight(sparse) /\ DOMAIN dense = 1 .. Len(dense)
      /\ dense \in Seq(Entity) /\ data \in Seq(Value) /\ Index \subseteq Nat
  BY IndexAssumption DEF IInv, TypeOK, PagesTight, Index
<1>2. \A k \in 1 .. Len(dense) : dense[k] \in Entity /\ dense[k].index \in Index
  <2>1. \A k \in 1 .. Len(dense) : dense[k] \in Entity
    BY <1>1
  <2>2. QED
    BY <2>1 DEF Entity
<1>3. \A index \in Index : Get(sparse, index) \in Nat \cup {Absent}
  BY <1>1, GetType
<1>4. QED
  BY <1>1, <1>2, <1>3 DEF IInv, PositionsAgree

(* An empty table. *)
LEMMA InitInv == Init => IInv
<1>1. SUFFICES ASSUME Init PROVE IInv
  OBVIOUS
<1>2. /\ sparse = <<>> /\ dense = <<>> /\ data = <<>>
  BY <1>1 DEF Init
<1>3. \A index \in Index : Get(sparse, index) = Absent
  BY <1>2 DEF Get
<1>4. QED
  BY <1>2, <1>3 DEF IInv, TypeOK, PositionsAgree, PagesTight, Tight

(* insert under an index without an entry: a new position at the end. *)
LEMMA InsertNewEffect ==
  ASSUME IInv, NEW entity \in Entity, NEW component \in Value, InsertNew(entity, component)
  PROVE  /\ entity.index \in Index /\ entity.index \in Nat /\ Len(dense) \in Nat
         /\ Get(sparse, entity.index) = Absent
         /\ sparse' \in Seq(Slot) /\ Tight(sparse')
         /\ \A j \in Nat : Get(sparse', j) = IF j = entity.index THEN Len(dense)
                                           ELSE Get(sparse, j)
         /\ dense' \in Seq(Entity) /\ data' \in Seq(Value)
         /\ Len(dense') = Len(dense) + 1 /\ Len(data') = Len(dense')
         /\ \A k \in 1 .. Len(dense) : dense'[k] = dense[k] /\ data'[k] = data[k]
         /\ dense'[Len(dense) + 1] = entity /\ data'[Len(dense) + 1] = component
         /\ DOMAIN dense' = 1 .. Len(dense) + 1
<1>1. /\ entity.index \in Index /\ entity.index \in Nat /\ Len(dense) \in Nat
      /\ Get(sparse, entity.index) = Absent
      /\ sparse' = Insert(sparse, entity.index, Len(dense))
      /\ dense' = Append(dense, entity) /\ data' = Append(data, component)
  BY Positions DEF InsertNew, Entity
<1>2. /\ sparse' \in Seq(Slot) /\ Tight(sparse')
      /\ \A j \in Nat : Get(sparse', j) = IF j = entity.index THEN Len(dense) ELSE Get(sparse, j)
  <2>1. PICK i \in Nat : i = entity.index
    BY <1>1
  <2>2. PICK n \in Nat : n = Len(dense)
    BY <1>1
  <2>3. sparse \in Seq(Slot) /\ Tight(sparse) /\ i \in Nat /\ n \in Nat
    BY <2>1, <2>2, Positions
  <2>4. /\ Insert(sparse, i, n) \in Seq(Slot) /\ Tight(Insert(sparse, i, n))
        /\ \A j \in Nat : Get(Insert(sparse, i, n), j) = IF j = i THEN n ELSE Get(sparse, j)
    <3>1. Insert(sparse, i, n) \in Seq(Slot)
      BY <2>3, InsertEffect
    <3>2. Tight(Insert(sparse, i, n))
      BY <2>3, InsertEffect
    <3>3. Get(Insert(sparse, i, n), i) = n
      BY <2>3, InsertEffect
    <3>4. ASSUME NEW j \in Nat, j # i
          PROVE  Get(Insert(sparse, i, n), j) = Get(sparse, j)
      BY <2>3, <3>4, InsertEffect
    <3>5. QED
      BY <3>1, <3>2, <3>3, <3>4
  <2>5. PICK inserted : inserted = Insert(sparse, i, n)
    OBVIOUS
  <2>6. sparse' = inserted
    BY <1>1, <2>1, <2>2, <2>5
  <2>7. /\ inserted \in Seq(Slot) /\ Tight(inserted)
        /\ \A j \in Nat : Get(inserted, j) = IF j = i THEN n ELSE Get(sparse, j)
    BY <2>4, <2>5
  <2>8. QED
    BY <2>1, <2>2, <2>6, <2>7
<1>3. /\ dense' \in Seq(Entity) /\ data' \in Seq(Value)
      /\ Len(dense') = Len(dense) + 1 /\ Len(data') = Len(dense')
      /\ \A k \in 1 .. Len(dense) : dense'[k] = dense[k] /\ data'[k] = data[k]
      /\ dense'[Len(dense) + 1] = entity /\ data'[Len(dense) + 1] = component
      /\ DOMAIN dense' = 1 .. Len(dense) + 1
  BY <1>1, Positions
<1>4. QED
  BY <1>1, <1>2, <1>3

(* The agreement after it. *)
LEMMA InsertNewInv ==
  ASSUME IInv, NEW entity \in Entity, NEW component \in Value, InsertNew(entity, component)
  PROVE  IInv'
<1>1. /\ entity.index \in Index /\ entity.index \in Nat /\ Len(dense) \in Nat
      /\ Get(sparse, entity.index) = Absent
  BY InsertNewEffect
<1>2. /\ sparse' \in Seq(Slot) /\ Tight(sparse')
      /\ \A j \in Nat : Get(sparse', j) = IF j = entity.index THEN Len(dense) ELSE Get(sparse, j)
  BY InsertNewEffect, Zenon
<1>3. /\ dense' \in Seq(Entity) /\ data' \in Seq(Value)
      /\ Len(dense') = Len(dense) + 1 /\ Len(data') = Len(dense')
      /\ \A k \in 1 .. Len(dense) : dense'[k] = dense[k]
      /\ dense'[Len(dense) + 1] = entity
      /\ DOMAIN dense' = 1 .. Len(dense) + 1
  BY InsertNewEffect
<1>4. ASSUME NEW k \in 1 .. Len(dense) + 1
      PROVE  Get(sparse', dense'[k].index) = k - 1
  <2>1. CASE k = Len(dense) + 1
    BY <1>1, <1>2, <1>3, <2>1
  <2>2. CASE k \in 1 .. Len(dense)
    <3>1. dense[k].index \in Index /\ dense[k].index \in Nat /\ Get(sparse, dense[k].index) = k - 1
      BY <2>2, Positions
    <3>2. dense[k].index # entity.index
      BY <1>1, <3>1, PageAssumption
    <3>3. QED
      BY <1>2, <1>3, <2>2, <3>1, <3>2
  <2>3. QED
    BY <1>1, <2>1, <2>2
<1>5. ASSUME NEW index \in Index, Get(sparse', index) # Absent
      PROVE  /\ Get(sparse', index) + 1 \in 1 .. Len(dense) + 1
             /\ dense'[Get(sparse', index) + 1].index = index
  <2>1. index \in Nat
    BY Positions
  <2>2. CASE index = entity.index
    BY <1>1, <1>2, <1>3, <2>1, <2>2
  <2>3. CASE index # entity.index
    <3>1. Get(sparse', index) = Get(sparse, index)
      BY <1>2, <2>1, <2>3
    <3>2. /\ Get(sparse, index) + 1 \in 1 .. Len(dense)
          /\ dense[Get(sparse, index) + 1].index = index
      BY <1>5, <3>1, Positions
    <3>3. QED
      BY <1>1, <1>3, <3>1, <3>2
  <2>4. QED
    BY <2>2, <2>3
<1>6. QED
  BY <1>2, <1>3, <1>4, <1>5 DEF IInv, TypeOK, PositionsAgree, PagesTight

(* insert over an entry of the same index keeps its position. *)
LEMMA ReplaceInv ==
  ASSUME IInv, NEW entity \in Entity, NEW component \in Value, Replace(entity, component)
  PROVE  IInv'
<1>1. PICK position \in Nat :
        /\ position = Get(sparse, entity.index)
        /\ position + 1 \in 1 .. Len(dense) /\ dense[position + 1].index = entity.index
        /\ dense' = [dense EXCEPT ![position + 1] = entity]
        /\ data' = [data EXCEPT ![position + 1] = component]
        /\ sparse' = sparse /\ entity.index \in Index
  <2>1. entity.index \in Index
    BY DEF Entity
  <2>2. QED
    BY <2>1, Positions DEF Replace
<1>2. /\ dense' \in Seq(Entity) /\ Len(dense') = Len(dense)
      /\ DOMAIN dense' = 1 .. Len(dense)
  BY <1>1, Positions
<1>3. data' \in Seq(Value) /\ Len(data') = Len(data)
  BY <1>1, Positions
<1>4. \A k \in 1 .. Len(dense) : dense'[k].index = dense[k].index
  <2>1. \A k \in 1 .. Len(dense) : dense'[k] = IF k = position + 1 THEN entity ELSE dense[k]
    BY <1>1, Positions, SMTT(20)
  <2>2. QED
    BY <1>1, <2>1
<1>5. PositionsAgree'
  BY <1>1, <1>2, <1>3, <1>4, Positions DEF PositionsAgree
<1>6. QED
  BY <1>1, <1>2, <1>3, <1>5 DEF IInv, TypeOK, PagesTight

(* A write changes a component in its place. *)
LEMMA WriteInv ==
  ASSUME IInv, NEW entity \in Entity, NEW component \in Value, Write(entity, component)
  PROVE  IInv'
<1>1. PICK k \in 1 .. Len(data) : k = Get(sparse, entity.index) + 1
  <2>1. entity.index \in Index /\ Get(sparse, entity.index) # Absent
    BY DEF Write, Contains, Entity
  <2>2. Get(sparse, entity.index) + 1 \in 1 .. Len(data)
    BY <2>1, Positions
  <2>3. QED
    BY <2>2
<1>2. data' = [data EXCEPT ![k] = component] /\ sparse' = sparse /\ dense' = dense
  BY <1>1 DEF Write
<1>3. data \in Seq(Value)
  BY Positions
<1>4. data' \in Seq(Value) /\ Len(data') = Len(data)
  <2>1. [data EXCEPT ![k] = component] \in Seq(Value)
    BY <1>3
  <2>2. Len([data EXCEPT ![k] = component]) = Len(data)
    BY <1>3
  <2>3. QED
    BY <1>2, <2>1, <2>2
<1>5. QED
  BY <1>2, <1>4 DEF IInv, TypeOK, PositionsAgree, PagesTight

(* clear. *)
LEMMA ClearInv == ASSUME Clear PROVE IInv'
<1>1. \A index \in Index : Get(sparse', index) = Absent
  BY DEF Clear, Get
<1>2. QED
  BY <1>1 DEF Clear, IInv, TypeOK, PositionsAgree, PagesTight, Tight

(* What a removal does: the entry at position k - 1 of index i goes, the    *)
(* one of index last, which was the n-th and last, comes in its place.      *)
Removed(entity, i, k, n, last) ==
  /\ i = entity.index /\ i \in Nat
  /\ dense[k] = entity /\ Get(sparse, i) # Absent /\ Get(sparse, i) = k - 1
  /\ k - 1 \in Nat /\ k - 1 + 1 = k
  /\ n = Len(dense) /\ n = Len(data) /\ k \in 1 .. n
  /\ dense' \in Seq(Entity) /\ Len(dense') = n - 1 /\ DOMAIN dense' = 1 .. n - 1
  /\ \A l \in 1 .. n - 1 : dense'[l] = IF l = k THEN dense[n] ELSE dense[l]
  /\ data' \in Seq(Value) /\ Len(data') = n - 1
  /\ \A l \in 1 .. n - 1 : data'[l] = IF l = k THEN data[n] ELSE data[l]
  /\ last = dense[n].index /\ last \in Nat
  /\ Get(sparse, last) = n - 1 /\ (last = i <=> n = k)
  /\ sparse' \in Seq(Slot) /\ Tight(sparse')
  /\ \A j \in Nat : Get(sparse', j) = IF j = i THEN Absent
                                     ELSE IF j = last THEN k - 1 ELSE Get(sparse, j)

(* remove: the last entry comes into the gap, under its new position; all   *)
(* others keep theirs.                                                      *)
LEMMA RemoveEntryEffect ==
  ASSUME IInv, NEW entity \in Entity, RemoveEntry(entity)
  PROVE  \E i \in Index, k \in Nat, n \in Nat \ {0}, last \in Index :
           Removed(entity, i, k, n, last)
<1>1. PICK i \in Index : i = entity.index /\ i \in Nat
  BY Positions DEF Entity
<1>2. PICK k \in 1 .. Len(dense) :
        /\ Get(sparse, i) # Absent /\ Get(sparse, i) = k - 1 /\ k - 1 \in Nat
        /\ dense[k].index = i /\ dense[k] = entity
  BY <1>1, Positions DEF RemoveEntry, Contains
<1>3. PICK n \in Nat \ {0} : n = Len(dense) /\ k \in 1 .. n /\ n = Len(data)
  BY <1>2, Positions
<1>4. k - 1 + 1 = k
  BY <1>3
<1>5. /\ dense' = SwapRemove(dense, k) /\ data' = SwapRemove(data, k)
      /\ sparse' = IF k \in DOMAIN dense'
                   THEN Insert(Remove(sparse, i), dense'[k].index, k - 1)
                   ELSE Remove(sparse, i)
  BY <1>1, <1>2, <1>4 DEF RemoveEntry
<1>6. /\ dense' \in Seq(Entity) /\ Len(dense') = n - 1 /\ DOMAIN dense' = 1 .. n - 1
      /\ \A l \in 1 .. n - 1 : dense'[l] = IF l = k THEN dense[n] ELSE dense[l]
  <2>1. dense \in Seq(Entity) /\ k \in 1 .. Len(dense)
    BY <1>3, Positions
  <2>2. /\ SwapRemove(dense, k) \in Seq(Entity)
        /\ Len(SwapRemove(dense, k)) = Len(dense) - 1
        /\ \A l \in 1 .. Len(dense) - 1 :
             SwapRemove(dense, k)[l] = IF l = k THEN dense[Len(dense)] ELSE dense[l]
    BY <2>1, SwapRemoveEffect
  <2>3. QED
    <3>1. dense' \in Seq(Entity) /\ Len(dense') = n - 1
      BY <1>3, <1>5, <2>2
    <3>2. \A l \in 1 .. n - 1 : dense'[l] = IF l = k THEN dense[n] ELSE dense[l]
      BY <1>3, <1>5, <2>2, Zenon
    <3>3. QED
      BY <3>1, <3>2
<1>7. /\ data' \in Seq(Value) /\ Len(data') = n - 1
      /\ \A l \in 1 .. n - 1 : data'[l] = IF l = k THEN data[n] ELSE data[l]
  <2>1. data \in Seq(Value) /\ k \in 1 .. Len(data)
    BY <1>3, Positions
  <2>2. /\ SwapRemove(data, k) \in Seq(Value)
        /\ Len(SwapRemove(data, k)) = Len(data) - 1
        /\ \A l \in 1 .. Len(data) - 1 :
             SwapRemove(data, k)[l] = IF l = k THEN data[Len(data)] ELSE data[l]
    BY <2>1, SwapRemoveEffect
  <2>3. QED
    <3>1. data' \in Seq(Value) /\ Len(data') = n - 1
      BY <1>3, <1>5, <2>2
    <3>2. \A l \in 1 .. n - 1 : data'[l] = IF l = k THEN data[n] ELSE data[l]
      BY <1>3, <1>5, <2>2, Zenon
    <3>3. QED
      BY <3>1, <3>2
<1>8. PICK removed \in Seq(Slot) :
        /\ removed = Remove(sparse, i) /\ Tight(removed)
        /\ \A j \in Nat : Get(removed, j) = IF j = i THEN Absent ELSE Get(sparse, j)
  <2>1. sparse \in Seq(Slot) /\ Tight(sparse) /\ i \in Nat /\ Get(sparse, i) # Absent
    BY <1>1, <1>2, Positions
  <2>2. /\ Remove(sparse, i) \in Seq(Slot) /\ Tight(Remove(sparse, i))
        /\ \A j \in Nat : Get(Remove(sparse, i), j) = IF j = i THEN Absent ELSE Get(sparse, j)
    BY <2>1, RemoveEffect
  <2>3. QED
    BY <2>2
<1>9. PICK last \in Index : /\ last = dense[n].index /\ last \in Nat
                            /\ Get(sparse, last) = n - 1 /\ (last = i <=> n = k)
  <2>1. n \in 1 .. Len(dense)
    BY <1>3
  <2>2. dense[n].index \in Index /\ Get(sparse, dense[n].index) = n - 1
    BY <2>1, Positions
  <2>3. dense[n].index = i => n - 1 = k - 1
    BY <1>2, <2>2
  <2>4. QED
    BY <1>2, <1>3, <2>2, <2>3, Positions
<1>10. /\ sparse' \in Seq(Slot) /\ Tight(sparse')
       /\ \A j \in Nat : Get(sparse', j) = IF j = i THEN Absent
                                          ELSE IF j = last THEN k - 1 ELSE Get(sparse, j)
  <2>1. CASE k = n
    <3>1. sparse' = removed
      BY <1>5, <1>6, <1>8, <2>1
    <3>2. QED
      BY <1>8, <1>9, <2>1, <3>1
  <2>2. CASE k # n
    <3>1. k \in DOMAIN dense' /\ dense'[k].index = last
      BY <1>3, <1>6, <1>9, <2>2
    <3>2. PICK position \in Nat : position = k - 1
      BY <1>2
    <3>3. PICK inserted \in Seq(Slot) :
            /\ inserted = Insert(removed, last, position) /\ Tight(inserted)
            /\ \A j \in Nat : Get(inserted, j) = IF j = last THEN position ELSE Get(removed, j)
      <4>1. removed \in Seq(Slot) /\ Tight(removed) /\ last \in Nat /\ position \in Nat
        BY <1>8, <1>9, <3>2
      <4>2. /\ Insert(removed, last, position) \in Seq(Slot)
            /\ Tight(Insert(removed, last, position))
            /\ \A j \in Nat : Get(Insert(removed, last, position), j) =
                 IF j = last THEN position ELSE Get(removed, j)
        <5>1. Insert(removed, last, position) \in Seq(Slot)
          BY <4>1, InsertEffect
        <5>2. Tight(Insert(removed, last, position))
          BY <4>1, InsertEffect
        <5>3. Get(Insert(removed, last, position), last) = position
          BY <4>1, InsertEffect
        <5>4. ASSUME NEW j \in Nat, j # last
              PROVE  Get(Insert(removed, last, position), j) = Get(removed, j)
          BY <4>1, <5>4, InsertEffect
        <5>5. QED
          BY <5>1, <5>2, <5>3, <5>4
      <4>3. QED
        BY <4>2
    <3>4. sparse' = inserted
      BY <1>5, <1>8, <3>1, <3>2, <3>3
    <3>5. last # i
      BY <1>9, <2>2
    <3>6. QED
      BY <1>8, <3>2, <3>3, <3>4, <3>5
  <2>3. QED
    BY <2>1, <2>2
<1>11. Removed(entity, i, k, n, last)
  BY <1>1, <1>2, <1>3, <1>4, <1>6, <1>7, <1>9, <1>10, Zenon DEF Removed
<1>12. k \in Nat
  BY <1>3
<1>13. QED
  BY <1>11, <1>12

(* The agreement after it. *)
LEMMA RemoveEntryInv ==
  ASSUME IInv, NEW entity \in Entity, RemoveEntry(entity)
  PROVE  IInv'
<1>1. PICK i \in Index, k \in Nat, n \in Nat \ {0}, last \in Index :
        Removed(entity, i, k, n, last)
  BY RemoveEntryEffect, Zenon
<1> USE DEF Removed
<1>2. ASSUME NEW l \in 1 .. n - 1
      PROVE  Get(sparse', dense'[l].index) = l - 1
  <2>1. CASE l = k
    <3>1. k # n /\ dense'[l] = dense[n]
      BY <1>1, <1>2, <2>1
    <3>2. dense'[l].index = last /\ last # i
      BY <1>1, <3>1
    <3>3. QED
      BY <1>1, <2>1, <3>2
  <2>2. CASE l # k
    <3>1. PICK j \in Index : /\ j = dense[l].index /\ j = dense'[l].index
                             /\ j \in Nat /\ Get(sparse, j) = l - 1
      <4>1. l \in 1 .. Len(dense)
        BY <1>1, <1>2
      <4>2. dense[l].index \in Index /\ Get(sparse, dense[l].index) = l - 1
        BY <4>1, Positions
      <4>3. QED
        BY <1>1, <1>2, <2>2, <4>2, Positions
    <3>2. j # i /\ j # last
      BY <1>1, <1>2, <2>2, <3>1
    <3>3. QED
      BY <1>1, <3>1, <3>2
  <2>3. QED
    BY <2>1, <2>2
<1>3. ASSUME NEW index \in Index, Get(sparse', index) # Absent
      PROVE  /\ Get(sparse', index) + 1 \in 1 .. n - 1
              /\ dense'[Get(sparse', index) + 1].index = index
  <2>1. index \in Nat /\ index # i
    BY <1>1, <1>3, Positions
  <2>2. CASE index = last
    <3>1. Get(sparse', index) = k - 1 /\ k # n
      BY <1>1, <2>1, <2>2
    <3>2. k \in 1 .. n - 1 /\ dense'[k].index = last
      BY <1>1, <3>1
    <3>3. QED
      BY <1>1, <2>2, <3>1, <3>2
  <2>3. CASE index # last
    <3>1. Get(sparse', index) = Get(sparse, index)
      BY <1>1, <2>1, <2>3
    <3>2. PICK l \in 1 .. Len(dense) : /\ Get(sparse, index) = l - 1
                                       /\ l = Get(sparse, index) + 1
                                       /\ dense[l].index = index
      <4>1. /\ Get(sparse, index) \in Nat
            /\ Get(sparse, index) + 1 \in 1 .. Len(dense)
            /\ dense[Get(sparse, index) + 1].index = index
        BY <1>3, <3>1, Positions
      <4>2. QED
        BY <4>1
    <3>3. l # k /\ l # n
      BY <1>1, <2>1, <2>3, <3>2
    <3>4. QED
      BY <1>1, <3>1, <3>2, <3>3, SMTT(20)
  <2>4. QED
    BY <2>2, <2>3
<1>4. PositionsAgree'
  BY <1>1, <1>2, <1>3 DEF PositionsAgree
<1>5. QED
  BY <1>1, <1>4 DEF IInv, TypeOK, PagesTight

(* Every step keeps the invariant. *)
LEMMA NextInv == IInv /\ [Next]_vars => IInv'
<1>1. SUFFICES ASSUME IInv, [Next]_vars PROVE IInv'
  OBVIOUS
<1>2. CASE Clear
  BY <1>2, ClearInv
<1>3. ASSUME NEW entity \in Entity, RemoveEntry(entity) PROVE IInv'
  BY <1>1, <1>3, RemoveEntryInv
<1>4. ASSUME NEW entity \in Entity, NEW component \in Value, InsertNew(entity, component)
      PROVE  IInv'
  BY <1>1, <1>4, InsertNewInv
<1>5. ASSUME NEW entity \in Entity, NEW component \in Value, Replace(entity, component)
      PROVE  IInv'
  BY <1>1, <1>5, ReplaceInv
<1>6. ASSUME NEW entity \in Entity, NEW component \in Value, Write(entity, component)
      PROVE  IInv'
  BY <1>1, <1>6, WriteInv
<1>7. CASE UNCHANGED vars
  BY <1>1, <1>7 DEF vars, IInv, TypeOK, PositionsAgree, PagesTight
<1>8. QED
  BY <1>1, <1>2, <1>3, <1>4, <1>5, <1>6, <1>7 DEF Next

-----------------------------------------------------------------------------
(* The agreement of array and vectors, the types and the counts are         *)
(* invariant together.                                                      *)
THEOREM Invariance == Spec => []IInv
<1>1. QED
  BY InitInv, NextInv, PTL DEF Spec

(* The state of a component table always has its types. *)
THEOREM TypeCorrect == Spec => []TypeOK
<1>1. IInv => TypeOK
  BY DEF IInv
<1>2. QED
  BY <1>1, Invariance, PTL

(* Every entry is found under its index and under no other, whatever was    *)
(* inserted, replaced and swap-removed before.                              *)
THEOREM PositionsAlwaysAgree == Spec => []PositionsAgree
<1>1. IInv => PositionsAgree
  BY DEF IInv
<1>2. QED
  BY <1>1, Invariance, PTL

(* The paged array always counts its entries right and keeps neither an     *)
(* empty page nor a slot behind the last one.                               *)
THEOREM PagesAlwaysTight == Spec => []PagesTight
<1>1. IInv => PagesTight
  BY DEF IInv
<1>2. QED
  BY <1>1, Invariance, PTL

-----------------------------------------------------------------------------
(* The entries as a map, changed at one index. *)
LEMMA StoreMapped ==
  ASSUME NEW entity \in Entity, NEW component \in Value,
         \A index \in Index : EntryAt(index)' =
           IF index = entity.index THEN [entity |-> entity, data |-> component]
           ELSE EntryAt(index)
  PROVE  Map!Store(entity, component)
<1>1. Entries' = [Entries EXCEPT ![entity.index] = [entity |-> entity, data |-> component]]
  BY DEF Entries
<1>2. QED
  BY <1>1 DEF Map!Store, Map!Entry

(* A handle that has an entry has it in the map. *)
LEMMA HasMapped ==
  ASSUME IInv, NEW entity \in Entity, Contains(entity)
  PROVE  Map!Has(entity)
<1>1. PICK i \in Index : i = entity.index
  BY DEF Entity
<1>2. PICK k \in 1 .. Len(dense) :
        Get(sparse, i) # Absent /\ k = Get(sparse, i) + 1 /\ dense[k] = entity
  BY <1>1, Positions DEF Contains
<1>3. dense[k] \in Entity /\ data[k] \in Value
  <2>1. data \in Seq(Value) /\ k \in 1 .. Len(data) /\ dense \in Seq(Entity)
    BY <1>2, Positions
  <2>2. QED
    BY <1>2, <2>1
<1>4. EntryAt(i) = [entity |-> dense[k], data |-> data[k]]
  BY <1>2 DEF EntryAt
<1>5. EntryAt(i) # Nothing
  <2>1. [entity |-> dense[k], data |-> data[k]] \in
          [entity : [index : 0 .. MaxIndex, generation : Generations], data : Value]
    BY <1>3 DEF Entity, Index
  <2>2. QED
    BY <1>4, <2>1, NothingAssumption
<1>6. EntryAt(i).entity = entity
  BY <1>2, <1>4
<1>7. Entries[i] = EntryAt(i)
  BY DEF Entries
<1>8. QED
  BY <1>1, <1>5, <1>6, <1>7 DEF Map!Has

(* The empty table is the empty map. *)
LEMMA InitMapped == Init => Map!Init
<1>1. SUFFICES ASSUME Init PROVE Map!Init
  OBVIOUS
<1>2. \A index \in Index : EntryAt(index) = Nothing
  BY <1>1 DEF Init, Get, EntryAt
<1>3. QED
  BY <1>2 DEF Entries, Map!Init

(* insert of an index without an entry stores one in the map. *)
LEMMA InsertNewMapped ==
  ASSUME IInv, NEW entity \in Entity, NEW component \in Value, InsertNew(entity, component)
  PROVE  Map!Store(entity, component)
<1>1. PICK i \in Index, n \in Nat : i = entity.index /\ n = Len(dense) /\ i \in Nat
  BY InsertNewEffect
<1>2. \A j \in Nat : Get(sparse', j) = IF j = i THEN n ELSE Get(sparse, j)
  BY <1>1, InsertNewEffect, Zenon
<1>3. /\ \A k \in 1 .. n : dense'[k] = dense[k] /\ data'[k] = data[k]
      /\ dense'[n + 1] = entity /\ data'[n + 1] = component
  BY <1>1, InsertNewEffect
<1>4. ASSUME NEW index \in Index
      PROVE  EntryAt(index)' = IF index = entity.index
                               THEN [entity |-> entity, data |-> component]
                               ELSE EntryAt(index)
  <2>1. index \in Nat
    BY Positions
  <2>2. CASE index = i
    <3>1. Get(sparse', index) = n /\ n # Absent
      BY <1>2, <2>1, <2>2, PageAssumption
    <3>2. QED
      BY <1>1, <1>3, <2>2, <3>1 DEF EntryAt
  <2>3. CASE index # i
    <3>1. Get(sparse', index) = Get(sparse, index)
      BY <1>2, <2>1, <2>3
    <3>2. Get(sparse, index) = Absent \/ Get(sparse, index) + 1 \in 1 .. n
      BY <1>1, Positions
    <3>3. QED
      BY <1>1, <1>3, <2>3, <3>1, <3>2 DEF EntryAt
  <2>4. QED
    BY <2>2, <2>3
<1>5. QED
  BY <1>4, StoreMapped

(* A write at a position that is taken stores in the map under its index. *)
LEMMA PlacedMapped ==
  ASSUME IInv, NEW entity \in Entity, NEW component \in Value,
         NEW k \in 1 .. Len(dense),
         Get(sparse, entity.index) # Absent, k = Get(sparse, entity.index) + 1,
         sparse' = sparse, dense' \in Seq(Entity),
         \A l \in 1 .. Len(dense) : dense'[l] = IF l = k THEN entity ELSE dense[l],
         data' = [data EXCEPT ![k] = component]
  PROVE  Map!Store(entity, component)
<1>1. \A l \in 1 .. Len(dense) : data'[l] = IF l = k THEN component ELSE data[l]
  <2>1. data \in Seq(Value) /\ Len(data) = Len(dense)
    BY Positions
  <2>2. QED
    BY <2>1
<1>2. ASSUME NEW index \in Index
      PROVE  EntryAt(index)' = IF index = entity.index
                               THEN [entity |-> entity, data |-> component]
                               ELSE EntryAt(index)
  <2>1. CASE Get(sparse, index) = Absent
    BY <2>1 DEF EntryAt
  <2>2. CASE Get(sparse, index) # Absent
    <3>1. PICK l \in 1 .. Len(dense) : l = Get(sparse, index) + 1 /\ dense[l].index = index
      BY <2>2, Positions
    <3>2. dense[k].index = entity.index
      <4>1. entity.index \in Index
        BY DEF Entity
      <4>2. QED
        BY <4>1, Positions
    <3>3. l = k <=> index = entity.index
      BY <3>1, <3>2
    <3>4. EntryAt(index) = [entity |-> dense[l], data |-> data[l]]
      BY <2>2, <3>1 DEF EntryAt
    <3>5. EntryAt(index)' = [entity |-> dense'[l], data |-> data'[l]]
      BY <2>2, <3>1 DEF EntryAt
    <3>6. QED
      BY <1>1, <3>1, <3>3, <3>4, <3>5
  <2>3. QED
    BY <2>1, <2>2
<1>3. QED
  BY <1>2, StoreMapped

(* insert over an entry stores in the map, too. *)
LEMMA ReplaceMapped ==
  ASSUME IInv, NEW entity \in Entity, NEW component \in Value, Replace(entity, component)
  PROVE  Map!Store(entity, component)
<1>1. entity.index \in Index /\ Get(sparse, entity.index) # Absent
  BY DEF Replace, Entity
<1>2. PICK k \in 1 .. Len(dense) : k = Get(sparse, entity.index) + 1
  BY <1>1, Positions
<1>3. /\ sparse' = sparse /\ dense' = [dense EXCEPT ![k] = entity]
      /\ data' = [data EXCEPT ![k] = component]
  BY <1>2 DEF Replace
<1>4. dense \in Seq(Entity)
  BY Positions
<1>5. /\ dense' \in Seq(Entity)
      /\ \A l \in 1 .. Len(dense) : dense'[l] = IF l = k THEN entity ELSE dense[l]
  BY <1>3, <1>4
<1>6. QED
  BY <1>1, <1>2, <1>3, <1>5, PlacedMapped

(* A write through a reference is a write of the map. *)
LEMMA WriteMapped ==
  ASSUME IInv, NEW entity \in Entity, NEW component \in Value, Write(entity, component)
  PROVE  Map!Write(entity, component)
<1>1. entity.index \in Index /\ Get(sparse, entity.index) # Absent /\ Contains(entity)
  BY DEF Write, Contains, Entity
<1>2. PICK k \in 1 .. Len(dense) : k = Get(sparse, entity.index) + 1 /\ dense[k] = entity
  BY <1>1, Positions DEF Contains
<1>3. sparse' = sparse /\ dense' = dense /\ data' = [data EXCEPT ![k] = component]
  BY <1>2 DEF Write
<1>4. dense \in Seq(Entity)
  BY Positions
<1>5. \A l \in 1 .. Len(dense) : dense'[l] = IF l = k THEN entity ELSE dense[l]
  BY <1>2, <1>3
<1>6. Map!Store(entity, component)
  BY <1>1, <1>2, <1>3, <1>4, <1>5, PlacedMapped
<1>7. QED
  BY <1>1, <1>6, HasMapped DEF Map!Write

(* remove drops the entry of its handle from the map and no other. *)
LEMMA RemoveMapped ==
  ASSUME IInv, NEW entity \in Entity, RemoveEntry(entity)
  PROVE  Map!Drop(entity)
<1>1. PICK i \in Index, k \in Nat, n \in Nat \ {0}, last \in Index :
        Removed(entity, i, k, n, last)
  BY RemoveEntryEffect, Zenon
<1>2. ASSUME NEW index \in Index
      PROVE  EntryAt(index)' = IF index = i THEN Nothing ELSE EntryAt(index)
  <2>1. index \in Nat
    BY Positions
  <2>2. CASE index = i
    BY <1>1, <2>1, <2>2 DEF Removed, EntryAt
  <2>3. CASE index # i /\ index = last
    <3>1. k \in 1 .. n - 1 /\ k - 1 + 1 = k /\ n - 1 + 1 = n /\ k - 1 \in Nat /\ n - 1 \in Nat
      BY <1>1, <2>3 DEF Removed
    <3>2. Get(sparse', index) = k - 1 /\ Get(sparse, index) = n - 1
      BY <1>1, <2>1, <2>3 DEF Removed
    <3>3. dense'[k] = dense[n] /\ data'[k] = data[n]
      BY <1>1, <3>1 DEF Removed
    <3>4. k - 1 # Absent /\ n - 1 # Absent
      BY <3>1, PageAssumption
    <3>5. EntryAt(index)' = [entity |-> dense'[k], data |-> data'[k]]
      BY <3>1, <3>2, <3>4 DEF EntryAt
    <3>6. EntryAt(index) = [entity |-> dense[n], data |-> data[n]]
      BY <3>1, <3>2, <3>4 DEF EntryAt
    <3>7. QED
      BY <2>3, <3>3, <3>5, <3>6
  <2>4. CASE index # i /\ index # last
    <3>1. Get(sparse', index) = Get(sparse, index)
      BY <1>1, <2>1, <2>4 DEF Removed
    <3>2. CASE Get(sparse, index) = Absent
      BY <2>4, <3>1, <3>2 DEF EntryAt
    <3>3. CASE Get(sparse, index) # Absent
      <4>1. PICK l \in 1 .. Len(dense) : l = Get(sparse, index) + 1 /\ dense[l].index = index
        BY <3>3, Positions
      <4>2. dense[k].index = i /\ dense[n].index = last /\ n = Len(dense)
        BY <1>1 DEF Removed
      <4>3. l \in 1 .. n - 1 /\ l # k
        BY <2>4, <4>1, <4>2
      <4>4. dense'[l] = dense[l] /\ data'[l] = data[l]
        BY <1>1, <4>3 DEF Removed
      <4>5. QED
        BY <2>4, <3>1, <4>1, <4>4 DEF EntryAt
    <3>4. QED
      BY <3>2, <3>3
  <2>5. QED
    BY <2>2, <2>3, <2>4
<1>3. Entries' = [Entries EXCEPT ![i] = Nothing]
  BY <1>2 DEF Entries
<1>4. Map!Has(entity)
  BY HasMapped DEF RemoveEntry
<1>5. i = entity.index
  BY <1>1 DEF Removed
<1>6. QED
  BY <1>3, <1>4, <1>5 DEF Map!Drop

(* clear empties the map. *)
LEMMA ClearMapped == ASSUME Clear PROVE Map!Clear
<1>1. \A index \in Index : EntryAt(index)' = Nothing
  BY DEF Clear, Get, EntryAt
<1>2. QED
  BY <1>1 DEF Entries, Map!Clear

(* Every step of the table is a step of the map, or none. *)
LEMMA StepMapped == IInv /\ [Next]_vars => [Map!Next]_Entries
<1>1. SUFFICES ASSUME IInv, [Next]_vars PROVE [Map!Next]_Entries
  OBVIOUS
<1>2. CASE Clear
  BY <1>2, ClearMapped DEF Map!Next
<1>3. ASSUME NEW entity \in Entity, RemoveEntry(entity) PROVE Map!Next
  BY <1>1, <1>3, RemoveMapped DEF Map!Next
<1>4. ASSUME NEW entity \in Entity, NEW component \in Value, InsertNew(entity, component)
      PROVE  Map!Next
  BY <1>1, <1>4, InsertNewMapped DEF Map!Next
<1>5. ASSUME NEW entity \in Entity, NEW component \in Value, Replace(entity, component)
      PROVE  Map!Next
  BY <1>1, <1>5, ReplaceMapped DEF Map!Next
<1>6. ASSUME NEW entity \in Entity, NEW component \in Value, Write(entity, component)
      PROVE  Map!Next
  BY <1>1, <1>6, WriteMapped DEF Map!Next
<1>7. CASE UNCHANGED vars
  BY <1>7 DEF vars, Entries, EntryAt
<1>8. QED
  BY <1>1, <1>2, <1>3, <1>4, <1>5, <1>6, <1>7 DEF Next

(* The paged array and its swap-removed vectors behave, to whoever looks    *)
(* components up by their handles, as one map from indices to entries.      *)
THEOREM TableImplementsMap == Spec => ImplementsMap
<1>1. Init /\ [][Next]_vars /\ []IInv => Map!Init /\ [][Map!Next]_Entries
  BY InitMapped, StepMapped, PTL
<1>2. QED
  BY <1>1, Invariance, PTL DEF Spec, ImplementsMap, Map!Spec
=============================================================================
