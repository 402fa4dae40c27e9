----------------------------- MODULE SparseArray -----------------------------
(***************************************************************************)
(* The paged array of ecs/storage/sparse_array.rs: from an entity index to *)
(* a position, in pages that exist only while they hold something.  A      *)
(* SparseArray is the sequence of its slots; page number p of the code is  *)
(* element p + 1 here.  An entry's off-by-one encoding into a NonZeroU32   *)
(* is the member Absent here: positions stay below u32::MAX.               *)
(***************************************************************************)
EXTENDS Integers, Sequences, FiniteSets, FiniteSetsExt

CONSTANTS
  PageLen,          \* Entries of a page: 1024 in the code.
  Absent,           \* Option::None where a position may stand.
  NoPage            \* Option::None where a page may stand.

ASSUME PageAssumption == PageLen \in Nat \ {0} /\ Absent \notin Nat

Offsets == 0 .. PageLen - 1
Page == [Offsets -> Nat \cup {Absent}]

ASSUME NoPageAssumption == NoPage \notin Page

Slot == [page : Page \cup {NoPage}, len : Nat]

EmptySlot == [page |-> NoPage, len |-> 0]
EmptyPage == [offset \in Offsets |-> Absent]

PageOf(index) == index \div PageLen + 1
OffsetOf(index) == index % PageLen

-----------------------------------------------------------------------------
(* get: the position stored for index, or Absent. *)
Get(array, index) ==
  IF PageOf(index) \in DOMAIN array /\ array[PageOf(index)].page # NoPage
  THEN array[PageOf(index)].page[OffsetOf(index)]
  ELSE Absent

(* Vec::resize_with: at least p slots. *)
Grown(array, p) ==
  [q \in 1 .. (IF p > Len(array) THEN p ELSE Len(array)) |->
     IF q \in DOMAIN array THEN array[q] ELSE EmptySlot]

(* insert that counts an entry it overwrites once more. *)
InsertMiscounts(array, index, value) ==
  LET p == PageOf(index)
      grown == Grown(array, p)
      page == IF grown[p].page = NoPage THEN EmptyPage ELSE grown[p].page
  IN  [grown EXCEPT ![p] =
         [page |-> [page EXCEPT ![OffsetOf(index)] = value],
          len |-> @.len + 1]]

(* insert that does not count its entries. *)
InsertUncounted(array, index, value) ==
  LET p == PageOf(index)
      grown == Grown(array, p)
      page == IF grown[p].page = NoPage THEN EmptyPage ELSE grown[p].page
  IN  [grown EXCEPT ![p].page = [page EXCEPT ![OffsetOf(index)] = value]]

(* insert: grows the array up to the page and the page up to its entry. *)
Insert(array, index, value) ==
  LET p == PageOf(index)
      grown == Grown(array, p)
      page == IF grown[p].page = NoPage THEN EmptyPage ELSE grown[p].page
  IN  [grown EXCEPT ![p] =
         [page |-> [page EXCEPT ![OffsetOf(index)] = value],
          len |-> IF page[OffsetOf(index)] = Absent THEN @.len + 1 ELSE @.len]]

(* remove's last loop: the slots at the end that have no page are popped. *)
Trimmed(array) ==
  SubSeq(array, 1, Max({0} \cup {p \in DOMAIN array : array[p].page # NoPage}))

(* remove: takes the entry; the last one of a page takes the page with it. *)
Remove(array, index) ==
  LET p == PageOf(index)
  IN  IF Get(array, index) = Absent THEN array
      ELSE IF array[p].len = 1 THEN Trimmed([array EXCEPT ![p] = EmptySlot])
      ELSE [array EXCEPT ![p] = [page |-> [@.page EXCEPT ![OffsetOf(index)] = Absent],
                                 len |-> @.len - 1]]

-----------------------------------------------------------------------------
Held(page) == {offset \in Offsets : page[offset] # Absent}

(* Every slot counts exactly the entries of its page, a page without        *)
(* entries is given back, and no slots are kept behind the last page: the   *)
(* array takes the room its entries need and no more.                       *)
Tight(array) ==
  /\ \A p \in DOMAIN array :
       array[p].len = IF array[p].page = NoPage THEN 0
                      ELSE Cardinality(Held(array[p].page))
  /\ \A p \in DOMAIN array : array[p].page # NoPage => array[p].len > 0
  /\ array # <<>> => array[Len(array)].page # NoPage
=============================================================================
