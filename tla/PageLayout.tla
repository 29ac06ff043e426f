----------------------------- MODULE PageLayout -----------------------------
(***************************************************************************)
(* One native page behind its header: object_count slots of object_size    *)
(* bytes, a mask of the free ones, and what was last written to the start  *)
(* of each slot (bytes stay when a slot is freed).                         *)
(***************************************************************************)
EXTENDS Integers, FiniteSets

CONSTANTS
  PAGE_BYTES,    \* NATIVE_PAGE_SIZE - sizeof(PageHeader)
  SLOT_BITS      \* width of free_mask: no page has more slots

ASSUME PageAssumption ==
  /\ PAGE_BYTES \in Nat \ {0}
  /\ SLOT_BITS \in Nat \ {0}

NoObject == "no object"

(* Fault: more slots than the mask has bits.                               *)
ObjectCountFault(object_size) == PAGE_BYTES \div object_size

ObjectCount(object_size) ==
  LET fitting == PAGE_BYTES \div object_size
  IN IF fitting > SLOT_BITS THEN SLOT_BITS ELSE fitting

SlotsOf(page)    == 0 .. page.object_count - 1
OccupiedIn(page) == SlotsOf(page) \ page.free_mask

(* Fault: live slots are taken to be the first ones.                       *)
firstFreeSlotFault(page) == page.active_count

firstFreeSlot(page) ==
  CHOOSE s \in page.free_mask : \A t \in page.free_mask : s <= t

(* The slots an object of the given size overwrites when it is placed at s. *)
Span(page, s, size) ==
  { k \in SlotsOf(page) : k >= s /\ (k - s) * page.object_size < size }

(* The number of live slots before slot s: where compaction puts slot s.   *)
Rank(page, s) == Cardinality({ t \in OccupiedIn(page) : t < s })

(* Fault: the mask is packed, the contents stay.                           *)
PackedFault(page) ==
  [page EXCEPT !.free_mask = Cardinality(OccupiedIn(page)) .. page.object_count - 1]

(* The page after its live slots have been moved to the front, in order.   *)
Packed(page) ==
  LET live == Cardinality(OccupiedIn(page))
  IN [page EXCEPT
        !.free_mask = live .. page.object_count - 1,
        !.content = [k \in SlotsOf(page) |->
                       IF k < live
                       THEN page.content[CHOOSE s \in OccupiedIn(page) : Rank(page, s) = k]
                       ELSE page.content[k]]]

=============================================================================
