--------------------------- MODULE PageCompaction ---------------------------
(***************************************************************************)
(* The inner loop of PagedAllocator::compact, one page, slot by slot: live *)
(* slots are copied down over free ones while read_slot runs through the   *)
(* page and write_slot follows.  PagedAllocator takes the loop for one     *)
(* step, Packed; this module shows that it is one.                         *)
(***************************************************************************)
EXTENDS PageLayout

CONSTANTS Content    \* what may be in a slot

VARIABLES
  this_page,  \* the page the loop is at
  read_slot, write_slot,
  original    \* history: the page when the loop began

loopVars == <<this_page, read_slot, write_slot, original>>

PageOf(count) ==
  [object_count : {count}, free_mask : SUBSET (0 .. count - 1), content : [0 .. count - 1 -> Content]]

LoopInit ==
  /\ \E count \in 1 .. SLOT_BITS : this_page \in PageOf(count)
  /\ read_slot = 0
  /\ write_slot = 0
  /\ original = this_page

SkipFree ==
  /\ read_slot < this_page.object_count
  /\ read_slot \in this_page.free_mask
  /\ read_slot' = read_slot + 1
  /\ UNCHANGED <<this_page, write_slot, original>>

(* Fault: the destination does not follow a slot that stays in place.      *)
KeepInPlaceFault ==
  /\ read_slot < this_page.object_count
  /\ read_slot \notin this_page.free_mask
  /\ write_slot = read_slot
  /\ read_slot' = read_slot + 1
  /\ UNCHANGED <<this_page, write_slot, original>>

KeepInPlace ==
  /\ read_slot < this_page.object_count
  /\ read_slot \notin this_page.free_mask
  /\ write_slot = read_slot
  /\ read_slot' = read_slot + 1
  /\ write_slot' = write_slot + 1
  /\ UNCHANGED <<this_page, original>>

(* Fault: the destination stays marked as free.                            *)
MoveDownFault ==
  /\ read_slot < this_page.object_count
  /\ read_slot \notin this_page.free_mask
  /\ write_slot # read_slot
  /\ this_page' = [this_page EXCEPT
                !.content = [@ EXCEPT ![write_slot] = this_page.content[read_slot]],
                !.free_mask = @ \union {read_slot}]
  /\ read_slot' = read_slot + 1
  /\ write_slot' = write_slot + 1
  /\ UNCHANGED original

MoveDown ==
  /\ read_slot < this_page.object_count
  /\ read_slot \notin this_page.free_mask
  /\ write_slot # read_slot
  /\ this_page' = [this_page EXCEPT
                !.content = [@ EXCEPT ![write_slot] = this_page.content[read_slot]],
                !.free_mask = (@ \union {read_slot}) \ {write_slot}]
  /\ read_slot' = read_slot + 1
  /\ write_slot' = write_slot + 1
  /\ UNCHANGED original

LoopNext == SkipFree \/ KeepInPlace \/ MoveDown

LoopSpec == LoopInit /\ [][LoopNext]_loopVars

-----------------------------------------------------------------------------
(* Whatever the page held, the loop leaves it with its live slots in front *)
(* in their old order, nothing lost or doubled on the way, although source *)
(* and destination share one page (PagedAllocator.cpp, compact).           *)
LoopPacks == read_slot = this_page.object_count => this_page = Packed(original)

(* A move never writes over a live object or one yet to be read: whatever  *)
(* slot changes was free, and the mask keeps as many live slots as before. *)
NoLiveOverwrite ==
  [][ /\ \A k \in SlotsOf(this_page) :
           this_page'.content[k] # this_page.content[k] => k \in this_page.free_mask
      /\ Cardinality(this_page'.free_mask) = Cardinality(this_page.free_mask) ]_loopVars

=============================================================================
