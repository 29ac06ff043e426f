-------------------------- MODULE MCPagedAllocator --------------------------
(***************************************************************************)
(* The instance of PagedAllocator for TLC, with the loop of its compaction *)
(* beside it: before any page is mapped the loop runs over every page;     *)
(* the allocator runs where the loop has an empty page before it.          *)
(***************************************************************************)
EXTENDS PagedAllocator, PageCompaction, TLC

(* Circuits and models share a type: the pages of the small ones are cut   *)
(* short by the mask, those of the large ones have a single slot.  Pins    *)
(* have a type of their own.                                               *)
MCTypeOf == [pin |-> "PIN", circuit |-> "METADATA", model |-> "METADATA"]
MCSizeOf == [pin |-> 2, circuit |-> 1, model |-> 3]

MCContent == Object \union {NoObject}

MCSymmetry == Permutations(Object) \union Permutations(Parent)

EmptyPage == [object_count |-> 1, free_mask |-> {0}, content |-> [s \in {0} |-> NoObject]]

mcVars == <<vars, loopVars>>

MCInit == Init /\ LoopInit

LoopRuns ==
  /\ page_count = 0
  /\ LoopNext
  /\ UNCHANGED vars

AllocatorRuns ==
  /\ original = EmptyPage /\ read_slot = 0
  /\ Next
  /\ UNCHANGED loopVars

MCNext == LoopRuns \/ AllocatorRuns

MCSpec == MCInit /\ [][MCNext]_mcVars

=============================================================================
