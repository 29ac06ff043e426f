----------------------------- MODULE ObjectHeap -----------------------------
(***************************************************************************)
(* What a client may expect of the paged allocator: a set of objects, each *)
(* at a place of its own on some page.  Allocation takes an unused place   *)
(* and disturbs nobody; release frees exactly one place; compaction may    *)
(* move the objects of a page but loses, doubles and reorders none.        *)
(***************************************************************************)
EXTENDS Integers, Functions

CONSTANTS Object, Page, Slot

VARIABLE heap    \* the objects in memory: records [object, page, slot]

Init == heap = {}

Allocate ==
  \E o \in Object, p \in Page, s \in Slot :
    /\ ~ \E e \in heap : e.page = p /\ e.slot = s
    /\ heap' = heap \union {[object |-> o, page |-> p, slot |-> s]}

Release == \E e \in heap : heap' = heap \ {e}

Relocate ==
  \E to \in Bijection(heap, heap') :
    \A e, f \in heap :
      /\ to[e].object = e.object /\ to[e].page = e.page
      /\ e.page = f.page /\ e.slot < f.slot => to[e].slot < to[f].slot

Clear == heap' = {}

Next == Allocate \/ Release \/ Clear \/ Relocate

Spec == Init /\ [][Next]_heap

=============================================================================
