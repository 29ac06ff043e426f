--------------------------- MODULE PagedAllocator ---------------------------
(***************************************************************************)
(* The paged allocator and the clients that hold raw pointers into it.     *)
(* Objects of one type with one parent share a chain of pages; a pointer   *)
(* is a page and a slot.  Only allocation and release tell a client where  *)
(* an object is: compaction moves objects and tells nobody.                *)
(*                                                                         *)
(* Three variables are history: they record what has gone wrong for the    *)
(* holders of pointers, so that what still goes right can be stated.       *)
(*                                                                         *)
(* A refusal that changes nothing (zero or oversized object, no chain left,*)
(* zero or too many pages requested, null pointer) is no step here; every  *)
(* refusal but the last two also sets a diagnostic, which Diagnostics      *)
(* models.                                                                 *)
(***************************************************************************)
EXTENDS PageLayout, Sequences, FiniteSetsExt

CONSTANTS
  Parent,         \* owners of collections; one of them is the null pointer
  Class,          \* C++ types clients allocate
  TypeOf, SizeOf, \* the ObjectType a class is allocated under, its sizeof
  Object,         \* identities of objects
  MAX_PAGES, MAX_CHAINS,
  WORD,           \* std::size_t counts modulo WORD
  MaxReleases     \* bound: releases since initialize

ASSUME AllocatorAssumption ==
  /\ SizeOf \in [Class -> Nat]
  /\ NoObject \notin Object
  /\ MAX_PAGES \in Nat \ {0}
  /\ MAX_CHAINS \in Nat \ {0}
  /\ WORD \in Nat \ {0}
  /\ MaxReleases \in Nat

VARIABLES
  page_count, free_page_count,
  pages,        \* the used pages, in the order they were mapped
  chains,
  active_object_count, released_object_count,
  held,         \* clients' pointers: object |-> where it was handed out
  moved,        \* history: held objects that compaction has taken from under their pointer
  misled,       \* history: pages on which a release went by such a pointer
  overrun       \* history: an object has been put where it is too large for its slot

history  == <<moved, misled, overrun>>
counters == <<page_count, free_page_count, active_object_count, released_object_count>>
vars == <<counters, pages, chains, held, history>>

KeyOf(class, parent) == <<parent, TypeOf[class]>>
Key == { KeyOf(class, parent) : class \in Class, parent \in Parent }

PageRecord ==
  [key : Key, object_size : Nat, object_count : Nat, active_count : Nat, dead_count : Nat,
   free_mask : SUBSET Nat,
   content : UNION { [0 .. n - 1 -> Object \union {NoObject}] : n \in 0 .. SLOT_BITS }]

ChainRecord ==
  [key : Key, page : Seq(Nat), total_objects : Nat, active_objects : Nat, free_objects : Nat]

usedPageCount == page_count - free_page_count

Init ==
  /\ page_count = 0 /\ free_page_count = 0
  /\ pages = << >>
  /\ chains = << >>
  /\ active_object_count = 0 /\ released_object_count = 0
  /\ held = << >>
  /\ moved = {} /\ misled = {} /\ overrun = FALSE

-----------------------------------------------------------------------------
(* initialize begins with shutdown, which unmaps every page; a client that *)
(* calls either drops the pointers it held.                                *)
initialize(requested_page_count) ==
  /\ requested_page_count \in 1 .. MAX_PAGES
  /\ page_count' = requested_page_count
  /\ free_page_count' = requested_page_count
  /\ pages' = << >>
  /\ chains' = << >>
  /\ active_object_count' = 0
  /\ released_object_count' = 0
  /\ held' = << >>
  /\ moved' = {} /\ misled' = {} /\ overrun' = FALSE

shutdown ==
  /\ page_count' = 0
  /\ free_page_count' = 0
  /\ pages' = << >>
  /\ chains' = << >>
  /\ active_object_count' = 0
  /\ released_object_count' = 0
  /\ held' = << >>
  /\ moved' = {} /\ misled' = {} /\ overrun' = FALSE

-----------------------------------------------------------------------------
(* The statistics of a chain, recomputed from its pages; the free count    *)
(* subtracts the dead objects too and wraps around below zero.             *)
PagesOf(chain) == { chain.page[i] : i \in 1 .. Len(chain.page) }

updateChainStats(chain, heap) ==
  [chain EXCEPT
     !.total_objects  = SumFunction([p \in PagesOf(chain) |-> heap[p].object_count]),
     !.active_objects = SumFunction([p \in PagesOf(chain) |-> heap[p].active_count]),
     !.free_objects   = SumFunction([p \in PagesOf(chain) |->
                          heap[p].object_count - heap[p].active_count - heap[p].dead_count]) % WORD]

HasChain(key) == \E c \in 1 .. Len(chains) : chains[c].key = key

findChain(key) ==
  CHOOSE c \in 1 .. Len(chains) :
    chains[c].key = key /\ \A d \in 1 .. c - 1 : chains[d].key # key

EmptyChain(key) ==
  [key |-> key, page |-> << >>, total_objects |-> 0, active_objects |-> 0, free_objects |-> 0]

(* findOrCreateChain; a new chain stays even if no page can be had for it. *)
MayHaveChain(key, size) ==
  /\ size \in 1 .. PAGE_BYTES
  /\ HasChain(key) \/ Len(chains) < MAX_CHAINS

(* Fault: a chain is created without a look for an existing one.           *)
WithChainFault(key) ==
  IF Len(chains) < MAX_CHAINS THEN Append(chains, EmptyChain(key)) ELSE chains

WithChain(key) == IF HasChain(key) THEN chains ELSE Append(chains, EmptyChain(key))

IndexIn(list, key) == CHOOSE c \in 1 .. Len(list) : list[c].key = key

WithRoom(chain) == { i \in 1 .. Len(chain.page) : pages[chain.page[i]].free_mask # {} }

HasRoom(key) == HasChain(key) /\ WithRoom(chains[findChain(key)]) # {}

findPageWithFreeSlot(chain) == chain.page[Min(WithRoom(chain))]

-----------------------------------------------------------------------------
(* allocate: the pointer goes to the client, who constructs object o       *)
(* there, past the end of the slot if the page was made for smaller ones   *)
(* (and past the end of the page at its last slots).                       *)
Place(page, s, o, size) ==
  [page EXCEPT
     !.free_mask = @ \ {s},
     !.active_count = @ + 1,
     !.content = [k \in SlotsOf(page) |-> IF k \in Span(page, s, size) THEN o ELSE page.content[k]]]

HandOut(o, class, parent, p, s) ==
  /\ held' = [q \in DOMAIN held \union {o} |->
                IF q = o THEN [class |-> class, parent |-> parent, page |-> p, slot |-> s]
                ELSE held[q]]
  /\ active_object_count' = active_object_count + 1
  /\ overrun' = (overrun \/ SizeOf[class] > pages'[p].object_size)
  /\ UNCHANGED <<page_count, released_object_count, moved, misled>>

AllocateFromPage(o, class, parent) ==
  LET key == KeyOf(class, parent)
      c   == findChain(key)
      p   == findPageWithFreeSlot(chains[c])
      s   == firstFreeSlot(pages[p])
  IN /\ MayHaveChain(key, SizeOf[class])
     /\ HasRoom(key)
     /\ pages' = [pages EXCEPT ![p] = Place(@, s, o, SizeOf[class])]
     /\ chains' = [chains EXCEPT ![c] = updateChainStats(@, pages')]
     /\ HandOut(o, class, parent, p, s)
     /\ UNCHANGED free_page_count

allocatePage(key, size) ==
  [key |-> key, object_size |-> size, object_count |-> ObjectCount(size),
   active_count |-> 0, dead_count |-> 0,
   free_mask |-> 0 .. ObjectCount(size) - 1,
   content |-> [s \in 0 .. ObjectCount(size) - 1 |-> NoObject]]

appendPage(chain, p) == [chain EXCEPT !.page = Append(@, p)]

AllocateFromNewPage(o, class, parent) ==
  LET key  == KeyOf(class, parent)
      size == SizeOf[class]
      c    == IndexIn(WithChain(key), key)
      p    == usedPageCount + 1
  IN /\ MayHaveChain(key, size)
     /\ ~HasRoom(key)
     /\ free_page_count > 0
     /\ free_page_count' = free_page_count - 1
     /\ pages' = Append(pages, Place(allocatePage(key, size), 0, o, size))
     /\ chains' = [WithChain(key) EXCEPT
                     ![c] = updateChainStats(appendPage(@, p), pages')]
     /\ HandOut(o, class, parent, p, 0)

(* No page left, or the platform has none to give: null is returned, and   *)
(* all that remains of the attempt is the chain it may have created.       *)
AllocateNoPage(class, parent) ==
  LET key == KeyOf(class, parent)
  IN /\ MayHaveChain(key, SizeOf[class])
     /\ ~HasChain(key)
     /\ chains' = WithChain(key)
     /\ UNCHANGED <<counters, pages, held, history>>

-----------------------------------------------------------------------------
(* release goes by the address alone: whatever object lives there now is   *)
(* the one destroyed, and a pointer to a slot already free is refused.     *)
Drop(o) ==
  /\ held' = [q \in DOMAIN held \ {o} |-> held[q]]
  /\ moved' = moved \ {o}

Freed(page, s) ==
  [page EXCEPT !.free_mask = @ \union {s}, !.active_count = @ - 1, !.dead_count = @ + 1]

Mislead(o) == misled' = IF o \in moved THEN misled \union {held[o].page} ELSE misled

(* Fault: the statistics of the chain are not refreshed.                   *)
releaseFault(o) ==
  LET p == held[o].page
      s == held[o].slot
  IN /\ released_object_count < MaxReleases
     /\ s \notin pages[p].free_mask
     /\ pages' = [pages EXCEPT ![p] = Freed(@, s)]
     /\ active_object_count' = active_object_count - 1
     /\ released_object_count' = released_object_count + 1
     /\ Drop(o)
     /\ Mislead(o)
     /\ UNCHANGED <<page_count, free_page_count, chains, overrun>>

release(o) ==
  LET p == held[o].page
      s == held[o].slot
      c == findChain(pages[p].key)
  IN /\ released_object_count < MaxReleases
     /\ s \notin pages[p].free_mask
     /\ pages' = [pages EXCEPT ![p] = Freed(@, s)]
     /\ active_object_count' = active_object_count - 1
     /\ released_object_count' = released_object_count + 1
     /\ chains' = [chains EXCEPT ![c] = updateChainStats(@, pages')]
     /\ Drop(o)
     /\ Mislead(o)
     /\ UNCHANGED <<page_count, free_page_count, overrun>>

ReleaseRefused(o) ==
  /\ held[o].slot \in pages[held[o].page].free_mask
  /\ Drop(o)
  /\ UNCHANGED <<counters, pages, chains, misled, overrun>>

-----------------------------------------------------------------------------
(* compact touches no counter but the chain's, and no client pointer.      *)
CompactPages(which) ==
  /\ pages' = [p \in 1 .. Len(pages) |-> IF p \in which THEN Packed(pages[p]) ELSE pages[p]]
  /\ moved' = moved \union
       { o \in DOMAIN held : /\ held[o].page \in which
                             /\ Rank(pages[held[o].page], held[o].slot) # held[o].slot }
  /\ UNCHANGED <<counters, held, misled, overrun>>

compact(key) ==
  /\ HasChain(key)
  /\ CompactPages(PagesOf(chains[findChain(key)]))
  /\ chains' = [chains EXCEPT ![findChain(key)] = updateChainStats(@, pages')]

compactAll ==
  /\ CompactPages(UNION { PagesOf(chains[c]) : c \in 1 .. Len(chains) })
  /\ chains' = [c \in 1 .. Len(chains) |-> updateChainStats(chains[c], pages')]

Next ==
  \/ \E n \in 1 .. MAX_PAGES : initialize(n)
  \/ shutdown
  \/ \E o \in Object \ DOMAIN held, class \in Class, parent \in Parent :
       AllocateFromPage(o, class, parent) \/ AllocateFromNewPage(o, class, parent)
  \/ \E class \in Class, parent \in Parent : AllocateNoPage(class, parent)
  \/ \E o \in DOMAIN held : release(o) \/ ReleaseRefused(o)
  \/ \E key \in Key : compact(key)
  \/ compactAll

Spec == Init /\ [][Next]_vars

-----------------------------------------------------------------------------
(* Properties. *)

Occupied == { a \in (1 .. Len(pages)) \X (0 .. SLOT_BITS - 1) : a[2] \in OccupiedIn(pages[a[1]]) }

TypeOK ==
  /\ page_count \in 0 .. MAX_PAGES
  /\ free_page_count \in 0 .. page_count
  /\ pages \in Seq(PageRecord)
  /\ Len(pages) = usedPageCount
  /\ \A p \in 1 .. Len(pages) :
       /\ pages[p].object_count = ObjectCount(pages[p].object_size)
       /\ pages[p].free_mask \subseteq SlotsOf(pages[p])
       /\ DOMAIN pages[p].content = SlotsOf(pages[p])
  /\ chains \in Seq(ChainRecord)
  /\ active_object_count \in Nat /\ released_object_count \in Nat
  /\ DOMAIN held \subseteq Object
  /\ \A o \in DOMAIN held :
       /\ held[o].class \in Class /\ held[o].parent \in Parent
       /\ held[o].page \in 1 .. Len(pages)
       /\ held[o].slot \in SlotsOf(pages[held[o].page])
  /\ moved \subseteq DOMAIN held
  /\ misled \subseteq 1 .. Len(pages)
  /\ overrun \in BOOLEAN

(* Every count but the free_objects of a chain agrees with the free masks, *)
(* although releases may go through stale pointers and compaction rewrites *)
(* the masks without touching a count (allocate, release, compact,         *)
(* updateChainStats).  free_objects takes off every object ever released   *)
(* and is no count of what is free.                                        *)
CountersAgree ==
  /\ active_object_count = Cardinality(Occupied)
  /\ released_object_count = SumFunction([p \in 1 .. Len(pages) |-> pages[p].dead_count])
  /\ \A p \in 1 .. Len(pages) : pages[p].active_count = Cardinality(OccupiedIn(pages[p]))
  /\ \A c \in 1 .. Len(chains) :
       /\ chains[c].active_objects = Cardinality({ a \in Occupied : a[1] \in PagesOf(chains[c]) })
       /\ chains[c].total_objects =
            SumFunction([p \in PagesOf(chains[c]) |-> pages[p].object_count])

(* Every page mapped so far is on exactly one chain, once, and carries the *)
(* parent and type of that chain; no two chains have the same parent and   *)
(* type (findOrCreateChain, allocatePage, appendPage, failures included).  *)
PagesOwned ==
  /\ \A c, d \in 1 .. Len(chains) : chains[c].key = chains[d].key => c = d
  /\ \A p \in 1 .. Len(pages) :
       \E c \in 1 .. Len(chains) : \E i \in 1 .. Len(chains[c].page) :
         /\ chains[c].page[i] = p /\ chains[c].key = pages[p].key
         /\ \A d \in 1 .. Len(chains) : \A j \in 1 .. Len(chains[d].page) :
              chains[d].page[j] = p => d = c /\ j = i
  /\ \A c \in 1 .. Len(chains) : PagesOf(chains[c]) \subseteq 1 .. Len(pages)

(* Object o, whole, in the slots from s on of the page it was placed on.   *)
LiesAt(o, s) ==
  LET page == pages[held[o].page]
  IN /\ s \in OccupiedIn(page)
     /\ \A k \in Span(page, s, SizeOf[held[o].class]) : page.content[k] = o
     /\ page.key = KeyOf(held[o].class, held[o].parent)

(* The damage stays where it was done.  Until an object is put in a slot   *)
(* too small for it, every pointer compaction has not left behind leads to *)
(* its own object, unspoilt, through any reuse of slots, classes of one    *)
(* type and several sizes included; and an object left behind is still     *)
(* alive on its page.  Only pages on which somebody has released by a      *)
(* pointer left behind are out of this (allocate, release, compact).       *)
HandlesIntact ==
  ~overrun =>
    \A o \in DOMAIN held :
      held[o].page \notin misled =>
        \E s \in SlotsOf(pages[held[o].page]) :
          LiesAt(o, s) /\ (o \notin moved => s = held[o].slot)

(* The allocator as an ObjectHeap: what lies in the occupied slots.        *)
HeapNow ==
  { [object |-> pages[a[1]].content[a[2]], page |-> a[1], slot |-> a[2]] : a \in Occupied }

HeapSeen == IF overrun THEN {} ELSE HeapNow

Heap == INSTANCE ObjectHeap WITH
          Page <- 1 .. MAX_PAGES, Slot <- 0 .. SLOT_BITS - 1, heap <- HeapSeen

(* Every operation does to the objects in memory what ObjectHeap allows    *)
(* and nothing else, stale pointers and compaction included; an object put *)
(* in a slot too small for it is the end of the heap until initialize.     *)
ImplementsHeap == Heap!Spec

=============================================================================
