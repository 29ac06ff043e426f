------------------------ MODULE PagedAllocator_proofs ------------------------
(***************************************************************************)
(* Proofs about PagedAllocator, for pages, masks and chains of any size    *)
(* and any classes and clients, and about PageCompaction: the compaction   *)
(* loop packs any page, as PagedAllocator takes it to.                     *)
(***************************************************************************)
EXTENDS PagedAllocator, PageCompaction, Counting, SequenceTheorems

-----------------------------------------------------------------------------
(* One page: the ranks of its live slots, and what packing leaves. *)

LEMMA LiveSlots ==
  ASSUME NEW page, page.object_count \in Nat
  PROVE  /\ \A s \in OccupiedIn(page) : s \in 0 .. page.object_count - 1
         /\ IsFiniteSet(OccupiedIn(page))
         /\ Cardinality(OccupiedIn(page)) \in 0 .. page.object_count
         /\ \A s \in Nat : Rank(page, s) \in Nat
<1>1. OccupiedIn(page) \subseteq 0 .. page.object_count - 1
  BY DEF OccupiedIn, SlotsOf
<1> QED
  BY <1>1, RankTypes DEF Rank, RankOf

(* Ranks tell the live slots apart, in order, and leave none out.          *)
LEMMA LiveRanks ==
  ASSUME NEW page, page.object_count \in Nat
  PROVE  LET live == OccupiedIn(page)
         IN /\ \A s, t \in live : s < t => Rank(page, s) < Rank(page, t)
            /\ \A s, t \in live : Rank(page, s) = Rank(page, t) => s = t
            /\ \A s \in live : Rank(page, s) \in 0 .. Cardinality(live) - 1
            /\ \A k \in 0 .. Cardinality(live) - 1 : \E s \in live : Rank(page, s) = k
<1> DEFINE live == OccupiedIn(page)
<1>1. live \subseteq 0 .. page.object_count - 1
  BY DEF OccupiedIn, SlotsOf
<1>2. \A s : Rank(page, s) = RankOf(live, s)
  BY DEF Rank, RankOf
<1> HIDE DEF live
<1>3. \A s, t \in live : s < t => RankOf(live, s) < RankOf(live, t)
  BY <1>1, RanksGrow
<1>4. \A s, t \in live : RankOf(live, s) = RankOf(live, t) => s = t
  BY <1>1, RankIdentifies
<1>5. \A s \in live : RankOf(live, s) \in 0 .. Cardinality(live) - 1
  BY <1>1, RankBounds
<1>6. \A k \in 0 .. Cardinality(live) - 1 : \E s \in live : RankOf(live, s) = k
  BY <1>1, RankReached
<1> QED
  BY <1>2, <1>3, <1>4, <1>5, <1>6 DEF live

LEMMA PackedLayout ==
  ASSUME NEW page, page.object_count \in Nat, "object_count" \in DOMAIN page,
         "free_mask" \in DOMAIN page, "content" \in DOMAIN page
  PROVE  LET live == Cardinality(OccupiedIn(page))
         IN /\ DOMAIN Packed(page) = DOMAIN page
            /\ \A f \in DOMAIN page \ {"free_mask", "content"} : Packed(page)[f] = page[f]
            /\ Packed(page).free_mask = live .. page.object_count - 1
            /\ SlotsOf(Packed(page)) = SlotsOf(page)
            /\ OccupiedIn(Packed(page)) = 0 .. live - 1
            /\ Cardinality(OccupiedIn(Packed(page))) = live
            /\ DOMAIN Packed(page).content = SlotsOf(page)
            /\ \A s \in OccupiedIn(page) : Packed(page).content[Rank(page, s)] = page.content[s]
            /\ \A k \in SlotsOf(page) : \E s \in SlotsOf(page) :
                 Packed(page).content[k] = page.content[s]
<1> DEFINE live == Cardinality(OccupiedIn(page))
           At(k) == CHOOSE s \in OccupiedIn(page) : Rank(page, s) = k
           free == live .. page.object_count - 1
           packed == [k \in SlotsOf(page) |-> IF k < live THEN page.content[At(k)] ELSE page.content[k]]
<1>1. Packed(page) = [page EXCEPT !.free_mask = free, !.content = packed]
  BY DEF Packed
<1>2. live \in 0 .. page.object_count
  BY LiveSlots
<1> HIDE DEF live, packed, free
<1>3. /\ DOMAIN Packed(page) = DOMAIN page
      /\ \A f \in DOMAIN page \ {"free_mask", "content"} : Packed(page)[f] = page[f]
      /\ Packed(page).free_mask = free
      /\ Packed(page).content = packed
      /\ Packed(page).object_count = page.object_count
  BY <1>1
<1>4. SlotsOf(Packed(page)) = SlotsOf(page)
  BY <1>3 DEF SlotsOf
<1>5. OccupiedIn(Packed(page)) = 0 .. live - 1
  BY <1>2, <1>3, <1>4 DEF OccupiedIn, SlotsOf, free
<1>6. Cardinality(0 .. live - 1) = live
  BY <1>2, FS_Interval
<1>7. ASSUME NEW s \in OccupiedIn(page)
      PROVE  packed[Rank(page, s)] = page.content[s]
  <2>1. Rank(page, s) \in 0 .. live - 1
    BY LiveRanks DEF live
  <2>2. Rank(page, s) \in SlotsOf(page) /\ Rank(page, s) < live
    BY <1>2, <2>1 DEF SlotsOf
  <2>3. At(Rank(page, s)) = s
    BY LiveRanks
  <2> HIDE DEF At
  <2> QED
    BY <2>2, <2>3 DEF packed
<1>8. ASSUME NEW k \in SlotsOf(page)
      PROVE  \E s \in SlotsOf(page) : packed[k] = page.content[s]
  <2>1. CASE k < live
    <3>1. k \in 0 .. live - 1
      BY <1>2, <2>1 DEF SlotsOf
    <3>2. At(k) \in OccupiedIn(page)
      BY <3>1, LiveRanks DEF live
    <3> HIDE DEF At
    <3>3. At(k) \in SlotsOf(page) /\ packed[k] = page.content[At(k)]
      BY <2>1, <3>2 DEF packed, OccupiedIn
    <3> QED
      BY <3>3
  <2>2. CASE ~(k < live)
    BY <2>2 DEF packed
  <2> QED
    BY <2>1, <2>2
<1> DEFINE goal == DOMAIN packed = SlotsOf(page)
<1>9. goal
  BY DEF packed
<1> QED
  BY <1>3, <1>4, <1>5, <1>6, <1>7, <1>8, <1>9 DEF live, free

-----------------------------------------------------------------------------
(* The invariant. *)

Settings == PageAssumption /\ AllocatorAssumption

(* Slots are never without bytes, and a page never without slots.          *)
PagesSized == \A p \in 1 .. Len(pages) : pages[p].object_size \in 1 .. PAGE_BYTES

ActiveOn(S, heap)  == SumFunction([p \in S |-> heap[p].active_count])
ObjectsOn(S, heap) == SumFunction([p \in S |-> heap[p].object_count])

(* CountersAgree with the numbers of occupied slots as sums over pages.    *)
CountInv ==
  /\ \A p \in 1 .. Len(pages) : pages[p].active_count = Cardinality(OccupiedIn(pages[p]))
  /\ active_object_count = ActiveOn(1 .. Len(pages), pages)
  /\ released_object_count = SumFunction([p \in 1 .. Len(pages) |-> pages[p].dead_count])
  /\ \A c \in 1 .. Len(chains) :
       /\ chains[c].active_objects = ActiveOn(PagesOf(chains[c]), pages)
       /\ chains[c].total_objects = ObjectsOn(PagesOf(chains[c]), pages)

(* The object handed out as h[o] lies in slot s of its page, and there is  *)
(* no other way to it than h[o] if compaction has left the pointer alone;  *)
(* its size is that of one slot or less.                                   *)
Sound(o, s, h, m, heap) ==
  /\ s \in OccupiedIn(heap[h[o].page])
  /\ heap[h[o].page].content[s] = o
  /\ o \notin m => s = h[o].slot

Fits(o, h, heap) ==
  /\ heap[h[o].page].key = KeyOf(h[o].class, h[o].parent)
  /\ SizeOf[h[o].class] \in 1 .. heap[h[o].page].object_size

HandleInv ==
  ~overrun =>
    \A o \in DOMAIN held :
      /\ Fits(o, held, pages)
      /\ held[o].page \notin misled => \E s : Sound(o, s, held, moved, pages)

IInv == TypeOK /\ PagesSized /\ PagesOwned /\ CountInv /\ HandleInv

-----------------------------------------------------------------------------
(* Helpers. *)

LEMMA ObjectCountFacts ==
  ASSUME Settings, NEW size \in 1 .. PAGE_BYTES
  PROVE  ObjectCount(size) \in 1 .. SLOT_BITS
<1>1. PAGE_BYTES \div size \in Nat /\ PAGE_BYTES \div size >= 1
  BY DEF Settings, PageAssumption
<1> QED
  BY <1>1 DEF Settings, PageAssumption, ObjectCount

LEMMA PageTypes ==
  ASSUME Settings, TypeOK, PagesSized, NEW p \in 1 .. Len(pages)
  PROVE  /\ pages[p] \in PageRecord
         /\ pages[p].object_count \in 1 .. SLOT_BITS
         /\ SlotsOf(pages[p]) = 0 .. pages[p].object_count - 1
         /\ pages[p].free_mask \subseteq SlotsOf(pages[p])
         /\ pages[p].content \in [SlotsOf(pages[p]) -> Object \union {NoObject}]
         /\ Len(pages) \in Nat
<1>1. pages[p] \in PageRecord /\ Len(pages) \in Nat
  BY ElementOfSeq, LenProperties DEF TypeOK
<1>2. pages[p].object_count \in 1 .. SLOT_BITS
  BY ObjectCountFacts DEF TypeOK, PagesSized
<1>3. pages[p].free_mask \subseteq SlotsOf(pages[p]) /\ DOMAIN pages[p].content = SlotsOf(pages[p])
  BY DEF TypeOK
<1>4. PICK n \in 0 .. SLOT_BITS : pages[p].content \in [0 .. n - 1 -> Object \union {NoObject}]
  BY <1>1 DEF PageRecord
<1> QED
  BY <1>1, <1>2, <1>3, <1>4 DEF SlotsOf

LEMMA SumsOfPages ==
  ASSUME NEW F, NEW n \in Nat, DOMAIN F \subseteq 1 .. n
  PROVE  /\ IsFiniteSet(DOMAIN F)
         /\ (\A x \in DOMAIN F : F[x] \in Nat) => SumFunction(F) \in Nat
         /\ (\A x \in DOMAIN F : F[x] \in Int) => SumFunction(F) \in Int
<1>1. IsFiniteSet(1 .. n)
  BY FS_Interval
<1>2. IsFiniteSet(DOMAIN F)
  BY <1>1, FS_Subset
<1> QED
  BY <1>2, TotalType, SumIsTotal

(* The statistics of a chain are of their type and are those sums.         *)
LEMMA UpdatedChain ==
  ASSUME Settings, NEW chain \in ChainRecord, NEW heap, NEW n \in Nat,
         PagesOf(chain) \subseteq 1 .. n, \A p \in 1 .. n : heap[p] \in PageRecord
  PROVE  /\ updateChainStats(chain, heap) \in ChainRecord
         /\ updateChainStats(chain, heap).key = chain.key
         /\ updateChainStats(chain, heap).page = chain.page
         /\ updateChainStats(chain, heap).active_objects = ActiveOn(PagesOf(chain), heap)
         /\ updateChainStats(chain, heap).total_objects = ObjectsOn(PagesOf(chain), heap)
<1> DEFINE total  == [p \in PagesOf(chain) |-> heap[p].object_count]
           active == [p \in PagesOf(chain) |-> heap[p].active_count]
           free   == [p \in PagesOf(chain) |->
                       heap[p].object_count - heap[p].active_count - heap[p].dead_count]
<1>1. \A p \in PagesOf(chain) : /\ heap[p].object_count \in Nat
                                /\ heap[p].active_count \in Nat
                                /\ heap[p].dead_count \in Nat
  BY DEF PageRecord
<1>2. SumFunction(total) \in Nat
  BY <1>1, SumsOfPages
<1>3. SumFunction(active) \in Nat
  BY <1>1, SumsOfPages
<1>4. SumFunction(free) \in Int
  <2>1. \A p \in DOMAIN free : free[p] \in Int
    BY <1>1
  <2> QED
    BY <2>1, SumsOfPages
<1>5. updateChainStats(chain, heap) =
        [chain EXCEPT !.total_objects = SumFunction(total), !.active_objects = SumFunction(active),
                      !.free_objects = SumFunction(free) % WORD]
  BY DEF updateChainStats
<1> HIDE DEF total, active, free
<1>6. SumFunction(free) % WORD \in Nat
  BY <1>4 DEF Settings, AllocatorAssumption
<1>7. /\ updateChainStats(chain, heap) \in ChainRecord
      /\ updateChainStats(chain, heap).key = chain.key
      /\ updateChainStats(chain, heap).page = chain.page
      /\ updateChainStats(chain, heap).active_objects = SumFunction(active)
      /\ updateChainStats(chain, heap).total_objects = SumFunction(total)
  BY <1>2, <1>3, <1>5, <1>6 DEF ChainRecord
<1> QED
  BY <1>7 DEF total, active, ActiveOn, ObjectsOn

LEMMA ChainTypes ==
  ASSUME TypeOK, NEW c \in 1 .. Len(chains)
  PROVE  chains[c] \in ChainRecord /\ Len(chains) \in Nat /\ chains[c].key \in Key
         /\ chains[c].page \in Seq(Nat)
<1>1. chains[c] \in ChainRecord /\ Len(chains) \in Nat
  BY ElementOfSeq, LenProperties DEF TypeOK
<1> QED
  BY <1>1 DEF ChainRecord

(* The chain of a key is the only one with it.                             *)
LEMMA ChainFound ==
  ASSUME PagesOwned, NEW key, HasChain(key), Len(chains) \in Nat
  PROVE  findChain(key) \in 1 .. Len(chains) /\ chains[findChain(key)].key = key
<1>1. PICK c \in 1 .. Len(chains) : chains[c].key = key
  BY DEF HasChain
<1>2. \A d \in 1 .. c - 1 : chains[d].key # key
  BY <1>1 DEF PagesOwned
<1>3. \E d \in 1 .. Len(chains) :
        chains[d].key = key /\ \A e \in 1 .. d - 1 : chains[e].key # key
  BY <1>1, <1>2
<1> QED
  BY <1>3 DEF findChain

(* A page of a chain has the chain's key, and is on no other.              *)
LEMMA PageOfChain ==
  ASSUME PagesOwned, NEW c \in 1 .. Len(chains), NEW p \in PagesOf(chains[c])
  PROVE  /\ p \in 1 .. Len(pages)
         /\ pages[p].key = chains[c].key
         /\ \A d \in 1 .. Len(chains) : p \in PagesOf(chains[d]) => d = c
<1>1. p \in 1 .. Len(pages)
  BY DEF PagesOwned
<1>2. PICK d \in 1 .. Len(chains) : \E i \in 1 .. Len(chains[d].page) :
         /\ chains[d].page[i] = p /\ chains[d].key = pages[p].key
         /\ \A e \in 1 .. Len(chains) : \A j \in 1 .. Len(chains[e].page) :
              chains[e].page[j] = p => e = d /\ j = i
  BY <1>1 DEF PagesOwned
<1>3. \A e \in 1 .. Len(chains) : p \in PagesOf(chains[e]) => e = d
  BY <1>2 DEF PagesOf
<1> QED
  BY <1>1, <1>2, <1>3

LEMMA ChainOfPage ==
  ASSUME PagesOwned, NEW p \in 1 .. Len(pages), Len(chains) \in Nat
  PROVE  LET c == findChain(pages[p].key)
         IN c \in 1 .. Len(chains) /\ chains[c].key = pages[p].key /\ p \in PagesOf(chains[c])
<1>1. PICK c \in 1 .. Len(chains) : p \in PagesOf(chains[c]) /\ chains[c].key = pages[p].key
  <2>1. PICK c \in 1 .. Len(chains) :
          \E i \in 1 .. Len(chains[c].page) : chains[c].page[i] = p /\ chains[c].key = pages[p].key
    BY DEF PagesOwned
  <2>2. p \in PagesOf(chains[c])
    BY <2>1 DEF PagesOf
  <2> QED
    BY <2>1, <2>2
<1>2. HasChain(pages[p].key)
  BY <1>1 DEF HasChain
<1>3. findChain(pages[p].key) \in 1 .. Len(chains)
      /\ chains[findChain(pages[p].key)].key = pages[p].key
  BY <1>2, ChainFound
<1>4. findChain(pages[p].key) = c
  BY <1>1, <1>3 DEF PagesOwned
<1> QED
  BY <1>1, <1>3, <1>4

LEMMA FirstFree ==
  ASSUME NEW page, page.free_mask \subseteq Nat, page.free_mask # {}
  PROVE  firstFreeSlot(page) \in page.free_mask
<1>1. \E s \in page.free_mask : \A t \in page.free_mask : s <= t
  BY LeastExists
<1> QED
  BY <1>1 DEF firstFreeSlot

(* The page allocate takes a slot of.                                      *)
LEMMA PageWithRoom ==
  ASSUME TypeOK, PagesOwned, NEW key, HasRoom(key)
  PROVE  LET c == findChain(key)
             p == findPageWithFreeSlot(chains[c])
         IN /\ c \in 1 .. Len(chains) /\ chains[c].key = key
            /\ p \in PagesOf(chains[c]) /\ p \in 1 .. Len(pages)
            /\ pages[p].key = key
            /\ pages[p].free_mask # {}
<1> DEFINE c == findChain(key)
           S == WithRoom(chains[c])
<1>1. Len(chains) \in Nat
  BY LenProperties DEF TypeOK
<1>2. c \in 1 .. Len(chains) /\ chains[c].key = key /\ S # {}
  BY <1>1, ChainFound DEF HasRoom
<1> HIDE DEF c
<1>3. \A i \in S : i \in Nat /\ i \in 1 .. Len(chains[c].page) /\ pages[chains[c].page[i]].free_mask # {}
  BY DEF WithRoom
<1> HIDE DEF S
<1>4. \E i \in S : \A j \in S : i <= j
  BY <1>2, <1>3, LeastExists
<1>5. Min(S) \in S
  BY <1>4 DEF Min
<1> DEFINE p == findPageWithFreeSlot(chains[c])
<1>6. p = chains[c].page[Min(S)]
  BY DEF findPageWithFreeSlot, S
<1> HIDE DEF p
<1>7. p \in PagesOf(chains[c]) /\ pages[p].free_mask # {}
  BY <1>3, <1>5, <1>6 DEF PagesOf
<1>8. p \in 1 .. Len(pages) /\ pages[p].key = key
  BY <1>2, <1>7, PageOfChain
<1> QED
  BY <1>2, <1>7, <1>8 DEF p, c

-----------------------------------------------------------------------------
(* Counting. *)

OccupiedOn(S) == { a \in Occupied : a[1] \in S }

LEMMA OneOccupied ==
  ASSUME Settings, TypeOK, PagesSized, NEW p \in 1 .. Len(pages)
  PROVE  /\ IsFiniteSet(OccupiedOn({p}))
         /\ Cardinality(OccupiedOn({p})) = Cardinality(OccupiedIn(pages[p]))
<1> DEFINE Live == OccupiedIn(pages[p])
           f == [s \in Live |-> <<p, s>>]
<1>1. pages[p].object_count \in 1 .. SLOT_BITS /\ Live \subseteq 0 .. pages[p].object_count - 1
  BY PageTypes DEF OccupiedIn
<1>2. IsFiniteSet(Live)
  BY <1>1, LiveSlots
<1>3. SLOT_BITS \in Nat
  BY DEF Settings, PageAssumption
<1>4. OccupiedOn({p}) = { <<p, s>> : s \in Live }
  <2>1. ASSUME NEW a \in OccupiedOn({p})
        PROVE  a \in { <<p, s>> : s \in Live }
    <3>1. a = <<p, a[2]>> /\ a[2] \in Live
      BY DEF OccupiedOn, Occupied
    <3> QED
      BY <3>1
  <2>2. ASSUME NEW s \in Live
        PROVE  <<p, s>> \in OccupiedOn({p})
    <3>1. s \in 0 .. SLOT_BITS - 1
      BY <1>1, <1>3
    <3> QED
      BY <3>1 DEF OccupiedOn, Occupied
  <2> QED
    BY <2>1, <2>2
<1>5. f \in Bijection(Live, OccupiedOn({p}))
  <2> HIDE DEF Live
  <2>1. f \in [Live -> OccupiedOn({p})]
    BY <1>4
  <2>2. \A s, t \in Live : f[s] = f[t] => s = t
    OBVIOUS
  <2>3. \A a \in OccupiedOn({p}) : \E s \in Live : f[s] = a
    BY <1>4
  <2> QED
    BY <2>1, <2>2, <2>3 DEF Bijection, Injection, Surjection, IsInjective
<1> QED
  BY <1>2, <1>5, FS_Bijection DEF ExistsBijection

LEMMA OccupiedCount ==
  ASSUME Settings, TypeOK, PagesSized, CountInv, NEW S, S \subseteq 1 .. Len(pages)
  PROVE  Cardinality(OccupiedOn(S)) = ActiveOn(S, pages)
<1> DEFINE n == Len(pages)
           F == [p \in S |-> pages[p].active_count]
           C == { s \in SUBSET S : Cardinality(OccupiedOn(s)) # SumOf(F)[s] }
<1>1. n \in Nat /\ SLOT_BITS \in Nat
  BY LenProperties DEF TypeOK, Settings, PageAssumption
<1>2. IsFiniteSet(S) /\ \A s \in SUBSET S : IsFiniteSet(s)
  <2>1. IsFiniteSet(1 .. n)
    BY <1>1, FS_Interval
  <2>2. IsFiniteSet(S)
    BY <2>1, FS_Subset
  <2> QED
    BY <2>2, FS_Subset
<1>3. \A s \in SUBSET S : IsFiniteSet(OccupiedOn(s)) /\ Cardinality(OccupiedOn(s)) \in Nat
  <2>1. IsFiniteSet(1 .. n) /\ IsFiniteSet(0 .. SLOT_BITS - 1)
    BY <1>1, FS_Interval
  <2>2. IsFiniteSet((1 .. n) \X (0 .. SLOT_BITS - 1))
    BY <2>1, FS_Product
  <2>3. \A s \in SUBSET S : OccupiedOn(s) \subseteq (1 .. n) \X (0 .. SLOT_BITS - 1)
    BY DEF OccupiedOn, Occupied
  <2> QED
    BY <2>2, <2>3, FS_Subset, FS_CardinalityType
<1>4. ASSUME C # {} PROVE FALSE
  <2>1. PICK s \in C : \A t \in C : Cardinality(s) <= Cardinality(t)
    <3>1. \A t \in C : IsFiniteSet(t)
      BY <1>2
    <3> HIDE DEF C
    <3> QED
      BY <1>4, <3>1, SmallestExists
  <2>2. SumOf(F)[{}] = 0
    <3>1. DOMAIN F = S
      OBVIOUS
    <3> HIDE DEF F
    <3> QED
      BY <1>2, <3>1, SumSteps
  <2>3. s # {}
    <3>1. OccupiedOn({}) = {}
      BY DEF OccupiedOn
    <3> QED
      BY <2>1, <2>2, <3>1, FS_EmptySet
  <2> DEFINE x == Pick(s)
             r == s \ {x}
  <2>4. x \in s /\ x \in S /\ Cardinality(r) = Cardinality(s) - 1 /\ Cardinality(s) \in Nat
    BY <1>2, <2>3, Picked
  <2>5. SumOf(F)[s] = pages[x].active_count + SumOf(F)[r]
    <3>1. DOMAIN F = S /\ F[x] = pages[x].active_count
      BY <2>4
    <3> HIDE DEF F
    <3> QED
      BY <1>2, <2>3, <3>1, SumSteps
  <2> HIDE DEF x
  <2>6. Cardinality(OccupiedOn(r)) = SumOf(F)[r]
    <3>1. ~(Cardinality(s) <= Cardinality(r))
      BY <2>4
    <3> QED
      BY <2>1, <3>1
  <2> HIDE DEF F
  <2>7. OccupiedOn(s) = OccupiedOn(r) \union OccupiedOn({x}) /\ OccupiedOn(r) \cap OccupiedOn({x}) = {}
    BY <2>4 DEF OccupiedOn
  <2>8. IsFiniteSet(OccupiedOn({x})) /\ Cardinality(OccupiedOn({x})) = pages[x].active_count
    BY <2>4, OneOccupied DEF CountInv
  <2>9. r \in SUBSET S
    OBVIOUS
  <2>10. Cardinality(OccupiedOn(s)) = Cardinality(OccupiedOn(r)) + pages[x].active_count - 0
    <3>1. IsFiniteSet(OccupiedOn(r))
      BY <1>3, <2>9
    <3>2. Cardinality(OccupiedOn(r) \union OccupiedOn({x})) =
            Cardinality(OccupiedOn(r)) + Cardinality(OccupiedOn({x}))
              - Cardinality(OccupiedOn(r) \cap OccupiedOn({x}))
      BY <2>8, <3>1, FS_Union
    <3> QED
      BY <2>7, <2>8, <3>2, FS_EmptySet
  <2>11. pages[x].active_count \in Nat /\ Cardinality(OccupiedOn(r)) \in Nat
    BY <1>3, <2>8, <2>9, FS_CardinalityType
  <2> QED
    BY <2>1, <2>5, <2>6, <2>10, <2>11
<1>5. Cardinality(OccupiedOn(S)) = SumOf(F)[S]
  BY <1>4
<1>6. SumFunction(F) = SumOf(F)[S]
  BY SumIsTotal DEF Total
<1> QED
  BY <1>5, <1>6 DEF ActiveOn

LEMMA CountsAgree ==
  ASSUME Settings, TypeOK, PagesSized, PagesOwned, CountInv
  PROVE  CountersAgree
<1>1. active_object_count = Cardinality(Occupied)
  <2>1. OccupiedOn(1 .. Len(pages)) = Occupied
    BY DEF OccupiedOn, Occupied
  <2>2. Cardinality(OccupiedOn(1 .. Len(pages))) = ActiveOn(1 .. Len(pages), pages)
    BY OccupiedCount
  <2> QED
    BY <2>1, <2>2 DEF CountInv
<1>2. ASSUME NEW c \in 1 .. Len(chains)
      PROVE  chains[c].active_objects = Cardinality({ a \in Occupied : a[1] \in PagesOf(chains[c]) })
  <2>1. PagesOf(chains[c]) \subseteq 1 .. Len(pages)
    BY DEF PagesOwned
  <2>2. Cardinality(OccupiedOn(PagesOf(chains[c]))) = chains[c].active_objects
    BY <2>1, OccupiedCount DEF CountInv
  <2> QED
    BY <2>2 DEF OccupiedOn
<1> QED
  BY <1>1, <1>2 DEF CountInv, CountersAgree, ObjectsOn

-----------------------------------------------------------------------------
(* What a step does to pages, chains and counters. *)

(* TypeOK in two parts: memory, and the pointers into it.                  *)
StoreOK ==
  /\ page_count \in 0 .. MAX_PAGES
  /\ free_page_count \in 0 .. page_count
  /\ pages \in Seq(PageRecord)
  /\ Len(pages) = usedPageCount
  /\ \A p \in 1 .. Len(pages) :
       /\ pages[p].object_count = ObjectCount(pages[p].object_size)
       /\ pages[p].free_mask \subseteq SlotsOf(pages[p])
       /\ DOMAIN pages[p].content = SlotsOf(pages[p])
  /\ chains \in Seq(ChainRecord)
  /\ active_object_count \in Nat /\ released_object_count \in Nat

HeldOK ==
  /\ DOMAIN held \subseteq Object
  /\ \A o \in DOMAIN held :
       /\ held[o].class \in Class /\ held[o].parent \in Parent
       /\ held[o].page \in 1 .. Len(pages)
       /\ held[o].slot \in SlotsOf(pages[held[o].page])
  /\ moved \subseteq DOMAIN held
  /\ misled \subseteq 1 .. Len(pages)
  /\ overrun \in BOOLEAN

Store == StoreOK /\ PagesSized /\ PagesOwned /\ CountInv

LEMMA TypeParts == TypeOK <=> StoreOK /\ HeldOK
  BY DEF TypeOK, StoreOK, HeldOK

LEMMA EmptyStore ==
  ASSUME Settings, page_count' \in 0 .. MAX_PAGES, free_page_count' = page_count',
         pages' = << >>, chains' = << >>, active_object_count' = 0, released_object_count' = 0,
         held' = << >>, moved' = {}, misled' = {}, overrun' = FALSE
  PROVE  IInv'
<1>1. pages' \in Seq(PageRecord) /\ Len(pages') = 0 /\ chains' \in Seq(ChainRecord) /\ Len(chains') = 0
  BY EmptySeq
<1>2. 1 .. Len(pages') = {} /\ 1 .. Len(chains') = {} /\ DOMAIN held' = {}
  BY <1>1
<1>3. TypeOK'
  <2>1. StoreOK'
    <3>1. page_count' \in Nat /\ page_count' - free_page_count' = 0 /\ free_page_count' \in 0 .. page_count'
      <4> DEFINE n == page_count'
      <4>1. MAX_PAGES \in Nat
        BY DEF Settings, AllocatorAssumption
      <4>2. n \in 0 .. MAX_PAGES /\ free_page_count' = n
        OBVIOUS
      <4> HIDE DEF n
      <4>3. n \in Nat /\ n - n = 0 /\ n \in 0 .. n
        BY <4>1, <4>2
      <4> QED
        BY <4>2, <4>3 DEF n
    <3> QED
      BY <1>1, <1>2, <3>1 DEF StoreOK, usedPageCount
  <2>2. HeldOK'
    BY <1>2 DEF HeldOK
  <2> QED
    BY <2>1, <2>2 DEF TypeOK, StoreOK, HeldOK
<1>4. PagesSized' /\ PagesOwned' /\ HandleInv'
  BY <1>2 DEF PagesSized, PagesOwned, HandleInv
<1>5. CountInv'
  <2> DEFINE F == [p \in 1 .. Len(pages') |-> pages'[p].active_count]
             G == [p \in 1 .. Len(pages') |-> pages'[p].dead_count]
  <2>1. DOMAIN F = {} /\ DOMAIN G = {}
    BY <1>2
  <2> HIDE DEF F, G
  <2>2. SumFunction(F) = 0 /\ SumFunction(G) = 0
    BY <2>1, SumIsTotal, TotalEmpty
  <2> QED
    BY <1>2, <2>2 DEF CountInv, ActiveOn, F, G
<1> QED
  BY <1>3, <1>4, <1>5 DEF IInv

LEMMA InitHolds ==
  ASSUME Settings, Init
  PROVE  IInv
<1>1. pages \in Seq(PageRecord) /\ Len(pages) = 0 /\ chains \in Seq(ChainRecord) /\ Len(chains) = 0
  BY EmptySeq DEF Init
<1>2. 1 .. Len(pages) = {} /\ 1 .. Len(chains) = {} /\ DOMAIN held = {}
  BY <1>1 DEF Init
<1>3. TypeOK
  <2>1. StoreOK
    BY <1>1, <1>2 DEF Init, StoreOK, usedPageCount, Settings, AllocatorAssumption
  <2>2. HeldOK
    BY <1>2 DEF Init, HeldOK
  <2> QED
    BY <2>1, <2>2, TypeParts
<1>4. PagesSized /\ PagesOwned /\ HandleInv
  BY <1>2 DEF PagesSized, PagesOwned, HandleInv
<1>5. CountInv
  <2> DEFINE F == [p \in 1 .. Len(pages) |-> pages[p].active_count]
             G == [p \in 1 .. Len(pages) |-> pages[p].dead_count]
  <2>1. DOMAIN F = {} /\ DOMAIN G = {}
    BY <1>2
  <2> HIDE DEF F, G
  <2>2. SumFunction(F) = 0 /\ SumFunction(G) = 0
    BY <2>1, SumIsTotal, TotalEmpty
  <2> QED
    BY <1>2, <2>2 DEF CountInv, ActiveOn, Init, F, G
<1> QED
  BY <1>3, <1>4, <1>5 DEF IInv

(* Chains and pages that keep their keys and places stay owned.            *)
LEMMA OwnedKept ==
  ASSUME PagesOwned, Len(chains') = Len(chains), Len(pages') = Len(pages),
         \A c \in 1 .. Len(chains) : chains'[c].key = chains[c].key /\ chains'[c].page = chains[c].page,
         \A p \in 1 .. Len(pages) : pages'[p].key = pages[p].key
  PROVE  PagesOwned'
<1>1. \A c \in 1 .. Len(chains) : Len(chains'[c].page) = Len(chains[c].page)
                                  /\ PagesOf(chains'[c]) = PagesOf(chains[c])
  BY DEF PagesOf
<1>2. \A c, d \in 1 .. Len(chains') : chains'[c].key = chains'[d].key => c = d
  BY DEF PagesOwned
<1>3. ASSUME NEW p \in 1 .. Len(pages')
      PROVE  \E c \in 1 .. Len(chains') : \E i \in 1 .. Len(chains'[c].page) :
               /\ chains'[c].page[i] = p /\ chains'[c].key = pages'[p].key
               /\ \A d \in 1 .. Len(chains') : \A j \in 1 .. Len(chains'[d].page) :
                    chains'[d].page[j] = p => d = c /\ j = i
  <2>1. PICK c \in 1 .. Len(chains) : \E i \in 1 .. Len(chains[c].page) :
               /\ chains[c].page[i] = p /\ chains[c].key = pages[p].key
               /\ \A d \in 1 .. Len(chains) : \A j \in 1 .. Len(chains[d].page) :
                    chains[d].page[j] = p => d = c /\ j = i
    BY DEF PagesOwned
  <2>2. PICK i \in 1 .. Len(chains[c].page) :
               /\ chains[c].page[i] = p /\ chains[c].key = pages[p].key
               /\ \A d \in 1 .. Len(chains) : \A j \in 1 .. Len(chains[d].page) :
                    chains[d].page[j] = p => d = c /\ j = i
    BY <2>1
  <2>3. /\ c \in 1 .. Len(chains') /\ i \in 1 .. Len(chains'[c].page)
        /\ chains'[c].page[i] = p /\ chains'[c].key = pages'[p].key
    BY <2>2
  <2>4. ASSUME NEW d \in 1 .. Len(chains'), NEW j \in 1 .. Len(chains'[d].page),
               chains'[d].page[j] = p
        PROVE  d = c /\ j = i
    <3>1. d \in 1 .. Len(chains) /\ j \in 1 .. Len(chains[d].page) /\ chains[d].page[j] = p
      BY <2>4
    <3> QED
      BY <2>2, <3>1
  <2> QED
    BY <2>3, <2>4
<1>4. \A c \in 1 .. Len(chains') : PagesOf(chains'[c]) \subseteq 1 .. Len(pages')
  BY <1>1 DEF PagesOwned
<1> QED
  BY <1>2, <1>3, <1>4 DEF PagesOwned

(* Sums over pages of which none has changed.                              *)
LEMMA SumsKept ==
  ASSUME NEW S, \A p \in S : pages'[p].active_count = pages[p].active_count
                             /\ pages'[p].object_count = pages[p].object_count
  PROVE  ActiveOn(S, pages') = ActiveOn(S, pages) /\ ObjectsOn(S, pages') = ObjectsOn(S, pages)
<1>1. [p \in S |-> pages'[p].active_count] = [p \in S |-> pages[p].active_count]
  OBVIOUS
<1>2. [p \in S |-> pages'[p].object_count] = [p \in S |-> pages[p].object_count]
  OBVIOUS
<1> QED
  BY <1>1, <1>2 DEF ActiveOn, ObjectsOn

(* A page has changed in place and its chain has been brought up to date.  *)
LEMMA PageChanges ==
  ASSUME Settings, TypeOK, Store, NEW p \in 1 .. Len(pages), NEW r \in PageRecord,
         r.key = pages[p].key, r.object_size = pages[p].object_size,
         r.object_count = pages[p].object_count, r.free_mask \subseteq SlotsOf(r),
         DOMAIN r.content = SlotsOf(r), r.active_count = Cardinality(OccupiedIn(r)),
         pages' = [pages EXCEPT ![p] = r],
         chains' = [chains EXCEPT ![findChain(pages[p].key)] = updateChainStats(@, pages')],
         UNCHANGED <<page_count, free_page_count>>,
         active_object_count' = active_object_count + (r.active_count - pages[p].active_count),
         released_object_count' = released_object_count + (r.dead_count - pages[p].dead_count)
  PROVE  Store'
<1> DEFINE c == findChain(pages[p].key)
           new == updateChainStats(chains[c], pages')
<1>1. Len(pages) \in Nat /\ Len(chains) \in Nat
  BY LenProperties DEF TypeOK
<1>2. /\ pages' \in Seq(PageRecord) /\ Len(pages') = Len(pages)
      /\ \A q \in 1 .. Len(pages) : pages'[q] = IF q = p THEN r ELSE pages[q]
  BY ExceptSeq DEF TypeOK
<1>3. c \in 1 .. Len(chains) /\ chains[c].key = pages[p].key /\ p \in PagesOf(chains[c])
  BY <1>1, ChainOfPage DEF Store
<1> HIDE DEF c
<1>4. PagesOf(chains[c]) \subseteq 1 .. Len(pages)
  BY <1>3 DEF Store, PagesOwned
<1>5. \A q \in 1 .. Len(pages) : pages'[q] \in PageRecord
  BY <1>2, PageTypes DEF Store
<1>6. /\ new \in ChainRecord /\ new.key = chains[c].key /\ new.page = chains[c].page
      /\ new.active_objects = ActiveOn(PagesOf(chains[c]), pages')
      /\ new.total_objects = ObjectsOn(PagesOf(chains[c]), pages')
  <2>1. chains[c] \in ChainRecord
    BY <1>3, ChainTypes
  <2> QED
    BY <1>1, <1>4, <1>5, <2>1, UpdatedChain
<1> HIDE DEF new
<1>7. /\ chains' \in Seq(ChainRecord) /\ Len(chains') = Len(chains)
      /\ \A d \in 1 .. Len(chains) : chains'[d] = IF d = c THEN new ELSE chains[d]
  <2>1. chains' = [chains EXCEPT ![c] = new]
    BY DEF c, new
  <2>2. chains \in Seq(ChainRecord)
    BY DEF TypeOK
  <2> QED
    <3>1. c \in 1 .. Len(chains) /\ new \in ChainRecord
      BY <1>3, <1>6
    <3>2. /\ [chains EXCEPT ![c] = new] \in Seq(ChainRecord)
          /\ Len([chains EXCEPT ![c] = new]) = Len(chains)
          /\ \A d \in 1 .. Len(chains) :
               [chains EXCEPT ![c] = new][d] = IF d = c THEN new ELSE chains[d]
      BY <2>2, <3>1, ExceptSeq
    <3> QED
      BY <2>1, <3>2
<1>8. PagesOwned'
  <2>1. \A d \in 1 .. Len(chains) : chains'[d].key = chains[d].key /\ chains'[d].page = chains[d].page
    BY <1>6, <1>7
  <2>2. \A q \in 1 .. Len(pages) : pages'[q].key = pages[q].key
    BY <1>2
  <2> QED
    BY <1>2, <1>7, <2>1, <2>2, OwnedKept DEF Store
<1>9. PagesSized'
  BY <1>2 DEF PagesSized, Store
<1>10. \A q \in 1 .. Len(pages) : pages'[q].active_count \in Nat /\ pages'[q].dead_count \in Nat
                                 /\ pages[q].active_count \in Nat /\ pages[q].dead_count \in Nat
  BY <1>5, PageTypes DEF PageRecord, Store
<1>11. /\ active_object_count' = ActiveOn(1 .. Len(pages'), pages')
       /\ active_object_count' \in Nat
  <2> DEFINE F == [q \in 1 .. Len(pages) |-> pages[q].active_count]
             G == [q \in 1 .. Len(pages) |-> pages'[q].active_count]
  <2>1. /\ DOMAIN F = 1 .. Len(pages) /\ DOMAIN G = 1 .. Len(pages)
        /\ \A q \in 1 .. Len(pages) : q # p => F[q] = G[q]
        /\ \A q \in 1 .. Len(pages) : F[q] \in Int /\ G[q] \in Int /\ G[q] \in Nat
        /\ F[p] = pages[p].active_count /\ G[p] = r.active_count
    BY <1>2, <1>10
  <2> HIDE DEF F, G
  <2>2. IsFiniteSet(DOMAIN F)
    BY <1>1, <2>1, SumsOfPages
  <2>3. SumFunction(G) = SumFunction(F) + (G[p] - F[p])
    BY <2>1, <2>2, TotalChanges, SumIsTotal
  <2>4. SumFunction(G) \in Nat
    BY <1>1, <2>1, SumsOfPages
  <2>5. SumFunction(F) = active_object_count
    BY DEF F, Store, CountInv, ActiveOn
  <2>6. active_object_count' = SumFunction(G)
    BY <2>1, <2>3, <2>5
  <2> QED
    BY <1>2, <2>4, <2>6 DEF G, ActiveOn
<1>12. /\ released_object_count' = SumFunction([q \in 1 .. Len(pages') |-> pages'[q].dead_count])
       /\ released_object_count' \in Nat
  <2> DEFINE F == [q \in 1 .. Len(pages) |-> pages[q].dead_count]
             G == [q \in 1 .. Len(pages) |-> pages'[q].dead_count]
  <2>1. /\ DOMAIN F = 1 .. Len(pages) /\ DOMAIN G = 1 .. Len(pages)
        /\ \A q \in 1 .. Len(pages) : q # p => F[q] = G[q]
        /\ \A q \in 1 .. Len(pages) : F[q] \in Int /\ G[q] \in Int /\ G[q] \in Nat
        /\ F[p] = pages[p].dead_count /\ G[p] = r.dead_count
    BY <1>2, <1>10
  <2> HIDE DEF F, G
  <2>2. IsFiniteSet(DOMAIN F)
    BY <1>1, <2>1, SumsOfPages
  <2>3. SumFunction(G) = SumFunction(F) + (G[p] - F[p])
    BY <2>1, <2>2, TotalChanges, SumIsTotal
  <2>4. SumFunction(G) \in Nat
    BY <1>1, <2>1, SumsOfPages
  <2>5. SumFunction(F) = released_object_count
    BY DEF F, Store, CountInv
  <2>6. released_object_count' = SumFunction(G)
    BY <2>1, <2>3, <2>5
  <2> QED
    BY <1>2, <2>4, <2>6 DEF G
<1>13. ASSUME NEW d \in 1 .. Len(chains')
       PROVE  /\ chains'[d].active_objects = ActiveOn(PagesOf(chains'[d]), pages')
              /\ chains'[d].total_objects = ObjectsOn(PagesOf(chains'[d]), pages')
  <2>1. CASE d = c
    <3>1. PagesOf(chains'[d]) = PagesOf(chains[c])
      <4>1. chains'[d].page = chains[c].page
        BY <1>3, <1>6, <1>7, <2>1
      <4> QED
        BY <4>1 DEF PagesOf
    <3> QED
      BY <1>3, <1>6, <1>7, <2>1, <3>1
  <2>2. CASE d # c
    <3>1. chains'[d] = chains[d] /\ d \in 1 .. Len(chains)
      BY <1>7, <2>2
    <3>2. p \notin PagesOf(chains[d])
      BY <1>3, <2>2, <3>1, PageOfChain DEF Store
    <3>3. \A q \in PagesOf(chains[d]) : q \in 1 .. Len(pages) /\ q # p
      BY <3>1, <3>2 DEF Store, PagesOwned
    <3>4. \A q \in PagesOf(chains[d]) : pages'[q] = pages[q]
      BY <1>2, <3>3
    <3>5. /\ ActiveOn(PagesOf(chains[d]), pages') = ActiveOn(PagesOf(chains[d]), pages)
          /\ ObjectsOn(PagesOf(chains[d]), pages') = ObjectsOn(PagesOf(chains[d]), pages)
      BY <3>4, SumsKept
    <3> QED
      BY <3>1, <3>5 DEF Store, CountInv
  <2> QED
    BY <2>1, <2>2
<1>14. \A q \in 1 .. Len(pages') : pages'[q].active_count = Cardinality(OccupiedIn(pages'[q]))
  BY <1>2 DEF Store, CountInv
<1>15. CountInv'
  BY <1>11, <1>12, <1>13, <1>14 DEF CountInv
<1>16. StoreOK'
  <2>1. \A q \in 1 .. Len(pages') :
          /\ pages'[q].object_count = ObjectCount(pages'[q].object_size)
          /\ pages'[q].free_mask \subseteq SlotsOf(pages'[q])
          /\ DOMAIN pages'[q].content = SlotsOf(pages'[q])
    BY <1>2 DEF TypeOK
  <2> QED
    BY <1>2, <1>7, <1>11, <1>12, <2>1 DEF StoreOK, TypeOK, usedPageCount
<1> QED
  BY <1>8, <1>9, <1>15, <1>16 DEF Store

-----------------------------------------------------------------------------
(* Chains and pages that grow. *)

(* PagesOwned and the chains' counts, of any chains over any pages.         *)
OwnedBy(list, heap) ==
  /\ \A c, d \in 1 .. Len(list) : list[c].key = list[d].key => c = d
  /\ \A p \in 1 .. Len(heap) :
       \E c \in 1 .. Len(list) : \E i \in 1 .. Len(list[c].page) :
         /\ list[c].page[i] = p /\ list[c].key = heap[p].key
         /\ \A d \in 1 .. Len(list) : \A j \in 1 .. Len(list[d].page) :
              list[d].page[j] = p => d = c /\ j = i
  /\ \A c \in 1 .. Len(list) : PagesOf(list[c]) \subseteq 1 .. Len(heap)

CountedBy(list, heap) ==
  \A c \in 1 .. Len(list) :
    /\ list[c].active_objects = ActiveOn(PagesOf(list[c]), heap)
    /\ list[c].total_objects = ObjectsOn(PagesOf(list[c]), heap)

LEMMA OwnedIsBy == (PagesOwned <=> OwnedBy(chains, pages)) /\ (PagesOwned' <=> OwnedBy(chains', pages'))
  BY DEF PagesOwned, OwnedBy, PagesOf

(* A chain without pages changes nothing that is owned or counted.         *)
LEMMA WithChainFits ==
  ASSUME Settings, TypeOK, PagesOwned, CountInv, NEW key \in Key
  PROVE  /\ WithChain(key) \in Seq(ChainRecord)
         /\ OwnedBy(WithChain(key), pages)
         /\ CountedBy(WithChain(key), pages)
         /\ IndexIn(WithChain(key), key) \in 1 .. Len(WithChain(key))
         /\ WithChain(key)[IndexIn(WithChain(key), key)].key = key
<1> DEFINE list == WithChain(key)
           e == EmptyChain(key)
<1>1. chains \in Seq(ChainRecord) /\ Len(chains) \in Nat
  BY LenProperties DEF TypeOK
<1>2. e \in ChainRecord /\ e.key = key /\ Len(e.page) = 0 /\ e.page = << >>
      /\ e.active_objects = 0 /\ e.total_objects = 0
  BY EmptySeq DEF ChainRecord, EmptyChain
<1>3. CASE HasChain(key)
  <2>1. list = chains
    BY <1>3 DEF WithChain
  <2>2. OwnedBy(chains, pages) /\ CountedBy(chains, pages)
    BY OwnedIsBy DEF CountInv, CountedBy
  <2>3. \E c \in 1 .. Len(chains) : chains[c].key = key
    BY <1>3 DEF HasChain
  <2> QED
    BY <1>1, <2>1, <2>2, <2>3 DEF IndexIn
<1>4. CASE ~HasChain(key)
  <2>1. list = Append(chains, e)
    BY <1>4 DEF WithChain
  <2> HIDE DEF e, list
  <2>2. /\ list \in Seq(ChainRecord) /\ Len(list) = Len(chains) + 1
        /\ \A c \in 1 .. Len(chains) : list[c] = chains[c]
        /\ list[Len(chains) + 1] = e
    BY <1>1, <1>2, <2>1, AppendProperties
  <2>3. \A c \in 1 .. Len(list) : c \in 1 .. Len(chains) \/ c = Len(chains) + 1
    BY <1>1, <2>2
  <2>4. PagesOf(e) = {}
    BY <1>2 DEF PagesOf
  <2>5. OwnedBy(list, pages)
    <3>1. \A c, d \in 1 .. Len(list) : list[c].key = list[d].key => c = d
      BY <1>2, <1>4, <2>2, <2>3 DEF HasChain, PagesOwned
    <3>2. ASSUME NEW p \in 1 .. Len(pages)
          PROVE  \E c \in 1 .. Len(list) : \E i \in 1 .. Len(list[c].page) :
                   /\ list[c].page[i] = p /\ list[c].key = pages[p].key
                   /\ \A d \in 1 .. Len(list) : \A j \in 1 .. Len(list[d].page) :
                        list[d].page[j] = p => d = c /\ j = i
      <4>1. PICK c \in 1 .. Len(chains) : \E i \in 1 .. Len(chains[c].page) :
               /\ chains[c].page[i] = p /\ chains[c].key = pages[p].key
               /\ \A d \in 1 .. Len(chains) : \A j \in 1 .. Len(chains[d].page) :
                    chains[d].page[j] = p => d = c /\ j = i
        BY DEF PagesOwned
      <4>2. PICK i \in 1 .. Len(chains[c].page) :
               /\ chains[c].page[i] = p /\ chains[c].key = pages[p].key
               /\ \A d \in 1 .. Len(chains) : \A j \in 1 .. Len(chains[d].page) :
                    chains[d].page[j] = p => d = c /\ j = i
        BY <4>1
      <4>3. /\ c \in 1 .. Len(list) /\ i \in 1 .. Len(list[c].page)
            /\ list[c].page[i] = p /\ list[c].key = pages[p].key
        BY <1>1, <2>2, <4>2
      <4>4. ASSUME NEW d \in 1 .. Len(list), NEW j \in 1 .. Len(list[d].page), list[d].page[j] = p
            PROVE  d = c /\ j = i
        <5>1. d \in 1 .. Len(chains)
          BY <1>2, <2>2, <2>3, <4>4
        <5>2. list[d] = chains[d]
          BY <2>2, <5>1
        <5> QED
          BY <4>2, <4>4, <5>1, <5>2
      <4> QED
        BY <4>3, <4>4
    <3>3. \A c \in 1 .. Len(list) : PagesOf(list[c]) \subseteq 1 .. Len(pages)
      BY <2>2, <2>3, <2>4 DEF PagesOwned
    <3> QED
      BY <3>1, <3>2, <3>3 DEF OwnedBy
  <2>6. CountedBy(list, pages)
    <3>1. ActiveOn({}, pages) = 0 /\ ObjectsOn({}, pages) = 0
      <4> DEFINE F == [p \in {} |-> pages[p].active_count]
                 G == [p \in {} |-> pages[p].object_count]
      <4>1. DOMAIN F = {} /\ DOMAIN G = {}
        OBVIOUS
      <4> HIDE DEF F, G
      <4>2. SumFunction(F) = 0 /\ SumFunction(G) = 0
        BY <4>1, SumIsTotal, TotalEmpty
      <4> QED
        BY <4>2 DEF ActiveOn, ObjectsOn, F, G
    <3> QED
      BY <1>2, <2>2, <2>3, <2>4, <3>1 DEF CountedBy, CountInv
  <2>7. \E c \in 1 .. Len(list) : list[c].key = key
    BY <1>1, <1>2, <2>2
  <2> QED
    BY <2>2, <2>5, <2>6, <2>7 DEF IndexIn, list
<1> QED
  BY <1>3, <1>4

(* allocate created a chain and found no page for it.                      *)
LEMMA ChainCreated ==
  ASSUME Settings, TypeOK, Store, NEW key \in Key, chains' = WithChain(key),
         UNCHANGED <<counters, pages>>
  PROVE  Store'
<1>1. /\ chains' \in Seq(ChainRecord) /\ OwnedBy(chains', pages) /\ CountedBy(chains', pages)
  BY WithChainFits DEF Store
<1>2. pages' = pages /\ UNCHANGED counters
  OBVIOUS
<1>3. StoreOK'
  BY <1>1, <1>2 DEF StoreOK, Store, usedPageCount, counters
<1>4. PagesSized'
  BY <1>2 DEF PagesSized, Store
<1>5. PagesOwned'
  BY <1>1, <1>2, OwnedIsBy
<1>6. CountInv'
  BY <1>1, <1>2 DEF CountInv, CountedBy, Store, counters
<1> QED
  BY <1>3, <1>4, <1>5, <1>6 DEF Store

(* allocate mapped a page and put it at the end of its chain.              *)
LEMMA PageAdded ==
  ASSUME Settings, TypeOK, Store, NEW key \in Key, NEW r \in PageRecord,
         r.key = key, r.object_size \in 1 .. PAGE_BYTES,
         r.object_count = ObjectCount(r.object_size), r.free_mask \subseteq SlotsOf(r),
         DOMAIN r.content = SlotsOf(r), r.active_count = Cardinality(OccupiedIn(r)),
         r.dead_count = 0,
         free_page_count > 0, free_page_count' = free_page_count - 1,
         UNCHANGED <<page_count, released_object_count>>,
         pages' = Append(pages, r),
         chains' = [WithChain(key) EXCEPT ![IndexIn(WithChain(key), key)] =
                      updateChainStats(appendPage(@, usedPageCount + 1), pages')],
         active_object_count' = active_object_count + r.active_count
  PROVE  Store' /\ Len(pages') = Len(pages) + 1
<1> DEFINE list == WithChain(key)
           c == IndexIn(list, key)
           p == usedPageCount + 1
           longer == appendPage(list[c], p)
           new == updateChainStats(longer, pages')
<1>1. pages \in Seq(PageRecord) /\ Len(pages) \in Nat /\ p = Len(pages) + 1
  BY LenProperties DEF TypeOK
<1>2. /\ pages' \in Seq(PageRecord) /\ Len(pages') = p
      /\ \A q \in 1 .. Len(pages) : pages'[q] = pages[q]
      /\ pages'[p] = r
  BY <1>1, AppendProperties
<1> HIDE DEF p
<1>3. /\ list \in Seq(ChainRecord) /\ OwnedBy(list, pages) /\ CountedBy(list, pages)
      /\ c \in 1 .. Len(list) /\ list[c].key = key
  BY WithChainFits DEF Store
<1>4. chains' = [list EXCEPT ![c] = new]
  BY DEF p
<1> HIDE DEF list, c
<1>5. list[c] \in ChainRecord /\ Len(list) \in Nat
  BY <1>3, ElementOfSeq, LenProperties
<1>6. list[c].page \in Seq(Nat) /\ Len(list[c].page) \in Nat
  <2>1. list[c].page \in Seq(Nat)
    BY <1>5 DEF ChainRecord
  <2> QED
    BY <2>1, LenProperties
<1>7. p \in Nat /\ p \notin 1 .. Len(pages) /\ 1 .. p = (1 .. Len(pages)) \union {p}
  BY <1>1
<1>8. /\ longer \in ChainRecord /\ longer.key = key
      /\ longer.page = Append(list[c].page, p)
  <2>1. Append(list[c].page, p) \in Seq(Nat)
    BY <1>6, <1>7, AppendProperties
  <2> QED
    BY <1>3, <1>5, <2>1 DEF ChainRecord, appendPage
<1>9. /\ Len(longer.page) = Len(list[c].page) + 1
      /\ \A i \in 1 .. Len(list[c].page) : longer.page[i] = list[c].page[i]
      /\ longer.page[Len(list[c].page) + 1] = p
      /\ 1 .. Len(longer.page) = (1 .. Len(list[c].page)) \union {Len(list[c].page) + 1}
  <2>1. /\ Len(longer.page) = Len(list[c].page) + 1
        /\ \A i \in 1 .. Len(list[c].page) : longer.page[i] = list[c].page[i]
        /\ longer.page[Len(list[c].page) + 1] = p
    BY <1>6, <1>7, <1>8, AppendProperties
  <2> QED
    BY <1>6, <2>1
<1> HIDE DEF longer
<1>10. PagesOf(longer) = PagesOf(list[c]) \union {p}
  <2>1. ASSUME NEW q \in PagesOf(longer)
        PROVE  q \in PagesOf(list[c]) \union {p}
    <3>1. PICK i \in 1 .. Len(longer.page) : q = longer.page[i]
      BY DEF PagesOf
    <3>2. i \in 1 .. Len(list[c].page) \/ i = Len(list[c].page) + 1
      BY <1>9, <3>1
    <3> QED
      BY <1>9, <3>1, <3>2 DEF PagesOf
  <2>2. ASSUME NEW q \in PagesOf(list[c])
        PROVE  q \in PagesOf(longer)
    <3>1. PICK i \in 1 .. Len(list[c].page) : q = list[c].page[i]
      BY DEF PagesOf
    <3>2. i \in 1 .. Len(longer.page) /\ q = longer.page[i]
      BY <1>9, <3>1
    <3> QED
      BY <3>2 DEF PagesOf
  <2>3. p \in PagesOf(longer)
    <3> DEFINE i == Len(list[c].page) + 1
    <3>1. i \in 1 .. Len(longer.page) /\ longer.page[i] = p
      BY <1>9
    <3> HIDE DEF i
    <3> QED
      BY <3>1 DEF PagesOf
  <2> QED
    BY <2>1, <2>2, <2>3
<1>11. PagesOf(list[c]) \subseteq 1 .. Len(pages)
  BY <1>3 DEF OwnedBy
<1>12. \A q \in 1 .. p : pages'[q] \in PageRecord
  BY <1>1, <1>2, <1>7, ElementOfSeq
<1>13. /\ new \in ChainRecord /\ new.key = key /\ new.page = longer.page
       /\ new.active_objects = ActiveOn(PagesOf(longer), pages')
       /\ new.total_objects = ObjectsOn(PagesOf(longer), pages')
  <2>1. PagesOf(longer) \subseteq 1 .. p
    BY <1>7, <1>10, <1>11
  <2> QED
    BY <1>7, <1>8, <1>12, <2>1, UpdatedChain
<1> HIDE DEF new
<1>14. /\ chains' \in Seq(ChainRecord) /\ Len(chains') = Len(list)
       /\ \A d \in 1 .. Len(list) : chains'[d] = IF d = c THEN new ELSE list[d]
  <2>1. /\ [list EXCEPT ![c] = new] \in Seq(ChainRecord)
        /\ Len([list EXCEPT ![c] = new]) = Len(list)
        /\ \A d \in 1 .. Len(list) : [list EXCEPT ![c] = new][d] = IF d = c THEN new ELSE list[d]
    BY <1>3, <1>13, ExceptSeq
  <2> QED
    BY <1>4, <2>1
<1>15. PagesOf(new) = PagesOf(list[c]) \union {p} /\ PagesOf(new) = PagesOf(longer)
  BY <1>10, <1>13 DEF PagesOf
<1>16. OwnedBy(chains', pages')
  <2>1. \A d, e \in 1 .. Len(chains') : chains'[d].key = chains'[e].key => d = e
    <3>1. \A d \in 1 .. Len(list) : chains'[d].key = list[d].key
      BY <1>3, <1>13, <1>14
    <3>2. \A d, e \in 1 .. Len(list) : list[d].key = list[e].key => d = e
      BY <1>3 DEF OwnedBy
    <3>3. \A d, e \in 1 .. Len(list) : chains'[d].key = chains'[e].key => d = e
      BY <3>1, <3>2
    <3> QED
      BY <1>14, <3>3
  <2>2. ASSUME NEW q \in 1 .. Len(pages')
        PROVE  \E d \in 1 .. Len(chains') : \E i \in 1 .. Len(chains'[d].page) :
                 /\ chains'[d].page[i] = q /\ chains'[d].key = pages'[q].key
                 /\ \A e \in 1 .. Len(chains') : \A j \in 1 .. Len(chains'[e].page) :
                      chains'[e].page[j] = q => e = d /\ j = i
    <3>1. CASE q = p
      <4> DEFINE i == Len(list[c].page) + 1
      <4>1. /\ c \in 1 .. Len(chains') /\ i \in 1 .. Len(chains'[c].page)
            /\ chains'[c].page[i] = q /\ chains'[c].key = pages'[q].key
        BY <1>2, <1>3, <1>9, <1>13, <1>14, <3>1
      <4>2. ASSUME NEW e \in 1 .. Len(chains'), NEW j \in 1 .. Len(chains'[e].page),
                   chains'[e].page[j] = q
            PROVE  e = c /\ j = i
        <5>1. \A d \in 1 .. Len(list) : p \notin PagesOf(list[d])
          BY <1>3, <1>7 DEF OwnedBy
        <5>2. e = c
          <6>1. CASE e # c
            <7>1. chains'[e] = list[e] /\ e \in 1 .. Len(list)
              BY <1>14, <6>1
            <7>2. p \in PagesOf(list[e])
              BY <3>1, <4>2, <7>1 DEF PagesOf
            <7> QED
              BY <5>1, <7>1, <7>2
          <6> QED
            BY <6>1
        <5>3. chains'[e].page = longer.page
          BY <1>3, <1>13, <1>14, <5>2
        <5>4. j \notin 1 .. Len(list[c].page)
          <6>1. ASSUME j \in 1 .. Len(list[c].page) PROVE FALSE
            <7>1. list[c].page[j] = p
              BY <1>9, <3>1, <4>2, <5>3, <6>1
            <7>2. p \in PagesOf(list[c])
              BY <6>1, <7>1 DEF PagesOf
            <7> QED
              BY <1>3, <5>1, <7>2
          <6> QED
            BY <6>1
        <5> QED
          BY <1>9, <4>2, <5>2, <5>3, <5>4
      <4> HIDE DEF i
      <4>3. \A e \in 1 .. Len(chains') : \A j \in 1 .. Len(chains'[e].page) :
              chains'[e].page[j] = q => e = c /\ j = i
        BY <4>2
      <4> USE <4>1
      <4> WITNESS c \in 1 .. Len(chains')
      <4> WITNESS i \in 1 .. Len(chains'[c].page)
      <4> QED
        BY <4>1, <4>3
    <3>2. CASE q # p
      <4>1. q \in 1 .. Len(pages) /\ pages'[q] = pages[q]
        BY <1>2, <1>7, <3>2
      <4>2. PICK d \in 1 .. Len(list) : \E i \in 1 .. Len(list[d].page) :
               /\ list[d].page[i] = q /\ list[d].key = pages[q].key
               /\ \A e \in 1 .. Len(list) : \A j \in 1 .. Len(list[e].page) :
                    list[e].page[j] = q => e = d /\ j = i
        BY <1>3, <4>1 DEF OwnedBy
      <4>3. PICK i \in 1 .. Len(list[d].page) :
               /\ list[d].page[i] = q /\ list[d].key = pages[q].key
               /\ \A e \in 1 .. Len(list) : \A j \in 1 .. Len(list[e].page) :
                    list[e].page[j] = q => e = d /\ j = i
        BY <4>2
      <4>4. /\ d \in 1 .. Len(chains') /\ i \in 1 .. Len(chains'[d].page)
            /\ chains'[d].page[i] = q /\ chains'[d].key = pages'[q].key
        <5>1. CASE d = c
          <6>1. chains'[d].page = longer.page /\ chains'[d].key = list[d].key
            BY <1>3, <1>13, <1>14, <5>1
          <6>2. i \in 1 .. Len(longer.page) /\ longer.page[i] = list[c].page[i]
            BY <1>9, <4>3, <5>1
          <6>3. d \in 1 .. Len(chains')
            BY <1>14
          <6> QED
            BY <4>1, <4>3, <5>1, <6>1, <6>2, <6>3
        <5>2. CASE d # c
          BY <1>14, <4>1, <4>3, <5>2
        <5> QED
          BY <5>1, <5>2
      <4>5. ASSUME NEW e \in 1 .. Len(chains'), NEW j \in 1 .. Len(chains'[e].page),
                   chains'[e].page[j] = q
            PROVE  e = d /\ j = i
        <5>1. e \in 1 .. Len(list) /\ j \in 1 .. Len(list[e].page) /\ list[e].page[j] = q
          <6>1. CASE e = c
            <7>1. chains'[e].page = longer.page
              BY <1>3, <1>13, <1>14, <6>1
            <7>2. j \in 1 .. Len(list[c].page)
              BY <1>9, <3>2, <4>5, <7>1
            <7> QED
              BY <1>3, <1>9, <4>5, <6>1, <7>1, <7>2
          <6>2. CASE e # c
            BY <1>14, <4>5, <6>2
          <6> QED
            BY <6>1, <6>2
        <5> QED
          BY <4>3, <5>1
      <4>6. \A e \in 1 .. Len(chains') : \A j \in 1 .. Len(chains'[e].page) :
              chains'[e].page[j] = q => e = d /\ j = i
        BY <4>5
      <4> USE <4>4
      <4> WITNESS d \in 1 .. Len(chains')
      <4> WITNESS i \in 1 .. Len(chains'[d].page)
      <4> QED
        BY <4>4, <4>6
    <3> QED
      BY <3>1, <3>2
  <2>3. ASSUME NEW d \in 1 .. Len(chains')
        PROVE  PagesOf(chains'[d]) \subseteq 1 .. Len(pages')
    <3>1. PagesOf(list[d]) \subseteq 1 .. Len(pages) /\ d \in 1 .. Len(list)
      BY <1>3, <1>14 DEF OwnedBy
    <3>2. chains'[d] = IF d = c THEN new ELSE list[d]
      BY <1>14, <3>1
    <3>3. 1 .. Len(pages') = (1 .. Len(pages)) \union {p}
      BY <1>2, <1>7
    <3> QED
      BY <1>15, <3>1, <3>2, <3>3
  <2> QED
    BY <2>1, <2>2, <2>3 DEF OwnedBy
<1>17. PagesOwned'
  BY <1>16, OwnedIsBy
<1>18. CountedBy(chains', pages')
  <2>1. ASSUME NEW d \in 1 .. Len(chains')
        PROVE  /\ chains'[d].active_objects = ActiveOn(PagesOf(chains'[d]), pages')
               /\ chains'[d].total_objects = ObjectsOn(PagesOf(chains'[d]), pages')
    <3>1. CASE d = c
      BY <1>13, <1>14, <1>15, <3>1
    <3>2. CASE d # c
      <4>1. d \in 1 .. Len(list) /\ chains'[d] = list[d]
        BY <1>14, <3>2
      <4>2. PagesOf(list[d]) \subseteq 1 .. Len(pages)
        BY <1>3, <4>1 DEF OwnedBy
      <4>3. \A q \in PagesOf(list[d]) : pages'[q] = pages[q]
        BY <1>2, <4>2
      <4>4. /\ ActiveOn(PagesOf(list[d]), pages') = ActiveOn(PagesOf(list[d]), pages)
            /\ ObjectsOn(PagesOf(list[d]), pages') = ObjectsOn(PagesOf(list[d]), pages)
        BY <4>3, SumsKept
      <4> QED
        BY <1>3, <4>1, <4>4 DEF CountedBy
    <3> QED
      BY <3>1, <3>2
  <2> QED
    BY <2>1 DEF CountedBy
<1>19. /\ \A q \in 1 .. Len(pages) : pages[q].active_count \in Int /\ pages[q].dead_count \in Int
       /\ \A q \in 1 .. p : pages'[q].active_count \in Nat /\ pages'[q].dead_count \in Nat
  <2>1. \A x \in PageRecord : x.active_count \in Nat /\ x.dead_count \in Nat
    BY DEF PageRecord
  <2>2. \A q \in 1 .. Len(pages) : pages[q] \in PageRecord
    BY <1>1, ElementOfSeq
  <2>3. \A q \in 1 .. Len(pages) : pages[q].active_count \in Int /\ pages[q].dead_count \in Int
    BY <2>1, <2>2
  <2>4. \A q \in 1 .. p : pages'[q].active_count \in Nat /\ pages'[q].dead_count \in Nat
    BY <1>12, <2>1
  <2> QED
    BY <2>3, <2>4
<1>20. /\ active_object_count' = ActiveOn(1 .. Len(pages'), pages')
       /\ active_object_count' \in Nat
  <2> DEFINE F == [q \in 1 .. Len(pages) |-> pages[q].active_count]
             G == [q \in 1 .. p |-> pages'[q].active_count]
  <2>1. /\ DOMAIN F = 1 .. Len(pages) /\ DOMAIN G = 1 .. p
        /\ \A q \in DOMAIN F : F[q] = G[q]
        /\ \A q \in DOMAIN F : F[q] \in Int
        /\ \A q \in DOMAIN G : G[q] \in Int /\ G[q] \in Nat
        /\ G[p] = r.active_count
    BY <1>1, <1>2, <1>7, <1>19
  <2> HIDE DEF F, G
  <2>2. IsFiniteSet(DOMAIN F)
    BY <1>1, <2>1, SumsOfPages
  <2>3. SumFunction(G) = SumFunction(F) + G[p]
    <3>1. p \notin DOMAIN F /\ DOMAIN G = DOMAIN F \union {p}
      BY <1>7, <2>1
    <3>2. Total(G) = Total(F) + G[p]
      <4>1. (\A q \in DOMAIN F : F[q] = G[q]) /\ (\A q \in DOMAIN G : G[q] \in Int)
        BY <2>1
      <4> QED
        BY <2>2, <3>1, <4>1, TotalExtends
    <3> QED
      BY <3>2, SumIsTotal
  <2>4. SumFunction(G) \in Nat
    BY <1>7, <2>1, SumsOfPages
  <2>5. SumFunction(F) = active_object_count
    BY DEF F, Store, CountInv, ActiveOn
  <2>6. active_object_count' = SumFunction(G)
    BY <2>1, <2>3, <2>5
  <2> QED
    BY <1>2, <2>4, <2>6 DEF G, ActiveOn
<1>21. released_object_count' = SumFunction([q \in 1 .. Len(pages') |-> pages'[q].dead_count])
  <2> DEFINE F == [q \in 1 .. Len(pages) |-> pages[q].dead_count]
             G == [q \in 1 .. p |-> pages'[q].dead_count]
  <2>1. /\ DOMAIN F = 1 .. Len(pages) /\ DOMAIN G = 1 .. p
        /\ \A q \in DOMAIN F : F[q] = G[q]
        /\ \A q \in DOMAIN F : F[q] \in Int
        /\ \A q \in DOMAIN G : G[q] \in Int
        /\ G[p] = 0
    BY <1>1, <1>2, <1>7, <1>19
  <2> HIDE DEF F, G
  <2>2. IsFiniteSet(DOMAIN F)
    BY <1>1, <2>1, SumsOfPages
  <2>3. SumFunction(G) = SumFunction(F) + G[p]
    <3>1. p \notin DOMAIN F /\ DOMAIN G = DOMAIN F \union {p}
      BY <1>7, <2>1
    <3>2. Total(G) = Total(F) + G[p]
      <4>1. (\A q \in DOMAIN F : F[q] = G[q]) /\ (\A q \in DOMAIN G : G[q] \in Int)
        BY <2>1
      <4> QED
        BY <2>2, <3>1, <4>1, TotalExtends
    <3> QED
      BY <3>2, SumIsTotal
  <2>4. SumFunction(F) = released_object_count
    BY DEF F, Store, CountInv
  <2>5. released_object_count \in Nat
    BY DEF TypeOK
  <2>6. SumFunction(G) = released_object_count
    BY <2>1, <2>3, <2>4, <2>5
  <2> QED
    BY <1>2, <2>6 DEF G
<1>22. \A q \in 1 .. Len(pages') : pages'[q].active_count = Cardinality(OccupiedIn(pages'[q]))
  BY <1>2, <1>7 DEF Store, CountInv
<1>23. CountInv'
  BY <1>18, <1>20, <1>21, <1>22 DEF CountInv, CountedBy
<1>24. PagesSized'
  BY <1>2, <1>7 DEF PagesSized, Store
<1>25. StoreOK'
  <2>1. \A q \in 1 .. Len(pages') :
          /\ pages'[q].object_count = ObjectCount(pages'[q].object_size)
          /\ pages'[q].free_mask \subseteq SlotsOf(pages'[q])
          /\ DOMAIN pages'[q].content = SlotsOf(pages'[q])
    BY <1>2, <1>7 DEF TypeOK
  <2>2. page_count' \in 0 .. MAX_PAGES /\ free_page_count' \in 0 .. page_count'
        /\ Len(pages') = usedPageCount'
    <3>1. /\ page_count \in 0 .. MAX_PAGES /\ free_page_count \in 0 .. page_count
          /\ Len(pages) = page_count - free_page_count /\ MAX_PAGES \in Nat
      BY DEF TypeOK, usedPageCount, Settings, AllocatorAssumption
    <3>2. page_count' = page_count /\ free_page_count' = free_page_count - 1 /\ Len(pages') = Len(pages) + 1
      BY <1>2 DEF p
    <3> QED
      BY <3>1, <3>2 DEF usedPageCount
  <2>3. released_object_count' \in Nat
    BY DEF TypeOK
  <2> QED
    BY <1>2, <1>14, <1>20, <2>1, <2>2, <2>3 DEF StoreOK
<1> QED
  BY <1>2, <1>17, <1>23, <1>24, <1>25 DEF Store, p

-----------------------------------------------------------------------------
(* Compaction. *)

LEMMA FunctionIsSeq ==
  ASSUME NEW S, NEW n \in Nat, NEW f \in [1 .. n -> S]
  PROVE  f \in Seq(S) /\ Len(f) = n
<1>1. f \in Seq(S)
  BY SeqDef
<1> QED
  BY <1>1, LenProperties

(* A packed page is a page with the same key, size and counts.             *)
LEMMA PackedPage ==
  ASSUME Settings, TypeOK, Store, NEW p \in 1 .. Len(pages)
  PROVE  LET page == pages[p]
             packed == Packed(page)
         IN /\ packed \in PageRecord
            /\ packed.key = page.key /\ packed.object_size = page.object_size
            /\ packed.object_count = page.object_count
            /\ packed.active_count = page.active_count /\ packed.dead_count = page.dead_count
            /\ packed.free_mask \subseteq SlotsOf(packed)
            /\ DOMAIN packed.content = SlotsOf(packed)
            /\ SlotsOf(packed) = SlotsOf(page)
            /\ Cardinality(OccupiedIn(packed)) = Cardinality(OccupiedIn(page))
<1> DEFINE page == pages[p]
           packed == Packed(page)
           live == Cardinality(OccupiedIn(page))
<1>1. /\ page \in PageRecord
      /\ page.object_count \in 1 .. SLOT_BITS /\ SLOT_BITS \in Nat
      /\ SlotsOf(page) = 0 .. page.object_count - 1
      /\ page.content \in [SlotsOf(page) -> Object \union {NoObject}]
  BY PageTypes DEF Store, Settings, PageAssumption
<1> HIDE DEF page
<1>2. page.object_count \in Nat
  BY <1>1
<1>3. /\ "object_count" \in DOMAIN page /\ "free_mask" \in DOMAIN page /\ "content" \in DOMAIN page
      /\ {"key", "object_size", "object_count", "active_count", "dead_count"}
           \subseteq DOMAIN page \ {"free_mask", "content"}
  BY <1>1 DEF PageRecord
<1>4. live \in 0 .. page.object_count
  BY <1>2, LiveSlots
<1>5. /\ \A f \in DOMAIN page \ {"free_mask", "content"} : packed[f] = page[f]
      /\ packed.free_mask = live .. page.object_count - 1
      /\ SlotsOf(packed) = SlotsOf(page)
      /\ Cardinality(OccupiedIn(packed)) = live
      /\ DOMAIN packed.content = SlotsOf(page)
      /\ \A k \in SlotsOf(page) : \E s \in SlotsOf(page) : packed.content[k] = page.content[s]
  BY <1>2, <1>3, PackedLayout
<1>6. packed.free_mask \subseteq SlotsOf(page) /\ packed.free_mask \subseteq Nat
  <2> HIDE DEF live, packed
  <2> QED
    BY <1>1, <1>4, <1>5
<1>7. packed.content \in [SlotsOf(page) -> Object \union {NoObject}]
  <2>1. \A k \in SlotsOf(page) : packed.content[k] \in Object \union {NoObject}
    BY <1>1, <1>5
  <2>2. packed.content = [k \in SlotsOf(page) |-> packed.content[k]]
    BY <1>1 DEF Packed, PageRecord
  <2> QED
    BY <2>1, <2>2
<1>8. packed = [page EXCEPT !.free_mask = packed.free_mask, !.content = packed.content]
  BY <1>1 DEF Packed, PageRecord
<1> HIDE DEF packed
<1>9. packed.content \in UNION { [0 .. n - 1 -> Object \union {NoObject}] : n \in 0 .. SLOT_BITS }
  BY <1>1, <1>7, SMTT(30)
<1>10. packed \in PageRecord
  BY <1>1, <1>6, <1>8, <1>9 DEF PageRecord
<1> QED
  BY <1>3, <1>5, <1>6, <1>10 DEF page, packed, live

(* Pages are packed, and some chains brought up to date.                   *)
LEMMA PagesCompacted ==
  ASSUME Settings, TypeOK, Store, NEW which, which \subseteq 1 .. Len(pages), NEW R,
         pages' = [p \in 1 .. Len(pages) |-> IF p \in which THEN Packed(pages[p]) ELSE pages[p]],
         chains' = [c \in 1 .. Len(chains) |->
                      IF c \in R THEN updateChainStats(chains[c], pages') ELSE chains[c]],
         UNCHANGED counters
  PROVE  Store' /\ Len(pages') = Len(pages)
<1>1. Len(pages) \in Nat /\ Len(chains) \in Nat
  BY LenProperties DEF TypeOK
<1>2. ASSUME NEW p \in 1 .. Len(pages)
      PROVE  /\ pages'[p] \in PageRecord
             /\ pages'[p].key = pages[p].key /\ pages'[p].object_size = pages[p].object_size
             /\ pages'[p].object_count = pages[p].object_count
             /\ pages'[p].active_count = pages[p].active_count
             /\ pages'[p].dead_count = pages[p].dead_count
             /\ pages'[p].free_mask \subseteq SlotsOf(pages'[p])
             /\ DOMAIN pages'[p].content = SlotsOf(pages'[p])
             /\ Cardinality(OccupiedIn(pages'[p])) = Cardinality(OccupiedIn(pages[p]))
  <2>1. pages'[p] = IF p \in which THEN Packed(pages[p]) ELSE pages[p]
    OBVIOUS
  <2>2. pages[p] \in PageRecord /\ pages[p].free_mask \subseteq SlotsOf(pages[p])
        /\ DOMAIN pages[p].content = SlotsOf(pages[p])
    <3>1. pages[p].free_mask \subseteq SlotsOf(pages[p]) /\ DOMAIN pages[p].content = SlotsOf(pages[p])
      BY DEF TypeOK
    <3> QED
      BY <3>1, PageTypes DEF Store
  <2> QED
    BY <2>1, <2>2, PackedPage
<1>3. pages' \in Seq(PageRecord) /\ Len(pages') = Len(pages)
  <2>1. pages' \in [1 .. Len(pages) -> PageRecord]
    BY <1>2
  <2> QED
    BY <1>1, <2>1, FunctionIsSeq
<1>4. ASSUME NEW c \in 1 .. Len(chains)
      PROVE  /\ chains'[c] \in ChainRecord
             /\ chains'[c].key = chains[c].key /\ chains'[c].page = chains[c].page
             /\ PagesOf(chains'[c]) = PagesOf(chains[c])
             /\ chains'[c].active_objects = ActiveOn(PagesOf(chains[c]), pages')
             /\ chains'[c].total_objects = ObjectsOn(PagesOf(chains[c]), pages')
  <2>1. chains'[c] = IF c \in R THEN updateChainStats(chains[c], pages') ELSE chains[c]
    OBVIOUS
  <2>2. chains[c] \in ChainRecord /\ PagesOf(chains[c]) \subseteq 1 .. Len(pages)
    BY ChainTypes DEF Store, PagesOwned
  <2>3. CASE c \in R
    <3>1. /\ chains'[c] \in ChainRecord
          /\ chains'[c].key = chains[c].key /\ chains'[c].page = chains[c].page
          /\ chains'[c].active_objects = ActiveOn(PagesOf(chains[c]), pages')
          /\ chains'[c].total_objects = ObjectsOn(PagesOf(chains[c]), pages')
      BY <1>1, <1>2, <2>1, <2>2, <2>3, UpdatedChain
    <3> QED
      BY <3>1 DEF PagesOf
  <2>4. CASE c \notin R
    <3>1. \A q \in PagesOf(chains[c]) : pages'[q].active_count = pages[q].active_count
                                       /\ pages'[q].object_count = pages[q].object_count
      BY <1>2, <2>2
    <3>2. /\ ActiveOn(PagesOf(chains[c]), pages') = ActiveOn(PagesOf(chains[c]), pages)
          /\ ObjectsOn(PagesOf(chains[c]), pages') = ObjectsOn(PagesOf(chains[c]), pages)
      BY <3>1, SumsKept
    <3> QED
      BY <2>1, <2>2, <2>4, <3>2 DEF Store, CountInv
  <2> QED
    BY <2>3, <2>4
<1>5. chains' \in Seq(ChainRecord) /\ Len(chains') = Len(chains)
  <2>1. chains' \in [1 .. Len(chains) -> ChainRecord]
    BY <1>4
  <2> QED
    BY <1>1, <2>1, FunctionIsSeq
<1>6. PagesOwned'
  BY <1>2, <1>3, <1>4, <1>5, OwnedKept DEF Store
<1>7. PagesSized'
  BY <1>2, <1>3 DEF PagesSized, Store
<1>8. CountInv'
  <2>1. \A q \in 1 .. Len(pages') : pages'[q].active_count = Cardinality(OccupiedIn(pages'[q]))
    BY <1>2, <1>3 DEF Store, CountInv
  <2>2. active_object_count' = ActiveOn(1 .. Len(pages'), pages')
    <3>1. ActiveOn(1 .. Len(pages), pages') = ActiveOn(1 .. Len(pages), pages)
      BY <1>2, SumsKept
    <3> QED
      BY <1>3, <3>1 DEF Store, CountInv, counters
  <2>3. released_object_count' = SumFunction([q \in 1 .. Len(pages') |-> pages'[q].dead_count])
    <3>1. [q \in 1 .. Len(pages') |-> pages'[q].dead_count] = [q \in 1 .. Len(pages) |-> pages[q].dead_count]
      BY <1>2, <1>3
    <3> QED
      BY <3>1 DEF Store, CountInv, counters
  <2>4. \A c \in 1 .. Len(chains') :
          /\ chains'[c].active_objects = ActiveOn(PagesOf(chains'[c]), pages')
          /\ chains'[c].total_objects = ObjectsOn(PagesOf(chains'[c]), pages')
    BY <1>4, <1>5
  <2> QED
    BY <2>1, <2>2, <2>3, <2>4 DEF CountInv
<1>9. StoreOK'
  <2>1. \A q \in 1 .. Len(pages') :
          /\ pages'[q].object_count = ObjectCount(pages'[q].object_size)
          /\ pages'[q].free_mask \subseteq SlotsOf(pages'[q])
          /\ DOMAIN pages'[q].content = SlotsOf(pages'[q])
    BY <1>2, <1>3, SMTT(30) DEF TypeOK
  <2>2. /\ page_count' \in 0 .. MAX_PAGES
        /\ free_page_count' \in 0 .. page_count'
        /\ Len(pages') = usedPageCount'
        /\ active_object_count' \in Nat /\ released_object_count' \in Nat
    BY <1>3 DEF TypeOK, counters, usedPageCount
  <2> QED
    BY <1>3, <1>5, <2>1, <2>2 DEF StoreOK
<1> QED
  BY <1>3, <1>6, <1>7, <1>8, <1>9 DEF Store

-----------------------------------------------------------------------------
(* One slot of a page is taken or given back. *)

LEMMA PlacedPage ==
  ASSUME Settings, NEW page \in PageRecord, page.object_count \in 1 .. SLOT_BITS,
         page.free_mask \subseteq SlotsOf(page),
         page.content \in [SlotsOf(page) -> Object \union {NoObject}],
         page.active_count = Cardinality(OccupiedIn(page)),
         NEW s \in page.free_mask, NEW o \in Object, NEW size
  PROVE  LET r == Place(page, s, o, size)
         IN /\ r \in PageRecord
            /\ r.key = page.key /\ r.object_size = page.object_size
            /\ r.object_count = page.object_count /\ r.dead_count = page.dead_count
            /\ r.active_count = page.active_count + 1
            /\ r.active_count = Cardinality(OccupiedIn(r))
            /\ r.free_mask \subseteq SlotsOf(r)
            /\ SlotsOf(r) = SlotsOf(page) /\ DOMAIN r.content = SlotsOf(r)
            /\ OccupiedIn(r) = OccupiedIn(page) \union {s}
            /\ \A k \in SlotsOf(page) :
                 r.content[k] = IF k \in Span(page, s, size) THEN o ELSE page.content[k]
<1> DEFINE r == Place(page, s, o, size)
           mask == page.free_mask \ {s}
           content == [k \in SlotsOf(page) |-> IF k \in Span(page, s, size) THEN o ELSE page.content[k]]
<1>1. page.object_count \in Nat /\ page.active_count \in Nat /\ page.free_mask \subseteq Nat
  BY DEF PageRecord
<1>2. IsFiniteSet(OccupiedIn(page)) /\ s \notin OccupiedIn(page) /\ s \in SlotsOf(page)
  BY <1>1, LiveSlots DEF OccupiedIn
<1>3. content \in [SlotsOf(page) -> Object \union {NoObject}] /\ mask \subseteq Nat
  BY <1>1
<1>4. content \in UNION { [0 .. n - 1 -> Object \union {NoObject}] : n \in 0 .. SLOT_BITS }
  <2> HIDE DEF content
  <2> QED
    BY <1>3 DEF SlotsOf, Settings, PageAssumption
<1>5. r = [page EXCEPT !.free_mask = mask, !.active_count = page.active_count + 1, !.content = content]
  BY DEF Place
<1> HIDE DEF r, mask, content
<1>6. /\ r \in PageRecord
      /\ r.key = page.key /\ r.object_size = page.object_size
      /\ r.object_count = page.object_count /\ r.dead_count = page.dead_count
      /\ r.active_count = page.active_count + 1 /\ r.free_mask = mask /\ r.content = content
  <2>1. /\ r.key = page.key /\ r.object_size = page.object_size
        /\ r.object_count = page.object_count /\ r.dead_count = page.dead_count
        /\ r.active_count = page.active_count + 1 /\ r.free_mask = mask /\ r.content = content
    BY <1>5 DEF PageRecord
  <2>2. page.active_count + 1 \in Nat
    BY <1>1
  <2>3. r \in PageRecord
    BY <1>3, <1>4, <1>5, <2>2 DEF PageRecord
  <2> QED
    BY <2>1, <2>3
<1>7. SlotsOf(r) = SlotsOf(page)
  BY <1>6 DEF SlotsOf
<1>8. OccupiedIn(r) = OccupiedIn(page) \union {s}
  BY <1>2, <1>6, <1>7 DEF OccupiedIn, mask
<1>9. Cardinality(OccupiedIn(r)) = page.active_count + 1
  <2>1. Cardinality(OccupiedIn(page) \union {s}) = Cardinality(OccupiedIn(page)) + 1
    BY <1>2, FS_AddElement
  <2> QED
    BY <1>8, <2>1
<1> QED
  BY <1>3, <1>6, <1>7, <1>8, <1>9 DEF r, mask, content

LEMMA FreedPage ==
  ASSUME Settings, NEW page \in PageRecord, page.object_count \in 1 .. SLOT_BITS,
         page.free_mask \subseteq SlotsOf(page), DOMAIN page.content = SlotsOf(page),
         page.active_count = Cardinality(OccupiedIn(page)),
         NEW s \in SlotsOf(page), s \notin page.free_mask
  PROVE  LET r == Freed(page, s)
         IN /\ r \in PageRecord
            /\ r.key = page.key /\ r.object_size = page.object_size
            /\ r.object_count = page.object_count /\ r.dead_count = page.dead_count + 1
            /\ r.active_count = page.active_count - 1
            /\ r.active_count = Cardinality(OccupiedIn(r))
            /\ r.free_mask \subseteq SlotsOf(r)
            /\ SlotsOf(r) = SlotsOf(page) /\ r.content = page.content
            /\ OccupiedIn(r) = OccupiedIn(page) \ {s}
<1> DEFINE r == Freed(page, s)
           mask == page.free_mask \union {s}
           live == Cardinality(OccupiedIn(page) \ {s})
<1>1. page.object_count \in Nat /\ page.dead_count \in Nat /\ page.free_mask \subseteq Nat /\ s \in Nat
  BY DEF PageRecord, SlotsOf
<1>2. IsFiniteSet(OccupiedIn(page)) /\ s \in OccupiedIn(page)
  BY <1>1, LiveSlots DEF OccupiedIn
<1>3. live \in Nat /\ page.active_count - 1 = live
  <2>1. IsFiniteSet(OccupiedIn(page) \ {s}) /\ Cardinality(OccupiedIn(page) \ {s}) = Cardinality(OccupiedIn(page)) - 1
    BY <1>2, FS_RemoveElement
  <2> QED
    BY <2>1, FS_CardinalityType
<1>4. r = [page EXCEPT !.free_mask = mask, !.active_count = live, !.dead_count = page.dead_count + 1]
  BY <1>3 DEF Freed
<1> HIDE DEF r, live
<1>5. mask \subseteq Nat
  BY <1>1
<1> HIDE DEF mask
<1>6. /\ r \in PageRecord
      /\ r.key = page.key /\ r.object_size = page.object_size
      /\ r.object_count = page.object_count /\ r.dead_count = page.dead_count + 1
      /\ r.active_count = live /\ r.free_mask = mask /\ r.content = page.content
  <2>1. /\ r.key = page.key /\ r.object_size = page.object_size
        /\ r.object_count = page.object_count /\ r.dead_count = page.dead_count + 1
        /\ r.active_count = live /\ r.free_mask = mask /\ r.content = page.content
    BY <1>4 DEF PageRecord
  <2>2. page.dead_count + 1 \in Nat
    BY <1>1
  <2>3. r \in PageRecord
    BY <1>3, <1>4, <1>5, <2>2 DEF PageRecord
  <2> QED
    BY <2>1, <2>3
<1>7. SlotsOf(r) = SlotsOf(page)
  BY <1>6 DEF SlotsOf
<1>8. OccupiedIn(r) = OccupiedIn(page) \ {s}
  BY <1>6, <1>7 DEF OccupiedIn, mask
<1>9. mask \subseteq SlotsOf(page)
  BY DEF mask
<1> QED
  BY <1>3, <1>6, <1>7, <1>8, <1>9 DEF r, live

(* An object no larger than the slots takes one of them.                   *)
LEMMA OneSlot ==
  ASSUME NEW page, page.object_count \in Nat, page.object_size \in Nat \ {0}, NEW s \in SlotsOf(page),
         NEW size \in 1 .. page.object_size
  PROVE  Span(page, s, size) = {s}
<1> DEFINE z == page.object_size
<1>1. s \in Nat
  BY DEF SlotsOf
<1>2. ASSUME NEW k \in SlotsOf(page), k >= s, (k - s) * z < size
      PROVE  k = s
  <2> DEFINE n == k - s
  <2>1. n \in Nat /\ k \in Nat
    BY <1>1, <1>2 DEF SlotsOf
  <2>2. n * z < size
    BY <1>2
  <2>3. z \in Nat \ {0} /\ size \in 1 .. z
    OBVIOUS
  <2> HIDE DEF n, z
  <2>4. n >= 1 => n * z >= z
    BY <2>1, <2>3
  <2>5. n * z \in Nat
    BY <2>1, <2>3
  <2>6. n = 0
    BY <2>1, <2>2, <2>3, <2>4, <2>5
  <2> QED
    BY <1>1, <2>1, <2>6 DEF n
<1>3. (s - s) * z < size
  <2>1. s - s = 0 /\ 0 * z = 0
    BY <1>1
  <2> QED
    BY <2>1
<1>4. Span(page, s, size) = { k \in SlotsOf(page) : k >= s /\ (k - s) * z < size }
  BY DEF Span
<1> HIDE DEF z
<1>5. Span(page, s, size) = {s}
  <2>1. s \in Span(page, s, size)
    BY <1>1, <1>3, <1>4
  <2>2. \A k \in Span(page, s, size) : k = s
    BY <1>2, <1>4
  <2> QED
    BY <2>1, <2>2
<1> QED
  BY <1>5 DEF z

-----------------------------------------------------------------------------
(* What a step does to the clients' pointers. *)

LEMMA SoundLies ==
  ASSUME Settings, TypeOK, PagesSized, NEW o \in DOMAIN held, Fits(o, held, pages),
         NEW s, Sound(o, s, held, moved, pages)
  PROVE  s \in SlotsOf(pages[held[o].page]) /\ LiesAt(o, s) /\ (o \notin moved => s = held[o].slot)
<1> DEFINE page == pages[held[o].page]
           class == held[o].class
<1>1. held[o].page \in 1 .. Len(pages) /\ s \in SlotsOf(page)
  BY DEF TypeOK, Sound, OccupiedIn
<1>2. page.object_count \in Nat /\ page.object_size \in Nat \ {0}
  BY <1>1, PageTypes DEF PagesSized, Settings, PageAssumption
<1>3. SizeOf[class] \in 1 .. page.object_size
  BY DEF Fits
<1>4. Span(page, s, SizeOf[class]) = {s}
  BY <1>1, <1>2, <1>3, OneSlot
<1>5. LiesAt(o, s) <=> /\ s \in OccupiedIn(page)
                       /\ \A k \in Span(page, s, SizeOf[class]) : page.content[k] = o
                       /\ page.key = KeyOf(class, held[o].parent)
  BY DEF LiesAt
<1> QED
  BY <1>1, <1>4, <1>5 DEF Sound, Fits

(* The pointer of o leads to the slot s of page p that it was placed at.   *)
LEMMA HandedOut ==
  ASSUME Settings, IInv, NEW o \in Object \ DOMAIN held, NEW class \in Class,
         NEW parent \in Parent, NEW p \in 1 .. Len(pages'), NEW s, NEW base,
         HandOut(o, class, parent, p, s),
         Len(pages') \in Nat, Len(pages) <= Len(pages'),
         \A q \in 1 .. Len(pages') : q = p \/ q \in 1 .. Len(pages),
         \A q \in 1 .. Len(pages) : q # p => pages'[q] = pages[q],
         pages'[p].key = base.key, pages'[p].object_size = base.object_size,
         SlotsOf(pages'[p]) = SlotsOf(base),
         OccupiedIn(pages'[p]) = OccupiedIn(base) \union {s},
         \A k \in SlotsOf(base) :
           pages'[p].content[k] = IF k \in Span(base, s, SizeOf[class]) THEN o ELSE base.content[k],
         base.key = KeyOf(class, parent), base.object_count \in Nat,
         base.object_size \in Nat \ {0}, s \in SlotsOf(base), s \notin OccupiedIn(base),
         p \in 1 .. Len(pages) => base = pages[p],
         SizeOf[class] \in Nat \ {0}
  PROVE  HeldOK' /\ HandleInv'
<1>1. /\ DOMAIN held' = DOMAIN held \union {o}
      /\ \A q \in DOMAIN held : held'[q] = held[q]
      /\ held'[o].class = class /\ held'[o].parent = parent /\ held'[o].page = p /\ held'[o].slot = s
      /\ moved' = moved /\ misled' = misled
      /\ overrun' = (overrun \/ SizeOf[class] > pages'[p].object_size)
  BY DEF HandOut
<1>2. /\ DOMAIN held \subseteq Object /\ moved \subseteq DOMAIN held
      /\ misled \subseteq 1 .. Len(pages) /\ overrun \in BOOLEAN
      /\ \A q \in DOMAIN held :
           /\ held[q].class \in Class /\ held[q].parent \in Parent
           /\ held[q].page \in 1 .. Len(pages)
           /\ held[q].slot \in SlotsOf(pages[held[q].page])
      /\ Len(pages) \in Nat
  BY LenProperties DEF IInv, TypeOK
<1>3. \A q \in 1 .. Len(pages) : SlotsOf(pages'[q]) = SlotsOf(pages[q])
                                 /\ pages'[q].key = pages[q].key
                                 /\ pages'[q].object_size = pages[q].object_size
  OBVIOUS
<1>4. HeldOK'
  <2>1. ASSUME NEW q \in DOMAIN held'
        PROVE  /\ held'[q].class \in Class /\ held'[q].parent \in Parent
               /\ held'[q].page \in 1 .. Len(pages')
               /\ held'[q].slot \in SlotsOf(pages'[held'[q].page])
    <3>1. CASE q = o
      BY <1>1, <3>1
    <3>2. CASE q \in DOMAIN held
      <4>1. held'[q] = held[q] /\ held[q].page \in 1 .. Len(pages)
        BY <1>1, <1>2, <3>2
      <4>2. held[q].page \in 1 .. Len(pages')
        BY <1>2, <4>1
      <4>3. held[q].slot \in SlotsOf(pages'[held[q].page])
        BY <1>2, <1>3, <3>2, <4>1
      <4> QED
        BY <1>2, <3>2, <4>1, <4>2, <4>3
    <3> QED
      BY <1>1, <3>1, <3>2
  <2>2. moved' \subseteq DOMAIN held' /\ misled' \subseteq 1 .. Len(pages') /\ overrun' \in BOOLEAN
    BY <1>1, <1>2
  <2> QED
    BY <1>1, <1>2, <2>1, <2>2 DEF HeldOK
<1>5. ASSUME ~overrun'
      PROVE  ~overrun /\ SizeOf[class] \in 1 .. base.object_size /\ Span(base, s, SizeOf[class]) = {s}
  <2>1. ~overrun /\ ~(SizeOf[class] > base.object_size)
    BY <1>1, <1>5
  <2>2. SizeOf[class] \in 1 .. base.object_size
    BY <2>1
  <2> QED
    BY <2>1, <2>2, OneSlot
<1>6. ASSUME ~overrun', NEW q \in DOMAIN held'
      PROVE  Fits(q, held', pages')
  <2>1. CASE q = o
    BY <1>1, <1>5, <1>6, <2>1 DEF Fits
  <2>2. CASE q # o
    <3>1. /\ held'[q] = held[q] /\ held[q].page \in 1 .. Len(pages) /\ q \in DOMAIN held
          /\ pages[held[q].page].key = KeyOf(held[q].class, held[q].parent)
          /\ SizeOf[held[q].class] \in 1 .. pages[held[q].page].object_size
      BY <1>1, <1>2, <1>5, <1>6, <2>2 DEF IInv, HandleInv, Fits
    <3> QED
      BY <1>3, <3>1 DEF Fits
  <2> QED
    BY <2>1, <2>2
<1>7. ASSUME ~overrun', NEW q \in DOMAIN held', held'[q].page \notin misled'
      PROVE  \E t : Sound(q, t, held', moved', pages')
  <2>1. CASE q = o
    <3>1. /\ s \in OccupiedIn(pages'[p]) /\ pages'[p].content[s] = o
          /\ held'[o].page = p /\ held'[o].slot = s
      BY <1>1, <1>5, <1>7
    <3> QED
      BY <2>1, <3>1 DEF Sound
  <2>2. CASE q # o
    <3>1. /\ held'[q] = held[q] /\ held[q].page \in 1 .. Len(pages) /\ q \in DOMAIN held
          /\ held[q].page \notin misled
      BY <1>1, <1>2, <1>7, <2>2
    <3>2. PICK t : Sound(q, t, held, moved, pages)
      BY <1>5, <1>7, <3>1 DEF IInv, HandleInv
    <3>3. /\ t \in OccupiedIn(pages[held[q].page]) /\ t \in SlotsOf(pages[held[q].page])
          /\ pages[held[q].page].content[t] = q
          /\ q \notin moved => t = held[q].slot
      BY <3>2 DEF Sound, OccupiedIn
    <3>4. CASE held[q].page # p
      <4>1. pages'[held[q].page] = pages[held[q].page]
        BY <3>1, <3>4
      <4> QED
        BY <1>1, <3>1, <3>3, <4>1 DEF Sound
    <3>5. CASE held[q].page = p
      <4>1. base = pages[p]
        BY <3>1, <3>5
      <4>2. t # s
        BY <3>3, <3>5, <4>1
      <4>3. pages'[p].content[t] = q /\ t \in OccupiedIn(pages'[p])
        BY <1>5, <1>7, <3>3, <3>5, <4>1, <4>2
      <4> QED
        BY <1>1, <3>1, <3>3, <3>5, <4>3 DEF Sound
    <3> QED
      BY <3>4, <3>5
  <2> QED
    BY <2>1, <2>2
<1> QED
  BY <1>4, <1>6, <1>7 DEF HandleInv

(* A pointer has been dropped, pages and chains are as they were.          *)
LEMMA OnlyDropped ==
  ASSUME Settings, IInv, NEW o \in DOMAIN held, Drop(o),
         UNCHANGED <<counters, pages, chains, misled, overrun>>
  PROVE  IInv'
<1>1. /\ pages' = pages /\ chains' = chains /\ misled' = misled /\ overrun' = overrun
      /\ page_count' = page_count /\ free_page_count' = free_page_count
      /\ active_object_count' = active_object_count
      /\ released_object_count' = released_object_count
  BY DEF counters
<1>2. /\ DOMAIN held' = DOMAIN held \ {o} /\ \A q \in DOMAIN held' : held'[q] = held[q]
      /\ moved' = moved \ {o}
  BY DEF Drop
<1>3. TypeOK'
  <2>1. StoreOK'
    BY <1>1 DEF IInv, TypeOK, StoreOK, usedPageCount
  <2>2. HeldOK'
    BY <1>1, <1>2 DEF IInv, TypeOK, HeldOK
  <2> QED
    BY <2>1, <2>2 DEF TypeOK, StoreOK, HeldOK
<1>4. PagesSized' /\ PagesOwned' /\ CountInv'
  <2>1. PagesSized'
    BY <1>1 DEF IInv, PagesSized
  <2>2. PagesOwned'
    BY <1>1, OwnedIsBy DEF IInv
  <2>3. CountInv'
    BY <1>1 DEF IInv, CountInv
  <2> QED
    BY <2>1, <2>2, <2>3
<1>5. HandleInv'
  <2>1. \A q \in DOMAIN held' : Fits(q, held, pages) => Fits(q, held', pages')
    BY <1>1, <1>2 DEF Fits
  <2>2. \A q \in DOMAIN held' : \A s :
          Sound(q, s, held, moved, pages) => Sound(q, s, held', moved', pages')
    BY <1>1, <1>2 DEF Sound
  <2> QED
    BY <1>1, <1>2, <2>1, <2>2 DEF IInv, HandleInv
<1> QED
  BY <1>3, <1>4, <1>5 DEF IInv

LEMMA Gathered ==
  ASSUME Store', HeldOK', HandleInv'
  PROVE  IInv'
  BY DEF Store, TypeOK, StoreOK, HeldOK, IInv

-----------------------------------------------------------------------------
(* Each operation keeps the invariant, and does this to the memory. *)

(* Slot s of page p has been taken by o; base is the page before that.     *)
Taken(o, class, p, s, base) ==
  /\ p \in 1 .. Len(pages')
  /\ \A q \in 1 .. Len(pages') : q = p \/ q \in 1 .. Len(pages)
  /\ \A q \in 1 .. Len(pages) : q \in 1 .. Len(pages') /\ (q # p => pages'[q] = pages[q])
  /\ IF p \in 1 .. Len(pages) THEN base = pages[p] ELSE OccupiedIn(base) = {}
  /\ OccupiedIn(pages'[p]) = OccupiedIn(base) \union {s}
  /\ s \in SlotsOf(base) \ OccupiedIn(base)
  /\ \A k \in SlotsOf(base) :
       pages'[p].content[k] = IF k \in Span(base, s, SizeOf[class]) THEN o ELSE base.content[k]
  /\ base.object_count \in 1 .. SLOT_BITS
  /\ base.object_size \in Nat \ {0}
  /\ ~overrun' => Span(base, s, SizeOf[class]) = {s} /\ ~overrun

(* Slot s of page p has been given back.                                   *)
GivenBack(p, s) ==
  /\ Len(pages') = Len(pages)
  /\ p \in 1 .. Len(pages) /\ s \in OccupiedIn(pages[p])
  /\ \A q \in 1 .. Len(pages) : q # p => pages'[q] = pages[q]
  /\ pages'[p].content = pages[p].content
  /\ OccupiedIn(pages'[p]) = OccupiedIn(pages[p]) \ {s}

(* The pages of a set have been packed.                                    *)
Compacted(which) ==
  /\ which \subseteq 1 .. Len(pages) /\ Len(pages') = Len(pages)
  /\ \A q \in 1 .. Len(pages) : pages'[q] = IF q \in which THEN Packed(pages[q]) ELSE pages[q]

LEMMA StoreHolds ==
  ASSUME IInv
  PROVE  TypeOK /\ Store
  BY TypeParts DEF IInv, Store

(* A placement that is no overrun takes one slot.                          *)
LEMMA PlacedInOne ==
  ASSUME IInv, NEW o, NEW class, NEW parent, NEW p, NEW s, NEW base, HandOut(o, class, parent, p, s),
         base.object_count \in Nat, base.object_size \in Nat \ {0}, s \in SlotsOf(base),
         pages'[p].object_size = base.object_size, SizeOf[class] \in Nat \ {0}
  PROVE  ~overrun' => Span(base, s, SizeOf[class]) = {s} /\ ~overrun
<1> SUFFICES ASSUME ~overrun'
             PROVE  Span(base, s, SizeOf[class]) = {s} /\ ~overrun
  OBVIOUS
<1>1. ~overrun /\ ~(SizeOf[class] > base.object_size)
  BY DEF HandOut
<1>2. SizeOf[class] \in 1 .. base.object_size
  BY <1>1
<1> QED
  BY <1>1, <1>2, OneSlot

LEMMA AllocateFromPageKeeps ==
  ASSUME Settings, IInv, NEW o \in Object \ DOMAIN held, NEW class \in Class,
         NEW parent \in Parent, AllocateFromPage(o, class, parent)
  PROVE  IInv' /\ \E p, s, base : Taken(o, class, p, s, base)
<1> DEFINE key == KeyOf(class, parent)
           c == findChain(key)
           p == findPageWithFreeSlot(chains[c])
           page == pages[p]
           s == firstFreeSlot(page)
           r == Place(page, s, o, SizeOf[class])
<1>1. TypeOK /\ Store /\ HasRoom(key)
  BY StoreHolds DEF AllocateFromPage
<1>2. /\ p \in 1 .. Len(pages) /\ page.key = key /\ page.free_mask # {}
  BY <1>1, PageWithRoom DEF Store
<1>3. /\ pages' = [pages EXCEPT ![p] = r]
      /\ chains' = [chains EXCEPT ![c] = updateChainStats(@, pages')]
      /\ HandOut(o, class, parent, p, s)
      /\ free_page_count' = free_page_count
      /\ SizeOf[class] \in 1 .. PAGE_BYTES
  BY DEF AllocateFromPage, MayHaveChain
<1>4. c = findChain(page.key)
  BY <1>2
<1> HIDE DEF key, c, p
<1>5. /\ page \in PageRecord /\ page.object_count \in 1 .. SLOT_BITS
      /\ page.free_mask \subseteq SlotsOf(page)
      /\ page.content \in [SlotsOf(page) -> Object \union {NoObject}]
      /\ page.active_count = Cardinality(OccupiedIn(page))
      /\ page.object_size \in 1 .. PAGE_BYTES /\ Len(pages) \in Nat
      /\ PAGE_BYTES \in Nat
  BY <1>1, <1>2, PageTypes DEF Store, CountInv, PagesSized, Settings, PageAssumption
<1>6. s \in page.free_mask
  <2>1. page.free_mask \subseteq Nat
    BY <1>5 DEF SlotsOf
  <2> QED
    BY <1>2, <2>1, FirstFree
<1> HIDE DEF page, s
<1>7. /\ r \in PageRecord
      /\ r.key = page.key /\ r.object_size = page.object_size
      /\ r.object_count = page.object_count /\ r.dead_count = page.dead_count
      /\ r.active_count = page.active_count + 1
      /\ r.active_count = Cardinality(OccupiedIn(r))
      /\ r.free_mask \subseteq SlotsOf(r)
      /\ SlotsOf(r) = SlotsOf(page) /\ DOMAIN r.content = SlotsOf(r)
      /\ OccupiedIn(r) = OccupiedIn(page) \union {s}
      /\ \A k \in SlotsOf(page) :
           r.content[k] = IF k \in Span(page, s, SizeOf[class]) THEN o ELSE page.content[k]
  BY <1>5, <1>6, PlacedPage
<1> HIDE DEF r
<1>8. /\ Len(pages') = Len(pages)
      /\ \A q \in 1 .. Len(pages) : pages'[q] = IF q = p THEN r ELSE pages[q]
  <2>1. pages \in Seq(PageRecord)
    BY <1>1 DEF TypeOK
  <2>2. /\ Len([pages EXCEPT ![p] = r]) = Len(pages)
        /\ \A q \in 1 .. Len(pages) : [pages EXCEPT ![p] = r][q] = IF q = p THEN r ELSE pages[q]
    BY <1>2, <1>7, <2>1, ExceptSeq
  <2> QED
    BY <1>3, <2>2
<1>9. Store'
  <2>1. /\ active_object_count' = active_object_count + 1
        /\ released_object_count' = released_object_count /\ page_count' = page_count
        /\ active_object_count \in Nat /\ released_object_count \in Nat
    BY <1>1, <1>3 DEF HandOut, TypeOK
  <2>2. page.active_count \in Nat /\ page.dead_count \in Nat
    BY <1>5 DEF PageRecord
  <2>3. /\ active_object_count' = active_object_count + (r.active_count - page.active_count)
        /\ released_object_count' = released_object_count + (r.dead_count - page.dead_count)
    BY <1>7, <2>1, <2>2
  <2>4. chains' = [chains EXCEPT ![findChain(pages[p].key)] = updateChainStats(@, pages')]
    BY <1>3, <1>4 DEF page
  <2>5. p \in 1 .. Len(pages) /\ pages' = [pages EXCEPT ![p] = r]
    BY <1>2, <1>3
  <2>6. /\ r.key = pages[p].key /\ r.object_size = pages[p].object_size
        /\ r.object_count = pages[p].object_count
        /\ active_object_count' = active_object_count + (r.active_count - pages[p].active_count)
        /\ released_object_count' = released_object_count + (r.dead_count - pages[p].dead_count)
    BY <1>7, <2>3 DEF page
  <2> QED
    BY <1>1, <1>3, <1>7, <2>1, <2>4, <2>5, <2>6, PageChanges
<1>10. HeldOK' /\ HandleInv'
  <2>1. /\ p \in 1 .. Len(pages') /\ Len(pages') \in Nat /\ Len(pages) <= Len(pages')
        /\ \A q \in 1 .. Len(pages') : q = p \/ q \in 1 .. Len(pages)
        /\ \A q \in 1 .. Len(pages) : q # p => pages'[q] = pages[q]
        /\ pages'[p] = r
    BY <1>2, <1>5, <1>8
  <2>2. /\ page.key = KeyOf(class, parent) /\ page.object_count \in Nat
        /\ page.object_size \in Nat \ {0}
        /\ s \in SlotsOf(page) /\ s \notin OccupiedIn(page)
    BY <1>2, <1>5, <1>6 DEF key, page, OccupiedIn
  <2>3. page = pages[p] /\ SizeOf[class] \in Nat \ {0}
    BY <1>3, <1>5 DEF page
  <2> QED
    BY <1>3, <1>7, <2>1, <2>2, <2>3, HandedOut
<1>11. Taken(o, class, p, s, page)
  <2>1. page = pages[p] /\ pages'[p] = r /\ page.object_size \in Nat \ {0}
    BY <1>2, <1>5, <1>8 DEF page
  <2>2. s \in SlotsOf(page) \ OccupiedIn(page)
    BY <1>5, <1>6 DEF OccupiedIn
  <2>3. ~overrun' => Span(page, s, SizeOf[class]) = {s} /\ ~overrun
    <3>1. SizeOf[class] \in Nat \ {0} /\ page.object_count \in Nat
      BY <1>3, <1>5
    <3> QED
      BY <1>3, <1>7, <2>1, <2>2, <3>1, PlacedInOne
  <2> QED
    BY <1>2, <1>5, <1>7, <1>8, <2>1, <2>2, <2>3 DEF Taken
<1> QED
  BY <1>9, <1>10, <1>11, Gathered

LEMMA AllocateFromNewPageKeeps ==
  ASSUME Settings, IInv, NEW o \in Object \ DOMAIN held, NEW class \in Class,
         NEW parent \in Parent, AllocateFromNewPage(o, class, parent)
  PROVE  IInv' /\ \E p, s, base : Taken(o, class, p, s, base)
<1> DEFINE key == KeyOf(class, parent)
           size == SizeOf[class]
           n == ObjectCount(size)
           base == allocatePage(key, size)
           p == Len(pages) + 1
           r == Place(base, 0, o, size)
<1>1. TypeOK /\ Store /\ size \in 1 .. PAGE_BYTES /\ key \in Key /\ PAGE_BYTES \in Nat
      /\ Len(pages) \in Nat /\ Len(pages) = usedPageCount
  BY StoreHolds, LenProperties, SMTT(30)
     DEF AllocateFromNewPage, MayHaveChain, Key, Settings, PageAssumption, TypeOK
<1>2. /\ pages' = Append(pages, r)
      /\ chains' = [WithChain(key) EXCEPT ![IndexIn(WithChain(key), key)] =
                      updateChainStats(appendPage(@, usedPageCount + 1), pages')]
      /\ HandOut(o, class, parent, p, 0)
      /\ free_page_count > 0 /\ free_page_count' = free_page_count - 1
  BY <1>1 DEF AllocateFromNewPage
<1>3. n \in 1 .. SLOT_BITS /\ SLOT_BITS \in Nat
  BY <1>1, ObjectCountFacts DEF Settings, PageAssumption
<1> HIDE DEF key, size, n, p
<1>4. /\ base.key = key /\ base.object_size = size /\ base.object_count = n
      /\ base.active_count = 0 /\ base.dead_count = 0
      /\ base.free_mask = 0 .. n - 1 /\ base.content = [k \in 0 .. n - 1 |-> NoObject]
  BY DEF allocatePage, n
<1>5. SlotsOf(base) = 0 .. n - 1 /\ OccupiedIn(base) = {} /\ 0 \in base.free_mask
  BY <1>3, <1>4 DEF SlotsOf, OccupiedIn
<1>6. base \in PageRecord
  <2>1. base.content \in [0 .. n - 1 -> Object \union {NoObject}]
    BY <1>4
  <2>2. base.content \in UNION { [0 .. m - 1 -> Object \union {NoObject}] : m \in 0 .. SLOT_BITS }
    BY <1>3, <2>1
  <2>3. size \in Nat /\ n \in Nat /\ 0 .. n - 1 \subseteq Nat
    BY <1>1, <1>3
  <2>4. base = [key |-> key, object_size |-> size, object_count |-> n, active_count |-> 0,
                dead_count |-> 0, free_mask |-> 0 .. n - 1, content |-> base.content]
    BY DEF allocatePage, n
  <2> HIDE DEF base
  <2> QED
    BY <1>1, <2>2, <2>3, <2>4 DEF PageRecord
<1> HIDE DEF base
<1>7. /\ r \in PageRecord
      /\ r.key = base.key /\ r.object_size = base.object_size
      /\ r.object_count = base.object_count /\ r.dead_count = base.dead_count
      /\ r.active_count = base.active_count + 1
      /\ r.active_count = Cardinality(OccupiedIn(r))
      /\ r.free_mask \subseteq SlotsOf(r)
      /\ SlotsOf(r) = SlotsOf(base) /\ DOMAIN r.content = SlotsOf(r)
      /\ OccupiedIn(r) = OccupiedIn(base) \union {0}
      /\ \A k \in SlotsOf(base) :
           r.content[k] = IF k \in Span(base, 0, size) THEN o ELSE base.content[k]
  <2>1. base.active_count = Cardinality(OccupiedIn(base))
    BY <1>4, <1>5, FS_EmptySet
  <2>2. base.content \in [SlotsOf(base) -> Object \union {NoObject}]
    BY <1>4, <1>5
  <2>3. base.object_count \in 1 .. SLOT_BITS /\ base.free_mask \subseteq SlotsOf(base)
    BY <1>3, <1>4, <1>5
  <2>4. 0 \in base.free_mask /\ o \in Object
    BY <1>5
  <2> QED
    BY <1>6, <2>1, <2>2, <2>3, <2>4, PlacedPage
<1> HIDE DEF r
<1>8. Store' /\ Len(pages') = Len(pages) + 1
  <2>1. /\ active_object_count' = active_object_count + 1
        /\ UNCHANGED <<page_count, released_object_count>>
    BY <1>2 DEF HandOut
  <2>2. active_object_count' = active_object_count + r.active_count
    BY <1>4, <1>7, <2>1
  <2>3. r.object_count = ObjectCount(r.object_size)
    BY <1>4, <1>7 DEF n
  <2>4. r.key = key /\ r.object_size \in 1 .. PAGE_BYTES /\ r.dead_count = 0
    BY <1>1, <1>4, <1>7
  <2> QED
    BY <1>1, <1>2, <1>7, <2>1, <2>2, <2>3, <2>4, PageAdded
<1>9. HeldOK' /\ HandleInv'
  <2>1. /\ \A q \in 1 .. Len(pages) : pages'[q] = pages[q]
        /\ pages'[p] = r
    <3>1. pages \in Seq(PageRecord)
      BY <1>1 DEF TypeOK
    <3> QED
      BY <1>2, <1>7, <3>1, AppendProperties DEF p
  <2>2. /\ p \in 1 .. Len(pages') /\ Len(pages') \in Nat /\ Len(pages) <= Len(pages')
        /\ \A q \in 1 .. Len(pages') : q = p \/ q \in 1 .. Len(pages)
        /\ p \notin 1 .. Len(pages)
    BY <1>1, <1>8 DEF p
  <2>3. /\ base.key = KeyOf(class, parent) /\ base.object_count \in Nat
        /\ base.object_size \in Nat \ {0} /\ base.object_size = SizeOf[class]
        /\ 0 \in SlotsOf(base) /\ 0 \notin OccupiedIn(base)
    BY <1>1, <1>3, <1>4, <1>5 DEF key, size
  <2>5. SizeOf[class] \in Nat \ {0}
    BY <1>1 DEF size
  <2>4. \A k \in SlotsOf(base) :
          pages'[p].content[k] = IF k \in Span(base, 0, SizeOf[class]) THEN o ELSE base.content[k]
    BY <1>7, <2>1 DEF size
  <2> QED
    BY <1>2, <1>7, <2>1, <2>2, <2>3, <2>4, <2>5, HandedOut
<1>10. Taken(o, class, p, 0, base)
  <2>1. pages \in Seq(PageRecord)
    BY <1>1 DEF TypeOK
  <2>2. /\ \A q \in 1 .. Len(pages) : pages'[q] = pages[q]
        /\ pages'[p] = r
    BY <1>2, <1>7, <2>1, AppendProperties DEF p
  <2>3. /\ p \in 1 .. Len(pages') /\ p \notin 1 .. Len(pages)
        /\ \A q \in 1 .. Len(pages') : q = p \/ q \in 1 .. Len(pages)
        /\ \A q \in 1 .. Len(pages) : q \in 1 .. Len(pages')
    BY <1>1, <1>8 DEF p
  <2>4. /\ base.object_count \in 1 .. SLOT_BITS /\ base.object_size \in Nat \ {0}
        /\ base.object_size = SizeOf[class]
        /\ 0 \in SlotsOf(base) \ OccupiedIn(base)
    BY <1>1, <1>3, <1>4, <1>5 DEF size
  <2>5. \A k \in SlotsOf(base) :
          pages'[p].content[k] = IF k \in Span(base, 0, SizeOf[class]) THEN o ELSE base.content[k]
    BY <1>7, <2>2 DEF size
  <2>6. ~overrun' => Span(base, 0, SizeOf[class]) = {0} /\ ~overrun
    <3>1. SizeOf[class] \in Nat \ {0} /\ base.object_count \in Nat /\ 0 \in SlotsOf(base)
      BY <1>1, <1>3, <2>4 DEF size
    <3>2. base.object_size \in Nat \ {0} /\ pages'[p].object_size = base.object_size
      BY <1>7, <2>2, <2>4
    <3>3. HandOut(o, class, parent, p, 0)
      BY <1>2
    <3> QED
      BY <3>1, <3>2, <3>3, PlacedInOne
  <2> QED
    BY <1>5, <1>7, <2>2, <2>3, <2>4, <2>5, <2>6 DEF Taken
<1> QED
  BY <1>8, <1>9, <1>10, Gathered

LEMMA AllocateNoPageKeeps ==
  ASSUME Settings, IInv, NEW class \in Class, NEW parent \in Parent, AllocateNoPage(class, parent)
  PROVE  IInv'
<1>1. KeyOf(class, parent) \in Key
  BY DEF Key
<1>2. /\ chains' = WithChain(KeyOf(class, parent)) /\ UNCHANGED <<counters, pages>>
      /\ pages' = pages /\ held' = held
      /\ moved' = moved /\ misled' = misled /\ overrun' = overrun
  BY DEF AllocateNoPage, history
<1>3. Store'
  BY <1>1, <1>2, StoreHolds, ChainCreated
<1>4. HeldOK'
  BY <1>2 DEF IInv, TypeOK, HeldOK
<1>5. HandleInv'
  BY <1>2 DEF IInv, HandleInv, Sound, Fits
<1> QED
  BY <1>3, <1>4, <1>5, Gathered

LEMMA ReleaseKeeps ==
  ASSUME Settings, IInv, NEW o \in DOMAIN held, release(o)
  PROVE  IInv' /\ \E p, s : GivenBack(p, s)
<1> DEFINE p == held[o].page
           s == held[o].slot
           page == pages[p]
           c == findChain(page.key)
           r == Freed(page, s)
<1>1. TypeOK /\ Store
  BY StoreHolds
<1>2. /\ s \notin page.free_mask /\ Drop(o)
      /\ pages' = [pages EXCEPT ![p] = r]
      /\ chains' = [chains EXCEPT ![c] = updateChainStats(@, pages')]
      /\ active_object_count' = active_object_count - 1
      /\ released_object_count' = released_object_count + 1
      /\ UNCHANGED <<page_count, free_page_count>> /\ overrun' = overrun
      /\ Mislead(o)
  BY DEF release
<1>3. p \in 1 .. Len(pages) /\ s \in SlotsOf(page)
  BY DEF IInv, TypeOK
<1> HIDE DEF p, s, c
<1>4. /\ page \in PageRecord /\ page.object_count \in 1 .. SLOT_BITS
      /\ page.free_mask \subseteq SlotsOf(page)
      /\ DOMAIN page.content = SlotsOf(page)
      /\ page.active_count = Cardinality(OccupiedIn(page))
  BY <1>1, <1>3, PageTypes DEF Store, CountInv
<1> HIDE DEF page
<1>5. /\ r \in PageRecord
      /\ r.key = page.key /\ r.object_size = page.object_size
      /\ r.object_count = page.object_count /\ r.dead_count = page.dead_count + 1
      /\ r.active_count = page.active_count - 1
      /\ r.active_count = Cardinality(OccupiedIn(r))
      /\ r.free_mask \subseteq SlotsOf(r)
      /\ SlotsOf(r) = SlotsOf(page) /\ r.content = page.content
      /\ OccupiedIn(r) = OccupiedIn(page) \ {s}
  BY <1>2, <1>3, <1>4, FreedPage
<1> HIDE DEF r
<1>6. /\ Len(pages') = Len(pages)
      /\ \A q \in 1 .. Len(pages) : pages'[q] = IF q = p THEN r ELSE pages[q]
  <2>1. pages \in Seq(PageRecord)
    BY <1>1 DEF TypeOK
  <2>2. /\ Len([pages EXCEPT ![p] = r]) = Len(pages)
        /\ \A q \in 1 .. Len(pages) : [pages EXCEPT ![p] = r][q] = IF q = p THEN r ELSE pages[q]
    BY <1>3, <1>5, <2>1, ExceptSeq
  <2> QED
    BY <1>2, <2>2
<1>7. Store'
  <2>1. active_object_count \in Nat /\ released_object_count \in Nat
    BY <1>1 DEF TypeOK
  <2>2. page.active_count \in Nat /\ page.dead_count \in Nat
    BY <1>4 DEF PageRecord
  <2>3. /\ active_object_count' = active_object_count + (r.active_count - page.active_count)
        /\ released_object_count' = released_object_count + (r.dead_count - page.dead_count)
    BY <1>2, <1>5, <2>1, <2>2
  <2>4. chains' = [chains EXCEPT ![findChain(pages[p].key)] = updateChainStats(@, pages')]
    BY <1>2 DEF page, c
  <2>5. /\ r.key = pages[p].key /\ r.object_size = pages[p].object_size
        /\ r.object_count = pages[p].object_count
        /\ active_object_count' = active_object_count + (r.active_count - pages[p].active_count)
        /\ released_object_count' = released_object_count + (r.dead_count - pages[p].dead_count)
    BY <1>5, <2>3 DEF page
  <2>6. DOMAIN r.content = SlotsOf(r)
    BY <1>4, <1>5
  <2> QED
    BY <1>1, <1>2, <1>3, <1>5, <2>4, <2>5, <2>6, PageChanges
<1>8. /\ DOMAIN held' = DOMAIN held \ {o}
      /\ \A q \in DOMAIN held' : held'[q] = held[q]
      /\ moved' = moved \ {o}
      /\ misled' = IF o \in moved THEN misled \union {p} ELSE misled
  BY <1>2 DEF Drop, Mislead, p
<1>9. HeldOK'
  <2>1. \A q \in 1 .. Len(pages) : SlotsOf(pages'[q]) = SlotsOf(pages[q])
    BY <1>5, <1>6 DEF page
  <2>2. /\ DOMAIN held \subseteq Object /\ moved \subseteq DOMAIN held
        /\ misled \subseteq 1 .. Len(pages) /\ overrun \in BOOLEAN
        /\ \A q \in DOMAIN held :
             /\ held[q].class \in Class /\ held[q].parent \in Parent
             /\ held[q].page \in 1 .. Len(pages)
             /\ held[q].slot \in SlotsOf(pages[held[q].page])
    BY <1>1 DEF TypeOK
  <2>3. \A q \in DOMAIN held' :
          /\ held'[q].class \in Class /\ held'[q].parent \in Parent
          /\ held'[q].page \in 1 .. Len(pages')
          /\ held'[q].slot \in SlotsOf(pages'[held'[q].page])
    BY <1>6, <1>8, <2>1, <2>2
  <2>4. moved' \subseteq DOMAIN held' /\ misled' \subseteq 1 .. Len(pages')
    BY <1>3, <1>6, <1>8, <2>2
  <2> QED
    BY <1>2, <1>8, <2>2, <2>3, <2>4 DEF HeldOK
<1>10. HandleInv'
  <2>1. ASSUME ~overrun', NEW q \in DOMAIN held'
        PROVE  Fits(q, held', pages')
    <3>1. \A k \in 1 .. Len(pages) : pages'[k].key = pages[k].key
                                     /\ pages'[k].object_size = pages[k].object_size
      BY <1>5, <1>6 DEF page
    <3>2. held'[q] = held[q] /\ held[q].page \in 1 .. Len(pages) /\ Fits(q, held, pages)
      BY <1>1, <1>2, <1>8, <2>1 DEF TypeOK, IInv, HandleInv
    <3> QED
      BY <3>1, <3>2 DEF Fits
  <2>2. ASSUME ~overrun', NEW q \in DOMAIN held', held'[q].page \notin misled'
        PROVE  \E t : Sound(q, t, held', moved', pages')
    <3>1. /\ q # o /\ held'[q] = held[q] /\ held[q].page \in 1 .. Len(pages) /\ q \in DOMAIN held
          /\ held[q].page \notin misled
      BY <1>1, <1>8, <2>2 DEF TypeOK
    <3>2. PICK t : Sound(q, t, held, moved, pages)
      BY <1>2, <2>2, <3>1 DEF IInv, HandleInv
    <3>3. /\ t \in OccupiedIn(pages[held[q].page])
          /\ pages[held[q].page].content[t] = q
          /\ q \notin moved => t = held[q].slot
      BY <3>2 DEF Sound
    <3>4. CASE held[q].page # p
      <4>1. pages'[held[q].page] = pages[held[q].page]
        BY <1>6, <3>1, <3>4
      <4> QED
        BY <1>8, <3>1, <3>3, <4>1 DEF Sound
    <3>5. CASE held[q].page = p
      <4>1. o \notin moved /\ p \notin misled
        BY <1>8, <3>1, <3>5, <2>2
      <4>2. PICK u : Sound(o, u, held, moved, pages)
        BY <1>2, <2>2, <4>1 DEF IInv, HandleInv, p
      <4>3. page.content[s] = o
        BY <4>1, <4>2 DEF Sound, page, s, p
      <4>4. t # s
        BY <3>1, <3>3, <3>5, <4>3 DEF page
      <4>5. pages'[held[q].page] = r
        BY <1>6, <3>1, <3>5
      <4> QED
        BY <1>5, <1>8, <3>1, <3>3, <3>5, <4>4, <4>5 DEF Sound, page
    <3> QED
      BY <3>4, <3>5
  <2> QED
    BY <2>1, <2>2 DEF HandleInv
<1>11. GivenBack(p, s)
  <2>1. s \in OccupiedIn(page) /\ page = pages[p]
    BY <1>2, <1>3 DEF OccupiedIn, page
  <2> QED
    BY <1>3, <1>5, <1>6, <2>1 DEF GivenBack
<1> QED
  BY <1>7, <1>9, <1>10, <1>11, Gathered

(* What compaction does to pointers: those of the objects it has moved are *)
(* left behind, and the objects themselves stay on their page.             *)
LEMMA CompactedHandles ==
  ASSUME Settings, IInv, NEW which, which \subseteq 1 .. Len(pages), CompactPages(which),
         Len(pages') = Len(pages)
  PROVE  HeldOK' /\ HandleInv'
<1>1. TypeOK /\ Store
  BY StoreHolds
<1>2. /\ \A q \in 1 .. Len(pages) : pages'[q] = IF q \in which THEN Packed(pages[q]) ELSE pages[q]
      /\ moved' = moved \union
           { o \in DOMAIN held : /\ held[o].page \in which
                                 /\ Rank(pages[held[o].page], held[o].slot) # held[o].slot }
      /\ held' = held /\ misled' = misled /\ overrun' = overrun
  BY DEF CompactPages
<1>3. ASSUME NEW q \in 1 .. Len(pages)
      PROVE  /\ SlotsOf(pages'[q]) = SlotsOf(pages[q]) /\ pages'[q].key = pages[q].key
             /\ pages'[q].object_size = pages[q].object_size
  BY <1>1, <1>2, PackedPage
<1>4. HeldOK'
  <2>1. moved' \subseteq DOMAIN held' /\ misled' \subseteq 1 .. Len(pages') /\ overrun' \in BOOLEAN
    BY <1>1, <1>2 DEF TypeOK
  <2>2. \A q \in DOMAIN held :
           /\ held[q].class \in Class /\ held[q].parent \in Parent
           /\ held[q].page \in 1 .. Len(pages')
           /\ held[q].slot \in SlotsOf(pages'[held[q].page])
    BY <1>1, <1>3 DEF TypeOK
  <2>3. DOMAIN held \subseteq Object
    BY <1>1 DEF TypeOK
  <2> QED
    BY <1>2, <2>1, <2>2, <2>3 DEF HeldOK
<1>5. ASSUME NEW o \in DOMAIN held, Fits(o, held, pages)
      PROVE  Fits(o, held', pages')
  <2>1. held[o].page \in 1 .. Len(pages)
    BY <1>1 DEF TypeOK
  <2> QED
    BY <1>2, <1>3, <1>5, <2>1 DEF Fits
<1>6. ASSUME NEW o \in DOMAIN held, NEW t, Sound(o, t, held, moved, pages)
      PROVE  \E u : Sound(o, u, held', moved', pages')
  <2> DEFINE p == held[o].page
             page == pages[p]
             k == Rank(page, t)
  <2>1. /\ p \in 1 .. Len(pages) /\ t \in OccupiedIn(page) /\ page.content[t] = o
        /\ o \notin moved => t = held[o].slot
    BY <1>1, <1>6 DEF Sound, TypeOK
  <2>2. CASE p \notin which
    <3>1. pages'[p] = pages[p] /\ (o \notin moved' => o \notin moved)
      BY <1>2, <2>1, <2>2
    <3>2. Sound(o, t, held', moved', pages')
      BY <1>2, <2>1, <3>1 DEF Sound
    <3> QED
      BY <3>2
  <2>3. CASE p \in which
    <3>1. o \notin moved' => k = held[o].slot
      BY <1>2, <2>1, <2>3
    <3>2. pages'[p] = Packed(page)
      BY <1>2, <2>1, <2>3
    <3>3. page \in PageRecord /\ page.object_count \in Nat
      BY <1>1, <2>1, PageTypes DEF Store
    <3> HIDE DEF page, p
    <3>4. "object_count" \in DOMAIN page /\ "free_mask" \in DOMAIN page /\ "content" \in DOMAIN page
      BY <3>3 DEF PageRecord
    <3>5. k \in 0 .. Cardinality(OccupiedIn(page)) - 1
      BY <2>1, <3>3, LiveRanks
    <3>6. /\ Packed(page).content[k] = page.content[t]
          /\ OccupiedIn(Packed(page)) = 0 .. Cardinality(OccupiedIn(page)) - 1
      BY <2>1, <3>3, <3>4, PackedLayout
    <3> HIDE DEF k
    <3>7. Sound(o, k, held', moved', pages')
      BY <1>2, <2>1, <3>1, <3>2, <3>5, <3>6 DEF Sound, p
    <3> QED
      BY <3>7
  <2> QED
    BY <2>2, <2>3
<1> QED
  BY <1>2, <1>4, <1>5, <1>6 DEF IInv, HandleInv

LEMMA CompactKeeps ==
  ASSUME Settings, IInv, NEW key \in Key, compact(key)
  PROVE  IInv' /\ \E which : Compacted(which)
<1> DEFINE c == findChain(key)
           which == PagesOf(chains[c])
<1>1. TypeOK /\ Store /\ Len(chains) \in Nat
  BY StoreHolds, LenProperties DEF TypeOK
<1>2. c \in 1 .. Len(chains)
  BY <1>1, ChainFound DEF Store, compact
<1>3. which \subseteq 1 .. Len(pages)
  BY <1>1, <1>2 DEF Store, PagesOwned
<1>4. CompactPages(which) /\ chains' = [chains EXCEPT ![c] = updateChainStats(@, pages')]
  BY DEF compact
<1> HIDE DEF c, which
<1>5. chains' = [d \in 1 .. Len(chains) |->
                   IF d \in {c} THEN updateChainStats(chains[d], pages') ELSE chains[d]]
  <2>1. DOMAIN chains = 1 .. Len(chains)
    BY <1>1, LenProperties DEF TypeOK
  <2> QED
    BY <1>2, <1>4, <2>1
<1>6. Store' /\ Len(pages') = Len(pages)
  BY <1>1, <1>3, <1>4, <1>5, PagesCompacted DEF CompactPages
<1>7. Compacted(which)
  BY <1>3, <1>4, <1>6 DEF Compacted, CompactPages
<1> QED
  BY <1>3, <1>4, <1>6, <1>7, CompactedHandles, Gathered

LEMMA CompactAllKeeps ==
  ASSUME Settings, IInv, compactAll
  PROVE  IInv' /\ \E which : Compacted(which)
<1> DEFINE R == 1 .. Len(chains)
           which == UNION { PagesOf(chains[c]) : c \in R }
<1>1. TypeOK /\ Store
  BY StoreHolds
<1>2. which \subseteq 1 .. Len(pages)
  BY <1>1 DEF Store, PagesOwned
<1>3. CompactPages(which) /\ chains' = [c \in R |-> updateChainStats(chains[c], pages')]
  BY DEF compactAll
<1>4. chains' = [c \in 1 .. Len(chains) |->
                   IF c \in R THEN updateChainStats(chains[c], pages') ELSE chains[c]]
  BY <1>3
<1> HIDE DEF which, R
<1>5. Store' /\ Len(pages') = Len(pages)
  BY <1>1, <1>2, <1>3, <1>4, PagesCompacted DEF CompactPages
<1>6. Compacted(which)
  BY <1>2, <1>3, <1>5 DEF Compacted, CompactPages
<1> QED
  BY <1>2, <1>3, <1>5, <1>6, CompactedHandles, Gathered

LEMMA StepKeeps ==
  ASSUME Settings, IInv, [Next]_vars
  PROVE  IInv'
<1>1. ASSUME NEW n \in 1 .. MAX_PAGES, initialize(n)
      PROVE  IInv'
  <2>1. n \in 0 .. MAX_PAGES
    BY DEF Settings, AllocatorAssumption
  <2> QED
    BY <1>1, <2>1, EmptyStore DEF initialize
<1>2. CASE shutdown
  <2>1. 0 \in 0 .. MAX_PAGES
    BY DEF Settings, AllocatorAssumption
  <2> QED
    BY <1>2, <2>1, EmptyStore DEF shutdown
<1>3. ASSUME NEW o \in Object \ DOMAIN held, NEW class \in Class, NEW parent \in Parent,
             AllocateFromPage(o, class, parent) \/ AllocateFromNewPage(o, class, parent)
      PROVE  IInv'
  BY <1>3, AllocateFromPageKeeps, AllocateFromNewPageKeeps
<1>4. ASSUME NEW class \in Class, NEW parent \in Parent, AllocateNoPage(class, parent)
      PROVE  IInv'
  BY <1>4, AllocateNoPageKeeps
<1>5. ASSUME NEW o \in DOMAIN held, release(o)
      PROVE  IInv'
  BY <1>5, ReleaseKeeps
<1>6. ASSUME NEW o \in DOMAIN held, ReleaseRefused(o)
      PROVE  IInv'
  BY <1>6, OnlyDropped DEF ReleaseRefused
<1>7. ASSUME NEW key \in Key, compact(key)
      PROVE  IInv'
  BY <1>7, CompactKeeps
<1>8. CASE compactAll
  BY <1>8, CompactAllKeeps
<1>9. CASE UNCHANGED vars
  <2>1. /\ pages' = pages /\ chains' = chains /\ held' = held
        /\ moved' = moved /\ misled' = misled /\ overrun' = overrun
        /\ page_count' = page_count /\ free_page_count' = free_page_count
        /\ active_object_count' = active_object_count
        /\ released_object_count' = released_object_count
    BY <1>9 DEF vars, counters, history
  <2>2. TypeOK'
    BY <2>1 DEF IInv, TypeOK, usedPageCount
  <2>3. PagesSized'
    BY <2>1 DEF IInv, PagesSized
  <2>4. PagesOwned'
    BY <2>1, OwnedIsBy DEF IInv
  <2>5. CountInv'
    BY <2>1 DEF IInv, CountInv
  <2>6. HandleInv'
    BY <2>1 DEF IInv, HandleInv, Sound, Fits
  <2> QED
    BY <2>2, <2>3, <2>4, <2>5, <2>6 DEF IInv
<1> QED
  BY <1>1, <1>2, <1>3, <1>4, <1>5, <1>6, <1>7, <1>8, <1>9 DEF Next

LEMMA InvariantImplies ==
  ASSUME Settings, IInv
  PROVE  TypeOK /\ CountersAgree /\ PagesOwned /\ HandlesIntact
<1>1. CountersAgree
  BY CountsAgree DEF IInv
<1>2. HandlesIntact
  <2> SUFFICES ASSUME ~overrun, NEW o \in DOMAIN held, held[o].page \notin misled
               PROVE  \E s \in SlotsOf(pages[held[o].page]) :
                        LiesAt(o, s) /\ (o \notin moved => s = held[o].slot)
    BY DEF HandlesIntact
  <2>1. Fits(o, held, pages)
    BY DEF IInv, HandleInv
  <2>2. PICK s : Sound(o, s, held, moved, pages)
    BY DEF IInv, HandleInv
  <2> QED
    BY <2>1, <2>2, SoundLies DEF IInv
<1> QED
  BY <1>1, <1>2 DEF IInv

-----------------------------------------------------------------------------
(* Theorems. *)

LEMMA Invariant ==
  ASSUME Settings
  PROVE  Spec => []IInv
<1>1. Init => IInv
  BY InitHolds
<1>2. IInv /\ [Next]_vars => IInv'
  BY StepKeeps
<1> QED
  BY <1>1, <1>2, PTL DEF Spec

(* Pages stay within the memory asked for, masks within the slots of their *)
(* page, and a client's pointer leads to a slot of a page there is.        *)
THEOREM TypeCorrect ==
  ASSUME Settings
  PROVE  Spec => []TypeOK
<1>1. IInv => TypeOK
  BY DEF IInv
<1> QED
  BY <1>1, Invariant, PTL

(* Every count the allocator keeps is the number of occupied slots it      *)
(* stands for, whatever is allocated, released through stale pointers and  *)
(* compacted (updateChainStats, release, compact).                         *)
THEOREM CountersCorrect ==
  ASSUME Settings
  PROVE  Spec => []CountersAgree
<1>1. IInv => CountersAgree
  BY InvariantImplies
<1> QED
  BY <1>1, Invariant, PTL

(* Every mapped page is on one chain, the one of its parent and type       *)
(* (findOrCreateChain, appendPage).                                        *)
THEOREM OwnershipCorrect ==
  ASSUME Settings
  PROVE  Spec => []PagesOwned
<1>1. IInv => PagesOwned
  BY DEF IInv
<1> QED
  BY <1>1, Invariant, PTL

(* Until an object is put in a slot too small for it, pointers compaction  *)
(* has not left behind lead to their own objects, and objects it has left  *)
(* behind are alive on their page, save on pages where somebody released   *)
(* by a pointer left behind (allocate, release, compact).                  *)
THEOREM HandlesCorrect ==
  ASSUME Settings
  PROVE  Spec => []HandlesIntact
<1>1. IInv => HandlesIntact
  BY InvariantImplies
<1> QED
  BY <1>1, Invariant, PTL

-----------------------------------------------------------------------------
(* The allocator implements ObjectHeap. *)

(* The heap as it is until an overrun.                                     *)
Whole == INSTANCE ObjectHeap WITH
           Page <- 1 .. MAX_PAGES, Slot <- 0 .. SLOT_BITS - 1, heap <- HeapNow

Entry(heap, p, s) == [object |-> heap[p].content[s], page |-> p, slot |-> s]

HeapOf(heap) ==
  { Entry(heap, a[1], a[2]) :
      a \in { b \in (1 .. Len(heap)) \X (0 .. SLOT_BITS - 1) : b[2] \in OccupiedIn(heap[b[1]]) } }

LEMMA HeapIs == HeapNow = HeapOf(pages) /\ HeapNow' = HeapOf(pages')
  BY DEF HeapNow, Occupied, HeapOf, Entry

LEMMA Entries ==
  ASSUME NEW heap, \A p \in 1 .. Len(heap) : OccupiedIn(heap[p]) \subseteq 0 .. SLOT_BITS - 1
  PROVE  /\ \A p \in 1 .. Len(heap) : \A s \in OccupiedIn(heap[p]) : Entry(heap, p, s) \in HeapOf(heap)
         /\ \A e \in HeapOf(heap) :
              \E p \in 1 .. Len(heap) : \E s \in OccupiedIn(heap[p]) : e = Entry(heap, p, s)
<1>1. ASSUME NEW p \in 1 .. Len(heap), NEW s \in OccupiedIn(heap[p])
      PROVE  Entry(heap, p, s) \in HeapOf(heap)
  <2> DEFINE a == <<p, s>>
  <2>1. a \in (1 .. Len(heap)) \X (0 .. SLOT_BITS - 1) /\ a[1] = p /\ a[2] = s
    OBVIOUS
  <2> HIDE DEF a
  <2> QED
    BY <2>1 DEF HeapOf
<1>2. ASSUME NEW e \in HeapOf(heap)
      PROVE  \E p \in 1 .. Len(heap) : \E s \in OccupiedIn(heap[p]) : e = Entry(heap, p, s)
  <2>1. PICK a \in (1 .. Len(heap)) \X (0 .. SLOT_BITS - 1) :
          a[2] \in OccupiedIn(heap[a[1]]) /\ e = Entry(heap, a[1], a[2])
    BY DEF HeapOf
  <2>2. a[1] \in 1 .. Len(heap)
    OBVIOUS
  <2> QED
    BY <2>1, <2>2
<1> QED
  BY <1>1, <1>2

LEMMA SlotsOccupied ==
  ASSUME Settings, IInv
  PROVE  /\ SLOT_BITS \in Nat /\ Len(pages) \in Nat /\ Len(pages) <= MAX_PAGES /\ MAX_PAGES \in Nat
         /\ \A p \in 1 .. Len(pages) :
              /\ OccupiedIn(pages[p]) \subseteq 0 .. SLOT_BITS - 1
              /\ \A s \in OccupiedIn(pages[p]) : pages[p].content[s] \in Object \union {NoObject}
<1>1. SLOT_BITS \in Nat /\ MAX_PAGES \in Nat /\ Len(pages) \in Nat
  BY LenProperties DEF Settings, PageAssumption, AllocatorAssumption, IInv, TypeOK
<1>2. Len(pages) <= MAX_PAGES
  BY <1>1 DEF IInv, TypeOK, usedPageCount
<1>3. ASSUME NEW p \in 1 .. Len(pages)
      PROVE  /\ OccupiedIn(pages[p]) \subseteq 0 .. SLOT_BITS - 1
             /\ \A s \in OccupiedIn(pages[p]) : pages[p].content[s] \in Object \union {NoObject}
  <2>1. /\ pages[p].object_count \in 1 .. SLOT_BITS
        /\ SlotsOf(pages[p]) = 0 .. pages[p].object_count - 1
        /\ pages[p].content \in [SlotsOf(pages[p]) -> Object \union {NoObject}]
    BY PageTypes DEF IInv
  <2>2. OccupiedIn(pages[p]) \subseteq SlotsOf(pages[p])
    BY DEF OccupiedIn
  <2> QED
    BY <1>1, <2>1, <2>2
<1> QED
  BY <1>1, <1>2, <1>3

LEMMA SlotsOccupiedNext ==
  ASSUME Settings, IInv'
  PROVE  /\ Len(pages') \in Nat /\ Len(pages') <= MAX_PAGES
         /\ \A p \in 1 .. Len(pages') : OccupiedIn(pages'[p]) \subseteq 0 .. SLOT_BITS - 1
<1>1. SLOT_BITS \in Nat /\ MAX_PAGES \in Nat /\ Len(pages') \in Nat
  BY LenProperties DEF Settings, PageAssumption, AllocatorAssumption, IInv, TypeOK
<1>2. Len(pages') <= MAX_PAGES
  <2>1. page_count' \in 0 .. MAX_PAGES /\ free_page_count' \in 0 .. page_count'
        /\ Len(pages') = page_count' - free_page_count'
    BY DEF IInv, TypeOK, usedPageCount
  <2> DEFINE n == page_count'
             f == free_page_count'
  <2>2. n \in 0 .. MAX_PAGES /\ f \in 0 .. n /\ Len(pages') = n - f
    BY <2>1
  <2> HIDE DEF n, f
  <2> QED
    BY <1>1, <2>2
<1>3. ASSUME NEW p \in 1 .. Len(pages')
      PROVE  OccupiedIn(pages'[p]) \subseteq 0 .. SLOT_BITS - 1
  <2>1. pages'[p].object_count = ObjectCount(pages'[p].object_size)
        /\ pages'[p].object_size \in 1 .. PAGE_BYTES
    BY DEF IInv, TypeOK, PagesSized
  <2>2. pages'[p].object_count \in 1 .. SLOT_BITS
    BY <2>1, ObjectCountFacts
  <2> QED
    BY <1>1, <2>2 DEF OccupiedIn, SlotsOf
<1> QED
  BY <1>1, <1>2, <1>3

LEMMA TakenAllocates ==
  ASSUME Settings, ~overrun', IInv, IInv', NEW o \in Object, NEW class, NEW p, NEW s, NEW base,
         Taken(o, class, p, s, base)
  PROVE  Whole!Allocate
<1> DEFINE new == [object |-> o, page |-> p, slot |-> s]
<1>1. /\ p \in 1 .. Len(pages')
      /\ \A q \in 1 .. Len(pages') : q = p \/ q \in 1 .. Len(pages)
      /\ \A q \in 1 .. Len(pages) : q \in 1 .. Len(pages') /\ (q # p => pages'[q] = pages[q])
      /\ IF p \in 1 .. Len(pages) THEN base = pages[p] ELSE OccupiedIn(base) = {}
      /\ OccupiedIn(pages'[p]) = OccupiedIn(base) \union {s}
      /\ s \in SlotsOf(base) /\ s \notin OccupiedIn(base)
  BY DEF Taken
<1>2. \A k \in SlotsOf(base) : pages'[p].content[k] = IF k = s THEN o ELSE base.content[k]
  <2>1. Span(base, s, SizeOf[class]) = {s}
    BY DEF Taken
  <2> QED
    BY <2>1 DEF Taken
<1>3. OccupiedIn(base) \subseteq SlotsOf(base)
  BY DEF OccupiedIn
<1>4. new = Entry(pages', p, s)
  BY <1>1, <1>2 DEF Entry
<1>5. \A q \in 1 .. Len(pages) : \A t \in OccupiedIn(pages[q]) :
        t \in OccupiedIn(pages'[q]) /\ Entry(pages', q, t) = Entry(pages, q, t)
  <2>1. ASSUME NEW q \in 1 .. Len(pages), NEW t \in OccupiedIn(pages[q])
        PROVE  t \in OccupiedIn(pages'[q]) /\ pages'[q].content[t] = pages[q].content[t]
    <3>1. CASE q # p
      BY <1>1, <3>1
    <3>2. CASE q = p
      BY <1>1, <1>2, <1>3, <3>2
    <3> QED
      BY <3>1, <3>2
  <2> QED
    BY <2>1 DEF Entry
<1>6. \A q \in 1 .. Len(pages') : \A t \in OccupiedIn(pages'[q]) :
        (q \in 1 .. Len(pages) /\ t \in OccupiedIn(pages[q])) \/ (q = p /\ t = s)
  BY <1>1
<1> HIDE DEF new
<1>7. /\ \A q \in 1 .. Len(pages) : \A t \in OccupiedIn(pages[q]) : Entry(pages, q, t) \in HeapNow
      /\ \A e \in HeapNow :
           \E q \in 1 .. Len(pages) : \E t \in OccupiedIn(pages[q]) : e = Entry(pages, q, t)
  BY SlotsOccupied, Entries, HeapIs
<1>8. /\ \A q \in 1 .. Len(pages') : \A t \in OccupiedIn(pages'[q]) : Entry(pages', q, t) \in HeapNow'
      /\ \A e \in HeapNow' :
           \E q \in 1 .. Len(pages') : \E t \in OccupiedIn(pages'[q]) : e = Entry(pages', q, t)
  BY SlotsOccupiedNext, Entries, HeapIs
<1>9. HeapNow' = HeapNow \union {new}
  <2>1. ASSUME NEW e \in HeapNow'
        PROVE  e \in HeapNow \union {new}
    <3>1. PICK q \in 1 .. Len(pages') : \E t \in OccupiedIn(pages'[q]) : e = Entry(pages', q, t)
      BY <1>8
    <3>2. PICK t \in OccupiedIn(pages'[q]) : e = Entry(pages', q, t)
      BY <3>1
    <3> QED
      BY <1>4, <1>5, <1>6, <1>7, <3>2
  <2>2. ASSUME NEW e \in HeapNow
        PROVE  e \in HeapNow'
    <3>1. PICK q \in 1 .. Len(pages) : \E t \in OccupiedIn(pages[q]) : e = Entry(pages, q, t)
      BY <1>7
    <3>2. PICK t \in OccupiedIn(pages[q]) : e = Entry(pages, q, t)
      BY <3>1
    <3> QED
      BY <1>1, <1>5, <1>8, <3>2
  <2>3. new \in HeapNow'
    BY <1>1, <1>4, <1>8
  <2> QED
    BY <2>1, <2>2, <2>3
<1>10. ~ \E e \in HeapNow : e.page = p /\ e.slot = s
  <2>1. ASSUME NEW q \in 1 .. Len(pages), NEW t \in OccupiedIn(pages[q]), q = p, t = s
        PROVE  FALSE
    BY <1>1, <2>1
  <2>2. \A q, t : Entry(pages, q, t).page = q /\ Entry(pages, q, t).slot = t
    BY DEF Entry
  <2> QED
    BY <1>7, <2>1, <2>2
<1>11. p \in 1 .. MAX_PAGES /\ s \in 0 .. SLOT_BITS - 1
  <2>1. p \in 1 .. MAX_PAGES
    BY <1>1, SlotsOccupiedNext DEF Settings, AllocatorAssumption
  <2> QED
    BY <1>1, <2>1, SlotsOccupiedNext
<1> QED
  BY <1>9, <1>10, <1>11 DEF Whole!Allocate, new

LEMMA GivenBackReleases ==
  ASSUME Settings, IInv, IInv', NEW p, NEW s, GivenBack(p, s)
  PROVE  Whole!Release
<1> DEFINE old == Entry(pages, p, s)
<1>1. /\ Len(pages') = Len(pages)
      /\ p \in 1 .. Len(pages) /\ s \in OccupiedIn(pages[p])
      /\ \A q \in 1 .. Len(pages) : q # p => pages'[q] = pages[q]
      /\ pages'[p].content = pages[p].content
      /\ OccupiedIn(pages'[p]) = OccupiedIn(pages[p]) \ {s}
  BY DEF GivenBack
<1>2. \A q \in 1 .. Len(pages) : \A t : Entry(pages', q, t) = Entry(pages, q, t)
  <2>1. \A q \in 1 .. Len(pages) : pages'[q].content = pages[q].content
    BY <1>1
  <2> QED
    BY <2>1 DEF Entry
<1>3. \A q \in 1 .. Len(pages) : \A t :
        t \in OccupiedIn(pages'[q]) <=> t \in OccupiedIn(pages[q]) /\ ~(q = p /\ t = s)
  BY <1>1
<1>4. /\ \A q \in 1 .. Len(pages) : \A t \in OccupiedIn(pages[q]) : Entry(pages, q, t) \in HeapNow
      /\ \A e \in HeapNow :
           \E q \in 1 .. Len(pages) : \E t \in OccupiedIn(pages[q]) : e = Entry(pages, q, t)
  BY SlotsOccupied, Entries, HeapIs
<1>5. /\ \A q \in 1 .. Len(pages) : \A t \in OccupiedIn(pages'[q]) : Entry(pages', q, t) \in HeapNow'
      /\ \A e \in HeapNow' :
           \E q \in 1 .. Len(pages) : \E t \in OccupiedIn(pages'[q]) : e = Entry(pages', q, t)
  BY <1>1, SlotsOccupiedNext, Entries, HeapIs
<1>6. \A q, t, u, v : Entry(pages, q, t) = Entry(pages, u, v) => q = u /\ t = v
  <2>1. \A q, t : Entry(pages, q, t).page = q /\ Entry(pages, q, t).slot = t
    BY DEF Entry
  <2> QED
    BY <2>1
<1> HIDE DEF old
<1>7. HeapNow' = HeapNow \ {old}
  <2>1. ASSUME NEW e \in HeapNow'
        PROVE  e \in HeapNow \ {old}
    <3>1. PICK q \in 1 .. Len(pages) : \E t \in OccupiedIn(pages'[q]) : e = Entry(pages', q, t)
      BY <1>5
    <3>2. PICK t \in OccupiedIn(pages'[q]) : e = Entry(pages', q, t)
      BY <3>1
    <3>3. e = Entry(pages, q, t) /\ t \in OccupiedIn(pages[q]) /\ ~(q = p /\ t = s)
      BY <1>2, <1>3, <3>2
    <3> QED
      BY <1>4, <1>6, <3>3 DEF old
  <2>2. ASSUME NEW e \in HeapNow, e # old
        PROVE  e \in HeapNow'
    <3>1. PICK q \in 1 .. Len(pages) : \E t \in OccupiedIn(pages[q]) : e = Entry(pages, q, t)
      BY <1>4
    <3>2. PICK t \in OccupiedIn(pages[q]) : e = Entry(pages, q, t)
      BY <3>1
    <3>3. t \in OccupiedIn(pages'[q]) /\ e = Entry(pages', q, t)
      BY <1>2, <1>3, <2>2, <3>2 DEF old
    <3> QED
      BY <1>5, <3>3
  <2> QED
    BY <2>1, <2>2
<1>8. old \in HeapNow
  BY <1>1, <1>4 DEF old
<1> QED
  BY <1>7, <1>8 DEF Whole!Release

LEMMA CompactedRelocates ==
  ASSUME Settings, IInv, IInv', NEW which, Compacted(which)
  PROVE  Whole!Relocate
<1> DEFINE at(q, t) == IF q \in which THEN Rank(pages[q], t) ELSE t
<1>1. /\ Len(pages') = Len(pages)
      /\ \A q \in 1 .. Len(pages) : pages'[q] = IF q \in which THEN Packed(pages[q]) ELSE pages[q]
  BY DEF Compacted
<1>2. ASSUME NEW q \in 1 .. Len(pages)
      PROVE  /\ \A t \in OccupiedIn(pages[q]) :
                  /\ at(q, t) \in OccupiedIn(pages'[q])
                  /\ pages'[q].content[at(q, t)] = pages[q].content[t]
             /\ \A t, u \in OccupiedIn(pages[q]) : at(q, t) = at(q, u) => t = u
             /\ \A t, u \in OccupiedIn(pages[q]) : t < u => at(q, t) < at(q, u)
             /\ \A v \in OccupiedIn(pages'[q]) : \E t \in OccupiedIn(pages[q]) : at(q, t) = v
  <2> DEFINE page == pages[q]
             Live == OccupiedIn(page)
             n == Cardinality(Live)
  <2>1. CASE q \notin which
    BY <1>1, <2>1
  <2>2. CASE q \in which
    <3>1. page.object_count \in Nat /\ page \in PageRecord
      BY PageTypes DEF IInv
    <3>2. pages'[q] = Packed(page) /\ \A t : at(q, t) = Rank(page, t)
      BY <1>1, <2>2
    <3> HIDE DEF page, at
    <3>3. "object_count" \in DOMAIN page /\ "free_mask" \in DOMAIN page /\ "content" \in DOMAIN page
      BY <3>1 DEF PageRecord
    <3>4. /\ OccupiedIn(Packed(page)) = 0 .. n - 1
          /\ \A t \in Live : Packed(page).content[Rank(page, t)] = page.content[t]
      BY <3>1, <3>3, PackedLayout
    <3>5. \A t \in Live : Rank(page, t) \in 0 .. n - 1 /\ t \in Nat /\ Rank(page, t) \in Nat
      BY <3>1, LiveRanks, LiveSlots
    <3>6. \A t, u \in Live : Rank(page, t) = Rank(page, u) => t = u
      BY <3>1, LiveRanks
    <3>7. \A t, u \in Live : t < u => Rank(page, t) < Rank(page, u)
      BY <3>1, <3>5, LiveRanks
    <3>8. \A v \in 0 .. n - 1 : \E t \in Live : Rank(page, t) = v
      BY <3>1, LiveRanks
    <3> QED
      BY <3>2, <3>4, <3>5, <3>6, <3>7, <3>8 DEF page
  <2> QED
    BY <2>1, <2>2
<1> HIDE DEF at
<1> DEFINE image(e) == [object |-> e.object, page |-> e.page, slot |-> at(e.page, e.slot)]
           to == [e \in HeapNow |-> image(e)]
<1>3. \A q, t : /\ Entry(pages, q, t).object = pages[q].content[t]
                /\ Entry(pages, q, t).page = q /\ Entry(pages, q, t).slot = t
  BY DEF Entry
<1>4. /\ \A q \in 1 .. Len(pages) : \A t \in OccupiedIn(pages[q]) : Entry(pages, q, t) \in HeapNow
      /\ \A e \in HeapNow :
           \E q \in 1 .. Len(pages) : \E t \in OccupiedIn(pages[q]) : e = Entry(pages, q, t)
  BY SlotsOccupied, Entries, HeapIs
<1>5. /\ \A q \in 1 .. Len(pages) : \A t \in OccupiedIn(pages'[q]) : Entry(pages', q, t) \in HeapNow'
      /\ \A e \in HeapNow' :
           \E q \in 1 .. Len(pages) : \E t \in OccupiedIn(pages'[q]) : e = Entry(pages', q, t)
  BY <1>1, SlotsOccupiedNext, Entries, HeapIs
<1>6. ASSUME NEW q \in 1 .. Len(pages), NEW t \in OccupiedIn(pages[q])
      PROVE  /\ at(q, t) \in OccupiedIn(pages'[q])
             /\ image(Entry(pages, q, t)) = Entry(pages', q, at(q, t))
  <2>1. at(q, t) \in OccupiedIn(pages'[q]) /\ pages'[q].content[at(q, t)] = pages[q].content[t]
    BY <1>2
  <2> QED
    BY <1>3, <2>1 DEF Entry
<1>7. \A e \in HeapNow : image(e).object = e.object /\ image(e).page = e.page
                         /\ image(e).slot = at(e.page, e.slot)
  OBVIOUS
<1> HIDE DEF image
<1>8. to \in [HeapNow -> HeapNow']
  <2>1. ASSUME NEW e \in HeapNow
        PROVE  image(e) \in HeapNow'
    <3>1. PICK q \in 1 .. Len(pages) : \E t \in OccupiedIn(pages[q]) : e = Entry(pages, q, t)
      BY <1>4
    <3>2. PICK t \in OccupiedIn(pages[q]) : e = Entry(pages, q, t)
      BY <3>1
    <3> QED
      BY <1>5, <1>6, <3>2
  <2> QED
    BY <2>1
<1>9. ASSUME NEW e \in HeapNow, NEW f \in HeapNow, image(e) = image(f)
      PROVE  e = f
  <2>1. PICK q \in 1 .. Len(pages) : \E t \in OccupiedIn(pages[q]) : e = Entry(pages, q, t)
    BY <1>4
  <2>2. PICK t \in OccupiedIn(pages[q]) : e = Entry(pages, q, t)
    BY <2>1
  <2>3. PICK u \in 1 .. Len(pages) : \E v \in OccupiedIn(pages[u]) : f = Entry(pages, u, v)
    BY <1>4
  <2>4. PICK v \in OccupiedIn(pages[u]) : f = Entry(pages, u, v)
    BY <2>3
  <2>5. q = u
    BY <1>3, <1>7, <1>9, <2>2, <2>4
  <2>6. at(q, t) = at(q, v)
    BY <1>3, <1>7, <1>9, <2>2, <2>4, <2>5
  <2>7. t = v
    BY <1>2, <2>5, <2>6
  <2> QED
    BY <2>2, <2>4, <2>5, <2>7
<1>10. ASSUME NEW f \in HeapNow'
       PROVE  \E e \in HeapNow : image(e) = f
  <2>1. PICK q \in 1 .. Len(pages) : \E v \in OccupiedIn(pages'[q]) : f = Entry(pages', q, v)
    BY <1>5
  <2>2. PICK v \in OccupiedIn(pages'[q]) : f = Entry(pages', q, v)
    BY <2>1
  <2>3. PICK t \in OccupiedIn(pages[q]) : at(q, t) = v
    BY <1>2
  <2> QED
    BY <1>4, <1>6, <2>2, <2>3
<1>11. ASSUME NEW e \in HeapNow, NEW f \in HeapNow, e.page = f.page, e.slot < f.slot
       PROVE  image(e).slot < image(f).slot
  <2>1. PICK q \in 1 .. Len(pages) : \E t \in OccupiedIn(pages[q]) : e = Entry(pages, q, t)
    BY <1>4
  <2>2. PICK t \in OccupiedIn(pages[q]) : e = Entry(pages, q, t)
    BY <2>1
  <2>3. PICK u \in 1 .. Len(pages) : \E v \in OccupiedIn(pages[u]) : f = Entry(pages, u, v)
    BY <1>4
  <2>4. PICK v \in OccupiedIn(pages[u]) : f = Entry(pages, u, v)
    BY <2>3
  <2>5. q = u /\ t < v
    BY <1>3, <1>11, <2>2, <2>4
  <2>6. at(q, t) < at(q, v)
    BY <1>2, <2>5
  <2> QED
    BY <1>3, <1>7, <2>2, <2>4, <2>5, <2>6
<1>12. to \in Bijection(HeapNow, HeapNow')
  <2>1. \A e, f \in HeapNow : to[e] = to[f] => e = f
    BY <1>9
  <2>2. \A f \in HeapNow' : \E e \in HeapNow : to[e] = f
    BY <1>10
  <2> QED
    BY <1>8, <2>1, <2>2 DEF Bijection, Injection, Surjection, IsInjective
<1>13. \A e, f \in HeapNow :
         /\ to[e].object = e.object /\ to[e].page = e.page
         /\ e.page = f.page /\ e.slot < f.slot => to[e].slot < to[f].slot
  BY <1>7, <1>11
<1> HIDE DEF to
<1> QED
  BY <1>12, <1>13 DEF Whole!Relocate, Whole!Bijection, Whole!Injection, Whole!Surjection, Whole!IsInjective,
                      Bijection, Injection, Surjection, IsInjective

LEMMA WholeIsHeap ==
  ASSUME ~overrun, ~overrun', Whole!Next
  PROVE  Heap!Next
<1>1. HeapSeen = HeapNow /\ HeapSeen' = HeapNow'
  BY DEF HeapSeen
<1> QED
  BY <1>1 DEF Whole!Next, Whole!Allocate, Whole!Release, Whole!Clear, Whole!Relocate,
              Heap!Next, Heap!Allocate, Heap!Release, Heap!Clear, Heap!Relocate,
              Heap!Bijection, Heap!Injection, Heap!Surjection, Heap!IsInjective,
              Whole!Bijection, Whole!Injection, Whole!Surjection, Whole!IsInjective

(* Once there has been an overrun nothing is left to look at.              *)
LEMMA Overrun ==
  ASSUME overrun', HeapSeen = {} \/ ~overrun
  PROVE  [Heap!Next]_HeapSeen
<1>1. HeapSeen' = {}
  BY DEF HeapSeen
<1> QED
  BY <1>1 DEF Heap!Next, Heap!Clear

LEMMA StepRefines ==
  ASSUME Settings, IInv, [Next]_vars
  PROVE  [Heap!Next]_HeapSeen
<1>1. IInv'
  BY StepKeeps
<1>2. ASSUME pages' = << >>
      PROVE  Heap!Next
  <2>1. 1 .. Len(pages') = {}
    BY <1>2, EmptySeq
  <2>2. HeapOf(pages') = {}
    BY <2>1 DEF HeapOf
  <2>3. HeapSeen' = {}
    BY <2>2, HeapIs DEF HeapSeen
  <2> QED
    BY <2>3 DEF Heap!Clear, Heap!Next
<1>3. ASSUME pages' = pages, overrun' = overrun
      PROVE  HeapSeen' = HeapSeen
  BY <1>3, HeapIs DEF HeapSeen
<1>4. ASSUME NEW n \in 1 .. MAX_PAGES, initialize(n)
      PROVE  Heap!Next
  BY <1>2, <1>4 DEF initialize
<1>5. CASE shutdown
  BY <1>2, <1>5 DEF shutdown
<1>6. ASSUME overrun \/ overrun'
      PROVE  overrun' \/ pages' = << >>
  <2>1. CASE shutdown \/ \E n \in 1 .. MAX_PAGES : initialize(n)
    BY <2>1 DEF initialize, shutdown
  <2>2. ASSUME NEW o \in Object \ DOMAIN held, NEW class \in Class, NEW parent \in Parent,
               AllocateFromPage(o, class, parent) \/ AllocateFromNewPage(o, class, parent)
        PROVE  overrun'
    <3>1. PICK p, s : HandOut(o, class, parent, p, s)
      BY <2>2, Zenon DEF AllocateFromPage, AllocateFromNewPage
    <3>2. overrun => overrun'
      BY <3>1, Zenon DEF HandOut
    <3> QED
      BY <1>6, <3>2
  <2>3. ASSUME overrun' = overrun
        PROVE  overrun'
    BY <1>6, <2>3
  <2>4. ASSUME NEW class \in Class, NEW parent \in Parent, AllocateNoPage(class, parent)
        PROVE  overrun' = overrun
    BY <2>4 DEF AllocateNoPage, history
  <2>5. ASSUME NEW o \in DOMAIN held, release(o) \/ ReleaseRefused(o)
        PROVE  overrun' = overrun
    BY <2>5 DEF release, ReleaseRefused
  <2>6. CASE compactAll \/ \E key \in Key : compact(key)
    BY <2>3, <2>6 DEF compactAll, compact, CompactPages
  <2>7. CASE UNCHANGED vars
    BY <2>3, <2>7 DEF vars, history
  <2> QED
    BY <2>1, <2>2, <2>3, <2>4, <2>5, <2>6, <2>7 DEF Next
<1>7. CASE overrun \/ overrun'
  <2>1. CASE pages' = << >>
    BY <1>2, <2>1
  <2>2. CASE overrun'
    <3>1. HeapSeen = {} \/ ~overrun
      BY DEF HeapSeen
    <3> QED
      BY <2>2, <3>1, Overrun
  <2> QED
    BY <1>6, <1>7, <2>1, <2>2
<1>8. CASE ~overrun /\ ~overrun'
  <2>1. ASSUME NEW o \in Object \ DOMAIN held, NEW class \in Class, NEW parent \in Parent,
               AllocateFromPage(o, class, parent) \/ AllocateFromNewPage(o, class, parent)
        PROVE  Heap!Next
    <3>1. \E p, s, base : Taken(o, class, p, s, base)
      BY <2>1, AllocateFromPageKeeps, AllocateFromNewPageKeeps
    <3>2. Whole!Next
      BY <1>1, <1>8, <3>1, TakenAllocates DEF Whole!Next
    <3> QED
      BY <1>8, <3>2, WholeIsHeap
  <2>2. ASSUME NEW class \in Class, NEW parent \in Parent, AllocateNoPage(class, parent)
        PROVE  HeapSeen' = HeapSeen
    BY <1>3, <2>2 DEF AllocateNoPage, history
  <2>3. ASSUME NEW o \in DOMAIN held, release(o)
        PROVE  Heap!Next
    <3>1. \E p, s : GivenBack(p, s)
      BY <2>3, ReleaseKeeps
    <3>2. Whole!Next
      BY <1>1, <3>1, GivenBackReleases DEF Whole!Next
    <3> QED
      BY <1>8, <3>2, WholeIsHeap
  <2>4. ASSUME NEW o \in DOMAIN held, ReleaseRefused(o)
        PROVE  HeapSeen' = HeapSeen
    BY <1>3, <2>4 DEF ReleaseRefused
  <2>5. ASSUME \E which : Compacted(which)
        PROVE  Heap!Next
    <3>1. Whole!Next
      BY <1>1, <2>5, CompactedRelocates DEF Whole!Next
    <3> QED
      BY <1>8, <3>1, WholeIsHeap
  <2>6. ASSUME NEW key \in Key, compact(key)
        PROVE  Heap!Next
    BY <2>5, <2>6, CompactKeeps
  <2>7. CASE compactAll
    BY <2>5, <2>7, CompactAllKeeps
  <2>8. CASE UNCHANGED vars
    BY <1>3, <2>8 DEF vars, history
  <2> QED
    BY <1>4, <1>5, <2>1, <2>2, <2>3, <2>4, <2>6, <2>7, <2>8 DEF Next
<1> QED
  BY <1>7, <1>8

(* The allocator does nothing to the objects in memory but what ObjectHeap *)
(* allows: each step allocates one, releases one, moves some or forgets    *)
(* all (allocate, release, compact, initialize, stale pointers and classes *)
(* of several sizes under one type included).  The first object put in a   *)
(* slot too small for it counts as the end of the heap: what it overwrites *)
(* is not followed any further.                                            *)
THEOREM HeapImplemented ==
  ASSUME Settings
  PROVE  Spec => ImplementsHeap
<1>1. Init => Heap!Init
  <2> SUFFICES ASSUME Init PROVE Heap!Init
    OBVIOUS
  <2>1. 1 .. Len(pages) = {}
    BY EmptySeq DEF Init
  <2>2. HeapOf(pages) = {}
    BY <2>1 DEF HeapOf
  <2> QED
    BY <2>2, HeapIs DEF Heap!Init, HeapSeen
<1>2. IInv /\ [Next]_vars => [Heap!Next]_HeapSeen
  BY StepRefines
<1> QED
  BY <1>1, <1>2, Invariant, PTL DEF Spec, ImplementsHeap, Heap!Spec

-----------------------------------------------------------------------------
(* The compaction loop of one page, slot by slot. *)

LoopLive == OccupiedIn(original)
LoopSlots == SlotsOf(original)

(* Where the loop has got to, in terms of the page it began with: the live *)
(* slots read so far are in front, in order; from write_slot on no content *)
(* has changed, and the slots between the two cursors are free.            *)
LoopInv ==
  /\ original.object_count \in Nat
  /\ original \in PageOf(original.object_count)
  /\ this_page \in PageOf(original.object_count)
  /\ read_slot \in 0 .. original.object_count
  /\ write_slot \in 0 .. read_slot
  /\ write_slot = Rank(original, read_slot)
  /\ this_page.free_mask = { k \in original.free_mask : k >= read_slot }
                        \union (write_slot .. read_slot - 1)
  /\ \A k \in 0 .. write_slot - 1 :
       \E s \in LoopLive : /\ s < read_slot
                       /\ Rank(original, s) = k
                       /\ this_page.content[k] = original.content[s]
  /\ \A k \in LoopSlots : k >= write_slot => this_page.content[k] = original.content[k]

LEMMA PageFields ==
  ASSUME NEW n, NEW r \in PageOf(n)
  PROVE  /\ r.object_count = n
         /\ r.free_mask \subseteq 0 .. n - 1
         /\ r.content \in [0 .. n - 1 -> Content]
  BY DEF PageOf

(* The ranks of the slots of the page the loop began with.                 *)
LEMMA OriginalRanks ==
  ASSUME original.object_count \in Nat
  PROVE  /\ LoopLive \subseteq Nat
         /\ IsFiniteSet(LoopLive)
         /\ \A s \in Nat :
              /\ Rank(original, s) \in Nat
              /\ Rank(original, s + 1) = IF s \in LoopLive THEN Rank(original, s) + 1 ELSE Rank(original, s)
         /\ \A s, t \in LoopLive : s < t => Rank(original, s) < Rank(original, t)
<1>1. LoopLive \subseteq 0 .. original.object_count - 1
  BY DEF LoopLive, OccupiedIn, SlotsOf
<1>2. \A s : Rank(original, s) = RankOf(LoopLive, s)
  BY DEF Rank, RankOf, LoopLive
<1> HIDE DEF LoopLive
<1>3. LoopLive \subseteq Nat /\ IsFiniteSet(LoopLive) /\ \A s \in Nat : RankOf(LoopLive, s) \in Nat
  BY <1>1, RankTypes
<1>4. \A s \in Nat :
        RankOf(LoopLive, s + 1) = IF s \in LoopLive THEN RankOf(LoopLive, s) + 1 ELSE RankOf(LoopLive, s)
  BY <1>1, RankSteps
<1>5. \A s, t \in LoopLive : s < t => RankOf(LoopLive, s) < RankOf(LoopLive, t)
  BY <1>1, RanksGrow
<1> QED
  BY <1>2, <1>3, <1>4, <1>5

LEMMA InitLoop == PageAssumption /\ LoopInit => LoopInv
<1> SUFFICES ASSUME PageAssumption, LoopInit
             PROVE  LoopInv
  OBVIOUS
<1>1. PICK count \in 1 .. SLOT_BITS : this_page \in PageOf(count)
  BY DEF LoopInit
<1>2. count \in Nat /\ original = this_page /\ read_slot = 0 /\ write_slot = 0
  BY <1>1 DEF LoopInit, PageAssumption
<1>3. original.object_count = count /\ original.free_mask \subseteq 0 .. count - 1
  BY <1>1, <1>2, PageFields
<1>4. Rank(original, 0) = 0
  <2>1. { t \in LoopLive : t < 0 } = {}
    BY <1>2, <1>3 DEF LoopLive, OccupiedIn, SlotsOf
  <2> QED
    BY <2>1, FS_EmptySet DEF Rank, LoopLive
<1>5. this_page.free_mask = { k \in original.free_mask : k >= 0 } \union (0 .. -1)
  BY <1>2, <1>3
<1> QED
  BY <1>1, <1>2, <1>3, <1>4, <1>5 DEF LoopInv

LEMMA StepLoop == LoopInv /\ [LoopNext]_loopVars => LoopInv'
<1> SUFFICES ASSUME LoopInv, [LoopNext]_loopVars
             PROVE  LoopInv'
  OBVIOUS
<1> DEFINE N == original.object_count
<1>1. /\ N \in Nat /\ original \in PageOf(N) /\ this_page \in PageOf(N)
      /\ original.free_mask \subseteq 0 .. N - 1
      /\ this_page.object_count = N /\ this_page.content \in [0 .. N - 1 -> Content]
      /\ this_page.free_mask \subseteq 0 .. N - 1
      /\ read_slot \in 0 .. N /\ write_slot \in 0 .. read_slot
      /\ LoopSlots = 0 .. N - 1 /\ LoopLive = (0 .. N - 1) \ original.free_mask
  BY PageFields DEF LoopInv, LoopSlots, LoopLive, SlotsOf, OccupiedIn
<1>2. original' = original /\ LoopLive' = LoopLive /\ LoopSlots' = LoopSlots
  BY DEF LoopNext, SkipFree, KeepInPlace, MoveDown, loopVars, LoopLive, LoopSlots
<1>3. ASSUME read_slot < N
      PROVE  /\ read_slot \in this_page.free_mask <=> read_slot \notin LoopLive
             /\ Rank(original, read_slot + 1) =
                  IF read_slot \in LoopLive THEN write_slot + 1 ELSE write_slot
  <2>1. read_slot \in Nat /\ read_slot \in 0 .. N - 1
    BY <1>1, <1>3
  <2>2. write_slot = Rank(original, read_slot)
    BY DEF LoopInv
  <2>3. ~(read_slot \in write_slot .. read_slot - 1) /\ read_slot >= read_slot
    BY <1>1
  <2>4. read_slot \in this_page.free_mask <=> read_slot \in original.free_mask
    BY <2>3 DEF LoopInv
  <2> QED
    BY <1>1, <2>1, <2>2, <2>4, OriginalRanks
<1>4. /\ this_page.free_mask = { k \in original.free_mask : k >= read_slot }
                        \union (write_slot .. read_slot - 1)
      /\ write_slot = Rank(original, read_slot)
      /\ \A k \in 0 .. write_slot - 1 :
           \E s \in LoopLive : /\ s < read_slot
                           /\ Rank(original, s) = k
                           /\ this_page.content[k] = original.content[s]
      /\ \A k \in 0 .. N - 1 : k >= write_slot => this_page.content[k] = original.content[k]
  BY <1>1 DEF LoopInv
<1>5. CASE SkipFree
  <2>1. /\ read_slot < N /\ read_slot \notin LoopLive
        /\ this_page' = this_page /\ read_slot' = read_slot + 1 /\ write_slot' = write_slot
    BY <1>1, <1>3, <1>5 DEF SkipFree
  <2>2. this_page'.free_mask = { k \in original.free_mask : k >= read_slot' }
                            \union (write_slot' .. read_slot' - 1)
    BY <1>1, <1>4, <2>1
  <2>3. write_slot' = Rank(original, read_slot')
    BY <1>3, <2>1
  <2>4. \A s \in LoopLive : s < read_slot => s < read_slot'
    BY <1>1, <2>1
  <2> QED
    BY <1>1, <1>2, <1>4, <2>1, <2>2, <2>3, <2>4 DEF LoopInv
<1>6. CASE KeepInPlace
  <2>1. /\ read_slot < N /\ read_slot \in LoopLive /\ write_slot = read_slot
        /\ this_page' = this_page /\ read_slot' = read_slot + 1 /\ write_slot' = write_slot + 1
    BY <1>1, <1>3, <1>6 DEF KeepInPlace
  <2>2. this_page'.free_mask = { k \in original.free_mask : k >= read_slot' }
                            \union (write_slot' .. read_slot' - 1)
    BY <1>1, <1>4, <2>1, SMTT(30)
  <2>3. write_slot' = Rank(original, read_slot')
    BY <1>3, <2>1
  <2>4. ASSUME NEW k \in 0 .. write_slot' - 1
        PROVE  \E s \in LoopLive : /\ s < read_slot'
                               /\ Rank(original, s) = k
                               /\ this_page'.content[k] = original.content[s]
    <3>1. CASE k = write_slot
      <4>1. read_slot < read_slot' /\ Rank(original, read_slot) = k
        BY <1>1, <1>4, <2>1, <3>1
      <4>2. this_page'.content[k] = original.content[read_slot]
        BY <1>1, <1>4, <2>1, <3>1
      <4> QED
        BY <2>1, <4>1, <4>2
    <3>2. CASE k # write_slot
      <4>1. k \in 0 .. write_slot - 1
        BY <1>1, <2>1, <3>2
      <4>2. \A s \in LoopLive : s < read_slot => s < read_slot'
        BY <1>1, <2>1
      <4> QED
        BY <1>4, <2>1, <4>1, <4>2
    <3> QED
      BY <3>1, <3>2
  <2>5. \A k \in 0 .. N - 1 : k >= write_slot' => this_page'.content[k] = original.content[k]
    BY <1>1, <1>4, <2>1
  <2>6. read_slot' \in 0 .. N /\ write_slot' \in 0 .. read_slot'
    BY <1>1, <2>1
  <2> QED
    BY <1>1, <1>2, <2>1, <2>2, <2>3, <2>4, <2>5, <2>6 DEF LoopInv
<1>8. CASE MoveDown
  <2>1. /\ read_slot < N /\ read_slot \in LoopLive /\ write_slot < read_slot
        /\ read_slot' = read_slot + 1 /\ write_slot' = write_slot + 1
    BY <1>1, <1>3, <1>8 DEF MoveDown
  <2>2. /\ this_page' \in PageOf(N)
        /\ this_page'.free_mask = (this_page.free_mask \union {read_slot}) \ {write_slot}
        /\ this_page'.content = [this_page.content EXCEPT ![write_slot] = this_page.content[read_slot]]
    BY <1>1, <1>8, <2>1 DEF MoveDown, PageOf
  <2>3. this_page'.free_mask = { k \in original.free_mask : k >= read_slot' }
                            \union (write_slot' .. read_slot' - 1)
    BY <1>1, <1>4, <2>1, <2>2
  <2>4. write_slot' = Rank(original, read_slot')
    BY <1>3, <2>1
  <2>5. /\ this_page'.content[write_slot] = original.content[read_slot]
        /\ \A k \in 0 .. N - 1 : k # write_slot => this_page'.content[k] = this_page.content[k]
    BY <1>1, <1>4, <2>1, <2>2
  <2>6. ASSUME NEW k \in 0 .. write_slot' - 1
        PROVE  \E s \in LoopLive : /\ s < read_slot'
                               /\ Rank(original, s) = k
                               /\ this_page'.content[k] = original.content[s]
    <3>1. CASE k = write_slot
      <4>1. read_slot < read_slot' /\ Rank(original, read_slot) = k
        BY <1>1, <1>4, <2>1, <3>1
      <4> QED
        BY <2>1, <2>5, <3>1, <4>1
    <3>2. CASE k # write_slot
      <4>1. k \in 0 .. write_slot - 1 /\ this_page'.content[k] = this_page.content[k]
        BY <1>1, <2>1, <2>5, <3>2
      <4>2. \A s \in LoopLive : s < read_slot => s < read_slot'
        BY <1>1, <2>1
      <4> QED
        BY <1>4, <4>1, <4>2
    <3> QED
      BY <3>1, <3>2
  <2>7. ASSUME NEW k \in 0 .. N - 1, k >= write_slot'
        PROVE  this_page'.content[k] = original.content[k]
    BY <1>1, <1>4, <2>1, <2>5, <2>7
  <2> QED
    BY <1>1, <1>2, <2>1, <2>2, <2>3, <2>4, <2>6, <2>7 DEF LoopInv
<1>7. CASE UNCHANGED loopVars
  BY <1>7 DEF loopVars, LoopInv, LoopLive, LoopSlots
<1> QED
  BY <1>5, <1>6, <1>7, <1>8 DEF LoopNext

(* When the cursor has run through the page, it is the packed original.    *)
LEMMA LoopDone == LoopInv => LoopPacks
<1> SUFFICES ASSUME LoopInv, read_slot = this_page.object_count
             PROVE  this_page = Packed(original)
  BY DEF LoopPacks
<1> DEFINE N == original.object_count
           live == Cardinality(LoopLive)
           source(k) == CHOOSE s \in LoopLive : Rank(original, s) = k
<1>1. /\ N \in Nat /\ original \in PageOf(N) /\ this_page \in PageOf(N)
      /\ original.free_mask \subseteq 0 .. N - 1
      /\ original.object_count = N /\ original.content \in [0 .. N - 1 -> Content]
      /\ this_page.object_count = N /\ this_page.content \in [0 .. N - 1 -> Content]
      /\ read_slot = N /\ write_slot \in 0 .. N
      /\ LoopSlots = 0 .. N - 1 /\ LoopLive = (0 .. N - 1) \ original.free_mask
  BY PageFields DEF LoopInv, LoopSlots, LoopLive, SlotsOf, OccupiedIn
<1>2. write_slot = live
  <2>1. { t \in LoopLive : t < N } = LoopLive
    BY <1>1
  <2> QED
    BY <1>1, <2>1 DEF LoopInv, Rank, LoopLive
<1>3. this_page.free_mask = live .. N - 1
  BY <1>1, <1>2 DEF LoopInv
<1>4. ASSUME NEW k \in 0 .. N - 1
      PROVE  this_page.content[k] = IF k < live THEN original.content[source(k)]
                               ELSE original.content[k]
  <2>1. CASE k < live
    <3>1. k \in 0 .. write_slot - 1
      BY <1>1, <1>2, <2>1
    <3>2. PICK s \in LoopLive : Rank(original, s) = k /\ this_page.content[k] = original.content[s]
      BY <3>1 DEF LoopInv
    <3>3. ASSUME NEW t \in LoopLive, Rank(original, t) = k
          PROVE  t = s
      <4>1. s \in Nat /\ t \in Nat /\ k \in Nat
        BY <1>1, OriginalRanks
      <4>2. s < t => Rank(original, s) < Rank(original, t)
        BY <1>1, OriginalRanks
      <4>3. t < s => Rank(original, t) < Rank(original, s)
        BY <1>1, OriginalRanks
      <4> QED
        BY <3>2, <3>3, <4>1, <4>2, <4>3
    <3>4. source(k) = s
      BY <3>2, <3>3
    <3> QED
      BY <2>1, <3>2, <3>4
  <2>2. CASE ~(k < live)
    <3>1. k >= write_slot
      BY <1>1, <1>2, <2>2
    <3>2. this_page.content[k] = original.content[k]
      BY <1>1, <3>1 DEF LoopInv
    <3> QED
      BY <2>2, <3>2
  <2> QED
    BY <2>1, <2>2
<1>5. this_page.content = [k \in 0 .. N - 1 |-> IF k < live THEN original.content[source(k)]
                                           ELSE original.content[k]]
  BY <1>1, <1>4
<1>6. SlotsOf(original) = 0 .. N - 1 /\ OccupiedIn(original) = LoopLive
  BY <1>1 DEF LoopSlots, LoopLive
<1>7. Packed(original) =
        [original EXCEPT !.free_mask = live .. N - 1,
                         !.content = [k \in 0 .. N - 1 |->
                            IF k < live THEN original.content[source(k)] ELSE original.content[k]]]
  BY <1>6 DEF Packed
<1> HIDE DEF live, source
<1>8. Packed(original) =
        [original EXCEPT !.free_mask = this_page.free_mask, !.content = this_page.content]
  BY <1>3, <1>5, <1>7
<1> QED
  BY <1>1, <1>8 DEF PageOf

(* The compaction loop leaves any page with its live slots in front, in    *)
(* order, whatever its size, mask and contents (LoopPacks).                *)
THEOREM CompactionPacks == LoopSpec => []LoopPacks
<1>1. LoopInit => LoopInv
  BY InitLoop, PageAssumption
<1> QED
  BY <1>1, StepLoop, LoopDone, PTL DEF LoopSpec

MoveSafe ==
  /\ \A k \in SlotsOf(this_page) :
       this_page'.content[k] # this_page.content[k] => k \in this_page.free_mask
  /\ Cardinality(this_page'.free_mask) = Cardinality(this_page.free_mask)

LEMMA MoveIsSafe == LoopInv /\ MoveDown => MoveSafe
<1> SUFFICES ASSUME LoopInv, MoveDown
             PROVE  MoveSafe
  OBVIOUS
<1> DEFINE N == original.object_count
           mask == this_page.free_mask
<1>1. /\ N \in Nat /\ this_page \in PageOf(N)
      /\ this_page.object_count = N /\ this_page.content \in [0 .. N - 1 -> Content]
      /\ mask \subseteq 0 .. N - 1
      /\ read_slot \in 0 .. N /\ write_slot \in 0 .. read_slot
      /\ SlotsOf(this_page) = 0 .. N - 1
  BY PageFields DEF LoopInv, SlotsOf
<1>2. /\ read_slot \notin mask /\ write_slot # read_slot
      /\ this_page'.free_mask = (mask \union {read_slot}) \ {write_slot}
      /\ this_page'.content = [this_page.content EXCEPT ![write_slot] = this_page.content[read_slot]]
  BY <1>1 DEF MoveDown, PageOf
<1>3. write_slot \in mask
  <2>1. write_slot \in write_slot .. read_slot - 1
    BY <1>1, <1>2
  <2> QED
    BY <2>1 DEF LoopInv
<1>4. IsFiniteSet(mask)
  <2>1. IsFiniteSet(0 .. N - 1)
    BY <1>1, FS_Interval
  <2> QED
    BY <1>1, <2>1, FS_Subset
<1> HIDE DEF mask
<1>5. IsFiniteSet(mask \union {read_slot}) /\ Cardinality(mask \union {read_slot}) = Cardinality(mask) + 1
  BY <1>2, <1>4, FS_AddElement
<1>6. Cardinality((mask \union {read_slot}) \ {write_slot}) = Cardinality(mask \union {read_slot}) - 1
  BY <1>3, <1>5, FS_RemoveElement
<1>7. Cardinality(mask) \in Nat
  BY <1>4, FS_CardinalityType
<1>8. Cardinality(this_page'.free_mask) = Cardinality(mask)
  BY <1>2, <1>5, <1>6, <1>7
<1>9. \A k \in 0 .. N - 1 : this_page'.content[k] # this_page.content[k] => k \in mask
  BY <1>1, <1>2, <1>3
<1> QED
  BY <1>1, <1>8, <1>9 DEF MoveSafe, mask

(* No move writes over a live object, and every move keeps the number of   *)
(* live slots (NoLiveOverwrite).                                           *)
THEOREM MovesAreSafe == LoopSpec => NoLiveOverwrite
<1>1. LoopInit => LoopInv
  BY InitLoop, PageAssumption
<1>2. LoopInv /\ [LoopNext]_loopVars => [MoveSafe]_loopVars
  BY MoveIsSafe DEF LoopNext, SkipFree, KeepInPlace, loopVars, MoveSafe
<1> QED
  BY <1>1, <1>2, StepLoop, PTL DEF LoopSpec, NoLiveOverwrite, MoveSafe

=============================================================================
