-------------------------- MODULE JsonLinksProofs --------------------------
(***************************************************************************)
(* Proofs about the links of cJSON, for a heap of any size and whatever is *)
(* in it: each step that makes or changes links leaves the lists of        *)
(* children doubly linked, which the next one relies on, and moves the     *)
(* items it is about and no others; and none of them makes a circle.       *)
(***************************************************************************)
EXTENDS JsonLinks, Extrema

\* An item that is in no list: what cJSON_New_Item makes and Detach leaves.
Loose(h, n) ==
    /\ n \in LiveItems(h) /\ NextOf(h)[n] = NULL /\ PrevOf(h)[n] = NULL
    /\ \A m \in LiveItems(h) : ChildOf(h)[m] # n

-----------------------------------------------------------------------------
(* One assignment.                                                         *)

With(h, p, item) == [h EXCEPT !.mem[p] = item]

\* A node that is written anew.
LEMMA SetItem ==
    ASSUME NEW N \in Nat, NEW h \in Heap(N), NEW p \in 1 .. N, NEW item \in Item(N)
    PROVE  /\ With(h, p, item) \in Heap(N)
           /\ \A k \in 1 .. N : With(h, p, item).mem[k] = IF k = p THEN item ELSE h.mem[k]
  <1>1. h.mem \in [1 .. N -> Item(N)] /\ h.blocks \in Int /\ h.left \in Nat /\ h.bad \in BOOLEAN
    BY DEF Heap
  <1>2. PICK m : m = [h.mem EXCEPT ![p] = item]
    OBVIOUS
  <1>3. m \in [1 .. N -> Item(N)] /\ \A k \in 1 .. N : m[k] = IF k = p THEN item ELSE h.mem[k]
    BY <1>1, <1>2
  <1>4. With(h, p, item) = [h EXCEPT !.mem = m]
    BY <1>2, Zenon DEF With
  <1>5. With(h, p, item) \in Heap(N) /\ With(h, p, item).mem = m
    BY <1>1, <1>3, <1>4 DEF Heap
  <1> QED
    BY <1>3, <1>5

LEMMA LinkTypes ==
    ASSUME NEW N \in Nat, NEW h \in Heap(N)
    PROVE  /\ DOMAIN h.mem = 1 .. N /\ LiveItems(h) \subseteq 1 .. N
           /\ NextOf(h) \in [1 .. N -> 0 .. N]
           /\ PrevOf(h) \in [1 .. N -> 0 .. N]
           /\ ChildOf(h) \in [1 .. N -> 0 .. N]
  <1>1. DOMAIN h.mem = 1 .. N
    BY DEF Heap
  <1>2. \A n \in 1 .. N : h.mem[n] \in Item(N)
    BY DEF Heap
  <1>3. \A n \in 1 .. N : h.mem[n].next \in 0 .. N /\ h.mem[n].prev \in 0 .. N /\ h.mem[n].child \in 0 .. N
    BY <1>2 DEF Item
  <1> QED
    BY <1>1, <1>3 DEF LiveItems, NextOf, PrevOf, ChildOf

\* An assignment through a pointer that may be NULL.
NextSet(h, p, v)  == IF p # NULL THEN [h EXCEPT !.mem[p].next = v] ELSE h
PrevSet(h, p, v)  == IF p # NULL THEN [h EXCEPT !.mem[p].prev = v] ELSE h
ChildSet(h, p, v) == IF p # NULL THEN [h EXCEPT !.mem[p].child = v] ELSE h

LEMMA SetNext ==
    ASSUME NEW N \in Nat, NEW h \in Heap(N), NEW p \in 1 .. N, NEW v \in 0 .. N
    PROVE  /\ NextSet(h, p, v) \in Heap(N)
           /\ LiveItems(NextSet(h, p, v)) = LiveItems(h)
           /\ NextOf(NextSet(h, p, v)) = [NextOf(h) EXCEPT ![p] = v]
           /\ PrevOf(NextSet(h, p, v)) = PrevOf(h)
           /\ ChildOf(NextSet(h, p, v)) = ChildOf(h)
  <1>1. PICK r : r = NextSet(h, p, v)
    OBVIOUS
  <1>2. h.mem[p] \in Item(N)
    BY DEF Heap
  <1>3. PICK item : item = [h.mem[p] EXCEPT !.next = v]
    OBVIOUS
  <1>4. /\ item \in Item(N) /\ item.live = h.mem[p].live
        /\ item.next = v
        /\ item.prev = h.mem[p].prev
        /\ item.child = h.mem[p].child
    BY <1>2, <1>3 DEF Item
  <1>5. r = With(h, p, item)
    <2>1. p # NULL
      BY DEF NULL
    <2> QED
      BY <1>1, <1>3, <2>1, Zenon DEF With, NextSet
  <1>6. r \in Heap(N) /\ r.mem[p] = item /\ \A k \in 1 .. N : k # p => r.mem[k] = h.mem[k]
    <2>1. item \in Item(N)
      BY <1>4
    <2> QED
      BY <1>5, <2>1, SetItem
  <1>7. DOMAIN r.mem = 1 .. N /\ DOMAIN h.mem = 1 .. N
    BY <1>6, LinkTypes
  <1>8. LiveItems(r) = LiveItems(h)
    <2>1. ASSUME NEW k \in 1 .. N
          PROVE  r.mem[k].live = h.mem[k].live
      BY <1>4, <1>6
    <2> QED
      BY <1>7, <2>1 DEF LiveItems
  <1>9. NextOf(r) = [NextOf(h) EXCEPT ![p] = v]
    <2>1. ASSUME NEW k \in 1 .. N, k # p
          PROVE  r.mem[k].next = h.mem[k].next
      BY <1>6, <2>1
    <2>2. r.mem[p].next = v
      BY <1>4, <1>6
    <2> QED
      BY <1>7, <2>1, <2>2 DEF NextOf
  <1>10. PrevOf(r) = PrevOf(h)
    <2>1. ASSUME NEW k \in 1 .. N
          PROVE  r.mem[k].prev = h.mem[k].prev
      BY <1>4, <1>6
    <2> QED
      BY <1>7, <2>1 DEF PrevOf
  <1>11. ChildOf(r) = ChildOf(h)
    <2>1. ASSUME NEW k \in 1 .. N
          PROVE  r.mem[k].child = h.mem[k].child
      BY <1>4, <1>6
    <2> QED
      BY <1>7, <2>1 DEF ChildOf
  <1> QED
    BY <1>1, <1>6, <1>8, <1>9, <1>10, <1>11

LEMMA SetPrev ==
    ASSUME NEW N \in Nat, NEW h \in Heap(N), NEW p \in 1 .. N, NEW v \in 0 .. N
    PROVE  /\ PrevSet(h, p, v) \in Heap(N)
           /\ LiveItems(PrevSet(h, p, v)) = LiveItems(h)
           /\ NextOf(PrevSet(h, p, v)) = NextOf(h)
           /\ PrevOf(PrevSet(h, p, v)) = [PrevOf(h) EXCEPT ![p] = v]
           /\ ChildOf(PrevSet(h, p, v)) = ChildOf(h)
  <1>1. PICK r : r = PrevSet(h, p, v)
    OBVIOUS
  <1>2. h.mem[p] \in Item(N)
    BY DEF Heap
  <1>3. PICK item : item = [h.mem[p] EXCEPT !.prev = v]
    OBVIOUS
  <1>4. /\ item \in Item(N) /\ item.live = h.mem[p].live
        /\ item.next = h.mem[p].next
        /\ item.prev = v
        /\ item.child = h.mem[p].child
    BY <1>2, <1>3 DEF Item
  <1>5. r = With(h, p, item)
    <2>1. p # NULL
      BY DEF NULL
    <2> QED
      BY <1>1, <1>3, <2>1, Zenon DEF With, PrevSet
  <1>6. r \in Heap(N) /\ r.mem[p] = item /\ \A k \in 1 .. N : k # p => r.mem[k] = h.mem[k]
    <2>1. item \in Item(N)
      BY <1>4
    <2> QED
      BY <1>5, <2>1, SetItem
  <1>7. DOMAIN r.mem = 1 .. N /\ DOMAIN h.mem = 1 .. N
    BY <1>6, LinkTypes
  <1>8. LiveItems(r) = LiveItems(h)
    <2>1. ASSUME NEW k \in 1 .. N
          PROVE  r.mem[k].live = h.mem[k].live
      BY <1>4, <1>6
    <2> QED
      BY <1>7, <2>1 DEF LiveItems
  <1>9. NextOf(r) = NextOf(h)
    <2>1. ASSUME NEW k \in 1 .. N
          PROVE  r.mem[k].next = h.mem[k].next
      BY <1>4, <1>6
    <2> QED
      BY <1>7, <2>1 DEF NextOf
  <1>10. PrevOf(r) = [PrevOf(h) EXCEPT ![p] = v]
    <2>1. ASSUME NEW k \in 1 .. N, k # p
          PROVE  r.mem[k].prev = h.mem[k].prev
      BY <1>6, <2>1
    <2>2. r.mem[p].prev = v
      BY <1>4, <1>6
    <2> QED
      BY <1>7, <2>1, <2>2 DEF PrevOf
  <1>11. ChildOf(r) = ChildOf(h)
    <2>1. ASSUME NEW k \in 1 .. N
          PROVE  r.mem[k].child = h.mem[k].child
      BY <1>4, <1>6
    <2> QED
      BY <1>7, <2>1 DEF ChildOf
  <1> QED
    BY <1>1, <1>6, <1>8, <1>9, <1>10, <1>11

LEMMA SetChild ==
    ASSUME NEW N \in Nat, NEW h \in Heap(N), NEW p \in 1 .. N, NEW v \in 0 .. N
    PROVE  /\ ChildSet(h, p, v) \in Heap(N)
           /\ LiveItems(ChildSet(h, p, v)) = LiveItems(h)
           /\ NextOf(ChildSet(h, p, v)) = NextOf(h)
           /\ PrevOf(ChildSet(h, p, v)) = PrevOf(h)
           /\ ChildOf(ChildSet(h, p, v)) = [ChildOf(h) EXCEPT ![p] = v]
  <1>1. PICK r : r = ChildSet(h, p, v)
    OBVIOUS
  <1>2. h.mem[p] \in Item(N)
    BY DEF Heap
  <1>3. PICK item : item = [h.mem[p] EXCEPT !.child = v]
    OBVIOUS
  <1>4. /\ item \in Item(N) /\ item.live = h.mem[p].live
        /\ item.next = h.mem[p].next
        /\ item.prev = h.mem[p].prev
        /\ item.child = v
    BY <1>2, <1>3 DEF Item
  <1>5. r = With(h, p, item)
    <2>1. p # NULL
      BY DEF NULL
    <2> QED
      BY <1>1, <1>3, <2>1, Zenon DEF With, ChildSet
  <1>6. r \in Heap(N) /\ r.mem[p] = item /\ \A k \in 1 .. N : k # p => r.mem[k] = h.mem[k]
    <2>1. item \in Item(N)
      BY <1>4
    <2> QED
      BY <1>5, <2>1, SetItem
  <1>7. DOMAIN r.mem = 1 .. N /\ DOMAIN h.mem = 1 .. N
    BY <1>6, LinkTypes
  <1>8. LiveItems(r) = LiveItems(h)
    <2>1. ASSUME NEW k \in 1 .. N
          PROVE  r.mem[k].live = h.mem[k].live
      BY <1>4, <1>6
    <2> QED
      BY <1>7, <2>1 DEF LiveItems
  <1>9. NextOf(r) = NextOf(h)
    <2>1. ASSUME NEW k \in 1 .. N
          PROVE  r.mem[k].next = h.mem[k].next
      BY <1>4, <1>6
    <2> QED
      BY <1>7, <2>1 DEF NextOf
  <1>10. PrevOf(r) = PrevOf(h)
    <2>1. ASSUME NEW k \in 1 .. N
          PROVE  r.mem[k].prev = h.mem[k].prev
      BY <1>4, <1>6
    <2> QED
      BY <1>7, <2>1 DEF PrevOf
  <1>11. ChildOf(r) = [ChildOf(h) EXCEPT ![p] = v]
    <2>1. ASSUME NEW k \in 1 .. N, k # p
          PROVE  r.mem[k].child = h.mem[k].child
      BY <1>6, <2>1
    <2>2. r.mem[p].child = v
      BY <1>4, <1>6
    <2> QED
      BY <1>7, <2>1, <2>2 DEF ChildOf
  <1> QED
    BY <1>1, <1>6, <1>8, <1>9, <1>10, <1>11

\* The same for a pointer that may be NULL, as one fact about the whole heap.
Put(f, p, v) == IF p # NULL THEN [f EXCEPT ![p] = v] ELSE f

LinkedAs(h, N, live, next, prev, child) ==
    h \in Heap(N) /\ LiveItems(h) = live /\ NextOf(h) = next /\ PrevOf(h) = prev /\ ChildOf(h) = child

LEMMA NextIsSet ==
    ASSUME NEW N \in Nat, NEW h, NEW S, NEW nx, NEW pv, NEW ch, LinkedAs(h, N, S, nx, pv, ch),
           NEW p \in 0 .. N, NEW v \in 0 .. N
    PROVE  LinkedAs(NextSet(h, p, v), N, S, Put(nx, p, v), pv, ch)
  <1>1. h \in Heap(N) /\ LiveItems(h) = S /\ NextOf(h) = nx /\ PrevOf(h) = pv /\ ChildOf(h) = ch
    BY DEF LinkedAs
  <1>2. CASE p = NULL
    <2>1. NextSet(h, p, v) = h
      BY <1>2 DEF NextSet
    <2> QED
      BY <1>2, <2>1, Zenon DEF Put
  <1>3. CASE p # NULL
    <2>1. p \in 1 .. N
      BY <1>3 DEF NULL
    <2>2. PICK r : r = NextSet(h, p, v)
      OBVIOUS
    <2>3. r \in Heap(N) /\ LiveItems(r) = S
      BY <1>1, <2>1, <2>2, SetNext
    <2>4. NextOf(r) = [nx EXCEPT ![p] = v]
      BY <1>1, <2>1, <2>2, SetNext
    <2>5. PrevOf(r) = pv
      BY <1>1, <2>1, <2>2, SetNext
    <2>6. ChildOf(r) = ch
      BY <1>1, <2>1, <2>2, SetNext
    <2> QED
      BY <1>3, <2>2, <2>3, <2>4, <2>5, <2>6, Zenon DEF LinkedAs, Put
  <1> QED
    BY <1>2, <1>3

LEMMA PrevIsSet ==
    ASSUME NEW N \in Nat, NEW h, NEW S, NEW nx, NEW pv, NEW ch, LinkedAs(h, N, S, nx, pv, ch),
           NEW p \in 0 .. N, NEW v \in 0 .. N
    PROVE  LinkedAs(PrevSet(h, p, v), N, S, nx, Put(pv, p, v), ch)
  <1>1. h \in Heap(N) /\ LiveItems(h) = S /\ NextOf(h) = nx /\ PrevOf(h) = pv /\ ChildOf(h) = ch
    BY DEF LinkedAs
  <1>2. CASE p = NULL
    <2>1. PrevSet(h, p, v) = h
      BY <1>2 DEF PrevSet
    <2> QED
      BY <1>2, <2>1, Zenon DEF Put
  <1>3. CASE p # NULL
    <2>1. p \in 1 .. N
      BY <1>3 DEF NULL
    <2>2. PICK r : r = PrevSet(h, p, v)
      OBVIOUS
    <2>3. r \in Heap(N) /\ LiveItems(r) = S
      BY <1>1, <2>1, <2>2, SetPrev
    <2>4. NextOf(r) = nx
      BY <1>1, <2>1, <2>2, SetPrev
    <2>5. PrevOf(r) = [pv EXCEPT ![p] = v]
      BY <1>1, <2>1, <2>2, SetPrev
    <2>6. ChildOf(r) = ch
      BY <1>1, <2>1, <2>2, SetPrev
    <2> QED
      BY <1>3, <2>2, <2>3, <2>4, <2>5, <2>6, Zenon DEF LinkedAs, Put
  <1> QED
    BY <1>2, <1>3

LEMMA ChildIsSet ==
    ASSUME NEW N \in Nat, NEW h, NEW S, NEW nx, NEW pv, NEW ch, LinkedAs(h, N, S, nx, pv, ch),
           NEW p \in 0 .. N, NEW v \in 0 .. N
    PROVE  LinkedAs(ChildSet(h, p, v), N, S, nx, pv, Put(ch, p, v))
  <1>1. h \in Heap(N) /\ LiveItems(h) = S /\ NextOf(h) = nx /\ PrevOf(h) = pv /\ ChildOf(h) = ch
    BY DEF LinkedAs
  <1>2. CASE p = NULL
    <2>1. ChildSet(h, p, v) = h
      BY <1>2 DEF ChildSet
    <2> QED
      BY <1>2, <2>1, Zenon DEF Put
  <1>3. CASE p # NULL
    <2>1. p \in 1 .. N
      BY <1>3 DEF NULL
    <2>2. PICK r : r = ChildSet(h, p, v)
      OBVIOUS
    <2>3. r \in Heap(N) /\ LiveItems(r) = S
      BY <1>1, <2>1, <2>2, SetChild
    <2>4. NextOf(r) = nx
      BY <1>1, <2>1, <2>2, SetChild
    <2>5. PrevOf(r) = pv
      BY <1>1, <2>1, <2>2, SetChild
    <2>6. ChildOf(r) = [ch EXCEPT ![p] = v]
      BY <1>1, <2>1, <2>2, SetChild
    <2> QED
      BY <1>3, <2>2, <2>3, <2>4, <2>5, <2>6, Zenon DEF LinkedAs, Put
  <1> QED
    BY <1>2, <1>3

-----------------------------------------------------------------------------
(* suffix_object.                                                          *)

LEMMA SuffixConsistent ==
    ASSUME NEW N \in Nat, NEW S \in SUBSET (1 .. N), NEW nx \in [1 .. N -> 0 .. N],
           NEW pv \in [1 .. N -> 0 .. N], NEW ch \in [1 .. N -> 0 .. N], Consistent(S, nx, pv, ch),
           NEW prev \in S, NEW item \in S,
           nx[prev] = NULL, nx[item] = NULL, pv[item] = NULL, \A m \in S : ch[m] # item
    PROVE  Consistent(S, [nx EXCEPT ![prev] = item], [pv EXCEPT ![item] = prev], ch)
  <1>1. PICK nx2, pv2 : nx2 = [nx EXCEPT ![prev] = item] /\ pv2 = [pv EXCEPT ![item] = prev]
    OBVIOUS
  <1>2. \A n \in S : /\ nx2[n] = IF n = prev THEN item ELSE nx[n]
                     /\ pv2[n] = IF n = item THEN prev ELSE pv[n]
    BY <1>1
  <1>3. \A n \in S : n # NULL
    BY DEF NULL
  <1>4. \A n \in S : /\ nx[n] \in S \cup {NULL} /\ pv[n] \in S \cup {NULL} /\ ch[n] \in S \cup {NULL}
                     /\ nx[n] # NULL => pv[nx[n]] = n
                     /\ pv[n] # NULL => nx[pv[n]] = n
                     /\ ch[n] # NULL => pv[ch[n]] = NULL
    BY DEF Consistent
  <1>5. ASSUME NEW n \in S
        PROVE  nx2[n] \in S \cup {NULL} /\ pv2[n] \in S \cup {NULL} /\ ch[n] \in S \cup {NULL}
    BY <1>2, <1>4
  <1>6. ASSUME NEW n \in S, nx2[n] # NULL
        PROVE  pv2[nx2[n]] = n
    <2>1. CASE n = prev
      BY <1>2, <2>1
    <2>2. CASE n # prev
      <3>1. nx2[n] = nx[n] /\ nx[n] \in S /\ pv[nx[n]] = n
        BY <1>2, <1>4, <1>6, <2>2
      <3>2. nx[n] # item
        BY <1>3, <3>1
      <3> QED
        BY <1>2, <3>1, <3>2
    <2> QED
      BY <2>1, <2>2
  <1>7. ASSUME NEW n \in S, pv2[n] # NULL
        PROVE  nx2[pv2[n]] = n
    <2>1. CASE n = item
      BY <1>2, <2>1
    <2>2. CASE n # item
      <3>1. pv2[n] = pv[n] /\ pv[n] \in S /\ nx[pv[n]] = n
        BY <1>2, <1>4, <1>7, <2>2
      <3>2. pv[n] # prev
        BY <1>3, <3>1
      <3> QED
        BY <1>2, <3>1, <3>2
    <2> QED
      BY <2>1, <2>2
  <1>8. ASSUME NEW n \in S, ch[n] # NULL
        PROVE  pv2[ch[n]] = NULL
    BY <1>2, <1>4, <1>8
  <1>9. Consistent(S, nx2, pv2, ch)
    BY <1>5, <1>6, <1>7, <1>8 DEF Consistent
  <1> QED
    BY <1>1, <1>9

\* suffix_object: a loose item that is put behind the last of a list is the new last, and
\* every other item keeps its place.
THEOREM ItemSuffixed ==
    ASSUME NEW N \in Nat, NEW h \in Heap(N), DoublyLinked(h),
           NEW prev \in LiveItems(h), NEW item \in LiveItems(h),
           NextOf(h)[prev] = NULL, Loose(h, item)
    PROVE  LET r == suffix_object(h, prev, item)
           IN  /\ r \in Heap(N) /\ DoublyLinked(r) /\ LiveItems(r) = LiveItems(h)
               /\ NextOf(r) = [NextOf(h) EXCEPT ![prev] = item]
               /\ ChildOf(r) = ChildOf(h)
  <1>1. /\ prev \in 1 .. N /\ item \in 1 .. N /\ prev \in 0 .. N /\ item \in 0 .. N
        /\ prev # NULL /\ item # NULL
    BY LinkTypes DEF NULL
  <1>2. PICK h1 : h1 = NextSet(h, prev, item)
    OBVIOUS
  <1>3. /\ h1 \in Heap(N) /\ LiveItems(h1) = LiveItems(h) /\ NextOf(h1) = [NextOf(h) EXCEPT ![prev] = item]
        /\ PrevOf(h1) = PrevOf(h) /\ ChildOf(h1) = ChildOf(h)
    BY <1>1, <1>2, SetNext
  <1>4. PICK r : r = PrevSet(h1, item, prev)
    OBVIOUS
  <1>5. /\ r \in Heap(N) /\ LiveItems(r) = LiveItems(h1) /\ NextOf(r) = NextOf(h1)
        /\ PrevOf(r) = [PrevOf(h1) EXCEPT ![item] = prev] /\ ChildOf(r) = ChildOf(h1)
    BY <1>1, <1>3, <1>4, SetPrev
  <1>6. r = suffix_object(h, prev, item)
    BY <1>1, <1>2, <1>4, Zenon DEF suffix_object, NextSet, PrevSet
  <1>7. DoublyLinked(r)
    <2>1. PICK nx, pv, ch : nx = NextOf(h) /\ pv = PrevOf(h) /\ ch = ChildOf(h)
      OBVIOUS
    <2>2. /\ nx \in [1 .. N -> 0 .. N] /\ pv \in [1 .. N -> 0 .. N] /\ ch \in [1 .. N -> 0 .. N]
          /\ LiveItems(h) \in SUBSET (1 .. N)
      BY <2>1, LinkTypes
    <2>3. /\ Consistent(LiveItems(h), nx, pv, ch) /\ nx[prev] = NULL /\ nx[item] = NULL /\ pv[item] = NULL
          /\ \A m \in LiveItems(h) : ch[m] # item
      BY <2>1 DEF DoublyLinked, Loose
    <2>4. Consistent(LiveItems(h), [nx EXCEPT ![prev] = item], [pv EXCEPT ![item] = prev], ch)
      BY <2>2, <2>3, SuffixConsistent
    <2>5. /\ NextOf(r) = [nx EXCEPT ![prev] = item] /\ PrevOf(r) = [pv EXCEPT ![item] = prev]
          /\ ChildOf(r) = ch /\ LiveItems(r) = LiveItems(h)
      BY <1>3, <1>5, <2>1
    <2> QED
      BY <2>4, <2>5, Zenon DEF DoublyLinked
  <1> QED
    BY <1>3, <1>5, <1>6, <1>7

-----------------------------------------------------------------------------
(* Taking an item out of its list.                                         *)

\* The values of one of the fields, in every node.
Links(N) == [1 .. N -> 0 .. N]

NextUnlinked(nx, pv, c)         == Put(Put(nx, pv[c], nx[c]), c, NULL)
PrevUnlinked(nx, pv, c)         == Put(Put(pv, nx[c], pv[c]), c, NULL)
ChildUnlinked(nx, ch, array, c) == Put(ch, IF ch[array] = c THEN array ELSE NULL, nx[c])

\* c has no neighbours left, and who pointed to it points to its successor.
TakenOut(S, nx, ch, array, c, nx2, pv2, ch2) ==
    /\ nx2[c] = NULL /\ pv2[c] = NULL
    /\ \A n \in S \ {c} : nx2[n] = IF nx[n] = c THEN nx[c] ELSE nx[n]
    /\ \A n \in S : ch2[n] = IF n = array /\ ch[array] = c THEN nx[c] ELSE ch[n]
    /\ ch2[array] # c

LEMMA PutAt ==
    ASSUME NEW N \in Nat, NEW f \in Links(N), NEW p \in 0 .. N, NEW v \in 0 .. N, NEW n \in 1 .. N
    PROVE  /\ Put(f, p, v) \in Links(N)
           /\ Put(f, p, v)[n] = IF n = p THEN v ELSE f[n]
  <1>1. n # NULL
    BY DEF NULL
  <1>2. CASE p = NULL
    BY <1>1, <1>2 DEF Put, Links
  <1>3. CASE p # NULL
    <2>1. Put(f, p, v) = [f EXCEPT ![p] = v]
      BY <1>3 DEF Put
    <2> QED
      BY <2>1 DEF Links
  <1> QED
    BY <1>2, <1>3

LEMMA UnlinkConsistent ==
    ASSUME NEW N \in Nat, NEW S \in SUBSET (1 .. N), NEW nx \in Links(N),
           NEW pv \in Links(N), NEW ch \in Links(N), Consistent(S, nx, pv, ch),
           NEW array \in S, NEW c \in S
    PROVE  /\ Consistent(S, NextUnlinked(nx, pv, c), PrevUnlinked(nx, pv, c),
                         ChildUnlinked(nx, ch, array, c))
           /\ TakenOut(S, nx, ch, array, c, NextUnlinked(nx, pv, c), PrevUnlinked(nx, pv, c),
                       ChildUnlinked(nx, ch, array, c))
  <1>1. \A n \in S : n # NULL
    BY DEF NULL
  <1>2. \A n \in S : /\ nx[n] \in S \cup {NULL} /\ pv[n] \in S \cup {NULL} /\ ch[n] \in S \cup {NULL}
                     /\ nx[n] # NULL => pv[nx[n]] = n
                     /\ pv[n] # NULL => nx[pv[n]] = n
                     /\ ch[n] # NULL => pv[ch[n]] = NULL
    BY DEF Consistent
  <1>3. PICK a, b : a = nx[c] /\ b = pv[c]
    OBVIOUS
  <1>4. PICK nx2, pv2, ch2 : /\ nx2 = NextUnlinked(nx, pv, c) /\ pv2 = PrevUnlinked(nx, pv, c)
                             /\ ch2 = ChildUnlinked(nx, ch, array, c)
    OBVIOUS
  <1>5. c \in 1 .. N /\ c \in 0 .. N /\ array \in 0 .. N /\ NULL \in 0 .. N /\ array # NULL
    BY DEF NULL
  <1>6. a \in 0 .. N /\ b \in 0 .. N
    BY <1>3, <1>5 DEF Links
  <1>7. ASSUME NEW n \in S
        PROVE  nx2[n] = IF n = c THEN NULL ELSE IF n = b THEN a ELSE nx[n]
    <2>1. nx2 = Put(Put(nx, b, a), c, NULL)
      BY <1>3, <1>4, Zenon DEF NextUnlinked
    <2>2. n \in 1 .. N
      OBVIOUS
    <2>3. Put(nx, b, a) \in Links(N)
      BY <1>6, <2>2, PutAt
    <2>4. Put(nx, b, a)[n] = IF n = b THEN a ELSE nx[n]
      BY <1>6, <2>2, PutAt
    <2>5. Put(Put(nx, b, a), c, NULL)[n] = IF n = c THEN NULL ELSE Put(nx, b, a)[n]
      BY <1>5, <2>2, <2>3, PutAt
    <2> QED
      BY <2>1, <2>4, <2>5
  <1>8. ASSUME NEW n \in S
        PROVE  pv2[n] = IF n = c THEN NULL ELSE IF n = a THEN b ELSE pv[n]
    <2>1. pv2 = Put(Put(pv, a, b), c, NULL)
      BY <1>3, <1>4, Zenon DEF PrevUnlinked
    <2>2. n \in 1 .. N
      OBVIOUS
    <2>3. Put(pv, a, b) \in Links(N)
      BY <1>6, <2>2, PutAt
    <2>4. Put(pv, a, b)[n] = IF n = a THEN b ELSE pv[n]
      BY <1>6, <2>2, PutAt
    <2>5. Put(Put(pv, a, b), c, NULL)[n] = IF n = c THEN NULL ELSE Put(pv, a, b)[n]
      BY <1>5, <2>2, <2>3, PutAt
    <2> QED
      BY <2>1, <2>4, <2>5
  <1>9. ASSUME NEW n \in S
        PROVE  ch2[n] = IF n = array /\ ch[array] = c THEN a ELSE ch[n]
    <2>1. PICK p : p = IF ch[array] = c THEN array ELSE NULL
      OBVIOUS
    <2>2. p \in 0 .. N
      BY <1>5, <2>1
    <2>3. ch2 = Put(ch, p, a)
      BY <1>3, <1>4, <2>1, Zenon DEF ChildUnlinked
    <2>4. n \in 1 .. N
      OBVIOUS
    <2>5. Put(ch, p, a)[n] = IF n = p THEN a ELSE ch[n]
      BY <1>6, <2>2, <2>4, PutAt
    <2>6. n # NULL
      BY <1>1
    <2>7. CASE ch[array] = c
      <3>1. p = array
        BY <2>1, <2>7
      <3> QED
        BY <2>3, <2>5, <2>7, <3>1
    <2>8. CASE ch[array] # c
      <3>1. p = NULL
        BY <2>1, <2>8
      <3> QED
        BY <2>3, <2>5, <2>6, <2>8, <3>1
    <2> QED
      BY <2>7, <2>8
  <1>10. \A n \in S : /\ nx2[n] = IF n = c THEN NULL ELSE IF n = b THEN a ELSE nx[n]
                      /\ pv2[n] = IF n = c THEN NULL ELSE IF n = a THEN b ELSE pv[n]
                      /\ ch2[n] = IF n = array /\ ch[array] = c THEN a ELSE ch[n]
    BY <1>7, <1>8, <1>9
  <1>11. /\ a \in S \cup {NULL} /\ b \in S \cup {NULL}
         /\ a # NULL => pv[a] = c
         /\ b # NULL => nx[b] = c
    BY <1>2, <1>3
  <1>12. ASSUME NEW n \in S
         PROVE  nx2[n] \in S \cup {NULL} /\ pv2[n] \in S \cup {NULL} /\ ch2[n] \in S \cup {NULL}
    BY <1>2, <1>10, <1>11
  <1>13. ASSUME NEW n \in S, nx2[n] # NULL
         PROVE  pv2[nx2[n]] = n
    <2>1. n # c
      BY <1>10, <1>13
    <2>2. CASE n = b
      <3>1. nx2[n] = a /\ a \in S
        BY <1>10, <1>11, <1>13, <2>1, <2>2
      <3>2. a # c
        BY <1>1, <1>3, <1>11, <2>1, <2>2, <3>1
      <3> QED
        BY <1>10, <2>2, <3>1, <3>2
    <2>3. CASE n # b
      <3>1. nx2[n] = nx[n] /\ nx[n] \in S /\ pv[nx[n]] = n
        BY <1>2, <1>10, <1>13, <2>1, <2>3
      <3>2. nx[n] # c /\ nx[n] # a
        BY <1>1, <1>3, <1>11, <2>1, <2>3, <3>1
      <3> QED
        BY <1>10, <3>1, <3>2
    <2> QED
      BY <2>2, <2>3
  <1>14. ASSUME NEW n \in S, pv2[n] # NULL
         PROVE  nx2[pv2[n]] = n
    <2>1. n # c
      BY <1>10, <1>14
    <2>2. CASE n = a
      <3>1. pv2[n] = b /\ b \in S
        BY <1>10, <1>11, <1>14, <2>1, <2>2
      <3>2. b # c
        BY <1>1, <1>3, <1>11, <2>1, <2>2, <3>1
      <3> QED
        BY <1>10, <2>2, <3>1, <3>2
    <2>3. CASE n # a
      <3>1. pv2[n] = pv[n] /\ pv[n] \in S /\ nx[pv[n]] = n
        BY <1>2, <1>10, <1>14, <2>1, <2>3
      <3>2. pv[n] # c /\ pv[n] # b
        BY <1>1, <1>3, <1>11, <2>1, <2>3, <3>1
      <3> QED
        BY <1>10, <3>1, <3>2
    <2> QED
      BY <2>2, <2>3
  <1>15. a # c \/ b = c
    BY <1>1, <1>3, <1>11
  <1>16. ASSUME NEW n \in S, ch2[n] # NULL
         PROVE  pv2[ch2[n]] = NULL
    <2>1. CASE n = array /\ ch[array] = c
      <3>1. ch2[n] = a /\ a \in S
        BY <1>10, <1>11, <1>16, <2>1
      <3>2. b = NULL
        BY <1>1, <1>2, <1>3, <2>1
      <3> QED
        BY <1>10, <3>1, <3>2
    <2>2. CASE ~(n = array /\ ch[array] = c)
      <3>1. ch2[n] = ch[n]
        <4>1. ch2[n] = IF n = array /\ ch[array] = c THEN a ELSE ch[n]
          BY <1>10
        <4> QED
          BY <2>2, <4>1
      <3>2. ch[n] \in S /\ pv[ch[n]] = NULL
        BY <1>2, <1>16, <3>1
      <3>3. ch[n] = a => FALSE
        BY <1>1, <1>11, <3>2
      <3> QED
        BY <1>10, <3>1, <3>2, <3>3
    <2> QED
      BY <2>1, <2>2
  <1>17. Consistent(S, nx2, pv2, ch2)
    BY <1>12, <1>13, <1>14, <1>16 DEF Consistent
  <1>18. ASSUME NEW n \in S \ {c}
         PROVE  nx2[n] = IF nx[n] = c THEN nx[c] ELSE nx[n]
    <2>1. CASE n = b
      <3>1. nx[n] = c
        BY <1>1, <1>11, <2>1
      <3> QED
        BY <1>3, <1>10, <2>1, <3>1
    <2>2. CASE n # b
      <3>1. nx[n] # c
        BY <1>1, <1>2, <1>3, <2>2
      <3> QED
        BY <1>10, <2>2, <3>1
    <2> QED
      BY <2>1, <2>2
  <1>19. ch2[array] # c
    <2>1. CASE ch[array] = c
      <3>1. ch2[array] = a /\ b = NULL
        BY <1>1, <1>2, <1>3, <1>10, <2>1
      <3> QED
        BY <1>1, <1>15, <3>1
    <2>2. CASE ch[array] # c
      BY <1>10, <2>2
    <2> QED
      BY <2>1, <2>2
  <1>20. nx2[c] = NULL /\ pv2[c] = NULL
    BY <1>10
  <1>21. \A n \in S : ch2[n] = IF n = array /\ ch[array] = c THEN nx[c] ELSE ch[n]
    BY <1>3, <1>10, Zenon
  <1>22. TakenOut(S, nx, ch, array, c, nx2, pv2, ch2)
    BY <1>18, <1>19, <1>20, <1>21 DEF TakenOut
  <1> QED
    BY <1>17, <1>4, <1>22, Zenon

\* The last assignments of Unlink, and those from the second on.
UnlinkEnd(h2, array, c, a) ==
    LET h3 == IF c = h2.mem[array].child THEN [h2 EXCEPT !.mem[array].child = a] ELSE h2
    IN  [h3 EXCEPT !.mem[c].prev = NULL, !.mem[c].next = NULL]
UnlinkRest(h1, array, c, a, b) ==
    UnlinkEnd(IF a # NULL THEN [h1 EXCEPT !.mem[a].prev = b] ELSE h1, array, c, a)

LEMMA UnlinkEffect ==
    ASSUME NEW N \in Nat, NEW h, NEW S, NEW nx, NEW pv, NEW ch, LinkedAs(h, N, S, nx, pv, ch),
           NEW array \in 1 .. N, NEW c \in 1 .. N
    PROVE  LinkedAs(Unlink(h, array, c), N, S, NextUnlinked(nx, pv, c), PrevUnlinked(nx, pv, c),
                    ChildUnlinked(nx, ch, array, c))
  <1>1. PICK a, b, p : a = nx[c] /\ b = pv[c] /\ p = IF ch[array] = c THEN array ELSE NULL
    OBVIOUS
  <1>2. h \in Heap(N) /\ NextOf(h) = nx /\ PrevOf(h) = pv /\ ChildOf(h) = ch
    BY DEF LinkedAs
  <1>3. a = h.mem[c].next /\ b = h.mem[c].prev
    BY <1>1, <1>2, LinkTypes DEF NextOf, PrevOf
  <1>4. a \in 0 .. N /\ b \in 0 .. N
    BY <1>1, <1>2, LinkTypes
  <1>5. p \in 0 .. N /\ NULL \in 0 .. N /\ c \in 0 .. N /\ c # NULL /\ array # NULL
    BY <1>1 DEF NULL
  <1>6. PICK h1 : h1 = NextSet(h, b, a)
    OBVIOUS
  <1>7. LinkedAs(h1, N, S, Put(nx, b, a), pv, ch)
    BY <1>4, <1>6, NextIsSet, Zenon
  <1>8. PICK h2 : h2 = PrevSet(h1, a, b)
    OBVIOUS
  <1>9. LinkedAs(h2, N, S, Put(nx, b, a), Put(pv, a, b), ch)
    BY <1>4, <1>7, <1>8, PrevIsSet, Zenon
  <1>10. PICK h3 : h3 = ChildSet(h2, p, a)
    OBVIOUS
  <1>11. LinkedAs(h3, N, S, Put(nx, b, a), Put(pv, a, b), Put(ch, p, a))
    BY <1>4, <1>5, <1>9, <1>10, ChildIsSet, Zenon
  <1>12. PICK h4 : h4 = PrevSet(h3, c, NULL)
    OBVIOUS
  <1>13. LinkedAs(h4, N, S, Put(nx, b, a), Put(Put(pv, a, b), c, NULL), Put(ch, p, a))
    BY <1>5, <1>11, <1>12, PrevIsSet, Zenon
  <1>14. PICK r : r = NextSet(h4, c, NULL)
    OBVIOUS
  <1>15. LinkedAs(r, N, S, Put(Put(nx, b, a), c, NULL), Put(Put(pv, a, b), c, NULL), Put(ch, p, a))
    BY <1>5, <1>13, <1>14, NextIsSet, Zenon
  <1>16. r = Unlink(h, array, c)
    <2>1. Unlink(h, array, c) =
            UnlinkRest(IF h.mem[c].prev # NULL
                       THEN [h EXCEPT !.mem[h.mem[c].prev].next = h.mem[c].next] ELSE h,
                       array, c, h.mem[c].next, h.mem[c].prev)
      BY Zenon DEF Unlink, UnlinkRest, UnlinkEnd
    <2>2. h1 = IF b # NULL THEN [h EXCEPT !.mem[b].next = a] ELSE h
      BY <1>6, Zenon DEF NextSet
    <2>3. Unlink(h, array, c) = UnlinkRest(h1, array, c, a, b)
      BY <1>3, <2>1, <2>2, Zenon
    <2>4. UnlinkRest(h1, array, c, a, b) = UnlinkEnd(h2, array, c, a)
      BY <1>8, Zenon DEF UnlinkRest, PrevSet
    <2>5. c = h2.mem[array].child <=> ch[array] = c
      BY <1>9, LinkTypes DEF LinkedAs, ChildOf
    <2>6. h3 = IF c = h2.mem[array].child THEN [h2 EXCEPT !.mem[array].child = a] ELSE h2
      <3>1. CASE ch[array] = c
        <4>1. p = array /\ c = h2.mem[array].child
          BY <1>1, <2>5, <3>1
        <4>2. h3 = [h2 EXCEPT !.mem[array].child = a]
          BY <1>5, <1>10, <4>1, Zenon DEF ChildSet
        <4> QED
          BY <4>1, <4>2, Zenon
      <3>2. CASE ch[array] # c
        <4>1. p = NULL /\ c # h2.mem[array].child
          BY <1>1, <2>5, <3>2
        <4>2. h3 = h2
          BY <1>10, <4>1, Zenon DEF ChildSet
        <4> QED
          BY <4>1, <4>2, Zenon
      <3> QED
        BY <3>1, <3>2
    <2>7. r = [h3 EXCEPT !.mem[c].prev = NULL, !.mem[c].next = NULL]
      BY <1>5, <1>12, <1>14, Zenon DEF PrevSet, NextSet
    <2>8. UnlinkEnd(h2, array, c, a) = r
      BY <2>6, <2>7, Zenon DEF UnlinkEnd
    <2> QED
      BY <2>3, <2>4, <2>8, Zenon
  <1> QED
    BY <1>1, <1>15, <1>16, Zenon DEF NextUnlinked, PrevUnlinked, ChildUnlinked

\* r has the items of h; who led to c leads to c's successor, and c to none.
Skipped(h, r, array, c) ==
    /\ LiveItems(r) = LiveItems(h)
    /\ NextOf(r)[c] = NULL
    /\ \A n \in LiveItems(h) \ {c} :
          NextOf(r)[n] = IF NextOf(h)[n] = c THEN NextOf(h)[c] ELSE NextOf(h)[n]
    /\ \A n \in LiveItems(h) :
          ChildOf(r)[n] = IF n = array /\ ChildOf(h)[array] = c THEN NextOf(h)[c]
                          ELSE ChildOf(h)[n]

\* cJSON_DetachItemFromArray: what is taken out of a list is in none any more, unless a
\* reference calls it its first child too, and the others keep their order.
THEOREM ItemUnlinked ==
    ASSUME NEW N \in Nat, NEW h \in Heap(N), DoublyLinked(h),
           NEW array \in LiveItems(h), NEW c \in LiveItems(h)
    PROVE  LET r == Unlink(h, array, c)
           IN  /\ r \in Heap(N) /\ DoublyLinked(r) /\ Skipped(h, r, array, c)
               /\ (\A m \in LiveItems(h) \ {array} : ChildOf(h)[m] # c) => Loose(r, c)
  <1>1. array \in 1 .. N /\ c \in 1 .. N /\ LiveItems(h) \in SUBSET (1 .. N)
    BY LinkTypes
  <1>2. PICK nx, pv, ch, r : /\ nx = NextOf(h) /\ pv = PrevOf(h) /\ ch = ChildOf(h)
                             /\ r = Unlink(h, array, c)
    OBVIOUS
  <1>3. nx \in Links(N) /\ pv \in Links(N) /\ ch \in Links(N)
    BY <1>2, LinkTypes DEF Links
  <1>4. PICK nx2, pv2, ch2 : /\ nx2 = NextUnlinked(nx, pv, c) /\ pv2 = PrevUnlinked(nx, pv, c)
                             /\ ch2 = ChildUnlinked(nx, ch, array, c)
    OBVIOUS
  <1>5. LinkedAs(r, N, LiveItems(h), nx2, pv2, ch2)
    <2>1. LinkedAs(h, N, LiveItems(h), nx, pv, ch)
      BY <1>2, Zenon DEF LinkedAs
    <2> QED
      BY <1>1, <1>2, <1>4, <2>1, UnlinkEffect, Zenon
  <1>6. /\ r \in Heap(N) /\ LiveItems(r) = LiveItems(h)
        /\ NextOf(r) = nx2 /\ PrevOf(r) = pv2 /\ ChildOf(r) = ch2
    BY <1>5, Zenon DEF LinkedAs
  <1>7. Consistent(LiveItems(h), nx, pv, ch)
    BY <1>2, Zenon DEF DoublyLinked
  <1>8. /\ Consistent(LiveItems(h), nx2, pv2, ch2)
        /\ nx2[c] = NULL /\ pv2[c] = NULL
        /\ \A n \in LiveItems(h) \ {c} : nx2[n] = IF nx[n] = c THEN nx[c] ELSE nx[n]
        /\ \A n \in LiveItems(h) : ch2[n] = IF n = array /\ ch[array] = c THEN nx[c] ELSE ch[n]
        /\ ch2[array] # c
    <2>1. Consistent(LiveItems(h), NextUnlinked(nx, pv, c), PrevUnlinked(nx, pv, c),
                     ChildUnlinked(nx, ch, array, c))
      BY <1>1, <1>3, <1>7, UnlinkConsistent, Zenon
    <2>2. TakenOut(LiveItems(h), nx, ch, array, c, NextUnlinked(nx, pv, c), PrevUnlinked(nx, pv, c),
                   ChildUnlinked(nx, ch, array, c))
      BY <1>1, <1>3, <1>7, UnlinkConsistent, Zenon
    <2> QED
      BY <1>4, <2>1, <2>2, Zenon DEF TakenOut
  <1>9. DoublyLinked(r)
    BY <1>6, <1>8, Zenon DEF DoublyLinked
  <1>10. (\A m \in LiveItems(h) \ {array} : ch[m] # c) => Loose(r, c)
    <2>1. (\A m \in LiveItems(h) \ {array} : ch[m] # c) => \A m \in LiveItems(h) : ch2[m] # c
      BY <1>8
    <2> QED
      BY <1>6, <1>8, <2>1 DEF Loose
  <1>11. Skipped(h, r, array, c)
    BY <1>2, <1>6, <1>8, Zenon DEF Skipped
  <1> QED
    BY <1>2, <1>6, <1>9, <1>10, <1>11, Zenon

-----------------------------------------------------------------------------
(* Putting an item in the place of another.                                *)

NextRelinked(nx, pv, c, d)      == Put(Put(Put(nx, d, nx[c]), pv[c], d), c, NULL)
PrevRelinked(nx, pv, c, d)      == Put(Put(Put(pv, d, pv[c]), nx[c], d), c, NULL)
ChildRelinked(ch, array, c, d)  == Put(ch, IF ch[array] = c THEN array ELSE NULL, d)

\* c has no neighbours left, d has its successor, and who pointed to c points to d.
PutIn(S, nx, ch, array, c, d, nx2, pv2, ch2) ==
    /\ nx2[c] = NULL /\ pv2[c] = NULL /\ nx2[d] = nx[c]
    /\ \A n \in S \ {c, d} : nx2[n] = IF nx[n] = c THEN d ELSE nx[n]
    /\ \A n \in S : ch2[n] = IF n = array /\ ch[array] = c THEN d ELSE ch[n]

PutAll(f, p, v, q, w, c) == Put(Put(Put(f, p, v), q, w), c, NULL)

IsPutAll(g, f, p, v, q, w, c, n) ==
    g[n] = IF n = c THEN NULL ELSE IF n = q THEN w ELSE IF n = p THEN v ELSE f[n]

LEMMA PutThrice ==
    ASSUME NEW N \in Nat, NEW f \in Links(N), NEW p \in 1 .. N, NEW v \in 0 .. N,
           NEW q \in 0 .. N, NEW w \in 1 .. N, NEW c \in 1 .. N, NEW n \in 1 .. N
    PROVE  IsPutAll(PutAll(f, p, v, q, w, c), f, p, v, q, w, c, n)
  <1>1. p \in 0 .. N /\ w \in 0 .. N /\ c \in 0 .. N /\ NULL \in 0 .. N
    BY DEF NULL
  <1>2. Put(f, p, v) \in Links(N)
    BY <1>1, PutAt
  <1>3. Put(f, p, v)[n] = IF n = p THEN v ELSE f[n]
    BY <1>1, PutAt
  <1>4. Put(Put(f, p, v), q, w) \in Links(N)
    BY <1>1, <1>2, PutAt
  <1>5. Put(Put(f, p, v), q, w)[n] = IF n = q THEN w ELSE Put(f, p, v)[n]
    BY <1>1, <1>2, PutAt
  <1>6. Put(Put(Put(f, p, v), q, w), c, NULL)[n] =
           IF n = c THEN NULL ELSE Put(Put(f, p, v), q, w)[n]
    BY <1>1, <1>4, PutAt
  <1> QED
    BY <1>3, <1>5, <1>6 DEF PutAll, IsPutAll

LEMMA RelinkConsistent ==
    ASSUME NEW N \in Nat, NEW S \in SUBSET (1 .. N), NEW nx \in Links(N),
           NEW pv \in Links(N), NEW ch \in Links(N), Consistent(S, nx, pv, ch),
           NEW array \in S, NEW c \in S, NEW d \in S,
           nx[c] # c, d # c, nx[d] = NULL, pv[d] = NULL, \A m \in S : ch[m] # d
    PROVE  /\ Consistent(S, NextRelinked(nx, pv, c, d), PrevRelinked(nx, pv, c, d),
                         ChildRelinked(ch, array, c, d))
           /\ PutIn(S, nx, ch, array, c, d, NextRelinked(nx, pv, c, d), PrevRelinked(nx, pv, c, d),
                    ChildRelinked(ch, array, c, d))
  <1>1. \A n \in S : n # NULL
    BY DEF NULL
  <1>2. \A n \in S : /\ nx[n] \in S \cup {NULL} /\ pv[n] \in S \cup {NULL} /\ ch[n] \in S \cup {NULL}
                     /\ nx[n] # NULL => pv[nx[n]] = n
                     /\ pv[n] # NULL => nx[pv[n]] = n
                     /\ ch[n] # NULL => pv[ch[n]] = NULL
    BY DEF Consistent
  <1>3. PICK a, b : a = nx[c] /\ b = pv[c]
    OBVIOUS
  <1>4. PICK nx2, pv2, ch2 : /\ nx2 = NextRelinked(nx, pv, c, d) /\ pv2 = PrevRelinked(nx, pv, c, d)
                             /\ ch2 = ChildRelinked(ch, array, c, d)
    OBVIOUS
  <1>5. /\ c \in 1 .. N /\ d \in 1 .. N /\ d \in 0 .. N /\ array \in 0 .. N /\ NULL \in 0 .. N
        /\ array # NULL
    BY DEF NULL
  <1>6. a \in 0 .. N /\ b \in 0 .. N
    BY <1>3, <1>5 DEF Links
  <1>7. ASSUME NEW n \in S
        PROVE  nx2[n] = IF n = c THEN NULL ELSE IF n = b THEN d ELSE IF n = d THEN a ELSE nx[n]
    <2>1. n \in 1 .. N
      OBVIOUS
    <2>2. IsPutAll(PutAll(nx, d, a, b, d, c), nx, d, a, b, d, c, n)
      BY <1>5, <1>6, <2>1, PutThrice, Zenon
    <2>3. nx2 = PutAll(nx, d, a, b, d, c)
      BY <1>3, <1>4, Zenon DEF NextRelinked, PutAll
    <2> QED
      BY <2>2, <2>3 DEF IsPutAll
  <1>8. ASSUME NEW n \in S
        PROVE  pv2[n] = IF n = c THEN NULL ELSE IF n = a THEN d ELSE IF n = d THEN b ELSE pv[n]
    <2>1. n \in 1 .. N
      OBVIOUS
    <2>2. IsPutAll(PutAll(pv, d, b, a, d, c), pv, d, b, a, d, c, n)
      BY <1>5, <1>6, <2>1, PutThrice, Zenon
    <2>3. pv2 = PutAll(pv, d, b, a, d, c)
      BY <1>3, <1>4, Zenon DEF PrevRelinked, PutAll
    <2> QED
      BY <2>2, <2>3 DEF IsPutAll
  <1>9. ASSUME NEW n \in S
        PROVE  ch2[n] = IF n = array /\ ch[array] = c THEN d ELSE ch[n]
    <2>1. PICK p : p = IF ch[array] = c THEN array ELSE NULL
      OBVIOUS
    <2>2. p \in 0 .. N
      BY <1>5, <2>1
    <2>3. n \in 1 .. N
      OBVIOUS
    <2>4. Put(ch, p, d)[n] = IF n = p THEN d ELSE ch[n]
      BY <1>5, <2>2, <2>3, PutAt
    <2>5. ch2 = Put(ch, p, d)
      BY <1>4, <2>1, Zenon DEF ChildRelinked
    <2>6. n # NULL
      BY <1>1
    <2>7. CASE ch[array] = c
      <3>1. p = array
        BY <2>1, <2>7
      <3> QED
        BY <2>4, <2>5, <2>7, <3>1
    <2>8. CASE ch[array] # c
      <3>1. p = NULL
        BY <2>1, <2>8
      <3> QED
        BY <2>4, <2>5, <2>6, <2>8, <3>1
    <2> QED
      BY <2>7, <2>8
  <1>10. /\ a \in S \cup {NULL} /\ b \in S \cup {NULL}
         /\ a # NULL => pv[a] = c
         /\ b # NULL => nx[b] = c
         /\ a # c /\ b # c /\ a # d /\ b # d
    <2>1. /\ a \in S \cup {NULL} /\ b \in S \cup {NULL}
          /\ a # NULL => pv[a] = c
          /\ b # NULL => nx[b] = c
      BY <1>2, <1>3
    <2>2. a # c /\ a # d
      BY <1>1, <1>3, <2>1
    <2>3. b # c /\ b # d
      BY <1>1, <1>3, <2>1
    <2> QED
      BY <2>1, <2>2, <2>3
  <1>11. ASSUME NEW n \in S
         PROVE  nx2[n] \in S \cup {NULL} /\ pv2[n] \in S \cup {NULL} /\ ch2[n] \in S \cup {NULL}
    <2>1. nx2[n] \in S \cup {NULL}
      BY <1>2, <1>7, <1>10
    <2>2. pv2[n] \in S \cup {NULL}
      BY <1>2, <1>8, <1>10
    <2>3. ch2[n] \in S \cup {NULL}
      BY <1>2, <1>9
    <2> QED
      BY <2>1, <2>2, <2>3
  <1>12. ASSUME NEW n \in S, nx2[n] # NULL
         PROVE  pv2[nx2[n]] = n
    <2>1. n # c
      BY <1>7, <1>12
    <2>2. CASE n = b
      <3>1. nx2[n] = d
        BY <1>7, <2>1, <2>2
      <3>2. pv2[d] = b
        BY <1>8, <1>10
      <3> QED
        BY <2>2, <3>1, <3>2
    <2>3. CASE n = d
      <3>1. nx2[n] = a
        BY <1>7, <1>10, <2>1, <2>3
      <3>2. a \in S
        BY <1>10, <1>12, <3>1
      <3>3. pv2[a] = d
        BY <1>8, <1>10, <3>2
      <3> QED
        BY <2>3, <3>1, <3>3
    <2>4. CASE n # b /\ n # d
      <3>1. nx2[n] = nx[n]
        BY <1>7, <2>1, <2>4
      <3>2. nx[n] \in S /\ pv[nx[n]] = n
        BY <1>2, <1>12, <3>1
      <3>3. nx[n] # c /\ nx[n] # a /\ nx[n] # d
        BY <1>1, <1>3, <1>10, <2>1, <2>4, <3>2
      <3>4. pv2[nx[n]] = pv[nx[n]]
        BY <1>8, <3>2, <3>3
      <3> QED
        BY <3>1, <3>2, <3>4
    <2> QED
      BY <2>2, <2>3, <2>4
  <1>13. ASSUME NEW n \in S, pv2[n] # NULL
         PROVE  nx2[pv2[n]] = n
    <2>1. n # c
      BY <1>8, <1>13
    <2>2. CASE n = a
      <3>1. pv2[n] = d
        BY <1>8, <2>1, <2>2
      <3>2. nx2[d] = a
        BY <1>7, <1>10
      <3> QED
        BY <2>2, <3>1, <3>2
    <2>3. CASE n = d
      <3>1. pv2[n] = b
        BY <1>8, <1>10, <2>1, <2>3
      <3>2. b \in S
        BY <1>10, <1>13, <3>1
      <3>3. nx2[b] = d
        BY <1>7, <1>10, <3>2
      <3> QED
        BY <2>3, <3>1, <3>3
    <2>4. CASE n # a /\ n # d
      <3>1. pv2[n] = pv[n]
        BY <1>8, <2>1, <2>4
      <3>2. pv[n] \in S /\ nx[pv[n]] = n
        BY <1>2, <1>13, <3>1
      <3>3. pv[n] # c /\ pv[n] # b /\ pv[n] # d
        BY <1>1, <1>3, <1>10, <2>1, <2>4, <3>2
      <3>4. nx2[pv[n]] = nx[pv[n]]
        BY <1>7, <3>2, <3>3
      <3> QED
        BY <3>1, <3>2, <3>4
    <2> QED
      BY <2>2, <2>3, <2>4
  <1>14. ASSUME NEW n \in S, ch2[n] # NULL
         PROVE  pv2[ch2[n]] = NULL
    <2>1. CASE n = array /\ ch[array] = c
      <3>1. ch2[n] = d
        BY <1>9, <2>1
      <3>2. b = NULL
        BY <1>1, <1>2, <1>3, <2>1
      <3>3. pv2[d] = b
        BY <1>8, <1>10
      <3> QED
        BY <3>1, <3>2, <3>3
    <2>2. CASE ~(n = array /\ ch[array] = c)
      <3>1. ch2[n] = ch[n]
        <4>1. ch2[n] = IF n = array /\ ch[array] = c THEN d ELSE ch[n]
          BY <1>9
        <4> QED
          BY <2>2, <4>1
      <3>2. ch[n] \in S /\ pv[ch[n]] = NULL
        BY <1>2, <1>14, <3>1
      <3>3. ch[n] # a
        BY <1>1, <1>10, <3>2
      <3>4. ch[n] # d
        OBVIOUS
      <3> QED
        BY <1>8, <3>1, <3>2, <3>3, <3>4
    <2> QED
      BY <2>1, <2>2
  <1>15. Consistent(S, nx2, pv2, ch2)
    BY <1>11, <1>12, <1>13, <1>14 DEF Consistent
  <1>16. ASSUME NEW n \in S \ {c, d}
         PROVE  nx2[n] = IF nx[n] = c THEN d ELSE nx[n]
    <2>1. CASE n = b
      <3>1. nx[n] = c
        BY <1>1, <1>10, <2>1
      <3> QED
        BY <1>7, <2>1, <3>1
    <2>2. CASE n # b
      <3>1. nx[n] # c
        BY <1>1, <1>2, <1>3, <2>2
      <3> QED
        BY <1>7, <2>2, <3>1
    <2> QED
      BY <2>1, <2>2
  <1>17. nx2[c] = NULL /\ pv2[c] = NULL /\ nx2[d] = nx[c]
    BY <1>3, <1>7, <1>8, <1>10
  <1>18. PutIn(S, nx, ch, array, c, d, nx2, pv2, ch2)
    BY <1>9, <1>16, <1>17 DEF PutIn
  <1> QED
    BY <1>4, <1>15, <1>18, Zenon

\* Its last assignments, and those from the link back on.
RelinkEnd(h2, array, c, d, b) ==
    LET h3 == IF c = h2.mem[array].child
              THEN [h2 EXCEPT !.mem[array].child = d]
              ELSE [h2 EXCEPT !.mem[b].next = d]
    IN  [h3 EXCEPT !.mem[c].next = NULL, !.mem[c].prev = NULL]
RelinkRest(h1, array, c, d, a, b) ==
    RelinkEnd(IF a # NULL THEN [h1 EXCEPT !.mem[a].prev = d] ELSE h1, array, c, d, b)

LEMMA RelinkEffect ==
    ASSUME NEW N \in Nat, NEW h, NEW S, NEW nx, NEW pv, NEW ch, LinkedAs(h, N, S, nx, pv, ch),
           NEW array \in 1 .. N, NEW c \in 1 .. N, NEW d \in 1 .. N,
           IF ch[array] = c THEN pv[c] = NULL ELSE pv[c] # NULL
    PROVE  LinkedAs(Relink(h, array, c, d), N, S, NextRelinked(nx, pv, c, d), PrevRelinked(nx, pv, c, d),
                    ChildRelinked(ch, array, c, d))
  <1>1. PICK a, b, p : a = nx[c] /\ b = pv[c] /\ p = IF ch[array] = c THEN array ELSE NULL
    OBVIOUS
  <1>2. h \in Heap(N) /\ NextOf(h) = nx /\ PrevOf(h) = pv /\ ChildOf(h) = ch
    BY DEF LinkedAs
  <1>3. a = h.mem[c].next /\ b = h.mem[c].prev
    BY <1>1, <1>2, LinkTypes DEF NextOf, PrevOf
  <1>4. a \in 0 .. N /\ b \in 0 .. N
    BY <1>1, <1>2, LinkTypes
  <1>5. /\ p \in 0 .. N /\ NULL \in 0 .. N /\ c \in 0 .. N /\ d \in 0 .. N
        /\ c # NULL /\ array # NULL /\ d # NULL
    BY <1>1 DEF NULL
  <1>6. PICK g1 : g1 = NextSet(h, d, a)
    OBVIOUS
  <1>7. LinkedAs(g1, N, S, Put(nx, d, a), pv, ch)
    BY <1>4, <1>5, <1>6, NextIsSet, Zenon
  <1>8. PICK h1 : h1 = PrevSet(g1, d, b)
    OBVIOUS
  <1>9. LinkedAs(h1, N, S, Put(nx, d, a), Put(pv, d, b), ch)
    BY <1>4, <1>5, <1>7, <1>8, PrevIsSet, Zenon
  <1>10. PICK h2 : h2 = PrevSet(h1, a, d)
    OBVIOUS
  <1>11. LinkedAs(h2, N, S, Put(nx, d, a), Put(Put(pv, d, b), a, d), ch)
    BY <1>4, <1>5, <1>9, <1>10, PrevIsSet, Zenon
  <1>12. PICK g3 : g3 = NextSet(h2, b, d)
    OBVIOUS
  <1>13. LinkedAs(g3, N, S, Put(Put(nx, d, a), b, d), Put(Put(pv, d, b), a, d), ch)
    BY <1>4, <1>5, <1>11, <1>12, NextIsSet, Zenon
  <1>14. PICK h3 : h3 = ChildSet(g3, p, d)
    OBVIOUS
  <1>15. LinkedAs(h3, N, S, Put(Put(nx, d, a), b, d), Put(Put(pv, d, b), a, d), Put(ch, p, d))
    BY <1>4, <1>5, <1>13, <1>14, ChildIsSet, Zenon
  <1>16. PICK h4 : h4 = NextSet(h3, c, NULL)
    OBVIOUS
  <1>17. LinkedAs(h4, N, S, Put(Put(Put(nx, d, a), b, d), c, NULL), Put(Put(pv, d, b), a, d), Put(ch, p, d))
    BY <1>5, <1>15, <1>16, NextIsSet, Zenon
  <1>18. PICK r : r = PrevSet(h4, c, NULL)
    OBVIOUS
  <1>19. LinkedAs(r, N, S, Put(Put(Put(nx, d, a), b, d), c, NULL),
                  Put(Put(Put(pv, d, b), a, d), c, NULL), Put(ch, p, d))
    BY <1>5, <1>17, <1>18, PrevIsSet, Zenon
  <1>20. r = Relink(h, array, c, d)
    <2>1. Relink(h, array, c, d) =
            RelinkRest([h EXCEPT !.mem[d].next = h.mem[c].next, !.mem[d].prev = h.mem[c].prev],
                       array, c, d, h.mem[c].next, h.mem[c].prev)
      BY Zenon DEF Relink, RelinkRest, RelinkEnd
    <2>2. h1 = [h EXCEPT !.mem[d].next = a, !.mem[d].prev = b]
      BY <1>5, <1>6, <1>8, Zenon DEF NextSet, PrevSet
    <2>3. Relink(h, array, c, d) = RelinkRest(h1, array, c, d, a, b)
      BY <1>3, <2>1, <2>2, Zenon
    <2>4. RelinkRest(h1, array, c, d, a, b) = RelinkEnd(h2, array, c, d, b)
      BY <1>10, Zenon DEF RelinkRest, PrevSet
    <2>5. c = h2.mem[array].child <=> ch[array] = c
      BY <1>11, LinkTypes DEF LinkedAs, ChildOf
    <2>6. h3 = IF c = h2.mem[array].child THEN [h2 EXCEPT !.mem[array].child = d]
               ELSE [h2 EXCEPT !.mem[b].next = d]
      <3>1. CASE ch[array] = c
        <4>1. p = array /\ b = NULL /\ c = h2.mem[array].child
          BY <1>1, <2>5, <3>1
        <4>2. g3 = h2
          BY <1>12, <4>1, Zenon DEF NextSet
        <4>3. h3 = [h2 EXCEPT !.mem[array].child = d]
          BY <1>5, <1>14, <4>1, <4>2, Zenon DEF ChildSet
        <4> QED
          BY <4>1, <4>3, Zenon
      <3>2. CASE ch[array] # c
        <4>1. p = NULL /\ b # NULL /\ c # h2.mem[array].child
          BY <1>1, <2>5, <3>2
        <4>2. g3 = [h2 EXCEPT !.mem[b].next = d]
          BY <1>12, <4>1, Zenon DEF NextSet
        <4>3. h3 = g3
          BY <1>14, <4>1, Zenon DEF ChildSet
        <4> QED
          BY <4>1, <4>2, <4>3, Zenon
      <3> QED
        BY <3>1, <3>2
    <2>7. r = [h3 EXCEPT !.mem[c].next = NULL, !.mem[c].prev = NULL]
      BY <1>5, <1>16, <1>18, Zenon DEF PrevSet, NextSet
    <2>8. RelinkEnd(h2, array, c, d, b) = r
      BY <2>6, <2>7, Zenon DEF RelinkEnd
    <2> QED
      BY <2>3, <2>4, <2>8, Zenon
  <1> QED
    BY <1>1, <1>19, <1>20, Zenon DEF NextRelinked, PrevRelinked, ChildRelinked

\* r has the items of h; who led to c leads to newitem, newitem to c's successor, and c to
\* none.
Replaced(h, r, array, c, newitem) ==
    /\ LiveItems(r) = LiveItems(h)
    /\ NextOf(r)[c] = NULL /\ NextOf(r)[newitem] = NextOf(h)[c]
    /\ \A n \in LiveItems(h) \ {c, newitem} :
          NextOf(r)[n] = IF NextOf(h)[n] = c THEN newitem ELSE NextOf(h)[n]
    /\ \A n \in LiveItems(h) :
          ChildOf(r)[n] = IF n = array /\ ChildOf(h)[array] = c THEN newitem
                          ELSE ChildOf(h)[n]

\* cJSON_ReplaceItemInArray: a loose item that replaces one of a list has its place, the
\* predecessor, or the parent, leads to it and it to the successor.  What it replaced is
\* in no list any more: cJSON_Delete, which follows next, deletes it alone.
THEOREM ItemRelinked ==
    ASSUME NEW N \in Nat, NEW h \in Heap(N), DoublyLinked(h),
           NEW array \in LiveItems(h), NEW c \in LiveItems(h), NEW newitem \in LiveItems(h),
           newitem # c, Loose(h, newitem), NextOf(h)[c] # c,
           ChildOf(h)[array] = c \/ PrevOf(h)[c] # NULL
    PROVE  LET r == Relink(h, array, c, newitem)
           IN  /\ r \in Heap(N) /\ DoublyLinked(r) /\ Replaced(h, r, array, c, newitem)
               /\ (\A m \in LiveItems(h) \ {array} : ChildOf(h)[m] # c) => Loose(r, c)
  <1>1. /\ array \in 1 .. N /\ c \in 1 .. N /\ newitem \in 1 .. N
        /\ LiveItems(h) \in SUBSET (1 .. N)
    BY LinkTypes
  <1>2. PICK nx, pv, ch, r : /\ nx = NextOf(h) /\ pv = PrevOf(h) /\ ch = ChildOf(h)
                             /\ r = Relink(h, array, c, newitem)
    OBVIOUS
  <1>3. nx \in Links(N) /\ pv \in Links(N) /\ ch \in Links(N)
    BY <1>2, LinkTypes DEF Links
  <1>4. PICK nx2, pv2, ch2 : /\ nx2 = NextRelinked(nx, pv, c, newitem)
                             /\ pv2 = PrevRelinked(nx, pv, c, newitem)
                             /\ ch2 = ChildRelinked(ch, array, c, newitem)
    OBVIOUS
  <1>5. Consistent(LiveItems(h), nx, pv, ch)
    BY <1>2, Zenon DEF DoublyLinked
  <1>6. LinkedAs(r, N, LiveItems(h), nx2, pv2, ch2)
    <2>1. LinkedAs(h, N, LiveItems(h), nx, pv, ch)
      BY <1>2, Zenon DEF LinkedAs
    <2>2. IF ch[array] = c THEN pv[c] = NULL ELSE pv[c] # NULL
      <3>1. c # NULL
        BY <1>1 DEF NULL
      <3>2. ch[array] # NULL => pv[ch[array]] = NULL
        BY <1>5 DEF Consistent
      <3> QED
        BY <1>2, <3>1, <3>2
    <2> QED
      BY <1>1, <1>2, <1>4, <2>1, <2>2, RelinkEffect, Zenon
  <1>7. /\ r \in Heap(N) /\ LiveItems(r) = LiveItems(h)
        /\ NextOf(r) = nx2 /\ PrevOf(r) = pv2 /\ ChildOf(r) = ch2
    BY <1>6, Zenon DEF LinkedAs
  <1>8. /\ nx[c] # c /\ nx[newitem] = NULL /\ pv[newitem] = NULL
        /\ \A m \in LiveItems(h) : ch[m] # newitem
    BY <1>2 DEF Loose
  <1>9. /\ Consistent(LiveItems(h), nx2, pv2, ch2)
        /\ PutIn(LiveItems(h), nx, ch, array, c, newitem, nx2, pv2, ch2)
    <2>1. Consistent(LiveItems(h), NextRelinked(nx, pv, c, newitem), PrevRelinked(nx, pv, c, newitem),
                     ChildRelinked(ch, array, c, newitem))
      BY <1>1, <1>3, <1>5, <1>8, RelinkConsistent, Zenon
    <2>2. PutIn(LiveItems(h), nx, ch, array, c, newitem, NextRelinked(nx, pv, c, newitem),
                PrevRelinked(nx, pv, c, newitem), ChildRelinked(ch, array, c, newitem))
      BY <1>1, <1>3, <1>5, <1>8, RelinkConsistent, Zenon
    <2> QED
      BY <1>4, <2>1, <2>2, Zenon
  <1>10. DoublyLinked(r)
    BY <1>7, <1>9, Zenon DEF DoublyLinked
  <1>11. /\ nx2[c] = NULL /\ pv2[c] = NULL /\ nx2[newitem] = nx[c]
         /\ \A n \in LiveItems(h) \ {c, newitem} : nx2[n] = IF nx[n] = c THEN newitem ELSE nx[n]
         /\ \A n \in LiveItems(h) : ch2[n] = IF n = array /\ ch[array] = c THEN newitem ELSE ch[n]
    BY <1>9, Zenon DEF PutIn
  <1>12. (\A m \in LiveItems(h) \ {array} : ch[m] # c) => Loose(r, c)
    <2>1. (\A m \in LiveItems(h) \ {array} : ch[m] # c) => \A m \in LiveItems(h) : ch2[m] # c
      BY <1>11
    <2> QED
      BY <1>7, <1>11, <2>1 DEF Loose
  <1>13. Replaced(h, r, array, c, newitem)
    BY <1>2, <1>7, <1>11, Zenon DEF Replaced
  <1> QED
    BY <1>2, <1>7, <1>10, <1>12, <1>13, Zenon

-----------------------------------------------------------------------------
(* Making an item.                                                         *)

\* No live item leads to p.
Unreached(S, nx, pv, ch, p) == \A m \in S : nx[m] # p /\ pv[m] # p /\ ch[m] # p

LEMMA WriteConsistent ==
    ASSUME NEW N \in Nat, NEW S \in SUBSET (1 .. N), NEW nx \in Links(N),
           NEW pv \in Links(N), NEW ch \in Links(N), Consistent(S, nx, pv, ch),
           NEW p \in 1 .. N, Unreached(S, nx, pv, ch, p),
           NEW x \in S \cup {NULL}, x # NULL => pv[x] = NULL
    PROVE  Consistent(S \cup {p}, Put(nx, p, NULL), Put(pv, p, NULL), Put(ch, p, x))
  <1>1. PICK nx2, pv2, ch2 : nx2 = Put(nx, p, NULL) /\ pv2 = Put(pv, p, NULL) /\ ch2 = Put(ch, p, x)
    OBVIOUS
  <1>2. p \in 0 .. N /\ NULL \in 0 .. N /\ x \in 0 .. N /\ S \cup {p} \in SUBSET (1 .. N)
    BY DEF NULL
  <1>3. ASSUME NEW n \in S \cup {p}
        PROVE  /\ nx2[n] = IF n = p THEN NULL ELSE nx[n]
               /\ pv2[n] = IF n = p THEN NULL ELSE pv[n]
               /\ ch2[n] = IF n = p THEN x ELSE ch[n]
    <2>1. n \in 1 .. N
      OBVIOUS
    <2>2. Put(nx, p, NULL)[n] = IF n = p THEN NULL ELSE nx[n]
      BY <1>2, <2>1, PutAt
    <2>3. Put(pv, p, NULL)[n] = IF n = p THEN NULL ELSE pv[n]
      BY <1>2, <2>1, PutAt
    <2>4. Put(ch, p, x)[n] = IF n = p THEN x ELSE ch[n]
      BY <1>2, <2>1, PutAt
    <2> QED
      BY <1>1, <2>2, <2>3, <2>4
  <1>4. \A n \in S : /\ nx[n] \in S \cup {NULL} /\ pv[n] \in S \cup {NULL} /\ ch[n] \in S \cup {NULL}
                     /\ nx[n] # NULL => pv[nx[n]] = n
                     /\ pv[n] # NULL => nx[pv[n]] = n
                     /\ ch[n] # NULL => pv[ch[n]] = NULL
                     /\ nx[n] # p /\ pv[n] # p /\ ch[n] # p
    BY DEF Consistent, Unreached
  <1>5. ASSUME NEW n \in S \cup {p}
        PROVE  /\ nx2[n] \in S \cup {p} \cup {NULL} /\ pv2[n] \in S \cup {p} \cup {NULL}
               /\ ch2[n] \in S \cup {p} \cup {NULL}
               /\ nx2[n] # NULL => pv2[nx2[n]] = n
               /\ pv2[n] # NULL => nx2[pv2[n]] = n
               /\ ch2[n] # NULL => pv2[ch2[n]] = NULL
    <2>1. CASE n = p
      <3>1. nx2[n] = NULL /\ pv2[n] = NULL /\ ch2[n] = x
        BY <1>3, <2>1
      <3>2. x # NULL => pv2[x] = NULL
        BY <1>3
      <3> QED
        BY <3>1, <3>2
    <2>2. CASE n # p
      <3>1. n \in S /\ nx2[n] = nx[n] /\ pv2[n] = pv[n] /\ ch2[n] = ch[n]
        BY <1>3, <2>2
      <3>2. nx[n] # NULL => pv2[nx[n]] = n
        BY <1>3, <1>4, <3>1
      <3>3. pv[n] # NULL => nx2[pv[n]] = n
        BY <1>3, <1>4, <3>1
      <3>4. ch[n] # NULL => pv2[ch[n]] = NULL
        BY <1>3, <1>4, <3>1
      <3> QED
        BY <1>4, <3>1, <3>2, <3>3, <3>4
    <2> QED
      BY <2>1, <2>2
  <1>6. Consistent(S \cup {p}, nx2, pv2, ch2)
    BY <1>5 DEF Consistent
  <1> QED
    BY <1>1, <1>6, Zenon

LEMMA WriteEffect ==
    ASSUME NEW N \in Nat, NEW h \in Heap(N), NEW p \in 1 .. N, NEW item \in Item(N),
           item.live, item.next = NULL, item.prev = NULL
    PROVE  LinkedAs(With(h, p, item), N, LiveItems(h) \cup {p}, Put(NextOf(h), p, NULL),
                    Put(PrevOf(h), p, NULL), Put(ChildOf(h), p, item.child))
  <1>1. PICK r : r = With(h, p, item)
    OBVIOUS
  <1>2. r \in Heap(N) /\ r.mem[p] = item /\ \A k \in 1 .. N : k # p => r.mem[k] = h.mem[k]
    BY <1>1, SetItem
  <1>3. DOMAIN r.mem = 1 .. N /\ DOMAIN h.mem = 1 .. N /\ p # NULL
    BY <1>2, LinkTypes DEF NULL
  <1>4. \A k \in 1 .. N : r.mem[k].live <=> k = p \/ h.mem[k].live
    BY <1>2
  <1>5. LiveItems(r) = LiveItems(h) \cup {p}
    BY <1>3, <1>4 DEF LiveItems
  <1>6. NextOf(r) = [NextOf(h) EXCEPT ![p] = NULL]
    <2>1. ASSUME NEW k \in 1 .. N, k # p
          PROVE  r.mem[k].next = h.mem[k].next
      BY <1>2, <2>1
    <2>2. r.mem[p].next = NULL
      BY <1>2
    <2> QED
      BY <1>3, <2>1, <2>2 DEF NextOf
  <1>7. PrevOf(r) = [PrevOf(h) EXCEPT ![p] = NULL]
    <2>1. ASSUME NEW k \in 1 .. N, k # p
          PROVE  r.mem[k].prev = h.mem[k].prev
      BY <1>2, <2>1
    <2>2. r.mem[p].prev = NULL
      BY <1>2
    <2> QED
      BY <1>3, <2>1, <2>2 DEF PrevOf
  <1>8. ChildOf(r) = [ChildOf(h) EXCEPT ![p] = item.child]
    <2>1. ASSUME NEW k \in 1 .. N, k # p
          PROVE  r.mem[k].child = h.mem[k].child
      BY <1>2, <2>1
    <2>2. r.mem[p].child = item.child
      BY <1>2
    <2> QED
      BY <1>3, <2>1, <2>2 DEF ChildOf
  <1> QED
    BY <1>1, <1>2, <1>3, <1>5, <1>6, <1>7, <1>8, Zenon DEF LinkedAs, Put

\* r is h with one item more, p, in no list, whose first child is x.
OneMore(h, r, N, p, x) ==
    /\ r \in Heap(N) /\ DoublyLinked(r)
    /\ LiveItems(r) = LiveItems(h) \cup {p} /\ Loose(r, p) /\ ChildOf(r)[p] = x
    /\ \A n \in LiveItems(h) \ {p} : /\ NextOf(r)[n] = NextOf(h)[n] /\ PrevOf(r)[n] = PrevOf(h)[n]
                                /\ ChildOf(r)[n] = ChildOf(h)[n]

LEMMA ItemWritten ==
    ASSUME NEW N \in Nat, NEW h \in Heap(N), DoublyLinked(h), NEW p \in 1 .. N,
           Unreached(LiveItems(h), NextOf(h), PrevOf(h), ChildOf(h), p),
           NEW item \in Item(N), item.live, item.next = NULL, item.prev = NULL,
           item.child # p, item.child \in LiveItems(h) \cup {NULL},
           item.child # NULL => PrevOf(h)[item.child] = NULL
    PROVE  OneMore(h, With(h, p, item), N, p, item.child)
  <1>1. PICK nx, pv, ch, r, x, S :
            /\ nx = NextOf(h) /\ pv = PrevOf(h) /\ ch = ChildOf(h) /\ S = LiveItems(h)
            /\ r = With(h, p, item) /\ x = item.child
    OBVIOUS
  <1>2. nx \in Links(N) /\ pv \in Links(N) /\ ch \in Links(N) /\ S \in SUBSET (1 .. N)
    BY <1>1, LinkTypes DEF Links
  <1>3. LinkedAs(r, N, S \cup {p}, Put(nx, p, NULL), Put(pv, p, NULL), Put(ch, p, x))
    BY <1>1, WriteEffect, Zenon
  <1>4. /\ r \in Heap(N) /\ LiveItems(r) = S \cup {p}
        /\ NextOf(r) = Put(nx, p, NULL) /\ PrevOf(r) = Put(pv, p, NULL) /\ ChildOf(r) = Put(ch, p, x)
    BY <1>3, Zenon DEF LinkedAs
  <1>5. Consistent(S, nx, pv, ch) /\ Unreached(S, nx, pv, ch, p)
    BY <1>1, Zenon DEF DoublyLinked
  <1>6. x \in S \cup {NULL} /\ (x # NULL => pv[x] = NULL)
    BY <1>1, Zenon
  <1>7. DoublyLinked(r)
    <2>1. Consistent(S \cup {p}, Put(nx, p, NULL), Put(pv, p, NULL), Put(ch, p, x))
      BY <1>2, <1>5, <1>6, WriteConsistent, Zenon
    <2> QED
      BY <1>4, <2>1, Zenon DEF DoublyLinked
  <1>8. p # NULL
    BY DEF NULL
  <1>9. Put(nx, p, NULL) = [nx EXCEPT ![p] = NULL] /\ Put(pv, p, NULL) = [pv EXCEPT ![p] = NULL]
        /\ Put(ch, p, x) = [ch EXCEPT ![p] = x]
    BY <1>8 DEF Put
  <1>10. \A n \in S \cup {p} : /\ NextOf(r)[n] = IF n = p THEN NULL ELSE nx[n]
                               /\ PrevOf(r)[n] = IF n = p THEN NULL ELSE pv[n]
                               /\ ChildOf(r)[n] = IF n = p THEN x ELSE ch[n]
    BY <1>2, <1>4, <1>9 DEF Links
  <1>11. ASSUME NEW m \in S \cup {p}
         PROVE  ChildOf(r)[m] # p
    <2>1. CASE m = p
      <3>1. ChildOf(r)[m] = x
        BY <1>10, <2>1
      <3>2. x # p
        BY <1>1
      <3> QED
        BY <3>1, <3>2
    <2>2. CASE m # p
      BY <1>5, <1>10, <2>2 DEF Unreached
    <2> QED
      BY <2>1, <2>2
  <1>12. Loose(r, p)
    BY <1>4, <1>10, <1>11 DEF Loose
  <1> QED
    BY <1>1, <1>4, <1>7, <1>10, <1>12 DEF OneMore

\* What no consistent list leads to: a node that is not live, or an item that is loose.
LEMMA NothingReaches ==
    ASSUME NEW N \in Nat, NEW h \in Heap(N), DoublyLinked(h), NEW p \in 1 .. N,
           p \notin LiveItems(h) \/ Loose(h, p)
    PROVE  Unreached(LiveItems(h), NextOf(h), PrevOf(h), ChildOf(h), p)
  <1>1. PICK nx, pv, ch, S : nx = NextOf(h) /\ pv = PrevOf(h) /\ ch = ChildOf(h) /\ S = LiveItems(h)
    OBVIOUS
  <1>2. Consistent(S, nx, pv, ch)
    BY <1>1, Zenon DEF DoublyLinked
  <1>3. \A n \in S : /\ nx[n] \in S \cup {NULL} /\ pv[n] \in S \cup {NULL} /\ ch[n] \in S \cup {NULL}
                     /\ nx[n] # NULL => pv[nx[n]] = n
                     /\ pv[n] # NULL => nx[pv[n]] = n
    BY <1>2 DEF Consistent
  <1>4. p # NULL
    BY DEF NULL
  <1>5. \A n \in S : n # NULL
    BY <1>1, LinkTypes DEF NULL
  <1>6. CASE p \notin S
    <2>1. \A m \in S : nx[m] # p /\ pv[m] # p /\ ch[m] # p
      BY <1>3, <1>4, <1>6
    <2> QED
      BY <1>1, <2>1, Zenon DEF Unreached
  <1>7. CASE p \in S
    <2>1. nx[p] = NULL /\ pv[p] = NULL /\ \A m \in S : ch[m] # p
      BY <1>1, <1>7, Zenon DEF Loose
    <2>2. \A m \in S : nx[m] # p /\ pv[m] # p /\ ch[m] # p
      BY <1>3, <1>4, <1>5, <2>1
    <2> QED
      BY <1>1, <2>2, Zenon DEF Unreached
  <1> QED
    BY <1>6, <1>7

LEMMA AskedKeeps ==
    ASSUME NEW N \in Nat, NEW h \in Heap(N)
    PROVE  Asked(h) \in Heap(N) /\ Asked(h).mem = h.mem
  <1>1. h.mem \in [1 .. N -> Item(N)] /\ h.blocks \in Int /\ h.left \in Nat /\ h.bad \in BOOLEAN
    BY DEF Heap
  <1>2. PICK l : l = IF h.left > 0 THEN h.left - 1 ELSE 0
    OBVIOUS
  <1>3. l \in Nat
    BY <1>1, <1>2
  <1>4. Asked(h) = [h EXCEPT !.left = l]
    BY <1>2, Zenon DEF Asked
  <1> QED
    BY <1>1, <1>3, <1>4 DEF Heap

\* cJSON_New_Item: an allocation that fails takes nothing; one that succeeds takes a node
\* that is not live, and what it makes is in no list.
THEOREM ItemMade ==
    ASSUME NEW N \in Nat, NEW h \in Heap(N), DoublyLinked(h)
    PROVE  LET r == cJSON_New_Item(h)
           IN  /\ r.p = NULL => r.h \in Heap(N) /\ r.h.mem = h.mem
               /\ r.p # NULL => r.p \in (1 .. N) \ LiveItems(h) /\ OneMore(h, r.h, N, r.p, NULL)
  <1>1. Asked(h) \in Heap(N) /\ Asked(h).mem = h.mem
    BY AskedKeeps
  <1>2. CASE ~(Granted(h) /\ FreeNodes(h) # {})
    <2>1. cJSON_New_Item(h) = [h |-> Asked(h), p |-> NULL]
      BY <1>2, Zenon DEF cJSON_New_Item
    <2> QED
      BY <1>1, <2>1
  <1>3. CASE Granted(h) /\ FreeNodes(h) # {}
    <2>1. DOMAIN h.mem = 1 .. N
      BY LinkTypes
    <2>2. FreeNodes(h) \in SUBSET Nat /\ FreeNodes(h) \in SUBSET (1 .. N)
      BY <2>1 DEF FreeNodes
    <2>3. \E n \in FreeNodes(h) : \A m \in FreeNodes(h) : n <= m
      BY <1>3, <2>2, LeastExists
    <2>4. PICK p : p = CHOOSE n \in FreeNodes(h) : \A m \in FreeNodes(h) : n <= m
      OBVIOUS
    <2>5. p \in FreeNodes(h)
      BY <2>3, <2>4
    <2>6. p \in 1 .. N /\ p \notin LiveItems(h) /\ p # NULL
      BY <2>2, <2>5 DEF FreeNodes, LiveItems, NULL
    <2>7. cJSON_New_Item(h) = [h |-> With(Asked(h), p, Zeroed), p |-> p]
      BY <1>3, <2>4, Zenon DEF cJSON_New_Item, With
    <2>8. Zeroed \in Item(N) /\ Zeroed.live /\ Zeroed.next = NULL /\ Zeroed.prev = NULL /\ Zeroed.child = NULL
      <3>1. NoText \in Seq(Nat)
        BY DEF NoText
      <3>2. "False" \in ItemTypes /\ NULL \in 0 .. N /\ 0 \in Int
        BY DEF ItemTypes, NULL
      <3> QED
        BY <3>1, <3>2 DEF Zeroed, Item
    <2>9. PICK g : g = Asked(h)
      OBVIOUS
    <2>10. /\ g \in Heap(N) /\ LiveItems(g) = LiveItems(h) /\ NextOf(g) = NextOf(h) /\ PrevOf(g) = PrevOf(h)
           /\ ChildOf(g) = ChildOf(h)
      BY <1>1, <2>9 DEF LiveItems, NextOf, PrevOf, ChildOf
    <2>11. DoublyLinked(g)
      BY <2>10, Zenon DEF DoublyLinked
    <2>12. Unreached(LiveItems(g), NextOf(g), PrevOf(g), ChildOf(g), p)
      <3>1. p \notin LiveItems(g)
        BY <2>6, <2>10
      <3> QED
        BY <2>6, <2>10, <2>11, <3>1, NothingReaches, Zenon
    <2>13. OneMore(g, With(g, p, Zeroed), N, p, NULL)
      <3>1. Zeroed.child # p /\ Zeroed.child \in LiveItems(g) \cup {NULL}
        BY <2>6, <2>8
      <3>2. Zeroed.child # NULL => PrevOf(g)[Zeroed.child] = NULL
        BY <2>8
      <3>3. OneMore(g, With(g, p, Zeroed), N, p, Zeroed.child)
        BY <2>6, <2>8, <2>10, <2>11, <2>12, <3>1, <3>2, ItemWritten, Zenon
      <3> QED
        BY <2>8, <3>3, Zenon
    <2>14. OneMore(h, With(g, p, Zeroed), N, p, NULL)
      BY <2>10, <2>13, Zenon DEF OneMore
    <2>15. cJSON_New_Item(h).p = p /\ cJSON_New_Item(h).h = With(g, p, Zeroed)
      BY <2>7, <2>9
    <2> QED
      BY <2>6, <2>14, <2>15
  <1> QED
    BY <1>2, <1>3

\* create_reference: a new item in no list, whose first child is that of the item it was
\* made from: the two share the list of children, and cJSON_Delete tells them apart by
\* IsReference alone.
THEOREM ReferenceMade ==
    ASSUME NEW N \in Nat, NEW h \in Heap(N), DoublyLinked(h), NEW item \in LiveItems(h)
    PROVE  LET r == create_reference(h, item)
           IN  /\ r.p = NULL => r.h \in Heap(N) /\ r.h.mem = h.mem
               /\ r.p # NULL => /\ r.p \in (1 .. N) \ LiveItems(h)
                                /\ OneMore(h, r.h, N, r.p, ChildOf(h)[item])
                                /\ r.h.mem[r.p].IsReference
  <1>1. PICK new : new = cJSON_New_Item(h)
    OBVIOUS
  <1>2. CASE new.p = NULL
    <2>1. create_reference(h, item) = new
      BY <1>1, <1>2, Zenon DEF create_reference
    <2>2. new.h \in Heap(N) /\ new.h.mem = h.mem
      BY <1>1, <1>2, ItemMade, Zenon
    <2> QED
      BY <1>2, <2>1, <2>2, Zenon
  <1>3. CASE new.p # NULL
    <2>1. PICK p, g : p = new.p /\ g = new.h
      OBVIOUS
    <2>2. new.p \in (1 .. N) \ LiveItems(h) /\ OneMore(h, new.h, N, new.p, NULL)
      BY <1>1, <1>3, ItemMade, Zenon
    <2>3. p \in 1 .. N /\ p \notin LiveItems(h) /\ p # NULL /\ OneMore(h, g, N, p, NULL)
      BY <1>3, <2>1, <2>2
    <2>4. PICK ref : ref = [h.mem[item] EXCEPT !.string = NoText, !.IsReference = TRUE,
                                               !.next = NULL, !.prev = NULL, !.of = item]
      OBVIOUS
    <2>5. create_reference(h, item) = [h |-> With(g, p, ref), p |-> p]
      BY <1>1, <1>3, <2>1, <2>4, Zenon DEF create_reference, With
    <2>6. item \in 1 .. N /\ h.mem[item] \in Item(N) /\ h.mem[item].live
      BY LinkTypes DEF LiveItems, Heap
    <2>7. ref \in Item(N) /\ ref.live /\ ref.next = NULL /\ ref.prev = NULL /\ ref.IsReference
      <3>1. NoText \in Seq(Nat)
        BY DEF NoText
      <3>2. NULL \in 0 .. N /\ item \in 0 .. N /\ TRUE \in BOOLEAN
        BY <2>6 DEF NULL
      <3> QED
        BY <2>4, <2>6, <3>1, <3>2 DEF Item
    <2>8. ref.child = ChildOf(h)[item]
      BY <2>4, <2>6, LinkTypes DEF Item, ChildOf
    <2>9. /\ g \in Heap(N) /\ DoublyLinked(g) /\ LiveItems(g) = LiveItems(h) \cup {p} /\ Loose(g, p)
          /\ \A n \in LiveItems(h) \ {p} : /\ NextOf(g)[n] = NextOf(h)[n] /\ PrevOf(g)[n] = PrevOf(h)[n]
                                      /\ ChildOf(g)[n] = ChildOf(h)[n]
      BY <2>3, Zenon DEF OneMore
    <2>10. PICK x : x = ChildOf(h)[item]
      OBVIOUS
    <2>11. x \in LiveItems(h) \cup {NULL} /\ (x # NULL => PrevOf(h)[x] = NULL)
      BY <2>10 DEF DoublyLinked, Consistent
    <2>12. /\ ref.child = x /\ ref.child # p /\ ref.child \in LiveItems(g) \cup {NULL}
           /\ ref.child # NULL => PrevOf(g)[ref.child] = NULL
      <3>1. ref.child = x /\ x # p
        BY <2>3, <2>8, <2>10, <2>11
      <3>2. x # NULL => PrevOf(g)[x] = NULL
        BY <2>9, <2>11, <3>1
      <3> QED
        BY <2>9, <2>11, <3>1, <3>2
    <2>13. OneMore(g, With(g, p, ref), N, p, ref.child)
      <3>1. Unreached(LiveItems(g), NextOf(g), PrevOf(g), ChildOf(g), p)
        BY <2>3, <2>9, NothingReaches, Zenon
      <3> QED
        BY <2>3, <2>7, <2>9, <2>12, <3>1, ItemWritten, Zenon
    <2>14. PICK r : r = With(g, p, ref)
      OBVIOUS
    <2>15. /\ r \in Heap(N) /\ DoublyLinked(r) /\ LiveItems(r) = LiveItems(g) \cup {p} /\ Loose(r, p)
           /\ ChildOf(r)[p] = x
           /\ \A n \in LiveItems(g) \ {p} : /\ NextOf(r)[n] = NextOf(g)[n] /\ PrevOf(r)[n] = PrevOf(g)[n]
                                       /\ ChildOf(r)[n] = ChildOf(g)[n]
      BY <2>12, <2>13, <2>14, Zenon DEF OneMore
    <2>16. LiveItems(r) = LiveItems(h) \cup {p}
      BY <2>9, <2>15
    <2>17. \A n \in LiveItems(h) \ {p} : /\ NextOf(r)[n] = NextOf(h)[n] /\ PrevOf(r)[n] = PrevOf(h)[n]
                                    /\ ChildOf(r)[n] = ChildOf(h)[n]
      BY <2>9, <2>15
    <2>18. OneMore(h, r, N, p, x)
      BY <2>15, <2>16, <2>17, Zenon DEF OneMore
    <2>19. r.mem[p] = ref
      BY <2>3, <2>7, <2>9, <2>14, SetItem
    <2>20. create_reference(h, item).p = p /\ create_reference(h, item).h = r
      BY <2>5, <2>14
    <2> QED
      BY <2>3, <2>7, <2>10, <2>18, <2>19, <2>20
  <1> QED
    BY <1>2, <1>3

-----------------------------------------------------------------------------
(* The first item of a list.                                               *)

\* `array->child = item': an item without a predecessor becomes the first one of array, with
\* what follows it (nothing, of a new item, and in AddItemToArray the list was empty).
THEOREM ItemFirst ==
    ASSUME NEW N \in Nat, NEW h \in Heap(N), DoublyLinked(h),
           NEW array \in LiveItems(h), NEW item \in LiveItems(h), PrevOf(h)[item] = NULL
    PROVE  LET r == SetFirst(h, array, item)
           IN  /\ r \in Heap(N) /\ DoublyLinked(r) /\ LiveItems(r) = LiveItems(h)
               /\ NextOf(r) = NextOf(h) /\ PrevOf(r) = PrevOf(h)
               /\ ChildOf(r) = [ChildOf(h) EXCEPT ![array] = item]
  <1>1. array \in 1 .. N /\ item \in 0 .. N /\ array # NULL
    <2>1. array \in 1 .. N /\ item \in 1 .. N
      BY LinkTypes
    <2> QED
      BY <2>1 DEF NULL
  <1>2. PICK r : r = ChildSet(h, array, item)
    OBVIOUS
  <1>3. r = SetFirst(h, array, item)
    BY <1>1, <1>2, Zenon DEF ChildSet, SetFirst
  <1>4. /\ r \in Heap(N) /\ LiveItems(r) = LiveItems(h) /\ NextOf(r) = NextOf(h)
        /\ PrevOf(r) = PrevOf(h) /\ ChildOf(r) = [ChildOf(h) EXCEPT ![array] = item]
    BY <1>1, <1>2, SetChild
  <1>5. DoublyLinked(r)
    <2>1. PICK nx, pv, ch, S : /\ nx = NextOf(h) /\ pv = PrevOf(h) /\ ch = ChildOf(h)
                               /\ S = LiveItems(h)
      OBVIOUS
    <2>2. Consistent(S, nx, pv, ch) /\ pv[item] = NULL /\ item \in S
      BY <2>1, Zenon DEF DoublyLinked
    <2>3. ch \in [1 .. N -> 0 .. N] /\ S \in SUBSET (1 .. N)
      BY <2>1, LinkTypes
    <2>4. Consistent(S, nx, pv, [ch EXCEPT ![array] = item])
      BY <2>2, <2>3 DEF Consistent
    <2> QED
      BY <1>4, <2>1, <2>4, Zenon DEF DoublyLinked
  <1> QED
    BY <1>3, <1>4, <1>5, Zenon

-----------------------------------------------------------------------------
(* No circles.                                                             *)

\* T has, with an item, those it leads to: a tree of its own, with what it refers to.
Whole(T, nx, ch) == \A n \in T : nx[n] \in T \cup {NULL} /\ ch[n] \in T \cup {NULL}

LEMMA MadeEnding ==
    ASSUME NEW S, NEW nx, NEW ch, Ending(S, nx, ch), NEW p, p # NULL, NULL \notin S,
           NEW nx2, NEW ch2, NEW x, x # p,
           \A n \in S : nx[n] # p /\ ch[n] # p,
           \A n \in S \ {p} : nx2[n] = nx[n] /\ ch2[n] = ch[n],
           nx2[p] = NULL, ch2[p] = x
    PROVE  Ending(S \cup {p}, nx2, ch2)
  <1> SUFFICES ASSUME NEW C \in SUBSET (S \cup {p}), \A n \in C : nx2[n] \in C \/ ch2[n] \in C
               PROVE  C = {}
    BY DEF Ending
  <1>1. \A n \in C \ {p} : nx[n] \in C \ {p} \/ ch[n] \in C \ {p}
    OBVIOUS
  <1>2. C \ {p} = {}
    BY <1>1 DEF Ending
  <1>3. p \notin C
    BY <1>2
  <1> QED
    BY <1>2, <1>3

\* What is led to from prev only, and leads to nothing that leads to prev, makes no circle.
LEMMA SuffixEnding ==
    ASSUME NEW S, NEW nx, NEW ch, Ending(S, nx, ch), NULL \notin S,
           NEW T \in SUBSET S, Whole(T, nx, ch), NEW prev \in S \ T, NEW item \in T,
           NEW nx2, NEW ch2,
           \A n \in S \ {prev} : nx2[n] = nx[n] /\ ch2[n] = ch[n],
           nx2[prev] \in {nx[prev], item}, ch2[prev] \in {ch[prev], item}
    PROVE  Ending(S, nx2, ch2)
  <1> SUFFICES ASSUME NEW C \in SUBSET S, \A n \in C : nx2[n] \in C \/ ch2[n] \in C
               PROVE  C = {}
    BY DEF Ending
  <1>1. ASSUME NEW n \in C \cap T
        PROVE  nx[n] \in C \cap T \/ ch[n] \in C \cap T
    <2>1. nx2[n] = nx[n] /\ ch2[n] = ch[n]
      OBVIOUS
    <2> QED
      BY <2>1 DEF Whole
  <1>2. C \cap T = {}
    BY <1>1 DEF Ending
  <1>3. \A n \in C : nx[n] \in C \/ ch[n] \in C
    BY <1>2
  <1> QED
    BY <1>3 DEF Ending

LEMMA UnlinkEnding ==
    ASSUME NEW S, NEW nx, NEW ch, Ending(S, nx, ch), NULL \notin S, NEW c \in S,
           NEW nx2, NEW ch2, nx2[c] = NULL,
           \A n \in S \ {c} : nx2[n] = nx[n] \/ (nx[n] = c /\ nx2[n] = nx[c]),
           \A n \in S : ch2[n] = ch[n] \/ (ch[n] = c /\ ch2[n] = nx[c])
    PROVE  Ending(S, nx2, ch2)
  <1> SUFFICES ASSUME NEW C \in SUBSET S, \A n \in C : nx2[n] \in C \/ ch2[n] \in C
               PROVE  C = {}
    BY DEF Ending
  <1>1. nx[c] \notin C
    <2> SUFFICES ASSUME nx[c] \in C PROVE FALSE
      OBVIOUS
    <2>1. \A n \in C \cup {c} : nx[n] \in C \cup {c} \/ ch[n] \in C \cup {c}
      OBVIOUS
    <2>2. C \cup {c} = {}
      BY <2>1 DEF Ending
    <2> QED
      BY <2>2
  <1>2. \A n \in C : nx[n] \in C \/ ch[n] \in C
    BY <1>1
  <1> QED
    BY <1>2 DEF Ending

LEMMA RelinkEnding ==
    ASSUME NEW S, NEW nx, NEW ch, Ending(S, nx, ch), NULL \notin S,
           NEW T \in SUBSET S, Whole(T, nx, ch), NEW c \in S \ T, NEW d \in T,
           \A n \in S : nx[n] # d /\ ch[n] # d,
           NEW nx2, NEW ch2, nx2[c] = NULL, nx2[d] = nx[c],
           \A n \in S \ {c, d} : nx2[n] = nx[n] \/ (nx[n] = c /\ nx2[n] = d),
           \A n \in S : ch2[n] = ch[n] \/ (ch[n] = c /\ ch2[n] = d)
    PROVE  Ending(S, nx2, ch2)
  <1> SUFFICES ASSUME NEW C \in SUBSET S, \A n \in C : nx2[n] \in C \/ ch2[n] \in C
               PROVE  C = {}
    BY DEF Ending
  <1>1. c # NULL /\ c \notin T
    OBVIOUS
  <1>2. ASSUME NEW n \in (C \cap T) \ {d}
        PROVE  nx[n] \in (C \cap T) \ {d} \/ ch[n] \in (C \cap T) \ {d}
    <2>1. nx[n] \in T \cup {NULL} /\ ch[n] \in T \cup {NULL} /\ nx[n] # d /\ ch[n] # d
      BY DEF Whole
    <2>2. nx2[n] = nx[n] /\ ch2[n] = ch[n]
      BY <1>1, <2>1
    <2> QED
      BY <2>1, <2>2
  <1>3. (C \cap T) \ {d} = {}
    BY <1>2 DEF Ending
  <1>4. d \in C => nx[c] \in C
    <2>1. ch[d] \in T \cup {NULL} /\ ch[d] # d
      BY DEF Whole
    <2>2. ch2[d] = ch[d]
      BY <1>1, <2>1
    <2>3. ch2[d] \notin C
      BY <1>3, <2>1, <2>2
    <2> QED
      BY <2>3
  <1>5. nx[c] \notin C
    <2> SUFFICES ASSUME nx[c] \in C PROVE FALSE
      OBVIOUS
    <2>1. PICK D : D = (C \ {d}) \cup {c}
      OBVIOUS
    <2>2. ASSUME NEW n \in D
          PROVE  nx[n] \in D \/ ch[n] \in D
      <3>1. CASE n = c
        <4>1. nx[c] # d
          OBVIOUS
        <4> QED
          BY <2>1, <3>1, <4>1
      <3>2. CASE n # c
        <4>1. n \in S \ {c, d} /\ n \in C /\ nx[n] # d /\ ch[n] # d
          BY <2>1, <3>2
        <4>2. CASE nx2[n] \in C
          <5>1. nx2[n] = nx[n] \/ nx[n] = c
            BY <4>1
          <5> QED
            BY <2>1, <4>1, <4>2, <5>1
        <4>3. CASE ch2[n] \in C
          <5>1. ch2[n] = ch[n] \/ ch[n] = c
            BY <4>1
          <5> QED
            BY <2>1, <4>1, <4>3, <5>1
        <4> QED
          BY <4>1, <4>2, <4>3
      <3> QED
        BY <3>1, <3>2
    <2>3. D = {}
      BY <2>1, <2>2 DEF Ending
    <2> QED
      BY <2>1, <2>3
  <1>6. d \notin C
    BY <1>4, <1>5
  <1>7. ASSUME NEW n \in C
        PROVE  nx[n] \in C \/ ch[n] \in C
    <2>1. n # d
      BY <1>6
    <2>2. CASE nx2[n] \in C
      <3>1. n # c /\ nx2[n] # d
        BY <1>6, <2>2
      <3> QED
        BY <2>1, <2>2, <3>1
    <2>3. CASE ch2[n] \in C
      <3>1. ch2[n] # d
        BY <1>6, <2>3
      <3> QED
        BY <2>3, <3>1
    <2> QED
      BY <2>2, <2>3
  <1> QED
    BY <1>7 DEF Ending

LEMMA LiveNotNull ==
    ASSUME NEW N \in Nat, NEW h \in Heap(N)
    PROVE  NULL \notin LiveItems(h)
  BY LinkTypes DEF NULL

LEMMA OneMoreEnds ==
    ASSUME NEW N \in Nat, NEW h \in Heap(N), DoublyLinked(h), NoCircle(h),
           NEW p \in (1 .. N) \ LiveItems(h), NEW x, x # p, NEW r, OneMore(h, r, N, p, x)
    PROVE  NoCircle(r)
  <1>1. PICK S, nx, ch : S = LiveItems(h) /\ nx = NextOf(h) /\ ch = ChildOf(h)
    OBVIOUS
  <1>2. Ending(S, nx, ch) /\ NULL \notin S
    BY <1>1, LiveNotNull, Zenon DEF NoCircle
  <1>3. p # NULL
    BY DEF NULL
  <1>4. \A n \in S : nx[n] # p /\ ch[n] # p
    BY <1>1, NothingReaches, Zenon DEF Unreached
  <1>5. PICK nx2, ch2 : nx2 = NextOf(r) /\ ch2 = ChildOf(r)
    OBVIOUS
  <1>6. /\ LiveItems(r) = S \cup {p}
        /\ nx2[p] = NULL /\ ch2[p] = x
        /\ \A n \in S \ {p} : nx2[n] = nx[n] /\ ch2[n] = ch[n]
    BY <1>1, <1>5 DEF OneMore, Loose
  <1>7. Ending(S \cup {p}, nx2, ch2)
    BY <1>2, <1>3, <1>4, <1>6, MadeEnding
  <1> QED
    BY <1>5, <1>6, <1>7, Zenon DEF NoCircle

\* cJSON_New_Item and create_reference: a new item makes no circle, although a reference
\* has its children in common with another item.
THEOREM NoCircleMade ==
    ASSUME NEW N \in Nat, NEW h \in Heap(N), DoublyLinked(h), NoCircle(h)
    PROVE  /\ NoCircle(cJSON_New_Item(h).h)
           /\ \A item \in LiveItems(h) : NoCircle(create_reference(h, item).h)
  <1>1. ASSUME NEW r \in Heap(N), r.mem = h.mem
        PROVE  NoCircle(r)
    <2>1. LiveItems(r) = LiveItems(h) /\ NextOf(r) = NextOf(h) /\ ChildOf(r) = ChildOf(h)
      BY <1>1 DEF LiveItems, NextOf, ChildOf
    <2> QED
      BY <2>1, Zenon DEF NoCircle
  <1>2. NoCircle(cJSON_New_Item(h).h)
    <2>1. PICK r : r = cJSON_New_Item(h)
      OBVIOUS
    <2>2. CASE r.p = NULL
      BY <1>1, <2>1, <2>2, ItemMade, Zenon
    <2>3. CASE r.p # NULL
      <3>1. r.p \in (1 .. N) \ LiveItems(h) /\ OneMore(h, r.h, N, r.p, NULL)
        BY <2>1, <2>3, ItemMade, Zenon
      <3>2. NULL # r.p
        BY <2>3
      <3> QED
        BY <2>1, <3>1, <3>2, OneMoreEnds, Zenon
    <2> QED
      BY <2>2, <2>3
  <1>3. ASSUME NEW item \in LiveItems(h)
        PROVE  NoCircle(create_reference(h, item).h)
    <2>1. PICK r : r = create_reference(h, item)
      OBVIOUS
    <2>2. CASE r.p = NULL
      BY <1>1, <2>1, <2>2, ReferenceMade, Zenon
    <2>3. CASE r.p # NULL
      <3>1. r.p \in (1 .. N) \ LiveItems(h) /\ OneMore(h, r.h, N, r.p, ChildOf(h)[item])
        BY <2>1, <2>3, ReferenceMade, Zenon
      <3>2. ChildOf(h)[item] \in LiveItems(h) \cup {NULL}
        BY DEF DoublyLinked, Consistent
      <3>3. ChildOf(h)[item] # r.p
        BY <2>3, <3>1, <3>2
      <3> QED
        BY <2>1, <3>1, <3>3, OneMoreEnds, Zenon
    <2> QED
      BY <2>2, <2>3
  <1> QED
    BY <1>2, <1>3

\* What is put behind another item, or into an empty array, comes with a tree that does not
\* lead there: no circle is made.  (cJSON_AddItemToArray does not look: an array that is
\* put into itself is printed for ever.)
THEOREM NoCircleAdded ==
    ASSUME NEW N \in Nat, NEW h \in Heap(N), DoublyLinked(h), NoCircle(h),
           NEW T \in SUBSET LiveItems(h), Whole(T, NextOf(h), ChildOf(h)),
           NEW item \in T, NEW to \in LiveItems(h) \ T, Loose(h, item)
    PROVE  /\ NextOf(h)[to] = NULL => NoCircle(suffix_object(h, to, item))
           /\ NoCircle(SetFirst(h, to, item))
  <1>1. PICK S, nx, ch : S = LiveItems(h) /\ nx = NextOf(h) /\ ch = ChildOf(h)
    OBVIOUS
  <1>2. Ending(S, nx, ch) /\ NULL \notin S
    BY <1>1, LiveNotNull, Zenon DEF NoCircle
  <1>3. T \in SUBSET S /\ Whole(T, nx, ch) /\ to \in S \ T /\ item \in S
    BY <1>1
  <1>4. DOMAIN nx = 1 .. N /\ DOMAIN ch = 1 .. N /\ S \in SUBSET (1 .. N)
    BY <1>1, LinkTypes
  <1>5. ASSUME nx[to] = NULL
        PROVE  NoCircle(suffix_object(h, to, item))
    <2>1. PICK r : r = suffix_object(h, to, item)
      OBVIOUS
    <2>2. /\ LiveItems(r) = S /\ NextOf(r) = [nx EXCEPT ![to] = item] /\ ChildOf(r) = ch
      BY <1>1, <1>3, <1>5, <2>1, ItemSuffixed
    <2>3. PICK nx2 : nx2 = [nx EXCEPT ![to] = item]
      OBVIOUS
    <2>4. nx2[to] = item /\ \A n \in S \ {to} : nx2[n] = nx[n]
      BY <1>3, <1>4, <2>3
    <2>5. /\ \A n \in S \ {to} : nx2[n] = nx[n] /\ ch[n] = ch[n]
          /\ nx2[to] \in {nx[to], item} /\ ch[to] \in {ch[to], item}
      BY <2>4
    <2>6. Ending(S, nx2, ch)
      BY <1>2, <1>3, <2>5, SuffixEnding
    <2> QED
      BY <2>1, <2>2, <2>3, <2>6, Zenon DEF NoCircle
  <1>6. NoCircle(SetFirst(h, to, item))
    <2>1. PICK r : r = SetFirst(h, to, item)
      OBVIOUS
    <2>2. PrevOf(h)[item] = NULL
      BY DEF Loose
    <2>3. LiveItems(r) = S /\ NextOf(r) = nx /\ ChildOf(r) = [ch EXCEPT ![to] = item]
      BY <1>1, <1>3, <2>1, <2>2, ItemFirst
    <2>4. PICK ch2 : ch2 = [ch EXCEPT ![to] = item]
      OBVIOUS
    <2>5. ch2[to] = item /\ \A n \in S \ {to} : ch2[n] = ch[n]
      BY <1>3, <1>4, <2>4
    <2>6. /\ \A n \in S \ {to} : nx[n] = nx[n] /\ ch2[n] = ch[n]
          /\ nx[to] \in {nx[to], item} /\ ch2[to] \in {ch[to], item}
      BY <2>5
    <2>7. Ending(S, nx, ch2)
      BY <1>2, <1>3, <2>6, SuffixEnding
    <2> QED
      BY <2>1, <2>3, <2>4, <2>7, Zenon DEF NoCircle
  <1> QED
    BY <1>1, <1>5, <1>6

\* cJSON_DetachItemFromArray makes no circle, whatever is detached.
THEOREM NoCircleUnlinked ==
    ASSUME NEW N \in Nat, NEW h \in Heap(N), DoublyLinked(h), NoCircle(h),
           NEW array \in LiveItems(h), NEW c \in LiveItems(h)
    PROVE  NoCircle(Unlink(h, array, c))
  <1>1. PICK S, nx, ch, r : /\ S = LiveItems(h) /\ nx = NextOf(h) /\ ch = ChildOf(h)
                            /\ r = Unlink(h, array, c)
    OBVIOUS
  <1>2. Ending(S, nx, ch) /\ NULL \notin S /\ c \in S
    BY <1>1, LiveNotNull, Zenon DEF NoCircle
  <1>3. PICK nx2, ch2 : nx2 = NextOf(r) /\ ch2 = ChildOf(r)
    OBVIOUS
  <1>4. /\ LiveItems(r) = S /\ nx2[c] = NULL
        /\ \A n \in S \ {c} : nx2[n] = IF nx[n] = c THEN nx[c] ELSE nx[n]
        /\ \A n \in S : ch2[n] = IF n = array /\ ch[array] = c THEN nx[c] ELSE ch[n]
    <2>1. Skipped(h, r, array, c)
      BY <1>1, ItemUnlinked, Zenon
    <2> QED
      BY <1>1, <1>3, <2>1 DEF Skipped
  <1>5. /\ \A n \in S \ {c} : nx2[n] = nx[n] \/ (nx[n] = c /\ nx2[n] = nx[c])
        /\ \A n \in S : ch2[n] = ch[n] \/ (ch[n] = c /\ ch2[n] = nx[c])
    BY <1>4
  <1>6. Ending(S, nx2, ch2)
    <2>1. c \in S /\ nx2[c] = NULL
      BY <1>2, <1>4
    <2> QED
      BY <1>2, <1>5, <2>1, UnlinkEnding
  <1> QED
    BY <1>1, <1>3, <1>4, <1>6, Zenon DEF NoCircle

\* An item does not lead to itself.
LEMMA NotItsOwn ==
    ASSUME NEW h, NoCircle(h), NEW c \in LiveItems(h)
    PROVE  NextOf(h)[c] # c /\ ChildOf(h)[c] # c
  <1>1. {c} \in SUBSET LiveItems(h) /\ {c} # {}
    OBVIOUS
  <1>2. ~\A n \in {c} : NextOf(h)[n] \in {c} \/ ChildOf(h)[n] \in {c}
    BY <1>1 DEF NoCircle, Ending
  <1> QED
    BY <1>2

\* cJSON_ReplaceItemInArray with the root of another tree makes no circle.
THEOREM NoCircleRelinked ==
    ASSUME NEW N \in Nat, NEW h \in Heap(N), DoublyLinked(h), NoCircle(h),
           NEW T \in SUBSET LiveItems(h), Whole(T, NextOf(h), ChildOf(h)),
           NEW array \in LiveItems(h), NEW c \in LiveItems(h) \ T, NEW newitem \in T,
           Loose(h, newitem), ChildOf(h)[array] = c \/ PrevOf(h)[c] # NULL
    PROVE  NoCircle(Relink(h, array, c, newitem))
  <1>1. PICK S, nx, ch, r : /\ S = LiveItems(h) /\ nx = NextOf(h) /\ ch = ChildOf(h)
                            /\ r = Relink(h, array, c, newitem)
    OBVIOUS
  <1>2. Ending(S, nx, ch) /\ NULL \notin S
    BY <1>1, LiveNotNull, Zenon DEF NoCircle
  <1>3. T \in SUBSET S /\ Whole(T, nx, ch) /\ c \in S \ T /\ newitem \in S /\ newitem # c
    BY <1>1
  <1>4. \A n \in S : nx[n] # newitem /\ ch[n] # newitem
    <2>1. newitem \in 1 .. N
      BY LinkTypes
    <2> QED
      BY <1>1, <2>1, NothingReaches DEF Unreached
  <1>5. NextOf(h)[c] # c
    BY NotItsOwn
  <1>6. PICK nx2, ch2 : nx2 = NextOf(r) /\ ch2 = ChildOf(r)
    OBVIOUS
  <1>7. /\ LiveItems(r) = S /\ nx2[c] = NULL /\ nx2[newitem] = nx[c]
        /\ \A n \in S \ {c, newitem} : nx2[n] = IF nx[n] = c THEN newitem ELSE nx[n]
        /\ \A n \in S : ch2[n] = IF n = array /\ ch[array] = c THEN newitem ELSE ch[n]
    <2>1. Replaced(h, r, array, c, newitem)
      BY <1>1, <1>3, <1>5, ItemRelinked, Zenon
    <2> QED
      BY <1>1, <1>6, <2>1, Zenon DEF Replaced
  <1>8. /\ \A n \in S \ {c, newitem} : nx2[n] = nx[n] \/ (nx[n] = c /\ nx2[n] = newitem)
        /\ \A n \in S : ch2[n] = ch[n] \/ (ch[n] = c /\ ch2[n] = newitem)
    BY <1>7
  <1>9. Ending(S, nx2, ch2)
    <2>1. T \in SUBSET S /\ Whole(T, nx, ch) /\ c \in S \ T /\ newitem \in T
      BY <1>3
    <2>2. nx2[c] = NULL /\ nx2[newitem] = nx[c]
      BY <1>7
    <2> QED
      BY <1>2, <1>4, <1>8, <2>1, <2>2, RelinkEnding
  <1> QED
    BY <1>1, <1>6, <1>7, <1>9, Zenon DEF NoCircle

\* cJSON_Delete, whatever it frees: fewer items, whose links are as they were, make no circle.
THEOREM NoCircleFreed ==
    ASSUME NEW h, NoCircle(h), NEW r, LiveItems(r) \in SUBSET LiveItems(h),
           \A n \in LiveItems(r) : NextOf(r)[n] = NextOf(h)[n] /\ ChildOf(r)[n] = ChildOf(h)[n]
    PROVE  NoCircle(r)
  BY DEF NoCircle, Ending

\* What it is for: a walk along next and child, as printing, duplicating and deleting make
\* it, does not go on for ever.
THEOREM WalksEnd ==
    ASSUME NEW h, NoCircle(h), NEW walk \in [Nat -> LiveItems(h)]
    PROVE  \E k \in Nat : walk[k + 1] # NextOf(h)[walk[k]] /\ walk[k + 1] # ChildOf(h)[walk[k]]
  <1> SUFFICES ASSUME \A k \in Nat : \/ walk[k + 1] = NextOf(h)[walk[k]]
                                     \/ walk[k + 1] = ChildOf(h)[walk[k]]
               PROVE  FALSE
    OBVIOUS
  <1>1. PICK C : C = {walk[k] : k \in Nat}
    OBVIOUS
  <1>2. C \in SUBSET LiveItems(h)
    BY <1>1
  <1>3. ASSUME NEW n \in C
        PROVE  NextOf(h)[n] \in C \/ ChildOf(h)[n] \in C
    <2>1. PICK k \in Nat : n = walk[k]
      BY <1>1
    <2>2. k + 1 \in Nat /\ walk[k + 1] \in C
      BY <1>1
    <2> QED
      BY <2>1, <2>2
  <1>4. C = {}
    BY <1>2, <1>3 DEF NoCircle, Ending
  <1>5. walk[0] \in C
    BY <1>1
  <1> QED
    BY <1>4, <1>5
=============================================================================
