----------------------------- MODULE JsonLinks -----------------------------
(***************************************************************************)
(* The heap of cJSON (common/cJSON.c, cJSON.h) and the steps that make and *)
(* change the links between its items.                                     *)
(*                                                                         *)
(* An operator takes the heap and returns it changed, with the item the C  *)
(* function returns: [h |-> heap, p |-> item].  Nodes are the cJSON        *)
(* structures; of the other allocations (strings and print buffers) only   *)
(* the number that is live is kept.  A text is a sequence of bytes, without*)
(* its terminator.                                                         *)
(*                                                                         *)
(* Memory may run out: a heap has a number of nodes, and `left' counts     *)
(* down to the one malloc that fails.                                      *)
(***************************************************************************)
EXTENDS Integers, Sequences, FiniteSets

NULL   == 0
NoText == <<256>>       \* a char pointer that is NULL: 256 is no byte

ItemTypes == {"False", "True", "NULL", "Number", "String", "Array", "Object"}

\* A node as memset leaves it: type 0 is cJSON_False.  `of' is history: the item a
\* reference was made from.
Zeroed == [live |-> TRUE, type |-> "False", IsReference |-> FALSE, of |-> NULL,
           next |-> NULL, prev |-> NULL, child |-> NULL,
           valuestring |-> NoText, string |-> NoText, value |-> 0]
Free   == [Zeroed EXCEPT !.live = FALSE]

EmptyHeap(n) == [mem    |-> [k \in 1 .. n |-> Free],
                 blocks |-> 0,      \* live allocations that are not nodes
                 left   |-> 0,      \* mallocs up to the one that fails; 0: none will
                 bad    |-> FALSE]  \* freed memory was used, or a buffer overrun

-----------------------------------------------------------------------------
(* What a heap is, and what its lists of children should be.               *)

Item(N) == [live : BOOLEAN, type : ItemTypes, IsReference : BOOLEAN, of : 0 .. N,
            next : 0 .. N, prev : 0 .. N, child : 0 .. N,
            valuestring : Seq(Nat), string : Seq(Nat), value : Int]

Heap(N) == [mem : [1 .. N -> Item(N)], blocks : Int, left : Nat, bad : BOOLEAN]

\* The links, field by field.
LiveItems(h) == {n \in DOMAIN h.mem : h.mem[n].live}
NextOf(h)    == [n \in DOMAIN h.mem |-> h.mem[n].next]
PrevOf(h)    == [n \in DOMAIN h.mem |-> h.mem[n].prev]
ChildOf(h)   == [n \in DOMAIN h.mem |-> h.mem[n].child]

\* Links lead to items of S; an item is its successor's predecessor and the other way
\* round; a first child has no predecessor.
Consistent(S, next, prev, child) ==
    \A n \in S :
        /\ next[n] \in S \cup {NULL} /\ prev[n] \in S \cup {NULL} /\ child[n] \in S \cup {NULL}
        /\ next[n] # NULL => prev[next[n]] = n
        /\ prev[n] # NULL => next[prev[n]] = n
        /\ child[n] # NULL => prev[child[n]] = NULL

DoublyLinked(h) == Consistent(LiveItems(h), NextOf(h), PrevOf(h), ChildOf(h))

\* Whoever goes from item to item in S, to the next or to the first child, comes to an end:
\* there are no items each of which leads to one of them.
Ending(S, next, child) ==
    \A C \in SUBSET S : (\A n \in C : next[n] \in C \/ child[n] \in C) => C = {}

NoCircle(h) == Ending(LiveItems(h), NextOf(h), ChildOf(h))

-----------------------------------------------------------------------------
(* Allocation.                                                             *)

Granted(h) == h.left # 1
Asked(h)   == [h EXCEPT !.left = IF @ > 0 THEN @ - 1 ELSE 0]

FreeNodes(h) == {n \in DOMAIN h.mem : ~h.mem[n].live}

cJSON_New_Item(h) ==
    IF Granted(h) /\ FreeNodes(h) # {}
    THEN LET p == CHOOSE n \in FreeNodes(h) : \A m \in FreeNodes(h) : n <= m
         IN  [h |-> [Asked(h) EXCEPT !.mem[p] = Zeroed], p |-> p]
    ELSE [h |-> Asked(h), p |-> NULL]

\* A block that is not a node: a string, a print buffer.
malloc(h) == IF Granted(h) THEN [h |-> [Asked(h) EXCEPT !.blocks = @ + 1], ok |-> TRUE]
                           ELSE [h |-> Asked(h), ok |-> FALSE]

\* n blocks are given back.
free(h, n) == [h EXCEPT !.blocks = @ - n]

cJSON_strdup(h, str) ==
    LET m == malloc(h) IN [h |-> m.h, str |-> IF m.ok THEN str ELSE NoText]

-----------------------------------------------------------------------------
(* Links.                                                                  *)

suffix_object(h, prev, item) ==
    [h EXCEPT !.mem[prev].next = item, !.mem[item].prev = prev]

\* The first item of a list.
SetFirst(h, array, item) == [h EXCEPT !.mem[array].child = item]

create_reference(h, item) ==
    LET new == cJSON_New_Item(h)
    IN  IF new.p = NULL THEN new
        ELSE [h |-> [new.h EXCEPT !.mem[new.p] =
                        [h.mem[item] EXCEPT !.string = NoText, !.IsReference = TRUE,
                                            !.next = NULL, !.prev = NULL, !.of = item]],
              p |-> new.p]

\* The neighbours, or the parent, no longer point to c.
Unlink_OneWay(h, array, c) ==
    LET node == h.mem[c]
        h1   == IF node.prev # NULL THEN [h EXCEPT !.mem[node.prev].next = node.next] ELSE h
        h2   == IF c = h1.mem[array].child THEN [h1 EXCEPT !.mem[array].child = node.next] ELSE h1
    IN  [h2 EXCEPT !.mem[c].prev = NULL, !.mem[c].next = NULL]
Unlink(h, array, c) ==
    LET node == h.mem[c]
        h1   == IF node.prev # NULL THEN [h EXCEPT !.mem[node.prev].next = node.next] ELSE h
        h2   == IF node.next # NULL THEN [h1 EXCEPT !.mem[node.next].prev = node.prev] ELSE h1
        h3   == IF c = h2.mem[array].child THEN [h2 EXCEPT !.mem[array].child = node.next] ELSE h2
    IN  [h3 EXCEPT !.mem[c].prev = NULL, !.mem[c].next = NULL]

\* newitem takes the place of c among its neighbours, or as the first child.
Relink(h, array, c, newitem) ==
    LET node == h.mem[c]
        h1   == [h EXCEPT !.mem[newitem].next = node.next, !.mem[newitem].prev = node.prev]
        h2   == IF node.next # NULL THEN [h1 EXCEPT !.mem[node.next].prev = newitem] ELSE h1
        h3   == IF c = h2.mem[array].child
                THEN [h2 EXCEPT !.mem[array].child = newitem]
                ELSE [h2 EXCEPT !.mem[node.prev].next = newitem]
    IN  [h3 EXCEPT !.mem[c].next = NULL, !.mem[c].prev = NULL]
=============================================================================
