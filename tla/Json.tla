-------------------------------- MODULE Json --------------------------------
(***************************************************************************)
(* cJSON as its clients see it: a client holds items (roots) and calls the *)
(* library in any order, every malloc may fail, and what the client owns   *)
(* is what it was given and has not put into another item or deleted.      *)
(*                                                                         *)
(* The client keeps the library's rules: it adds an item it owns, to an    *)
(* item of another tree, by name to objects and without to arrays; and     *)
(* while a reference to one of its items exists, it leaves that item's     *)
(* tree as it is.                                                          *)
(***************************************************************************)
EXTENDS JsonText

CONSTANTS
    MaxNodes,   \* nodes there is memory for
    MaxMallocs, \* the mallocs of one call, up to which one may fail
    MaxFails,   \* bound: how many calls meet a failing malloc
    MaxRoots,   \* bound: items the client holds at a time
    MaxCalls,   \* bound: calls the client makes
    Names,      \* names of members
    Texts,      \* texts of strings
    Plain,      \* types of items the client creates that have no text
    Numbers,    \* number arrays it creates
    Inputs      \* texts it parses, with the trees they mean: [text, tree]

ASSUME BoundsAssumption == MaxNodes \in Nat \ {0} /\ MaxMallocs \in Nat
                           /\ MaxFails \in Nat /\ MaxRoots \in Nat /\ MaxCalls \in Nat

VARIABLES
    heap,
    roots,          \* the items the client owns
    calls,          \* calls made
    fails,          \* calls that have met a failing malloc
    overwritten,    \* history: names that lost their last pointer
    crashed         \* a NULL was followed

vars == <<heap, roots, calls, fails, overwritten, crashed>>

Nodes == 1 .. MaxNodes
Live  == LiveItems(heap)

TypeOK ==
    /\ heap \in Heap(MaxNodes)
    /\ heap.blocks \in Nat /\ heap.left = 0
    /\ roots \subseteq Nodes
    /\ fails \in 0 .. MaxFails
    /\ overwritten \in Nat
    /\ calls \in 0 .. MaxCalls
    /\ crashed \in BOOLEAN

Init == /\ heap = EmptyHeap(MaxNodes)
        /\ roots = {}
        /\ calls = 0 /\ fails = 0 /\ overwritten = 0 /\ crashed = FALSE

-----------------------------------------------------------------------------
\* The items a tree consists of; a reference does not own its children.
RECURSIVE Items(_)
Items(c) ==
    IF c = NULL THEN {}
    ELSE {c} \cup Items(heap.mem[c].next)
             \cup (IF heap.mem[c].IsReference THEN {} ELSE Items(heap.mem[c].child))

Root(n) == CHOOSE r \in roots : n \in Items(r)

\* A reference to one of the tree's items exists.
Frozen(r) == \E n \in Live : heap.mem[n].IsReference /\ heap.mem[n].of \in Items(r)

Is(n, type) == n \in Live /\ ~heap.mem[n].IsReference /\ heap.mem[n].type = type

\* Items the client may change, and items it may put into item a.
Mine(n)    == ~Frozen(Root(n))
Loose(a)   == {r \in roots \ {Root(a)} : ~Frozen(r)}
Index      == 0 .. MaxNodes - 1

\* The call runs with its k-th malloc failing, or with none (k = 0).
FailAt  == 0 .. (IF fails < MaxFails THEN MaxMallocs ELSE 0)
From(k) == [heap EXCEPT !.left = k]
Done(k, h) == /\ ~crashed /\ calls < MaxCalls
              /\ \E result \in {h} : result.left = 0 /\ heap' = result
              /\ calls' = calls + 1
              /\ fails' = fails + (IF k > 0 THEN 1 ELSE 0)

Given(p) == /\ roots' = roots \cup ({p} \ {NULL})
            /\ Cardinality(roots') <= MaxRoots

-----------------------------------------------------------------------------
(* The client's calls.                                                     *)

Create(k, r) == Done(k, r.h) /\ Given(r.p) /\ UNCHANGED <<overwritten, crashed>>

\* What cJSON_CreateIntArray does when it gets to link a NULL.
CreateNumbers(k, r) ==
    IF r.fault THEN /\ Done(k, [heap EXCEPT !.left = r.h.left])
                    /\ crashed' = TRUE
                    /\ UNCHANGED <<roots, overwritten>>
    ELSE Create(k, r)

\* A call that puts `item' into another one, or leaves it with the client.
Give(k, h, array, item) ==
    /\ Done(k, h)
    /\ roots' = IF \E n \in Index : cJSON_GetArrayItem(h, array, n) = item
                THEN roots \ {item} ELSE roots
    /\ UNCHANGED crashed

\* A call that changes a tree and gives nothing back.
Change(k, h) == Done(k, h) /\ UNCHANGED <<roots, overwritten, crashed>>

Creates ==
    \E k \in FailAt :
        \/ \E type \in Plain : Create(k, CreateItem(From(k), type))
        \/ \E s \in Texts : Create(k, cJSON_CreateString(From(k), s))
        \/ \E numbers \in Numbers : CreateNumbers(k, cJSON_CreateIntArray(From(k), numbers))
        \/ \E x \in Live, recurse \in BOOLEAN : Create(k, cJSON_Duplicate(From(k), x, recurse))
        \/ \E input \in Inputs : Create(k, cJSON_Parse(From(k), input.text))

Adds ==
    \/ \E a \in Live : Is(a, "Array") /\ Mine(a) /\ \E item \in Loose(a) :
          /\ Give(0, cJSON_AddItemToArray(heap, a, item), a, item)
          /\ UNCHANGED overwritten
    \/ \E k \in FailAt, o \in Live, name \in Names : Is(o, "Object") /\ Mine(o) /\
          \/ \E item \in Loose(o) :
                /\ Give(k, cJSON_AddItemToObject(From(k), o, name, item), o, item)
                /\ UNCHANGED overwritten
          \/ \E s \in Texts :
                Change(k, cJSON_AddStringToObject(From(k), o, name, s))

References ==
    \E k \in FailAt, a \in Live, x \in Live : Mine(a) /\ Root(x) # Root(a) /\
        \/ Is(a, "Array") /\ Change(k, cJSON_AddItemReferenceToArray(From(k), a, x))
        \/ /\ Is(a, "Object")
           /\ \E name \in Names :
                 Change(k, cJSON_AddItemReferenceToObject(From(k), a, name, x))

Detaches ==
    \/ \E a \in Live, n \in Index : Is(a, "Array") /\ Mine(a) /\
          Create(0, cJSON_DetachItemFromArray(heap, a, n))
    \/ \E o \in Live, name \in Names : Is(o, "Object") /\ Mine(o) /\
          Create(0, cJSON_DetachItemFromObject(heap, o, name))

Deletes ==
    \/ \E r \in roots : /\ ~Frozen(r) /\ Done(0, cJSON_Delete(heap, r))
                        /\ roots' = roots \ {r} /\ UNCHANGED <<overwritten, crashed>>
    \/ \E a \in Live, n \in Index : Is(a, "Array") /\ Mine(a) /\
          Change(0, cJSON_DeleteItemFromArray(heap, a, n))
    \/ \E o \in Live, name \in Names : Is(o, "Object") /\ Mine(o) /\
          Change(0, cJSON_DeleteItemFromObject(heap, o, name))

Replaces ==
    \/ \E a \in Live, n \in Index : Is(a, "Array") /\ Mine(a) /\ \E item \in Loose(a) :
          /\ Give(0, cJSON_ReplaceItemInArray(heap, a, n, item), a, item)
          /\ UNCHANGED overwritten
    \/ \E k \in FailAt, o \in Live, name \in Names : Is(o, "Object") /\ Mine(o) /\
          \E item \in Loose(o) :
              /\ Give(k, cJSON_ReplaceItemInObject(From(k), o, name, item), o, item)
              /\ overwritten' = overwritten +
                    (IF heap.mem[item].string # NoText
                        /\ cJSON_GetObjectItem(heap, o, name) # NULL THEN 1 ELSE 0)

Next == Creates \/ Adds \/ References \/ Detaches \/ Deletes \/ Replaces

Spec == Init /\ [][Next]_vars

-----------------------------------------------------------------------------
(* Properties of the heap.                                                 *)

\* Links lead to live items, and the lists of children are doubly linked, as detaching
\* and replacing need them: a first child has no predecessor, every other item is its
\* predecessor's successor, and an item the client owns has no neighbours.  Nothing goes
\* round in a circle, so that printing, duplicating and deleting come to an end.
Linked ==
    /\ TypeOK
    /\ DoublyLinked(heap) /\ NoCircle(heap)
    /\ \A n \in roots : heap.mem[n].next = NULL /\ heap.mem[n].prev = NULL

\* Every item belongs to exactly one item of the client: none is leaked, none could be
\* deleted twice, whichever malloc failed on the way.
OneOwner ==
    /\ Live = UNION {Items(r) : r \in roots}
    /\ \A r, s \in roots : r # s => Items(r) \cap Items(s) = {}

\* Every other block is the text or the name of exactly one item, but for the names
\* that cJSON_ReplaceItemInObject overwrote (it does not free the name the new item
\* had, cJSON.c:892).
BlocksOwned ==
    LET texts == {n \in Live : ~heap.mem[n].IsReference /\ heap.mem[n].valuestring # NoText}
        names == {n \in Live : heap.mem[n].string # NoText}
    IN  heap.blocks = Cardinality(texts) + Cardinality(names) + overwritten

\* No freed item is used, and no text is longer than its block, whose length was
\* computed before the text was composed: neither in a call that was made nor in
\* printing, formatted or not, what there is.
MemorySafe ==
    /\ ~heap.bad
    /\ \A r \in roots, fmt \in BOOLEAN : ~print_value(heap, r, 0, fmt).h.bad

-----------------------------------------------------------------------------
(* Properties of the text.                                                 *)

\* The tree an item stands for: a name counts in an object only, and references are
\* followed.
RECURSIVE TreeOf(_, _, _)
TreeOf(h, c, member) ==
    LET node == h.mem[c]
        kids == Children(h, c)
    IN  [type |-> node.type, value |-> node.value, text |-> node.valuestring,
         name |-> IF member THEN node.string ELSE NoText,
         kids |-> [n \in 1 .. Len(kids) |-> TreeOf(h, kids[n], node.type = "Object")]]

Mute(t) == t.type = "String" /\ t.text = NoText

\* An array that consists of one string without a text prints as an empty one.
RECURSIVE Kept(_)
Kept(t) == [t EXCEPT !.kids = IF t.type = "Array" /\ Len(t.kids) = 1 /\ Mute(t.kids[1])
                              THEN <<>> ELSE [n \in 1 .. Len(t.kids) |-> Kept(t.kids[n])]]

\* All texts and names are there.
RECURSIVE Legible(_)
Legible(t) == /\ ~Mute(t)
              /\ \A n \in 1 .. Len(t.kids) : /\ Legible(t.kids[n])
                                             /\ t.type = "Object" => t.kids[n].name # NoText

\* Nodes enough for what references repeat.
Scratch == EmptyHeap(4 * MaxNodes)

\* What is printed, formatted or not, is parsed as the tree it was printed from.  When
\* a malloc that failed left an item without its text or name, the parser refuses the
\* text rather than reading another tree from it, but for an array whose only string
\* was lost, which comes back empty.  Minifying the formatted text gives the other one.
RoundTrip ==
    /\ \A r \in roots, fmt \in BOOLEAN :
          LET Same(t, p) == IF Legible(t) THEN p.p # NULL /\ TreeOf(p.h, p.p, FALSE) = t
                                          ELSE p.p = NULL
          IN  Same(Kept(TreeOf(heap, r, FALSE)),
                   cJSON_Parse(Scratch, print_value(heap, r, 0, fmt).out))
    /\ \A r \in roots :
          cJSON_Minify(cJSON_Print(heap, r).out) = cJSON_PrintUnformatted(heap, r).out

\* Whichever malloc fails, printing gives all its blocks back, and returns NULL; else
\* the text is the one block more.
PrintBalanced ==
    \A r \in roots, k \in 0 .. MaxMallocs :
        LET Balanced(p) ==
                /\ p.h.blocks = heap.blocks + (IF p.out = NoText THEN 0 ELSE 1)
                /\ p.out = NoText <=> (k > 0 /\ p.h.left = 0)
                /\ p.h.mem = heap.mem
        IN  Balanced(cJSON_Print(From(k), r))

\* The texts are parsed as the trees they mean (blanks, escapes, numbers with fraction
\* and exponent), and when a malloc fails on the way everything is freed again.
ParsedAsMeant ==
    roots = {} => \A input \in Inputs, k \in 0 .. MaxMallocs :
        LET Meant(p) ==
                IF k > 0 /\ p.h.left = 0 THEN p.p = NULL /\ p.h = Scratch
                ELSE p.p # NULL /\ ~p.h.bad /\ TreeOf(p.h, p.p, FALSE) = input.tree
        IN  Meant(cJSON_Parse([Scratch EXCEPT !.left = k], input.text))
=============================================================================
