------------------------------ MODULE JsonHeap ------------------------------
(***************************************************************************)
(* The tree operations of cJSON (common/cJSON.c, cJSON.h) on a heap.       *)
(*                                                                         *)
(* The steps that change links are JsonLinks'; here are the functions that *)
(* look for an item first, or go through a tree.                           *)
(***************************************************************************)
EXTENDS JsonLinks

-----------------------------------------------------------------------------
(* Deleting.                                                               *)

RECURSIVE cJSON_Delete(_, _)

cJSON_Delete_IgnoresReference(h, c) ==
    IF c = NULL THEN h
    ELSE IF ~h.mem[c].live THEN [h EXCEPT !.bad = TRUE]
    ELSE LET node == h.mem[c]
             h1   == cJSON_Delete(h, node.child)
             h2   == IF ~node.IsReference /\ node.valuestring # NoText THEN free(h1, 1) ELSE h1
             h3   == IF node.string # NoText THEN free(h2, 1) ELSE h2
         IN  cJSON_Delete([h3 EXCEPT !.mem[c] = Free], node.next)
cJSON_Delete(h, c) ==
    IF c = NULL THEN h
    ELSE IF ~h.mem[c].live THEN [h EXCEPT !.bad = TRUE]
    ELSE LET node == h.mem[c]
             h1   == IF node.IsReference THEN h ELSE cJSON_Delete(h, node.child)
             h2   == IF ~node.IsReference /\ node.valuestring # NoText THEN free(h1, 1) ELSE h1
             h3   == IF node.string # NoText THEN free(h2, 1) ELSE h2
         IN  cJSON_Delete([h3 EXCEPT !.mem[c] = Free], node.next)

-----------------------------------------------------------------------------
(* Looking things up.                                                      *)

\* The items from c along next: what every loop over children visits.
RECURSIVE Chain(_, _)
Chain(h, c) == IF c = NULL THEN <<>> ELSE <<c>> \o Chain(h, h.mem[c].next)

Children(h, item) == Chain(h, h.mem[item].child)

tolower(char) == IF char \in 65 .. 90 THEN char + 32 ELSE char

\* cJSON_strcasecmp, as its callers use it: is the result 0?
SameName(s1, s2) ==
    IF s1 = NoText \/ s2 = NoText
    THEN s1 = s2
    ELSE /\ Len(s1) = Len(s2)
         /\ \A n \in 1 .. Len(s1) : tolower(s1[n]) = tolower(s2[n])

cJSON_GetArraySize(h, array) == Len(Children(h, array))

\* A negative index is the first item's.
cJSON_GetArrayItem(h, array, item) ==
    LET n == IF item > 0 THEN item + 1 ELSE 1
    IN  IF n <= cJSON_GetArraySize(h, array) THEN Children(h, array)[n] ELSE NULL

\* The position, from 0, of the first child of this name; the number of children when
\* there is none.
IndexOf(h, object, string) ==
    LET kids    == Children(h, object)
        Named(n) == n \in 1 .. Len(kids) /\ SameName(h.mem[kids[n]].string, string)
    IN  IF \E n \in 1 .. Len(kids) : Named(n)
        THEN (CHOOSE n \in 1 .. Len(kids) : Named(n) /\ \A m \in 1 .. n - 1 : ~Named(m)) - 1
        ELSE Len(kids)

cJSON_GetObjectItem(h, object, string) ==
    LET n == IndexOf(h, object, string)
    IN  IF n < cJSON_GetArraySize(h, object) THEN Children(h, object)[n + 1] ELSE NULL

-----------------------------------------------------------------------------
(* Putting items in and taking them out.                                   *)

cJSON_AddItemToArray(h, array, item) ==
    IF item = NULL THEN h
    ELSE IF h.mem[array].child = NULL THEN SetFirst(h, array, item)
    ELSE suffix_object(h, Children(h, array)[cJSON_GetArraySize(h, array)], item)

cJSON_AddItemToObject_KeepsOld(h, object, string, item) ==
    IF item = NULL THEN h
    ELSE LET dup == cJSON_strdup(h, string)
         IN  cJSON_AddItemToArray([dup.h EXCEPT !.mem[item].string = dup.str], object, item)
cJSON_AddItemToObject(h, object, string, item) ==
    IF item = NULL THEN h
    ELSE LET h1  == IF h.mem[item].string # NoText THEN free(h, 1) ELSE h
             dup == cJSON_strdup(h1, string)
         IN  cJSON_AddItemToArray([dup.h EXCEPT !.mem[item].string = dup.str], object, item)

cJSON_AddItemReferenceToArray(h, array, item) ==
    LET ref == create_reference(h, item) IN cJSON_AddItemToArray(ref.h, array, ref.p)

cJSON_AddItemReferenceToObject(h, object, string, item) ==
    LET ref == create_reference(h, item) IN cJSON_AddItemToObject(ref.h, object, string, ref.p)

cJSON_DetachItemFromArray(h, array, which) ==
    LET c == cJSON_GetArrayItem(h, array, which)
    IN  [h |-> IF c = NULL THEN h ELSE Unlink(h, array, c), p |-> c]

cJSON_DeleteItemFromArray(h, array, which) ==
    LET d == cJSON_DetachItemFromArray(h, array, which) IN cJSON_Delete(d.h, d.p)

cJSON_DetachItemFromObject(h, object, string) ==
    IF cJSON_GetObjectItem(h, object, string) = NULL THEN [h |-> h, p |-> NULL]
    ELSE cJSON_DetachItemFromArray(h, object, IndexOf(h, object, string))

cJSON_DeleteItemFromObject(h, object, string) ==
    LET d == cJSON_DetachItemFromObject(h, object, string) IN cJSON_Delete(d.h, d.p)

cJSON_ReplaceItemInArray(h, array, which, newitem) ==
    LET c == cJSON_GetArrayItem(h, array, which)
    IN  IF c = NULL THEN h ELSE cJSON_Delete(Relink(h, array, c, newitem), c)

\* The name newitem had is not freed.
cJSON_ReplaceItemInObject(h, object, string, newitem) ==
    IF cJSON_GetObjectItem(h, object, string) = NULL THEN h
    ELSE LET dup == cJSON_strdup(h, string)
         IN  cJSON_ReplaceItemInArray([dup.h EXCEPT !.mem[newitem].string = dup.str],
                                      object, IndexOf(h, object, string), newitem)

-----------------------------------------------------------------------------
(* Creating items.                                                         *)

\* cJSON_CreateNull, True, False, Bool, Array and Object differ in the type alone.
CreateItem(h, type) ==
    LET new == cJSON_New_Item(h)
    IN  IF new.p = NULL THEN new
        ELSE [h |-> [new.h EXCEPT !.mem[new.p].type = type], p |-> new.p]

cJSON_CreateNumber(h, num) ==
    LET new == cJSON_New_Item(h)
    IN  IF new.p = NULL THEN new
        ELSE [h |-> [new.h EXCEPT !.mem[new.p].type = "Number", !.mem[new.p].value = num],
              p |-> new.p]

cJSON_CreateString(h, string) ==
    LET new == cJSON_New_Item(h)
        dup == cJSON_strdup(new.h, string)
    IN  IF new.p = NULL THEN new
        ELSE [h |-> [dup.h EXCEPT !.mem[new.p].type = "String",
                                  !.mem[new.p].valuestring = dup.str],
              p |-> new.p]

cJSON_AddStringToObject(h, object, name, s) ==
    LET new == cJSON_CreateString(h, s)
    IN  cJSON_AddItemToObject(new.h, object, name, new.p)

\* cJSON_CreateIntArray, FloatArray, DoubleArray; StringArray differs in how an item is
\* made.  An item that could not be made is linked like any other: fault says that
\* suffix_object was given a NULL.
RECURSIVE AppendNumbers(_, _, _, _)
AppendNumbers(h, a, p, numbers) ==
    LET Linked(n) ==
            IF p = a
            THEN AppendNumbers(SetFirst(n.h, a, n.p), a, n.p, Tail(numbers))
            ELSE IF p = NULL \/ n.p = NULL THEN [h |-> n.h, p |-> a, fault |-> TRUE]
            ELSE AppendNumbers(suffix_object(n.h, p, n.p), a, n.p, Tail(numbers))
    IN  IF numbers = <<>> THEN [h |-> h, p |-> a, fault |-> FALSE]
        ELSE Linked(cJSON_CreateNumber(h, Head(numbers)))

cJSON_CreateIntArray(h, numbers) ==
    LET Created(a) == IF a.p = NULL THEN [h |-> a.h, p |-> NULL, fault |-> FALSE]
                      ELSE AppendNumbers(a.h, a.p, a.p, numbers)
    IN  Created(CreateItem(h, "Array"))

\* A copy of the item itself; NULL, and nothing allocated, when memory runs out.
CopyOf(h, item) ==
    LET src  == h.mem[item]
        new  == cJSON_New_Item(h)
        val  == IF src.valuestring # NoText THEN cJSON_strdup(new.h, src.valuestring)
                                            ELSE [h |-> new.h, str |-> NoText]
        name == IF src.string # NoText THEN cJSON_strdup(val.h, src.string)
                                       ELSE [h |-> val.h, str |-> NoText]
        Filled(h1, v, s) == [h1 EXCEPT !.mem[new.p] = [Zeroed EXCEPT
                                !.type = src.type, !.value = src.value,
                                !.valuestring = v, !.string = s]]
    IN  CASE new.p = NULL             -> new
          [] val.str # src.valuestring ->
                [h |-> cJSON_Delete(Filled(val.h, NoText, NoText), new.p), p |-> NULL]
          [] name.str # src.string     ->
                [h |-> cJSON_Delete(Filled(name.h, val.str, NoText), new.p), p |-> NULL]
          [] OTHER                    -> [h |-> Filled(name.h, val.str, name.str), p |-> new.p]

RECURSIVE cJSON_Duplicate(_, _, _)
RECURSIVE DuplicateChildren(_, _, _, _)

\* The children from cptr on are copied behind nptr.
DuplicateChildren_Leaks(h, newitem, cptr, nptr) ==
    LET Copied(new) ==
            IF new.p = NULL THEN [h |-> new.h, p |-> NULL]
            ELSE DuplicateChildren(IF nptr # NULL THEN suffix_object(new.h, nptr, new.p)
                                   ELSE SetFirst(new.h, newitem, new.p),
                                   newitem, new.h.mem[cptr].next, new.p)
    IN  IF cptr = NULL THEN [h |-> h, p |-> newitem] ELSE Copied(cJSON_Duplicate(h, cptr, TRUE))
DuplicateChildren(h, newitem, cptr, nptr) ==
    LET Copied(new) ==
            IF new.p = NULL THEN [h |-> cJSON_Delete(new.h, newitem), p |-> NULL]
            ELSE DuplicateChildren(IF nptr # NULL THEN suffix_object(new.h, nptr, new.p)
                                   ELSE SetFirst(new.h, newitem, new.p),
                                   newitem, new.h.mem[cptr].next, new.p)
    IN  IF cptr = NULL THEN [h |-> h, p |-> newitem] ELSE Copied(cJSON_Duplicate(h, cptr, TRUE))

cJSON_Duplicate(h, item, recurse) ==
    LET Copied(new) == IF new.p = NULL \/ ~recurse THEN new
                       ELSE DuplicateChildren(new.h, new.p, h.mem[item].child, NULL)
    IN  Copied(CopyOf(h, item))
=============================================================================
