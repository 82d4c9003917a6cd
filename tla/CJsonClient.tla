---------------------------- MODULE CJsonClient ----------------------------
(***************************************************************************)
(* A program that uses cJSON: it parses, builds, edits, copies, patches    *)
(* and deletes documents, in any order, and allocations may fail in the    *)
(* middle of a call.  It keeps to what the library asks of its callers:    *)
(*   - an item is added to one place only, and not to its own members;     *)
(*   - as long as a reference to members exists, they are neither edited   *)
(*     nor freed;                                                          *)
(*   - nothing is appended to an object once it has been sorted, because   *)
(*     sort_list does not maintain prev of the first member;               *)
(*   - the root of a document that is patched is not a reference, neither  *)
(*     it nor a member of a patch has a constant name, and the from of a   *)
(*     move is a string, none of which apply_patch looks at.               *)
(* The functions of cJSON_Utils.c do not handle a failing allocation and   *)
(* are called when there is memory.                                        *)
(***************************************************************************)
EXTENDS CJsonText, CJsonUtils

CONSTANTS Texts,      \* what is parsed
          Values,     \* numbers and strings for new items: <<type, value>>
          Keys,       \* names for new members
          Credits,    \* how many allocations succeed in a call
          Plenty,     \* enough of them for every call
          MaxItems,   \* bound on the items in use before a call
          MaxSize,    \* bound on the documents that are compared and patched below
          MaxCalls    \* bound on the calls

VARIABLES heap,    \* the cells of the allocated items
          held,    \* the items the program got and has not added to another or deleted
          wild,    \* a call stored to or freed what is not an item
          sorted,  \* the objects that have been sorted
          lost,    \* references that were left behind
          calls

vars == <<heap, held, wild, sorted, lost, calls>>

Mem(c) == Memory(heap, c)
Now    == Mem(0)

Init == /\ heap = <<>> /\ held = {} /\ wild = FALSE
        /\ sorted = {} /\ lost = {} /\ calls = 0
-----------------------------------------------------------------------------
(***************************************************************************)
(* What the program may do.                                                *)
(***************************************************************************)
\* The item and all it owns, in the order of a walk; k bounds its depth.
RECURSIVE Owns(_, _, _)
Owns(m, i, k) ==
  IF k = 0 \/ m.cell[i].ref THEN <<i>>
  ELSE LET s == Members(m, i) IN <<i>> \o FlattenSeq([j \in 1..Len(s) |-> Owns(m, s[j], k - 1)])

Walk(i) == Owns(Now, i, Cardinality(Items))
Tree(i) == ToSet(Walk(i))
Live    == DOMAIN heap

Borrowers == {r \in Live : heap[r].ref /\ heap[r].child # NULL}
LentBy(r) == ToSet(FlattenSeq([j \in 1..Len(Members(Now, r)) |-> Walk(Members(Now, r)[j])]))
Lent      == UNION {LentBy(r) : r \in Borrowers}

\* p may be edited: no reference shares its members.
Editable(p, type) ==
  /\ p \in Live /\ heap[p].type = type /\ ~heap[p].ref /\ p \notin Lent \cup lost
  /\ heap[p].child \notin Lent

Appendable(p, type) == Editable(p, type) /\ p \notin sorted

\* x may be freed: no reference from elsewhere leads into it.
Freeable(x) == \A r \in Borrowers : r \in Tree(x) \/ LentBy(r) \cap Tree(x) = {}

\* x is the program's own, and p is not one of its members.
Given(x, p) == x \in held /\ p \notin Tree(x)

Budget == calls < MaxCalls /\ Cardinality(Live) <= MaxItems

Commit(m) ==
  /\ heap' = m.cell
  /\ wild' = (wild \/ m.wild)
  /\ calls' = calls + 1

\* The outcome r of a call on documents that sorts nothing and loses nothing.
Plain(m)      == Commit(m) /\ sorted' = sorted \cap DOMAIN m.cell /\ UNCHANGED lost
Gets(r)       == Plain(r.m) /\ held' = held \cup ({r.r} \ {NULL})
Gives(r, x)   == Plain(r.m) /\ held' = IF r.r THEN held \ {x} ELSE held
-----------------------------------------------------------------------------
(***************************************************************************)
(* Calls of cJSON.c.                                                       *)
(***************************************************************************)
Parse(text, nul, end, c) == Gets(cJSON_ParseWithLengthOpts(Mem(c), text, nul, end))
New(v, c)             == Gets(Create(Mem(c), v[1], v[2]))
NewArray(v, n, c)     == v[1] \in {"number", "string"} /\ Gets(CreateArrayOf(Mem(c), v[1], [i \in 1..n |-> v[2]]))
NewReference(p, c) ==
  /\ p \in Live /\ p \notin lost /\ heap[p].type \in {"string", "object", "array"}
  /\ Gets(CreateReference(Mem(c), heap[p].type, heap[p].val, heap[p].child))
Copy(x, recurse, c)   == x \in Live /\ Gets(cJSON_Duplicate(Mem(c), x, recurse))
DeleteDocument(x)     == x \in held /\ Freeable(x) /\ Plain(cJSON_Delete(Now, x)) /\ held' = held \ {x}

AddToArray(a, x)      == Appendable(a, "array") /\ Given(x, a) /\ Gives(add_item_to_array(Now, a, x), x)
AddToObject(o, n, x, const, c) ==
  Appendable(o, "object") /\ Given(x, o) /\ Gives(add_item_to_object(Mem(c), o, n, x, const), x)
AddNew(o, n, v, c) ==
  /\ Appendable(o, "object")
  /\ Plain(AddNewToObject(Mem(c), o, n, v[1], v[2]).m) /\ UNCHANGED held
AddReference(a, x, c) ==
  /\ Appendable(a, "array") /\ x \in Live /\ a \notin Tree(x)
  /\ Plain(cJSON_AddItemReferenceToArray(Mem(c), a, x).m) /\ UNCHANGED held
AddNamedReference(o, n, x, c) ==
  LET r == cJSON_AddItemReferenceToObject(Mem(c), o, n, x) IN
  /\ Appendable(o, "object") /\ x \in Live /\ o \notin Tree(x)
  /\ Commit(r.m)
  /\ lost' = IF r.r THEN lost ELSE lost \cup (DOMAIN heap' \ DOMAIN heap)
  /\ UNCHANGED <<held, sorted>>

DetachAt(a, i)        == Editable(a, "array") /\ Gets(cJSON_DetachItemFromArray(Now, a, i))
DetachNamed(o, n, cs) == Editable(o, "object") /\ Gets(cJSON_DetachItemFromObject(Now, o, n, cs))
DeleteAt(a, i) ==
  LET d == cJSON_DetachItemFromArray(Now, a, i) IN
  /\ Editable(a, "array")
  /\ d.r # NULL => Freeable(d.r)
  /\ Plain(DeleteDetached(d)) /\ UNCHANGED held
DeleteNamed(o, n, cs) ==
  LET d == cJSON_DetachItemFromObject(Now, o, n, cs) IN
  /\ Editable(o, "object")
  /\ d.r # NULL => Freeable(d.r)
  /\ Plain(DeleteDetached(d)) /\ UNCHANGED held

Insert(a, i, x)       == Appendable(a, "array") /\ Given(x, a) /\ Gives(cJSON_InsertItemInArray(Now, a, i, x), x)
ReplaceIndexed(a, i, x) ==
  LET old == get_array_item(Now, a, i) IN
  /\ Editable(a, "array") /\ Given(x, a)
  /\ i >= 0 /\ old # NULL => Freeable(old)
  /\ Gives(cJSON_ReplaceItemInArray(Now, a, i, x), x)
ReplaceNamed(o, n, x, cs, c) ==
  LET old == get_object_item(Now, o, n, cs) IN
  /\ Editable(o, "object") /\ Given(x, o)
  /\ old # NULL => Freeable(old)
  /\ Gives(replace_item_in_object(Mem(c), o, n, x, cs), x)
-----------------------------------------------------------------------------
(***************************************************************************)
(* Calls of cJSON_Utils.c.                                                 *)
(***************************************************************************)
\* An object is taken for sorted when it may have been.
InOrder(m, p, Less(_, _)) == LET s == Members(m, p) IN \A k \in 1..(Len(s) - 1) : Less(s[k], s[k + 1])

MayHaveSorted(m, cs) ==
  {p \in Live : /\ p \in DOMAIN m.cell /\ m.cell[p].type = "object" /\ heap[p].type = "object"
                /\ ~InOrder(Now, p, LAMBDA i, j : Before(Now, i, j, cs))
                /\ InOrder(m, p, LAMBDA i, j : ~Before(m, j, i, cs))}

Sorting(m, cs) ==
  /\ Borrowers = {} /\ Commit(m) /\ UNCHANGED lost
  /\ sorted' = (sorted \cap DOMAIN heap') \cup MayHaveSorted(m, cs)

Sort(o, cs) == o \in Live /\ heap[o].type = "object" /\ Sorting(sort_object(Mem(Plenty), o, cs), cs) /\ UNCHANGED held

\* The outcome r of a call that makes a patch.
GetsSorting(r, cs) == Sorting(r.m, cs) /\ held' = held \cup ({r.r} \ {NULL})

GeneratePatches(from, to, cs) ==
  from \in held /\ to \in held /\ from # to /\ GetsSorting(cJSONUtils_GeneratePatches(Mem(Plenty), from, to, cs), cs)

GenerateMergePatch(from, to, cs) ==
  from \in held /\ to \in held /\ from # to /\ GetsSorting(generate_merge_patch(Mem(Plenty), from, to, cs), cs)

\* The patch p moves something, and says in a string from where, if at all.
MoveIsFromText(p, cs) ==
  decode_patch_operation(Now, p, cs) = "move"
    => Type(Now, get_object_item(Now, p, "from", cs)) \in {"none", "string"}

Patchable(root, patches, cs) ==
  /\ ~heap[root].ref
  /\ \A i \in {root} \cup Tree(patches) : ~heap[i].cons
  /\ \A p \in Tree(patches) : heap[p].type = "object" => MoveIsFromText(p, cs)

ApplyPatches(root, patches, cs) ==
  /\ root \in held /\ patches \in held /\ root # patches /\ Tree(root) \cap sorted = {}
  /\ Patchable(root, patches, cs)
  /\ Sorting(cJSONUtils_ApplyPatches(Mem(Plenty), root, patches, cs).m, cs)
  /\ UNCHANGED held

MergePatch(target, patch, cs) ==
  LET Takes(r) == Plain(r.m) /\ held' = (held \ {target}) \cup {r.r} IN
  /\ target \in held /\ patch \in held /\ target # patch /\ Tree(target) \cap sorted = {} /\ Borrowers = {}
  /\ Takes(merge_patch(Mem(Plenty), target, patch, cs))

Positions == -1..2

Next ==
  \/ Budget /\ \E text \in Texts, nul, end \in BOOLEAN, c \in Credits : Parse(text, nul, end, c)
  \/ Budget /\ \E v \in Values, c \in Credits : New(v, c) \/ \E n \in 0..2 : NewArray(v, n, c)
  \/ Budget /\ \E x \in held : DeleteDocument(x)
  \/ Budget /\ \E p \in Live, c \in Credits : NewReference(p, c) \/ \E recurse \in BOOLEAN : Copy(p, recurse, c)
  \/ Budget /\ \E a \in Live, i \in Positions : DetachAt(a, i) \/ DeleteAt(a, i)
  \/ Budget /\ \E a \in Live, x \in held :
       AddToArray(a, x) \/ \E i \in Positions : Insert(a, i, x) \/ ReplaceIndexed(a, i, x)
  \/ Budget /\ \E a, x \in Live, c \in Credits : AddReference(a, x, c)
  \/ Budget /\ \E o \in Live, n \in Keys, c \in Credits :
       \/ \E v \in Values : AddNew(o, n, v, c)
       \/ \E x \in Live : AddNamedReference(o, n, x, c)
       \/ \E x \in held, b \in BOOLEAN : AddToObject(o, n, x, b, c) \/ ReplaceNamed(o, n, x, b, c)
  \/ Budget /\ \E o \in Live, cs \in BOOLEAN :
       Sort(o, cs) \/ \E n \in Keys : DetachNamed(o, n, cs) \/ DeleteNamed(o, n, cs)
  \/ Budget /\ \E x, y \in held, cs \in BOOLEAN :
       \/ GeneratePatches(x, y, cs) \/ GenerateMergePatch(x, y, cs)
       \/ ApplyPatches(x, y, cs) \/ MergePatch(x, y, cs)

Spec == Init /\ [][Next]_vars
-----------------------------------------------------------------------------
(***************************************************************************)
(* Properties.                                                             *)
(***************************************************************************)
\* Every allocated item is the program's own or a member of exactly one list of
\* what the program holds, whatever calls were made and whichever of their
\* allocations failed: no item leaks, is shared or is used after it was freed.
\* The lists are linked both ways and, unless they were sorted, their first
\* member knows the last, which add_item_to_array relies on.
DocumentsAreWhole ==
  LET all == FlattenSeq([k \in 1..Cardinality(held) |-> Walk(SetToSeq(held)[k])]) IN
  /\ ~wild
  /\ Len(all) = Cardinality(ToSet(all))
  /\ ToSet(all) \cup lost = Live
  /\ \A x \in held : heap[x].next = NULL /\ heap[x].prev = NULL
  /\ \A p \in Live :
       LET s == Members(Now, p) IN
       (s # <<>> /\ ~heap[p].ref) =>
          /\ \A k \in 2..Len(s) : heap[s[k]].prev = s[k - 1]
          /\ p \notin sorted => heap[s[1]].prev = Last(s)

(***************************************************************************)
(* The values documents stand for: an object is a function on names.       *)
(***************************************************************************)
RECURSIVE Value(_, _)
Value(m, i) ==
  LET c == m.cell[i]
      s == Members(m, i)
      Named(n) == CHOOSE k \in 1..Len(s) : m.cell[s[k]].name = n
  IN  CASE c.type = "array"  -> <<"array", [k \in 1..Len(s) |-> Value(m, s[k])]>>
        [] c.type = "object" -> <<"object", [n \in {m.cell[s[k]].name : k \in 1..Len(s)} |-> Value(m, s[Named(n)])]>>
        [] OTHER             -> <<c.type, c.val>>

\* The documents the properties below are about: no reference, no raw or invalid
\* item, every member has a name, and no two names in an object are the same.
Sound(x) ==
  \A p \in Tree(x) :
    /\ ~heap[p].ref /\ heap[p].type \notin {"raw", "invalid"}
    /\ heap[p].type = "object" =>
         LET s == Members(Now, p) IN
         /\ \A k \in 1..Len(s) : heap[s[k]].name # NULL
         /\ IsInjective([k \in 1..Len(s) |-> heap[s[k]].name])

NamesIn(x) == {heap[p].name : p \in Tree(x)} \ {NULL}

Finite(x)  == \A p \in Tree(x) : heap[p].type = "number" => heap[p].val # Infinity

\* No two names differ only in case.
OneCase(S) == \A n, k \in S : Lower[n] = Lower[k] => n = k

\* The bounds leave items for what a call allocates.  What a call does to its
\* documents does not depend on others, so that it is enough to look at those
\* that are alone.
Small    == {x \in held : Cardinality(Live) <= MaxItems /\ Cardinality(Tree(x)) <= MaxSize}
Subjects == {x \in Small : Sound(x)}
Alone    == {x \in Small : held = {x}}
Pairs    == {p \in Subjects \X Subjects :
               p[1] # p[2] /\ held = {p[1], p[2]} /\ Finite(p[1]) /\ Finite(p[2])}

\* The same value, except that numbers may be a unit apart; if whole is true, only
\* without an integer between them.
RECURSIVE Alike(_, _, _)
Alike(v, w, whole) ==
  /\ v[1] = w[1]
  /\ CASE v[1] \in {"array", "object"} ->
             DOMAIN v[2] = DOMAIN w[2] /\ \A k \in DOMAIN v[2] : Alike(v[2][k], w[2][k], whole)
       [] v[1] = "number" ->
             v[2] - w[2] \in -1..1 /\ (whole => v[2] \div One = w[2] \div One)
       [] OTHER -> v[2] = w[2]

\* cJSON_Compare and, when it respects case, compare_json of cJSON_Utils.c are
\* true of exactly the documents that have the same value up to a unit of their
\* numbers, which are finite (compare_double takes infinity for equal to every
\* finite number and not to itself); and the pointer
\* cJSONUtils_FindPointerFromObjectTo makes for an item leads to that item.
ReadsAreExact ==
  /\ \A p \in Pairs :
       LET v == Value(Now, p[1])
           w == Value(Now, p[2])
       IN  /\ cJSON_Compare(Now, p[1], p[2], TRUE) = Alike(v, w, FALSE)
           /\ compare_json(Now, p[1], p[2], TRUE).r = Alike(v, w, TRUE)
  /\ \A x \in Subjects : \A i \in Tree(x) :
       get_item_from_pointer(Now, x, cJSONUtils_FindPointerFromObjectTo(Now, x, i), TRUE) = i

\* The patches generated from one document to another, applied to a copy of the
\* first, succeed and make it the second (up to a unit of its numbers, which are
\* finite), provided names differ not only in case.
PatchesReachTarget ==
  \A p \in Pairs, cs \in BOOLEAN :
    OneCase(NamesIn(p[1]) \cup NamesIn(p[2])) =>
      Then(cJSON_Duplicate(Mem(Plenty), p[1], TRUE), LAMBDA m1, copy :
        Then(cJSONUtils_GeneratePatches(m1, p[1], p[2], cs), LAMBDA m2, patches :
          Then(cJSONUtils_ApplyPatches(m2, copy, patches, cs), LAMBDA m3, status :
            status = 0 /\ ~m3.wild /\ Alike(Value(m3, copy), Value(Now, p[2]), TRUE))))

\* RFC 7396.
RECURSIVE Merged(_, _)
Merged(target, patch) ==
  IF patch[1] # "object" THEN patch
  ELSE LET old  == IF target[1] = "object" THEN target[2] ELSE <<>>
           gone == {n \in DOMAIN patch[2] : patch[2][n][1] = "null"}
       IN  <<"object", [n \in (DOMAIN old \cup DOMAIN patch[2]) \ gone |->
              IF n \notin DOMAIN patch[2] THEN old[n]
              ELSE Merged(IF n \in DOMAIN old THEN old[n] ELSE <<"none">>, patch[2][n])]>>

NullFree(x) == \A p \in Tree(x) : heap[p].type # "null"

\* strcmp does not order the names otherwise than the comparison by tolower.
SameOrder(S) == \A n, k \in S : Rank(Lower[n]) < Rank(Lower[k]) => Rank(n) < Rank(k)

\* MergePatch computes what RFC 7396 says.  The merge patch generated from one
\* document to another makes a copy of the first the second, and there is none
\* only if they are alike, provided the second has no null, which a merge patch
\* cannot express, and strcmp orders the names as the sort ignoring case does:
\* generate_merge_patch steps by the one through lists in the other order.
MergePatchWorks ==
  \A p \in Pairs, cs \in BOOLEAN :
    OneCase(NamesIn(p[1]) \cup NamesIn(p[2])) =>
      Then(cJSON_Duplicate(Mem(Plenty), p[1], TRUE), LAMBDA m1, copy :
        /\ Then(merge_patch(m1, copy, p[2], cs), LAMBDA m2, merged :
             Value(m2, merged) = Merged(Value(Now, p[1]), Value(Now, p[2])))
        /\ NullFree(p[2]) /\ SameOrder(NamesIn(p[1]) \cup NamesIn(p[2])) =>
             Then(generate_merge_patch(m1, p[1], p[2], cs), LAMBDA m2, patch :
               IF patch = NULL THEN Alike(Value(Now, p[1]), Value(Now, p[2]), TRUE)
               ELSE Then(merge_patch(m2, copy, patch, cs), LAMBDA m3, moved :
                      Alike(Value(m3, moved), Value(Now, p[2]), TRUE))))

\* Whatever the size of the buffer, and whichever allocation fails, the printer
\* never stores behind its end.  A text that is returned is complete, and five
\* bytes more than it needs are always enough for cJSON_PrintPreallocated.
PrintFits ==
  \A x \in Alone, fmt \in BOOLEAN :
    LET Fits(p, all, len) == ~p.over /\ (p.ok => p.out = all.out /\ p.off < len) /\ (len >= all.off + 6 => p.ok)
        Complete(p, all)  == ~p.over /\ (p.ok => p.out = all.out)
        Agree(all) == all.ok =>
          /\ \A len \in 0..(all.off + 6) : Fits(cJSON_PrintPreallocated(x, Now, len, fmt), all, len)
          /\ \A c \in Credits : Complete(print(x, Now, fmt, c), all)
    IN  Agree(cJSON_PrintBuffered(x, Now, 1, fmt, Plenty))

RECURSIVE Depth(_)
Depth(v) ==
  IF v[1] \in {"array", "object"} THEN 1 + Max({0} \cup {Depth(v[2][k]) : k \in DOMAIN v[2]}) ELSE 0

\* JSON has no infinity: print_number makes it null.
RECURSIVE InJson(_)
InJson(v) ==
  CASE v[1] \in {"array", "object"} -> <<v[1], [k \in DOMAIN v[2] |-> InJson(v[2][k])]>>
    [] v[1] = "number" -> IF v[2] = Infinity THEN <<"null", NULL>> ELSE v
    [] OTHER -> v

\* What is printed and parsed again has the value it had, except that a number may
\* be a unit off, since print_number is content with 15 digits then, and infinity
\* becomes null; printed once more, it is the same text.  Only a document nested
\* deeper than CJSON_NESTING_LIMIT is refused.
TextRoundTrip ==
  \A x \in Alone \cap Subjects, fmt \in BOOLEAN :
    LET Again(p) == p.ok =>
          Then(cJSON_ParseWithLengthOpts(Mem(Plenty), p.out, TRUE, TRUE), LAMBDA m, y :
            IF Depth(Value(Now, x)) <= CJSON_NESTING_LIMIT
            THEN /\ y # NULL /\ Alike(Value(m, y), InJson(Value(Now, x)), FALSE)
                 /\ cJSON_PrintBuffered(y, m, 1, fmt, Plenty).out = p.out
            ELSE y = NULL /\ m.cell = heap)
    IN  Again(cJSON_PrintBuffered(x, Now, 1, fmt, Plenty))
=============================================================================
