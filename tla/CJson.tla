------------------------------- MODULE CJson -------------------------------
(***************************************************************************)
(* The items of apps/cjson/cJSON.c.  A memory m maps allocated items to    *)
(* their cells; an operator takes a memory and returns it changed, with    *)
(* the value the C function returns.  The members of an array or an object *)
(* are a list by next, in which prev of the first member is the last one.  *)
(*                                                                         *)
(* m.credit is the number of allocations that still succeed, m.wild tells  *)
(* that the code stored to, or freed, what is not an allocated item or not *)
(* its own to free.                                                        *)
(*                                                                         *)
(* A number is the count of its units in the last place, whose size is the *)
(* same for all doubles between two powers of 2: there are those, and      *)
(* Infinity, but 0, negative numbers and NaN are left out.                 *)
(***************************************************************************)
EXTENDS Integers, Sequences, FiniteSets, SequencesExt

CONSTANTS Items,     \* the items malloc can provide, members of Nat
          Alphabet,  \* the names, in the order of strcmp
          Lower,     \* tolower, on names
          One,       \* the units that make 1
          INT_MAX,
          Infinity,  \* what strtod makes of too large a number
          NULL

Names == {Alphabet[i] : i \in 1..Len(Alphabet)}

ASSUME NameAssumption ==
  /\ Cardinality(Names) = Len(Alphabet)
  /\ Lower \in [Names -> Names]
  /\ NULL \notin Items

ASSUME NumberAssumption ==
  /\ One \in Nat \ {0} /\ INT_MAX \in Nat
  /\ Infinity \in Nat /\ Infinity > INT_MAX * One

Fresh == [type |-> "invalid", ref |-> FALSE, cons |-> FALSE, next |-> NULL, prev |-> NULL,
          child |-> NULL, name |-> NULL, val |-> NULL]

Memory(cells, credit) == [cell |-> cells, credit |-> credit, wild |-> FALSE]
With(m, r)            == [m |-> m, r |-> r]

\* Go on with the memory and the result of a call.
Then(c, F(_, _)) == F(c.m, c.r)

Put(m, i, f, v) ==
  IF i \in DOMAIN m.cell
  THEN [m EXCEPT !.cell[i][f] = v] ELSE [m EXCEPT !.wild = TRUE]

PutIf(c, m, i, f, v) == IF c THEN Put(m, i, f, v) ELSE m

CanAlloc(m) == m.credit > 0
Spend(m)    == [m EXCEPT !.credit = @ - 1]

cJSON_New_Item(m) ==
  LET free == Items \ DOMAIN m.cell IN
  IF ~CanAlloc(m) \/ free = {} THEN With(m, NULL)
  ELSE With([Spend(m) EXCEPT !.cell = (Min(free) :> Fresh) @@ @], Min(free))

Release(m, i) == [m EXCEPT !.cell = Restrict(@, DOMAIN @ \ {i})]

\* The item, what it owns, and the items after it.
RECURSIVE cJSON_Delete(_, _)
cJSON_Delete(m, i) ==
  IF i = NULL THEN m
  ELSE IF i \notin DOMAIN m.cell THEN [m EXCEPT !.wild = TRUE]
  ELSE LET m1 == IF m.cell[i].ref THEN m ELSE cJSON_Delete(m, m.cell[i].child)
       IN  cJSON_Delete(Release(m1, i), m.cell[i].next)
-----------------------------------------------------------------------------
(***************************************************************************)
(* Lookup.                                                                 *)
(***************************************************************************)
\* The items from i on, by next; k bounds the walk.
RECURSIVE Chain(_, _, _)
Chain(m, i, k) == IF i = NULL \/ k = 0 THEN <<>> ELSE <<i>> \o Chain(m, m.cell[i].next, k - 1)

Members(m, p) == Chain(m, m.cell[p].child, Cardinality(Items))

cJSON_GetArraySize(m, a) == IF a = NULL THEN 0 ELSE Len(Members(m, a))

get_array_item(m, a, index) ==
  IF index < cJSON_GetArraySize(m, a) THEN Members(m, a)[index + 1] ELSE NULL

\* strcmp, or the comparison by tolower; a missing name is unequal to any.
Rank(n) == CHOOSE i \in 1..Len(Alphabet) : Alphabet[i] = n

compare_strings(a, b, cs) ==
  IF a = NULL \/ b = NULL THEN 1
  ELSE IF cs THEN Rank(a) - Rank(b) ELSE Rank(Lower[a]) - Rank(Lower[b])

\* The case-sensitive search also stops at a member that has no name.
get_object_item(m, o, name, cs) ==
  IF o = NULL THEN NULL
  ELSE LET Stop(i) == (cs /\ m.cell[i].name = NULL) \/ compare_strings(m.cell[i].name, name, cs) = 0
           stops   == SelectSeq(Members(m, o), Stop)
       IN  IF stops = <<>> \/ m.cell[Head(stops)].name = NULL THEN NULL ELSE Head(stops)
-----------------------------------------------------------------------------
(***************************************************************************)
(* Adding.                                                                 *)
(***************************************************************************)
suffix_object(m, prev, item) == Put(Put(m, prev, "next", item), item, "prev", prev)

\* If prev of the first member is missing, nothing is linked, and the result is still true.
add_item_to_array(m, a, x) ==
  IF x = NULL \/ a = NULL \/ a = x THEN With(m, FALSE)
  ELSE LET child == m.cell[a].child IN
       IF child = NULL
       THEN With(Put(Put(Put(m, a, "child", x), x, "prev", x), x, "next", NULL), TRUE)
       ELSE IF m.cell[child].prev = NULL THEN With(m, TRUE)
       ELSE With(Put(suffix_object(m, m.cell[child].prev, x), child, "prev", x), TRUE)

add_item_to_object(m, o, name, x, const) ==
  IF o = NULL \/ x = NULL \/ o = x \/ (~const /\ ~CanAlloc(m)) THEN With(m, FALSE)
  ELSE LET m1 == IF const THEN m ELSE Spend(m)
       IN  add_item_to_array(Put(Put(m1, x, "name", name), x, "cons", const), o, x)

create_reference(m, item) ==
  IF item = NULL THEN With(m, NULL)
  ELSE Then(cJSON_New_Item(m), LAMBDA m1, new :
         IF new = NULL THEN With(m, NULL)
         ELSE With([m1 EXCEPT !.cell[new] = [m.cell[item] EXCEPT !.name = NULL, !.ref = TRUE,
                                                                 !.next = NULL, !.prev = NULL]], new))

cJSON_AddItemReferenceToArray(m, a, item) ==
  Then(create_reference(m, item), LAMBDA m1, ref : add_item_to_array(m1, a, ref))

\* When the name cannot be copied the reference is left behind.
cJSON_AddItemReferenceToObject(m, o, name, item) ==
  Then(create_reference(m, item), LAMBDA m1, ref : add_item_to_object(m1, o, name, ref, FALSE))
-----------------------------------------------------------------------------
(***************************************************************************)
(* Creating.                                                               *)
(***************************************************************************)
OwnsText(type) == type \in {"string", "raw"}

\* cJSON_CreateNull ... cJSON_CreateObject; a string or raw value is copied.
Create(m, type, val) ==
  Then(cJSON_New_Item(m), LAMBDA m1, new :
    IF new = NULL THEN With(m, NULL)
    ELSE IF OwnsText(type) /\ ~CanAlloc(m1) THEN With(cJSON_Delete(m1, new), NULL)
    ELSE With([IF OwnsText(type) THEN Spend(m1) ELSE m1
                 EXCEPT !.cell[new].type = type, !.cell[new].val = val], new))

\* cJSON_CreateStringReference, -ObjectReference, -ArrayReference: the text or the
\* members stay the caller's.
CreateReference(m, type, val, child) ==
  Then(cJSON_New_Item(m), LAMBDA m1, new :
    IF new = NULL THEN With(m, NULL)
    ELSE With([m1 EXCEPT !.cell[new] = [Fresh EXCEPT !.type = type, !.ref = TRUE,
                                                     !.val = val, !.child = child]], new))

\* cJSON_AddNullToObject ... cJSON_AddArrayToObject
AddNewToObject(m, o, name, type, val) ==
  Then(Create(m, type, val), LAMBDA m1, new :
    Then(add_item_to_object(m1, o, name, new, FALSE), LAMBDA m2, added :
      IF added THEN With(m2, new) ELSE With(cJSON_Delete(m2, new), NULL)))

\* The elements vals are appended to a, whose last one is p.
RECURSIVE FillArray(_, _, _, _, _)
FillArray(m, a, p, type, vals) ==
  IF vals = <<>> THEN With(PutIf(p # NULL, m, m.cell[a].child, "prev", p), a)
  ELSE Then(Create(m, type, Head(vals)), LAMBDA m1, n :
         IF n = NULL THEN With(cJSON_Delete(m1, a), NULL)
         ELSE FillArray(IF p = NULL THEN Put(m1, a, "child", n) ELSE suffix_object(m1, p, n),
                        a, n, type, Tail(vals)))

\* cJSON_CreateIntArray, -FloatArray, -DoubleArray, -StringArray
CreateArrayOf(m, type, vals) ==
  Then(Create(m, "array", NULL), LAMBDA m1, a :
    IF a = NULL THEN With(m1, NULL) ELSE FillArray(m1, a, NULL, type, vals))

\* cJSON_Duplicate copies the item, and DuplicateChildren the members s after last.
RECURSIVE cJSON_Duplicate(_, _, _), DuplicateChildren(_, _, _, _)
cJSON_Duplicate(m, item, recurse) ==
  LET c     == m.cell[item]
      texts == (IF OwnsText(c.type) THEN 1 ELSE 0) + (IF c.name # NULL /\ ~c.cons THEN 1 ELSE 0)
      copy  == [Fresh EXCEPT !.type = c.type, !.val = c.val, !.name = c.name, !.cons = c.cons]
  IN  IF item = NULL THEN With(m, NULL)
      ELSE Then(cJSON_New_Item(m), LAMBDA m1, new :
             IF new = NULL THEN With(m, NULL)
             ELSE IF m1.credit < texts
             THEN With([cJSON_Delete(m1, new) EXCEPT !.credit = 0], NULL)
             ELSE DuplicateChildren([m1 EXCEPT !.cell[new] = copy, !.credit = @ - texts], new, NULL,
                                    IF recurse THEN Members(m, item) ELSE <<>>))

DuplicateChildren(m, new, last, s) ==
  IF s = <<>> THEN With(PutIf(last # NULL, m, m.cell[new].child, "prev", last), new)
  ELSE Then(cJSON_Duplicate(m, Head(s), TRUE), LAMBDA m1, kid :
         IF kid = NULL THEN With(cJSON_Delete(m1, new), NULL)
         ELSE DuplicateChildren(IF last = NULL THEN Put(m1, new, "child", kid)
                                ELSE suffix_object(m1, last, kid),
                                new, kid, Tail(s)))
-----------------------------------------------------------------------------
(***************************************************************************)
(* Detaching, inserting and replacing.                                     *)
(***************************************************************************)
cJSON_DetachItemViaPointer(m, p, x) ==
  IF p = NULL \/ x = NULL THEN With(m, NULL)
  ELSE LET c     == m.cell[x]
           child == m.cell[p].child
           m1    == PutIf(x # child, m, c.prev, "next", c.next)
           m2    == PutIf(c.next # NULL, m1, c.next, "prev", c.prev)
           m3    == IF x = child THEN Put(m2, p, "child", c.next)
                    ELSE PutIf(c.next = NULL, m2, child, "prev", c.prev)
       IN  With(Put(Put(m3, x, "prev", NULL), x, "next", NULL), x)

cJSON_DetachItemFromArray(m, a, which) ==
  IF which < 0 THEN With(m, NULL) ELSE cJSON_DetachItemViaPointer(m, a, get_array_item(m, a, which))

cJSON_DetachItemFromObject(m, o, name, cs) ==
  cJSON_DetachItemViaPointer(m, o, get_object_item(m, o, name, cs))

DeleteDetached(d) == cJSON_Delete(d.m, d.r)

InsertBefore(m, a, after, x) ==
  LET prev == m.cell[after].prev
      m1   == Put(Put(Put(m, x, "next", after), x, "prev", prev), after, "prev", x)
  IN  IF after = m.cell[a].child THEN Put(m1, a, "child", x) ELSE Put(m1, prev, "next", x)

cJSON_InsertItemInArray(m, a, which, x) ==
  LET after == get_array_item(m, a, which)
  IN  IF which < 0 THEN With(m, FALSE)
      ELSE IF after = NULL THEN add_item_to_array(m, a, x)
      ELSE With(InsertBefore(m, a, after, x), TRUE)

\* Mutant: the first member does not learn that the last one was replaced.
MUT_cJSON_ReplaceItemViaPointer(m, p, item, x) ==
  LET c     == m.cell[item]
      child == m.cell[p].child
      alone == child = item /\ c.prev = item
      m1    == Put(Put(m, x, "next", c.next), x, "prev", IF alone THEN x ELSE c.prev)
      m2    == PutIf(c.next # NULL, m1, c.next, "prev", x)
      m3    == IF child = item THEN Put(m2, p, "child", x)
               ELSE PutIf(c.prev # NULL, m2, c.prev, "next", x)
  IN  IF p = NULL \/ x = NULL \/ item = NULL THEN With(m, FALSE)
      ELSE IF x = item THEN With(m, TRUE)
      ELSE With(cJSON_Delete(Put(Put(m3, item, "next", NULL), item, "prev", NULL), item), TRUE)

cJSON_ReplaceItemViaPointer(m, p, item, x) ==
  LET c     == m.cell[item]
      child == m.cell[p].child
      alone == child = item /\ c.prev = item
      m1    == Put(Put(m, x, "next", c.next), x, "prev", IF alone THEN x ELSE c.prev)
      m2    == PutIf(c.next # NULL, m1, c.next, "prev", x)
      m3    == IF child = item THEN Put(m2, p, "child", x)
               ELSE PutIf(c.next = NULL, PutIf(c.prev # NULL, m2, c.prev, "next", x),
                          child, "prev", x)
  IN  IF p = NULL \/ x = NULL \/ item = NULL THEN With(m, FALSE)
      ELSE IF x = item THEN With(m, TRUE)
      ELSE With(cJSON_Delete(Put(Put(m3, item, "next", NULL), item, "prev", NULL), item), TRUE)

cJSON_ReplaceItemInArray(m, a, which, x) ==
  IF which < 0 THEN With(m, FALSE) ELSE cJSON_ReplaceItemViaPointer(m, a, get_array_item(m, a, which), x)

\* The name is replaced first, found or not; a failed copy leaves no name.
replace_item_in_object(m, o, name, x, cs) ==
  LET m1 == IF CanAlloc(m) THEN Put(Spend(m), x, "name", name) ELSE Put(m, x, "name", NULL)
      m2 == Put(m1, x, "cons", FALSE)
  IN  cJSON_ReplaceItemViaPointer(m2, o, get_object_item(m2, o, name, cs), x)
-----------------------------------------------------------------------------
(***************************************************************************)
(* Comparison.                                                             *)
(***************************************************************************)
\* DBL_EPSILON times the larger number is one unit or more, but not two.  If one
\* is infinite, so are the difference and the tolerance; if both are, the
\* difference is not a number.
compare_double(a, b) == IF Infinity \in {a, b} THEN a # b ELSE a - b \in -1..1

\* The integer kept with a number, saturated.
valueint(v) == IF v >= INT_MAX * One THEN INT_MAX ELSE v \div One

\* Items of a type that has no members are compared by their values.
SameScalar(c, d) == IF c.type = "number" THEN compare_double(c.val, d.val) ELSE c.val = d.val

RECURSIVE MUT_cJSON_Compare(_, _, _, _), cJSON_Compare(_, _, _, _)

\* Mutant: that b has no other members than a is not checked.
MUT_cJSON_Compare(m, a, b, cs) ==
  LET s == Members(m, a)
      t == Members(m, b)
  IN  /\ a # NULL /\ b # NULL
      /\ m.cell[a].type = m.cell[b].type
      /\ m.cell[a].type # "invalid"
      /\ \/ a = b
         \/ m.cell[a].type \notin {"array", "object"} /\ SameScalar(m.cell[a], m.cell[b])
         \/ /\ m.cell[a].type = "array"
            /\ Len(s) = Len(t) /\ \A i \in 1..Len(s) : MUT_cJSON_Compare(m, s[i], t[i], cs)
         \/ /\ m.cell[a].type = "object"
            /\ \A i \in ToSet(s) : LET j == get_object_item(m, b, m.cell[i].name, cs)
                                   IN  j # NULL /\ MUT_cJSON_Compare(m, i, j, cs)

cJSON_Compare(m, a, b, cs) ==
  LET In(p, q) == \A i \in ToSet(Members(m, p)) :
                    LET j == get_object_item(m, q, m.cell[i].name, cs)
                    IN  j # NULL /\ cJSON_Compare(m, i, j, cs)
      s == Members(m, a)
      t == Members(m, b)
  IN  /\ a # NULL /\ b # NULL
      /\ m.cell[a].type = m.cell[b].type
      /\ m.cell[a].type # "invalid"
      /\ \/ a = b
         \/ /\ m.cell[a].type \notin {"array", "object"}
            /\ SameScalar(m.cell[a], m.cell[b])
         \/ /\ m.cell[a].type = "array"
            /\ Len(s) = Len(t) /\ \A i \in 1..Len(s) : cJSON_Compare(m, s[i], t[i], cs)
         \/ /\ m.cell[a].type = "object"
            /\ In(a, b) /\ In(b, a)
=============================================================================
