----------------------------- MODULE CJsonUtils -----------------------------
(***************************************************************************)
(* apps/cjson/cJSON_Utils.c: JSON pointers, sorting, JSON Patch and JSON   *)
(* Merge Patch, on the items of CJson.  A pointer is the sequence of its   *)
(* tokens, a token a name whose text may also be an array index; names     *)
(* that need the escapes ~0 and ~1, and those that only begin with a digit *)
(* (of which the code may also make an index), are left out.               *)
(***************************************************************************)
EXTENDS CJson

CONSTANT Digits   \* the texts of the indices 0, 1, 2, ...

Type(m, i) == IF i = NULL THEN "none" ELSE m.cell[i].type

\* The index a token stands for, or -1.  No digits at all count as 0.
decode_array_index_from_pointer(token) ==
  IF token = "" THEN 0
  ELSE IF \E i \in 1..Len(Digits) : Digits[i] = token
  THEN (CHOOSE i \in 1..Len(Digits) : Digits[i] = token) - 1 ELSE -1

Indexed(m, a, token) ==
  LET i == decode_array_index_from_pointer(token) IN IF i < 0 THEN NULL ELSE get_array_item(m, a, i)

\* A member without a name matches no token, and does not end the search.
FirstNamed(m, o, token, cs) ==
  LET hits == SelectSeq(Members(m, o), LAMBDA i : compare_strings(m.cell[i].name, token, cs) = 0)
  IN  IF hits = <<>> THEN NULL ELSE Head(hits)

RECURSIVE get_item_from_pointer(_, _, _, _)
get_item_from_pointer(m, i, path, cs) ==
  IF path = <<>> \/ i = NULL THEN i
  ELSE CASE m.cell[i].type = "array"  -> get_item_from_pointer(m, Indexed(m, i, Head(path)), Tail(path), cs)
         [] m.cell[i].type = "object" -> get_item_from_pointer(m, FirstNamed(m, i, Head(path), cs), Tail(path), cs)
         [] OTHER -> NULL

\* The token path that leads from an item to a target, or NULL.
RECURSIVE cJSONUtils_FindPointerFromObjectTo(_, _, _)
cJSONUtils_FindPointerFromObjectTo(m, i, target) ==
  LET s    == Members(m, i)
      Via(k) == cJSONUtils_FindPointerFromObjectTo(m, s[k], target)
      hits == {k \in 1..Len(s) : Via(k) # NULL}
      k    == Min(hits)
  IN  IF i = target THEN <<>>
      ELSE IF hits = {} \/ m.cell[i].type \notin {"array", "object"} THEN NULL
      ELSE <<IF m.cell[i].type = "array" THEN Digits[k] ELSE m.cell[s[k]].name>> \o Via(k)

\* The last token of a path is the child; an object is searched ignoring case.
detach_path(m, root, path, cs) ==
  LET parent == get_item_from_pointer(m, root, Front(path), cs)
      i      == decode_array_index_from_pointer(Last(path))
  IN  IF path = <<>> THEN With(m, NULL)
      ELSE CASE Type(m, parent) = "array"  -> IF i < 0 THEN With(m, NULL) ELSE cJSON_DetachItemFromArray(m, parent, i)
             [] Type(m, parent) = "object" -> cJSON_DetachItemFromObject(m, parent, Last(path), FALSE)
             [] OTHER -> With(m, NULL)
-----------------------------------------------------------------------------
(***************************************************************************)
(* Sorting and comparing.                                                  *)
(***************************************************************************)
Before(m, i, j, cs) == compare_strings(m.cell[i].name, m.cell[j].name, cs) < 0

\* Merge the lists first and second behind tail; result is where it all began.
RECURSIVE MergeLists(_, _, _, _, _, _)
MergeLists(m, first, second, result, tail, cs) ==
  IF first = NULL \/ second = NULL
  THEN With(suffix_object(m, tail, IF first = NULL THEN second ELSE first), result)
  ELSE LET small == IF Before(m, first, second, cs) THEN first ELSE second
           m1    == IF tail = NULL THEN m ELSE suffix_object(m, tail, small)
       IN  MergeLists(m1, IF small = first THEN m.cell[first].next ELSE first,
                      IF small = first THEN second ELSE m.cell[second].next,
                      IF tail = NULL THEN small ELSE result, small, cs)

\* s is the list.  prev of the new first member is left as it was, or cleared by
\* the split.
RECURSIVE sort_list(_, _, _)
sort_list(m, s, cs) ==
  LET n      == Len(s)
      half   == (n + 1) \div 2
      second == s[half + 1]
      m1     == Put(Put(m, m.cell[second].prev, "next", NULL), second, "prev", NULL)
  IN  IF \A k \in 1..(n - 1) : Before(m, s[k], s[k + 1], cs) THEN With(m, s[1])
      ELSE Then(sort_list(m1, SubSeq(s, 1, half), cs), LAMBDA m2, a :
             Then(sort_list(m2, SubSeq(s, half + 1, n), cs), LAMBDA m3, b :
               MergeLists(m3, a, b, NULL, NULL, cs)))

sort_object(m, o, cs) ==
  IF o = NULL THEN m
  ELSE IF m.cell[o].child = NULL THEN m
  ELSE Then(sort_list(m, Members(m, o), cs), LAMBDA m1, first : Put(m1, o, "child", first))

\* Numbers are equal up to a unit, but not across an integer.
SameValue(c, d) ==
  IF c.type = "number" THEN valueint(c.val) = valueint(d.val) /\ compare_double(c.val, d.val)
  ELSE c.val = d.val

\* Objects on the way are sorted; the result says whether the values are equal.
RECURSIVE compare_json(_, _, _, _), CompareLists(_, _, _, _, _)
compare_json(m, a, b, cs) ==
  LET type == Type(m, a)
      InStep(m1) == CompareLists(m1, Members(m1, a), Members(m1, b), type = "object", cs)
  IN  IF a = NULL \/ b = NULL \/ type # Type(m, b) THEN With(m, FALSE)
      ELSE CASE type \in {"number", "string"} -> With(m, SameValue(m.cell[a], m.cell[b]))
             [] type = "array"  -> InStep(m)
             [] type = "object" -> InStep(sort_object(sort_object(m, a, cs), b, cs))
             [] OTHER -> With(m, TRUE)

CompareLists(m, s, t, named, cs) ==
  IF s = <<>> \/ t = <<>> THEN With(m, s = t)
  ELSE IF named /\ compare_strings(m.cell[Head(s)].name, m.cell[Head(t)].name, cs) # 0
  THEN With(m, FALSE)
  ELSE Then(compare_json(m, Head(s), Head(t), cs), LAMBDA m1, same :
         IF same THEN CompareLists(m1, Tail(s), Tail(t), named, cs) ELSE With(m1, FALSE))
-----------------------------------------------------------------------------
(***************************************************************************)
(* JSON Patch.  A patch is an object with the members op, path, value and  *)
(* from.  A status of 0 is success.                                        *)
(***************************************************************************)
TextOf(m, patch, name, cs) ==
  LET i == get_object_item(m, patch, name, cs) IN IF Type(m, i) = "string" THEN m.cell[i].val ELSE NULL

decode_patch_operation(m, patch, cs) ==
  LET op == TextOf(m, patch, "op", cs)
      ops == {"add", "remove", "replace", "move", "copy", "test"}
  IN  IF \E k \in ops : op = <<k>> THEN Head(op) ELSE "invalid"

\* Freeing a name, or the text of a value, without asking whose it is.
FreeName(m, i) == IF m.cell[i].name # NULL /\ m.cell[i].cons THEN [m EXCEPT !.wild = TRUE] ELSE m
FreeText(m, i) == IF OwnsText(m.cell[i].type) /\ m.cell[i].ref THEN [m EXCEPT !.wild = TRUE] ELSE m

\* What root holds goes, and it takes over the contents of cell c.
overwrite_item(m, root, c) ==
  [cJSON_Delete(FreeText(FreeName(m, root), root), m.cell[root].child) EXCEPT !.cell[root] = c]

\* Patches of the whole document.  The name the copy of the value has is freed.
PatchRoot(m, root, patch, op, cs) ==
  LET value == get_object_item(m, patch, "value", cs) IN
  IF op = "remove" THEN With(overwrite_item(m, root, Fresh), 0)
  ELSE IF value = NULL THEN With(m, 7)
  ELSE Then(cJSON_Duplicate(m, value, TRUE), LAMBDA m1, copy :
         IF copy = NULL THEN With(m1, 8)
         ELSE LET m2 == FreeName(Release(overwrite_item(m1, root, m1.cell[copy]), copy), root)
              IN  With(Put(m2, root, "name", NULL), 0))

\* The value to add: that of the patch, or the item from points to; missing and
\* failed are the statuses if there is none or it cannot be copied.
PatchCopy(m, item, missing, failed) ==
  Then(cJSON_Duplicate(m, item, TRUE), LAMBDA m1, copy :
    [m |-> m1, r |-> copy, status |-> IF item = NULL THEN missing ELSE failed])

\* A from that has no text leads nowhere; detach_path would read it all the same.
PatchValue(m, root, patch, op, cs) ==
  LET from == get_object_item(m, patch, "from", cs)
      path == m.cell[from].val
      none == ~OwnsText(Type(m, from))
  IN  IF op \notin {"move", "copy"} THEN PatchCopy(m, get_object_item(m, patch, "value", cs), 7, 8)
      ELSE IF from = NULL THEN [m |-> m, r |-> NULL, status |-> 4]
      ELSE IF none THEN [m |-> [m EXCEPT !.wild = @ \/ op = "move"], r |-> NULL, status |-> 5]
      ELSE IF op = "copy" THEN PatchCopy(m, get_item_from_pointer(m, root, path, cs), 5, 6)
      ELSE Then(detach_path(m, root, path, cs), LAMBDA m1, item : [m |-> m1, r |-> item, status |-> 5])

\* insert_item_in_array: an index behind the end is refused.
insert_item_in_array(m, a, which, x) ==
  IF which > cJSON_GetArraySize(m, a) THEN With(m, FALSE) ELSE cJSON_InsertItemInArray(m, a, which, x)

\* Add x at the path: to an object in place of the member of that name, to an
\* array at an index or, for the token -, at the end.
AddAt(m, parent, name, x, cs) ==
  LET i == decode_array_index_from_pointer(name)
      Drop(status) == With(cJSON_Delete(m, x), status)
  IN  CASE Type(m, parent) = "object" ->
             With(add_item_to_object(DeleteDetached(cJSON_DetachItemFromObject(m, parent, name, cs)),
                                     parent, name, x, FALSE).m, 0)
        [] Type(m, parent) = "array" ->
             IF name = "-" THEN With(add_item_to_array(m, parent, x).m, 0)
             ELSE IF i < 0 THEN Drop(11)
             ELSE Then(insert_item_in_array(m, parent, i, x), LAMBDA m1, done :
                    IF done THEN With(m1, 0) ELSE Drop(10))
        [] OTHER -> Drop(9)

PatchAdd(v, root, path, cs) ==
  IF v.r = NULL THEN With(v.m, v.status)
  ELSE IF path = <<>> THEN With(cJSON_Delete(v.m, v.r), 9)
  ELSE AddAt(v.m, get_item_from_pointer(v.m, root, Front(path), cs), Last(path), v.r, cs)

ApplyOperation(m, root, patch, op, path, cs) ==
  IF path = NULL THEN With(m, 2)
  ELSE IF op = "invalid" THEN With(m, 3)
  ELSE IF op = "test"
  THEN Then(compare_json(m, get_item_from_pointer(m, root, path, cs), get_object_item(m, patch, "value", cs), cs),
            LAMBDA m1, same : With(m1, IF same THEN 0 ELSE 1))
  ELSE IF path = <<>> /\ op \in {"remove", "replace", "add"} THEN PatchRoot(m, root, patch, op, cs)
  ELSE IF op \notin {"remove", "replace"} THEN PatchAdd(PatchValue(m, root, patch, op, cs), root, path, cs)
  ELSE Then(detach_path(m, root, path, cs), LAMBDA m1, old :
         IF old = NULL THEN With(m, 13)
         ELSE IF op = "remove" THEN With(cJSON_Delete(m1, old), 0)
         ELSE PatchAdd(PatchValue(cJSON_Delete(m1, old), root, patch, op, cs), root, path, cs))

apply_patch(m, root, patch, cs) ==
  ApplyOperation(m, root, patch, decode_patch_operation(m, patch, cs), TextOf(m, patch, "path", cs), cs)

RECURSIVE ApplyEach(_, _, _, _)
ApplyEach(m, root, s, cs) ==
  IF s = <<>> THEN With(m, 0)
  ELSE Then(apply_patch(m, root, Head(s), cs), LAMBDA m1, status :
         IF status # 0 THEN With(m1, status) ELSE ApplyEach(m1, root, Tail(s), cs))

cJSONUtils_ApplyPatches(m, root, patches, cs) ==
  IF Type(m, patches) # "array" THEN With(m, 1) ELSE ApplyEach(m, root, Members(m, patches), cs)

AddText(m, o, name, text) ==
  Then(Create(m, "string", text), LAMBDA m1, i : add_item_to_object(m1, o, name, i, FALSE).m)

AddCopy(m, o, name, item) ==
  Then(cJSON_Duplicate(m, item, TRUE), LAMBDA m1, i : add_item_to_object(m1, o, name, i, FALSE).m)

\* A patch is put together and appended; suffix is the last token, if any.
compose_patch(m, patches, op, path, suffix, value) ==
  LET Filled(m1, patch) == AddText(AddText(m1, patch, "op", <<op>>), patch, "path",
                                   IF suffix = NULL THEN path ELSE Append(path, suffix))
      Valued(m1, patch) == IF value = NULL THEN m1 ELSE AddCopy(m1, patch, "value", value)
  IN  Then(Create(m, "object", NULL), LAMBDA m1, patch :
        IF patches = NULL \/ patch = NULL THEN m
        ELSE add_item_to_array(Valued(Filled(m1, patch), patch), patches, patch).m)

\* Mutant: what is left of 'from' is removed at rising indices.
RECURSIVE MUT_RemoveRest(_, _, _, _, _)
MUT_RemoveRest(m, patches, path, index, s) ==
  IF s = <<>> THEN m
  ELSE MUT_RemoveRest(compose_patch(m, patches, "remove", path, Digits[index + 1], NULL),
                      patches, path, index + 1, Tail(s))

RECURSIVE RemoveRest(_, _, _, _, _)
RemoveRest(m, patches, path, index, s) ==
  IF s = <<>> THEN m
  ELSE RemoveRest(compose_patch(m, patches, "remove", path, Digits[index + 1], NULL),
                  patches, path, index, Tail(s))

RECURSIVE create_patches(_, _, _, _, _, _), PatchElements(_, _, _, _, _, _, _),
          PatchMembers(_, _, _, _, _, _)
create_patches(m, patches, path, from, to, cs) ==
  LET type == Type(m, from)
      InStep(m1) == PatchMembers(m1, patches, path, Members(m1, from), Members(m1, to), cs)
  IN  IF from = NULL \/ to = NULL THEN m
      ELSE IF type # Type(m, to) \/ (type \in {"number", "string"} /\ ~SameValue(m.cell[from], m.cell[to]))
      THEN compose_patch(m, patches, "replace", path, NULL, to)
      ELSE CASE type = "array"  -> PatchElements(m, patches, path, 0, Members(m, from), Members(m, to), cs)
             [] type = "object" -> InStep(sort_object(sort_object(m, from, cs), to, cs))
             [] OTHER -> m

\* The elements of both, then those only 'from' has, then those only 'to' has.
PatchElements(m, patches, path, index, s, t, cs) ==
  IF t = <<>> THEN RemoveRest(m, patches, path, index, s)
  ELSE LET m1 == IF s = <<>> THEN compose_patch(m, patches, "add", path, "-", Head(t))
                 ELSE create_patches(m, patches, Append(path, Digits[index + 1]), Head(s), Head(t), cs)
       IN  PatchElements(m1, patches, path, index + 1, IF s = <<>> THEN s ELSE Tail(s), Tail(t), cs)

\* Members of the sorted objects, in step by their names.
PatchMembers(m, patches, path, s, t, cs) ==
  LET Nm(q) == m.cell[Head(q)].name
      diff  == IF s = <<>> THEN 1 ELSE IF t = <<>> THEN -1 ELSE compare_strings(Nm(s), Nm(t), cs)
  IN  IF s = <<>> /\ t = <<>> THEN m
      ELSE IF diff = 0
      THEN PatchMembers(create_patches(m, patches, Append(path, Nm(s)), Head(s), Head(t), cs),
                        patches, path, Tail(s), Tail(t), cs)
      ELSE IF diff < 0
      THEN PatchMembers(compose_patch(m, patches, "remove", path, Nm(s), NULL), patches, path, Tail(s), t, cs)
      ELSE PatchMembers(compose_patch(m, patches, "add", path, Nm(t), Head(t)), patches, path, s, Tail(t), cs)

cJSONUtils_GeneratePatches(m, from, to, cs) ==
  IF from = NULL \/ to = NULL THEN With(m, NULL)
  ELSE Then(Create(m, "array", NULL), LAMBDA m1, patches :
         With(create_patches(m1, patches, <<>>, from, to, cs), patches))
-----------------------------------------------------------------------------
(***************************************************************************)
(* JSON Merge Patch.                                                       *)
(***************************************************************************)
RECURSIVE merge_patch(_, _, _, _), MergeMembers(_, _, _, _)
merge_patch(m, target, patch, cs) ==
  IF Type(m, patch) # "object" THEN cJSON_Duplicate(cJSON_Delete(m, target), patch, TRUE)
  ELSE IF Type(m, target) = "object" THEN MergeMembers(m, target, Members(m, patch), cs)
  ELSE Then(Create(cJSON_Delete(m, target), "object", NULL), LAMBDA m1, new :
         MergeMembers(m1, new, Members(m, patch), cs))

\* A null removes the member of its name, another value is merged into it.
MergeMembers(m, target, s, cs) ==
  LET p    == Head(s)
      name == m.cell[p].name
  IN  IF s = <<>> THEN With(m, target)
      ELSE Then(cJSON_DetachItemFromObject(m, target, name, cs), LAMBDA m1, old :
             IF m.cell[p].type = "null" THEN MergeMembers(cJSON_Delete(m1, old), target, Tail(s), cs)
             ELSE Then(merge_patch(m1, old, p, cs), LAMBDA m2, new :
                    IF new = NULL THEN With(m2, NULL)
                    ELSE MergeMembers(add_item_to_object(m2, target, name, new, FALSE).m, target, Tail(s), cs)))

\* Mutant: members that are only in 'from' are not removed.
MUT_MergeRemove(m, patch, name) == m

MergeRemove(m, patch, name) ==
  Then(Create(m, "null", NULL), LAMBDA m1, i : add_item_to_object(m1, patch, name, i, FALSE).m)

\* The objects are sorted as cs says, but always stepped through by strcmp, and
\* what is below them is compared and sorted ignoring case.
RECURSIVE generate_merge_patch(_, _, _, _), MergeDiff(_, _, _, _, _)
generate_merge_patch(m, from, to, cs) ==
  LET Kept(m1, patch) == IF m1.cell[patch].child = NULL THEN With(cJSON_Delete(m1, patch), NULL)
                         ELSE With(m1, patch)
  IN  IF to = NULL THEN Create(m, "null", NULL)
      ELSE IF Type(m, to) # "object" \/ Type(m, from) # "object" THEN cJSON_Duplicate(m, to, TRUE)
      ELSE Then(Create(sort_object(sort_object(m, from, cs), to, cs), "object", NULL), LAMBDA m1, patch :
             IF patch = NULL THEN With(m1, NULL)
             ELSE Kept(MergeDiff(m1, patch, Members(m1, from), Members(m1, to), cs), patch))

MergeDiff(m, patch, s, t, cs) ==
  LET Nm(q) == m.cell[Head(q)].name
      diff  == IF s = <<>> THEN 1 ELSE IF t = <<>> THEN -1 ELSE compare_strings(Nm(s), Nm(t), TRUE)
      Below(m1) == Then(generate_merge_patch(m1, Head(s), Head(t), FALSE), LAMBDA m2, new :
                     add_item_to_object(m2, patch, Nm(t), new, FALSE).m)
  IN  IF s = <<>> /\ t = <<>> THEN m
      ELSE IF diff < 0 THEN MergeDiff(MergeRemove(m, patch, Nm(s)), patch, Tail(s), t, cs)
      ELSE IF diff > 0 THEN MergeDiff(AddCopy(m, patch, Nm(t), Head(t)), patch, s, Tail(t), cs)
      ELSE Then(compare_json(m, Head(s), Head(t), cs), LAMBDA m1, same :
             MergeDiff(IF same THEN m1 ELSE Below(m1), patch, Tail(s), Tail(t), cs))
=============================================================================
