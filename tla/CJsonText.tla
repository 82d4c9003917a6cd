----------------------------- MODULE CJsonText -----------------------------
(***************************************************************************)
(* Parsing and printing of apps/cjson/cJSON.c.  A text is a sequence of    *)
(* tokens: white space is left out of it, and a string or a number is one  *)
(* token, Width of which is the number of bytes its printed form takes     *)
(* between the quotes.  The number NULL is a sign without digits.  The     *)
(* printer also keeps count of the bytes of its buffer, since what it asks *)
(* ensure() for is what has to be right.                                   *)
(***************************************************************************)
EXTENDS CJson

CONSTANTS CJSON_NESTING_LIMIT,
          default_buffer_size,
          Grain,          \* what the 15th digit of a number counts, in units
          Width(_, _)

ASSUME LimitAssumption ==
  CJSON_NESTING_LIMIT \in Nat /\ default_buffer_size \in Nat /\ Grain \in Nat \ {0}

Token(k, v) == [k |-> k, v |-> v]
Mark(k)     == <<Token(k, NULL)>>
-----------------------------------------------------------------------------
(***************************************************************************)
(* Parsing.  o is the offset in the text; behind it there is the 0 that    *)
(* ends the string or, when a length is given that does not include it,    *)
(* nothing to read.  A result says whether the parser goes on, and where.  *)
(***************************************************************************)
Kind(text, o)     == IF o <= Len(text) THEN text[o].k ELSE "end"
Parsed(m, ok, o)  == [m |-> m, ok |-> ok, o |-> o]

\* A string that is cut off or holds a bad escape is no string.  Behind the length
\* given, the first byte is still looked at, but no string can begin there.
parse_string(m, item, text, o) ==
  IF Kind(text, o) # "string" \/ ~CanAlloc(m) THEN Parsed(m, FALSE, o)
  ELSE Parsed(Put(Put(Spend(m), item, "type", "string"), item, "val", text[o].v), TRUE, o + 1)

parse_number(m, item, text, o) ==
  IF text[o].v = NULL THEN Parsed(m, FALSE, o)
  ELSE Parsed(Put(Put(m, item, "type", "number"), item, "val", text[o].v), TRUE, o + 1)

\* The name of a member: parsed as its value, then moved, and the colon.
MoveToName(s, item, text) ==
  IF ~s.ok THEN s
  ELSE Parsed(Put(Put(s.m, item, "name", s.m.cell[item].val), item, "val", NULL),
              Kind(text, s.o) = ":", s.o + 1)

parse_name(m, item, text, o) == MoveToName(parse_string(m, item, text, o), item, text)

CloseList(m, item, type, head, last) ==
  Put(Put(PutIf(head # NULL, m, head, "prev", last), item, "type", type), item, "child", head)

RECURSIVE parse_value(_, _, _, _, _), parse_array(_, _, _, _, _), parse_object(_, _, _, _, _),
          ParseMembers(_, _, _, _, _, _, _, _), ParseMember(_, _, _, _), AfterMember(_, _, _, _, _, _, _)
parse_value(m, item, text, o, depth) ==
  LET k == Kind(text, o) IN
  CASE k \in {"null", "true", "false"} -> Parsed(Put(m, item, "type", k), TRUE, o + 1)
    [] k = "string" -> parse_string(m, item, text, o)
    [] k = "number" -> parse_number(m, item, text, o)
    [] k = "["      -> parse_array(m, item, text, o, depth)
    [] k = "{"      -> parse_object(m, item, text, o, depth)
    [] OTHER        -> Parsed(m, FALSE, o)

\* The members after last, the first of which follows the mark at o.
ParseMembers(m, item, type, text, o, depth, head, last) ==
  Then(cJSON_New_Item(m), LAMBDA m1, new :
    LET m2 == IF head = NULL THEN m1 ELSE suffix_object(m1, last, new) IN
    IF new = NULL THEN Parsed(cJSON_Delete(m, head), FALSE, o)
    ELSE AfterMember(ParseMember(IF type = "object" THEN parse_name(m2, new, text, o + 1)
                                 ELSE Parsed(m2, TRUE, o + 1), new, text, depth),
                     item, type, text, depth, IF head = NULL THEN new ELSE head, new))

\* The value of a member whose name was parsed.
ParseMember(name, new, text, depth) ==
  IF name.ok THEN parse_value(name.m, new, text, name.o, depth) ELSE name

\* A comma and more members, or the end; otherwise all members are deleted.
AfterMember(value, item, type, text, depth, first, last) ==
  LET after == IF value.ok THEN Kind(text, value.o) ELSE "error" IN
  IF after = "," THEN ParseMembers(value.m, item, type, text, value.o, depth, first, last)
  ELSE IF after = (IF type = "object" THEN "}" ELSE "]")
  THEN Parsed(CloseList(value.m, item, type, first, last), TRUE, value.o + 1)
  ELSE Parsed(cJSON_Delete(value.m, first), FALSE, value.o)

\* Mutant: one more array may be nested than the limit says.
MUT_parse_array(m, item, text, o, depth) ==
  IF depth > CJSON_NESTING_LIMIT \/ Kind(text, o + 1) = "end" THEN Parsed(m, FALSE, o)
  ELSE IF Kind(text, o + 1) = "]"
  THEN Parsed(CloseList(m, item, "array", NULL, NULL), TRUE, o + 2)
  ELSE ParseMembers(m, item, "array", text, o, depth + 1, NULL, NULL)

parse_array(m, item, text, o, depth) ==
  IF depth >= CJSON_NESTING_LIMIT \/ Kind(text, o + 1) = "end" THEN Parsed(m, FALSE, o)
  ELSE IF Kind(text, o + 1) = "]"
  THEN Parsed(CloseList(m, item, "array", NULL, NULL), TRUE, o + 2)
  ELSE ParseMembers(m, item, "array", text, o, depth + 1, NULL, NULL)

parse_object(m, item, text, o, depth) ==
  IF depth >= CJSON_NESTING_LIMIT \/ Kind(text, o + 1) = "end" THEN Parsed(m, FALSE, o)
  ELSE IF Kind(text, o + 1) = "}"
  THEN Parsed(CloseList(m, item, "object", NULL, NULL), TRUE, o + 2)
  ELSE ParseMembers(m, item, "object", text, o, depth + 1, NULL, NULL)

\* nul: the length given includes the terminating 0.
cJSON_ParseWithLengthOpts(m, text, nul, require_null_terminated) ==
  LET Ends(p, new) == IF p.ok /\ (require_null_terminated => nul /\ Kind(text, p.o) = "end")
                      THEN With(p.m, new) ELSE With(cJSON_Delete(p.m, new), NULL)
  IN  IF text = <<>> /\ ~nul THEN With(m, NULL)
      ELSE Then(cJSON_New_Item(m), LAMBDA m1, new :
        IF new = NULL THEN With(m, NULL) ELSE Ends(parse_value(m1, new, text, 1, 0), new))
-----------------------------------------------------------------------------
(***************************************************************************)
(* Printing.  The buffer has len bytes, of which off are used; live says   *)
(* that it is allocated, over that a byte was stored behind its end.       *)
(***************************************************************************)
Buffer(len, noalloc, credit) ==
  [len |-> len, off |-> 0, noalloc |-> noalloc, credit |-> credit, live |-> TRUE,
   over |-> FALSE, ok |-> TRUE, out |-> <<>>]

Failed(p) == [p EXCEPT !.ok = FALSE]

ensure(p, bytes) ==
  LET needed == bytes + p.off + 1 IN
  IF \/ ~p.live
     \/ p.len > 0 /\ p.off >= p.len
     \/ bytes > INT_MAX
     \/ needed > p.len /\ (p.noalloc \/ needed > INT_MAX)
  THEN Failed(p)
  ELSE IF needed <= p.len THEN p
  ELSE IF p.credit = 0 THEN [Failed(p) EXCEPT !.live = FALSE, !.len = 0]
  ELSE [p EXCEPT !.credit = @ - 1,
                 !.len = IF needed > INT_MAX \div 2 THEN INT_MAX ELSE 2 * needed]

\* Ask for so many bytes, then store n, and a terminating one if nul is 1.
Emit(p, bytes, tokens, n, nul) ==
  LET Write(e) == IF ~e.ok THEN e
                  ELSE [e EXCEPT !.out = @ \o tokens, !.off = @ + n, !.over = @ \/ e.off + n + nul > e.len]
  IN  IF p.ok THEN Write(ensure(p, bytes)) ELSE p

\* A number in 15 digits.
Short(v) == ((v + Grain \div 2) \div Grain) * Grain

\* 15 digits if the number can be recovered from them, otherwise 17, which are exact.
print_number(p, item, m) ==
  LET v == m.cell[item].val
      d == IF compare_double(Short(v), v) THEN Short(v) ELSE v
      w == Width("number", d)
  IN  IF v = Infinity THEN Emit(p, 5, Mark("null"), 4, 1)
      ELSE Emit(p, w + 1, <<Token("number", d)>>, w, 1)

print_string_ptr(p, text) ==
  LET w == Width("string", text) IN
  IF text = NULL THEN Emit(p, 3, <<Token("string", "")>>, 2, 1)
  ELSE Emit(p, w + 3, <<Token("string", text)>>, w + 2, 1)

print_raw(p, text) ==
  LET w == Width("raw", text) IN Emit(p, w + 1, <<Token("raw", text)>>, w, 1)

OneOrTwo(fmt) == IF fmt THEN 2 ELSE 1

\* Mutant: a formatted closing brace asks for the tabs alone.
MUT_CloseObject(p, fmt, depth) ==
  IF fmt THEN Emit(p, depth - 1, Mark("}"), depth, 1) ELSE Emit(p, 2, Mark("}"), 1, 1)

CloseObject(p, fmt, depth) ==
  IF fmt THEN Emit(p, depth + 1, Mark("}"), depth, 1) ELSE Emit(p, 2, Mark("}"), 1, 1)

RECURSIVE print_value(_, _, _, _, _), PrintElements(_, _, _, _, _), PrintPairs(_, _, _, _, _)
print_value(p, item, m, fmt, depth) ==
  LET type == m.cell[item].type
      s    == Members(m, item)
  IN
  CASE type = "null"   -> Emit(p, 5, Mark(type), 4, 1)
    [] type = "false"  -> Emit(p, 6, Mark(type), 5, 1)
    [] type = "true"   -> Emit(p, 5, Mark(type), 4, 1)
    [] type = "number" -> print_number(p, item, m)
    [] type = "raw"    -> print_raw(p, m.cell[item].val)
    [] type = "string" -> print_string_ptr(p, m.cell[item].val)
    [] type = "array"  -> Emit(PrintElements(Emit(p, 1, Mark("["), 1, 0), s, m, fmt, depth + 1),
                               2, Mark("]"), 1, 1)
    [] type = "object" -> CloseObject(PrintPairs(Emit(p, OneOrTwo(fmt) + 1, Mark("{"), OneOrTwo(fmt), 0),
                                                 s, m, fmt, depth + 1), fmt, depth + 1)
    [] OTHER           -> Failed(p)

\* The loop of print_array.
PrintElements(p, s, m, fmt, depth) ==
  IF s = <<>> THEN p
  ELSE LET Comma(v) == IF Len(s) = 1 THEN v ELSE Emit(v, OneOrTwo(fmt) + 1, Mark(","), OneOrTwo(fmt), 1)
       IN  PrintElements(Comma(print_value(p, Head(s), m, fmt, depth)), Tail(s), m, fmt, depth)

\* The loop of print_object.
PrintPairs(p, s, m, fmt, depth) ==
  IF s = <<>> THEN p
  ELSE LET more == Len(s) > 1
           end  == (IF fmt THEN 1 ELSE 0) + (IF more THEN 1 ELSE 0)
           tabs == IF fmt THEN Emit(p, depth, <<>>, depth, 0) ELSE p
           name == print_string_ptr(tabs, m.cell[Head(s)].name)
           v    == print_value(Emit(name, OneOrTwo(fmt), Mark(":"), OneOrTwo(fmt), 0),
                               Head(s), m, fmt, depth)
       IN  PrintPairs(Emit(v, end + 1, IF more THEN Mark(",") ELSE <<>>, end, 1), Tail(s), m, fmt, depth)

\* cJSON_PrintPreallocated: the caller's buffer, which is never replaced.
cJSON_PrintPreallocated(item, m, len, fmt) == print_value(Buffer(len, TRUE, 0), item, m, fmt, 0)

\* cJSON_PrintBuffered: allocated by the printer, grown as needed.
cJSON_PrintBuffered(item, m, prebuffer, fmt, credit) ==
  IF credit = 0 THEN Failed(Buffer(0, FALSE, 0))
  ELSE print_value(Buffer(prebuffer, FALSE, credit - 1), item, m, fmt, 0)

\* print: in the end the text is copied to, or shrunk to, a block of its length.
print(item, m, fmt, credit) ==
  LET Shrink(p) == IF ~p.ok \/ p.credit = 0 THEN Failed(p) ELSE [p EXCEPT !.len = p.off + 1]
  IN  Shrink(cJSON_PrintBuffered(item, m, default_buffer_size, fmt, credit))
=============================================================================
