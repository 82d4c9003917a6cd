------------------------------ MODULE MCCJson ------------------------------
EXTENDS CJsonClient

MCItems    == 1..44
MCDigits   == <<"0", "1", "2", "3", "4", "5", "6", "7", "8", "9">>
MCAlphabet == <<"", "-">> \o MCDigits \o <<"A", "B", "a", "b", "from", "op", "path", "value">>
MCLower    == [n \in ToSet(MCAlphabet) |-> CASE n = "A" -> "a" [] n = "B" -> "b" [] OTHER -> n]
MCWidth(k, v) == IF k = "number" THEN 1 + (v % 3) ELSE Len(v)

\* The value of a string is the sequence of its words, or of a pointer's tokens.
S(v)       == <<Token("string", v)>>
N(v)       == <<Token("number", v)>>
Pair(n, t) == S(n) \o Mark(":") \o t
Obj(ts)    == Mark("{") \o ts \o Mark("}")
Arr(ts)    == Mark("[") \o ts \o Mark("]")
Comma      == Mark(",")
Patch(op, path, more) == Obj(Pair("op", S(<<op>>)) \o Comma \o Pair("path", S(path)) \o more)

\* Documents, patches, and texts that are empty, cut off, nested too deeply or
\* followed by more.  24 is an integer, 23 and 25 are its neighbours, and of these
\* four numbers only 26 needs 17 digits.
MCTexts == {
  Obj(Pair("b", N(24)) \o Comma \o Pair("a", Mark("null"))),
  Obj(Pair("a", Obj(Pair("b", N(24)))) \o Comma \o Pair("b", N(26))),
  Obj(Pair("b", N(26)) \o Comma \o Pair("A", Arr(N(23) \o Comma \o N(25)))),
  Obj(Pair("a", N(25)) \o Comma \o Pair("B", N(26))),
  Obj(Pair("a", Arr(N(26)))),
  Arr(N(23)),
  Arr(Obj(Pair("a", N(24))) \o Comma \o S(<<"b">>)),
  Arr(Arr(Arr(N(24)))),
  Arr(N(Infinity)),
  Arr(N(NULL)),
  Obj(Pair("a", N(24)) \o Comma \o Mark("}")),
  Mark("[") \o N(24) \o Comma,
  Arr(<<>>) \o Mark("]"),
  <<>>,
  Arr(Patch("move", <<"a">>, Comma \o Pair("from", S(<<"b">>))) \o Comma
        \o Patch("test", <<>>, Comma \o Pair("value", Obj(<<>>)))),
  Arr(Patch("copy", <<"a", "">>, Comma \o Pair("from", S(<<"b">>))) \o Comma
        \o Patch("copy", <<"a">>, Comma \o Pair("from", N(24)))),
  Arr(Patch("add", <<>>, Comma \o Pair("value", N(24))))}
MCValues == {<<"number", 24>>, <<"string", <<"b">>>>, <<"object", NULL>>}
=============================================================================
