---------------------------- MODULE ParseTests ----------------------------
(***************************************************************************)
(* The unit tests of the parsing functions (UT_parse_helper.cpp), with     *)
(* eat_guid(), which they bring with them, and of the XML parser           *)
(* (UT_XML.cpp).  A test is a sequence of what it asserts; what the        *)
(* compiler asserts is left out.                                           *)
(***************************************************************************)
EXTENDS Xml

Quote == "\""
Tick == "'"
Escape == "\\"
int == IntType(24, TRUE)
short == IntType(16, TRUE)
unsigned_short == IntType(16, FALSE)
__int8 == IntType(8, TRUE)

(***************************************************************************)
(* eat_guid: five groups of hexadecimal digits, in braces or not.  A group *)
(* of the wrong length may overflow its type as well: the error is length. *)
(***************************************************************************)

RECURSIVE GuidGroups(_, _, _)
GuidGroups(s, lengths, delimiter) ==
  LET n == Run(s, Digits[16])
      rest == From(s, n + 1)
      g == GuidGroups(From(rest, 2), Tail(lengths), delimiter)
  IN IF n # Head(lengths) THEN [error |-> "length"]
     ELSE IF Len(lengths) = 1 THEN [error |-> "none", guid |-> <<SubSeq(s, 1, n)>>, rest |-> rest]
     ELSE IF ~Begins(rest, delimiter) THEN [error |-> "delimiter"]
     ELSE IF g.error = "none" THEN [g EXCEPT !.guid = <<SubSeq(s, 1, n)>> \o @] ELSE g

eat_guid(s) ==
  LET brace == Begins(s, "{")
      g == GuidGroups(IF brace THEN From(s, 2) ELSE s, <<8, 4, 4, 4, 12>>, "-")
  IN IF g.error # "none" THEN g
     ELSE IF brace /\ ~Begins(g.rest, "}") THEN [error |-> "left_without_right"]
     ELSE [error |-> "none", guid |-> g.guid, with_parenthese |-> brace, rest |-> IF brace THEN From(g.rest, 2) ELSE g.rest]

-----------------------------------------------------------------------------
(***************************************************************************)
(* The tests of the parsing functions.                                     *)
(***************************************************************************)

UT_digit_range_list ==
  <<digit_def_ranges(10) = <<digit_range(0, 10, "0")>>,
    digit_def_ranges(12) = <<digit_range(0, 10, "0"), digit_range(10, 36, "A"), digit_range(10, 36, "a")>>,
    Len(digit_def_ranges(8)) = 1, Len(digit_def_ranges(12)) = 3>>

\* From lowest to highest there are the digits, and none next to them.
DigitsFrom(lowest, highest, radix, ranges) ==
  <<DigitValues(code[lowest], radix, ranges) = {0}, DigitValues(code[highest], radix, ranges) = {radix - 1},
    DigitValues(code[lowest] - 1, radix, ranges) = {}, DigitValues(code[highest] + 1, radix, ranges) = {}>>

digit_test ==
  DigitsFrom("0", "9", 10, digit_def_ranges(10)) \o DigitsFrom("0", "1", 2, digit_def_ranges(2))
    \o DigitsFrom("0", "B", 12, digit_def_ranges(12)) \o DigitsFrom("0", "f", 16, digit_def_ranges(16))

KaktovikischesZahlensystem ==
  [n \in 1 .. 20 |-> DigitValues(code["A"] + n - 1, 20, <<digit_range(0, 20, "A")>>) = {n - 1}]
    \o DigitsFrom("A", "T", 20, <<digit_range(0, 20, "A")>>)

UT_test_using_callable_function ==
  <<eat_while("hallo welt", AllBut({})) = Eaten("hallo welt", 10), Eaten("hallo welt", 5).eaten = "hallo",
    Eaten("hallo welt", 5).rest = " welt">>

eat_negativ == <<eat("hallo", "H").error # "none", eat("hallo", "H").rest = "hallo">>
eat_positiv == <<eat("hallo", "h").error = "none", eat("hallo", "h").rest = "allo">>

RECURSIVE EatenOneByOne(_, _)
EatenOneByOne(s, items) ==
  IF items = <<>> THEN s = ""
  ELSE eat(s, Head(items)).error = "none" /\ EatenOneByOne(eat(s, Head(items)).rest, Tail(items))

eat_positiv_all == <<EatenOneByOne("hallo", <<"h", "a", "l", "l", "o">>)>>

eat_oneof_negativ == <<eat_oneof("hallo", {"w", "W"}) = Eaten("hallo", 0)>>
eat_oneof_positiv1 == <<eat_oneof("hallo", {"H", "h"}).eaten = "h", eat_oneof("hallo", {"H", "h"}).rest = "allo">>
eat_oneof_positiv2 == eat_oneof_positiv1

\* What eat_till() makes of a text behind its first character.
AfterTick(s) == IF eat(s, Tick).error = "none" THEN eat_till(eat(s, Tick).rest, Tick, Escape) ELSE Failed(s, "no_match", 0)

eat_till_negativ_till_end_open ==
  <<AfterTick("'hallo").error = "tillitem_not_found", AfterTick("'hallo").till = "hallo">>
eat_till_negativ_till_invalid_escape ==
  <<AfterTick("'hal\\lo").error = "tillitem_not_found", AfterTick("'hal\\lo").till = "hal\\lo">>
eat_till_positive ==
  LET r == AfterTick("'hallo welt', how are you ") IN <<r.error = "none", r.eaten = "hallo welt", r.rest = "', how are you ">>
eat_till_positive_with_escape ==
  LET r == AfterTick("'hallo\\' welt\\\\', how are you")
  IN <<r.error = "none", r.eaten = "hallo\\' welt\\\\", r.rest = "', how are you">>

eat_positiv1 ==
  LET flank == eat_oneof("'hallo' 'welt'", {Quote, Tick})
      r == eat_till(flank.rest, flank.eaten, Escape)
  IN <<flank.eaten # "", r.error = "none", eat(r.rest, flank.eaten).error = "none", r.eaten = "hallo">>
eat_positiv_empty == <<eat_flanked("''", Tick, Tick, Escape).error = "none", eat_flanked("''", Tick, Tick, Escape).rest = "">>
eat_negativ_same_first_last ==
  LET r == eat_flanked("'hallo welt", Tick, Tick, Escape) IN <<r.error = "tillitem_not_found", r.rest = "'hallo welt">>
eat_positiv_same_first_last ==
  LET r == eat_flanked("'hallo' 'welt'", Tick, Tick, Escape)
  IN <<r.error = "none", r.value = "hallo", r.left = Tick, r.right = Tick, r.rest = " 'welt'">>
eat_positiv_different_first_last ==
  LET r == eat_flanked("[[hallo\\]] 'welt'", "[", "]", Escape)
  IN <<r.error = "none", r.value = "[hallo\\]", r.left = "[", r.right = "]", r.rest = " 'welt'">>
eat_positiv_oneof_first_last ==
  LET r == eat_flanked_oneof("'hallo' 'welt'", {Quote, Tick}, Escape)
  IN <<r.error = "none", r.eaten = "hallo", r.left = Tick, r.right = Tick, r.rest = " 'welt'">>

make_flanked_test ==
  <<make_flanked("Hallo", "[", "]", Escape) = "[Hallo]",
    make_flanked("Ha[ll]o\\Welt", "[", "]", Escape) = "[Ha[ll\\]o\\\\Welt]">>

remove_escape_LPCSTR == <<appended(remove_escape("hallo", Escape), "hallo") = "hallo">>

iterator_access__append ==
  LET buf == iterator_access("Hallo Welt")
      Ha == plus(left(buf, 1), midleft(buf, 1, 1))
      Hall == plus(Ha, midleft(buf, 2, 2))
  IN <<str(left(buf, 1)) = "H", str(Ha) = "Ha", str(Hall) = "Hall", Throws(Hall, midleft(buf, 5, 1))>>

MakeAndRemove(s) == remove_flank(make_flanked(s, Quote, Quote, Escape), Quote, Quote, Escape)
AsBefore(s, copied) == <<MakeAndRemove(s).value = s, MakeAndRemove(s).copied = copied>>

remove_flank_std_string_with_change == AsBefore("\"Hallo\"\\Welt", TRUE)
remove_flank_std_string_without_change == AsBefore("Hallo Welt", FALSE)
remove_flank_LPCTSR_with_change == AsBefore("\"Hallo\"\\Welt", TRUE)
remove_flank_LPCTSR_without_change == AsBefore("Hallo Welt", FALSE)
remove_flanked_with_change == AsBefore("\"Hallo\"\\Welt\\", TRUE) \o AsBefore("Hallo \"heile\" Welt", TRUE)
remove_flanked_without_change == AsBefore("Hallo Welt", FALSE) \o AsBefore("", FALSE)

find_replace_test ==
  LET s == "hallo welt, how is die welt today"
      values == <<<<"welt", "world">>, <<"die", "the">>>>
  IN <<FirstHit(s, values) # 0, find_replace(s, values) = "hallo world, how is the world today">>

Chars_eat_negativ == LET r == eat_items("hallo", "haL") IN <<r.error # "none", r.rest = "hallo", r.till = "ha">>
Chars_eat_positiv == LET r == eat_items("hallo", "hal") IN <<r.error = "none", r.rest = "lo">>
Chars_eat_positiv_all == <<eat_items(eat_items("hallo", "hal").rest, "lo") = Eaten("lo", 2)>>

isdigit == Digits[10]
while_eat_negativ == <<eat_while("Hallo", isdigit) = Eaten("Hallo", 0)>>
while_eat_positiv == <<eat_while("123Hallo", isdigit) = Eaten("123Hallo", 3), eat_while("123Hallo", isdigit).rest = "Hallo">>

\* rettype_skip is true whatever was skipped.
skip_space ==
  LET r == eat_spaces("   \thallo") IN <<r.rest = "hallo", r.eaten = "   \t", eat_spaces(r.rest).eaten = "">>
eat_space_test ==
  LET r == eat_spaces("   \thallo") IN <<r.rest = "hallo", r.eaten # "", r.eaten = "   \t", eat_spaces(r.rest).eaten = "", eat_space(r.rest).eaten = "">>

UT_eat_integercount ==
  LET Count(s, radix, min, max, value, rest) ==
        LET r == eat_integercount(s, int, radix, min, max)
        IN r.rest = rest /\ IF value = 0 THEN r.error # "none" ELSE r.error = "none" /\ r.value = value
  IN <<eat_integercount("Hallo", int, 10, 2, 2).error # "none", eat_integercount("Hallo", int, 10, 0, 2).error = "none",
       Count("12345", 16, 2, 2, 18, "345"), Count("345", 16, 2, 2, 52, "5"), Count("5", 16, 2, 2, 0, "5"),
       Count("123456", 10, 1, 3, 123, "456"), Count("456", 10, 1, 2, 45, "6"), Count("6", 16, 2, 3, 0, "6")>>
UT_eat_integercount_overflow ==
  LET r == eat_integercount("12345", __int8, 10, 5, 5) IN <<r.error # "none", r.rest = "12345">>

UT_eat_integer_negativ ==
  <<eat_integer("Hallo", int, 10).error # "none", eat_integer("", int, 10).error # "none",
    eat_integer("", unsigned_short, 10).error # "none">>
UT_eat_integer_positiv ==
  LET r == eat_integer("123Hallo", int, 10)
  IN <<r.error = "none", r.value = 123, r.rest = "Hallo", eat_integer("123", unsigned_short, 10) = Valued(Eaten("123", 3), 123)>>
UT_eat_integer_positiv_rvalue_lifetime_extender_test == <<eat_integer("123Hallo", unsigned_short, 10).value = 123>>
UT_eat_integer_negativ_rvalue_lifetime_extender_test == <<eat_integer("-123Hallo", short, 10).value = -123>>

\* Spaces, a sign, spaces, and what eat_integer() finds there.
SignedBySkipping(s) ==
  eat_integer(eat_spaces(eat_oneof(eat_spaces(s).rest, {"-", "+"}).rest).rest, short, 10)
UT_stringto_int_mit_vorzeichen ==
  LET texts == <<"123", "+123", "-123", " - 123">>
  IN [i \in DOMAIN texts |-> SignedBySkipping(texts[i]).error = "none" /\ SignedBySkipping(texts[i]).value = 123]
       \o <<SignedBySkipping("+").error # "none", eat_integer("- 123Hallo", short, 10).error = "none",
            eat_integer("- 123Hallo", short, 10).value = -123>>
UT_eat_integer_positiv_overflow == <<eat_integer("1234", __int8, 10).error = "integer_overflow">>

UT_parse_guid ==
  LET guid == <<"12345678", "9ABC", "DEF0", "1234", "56789ABCDEF0">>
      Read(with_parenthese, rest) == [error |-> "none", guid |-> guid, with_parenthese |-> with_parenthese, rest |-> rest]
  IN <<eat_guid("12345678-9ABC-DEF0-1234-56789ABCDEF0") = Read(FALSE, ""),
       eat_guid("{12345678-9ABC-DEF0-1234-56789ABCDEF0}hallo") = Read(TRUE, "hallo"),
       eat_guid("12345678-9ABC-DEF0-1234-56789ABCDEF0}hallo") = Read(FALSE, "}hallo")>>
UT_parse_guid_failed == <<eat_guid("12345678-ABC-DEF0-1234-56789ABCDEF0").error = "length">>

ParseScripts ==
  <<UT_digit_range_list, digit_test, KaktovikischesZahlensystem, UT_test_using_callable_function, eat_negativ, eat_positiv,
    eat_positiv_all, eat_oneof_negativ, eat_oneof_positiv1, eat_oneof_positiv2, eat_till_negativ_till_end_open,
    eat_till_negativ_till_invalid_escape, eat_till_positive, eat_till_positive_with_escape, eat_positiv1,
    eat_positiv_empty, eat_negativ_same_first_last, eat_positiv_same_first_last, eat_positiv_different_first_last,
    eat_positiv_oneof_first_last, make_flanked_test, remove_escape_LPCSTR, iterator_access__append,
    remove_flank_std_string_with_change, remove_flank_std_string_without_change, remove_flank_LPCTSR_with_change,
    remove_flank_LPCTSR_without_change, remove_flanked_with_change, remove_flanked_without_change, find_replace_test,
    Chars_eat_negativ, Chars_eat_positiv, Chars_eat_positiv_all, while_eat_negativ, while_eat_positiv, skip_space,
    eat_space_test, UT_eat_integercount, UT_eat_integercount_overflow, UT_eat_integer_negativ, UT_eat_integer_positiv,
    UT_eat_integer_positiv_rvalue_lifetime_extender_test, UT_eat_integer_negativ_rvalue_lifetime_extender_test,
    UT_stringto_int_mit_vorzeichen, UT_eat_integer_positiv_overflow, UT_parse_guid, UT_parse_guid_failed>>

-----------------------------------------------------------------------------
(***************************************************************************)
(* The tests of the XML parser.                                            *)
(***************************************************************************)

\* The natvis file of the test, with fewer members.
xml ==
  "<?xml version=\"1.0\" encoding=\"utf-8\"?>" \o "<!--" \o "tree.natvis benutzerdefinierte Watchansicht" \o "-->"
    \o "<AutoVisualizer xmlns=\"http://schemas.microsoft.com/vstudio/debugger/natvis/2010\">"
    \o "<Type Name=\"WS::tree_t&lt;*&gt;::node_t\">"
    \o "<DisplayString Condition=\"parent==0\">{{value:{value} left:{left} right:{right} parent:&lt;NULL&gt;}}</DisplayString>"
    \o "<Expand>" \o "<Item Name=\"value\">value</Item>" \o "<Item Name=\"left\">*left</Item>"
    \o "<TreeItems>" \o "<!--<Size>_Mysize</Size>-->" \o "<HeadPointer>parent</HeadPointer>" \o "<ValueNode >value</ValueNode>"
    \o "</TreeItems>" \o "</Expand>" \o "</Type>"
    \o "<Type Name=\"WS::tree_t&lt;*&gt;\">" \o "<DisplayString >{*root}</DisplayString>"
    \o "<Expand>" \o "<Item Name =\"root\">*root</Item>" \o "<!--<TreeItems>" \o "--><!--<Size>_Mysize</Size>--><!--"
    \o "<ValueNode >root->value</ValueNode>" \o "</TreeItems>-->" \o "</Expand>" \o "</Type>" \o "</AutoVisualizer>"

eat_whitespace_test ==
  <<eat_whitespace(" ") = Eaten(" ", 1), eat_whitespace("\t").eaten # "", eat_whitespace("\n").eaten # "",
    eat_whitespace("\r").eaten # "", eat_whitespace("a").eaten = "", eat_whitespace("\f").eaten = "",
    eat_whitespaces(" \t   x") = Eaten(" \t   x", 5)>>

eat_name_test ==
  <<eat_name(" hallo welt").eaten = "", eat_name(eat_whitespace(" hallo welt").rest).eaten = "hallo",
    eat_name("1hallo").eaten = "", eat_name("_name1").eaten = "_name1">>

eat_comment_test ==
  <<eat_comment("hallo").error = "no_match",
    eat_comment("<!-- hallo Kommentar-->hier geht es weiter") = [error |-> "none", content |-> " hallo Kommentar", rest |-> "hier geht es weiter"],
    eat_comment("<!-- fehlerhafter -- Kommentar-->hier geht es weiter").error = "invalidminusminus",
    eat_comment("<!-- fehlerhafter - - Kommentar -- minus-minus nicht erlaubt  -->hier").error = "invalidminusminus",
    eat_comment("<!-- fehlerhafter Kommentar --->hier geht es weiter").error \notin {"none", "no_match"},
    eat_comment("<!-- im kommentar <!-- inner comment --> -->hier geht es weiter").error \notin {"none", "no_match"},
    eat_comment("<!-- >").error \notin {"none", "no_match"}>>

eat_prolog_test == <<eat_prolog(xml).ok>>

Spoken(s, resolve) == eat_attributvalue(s, resolve)
LtGt == "0 &lt; 1 ist gleich 1 &gt; 0"
Resolved == "0 < 1 ist gleich 1 > 0"

eat_attributvalue_test ==
  <<Spoken("hallo", TRUE).error # "none", Spoken("\"Hallo Welt\"", TRUE).value = "Hallo Welt",
    Spoken("'Hallo Welt'", TRUE).value = "Hallo Welt">>
eat_attributvalue_withescape ==
  <<Spoken("\"" \o LtGt \o "\"", TRUE).value = Resolved, Spoken("\"" \o LtGt \o "\"", FALSE).value = LtGt>>
eat_attributvalue_withescape_and_closer == <<Spoken("\"0 &lt; 1 ist gleich 1 > 0\"", TRUE).error = "none">>

\* What has been moved out of an appender is gone if it had been copied.
Moved(ap) == [ap EXCEPT !.buffer = ""]

appender_without_copy ==
  LET s == "<hallo welt>"
      ap == append(append(append(appender, s, 2, 7), s, 7, 8), s, 8, 12)
  IN <<appended(ap, s) = "hallo welt", appended(Moved(ap), s) = appended(ap, s), ~allocated(ap)>>
appender_with_copy ==
  LET s == "<hallo welt>"
      ap == append(append(appender, s, 2, 7), s, 8, 12)
  IN <<appended(ap, s) = "hallowelt", appended(Moved(ap), s) = "", allocated(ap)>>

eat_attribut_test ==
  <<eat_attribut("name = \"0 &lt; 1 ist gleich 1 > 0\"", TRUE) = [error |-> "none", name |-> "name", value |-> Resolved, rest |-> ""]>>
eat_attribut_with_error ==
  <<eat_attribut("name=\"0 &lt; 1 ist gleich 1 > 0", TRUE).error # "none", eat_attribut("  ", TRUE).error = "name_missing",
    eat_attribut("name \"xx\"", TRUE).error = "assign_missing", eat_attribut("name=", TRUE).error = "value_missing",
    eat_attribut("name=\"offenes ende", TRUE).error = "value_parseerror">>

Named(e, attributes, text) == e.ok /\ e.name = "name" /\ e.attributes = attributes /\ e.text = text

eat_element_test ==
  <<Named(eat_element("<name/>", TRUE, FALSE), <<>>, ""),
    Named(eat_element("<name attr1=\"hallo\">welt</name>", TRUE, FALSE), <<<<"attr1", "hallo">>>>, "welt"),
    Named(eat_element("<name attr1=\"hallo\" attr2 = \"welt\" />", TRUE, FALSE), <<<<"attr1", "hallo">>, <<"attr2", "welt">>>>, "")>>

Embeded == "<name><embeded>0 &lt; 1 ist gleich 1 > 0</embeded></name>"
Embeds(e, text) ==
  Named(e, <<>>, "") /\ Len(e.children) = 1 /\ e.children[1].name = "embeded" /\ e.children[1].text = text

eat_element_with_embeded ==
  <<Embeds(eat_element(Embeded, TRUE, FALSE), "0 &lt; 1 ist gleich 1 > 0"), replace_reference("0 &lt; 1 ist gleich 1 > 0") = Resolved>>
eat_element_with_embeded_resolve_contentref == <<Embeds(eat_element(Embeded, TRUE, TRUE), Resolved)>>

replace_reference_test ==
  <<replace_reference(LtGt) = Resolved, replace_reference("hallo&#8226;&#x2022;&#X2022;") = "hallo\f\f\f">>

read_the_xml ==
  LET prolog == eat_prolog(xml)
      comment == eat_comment(prolog.rest)
  IN <<prolog.ok, comment.error = "none", eat_element(comment.rest, TRUE, FALSE).ok>>

UT_basechar_vs_namechar == <<_is_name_firstchar = _NameStartChar>>

XmlScripts ==
  <<eat_whitespace_test, eat_name_test, eat_comment_test, eat_prolog_test, eat_attributvalue_test, eat_attributvalue_withescape,
    eat_attributvalue_withescape_and_closer, appender_without_copy, appender_with_copy, eat_attribut_test,
    eat_attribut_with_error, eat_element_test, eat_element_with_embeded, eat_element_with_embeded_resolve_contentref,
    replace_reference_test, read_the_xml, UT_basechar_vs_namechar>>
=============================================================================
