-------------------------------- MODULE Xml --------------------------------
(***************************************************************************)
(* The XML parser of experimental/headeronly/xml.h.  What a function eats  *)
(* is a field of what it returns, and rest is the container afterwards.    *)
(* Names and attribute names are of ASCII characters here, and a character *)
(* of a text is a wchar_t.                                                 *)
(***************************************************************************)
EXTENDS Text

wchar_t == IntType(16, FALSE)
whitespace == {" ", "\t", "\n", "\r"}

\* The tables of characters, as sets.
_is_letter == {c \in DOMAIN code : code[c] \in (65 .. 90) \cup (97 .. 122)}
_is_name_firstchar == _is_letter \cup {"_", ":"}
_is_name_char == _is_name_firstchar \cup {".", "-"} \cup {c \in DOMAIN code : code[c] \in 48 .. 57}
_NameStartChar == {":", "_"} \cup {c \in DOMAIN code : code[c] \in (65 .. 90) \cup (97 .. 122)}
_NameChar == _NameStartChar \cup {"-", "."} \cup {c \in DOMAIN code : code[c] \in 48 .. 57}
_is_char == {"\t", "\n", "\r"} \cup {c \in DOMAIN code : code[c] >= 32}

\* The position of the first t in s, 0 if there is none.
Position(s, t) ==
  CHOOSE k \in 0 .. Len(s) :
    /\ k # 0 => eat_items(From(s, k), t).error = "none"
    /\ \A j \in 1 .. Len(s) : eat_items(From(s, j), t).error = "none" => k # 0 /\ k <= j

\* What is between two tags, for the prolog.
eat_complex(s, begin, end) ==
  LET inner == From(s, Len(begin) + 1)
      k == Position(inner, end)
      ok == eat_items(s, begin).error = "none" /\ k # 0
  IN [ok |-> ok, content |-> IF ok THEN SubSeq(inner, 1, k - 1) ELSE "", rest |-> IF ok THEN From(inner, k + Len(end)) ELSE s]

eat_prolog(s) == eat_complex(s, "<?", "?>")

eat_comment(s) ==
  LET inner == From(s, 5)
      k == Position(inner, "--")
      legal == Run(inner, _is_char)
      error == IF eat_items(s, "<!--").error # "none" THEN "no_match"
               ELSE IF k = 0 \/ legal < k - 1 THEN "missing_end"
               ELSE IF ~Begins(From(inner, k + 2), ">") THEN "invalidminusminus" ELSE "none"
  IN [error |-> error, content |-> IF error = "none" THEN SubSeq(inner, 1, k - 1) ELSE "",
      rest |-> IF error = "none" THEN From(inner, k + 3) ELSE s]

(***************************************************************************)
(* References.  The character 0 is eaten and yet reported as no reference. *)
(***************************************************************************)

Entities == [lt |-> "<", gt |-> ">", amp |-> "&", quot |-> "\"", apos |-> "'"]

RefNumber(s, n) ==
  [found |-> Begins(s, "#") /\ n.error = "none", value |-> IF n.value = 0 THEN "" ELSE CharAt(n.value), rest |-> n.rest]
CharRef(s) ==
  LET hex == Begins(From(s, 2), "x") \/ Begins(From(s, 2), "X")
  IN RefNumber(s, eat_integer(From(s, IF hex THEN 3 ELSE 2), wchar_t, IF hex THEN 16 ELSE 10))

RefName(s) ==
  LET names == {e \in DOMAIN Entities : eat_items(s, e).error = "none"}
      e == CHOOSE e \in names : TRUE
  IN IF names = {} THEN CharRef(s) ELSE [found |-> TRUE, value |-> Entities[e], rest |-> From(s, Len(e) + 1)]

Referenced(s, r) ==
  IF Begins(s, "&") /\ r.found /\ Begins(r.rest, ";")
  THEN [value |-> r.value, eated |-> SubSeq(s, 1, Len(s) - Len(r.rest) + 1), rest |-> From(r.rest, 2)]
  ELSE [value |-> "", eated |-> "", rest |-> s]
eat_Reference(s) == Referenced(s, RefName(From(s, 2)))

(***************************************************************************)
(* Tags.                                                                   *)
(***************************************************************************)

eat_whitespace(s) == eat_oneof(s, whitespace)
eat_whitespaces(s) == eat_while(s, whitespace)

eat_Eq(s) ==
  LET a == eat(eat_whitespace(s).rest, "=")
  IN IF a.error = "none" THEN [a EXCEPT !.rest = eat_whitespace(@).rest] ELSE Failed(s, "no_match", 0)

eat_name(s) == IF s # "" /\ At(s, 1) \in _is_name_firstchar THEN eat_while(s, _is_name_char) ELSE Eaten(s, 0)
eat_token(s) == IF s # "" /\ At(s, 1) \in _NameStartChar THEN eat_while(s, _NameChar) ELSE Eaten(s, 0)

Closed(s, value, opening, error) ==
  IF Begins(s, opening) THEN [error |-> "none", value |-> value, rest |-> From(s, 2)] ELSE [error |-> error, value |-> "", rest |-> s]

\* The loop over the pieces of a value, which ends at the first piece that is empty.
RECURSIVE ValueAfter(_, _, _, _), ValuePiece(_, _, _, _, _)
ValueAfter(s, value, opening, resolve) ==
  LET piece == eat_while(s, AllBut({opening, "<", "&", ">"}))
  IN IF piece.eaten = "" THEN Closed(s, value, opening, "closer_missing")
     ELSE ValuePiece(piece.rest, value \o piece.eaten, eat_Reference(piece.rest), opening, resolve)
ValuePiece(s, read, ref, opening, resolve) ==
  IF Begins(s, opening) THEN Closed(s, read, opening, "none")
  ELSE IF Begins(s, ">") THEN ValueAfter(From(s, 2), read \o ">", opening, resolve)
  ELSE IF ref.value # "" THEN ValueAfter(ref.rest, read \o IF resolve THEN ref.value ELSE ref.eated, opening, resolve)
  ELSE Closed(ref.rest, read, opening, "invalid_ampersand")

ValueOrNone(s, v) == [v EXCEPT !.rest = IF v.error = "none" THEN @ ELSE s]
eat_attributvalue(s, resolve) ==
  LET opening == eat_oneof(s, {"\"", "'"})
  IN IF opening.eaten = "" THEN [error |-> "opener_missing", value |-> "", rest |-> s]
     ELSE ValueOrNone(s, ValueAfter(opening.rest, "", opening.eaten, resolve))

Attribute(s, name, eq, v) ==
  LET error == IF name = "" THEN "name_missing"
               ELSE IF eq.error # "none" THEN "assign_missing"
               ELSE IF v.error = "opener_missing" THEN "value_missing"
               ELSE IF v.error # "none" THEN "value_parseerror" ELSE "none"
  IN [error |-> error, name |-> name, value |-> v.value, rest |-> IF error = "none" THEN v.rest ELSE s]
eat_attribut(s, resolve) ==
  LET name == eat_token(s)
      eq == eat_Eq(name.rest)
  IN Attribute(s, name.eaten, eq, eat_attributvalue(eq.rest, resolve))

\* Each attribute after exactly one whitespace.
RECURSIVE Attributes(_, _), AttributesAfter(_, _, _)
Attributes(s, resolve) ==
  IF eat_whitespace(s).eaten = "" THEN [list |-> <<>>, rest |-> s]
  ELSE AttributesAfter(s, eat_attribut(eat_whitespace(s).rest, resolve), resolve)
AttributesAfter(s, a, resolve) ==
  IF a.error # "none" THEN [list |-> <<>>, rest |-> s]
  ELSE [Attributes(a.rest, resolve) EXCEPT !.list = <<<<a.name, a.value>>>> \o @]

\* No tag if the name is empty.
Tag(s, name, a) ==
  IF name = "" THEN [name |-> "", attributes |-> <<>>, rest |-> s] ELSE [name |-> name, attributes |-> a.list, rest |-> a.rest]
eat_Tag_inner(s, resolve) == Tag(s, eat_name(s).eaten, Attributes(eat_name(s).rest, resolve))

eat_etag(s, name) ==
  LET a == eat_items(s, "</" \o name)
      b == eat(eat_whitespace(a.rest).rest, ">")
  IN IF a.error = "none" /\ b.error = "none" THEN b ELSE Failed(s, "no_match", 0)

(***************************************************************************)
(* Elements and their content.  What eat_content() ends in is done; throws *)
(* when a text is to be appended that does not stand next to the text      *)
(* before; or endless, when an empty element is a child: eat_element()     *)
(* returns it without having advanced the container, and so for ever.      *)
(***************************************************************************)

eat_CharData(s) == eat_while(s, AllBut({"<", "&"}))

\* A content so far: its text and what stood behind it, and the text with the references resolved.
Content(s) ==
  LET d == eat_CharData(s)
  IN [text |-> d.eaten, behind |-> d.rest, resolved |-> d.eaten, comments |-> <<>>, children |-> <<>>, outcome |-> "done", rest |-> d.rest]

With(c, s, eaten, resolved, rest) ==
  IF eaten = "" THEN c
  ELSE IF c.text # "" /\ c.behind # s THEN [c EXCEPT !.outcome = "throws"]
  ELSE [c EXCEPT !.text = @ \o eaten, !.behind = rest, !.resolved = @ \o resolved]

Part(e) == [name |-> e.name, attributes |-> e.attributes, text |-> e.text, comments |-> e.comments, children |-> e.children]

NoElement(s) ==
  [ok |-> FALSE, outcome |-> "done", rest |-> s, name |-> "", attributes |-> <<>>, text |-> "", comments |-> <<>>, children |-> <<>>]

\* c with the characters that follow.
ThenCharData(c, d) ==
  IF c.outcome = "done" THEN [With(c, c.rest, d.eaten, d.eaten, d.rest) EXCEPT !.rest = d.rest] ELSE c

RECURSIVE eat_element(_, _, _), ContentAfter(_, _, _), Round(_, _, _, _), Found(_, _, _, _, _), GoOn(_, _, _), ElementOf(_, _, _, _)

\* One round of the loop of eat_content(): a reference, an element or a comment
\* and the characters behind it, or the end.
Round(c, ref, attr_resolve, content_resolve) ==
  IF ref.value # "" THEN GoOn([With(c, c.rest, ref.eated, ref.value, ref.rest) EXCEPT !.rest = ref.rest], attr_resolve, content_resolve)
  ELSE Found([c EXCEPT !.rest = ref.rest], eat_element(ref.rest, attr_resolve, content_resolve), eat_comment(ref.rest), attr_resolve, content_resolve)

Found(c, e, comment, attr_resolve, content_resolve) ==
  IF e.outcome # "done" THEN [c EXCEPT !.outcome = e.outcome]
  ELSE IF e.ok /\ e.rest = c.rest THEN [c EXCEPT !.outcome = "endless"]
  ELSE IF e.ok THEN GoOn([c EXCEPT !.children = Append(@, Part(e)), !.rest = e.rest], attr_resolve, content_resolve)
  ELSE IF comment.error = "none" THEN GoOn([c EXCEPT !.comments = Append(@, comment.content), !.rest = comment.rest], attr_resolve, content_resolve)
  ELSE ThenCharData(c, eat_CharData(c.rest))

GoOn(c, attr_resolve, content_resolve) == ContentAfter(ThenCharData(c, eat_CharData(c.rest)), attr_resolve, content_resolve)

ContentAfter(c, attr_resolve, content_resolve) ==
  IF c.outcome # "done" THEN c ELSE Round(c, eat_Reference(c.rest), attr_resolve, content_resolve)

eat_content(s, attr_resolve, content_resolve) == ContentAfter(Content(s), attr_resolve, content_resolve)

EmptyElement(s, tag) == [NoElement(s) EXCEPT !.ok = TRUE, !.name = tag.name, !.attributes = tag.attributes]

\* An element with its content and behind that the end tag.
Filled(s, tag, c, content_resolve) ==
  LET end == eat_etag(c.rest, tag.name) IN
  IF c.outcome # "done" THEN [NoElement(s) EXCEPT !.outcome = c.outcome]
  ELSE IF end.error # "none" THEN NoElement(s)
  ELSE [EmptyElement(s, tag) EXCEPT !.rest = end.rest, !.text = IF content_resolve THEN c.resolved ELSE c.text,
                                    !.comments = c.comments, !.children = c.children]

ElementOf(s, tag, attr_resolve, content_resolve) ==
  LET behind == eat_whitespace(tag.rest).rest IN
  IF ~Begins(s, "<") \/ tag.name = "" THEN NoElement(s)
  ELSE IF eat_items(behind, "/>").error = "none" THEN EmptyElement(s, tag)
  ELSE IF ~Begins(behind, ">") THEN NoElement(s)
  ELSE Filled(s, tag, eat_content(From(behind, 2), attr_resolve, content_resolve), content_resolve)

eat_element(s, attr_resolve, content_resolve) ==
  ElementOf(s, eat_Tag_inner(From(s, 2), attr_resolve), attr_resolve, content_resolve)

\* find_replace() with the references for what is to be found.
RECURSIVE replace_reference(_)
replace_reference(s) ==
  LET r == eat_Reference(s) IN
  IF s = "" THEN "" ELSE IF r.value # "" THEN r.value \o replace_reference(r.rest)
  ELSE LET t == From(r.rest, 2) IN SubSeq(s, 1, Len(s) - Len(t)) \o replace_reference(t)
=============================================================================
