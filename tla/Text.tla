------------------------------- MODULE Text -------------------------------
(***************************************************************************)
(* The parsing functions of parse_helper.h, tokenizer.h, iterator_access.h *)
(* and char_helper.h as operators on texts.  A text is a string and a      *)
(* character a string of length one.  The container that a function takes  *)
(* by reference is the text s that it is given and the field rest of what  *)
(* it returns; till is eaten_till_error.  Where it matters which memory a  *)
(* result stands in, an _iterator_access is a slice: the positions from    *)
(* first up to but not including last of a text.                           *)
(***************************************************************************)
EXTENDS Integers, Sequences, FiniteSets, TLC

At(s, i) == SubSeq(s, i, i)
From(s, i) == SubSeq(s, i, Len(s))
Begins(s, c) == s # "" /\ At(s, 1) = c

\* How many characters at the beginning of s are among those.  A predicate on
\* characters (an eater) is the set of those it is true of.
Run(s, chars) ==
  CHOOSE n \in 0 .. Len(s) : (\A i \in 1 .. n : At(s, i) \in chars) /\ (n = Len(s) \/ At(s, n + 1) \notin chars)

\* The codes of the characters that occur here: ASCII but for one that TLA+ has
\* no character for.  A character of any other code is "\f".
CodesFrom(first, chars) ==
  [c \in {At(chars, i) : i \in 1 .. Len(chars)} |-> first - 1 + CHOOSE i \in 1 .. Len(chars) : At(chars, i) = c]
code ==
  ("\t" :> 9) @@ ("\n" :> 10) @@ ("\f" :> 12) @@ ("\r" :> 13)
    @@ CodesFrom(32, " !\"#$%&'()*+,-./0123456789:;<=>?@ABCDEFGHIJKLMNOPQRSTUVWXYZ[\\]^_")
    @@ CodesFrom(97, "abcdefghijklmnopqrstuvwxyz{|}~")
CharAt(n) == CHOOSE c \in DOMAIN code : code[c] = n \/ (c = "\f" /\ \A other \in DOMAIN code : code[other] # n)
AllBut(chars) == DOMAIN code \ chars
isspace == {" ", "\t", "\n", "\r", "\f"}

(***************************************************************************)
(* char_helper.h: digits.                                                  *)
(***************************************************************************)

digit_range(lower, upper, start) == [lower |-> lower, upper |-> upper, start |-> start]

digit_def_ranges(radix) ==
  <<digit_range(0, 10, "0")>> \o (IF radix <= 10 THEN <<>> ELSE <<digit_range(10, 36, "A"), digit_range(10, 36, "a")>>)

\* The values that the ranges give a character code; at most one is below the radix.
DigitValues(n, radix, ranges) ==
  LET Into(r) == n - code[r.start]
      fitting == {r \in {ranges[i] : i \in DOMAIN ranges} : r.lower < radix /\ Into(r) \in 0 .. r.upper - 1}
  IN {r.lower + Into(r) : r \in fitting} \cap (0 .. radix - 1)

DigitChars(radix) == {c \in DOMAIN code : DigitValues(code[c], radix, digit_def_ranges(radix)) # {}}
Digits == (10 :> DigitChars(10)) @@ (16 :> DigitChars(16))   \* the radices in use
digit(c, radix) == CHOOSE v \in DigitValues(code[c], radix, digit_def_ranges(radix)) : TRUE

(***************************************************************************)
(* iterator_access.h.                                                      *)
(***************************************************************************)

slice(s, first, last) == [text |-> s, first |-> first, last |-> last]
iterator_access(s) == slice(s, 1, Len(s) + 1)
str(a) == SubSeq(a.text, a.first, a.last - 1)
len(a) == a.last - a.first

left(a, n) == slice(a.text, a.first, a.first + IF n < len(a) THEN n ELSE len(a))
right(a, n) == slice(a.text, a.last - (IF n < len(a) THEN n ELSE len(a)), a.last)
\* Skipping more than there is wraps around and skips nothing.
mid(a, skipped) == IF skipped <= len(a) THEN right(a, len(a) - skipped) ELSE a
midleft(a, skipped, n) == left(mid(a, skipped), n)

\* operator+=, which throws when the slices are not neighbours.
Throws(l, r) == len(l) > 0 /\ len(r) > 0 /\ l.last # r.first
plus(l, r) == IF len(l) = 0 THEN r ELSE IF len(r) = 0 THEN l ELSE slice(l.text, l.first, r.last)

cmp(l, r) ==
  LET n == CHOOSE k \in 0 .. Len(l) :
             /\ k <= Len(r) /\ SubSeq(l, 1, k) = SubSeq(r, 1, k)
             /\ (k = Len(l) \/ k = Len(r) \/ At(l, k + 1) # At(r, k + 1))
  IN IF n = Len(l) /\ n = Len(r) THEN 0
     ELSE IF n = Len(l) \/ (n # Len(r) /\ code[At(l, n + 1)] < code[At(r, n + 1)]) THEN -1 ELSE 1

\* The position found, the end if there is none, and the one before the first for the last of none.
findoneof(s, items) == 1 + Run(s, AllBut(items))
reversefindoneof(s, items) == CHOOSE i \in 0 .. Len(s) : (i = 0 \/ At(s, i) \in items) /\ \A j \in i + 1 .. Len(s) : At(s, j) \notin items

trimleft(s, eater) == From(s, 1 + Run(s, eater))
trimright(s, eater) ==
  SubSeq(s, 1, CHOOSE n \in 0 .. Len(s) : (n = 0 \/ At(s, n) \notin eater) /\ \A i \in n + 1 .. Len(s) : At(s, i) \in eater)
trim(s, eater) == trimright(trimleft(s, eater), eater)

\* appender: a slice of s for as long as what is appended are neighbours, then a copy.
appender == [first |-> 1, last |-> 1, buffer |-> ""]

usebuffer(ap, s) ==
  IF ap.buffer = "" THEN [first |-> ap.first, last |-> ap.first, buffer |-> SubSeq(s, ap.first, ap.last - 1)] ELSE ap

append(ap, s, first, last) ==
  CASE first = last         -> ap
    [] first # last /\ ap.buffer # "" -> [ap EXCEPT !.buffer = @ \o SubSeq(s, first, last - 1)]
    [] first # last /\ ap.buffer = "" /\ ap.first = ap.last -> [ap EXCEPT !.first = first, !.last = last]
    [] first # last /\ ap.buffer = "" /\ ap.first # ap.last /\ ap.last = first -> [ap EXCEPT !.last = last]
    [] OTHER -> [usebuffer(ap, s) EXCEPT !.buffer = @ \o SubSeq(s, first, last - 1)]

append_one(ap, s, c) == [usebuffer(ap, s) EXCEPT !.buffer = @ \o c]
appended(ap, s) == IF ap.buffer = "" THEN SubSeq(s, ap.first, ap.last - 1) ELSE ap.buffer
allocated(ap) == ap.buffer # ""

(***************************************************************************)
(* parse_helper.h: characters and texts.                                   *)
(***************************************************************************)

Eaten(s, n) == [error |-> "none", eaten |-> SubSeq(s, 1, n), till |-> "", rest |-> From(s, n + 1)]
Failed(s, error, n) == [error |-> error, eaten |-> "", till |-> SubSeq(s, 1, n), rest |-> s]

\* What returns an _iterator_access succeeds by not being empty.
eat_while(s, chars) == Eaten(s, Run(s, chars))
eat_if(s, chars) == IF s # "" /\ At(s, 1) \in chars THEN Eaten(s, 1) ELSE Eaten(s, 0)
eat_oneof(s, items) == eat_if(s, items)
eat_space(s) == eat_if(s, isspace)
eat_spaces(s) == eat_while(s, isspace)

eat(s, c) == IF Begins(s, c) THEN Eaten(s, 1) ELSE Failed(s, "no_match", 0)

\* The first character is compared with the one behind the container, not the positions.
eat_first(s, behind) == IF s # "" /\ At(s, 1) # behind THEN Eaten(s, 1) ELSE Failed(s, "no_match", 0)

eat_items(s, items) ==
  LET n == CHOOSE k \in 0 .. Len(items) :
             /\ k <= Len(s) /\ SubSeq(s, 1, k) = SubSeq(items, 1, k)
             /\ (k = Len(s) \/ k = Len(items) \/ At(s, k + 1) # At(items, k + 1))
  IN IF n = Len(items) THEN Eaten(s, n) ELSE Failed(s, IF n = 0 THEN "no_match" ELSE "incomplete", n)

\* Where the first till item from position k on is that is not escaped.
RECURSIVE TillItem(_, _, _, _)
MutantTillItem(s, k, till, escape) ==
  IF k > Len(s) \/ (At(s, k) = till /\ till # escape) THEN k
  ELSE IF At(s, k) = escape /\ k < Len(s) /\ At(s, k + 1) = till THEN TillItem(s, k + 2, till, escape)
  ELSE TillItem(s, k + 1, till, escape)

TillItem(s, k, till, escape) ==
  IF k > Len(s) \/ (At(s, k) = till /\ till # escape) THEN k
  ELSE IF At(s, k) = escape /\ k < Len(s) /\ At(s, k + 1) \in {till, escape} THEN TillItem(s, k + 2, till, escape)
  ELSE TillItem(s, k + 1, till, escape)

eat_till(s, till, escape) ==
  LET k == TillItem(s, 1, till, escape)
  IN IF k > Len(s) THEN Failed(s, "tillitem_not_found", Len(s)) ELSE Eaten(s, k - 1)

(***************************************************************************)
(* parse_helper.h: texts between flanks.                                   *)
(***************************************************************************)

Flanked(r, l, rt, value) ==
  [error |-> r.error, eaten |-> r.eaten, till |-> r.till, rest |-> r.rest, left |-> l, right |-> rt, value |-> value]

eat_flanked(s, l, r, escape) ==
  LET t == eat_till(From(s, 2), r, escape) IN
  IF ~Begins(s, l) THEN Flanked(Failed(s, "no_match", 0), "", "", "")
  ELSE IF t.error # "none" THEN Flanked([t EXCEPT !.rest = s], l, r, "")
  ELSE Flanked(Eaten(s, Len(t.eaten) + 2), l, r, t.eaten)

\* Any of the items is a flank; here eaten is what is between the flanks.
eat_flanked_oneof(s, items, escape) ==
  LET f == eat_flanked(s, At(s, 1), At(s, 1), escape) IN
  IF s = "" \/ At(s, 1) \notin items THEN Flanked(Failed(s, "no_match", 0), "", "", "")
  ELSE [f EXCEPT !.eaten = f.value, !.value = ""]

RECURSIVE Escaped(_, _, _)
Escaped(s, r, escape) ==
  IF s = "" THEN ""
  ELSE (IF At(s, 1) \in {r, escape} THEN escape ELSE "") \o At(s, 1) \o Escaped(From(s, 2), r, escape)

make_flanked(s, l, r, escape) == l \o Escaped(s, r, escape) \o r

\* A text that ends in an escape that escapes nothing is read beyond its end;
\* what eat_flanked() finds is no such text.
RECURSIVE Unescaped(_, _, _, _)
Unescaped(ap, s, k, escape) ==
  IF k > Len(s) THEN ap
  ELSE IF At(s, k) = escape THEN Unescaped(append(ap, s, k + 1, k + 2), s, k + 2, escape)
  ELSE LET n == Run(From(s, k), AllBut({escape})) IN Unescaped(append(ap, s, k, k + n), s, k + n, escape)

remove_escape(s, escape) == Unescaped(appender, s, 1, escape)

remove_flank(s, l, r, escape) ==
  LET v == eat_flanked(s, l, r, escape).value IN [value |-> appended(remove_escape(v, escape), v), copied |-> allocated(remove_escape(v, escape))]

(***************************************************************************)
(* parse_helper.h: numbers.  A type has a number of bits, fewer than the   *)
(* integers of TLC have, and a sign or none.                               *)
(***************************************************************************)

IntType(bits, signed) == [bits |-> bits, signed |-> signed]
Converted(v, type) ==
  LET m == v % 2^type.bits IN IF type.signed /\ m >= 2^(type.bits - 1) THEN m - 2^type.bits ELSE m

eat_digitcount(s, radix, min, max) ==
  LET run == Run(s, Digits[radix])
      n == IF run < max THEN run ELSE max
  IN IF n >= min THEN Eaten(s, n) ELSE Failed(s, IF n > 0 THEN "length" ELSE "no_match", n)

\* The loop over the digits, n of which have the value v: a smaller new value is an overflow.
RECURSIVE Number(_, _, _, _, _), Longer(_, _, _, _, _, _)
Number(s, n, v, type, radix) ==
  IF n = Len(s) \/ At(s, n + 1) \notin Digits[radix] THEN [digits |-> n, value |-> v, overflow |-> FALSE]
  ELSE Longer(s, n, v, Converted(v * radix + digit(At(s, n + 1), radix), type), type, radix)
Longer(s, n, v, w, type, radix) ==
  IF w < v THEN [digits |-> n, value |-> w, overflow |-> TRUE] ELSE Number(s, n + 1, w, type, radix)

Valued(r, v) == [error |-> r.error, eaten |-> r.eaten, till |-> r.till, rest |-> r.rest, value |-> v]

\* What has been read when the digits at the beginning are n, and what is read behind a minus.
Integer(s, type, n, negated) ==
  IF type.signed /\ Begins(s, "-") /\ negated.error = "none" THEN [negated EXCEPT !.value = Converted(0 - @, type)]
  ELSE IF n.overflow THEN Valued([Failed(s, "integer_overflow", n.digits) EXCEPT !.eaten = SubSeq(s, 1, n.digits)], n.value)
  ELSE IF n.digits = 0 THEN Valued(Failed(s, "no_match", 0), 0)
  ELSE Valued(Eaten(s, n.digits), n.value)

RECURSIVE eat_integer(_, _, _)
eat_integer(s, type, radix) ==
  Integer(s, type, Number(s, 0, 0, type, radix), eat_integer(eat_spaces(From(s, 2)).rest, type, radix))

Counted(s, d, i) ==
  IF d.error # "none" THEN Valued(Failed(s, "no_match", 0), 0)
  ELSE IF i.error = "none" THEN [i EXCEPT !.rest = d.rest]
  ELSE [i EXCEPT !.error = IF @ = "no_match" THEN "none" ELSE @, !.rest = s]
eat_integercount(s, type, radix, min, max) ==
  LET d == eat_digitcount(s, radix, min, max) IN Counted(s, d, eat_integer(d.eaten, type, radix))

(***************************************************************************)
(* tokenizer.h.                                                            *)
(***************************************************************************)

tokenize(s, delimiters, lasttoken) ==
  LET iter == IF len(lasttoken) > 0 THEN lasttoken.last ELSE 1
      first == iter + Run(From(s, iter), delimiters)
  IN slice(s, first, first + Run(From(s, first), AllBut(delimiters)))

\* What an iterator of the _tokenizer visits after a token.
RECURSIVE TokensAfter(_, _, _)
TokensAfter(s, delimiters, lasttoken) ==
  LET t == tokenize(s, delimiters, lasttoken)
  IN IF len(t) = 0 THEN <<>> ELSE <<str(t)>> \o TokensAfter(s, delimiters, t)

Tokens(s, delimiters) == TokensAfter(s, delimiters, slice(s, 1, 1))

(***************************************************************************)
(* find_replace with a fn_find that looks for the first of some pairs.     *)
(***************************************************************************)

\* The position of the first find and which of the pairs it is; 0 if there is none.
Hits(s, pairs, k) == {i \in DOMAIN pairs : eat_items(From(s, k), pairs[i][1]).error = "none"}
FirstHit(s, pairs) ==
  CHOOSE k \in 0 .. Len(s) :
    /\ \A j \in 1 .. Len(s) : Hits(s, pairs, j) # {} => k # 0 /\ k <= j
    /\ k # 0 => Hits(s, pairs, k) # {}

RECURSIVE find_replace(_, _)
find_replace(s, pairs) ==
  LET k == FirstHit(s, pairs) IN
  IF k = 0 THEN s
  ELSE LET i == CHOOSE i \in Hits(s, pairs, k) : \A j \in Hits(s, pairs, k) : i <= j
       IN SubSeq(s, 1, k - 1) \o pairs[i][2] \o find_replace(From(s, k + Len(pairs[i][1])), pairs)

(***************************************************************************)
(* char_helper.h: whole texts.                                             *)
(***************************************************************************)

RECURSIVE FilterChars(_, _)
FilterChars(s, kept) ==
  IF s = "" THEN "" ELSE (IF At(s, 1) \in kept THEN At(s, 1) ELSE "") \o FilterChars(From(s, 2), kept)
RemoveNotPrintable(s) == FilterChars(s, {c \in DOMAIN code : code[c] >= code[" "]})

replace_all(s, from, to) == find_replace(s, <<<<from, to>>>>)
=============================================================================
