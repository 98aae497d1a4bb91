------------------------------ MODULE Reading ------------------------------
(***************************************************************************)
(* Texts and documents that are typed piece by piece, and what the parsing *)
(* functions and the XML parser make of them.                              *)
(***************************************************************************)
EXTENDS Xml, FiniteSetsExt, SequencesExt

CONSTANT MaxTyped   \* how many pieces are typed

VARIABLES form, typed

readingVars == <<form, typed>>

Pieces == [text |-> {"a", " ", "(", ")", "\\", "-", "2", "9"},
           xml  |-> {"<a k='v'>", "<b >", "</a>", "</b>", "<c/>", "t", "&lt;", "<!--n-->"}]

ReadingInit == form \in DOMAIN Pieces /\ typed = <<>>

Type(piece) ==
  /\ Len(typed) < MaxTyped
  /\ typed' = Append(typed, piece)
  /\ UNCHANGED form

ReadingNext == \E piece \in Pieces[form] : Type(piece)

Written == FoldLeft(LAMBDA s, piece : s \o piece, "", typed)

-----------------------------------------------------------------------------
(***************************************************************************)
(* Texts.                                                                  *)
(***************************************************************************)

\* What make_flanked() has written eat_flanked() and remove_escape() read back,
\* whatever stands behind it: parse_helper.h:223, 263, 313.
FlanksComeOff ==
  \A flanks \in {<<"(", ")">>, <<"(", "(">>, <<"a", " ">>} :
    LET made == make_flanked(Written, flanks[1], flanks[2], "\\")
        read == eat_flanked(made \o ")( a", flanks[1], flanks[2], "\\")
    IN /\ read.error = "none" /\ read.eaten = made /\ read.rest = ")( a"
       /\ appended(remove_escape(read.value, "\\"), read.value) = Written

\* The tokens are the longest pieces without delimiters, in their order: tokenizer.h:35.
TokensAreRuns ==
  LET delimiters == {" ", "(", ")"}
      Starts(i) == typed[i] \notin delimiters /\ (i = 1 \/ typed[i - 1] \in delimiters)
      starts == SetToSortSeq({i \in DOMAIN typed : Starts(i)}, <)
      End(i) == Max({j \in i .. Len(typed) : \A k \in i .. j : typed[k] \notin delimiters})
  IN Tokens(Written, delimiters) = [n \in DOMAIN starts |-> SubSeq(Written, starts[n], End(starts[n]))]

\* The value of a sequence of digits.
Value(digits) == FoldLeft(LAMBDA v, d : 10 * v + d, 0, digits)

\* A number that fits the type is read exactly and to its end, and the text is
\* only eaten when a number is read: parse_helper.h:434.
NumbersThatFit ==
  \A type \in {IntType(8, FALSE), IntType(8, TRUE), IntType(10, TRUE)} :
    LET n == Run(Written, {"2", "9"})
        v == Value([i \in 1 .. n |-> IF typed[i] = "2" THEN 2 ELSE 9])
        r == eat_integer(Written, type, 10)
    IN /\ n > 0 /\ v = Converted(v, type) => r.error = "none" /\ r.value = v /\ r.rest = From(Written, n + 1)
       /\ r.error # "none" => r.rest = Written
       /\ n = 0 /\ ~(type.signed /\ Begins(Written, "-")) => r.error = "no_match"

\* Trimming takes the white space at both ends and nothing else: iterator_access.h:438.
TrimmedAtBothEnds ==
  LET inner == {i \in DOMAIN typed : typed[i] # " "}
  IN trim(Written, isspace) = IF inner = {} THEN "" ELSE SubSeq(Written, Min(inner), Max(inner))

-----------------------------------------------------------------------------
(***************************************************************************)
(* Documents.  The element that a document begins with by the grammar of   *)
(* xml.h:1010-1014 and 1066, put together piece by piece: the elements     *)
(* that are open, the innermost last.  A document with an empty element as *)
(* a child (xml.h:1038), or with two texts of an element that a child or a *)
(* comment parts (xml.h:1104), is beyond what the parser can read.         *)
(***************************************************************************)

Opened(name, attributes) ==
  [name |-> name, attributes |-> attributes, text |-> "", comments |-> <<>>, children |-> <<>>, interrupted |-> FALSE]

Spoken(d, text) ==
  [d EXCEPT !.open[Len(d.open)].text = @ \o text, !.beyond = @ \/ Last(d.open).interrupted]

Interrupt(e) == [e EXCEPT !.interrupted = e.text # ""]

\* The innermost open element has a child.
WithChild(open, child) ==
  Append(Front(open), [Interrupt(Last(open)) EXCEPT !.children = Append(@, child)])

Close(d, name) ==
  LET e == Part(Last(d.open))
      outer == Front(d.open)
  IN IF e.name # name THEN [d EXCEPT !.is = "nothing"]
     ELSE IF outer = <<>> THEN [d EXCEPT !.is = "element", !.element = e]
     ELSE [d EXCEPT !.open = WithChild(outer, e)]

NothingInside == Part(Opened("c", <<>>))

AfterPiece(d, piece) ==
  IF d.is # "open" THEN d
  ELSE CASE piece = "<a k='v'>" -> [d EXCEPT !.open = Append(@, Opened("a", <<<<"k", "v">>>>))]
         [] piece = "<b >" -> [d EXCEPT !.open = Append(@, Opened("b", <<>>))]
         [] piece # "<a k='v'>" /\ piece # "<b >" /\ d.open = <<>> ->
              IF piece = "<c/>" THEN [d EXCEPT !.is = "element", !.element = NothingInside] ELSE [d EXCEPT !.is = "nothing"]
         [] piece = "</a>" /\ d.open # <<>> -> Close(d, "a")
         [] piece = "</b>" /\ d.open # <<>> -> Close(d, "b")
         [] piece = "<c/>" /\ d.open # <<>> -> [d EXCEPT !.open = WithChild(@, NothingInside), !.beyond = TRUE]
         [] piece = "<!--n-->" /\ d.open # <<>> ->
              [d EXCEPT !.open[Len(d.open)] = [Interrupt(@) EXCEPT !.comments = Append(@, "n")]]
         [] piece = "t" /\ d.open # <<>> -> Spoken(d, "t")
         [] piece = "&lt;" /\ d.open # <<>> -> Spoken(d, "<")

Document == FoldLeft(AfterPiece, [is |-> "open", open |-> <<>>, element |-> "none", beyond |-> FALSE], typed)

\* What the parser finds is the element that the document begins with, all of
\* it and in its nesting.  It finds it, without an exception and in finite time,
\* unless the document is beyond it.
IsDocument(e) ==
  /\ e.outcome = "done" /\ e.ok => Document.is = "element" /\ Part(e) = Document.element
  /\ ~Document.beyond => e.outcome = "done" /\ (Document.is = "element" => e.ok)
DocumentIsItsTree == IsDocument(eat_element(Written, TRUE, TRUE))

-----------------------------------------------------------------------------
\* What the parsing functions and the XML parser read is what has been written;
\* texts are read whatever they contain, numbers if they fit their type and
\* documents unless they are beyond the parser.
ReadsWhatIsWritten ==
  IF form = "xml" THEN DocumentIsItsTree
  ELSE FlanksComeOff /\ TokensAreRuns /\ NumbersThatFit /\ TrimmedAtBothEnds
=============================================================================
