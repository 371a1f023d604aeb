------------------------------ MODULE Harvest ------------------------------
(***************************************************************************)
(* Finding the questions a passage prints (backend/app/rag/harvest.py).    *)
(*                                                                         *)
(* A passage is a sequence of lines.  A line is its marker at the left     *)
(* margin ("" for none) and the text behind it: which text it is (`says`), *)
(* how it asks something (a question mark at its end, an imperative of an  *)
(* exercise at its start, or not at all), whether it is long enough to be  *)
(* a question, whether it starts with a capital, and whether it is an      *)
(* exercise heading.  A found question is the lines its stem takes, with   *)
(* its number and the lines of its choices.                                *)
(***************************************************************************)
EXTENDS Places, FiniteSetsExt

CONSTANTS
  MaxStem  \* lines a stem may take before it is a passage the numbering swallowed

\* The markers that occur: an exercise number, bare or behind a word, and the letters of a
\* list of choices as books print them.
NumberMarks == {"1.", "Q1."}
ChoiceMarks == [a |-> {"(a)", "(A)", "A."}, b |-> {"(b)", "(B)", "B."},
                c |-> {"(c)", "(C)", "C."}]
Marks == {""} \cup NumberMarks \cup UNION {ChoiceMarks[k] : k \in DOMAIN ChoiceMarks}

\* _ITEM_MARKER takes an arabic number, a lower-case letter in brackets, and whatever
\* reads as a roman numeral; a bracketed C is one.
StartsItem(line) == line.mark \in NumberMarks \cup {"(a)", "(b)", "(c)", "(C)"}

\* _OPTION_LINE
IsChoice(line, k) == line.mark \in ChoiceMarks[k]
IsAnyChoice(line) == \E k \in DOMAIN ChoiceMarks : IsChoice(line, k)

Letters == <<"a", "b", "c">>

\* The first character of a line is that of its marker, if it has one.
CapitalMarks == {"Q1.", "A.", "B.", "C."}
StartsUpper(line) == IF line.mark = "" THEN line.capital ELSE line.mark \in CapitalMarks

-----------------------------------------------------------------------------
\* Where the item of a marker ends: before the next marker.
ItemEnd(text, i) ==
  LET later == {j \in i + 1 .. Len(text) : StartsItem(text[j])}
  IN IF later = {} THEN Len(text) ELSE Min(later) - 1

\* The choice lines in lines from..to; they count if there are two or more and they run
\* from (a) in order.  The first line of an item has lost its marker already.
ChoiceLines(text, from, to) == InOrder({j \in from + 1 .. to : IsAnyChoice(text[j])})

SplitOptions(text, from, to) ==
  LET found == ChoiceLines(text, from, to) IN
  IF /\ Len(found) \in 2..Len(Letters)
     /\ \A n \in DOMAIN found : IsChoice(text[found[n]], Letters[n])
  THEN [stem |-> found[1] - 1, options |-> found]
  ELSE [stem |-> to, options |-> <<>>]

\* Bounds on the length, and a question mark anywhere or an imperative at the start.
LooksLikeAQuestion(text, from, to) ==
  /\ \E j \in from..to : text[j].long
  /\ to - from + 1 <= MaxStem
  /\ text[from].asks = "verb" \/ \E j \in from..to : text[j].asks = "mark"

Found(from, to, number, options) ==
  [from |-> from, to |-> to, number |-> number, options |-> options]

\* The question a marker begins, if what it owns reads as one.
Item(text, i) ==
  LET split == SplitOptions(text, i, ItemEnd(text, i))
  IN Found(i, split.stem, text[i].mark, split.options)

NumberedItems(text) ==
  {q \in {Item(text, i) : i \in {j \in DOMAIN text : StartsItem(text[j])}} :
     LooksLikeAQuestion(text, q.from, q.to)}

\* Whether a line, its marker included, reads the same in the stem of a question.  The
\* first line of a stem has lost its marker, the others have theirs.
InStem(text, j, q) ==
  \E i \in q.from..q.to :
     /\ text[j].says = text[i].says
     /\ text[j].mark \in {"", IF i = q.from THEN "" ELSE text[i].mark}

ReadsAlone(text, j) ==
  text[j].asks = "mark" /\ StartsUpper(text[j]) /\ LooksLikeAQuestion(text, j, j)

\* Mutant: lines of a numbered item are looked at again.
LooseLinesAll(text, numbered) ==
  {Found(j, j, "", <<>>) : j \in {i \in DOMAIN text : ReadsAlone(text, i)}}

\* A line on its own, unless a numbered item has its text.
LooseLines(text, numbered) ==
  {Found(j, j, "", <<>>) : j \in
     {i \in DOMAIN text : ReadsAlone(text, i) /\ \A q \in numbered : ~InStem(text, i, q)}}

FindQuestions(text) ==
  LET numbered == NumberedItems(text) IN numbered \cup LooseLines(text, numbered)

CarriesQuestions(text, minimum) ==
  LET found == FindQuestions(text) IN
  /\ found # {}
  /\ \/ \E i \in DOMAIN text : text[i].heading
     \/ Cardinality({q \in found : q.number # ""}) >= minimum

-----------------------------------------------------------------------------
\* The line behind a marker that starts with a capital ("Q1.") is found again on its own:
\* with its marker it is not the text of its item, which has lost it.
AgainWithMarker(q, r) ==
  q.number \in CapitalMarks /\ r.number = "" /\ r.from = q.from

\* But for that, no line of the book is in the stem of two questions, nor is what a
\* question without a number says, without a marker, in one with a number; no choice of
\* one is in the stem of another that has a number; and a passage that qualifies has a
\* number or a heading that says so: a rhetorical question in prose is never enough.  (A
\* choice that itself reads as a question is found again, as a loose line.)
LinesOnce(text, minimum) ==
  LET found == FindQuestions(text)
      stem(q) == q.from..q.to
      choices(q) == {q.options[n] : n \in DOMAIN q.options}
  IN /\ \A q, r \in found :
          q # r =>
            /\ \/ stem(q) \cap stem(r) = {}
               \/ AgainWithMarker(q, r) \/ AgainWithMarker(r, q)
            /\ (q.number # "" /\ r.number = "" /\ text[r.from].mark = "") =>
                 \A i \in stem(q) : text[i].says # text[r.from].says
            /\ q.number # "" => stem(q) \cap choices(r) = {}
     /\ CarriesQuestions(text, minimum) =>
          \E i \in DOMAIN text : text[i].heading \/ StartsItem(text[i])

\* The choices offered with a question are the ones printed right under it, from the
\* first on and with none left out between: a label never belongs to another's text.
\* (Not always all of them: a marker that also reads as an item, "(a)" or "(C)", ends
\* the question.)
ChoicesInOrder(text) ==
  \A q \in FindQuestions(text) :
    LET between(j) == {i \in q.to + 1 .. j - 1 : IsAnyChoice(text[i])}
    IN \A n \in DOMAIN q.options :
         /\ IsChoice(text[q.options[n]], Letters[n])
         /\ between(q.options[n]) = {q.options[m] : m \in 1..n - 1}

=============================================================================
