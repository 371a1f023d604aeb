----------------------------- MODULE Questions -----------------------------
(***************************************************************************)
(* What becomes of one reply of the model, and of one question an author   *)
(* types (backend/app/services/assessments.py): taking the reply apart,    *)
(* canonical choices, the answer key.  Keys and texts are trimmed and in   *)
(* one case, as the code makes them.                                       *)
(***************************************************************************)
EXTENDS Places

OptionKeys == <<"A", "B", "C", "D", "E", "F", "G", "H">>
Banned == {"all of the above"}
Blank == ""

MinOptions == 3
MaxOptions == 5

-----------------------------------------------------------------------------
\* Taking a reply apart: `shape` says how its objects are bracketed.  An object is a
\* whole question, something else that decodes, a question broken after its choices, or
\* one the token ceiling cut off before they end, which is the last of its reply.
Shapes == {"wrapped", "array", "lines"}
Forms == {"question", "other", "broken", "cut"}

Of(reply, forms) == {i \in DOMAIN reply.objects : reply.objects[i].form \in forms}

\* The reply decoded as a whole, and the questions in what decodes.  Without a bracket
\* around its objects that is the first list in it, if there is but one: the choices of a
\* question, and no question.
WholeReply(reply) ==
  IF reply.shape # "lines"
  THEN [decodes |-> Of(reply, {"broken", "cut"}) = {}, questions |-> Of(reply, {"question"})]
  ELSE [decodes |-> Cardinality(Of(reply, {"question"})) = 1 /\ Of(reply, {"broken"}) = {},
        questions |-> {}]

\* Every complete question of a reply that does not decode.
Salvage(reply) == Of(reply, {"question"})

\* The items of a reply; none is an error of the call.
ParseGenerated(reply) ==
  LET whole == WholeReply(reply)
  IN Pick(reply.objects, IF whole.decodes THEN whole.questions ELSE Salvage(reply))

-----------------------------------------------------------------------------
\* The label an option is known by: its own key, else the letter of its place.
Label(options, i) == IF options[i].key = Blank THEN OptionKeys[i] ELSE options[i].key

UsableKeys(options) ==
  \A i, j \in DOMAIN options :
    (options[i].key = options[j].key /\ options[i].key # Blank) => i = j

\* Renumbered onto our keys; of two equal labels the first one counts.
Canonical(options) ==
  [i \in DOMAIN options |-> [key |-> OptionKeys[i], text |-> options[i].text]]

\* Mutant: the choices are renumbered and the key is not.
RemapNothing(options) ==
  [l \in {Label(options, i) : i \in DOMAIN options} |-> l]

Remap(options) ==
  [l \in {Label(options, i) : i \in DOMAIN options} |->
     OptionKeys[CHOOSE i \in DOMAIN options :
       /\ Label(options, i) = l
       /\ \A j \in 1..i - 1 : Label(options, j) # l]]

DistinctTexts(options) ==
  \A i, j \in DOMAIN options :
    options[i].text # Blank /\ (options[i].text = options[j].text => i = j)

Refused == [ok |-> FALSE, options |-> <<>>, correct |-> Blank]

BuildQuestion(options, correct) ==
  IF /\ UsableKeys(options)
     /\ Len(options) \in MinOptions..MaxOptions
     /\ DistinctTexts(options)
     /\ \A i \in DOMAIN options : options[i].text \notin Banned
     /\ correct \in DOMAIN Remap(options)
  THEN [ok |-> TRUE, options |-> Canonical(options), correct |-> Remap(options)[correct]]
  ELSE Refused

-----------------------------------------------------------------------------
\* The text the writer of a question points at: with every choice labelled, or none.
AllNamed(options) == \A i \in DOMAIN options : options[i].key # Blank
AllBlank(options) == \A i \in DOMAIN options : options[i].key = Blank

\* The choice marked correct is the one its writer meant, however the choices were keyed
\* and in whatever order, as long as all of them have a label or none has; and every
\* choice is still there under a key of its own ("must not be able to decide what a
\* stored answer means").
KeyStands(options, correct) ==
  LET q == BuildQuestion(options, correct) IN
  q.ok =>
    /\ {q.options[i].text : i \in DOMAIN q.options} = {options[i].text : i \in DOMAIN options}
    /\ \A i, j \in DOMAIN q.options : q.options[i].key = q.options[j].key => i = j
    /\ AllNamed(options) =>
         \A i \in DOMAIN options : options[i].key = correct =>
           \A j \in DOMAIN q.options : q.options[j].key = q.correct =>
             q.options[j].text = options[i].text
    /\ AllBlank(options) => q.correct = correct

\* One broken object costs the reply nothing but itself: every complete question of it is
\* recovered once, in the order written, and nothing that is not a question is made one.
\* (Of a reply without brackets, only if it holds two complete questions or more.)
SiblingsKept(reply) ==
  LET items == ParseGenerated(reply)
      complete == {i \in DOMAIN reply.objects : reply.objects[i].form = "question"}
      before(i) == {j \in complete : j < i}
  IN (reply.shape # "lines" \/ Cardinality(complete) > 1) =>
       /\ Len(items) = Cardinality(complete)
       /\ \A i \in complete : items[Cardinality(before(i)) + 1] = reply.objects[i]

=============================================================================
