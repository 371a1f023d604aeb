------------------------------ MODULE MCCalls ------------------------------
(***************************************************************************)
(* Instances of Calls for TLC: inputs small enough to be enumerated, and   *)
(* large enough for every branch of the functions.                         *)
(***************************************************************************)
EXTENDS Calls

\* Three chapters, the third in another book, of passages equally long; the last passage
\* of a chapter may be an exercise.
OneChapter(k, f) ==
  [i \in 1..f.n |->
     [book |-> IF k = 3 THEN 2 ELSE 1, group |-> k, index |-> 10 * k + i, tokens |-> f.t,
      asks |-> IF i = f.n THEN f.a ELSE 0, qualifies |-> f.a # 1]]

Material(chapters) == {FlattenSeq([k \in 1..3 |-> OneChapter(k, f[k])]) : f \in [1..3 -> chapters]}

Lengths   == Material([n : {1, 2, 4}, t : {1, 3}, a : {0}])
Exercises == Material([n : {1, 2}, t : {1}, a : {0, 1, 3}])

\* The passages near the topics of a brief: none, or every other one.
Near(pool) == {<<>>, Pick(pool, {i \in DOMAIN pool : i % 2 = 0})}

Objects == [form : {"question", "other", "broken"}, n : {1}] \cup {[form |-> "cut", n |-> 1]}
Replies == {[shape |-> s, objects |-> o] :
              s \in Shapes,
              o \in {x \in UNION {[1..k -> Objects] : k \in 1..3} :
                       \A i \in DOMAIN x : x[i].form = "cut" => i = Len(x)}}

Options == UNION {[1..k -> [key : {Blank, "A", "B", "C"}, text : {"x", "y", "z"}]] : k \in 2..3}

\* The lines of a text say different things, or all the same.
Marked == [mark : {"", "1.", "Q1.", "(a)", "(A)", "(B)", "(C)", "A.", "B."}, asks : {"no", "mark"},
           capital : BOOLEAN]
Lines == {l \in Marked : l.mark # "" => l.capital}
Text(lines, repeats) ==
  [i \in DOMAIN lines |->
     [mark |-> lines[i].mark, says |-> IF repeats THEN 0 ELSE i, asks |-> lines[i].asks,
      long |-> TRUE, capital |-> lines[i].capital, heading |-> FALSE]]
Exercise == [mark |-> "1.", asks |-> "mark", capital |-> TRUE]
Texts == {Text(lines, repeats) : lines \in UNION {[1..k -> Lines] : k \in 1..3}, repeats \in BOOLEAN}
         \cup {Text(<<Exercise>> \o lines, FALSE) : lines \in [1..3 -> Lines]}

\* Three pages of paragraphs, of 5, 10 and 30 tokens, and the outlines over them.
Pages == [1..3 -> BoundedSeq({20, 43, 121}, 2)]
Tops == {q \in BoundedSeq(1..3, 3) : \A i \in 1..Len(q) - 1 : q[i] <= q[i + 1]}

\* Five hits of three books at most, equally near or the first much nearer.
Kinds == {<<1, 1, {}>>, <<1, 2, {"t1"}>>, <<1, 0, {}>>, <<2, 1, {"t1"}>>, <<2, 2, {}>>, <<3, 1, {}>>}

Hits == {[i \in DOMAIN k |-> [id |-> i, book |-> k[i][1], page |-> k[i][2], spans |-> k[i][3],
                             sim |-> IF steep /\ i = 1 THEN 19 ELSE 13]] :
           k \in UNION {[1..n -> Kinds] : n \in 0..4} \cup [1..5 -> Kinds \ {<<1, 0, {}>>}],
           steep \in BOOLEAN}

Ranking == {[i \in DOMAIN r |-> [id |-> r[i]]] :
              r \in {q \in UNION {[1..n -> 1..4] : n \in 0..4} : IsInjective(q)}}

\* Passages of a few sentences, and of one with blanks here and there.
Sentences ==
  UNION {[1..n -> [length : {3, 7, 12}, blanks : {{}}, words : {{}, {"t1"}, {"t1", "t2"}}]] : n \in 1..3}
  \cup [1..1 -> [length : {12}, blanks : SUBSET {1, 2, 4, 5, 7, 8, 9}, words : {{}}]]

Counts == [{"a", "b", "c"} -> {0, 1, 2, 4, 9}]
Questioned == {[i \in DOMAIN q |-> [word |-> q[i], found |-> f[q[i]]]] :
                 q \in UNION {[1..n -> {"a", "b", "c"}] : n \in 0..3}, f \in Counts}
Fillers == {[word |-> "absent", found |-> 0], [word |-> "everywhere", found |-> 200]}

MCInputs ==
  [kind : {"sample"}, pool : Lengths, wanted : {1, 3, 5}]
  \cup UNION {[kind : {"deal"}, pool : {p}, found : Near(p), wanted : {3, 5}, size : 1..3] :
                p \in Lengths}
  \cup [kind : {"harvest"}, pool : Exercises, perCall : 1..2, span : 1..2]
  \cup [kind : {"reply"}, reply : Replies]
  \cup [kind : {"options"}, options : Options, correct : {"A", "B", "C"}]
  \cup [kind : {"text"}, text : Texts, minimum : {2}]
  \cup UNION {[kind : {"pages"}, pages : Pages, tops : Tops, max : {15 * o}, overlap : {5 * o}] :
                o \in 1..2}
  \cup [kind : {"hits"}, hits : Hits, limit : 1..4]
  \cup [kind : {"rankings"}, first : {r \in Ranking : Len(r) <= 3}, second : Ranking]
  \cup [kind : {"passage"}, sentences : Sentences, terms : {{}, {"t1"}, {"t1", "t2"}}, max : 0..5]
  \cup [kind : {"words"}, words : Questioned, total : {10, 300}, filler : Fillers]
  \cup [kind : {"book"}, chunks : 0..12, perBook : 1..5]

=============================================================================
