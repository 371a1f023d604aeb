------------------------------- MODULE Calls -------------------------------
(***************************************************************************)
(* The pure functions of the system, each called with an input of its own: *)
(* what a book becomes in the index, what a run shows the model and reads  *)
(* back, what becomes of the passages a search finds.  A behaviour is one  *)
(* call; the properties say what it returns.                               *)
(***************************************************************************)
EXTENDS Sampling, Questions, Harvest, Chunking, Retrieval

CONSTANT
  Inputs   \* the calls made

VARIABLE call

\* The calls there can be.
Passage == [book : Nat, group : Nat, index : Nat, tokens : Nat \ {0}, asks : Nat,
            qualifies : BOOLEAN]

\* Passages of books come in reading order, each once.
Pools == {p \in Seq(Passage) :
            \A i, j \in DOMAIN p : (i < j /\ p[i].book = p[j].book) => p[i].index < p[j].index}

\* An outline has its entries in order.
Outlines(last) == {t \in Seq(1..last) : \A i, j \in DOMAIN t : i < j => t[i] <= t[j]}

Line == [mark : Marks, says : Nat, asks : {"no", "mark", "verb"}, long : BOOLEAN, capital : BOOLEAN,
         heading : BOOLEAN]

Hit == [id : Nat, book : Nat, page : Nat, spans : SUBSET STRING, sim : Nat \ {0}]

\* No list fused is longer than 61: beyond, two late places are worth less than a first one.
Rankings == {r \in Seq([id : Nat]) :
               Len(r) <= 61 /\ \A i, j \in DOMAIN r : r[i].id = r[j].id => i = j}

Word == [word : STRING, found : Nat]

Sentence == [length : Nat, blanks : SUBSET Nat, words : {w \in SUBSET STRING : IsFiniteSet(w)}]

Sampled   == [kind : {"sample"}, pool : Pools, wanted : Nat]
Dealt     == {c \in [kind : {"deal"}, pool : Pools, found : Seq(Passage), wanted : Nat,
                     size : Nat \ {0}] : IsInjective(c.found)}
Exercised == [kind : {"harvest"}, pool : Pools, perCall : Nat \ {0}, span : Nat]
Replied   == [kind : {"reply"}, reply : [shape : Shapes, objects : Seq([form : Forms, n : Nat])]]
Keyed     == [kind : {"options"}, options : Seq([key : STRING, text : STRING]), correct : STRING]
Printed   == [kind : {"text"}, text : Seq(Line), minimum : Nat \ {0}]
Parsed    == {c \in [kind : {"pages"}, pages : Seq(Seq(Nat \ {0})), tops : Seq(Nat),
                     max : Nat \ {0}, overlap : Nat] :
                c.pages # <<>> /\ c.tops \in Outlines(Len(c.pages))}
Searched  == [kind : {"hits"}, hits : Seq(Hit), limit : Nat \ {0}]
Fused     == [kind : {"rankings"}, first : Rankings, second : Rankings]
Trimmed   == [kind : {"passage"}, sentences : Seq(Sentence) \ {<<>>},
              terms : SUBSET STRING, max : Nat]
Worded    == {c \in [kind : {"words"}, words : Seq(Word), total : Nat, filler : Word] :
                /\ \A w, v \in ToSet(c.words) \cup {c.filler} : w.word = v.word => w = v
                /\ Len(c.words) < MaxTermsProbed
                /\ c.filler.found \notin 1..SelectivityCap(c.total)}
Covered   == [kind : {"book"}, chunks : Nat, perBook : Nat \ {0}]

Possible == Sampled \cup Dealt \cup Exercised \cup Replied \cup Keyed \cup Printed \cup Parsed
            \cup Searched \cup Fused \cup Trimmed \cup Worded \cup Covered

ASSUME InputsAssumption == Inputs \subseteq Possible

-----------------------------------------------------------------------------
NoCall == [kind |-> "none"]

CallInit == call = NoCall
CallNext == call = NoCall /\ call' \in Inputs
CallSpec == CallInit /\ [][CallNext]_call

-----------------------------------------------------------------------------
\* What a run shows the model of its material: a fair cross-section of the chapters, all of
\* it and nothing twice, and every exercise with the pages that answer it.
MaterialShown ==
  /\ call.kind = "sample" => CoverageSpreads(call.pool, call.wanted)
  /\ call.kind = "deal" => BatchesPartition(call.pool, call.found, call.wanted, call.size)
  /\ call.kind = "harvest" => HarvestCovers(call.pool, call.perCall, call.span)

\* A reply gives every complete question it holds, and a question the answer its writer
\* meant, however the reply was cut and its choices were keyed.
ReplyRead ==
  /\ call.kind = "reply" => SiblingsKept(call.reply)
  /\ call.kind = "options" => KeyStands(call.options, call.correct)

\* A printed question is found once, unless its number is behind a capital letter, with no
\* choice that is not printed under it.
PrintedOnce ==
  call.kind = "text" => LinesOnce(call.text, call.minimum) /\ ChoicesInOrder(call.text)

\* The pages of a book are in its chapters, and their text in its chunks, once and in order.
PagesIndexed ==
  call.kind = "pages" => /\ PagesInChapters(call.tops, Len(call.pages))
                         /\ ChunksCover(call.pages, call.tops, call.max, call.overlap)

\* The hits of two searches are put in one order that is fair to both, and narrowed to the
\* book they speak for without starving the answer.
HitsRanked ==
  /\ call.kind = "rankings" => FusionFair(call.first, call.second)
  /\ call.kind = "hits" => NarrowingKeeps(call.hits, call.limit)

\* The words searched for single something out, a book is sampled from end to end, and what
\* is quoted of a passage is the part of it that the question is about.
MaterialChosen ==
  /\ call.kind = "words" => FillerIgnored(call.words, call.total, call.filler)
  /\ call.kind = "book" => CoverageEven(call.chunks, call.perBook)
  /\ call.kind = "passage" => ExcerptBest(call.sentences, call.terms, call.max)

=============================================================================
