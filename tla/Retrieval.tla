------------------------------ MODULE Retrieval ------------------------------
(***************************************************************************)
(* What is made of the passages a search brings back: which are repeats,   *)
(* which book they speak for, which few are shown (backend/app/rag/rank.py), *)
(* how much of one (rag/trim.py), and two choices of rag/retrieve.py: the  *)
(* words worth searching for and the cross-section of a book.  Pure        *)
(* functions.                                                              *)
(*                                                                         *)
(* A hit is a record of its chunk (`id`), its `book`, its `page` (0 if it  *)
(* has none), the stretches of text it holds (`spans`; two hits with one   *)
(* in common are the same material seen twice) and its similarity to the   *)
(* question, in twentieths.                                                *)
(***************************************************************************)
EXTENDS Places, Chunking, FiniteSetsExt, SequencesExt

-----------------------------------------------------------------------------
\* rank.py: reciprocal rank fusion.
K == 60

Ids(ranking) == {ranking[i].id : i \in DOMAIN ranking}
At(ranking, id) == CHOOSE i \in DOMAIN ranking : ranking[i].id = id

\* The sum of the reciprocals of a hit's places, as a fraction.
Score(first, second, id) ==
  LET a == K + At(first, id)
      b == K + At(second, id)
  IN CASE id \in Ids(first) \cap Ids(second) -> [num |-> a + b, den |-> a * b]
       [] id \in Ids(first) \ Ids(second) -> [num |-> 1, den |-> a]
       [] id \in Ids(second) \ Ids(first) -> [num |-> 1, den |-> b]

Higher(s, t) == s.num * t.den > t.num * s.den

Merged(first, second) ==
  first \o Pick(second, {i \in DOMAIN second : second[i].id \notin Ids(first)})

\* The best score first, then whoever came first.
Above(first, second, merged) ==
  LET score(i) == Score(first, second, merged[i].id)
  IN {p \in (DOMAIN merged) \X (DOMAIN merged) :
        \/ Higher(score(p[1]), score(p[2]))
        \/ ~Higher(score(p[2]), score(p[1])) /\ p[1] < p[2]}

Fuse(first, second) ==
  LET merged == Merged(first, second)
      order == Sorted(DOMAIN merged, Above(first, second, merged))
  IN [k \in DOMAIN merged |-> merged[order[k]]]

\* A hit repeats one kept already: the same page, or text in common.
Repeats(kept, hit) ==
  \/ hit.page # 0 /\ kept.book = hit.book /\ kept.page = hit.page
  \/ kept.spans \cap hit.spans # {}

Kept(hits) ==
  LET after[n \in 0..Len(hits)] ==
        IF n = 0 THEN {}
        ELSE IF \E i \in after[n - 1] : Repeats(hits[i], hits[n]) THEN after[n - 1]
        ELSE after[n - 1] \cup {n}
  IN after[Len(hits)]

Dedupe(hits) == Pick(hits, Kept(hits))

\* What a hit is worth, each place down counting 0.85 of the one before.
Power(base, exponent) ==
  LET upTo[n \in 0..exponent] == IF n = 0 THEN 1 ELSE base * upTo[n - 1]
  IN upTo[exponent]

Weight(hits, i) == hits[i].sim * Power(17, i - 1) * Power(20, Len(hits) - i)

Worth(hits, books) ==
  Total([i \in DOMAIN hits |-> IF hits[i].book \in books THEN Weight(hits, i) ELSE 0],
        1, Len(hits))

BooksOf(hits) == {hits[i].book : i \in DOMAIN hits}
FirstHit(hits, book) == Min({i \in DOMAIN hits : hits[i].book = book})

\* The books by their worth; the one seen first if two are worth the same.
Outvotes(hits) ==
  {p \in BooksOf(hits) \X BooksOf(hits) :
     \/ Worth(hits, {p[1]}) > Worth(hits, {p[2]})
     \/ Worth(hits, {p[1]}) = Worth(hits, {p[2]}) /\ FirstHit(hits, p[1]) < FirstHit(hits, p[2])}

Vote(hits) == Sorted(BooksOf(hits), Outvotes(hits))

MinChunks == 3
Dominance == 62

Dominant(hits, book) == 100 * Worth(hits, {book}) >= Dominance * Worth(hits, BooksOf(hits))

\* The hits of the winner, or of the first two books if it does not dominate.
Voted(hits) ==
  LET votes == Vote(hits)
      seats == IF Dominant(hits, votes[1]) THEN 1 ELSE Min({2, Len(votes)})
  IN {i \in DOMAIN hits : \E k \in 1..seats : hits[i].book = votes[k]}

\* Mutant: a vote is followed however little it leaves.
RouteStarving(hits) == IF Len(hits) <= MinChunks THEN hits ELSE Pick(hits, Voted(hits))

Route(hits) ==
  IF Len(hits) <= MinChunks \/ Cardinality(Voted(hits)) < MinChunks THEN hits
  ELSE Pick(hits, Voted(hits))

\* One hit of each page first, then what was skipped, in the order of the search.
SpreadOut(hits, limit) ==
  IF Len(hits) <= limit THEN hits
  ELSE LET same(i, j) == hits[i].book = hits[j].book /\ hits[i].page = hits[j].page
           skipped == {i \in DOMAIN hits : \E j \in 1..i - 1 : same(i, j)}
           first == FirstOf(DOMAIN hits \ skipped, limit)
       IN Pick(hits, first \cup FirstOf(skipped, limit - Cardinality(first)))

Narrow(hits, limit) == SpreadOut(Route(Dedupe(hits)), limit)

-----------------------------------------------------------------------------
\* trim.py: a sentence is its length in characters, where it has a blank, and its words.
\* The passage, its sentences joined.
PassageTokens(sentences) ==
  Tokens(Total([i \in DOMAIN sentences |-> sentences[i].length], 1, Len(sentences))
         + Len(sentences) - 1)

Cost(sentences, from, to) ==
  Total([i \in DOMAIN sentences |-> Tokens(sentences[i].length)], from, to)

Matches(sentences, terms, from, to) ==
  Total([i \in DOMAIN sentences |-> Cardinality(sentences[i].words \cap terms)], from, to)

Window(sentences, terms, from, to) ==
  [score |-> Matches(sentences, terms, from, to), from |-> from, to |-> to]

\* The last sentence a window may end with: before the first that makes it too long.
Furthest(sentences, max, from) ==
  LET over == {to \in from + 1 .. Len(sentences) : Cost(sentences, from, to) > max}
  IN IF over = {} THEN Len(sentences) ELSE Min(over) - 1

\* Mutant: of equally good windows the last.
BetterLast(best, window) == IF window.score >= best.score THEN window ELSE best

Better(best, window) == IF window.score > best.score THEN window ELSE best

\* The best window so far, and those that start here.
BestFrom(sentences, terms, max, best, from) ==
  LET count == Furthest(sentences, max, from) - from + 1
      after[n \in 0..count] ==
        IF n = 0 THEN best
        ELSE Better(after[n - 1], Window(sentences, terms, from, from + n - 1))
  IN after[count]

\* The best window of all.
Best(sentences, terms, max) ==
  LET after[n \in 0..Len(sentences)] ==
        IF n = 0 THEN [score |-> -1, from |-> 1, to |-> 0]
        ELSE BestFrom(sentences, terms, max, after[n - 1], n)
  IN after[Len(sentences)]

\* Mutant: a sentence that cannot be split is cut wherever the budget ends.
HeadOfAnywhere(sentence, max) == max * CharsPerToken

\* How much is kept of a single long sentence: up to the last blank within the budget,
\* less the blanks before it; or all the budget holds, if that leaves nothing or there
\* is no blank.
HeadOf(sentence, max) ==
  LET limit == max * CharsPerToken
      blanks == sentence.blanks \cap (1..limit)
      words == 1..Max(blanks) \ sentence.blanks
  IN IF blanks = {} THEN limit ELSE IF words = {} THEN limit ELSE Max(words)

\* What is quoted: sentences from..to, whole, or the first `head` characters of the only one.
Excerpt(sentences, terms, max) ==
  IF max <= 0 \/ PassageTokens(sentences) <= max
    THEN [from |-> 1, to |-> Len(sentences), head |-> 0]
  ELSE IF Len(sentences) = 1 THEN [from |-> 1, to |-> 1, head |-> HeadOf(sentences[1], max)]
  ELSE LET best == Best(sentences, terms, max) IN [from |-> best.from, to |-> best.to, head |-> 0]

-----------------------------------------------------------------------------
\* retrieve.py: the words of a question that single a passage out, each with how many
\* chunks in scope hold it (`found`); rarest first, then as typed.
MaxTermsProbed == 24
MinSelective == 3
RaritySpread == 3
MaxTermsKept == 4

SelectivityCap(total) == Max({MinSelective, (2 * total) \div 100})

\* The places of the words probed: the first of each, up to a number of them.
Probed(words) ==
  {i \in DOMAIN words : /\ \A j \in 1..i - 1 : words[j].word # words[i].word
                        /\ Cardinality({words[j].word : j \in 1..i}) <= MaxTermsProbed}

Present(words, total) == {i \in Probed(words) : words[i].found \in 1..SelectivityCap(total)}

\* Those not much commoner than the rarest.
Selective(words, total) ==
  LET present == Present(words, total)
      rarest == Min({words[i].found : i \in present})
  IN {i \in present : words[i].found <= Max({MinSelective, rarest * RaritySpread})}

\* Rarest first, then as typed.
Rarer(words, places) ==
  {p \in places \X places :
     \/ words[p[1]].found < words[p[2]].found
     \/ words[p[1]].found = words[p[2]].found /\ p[1] < p[2]}

SignificantTerms(words, total) ==
  LET kept == Selective(words, total)
      order == Sorted(kept, Rarer(words, kept))
  IN [k \in 1..Min({MaxTermsKept, Cardinality(kept)}) |-> words[order[k]]]

\* Postgres's ntile: the tile of each of n rows, the first tiles one longer.
Ntile(tiles, n, row) ==
  LET size == n \div tiles
      long == n % tiles
  IN IF row <= long * (size + 1) THEN (row - 1) \div (size + 1) + 1
     ELSE long + (row - long * (size + 1) - 1) \div size + 1

\* The places in a book of n chunks that its cross-section takes.
Coverage(n, perBook) ==
  {row \in 1..n : \A r \in 1..row - 1 : Ntile(perBook, n, r) # Ntile(perBook, n, row)}

-----------------------------------------------------------------------------
Subsequence(part, hits) ==
  \E places \in SUBSET DOMAIN hits : part = Pick(hits, places)

\* What is shown are hits of the search, in its order and never the same material twice;
\* a vote never starves the answer, the best hit is among them unless a third book was
\* outvoted, and a book with most of the evidence and enough of it is alone ("ranking
\* narrows, it never admits").
NarrowingKeeps(hits, limit) ==
  LET kept == Narrow(hits, limit)
      distinct == Dedupe(hits)
  IN /\ Subsequence(kept, hits)
     /\ \A i, j \in DOMAIN kept : i < j => ~Repeats(kept[i], kept[j])
     /\ Len(kept) >= Min({MinChunks, limit, Len(distinct)})
     /\ (hits # <<>> /\ Cardinality(BooksOf(hits)) <= 2) =>
          \/ kept[1] = hits[1]
          \/ \E b \in BooksOf(distinct) : b # hits[1].book /\ Dominant(distinct, b)
     /\ \A b \in BooksOf(distinct) :
          (/\ Len(distinct) > MinChunks /\ Dominant(distinct, b)
           /\ Cardinality({i \in DOMAIN distinct : distinct[i].book = b}) >= MinChunks)
          => BooksOf(kept) = {b}

\* Fusing admits and loses nothing, puts a chunk both rankings found before any that only
\* one did, and keeps an order both agree on.
FusionFair(first, second) ==
  LET fused == Fuse(first, second)
      both == Ids(first) \cap Ids(second)
  IN /\ Ids(fused) = Ids(first) \cup Ids(second) /\ Len(fused) = Cardinality(Ids(fused))
     /\ \A x, y \in Ids(fused) :
          /\ (x \in both /\ y \notin both) => At(fused, x) < At(fused, y)
          /\ (/\ x \in both /\ y \in both
              /\ At(first, x) < At(first, y) /\ At(second, x) < At(second, y))
             => At(fused, x) < At(fused, y)

\* A sentence that cannot be split is cut within the budget, the mark of the cut (a blank
\* and a dot) included; where a word of it ends before the budget does it is cut behind a
\* word, and at most one word that would have fitted is left out.
CutBehindAWord(sentence, max, head) ==
  LET limit == max * CharsPerToken
      blank(i) == i \in sentence.blanks
  IN /\ head \in 1..limit /\ Tokens(head + 2) <= max
     /\ (\E i \in 1..limit - 1 : ~blank(i) /\ blank(i + 1)) =>
          /\ head < limit /\ ~blank(head) /\ blank(head + 1)
          /\ \A i, j \in head + 1..limit : i < j /\ ~blank(i) => ~blank(j)

\* An excerpt is the passage, the head of its only sentence, or a run of whole sentences
\* within the budget (or one of several sentences, whatever its length); no run that fits
\* has more of the question in it, and of the best it starts first.
ExcerptBest(sentences, terms, max) ==
  LET e == Excerpt(sentences, terms, max)
      fits(from, to) == from = to \/ Cost(sentences, from, to) <= max
      matches(from, to) == Matches(sentences, terms, from, to)
  IN IF max = 0 \/ PassageTokens(sentences) <= max
     THEN e.from = 1 /\ e.to = Len(sentences) /\ e.head = 0
     ELSE IF Len(sentences) = 1 THEN e.to = 1 /\ CutBehindAWord(sentences[1], max, e.head)
     ELSE /\ e.head = 0
          /\ e.from \in DOMAIN sentences /\ e.to \in e.from..Len(sentences) /\ fits(e.from, e.to)
          /\ \A from \in DOMAIN sentences : \A to \in from..Len(sentences) :
               fits(from, to) =>
                 /\ matches(from, to) <= matches(e.from, e.to)
                 /\ matches(from, to) = matches(e.from, e.to) => from >= e.from

\* A word the material does not have, or has everywhere, changes nothing, wherever in the
\* question it stands (of a question of fewer than 24 words); the words kept single out a
\* passage, rarest first, and none rarer is left out.
FillerIgnored(words, total, filler) ==
  LET kept == SignificantTerms(words, total)
  IN /\ \A i \in 0..Len(words) :
          SignificantTerms(SubSeq(words, 1, i) \o <<filler>> \o SubSeq(words, i + 1, Len(words)),
                           total) = kept
     /\ \A k \in DOMAIN kept : \A w \in ToSet(words) :
          (\A j \in 1..k - 1 : w # kept[j]) => w.found = 0 \/ w.found >= kept[k].found

\* The cross-section of a book takes as many of its chunks as it may, from the first on,
\* and the stretches between them differ by no more than one.
CoverageEven(n, perBook) ==
  LET taken == Coverage(n, perBook)
      after(a) == Min({b \in taken \cup {n + 1} : b > a})
  IN /\ Cardinality(taken) = Min({n, perBook})
     /\ n > 0 => 1 \in taken
     /\ \A a, b \in taken : (after(a) - a) - (after(b) - b) \in {-1, 0, 1}

=============================================================================
