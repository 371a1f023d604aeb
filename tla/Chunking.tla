------------------------------ MODULE Chunking ------------------------------
(***************************************************************************)
(* How a parsed book becomes chapters and chunks (backend/app/rag/chunk.py). *)
(* Pure functions.  A book is a sequence of pages, a page a sequence of    *)
(* paragraphs, and a paragraph its length in characters; those too short   *)
(* to keep are gone.  An outline is the sequence of its top entries' pages. *)
(***************************************************************************)
EXTENDS Integers, FiniteSetsExt, SequencesExt

CharsPerToken == 4

\* estimate_tokens, which rag/trim.py has too.
Tokens(length) == Max({1, length \div CharsPerToken})

\* The pages of every chapter: up to the page before the next one, and at least its own;
\* one chapter for an outline that cannot be used.
ChaptersFromTops(tops, last) ==
  [i \in DOMAIN tops |->
     [from |-> tops[i],
      to |-> Max({tops[i], IF i < Len(tops) THEN tops[i + 1] - 1 ELSE last})]]

DetectChapters(tops, last) ==
  IF Len(tops) < 2 THEN <<[from |-> 1, to |-> last]>> ELSE ChaptersFromTops(tops, last)

\* The paragraphs of a chapter, page after page: a unit is the page, the place on it, and
\* its length as it is and as it is estimated.
Unit(pages, page, i) ==
  [page |-> page, at |-> i, chars |-> pages[page][i], tokens |-> Tokens(pages[page][i])]

UnitsOf(pages, chapter) ==
  LET upTo[n \in 0..chapter.to - chapter.from + 1] ==
        IF n = 0 THEN <<>>
        ELSE LET page == chapter.from + n - 1
             IN upTo[n - 1] \o [i \in DOMAIN pages[page] |-> Unit(pages, page, i)]
  IN upTo[chapter.to - chapter.from + 1]

TokensOf(units) ==
  LET upTo[n \in 0..Len(units)] == IF n = 0 THEN 0 ELSE upTo[n - 1] + units[n].tokens
  IN upTo[Len(units)]

\* The paragraphs at the end of a buffer that the next chunk starts with.
Overlap(buffer, overlap) ==
  LET fits == {k \in 0..Len(buffer) : TokensOf(SubSeq(buffer, k + 1, Len(buffer))) <= overlap}
  IN SubSeq(buffer, Min(fits) + 1, Len(buffer))

\* A chunk: its units, whole or (one of them) a piece.
Emit(buffer) == [units |-> buffer, piece |-> 0]

\* A long paragraph is cut by characters.
PieceCount(unit, max) ==
  LET limit == max * CharsPerToken IN (unit.chars + limit - 1) \div limit

Pieces(unit, max) == [p \in 1..PieceCount(unit, max) |-> [units |-> <<unit>>, piece |-> p]]

Flushed(state) == IF state.buffer = <<>> THEN state.out ELSE Append(state.out, Emit(state.buffer))

\* One paragraph more: [out, buffer] is what is emitted and what is being packed.
Pack(state, unit, max, overlap) ==
  IF unit.tokens > max
  THEN [out |-> Flushed(state) \o Pieces(unit, max), buffer |-> <<>>]
  ELSE IF state.buffer # <<>> /\ TokensOf(state.buffer) + unit.tokens > max
  THEN [out |-> Flushed(state), buffer |-> Append(Overlap(state.buffer, overlap), unit)]
  ELSE [out |-> state.out, buffer |-> Append(state.buffer, unit)]

Packed(units, max, overlap) ==
  LET after[n \in 0..Len(units)] ==
        IF n = 0 THEN [out |-> <<>>, buffer |-> <<>>]
        ELSE Pack(after[n - 1], units[n], max, overlap)
  IN after[Len(units)]

\* Mutant: what is still being packed when a chapter ends is dropped.
ChunkChapterUnflushed(units, max, overlap) == Packed(units, max, overlap).out

ChunkChapter(units, max, overlap) == Flushed(Packed(units, max, overlap))

\* The chunks of every chapter, one chapter after another.
ChunkPages(pages, chapters, max, overlap) ==
  [c \in DOMAIN chapters |-> ChunkChapter(UnitsOf(pages, chapters[c]), max, overlap)]

-----------------------------------------------------------------------------
\* Every paragraph of a chapter is in its chunks, one too long for a chunk in pieces, one
\* after another and nowhere else.
AllIn(pages, chapter, chunks, max) ==
  \A page \in chapter.from..chapter.to : \A i \in DOMAIN pages[page] :
    LET u == Unit(pages, page, i)
        n == PieceCount(u, max)
        having == {k \in DOMAIN chunks : u \in ToSet(chunks[k].units)}
    IN IF u.tokens > max
       THEN \E k \in 0..Len(chunks) - n :
              /\ having = k + 1 .. k + n
              /\ \A p \in 1..n : chunks[k + p] = [units |-> <<u>>, piece |-> p]
       ELSE having # {}

\* Every chunk is a run of the chapter's paragraphs ("a chunk never spans a chapter
\* boundary"), and ends on a later one than the chunk before, unless both are pieces of it.
InOrderOf(units, chunks) ==
  \A k \in DOMAIN chunks :
    /\ chunks[k].units # <<>>
    /\ \E i, j \in DOMAIN units : chunks[k].units = SubSeq(units, i, j)
    /\ k > 1 => \E i, j \in DOMAIN units :
                  /\ units[i] = Last(chunks[k - 1].units) /\ units[j] = Last(chunks[k].units)
                  /\ IF chunks[k].piece > 1 THEN i = j ELSE i < j

\* What a chunk carries over from the one before, never all it has, is no more than the
\* overlap, so that it is never over the limit by more.
LittleTwice(chunks, max, overlap) ==
  \A k \in DOMAIN chunks : chunks[k].piece = 0 =>
    /\ TokensOf(chunks[k].units) <= max + overlap
    /\ k > 1 => \E m \in 0..Len(chunks[k].units) - 1 :
                  /\ TokensOf(SubSeq(chunks[k].units, 1, m)) <= overlap
                  /\ \A i \in m + 1 .. Len(chunks[k].units) :
                       chunks[k].units[i] \notin ToSet(chunks[k - 1].units)

\* A book is in its chunks, chapter by chapter.
ChunksCover(pages, tops, max, overlap) ==
  LET chapters == DetectChapters(tops, Len(pages))
      chunks == ChunkPages(pages, chapters, max, overlap)
  IN \A c \in DOMAIN chapters :
       /\ AllIn(pages, chapters[c], chunks[c], max)
       /\ InOrderOf(UnitsOf(pages, chapters[c]), chunks[c])
       /\ LittleTwice(chunks[c], max, overlap)

\* A page of an outline in order is in a chapter if any comes before it, and in two only
\* if the next one begins on it as well.
PagesInChapters(tops, last) ==
  LET chapters == DetectChapters(tops, last)
      of(page) == {c \in DOMAIN chapters : page \in chapters[c].from..chapters[c].to}
  IN \A page \in 1..last :
       /\ page >= chapters[1].from => of(page) # {}
       /\ \A c, d \in of(page) : c # d => chapters[c].from = page

=============================================================================
