------------------------------ MODULE Sampling ------------------------------
(***************************************************************************)
(* What a run of generate_questions shows the model: the sample of the     *)
(* material, the batches of passages it is dealt into, the batches of the  *)
(* book's own questions (services/assessments.py).  Pure functions; a      *)
(* passage is a record of the book and chapter it is in, its place in the  *)
(* book, its length and how many questions it prints (`asks`), and whether *)
(* it qualifies as an exercise.  A chapter is the set of its places in the *)
(* pool.                                                                   *)
(***************************************************************************)
EXTENDS Places, FiniteSetsExt, SequencesExt

\* Python's round of a / b: halves go to the even neighbour.
Round(a, b) ==
  LET q == a \div b
      r == 2 * (a % b)
  IN IF r > b \/ (r = b /\ q % 2 = 1) THEN q + 1 ELSE q

-----------------------------------------------------------------------------
ChapterOf(pool, i) == {j \in DOMAIN pool : pool[j].group = pool[i].group}
Chapters(pool) == {ChapterOf(pool, i) : i \in DOMAIN pool}

TokensIn(pool, places) ==
  Total([i \in DOMAIN pool |-> IF i \in places THEN pool[i].tokens ELSE 0], 1, Len(pool))

\* How much of the sample a chapter gets: by its length, at least one passage.
Take(pool, chapter, wanted) ==
  Min({Max({1, Round(wanted * TokensIn(pool, chapter), TokensIn(pool, DOMAIN pool))}),
       Cardinality(chapter)})

\* Mutant: the first passages of a chapter.
SpreadFront(chapter, take) == FirstOf(chapter, take)

\* Evenly spaced positions of a chapter.
Spread(chapter, take) ==
  LET size == Cardinality(chapter)
  IN {Nth(chapter, Min({size, (k * size) \div take + 1})) : k \in 0..take - 1}

Picked(pool, wanted) ==
  UNION {Spread(chapter, Take(pool, chapter, wanted)) : chapter \in Chapters(pool)}

\* Chapter by chapter, as they come in the pool.
Before(pool, places) ==
  LET start(i) == Min(ChapterOf(pool, i))
  IN {p \in places \X places :
        start(p[1]) < start(p[2]) \/ (start(p[1]) = start(p[2]) /\ p[1] < p[2])}

SelectByCoverage(pool, wanted) ==
  LET picked == Picked(pool, wanted)
      order == Sorted(picked, Before(pool, picked))
  IN [k \in 1..Min({wanted, Cardinality(picked)}) |-> pool[order[k]]]

\* Passages near the topics of the brief go to the front of the sample.
WithTopics(found, sample) ==
  found \o Pick(sample, {i \in DOMAIN sample : sample[i] \notin ToSet(found)})

\* The sample dealt into batches by striding over it.
BatchCount(sample, size) == Max({1, (Len(sample) + size - 1) \div size})

Strided(sample, i, count) ==
  [k \in 1..((Len(sample) - i) \div count + 1) |-> sample[i + (k - 1) * count]]

Deal(sample, size) ==
  LET count == BatchCount(sample, size)
      batches == [i \in 1..count |-> Strided(sample, i, count)]
  IN Pick(batches, {i \in 1..count : batches[i] # <<>>})

-----------------------------------------------------------------------------
\* A harvest call: some questions of one exercise, and the passages before it.
HarvestContext(pool, source, span) ==
  Append(Pick(pool, {i \in DOMAIN pool : /\ pool[i].book = source.book
                                         /\ pool[i].index < source.index
                                         /\ pool[i].index >= source.index - span}),
         source)

HarvestBatch(pool, source, start, perCall, span) ==
  [source |-> source,
   from |-> start + 1,
   to |-> Min({start + perCall, source.asks}),
   passages |-> HarvestContext(pool, source, span)]

\* The calls: each an exercise, and how many of its questions were asked before.
Starts(pool, perCall) ==
  UNION {{<<i, start>> : start \in {n \in 0..pool[i].asks - 1 : n % perCall = 0}} :
           i \in {j \in DOMAIN pool : pool[j].qualifies}}

Earlier(calls) ==
  {p \in calls \X calls : p[1][1] < p[2][1] \/ (p[1][1] = p[2][1] /\ p[1][2] < p[2][2])}

PlanHarvest(pool, perCall, span) ==
  LET calls == Starts(pool, perCall)
      order == Sorted(calls, Earlier(calls))
  IN [k \in 1..Cardinality(calls) |->
        HarvestBatch(pool, pool[order[k][1]], order[k][2], perCall, span)]

-----------------------------------------------------------------------------
\* A sample repeats no passage, is no larger than asked for, leaves a chapter out only
\* when it is full, and takes the passages of a chapter evenly: two of them are at least
\* the whole spacing apart ("spread evenly by position rather than taken from the front").
CoverageSpreads(pool, wanted) ==
  LET sample == SelectByCoverage(pool, wanted)
      shown(chapter) ==
        {k \in 1..Cardinality(chapter) : pool[Nth(chapter, k)] \in ToSet(sample)}
  IN /\ IsInjective(sample) /\ ToSet(sample) \subseteq ToSet(pool)
     /\ Len(sample) <= wanted
     /\ \A chapter \in Chapters(pool) :
          /\ shown(chapter) = {} => Len(sample) = wanted
          /\ \A i, j \in shown(chapter) :
               i < j => j - i >= Cardinality(chapter) \div Take(pool, chapter, wanted)

\* However the sample was narrowed to topics, every passage of it is in exactly one batch,
\* no batch is over its size, and neighbours of the sample go to different batches.
BatchesPartition(pool, found, wanted, size) ==
  LET sample  == WithTopics(found, SelectByCoverage(pool, wanted))
      batches == Deal(sample, size)
  IN /\ \A c \in ToSet(sample) :
          Cardinality({i \in DOMAIN batches : c \in ToSet(batches[i])}) = 1
     /\ \A i \in DOMAIN batches :
          /\ Len(batches[i]) \in 1..size /\ IsInjective(batches[i])
          /\ Len(batches) > 1 =>
               \A k \in 1..Len(sample) - 1 :
                 ~({sample[k], sample[k + 1]} \subseteq ToSet(batches[i]))

\* The calls planned for the book's own questions ask every question of every exercise
\* once, show its passages in reading order with the exercise last, and never a passage
\* of another book or one that comes after it.
HarvestCovers(pool, perCall, span) ==
  LET plan == PlanHarvest(pool, perCall, span) IN
  /\ \A c \in ToSet(pool) : \A q \in 1..c.asks :
       Cardinality({k \in DOMAIN plan : plan[k].source = c /\ q \in plan[k].from..plan[k].to})
         = (IF c.qualifies THEN 1 ELSE 0)
  /\ \A k \in DOMAIN plan :
       LET shown == plan[k].passages IN
       /\ plan[k].to - plan[k].from < perCall
       /\ shown[Len(shown)] = plan[k].source /\ Len(shown) <= span + 1
       /\ \A i, j \in DOMAIN shown :
            /\ shown[i].book = shown[j].book
            /\ i < j => shown[i].index < shown[j].index

=============================================================================
