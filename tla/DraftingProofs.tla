--------------------------- MODULE DraftingProofs ---------------------------
(***************************************************************************)
(* Theorems about Drafting: what a run that fills a paper keeps.  They     *)
(* rest on one invariant, Whole, and on what the deduper does with a     *)
(* reply.                                                                  *)
(***************************************************************************)
EXTENDS Drafting, Extremes, SequenceTheorems, TLAPS

-----------------------------------------------------------------------------
\* The deduper.

\* One stem more: the step Novel folds over a reply.
Deduped(d, s) ==
  IF s \in d.kept THEN d ELSE [kept |-> d.kept \cup {s}, new |-> Append(d.new, s)]

Nothing == [kept |-> kept, new |-> <<>>]

\* F is the fold of the first n stems: what it makes of each set of their places.
IsFold(F, stems, n) ==
  F = [s \in SUBSET (1..n) |->
         IF s = {} THEN Nothing ELSE Deduped(F[s \ {Max(s)}], stems[Max(s)])]

LEMMA FoldExists ==
  ASSUME NEW stems, NEW n \in Nat
  PROVE  \E F : IsFold(F, stems, n)
<1> DEFINE S == {k \in 0..n : \E F : IsFold(F, stems, k)}
<1>1. 0 \in S
  <2> DEFINE F == [s \in SUBSET (1..0) |-> Nothing]
  <2>1. SUBSET (1..0) = {{}}
    OBVIOUS
  <2>2. IsFold(F, stems, 0)
    BY <2>1 DEF IsFold
  <2> QED
    BY <2>2
<1>2. ASSUME NEW k \in 0..n - 1, k \in S
      PROVE  k + 1 \in S
  <2>1. PICK G : IsFold(G, stems, k)
    BY <1>2
  <2> DEFINE m == k + 1
             F == [s \in SUBSET (1..m) |->
                     IF m \in s THEN Deduped(G[s \ {m}], stems[m]) ELSE G[s]]
  <2>2. ASSUME NEW s \in SUBSET (1..m), s # {}
        PROVE  F[s] = Deduped(F[s \ {Max(s)}], stems[Max(s)])
    <3>1. Max(s) \in s /\ \A y \in s : Max(s) >= y
      <4>1. IsFiniteSet(1..m)
        BY FS_Interval
      <4>2. IsFiniteSet(s)
        BY <4>1, FS_Subset
      <4>3. s \subseteq Int
        OBVIOUS
      <4> QED
        BY <4>2, <4>3, <2>2, MaxIs
    <3>2. CASE m \in s
      <4>1. Max(s) = m
        <5>1. Max(s) \in 1..m /\ Max(s) >= m
          BY <3>1, <3>2
        <5> QED
          BY <5>1
      <4>2. s \ {m} \in SUBSET (1..m) /\ m \notin s \ {m}
        OBVIOUS
      <4>3. F[s \ {m}] = G[s \ {m}]
        BY <4>2
      <4> QED
        BY <3>2, <4>1, <4>3
    <3>3. CASE m \notin s
      <4>1. s \in SUBSET (1..k) /\ s \ {Max(s)} \in SUBSET (1..m) /\ m \notin s \ {Max(s)}
        <5>1. ASSUME NEW x \in s PROVE x \in 1..k
          <6>1. x \in 1..m /\ x # m
            BY <3>3
          <6> QED
            BY <6>1
        <5>2. s \subseteq 1..k
          BY <5>1
        <5> QED
          BY <5>2, <3>3
      <4>2. F[s \ {Max(s)}] = G[s \ {Max(s)}] /\ F[s] = G[s]
        BY <3>3, <4>1
      <4>3. G[s] = Deduped(G[s \ {Max(s)}], stems[Max(s)])
        BY <2>1, <2>2, <4>1 DEF IsFold
      <4> QED
        BY <4>2, <4>3
    <3> QED
      BY <3>2, <3>3
  <2>3. F[{}] = Nothing
    <3>1. G[{}] = Nothing
      BY <2>1 DEF IsFold
    <3> QED
      BY <3>1
  <2>4. IsFold(F, stems, m)
    <3> DEFINE E == [s \in SUBSET (1..m) |->
                       IF s = {} THEN Nothing ELSE Deduped(F[s \ {Max(s)}], stems[Max(s)])]
    <3>1. \A s \in SUBSET (1..m) : F[s] = E[s]
      BY <2>2, <2>3
    <3>2. F = E
      <4> HIDE DEF F
      <4> QED
        BY <3>1 DEF F
    <3> QED
      BY <3>2 DEF IsFold
  <2> QED
    BY <2>4
<1>3. 0..n \subseteq S
  <2> HIDE DEF S
  <2> QED
    BY <1>1, <1>2, UpToBound
<1> QED
  BY <1>3

\* What is kept of the first n stems: each of them that was not kept before, once.
Cleaned(d, stems, n) ==
  LET offered == {stems[i] : i \in 1..n} IN
  /\ d.new \in Seq(offered) /\ Len(d.new) <= n
  /\ IsInjective(d.new)
  /\ ToSet(d.new) \cap kept = {}
  /\ d.kept = kept \cup ToSet(d.new)

LEMMA DedupedCleans ==
  ASSUME NEW stems, NEW k \in Nat, NEW d, Cleaned(d, stems, k)
  PROVE  Cleaned(Deduped(d, stems[k + 1]), stems, k + 1)
<1> DEFINE s == stems[k + 1]
           offered == {stems[i] : i \in 1..k}
           e == Deduped(d, s)
<1>1. offered \subseteq {stems[i] : i \in 1..k + 1} /\ s \in {stems[i] : i \in 1..k + 1}
  OBVIOUS
<1>2. d.new \in Seq(offered) /\ Len(d.new) \in Nat /\ Len(d.new) <= k
  BY DEF Cleaned
<1>3. CASE s \in d.kept
  <2>1. e = d
    BY <1>3 DEF Deduped
  <2>2. d.new \in Seq({stems[i] : i \in 1..k + 1})
    BY <1>1, <1>2
  <2>3. Len(d.new) <= k + 1
    BY <1>2
  <2> QED
    BY <2>1, <2>2, <2>3 DEF Cleaned
<1>4. CASE s \notin d.kept
  <2>1. e.kept = d.kept \cup {s} /\ e.new = Append(d.new, s)
    BY <1>4 DEF Deduped
  <2>2. e.new \in Seq({stems[i] : i \in 1..k + 1}) /\ Len(e.new) = Len(d.new) + 1
    BY <1>1, <1>2, <2>1
  <2>3. /\ DOMAIN d.new = 1..Len(d.new) /\ DOMAIN e.new = 1..Len(d.new) + 1
        /\ \A i \in DOMAIN d.new : e.new[i] = d.new[i]
        /\ e.new[Len(d.new) + 1] = s
    BY <1>2, <2>1
  <2>4. ToSet(e.new) = ToSet(d.new) \cup {s}
    <3> HIDE DEF e
    <3>1. DOMAIN e.new = DOMAIN d.new \cup {Len(d.new) + 1}
      BY <1>2, <2>3
    <3> QED
      BY <2>3, <3>1 DEF ToSet
  <2>5. s \notin kept /\ s \notin ToSet(d.new)
    BY <1>4 DEF Cleaned
  <2>6. IsInjective(e.new)
    <3>1. \A i \in DOMAIN d.new : e.new[i] # s
      BY <2>3, <2>5 DEF ToSet
    <3>2. \A i \in DOMAIN e.new : i \in DOMAIN d.new \/ i = Len(d.new) + 1
      BY <1>2, <2>3
    <3> QED
      BY <2>3, <3>1, <3>2 DEF IsInjective, Cleaned
  <2> QED
    BY <1>2, <2>1, <2>2, <2>4, <2>5, <2>6 DEF Cleaned
<1> QED
  BY <1>3, <1>4

\* The deduper keeps the stems of a reply it has not kept before, each once.
LEMMA NovelCleans ==
  ASSUME NEW X, NEW stems \in Seq(X)
  PROVE  Cleaned(Novel(stems, FALSE), stems, Len(stems))
<1> DEFINE n == Len(stems)
<1>1. n \in Nat /\ DOMAIN stems = 1..n
  OBVIOUS
<1>2. PICK F : IsFold(F, stems, n) /\ Novel(stems, FALSE) = F[1..n]
  <2> DEFINE G == CHOOSE F : IsFold(F, stems, n)
  <2>1. IsFold(G, stems, n)
    <3>1. \E F : IsFold(F, stems, n)
      BY <1>1, FoldExists
    <3> QED
      BY <3>1
  <2>2. Novel(stems, FALSE) = G[1..n]
    BY <1>1 DEF Novel, FoldLeft, MapThenFoldSet, IsFold, Nothing, Deduped
  <2> QED
    BY <2>1, <2>2
<1> DEFINE S == {k \in 0..n : Cleaned(F[1..k], stems, k)}
<1>3. 0 \in S
  <2>1. 1..0 = {} /\ F[{}] = Nothing
    BY <1>2 DEF IsFold
  <2>2. Cleaned(Nothing, stems, 0)
    BY <2>1 DEF Cleaned, Nothing, IsInjective, ToSet
  <2> QED
    BY <2>1, <2>2
<1>4. ASSUME NEW k \in 0..n - 1, k \in S
      PROVE  k + 1 \in S
  <2> DEFINE m == k + 1
  <2>1. 1..m \in SUBSET (1..n) /\ 1..m # {} /\ (1..m) \ {m} = 1..k /\ m \in 1..m
    <3>1. k \in Nat /\ k + 1 <= n
      BY <1>1
    <3>2. (1..m) \ {m} = 1..k
      BY <3>1
    <3>3. \A i \in 1..m : i \in 1..n
      BY <1>1, <3>1
    <3>4. m \in 1..m
      BY <3>1
    <3> QED
      BY <3>2, <3>3, <3>4
  <2>2. Max(1..m) = m
    <3>1. IsFiniteSet(1..m) /\ 1..m \subseteq Int
      BY <2>1, FS_Interval
    <3>2. Max(1..m) \in 1..m /\ Max(1..m) >= m
      BY <2>1, <3>1, MaxIs
    <3> QED
      BY <3>2
  <2>3. F[1..m] = Deduped(F[1..k], stems[m])
    BY <1>2, <2>1, <2>2 DEF IsFold
  <2>4. Cleaned(F[1..m], stems, m)
    BY <1>1, <1>4, <2>3, DedupedCleans
  <2> QED
    BY <1>1, <2>4
<1>5. 0..n \subseteq S
  <2> HIDE DEF S
  <2> QED
    BY <1>1, <1>3, <1>4, UpToBound
<1>6. n \in S
  BY <1>1, <1>5
<1> QED
  BY <1>2, <1>6

-----------------------------------------------------------------------------
\* What a run has, wherever it is.

Accepted == [stem : Stems \cup BookStems, book : BOOLEAN]

\* Its counts, and where its questions come from.
Counts ==
  /\ pc \in {"brief", "harvest", "first", "backfill", "ended"}
  /\ preference \in BookQuestions
  /\ left \in 0..MaxCalls /\ next \in Nat /\ cursor \in 0..Len(BookBatches)
  /\ accepted \in Seq(Accepted)
  /\ remaining \in Int /\ produced = Len(accepted)
  /\ {reached, retry, blind} \subseteq BOOLEAN
  /\ tally.calls = MaxCalls - left /\ tally.failed \in 0..tally.calls
  /\ tally.refused \in BOOLEAN
  /\ next <= tally.calls
  /\ pc \in {"brief", "harvest"} => next = 0

\* What the run knows of its answers: it looked at a reply only if one came, and a reply
\* none of whose questions was kept had some refused.
Answered ==
  /\ reached => tally.failed < tally.calls
  /\ accepted = <<>> => /\ tally.failed < tally.calls => tally.refused
                        /\ remaining = Target

\* While it could compare, the deduper remembers the stems of what was accepted, each
\* accepted once.
Once ==
  ~blind => /\ IsInjective([i \in DOMAIN accepted |-> accepted[i].stem])
            /\ kept = {accepted[i].stem : i \in DOMAIN accepted}

\* The book's questions come first, and within its share.
BookFirst ==
  \A j \in DOMAIN accepted :
    accepted[j].book => preference # "never" /\ (~blind => j <= HarvestTarget(preference))

\* A run that is asking to fill up is still willing to ask, or has shown every batch.
Willing ==
  pc \in {"backfill", "ended"} =>
    /\ accepted # <<>> => retry
    /\ accepted = <<>> /\ left > 0 /\ paper.end # "no material" =>
         next >= Batches /\ (retry \/ reached \/ next > Batches)

\* What the run hands over is what it ended with.
Handed ==
  /\ pc = "brief" => accepted = <<>>
  /\ pc # "ended" => paper = [end |-> "running", questions |-> <<>>]
  /\ pc = "ended" =>
       \/ accepted = <<>> /\ paper = [end |-> "no material", questions |-> <<>>]
       \/ accepted = <<>> /\ ~Short /\ paper = [end |-> WhyEmpty, questions |-> <<>>]
       \/ accepted # <<>> /\ ~Short /\ paper = [end |-> "written", questions |-> Questions]

Whole == Counts /\ Answered /\ Once /\ BookFirst /\ Willing /\ Handed

\* A run that an answer broke: while it took the book's questions.
Gone ==
  /\ pc = "ended" /\ paper = [end |-> "broken", questions |-> <<>>]
  /\ next = 0 /\ cursor > 0 /\ left < MaxCalls
  /\ accepted \in Seq(Accepted) /\ preference \in BookQuestions
  /\ Once /\ BookFirst

Filling == Whole \/ Gone

-----------------------------------------------------------------------------
\* The share of the book is no more than the paper.

LEMMA AvailableType == Available \in Nat
<1> DEFINE places(i) == {i} \X DOMAIN BookBatches[i]
           S == {places(i) : i \in DOMAIN BookBatches}
           f == [i \in DOMAIN BookBatches |-> places(i)]
<1>1. \A i \in DOMAIN BookBatches : BookBatches[i] \in Seq(BookStems)
  BY BookAssumption
<1>2. IsFiniteSet(DOMAIN BookBatches)
  BY BookAssumption, FS_Interval
<1>3. IsFiniteSet(S)
  <2>1. f \in Surjection(DOMAIN BookBatches, S)
    BY DEF Surjection
  <2> HIDE DEF S, f
  <2> QED
    BY <1>2, <2>1, FS_Surjection
<1>4. ASSUME NEW i \in DOMAIN BookBatches PROVE IsFiniteSet(places(i))
  <2>1. IsFiniteSet({i}) /\ IsFiniteSet(DOMAIN BookBatches[i])
    <3>1. DOMAIN BookBatches[i] = 1..Len(BookBatches[i]) /\ Len(BookBatches[i]) \in Nat
      BY <1>1
    <3>2. IsFiniteSet(DOMAIN BookBatches[i])
      BY <3>1, FS_Interval
    <3> QED
      BY <3>2, FS_Singleton
  <2> QED
    BY <2>1, FS_Product
<1>5. IsFiniteSet(UNION S)
  <2>1. \A T \in S : IsFiniteSet(T)
    BY <1>4
  <2> HIDE DEF S
  <2> QED
    BY <1>3, <2>1, FS_UNION
<1> QED
  BY <1>5, FS_CardinalityType DEF Available

LEMMA HarvestTargetBounds ==
  ASSUME NEW p \in BookQuestions
  PROVE  HarvestTarget(p) \in 0..Target /\ (p = "never" => HarvestTarget(p) = 0)
<1>1. Target \in Nat /\ Available \in Nat /\ Share \in 0..100
  BY BoundsAssumption, AvailableType
<1>2. (Target * Share) \div 100 \in 0..Target
  <2>1. Target * Share \in Nat /\ Target * Share <= Target * 100
    BY <1>1
  <2>2. ASSUME NEW m \in Nat, m <= Target * 100
        PROVE  m \div 100 \in 0..Target
    BY <1>1, <2>2
  <2> QED
    BY <2>1, <2>2
<1>3. Lesser(Target, Available) \in 0..Target
  BY <1>1 DEF Lesser
<1>4. Lesser((Target * Share) \div 100, Available) \in 0..Target
  BY <1>1, <1>2 DEF Lesser
<1> QED
  BY <1>1, <1>3, <1>4 DEF HarvestTarget, BookQuestions

\* The first n of a set of places are at most n.
LEMMA FirstOfThem ==
  ASSUME NEW U, IsFiniteSet(U), U \subseteq Int, NEW n \in Nat
  PROVE  LET first == {k \in U : Cardinality({j \in U : j <= k}) <= n}
         IN  IsFiniteSet(first) /\ Cardinality(first) <= n
<1> DEFINE upTo(k) == {j \in U : j <= k}
           first == {k \in U : Cardinality(upTo(k)) <= n}
<1> SUFFICES IsFiniteSet(first) /\ Cardinality(first) <= n
  OBVIOUS
<1>1. IsFiniteSet(first) /\ first \subseteq Int
  BY FS_Subset
<1>2. CASE first = {}
  <2>1. Cardinality(first) = 0
    BY <1>2, FS_EmptySet
  <2> HIDE DEF first
  <2> QED
    BY <1>1, <2>1
<1>3. CASE first # {}
  <2>1. Max(first) \in first /\ \A k \in first : Max(first) >= k
    <3> HIDE DEF first
    <3> QED
      BY <1>1, <1>3, MaxIs
  <2>2. first \subseteq upTo(Max(first))
    BY <1>1, <2>1
  <2>3. IsFiniteSet(upTo(Max(first))) /\ Cardinality(upTo(Max(first))) <= n
    BY <2>1, FS_Subset
  <2>4. /\ Cardinality(first) <= Cardinality(upTo(Max(first)))
        /\ Cardinality(first) \in Nat /\ Cardinality(upTo(Max(first))) \in Nat
    <3> HIDE DEF first, upTo
    <3> QED
      BY <1>1, <2>2, <2>3, FS_Subset, FS_CardinalityType
  <2> QED
    <3> HIDE DEF first, upTo
    <3> QED
      BY <1>1, <2>3, <2>4
<1> QED
  BY <1>2, <1>3

-----------------------------------------------------------------------------
\* A call answered.

\* The questions of a reply are appended, those the deduper found new when it could compare.
Appended(new, stems, book, refused) ==
  /\ accepted' = accepted \o [i \in DOMAIN new |-> [stem |-> new[i], book |-> book]]
  /\ produced' = produced + Len(new) /\ Len(new) <= Len(stems)
  /\ tally' = Tallied(FALSE, refused \/ Len(new) < Len(stems))
  /\ blind' \in BOOLEAN /\ (blind => blind')
  /\ ~blind' => /\ IsInjective(new)
                /\ ToSet(new) \subseteq ToSet(stems) \ kept
                /\ kept' = kept \cup ToSet(new)

LEMMA AcceptAppends ==
  ASSUME NEW X, NEW stems \in Seq(X), NEW book, NEW refused, blind \in BOOLEAN,
         Accept(stems, book, refused)
  PROVE  \E new \in Seq(X) : Appended(new, stems, book, refused)
<1>1. PICK down \in BOOLEAN :
        LET d == Novel(stems, down) IN
        /\ accepted' = accepted \o [i \in DOMAIN d.new |-> [stem |-> d.new[i], book |-> book]]
        /\ kept' = d.kept
        /\ produced' = produced + Len(d.new)
        /\ blind' = (blind \/ down)
        /\ tally' = Tallied(FALSE, refused \/ Len(d.new) < Len(stems))
  BY DEF Accept
<1> DEFINE d == Novel(stems, down)
<1>2. CASE down
  <2>1. d.new = stems
    BY <1>2 DEF Novel
  <2>2. /\ accepted' = accepted \o [i \in DOMAIN stems |-> [stem |-> stems[i], book |-> book]]
        /\ produced' = produced + Len(stems)
        /\ tally' = Tallied(FALSE, refused \/ Len(stems) < Len(stems))
        /\ blind' = TRUE
    BY <1>1, <1>2, <2>1
  <2>3. Appended(stems, stems, book, refused)
    BY <2>2 DEF Appended
  <2> QED
    BY <2>3
<1>3. CASE ~down
  <2>1. down = FALSE
    BY <1>3
  <2>2. Cleaned(d, stems, Len(stems))
    BY <2>1, NovelCleans
  <2>3. {stems[i] : i \in 1..Len(stems)} \subseteq X /\ ToSet(stems) = {stems[i] : i \in 1..Len(stems)}
    BY DEF ToSet
  <2>4. d.new \in Seq({stems[i] : i \in 1..Len(stems)})
    BY <2>2 DEF Cleaned
  <2>5. d.new \in Seq(X) /\ ToSet(d.new) \subseteq ToSet(stems)
    <3> HIDE DEF d
    <3>1. \A i \in DOMAIN d.new : d.new[i] \in {stems[j] : j \in 1..Len(stems)}
      BY <2>4
    <3> QED
      BY <2>3, <2>4, <3>1 DEF ToSet
  <2>6. blind' \in BOOLEAN /\ (blind => blind')
    BY <1>1
  <2>7. Appended(d.new, stems, book, refused)
    <3> HIDE DEF d
    <3>1. /\ Len(d.new) <= Len(stems) /\ IsInjective(d.new)
          /\ ToSet(d.new) \cap kept = {} /\ d.kept = kept \cup ToSet(d.new)
      BY <2>2 DEF Cleaned
    <3> QED
      BY <1>1, <2>5, <2>6, <3>1 DEF Appended, d
  <2> QED
    BY <2>5, <2>7
<1> QED
  BY <1>2, <1>3

\* What the paper has then.
LEMMA AppendedIs ==
  ASSUME NEW stems \in Seq(Stems \cup BookStems), NEW new \in Seq(Stems \cup BookStems),
         NEW book \in BOOLEAN, NEW refused \in BOOLEAN,
         accepted \in Seq(Accepted), produced = Len(accepted),
         Appended(new, stems, book, refused)
  PROVE  /\ accepted' \in Seq(Accepted) /\ Len(accepted') = Len(accepted) + Len(new)
         /\ produced' = Len(accepted')
         /\ \A i \in 1..Len(accepted) : accepted'[i] = accepted[i]
         /\ \A i \in 1..Len(new) : accepted'[Len(accepted) + i] = [stem |-> new[i], book |-> book]
<1> DEFINE more == [i \in DOMAIN new |-> [stem |-> new[i], book |-> book]]
<1>1. more \in Seq(Accepted) /\ Len(more) = Len(new)
  <2>1. DOMAIN new = 1..Len(new) /\ Len(new) \in Nat
    OBVIOUS
  <2>2. \A i \in DOMAIN new : [stem |-> new[i], book |-> book] \in Accepted
    BY DEF Accepted
  <2> QED
    BY <2>1, <2>2
<1>2. \A i \in 1..Len(new) : more[i] = [stem |-> new[i], book |-> book]
  OBVIOUS
<1>3. accepted' = accepted \o more /\ produced' = produced + Len(new)
  BY DEF Appended
<1> HIDE DEF more
<1>4. accepted' \in Seq(Accepted) /\ Len(accepted') = Len(accepted) + Len(new)
  <2>1. accepted \o more \in Seq(Accepted) /\ Len(accepted \o more) = Len(accepted) + Len(more)
    BY <1>1, ConcatProperties
  <2> QED
    BY <1>1, <1>3, <2>1
<1>5. \A i \in 1..Len(accepted) : accepted'[i] = accepted[i]
  BY <1>1, <1>3
<1>6. \A i \in 1..Len(new) : accepted'[Len(accepted) + i] = more[i]
  BY <1>1, <1>3
<1> QED
  BY <1>2, <1>3, <1>4, <1>5, <1>6

LEMMA AppendedOnce ==
  ASSUME NEW stems \in Seq(Stems \cup BookStems), NEW new \in Seq(Stems \cup BookStems),
         NEW book \in BOOLEAN, NEW refused \in BOOLEAN,
         accepted \in Seq(Accepted), produced = Len(accepted), blind \in BOOLEAN, Once,
         Appended(new, stems, book, refused)
  PROVE  Once'
<1> DEFINE n == Len(accepted)
           m == Len(new)
<1>1. /\ accepted' \in Seq(Accepted) /\ Len(accepted') = n + m
      /\ \A i \in 1..n : accepted'[i] = accepted[i]
      /\ \A i \in 1..m : accepted'[n + i] = [stem |-> new[i], book |-> book]
  BY AppendedIs
<1>2. n \in Nat /\ m \in Nat /\ DOMAIN accepted = 1..n /\ DOMAIN new = 1..m
      /\ DOMAIN accepted' = 1..n + m
  BY <1>1
<1> SUFFICES ASSUME ~blind'
             PROVE  /\ IsInjective([i \in DOMAIN accepted' |-> accepted'[i].stem])
                    /\ kept' = {accepted'[i].stem : i \in DOMAIN accepted'}
  BY DEF Once
<1>3. /\ ~blind /\ IsInjective(new) /\ ToSet(new) \cap kept = {}
      /\ kept' = kept \cup ToSet(new)
  BY DEF Appended
<1>4. /\ \A i, j \in 1..n : accepted[i].stem = accepted[j].stem => i = j
      /\ kept = {accepted[i].stem : i \in 1..n}
  BY <1>2, <1>3 DEF Once, IsInjective
<1>5. ASSUME NEW i \in 1..n + m
      PROVE  \/ i \in 1..n /\ accepted'[i].stem = accepted[i].stem
             \/ i - n \in 1..m /\ accepted'[i].stem = new[i - n]
  <2>1. CASE i \in 1..n
    BY <1>1, <2>1
  <2>2. CASE i \notin 1..n
    <3>1. i - n \in 1..m /\ i = n + (i - n)
      BY <1>2, <2>2
    <3>2. accepted'[n + (i - n)] = [stem |-> new[i - n], book |-> book]
      BY <1>1, <3>1
    <3> QED
      BY <3>1, <3>2
  <2> QED
    BY <2>1, <2>2
<1>6. \A i \in 1..m : n + i \in 1..n + m /\ accepted'[n + i].stem = new[i]
  <2>1. ASSUME NEW i \in 1..m PROVE accepted'[n + i].stem = new[i]
    <3>1. accepted'[n + i] = [stem |-> new[i], book |-> book]
      BY <1>1
    <3> QED
      BY <3>1
  <2>2. \A i \in 1..m : n + i \in 1..n + m
    BY <1>2
  <2> QED
    BY <2>1, <2>2
<1>7. ASSUME NEW i \in 1..n + m, NEW j \in 1..n + m, accepted'[i].stem = accepted'[j].stem
      PROVE  i = j
  <2>1. CASE i \in 1..n /\ j \in 1..n
    BY <1>1, <1>4, <1>7, <2>1
  <2>2. ASSUME NEW a \in 1..n, NEW b \in 1..m, accepted[a].stem = new[b] PROVE FALSE
    <3>1. new[b] \in ToSet(new)
      BY <1>2 DEF ToSet
    <3> QED
      BY <1>3, <1>4, <2>2, <3>1
  <2>3. CASE ~(i \in 1..n) /\ ~(j \in 1..n)
    <3>1. i - n \in 1..m /\ j - n \in 1..m /\ new[i - n] = new[j - n]
      BY <1>5, <1>7, <2>3
    <3>2. i - n = j - n
      BY <1>2, <1>3, <3>1 DEF IsInjective
    <3> QED
      BY <1>2, <3>2
  <2>4. CASE i \in 1..n /\ ~(j \in 1..n)
    <3>1. accepted'[i].stem = accepted[i].stem /\ j - n \in 1..m /\ accepted'[j].stem = new[j - n]
      BY <1>1, <1>5, <2>4
    <3> QED
      BY <1>7, <2>2, <2>4, <3>1
  <2>5. CASE ~(i \in 1..n) /\ j \in 1..n
    <3>1. accepted'[j].stem = accepted[j].stem /\ i - n \in 1..m /\ accepted'[i].stem = new[i - n]
      BY <1>1, <1>5, <2>5
    <3> QED
      BY <1>7, <2>2, <2>5, <3>1
  <2> QED
    BY <2>1, <2>3, <2>4, <2>5
<1>8. kept' = {accepted'[i].stem : i \in 1..n + m}
  <2>1. ASSUME NEW s \in kept' PROVE s \in {accepted'[i].stem : i \in 1..n + m}
    <3>1. CASE s \in kept
      <4>1. PICK i \in 1..n : s = accepted[i].stem
        BY <1>4, <3>1
      <4>2. i \in 1..n + m /\ accepted'[i].stem = s
        BY <1>1, <1>2, <4>1
      <4> QED
        BY <4>2
    <3>2. CASE s \in ToSet(new)
      <4>1. PICK i \in 1..m : s = new[i]
        BY <1>2, <3>2 DEF ToSet
      <4> QED
        BY <1>6, <4>1
    <3> QED
      BY <1>3, <2>1, <3>1, <3>2
  <2>2. ASSUME NEW i \in 1..n + m PROVE accepted'[i].stem \in kept'
    <3>1. CASE i \in 1..n /\ accepted'[i].stem = accepted[i].stem
      BY <1>3, <1>4, <3>1
    <3>2. CASE i - n \in 1..m /\ accepted'[i].stem = new[i - n]
      <4>1. new[i - n] \in ToSet(new)
        BY <1>2, <3>2 DEF ToSet
      <4> QED
        BY <1>3, <3>2, <4>1
    <3> QED
      BY <1>5, <3>1, <3>2
  <2> QED
    BY <2>1, <2>2
<1> QED
  BY <1>2, <1>7, <1>8 DEF IsInjective

\* What any call leaves: its questions, if it brings some, after those that were there; the
\* tallies of one call more; and no call answered that brings nothing without a refusal.
Called(book) ==
  /\ accepted' \in Seq(Accepted) /\ produced' = Len(accepted')
  /\ Len(accepted) <= Len(accepted')
  /\ \A i \in 1..Len(accepted) : accepted'[i] = accepted[i]
  /\ \A i \in 1..Len(accepted') : i > Len(accepted) => accepted'[i].book = book
  /\ blind' \in BOOLEAN /\ (blind => blind')
  /\ Once'
  /\ tally'.calls = tally.calls + 1 /\ tally'.failed \in 0..tally'.calls
  /\ tally'.refused \in BOOLEAN
  /\ tally.failed < tally.calls => tally'.failed < tally'.calls
  /\ accepted' = <<>> => /\ accepted = <<>>
                         /\ tally'.failed < tally'.calls => tally'.refused

LEMMA FailedCalls ==
  ASSUME Counts, Answered, Once, NEW book, Failed
  PROVE  Called(book) /\ accepted' = accepted
<1>1. /\ tally' = [calls |-> tally.calls + 1, failed |-> tally.failed + 1, refused |-> tally.refused]
      /\ UNCHANGED <<accepted, kept, produced, blind>>
  BY DEF Failed, Tallied, Counts
<1>2. /\ tally'.calls = tally.calls + 1 /\ tally'.failed = tally.failed + 1
      /\ tally'.refused = tally.refused
  BY <1>1
<1>3. tally.calls \in Nat /\ tally.failed \in 0..tally.calls /\ tally.refused \in BOOLEAN
  BY BoundsAssumption DEF Counts
<1>4. Once'
  BY <1>1 DEF Once
<1>5. accepted' = <<>> => (tally'.failed < tally'.calls => tally'.refused)
  BY <1>1, <1>2, <1>3 DEF Answered
<1> HIDE DEF Answered
<1> QED
  BY <1>1, <1>2, <1>3, <1>4, <1>5 DEF Called, Counts

LEMMA ToSetFinite ==
  ASSUME NEW X, NEW s \in Seq(X)
  PROVE  IsFiniteSet(ToSet(s))
<1>1. s \in Surjection(1..Len(s), ToSet(s))
  BY DEF Surjection, ToSet
<1>2. IsFiniteSet(1..Len(s))
  BY FS_Interval
<1> QED
  BY <1>1, <1>2, FS_Surjection

LEMMA AnsweredCalls ==
  ASSUME NEW stems \in Seq(Stems \cup BookStems), NEW book \in BOOLEAN, NEW refused \in BOOLEAN,
         Counts, Once, Accept(stems, book, refused), stems # <<>> \/ refused
  PROVE  /\ Called(book) /\ tally'.failed < tally'.calls
         /\ ~blind' => Len(accepted') <= Len(accepted) + Cardinality(ToSet(stems))
<1>1. PICK new \in Seq(Stems \cup BookStems) : Appended(new, stems, book, refused)
  BY AcceptAppends DEF Counts
<1>2. accepted \in Seq(Accepted) /\ produced = Len(accepted)
  BY DEF Counts
<1>3. /\ accepted' \in Seq(Accepted) /\ Len(accepted') = Len(accepted) + Len(new)
      /\ produced' = Len(accepted')
      /\ \A i \in 1..Len(accepted) : accepted'[i] = accepted[i]
      /\ \A i \in 1..Len(new) : accepted'[Len(accepted) + i] = [stem |-> new[i], book |-> book]
  BY <1>1, <1>2, AppendedIs
<1>4. Once'
  BY <1>1, <1>2, AppendedOnce DEF Counts
<1>5. Len(accepted) \in Nat /\ Len(accepted') \in Nat /\ Len(new) \in Nat /\ Len(stems) \in Nat
  BY <1>2, <1>3
<1>6. ASSUME NEW i \in 1..Len(accepted'), i > Len(accepted)
      PROVE  accepted'[i].book = book
  <2>1. i - Len(accepted) \in 1..Len(new) /\ Len(accepted) + (i - Len(accepted)) = i
    BY <1>3, <1>5, <1>6
  <2>2. accepted'[i] = [stem |-> new[i - Len(accepted)], book |-> book]
    BY <1>3, <2>1
  <2> QED
    BY <2>2
<1>7. /\ tally'.calls = tally.calls + 1 /\ tally'.failed = tally.failed
      /\ tally'.refused = (tally.refused \/ refused \/ Len(new) < Len(stems))
  <2>1. tally' = Tallied(FALSE, refused \/ Len(new) < Len(stems))
    BY <1>1 DEF Appended
  <2>2. tally.failed \in Int
    BY BoundsAssumption DEF Counts
  <2> QED
    BY <2>1, <2>2 DEF Tallied
<1>8. tally.calls \in Nat /\ tally.failed \in 0..tally.calls /\ tally.refused \in BOOLEAN
  BY BoundsAssumption DEF Counts
<1>9. ASSUME accepted' = <<>>
      PROVE  accepted = <<>> /\ tally'.refused
  <2>1. Len(accepted) = 0 /\ Len(new) = 0
    BY <1>3, <1>5, <1>9
  <2>2. accepted = <<>>
    BY <1>2, <2>1
  <2>3. refused \/ Len(new) < Len(stems)
    <3>1. stems # <<>> => Len(stems) # 0
      OBVIOUS
    <3> QED
      BY <1>5, <2>1, <3>1
  <2> QED
    BY <1>7, <2>2, <2>3
<1>10. ASSUME ~blind'
       PROVE  Len(new) <= Cardinality(ToSet(stems))
  <2>1. IsInjective(new) /\ ToSet(new) \subseteq ToSet(stems)
    BY <1>1, <1>10 DEF Appended
  <2>2. DOMAIN new = 1..Len(new) /\ DOMAIN stems = 1..Len(stems)
    OBVIOUS
  <2>3. IsFiniteSet(ToSet(stems))
    BY ToSetFinite
  <2>4. new \in Injection(1..Len(new), ToSet(stems))
    <3>1. \A i \in 1..Len(new) : new[i] \in ToSet(stems)
      BY <2>1, <2>2 DEF ToSet
    <3> QED
      BY <2>1, <2>2, <3>1 DEF Injection, IsInjective
  <2>5. Cardinality(1..Len(new)) <= Cardinality(ToSet(stems))
    BY <2>3, <2>4, FS_Injection
  <2>6. Cardinality(1..Len(new)) = Len(new)
    <3>1. \A b \in Nat : Cardinality(1..b) = IF 1 > b THEN 0 ELSE b - 1 + 1
      BY FS_Interval
    <3> QED
      BY <1>5, <3>1
  <2> QED
    BY <2>5, <2>6
<1>11. blind' \in BOOLEAN /\ (blind => blind')
  BY <1>1 DEF Appended
<1>12. Called(book)
  BY <1>3, <1>4, <1>5, <1>6, <1>7, <1>8, <1>9, <1>11 DEF Called
<1>13. ASSUME ~blind'
       PROVE  Len(accepted') <= Len(accepted) + Cardinality(ToSet(stems))
  <2>1. Cardinality(ToSet(stems)) \in Nat
    BY ToSetFinite, FS_CardinalityType
  <2> QED
    BY <1>3, <1>5, <1>10, <1>13, <2>1
<1> QED
  BY <1>7, <1>8, <1>12, <1>13

-----------------------------------------------------------------------------
\* The invariant, action by action.

LEMMA InitWhole == Init => Whole
<1> SUFFICES ASSUME Init PROVE Whole
  OBVIOUS
<1> USE DEF Init
<1>1. Counts
  <2>1. MaxCalls \in Nat /\ Target \in Nat /\ Len(BookBatches) \in Nat
    BY BoundsAssumption, BookAssumption
  <2>2. accepted \in Seq(Accepted) /\ Len(accepted) = 0
    OBVIOUS
  <2>3. tally.calls = 0 /\ tally.failed = 0 /\ tally.refused = FALSE
    OBVIOUS
  <2>4. left \in 0..MaxCalls /\ next \in Nat /\ cursor \in 0..Len(BookBatches)
        /\ next <= tally.calls /\ tally.calls = MaxCalls - left
    BY <2>1, <2>3
  <2> HIDE DEF Init
  <2>5. {reached, retry, blind} \subseteq BOOLEAN /\ preference \in BookQuestions
    BY DEF Init, BookQuestions
  <2> QED
    BY <2>1, <2>2, <2>3, <2>4, <2>5 DEF Counts, Init
<1>2. Answered
  BY DEF Answered
<1>3. Once
  BY DEF Once, IsInjective
<1>4. BookFirst /\ Willing /\ Handed
  BY DEF BookFirst, Willing, Handed
<1> QED
  BY <1>1, <1>2, <1>3, <1>4 DEF Whole

\* What only turns the page: the questions, the counts and the deduper as they were.
LEMMA TurnWhole ==
  ASSUME Whole,
         UNCHANGED <<left, next, cursor, accepted, kept, remaining, produced, reached, tally, blind>>,
         pc' \in {"brief", "harvest", "first", "backfill", "ended"},
         preference' \in BookQuestions, retry' \in BOOLEAN,
         accepted = <<>> \/ preference' = preference,
         pc' \in {"brief", "harvest"} => next = 0
  PROVE  Counts' /\ Answered' /\ Once' /\ BookFirst'
<1>1. Counts'
  BY DEF Whole, Counts
<1>2. Answered'
  BY DEF Whole, Answered
<1>3. Once'
  BY DEF Whole, Once
<1>4. BookFirst'
  <2>1. CASE accepted = <<>>
    BY <2>1 DEF BookFirst
  <2>2. CASE preference' = preference
    <3>1. HarvestTarget(preference)' = HarvestTarget(preference)
      BY <2>2 DEF HarvestTarget
    <3> QED
      BY <2>2, <3>1 DEF BookFirst, Whole
  <2> QED
    BY <2>1, <2>2
<1> QED
  BY <1>1, <1>2, <1>3, <1>4

LEMMA ReadBriefWhole == Whole /\ ReadBrief => Whole'
<1> SUFFICES ASSUME Whole, ReadBrief PROVE Whole'
  OBVIOUS
<1>1. accepted = <<>> /\ paper = [end |-> "running", questions |-> <<>>]
  BY DEF Whole, Handed, ReadBrief
<1>2. Counts' /\ Answered' /\ Once' /\ BookFirst'
  <2>1. preference' \in BookQuestions
    BY BoundsAssumption DEF ReadBrief
  <2> QED
    BY <1>1, <2>1, TurnWhole DEF ReadBrief, Whole, Counts
<1>3. Willing'
  <2>1. ASSUME pc' = "ended" PROVE paper'.end = "no material"
    <3>1. paper' = [end |-> "no material", questions |-> <<>>]
      BY <2>1 DEF ReadBrief
    <3> QED
      BY <3>1
  <2> QED
    BY <1>1, <2>1 DEF ReadBrief, Willing
<1>4. Handed'
  BY <1>1 DEF ReadBrief, Handed
<1> QED
  BY <1>2, <1>3, <1>4 DEF Whole

LEMMA HarvestDoneWhole == Whole /\ HarvestDone => Whole'
<1> SUFFICES ASSUME Whole, HarvestDone PROVE Whole'
  OBVIOUS
<1>1. Counts' /\ Answered' /\ Once' /\ BookFirst'
  BY TurnWhole DEF HarvestDone, Whole, Counts
<1>2. Willing' /\ Handed'
  BY DEF Whole, HarvestDone, Willing, Handed
<1> QED
  BY <1>1, <1>2 DEF Whole

LEMMA FirstDoneWhole == Whole /\ FirstDone => Whole'
<1> SUFFICES ASSUME Whole, FirstDone PROVE Whole'
  OBVIOUS
<1>1. Counts' /\ Answered' /\ Once' /\ BookFirst'
  BY TurnWhole DEF FirstDone, Whole, Counts
<1>2. /\ produced = Len(accepted) /\ Len(accepted) \in Nat /\ reached \in BOOLEAN
      /\ accepted # <<>> => Len(accepted) > 0
      /\ {left, next, Batches} \subseteq Nat /\ Target > 0
  BY BoundsAssumption DEF Whole, Counts
<1>3. Willing'
  <2>1. accepted' # <<>> => retry'
    BY <1>2 DEF FirstDone
  <2>2. ASSUME accepted = <<>>, left > 0
        PROVE  next >= Batches /\ (retry' \/ reached)
    <3>1. remaining = Target /\ produced = 0
      BY <1>2, <2>2 DEF Whole, Answered
    <3>2. ~(next < Batches)
      BY <1>2, <2>2, <3>1 DEF FirstDone, Asks
    <3>3. retry' = ~reached
      BY <3>1 DEF FirstDone
    <3>4. next >= Batches
      BY <1>2, <3>2
    <3>5. reached \/ retry'
      BY <1>2, <3>3, Zenon
    <3> QED
      BY <3>4, <3>5
  <2> QED
    BY <2>1, <2>2 DEF FirstDone, Willing
<1>4. Handed'
  BY DEF Whole, FirstDone, Handed
<1> QED
  BY <1>1, <1>3, <1>4 DEF Whole

LEMMA FinishWhole == Whole /\ Finish => Whole'
<1> SUFFICES ASSUME Whole, Finish PROVE Whole'
  OBVIOUS
<1>1. Counts' /\ Answered' /\ Once' /\ BookFirst'
  BY TurnWhole DEF Finish, Whole, Counts
<1>2. Willing'
  <2>1. paper.end # "no material"
    <3>1. paper = [end |-> "running", questions |-> <<>>]
      BY DEF Whole, Finish, Handed
    <3> QED
      BY <3>1
  <2> QED
    BY <2>1 DEF Whole, Finish, Willing
<1>3. Handed'
  <2>1. /\ Short' = Short /\ WhyEmpty' = WhyEmpty /\ Questions' = Questions
    BY DEF Finish, Short, WhyEmpty, Questions, Harvested
  <2> QED
    BY <2>1 DEF Finish, Handed
<1> QED
  BY <1>1, <1>2, <1>3 DEF Whole

\* A call to the book.
LEMMA HarvestAskCalls ==
  ASSUME Whole, Harvests, NEW i \in DOMAIN BookBatches, HarvestAsk(i), ~Broken,
         preference' = preference
  PROVE  Called(TRUE) /\ BookFirst'
<1>1. /\ Counts /\ Answered /\ Once /\ BookFirst
      /\ accepted \in Seq(Accepted) /\ Len(accepted) \in Nat /\ preference \in BookQuestions
  BY DEF Whole, Counts
<1>2. HarvestTarget(preference) \in Nat /\ Len(accepted) < HarvestTarget(preference)
      /\ preference # "never" /\ HarvestTarget(preference)' = HarvestTarget(preference)
  <2>1. HarvestTarget(preference) \in 0..Target /\ (preference = "never" => HarvestTarget(preference) = 0)
    BY <1>1, HarvestTargetBounds
  <2>2. Target \in Nat
    BY BoundsAssumption
  <2>3. HarvestTarget(preference)' = HarvestTarget(preference)
    BY DEF HarvestTarget
  <2> QED
    BY <1>1, <2>1, <2>2, <2>3 DEF Harvests
<1>3. CASE Failed
  <2>1. Called(TRUE) /\ accepted' = accepted
    BY <1>1, <1>3, FailedCalls
  <2>2. BookFirst'
    BY <1>1, <1>2, <1>3, <2>1 DEF BookFirst, Failed
  <2> QED
    BY <2>1, <2>2
<1>4. ASSUME NEW ns \in BoundedSeq(Asked(i), MaxItems), NEW refused \in BOOLEAN,
             ns # <<>> \/ refused,
             Accept([k \in DOMAIN ns |-> BookBatches[i][ns[k]]], TRUE, refused)
      PROVE  Called(TRUE) /\ BookFirst'
  <2> DEFINE stems == [k \in DOMAIN ns |-> BookBatches[i][ns[k]]]
             asked == {BookBatches[i][k] : k \in Asked(i)}
  <2>1. /\ BookBatches[i] \in Seq(BookStems) /\ Asked(i) \subseteq DOMAIN BookBatches[i]
        /\ UsableOf(i) \subseteq Int
    BY BookAssumption DEF Asked, UsableOf
  <2>2. ns \in Seq(Asked(i))
    BY <1>4 DEF BoundedSeq, SeqOf
  <2>3. asked \subseteq Stems \cup BookStems
    BY <2>1
  <2>4. stems \in Seq(asked) /\ stems \in Seq(Stems \cup BookStems) /\ Len(stems) = Len(ns)
    <3>1. DOMAIN ns = 1..Len(ns) /\ Len(ns) \in Nat /\ \A k \in DOMAIN ns : ns[k] \in Asked(i)
      BY <2>2
    <3>2. \A k \in DOMAIN ns : BookBatches[i][ns[k]] \in asked
      BY <3>1
    <3> HIDE DEF asked
    <3> QED
      BY <2>3, <3>1, <3>2
  <2>5. stems # <<>> \/ refused
    <3>1. ns # <<>> => Len(ns) # 0
      BY <2>2
    <3> HIDE DEF stems
    <3> QED
      BY <1>4, <2>4, <3>1
  <2>6. /\ Called(TRUE)
        /\ ~blind' => Len(accepted') <= Len(accepted) + Cardinality(ToSet(stems))
    <3> HIDE DEF stems
    <3>1. Accept(stems, TRUE, refused)
      BY <1>4 DEF stems
    <3> QED
      BY <1>1, <2>4, <2>5, <3>1, AnsweredCalls
  <2>7. /\ IsFiniteSet(Asked(i))
        /\ Cardinality(Asked(i)) <= HarvestTarget(preference) - Len(accepted)
    <3>1. IsFiniteSet(UsableOf(i))
      <4>1. DOMAIN BookBatches[i] = 1..Len(BookBatches[i]) /\ Len(BookBatches[i]) \in Nat
        BY <2>1
      <4>2. IsFiniteSet(DOMAIN BookBatches[i])
        BY <4>1, FS_Interval
      <4> QED
        BY <4>2, FS_Subset DEF UsableOf
    <3>2. HarvestTarget(preference) - Len(accepted) \in Nat
      BY <1>1, <1>2
    <3> QED
      BY <2>1, <3>1, <3>2, FirstOfThem DEF Asked
  <2>8. Cardinality(ToSet(stems)) <= Cardinality(Asked(i))
    <3> DEFINE f == [k \in Asked(i) |-> BookBatches[i][k]]
    <3>1. f \in Surjection(Asked(i), asked)
      BY DEF Surjection
    <3>2. ToSet(stems) \subseteq asked
      <4> HIDE DEF asked, stems
      <4>1. stems \in Seq(asked)
        BY <2>4
      <4> QED
        BY <4>1 DEF ToSet
    <3> HIDE DEF f, asked, stems
    <3>3. IsFiniteSet(asked) /\ Cardinality(asked) <= Cardinality(Asked(i))
      BY <2>7, <3>1, FS_Surjection
    <3>4. Cardinality(ToSet(stems)) <= Cardinality(asked)
      BY <3>2, <3>3, FS_Subset
    <3>5. /\ Cardinality(ToSet(stems)) \in Nat /\ Cardinality(asked) \in Nat
          /\ Cardinality(Asked(i)) \in Nat
      BY <2>4, <2>7, <3>3, ToSetFinite, FS_CardinalityType
    <3> QED
      BY <3>3, <3>4, <3>5
  <2>9. ~blind' => Len(accepted') <= HarvestTarget(preference)
    <3> HIDE DEF stems
    <3>1. Cardinality(ToSet(stems)) \in Nat /\ Cardinality(Asked(i)) \in Nat
      BY <2>4, <2>7, ToSetFinite, FS_CardinalityType
    <3>2. Len(accepted') \in Nat
      BY <2>6 DEF Called
    <3> QED
      BY <1>1, <1>2, <2>6, <2>7, <2>8, <3>1, <3>2
  <2>10. BookFirst'
    <3> SUFFICES ASSUME NEW j \in DOMAIN accepted'
                 PROVE  preference' # "never" /\ (~blind' => j <= HarvestTarget(preference)')
      BY DEF BookFirst
    <3>1. j \in 1..Len(accepted') /\ Len(accepted') \in Nat
      BY <2>6 DEF Called
    <3> QED
      BY <1>2, <2>9, <3>1
  <2> QED
    BY <2>6, <2>10
<1> QED
  BY <1>3, <1>4 DEF HarvestAsk

LEMMA TakeFromBookWhole == Whole /\ TakeFromBook => Whole' \/ Gone'
<1> SUFFICES ASSUME Whole, TakeFromBook PROVE Whole' \/ Gone'
  OBVIOUS
<1>1. /\ pc = "harvest" /\ Harvests
      /\ UNCHANGED <<preference, next, remaining, reached, retry>>
  BY DEF TakeFromBook
<1>2. /\ MaxCalls \in Nat /\ Len(BookBatches) \in Nat /\ DOMAIN BookBatches = 1..Len(BookBatches)
      /\ left \in 0..MaxCalls /\ left > 0 /\ cursor \in 0..Len(BookBatches)
      /\ next \in Nat /\ next <= tally.calls /\ tally.calls = MaxCalls - left
  BY <1>1, BoundsAssumption, BookAssumption DEF Whole, Counts, Harvests
<1>3. CASE /\ cursor' = Len(BookBatches)
           /\ UNCHANGED <<left, tally, accepted, kept, produced, blind, pc, paper>>
  <2>1. Counts'
    BY <1>1, <1>2, <1>3 DEF Whole, Counts
  <2>2. Answered' /\ Once'
    BY <1>1, <1>3 DEF Whole, Answered, Once
  <2>3. BookFirst'
    <3>1. HarvestTarget(preference)' = HarvestTarget(preference)
      BY <1>1 DEF HarvestTarget
    <3> QED
      BY <1>1, <1>3, <3>1 DEF Whole, BookFirst
  <2>4. Willing' /\ Handed'
    BY <1>1, <1>3 DEF Whole, Willing, Handed
  <2> QED
    BY <2>1, <2>2, <2>3, <2>4 DEF Whole
<1>4. ASSUME NEW i \in cursor + 1..Len(BookBatches), cursor' = i, HarvestAsk(i), ~Broken
      PROVE  Whole'
  <2>1. i \in DOMAIN BookBatches /\ i \in 0..Len(BookBatches) /\ UNCHANGED <<pc, paper>>
    <3>1. UNCHANGED <<pc, paper>>
      BY <1>4, Zenon DEF HarvestAsk
    <3> QED
      BY <1>2, <3>1
  <2>2. Called(TRUE) /\ BookFirst'
    BY <1>1, <1>4, <2>1, HarvestAskCalls
  <2>3. left' = left - 1
    BY <1>4 DEF HarvestAsk
  <2>4. Counts'
    <3>1. tally'.calls = MaxCalls - left' /\ left' \in 0..MaxCalls /\ next <= tally'.calls
      BY <1>2, <2>2, <2>3 DEF Called
    <3> QED
      BY <1>1, <1>2, <1>4, <2>1, <2>2, <3>1 DEF Called, Counts, Whole
  <2>5. Answered'
    BY <1>1, <2>2 DEF Whole, Answered, Called
  <2>6. Once' /\ Willing' /\ Handed'
    BY <1>1, <2>1, <2>2 DEF Whole, Called, Willing, Handed
  <2> QED
    BY <2>2, <2>4, <2>5, <2>6 DEF Whole
<1>5. ASSUME NEW i \in cursor + 1..Len(BookBatches), cursor' = i, HarvestAsk(i), Broken
      PROVE  Gone'
  <2>1. cursor' > 0 /\ left' < MaxCalls /\ next' = 0
    BY <1>1, <1>2, <1>5 DEF HarvestAsk, Whole, Counts
  <2>2. UNCHANGED <<accepted, kept, blind>> /\ HarvestTarget(preference)' = HarvestTarget(preference)
    BY <1>1, <1>5 DEF Broken, HarvestTarget
  <2>3. Once' /\ BookFirst'
    BY <1>1, <2>2 DEF Whole, Once, BookFirst
  <2> QED
    BY <1>1, <1>5, <2>1, <2>2, <2>3 DEF Broken, Gone, Whole, Counts
<1> QED
  BY <1>3, <1>4, <1>5 DEF TakeFromBook

\* A call for new questions.
LEMMA AskCalls ==
  ASSUME Whole, NEW wanted, Ask(wanted)
  PROVE  /\ Called(FALSE) /\ left' = left - 1 /\ next' = next + 1
         /\ reached' \in BOOLEAN /\ (reached' => tally'.failed < tally'.calls)
<1>1. Counts /\ Answered /\ Once /\ reached \in BOOLEAN
  BY DEF Whole, Counts
<1>2. left' = left - 1 /\ next' = next + 1
  BY DEF Ask
<1>3. CASE Failed /\ UNCHANGED reached
  <2>1. Called(FALSE)
    BY <1>1, <1>3, FailedCalls
  <2> QED
    BY <1>1, <1>2, <1>3, <2>1 DEF Called, Answered
<1>4. CASE ~(Failed /\ UNCHANGED reached)
  <2>1. PICK stems \in BoundedSeq(Stems, Lesser(wanted, MaxItems)), refused \in BOOLEAN :
          /\ reached' = TRUE
          /\ stems # <<>> \/ refused
          /\ Accept(stems, FALSE, refused)
    BY <1>4 DEF Ask
  <2>2. stems \in Seq(Stems \cup BookStems)
    <3>1. stems \in Seq(Stems)
      BY DEF BoundedSeq, SeqOf
    <3> QED
      BY <3>1
  <2>3. Called(FALSE) /\ tally'.failed < tally'.calls
    BY <1>1, <2>1, <2>2, AnsweredCalls
  <2> QED
    BY <1>2, <2>1, <2>3
<1> QED
  BY <1>3, <1>4

\* What both passes that ask do to the parts of the invariant the pass does not matter to.
LEMMA AskWhole ==
  ASSUME Whole, NEW wanted, Ask(wanted), left > 0,
         UNCHANGED <<preference, cursor>>, pc \in {"first", "backfill"}, pc' = pc,
         retry' \in BOOLEAN, remaining' \in Int,
         accepted' = <<>> => remaining' = Target
  PROVE  Counts' /\ Answered' /\ Once' /\ BookFirst'
<1>1. /\ Called(FALSE) /\ left' = left - 1 /\ next' = next + 1
      /\ reached' \in BOOLEAN /\ (reached' => tally'.failed < tally'.calls)
  BY AskCalls
<1>2. /\ MaxCalls \in Nat /\ left \in 0..MaxCalls /\ next \in Nat /\ next <= tally.calls
      /\ tally.calls = MaxCalls - left
  BY BoundsAssumption DEF Whole, Counts
<1>3. Counts'
  <2>1. /\ tally'.calls = MaxCalls - left' /\ left' \in 0..MaxCalls
        /\ next' \in Nat /\ next' <= tally'.calls
    BY <1>1, <1>2 DEF Called
  <2> QED
    BY <1>1, <2>1 DEF Called, Counts, Whole
<1>4. Answered' /\ Once'
  BY <1>1 DEF Called, Answered
<1>5. BookFirst'
  <2>1. HarvestTarget(preference)' = HarvestTarget(preference)
    BY DEF HarvestTarget
  <2> SUFFICES ASSUME NEW j \in DOMAIN accepted', accepted'[j].book
               PROVE  preference' # "never" /\ (~blind' => j <= HarvestTarget(preference)')
    BY DEF BookFirst
  <2>2. /\ accepted \in Seq(Accepted) /\ accepted' \in Seq(Accepted)
        /\ j \in 1..Len(accepted') /\ Len(accepted) \in Nat
    BY <1>1 DEF Called, Whole, Counts
  <2>3. j \in 1..Len(accepted)
    BY <1>1, <2>2 DEF Called
  <2>4. j \in DOMAIN accepted /\ accepted[j].book
    BY <1>1, <2>2, <2>3 DEF Called
  <2> QED
    BY <1>1, <2>1, <2>4 DEF Whole, BookFirst, Called
<1> QED
  BY <1>3, <1>4, <1>5

LEMMA FirstAskWhole == Whole /\ FirstAsk => Whole'
<1> SUFFICES ASSUME Whole, FirstAsk PROVE Whole'
  OBVIOUS
<1>1. /\ pc = "first" /\ left > 0 /\ Ask(remaining)
      /\ remaining' = remaining - (produced' - produced)
      /\ UNCHANGED <<pc, preference, cursor, retry, paper>>
  BY DEF FirstAsk, Asks
<1>2. Called(FALSE)
  BY <1>1, AskCalls
<1>3. /\ remaining \in Int /\ produced = Len(accepted) /\ produced' = Len(accepted')
      /\ Len(accepted) \in Nat /\ Len(accepted') \in Nat
  BY <1>2 DEF Called, Whole, Counts
<1>4. remaining' \in Int /\ (accepted' = <<>> => remaining' = Target)
  <2>1. remaining' \in Int
    BY <1>1, <1>3
  <2>2. ASSUME accepted' = <<>> PROVE remaining' = Target
    <3>1. accepted = <<>> /\ remaining = Target
      BY <1>2, <2>2 DEF Called, Whole, Answered
    <3>2. produced = 0 /\ produced' = 0
      BY <1>3, <2>2, <3>1
    <3> QED
      BY <1>1, <1>3, <3>1, <3>2
  <2> QED
    BY <2>1, <2>2
<1>5. Counts' /\ Answered' /\ Once' /\ BookFirst'
  BY <1>1, <1>4, AskWhole DEF Whole, Counts
<1>6. Willing' /\ Handed'
  BY <1>1 DEF Willing, Handed, Whole
<1> QED
  BY <1>5, <1>6 DEF Whole

LEMMA BackfillWhole == Whole /\ Backfill => Whole'
<1> SUFFICES ASSUME Whole, Backfill PROVE Whole'
  OBVIOUS
<1>1. /\ pc = "backfill" /\ left > 0 /\ Ask(Target - Len(accepted))
      /\ retry' = (/\ produced' > 0 \/ ~reached'
                   /\ ~(accepted' = accepted /\ produced' = 0))
      /\ UNCHANGED <<pc, preference, cursor, remaining, paper>>
  BY DEF Backfill, Short
<1>2. Called(FALSE) /\ left' = left - 1 /\ next' = next + 1
  BY <1>1, AskCalls
<1>3. Counts' /\ Answered' /\ Once' /\ BookFirst'
  <2>1. accepted' = <<>> => remaining' = Target
    BY <1>1, <1>2 DEF Called, Whole, Answered
  <2>2. remaining' \in Int /\ retry' \in BOOLEAN
    BY <1>1 DEF Whole, Counts
  <2> QED
    BY <1>1, <2>1, <2>2, AskWhole
<1>4. paper = [end |-> "running", questions |-> <<>>]
  BY <1>1 DEF Whole, Handed
<1>5. Willing'
  <2>1. /\ accepted' \in Seq(Accepted) /\ produced' = Len(accepted')
        /\ {left, next, Batches} \subseteq Nat
    BY <1>2, BoundsAssumption DEF Called, Whole, Counts
  <2>2. ASSUME accepted' # <<>> PROVE retry'
    <3>1. produced' > 0
      BY <2>1, <2>2
    <3>2. produced' # 0
      BY <2>1, <3>1
    <3> QED
      BY <1>1, <3>1, <3>2
  <2>3. ASSUME accepted' = <<>>, left' > 0
        PROVE  next' >= Batches /\ next' > Batches
    <3>1. accepted = <<>> /\ left > 0
      BY <1>1, <1>2, <2>3 DEF Called
    <3>2. paper.end # "no material"
      BY <1>4
    <3>3. next >= Batches
      BY <1>1, <3>1, <3>2 DEF Whole, Willing
    <3> QED
      BY <1>2, <2>1, <3>3
  <2> QED
    BY <2>2, <2>3 DEF Willing
<1>6. Handed'
  BY <1>1, <1>4 DEF Handed
<1> QED
  BY <1>3, <1>5, <1>6 DEF Whole

LEMMA StutterWhole == Whole /\ UNCHANGED vars => Whole'
<1> SUFFICES ASSUME Whole, UNCHANGED vars PROVE Whole'
  OBVIOUS
<1>1. UNCHANGED <<pc, preference, left, next, cursor, accepted, kept, remaining, produced, reached,
                  retry, tally, blind, paper>>
  BY DEF vars
<1>2. Counts' /\ Answered' /\ Once' /\ BookFirst'
  BY <1>1, TurnWhole DEF Whole, Counts
<1>3. Willing'
  BY <1>1 DEF Whole, Willing
<1>4. Handed'
  <2>1. Short' = Short /\ WhyEmpty' = WhyEmpty /\ Questions' = Questions
    BY <1>1 DEF Short, WhyEmpty, Questions, Harvested
  <2> QED
    BY <1>1, <2>1 DEF Whole, Handed
<1> QED
  BY <1>2, <1>3, <1>4 DEF Whole

\* A run that is gone does nothing more.
LEMMA GoneStays ==
  ASSUME Gone, [Next]_vars
  PROVE  Gone'
<1>1. UNCHANGED vars
  BY DEF Gone, Next, Calls, Goes, ReadBrief, TakeFromBook, HarvestDone, FirstAsk, FirstDone,
         Backfill, Finish, Ended
<1>2. UNCHANGED <<pc, preference, left, next, cursor, accepted, kept, blind, paper>>
  BY <1>1 DEF vars
<1>3. Once' /\ BookFirst'
  <2>1. HarvestTarget(preference)' = HarvestTarget(preference)
    BY <1>2 DEF HarvestTarget
  <2> QED
    BY <1>2, <2>1 DEF Gone, Once, BookFirst
<1> QED
  BY <1>2, <1>3 DEF Gone

\* The invariant holds of every run.
THEOREM FillingHolds == Spec => []Filling
<1>1. Filling /\ [Next]_vars => Filling'
  <2>1. Whole /\ [Next]_vars => Whole' \/ Gone'
    BY ReadBriefWhole, TakeFromBookWhole, HarvestDoneWhole, FirstAskWhole, FirstDoneWhole,
       BackfillWhole, FinishWhole, StutterWhole DEF Next, Calls, Goes, Ended
  <2> QED
    BY <2>1, GoneStays DEF Filling
<1>2. Init => Filling
  BY InitWhole DEF Filling
<1> QED
  BY <1>1, <1>2, PTL DEF Spec

-----------------------------------------------------------------------------
\* What a run promises.

\* What it has whether it is whole or gone.
LEMMA EitherWay ==
  ASSUME Filling
  PROVE  accepted \in Seq(Accepted) /\ preference \in BookQuestions /\ Once /\ BookFirst
BY DEF Filling, Whole, Gone, Counts

\* As long as the deduper compared, a stem tells its question.
LEMMA StemsTell ==
  ASSUME Filling, ~blind
  PROVE  \A i \in DOMAIN accepted : accepted[i].stem \in Harvested <=> accepted[i].book
<1> SUFFICES ASSUME NEW i \in DOMAIN accepted
             PROVE  accepted[i].stem \in Harvested <=> accepted[i].book
  OBVIOUS
<1>1. \A j \in DOMAIN accepted : accepted[j].stem = accepted[i].stem => j = i
  BY EitherWay DEF Once, IsInjective
<1> QED
  BY <1>1 DEF Harvested

\* The places of the questions of a paper that is written.
LEMMA WrittenPaper ==
  ASSUME Filling, paper = [end |-> "written", questions |-> Questions]
  PROVE  /\ DOMAIN paper.questions = 1..Lesser(Target, Len(accepted))
         /\ Lesser(Target, Len(accepted)) \in Nat /\ Target \in Nat \ {0}
         /\ Len(accepted) \in Nat /\ DOMAIN accepted = 1..Len(accepted)
         /\ DOMAIN paper.questions \subseteq DOMAIN accepted
         /\ \A i \in DOMAIN paper.questions :
              paper.questions[i] = [stem |-> accepted[i].stem,
                                    book |-> accepted[i].stem \in Harvested]
<1>1. Target \in Nat \ {0} /\ Len(accepted) \in Nat /\ DOMAIN accepted = 1..Len(accepted)
  BY BoundsAssumption, EitherWay
<1>2. Lesser(Target, Len(accepted)) \in Nat /\ Lesser(Target, Len(accepted)) <= Len(accepted)
  BY <1>1 DEF Lesser
<1>3. paper.questions = Questions
  OBVIOUS
<1> QED
  BY <1>1, <1>2, <1>3 DEF Questions

LEMMA PaperCases ==
  ASSUME Filling
  PROVE  \/ paper.questions = <<>> /\ paper.end # "written"
         \/ /\ Whole /\ pc = "ended" /\ accepted # <<>> /\ ~Short
            /\ paper = [end |-> "written", questions |-> Questions]
<1>1. CASE Whole /\ pc # "ended"
  <2>1. paper = [end |-> "running", questions |-> <<>>]
    BY <1>1 DEF Whole, Handed
  <2> QED
    BY <2>1
<1>2. CASE Whole /\ pc = "ended" /\ paper = [end |-> "no material", questions |-> <<>>]
  <2>1. paper.questions = <<>> /\ paper.end = "no material"
    BY <1>2
  <2> QED
    BY <2>1
<1>3. CASE Whole /\ pc = "ended" /\ paper = [end |-> WhyEmpty, questions |-> <<>>]
  <2>1. paper.questions = <<>> /\ paper.end = WhyEmpty
    BY <1>3
  <2> QED
    BY <2>1 DEF WhyEmpty
<1>4. CASE Gone
  <2>1. paper = [end |-> "broken", questions |-> <<>>]
    BY <1>4 DEF Gone
  <2> QED
    BY <2>1
<1>5. CASE /\ Whole /\ pc = "ended" /\ accepted # <<>> /\ ~Short
           /\ paper = [end |-> "written", questions |-> Questions]
  BY <1>5
<1> QED
  BY <1>1, <1>2, <1>3, <1>4, <1>5 DEF Filling, Whole, Handed

Reasons == {"silent", "rejected", "unsettled"}

\* A run that tells its author why it found no question.
LEMMA EmptyPaper ==
  ASSUME Filling, pc = "ended", paper.end \in Reasons
  PROVE  /\ Whole /\ accepted = <<>> /\ ~Short /\ paper.end = WhyEmpty
         /\ left > 0 => next >= Batches /\ (retry \/ reached \/ next > Batches)
<1>1. CASE paper = [end |-> "no material", questions |-> <<>>]
  <2>1. paper.end = "no material"
    BY <1>1
  <2> QED
    BY <2>1 DEF Reasons
<1>2. CASE paper = [end |-> "written", questions |-> Questions]
  <2>1. paper.end = "written"
    BY <1>2
  <2> QED
    BY <2>1 DEF Reasons
<1>3. CASE Gone
  <2>1. paper = [end |-> "broken", questions |-> <<>>]
    BY <1>3 DEF Gone
  <2>2. paper.end = "broken"
    BY <2>1
  <2> QED
    BY <2>2 DEF Reasons
<1>4. CASE Whole /\ accepted = <<>> /\ ~Short /\ paper = [end |-> WhyEmpty, questions |-> <<>>]
  <2>1. paper.end = WhyEmpty /\ paper.end # "no material"
    BY <1>4 DEF Reasons
  <2> QED
    BY <1>4, <2>1 DEF Whole, Willing
<1> QED
  BY <1>1, <1>2, <1>3, <1>4 DEF Filling, Whole, Handed

\* No stem is on the paper twice, and its questions are marked as what they are: whichever
\* of the three passes of generate_questions brought them, in however many calls.
THEOREM NoTwiceHolds == Spec => []NoTwice
<1>1. Filling => NoTwice
  <2> SUFFICES ASSUME Filling, ~blind
               PROVE  /\ IsInjective([i \in DOMAIN accepted |-> accepted[i].stem])
                      /\ \A i \in DOMAIN paper.questions : paper.questions[i].book = accepted[i].book
    BY DEF NoTwice
  <2>1. IsInjective([i \in DOMAIN accepted |-> accepted[i].stem])
    BY EitherWay DEF Once
  <2>2. CASE paper.questions = <<>>
    BY <2>1, <2>2
  <2>3. CASE paper = [end |-> "written", questions |-> Questions]
    <3> SUFFICES ASSUME NEW i \in DOMAIN paper.questions
                 PROVE  paper.questions[i].book = accepted[i].book
      BY <2>1
    <3>1. /\ i \in DOMAIN accepted
          /\ paper.questions[i] = [stem |-> accepted[i].stem,
                                   book |-> accepted[i].stem \in Harvested]
      BY <2>3, WrittenPaper
    <3>2. accepted[i].book \in BOOLEAN
      <4>1. accepted[i] \in Accepted
        BY <3>1, EitherWay
      <4> QED
        BY <4>1 DEF Accepted
    <3>3. paper.questions[i].book = (accepted[i].stem \in Harvested)
      BY <3>1
    <3>4. accepted[i].stem \in Harvested <=> accepted[i].book
      BY <3>1, StemsTell
    <3> QED
      BY <3>2, <3>3, <3>4
  <2> QED
    BY <2>2, <2>3, PaperCases
<1> QED
  BY FillingHolds, <1>1, PTL

\* The book's share is a ceiling, and what the book gave is on the paper: the share that
\* _harvest_target sets, over all calls of the harvest, and the cut at Target.
THEOREM BookCeilingHolds == Spec => []BookCeiling
<1>1. Filling => BookCeiling
  <2> SUFFICES ASSUME Filling PROVE BookCeiling
    OBVIOUS
  <2> DEFINE places == {k \in DOMAIN accepted : accepted[k].book}
  <2>1. /\ accepted \in Seq(Accepted) /\ DOMAIN accepted = 1..Len(accepted) /\ Len(accepted) \in Nat
        /\ preference \in BookQuestions /\ Target \in Nat
    BY BoundsAssumption, EitherWay
  <2>2. HarvestTarget(preference) \in 0..Target
    BY <2>1, HarvestTargetBounds
  <2>3. Harvested = {accepted[k].stem : k \in places}
    BY DEF Harvested
  <2>4. ASSUME ~blind PROVE Cardinality(Harvested) <= HarvestTarget(preference)
    <3> DEFINE n == HarvestTarget(preference)
               f == [k \in places |-> accepted[k].stem]
    <3>1. places \subseteq 1..n
      BY <2>1, <2>2, <2>4, EitherWay DEF BookFirst
    <3>2. f \in Surjection(places, Harvested)
      BY <2>3 DEF Surjection
    <3>3. n \in Nat
      BY <2>1, <2>2
    <3> HIDE DEF places, f, n
    <3>4. IsFiniteSet(1..n) /\ Cardinality(1..n) = n
      <4>1. \A b \in Nat : IsFiniteSet(1..b) /\ Cardinality(1..b) = IF 1 > b THEN 0 ELSE b - 1 + 1
        BY FS_Interval
      <4> QED
        BY <3>3, <4>1
    <3>5. IsFiniteSet(places) /\ Cardinality(places) <= n
      BY <3>1, <3>4, FS_Subset
    <3>6. IsFiniteSet(Harvested) /\ Cardinality(Harvested) <= Cardinality(places)
      BY <3>2, <3>5, FS_Surjection
    <3>7. Cardinality(Harvested) \in Nat /\ Cardinality(places) \in Nat
      BY <3>5, <3>6, FS_CardinalityType
    <3>8. Cardinality(Harvested) <= n
      BY <3>3, <3>5, <3>6, <3>7
    <3> QED
      BY <3>8 DEF n
  <2>5. ASSUME ~blind, paper.end = "written", NEW s \in Harvested
        PROVE  s \in {paper.questions[i].stem : i \in DOMAIN paper.questions}
    <3>1. paper = [end |-> "written", questions |-> Questions]
      BY <2>5, PaperCases
    <3>2. PICK k \in places : s = accepted[k].stem
      BY <2>3, <2>5
    <3>3. k \in 1..Len(accepted) /\ k <= HarvestTarget(preference)
      BY <2>1, <2>5, <3>2, EitherWay DEF BookFirst
    <3>4. k \in DOMAIN paper.questions
      <4>1. DOMAIN paper.questions = 1..Lesser(Target, Len(accepted))
        BY <3>1, WrittenPaper
      <4>2. k \in 1..Lesser(Target, Len(accepted))
        BY <2>1, <2>2, <3>3 DEF Lesser
      <4> QED
        BY <4>1, <4>2
    <3>5. paper.questions[k].stem = s
      <4>1. paper.questions[k] = [stem |-> accepted[k].stem, book |-> accepted[k].stem \in Harvested]
        BY <3>1, <3>4, WrittenPaper
      <4> QED
        BY <3>2, <4>1
    <3> QED
      BY <3>4, <3>5
  <2>6. ASSUME preference = "never" PROVE Harvested = {}
    BY <2>3, <2>6, EitherWay DEF BookFirst
  <2> QED
    BY <2>4, <2>5, <2>6 DEF BookCeiling
<1> QED
  BY FillingHolds, <1>1, PTL

\* No run gives up early, but for a reply that breaks the taking of the book's questions: the
\* retries of the backfill, and what a failed call, a refused batch or duplicates do to them.
THEOREM NoEarlySurrenderHolds == Spec => []NoEarlySurrender
<1>1. Filling => NoEarlySurrender
  <2> SUFFICES ASSUME Filling PROVE NoEarlySurrender
    OBVIOUS
  <2>1. /\ Target \in Nat \ {0} /\ {Batches, MaxCalls} \subseteq Nat
        /\ Whole => /\ Len(accepted) \in Nat /\ {left, next} \subseteq Nat
                    /\ tally.calls = MaxCalls - left /\ tally.failed \in 0..tally.calls
    BY BoundsAssumption DEF Whole, Counts
  <2>2. ASSUME paper.end = "written", Len(paper.questions) < Target
        PROVE  left = 0
    <3>1. /\ Whole /\ pc = "ended" /\ accepted # <<>> /\ ~Short
          /\ paper = [end |-> "written", questions |-> Questions]
      BY <2>2, PaperCases
    <3>2. retry
      BY <3>1 DEF Whole, Willing
    <3>3. Len(paper.questions) = Lesser(Target, Len(accepted))
      BY <3>1, WrittenPaper
    <3>4. Len(accepted) < Target
      BY <2>1, <2>2, <3>1, <3>3 DEF Lesser
    <3> QED
      BY <2>1, <3>1, <3>2, <3>4 DEF Short
  <2>3. ASSUME pc = "ended", paper.end \in Reasons, left # 0
        PROVE  next >= Batches + (IF paper.end = "silent" THEN 1 ELSE 0)
    <3>1. /\ Whole /\ accepted = <<>> /\ ~Short /\ paper.end = WhyEmpty
          /\ left > 0 => next >= Batches /\ (retry \/ reached \/ next > Batches)
      BY <2>3, EmptyPaper
    <3>2. left > 0 /\ next >= Batches /\ (retry \/ reached \/ next > Batches)
      BY <2>1, <2>3, <3>1
    <3>3. ~retry
      <4>1. Len(accepted) < Target
        BY <2>1, <3>1
      <4> QED
        BY <3>1, <3>2, <4>1 DEF Short
    <3>4. ASSUME paper.end = "silent" PROVE next > Batches
      <4>1. ~(tally.failed < tally.calls)
        BY <2>1, <3>1, <3>4 DEF WhyEmpty
      <4>2. ~reached
        BY <3>1, <4>1 DEF Whole, Answered
      <4> QED
        BY <3>2, <3>3, <4>2
    <3> QED
      BY <2>1, <3>1, <3>2, <3>4
  <2>4. ASSUME paper.end = "broken"
        PROVE  next = 0 /\ cursor > 0 /\ left < MaxCalls
    <3>1. ~Whole
      <4>1. [end |-> "running", questions |-> <<>>].end # "broken"
            /\ [end |-> "no material", questions |-> <<>>].end # "broken"
            /\ [end |-> WhyEmpty, questions |-> <<>>].end # "broken"
            /\ [end |-> "written", questions |-> Questions].end # "broken"
        BY DEF WhyEmpty
      <4> QED
        BY <2>4, <4>1 DEF Whole, Handed
    <3> QED
      BY <3>1 DEF Filling, Gone
  <2> QED
    BY <2>2, <2>3, <2>4 DEF NoEarlySurrender, Reasons
<1> QED
  BY FillingHolds, <1>1, PTL

\* The author of a paper without questions is told of the service exactly when no call was
\* answered, and of refused questions only if there were some: generate_questions reads it
\* off the tallies of the trace.
THEOREM HonestReasonHolds == Spec => []HonestReason
<1>1. Filling => HonestReason
  <2> SUFFICES ASSUME Filling, pc = "ended", paper.end \in Reasons
               PROVE  /\ paper.end = "silent" <=> tally.failed = MaxCalls - left
                      /\ paper.end = "rejected" => tally.refused
    BY DEF HonestReason, Reasons
  <2>1. /\ Whole /\ accepted = <<>> /\ paper.end = WhyEmpty
        /\ left > 0 => next >= Batches
    BY EmptyPaper
  <2>2. /\ left \in Nat /\ next \in Nat /\ Batches \in Nat \ {0} /\ MaxCalls \in Nat \ {0}
        /\ tally.calls = MaxCalls - left /\ tally.failed \in 0..tally.calls
        /\ next <= tally.calls
    BY <2>1, BoundsAssumption DEF Whole, Counts
  <2>3. tally.calls > 0
    BY <2>1, <2>2
  <2> QED
    BY <2>1, <2>2, <2>3 DEF WhyEmpty
<1> QED
  BY FillingHolds, <1>1, PTL

=============================================================================
