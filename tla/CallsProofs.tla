----------------------------- MODULE CallsProofs -----------------------------
(***************************************************************************)
(* Theorems about Calls: what the pure functions return, for every input   *)
(* there can be.                                                           *)
(***************************************************************************)
EXTENDS Calls, Extremes, SequenceTheorems, TLAPS

-----------------------------------------------------------------------------
(***************************************************************************)
(* Places.                                                                 *)
(***************************************************************************)
LEMMA RankIs ==
  ASSUME NEW P, P \subseteq Int, IsFiniteSet(P)
  PROVE  /\ Cardinality(P) \in Nat
         /\ \A i \in P : Rank(P, i) \in 1..Cardinality(P)
         /\ \A i, j \in P : i < j => Rank(P, i) < Rank(P, j)
<1> DEFINE UpTo(i) == {j \in P : j <= i}
<1>1. Cardinality(P) \in Nat
  BY FS_CardinalityType
<1>2. \A i \in P : /\ UpTo(i) \in SUBSET P /\ IsFiniteSet(UpTo(i)) /\ i \in UpTo(i)
                   /\ Cardinality(UpTo(i)) \in Nat /\ Cardinality(UpTo(i)) <= Cardinality(P)
  <2> TAKE i \in P
  <2>1. UpTo(i) \in SUBSET P /\ i \in UpTo(i)
    OBVIOUS
  <2> HIDE DEF UpTo
  <2>2. IsFiniteSet(UpTo(i)) /\ Cardinality(UpTo(i)) <= Cardinality(P)
    BY <2>1, FS_Subset
  <2> QED
    BY <2>1, <2>2, FS_CardinalityType
<1>3. ASSUME NEW i \in P PROVE Rank(P, i) \in 1..Cardinality(P)
  <2>1. Cardinality(UpTo(i)) # 0
    <3> HIDE DEF UpTo
    <3> QED
      BY <1>2, FS_EmptySet
  <2>2. Rank(P, i) = Cardinality(UpTo(i))
    BY DEF Rank
  <2> HIDE DEF UpTo
  <2> QED
    BY <1>1, <1>2, <2>1, <2>2
<1>4. ASSUME NEW i \in P, NEW j \in P, i < j PROVE Rank(P, i) < Rank(P, j)
  <2>1. UpTo(i) \in SUBSET UpTo(j) /\ j \notin UpTo(i)
    <3>1. i \in Int /\ j \in Int /\ \A x \in P : x \in Int
      OBVIOUS
    <3>2. \A x \in P : x <= i => x <= j
      BY <1>4, <3>1
    <3>3. ~(j <= i)
      BY <1>4, <3>1
    <3> QED
      BY <3>2, <3>3
  <2>2. Rank(P, i) = Cardinality(UpTo(i)) /\ Rank(P, j) = Cardinality(UpTo(j))
    BY DEF Rank
  <2> HIDE DEF UpTo
  <2>3. Cardinality(UpTo(i)) <= Cardinality(UpTo(j)) /\ Cardinality(UpTo(i)) # Cardinality(UpTo(j))
    BY <1>2, <2>1, FS_Subset
  <2> QED
    BY <1>2, <2>2, <2>3
<1> QED
  BY <1>1, <1>3, <1>4

\* The k-th place is the one of rank k.
LEMMA NthIs ==
  ASSUME NEW P, P \subseteq Int, IsFiniteSet(P)
  PROVE  /\ \A k \in 1..Cardinality(P) : Nth(P, k) \in P /\ Rank(P, Nth(P, k)) = k
         /\ \A i \in P : Nth(P, Rank(P, i)) = i
         /\ \A k, m \in 1..Cardinality(P) : k < m => Nth(P, k) < Nth(P, m)
<1> DEFINE n == Cardinality(P)
           f == [i \in P |-> Rank(P, i)]
<1>1. n \in Nat /\ IsFiniteSet(1..n) /\ Cardinality(1..n) = n
  <2>1. n \in Nat
    BY RankIs
  <2> HIDE DEF n
  <2> QED
    BY <2>1, FS_Interval
<1>2. f \in Injection(P, 1..n)
  <2>1. f \in [P -> 1..n]
    BY RankIs
  <2>2. \A i, j \in P : f[i] = f[j] => i = j
    <3> TAKE i \in P, j \in P
    <3>1. i \in Int /\ j \in Int /\ f[i] \in Int /\ f[j] \in Int
      BY <2>1
    <3>2. i < j => f[i] < f[j]
      BY RankIs
    <3>3. j < i => f[j] < f[i]
      BY RankIs
    <3> HIDE DEF f
    <3> QED
      BY <3>1, <3>2, <3>3
  <2> QED
    BY <2>1, <2>2 DEF Injection, IsInjective
<1>3. f \in Surjection(P, 1..n)
  <2> HIDE DEF f
  <2> QED
    BY <1>1, <1>2, FS_Injection
<1>4. ASSUME NEW k \in 1..n PROVE Nth(P, k) \in P /\ Rank(P, Nth(P, k)) = k
  <2>1. \E i \in P : Rank(P, i) = k
    BY <1>3 DEF Surjection
  <2> QED
    BY <2>1 DEF Nth
<1>5. ASSUME NEW i \in P PROVE Nth(P, Rank(P, i)) = i
  <2>1. Rank(P, i) \in 1..n
    BY RankIs
  <2>2. Nth(P, Rank(P, i)) \in P /\ f[Nth(P, Rank(P, i))] = f[i]
    BY <1>4, <2>1
  <2> HIDE DEF f
  <2> QED
    BY <1>2, <2>2 DEF Injection, IsInjective
<1>6. ASSUME NEW k \in 1..n, NEW m \in 1..n, k < m PROVE Nth(P, k) < Nth(P, m)
  <2> DEFINE i == Nth(P, k)
             j == Nth(P, m)
  <2>1. i \in P /\ j \in P /\ Rank(P, i) = k /\ Rank(P, j) = m
    BY <1>4
  <2> HIDE DEF i, j, n
  <2>2. j < i => Rank(P, j) < Rank(P, i)
    BY <2>1, RankIs
  <2>3. i \in Int /\ j \in Int /\ k \in Int /\ m \in Int
    BY <1>1, <2>1
  <2>4. i < j
    BY <1>6, <2>1, <2>2, <2>3
  <2> QED
    BY <2>4 DEF i, j
<1> QED
  BY <1>4, <1>5, <1>6

\* What is picked from a sequence is a sequence of its elements, each at its rank.
LEMMA PickIs ==
  ASSUME NEW X, NEW s \in Seq(X), NEW P, P \subseteq DOMAIN s
  PROVE  /\ IsFiniteSet(P) /\ P \subseteq Int
         /\ Pick(s, P) \in Seq(X) /\ Len(Pick(s, P)) = Cardinality(P)
         /\ Cardinality(P) \in Nat /\ Cardinality(P) <= Len(s)
         /\ DOMAIN Pick(s, P) = 1..Cardinality(P)
         /\ \A i \in P : Rank(P, i) \in 1..Cardinality(P) /\ Pick(s, P)[Rank(P, i)] = s[i]
         /\ \A k \in 1..Cardinality(P) : Nth(P, k) \in P /\ Pick(s, P)[k] = s[Nth(P, k)]
<1>1. DOMAIN s = 1..Len(s) /\ Len(s) \in Nat
  OBVIOUS
<1>2. IsFiniteSet(P) /\ P \subseteq Int /\ Cardinality(P) <= Len(s)
  <2>1. IsFiniteSet(DOMAIN s) /\ Cardinality(DOMAIN s) = Len(s)
    <3> DEFINE n == Len(s)
    <3>1. n \in Nat /\ DOMAIN s = 1..n
      BY <1>1
    <3> HIDE DEF n
    <3>2. IsFiniteSet(1..n) /\ Cardinality(1..n) = n
      BY <3>1, FS_Interval
    <3> QED
      BY <3>1, <3>2 DEF n
  <2>2. P \in SUBSET DOMAIN s
    OBVIOUS
  <2> QED
    BY <1>1, <2>1, <2>2, FS_Subset
<1>3. Cardinality(P) \in Nat
  BY <1>2, FS_CardinalityType
<1>4. \A k \in 1..Cardinality(P) : Nth(P, k) \in P /\ Pick(s, P)[k] = s[Nth(P, k)]
  BY <1>2, NthIs DEF Pick
<1>5. \A k \in 1..Cardinality(P) : s[Nth(P, k)] \in X
  BY <1>4
<1>6. Pick(s, P) \in Seq(X) /\ Len(Pick(s, P)) = Cardinality(P)
  BY <1>3, <1>5 DEF Pick
<1>7. \A i \in P : Rank(P, i) \in 1..Cardinality(P) /\ Pick(s, P)[Rank(P, i)] = s[i]
  BY <1>2, RankIs, NthIs DEF Pick
<1> QED
  BY <1>2, <1>3, <1>4, <1>6, <1>7

-----------------------------------------------------------------------------
(***************************************************************************)
(* The reply of the model and the answer key.                              *)
(***************************************************************************)
LEMMA Siblings ==
  ASSUME NEW c \in Replied
  PROVE  SiblingsKept(c.reply)
<1> DEFINE reply == c.reply
           complete == {i \in DOMAIN reply.objects : reply.objects[i].form = "question"}
           before(i) == {j \in complete : j < i}
           items == ParseGenerated(reply)
<1>1. PICK X : reply.objects \in Seq(X)
  BY DEF Replied
<1>2. SUFFICES ASSUME reply.shape # "lines" \/ Cardinality(complete) > 1
               PROVE  /\ Len(items) = Cardinality(complete)
                      /\ \A i \in complete : items[Cardinality(before(i)) + 1] = reply.objects[i]
  BY DEF SiblingsKept
<1>3. Of(reply, {"question"}) = complete
  BY DEF Of
<1>4. items = Pick(reply.objects, complete)
  <2>1. reply.shape # "lines" => WholeReply(reply).questions = complete
    BY <1>3 DEF WholeReply
  <2>2. ASSUME reply.shape = "lines" PROVE ~WholeReply(reply).decodes
    <3>1. Cardinality(Of(reply, {"question"})) # 1
      BY <1>2, <1>3, <2>2
    <3> QED
      BY <2>2, <3>1 DEF WholeReply
  <2> QED
    BY <1>3, <2>1, <2>2 DEF ParseGenerated, Salvage
<1>5. complete \subseteq DOMAIN reply.objects
  OBVIOUS
<1> HIDE DEF complete
<1>6. ASSUME NEW i \in complete PROVE Cardinality(before(i)) + 1 = Rank(complete, i)
  <2>1. IsFiniteSet(before(i)) /\ i \notin before(i) /\ {j \in complete : j <= i} = before(i) \cup {i}
    <3>1. complete \subseteq Int /\ IsFiniteSet(complete) /\ before(i) \in SUBSET complete
      BY <1>1, <1>5, PickIs
    <3>2. IsFiniteSet(before(i))
      BY <3>1, FS_Subset
    <3>3. i \notin before(i)
      BY <3>1
    <3>4. {j \in complete : j <= i} = before(i) \cup {i}
      <4>1. \A j \in complete : j <= i <=> (j < i \/ j = i)
        BY <3>1
      <4> QED
        BY <4>1
    <3> QED
      BY <3>2, <3>3, <3>4
  <2> HIDE DEF before
  <2> QED
    BY <2>1, FS_AddElement DEF Rank
<1> HIDE DEF before, items
<1>7. Len(items) = Cardinality(complete)
  BY <1>1, <1>4, <1>5, PickIs
<1>8. \A i \in complete : items[Rank(complete, i)] = reply.objects[i]
  BY <1>1, <1>4, <1>5, PickIs
<1> QED
  BY <1>6, <1>7, <1>8

\* The keys we give are different.
LEMMA KeysDiffer ==
  /\ DOMAIN OptionKeys = 1..8
  /\ \A i, j \in 1..8 : OptionKeys[i] = OptionKeys[j] => i = j
BY DEF OptionKeys

\* Choices that all have a label, or none, have different ones; what a label is renumbered
\* to is then the key of its place.
LEMMA LabelsDiffer ==
  ASSUME NEW X, NEW options \in Seq(X), UsableKeys(options), Len(options) <= 5,
         AllNamed(options) \/ AllBlank(options)
  PROVE  \A i, j \in DOMAIN options : Label(options, i) = Label(options, j) => i = j
<1>1. DOMAIN options \subseteq 1..8
  OBVIOUS
<1>2. CASE AllNamed(options)
  BY <1>2 DEF AllNamed, UsableKeys, Label
<1>3. CASE AllBlank(options)
  BY <1>1, <1>3, KeysDiffer DEF AllBlank, Label
<1> QED
  BY <1>2, <1>3

LEMMA RemapIs ==
  ASSUME NEW X, NEW options \in Seq(X), UsableKeys(options), Len(options) <= 5,
         AllNamed(options) \/ AllBlank(options), NEW i \in DOMAIN options
  PROVE  Remap(options)[Label(options, i)] = OptionKeys[i]
<1> DEFINE first(k) == /\ Label(options, k) = Label(options, i)
                       /\ \A j \in 1..k - 1 : Label(options, j) # Label(options, i)
<1>1. \A k \in DOMAIN options : first(k) => k = i
  BY LabelsDiffer
<1>2. first(i)
  <2>1. \A j \in 1..i - 1 : j \in DOMAIN options /\ j # i
    OBVIOUS
  <2> QED
    BY <2>1, LabelsDiffer
<1>3. (CHOOSE k \in DOMAIN options : first(k)) = i
  <2> HIDE DEF first
  <2> QED
    BY <1>1, <1>2
<1> QED
  BY <1>3 DEF Remap

LEMMA KeysStand ==
  ASSUME NEW c \in Keyed
  PROVE  KeyStands(c.options, c.correct)
<1> DEFINE options == c.options
           correct == c.correct
           q == BuildQuestion(options, correct)
<1>1. PICK X : options \in Seq(X)
  BY DEF Keyed
<1> HIDE DEF options, correct
<1>2. SUFFICES ASSUME q.ok PROVE KeyStands(options, correct)
  BY DEF KeyStands, options, correct
<1>3. /\ UsableKeys(options) /\ Len(options) \in 3..5 /\ correct \in DOMAIN Remap(options)
      /\ q.options = Canonical(options) /\ q.correct = Remap(options)[correct]
  BY <1>2 DEF BuildQuestion, Refused, MinOptions, MaxOptions
<1>4. /\ DOMAIN q.options = DOMAIN options /\ DOMAIN options = 1..Len(options)
      /\ \A i \in DOMAIN options :
           q.options[i].key = OptionKeys[i] /\ q.options[i].text = options[i].text
  BY <1>1, <1>3 DEF Canonical
<1>5. DOMAIN options \subseteq 1..8 /\ Len(options) <= 5
  <2> DEFINE n == Len(options)
  <2>1. n <= 5 /\ n \in Nat
    <3>1. n \in 3..5
      BY <1>3
    <3> HIDE DEF n
    <3> QED
      BY <3>1
  <2>2. \A k \in 1..Len(options) : k \in 1..8
    BY <2>1
  <2> QED
    BY <1>4, <2>1, <2>2
<1>6. PICK i \in DOMAIN options : correct = Label(options, i)
  BY <1>3 DEF Remap
<1>7. AllNamed(options) \/ AllBlank(options) => q.correct = OptionKeys[i]
  BY <1>1, <1>3, <1>5, <1>6, RemapIs
<1>8. {q.options[k].text : k \in DOMAIN q.options} = {options[k].text : k \in DOMAIN options}
  BY <1>4
<1>9. \A k, j \in DOMAIN q.options : q.options[k].key = q.options[j].key => k = j
  BY <1>4, <1>5, KeysDiffer
<1>10. ASSUME AllNamed(options), NEW k \in DOMAIN options, options[k].key = correct,
              NEW j \in DOMAIN q.options, q.options[j].key = q.correct
       PROVE  q.options[j].text = options[k].text
  <2>1. j = i
    BY <1>4, <1>5, <1>7, <1>10, KeysDiffer
  <2>2. k = i
    <3>1. Label(options, k) = correct
      BY <1>10 DEF AllNamed, Label
    <3>2. \A m, n \in DOMAIN options : Label(options, m) = Label(options, n) => m = n
      BY <1>1, <1>3, <1>5, <1>10, LabelsDiffer
    <3> QED
      BY <1>6, <3>1, <3>2
  <2> QED
    BY <1>4, <2>1, <2>2
<1>11. ASSUME AllBlank(options) PROVE q.correct = correct
  BY <1>6, <1>7, <1>11 DEF AllBlank, Label
<1> HIDE DEF q
<1>12. KeyStands(options, correct)
  BY <1>8, <1>9, <1>10, <1>11 DEF KeyStands, q
<1> QED
  BY <1>12

-----------------------------------------------------------------------------
(***************************************************************************)
(* The questions a passage prints.                                         *)
(***************************************************************************)
\* An item has its own line and, after it, lines that begin none.
LEMMA ItemEndIs ==
  ASSUME NEW X, NEW text \in Seq(X), NEW i \in DOMAIN text
  PROVE  /\ ItemEnd(text, i) \in i..Len(text)
         /\ \A j \in i + 1 .. ItemEnd(text, i) : ~StartsItem(text[j])
<1> DEFINE later == {j \in i + 1 .. Len(text) : StartsItem(text[j])}
<1>1. i \in 1..Len(text) /\ Len(text) \in Nat /\ i \in Int
  OBVIOUS
<1>2. CASE later = {}
  <2>1. ItemEnd(text, i) = Len(text)
    BY <1>2 DEF ItemEnd
  <2> QED
    BY <1>1, <1>2, <2>1
<1>3. CASE later # {}
  <2>1. later \subseteq Int /\ IsFiniteSet(later)
    <3>1. i + 1 \in Int /\ Len(text) \in Int
      BY <1>1
    <3>2. IsFiniteSet(i + 1 .. Len(text))
      BY <3>1, FS_Interval
    <3>3. later \subseteq Int /\ later \in SUBSET (i + 1 .. Len(text))
      OBVIOUS
    <3> HIDE DEF later
    <3> QED
      BY <3>2, <3>3, FS_Subset
  <2>2. Min(later) \in later /\ \A j \in later : Min(later) <= j
    <3> HIDE DEF later
    <3> QED
      BY <1>3, <2>1, MinIs
  <2>3. ItemEnd(text, i) = Min(later) - 1
    BY <1>3 DEF ItemEnd
  <2>4. Min(later) \in i + 1 .. Len(text)
    BY <2>2
  <2>5. \A j \in i + 1 .. Min(later) - 1 : j \notin later /\ j \in i + 1 .. Len(text)
    BY <1>1, <2>2, <2>4
  <2> QED
    BY <1>1, <2>3, <2>4, <2>5
<1> QED
  BY <1>2, <1>3

\* The choices split off are the choice lines after the stem, in order.
Follow(text, stem, options, to) ==
  \A n \in DOMAIN options :
    /\ options[n] \in stem + 1 .. to
    /\ IsChoice(text[options[n]], Letters[n])
    /\ {i \in stem + 1 .. options[n] - 1 : IsAnyChoice(text[i])} = {options[m] : m \in 1..n - 1}

LEMMA SplitIs ==
  ASSUME NEW text, NEW from \in Int, NEW to \in Int, from <= to
  PROVE  LET split == SplitOptions(text, from, to)
         IN split.stem \in from..to /\ Follow(text, split.stem, split.options, to)
<1> DEFINE C == {j \in from + 1 .. to : IsAnyChoice(text[j])}
           found == ChoiceLines(text, from, to)
           n == Cardinality(C)
           taken == /\ Len(found) \in 2..Len(Letters)
                    /\ \A k \in DOMAIN found : IsChoice(text[found[k]], Letters[k])
           split == SplitOptions(text, from, to)
<1>1. C \subseteq Int /\ IsFiniteSet(C) /\ n \in Nat
  <2>1. IsFiniteSet(from + 1 .. to) /\ C \in SUBSET (from + 1 .. to)
    BY FS_Interval
  <2>2. C \subseteq Int
    OBVIOUS
  <2>3. IsFiniteSet(C)
    BY <2>1, FS_Subset
  <2> HIDE DEF C
  <2> QED
    BY <2>2, <2>3, FS_CardinalityType
<1>2. DOMAIN found = 1..n /\ Len(found) = n /\ \A k \in 1..n : found[k] = Nth(C, k)
  <2>1. found = [k \in 1..n |-> Nth(C, k)]
    BY DEF ChoiceLines, InOrder
  <2> HIDE DEF found, C, n
  <2> QED
    BY <1>1, <2>1
<1>3. /\ \A k \in 1..n : found[k] \in C
      /\ \A k, m \in 1..n : k < m => found[k] < found[m]
      /\ \A i \in C : Rank(C, i) \in 1..n /\ found[Rank(C, i)] = i
  <2> HIDE DEF found, C
  <2>1. \A k \in 1..n : found[k] \in C
    <3>1. \A k \in 1..n : Nth(C, k) \in C
      BY <1>1, NthIs
    <3> QED
      BY <1>2, <3>1
  <2>2. \A k, m \in 1..n : k < m => found[k] < found[m]
    <3>1. \A k, m \in 1..n : k < m => Nth(C, k) < Nth(C, m)
      BY <1>1, NthIs
    <3> QED
      BY <1>2, <3>1
  <2>3. \A i \in C : Rank(C, i) \in 1..n /\ Nth(C, Rank(C, i)) = i
    BY <1>1, NthIs, RankIs
  <2> QED
    BY <1>2, <2>1, <2>2, <2>3
<1>4. CASE ~taken
  <2>1. split.stem = to /\ split.options = <<>>
    BY <1>4 DEF SplitOptions
  <2> QED
    BY <2>1 DEF Follow
<1>5. CASE taken
  <2>1. split.stem = found[1] - 1 /\ split.options = found
    BY <1>5 DEF SplitOptions
  <2>2. 1 \in 1..n /\ \A k \in 1..n : IsChoice(text[found[k]], Letters[k])
    <3>1. Len(found) \in 2..Len(Letters)
      BY <1>5
    <3>2. \A k \in DOMAIN found : IsChoice(text[found[k]], Letters[k])
      BY <1>5
    <3> HIDE DEF found, n
    <3> QED
      BY <1>1, <1>2, <3>1, <3>2
  <2>3. \A k \in 1..n : found[k] \in from + 1 .. to /\ found[k] >= found[1]
    <3> TAKE k \in 1..n
    <3>1. found[k] \in from + 1 .. to /\ found[1] \in from + 1 .. to
      BY <1>3, <2>2
    <3>2. k = 1 \/ 1 < k
      OBVIOUS
    <3> HIDE DEF found, n, C
    <3>3. k = 1 \/ found[1] < found[k]
      BY <1>3, <2>2, <3>2
    <3> QED
      BY <3>1, <3>3
  <2>4. \A i \in C : i >= found[1]
    <3> HIDE DEF found, n, C
    <3> QED
      BY <1>3, <2>3
  <2>5. ASSUME NEW k \in 1..n
        PROVE  {i \in found[1] .. found[k] - 1 : IsAnyChoice(text[i])} = {found[m] : m \in 1..k - 1}
    <3>1. ASSUME NEW i \in found[1] .. found[k] - 1, IsAnyChoice(text[i])
          PROVE  i \in {found[m] : m \in 1..k - 1}
      <4>1. i \in C
        <5>1. found[1] \in from + 1 .. to /\ found[k] \in from + 1 .. to
          BY <2>2, <2>3
        <5> HIDE DEF found
        <5> QED
          BY <3>1, <5>1
      <4> HIDE DEF C, n, found
      <4>2. PICK m \in 1..n : found[m] = i
        BY <1>3, <4>1
      <4>3. found[k] \in Int /\ i \in Int /\ i < found[k]
        BY <2>3
      <4>4. ~(k < m) /\ k # m
        BY <1>3, <4>2, <4>3
      <4>5. m \in 1..k - 1
        BY <1>1, <4>4
      <4> QED
        BY <4>2, <4>5
    <3>2. ASSUME NEW m \in 1..k - 1
          PROVE  found[m] \in found[1] .. found[k] - 1 /\ IsAnyChoice(text[found[m]])
      <4>1. m \in 1..n /\ m < k
        BY <1>1
      <4>2. found[m] \in C
        BY <1>3, <4>1
      <4>3. IsAnyChoice(text[found[m]])
        BY <4>2
      <4> HIDE DEF C, n, found
      <4>4. found[m] < found[k] /\ found[m] >= found[1] /\ found[m] \in Int /\ found[k] \in Int
            /\ found[1] \in Int
        BY <1>3, <2>2, <2>3, <4>1
      <4> QED
        BY <4>3, <4>4
    <3> HIDE DEF found, n, C
    <3> QED
      BY <3>1, <3>2
  <2>6. found[1] \in from + 1 .. to /\ (found[1] - 1) + 1 = found[1] /\ found[1] - 1 \in from..to
    <3>1. found[1] \in from + 1 .. to
      BY <2>2, <2>3
    <3> HIDE DEF found
    <3> QED
      BY <3>1
  <2>7. \A k \in 1..n : found[k] \in found[1] .. to
    BY <2>3, <2>6
  <2>8. split.stem + 1 = found[1] /\ split.stem \in from..to /\ DOMAIN split.options = 1..n
    BY <1>2, <2>1, <2>6
  <2>9. ASSUME NEW k \in DOMAIN split.options
        PROVE  /\ split.options[k] \in split.stem + 1 .. to
               /\ IsChoice(text[split.options[k]], Letters[k])
               /\ {i \in split.stem + 1 .. split.options[k] - 1 : IsAnyChoice(text[i])}
                  = {split.options[m] : m \in 1..k - 1}
    <3>1. k \in 1..n /\ split.options = found /\ split.stem + 1 = found[1]
      BY <2>1, <2>8, <2>9
    <3> HIDE DEF found, n, split
    <3>2. found[k] \in found[1] .. to
      BY <2>7, <3>1
    <3>3. IsChoice(text[found[k]], Letters[k])
      BY <2>2, <3>1
    <3>4. {i \in found[1] .. found[k] - 1 : IsAnyChoice(text[i])} = {found[m] : m \in 1..k - 1}
      BY <2>5, <3>1
    <3> QED
      BY <3>1, <3>2, <3>3, <3>4
  <2> HIDE DEF found, n, split
  <2>10. Follow(text, split.stem, split.options, to)
    BY <2>9 DEF Follow
  <2> QED
    BY <2>8, <2>10 DEF split
<1> HIDE DEF split, taken
<1> QED
  BY <1>4, <1>5 DEF split

\* What a numbered item takes is its own lines.
LEMMA ItemIs ==
  ASSUME NEW X, NEW text \in Seq(X), NEW i \in DOMAIN text, StartsItem(text[i])
  PROVE  LET q == Item(text, i)
             end == ItemEnd(text, i)
         IN /\ q.from = i /\ q.to \in i..end /\ q.number = text[i].mark /\ q.number # ""
            /\ i \in Int /\ end \in Int
            /\ Follow(text, q.to, q.options, end)
            /\ \A n \in DOMAIN q.options : q.options[n] \in i + 1 .. end
            /\ \A j \in DOMAIN text : StartsItem(text[j]) /\ j > i => j > end
<1> DEFINE end == ItemEnd(text, i)
           split == SplitOptions(text, i, end)
           q == Item(text, i)
<1>1. i \in Int /\ end \in Int /\ i <= end /\ \A j \in i + 1 .. end : ~StartsItem(text[j])
  <2>1. i \in Int /\ Len(text) \in Int /\ end \in i..Len(text)
    BY ItemEndIs
  <2>2. \A j \in i + 1 .. end : ~StartsItem(text[j])
    BY ItemEndIs
  <2> HIDE DEF end
  <2> QED
    BY <2>1, <2>2
<1>2. split.stem \in i..end /\ Follow(text, split.stem, split.options, end)
  <2> HIDE DEF end
  <2> QED
    BY <1>1, SplitIs
<1>3. q.from = i /\ q.to = split.stem /\ q.number = text[i].mark /\ q.options = split.options
  BY DEF Item, Found
<1>4. text[i].mark # ""
  BY DEF StartsItem, NumberMarks
<1> HIDE DEF q, split, end
<1>5. \A n \in DOMAIN q.options : q.options[n] \in i + 1 .. end
  <2> TAKE n \in DOMAIN q.options
  <2>1. q.options[n] \in split.stem + 1 .. end
    BY <1>2, <1>3 DEF Follow
  <2> QED
    BY <1>1, <1>2, <2>1
<1>6. \A j \in DOMAIN text : StartsItem(text[j]) /\ j > i => j > end
  <2> SUFFICES ASSUME NEW j \in DOMAIN text, StartsItem(text[j]), j > i, ~(j > end) PROVE FALSE
    OBVIOUS
  <2>1. j \in i + 1 .. end
    BY <1>1
  <2> QED
    BY <1>1, <2>1
<1> QED
  BY <1>1, <1>2, <1>3, <1>4, <1>5, <1>6 DEF q, end

\* The lines of a stem, and those of the choices.
Stem(q) == q.from..q.to
Offered(q) == {q.options[n] : n \in DOMAIN q.options}

LEMMA OneLine == \A x \in Int : x..x = {x}
OBVIOUS

LEMMA NoPlaces == DOMAIN <<>> = {}
OBVIOUS

LEMMA LooseIs ==
  ASSUME NEW text, NEW numbered, NEW q \in LooseLines(text, numbered)
  PROVE  \E j \in DOMAIN text :
           /\ q = Found(j, j, "", <<>>) /\ q.from = j /\ q.to = j /\ q.number = ""
           /\ q.options = <<>> /\ Offered(q) = {} /\ StartsUpper(text[j])
           /\ \A r \in numbered : ~InStem(text, j, r)
<1>1. PICK j \in DOMAIN text : /\ q = Found(j, j, "", <<>>) /\ ReadsAlone(text, j)
                               /\ \A r \in numbered : ~InStem(text, j, r)
  BY DEF LooseLines
<1>2. q.from = j /\ q.to = j /\ q.number = "" /\ q.options = <<>>
  BY <1>1 DEF Found
<1>3. DOMAIN q.options = {}
  BY <1>2, NoPlaces
<1>4. Offered(q) = {}
  BY <1>3 DEF Offered
<1>5. StartsUpper(text[j])
  BY <1>1 DEF ReadsAlone
<1> QED
  BY <1>1, <1>2, <1>4, <1>5

\* A line without a marker says nothing a question says.
NotSaid(text, j, q) ==
  text[j].mark = "" => \A i \in Stem(q) : text[i].says # text[j].says

\* A loose line that a numbered item has is its first, behind a capital marker; and one
\* without a marker says nothing the item says.
LEMMA LooseInItem ==
  ASSUME NEW text, NEW j, NEW r, ~InStem(text, j, r), StartsUpper(text[j]),
         r.number = text[r.from].mark, r.number # ""
  PROVE  /\ j \in Stem(r) => j = r.from /\ r.number \in CapitalMarks
         /\ NotSaid(text, j, r)
<1>1. ASSUME j \in Stem(r) PROVE j = r.from /\ r.number \in CapitalMarks
  <2>1. j = r.from
    BY <1>1 DEF InStem, Stem
  <2> QED
    BY <2>1 DEF StartsUpper
<1>2. ASSUME text[j].mark = "", NEW i \in Stem(r) PROVE text[i].says # text[j].says
  BY <1>2 DEF InStem, Stem
<1> QED
  BY <1>1, <1>2 DEF NotSaid

LEMMA Lines ==
  ASSUME NEW c \in Printed
  PROVE  LinesOnce(c.text, c.minimum) /\ ChoicesInOrder(c.text)
<1> DEFINE text == c.text
           starts == {j \in DOMAIN text : StartsItem(text[j])}
           numbered == NumberedItems(text)
           loose == LooseLines(text, numbered)
           Area(i) == i..ItemEnd(text, i)
<1>1. text \in Seq(Line) /\ c.minimum \in Nat \ {0} /\ DOMAIN text \subseteq Int
  BY DEF Printed
<1>2. \A q \in numbered : \E i \in starts : q = Item(text, i)
  BY DEF NumberedItems
<1>3. FindQuestions(text) = numbered \cup loose
  BY DEF FindQuestions
<1>4. ASSUME NEW i \in starts
      PROVE  /\ Stem(Item(text, i)) \subseteq Area(i) /\ Offered(Item(text, i)) \subseteq Area(i)
             /\ Item(text, i).number # ""
             /\ i \in Int /\ ItemEnd(text, i) \in Int
             /\ \A j \in starts : j > i => j > ItemEnd(text, i)
             /\ Follow(text, Item(text, i).to, Item(text, i).options, ItemEnd(text, i))
  <2> DEFINE q == Item(text, i)
             end == ItemEnd(text, i)
  <2>1. /\ q.from = i /\ q.to \in i..end /\ q.number # "" /\ i \in Int /\ end \in Int
        /\ Follow(text, q.to, q.options, end)
        /\ \A n \in DOMAIN q.options : q.options[n] \in i + 1 .. end
        /\ \A j \in DOMAIN text : StartsItem(text[j]) /\ j > i => j > end
    <3> HIDE DEF text
    <3> QED
      BY <1>1, ItemIs
  <2> HIDE DEF q, end
  <2>2. Stem(q) \subseteq i..end
    <3>1. q.from = i /\ q.to \in i..end /\ i \in Int /\ end \in Int
      BY <2>1
    <3>2. ASSUME NEW to \in i..end PROVE i..to \subseteq i..end
      BY <3>1
    <3> QED
      BY <3>1, <3>2 DEF Stem
  <2>3. Offered(q) \subseteq i..end
    <3>1. \A n \in DOMAIN q.options : q.options[n] \in i + 1 .. end
      BY <2>1
    <3>2. i \in Int /\ end \in Int
      BY <2>1
    <3>3. i + 1 .. end \subseteq i..end
      BY <3>2
    <3> QED
      BY <3>1, <3>3 DEF Offered
  <2> QED
    BY <2>1, <2>2, <2>3 DEF q, end
<1>5. ASSUME NEW q \in loose
      PROVE  \E j \in DOMAIN text : /\ q = Found(j, j, "", <<>>) /\ Stem(q) = {j} /\ q.from = j
                                    /\ q.number = "" /\ Offered(q) = {} /\ q.options = <<>>
                                    /\ StartsUpper(text[j])
                                    /\ \A r \in numbered : ~InStem(text, j, r)
  <2> HIDE DEF text, numbered
  <2>1. PICK j \in DOMAIN text :
           /\ q = Found(j, j, "", <<>>) /\ q.from = j /\ q.to = j /\ q.number = ""
           /\ q.options = <<>> /\ Offered(q) = {} /\ StartsUpper(text[j])
           /\ \A r \in numbered : ~InStem(text, j, r)
    BY LooseIs
  <2>2. Stem(q) = {j}
    BY <1>1, <2>1, OneLine DEF Stem
  <2> QED
    BY <2>1, <2>2
<1> HIDE DEF numbered, loose, text
<1>6. ASSUME NEW i \in starts, NEW j \in starts, i # j
      PROVE  Area(i) \cap Area(j) = {}
  <2>1. i \in Int /\ j \in Int /\ ItemEnd(text, i) \in Int /\ ItemEnd(text, j) \in Int
    BY <1>4
  <2>2. i < j => ItemEnd(text, i) < j
    BY <1>4, <2>1
  <2>3. j < i => ItemEnd(text, j) < i
    BY <1>4, <2>1
  <2> QED
    BY <1>6, <2>1, <2>2, <2>3
<1>7. ASSUME NEW q \in numbered, NEW r \in loose
      PROVE  /\ Stem(q) \cap Stem(r) = {} \/ AgainWithMarker(q, r)
             /\ text[r.from].mark = "" => \A k \in Stem(q) : text[k].says # text[r.from].says
  <2>1. PICK i \in starts : q = Item(text, i)
    BY <1>2
  <2>2. q.number # "" /\ q.number = text[q.from].mark
    <3>1. q.from = i /\ q.number = text[i].mark
      BY <2>1 DEF Item, Found
    <3> QED
      BY <1>4, <2>1, <3>1
  <2>3. PICK j \in DOMAIN text : /\ Stem(r) = {j} /\ r.from = j /\ r.number = ""
                                 /\ StartsUpper(text[j]) /\ ~InStem(text, j, q)
    BY <1>5
  <2>4. /\ j \in Stem(q) => j = q.from /\ q.number \in CapitalMarks
        /\ text[j].mark = "" => \A k \in Stem(q) : text[k].says # text[j].says
    <3> HIDE DEF numbered, loose, text
    <3>1. j \in Stem(q) => j = q.from /\ q.number \in CapitalMarks
      BY <2>2, <2>3, LooseInItem
    <3>2. NotSaid(text, j, q)
      BY <2>2, <2>3, LooseInItem
    <3> QED
      BY <3>1, <3>2 DEF NotSaid
  <2>5. CASE j \in Stem(q)
    <3>1. AgainWithMarker(q, r)
      BY <2>3, <2>4, <2>5 DEF AgainWithMarker
    <3> QED
      BY <2>3, <2>4, <3>1
  <2>6. CASE j \notin Stem(q)
    <3>1. Stem(q) \cap Stem(r) = {}
      BY <2>3, <2>6
    <3> QED
      BY <2>3, <2>4, <3>1
  <2> QED
    BY <2>5, <2>6
<1>11. ASSUME NEW q \in numbered \cup loose, NEW r \in numbered \cup loose, q # r
       PROVE  /\ \/ Stem(q) \cap Stem(r) = {}
                 \/ AgainWithMarker(q, r) \/ AgainWithMarker(r, q)
              /\ (q.number # "" /\ r.number = "" /\ text[r.from].mark = "") =>
                   \A k \in Stem(q) : text[k].says # text[r.from].says
              /\ q.number # "" => Stem(q) \cap Offered(r) = {}
  <2>1. CASE q \in numbered /\ r \in numbered
    <3>1. PICK i \in starts : q = Item(text, i)
      BY <1>2, <2>1
    <3>2. PICK j \in starts : r = Item(text, j)
      BY <1>2, <2>1
    <3>3. Area(i) \cap Area(j) = {}
      BY <1>6, <1>11, <3>1, <3>2
    <3>4. Stem(q) \subseteq Area(i) /\ Stem(r) \subseteq Area(j) /\ Offered(r) \subseteq Area(j)
      BY <1>4, <3>1, <3>2
    <3>5. r.number # ""
      BY <1>4, <3>2
    <3> HIDE DEF Area
    <3> QED
      BY <3>3, <3>4, <3>5
  <2>2. CASE q \in numbered /\ r \in loose
    <3>1. Offered(r) = {}
      BY <1>5, <2>2
    <3> QED
      BY <1>7, <2>2, <3>1
  <2>3. CASE q \in loose /\ r \in numbered
    <3>1. q.number = ""
      BY <1>5, <2>3
    <3>2. Stem(r) \cap Stem(q) = {} \/ AgainWithMarker(r, q)
      BY <1>7, <2>3
    <3> QED
      BY <3>1, <3>2
  <2>4. CASE q \in loose /\ r \in loose
    <3>1. PICK i \in DOMAIN text : q = Found(i, i, "", <<>>) /\ Stem(q) = {i} /\ q.number = ""
      BY <1>5, <2>4
    <3>2. PICK j \in DOMAIN text : r = Found(j, j, "", <<>>) /\ Stem(r) = {j}
      BY <1>5, <2>4
    <3>3. i # j
      BY <1>11, <3>1, <3>2
    <3>4. Stem(q) \cap Stem(r) = {}
      BY <3>1, <3>2, <3>3
    <3> QED
      BY <3>1, <3>4
  <2> QED
    BY <2>1, <2>2, <2>3, <2>4
<1>8. ASSUME CarriesQuestions(text, c.minimum)
      PROVE  \E i \in DOMAIN text : text[i].heading \/ StartsItem(text[i])
  <2> DEFINE counted == {q \in numbered \cup loose : q.number # ""}
  <2>1. CASE \E i \in DOMAIN text : text[i].heading
    BY <2>1
  <2>2. CASE Cardinality(counted) >= c.minimum
    <3>1. Cardinality({}) = 0 /\ ~(0 >= c.minimum)
      BY <1>1, FS_EmptySet
    <3>2. counted # {}
      <4> HIDE DEF counted
      <4> QED
        BY <2>2, <3>1
    <3>3. PICK q \in numbered \cup loose : q.number # ""
      BY <3>2
    <3>4. q \in numbered
      BY <1>5, <3>3
    <3> QED
      BY <1>2, <3>4
  <2> QED
    BY <1>3, <1>8, <2>1, <2>2 DEF CarriesQuestions
<1>9. LinesOnce(text, c.minimum)
  BY <1>3, <1>8, <1>11 DEF LinesOnce, Stem, Offered
<1>10. ASSUME NEW q \in numbered \cup loose, NEW n \in DOMAIN q.options
       PROVE  /\ IsChoice(text[q.options[n]], Letters[n])
              /\ {i \in q.to + 1 .. q.options[n] - 1 : IsAnyChoice(text[i])}
                   = {q.options[m] : m \in 1..n - 1}
  <2>1. q \in numbered
    <3>1. DOMAIN q.options # {}
      OBVIOUS
    <3>2. ASSUME q \in loose PROVE FALSE
      <4>1. q.options = <<>>
        BY <1>5, <3>2
      <4> QED
        BY <3>1, <4>1
    <3> QED
      BY <3>2
  <2>2. PICK i \in starts : q = Item(text, i)
    BY <1>2, <2>1
  <2>3. Follow(text, q.to, q.options, ItemEnd(text, i))
    BY <1>4, <2>2
  <2> QED
    BY <2>3 DEF Follow
<1>12. ChoicesInOrder(text)
  BY <1>3, <1>10 DEF ChoicesInOrder
<1> QED
  BY <1>9, <1>12 DEF text

-----------------------------------------------------------------------------
(***************************************************************************)
(* Recursion over the numbers up to a bound.                               *)
(***************************************************************************)
\* A recursion over the numbers up to a bound has a solution, with values where its steps
\* have them.
Solves(f, n, D, base, T) ==
  f \in [0..n -> D] /\ f[0] = base /\ \A k \in 1..n : f[k] = T[<<k, f[k - 1]>>]

LEMMA RecursionExists ==
  ASSUME NEW D, NEW base \in D, NEW n \in Nat, NEW T \in [(1..n) \X D -> D]
  PROVE  \E f : Solves(f, n, D, base, T)
<1> DEFINE S == {m \in 0..n : \E f : Solves(f, m, D, base, T)}
<1>1. 0 \in S
  <2>1. Solves([k \in 0..0 |-> base], 0, D, base, T)
    BY DEF Solves
  <2>2. 0 \in 0..n
    OBVIOUS
  <2> QED
    BY <2>1, <2>2
<1>2. ASSUME NEW m \in 0..n - 1, m \in S PROVE m + 1 \in S
  <2>1. PICK f : Solves(f, m, D, base, T)
    BY <1>2
  <2> DEFINE g == [k \in 0..m + 1 |-> IF k = m + 1 THEN T[<<m + 1, f[m]>>] ELSE f[k]]
  <2>2. T[<<m + 1, f[m]>>] \in D
    <3>1. m \in 0..m /\ m + 1 \in 1..n
      OBVIOUS
    <3>2. f[m] \in D
      BY <2>1, <3>1 DEF Solves
    <3> QED
      BY <3>1, <3>2
  <2>3. g \in [0..m + 1 -> D]
    BY <2>1, <2>2 DEF Solves
  <2>4. g[0] = base
    <3>1. 0 \in 0..m + 1 /\ 0 # m + 1
      OBVIOUS
    <3> QED
      BY <2>1, <3>1 DEF Solves
  <2>5. ASSUME NEW k \in 1..m + 1 PROVE g[k] = T[<<k, g[k - 1]>>]
    <3>1. k \in 0..m + 1 /\ k - 1 \in 0..m + 1 /\ k - 1 # m + 1
      OBVIOUS
    <3>2. g[k - 1] = f[k - 1]
      BY <3>1
    <3>3. CASE k = m + 1
      BY <3>1, <3>2, <3>3
    <3>4. CASE k # m + 1
      <4>1. k \in 1..m
        BY <3>4
      <4>2. g[k] = f[k]
        BY <3>1, <3>4
      <4> QED
        BY <2>1, <3>2, <4>1, <4>2 DEF Solves
    <3> QED
      BY <3>3, <3>4
  <2> HIDE DEF g
  <2>6. Solves(g, m + 1, D, base, T)
    BY <2>3, <2>4, <2>5 DEF Solves
  <2>7. m + 1 \in 0..n
    OBVIOUS
  <2> QED
    BY <2>6, <2>7
<1>3. n \in S
  <2> HIDE DEF S
  <2>1. 0..n \subseteq S
    BY <1>1, <1>2, UpToBound
  <2>2. n \in 0..n
    OBVIOUS
  <2> QED
    BY <2>1, <2>2
<1> QED
  BY <1>3

\* What holds of the first value of a recursion and is kept by its steps holds of all.
LEMMA Along ==
  ASSUME NEW D, NEW n \in Nat, NEW f, f[0] \in D,
         \A k \in 1..n : f[k - 1] \in D => f[k] \in D
  PROVE  \A k \in 0..n : f[k] \in D
<1> DEFINE S == {k \in 0..n : f[k] \in D}
<1>1. 0 \in S
  BY n \in Nat
<1>2. ASSUME NEW k \in 0..n - 1, k \in S PROVE k + 1 \in S
  <2>1. k + 1 \in 1..n /\ k + 1 \in 0..n /\ (k + 1) - 1 = k
    OBVIOUS
  <2> QED
    BY <1>2, <2>1
<1>3. 0..n \subseteq S
  <2> HIDE DEF S
  <2> QED
    BY <1>1, <1>2, UpToBound
<1> QED
  BY <1>3

-----------------------------------------------------------------------------
(***************************************************************************)
(* Chunking.                                                               *)
(***************************************************************************)
\* The tokens of paragraphs are summed one by one.
LEMMA TokensIs ==
  ASSUME NEW U, \A u \in U : u.tokens \in Nat, NEW s \in Seq(U)
  PROVE  \E f \in [0..Len(s) -> Nat] :
           /\ f[0] = 0 /\ \A k \in 1..Len(s) : f[k] = f[k - 1] + s[k].tokens
           /\ TokensOf(s) = f[Len(s)]
<1> DEFINE n == Len(s)
           Sums(g) == g = [k \in 0..n |-> IF k = 0 THEN 0 ELSE g[k - 1] + s[k].tokens]
           upTo == CHOOSE g : Sums(g)
           T == [x \in (1..n) \X Nat |-> x[2] + s[x[1]].tokens]
<1>1. n \in Nat /\ \A k \in 1..n : s[k].tokens \in Nat
  <2>1. \A k \in 1..Len(s) : s[k] \in U
    OBVIOUS
  <2> QED
    BY <2>1
<1>2. \E f : Solves(f, n, Nat, 0, T)
  <2>1. T \in [(1..n) \X Nat -> Nat]
    BY <1>1
  <2>2. 0 \in Nat /\ n \in Nat
    BY <1>1
  <2> HIDE DEF T, n
  <2> QED
    BY <2>1, <2>2, RecursionExists
<1>3. PICK f \in [0..n -> Nat] : f[0] = 0 /\ \A k \in 1..n : f[k] = f[k - 1] + s[k].tokens
  <2>1. PICK f \in [0..n -> Nat] : f[0] = 0 /\ \A k \in 1..n : f[k] = T[<<k, f[k - 1]>>]
    BY <1>2 DEF Solves
  <2>2. ASSUME NEW k \in 1..n PROVE f[k] = f[k - 1] + s[k].tokens
    <3>1. <<k, f[k - 1]>> \in (1..n) \X Nat
      BY <1>1
    <3> QED
      BY <2>1, <3>1
  <2> QED
    BY <2>1, <2>2
<1>4. Sums(f)
  <2>1. \A k \in 0..n : k = 0 \/ k \in 1..n
    BY <1>1
  <2> HIDE DEF n
  <2> QED
    BY <1>3, <2>1
<1>5. Sums(upTo)
  BY <1>4
<1>6. TokensOf(s) = upTo[n]
  BY DEF TokensOf
<1> HIDE DEF upTo, T
<1>7. upTo[0] = 0 /\ \A k \in 1..n : upTo[k] = upTo[k - 1] + s[k].tokens
  <2>1. 0 \in 0..n /\ \A k \in 1..n : k \in 0..n /\ k # 0
    BY <1>1
  <2> HIDE DEF n
  <2> QED
    BY <1>5, <2>1
<1>8. \A k \in 0..n : upTo[k] \in Nat
  <2>1. \A k \in 1..n : upTo[k - 1] \in Nat => upTo[k] \in Nat
    BY <1>1, <1>7
  <2>2. n \in Nat /\ upTo[0] \in Nat
    BY <1>1, <1>7
  <2> HIDE DEF n
  <2> QED
    BY <2>1, <2>2, Along
<1>9. upTo \in [0..n -> Nat]
  <2> HIDE DEF n
  <2> QED
    BY <1>5, <1>8
<1> QED
  BY <1>6, <1>7, <1>9

LEMMA TokensAppend ==
  ASSUME NEW U, \A u \in U : u.tokens \in Nat
  PROVE  /\ TokensOf(<<>>) = 0
         /\ \A s \in Seq(U) : TokensOf(s) \in Nat
         /\ \A s \in Seq(U), u \in U : TokensOf(Append(s, u)) = TokensOf(s) + u.tokens
<1>1. TokensOf(<<>>) = 0
  <2>1. <<>> \in Seq(U) /\ Len(<<>>) = 0
    OBVIOUS
  <2> QED
    BY <2>1, TokensIs
<1>2. ASSUME NEW s \in Seq(U) PROVE TokensOf(s) \in Nat
  <2>1. PICK f \in [0..Len(s) -> Nat] : TokensOf(s) = f[Len(s)]
    BY TokensIs
  <2>2. Len(s) \in 0..Len(s)
    OBVIOUS
  <2> QED
    BY <2>1, <2>2
<1>3. ASSUME NEW s \in Seq(U), NEW u \in U PROVE TokensOf(Append(s, u)) = TokensOf(s) + u.tokens
  <2> DEFINE t == Append(s, u)
             n == Len(s)
  <2>1. /\ t \in Seq(U) /\ n \in Nat /\ Len(t) = n + 1 /\ t[n + 1] = u
        /\ \A k \in 1..n : t[k] = s[k] /\ k \in 1..n + 1
    OBVIOUS
  <2> HIDE DEF t
  <2>2. PICK f \in [0..n -> Nat] : /\ f[0] = 0 /\ \A k \in 1..n : f[k] = f[k - 1] + s[k].tokens
                                   /\ TokensOf(s) = f[n]
    BY TokensIs
  <2>3. PICK g \in [0..Len(t) -> Nat] :
           /\ g[0] = 0 /\ \A k \in 1..Len(t) : g[k] = g[k - 1] + t[k].tokens
           /\ TokensOf(t) = g[Len(t)]
    BY <2>1, TokensIs
  <2> HIDE DEF n
  <2> DEFINE S == {k \in 0..n : f[k] = g[k]}
  <2>4. 0 \in S
    BY <2>1, <2>2, <2>3
  <2>5. ASSUME NEW k \in 0..n - 1, k \in S PROVE k + 1 \in S
    <3>1. k + 1 \in 1..n /\ k + 1 \in 0..n /\ (k + 1) - 1 = k
      BY <2>1
    <3>2. f[k + 1] = f[k] + s[k + 1].tokens
      BY <2>2, <3>1
    <3>3. g[k + 1] = g[k] + s[k + 1].tokens
      BY <2>1, <2>3, <3>1
    <3> QED
      BY <2>5, <3>1, <3>2, <3>3
  <2>6. n \in S
    <3> HIDE DEF S
    <3>1. 0..n \subseteq S
      BY <2>1, <2>4, <2>5, UpToBound
    <3>2. n \in 0..n
      BY <2>1
    <3> QED
      BY <3>1, <3>2
  <2>7. g[n + 1] = g[n] + u.tokens
    <3>1. n + 1 \in 1..Len(t) /\ (n + 1) - 1 = n
      BY <2>1
    <3> QED
      BY <2>1, <2>3, <3>1
  <2> QED
    BY <2>1, <2>2, <2>3, <2>6, <2>7 DEF t
<1> QED
  BY <1>1, <1>2, <1>3

\* Runs of a sequence.
LEMMA RunIs ==
  ASSUME NEW X, NEW s \in Seq(X), NEW i \in 1..Len(s) + 1, NEW j \in i - 1..Len(s)
  PROVE  /\ SubSeq(s, i, j) \in Seq(X) /\ Len(SubSeq(s, i, j)) = j - i + 1
         /\ \A k \in 1..j - i + 1 : SubSeq(s, i, j)[k] = s[i + k - 1]
         /\ ToSet(SubSeq(s, i, j)) = {s[k] : k \in i..j}
         /\ i <= j => SubSeq(s, i, j) # <<>> /\ Last(SubSeq(s, i, j)) = s[j]
<1> DEFINE run == SubSeq(s, i, j)
<1>1. i \in Int /\ j \in Int /\ i >= 1 /\ i - 1 <= j /\ j <= Len(s) /\ Len(s) \in Nat
  OBVIOUS
<1>2. /\ run \in Seq(X) /\ Len(run) = j - i + 1 /\ DOMAIN run = 1..j - i + 1
      /\ \A k \in 1..j - i + 1 : run[k] = s[i + k - 1]
  <2>1. \A k \in i..j : s[k] \in X
    <3> TAKE k \in i..j
    <3>1. k \in 1..Len(s)
      BY <1>1
    <3> QED
      BY <3>1
  <2>2. /\ run \in Seq(X) /\ Len(run) = IF i <= j THEN j - i + 1 ELSE 0
        /\ \A k \in 1..j - i + 1 : run[k] = s[i + k - 1]
    BY <1>1, <2>1, SubSeqProperties
  <2> HIDE DEF run
  <2>3. DOMAIN run = 1..Len(run)
    BY <2>2
  <2> QED
    BY <1>1, <2>2, <2>3
<1> HIDE DEF run
<1>3. ToSet(run) = {s[k] : k \in i..j}
  <2>1. ASSUME NEW k \in 1..j - i + 1 PROVE i + k - 1 \in i..j
    BY <1>1
  <2>2. ASSUME NEW k \in i..j PROVE k - i + 1 \in 1..j - i + 1 /\ i + (k - i + 1) - 1 = k
    BY <1>1
  <2>3. ToSet(run) = {run[k] : k \in 1..j - i + 1}
    BY <1>2 DEF ToSet
  <2>4. ASSUME NEW k \in 1..j - i + 1 PROVE run[k] \in {s[m] : m \in i..j}
    <3>1. run[k] = s[i + k - 1]
      BY <1>2
    <3> QED
      BY <2>1, <3>1
  <2>5. ASSUME NEW k \in i..j PROVE s[k] \in {run[m] : m \in 1..j - i + 1}
    <3>1. run[k - i + 1] = s[k]
      BY <1>2, <2>2
    <3> QED
      BY <2>2, <3>1
  <2> QED
    BY <2>3, <2>4, <2>5
<1>4. ASSUME i <= j PROVE run # <<>> /\ Last(run) = s[j]
  <2>1. j - i + 1 \in 1..j - i + 1 /\ i + (j - i + 1) - 1 = j
    BY <1>1, <1>4
  <2>2. run[j - i + 1] = s[j]
    BY <1>2, <2>1
  <2>3. Len(run) # 0
    BY <1>1, <1>2, <1>4
  <2> QED
    BY <1>2, <2>2, <2>3 DEF Last
<1> QED
  BY <1>2, <1>3, <1>4 DEF run

LEMMA RunGrows ==
  ASSUME NEW X, NEW s \in Seq(X), NEW i \in 1..Len(s), NEW j \in i - 1..Len(s) - 1
  PROVE  Append(SubSeq(s, i, j), s[j + 1]) = SubSeq(s, i, j + 1)
<1> DEFINE a == Append(SubSeq(s, i, j), s[j + 1])
           b == SubSeq(s, i, j + 1)
<1>1. i \in Int /\ j \in Int /\ Len(s) \in Nat /\ i \in 1..Len(s) + 1 /\ j \in i - 1..Len(s)
      /\ j + 1 \in i - 1..Len(s) /\ j + 1 \in 1..Len(s) /\ (j + 1) - i + 1 = j - i + 2
      /\ j - i + 1 >= 0
  OBVIOUS
<1>2. /\ SubSeq(s, i, j) \in Seq(X) /\ Len(SubSeq(s, i, j)) = j - i + 1
      /\ \A k \in 1..j - i + 1 : SubSeq(s, i, j)[k] = s[i + k - 1]
  BY <1>1, RunIs
<1>3. b \in Seq(X) /\ Len(b) = j - i + 2 /\ \A k \in 1..j - i + 2 : b[k] = s[i + k - 1]
  BY <1>1, RunIs
<1>4. s[j + 1] \in X
  BY <1>1
<1>5. /\ a \in Seq(X) /\ Len(a) = j - i + 2 /\ a[j - i + 2] = s[j + 1]
      /\ \A k \in 1..j - i + 1 : a[k] = s[i + k - 1]
  BY <1>1, <1>2, <1>4, AppendProperties
<1> HIDE DEF a, b
<1>6. ASSUME NEW k \in 1..j - i + 2 PROVE a[k] = b[k]
  <2>1. CASE k = j - i + 2
    <3>1. i + k - 1 = j + 1
      BY <1>1, <2>1
    <3> QED
      BY <1>3, <1>5, <2>1, <3>1
  <2>2. CASE k # j - i + 2
    <3>1. k \in 1..j - i + 1
      BY <1>1, <2>2
    <3> QED
      BY <1>3, <1>5, <3>1
  <2> QED
    BY <2>1, <2>2
<1>7. a = b
  <2>1. Len(a) = Len(b) /\ \A k \in 1..Len(a) : a[k] = b[k]
    BY <1>3, <1>5, <1>6
  <2> QED
    BY <1>3, <1>5, <2>1, SeqEqual
<1> QED
  BY <1>7 DEF a, b

LEMMA RunOfRun ==
  ASSUME NEW X, NEW s \in Seq(X), NEW i \in 1..Len(s) + 1, NEW j \in i - 1..Len(s),
         NEW k \in 1..j - i + 2, NEW m \in k - 1..j - i + 1
  PROVE  SubSeq(SubSeq(s, i, j), k, m) = SubSeq(s, i + k - 1, i + m - 1)
<1> DEFINE r == SubSeq(s, i, j)
           a == SubSeq(r, k, m)
           b == SubSeq(s, i + k - 1, i + m - 1)
<1>1. i \in Int /\ j \in Int /\ k \in Int /\ m \in Int /\ Len(s) \in Nat
  OBVIOUS
<1>2. r \in Seq(X) /\ Len(r) = j - i + 1 /\ \A x \in 1..j - i + 1 : r[x] = s[i + x - 1]
  BY RunIs
<1> HIDE DEF r
<1>3. k \in 1..Len(r) + 1 /\ m \in k - 1..Len(r)
  BY <1>1, <1>2
<1>4. a \in Seq(X) /\ Len(a) = m - k + 1 /\ \A x \in 1..m - k + 1 : a[x] = r[k + x - 1]
  <2>1. r \in Seq(X)
    BY <1>2
  <2>2. SubSeq(r, k, m) \in Seq(X) /\ Len(SubSeq(r, k, m)) = m - k + 1
    BY <1>3, <2>1, RunIs
  <2>3. \A x \in 1..m - k + 1 : SubSeq(r, k, m)[x] = r[k + x - 1]
    BY <1>3, <2>1, RunIs
  <2> QED
    BY <2>2, <2>3
<1>5. /\ i + k - 1 \in 1..Len(s) + 1 /\ i + m - 1 \in (i + k - 1) - 1..Len(s)
      /\ (i + m - 1) - (i + k - 1) + 1 = m - k + 1
  BY <1>1
<1>6. b \in Seq(X) /\ Len(b) = m - k + 1 /\ \A x \in 1..m - k + 1 : b[x] = s[(i + k - 1) + x - 1]
  BY <1>5, RunIs
<1> HIDE DEF a, b
<1>7. ASSUME NEW x \in 1..m - k + 1 PROVE a[x] = b[x]
  <2>1. k + x - 1 \in 1..j - i + 1 /\ i + (k + x - 1) - 1 = (i + k - 1) + x - 1
    <3>1. x \in Int /\ 1 <= x /\ x <= m - k + 1 /\ 1 <= k /\ m <= j - i + 1
      BY <1>1
    <3> QED
      BY <1>1, <3>1
  <2> QED
    BY <1>2, <1>4, <1>6, <2>1
<1>8. Len(a) = Len(b) /\ \A x \in 1..Len(a) : a[x] = b[x]
  BY <1>4, <1>6, <1>7
<1>9. a = b
  BY <1>4, <1>6, <1>8, SeqEqual
<1> QED
  BY <1>9 DEF a, b, r

UnitSet == [page : Nat, at : Nat, chars : Nat, tokens : Nat]
ChunkSet == [units : Seq(UnitSet), piece : Nat]

\* A chunk by the places of its first and its last paragraph.
RunSet == [first : Nat, last : Nat, piece : Nat]
Within(x) == x.first..x.last
Bulk(units, i, j) == TokensOf(SubSeq(units, i, j))

\* A run of paragraphs that can be packed, or one that is cut.
Whole(units, max, overlap, n, x) ==
  /\ x.first \in 1..n /\ x.last \in x.first..n
  /\ IF x.piece = 0
     THEN /\ Bulk(units, x.first, x.last) <= max + overlap
          /\ \A j \in Within(x) : units[j].tokens <= max
     ELSE x.first = x.last /\ units[x.first].tokens > max

\* The run after x.
Follows(units, overlap, x, y) ==
  IF y.piece > 1 THEN x.last = y.last
  ELSE /\ x.last < y.last
       /\ y.piece = 0 => \E m \in y.first - 1..y.last - 1 :
                            x.last <= m /\ Bulk(units, y.first, m) <= overlap

\* The j-th paragraph is in its pieces or in a run, or not yet in any but still packed.
Held(units, max, runs, from, j) ==
  IF units[j].tokens > max
  THEN \E k \in Nat : LET n == PieceCount(units[j], max) IN
         /\ k + n <= Len(runs)
         /\ {i \in 1..Len(runs) : j \in Within(runs[i])} = k + 1 .. k + n
         /\ \A p \in 1..n : runs[k + p] = [first |-> j, last |-> j, piece |-> p]
  ELSE from <= j \/ \E k \in 1..Len(runs) : j \in Within(runs[k])

\* After n paragraphs: what is emitted is these runs, and the buffer starts at from.
Good(units, max, overlap, runs, from, n) ==
  /\ runs \in Seq(RunSet) /\ n \in 0..Len(units) /\ from \in 1..n + 1
  /\ \A k \in 1..Len(runs) : Whole(units, max, overlap, n, runs[k])
  /\ \A k \in 2..Len(runs) : Follows(units, overlap, runs[k - 1], runs[k])
  /\ \A j \in from..n : units[j].tokens <= max
  /\ Bulk(units, from, n) <= max + overlap
  /\ runs # <<>> /\ from <= n =>
       Follows(units, overlap, runs[Len(runs)], [first |-> from, last |-> n, piece |-> 0])
  /\ \A j \in 1..n : Held(units, max, runs, from, j)

LEMMA BulkIs ==
  ASSUME NEW units \in Seq(UnitSet)
  PROVE  /\ \A i \in 1..Len(units) + 1 : Bulk(units, i, i - 1) = 0
         /\ \A i \in 1..Len(units) + 1 : \A j \in i - 1..Len(units) : Bulk(units, i, j) \in Nat
         /\ \A i \in 1..Len(units) : \A j \in i - 1..Len(units) - 1 :
              Bulk(units, i, j + 1) = Bulk(units, i, j) + units[j + 1].tokens
<1>1. \A u \in UnitSet : u.tokens \in Nat
  BY DEF UnitSet
<1>2. ASSUME NEW i \in 1..Len(units) + 1 PROVE Bulk(units, i, i - 1) = 0
  <2>1. i \in Int /\ i - 1 \in Int /\ i - 1 < i
    OBVIOUS
  <2>2. SubSeq(units, i, i - 1) = <<>>
    BY <2>1, SubSeqEmpty
  <2> QED
    BY <1>1, <2>2, TokensAppend DEF Bulk
<1>3. ASSUME NEW i \in 1..Len(units) + 1, NEW j \in i - 1..Len(units)
      PROVE  SubSeq(units, i, j) \in Seq(UnitSet) /\ Bulk(units, i, j) \in Nat
  <2>1. SubSeq(units, i, j) \in Seq(UnitSet)
    BY RunIs
  <2> QED
    BY <1>1, <2>1, TokensAppend DEF Bulk
<1>4. ASSUME NEW i \in 1..Len(units), NEW j \in i - 1..Len(units) - 1
      PROVE  Bulk(units, i, j + 1) = Bulk(units, i, j) + units[j + 1].tokens
  <2>1. i \in 1..Len(units) + 1 /\ j \in i - 1..Len(units) /\ j + 1 \in 1..Len(units)
    OBVIOUS
  <2>2. SubSeq(units, i, j) \in Seq(UnitSet) /\ units[j + 1] \in UnitSet
    BY <1>3, <2>1
  <2>3. SubSeq(units, i, j + 1) = Append(SubSeq(units, i, j), units[j + 1])
    BY RunGrows
  <2> QED
    BY <1>1, <2>2, <2>3, TokensAppend DEF Bulk
<1> QED
  BY <1>2, <1>3, <1>4

\* What is emitted later leaves a paragraph where it was.
LEMMA HeldLater ==
  ASSUME NEW units, NEW max, NEW from, NEW from2, NEW j, PieceCount(units[j], max) \in Nat,
         NEW r \in Seq(RunSet), NEW t \in Seq(RunSet), Len(r) <= Len(t),
         \A k \in 1..Len(r) : t[k] = r[k], Held(units, max, r, from, j),
         units[j].tokens > max => \A k \in Len(r) + 1..Len(t) : j \notin Within(t[k]),
         ~(units[j].tokens > max) /\ from <= j =>
            from2 <= j \/ \E k \in 1..Len(t) : j \in Within(t[k])
  PROVE  Held(units, max, t, from2, j)
<1> DEFINE n == PieceCount(units[j], max)
<1>1. Len(r) \in Nat /\ Len(t) \in Nat /\ n \in Nat
  OBVIOUS
<1>2. CASE units[j].tokens > max
  <2> HIDE DEF n
  <2>1. PICK k \in Nat : /\ k + n <= Len(r)
                         /\ {i \in 1..Len(r) : j \in Within(r[i])} = k + 1 .. k + n
                         /\ \A p \in 1..n : r[k + p] = [first |-> j, last |-> j, piece |-> p]
    BY <1>2 DEF Held, n
  <2>2. {i \in 1..Len(t) : j \in Within(t[i])} = {i \in 1..Len(r) : j \in Within(r[i])}
    <3>1. \A i \in 1..Len(t) : i \in 1..Len(r) \/ i \in Len(r) + 1..Len(t)
      BY <1>1
    <3>2. \A i \in 1..Len(r) : i \in 1..Len(t)
      BY <1>1
    <3> QED
      BY <1>2, <3>1, <3>2
  <2>3. \A p \in 1..n : t[k + p] = [first |-> j, last |-> j, piece |-> p]
    <3> TAKE p \in 1..n
    <3>1. k + p \in 1..Len(r)
      BY <1>1, <2>1
    <3>2. t[k + p] = r[k + p]
      BY <3>1
    <3> QED
      BY <2>1, <3>2
  <2>4. k + n <= Len(t)
    BY <1>1, <2>1
  <2> QED
    BY <1>2, <2>1, <2>2, <2>3, <2>4 DEF Held, n
<1>3. CASE ~(units[j].tokens > max)
  <2>1. \A k \in 1..Len(r) : k \in 1..Len(t)
    BY <1>1
  <2>2. from <= j \/ \E k \in 1..Len(r) : j \in Within(r[k])
    BY <1>3 DEF Held
  <2>3. from2 <= j \/ \E k \in 1..Len(t) : j \in Within(t[k])
    BY <1>3, <2>1, <2>2
  <2> QED
    BY <1>3, <2>3 DEF Held
<1> QED
  BY <1>2, <1>3

LEMMA EstimateIs ==
  ASSUME NEW n \in Nat
  PROVE  Tokens(n) \in Nat /\ Tokens(n) >= 1
<1> DEFINE quarter == n \div 4
           m == Max({1, quarter})
<1>1. quarter \in Int /\ 1 \in Int
  OBVIOUS
<1>2. Tokens(n) = m
  BY DEF Tokens, CharsPerToken
<1> HIDE DEF quarter
<1>3. m \in {1, quarter} /\ m >= 1
  BY <1>1, TwoOf
<1> HIDE DEF m
<1> QED
  BY <1>1, <1>2, <1>3

LEMMA PieceCountIs ==
  ASSUME NEW u \in UnitSet, NEW max \in Nat \ {0}
  PROVE  PieceCount(u, max) \in Nat
<1> DEFINE limit == max * CharsPerToken
<1>1. limit \in Nat \ {0}
  BY DEF CharsPerToken
<1> HIDE DEF limit
<1>2. u.chars + limit - 1 \in Nat
  BY <1>1 DEF UnitSet
<1>3. \A a \in Nat : a \div limit \in Nat
  BY <1>1
<1> QED
  BY <1>2, <1>3 DEF PieceCount, limit

\* The buffer is emitted.
LEMMA FlushGood ==
  ASSUME NEW units \in Seq(UnitSet), NEW max \in Nat \ {0}, NEW overlap \in Nat,
         NEW r, NEW from, NEW n, Good(units, max, overlap, r, from, n), from <= n
  PROVE  Good(units, max, overlap, Append(r, [first |-> from, last |-> n, piece |-> 0]), n + 1, n)
<1> DEFINE x == [first |-> from, last |-> n, piece |-> 0]
           t == Append(r, x)
<1>1. /\ r \in Seq(RunSet) /\ n \in 0..Len(units) /\ from \in 1..n + 1 /\ n + 1 \in 1..n + 1
      /\ n \in Nat /\ from \in Nat /\ n \in 1..n /\ from \in 1..n /\ n \in from..n
      /\ n + 1 \in 1..Len(units) + 1 /\ Len(r) \in Nat /\ Len(units) \in Nat /\ (n + 1) - 1 = n
  BY DEF Good
<1>2. x \in RunSet /\ x.first = from /\ x.last = n /\ x.piece = 0 /\ Within(x) = from..n
  BY <1>1 DEF RunSet, Within
<1> HIDE DEF x
<1>3. /\ t \in Seq(RunSet) /\ Len(t) = Len(r) + 1 /\ t[Len(r) + 1] = x
      /\ \A k \in 1..Len(r) : t[k] = r[k]
  BY <1>1, <1>2, AppendProperties
<1> HIDE DEF t
<1>4. Whole(units, max, overlap, n, x)
  BY <1>1, <1>2 DEF Good, Whole
<1>5. \A k \in 1..Len(t) : k \in 1..Len(r) \/ k = Len(r) + 1
  BY <1>1, <1>3
<1>6. \A k \in 1..Len(t) : Whole(units, max, overlap, n, t[k])
  BY <1>1, <1>3, <1>4, <1>5 DEF Good
<1>7. ASSUME NEW k \in 2..Len(t) PROVE Follows(units, overlap, t[k - 1], t[k])
  <2>1. CASE k <= Len(r)
    <3>1. k \in 2..Len(r) /\ k \in 1..Len(r) /\ k - 1 \in 1..Len(r)
      BY <1>1, <2>1
    <3>2. Follows(units, overlap, r[k - 1], r[k])
      BY <3>1 DEF Good
    <3> QED
      BY <1>3, <3>1, <3>2
  <2>2. CASE k = Len(r) + 1
    <3>1. k - 1 = Len(r) /\ Len(r) \in 1..Len(r) /\ r # <<>>
      BY <1>1, <2>2
    <3>2. Follows(units, overlap, r[Len(r)], x)
      BY <3>1 DEF Good, x
    <3> QED
      BY <1>3, <2>2, <3>1, <3>2
  <2>3. k <= Len(r) \/ k = Len(r) + 1
    BY <1>1, <1>3
  <2> QED
    BY <2>1, <2>2, <2>3
<1>8. Bulk(units, n + 1, n) <= max + overlap
  <2>1. Bulk(units, n + 1, n) = 0
    BY <1>1, BulkIs
  <2> QED
    BY <2>1
<1>9. ASSUME NEW j \in 1..n PROVE Held(units, max, t, n + 1, j)
  <2>1. Held(units, max, r, from, j)
    BY DEF Good
  <2>2. j \in 1..Len(units)
    BY <1>1
  <2>3. PieceCount(units[j], max) \in Nat
    BY <2>2, PieceCountIs
  <2>4. Len(r) + 1 \in 1..Len(t) /\ \A k \in Len(r) + 1..Len(t) : k = Len(r) + 1
    BY <1>1, <1>3
  <2>5. from <= j => j \in Within(t[Len(r) + 1])
    BY <1>1, <1>2, <1>3
  <2>6. units[j].tokens > max => \A k \in Len(r) + 1..Len(t) : j \notin Within(t[k])
    <3>1. \A i \in from..n : units[i].tokens <= max
      BY DEF Good
    <3>2. units[j].tokens \in Nat /\ units[j].tokens > max => ~(units[j].tokens <= max)
      OBVIOUS
    <3>3. units[j].tokens \in Nat
      <4>1. units[j] \in UnitSet
        BY <2>2
      <4> QED
        BY <4>1 DEF UnitSet
    <3> QED
      BY <1>2, <1>3, <2>4, <3>1, <3>2, <3>3
  <2>7. Len(r) <= Len(t)
    BY <1>1, <1>3
  <2> QED
    BY <1>1, <1>3, <2>1, <2>3, <2>4, <2>5, <2>6, <2>7, HeldLater
<1>10. \A j \in n + 1..n : units[j].tokens <= max
  BY <1>1
<1>11. ~(n + 1 <= n)
  BY <1>1
<1>12. Good(units, max, overlap, t, n + 1, n)
  BY <1>1, <1>3, <1>6, <1>7, <1>8, <1>9, <1>10, <1>11 DEF Good
<1> QED
  BY <1>12 DEF t, x

\* A paragraph too long for a chunk is cut.
LEMMA CutGood ==
  ASSUME NEW units \in Seq(UnitSet), NEW max \in Nat \ {0}, NEW overlap \in Nat,
         NEW r, NEW n \in 0..Len(units) - 1, Good(units, max, overlap, r, n + 1, n),
         units[n + 1].tokens > max,
         NEW c, c = PieceCount(units[n + 1], max)
  PROVE  Good(units, max, overlap,
              r \o [p \in 1..c |-> [first |-> n + 1, last |-> n + 1, piece |-> p]], n + 2, n + 1)
<1> DEFINE x(p) == [first |-> n + 1, last |-> n + 1, piece |-> p]
           e == [p \in 1..c |-> x(p)]
           t == r \o e
<1>1. /\ r \in Seq(RunSet) /\ n \in Nat /\ n + 1 \in 0..Len(units) /\ n + 2 \in 1..(n + 1) + 1
      /\ n + 1 \in 1..Len(units) /\ n + 2 \in 1..Len(units) + 1
      /\ Len(r) \in Nat /\ Len(units) \in Nat /\ (n + 2) - 1 = n + 1 /\ \A j \in 1..n : j \in 1..n + 1
      /\ \A j \in 1..n + 1 : j \in 1..n \/ j = n + 1
  <2>1. r \in Seq(RunSet)
    BY DEF Good
  <2>2. Len(r) \in Nat
    BY <2>1
  <2>3. Len(units) \in Nat
    OBVIOUS
  <2>4. n \in Nat /\ n + 1 <= Len(units)
    BY <2>3
  <2> QED
    BY <2>1, <2>2, <2>3, <2>4
<1>2. units[n + 1] \in UnitSet /\ c \in Nat
  <2>1. units[n + 1] \in UnitSet
    BY <1>1
  <2> QED
    BY <2>1, PieceCountIs
<1>3. ASSUME NEW p \in Nat
      PROVE  /\ x(p) \in RunSet /\ x(p).first = n + 1 /\ x(p).last = n + 1 /\ x(p).piece = p
             /\ Within(x(p)) = {n + 1}
  <2>1. n + 1 \in Int /\ n + 1 \in Nat
    BY <1>1
  <2>2. (n + 1)..(n + 1) = {n + 1}
    BY <2>1
  <2> QED
    BY <1>1, <2>1, <2>2 DEF RunSet, Within
<1>4. e \in Seq(RunSet) /\ Len(e) = c /\ \A p \in 1..c : e[p] = x(p) /\ p \in Nat
  <2>1. \A p \in 1..c : p \in Nat
    BY <1>2
  <2>2. \A p \in 1..c : x(p) \in RunSet
    BY <1>3, <2>1
  <2> HIDE DEF x
  <2>3. e \in [1..c -> RunSet] /\ \A p \in 1..c : e[p] = x(p)
    BY <2>2
  <2> HIDE DEF e
  <2>4. e \in Seq(RunSet) /\ Len(e) = c
    BY <1>2, <2>3
  <2> QED
    BY <2>1, <2>3, <2>4
<1>5. t = r \o e
  OBVIOUS
<1> HIDE DEF t, e, x
<1>6. /\ t \in Seq(RunSet) /\ Len(t) = Len(r) + c
      /\ \A k \in 1..Len(r) : t[k] = r[k]
      /\ \A p \in 1..c : t[Len(r) + p] = x(p)
  <2>1. /\ t \in Seq(RunSet) /\ Len(t) = Len(r) + c
        /\ \A i \in 1..Len(r) + c : t[i] = IF i <= Len(r) THEN r[i] ELSE e[i - Len(r)]
    <3>1. /\ r \o e \in Seq(RunSet) /\ Len(r \o e) = Len(r) + Len(e)
          /\ \A i \in 1..Len(r) + Len(e) : (r \o e)[i] = IF i <= Len(r) THEN r[i] ELSE e[i - Len(r)]
      BY <1>1, <1>4, ConcatProperties
    <3> QED
      BY <1>4, <1>5, <3>1
  <2>2. \A k \in 1..Len(r) : k \in 1..Len(r) + c /\ k <= Len(r)
    BY <1>1, <1>2
  <2>3. \A p \in 1..c : Len(r) + p \in 1..Len(r) + c /\ ~(Len(r) + p <= Len(r))
                        /\ (Len(r) + p) - Len(r) = p
    BY <1>1, <1>2
  <2> QED
    BY <1>4, <2>1, <2>2, <2>3
<1>7. \A k \in 1..Len(t) : k \in 1..Len(r) \/ \E p \in 1..c : k = Len(r) + p
  <2> TAKE k \in 1..Len(t)
  <2>1. k \in 1..Len(r) \/ (k - Len(r) \in 1..c /\ k = Len(r) + (k - Len(r)))
    BY <1>1, <1>2, <1>6
  <2> QED
    BY <2>1
<1>8. ASSUME NEW k \in 1..Len(t) PROVE Whole(units, max, overlap, n + 1, t[k])
  <2>1. CASE k \in 1..Len(r)
    <3>1. Whole(units, max, overlap, n, r[k])
      BY <2>1 DEF Good
    <3>2. r[k] \in RunSet
      BY <1>1, <2>1
    <3>3. \A i \in 1..n : \A j \in i..n : i \in 1..n + 1 /\ j \in i..n + 1
      BY <1>1
    <3>4. Whole(units, max, overlap, n + 1, r[k])
      BY <3>1, <3>3 DEF Whole
    <3> QED
      BY <1>6, <2>1, <3>4
  <2>2. CASE \E p \in 1..c : k = Len(r) + p
    <3>1. PICK p \in 1..c : k = Len(r) + p
      BY <2>2
    <3>2. t[k] = x(p) /\ p \in Nat /\ p # 0
      <4>1. p \in Nat /\ p # 0
        BY <1>2
      <4>2. t[Len(r) + p] = x(p)
        BY <1>6
      <4> QED
        BY <3>1, <4>1, <4>2
    <3>3. n + 1 \in 1..n + 1 /\ n + 1 \in n + 1..n + 1
      BY <1>1
    <3> QED
      BY <1>3, <3>2, <3>3 DEF Whole
  <2> QED
    BY <1>7, <2>1, <2>2
<1>9. ASSUME NEW k \in 2..Len(t) PROVE Follows(units, overlap, t[k - 1], t[k])
  <2>0. k \in Int /\ k - 1 \in 1..Len(t) /\ k \in 1..Len(t)
    BY <1>1, <1>2, <1>6
  <2>1. CASE k \in 1..Len(r)
    <3>1. k \in 2..Len(r) /\ k - 1 \in 1..Len(r)
      BY <1>1, <2>1
    <3>2. Follows(units, overlap, r[k - 1], r[k])
      BY <3>1 DEF Good
    <3> QED
      BY <1>6, <2>1, <3>1, <3>2
  <2>2. CASE \E p \in 1..c : k = Len(r) + p
    <3>1. PICK p \in 1..c : k = Len(r) + p
      BY <2>2
    <3>2. t[k] = x(p) /\ p \in Nat /\ p # 0 /\ p \in Int
      <4>1. t[Len(r) + p] = x(p)
        BY <1>6
      <4>2. p \in Nat /\ p # 0 /\ p \in Int
        BY <1>2
      <4> QED
        BY <3>1, <4>1, <4>2
    <3>3. CASE p = 1
      <4>1. k - 1 = Len(r) /\ Len(r) \in 1..Len(r)
        BY <1>1, <2>0, <3>1, <3>3
      <4>2. t[k - 1] = r[Len(r)] /\ Whole(units, max, overlap, n, r[Len(r)])
        BY <1>6, <4>1 DEF Good
      <4>3. \A i \in 1..n : \A j \in i..n : j < n + 1
        BY <1>1
      <4>4. r[Len(r)].last < n + 1
        BY <4>2, <4>3 DEF Whole
      <4>5. t[k].last = n + 1 /\ t[k].piece = 1
        BY <1>3, <3>2, <3>3
      <4>6. ~(1 > 1) /\ 1 # 0
        OBVIOUS
      <4> QED
        BY <4>2, <4>4, <4>5, <4>6 DEF Follows
    <3>4. CASE p # 1
      <4>1. k - 1 = Len(r) + (p - 1) /\ p - 1 \in 1..c /\ p - 1 \in Nat /\ p > 1
        BY <1>1, <1>2, <3>1, <3>2, <3>4
      <4>2. t[k - 1] = x(p - 1)
        BY <1>6, <4>1
      <4>3. x(p).last = n + 1 /\ x(p).piece = p /\ x(p - 1).last = n + 1
        BY <1>3, <3>2, <4>1
      <4> QED
        BY <3>2, <4>1, <4>2, <4>3 DEF Follows
    <3> QED
      BY <3>3, <3>4
  <2> QED
    BY <1>7, <2>0, <2>1, <2>2
<1>10. Bulk(units, n + 2, n + 1) <= max + overlap
  <2>1. Bulk(units, n + 2, n + 1) = 0
    BY <1>1, BulkIs
  <2> QED
    BY <2>1
<1>11. \A i \in 1..Len(r) : n + 1 \notin Within(r[i])
  <2> TAKE i \in 1..Len(r)
  <2>1. Whole(units, max, overlap, n, r[i])
    BY DEF Good
  <2>2. \A a \in 1..n : \A b \in a..n : n + 1 \notin a..b
    BY <1>1
  <2> QED
    BY <2>1, <2>2 DEF Whole, Within
<1>12. ASSUME NEW j \in 1..n + 1 PROVE Held(units, max, t, n + 2, j)
  <2>1. CASE j \in 1..n
    <3>1. Held(units, max, r, n + 1, j)
      BY <2>1 DEF Good
    <3>2. j \in 1..Len(units) /\ ~(n + 1 <= j)
      BY <1>1, <2>1
    <3>3. PieceCount(units[j], max) \in Nat
      <4>1. units[j] \in UnitSet
        BY <3>2
      <4> QED
        BY <4>1, PieceCountIs
    <3>4. ASSUME NEW k \in Len(r) + 1..Len(t) PROVE j \notin Within(t[k])
      <4>1. k \in 1..Len(t) /\ k \notin 1..Len(r)
        <5>1. Len(r) \in Nat /\ Len(t) \in Int
          BY <1>1, <1>2, <1>6
        <5> QED
          BY <5>1
      <4>2. PICK p \in 1..c : k = Len(r) + p
        <5>1. k \in 1..Len(r) \/ \E p \in 1..c : k = Len(r) + p
          BY <1>7, <4>1, Zenon
        <5> QED
          BY <4>1, <5>1, Zenon
      <4>3. Within(t[k]) = {n + 1}
        BY <1>3, <1>4, <1>6, <4>2
      <4>4. j # n + 1
        BY <1>1, <2>1
      <4> QED
        BY <4>3, <4>4
    <3>5. Len(r) <= Len(t)
      BY <1>1, <1>2, <1>6
    <3>7. units[j].tokens > max => \A k \in Len(r) + 1..Len(t) : j \notin Within(t[k])
      BY <3>4
    <3>8. r \in Seq(RunSet) /\ t \in Seq(RunSet) /\ \A k \in 1..Len(r) : t[k] = r[k]
      BY <1>1, <1>6
    <3> DEFINE a == n + 1
               b == n + 2
    <3>9. Held(units, max, r, a, j)
      BY <3>1
    <3>10. ~(units[j].tokens > max) /\ a <= j => b <= j \/ \E k \in 1..Len(t) : j \in Within(t[k])
      BY <3>2
    <3> HIDE DEF a, b
    <3>11. Held(units, max, t, b, j)
      BY <3>3, <3>5, <3>7, <3>8, <3>9, <3>10, HeldLater
    <3> QED
      BY <3>11 DEF b
  <2>2. CASE j = n + 1
    <3>1. {i \in 1..Len(t) : j \in Within(t[i])} = Len(r) + 1 .. Len(r) + c
      <4>1. ASSUME NEW i \in 1..Len(t), j \in Within(t[i]) PROVE i \in Len(r) + 1 .. Len(r) + c
        <5>1. i \notin 1..Len(r)
          BY <1>6, <1>11, <2>2, <4>1
        <5> QED
          BY <1>1, <1>2, <1>6, <5>1
      <4>2. ASSUME NEW i \in Len(r) + 1 .. Len(r) + c PROVE i \in 1..Len(t) /\ j \in Within(t[i])
        <5>1. i \in 1..Len(t) /\ i \notin 1..Len(r)
          BY <1>1, <1>2, <1>6
        <5>2. PICK p \in 1..c : i = Len(r) + p
          BY <1>7, <5>1
        <5>3. Within(t[i]) = {n + 1}
          BY <1>3, <1>4, <1>6, <5>2
        <5> QED
          BY <2>2, <5>1, <5>3
      <4> QED
        BY <4>1, <4>2
    <3>2. \A p \in 1..c : t[Len(r) + p] = [first |-> j, last |-> j, piece |-> p]
      BY <1>6, <2>2 DEF x
    <3>3. Len(r) \in Nat /\ Len(r) + c <= Len(t)
      BY <1>1, <1>2, <1>6
    <3>4. units[j].tokens > max /\ c = PieceCount(units[j], max)
      BY <2>2
    <3> QED
      BY <3>1, <3>2, <3>3, <3>4 DEF Held
  <2> QED
    BY <1>1, <2>1, <2>2
<1>13. /\ \A j \in n + 2..n + 1 : units[j].tokens <= max
       /\ ~(n + 2 <= n + 1)
  BY <1>1
<1>14. Good(units, max, overlap, t, n + 2, n + 1)
  BY <1>1, <1>6, <1>8, <1>9, <1>10, <1>12, <1>13 DEF Good
<1> QED
  BY <1>14 DEF t, e, x

\* A paragraph is packed: the buffer is the rest of what has been emitted, or grows.
LEMMA PackGood ==
  ASSUME NEW units \in Seq(UnitSet), NEW max \in Nat \ {0}, NEW overlap \in Nat,
         NEW r, NEW from, NEW n \in 0..Len(units) - 1, Good(units, max, overlap, r, from, n),
         units[n + 1].tokens <= max,
         NEW f \in 1..n + 1,
         \/ f = from /\ from <= n /\ Bulk(units, from, n) + units[n + 1].tokens <= max
         \/ from = n + 1 /\ Bulk(units, f, n) <= overlap /\ \A j \in f..n : units[j].tokens <= max
  PROVE  Good(units, max, overlap, r, f, n + 1)
<1>1. /\ r \in Seq(RunSet) /\ n \in Nat /\ n + 1 \in 0..Len(units) /\ from \in 1..n + 1
      /\ n + 1 \in 1..Len(units) /\ f \in 1..(n + 1) + 1 /\ f \in 1..Len(units) /\ n \in f - 1..Len(units) - 1
      /\ Len(r) \in Nat /\ Len(units) \in Nat /\ \A j \in 1..n : j \in 1..Len(units)
      /\ \A j \in 1..n + 1 : j \in 1..n \/ j = n + 1
  BY DEF Good
<1>2. units[n + 1].tokens \in Nat /\ Bulk(units, f, n) \in Nat
      /\ Bulk(units, f, n + 1) = Bulk(units, f, n) + units[n + 1].tokens
  <2>1. units[n + 1] \in UnitSet
    BY <1>1
  <2>2. f \in 1..Len(units) + 1 /\ n \in f - 1..Len(units)
    BY <1>1
  <2> QED
    BY <1>1, <2>1, <2>2, BulkIs DEF UnitSet
<1>3. \A k \in 1..Len(r) : Whole(units, max, overlap, n + 1, r[k])
  <2> TAKE k \in 1..Len(r)
  <2>1. Whole(units, max, overlap, n, r[k])
    BY DEF Good
  <2>2. \A i \in 1..n : \A j \in i..n : i \in 1..n + 1 /\ j \in i..n + 1
    BY <1>1
  <2> QED
    BY <2>1, <2>2 DEF Whole
<1>4. \A j \in f..n : units[j].tokens <= max
  BY DEF Good
<1>5. \A j \in f..n + 1 : units[j].tokens <= max
  <2>1. \A j \in f..n + 1 : j \in f..n \/ j = n + 1
    BY <1>1
  <2> QED
    BY <1>4, <2>1
<1>6. Bulk(units, f, n + 1) <= max + overlap
  <2> DEFINE w == Bulk(units, f, n)
             u == units[n + 1].tokens
  <2>1. w \in Nat /\ u \in Nat /\ u <= max /\ Bulk(units, f, n + 1) = w + u
    BY <1>2
  <2>2. w + u <= max \/ w <= overlap
    OBVIOUS
  <2> HIDE DEF w, u
  <2> QED
    BY <2>1, <2>2
<1>7. ASSUME r # <<>>
      PROVE  Follows(units, overlap, r[Len(r)], [first |-> f, last |-> n + 1, piece |-> 0])
  <2> DEFINE y == [first |-> f, last |-> n + 1, piece |-> 0]
             p == r[Len(r)]
  <2>1. Len(r) \in 1..Len(r)
    BY <1>1, <1>7
  <2>2. Whole(units, max, overlap, n, p)
    BY <2>1 DEF Good
  <2>3. p.last \in Int /\ p.last <= n /\ p.last < n + 1
    <3>1. \A i \in 1..n : \A j \in i..n : j \in Int /\ j <= n /\ j < n + 1
      BY <1>1
    <3> QED
      BY <2>2, <3>1 DEF Whole
  <2>4. y.first = f /\ y.last = n + 1 /\ y.piece = 0
    OBVIOUS
  <2>5. \E m \in f - 1..(n + 1) - 1 : p.last <= m /\ Bulk(units, f, m) <= overlap
    <3>1. CASE f = from /\ from <= n
      <4>1. Follows(units, overlap, p, [first |-> from, last |-> n, piece |-> 0])
        BY <1>7, <3>1 DEF Good
      <4>2. PICK m \in from - 1..n - 1 : p.last <= m /\ Bulk(units, from, m) <= overlap
        BY <4>1 DEF Follows
      <4>3. m \in f - 1..(n + 1) - 1
        BY <1>1, <3>1, <4>2
      <4> QED
        BY <3>1, <4>2, <4>3
    <3>2. CASE Bulk(units, f, n) <= overlap
      <4>1. n \in f - 1..(n + 1) - 1
        BY <1>1
      <4> QED
        BY <2>3, <3>2, <4>1
    <3> QED
      BY <3>1, <3>2
  <2> HIDE DEF y, p
  <2>6. Follows(units, overlap, p, y)
    BY <2>3, <2>4, <2>5 DEF Follows
  <2> QED
    BY <2>6 DEF y, p
<1>8. ASSUME NEW j \in 1..n + 1 PROVE Held(units, max, r, f, j)
  <2>1. CASE j \in 1..n
    <3>1. Held(units, max, r, from, j)
      BY <2>1 DEF Good
    <3>2. PieceCount(units[j], max) \in Nat
      <4>1. units[j] \in UnitSet
        BY <1>1, <2>1
      <4> QED
        BY <4>1, PieceCountIs
    <3>3. \A k \in Len(r) + 1..Len(r) : FALSE
      BY <1>1
    <3>4. from <= j => f <= j
      BY <1>1, <2>1
    <3>5. Len(r) <= Len(r)
      BY <1>1
    <3> QED
      BY <1>1, <3>1, <3>2, <3>3, <3>4, <3>5, HeldLater
  <2>2. CASE j = n + 1
    <3>1. f <= j /\ ~(units[j].tokens > max)
      BY <1>1, <1>2, <2>2
    <3> QED
      BY <3>1 DEF Held
  <2> QED
    BY <1>1, <2>1, <2>2
<1>9. \A k \in 2..Len(r) : Follows(units, overlap, r[k - 1], r[k])
  BY DEF Good
<1> QED
  BY <1>1, <1>3, <1>5, <1>6, <1>7, <1>8, <1>9 DEF Good

\* The chunks emitted are these runs, and what is packed is a run that ends at n.
Shows(units, runs, out) ==
  /\ runs \in Seq(RunSet) /\ out \in Seq(ChunkSet) /\ Len(out) = Len(runs)
  /\ \A k \in 1..Len(runs) :
       out[k] = [units |-> SubSeq(units, runs[k].first, runs[k].last), piece |-> runs[k].piece]

StateSet == [out : Seq(ChunkSet), buffer : Seq(UnitSet)]

Packs(units, max, overlap, n, state) ==
  /\ state \in StateSet
  /\ \E runs, from : /\ Good(units, max, overlap, runs, from, n)
                     /\ Shows(units, runs, state.out)
                     /\ state.buffer = SubSeq(units, from, n)

LEMMA OverlapIs ==
  ASSUME NEW s \in Seq(UnitSet), NEW overlap \in Nat
  PROVE  \E k \in 0..Len(s) : /\ Overlap(s, overlap) = SubSeq(s, k + 1, Len(s))
                              /\ TokensOf(SubSeq(s, k + 1, Len(s))) <= overlap
<1> DEFINE n == Len(s)
           fits == {k \in 0..n : TokensOf(SubSeq(s, k + 1, n)) <= overlap}
<1>1. n \in Nat
  OBVIOUS
<1>2. n \in fits
  <2>1. Bulk(s, n + 1, (n + 1) - 1) = 0 /\ (n + 1) - 1 = n /\ n + 1 \in 1..n + 1
    BY BulkIs
  <2>2. TokensOf(SubSeq(s, n + 1, n)) = 0
    BY <2>1 DEF Bulk
  <2>3. n \in 0..n
    BY <1>1
  <2> QED
    BY <2>2, <2>3
<1>3. fits \subseteq Int /\ IsFiniteSet(fits)
  <2>1. fits \in SUBSET (0..n)
    OBVIOUS
  <2> HIDE DEF fits, n
  <2>2. IsFiniteSet(0..n) /\ 0..n \subseteq Int
    BY <1>1, FS_Interval
  <2>3. IsFiniteSet(fits)
    BY <2>1, <2>2, FS_Subset
  <2>4. fits \subseteq Int
    BY <2>1, <2>2
  <2> QED
    BY <2>3, <2>4
<1>4. Overlap(s, overlap) = SubSeq(s, Min(fits) + 1, n)
  BY DEF Overlap
<1>5. Min(fits) \in fits
  <2> HIDE DEF fits
  <2> QED
    BY <1>2, <1>3, MinIs
<1> QED
  BY <1>4, <1>5

LEMMA EmitShows ==
  ASSUME NEW units \in Seq(UnitSet), NEW r, NEW out, Shows(units, r, out),
         NEW i \in 1..Len(units), NEW j \in i..Len(units)
  PROVE  Shows(units, Append(r, [first |-> i, last |-> j, piece |-> 0]),
               Append(out, Emit(SubSeq(units, i, j))))
<1> DEFINE x == [first |-> i, last |-> j, piece |-> 0]
           y == Emit(SubSeq(units, i, j))
           t == Append(r, x)
           o == Append(out, y)
<1>1. /\ x \in RunSet /\ i \in 1..Len(units) + 1 /\ j \in i - 1..Len(units) /\ Len(units) \in Nat
  BY DEF RunSet
<1>2. y = [units |-> SubSeq(units, x.first, x.last), piece |-> x.piece]
  BY DEF Emit
<1>3. y \in ChunkSet
  <2>1. SubSeq(units, i, j) \in Seq(UnitSet)
    BY <1>1, RunIs
  <2> QED
    BY <2>1 DEF Emit, ChunkSet
<1> HIDE DEF x, y
<1>4. /\ r \in Seq(RunSet) /\ out \in Seq(ChunkSet) /\ Len(out) = Len(r) /\ Len(r) \in Nat
      /\ \A k \in 1..Len(r) :
           out[k] = [units |-> SubSeq(units, r[k].first, r[k].last), piece |-> r[k].piece]
  <2>1. r \in Seq(RunSet)
    BY DEF Shows
  <2>2. Len(r) \in Nat
    BY <2>1
  <2>3. /\ out \in Seq(ChunkSet) /\ Len(out) = Len(r)
        /\ \A k \in 1..Len(r) :
             out[k] = [units |-> SubSeq(units, r[k].first, r[k].last), piece |-> r[k].piece]
    BY DEF Shows
  <2> QED
    BY <2>1, <2>2, <2>3
<1>5. /\ t \in Seq(RunSet) /\ Len(t) = Len(r) + 1 /\ t[Len(r) + 1] = x
      /\ \A k \in 1..Len(r) : t[k] = r[k]
  <2>1. x \in RunSet /\ r \in Seq(RunSet)
    BY <1>1, <1>4
  <2> QED
    BY <2>1, AppendProperties
<1>6. /\ o \in Seq(ChunkSet) /\ Len(o) = Len(r) + 1 /\ o[Len(r) + 1] = y
      /\ \A k \in 1..Len(r) : o[k] = out[k]
  <2>1. /\ o \in Seq(ChunkSet) /\ Len(o) = Len(out) + 1 /\ o[Len(out) + 1] = y
        /\ \A k \in 1..Len(out) : o[k] = out[k]
    BY <1>3, <1>4, AppendProperties
  <2> HIDE DEF o
  <2> QED
    BY <1>4, <2>1
<1> HIDE DEF t, o
<1>7. \A k \in 1..Len(t) : k \in 1..Len(r) \/ k = Len(r) + 1
  BY <1>4, <1>5
<1>8. ASSUME NEW k \in 1..Len(t)
      PROVE  o[k] = [units |-> SubSeq(units, t[k].first, t[k].last), piece |-> t[k].piece]
  <2>1. CASE k \in 1..Len(r)
    BY <1>4, <1>5, <1>6, <2>1
  <2>2. CASE k = Len(r) + 1
    BY <1>2, <1>5, <1>6, <2>2
  <2> QED
    BY <1>7, <2>1, <2>2
<1>9. Shows(units, t, o)
  BY <1>5, <1>6, <1>8 DEF Shows
<1> QED
  BY <1>9 DEF t, o, x, y

LEMMA CutShows ==
  ASSUME NEW units \in Seq(UnitSet), NEW r, NEW out, Shows(units, r, out),
         NEW i \in 1..Len(units), NEW max, NEW c \in Nat, c = PieceCount(units[i], max)
  PROVE  Shows(units, r \o [p \in 1..c |-> [first |-> i, last |-> i, piece |-> p]],
               out \o Pieces(units[i], max))
<1> DEFINE x(p) == [first |-> i, last |-> i, piece |-> p]
           y(p) == [units |-> <<units[i]>>, piece |-> p]
           e == [p \in 1..c |-> x(p)]
           d == [p \in 1..c |-> y(p)]
           t == r \o e
           o == out \o d
<1>1. units[i] \in UnitSet /\ i \in Nat /\ \A p \in 1..c : p \in Nat
  OBVIOUS
<1>2. ASSUME NEW p \in Nat
      PROVE  /\ x(p) \in RunSet /\ y(p) \in ChunkSet
             /\ y(p) = [units |-> SubSeq(units, x(p).first, x(p).last), piece |-> x(p).piece]
  <2>1. SubSeq(units, i, i) = <<units[i]>>
    <3>1. i \in 1..Len(units) + 1 /\ i \in i - 1..Len(units) /\ i - i + 1 = 1 /\ i + 1 - 1 = i
          /\ 1 \in 1..1
      OBVIOUS
    <3>2. /\ SubSeq(units, i, i) \in Seq(UnitSet) /\ Len(SubSeq(units, i, i)) = 1
          /\ SubSeq(units, i, i)[1] = units[i]
      BY <3>1, RunIs
    <3>3. /\ <<units[i]>> \in Seq(UnitSet) /\ Len(<<units[i]>>) = 1
          /\ <<units[i]>>[1] = units[i]
      BY <1>1
    <3>4. \A k \in 1..1 : k = 1
      OBVIOUS
    <3> DEFINE a == SubSeq(units, i, i)
               b == <<units[i]>>
    <3>5. /\ a \in Seq(UnitSet) /\ b \in Seq(UnitSet) /\ Len(a) = Len(b)
          /\ \A k \in 1..Len(a) : a[k] = b[k]
      BY <3>2, <3>3, <3>4
    <3> HIDE DEF a, b
    <3>6. a = b
      BY <3>5, SeqEqual
    <3> QED
      BY <3>6 DEF a, b
  <2>2. x(p) \in RunSet /\ x(p).first = i /\ x(p).last = i /\ x(p).piece = p
    BY <1>1 DEF RunSet
  <2>3. <<units[i]>> \in Seq(UnitSet)
    BY <1>1
  <2>4. y(p) \in ChunkSet
    BY <2>3 DEF ChunkSet
  <2> QED
    BY <2>1, <2>2, <2>4
<1>3. Pieces(units[i], max) = d
  BY DEF Pieces
<1> HIDE DEF x, y
<1>4. /\ e \in Seq(RunSet) /\ Len(e) = c /\ \A p \in 1..c : e[p] = x(p)
      /\ d \in Seq(ChunkSet) /\ Len(d) = c /\ \A p \in 1..c : d[p] = y(p)
  <2>1. /\ e \in [1..c -> RunSet] /\ \A p \in 1..c : e[p] = x(p)
        /\ d \in [1..c -> ChunkSet] /\ \A p \in 1..c : d[p] = y(p)
    BY <1>1, <1>2
  <2> HIDE DEF e, d
  <2>2. e \in Seq(RunSet) /\ Len(e) = c
    BY <2>1
  <2>3. d \in Seq(ChunkSet) /\ Len(d) = c
    BY <2>1
  <2> QED
    BY <2>1, <2>2, <2>3
<1> HIDE DEF e, d
<1>5. /\ r \in Seq(RunSet) /\ out \in Seq(ChunkSet) /\ Len(out) = Len(r) /\ Len(r) \in Nat
      /\ \A k \in 1..Len(r) :
           out[k] = [units |-> SubSeq(units, r[k].first, r[k].last), piece |-> r[k].piece]
  BY DEF Shows
<1>6. /\ t \in Seq(RunSet) /\ Len(t) = Len(r) + c
      /\ \A k \in 1..Len(r) + c : t[k] = IF k <= Len(r) THEN r[k] ELSE e[k - Len(r)]
  <2>1. /\ t \in Seq(RunSet) /\ Len(t) = Len(r) + Len(e)
        /\ \A k \in 1..Len(r) + Len(e) : t[k] = IF k <= Len(r) THEN r[k] ELSE e[k - Len(r)]
    <3>1. r \in Seq(RunSet) /\ e \in Seq(RunSet)
      BY <1>4, <1>5
    <3> QED
      BY <3>1, ConcatProperties
  <2> HIDE DEF t
  <2> QED
    BY <1>4, <2>1
<1>7. /\ o \in Seq(ChunkSet) /\ Len(o) = Len(r) + c
      /\ \A k \in 1..Len(r) + c : o[k] = IF k <= Len(r) THEN out[k] ELSE d[k - Len(r)]
  <2>1. /\ o \in Seq(ChunkSet) /\ Len(o) = Len(out) + Len(d)
        /\ \A k \in 1..Len(out) + Len(d) : o[k] = IF k <= Len(out) THEN out[k] ELSE d[k - Len(out)]
    <3>1. out \in Seq(ChunkSet) /\ d \in Seq(ChunkSet)
      BY <1>4, <1>5
    <3> QED
      BY <3>1, ConcatProperties
  <2> HIDE DEF o
  <2> QED
    BY <1>4, <1>5, <2>1
<1> HIDE DEF t, o
<1>8. ASSUME NEW k \in 1..Len(t)
      PROVE  o[k] = [units |-> SubSeq(units, t[k].first, t[k].last), piece |-> t[k].piece]
  <2>1. k \in 1..Len(r) + c
    BY <1>6
  <2>2. CASE k <= Len(r)
    <3>1. k \in 1..Len(r)
      BY <1>5, <2>1, <2>2
    <3> QED
      BY <1>5, <1>6, <1>7, <2>1, <2>2, <3>1
  <2>3. CASE ~(k <= Len(r))
    <3>1. k - Len(r) \in 1..c
      BY <1>5, <2>1, <2>3
    <3>2. t[k] = x(k - Len(r)) /\ o[k] = y(k - Len(r)) /\ k - Len(r) \in Nat
      BY <1>1, <1>4, <1>6, <1>7, <2>1, <2>3, <3>1
    <3> QED
      BY <1>2, <3>2
  <2> QED
    BY <2>2, <2>3
<1>9. Shows(units, t, o)
  BY <1>6, <1>7, <1>8 DEF Shows
<1> QED
  BY <1>3, <1>9 DEF t, o, e, x

LEMMA FlushedIs ==
  ASSUME NEW units \in Seq(UnitSet), NEW max \in Nat \ {0}, NEW overlap \in Nat, NEW n,
         NEW state, Packs(units, max, overlap, n, state)
  PROVE  \E r : Good(units, max, overlap, r, n + 1, n) /\ Shows(units, r, Flushed(state))
<1>1. PICK r, from : /\ Good(units, max, overlap, r, from, n)
                     /\ Shows(units, r, state.out)
                     /\ state.buffer = SubSeq(units, from, n)
  BY DEF Packs
<1>2. n \in 0..Len(units) /\ from \in 1..n + 1 /\ n \in Int /\ from \in Int /\ Len(units) \in Nat
      /\ from \in 1..Len(units) + 1 /\ n \in from - 1..Len(units)
  BY <1>1 DEF Good
<1>3. CASE from <= n
  <2>1. state.buffer # <<>>
    <3>1. SubSeq(units, from, n) # <<>>
      BY <1>2, <1>3, RunIs
    <3> QED
      BY <1>1, <3>1
  <2>2. from \in 1..Len(units) /\ n \in from..Len(units)
    BY <1>2, <1>3
  <2> QED
    BY <1>1, <1>3, <2>1, <2>2, FlushGood, EmitShows DEF Flushed
<1>4. CASE ~(from <= n)
  <2>1. from = n + 1
    BY <1>2, <1>4
  <2>2. state.buffer = <<>>
    BY <1>1, <1>2, <1>4, SubSeqEmpty
  <2> QED
    BY <1>1, <2>1, <2>2 DEF Flushed
<1> QED
  BY <1>3, <1>4

\* One paragraph more.
LEMMA PackIs ==
  ASSUME NEW units \in Seq(UnitSet), NEW max \in Nat \ {0}, NEW overlap \in Nat,
         NEW n \in 0..Len(units) - 1, NEW state, Packs(units, max, overlap, n, state),
         Pack(state, units[n + 1], max, overlap) \in StateSet
  PROVE  Packs(units, max, overlap, n + 1, Pack(state, units[n + 1], max, overlap))
<1> DEFINE u == units[n + 1]
           next == Pack(state, u, max, overlap)
<1>1. /\ n \in Nat /\ Len(units) \in Nat /\ n + 1 \in 1..Len(units) /\ n \in 0..Len(units)
      /\ n + 1 \in 1..n + 1 /\ (n + 1) + 1 = n + 2
      /\ \A f \in 1..n + 1 : f \in 1..Len(units) /\ n \in f - 1..Len(units) - 1
  OBVIOUS
<1>2. u \in UnitSet /\ u.tokens \in Nat /\ PieceCount(u, max) \in Nat
  <2>1. u \in UnitSet
    BY <1>1
  <2> HIDE DEF u
  <2> QED
    BY <2>1, PieceCountIs DEF UnitSet
<1>3. \A f \in 1..n + 1 : Append(SubSeq(units, f, n), u) = SubSeq(units, f, n + 1)
  BY <1>1, RunGrows
<1>4. state \in StateSet
  BY DEF Packs
<1>5. PICK q : Good(units, max, overlap, q, n + 1, n) /\ Shows(units, q, Flushed(state))
  BY FlushedIs
<1>6. PICK r, from : /\ Good(units, max, overlap, r, from, n)
                     /\ Shows(units, r, state.out)
                     /\ state.buffer = SubSeq(units, from, n)
  BY DEF Packs
<1>7. from \in 1..n + 1 /\ (\A j \in from..n : units[j].tokens <= max)
  BY <1>6 DEF Good
<1>8. SUFFICES \E runs, f : /\ Good(units, max, overlap, runs, f, n + 1)
                            /\ Shows(units, runs, next.out)
                            /\ next.buffer = SubSeq(units, f, n + 1)
  BY DEF Packs
<1>9. CASE u.tokens > max
  <2>1. next = [out |-> Flushed(state) \o Pieces(u, max), buffer |-> <<>>]
    BY <1>9 DEF Pack
  <2>2. SubSeq(units, n + 2, n + 1) = <<>>
    <3>1. n + 2 \in Int /\ n + 1 \in Int /\ n + 1 < n + 2
      BY <1>1
    <3> QED
      BY <3>1, SubSeqEmpty
  <2> DEFINE c == PieceCount(u, max)
             t == q \o [p \in 1..c |-> [first |-> n + 1, last |-> n + 1, piece |-> p]]
  <2>3. Good(units, max, overlap, t, n + 2, n + 1)
    BY <1>5, <1>9, CutGood
  <2>4. Shows(units, t, Flushed(state) \o Pieces(u, max))
    BY <1>1, <1>2, <1>5, CutShows
  <2> HIDE DEF t, next, u
  <2> QED
    BY <2>1, <2>2, <2>3, <2>4
<1>10. CASE ~(u.tokens > max) /\ state.buffer # <<>> /\ TokensOf(state.buffer) + u.tokens > max
  <2>1. next = [out |-> Flushed(state), buffer |-> Append(Overlap(state.buffer, overlap), u)]
    BY <1>10 DEF Pack
  <2>2. state.buffer \in Seq(UnitSet) /\ Len(state.buffer) = n - from + 1
    <3>1. from \in 1..Len(units) + 1 /\ n \in from - 1..Len(units)
      BY <1>1, <1>7
    <3>2. SubSeq(units, from, n) \in Seq(UnitSet) /\ Len(SubSeq(units, from, n)) = n - from + 1
      BY <3>1, RunIs
    <3> QED
      BY <1>6, <3>2
  <2>3. PICK k \in 0..n - from + 1 :
           /\ Overlap(state.buffer, overlap) = SubSeq(state.buffer, k + 1, n - from + 1)
           /\ TokensOf(SubSeq(state.buffer, k + 1, n - from + 1)) <= overlap
    BY <2>2, OverlapIs
  <2>4. /\ from + k \in 1..n + 1 /\ k + 1 \in 1..n - from + 2 /\ n - from + 1 \in (k + 1) - 1..n - from + 1
        /\ from + (k + 1) - 1 = from + k /\ from + (n - from + 1) - 1 = n
        /\ from \in 1..Len(units) + 1 /\ n \in from - 1..Len(units)
        /\ \A j \in from + k..n : j \in from..n
    BY <1>1, <1>7
  <2>5. SubSeq(state.buffer, k + 1, n - from + 1) = SubSeq(units, from + k, n)
    <3>1. SubSeq(SubSeq(units, from, n), k + 1, n - from + 1)
            = SubSeq(units, from + (k + 1) - 1, from + (n - from + 1) - 1)
      BY <2>4, RunOfRun
    <3> QED
      BY <1>6, <2>4, <3>1
  <2>6. Bulk(units, from + k, n) <= overlap
    BY <2>3, <2>5 DEF Bulk
  <2>7. \A j \in from + k..n : units[j].tokens <= max
    BY <1>7, <2>4
  <2>8. u.tokens <= max
    BY <1>2, <1>10
  <2>9. Good(units, max, overlap, q, from + k, n + 1)
    <3> DEFINE f == from + k
    <3>1. f \in 1..n + 1 /\ Bulk(units, f, n) <= overlap /\ \A j \in f..n : units[j].tokens <= max
      BY <2>4, <2>6, <2>7
    <3> HIDE DEF f
    <3>2. Good(units, max, overlap, q, f, n + 1)
      BY <1>5, <2>8, <3>1, PackGood
    <3> QED
      BY <3>2 DEF f
  <2>10. next.buffer = SubSeq(units, from + k, n + 1)
    BY <1>3, <2>1, <2>3, <2>4, <2>5
  <2>11. next.out = Flushed(state)
    BY <2>1
  <2> HIDE DEF next, u
  <2> QED
    BY <1>5, <2>9, <2>10, <2>11
<1>11. CASE ~(u.tokens > max) /\ ~(state.buffer # <<>> /\ TokensOf(state.buffer) + u.tokens > max)
  <2>1. next = [out |-> state.out, buffer |-> Append(state.buffer, u)]
    BY <1>11 DEF Pack
  <2>2. next.out = state.out /\ next.buffer = SubSeq(units, from, n + 1)
    BY <1>3, <1>6, <1>7, <2>1
  <2>3. u.tokens <= max
    BY <1>2, <1>11
  <2>4. Good(units, max, overlap, r, from, n + 1)
    <3>1. CASE from <= n
      <4>1. from \in 1..Len(units) + 1 /\ n \in from - 1..Len(units)
        BY <1>1, <1>7
      <4>2. state.buffer # <<>>
        <5>1. SubSeq(units, from, n) # <<>>
          BY <3>1, <4>1, RunIs
        <5> QED
          BY <1>6, <5>1
      <4>3. Bulk(units, from, n) = TokensOf(state.buffer) /\ Bulk(units, from, n) \in Nat
        <5>1. Bulk(units, from, n) \in Nat
          BY <4>1, BulkIs
        <5> QED
          BY <1>6, <5>1 DEF Bulk
      <4>4. Bulk(units, from, n) + u.tokens <= max
        BY <1>2, <1>11, <4>2, <4>3
      <4> QED
        BY <1>6, <1>7, <2>3, <3>1, <4>4, PackGood
    <3>2. CASE ~(from <= n)
      <4>1. from = n + 1 /\ n + 1 \in 1..Len(units) + 1 /\ (n + 1) - 1 = n
        BY <1>1, <1>7, <3>2
      <4>2. Bulk(units, from, n) = 0
        BY <4>1, BulkIs
      <4>3. Bulk(units, from, n) <= overlap
        BY <4>2
      <4> QED
        BY <1>6, <1>7, <2>3, <4>1, <4>3, PackGood
    <3> QED
      BY <3>1, <3>2
  <2> QED
    BY <1>6, <2>2, <2>4
<1> QED
  BY <1>9, <1>10, <1>11

LEMMA PackType ==
  ASSUME NEW state \in StateSet, NEW u \in UnitSet, NEW max \in Nat \ {0}, NEW overlap \in Nat
  PROVE  Pack(state, u, max, overlap) \in StateSet /\ Flushed(state) \in Seq(ChunkSet)
<1>1. state.out \in Seq(ChunkSet) /\ state.buffer \in Seq(UnitSet)
  BY DEF StateSet
<1>2. Flushed(state) \in Seq(ChunkSet)
  <2>1. Emit(state.buffer) \in ChunkSet
    BY <1>1 DEF Emit, ChunkSet
  <2> QED
    BY <1>1, <2>1, AppendProperties DEF Flushed
<1>3. Flushed(state) \o Pieces(u, max) \in Seq(ChunkSet)
  <2> DEFINE c == PieceCount(u, max)
             d == [p \in 1..c |-> [units |-> <<u>>, piece |-> p]]
  <2>1. c \in Nat
    BY PieceCountIs
  <2>2. \A p \in 1..c : [units |-> <<u>>, piece |-> p] \in ChunkSet
    <3>1. <<u>> \in Seq(UnitSet) /\ \A p \in 1..c : p \in Nat
      BY <2>1
    <3> HIDE DEF c
    <3> QED
      BY <3>1 DEF ChunkSet
  <2>3. d \in Seq(ChunkSet)
    <3> HIDE DEF c
    <3>1. d \in [1..c -> ChunkSet]
      BY <2>2
    <3> HIDE DEF d
    <3> QED
      BY <2>1, <3>1
  <2>4. Pieces(u, max) = d
    BY DEF Pieces
  <2> HIDE DEF d
  <2> QED
    BY <1>2, <2>3, <2>4, ConcatProperties
<1>4. ASSUME NEW s \in Seq(UnitSet) PROVE Append(s, u) \in Seq(UnitSet)
  BY AppendProperties
<1>5. Overlap(state.buffer, overlap) \in Seq(UnitSet)
  <2> DEFINE s == state.buffer
  <2>1. s \in Seq(UnitSet)
    BY <1>1
  <2> HIDE DEF s
  <2>2. PICK k \in 0..Len(s) : Overlap(s, overlap) = SubSeq(s, k + 1, Len(s))
    BY <2>1, OverlapIs
  <2>3. k + 1 \in 1..Len(s) + 1 /\ Len(s) \in (k + 1) - 1..Len(s)
    BY <2>1
  <2>4. SubSeq(s, k + 1, Len(s)) \in Seq(UnitSet)
    BY <2>1, <2>3, RunIs
  <2> QED
    BY <2>2, <2>4 DEF s
<1>6. <<>> \in Seq(UnitSet)
  OBVIOUS
<1>7. \A out \in Seq(ChunkSet) : \A buffer \in Seq(UnitSet) :
        [out |-> out, buffer |-> buffer] \in StateSet
  BY DEF StateSet
<1>8. CASE u.tokens > max
  BY <1>3, <1>6, <1>7, <1>8, <1>2 DEF Pack
<1>9. CASE ~(u.tokens > max) /\ state.buffer # <<>> /\ TokensOf(state.buffer) + u.tokens > max
  BY <1>2, <1>4, <1>5, <1>7, <1>9 DEF Pack
<1>10. CASE ~(u.tokens > max) /\ ~(state.buffer # <<>> /\ TokensOf(state.buffer) + u.tokens > max)
  BY <1>1, <1>2, <1>4, <1>7, <1>10 DEF Pack
<1> QED
  BY <1>8, <1>9, <1>10

\* The chunks of a chapter are good runs of its paragraphs.
LEMMA ChapterIs ==
  ASSUME NEW units \in Seq(UnitSet), NEW max \in Nat \ {0}, NEW overlap \in Nat
  PROVE  \E r : /\ Good(units, max, overlap, r, Len(units) + 1, Len(units))
                /\ Shows(units, r, ChunkChapter(units, max, overlap))
<1> DEFINE N == Len(units)
           base == [out |-> <<>>, buffer |-> <<>>]
           Unfolds(g) == g = [n \in 0..N |-> IF n = 0 THEN base ELSE Pack(g[n - 1], units[n], max, overlap)]
           after == CHOOSE g : Unfolds(g)
           T == [x \in (1..N) \X StateSet |-> Pack(x[2], units[x[1]], max, overlap)]
<1>1. N \in Nat /\ \A k \in 1..N : units[k] \in UnitSet
  OBVIOUS
<1>2. base \in StateSet
  BY DEF StateSet
<1>3. T \in [(1..N) \X StateSet -> StateSet]
  BY <1>1, PackType
<1>4. \E f : Solves(f, N, StateSet, base, T)
  <2> HIDE DEF T, N, base
  <2> QED
    BY <1>1, <1>2, <1>3, RecursionExists
<1>5. PICK f : Solves(f, N, StateSet, base, T)
  BY <1>4
<1>6. f \in [0..N -> StateSet] /\ f[0] = base /\ \A k \in 1..N : f[k] = Pack(f[k - 1], units[k], max, overlap)
  <2>1. f \in [0..N -> StateSet] /\ f[0] = base /\ \A k \in 1..N : f[k] = T[<<k, f[k - 1]>>]
    BY <1>5 DEF Solves
  <2>2. ASSUME NEW k \in 1..N PROVE f[k] = Pack(f[k - 1], units[k], max, overlap)
    <3>1. k - 1 \in 0..N
      BY <1>1
    <3>2. <<k, f[k - 1]>> \in (1..N) \X StateSet
      BY <2>1, <3>1
    <3> HIDE DEF N, base
    <3> QED
      BY <2>1, <3>2
  <2> QED
    BY <2>1, <2>2
<1>7. Unfolds(f)
  <2>1. \A k \in 0..N : k = 0 \/ k \in 1..N
    BY <1>1
  <2> HIDE DEF N, base, T
  <2> QED
    BY <1>6, <2>1
<1>8. Unfolds(after)
  <2> HIDE DEF T
  <2> QED
    BY <1>7
<1>9. Packed(units, max, overlap) = after[N]
  BY DEF Packed
<1> HIDE DEF after, T
<1>10. after[0] = base /\ \A k \in 1..N : after[k] = Pack(after[k - 1], units[k], max, overlap)
  <2>1. 0 \in 0..N /\ \A k \in 1..N : k \in 0..N /\ k # 0
    BY <1>1
  <2> HIDE DEF N, base
  <2> QED
    BY <1>8, <2>1
<1> DEFINE S == {k \in 0..N : Packs(units, max, overlap, k, after[k])}
<1>11. 0 \in S
  <2>1. 0 \in 0..N /\ 1 \in 1..N + 1 /\ 1 - 1 = 0
    BY <1>1
  <2>2. SubSeq(units, 1, 0) = <<>>
    BY SubSeqEmpty
  <2>3. Bulk(units, 1, 0) <= max + overlap
    <3>1. Bulk(units, 1, 1 - 1) = 0
      BY <2>1, BulkIs
    <3> QED
      BY <3>1
  <2>4. Good(units, max, overlap, <<>>, 1, 0)
    <3>1. /\ <<>> \in Seq(RunSet) /\ \A k \in 1..Len(<<>>) : FALSE
          /\ (\A k \in 2..Len(<<>>) : FALSE) /\ (\A j \in 1..0 : FALSE) /\ 1 \in 1..0 + 1
      OBVIOUS
    <3> QED
      BY <2>1, <2>3, <3>1 DEF Good
  <2>5. Shows(units, <<>>, <<>>)
    <3>1. <<>> \in Seq(RunSet) /\ <<>> \in Seq(ChunkSet) /\ \A k \in 1..Len(<<>>) : FALSE
      OBVIOUS
    <3> QED
      BY <3>1 DEF Shows
  <2>6. base.out = <<>> /\ base.buffer = <<>>
    OBVIOUS
  <2> HIDE DEF base
  <2>7. Packs(units, max, overlap, 0, base)
    BY <1>2, <2>2, <2>4, <2>5, <2>6 DEF Packs
  <2> QED
    BY <1>10, <2>1, <2>7
<1>12. ASSUME NEW k \in 0..N - 1, k \in S PROVE k + 1 \in S
  <2>1. k + 1 \in 1..N /\ k + 1 \in 0..N /\ (k + 1) - 1 = k
    BY <1>1
  <2>2. after[k + 1] = Pack(after[k], units[k + 1], max, overlap)
    BY <1>10, <2>1
  <2>3. Packs(units, max, overlap, k, after[k])
    BY <1>12
  <2>4. after[k] \in StateSet /\ units[k + 1] \in UnitSet
    BY <1>1, <2>1, <2>3 DEF Packs
  <2>5. Pack(after[k], units[k + 1], max, overlap) \in StateSet
    BY <2>4, PackType
  <2>6. Packs(units, max, overlap, k + 1, Pack(after[k], units[k + 1], max, overlap))
    BY <2>3, <2>5, PackIs
  <2> QED
    BY <2>1, <2>2, <2>6
<1>13. Packs(units, max, overlap, N, after[N])
  <2>1. 0..N \subseteq S
    <3> HIDE DEF S, N
    <3> QED
      BY <1>1, <1>11, <1>12, UpToBound
  <2>2. N \in 0..N
    BY <1>1
  <2> QED
    BY <2>1, <2>2
<1>14. ChunkChapter(units, max, overlap) = Flushed(after[N])
  BY <1>9 DEF ChunkChapter
<1> HIDE DEF N
<1>15. \E r : Good(units, max, overlap, r, N + 1, N) /\ Shows(units, r, Flushed(after[N]))
  BY <1>13, FlushedIs
<1> QED
  BY <1>14, <1>15 DEF N

\* The paragraphs of the first n pages of a chapter.
Laid(pages, from, n, s) ==
  /\ s \in Seq(UnitSet)
  /\ \A i \in 1..Len(s) : s[i].page < from + n
  /\ \A i, j \in 1..Len(s) : s[i] = s[j] => i = j
  /\ \A page \in from..from + n - 1 : \A i \in DOMAIN pages[page] :
       \E k \in 1..Len(s) : s[k] = Unit(pages, page, i)

Book == Seq(Seq(Nat \ {0}))

LEMMA PageIs ==
  ASSUME NEW pages \in Book, NEW page \in 1..Len(pages),
         NEW e, e = [i \in DOMAIN pages[page] |-> Unit(pages, page, i)]
  PROVE  /\ e \in Seq(UnitSet) /\ DOMAIN pages[page] = 1..Len(e) /\ Len(e) \in Nat
         /\ \A i \in 1..Len(e) : e[i] = Unit(pages, page, i) /\ e[i].page = page /\ e[i].at = i
<1>1. pages[page] \in Seq(Nat \ {0}) /\ page \in Nat
  BY DEF Book
<1>2. DOMAIN pages[page] = 1..Len(pages[page]) /\ Len(pages[page]) \in Nat
  BY <1>1
<1> DEFINE n == Len(pages[page])
<1>3. \A i \in 1..n : /\ Unit(pages, page, i) \in UnitSet
                      /\ Unit(pages, page, i).page = page /\ Unit(pages, page, i).at = i
  <2> TAKE i \in 1..n
  <2>1. pages[page][i] \in Nat /\ i \in Nat
    BY <1>1, <1>2
  <2>2. Tokens(pages[page][i]) \in Nat
    BY <2>1, EstimateIs
  <2> QED
    BY <1>1, <2>1, <2>2 DEF Unit, UnitSet
<1>4. e \in [1..n -> UnitSet] /\ \A i \in 1..n : e[i] = Unit(pages, page, i)
  BY <1>2, <1>3
<1> HIDE DEF n
<1>5. e \in Seq(UnitSet) /\ Len(e) = n
  <2>1. n \in Nat
    BY <1>2 DEF n
  <2> QED
    BY <1>4, <2>1
<1> QED
  BY <1>2, <1>3, <1>4, <1>5 DEF n

LEMMA LaidMore ==
  ASSUME NEW pages \in Book, NEW from \in 1..Len(pages), NEW n \in Nat, from + n <= Len(pages),
         NEW s, Laid(pages, from, n, s)
  PROVE  Laid(pages, from, n + 1,
              s \o [i \in DOMAIN pages[from + n] |-> Unit(pages, from + n, i)])
<1> DEFINE e == [i \in DOMAIN pages[from + n] |-> Unit(pages, from + n, i)]
           t == s \o e
           page == from + n
<1>1. page \in 1..Len(pages) /\ from \in Nat /\ from + (n + 1) = page + 1 /\ page \in Int
      /\ from + (n + 1) - 1 = page
  <2>1. Len(pages) \in Nat
    BY DEF Book
  <2> QED
    BY <2>1
<1> HIDE DEF page
<1>2. /\ e \in Seq(UnitSet) /\ DOMAIN pages[page] = 1..Len(e) /\ Len(e) \in Nat
      /\ \A i \in 1..Len(e) : e[i] = Unit(pages, page, i) /\ e[i].page = page /\ e[i].at = i
  <2>1. e = [i \in DOMAIN pages[page] |-> Unit(pages, page, i)]
    BY DEF page
  <2> HIDE DEF e
  <2> QED
    BY <1>1, <2>1, PageIs
<1> HIDE DEF e
<1>3. /\ s \in Seq(UnitSet) /\ Len(s) \in Nat /\ \A i \in 1..Len(s) : s[i].page < page
  <2>1. s \in Seq(UnitSet) /\ \A i \in 1..Len(s) : s[i].page < page
    BY DEF Laid, page
  <2> QED
    BY <2>1
<1>4. /\ t \in Seq(UnitSet) /\ Len(t) = Len(s) + Len(e)
      /\ \A i \in 1..Len(s) + Len(e) : t[i] = IF i <= Len(s) THEN s[i] ELSE e[i - Len(s)]
  BY <1>2, <1>3, ConcatProperties
<1> HIDE DEF t
<1>5. ASSUME NEW i \in 1..Len(t)
      PROVE  \/ i \in 1..Len(s) /\ t[i] = s[i]
             \/ i - Len(s) \in 1..Len(e) /\ t[i] = e[i - Len(s)]
  <2>1. i \in 1..Len(s) + Len(e)
    BY <1>4
  <2>2. CASE i <= Len(s)
    BY <1>3, <1>4, <2>1, <2>2
  <2>3. CASE ~(i <= Len(s))
    <3>1. i - Len(s) \in 1..Len(e)
      BY <1>2, <1>3, <2>1, <2>3
    <3> QED
      BY <1>4, <2>1, <2>3, <3>1
  <2> QED
    BY <2>2, <2>3
<1>6. ASSUME NEW i \in 1..Len(t) PROVE t[i].page < from + (n + 1)
  <2>1. CASE i \in 1..Len(s) /\ t[i] = s[i]
    <3>1. s[i] \in UnitSet /\ s[i].page < page
      BY <1>3, <2>1
    <3>2. s[i].page \in Int
      BY <3>1 DEF UnitSet
    <3>3. s[i].page < page + 1
      BY <1>1, <3>1, <3>2
    <3> QED
      BY <1>1, <2>1, <3>3
  <2>2. CASE i - Len(s) \in 1..Len(e) /\ t[i] = e[i - Len(s)]
    <3>1. t[i].page = page
      BY <1>2, <2>2
    <3> QED
      BY <1>1, <3>1
  <2> QED
    BY <1>5, <2>1, <2>2
<1>7. ASSUME NEW i \in 1..Len(t), NEW j \in 1..Len(t), t[i] = t[j] PROVE i = j
  <2>1. \A a \in 1..Len(s), b \in 1..Len(e) : s[a] # e[b]
    <3> TAKE a \in 1..Len(s), b \in 1..Len(e)
    <3>1. s[a].page < page /\ e[b].page = page
      BY <1>2, <1>3
    <3> QED
      BY <1>1, <3>1
  <2>2. CASE i \in 1..Len(s) /\ t[i] = s[i]
    <3>1. CASE j \in 1..Len(s) /\ t[j] = s[j]
      BY <1>7, <2>2, <3>1 DEF Laid
    <3>2. CASE j - Len(s) \in 1..Len(e) /\ t[j] = e[j - Len(s)]
      BY <1>7, <2>1, <2>2, <3>2
    <3> QED
      BY <1>5, <3>1, <3>2
  <2>3. CASE i - Len(s) \in 1..Len(e) /\ t[i] = e[i - Len(s)]
    <3>1. CASE j \in 1..Len(s) /\ t[j] = s[j]
      BY <1>7, <2>1, <2>3, <3>1
    <3>2. CASE j - Len(s) \in 1..Len(e) /\ t[j] = e[j - Len(s)]
      <4>1. i - Len(s) = j - Len(s)
        BY <1>2, <1>7, <2>3, <3>2
      <4> QED
        BY <1>3, <4>1
    <3> QED
      BY <1>5, <3>1, <3>2
  <2> QED
    BY <1>5, <2>2, <2>3
<1>8. ASSUME NEW p \in from..from + (n + 1) - 1, NEW i \in DOMAIN pages[p]
      PROVE  \E k \in 1..Len(t) : t[k] = Unit(pages, p, i)
  <2>1. CASE p = page
    <3>1. i \in 1..Len(e) /\ e[i] = Unit(pages, p, i)
      BY <1>2, <1>8, <2>1
    <3>2. Len(s) + i \in 1..Len(t) /\ Len(s) + i \in 1..Len(s) + Len(e) /\ ~(Len(s) + i <= Len(s))
          /\ (Len(s) + i) - Len(s) = i
      <4>1. Len(s) \in Nat /\ Len(e) \in Nat /\ i \in 1..Len(e) /\ Len(t) = Len(s) + Len(e)
        BY <1>2, <1>3, <1>4, <3>1
      <4> QED
        BY <4>1
    <3>3. t[Len(s) + i] = e[i]
      BY <1>4, <3>2
    <3> QED
      BY <3>1, <3>2, <3>3
  <2>2. CASE p # page
    <3>1. p \in from..from + n - 1
      BY <1>1, <2>2 DEF page
    <3>2. PICK k \in 1..Len(s) : s[k] = Unit(pages, p, i)
      BY <1>8, <3>1 DEF Laid
    <3>3. k \in 1..Len(t) /\ k \in 1..Len(s) + Len(e) /\ k <= Len(s)
      BY <1>2, <1>3, <1>4, <3>2
    <3>4. t[k] = s[k]
      BY <1>4, <3>3
    <3> QED
      BY <3>2, <3>3, <3>4
  <2> QED
    BY <2>1, <2>2
<1>9. Laid(pages, from, n + 1, t)
  BY <1>4, <1>6, <1>7, <1>8 DEF Laid
<1> QED
  BY <1>9 DEF t, e

LEMMA UnitsIs ==
  ASSUME NEW pages \in Book, NEW chapter, chapter.from \in 1..Len(pages),
         chapter.to \in chapter.from..Len(pages)
  PROVE  Laid(pages, chapter.from, chapter.to - chapter.from + 1, UnitsOf(pages, chapter))
<1> DEFINE from == chapter.from
           N == chapter.to - chapter.from + 1
           P(k) == [i \in DOMAIN pages[from + k - 1] |-> Unit(pages, from + k - 1, i)]
           Lays(g) == g = [n \in 0..N |-> IF n = 0 THEN <<>> ELSE g[n - 1] \o P(n)]
           upTo == CHOOSE g : Lays(g)
           D == Seq(UnitSet)
           T == [x \in (1..N) \X D |-> x[2] \o P(x[1])]
<1>1. /\ N \in Nat /\ from \in Nat /\ Len(pages) \in Nat /\ from \in 1..Len(pages)
      /\ \A k \in 1..N : from + k - 1 \in 1..Len(pages) /\ from + (k - 1) = from + k - 1
                         /\ k - 1 \in Nat
  <2>1. Len(pages) \in Nat
    BY DEF Book
  <2> QED
    BY <2>1
<1>2. UnitsOf(pages, chapter) = upTo[N]
  BY DEF UnitsOf
<1>3. ASSUME NEW k \in 1..N, NEW s \in D PROVE s \o P(k) \in D
  <2>1. from + k - 1 \in 1..Len(pages)
    BY <1>1
  <2>2. P(k) \in D
    <3> HIDE DEF N, from
    <3> QED
      BY <2>1, PageIs
  <2> HIDE DEF P
  <2> QED
    BY <2>2, ConcatProperties
<1>4. T \in [(1..N) \X D -> D]
  <2> HIDE DEF P, D, N
  <2> QED
    BY <1>3
<1>5. <<>> \in D
  OBVIOUS
<1> HIDE DEF D, P, N, from
<1>6. \E f : Solves(f, N, D, <<>>, T)
  <2> HIDE DEF T
  <2> QED
    BY <1>1, <1>4, <1>5, RecursionExists
<1>7. PICK f : Solves(f, N, D, <<>>, T)
  BY <1>6
<1>8. f \in [0..N -> D] /\ f[0] = <<>> /\ \A k \in 1..N : f[k] = f[k - 1] \o P(k)
  <2>1. f \in [0..N -> D] /\ f[0] = <<>> /\ \A k \in 1..N : f[k] = T[<<k, f[k - 1]>>]
    BY <1>7 DEF Solves
  <2>2. ASSUME NEW k \in 1..N PROVE f[k] = f[k - 1] \o P(k)
    <3>1. k - 1 \in 0..N
      BY <1>1
    <3>2. <<k, f[k - 1]>> \in (1..N) \X D
      BY <2>1, <3>1
    <3> QED
      BY <2>1, <3>2
  <2> QED
    BY <2>1, <2>2
<1> HIDE DEF T
<1>9. Lays(f)
  <2>1. \A k \in 0..N : k = 0 \/ k \in 1..N
    BY <1>1
  <2> QED
    BY <1>8, <2>1
<1>10. Lays(upTo)
  BY <1>9
<1> HIDE DEF upTo
<1>11. upTo[0] = <<>> /\ \A k \in 1..N : upTo[k] = upTo[k - 1] \o P(k)
  <2>1. 0 \in 0..N /\ \A k \in 1..N : k \in 0..N /\ k # 0
    BY <1>1
  <2> QED
    BY <1>10, <2>1
<1> DEFINE S == {k \in 0..N : Laid(pages, from, k, upTo[k])}
<1>12. 0 \in S
  <2>1. Laid(pages, from, 0, <<>>)
    <3>1. <<>> \in Seq(UnitSet) /\ (\A i \in 1..Len(<<>>) : FALSE)
      OBVIOUS
    <3>2. \A p \in from..from + 0 - 1 : FALSE
      BY <1>1
    <3> QED
      BY <3>1, <3>2 DEF Laid
  <2>2. 0 \in 0..N
    BY <1>1
  <2> QED
    BY <1>11, <2>1, <2>2
<1>13. ASSUME NEW k \in 0..N - 1, k \in S PROVE k + 1 \in S
  <2>1. k \in Nat /\ k + 1 \in 1..N /\ k + 1 \in 0..N /\ (k + 1) - 1 = k
        /\ from + (k + 1) - 1 = from + k /\ from + k <= Len(pages)
    <3>1. k \in Nat /\ k + 1 \in 1..N
      BY <1>1
    <3>2. from + (k + 1) - 1 \in 1..Len(pages)
      BY <1>1, <3>1
    <3> QED
      BY <1>1, <3>1, <3>2
  <2>2. P(k + 1) = [i \in DOMAIN pages[from + k] |-> Unit(pages, from + k, i)]
    BY <2>1 DEF P
  <2>3. upTo[k + 1] = upTo[k] \o P(k + 1)
    BY <1>11, <2>1
  <2>4. Laid(pages, from, k, upTo[k])
    BY <1>13
  <2>5. Laid(pages, from, k + 1, upTo[k] \o P(k + 1))
    BY <1>1, <2>1, <2>2, <2>4, LaidMore
  <2> QED
    BY <2>1, <2>3, <2>5
<1>14. Laid(pages, from, N, upTo[N])
  <2>1. 0..N \subseteq S
    <3> HIDE DEF S
    <3> QED
      BY <1>1, <1>12, <1>13, UpToBound
  <2>2. N \in 0..N
    BY <1>1
  <2> QED
    BY <2>1, <2>2
<1> QED
  BY <1>2, <1>14 DEF N, from

\* The chapters of an outline in order.
LEMMA ChaptersAre ==
  ASSUME NEW last \in Nat \ {0}, NEW tops \in Seq(Nat), tops \in Outlines(last),
         NEW chapters, chapters = DetectChapters(tops, last)
  PROVE  /\ DOMAIN chapters # {} /\ DOMAIN chapters \subseteq Int
         /\ \A c \in DOMAIN chapters : chapters[c].from \in 1..last /\ chapters[c].to \in chapters[c].from..last
         /\ PagesInChapters(tops, last)
<1> DEFINE n == Len(tops)
<1>1. /\ n \in Nat /\ DOMAIN tops = 1..n /\ last \in Int /\ \A i \in 1..n : tops[i] \in 1..last
      /\ \A i, j \in 1..n : i < j => tops[i] <= tops[j]
  <2>1. n \in Nat /\ DOMAIN tops = 1..n /\ last \in Int
    OBVIOUS
  <2>2. \A i \in 1..n : tops[i] \in 1..last
    BY DEF Outlines
  <2>3. \A i, j \in 1..n : i < j => tops[i] <= tops[j]
    BY DEF Outlines
  <2> QED
    BY <2>1, <2>2, <2>3
<1>0. /\ \A a, b, x \in Int : a <= b /\ b <= x => a - 1 < x
      /\ \A a, b, x \in Int : a <= x /\ x <= b => x \in a..b
  OBVIOUS
<1>2. CASE n < 2
  <2>1. chapters = <<[from |-> 1, to |-> last]>>
    BY <1>2 DEF DetectChapters
  <2>2. DOMAIN chapters = {1} /\ chapters[1].from = 1 /\ chapters[1].to = last
    <3>1. DOMAIN chapters = 1..1
      BY <2>1
    <3>2. 1..1 = {1}
      OBVIOUS
    <3> QED
      BY <2>1, <3>1, <3>2
  <2>3. 1 \in 1..last /\ last \in 1..last /\ DOMAIN chapters # {} /\ DOMAIN chapters \subseteq Int
    BY <2>2
  <2>4. PagesInChapters(tops, last)
    <3> DEFINE of(page) == {c \in DOMAIN chapters : page \in chapters[c].from..chapters[c].to}
    <3>1. \A page \in 1..last : 1 \in of(page) /\ \A c, d \in of(page) : c = d
      BY <2>2
    <3> QED
      BY <3>1 DEF PagesInChapters
  <2> QED
    BY <2>2, <2>3, <2>4
<1>3. CASE ~(n < 2)
  <2> DEFINE to(i) == IF i < n THEN tops[i + 1] - 1 ELSE last
             ends(i) == {tops[i], to(i)}
  <2>1. chapters = ChaptersFromTops(tops, last)
    BY <1>3 DEF DetectChapters
  <2>2. DOMAIN chapters = 1..n /\ \A i \in 1..n : chapters[i].from = tops[i] /\ chapters[i].to = Max(ends(i))
    <3>1. chapters = [i \in DOMAIN tops |-> [from |-> tops[i], to |-> Max(ends(i))]]
      BY <2>1 DEF ChaptersFromTops
    <3> HIDE DEF ends, to
    <3> QED
      BY <1>1, <3>1
  <2>3. 1 \in 1..n /\ \A i \in 1..n : i \in Int /\ (i < n => i + 1 \in 1..n /\ i < i + 1)
    BY <1>1, <1>3
  <2>4. \A i \in 1..n : tops[i] \in Int /\ to(i) \in Int /\ to(i) <= last
    <3> TAKE i \in 1..n
    <3>1. CASE i < n
      <4>1. tops[i + 1] \in 1..last
        BY <1>1, <2>3, <3>1
      <4> QED
        BY <1>1, <3>1, <4>1
    <3>2. CASE ~(i < n)
      BY <1>1, <3>2
    <3> QED
      BY <3>1, <3>2
  <2>5. \A i \in 1..n : /\ chapters[i].to \in Int /\ chapters[i].to >= tops[i] /\ chapters[i].to >= to(i)
                        /\ chapters[i].to = tops[i] \/ chapters[i].to = to(i)
    <3> TAKE i \in 1..n
    <3>1. ends(i) \subseteq Int /\ ends(i) # {} /\ IsFiniteSet(ends(i))
      <4>1. tops[i] \in Int /\ to(i) \in Int
        BY <2>4
      <4> HIDE DEF to, n
      <4>2. IsFiniteSet({tops[i]})
        BY FS_Singleton
      <4>3. ends(i) = {tops[i]} \cup {to(i)}
        OBVIOUS
      <4>4. IsFiniteSet({tops[i]} \cup {to(i)})
        BY <4>2, FS_AddElement
      <4>5. IsFiniteSet(ends(i))
        BY <4>3, <4>4
      <4> QED
        BY <4>1, <4>5
    <3>2. Max(ends(i)) \in ends(i) /\ \A y \in ends(i) : Max(ends(i)) >= y
      <4> HIDE DEF ends
      <4> QED
        BY <3>1, MaxIs
    <3> HIDE DEF to, n
    <3> QED
      BY <2>2, <3>1, <3>2
  <2> HIDE DEF ends
  <2>6. \A c \in DOMAIN chapters : chapters[c].from \in 1..last /\ chapters[c].to \in chapters[c].from..last
    <3> TAKE c \in DOMAIN chapters
    <3>1. /\ c \in 1..n /\ chapters[c].from = tops[c] /\ tops[c] \in 1..last /\ tops[c] \in Int
          /\ to(c) \in Int /\ to(c) <= last
          /\ chapters[c].to \in Int /\ chapters[c].to >= tops[c]
          /\ chapters[c].to = tops[c] \/ chapters[c].to = to(c)
      BY <1>1, <2>2, <2>4, <2>5
    <3> HIDE DEF to, n
    <3> QED
      BY <1>1, <3>1
  <2>7. PagesInChapters(tops, last)
    <3> DEFINE of(page) == {c \in DOMAIN chapters : page \in chapters[c].from..chapters[c].to}
    <3>1. ASSUME NEW page \in 1..last, page >= chapters[1].from PROVE of(page) # {}
      <4> DEFINE B == {c \in 1..n : tops[c] <= page}
      <4>1. 1 \in B
        BY <2>2, <2>3, <3>1, <1>1
      <4>2. B \subseteq Int /\ IsFiniteSet(B)
        <5>1. B \in SUBSET (1..n)
          OBVIOUS
        <5>2. IsFiniteSet(1..n) /\ 1..n \subseteq Int
          <6> HIDE DEF n
          <6> QED
            BY <1>1, FS_Interval
        <5> HIDE DEF B, n
        <5>3. IsFiniteSet(B)
          BY <5>1, <5>2, FS_Subset
        <5> QED
          BY <5>1, <5>2, <5>3
      <4>3. Max(B) \in B /\ \A y \in B : Max(B) >= y
        <5> HIDE DEF B
        <5> QED
          BY <4>1, <4>2, MaxIs
      <4> DEFINE c == Max(B)
      <4>4. c \in 1..n /\ tops[c] <= page /\ c \in Int
        BY <2>3, <4>3
      <4>5. \A y \in 1..n : tops[y] <= page => c >= y
        BY <4>3
      <4> HIDE DEF c, B
      <4>6. page <= to(c)
        <5>1. CASE c < n
          <6>1. c + 1 \in 1..n /\ ~(c >= c + 1)
            BY <2>3, <4>4, <5>1
          <6>2. ~(tops[c + 1] <= page) /\ tops[c + 1] \in Int
            BY <1>1, <4>5, <6>1
          <6> QED
            BY <5>1, <6>2
        <5>2. CASE ~(c < n)
          BY <5>2
        <5> QED
          BY <5>1, <5>2
      <4>7. c \in of(page)
        <5>1. /\ c \in DOMAIN chapters /\ chapters[c].from = tops[c] /\ tops[c] \in Int
              /\ chapters[c].to \in Int /\ chapters[c].to >= to(c) /\ to(c) \in Int
          BY <2>2, <2>4, <2>5, <4>4
        <5> HIDE DEF to, n
        <5>2. page \in chapters[c].from..chapters[c].to
          <6>1. page \in Int /\ page <= chapters[c].to
            BY <1>1, <4>6, <5>1
          <6>2. chapters[c].from <= page /\ chapters[c].from \in Int
            BY <4>4, <5>1
          <6> QED
            BY <1>0, <5>1, <6>1, <6>2, Zenon
        <5> QED
          BY <5>1, <5>2
      <4> QED
        BY <4>7
    <3>2. ASSUME NEW page \in 1..last, NEW c \in of(page), NEW d \in of(page), c # d
          PROVE  chapters[c].from = page
      <4>1. /\ c \in 1..n /\ d \in 1..n /\ c \in Int /\ d \in Int
            /\ tops[c] \in Int /\ tops[d] \in Int
            /\ tops[c] <= page /\ tops[d] <= page /\ page <= chapters[c].to /\ page <= chapters[d].to
        BY <1>1, <2>2, <2>3
      <4>2. CASE c < d
        <5>1. c < n /\ c + 1 \in 1..n /\ (c + 1 = d \/ c + 1 < d)
          BY <1>1, <4>1, <4>2
        <5>2. tops[c + 1] <= tops[d] /\ tops[c + 1] \in Int
          <6>1. tops[c + 1] \in Int
            BY <1>1, <5>1
          <6>2. CASE c + 1 = d
            BY <6>1, <6>2
          <6>3. CASE c + 1 < d
            <7>1. \A i, j \in 1..n : i < j => tops[i] <= tops[j]
              BY <1>1
            <7> HIDE DEF n
            <7> QED
              BY <4>1, <5>1, <6>1, <6>3, <7>1
          <6> QED
            BY <5>1, <6>2, <6>3
        <5>3. to(c) < page
          <6>1. to(c) = tops[c + 1] - 1
            BY <5>1
          <6>2. /\ tops[c + 1] \in Int /\ tops[d] \in Int /\ page \in Int
                /\ tops[c + 1] <= tops[d] /\ tops[d] <= page
            BY <4>1, <5>2
          <6> HIDE DEF to, n
          <6>3. tops[c + 1] - 1 < page
            BY <1>0, <6>2, Zenon
          <6> QED
            BY <6>1, <6>3
        <5>4. chapters[c].to = tops[c]
          <6>1. chapters[c].to = tops[c] \/ chapters[c].to = to(c)
            BY <2>5, <4>1
          <6>2. to(c) \in Int
            BY <2>4, <4>1
          <6> HIDE DEF to, n
          <6> QED
            BY <4>1, <5>3, <6>1, <6>2
        <5> QED
          BY <2>2, <4>1, <5>4
      <4>3. CASE d < c
        <5>1. d < n /\ d + 1 \in 1..n /\ (d + 1 = c \/ d + 1 < c)
          BY <1>1, <4>1, <4>3
        <5>2. tops[d + 1] <= tops[c] /\ tops[d + 1] \in Int
          <6>1. tops[d + 1] \in Int
            BY <1>1, <5>1
          <6>2. CASE d + 1 = c
            BY <6>1, <6>2
          <6>3. CASE d + 1 < c
            <7>1. \A i, j \in 1..n : i < j => tops[i] <= tops[j]
              BY <1>1
            <7> HIDE DEF n
            <7> QED
              BY <4>1, <5>1, <6>1, <6>3, <7>1
          <6> QED
            BY <5>1, <6>2, <6>3
        <5>3. to(d) < page
          <6>1. to(d) = tops[d + 1] - 1
            BY <5>1
          <6>2. /\ tops[d + 1] \in Int /\ tops[c] \in Int /\ page \in Int
                /\ tops[d + 1] <= tops[c] /\ tops[c] <= page
            BY <4>1, <5>2
          <6> HIDE DEF to, n
          <6>3. tops[d + 1] - 1 < page
            BY <1>0, <6>2, Zenon
          <6> QED
            BY <6>1, <6>3
        <5>4. chapters[d].to = tops[d]
          <6>1. chapters[d].to = tops[d] \/ chapters[d].to = to(d)
            BY <2>5, <4>1
          <6>2. to(d) \in Int
            BY <2>4, <4>1
          <6> HIDE DEF to, n
          <6> QED
            BY <4>1, <5>3, <6>1, <6>2
        <5>5. tops[d] <= tops[c] /\ tops[d] = page
          BY <1>1, <4>1, <4>3, <5>4
        <5> QED
          BY <2>2, <4>1, <5>5
      <4> QED
        BY <3>2, <4>1, <4>2, <4>3
    <3> QED
      BY <3>1, <3>2 DEF PagesInChapters
  <2> QED
    BY <2>2, <2>3, <2>6, <2>7
<1> QED
  BY <1>2, <1>3

\* What a chunk has is what its run has.
Written(units, n, x, chunk) ==
  /\ x.first \in 1..n /\ x.last \in x.first..n /\ n \in Nat
  /\ chunk.units = SubSeq(units, x.first, x.last) /\ chunk.piece = x.piece
  /\ chunk.units \in Seq(UnitSet) /\ chunk.units # <<>> /\ Last(chunk.units) = units[x.last]
  /\ Len(chunk.units) = x.last - x.first + 1
  /\ \A i \in 1..Len(chunk.units) : chunk.units[i] = units[x.first + i - 1]
  /\ \A j \in 1..Len(units) : units[j] \in ToSet(chunk.units) <=> j \in Within(x)

LEMMA HasIs ==
  ASSUME NEW units \in Seq(UnitSet), \A i, j \in 1..Len(units) : units[i] = units[j] => i = j,
         NEW max, NEW overlap, NEW n \in 0..Len(units),
         NEW r, NEW own, Shows(units, r, own), NEW k \in 1..Len(own),
         Whole(units, max, overlap, n, r[k])
  PROVE  Written(units, n, r[k], own[k])
<1> DEFINE f == r[k].first
           l == r[k].last
           run == SubSeq(units, f, l)
<1>1. /\ f \in 1..n /\ l \in f..n /\ n \in Nat /\ Len(units) \in Nat /\ f \in Int /\ l \in Int
      /\ f \in 1..Len(units) + 1 /\ l \in f - 1..Len(units) /\ f <= l
      /\ \A j \in f..l : j \in 1..Len(units)
  <2>1. f \in 1..n /\ l \in f..n
    BY DEF Whole
  <2> HIDE DEF f, l
  <2> QED
    BY <2>1
<1>2. own[k].units = run /\ own[k].piece = r[k].piece
  <2>1. k \in 1..Len(r)
    BY DEF Shows
  <2>2. own[k] = [units |-> run, piece |-> r[k].piece]
    BY <2>1 DEF Shows
  <2> HIDE DEF run
  <2> QED
    BY <2>2
<1> HIDE DEF f, l
<1>3. /\ run \in Seq(UnitSet) /\ Len(run) = l - f + 1
      /\ \A i \in 1..l - f + 1 : run[i] = units[f + i - 1]
      /\ ToSet(run) = {units[i] : i \in f..l}
      /\ run # <<>> /\ Last(run) = units[l]
  <2>1. f \in 1..Len(units) + 1 /\ l \in f - 1..Len(units) /\ f <= l
    BY <1>1
  <2>2. /\ run \in Seq(UnitSet) /\ Len(run) = l - f + 1
        /\ \A i \in 1..l - f + 1 : run[i] = units[f + i - 1]
    BY <2>1, RunIs
  <2>3. ToSet(run) = {units[i] : i \in f..l}
    BY <2>1, RunIs
  <2> HIDE DEF run
  <2>4. Len(run) \in 1..l - f + 1 /\ f + Len(run) - 1 = l
    BY <1>1, <2>2
  <2>5. run # <<>>
    BY <2>2, <2>4
  <2>6. Last(run) = units[l]
    <3>1. run[Len(run)] = units[f + Len(run) - 1]
      BY <2>2, <2>4
    <3> QED
      BY <2>4, <3>1 DEF Last
  <2> QED
    BY <2>2, <2>3, <2>5, <2>6
<1> HIDE DEF run
<1>4. \A j \in 1..Len(units) : units[j] \in ToSet(run) <=> j \in f..l
  BY <1>1, <1>3
<1> QED
  BY <1>1, <1>2, <1>3, <1>4 DEF Written, f, l, run, Within

LEMMA ChunksOf ==
  ASSUME NEW pages \in Book, NEW chapter, chapter.from \in 1..Len(pages),
         chapter.to \in chapter.from..Len(pages), NEW max \in Nat \ {0}, NEW overlap \in Nat,
         NEW units, units = UnitsOf(pages, chapter),
         NEW own, own = ChunkChapter(units, max, overlap)
  PROVE  AllIn(pages, chapter, own, max) /\ InOrderOf(units, own) /\ LittleTwice(own, max, overlap)
<1> DEFINE N == Len(units)
<1>1. Laid(pages, chapter.from, chapter.to - chapter.from + 1, units)
  BY UnitsIs
<1>2. /\ units \in Seq(UnitSet) /\ N \in Nat /\ DOMAIN units = 1..N /\ N = Len(units)
      /\ \A i, j \in 1..N : units[i] = units[j] => i = j
      /\ \A page \in chapter.from..chapter.to : \A i \in DOMAIN pages[page] :
           \E k \in 1..N : units[k] = Unit(pages, page, i)
  <2>1. units \in Seq(UnitSet) /\ \A i, j \in 1..N : units[i] = units[j] => i = j
    BY <1>1 DEF Laid
  <2>2. chapter.from + (chapter.to - chapter.from + 1) - 1 = chapter.to
    <3>1. chapter.from \in Int /\ chapter.to \in Int
      <4>1. Len(pages) \in Nat
        BY DEF Book
      <4> QED
        BY <4>1
    <3> QED
      BY <3>1
  <2>3. \A page \in chapter.from..chapter.to : \A i \in DOMAIN pages[page] :
           \E k \in 1..N : units[k] = Unit(pages, page, i)
    BY <1>1, <2>2 DEF Laid
  <2>4. N \in Nat /\ DOMAIN units = 1..N /\ N = Len(units)
    BY <2>1
  <2> QED
    BY <2>1, <2>3, <2>4
<1>3. PICK r : Good(units, max, overlap, r, N + 1, N) /\ Shows(units, r, own)
  BY <1>2, ChapterIs
<1>4. /\ r \in Seq(RunSet) /\ own \in Seq(ChunkSet) /\ Len(own) = Len(r) /\ Len(r) \in Nat
      /\ DOMAIN own = 1..Len(r) /\ N \in 0..N
  BY <1>2, <1>3 DEF Shows
<1> HIDE DEF N
<1>5. ASSUME NEW k \in 1..Len(r)
      PROVE  /\ Whole(units, max, overlap, N, r[k]) /\ Written(units, N, r[k], own[k])
             /\ r[k].first \in 1..N /\ r[k].last \in r[k].first..N /\ r[k].last \in 1..N
             /\ r[k].first \in Int /\ r[k].last \in Int
             /\ \A j \in 1..N : units[j] \in ToSet(own[k].units) <=> j \in Within(r[k])
  <2>1. Whole(units, max, overlap, N, r[k])
    BY <1>3 DEF Good
  <2>2. k \in 1..Len(own) /\ N \in 0..Len(units)
    BY <1>2, <1>4
  <2>3. Written(units, N, r[k], own[k])
    BY <1>2, <1>3, <2>1, <2>2, HasIs
  <2>4. r[k].first \in 1..N /\ r[k].last \in r[k].first..N
    BY <2>1 DEF Whole
  <2>5. r[k].last \in 1..N /\ r[k].first \in Int /\ r[k].last \in Int
    BY <1>2, <2>4
  <2>6. \A j \in 1..N : units[j] \in ToSet(own[k].units) <=> j \in Within(r[k])
    BY <1>2, <2>3 DEF Written
  <2> QED
    BY <2>1, <2>3, <2>4, <2>5, <2>6
<1>6. ASSUME NEW page \in chapter.from..chapter.to, NEW i \in DOMAIN pages[page]
      PROVE  LET u == Unit(pages, page, i)
                 n == PieceCount(u, max)
                 having == {k \in DOMAIN own : u \in ToSet(own[k].units)}
             IN IF u.tokens > max
                THEN \E k \in 0..Len(own) - n :
                       /\ having = k + 1 .. k + n
                       /\ \A p \in 1..n : own[k + p] = [units |-> <<u>>, piece |-> p]
                ELSE having # {}
  <2> DEFINE u == Unit(pages, page, i)
             n == PieceCount(u, max)
             having == {k \in DOMAIN own : u \in ToSet(own[k].units)}
  <2>0. \E j \in 1..N : units[j] = u
    BY <1>2
  <2> HIDE DEF u
  <2>7. n = PieceCount(u, max) /\ having = {k \in DOMAIN own : u \in ToSet(own[k].units)}
    OBVIOUS
  <2> HIDE DEF n, having
  <2>1. PICK j \in 1..N : units[j] = u
    BY <2>0
  <2>2. Held(units, max, r, N + 1, j)
    BY <1>3 DEF Good
  <2>3. n \in Nat /\ u \in UnitSet
    <3>1. u \in UnitSet
      BY <1>2, <2>1
    <3> QED
      BY <2>7, <3>1, PieceCountIs
  <2>4. having = {x \in 1..Len(r) : j \in Within(r[x])}
    BY <1>4, <1>5, <2>1, <2>7
  <2>5. ASSUME u.tokens > max
        PROVE  \E k \in 0..Len(own) - n :
                 /\ having = k + 1 .. k + n
                 /\ \A p \in 1..n : own[k + p] = [units |-> <<u>>, piece |-> p]
    <3>1. PICK k \in Nat : /\ k + n <= Len(r)
                           /\ {x \in 1..Len(r) : j \in Within(r[x])} = k + 1 .. k + n
                           /\ \A p \in 1..n : r[k + p] = [first |-> j, last |-> j, piece |-> p]
      BY <2>1, <2>2, <2>5, <2>7 DEF Held
    <3>2. having = k + 1 .. k + n
      BY <2>4, <3>1
    <3>3. ASSUME NEW p \in 1..n PROVE own[k + p] = [units |-> <<u>>, piece |-> p]
      <4> DEFINE x == r[k + p]
                 y == own[k + p]
                 a == y.units
                 b == <<u>>
      <4>1. k + p \in 1..Len(r) /\ j \in Int
        BY <1>2, <1>4, <2>3, <3>1
      <4>2. x = [first |-> j, last |-> j, piece |-> p]
        BY <3>1
      <4>3. y \in ChunkSet /\ Written(units, N, x, y)
        BY <1>4, <1>5, <4>1
      <4> HIDE DEF x, y
      <4>4. x.first = j /\ x.last = j /\ x.piece = p
        BY <4>2
      <4>5. a \in Seq(UnitSet) /\ Len(a) = j - j + 1 /\ \A m \in 1..Len(a) : a[m] = units[j + m - 1]
        BY <4>3, <4>4 DEF Written
      <4>6. b \in Seq(UnitSet) /\ Len(b) = 1 /\ b[1] = u
        BY <2>3
      <4>7. j - j + 1 = 1 /\ j + 1 - 1 = j /\ \A m \in 1..1 : m = 1
        BY <4>1
      <4> HIDE DEF a, b
      <4>8. Len(a) = Len(b) /\ \A m \in 1..Len(a) : a[m] = b[m]
        BY <2>1, <4>5, <4>6, <4>7
      <4>9. a = b
        BY <4>5, <4>6, <4>8, SeqEqual
      <4>10. y.units = <<u>> /\ y.piece = p
        BY <4>3, <4>4, <4>9 DEF Written, a, b
      <4>11. y = [units |-> <<u>>, piece |-> p]
        BY <4>3, <4>10 DEF ChunkSet
      <4> QED
        BY <4>11 DEF y
    <3>4. k \in 0..Len(own) - n
      BY <1>4, <2>3, <3>1
    <3> QED
      BY <3>2, <3>3, <3>4
  <2>6. ASSUME ~(u.tokens > max) PROVE having # {}
    <3>1. ~(N + 1 <= j)
      BY <1>2
    <3>2. \E k \in 1..Len(r) : j \in Within(r[k])
      BY <2>1, <2>2, <2>6, <3>1 DEF Held
    <3> QED
      BY <2>4, <3>2
  <2>8. IF u.tokens > max
        THEN \E k \in 0..Len(own) - n :
               /\ having = k + 1 .. k + n
               /\ \A p \in 1..n : own[k + p] = [units |-> <<u>>, piece |-> p]
        ELSE having # {}
    BY <2>5, <2>6
  <2> QED
    BY <2>8 DEF u, n, having
<1>7. AllIn(pages, chapter, own, max)
  BY <1>6 DEF AllIn
<1>8. ASSUME NEW k \in 1..Len(r), k > 1
      PROVE  Follows(units, overlap, r[k - 1], r[k]) /\ k - 1 \in 1..Len(r)
  <2>1. k \in 2..Len(r) /\ k - 1 \in 1..Len(r)
    BY <1>4, <1>8
  <2> QED
    BY <1>3, <2>1 DEF Good
<1>9. ASSUME NEW k \in 1..Len(r)
      PROVE  /\ own[k].units # <<>>
             /\ \E i, j \in DOMAIN units : own[k].units = SubSeq(units, i, j)
             /\ k > 1 => \E i, j \in DOMAIN units :
                           /\ units[i] = Last(own[k - 1].units) /\ units[j] = Last(own[k].units)
                           /\ IF own[k].piece > 1 THEN i = j ELSE i < j
  <2>1. own[k].units # <<>> /\ own[k].units = SubSeq(units, r[k].first, r[k].last)
    BY <1>5 DEF Written
  <2>2. \E i, j \in DOMAIN units : own[k].units = SubSeq(units, i, j)
    BY <1>2, <1>5, <2>1
  <2>3. ASSUME k > 1
        PROVE  \E i, j \in DOMAIN units :
                 /\ units[i] = Last(own[k - 1].units) /\ units[j] = Last(own[k].units)
                 /\ IF own[k].piece > 1 THEN i = j ELSE i < j
    <3>1. Follows(units, overlap, r[k - 1], r[k]) /\ k - 1 \in 1..Len(r)
      BY <1>8, <2>3
    <3>2. r[k].last \in DOMAIN units /\ r[k - 1].last \in DOMAIN units
      BY <1>2, <1>5, <3>1
    <3>3. /\ units[r[k - 1].last] = Last(own[k - 1].units) /\ units[r[k].last] = Last(own[k].units)
          /\ own[k].piece = r[k].piece
      BY <1>5, <3>1 DEF Written
    <3>4. IF own[k].piece > 1 THEN r[k - 1].last = r[k].last ELSE r[k - 1].last < r[k].last
      BY <3>1, <3>3 DEF Follows
    <3> QED
      BY <3>2, <3>3, <3>4
  <2> QED
    BY <2>1, <2>2, <2>3
<1>10. InOrderOf(units, own)
  BY <1>4, <1>9 DEF InOrderOf
<1>11. ASSUME NEW k \in 1..Len(r), own[k].piece = 0
       PROVE  /\ TokensOf(own[k].units) <= max + overlap
              /\ k > 1 => \E m \in 0..Len(own[k].units) - 1 :
                            /\ TokensOf(SubSeq(own[k].units, 1, m)) <= overlap
                            /\ \A i \in m + 1 .. Len(own[k].units) :
                                 own[k].units[i] \notin ToSet(own[k - 1].units)
  <2> DEFINE f == r[k].first
             l == r[k].last
             s == own[k].units
  <2>1. f \in 1..N /\ l \in f..N /\ f \in Int /\ l \in Int
    BY <1>5
  <2>2. /\ s = SubSeq(units, f, l) /\ s \in Seq(UnitSet) /\ Len(s) = l - f + 1 /\ r[k].piece = 0
        /\ \A i \in 1..Len(s) : s[i] = units[f + i - 1]
    BY <1>5, <1>11 DEF Written
  <2>3. TokensOf(s) <= max + overlap
    <3>1. Bulk(units, f, l) <= max + overlap
      BY <1>5, <2>2 DEF Whole
    <3> QED
      BY <2>2, <3>1 DEF Bulk
  <2>4. ASSUME k > 1
        PROVE  \E m \in 0..Len(s) - 1 : /\ TokensOf(SubSeq(s, 1, m)) <= overlap
                                        /\ \A i \in m + 1 .. Len(s) : s[i] \notin ToSet(own[k - 1].units)
    <3>1. Follows(units, overlap, r[k - 1], r[k]) /\ k - 1 \in 1..Len(r)
      BY <1>8, <2>4
    <3>2. PICK m \in f - 1..l - 1 : r[k - 1].last <= m /\ Bulk(units, f, m) <= overlap
      BY <2>2, <3>1 DEF Follows
    <3>3. r[k - 1].last \in Int
      BY <1>5, <3>1
    <3> DEFINE q == m - f + 1
    <3> HIDE DEF f, l, s
    <3>4. /\ q \in 0..Len(s) - 1 /\ f + q - 1 = m /\ m \in Int /\ q \in Int /\ q \in 1 - 1..l - f + 1
          /\ f \in 1..N + 1 /\ l \in f - 1..N /\ f + 1 - 1 = f /\ 1 \in 1..l - f + 2
      BY <1>2, <2>1, <2>2, <3>2
    <3> HIDE DEF q
    <3>5. SubSeq(s, 1, q) = SubSeq(units, f, m)
      <4>1. SubSeq(SubSeq(units, f, l), 1, q) = SubSeq(units, f + 1 - 1, f + q - 1)
        BY <1>2, <3>4, RunOfRun
      <4> QED
        BY <2>2, <3>4, <4>1
    <3>6. TokensOf(SubSeq(s, 1, q)) <= overlap
      BY <3>2, <3>5 DEF Bulk
    <3>7. ASSUME NEW i \in q + 1 .. Len(s) PROVE s[i] \notin ToSet(own[k - 1].units)
      <4>1. i \in 1..Len(s) /\ f + i - 1 \in 1..N /\ f + i - 1 > m
        <5>1. i \in Int /\ i >= q + 1 /\ i <= l - f + 1 /\ q >= 0 /\ q \in Int /\ f + q - 1 = m
          BY <2>1, <2>2, <3>4
        <5>2. f \in Int /\ l \in Int /\ f >= 1 /\ l <= N /\ N \in Int /\ Len(s) = l - f + 1
          BY <1>2, <2>1, <2>2
        <5> QED
          BY <5>1, <5>2
      <4>2. s[i] = units[f + i - 1]
        BY <2>2, <4>1
      <4>3. f + i - 1 \notin Within(r[k - 1])
        BY <3>2, <3>3, <3>4, <4>1 DEF Within
      <4> QED
        BY <1>5, <3>1, <4>1, <4>2, <4>3
    <3> QED
      BY <3>4, <3>6, <3>7
  <2> QED
    BY <2>3, <2>4
<1>12. LittleTwice(own, max, overlap)
  BY <1>4, <1>11 DEF LittleTwice
<1> QED
  BY <1>7, <1>10, <1>12

LEMMA Indexed ==
  ASSUME NEW c \in Parsed
  PROVE  PagesInChapters(c.tops, Len(c.pages)) /\ ChunksCover(c.pages, c.tops, c.max, c.overlap)
<1> DEFINE chapters == DetectChapters(c.tops, Len(c.pages))
           chunks == ChunkPages(c.pages, chapters, c.max, c.overlap)
<1>1. /\ c.pages \in Book /\ c.tops \in Seq(Nat) /\ c.max \in Nat \ {0} /\ c.overlap \in Nat
      /\ c.tops \in Outlines(Len(c.pages)) /\ c.pages # <<>>
  BY DEF Parsed, Book
<1>2. Len(c.pages) \in Nat \ {0}
  BY <1>1 DEF Book
<1>3. /\ \A k \in DOMAIN chapters : /\ chapters[k].from \in 1..Len(c.pages)
                                    /\ chapters[k].to \in chapters[k].from..Len(c.pages)
      /\ PagesInChapters(c.tops, Len(c.pages))
  BY <1>1, <1>2, ChaptersAre
<1> HIDE DEF chapters
<1>4. \A k \in DOMAIN chapters :
        chunks[k] = ChunkChapter(UnitsOf(c.pages, chapters[k]), c.max, c.overlap)
  BY DEF ChunkPages
<1> HIDE DEF chunks
<1>5. ChunksCover(c.pages, c.tops, c.max, c.overlap)
  BY <1>1, <1>3, <1>4, ChunksOf DEF ChunksCover, chunks, chapters
<1> QED
  BY <1>3, <1>5

-----------------------------------------------------------------------------
(***************************************************************************)
(* Sorting and adding up.                                                  *)
(***************************************************************************)
\* A finite set in a strict order: everything once, and in order.
Orders(S, before) ==
  /\ \A x, y \in S : <<x, y>> \in before => <<y, x>> \notin before
  /\ \A x, y, z \in S : <<x, y>> \in before /\ <<y, z>> \in before => <<x, z>> \in before
  /\ \A x, y \in S : x # y => <<x, y>> \in before \/ <<y, x>> \in before

\* What is sorted holds everything once, each where as many come before it as do.
LEMMA SortedIs ==
  ASSUME NEW S, IsFiniteSet(S), NEW before, Orders(S, before)
  PROVE  /\ Cardinality(S) \in Nat
         /\ \A k \in 1..Cardinality(S) : Sorted(S, before)[k] \in S
         /\ \A x \in S : \E k \in 1..Cardinality(S) : Sorted(S, before)[k] = x
         /\ \A k, m \in 1..Cardinality(S) :
              k < m <=> <<Sorted(S, before)[k], Sorted(S, before)[m]>> \in before
         /\ \A k \in 1..Cardinality(S) : \A x \in S :
              Sorted(S, before)[k] = x <=> Cardinality({y \in S : <<y, x>> \in before}) = k - 1
<1> DEFINE n == Cardinality(S)
           Under(x) == {y \in S : <<y, x>> \in before}
           place(x) == Cardinality(Under(x))
           f == [x \in S |-> place(x) + 1]
<1>1. n \in Nat /\ IsFiniteSet(1..n) /\ Cardinality(1..n) = n
  <2>1. n \in Nat
    BY FS_CardinalityType
  <2> HIDE DEF n
  <2> QED
    BY <2>1, FS_Interval
<1>2. ASSUME NEW x \in S PROVE IsFiniteSet(Under(x)) /\ place(x) \in Nat /\ place(x) < n
  <2>1. Under(x) \in SUBSET S /\ Under(x) # S
    BY DEF Orders
  <2> HIDE DEF Under
  <2>2. IsFiniteSet(Under(x)) /\ Cardinality(Under(x)) <= n /\ Cardinality(Under(x)) # n
    BY <2>1, FS_Subset
  <2>3. Cardinality(Under(x)) \in Nat
    BY <2>2, FS_CardinalityType
  <2> HIDE DEF n
  <2> QED
    BY <1>1, <2>2, <2>3
<1>3. ASSUME NEW x \in S, NEW y \in S, <<x, y>> \in before PROVE place(x) < place(y)
  <2>1. Under(x) \in SUBSET Under(y) /\ x \in Under(y) /\ x \notin Under(x)
    BY <1>3 DEF Orders
  <2> HIDE DEF Under
  <2>2. Cardinality(Under(x)) <= Cardinality(Under(y)) /\ Cardinality(Under(x)) # Cardinality(Under(y))
    BY <1>2, <2>1, FS_Subset
  <2> QED
    BY <1>2, <2>2
<1>4. f \in Injection(S, 1..n)
  <2>1. f \in [S -> 1..n]
    <3> SUFFICES ASSUME NEW x \in S PROVE place(x) + 1 \in 1..n
      OBVIOUS
    <3>1. place(x) \in Nat /\ place(x) < n
      BY <1>2
    <3> HIDE DEF n, place
    <3> QED
      BY <1>1, <3>1
  <2>2. ASSUME NEW x \in S, NEW y \in S, f[x] = f[y] PROVE x = y
    <3>1. place(x) \in Nat /\ place(y) \in Nat
      BY <1>2
    <3>2. f[x] = place(x) + 1 /\ f[y] = place(y) + 1
      OBVIOUS
    <3>3. <<x, y>> \in before => place(x) < place(y)
      BY <1>3
    <3>4. <<y, x>> \in before => place(y) < place(x)
      BY <1>3
    <3>5. place(x) + 1 = place(y) + 1
      BY <2>2
    <3> HIDE DEF f, place
    <3>6. place(x) = place(y)
      BY <3>1, <3>5
    <3> QED
      BY <3>1, <3>3, <3>4, <3>6 DEF Orders
  <2> HIDE DEF f, n
  <2> QED
    BY <2>1, <2>2 DEF Injection, IsInjective
<1>5. f \in Surjection(S, 1..n)
  <2> HIDE DEF f
  <2> QED
    BY <1>1, <1>4, FS_Injection
<1>6. ASSUME NEW k \in 1..n PROVE Sorted(S, before)[k] \in S /\ f[Sorted(S, before)[k]] = k
  <2>1. PICK x \in S : f[x] = k
    BY <1>5 DEF Surjection
  <2>2. place(x) \in Nat /\ place(x) + 1 = k
    BY <1>2, <2>1
  <2>3. place(x) = k - 1 /\ k \in Int
    <3> HIDE DEF place
    <3> QED
      BY <2>2
  <2>4. Sorted(S, before)[k] = CHOOSE y \in S : place(y) = k - 1
    BY DEF Sorted
  <2>5. Sorted(S, before)[k] \in S /\ place(Sorted(S, before)[k]) = k - 1
    BY <2>3, <2>4
  <2>6. f[Sorted(S, before)[k]] = place(Sorted(S, before)[k]) + 1
    BY <2>5
  <2> HIDE DEF f, place
  <2> QED
    BY <2>3, <2>5, <2>6
<1>7. ASSUME NEW x \in S PROVE \E k \in 1..n : Sorted(S, before)[k] = x
  <2>1. f[x] \in 1..n
    BY <1>4 DEF Injection
  <2>2. Sorted(S, before)[f[x]] \in S /\ f[Sorted(S, before)[f[x]]] = f[x]
    BY <1>6, <2>1
  <2>3. Sorted(S, before)[f[x]] = x
    <3> HIDE DEF f
    <3> QED
      BY <1>4, <2>2 DEF Injection, IsInjective
  <2> QED
    BY <2>1, <2>3
<1>8. ASSUME NEW k \in 1..n, NEW m \in 1..n
      PROVE  k < m <=> <<Sorted(S, before)[k], Sorted(S, before)[m]>> \in before
  <2> DEFINE x == Sorted(S, before)[k]
             y == Sorted(S, before)[m]
  <2>1. x \in S /\ y \in S /\ f[x] = k /\ f[y] = m
    BY <1>6
  <2> HIDE DEF x, y
  <2>2. place(x) \in Nat /\ place(y) \in Nat /\ place(x) + 1 = k /\ place(y) + 1 = m
    BY <1>2, <2>1
  <2>3. <<x, y>> \in before => place(x) < place(y)
    BY <1>3, <2>1
  <2>4. <<y, x>> \in before => place(y) < place(x)
    BY <1>3, <2>1
  <2> HIDE DEF place
  <2>5. <<x, y>> \in before <=> k < m
    BY <2>1, <2>2, <2>3, <2>4 DEF Orders
  <2> QED
    BY <2>5 DEF x, y
<1>9. ASSUME NEW k \in 1..n, NEW x \in S
      PROVE  Sorted(S, before)[k] = x <=> place(x) = k - 1
  <2>1. Sorted(S, before)[k] \in S /\ f[Sorted(S, before)[k]] = k /\ f[x] = place(x) + 1
    BY <1>6
  <2>2. place(x) \in Nat /\ k \in Int
    BY <1>2
  <2> HIDE DEF f, place
  <2>3. f[x] = k <=> place(x) = k - 1
    BY <2>1, <2>2
  <2> QED
    BY <1>4, <2>1, <2>3 DEF Injection, IsInjective
<1> QED
  BY <1>1, <1>6, <1>7, <1>8, <1>9

\* Two sets that are in order alike are sorted alike.
LEMMA SortedAlike ==
  ASSUME NEW S, IsFiniteSet(S), NEW before, Orders(S, before), NEW T, NEW behind,
         NEW f \in Bijection(S, T),
         \A x, y \in S : <<x, y>> \in before <=> <<f[x], f[y]>> \in behind
  PROVE  /\ IsFiniteSet(T) /\ Cardinality(T) = Cardinality(S)
         /\ \A k \in 1..Cardinality(S) : Sorted(T, behind)[k] = f[Sorted(S, before)[k]]
<1> DEFINE Under(x) == {y \in S : <<y, x>> \in before}
           Below(x) == {y \in T : <<y, x>> \in behind}
<1>1. IsFiniteSet(T) /\ Cardinality(T) = Cardinality(S)
  BY FS_Bijection DEF ExistsBijection
<1>2. /\ \A x \in S : f[x] \in T
      /\ \A x, y \in S : f[x] = f[y] => x = y
      /\ \A t \in T : \E x \in S : f[x] = t
  BY DEF Bijection, Injection, IsInjective, Surjection
<1>3. Orders(T, behind)
  <2>1. ASSUME NEW t \in T, NEW u \in T, <<t, u>> \in behind PROVE <<u, t>> \notin behind
    <3>1. PICK x \in S, y \in S : f[x] = t /\ f[y] = u
      BY <1>2
    <3> QED
      BY <2>1, <3>1 DEF Orders
  <2>2. ASSUME NEW t \in T, NEW u \in T, NEW v \in T, <<t, u>> \in behind, <<u, v>> \in behind
        PROVE  <<t, v>> \in behind
    <3>1. PICK x \in S, y \in S, z \in S : f[x] = t /\ f[y] = u /\ f[z] = v
      BY <1>2
    <3> QED
      BY <2>2, <3>1 DEF Orders
  <2>3. ASSUME NEW t \in T, NEW u \in T, t # u PROVE <<t, u>> \in behind \/ <<u, t>> \in behind
    <3>1. PICK x \in S, y \in S : f[x] = t /\ f[y] = u
      BY <1>2
    <3> QED
      BY <2>3, <3>1 DEF Orders
  <2> QED
    BY <2>1, <2>2, <2>3 DEF Orders
<1>4. ASSUME NEW k \in 1..Cardinality(S) PROVE Sorted(T, behind)[k] = f[Sorted(S, before)[k]]
  <2> DEFINE x == Sorted(S, before)[k]
             g == [y \in Under(x) |-> f[y]]
  <2>1. x \in S /\ Cardinality(Under(x)) = k - 1
    BY SortedIs
  <2> HIDE DEF x
  <2>2. f[x] \in T
    BY <1>2, <2>1
  <2>3. IsFiniteSet(Under(x))
    <3>1. Under(x) \in SUBSET S
      OBVIOUS
    <3> HIDE DEF Under
    <3> QED
      BY <3>1, FS_Subset
  <2>4. g \in Bijection(Under(x), Below(f[x]))
    <3>1. \A y \in Under(x) : f[y] \in Below(f[x])
      BY <1>2, <2>1
    <3>2. \A t \in Below(f[x]) : \E y \in Under(x) : f[y] = t
      BY <1>2, <2>1
    <3> HIDE DEF Below
    <3>3. g \in [Under(x) -> Below(f[x])]
      BY <3>1
    <3>4. \A y, z \in Under(x) : g[y] = g[z] => y = z
      BY <1>2
    <3>5. \A t \in Below(f[x]) : \E y \in Under(x) : g[y] = t
      BY <3>2
    <3> HIDE DEF g, Under
    <3> QED
      BY <3>3, <3>4, <3>5 DEF Bijection, Injection, IsInjective, Surjection
  <2>5. Cardinality(Below(f[x])) = k - 1
    <3> HIDE DEF Under, Below, g
    <3> QED
      BY <2>1, <2>3, <2>4, FS_Bijection DEF ExistsBijection
  <2>6. \A m \in 1..Cardinality(T) : \A t \in T :
          Sorted(T, behind)[m] = t <=> Cardinality(Below(t)) = m - 1
    BY <1>1, <1>3, SortedIs
  <2> HIDE DEF Below
  <2>7. Sorted(T, behind)[k] = f[x]
    BY <1>1, <2>2, <2>5, <2>6
  <2> QED
    BY <2>7 DEF x
<1> QED
  BY <1>1, <1>4

\* Sums grow by one number at a time.
LEMMA TotalIs ==
  ASSUME NEW s \in Seq(Int), NEW from \in Nat, from >= 1
  PROVE  /\ \A to \in 0..Len(s) : Total(s, from, to) \in Int
         /\ \A to \in 0..Len(s) : to < from => Total(s, from, to) = 0
         /\ \A to \in 1..Len(s) :
              to >= from => Total(s, from, to) = Total(s, from, to - 1) + s[to]
<1> DEFINE n == Len(s)
           Sums(g) == g = [k \in 0..n |-> IF k < from THEN 0 ELSE g[k - 1] + s[k]]
           upTo == CHOOSE g : Sums(g)
           T == [x \in (1..n) \X Int |-> IF x[1] < from THEN 0 ELSE x[2] + s[x[1]]]
<1>1. n \in Nat /\ \A k \in 1..n : s[k] \in Int
  OBVIOUS
<1>2. \E f : Solves(f, n, Int, 0, T)
  <2>1. T \in [(1..n) \X Int -> Int]
    <3> SUFFICES ASSUME NEW k \in 1..n, NEW x \in Int PROVE (IF k < from THEN 0 ELSE x + s[k]) \in Int
      OBVIOUS
    <3> QED
      BY <1>1
  <2>2. 0 \in Int /\ n \in Nat
    BY <1>1
  <2> HIDE DEF T, n
  <2> QED
    BY <2>1, <2>2, RecursionExists
<1>3. PICK f : Solves(f, n, Int, 0, T)
  BY <1>2
<1>4. f \in [0..n -> Int] /\ f[0] = 0 /\ \A k \in 1..n : f[k] = IF k < from THEN 0 ELSE f[k - 1] + s[k]
  <2>1. f \in [0..n -> Int] /\ f[0] = 0 /\ \A k \in 1..n : f[k] = T[<<k, f[k - 1]>>]
    BY <1>3 DEF Solves
  <2>2. ASSUME NEW k \in 1..n PROVE T[<<k, f[k - 1]>>] = IF k < from THEN 0 ELSE f[k - 1] + s[k]
    <3>1. k - 1 \in 0..n
      BY <1>1
    <3>2. f[k - 1] \in Int
      BY <2>1, <3>1
    <3> QED
      BY <3>2
  <2> HIDE DEF T
  <2> QED
    BY <2>1, <2>2
<1>5. Sums(f)
  <2>1. \A k \in 0..n : f[k] = IF k < from THEN 0 ELSE f[k - 1] + s[k]
    <3> TAKE k \in 0..n
    <3>1. CASE k = 0
      BY <1>4, <3>1
    <3>2. CASE k \in 1..n
      BY <1>4, <3>2
    <3> QED
      BY <1>1, <3>1, <3>2
  <2>2. f = [k \in 0..n |-> f[k]]
    BY <1>4
  <2> QED
    BY <2>1, <2>2
<1>6. Sums(upTo)
  BY <1>5
<1>7. \A to \in 0..n : Total(s, from, to) = upTo[to]
  BY DEF Total
<1>8. upTo = [k \in 0..n |-> IF k < from THEN 0 ELSE upTo[k - 1] + s[k]]
  BY <1>6
<1> HIDE DEF upTo, Sums
<1>9. \A k \in 0..n : upTo[k] = IF k < from THEN 0 ELSE upTo[k - 1] + s[k]
  BY <1>8
<1>10. upTo[0] \in Int
  BY <1>1, <1>9
<1>11. \A k \in 1..n : upTo[k - 1] \in Int => upTo[k] \in Int
  <2> TAKE k \in 1..n
  <2>1. k \in 0..n /\ s[k] \in Int
    BY <1>1
  <2>2. upTo[k] = IF k < from THEN 0 ELSE upTo[k - 1] + s[k]
    BY <1>9, <2>1
  <2> HIDE DEF n
  <2> QED
    BY <2>1, <2>2
<1>12. \A k \in 0..n : upTo[k] \in Int
  <2> HIDE DEF n
  <2> QED
    BY <1>1, <1>10, <1>11, Along
<1>13. \A to \in 0..n : Total(s, from, to) \in Int
  BY <1>7, <1>12
<1>14. \A to \in 0..n : to < from => Total(s, from, to) = 0
  BY <1>7, <1>9
<1>15. ASSUME NEW to \in 1..n, to >= from PROVE Total(s, from, to) = Total(s, from, to - 1) + s[to]
  <2>1. to \in 0..n /\ to - 1 \in 0..n /\ ~(to < from)
    BY <1>1, <1>15
  <2> QED
    BY <1>7, <1>9, <2>1
<1> QED
  BY <1>13, <1>14, <1>15

-----------------------------------------------------------------------------
(***************************************************************************)
(* The words searched for.                                                 *)
(***************************************************************************)
\* Of fewer words than are looked at, all are, each where it is first.
FirstUses(words) == {i \in DOMAIN words : \A j \in 1..i - 1 : words[j].word # words[i].word}

\* Of few words, all are looked at.
LEMMA ProbedIs ==
  ASSUME NEW words \in Seq(Word), Len(words) <= MaxTermsProbed
  PROVE  Probed(words) = FirstUses(words)
<1>1. ASSUME NEW i \in DOMAIN words PROVE Cardinality({words[j].word : j \in 1..i}) <= MaxTermsProbed
  <2> DEFINE T == {words[j].word : j \in 1..i}
             f == [j \in 1..i |-> words[j].word]
  <2>1. i \in Nat /\ i <= Len(words) /\ MaxTermsProbed \in Nat /\ Len(words) \in Nat
    BY DEF MaxTermsProbed
  <2>2. IsFiniteSet(1..i) /\ Cardinality(1..i) = i
    BY <2>1, FS_Interval
  <2>3. f \in Surjection(1..i, T)
    BY DEF Surjection
  <2> HIDE DEF f, T
  <2>4. Cardinality(T) <= i /\ Cardinality(T) \in Nat
    BY <2>2, <2>3, FS_Surjection, FS_CardinalityType
  <2>5. Cardinality(T) <= MaxTermsProbed
    BY <2>1, <2>4
  <2> QED
    BY <2>5 DEF T
<1> QED
  BY <1>1 DEF Probed, FirstUses

\* A word may always be in a few chunks.
LEMMA CapIs ==
  ASSUME NEW total \in Nat
  PROVE  SelectivityCap(total) \in Int /\ SelectivityCap(total) >= MinSelective
<1>1. (2 * total) \div 100 \in Int /\ MinSelective \in Int
  <2>1. 2 * total \in Int
    OBVIOUS
  <2>2. \A a \in Int : a \div 100 \in Int
    OBVIOUS
  <2>3. MinSelective \in Int
    BY DEF MinSelective
  <2> QED
    BY <2>1, <2>2, <2>3
<1> DEFINE share == (2 * total) \div 100
<1>2. SelectivityCap(total) = Max({MinSelective, share})
  BY DEF SelectivityCap
<1> HIDE DEF MinSelective, share
<1>3. share \in Int
  BY <1>1 DEF share
<1> QED
  BY <1>1, <1>2, <1>3, TwoOf

\* The words kept, and their order.
LEMMA SelectiveIs ==
  ASSUME NEW words \in Seq(Word), NEW total \in Nat
  PROVE  LET present == Present(words, total)
             kept == Selective(words, total)
         IN /\ kept \subseteq present /\ present \subseteq DOMAIN words /\ IsFiniteSet(kept)
            /\ Orders(kept, Rarer(words, kept))
            /\ \A i \in DOMAIN words : words[i].found \in Nat
            /\ \A i \in present : words[i].found \in 1..SelectivityCap(total)
            /\ \A i \in kept : \A j \in present \ kept : words[i].found <= words[j].found
<1> DEFINE present == Present(words, total)
           kept == Selective(words, total)
           found == {words[i].found : i \in present}
           bound == Max({MinSelective, Min(found) * RaritySpread})
<1>1. present \subseteq DOMAIN words /\ \A i \in present : words[i].found \in 1..SelectivityCap(total)
  BY DEF Present, Probed
<1>2. kept = {i \in present : words[i].found <= bound}
  BY DEF Selective
<1>3. \A i \in DOMAIN words : words[i].found \in Nat
  <2>1. \A i \in DOMAIN words : words[i] \in Word
    OBVIOUS
  <2> QED
    BY <2>1 DEF Word
<1>4. IsFiniteSet(DOMAIN words) /\ DOMAIN words \subseteq Int
  <2>1. DOMAIN words = 1..Len(words) /\ Len(words) \in Nat
    OBVIOUS
  <2>2. IsFiniteSet(1..Len(words))
    BY <2>1, FS_Interval
  <2> QED
    BY <2>1, <2>2
<1> HIDE DEF present, kept, bound
<1>5. kept \subseteq present
  BY <1>2
<1>6. IsFiniteSet(kept)
  <2>1. kept \in SUBSET DOMAIN words
    BY <1>1, <1>5
  <2> QED
    BY <1>4, <2>1, FS_Subset
<1>7. Orders(kept, Rarer(words, kept))
  <2>1. \A i \in kept : words[i].found \in Int /\ i \in Int
    BY <1>1, <1>3, <1>4, <1>5
  <2>2. \A i, j \in kept : <<i, j>> \in Rarer(words, kept) <=>
          words[i].found < words[j].found \/ (words[i].found = words[j].found /\ i < j)
    BY DEF Rarer
  <2>3. \A x, y \in kept : <<x, y>> \in Rarer(words, kept) => <<y, x>> \notin Rarer(words, kept)
    BY <2>1, <2>2
  <2>4. \A x, y, z \in kept : <<x, y>> \in Rarer(words, kept) /\ <<y, z>> \in Rarer(words, kept)
          => <<x, z>> \in Rarer(words, kept)
    <3> SUFFICES ASSUME NEW x \in kept, NEW y \in kept, NEW z \in kept,
                        <<x, y>> \in Rarer(words, kept), <<y, z>> \in Rarer(words, kept)
                 PROVE  <<x, z>> \in Rarer(words, kept)
      OBVIOUS
    <3> DEFINE a == words[x].found
               b == words[y].found
               d == words[z].found
    <3>2. a \in Int /\ b \in Int /\ d \in Int /\ x \in Int /\ y \in Int /\ z \in Int
      BY <2>1
    <3>3. (a < b \/ (a = b /\ x < y)) /\ (b < d \/ (b = d /\ y < z))
      BY <2>2
    <3>4. a < d \/ (a = d /\ x < z)
      <4> HIDE DEF a, b, d
      <4> QED
        BY <3>2, <3>3
    <3> QED
      BY <2>2, <3>4
  <2>5. \A x, y \in kept : x # y => <<x, y>> \in Rarer(words, kept) \/ <<y, x>> \in Rarer(words, kept)
    BY <2>1, <2>2
  <2> QED
    BY <2>3, <2>4, <2>5 DEF Orders
<1>8. ASSUME NEW i \in kept, NEW j \in present \ kept PROVE words[i].found <= words[j].found
  <2>1. found \subseteq Int /\ IsFiniteSet(found) /\ found # {}
    <3> DEFINE f == [k \in present |-> words[k].found]
    <3>1. f \in Surjection(present, found)
      BY DEF Surjection
    <3>2. IsFiniteSet(present)
      <4>1. present \in SUBSET DOMAIN words
        BY <1>1
      <4> QED
        BY <1>4, <4>1, FS_Subset
    <3>3. found \subseteq Int
      BY <1>1, <1>3
    <3>4. words[j].found \in found
      OBVIOUS
    <3> HIDE DEF f, found
    <3> QED
      BY <3>1, <3>2, <3>3, <3>4, FS_Surjection
  <2>2. Min(found) \in Int
    <3> HIDE DEF found
    <3> QED
      BY <2>1, MinIs
  <2>3. bound \in Int
    <3>1. MinSelective \in Int /\ Min(found) * RaritySpread \in Int
      BY <2>2 DEF MinSelective, RaritySpread
    <3> HIDE DEF found
    <3> QED
      BY <3>1, TwoOf DEF bound
  <2>4. words[i].found \in Int /\ words[j].found \in Int
    BY <1>1, <1>3, <1>5
  <2>5. words[i].found <= bound /\ ~(words[j].found <= bound)
    BY <1>2
  <2> QED
    BY <2>3, <2>4, <2>5
<1>9. /\ kept \subseteq present /\ present \subseteq DOMAIN words /\ IsFiniteSet(kept)
      /\ Orders(kept, Rarer(words, kept))
      /\ \A i \in DOMAIN words : words[i].found \in Nat
      /\ \A i \in present : words[i].found \in 1..SelectivityCap(total)
      /\ \A i \in kept : \A j \in present \ kept : words[i].found <= words[j].found
  BY <1>1, <1>3, <1>5, <1>6, <1>7, <1>8
<1> QED
  BY <1>9 DEF present, kept

\* A word that is used twice is one word.
OneWord(words) == \A w, v \in ToSet(words) : w.word = v.word => w = v

\* The words kept come rarest first, and none rarer is left out.
LEMMA NoneRarer ==
  ASSUME NEW words \in Seq(Word), NEW total \in Nat, Len(words) <= MaxTermsProbed, OneWord(words)
  PROVE  LET kept == SignificantTerms(words, total)
         IN \A k \in DOMAIN kept : \A w \in ToSet(words) :
              (\A j \in 1..k - 1 : w # kept[j]) => w.found = 0 \/ w.found >= kept[k].found
<1> DEFINE places == Selective(words, total)
           n == Cardinality(places)
           order == Sorted(places, Rarer(words, places))
           count == Min({MaxTermsKept, n})
           kept == SignificantTerms(words, total)
           cap == SelectivityCap(total)
<1>1. /\ places \subseteq Present(words, total) /\ Present(words, total) \subseteq DOMAIN words
      /\ IsFiniteSet(places) /\ Orders(places, Rarer(words, places))
      /\ \A i \in DOMAIN words : words[i].found \in Nat
      /\ \A i \in Present(words, total) : words[i].found \in 1..cap
      /\ \A i \in places : \A j \in Present(words, total) \ places : words[i].found <= words[j].found
  BY SelectiveIs
<1>2. /\ n \in Nat /\ \A k \in 1..n : order[k] \in places
      /\ \A x \in places : \E k \in 1..n : order[k] = x
      /\ \A k, m \in 1..n : k < m <=> <<order[k], order[m]>> \in Rarer(words, places)
  <2> HIDE DEF places
  <2> QED
    BY <1>1, SortedIs
<1>3. kept = [k \in 1..count |-> words[order[k]]]
  BY DEF SignificantTerms
<1>4. count \in Int /\ count <= n
  <2>1. MaxTermsKept \in Int /\ n \in Int
    BY <1>2 DEF MaxTermsKept
  <2> HIDE DEF n
  <2> QED
    BY <2>1, TwoOf
<1>5. cap \in Int
  BY CapIs
<1>6. \A k \in 1..count : k \in 1..n
  <2> HIDE DEF n, count
  <2> QED
    BY <1>2, <1>4
<1> HIDE DEF places, n, order, count, kept, cap
<1>7. ASSUME NEW k \in 1..count, NEW w \in ToSet(words), \A j \in 1..k - 1 : w # kept[j],
             w.found # 0
      PROVE  w.found >= kept[k].found
  <2>1. k \in 1..n /\ order[k] \in places /\ kept[k] = words[order[k]]
    BY <1>2, <1>3, <1>6
  <2>2. kept[k].found \in 1..cap /\ kept[k].found \in Int
    BY <1>1, <2>1
  <2>3. PICK p \in DOMAIN words : w = words[p] /\ p \in FirstUses(words)
    <3> DEFINE same == {j \in DOMAIN words : words[j].word = w.word}
    <3>1. same # {}
      BY DEF ToSet
    <3>2. same \subseteq Int /\ IsFiniteSet(same)
      <4>1. DOMAIN words = 1..Len(words) /\ Len(words) \in Nat
        OBVIOUS
      <4>2. IsFiniteSet(1..Len(words)) /\ same \in SUBSET (1..Len(words))
        BY <4>1, FS_Interval
      <4>3. same \subseteq Int
        BY <4>1
      <4> HIDE DEF same
      <4> QED
        BY <4>2, <4>3, FS_Subset
    <3>3. PICK p \in same : \A j \in same : p <= j
      <4> HIDE DEF same
      <4> QED
        BY <3>1, <3>2, SmallestExists
    <3>4. p \in DOMAIN words /\ words[p].word = w.word
      OBVIOUS
    <3>5. w = words[p]
      <4>1. words[p] \in ToSet(words)
        BY <3>4 DEF ToSet
      <4> QED
        BY <3>4, <4>1 DEF OneWord
    <3>6. \A j \in 1..p - 1 : words[j].word # words[p].word
      <4> SUFFICES ASSUME NEW j \in 1..p - 1, words[j].word = words[p].word PROVE FALSE
        OBVIOUS
      <4>1. j \in DOMAIN words /\ ~(p <= j)
        BY <3>4
      <4>2. j \in same
        BY <3>4, <4>1
      <4> QED
        BY <3>3, <4>1, <4>2
    <3> QED
      BY <3>4, <3>5, <3>6 DEF FirstUses
  <2>4. w.found \in Nat
    BY <1>1, <2>3
  <2>5. CASE w.found > cap
    BY <1>5, <2>2, <2>4, <2>5
  <2>6. CASE w.found <= cap
    <3>1. w.found \in 1..cap
      BY <1>5, <1>7, <2>4, <2>6
    <3>2. p \in Present(words, total)
      BY <2>3, <3>1, ProbedIs DEF Present, cap
    <3>3. CASE p \notin places
      <4>1. words[order[k]].found <= words[p].found
        BY <1>1, <2>1, <3>2, <3>3
      <4> QED
        BY <2>1, <2>2, <2>3, <2>4, <4>1
    <3>4. CASE p \in places
      <4>1. PICK m \in 1..n : order[m] = p
        BY <1>2, <3>4
      <4>2. ~(m < k)
        <5> SUFFICES ASSUME m < k PROVE FALSE
          OBVIOUS
        <5>1. m \in 1..count /\ m \in 1..k - 1
          BY <1>4
        <5>2. kept[m] = w
          BY <1>3, <2>3, <4>1, <5>1
        <5> QED
          BY <1>7, <5>1, <5>2
      <4>3. CASE m = k
        BY <2>1, <2>2, <2>3, <4>1, <4>3
      <4>4. CASE k < m
        <5>1. <<order[k], p>> \in Rarer(words, places)
          BY <1>2, <2>1, <4>1, <4>4
        <5>2. words[order[k]].found <= words[p].found
          <6>1. words[order[k]].found < words[p].found \/ words[order[k]].found = words[p].found
            BY <5>1 DEF Rarer
          <6> QED
            BY <2>1, <2>2, <2>3, <2>4, <6>1
        <5> QED
          BY <2>1, <2>2, <2>3, <2>4, <5>2
      <4> QED
        BY <1>2, <1>4, <4>2, <4>3, <4>4
    <3> QED
      BY <3>3, <3>4
  <2> QED
    BY <1>5, <2>4, <2>5, <2>6
<1>8. DOMAIN kept = 1..count
  BY <1>3
<1>9. \A k \in DOMAIN kept : \A w \in ToSet(words) :
        (\A j \in 1..k - 1 : w # kept[j]) => w.found = 0 \/ w.found >= kept[k].found
  BY <1>7, <1>8
<1> QED
  BY <1>9 DEF kept

\* A word put in between moves those after it.
Inserted(s, i, x) == SubSeq(s, 1, i) \o <<x>> \o SubSeq(s, i + 1, Len(s))

\* What is put in is there, and nothing is lost.
LEMMA InsertIs ==
  ASSUME NEW X, NEW s \in Seq(X), NEW x \in X, NEW i \in 0..Len(s)
  PROVE  /\ Inserted(s, i, x) \in Seq(X) /\ Len(Inserted(s, i, x)) = Len(s) + 1
         /\ \A j \in 1..i : Inserted(s, i, x)[j] = s[j]
         /\ Inserted(s, i, x)[i + 1] = x
         /\ \A j \in i + 1..Len(s) : Inserted(s, i, x)[j + 1] = s[j]
<1> DEFINE a == SubSeq(s, 1, i)
           b == SubSeq(s, i + 1, Len(s))
           n == Len(s)
<1>1. n \in Nat /\ i \in Int /\ 0 <= i /\ i <= n
  OBVIOUS
<1>2. a \in Seq(X) /\ Len(a) = i /\ \A j \in 1..i : a[j] = s[j]
  OBVIOUS
<1>3. b \in Seq(X) /\ Len(b) = n - i /\ \A j \in 1..n - i : b[j] = s[i + j]
  <2>1. i + 1 \in Int /\ \A j \in i + 1..n : j \in 1..n
    BY <1>1
  <2>2. \A j \in 1..n : s[j] \in X
    OBVIOUS
  <2>3. b \in Seq(X)
    BY <2>1
  <2>4. Len(b) = n - i
    BY <1>1
  <2>5. \A j \in 1..n - i : b[j] = s[i + j]
    BY <1>1, <2>4
  <2> QED
    BY <2>3, <2>4, <2>5
<1> HIDE DEF a, b
<1>4. /\ a \o <<x>> \in Seq(X) /\ Len(a \o <<x>>) = i + 1
      /\ (a \o <<x>>)[i + 1] = x /\ \A j \in 1..i : (a \o <<x>>)[j] = s[j]
  BY <1>1, <1>2
<1> DEFINE c == a \o <<x>>
<1>5. c \in Seq(X) /\ Len(c) = i + 1 /\ c[i + 1] = x /\ \A j \in 1..i : c[j] = s[j]
  BY <1>4
<1> HIDE DEF c
<1>6. c \o b \in Seq(X) /\ Len(c \o b) = n + 1
  <2>1. c \o b \in Seq(X) /\ Len(c \o b) = Len(c) + Len(b)
    <3>1. c \in Seq(X) /\ b \in Seq(X)
      BY <1>3, <1>5
    <3> QED
      BY <3>1, ConcatProperties
  <2>2. Len(c) + Len(b) = n + 1
    BY <1>1, <1>3, <1>5
  <2> QED
    BY <2>1, <2>2
<1>7. \A j \in 1..i + 1 : (c \o b)[j] = c[j]
  BY <1>1, <1>3, <1>5
<1>8. ASSUME NEW j \in i + 1..n PROVE (c \o b)[j + 1] = s[j]
  <2>1. j + 1 \in 1..Len(c) + Len(b) /\ j + 1 > Len(c) /\ j + 1 - Len(c) = j - i /\ j - i \in 1..n - i
    BY <1>1, <1>3, <1>5
  <2>2. (c \o b)[j + 1] = b[j - i]
    BY <1>3, <1>5, <2>1
  <2>3. i + (j - i) = j
    BY <1>1
  <2> QED
    BY <1>3, <2>1, <2>2, <2>3
<1>9. /\ c \o b \in Seq(X) /\ Len(c \o b) = Len(s) + 1
      /\ \A j \in 1..i : (c \o b)[j] = s[j]
      /\ (c \o b)[i + 1] = x
      /\ \A j \in i + 1..Len(s) : (c \o b)[j + 1] = s[j]
  <2>1. \A j \in 1..i : j \in 1..i + 1
    BY <1>1
  <2>2. i + 1 \in 1..i + 1
    BY <1>1
  <2> QED
    BY <1>5, <1>6, <1>7, <1>8, <2>1, <2>2
<1> QED
  BY <1>9 DEF Inserted, a, b, c

\* Where a word is once another is put in after the first i.
Moved(i, j) == IF j <= i THEN j ELSE j + 1

\* A word that is not kept moves the others, and changes nothing.
LEMMA FillerGoes ==
  ASSUME NEW words \in Seq(Word), NEW more \in Seq(Word), NEW total \in Nat, NEW filler \in Word,
         NEW i \in 0..Len(words), Len(more) = Len(words) + 1, Len(more) <= MaxTermsProbed,
         \A j \in 1..i : more[j] = words[j], more[i + 1] = filler,
         \A j \in i + 1..Len(words) : more[j + 1] = words[j],
         \A w, v \in ToSet(words) \cup {filler} : w.word = v.word => w = v,
         filler.found \notin 1..SelectivityCap(total)
  PROVE  SignificantTerms(more, total) = SignificantTerms(words, total)
<1> DEFINE n == Len(words)
           f(j) == Moved(i, j)
           S == Selective(words, total)
           T == Selective(more, total)
           P == Present(words, total)
           Q == Present(more, total)
           cap == SelectivityCap(total)
<1>1. n \in Nat /\ i \in Int /\ 0 <= i /\ i <= n /\ DOMAIN words = 1..n /\ DOMAIN more = 1..n + 1
  BY LenProperties
<1>2. \A j \in 1..n : f(j) \in 1..n + 1 /\ f(j) # i + 1 /\ more[f(j)] = words[j]
  <2> TAKE j \in 1..n
  <2>1. CASE j <= i
    BY <1>1, <2>1 DEF Moved
  <2>2. CASE ~(j <= i)
    BY <1>1, <2>2 DEF Moved
  <2> QED
    BY <2>1, <2>2
<1>3. \A k \in 1..n + 1 : k # i + 1 => \E j \in 1..n : f(j) = k
  <2> TAKE k \in 1..n + 1
  <2> HAVE k # i + 1
  <2>1. CASE k <= i
    BY <1>1, <2>1 DEF Moved
  <2>2. CASE ~(k <= i)
    <3>1. k - 1 \in 1..n /\ ~(k - 1 <= i) /\ k - 1 + 1 = k
      BY <1>1, <2>2
    <3> QED
      BY <3>1 DEF Moved
  <2> QED
    BY <2>1, <2>2
<1>4. \A j, k \in 1..n : j < k <=> f(j) < f(k)
  BY <1>1 DEF Moved
<1>5. \A j \in 1..n : words[j] \in ToSet(words) /\ words[j].found \in Nat
  <2>1. \A j \in 1..n : words[j] \in ToSet(words) /\ words[j] \in Word
    BY <1>1 DEF ToSet
  <2> QED
    BY <2>1 DEF Word
<1> HIDE DEF n, f, cap
<1>6. ASSUME NEW j \in 1..n, words[j].found \in 1..cap PROVE j \in FirstUses(words) <=> f(j) \in FirstUses(more)
  <2>1. j \in DOMAIN words /\ f(j) \in DOMAIN more
    BY <1>1, <1>2
  <2>2. ASSUME j \in FirstUses(words), NEW k \in 1..f(j) - 1 PROVE more[k].word # more[f(j)].word
    <3>1. k \in 1..n + 1
      BY <1>1, <1>2
    <3>2. CASE k = i + 1
      <4>1. filler # words[j]
        BY <1>6 DEF cap
      <4>2. filler.word # words[j].word
        BY <1>5, <4>1
      <4> QED
        BY <1>2, <3>2, <4>2
    <3>3. CASE k # i + 1
      <4>1. PICK m \in 1..n : f(m) = k
        BY <1>3, <3>1, <3>3
      <4>2. m \in 1..j - 1
        <5>1. f(m) < f(j) /\ j \in Int /\ m \in Int
          BY <1>1, <1>2, <4>1
        <5>2. m < j
          BY <1>4, <5>1
        <5> QED
          BY <5>1, <5>2
      <4>3. words[m].word # words[j].word
        BY <2>2, <4>2 DEF FirstUses
      <4> QED
        BY <1>2, <4>1, <4>3
    <3> QED
      BY <3>2, <3>3
  <2>3. ASSUME f(j) \in FirstUses(more), NEW m \in 1..j - 1 PROVE words[m].word # words[j].word
    <3>1. m \in 1..n /\ m < j
      BY <1>1
    <3>2. f(m) < f(j)
      BY <1>4, <3>1
    <3>3. f(m) \in 1..f(j) - 1
      BY <1>1, <1>2, <3>1, <3>2
    <3>4. more[f(m)].word # more[f(j)].word
      BY <2>3, <3>3 DEF FirstUses
    <3> QED
      BY <1>2, <3>1, <3>4
  <2> QED
    BY <2>1, <2>2, <2>3 DEF FirstUses
<1>7. Len(words) <= MaxTermsProbed
  BY <1>1 DEF n, MaxTermsProbed
<1>8. P = {j \in 1..n : j \in FirstUses(words) /\ words[j].found \in 1..cap}
  <2>1. P = {j \in FirstUses(words) : words[j].found \in 1..cap}
    BY <1>7, ProbedIs DEF Present, cap
  <2> QED
    BY <1>1, <2>1 DEF FirstUses
<1>9. Q = {k \in 1..n + 1 : k \in FirstUses(more) /\ more[k].found \in 1..cap}
  <2>1. Q = {j \in FirstUses(more) : more[j].found \in 1..cap}
    BY ProbedIs DEF Present, cap
  <2> QED
    BY <1>1, <2>1 DEF FirstUses
<1> HIDE DEF P, Q
<1>10. \A j \in 1..n : j \in P <=> f(j) \in Q
  BY <1>2, <1>6, <1>8, <1>9
<1>11. \A k \in Q : \E j \in P : f(j) = k
  <2> TAKE k \in Q
  <2>1. k \in 1..n + 1 /\ k # i + 1
    BY <1>9 DEF cap
  <2> QED
    BY <1>3, <1>10, <2>1
<1>12. {words[j].found : j \in P} = {more[k].found : k \in Q}
  <2>1. \A j \in P : f(j) \in Q /\ more[f(j)].found = words[j].found
    BY <1>2, <1>8, <1>10
  <2> QED
    BY <1>11, <2>1
<1>13. \A j \in 1..n : j \in S <=> f(j) \in T
  <2> DEFINE bound == Max({MinSelective, Min({words[j].found : j \in P}) * RaritySpread})
  <2>1. S = {j \in P : words[j].found <= bound}
    BY DEF Selective, P
  <2>2. T = {k \in Q : more[k].found <= bound}
    <3>1. T = {k \in Q : more[k].found <= Max({MinSelective, Min({more[j].found : j \in Q}) * RaritySpread})}
      BY DEF Selective, Q
    <3> QED
      BY <1>12, <3>1
  <2> HIDE DEF bound, S, T
  <2> QED
    BY <1>2, <1>10, <2>1, <2>2
<1>14. /\ S \subseteq P /\ IsFiniteSet(S) /\ Orders(S, Rarer(words, S))
       /\ T \subseteq Q /\ IsFiniteSet(T)
  BY SelectiveIs DEF P, Q
<1> HIDE DEF S, T
<1> DEFINE g == [j \in S |-> f(j)]
<1>15. g \in Bijection(S, T)
  <2>1. \A j \in S : j \in 1..n
    BY <1>8, <1>14
  <2>2. g \in [S -> T]
    BY <1>13, <2>1
  <2>3. ASSUME NEW j \in S, NEW k \in S, g[j] = g[k] PROVE j = k
    <3>1. f(j) = f(k) /\ j \in 1..n /\ k \in 1..n
      BY <2>1, <2>3
    <3>2. ~(f(j) < f(k)) /\ ~(f(k) < f(j))
      BY <1>2, <3>1
    <3>3. ~(j < k) /\ ~(k < j) /\ j \in Int /\ k \in Int
      BY <1>1, <1>4, <3>1, <3>2
    <3> QED
      BY <3>3
  <2>4. \A k \in T : \E j \in S : g[j] = k
    <3> TAKE k \in T
    <3>1. PICK j \in P : f(j) = k
      BY <1>11, <1>14
    <3>2. j \in 1..n
      BY <1>8
    <3>3. j \in S
      BY <1>13, <3>1, <3>2
    <3> QED
      BY <3>1, <3>3
  <2> HIDE DEF g
  <2> QED
    BY <2>2, <2>3, <2>4 DEF Bijection, Injection, IsInjective, Surjection
<1>16. \A j, k \in S : <<j, k>> \in Rarer(words, S) <=> <<g[j], g[k]>> \in Rarer(more, T)
  <2> TAKE j \in S, k \in S
  <2>1. j \in 1..n /\ k \in 1..n
    BY <1>8, <1>14
  <2>2. g[j] = f(j) /\ g[k] = f(k) /\ g[j] \in T /\ g[k] \in T
    BY <1>13, <2>1
  <2>3. more[g[j]] = words[j] /\ more[g[k]] = words[k] /\ (j < k <=> g[j] < g[k])
    BY <1>2, <1>4, <2>1, <2>2
  <2> HIDE DEF g
  <2> QED
    BY <2>2, <2>3 DEF Rarer
<1>17. /\ Cardinality(T) = Cardinality(S) /\ Cardinality(S) \in Nat
       /\ \A k \in 1..Cardinality(S) : Sorted(T, Rarer(more, T))[k] = g[Sorted(S, Rarer(words, S))[k]]
  <2>1. Cardinality(S) \in Nat
    BY <1>14, FS_CardinalityType
  <2> DEFINE before == Rarer(words, S)
             behind == Rarer(more, T)
  <2>2. Orders(S, before) /\ \A j, k \in S : <<j, k>> \in before <=> <<g[j], g[k]>> \in behind
    BY <1>14, <1>16
  <2> HIDE DEF g, before, behind
  <2>3. /\ Cardinality(T) = Cardinality(S)
        /\ \A k \in 1..Cardinality(S) : Sorted(T, behind)[k] = g[Sorted(S, before)[k]]
    BY <1>14, <1>15, <2>2, SortedAlike
  <2> QED
    BY <2>1, <2>3 DEF before, behind
<1> DEFINE count == Min({MaxTermsKept, Cardinality(S)})
<1>18. count \in Int /\ count <= Cardinality(S)
  <2>1. MaxTermsKept \in Int /\ Cardinality(S) \in Int
    BY <1>17 DEF MaxTermsKept
  <2> QED
    BY <2>1, TwoOf
<1>19. ASSUME NEW k \in 1..count
       PROVE  more[Sorted(T, Rarer(more, T))[k]] = words[Sorted(S, Rarer(words, S))[k]]
  <2> DEFINE x == Sorted(S, Rarer(words, S))[k]
  <2>1. k \in 1..Cardinality(S)
    <3> HIDE DEF count
    <3> QED
      BY <1>17, <1>18
  <2>2. x \in S
    BY <1>14, <2>1, SortedIs
  <2>3. Sorted(T, Rarer(more, T))[k] = g[x]
    BY <1>17, <2>1
  <2> HIDE DEF x
  <2>4. g[x] = f(x) /\ x \in 1..n
    BY <1>8, <1>14, <2>2
  <2>5. more[Sorted(T, Rarer(more, T))[k]] = words[x]
    BY <1>2, <2>3, <2>4
  <2> QED
    BY <2>5 DEF x
<1>20. SignificantTerms(more, total) = [k \in 1..count |-> more[Sorted(T, Rarer(more, T))[k]]]
  BY <1>17 DEF SignificantTerms, T
<1>21. SignificantTerms(words, total) = [k \in 1..count |-> words[Sorted(S, Rarer(words, S))[k]]]
  BY DEF SignificantTerms, S
<1> HIDE DEF count
<1> QED
  BY <1>19, <1>20, <1>21

\* Filler is ignored.
LEMMA Filler ==
  ASSUME NEW words \in Seq(Word), NEW total \in Nat, NEW filler \in Word,
         \A w, v \in ToSet(words) \cup {filler} : w.word = v.word => w = v,
         Len(words) < MaxTermsProbed, filler.found \notin 1..SelectivityCap(total)
  PROVE  FillerIgnored(words, total, filler)
<1>1. Len(words) \in Nat /\ MaxTermsProbed \in Int
  BY DEF MaxTermsProbed
<1>2. ASSUME NEW i \in 0..Len(words)
      PROVE  SignificantTerms(SubSeq(words, 1, i) \o <<filler>> \o SubSeq(words, i + 1, Len(words)),
                              total) = SignificantTerms(words, total)
  <2> DEFINE more == Inserted(words, i, filler)
  <2>1. more \in Seq(Word) /\ Len(more) = Len(words) + 1 /\ more[i + 1] = filler
    BY InsertIs
  <2>2. \A j \in 1..i : more[j] = words[j]
    BY InsertIs
  <2>3. \A j \in i + 1..Len(words) : more[j + 1] = words[j]
    BY InsertIs
  <2> HIDE DEF more
  <2>4. Len(more) <= MaxTermsProbed
    BY <1>1, <2>1
  <2>5. SignificantTerms(more, total) = SignificantTerms(words, total)
    BY <2>1, <2>2, <2>3, <2>4, FillerGoes
  <2> QED
    BY <2>5 DEF more, Inserted
<1>3. OneWord(words)
  BY DEF OneWord
<1>4. Len(words) <= MaxTermsProbed
  BY <1>1
<1> QED
  BY <1>2, <1>3, <1>4, NoneRarer DEF FillerIgnored

-----------------------------------------------------------------------------
(***************************************************************************)
(* The cross-section of a book.                                            *)
(***************************************************************************)
\* Where each of m tiles of so many rows begins, the first ones a row longer.
StartOf(size, long, t) == (t - 1) * size + (IF t - 1 < long THEN t - 1 ELSE long) + 1

\* A row is in the tile that has begun, when the next has not.
LEMMA NtileIs ==
  ASSUME NEW n \in Nat, NEW tiles \in Nat \ {0}, NEW row \in 1..n
  PROVE  LET size == n \div tiles
             long == n % tiles
             t == Ntile(tiles, n, row)
         IN t \in 1..tiles /\ StartOf(size, long, t) <= row /\ row < StartOf(size, long, t + 1)
<1> DEFINE size == n \div tiles
           long == n % tiles
           t == Ntile(tiles, n, row)
           head == long * (size + 1)
<1>1. size \in Nat /\ long \in Nat /\ long < tiles /\ n = tiles * size + long
  OBVIOUS
<1>2. t = IF row <= head THEN (row - 1) \div (size + 1) + 1
          ELSE long + (row - head - 1) \div size + 1
  BY DEF Ntile
<1> HIDE DEF size, long, t
<1>3. head \in Nat /\ head = long * size + long
  BY <1>1
<1> HIDE DEF head
<1>4. CASE row <= head
  <2> DEFINE q == (row - 1) \div (size + 1)
  <2>1. row - 1 \in Nat /\ size + 1 \in Nat /\ size + 1 > 0
    BY <1>1
  <2>2. q \in Nat /\ q * (size + 1) <= row - 1 /\ row - 1 < (q + 1) * (size + 1)
    BY <2>1
  <2> HIDE DEF q
  <2>3. q < long
    <3> SUFFICES ASSUME long <= q PROVE FALSE
      BY <1>1, <2>2
    <3>1. long * (size + 1) <= q * (size + 1)
      BY <1>1, <2>2
    <3>2. long * (size + 1) = head
      BY <1>1, <1>3
    <3> QED
      BY <1>1, <1>3, <1>4, <2>2, <3>1, <3>2
  <2>4. t = q + 1
    BY <1>2, <1>4 DEF q
  <2>5. StartOf(size, long, t) = q * size + q + 1
    BY <1>1, <2>2, <2>3, <2>4 DEF StartOf
  <2>6. StartOf(size, long, t + 1) = (q + 1) * size + (q + 1) + 1
    BY <1>1, <2>2, <2>3, <2>4 DEF StartOf
  <2>7. q * (size + 1) = q * size + q /\ (q + 1) * (size + 1) = (q + 1) * size + (q + 1)
    BY <1>1, <2>2
  <2>8. t \in 1..tiles
    BY <1>1, <2>2, <2>3, <2>4
  <2> DEFINE x == q * size
             y == (q + 1) * size
  <2>9. x \in Int /\ y \in Int
    BY <1>1, <2>2
  <2>10. x + q <= row - 1 /\ row - 1 < y + (q + 1)
    BY <2>2, <2>7
  <2> HIDE DEF x, y
  <2>11. x + q + 1 <= row /\ row < y + (q + 1) + 1
    BY <2>2, <2>9, <2>10
  <2> QED
    BY <2>5, <2>6, <2>8, <2>11 DEF x, y, size, long, t
<1>5. CASE ~(row <= head)
  <2> DEFINE rest == row - head - 1
             q == rest \div size
  <2>1. rest \in Nat /\ rest < tiles * size - long * size
    <3> DEFINE a == tiles * size
               b == long * size
    <3>1. a \in Int /\ b \in Int /\ head = b + long /\ n = a + long
      BY <1>1, <1>3
    <3> HIDE DEF a, b
    <3>2. rest \in Nat /\ rest < a - b
      BY <1>1, <1>3, <1>5, <3>1
    <3> QED
      BY <3>2 DEF a, b
  <2>2. size > 0
    <3> SUFFICES ASSUME size = 0 PROVE FALSE
      BY <1>1
    <3>1. tiles * size = 0 /\ long * size = 0
      BY <1>1
    <3> HIDE DEF rest
    <3> QED
      BY <2>1, <3>1
  <2> HIDE DEF rest
  <2>3. q \in Nat /\ q * size <= rest /\ rest < (q + 1) * size
    BY <1>1, <2>1, <2>2
  <2>4. t = long + q + 1
    BY <1>2, <1>5 DEF q, rest
  <2> HIDE DEF q
  <2>5. long + q < tiles
    <3> SUFFICES ASSUME tiles <= long + q PROVE FALSE
      BY <1>1, <2>3
    <3>1. tiles - long <= q /\ tiles - long \in Int
      BY <1>1, <2>3
    <3>2. (tiles - long) * size <= q * size
      BY <1>1, <2>3, <3>1
    <3>3. (tiles - long) * size = tiles * size - long * size
      BY <1>1
    <3> DEFINE x == tiles * size - long * size
               y == q * size
    <3>4. x \in Int /\ y \in Int /\ rest < x /\ y <= rest /\ x <= y
      BY <1>1, <2>1, <2>3, <3>2, <3>3
    <3> HIDE DEF x, y
    <3> QED
      BY <2>1, <3>4
  <2>6. t \in 1..tiles
    BY <1>1, <2>3, <2>4, <2>5
  <2>7. StartOf(size, long, t) = (long + q) * size + long + 1
    BY <1>1, <2>3, <2>4 DEF StartOf
  <2>8. StartOf(size, long, t + 1) = (long + q + 1) * size + long + 1
    BY <1>1, <2>3, <2>4 DEF StartOf
  <2>9. (long + q) * size = long * size + q * size /\ (long + q + 1) * size = long * size + (q + 1) * size
    BY <1>1, <2>3
  <2> DEFINE b == long * size
             x == q * size
             y == (q + 1) * size
  <2>10. b \in Int /\ x \in Int /\ y \in Int /\ x <= rest /\ rest < y
    BY <1>1, <2>3
  <2>11. head = b + long /\ rest = row - head - 1
    BY <1>3 DEF rest
  <2>12. StartOf(size, long, t) = b + x + long + 1 /\ StartOf(size, long, t + 1) = b + y + long + 1
    BY <2>7, <2>8, <2>9
  <2> HIDE DEF b, x, y
  <2>13. b + x + long + 1 <= row /\ row < b + y + long + 1
    BY <1>1, <1>3, <2>10, <2>11
  <2> QED
    BY <2>6, <2>12, <2>13 DEF size, long, t
<1> QED
  BY <1>4, <1>5

\* Where the tile after t tiles starts.
LEMMA StartAfter ==
  ASSUME NEW size \in Nat, NEW long \in Nat, NEW t \in Nat
  PROVE  StartOf(size, long, t + 1) = t * size + (IF t < long THEN t ELSE long) + 1
<1>1. t + 1 - 1 = t
  OBVIOUS
<1> QED
  BY <1>1 DEF StartOf

\* Tiles start one after another, a tile's length apart.
LEMMA StartsRise ==
  ASSUME NEW size \in Nat, NEW long \in Nat, NEW t \in Nat, NEW u \in Nat, 1 <= t, t < u
  PROVE  /\ StartOf(size, long, t) \in Int /\ StartOf(size, long, t) <= StartOf(size, long, u)
         /\ (size > 0 \/ t <= long) => StartOf(size, long, t) < StartOf(size, long, u)
         /\ StartOf(size, long, t + 1) - StartOf(size, long, t) \in {size, size + 1}
<1> DEFINE x == (t - 1) * size
           y == (u - 1) * size
           z == t * size
           d == u - t - 1
<1>1. x \in Int /\ y \in Int /\ z \in Int /\ d \in Nat /\ d * size \in Nat
  OBVIOUS
<1>2. z = x + size /\ y = z + d * size
  OBVIOUS
<1>3. StartOf(size, long, t) = x + (IF t - 1 < long THEN t - 1 ELSE long) + 1
  BY DEF StartOf
<1>4. StartOf(size, long, u) = y + (IF u - 1 < long THEN u - 1 ELSE long) + 1
  BY DEF StartOf
<1>5. StartOf(size, long, t + 1) = z + (IF t < long THEN t ELSE long) + 1
  BY StartAfter
<1> DEFINE e == d * size
<1>6. e \in Nat /\ y = x + size + e
  BY <1>1, <1>2
<1> HIDE DEF x, y, z, d, e
<1> QED
  BY <1>1, <1>2, <1>3, <1>4, <1>5, <1>6

\* The tiles of a book: as many as there are chunks for, one after another from the first
\* chunk to the last, and the cross-section takes the first chunk of each.
LEMMA CoverageIs ==
  ASSUME NEW n \in Nat, NEW tiles \in Nat \ {0}
  PROVE  LET size == n \div tiles
             long == n % tiles
             m == Min({n, tiles})
         IN /\ size \in Nat /\ long \in Nat /\ m \in 0..tiles
            /\ \A t \in 1..m : size > 0 \/ t <= long
            /\ StartOf(size, long, 1) = 1 /\ StartOf(size, long, m + 1) = n + 1
            /\ Coverage(n, tiles) = {StartOf(size, long, t) : t \in 1..m}
<1> DEFINE size == n \div tiles
           long == n % tiles
           m == Min({n, tiles})
           s(t) == StartOf(size, long, t)
<1>1. size \in Nat /\ long \in Nat /\ long < tiles /\ n = tiles * size + long
  OBVIOUS
<1>2. m \in Int /\ (m = n \/ m = tiles) /\ m <= n /\ m <= tiles
  BY TwoOf
<1>3. n < tiles => size = 0 /\ long = n
  OBVIOUS
<1>4. n >= tiles => size > 0
  <2> SUFFICES ASSUME n >= tiles, size = 0 PROVE FALSE
    BY <1>1
  <2>1. tiles * size = 0
    BY <1>1
  <2> HIDE DEF size, long
  <2> QED
    BY <1>1, <2>1
<1> HIDE DEF size, long, m
<1>5. m \in 0..tiles
  BY <1>2
<1>6. \A t \in 1..m : size > 0 \/ t <= long
  BY <1>1, <1>2, <1>3, <1>4
<1>7. s(1) = 1
  BY <1>1 DEF StartOf
<1>8. s(m + 1) = n + 1
  <2>1. s(m + 1) = m * size + (IF m < long THEN m ELSE long) + 1
    <3>1. size \in Nat /\ long \in Nat /\ m \in Nat
      BY <1>1, <1>5
    <3> HIDE DEF s
    <3>2. StartOf(size, long, m + 1) = m * size + (IF m < long THEN m ELSE long) + 1
      BY <3>1, StartAfter
    <3> QED
      BY <3>2 DEF s
  <2>2. CASE n < tiles
    <3>1. m = n /\ m * size = 0 /\ long = n
      BY <1>2, <1>3, <2>2
    <3> HIDE DEF s
    <3> QED
      BY <2>1, <3>1
  <2>3. CASE ~(n < tiles)
    <3>1. m = tiles /\ ~(m < long)
      BY <1>1, <1>2, <2>3
    <3> HIDE DEF s
    <3> QED
      BY <1>1, <2>1, <3>1
  <2> QED
    BY <2>2, <2>3
<1>9. \A t, u \in 1..tiles + 1 : t < u => s(t) <= s(u) /\ (t <= m => s(t) < s(u))
  <2> TAKE t \in 1..tiles + 1, u \in 1..tiles + 1
  <2> HAVE t < u
  <2>1. t \in Nat /\ u \in Nat /\ 1 <= t
    BY <1>1
  <2>2. s(t) <= s(u) /\ ((size > 0 \/ t <= long) => s(t) < s(u))
    BY <1>1, <2>1, StartsRise
  <2>3. t <= m => t \in 1..m
    BY <1>2, <2>1
  <2> QED
    BY <1>6, <2>2, <2>3
<1>10. \A row \in 1..n : Ntile(tiles, n, row) \in 1..tiles /\ s(Ntile(tiles, n, row)) <= row
                         /\ row < s(Ntile(tiles, n, row) + 1)
  BY NtileIs DEF size, long
<1>11. \A t \in 1..tiles + 1 : s(t) \in Int
  BY <1>1 DEF StartOf
<1> HIDE DEF s
<1>12. \A t \in 1..m : t \in 1..tiles + 1 /\ t \in 1..tiles /\ t + 1 \in 1..tiles + 1 /\ m + 1 \in 1..tiles + 1 /\ t < m + 1 /\ 1 <= t
  BY <1>2
<1>13. \A t \in 1..m : s(t) \in 1..n
  <2> TAKE t \in 1..m
  <2>1. s(t) < s(m + 1) /\ (t = 1 \/ s(1) <= s(t))
    <3>1. 1 \in 1..tiles + 1 /\ (t = 1 \/ 1 < t) /\ t <= m
      BY <1>2
    <3> QED
      BY <1>9, <1>12, <3>1
  <2> QED
    BY <1>7, <1>8, <1>11, <1>12, <2>1
<1>14. \A t \in 1..m : Ntile(tiles, n, s(t)) = t
  <2> TAKE t \in 1..m
  <2> DEFINE u == Ntile(tiles, n, s(t))
  <2>1. u \in 1..tiles /\ s(u) <= s(t) /\ s(t) < s(u + 1)
    BY <1>10, <1>13
  <2> HIDE DEF u
  <2>2. u \in 1..tiles + 1 /\ u + 1 \in 1..tiles + 1 /\ t \in 1..tiles + 1 /\ t <= m
    BY <1>12, <2>1
  <2>3. ~(t < u)
    BY <1>9, <1>11, <2>1, <2>2
  <2>4. ~(u < t)
    <3> SUFFICES ASSUME u < t PROVE FALSE
      OBVIOUS
    <3>1. u + 1 = t \/ u + 1 < t
      BY <2>1
    <3>2. s(u + 1) <= s(t)
      BY <1>9, <1>11, <2>2, <3>1
    <3> QED
      BY <1>11, <2>1, <2>2, <3>2
  <2>5. u = t
    BY <2>1, <2>3, <2>4
  <2> QED
    BY <2>5 DEF u
<1>15. \A t \in 1..m : s(t) \in Coverage(n, tiles)
  <2> TAKE t \in 1..m
  <2>1. ASSUME NEW r \in 1..s(t) - 1 PROVE Ntile(tiles, n, r) # Ntile(tiles, n, s(t))
    <3>1. r \in 1..n /\ r < s(t)
      BY <1>13
    <3>2. s(Ntile(tiles, n, r)) <= r
      BY <1>10, <3>1
    <3>3. s(t) \in Int /\ r \in Int
      BY <1>11, <1>12
    <3> QED
      BY <1>14, <3>1, <3>2, <3>3
  <2> QED
    BY <1>13, <2>1 DEF Coverage
<1>16. ASSUME NEW row \in Coverage(n, tiles) PROVE \E t \in 1..m : row = s(t)
  <2> DEFINE u == Ntile(tiles, n, row)
  <2>1. row \in 1..n /\ \A r \in 1..row - 1 : Ntile(tiles, n, r) # u
    BY DEF Coverage
  <2>2. u \in 1..tiles /\ s(u) <= row
    BY <1>10, <2>1
  <2> HIDE DEF u
  <2>3. u <= m
    <3> SUFFICES ASSUME m < u PROVE FALSE
      BY <1>2, <2>2
    <3>1. m + 1 \in 1..tiles + 1 /\ u \in 1..tiles + 1 /\ (m + 1 = u \/ m + 1 < u)
      BY <1>5, <2>2
    <3>2. s(m + 1) <= s(u)
      BY <1>9, <1>11, <3>1
    <3>3. s(u) \in Int
      BY <1>11, <3>1
    <3> QED
      BY <1>8, <2>1, <2>2, <3>2, <3>3
  <2>4. u \in 1..m
    BY <1>2, <2>2, <2>3
  <2>5. s(u) \in 1..n /\ Ntile(tiles, n, s(u)) = u
    BY <1>13, <1>14, <2>4
  <2>6. ~(s(u) < row)
    <3> SUFFICES ASSUME s(u) < row PROVE FALSE
      OBVIOUS
    <3>1. s(u) \in 1..row - 1
      BY <2>1, <2>5
    <3> QED
      BY <2>1, <2>5, <3>1
  <2>7. row = s(u)
    BY <2>1, <2>2, <2>5, <2>6
  <2> QED
    BY <2>4, <2>7
<1>17. Coverage(n, tiles) = {s(t) : t \in 1..m}
  BY <1>15, <1>16
<1>18. /\ size \in Nat /\ long \in Nat /\ m \in 0..tiles
       /\ \A t \in 1..m : size > 0 \/ t <= long
       /\ StartOf(size, long, 1) = 1 /\ StartOf(size, long, m + 1) = n + 1
       /\ Coverage(n, tiles) = {StartOf(size, long, t) : t \in 1..m}
  BY <1>1, <1>5, <1>6, <1>7, <1>8, <1>17 DEF s
<1> QED
  BY <1>18 DEF size, long, m

\* The cross-section of a book is even.
LEMMA CrossSection ==
  ASSUME NEW n \in Nat, NEW tiles \in Nat \ {0}
  PROVE  CoverageEven(n, tiles)
<1> DEFINE size == n \div tiles
           long == n % tiles
           m == Min({n, tiles})
           s == [t \in 1..m + 1 |-> StartOf(size, long, t)]
           taken == Coverage(n, tiles)
           after(a) == Min({b \in taken \cup {n + 1} : b > a})
<1>1. /\ size \in Nat /\ long \in Nat /\ m \in 0..tiles
      /\ \A t \in 1..m : size > 0 \/ t <= long
      /\ StartOf(size, long, 1) = 1 /\ StartOf(size, long, m + 1) = n + 1
      /\ taken = {StartOf(size, long, t) : t \in 1..m}
  BY CoverageIs
<1>2. m \in Nat /\ (m = n \/ m = tiles) /\ m <= n
  BY TwoOf
<1> HIDE DEF size, long, m, taken
<1>3. \A t, u \in 1..m + 1 : t < u => s[t] < s[u]
  <2> TAKE t \in 1..m + 1, u \in 1..m + 1
  <2> HAVE t < u
  <2>1. t \in Nat /\ u \in Nat /\ 1 <= t /\ t \in 1..m
    BY <1>2
  <2>2. StartOf(size, long, t) < StartOf(size, long, u)
    BY <1>1, <2>1, StartsRise
  <2> QED
    BY <2>2
<1>4. \A t \in 1..m : s[t + 1] - s[t] \in {size, size + 1}
  <2> TAKE t \in 1..m
  <2>1. t \in Nat /\ 1 <= t /\ t < t + 1 /\ t + 1 \in Nat /\ t \in 1..m + 1 /\ t + 1 \in 1..m + 1
    BY <1>2
  <2>2. StartOf(size, long, t + 1) - StartOf(size, long, t) \in {size, size + 1}
    BY <1>1, <2>1, StartsRise
  <2> QED
    BY <2>1, <2>2
<1>5. s[1] = 1 /\ s[m + 1] = n + 1 /\ taken = {s[t] : t \in 1..m}
  <2>1. 1 \in 1..m + 1 /\ m + 1 \in 1..m + 1 /\ \A t \in 1..m : t \in 1..m + 1
    BY <1>2
  <2> QED
    BY <1>1, <2>1
<1>6. \A t \in 1..m + 1 : s[t] \in Int
  BY <1>1, <1>2 DEF StartOf
<1> HIDE DEF s
<1>7. Cardinality(taken) = m
  <2> DEFINE f == [t \in 1..m |-> s[t]]
  <2>1. \A t, u \in 1..m : f[t] = f[u] => t = u
    <3> TAKE t \in 1..m, u \in 1..m
    <3>1. t \in 1..m + 1 /\ u \in 1..m + 1 /\ (t < u \/ u < t \/ t = u)
      BY <1>2
    <3>2. t < u => s[t] < s[u]
      BY <1>3, <3>1
    <3>3. u < t => s[u] < s[t]
      BY <1>3, <3>1
    <3> QED
      BY <1>6, <3>1, <3>2, <3>3
  <2>2. f \in [1..m -> taken] /\ \A x \in taken : \E t \in 1..m : f[t] = x
    BY <1>5
  <2> HIDE DEF f
  <2>3. f \in Bijection(1..m, taken)
    BY <2>1, <2>2 DEF Bijection, Injection, IsInjective, Surjection
  <2>4. IsFiniteSet(1..m) /\ Cardinality(1..m) = m
    BY <1>2, FS_Interval
  <2> QED
    BY <2>3, <2>4, FS_Bijection DEF ExistsBijection
<1>8. ASSUME NEW t \in 1..m PROVE after(s[t]) = s[t + 1]
  <2> DEFINE later == {b \in taken \cup {n + 1} : b > s[t]}
  <2>1. t + 1 \in 1..m + 1 /\ t \in 1..m + 1 /\ t < t + 1
    BY <1>2
  <2>2. s[t + 1] \in later
    <3>1. s[t] < s[t + 1]
      BY <1>3, <2>1
    <3>2. s[t + 1] \in taken \cup {n + 1}
      <4>1. t + 1 \in 1..m \/ t + 1 = m + 1
        BY <1>2
      <4> QED
        BY <1>5, <4>1
    <3> QED
      BY <1>6, <2>1, <3>1, <3>2
  <2>3. ASSUME NEW b \in later PROVE b \in Int /\ s[t + 1] <= b
    <3>1. PICK u \in 1..m + 1 : b = s[u]
      <4>1. m + 1 \in 1..m + 1 /\ \A u \in 1..m : u \in 1..m + 1
        BY <1>2
      <4> QED
        BY <1>5, <4>1
    <3>2. s[t] < s[u]
      BY <1>6, <2>1, <3>1
    <3>3. ~(u < t) /\ u # t
      <4>1. u < t => s[u] < s[t]
        BY <1>3, <2>1
      <4> QED
        BY <1>6, <2>1, <3>2, <4>1
    <3>4. u = t + 1 \/ t + 1 < u
      BY <1>2, <3>3
    <3> QED
      BY <1>3, <1>6, <2>1, <3>1, <3>4
  <2>4. IsFiniteSet(later)
    <3>1. later \in SUBSET (taken \cup {n + 1})
      OBVIOUS
    <3>2. IsFiniteSet(taken)
      <4> DEFINE f == [u \in 1..m |-> s[u]]
      <4>1. f \in Surjection(1..m, taken)
        BY <1>5 DEF Surjection
      <4>2. IsFiniteSet(1..m)
        BY <1>2, FS_Interval
      <4> HIDE DEF f
      <4> QED
        BY <4>1, <4>2, FS_Surjection
    <3> HIDE DEF later
    <3> QED
      BY <3>1, <3>2, FS_AddElement, FS_Subset
  <2> HIDE DEF later
  <2>5. Min(later) \in later /\ Min(later) <= s[t + 1]
    BY <2>2, <2>3, <2>4, MinIs
  <2>6. Min(later) = s[t + 1]
    BY <1>6, <2>1, <2>3, <2>5
  <2> QED
    BY <2>6 DEF later
<1>9. ASSUME NEW a \in taken, NEW b \in taken
      PROVE  (after(a) - a) - (after(b) - b) \in {-1, 0, 1}
  <2>1. PICK t \in 1..m, u \in 1..m : a = s[t] /\ b = s[u]
    BY <1>5
  <2>2. after(a) = s[t + 1] /\ after(b) = s[u + 1]
    BY <1>8, <2>1
  <2>3. after(a) - a \in {size, size + 1} /\ after(b) - b \in {size, size + 1}
    BY <1>4, <2>1, <2>2
  <2> HIDE DEF after
  <2> QED
    BY <1>1, <2>3
<1>10. n > 0 => 1 \in taken
  <2> HAVE n > 0
  <2>1. 1 \in 1..m
    BY <1>2
  <2> QED
    BY <1>5, <2>1
<1> QED
  BY <1>7, <1>9, <1>10 DEF CoverageEven, m, taken

-----------------------------------------------------------------------------
(***************************************************************************)
(* The excerpt of a passage.                                               *)
(***************************************************************************)
\* Sums of what is never negative never fall.
LEMMA TotalGrows ==
  ASSUME NEW s \in Seq(Int), \A k \in 1..Len(s) : s[k] >= 0, NEW from \in Nat, from >= 1,
         NEW a \in 0..Len(s), NEW b \in 0..Len(s), a <= b
  PROVE  Total(s, from, a) <= Total(s, from, b) /\ Total(s, from, a) >= 0
<1> DEFINE n == Len(s)
           v(k) == Total(s, from, k)
           S(x) == {k \in 0..n : x <= k => v(x) <= v(k)}
<1>1. n \in Nat /\ a \in 0..n /\ b \in 0..n /\ 0 \in 0..n
  OBVIOUS
<1>2. \A k \in 0..n : v(k) \in Int /\ (k < from => v(k) = 0)
  BY TotalIs
<1>3. ASSUME NEW k \in 0..n - 1 PROVE v(k) <= v(k + 1)
  <2>1. k \in 0..n /\ k + 1 \in 1..n /\ k + 1 \in 0..n /\ (k + 1) - 1 = k
    BY <1>1
  <2>2. s[k + 1] >= 0 /\ s[k + 1] \in Int
    BY <2>1
  <2>3. k + 1 >= from => v(k + 1) = v(k) + s[k + 1]
    BY <2>1, TotalIs
  <2>4. k + 1 < from => v(k + 1) = 0 /\ v(k) = 0
    BY <1>2, <2>1
  <2> HIDE DEF v, n
  <2> QED
    BY <1>2, <2>1, <2>2, <2>3, <2>4
<1> HIDE DEF v, n
<1>4. ASSUME NEW x \in 0..n PROVE S(x) = 0..n
  <2>1. 0 \in S(x)
    BY <1>1, <1>2
  <2>2. \A k \in 0..n - 1 : k \in S(x) => k + 1 \in S(x)
    <3> TAKE k \in 0..n - 1
    <3>1. k + 1 \in 0..n /\ k \in 0..n /\ v(k) \in Int /\ v(k + 1) \in Int /\ v(k) <= v(k + 1) /\ v(x) \in Int
      BY <1>1, <1>2, <1>3
    <3>2. x <= k + 1 => x <= k \/ x = k + 1
      BY <3>1
    <3> QED
      BY <3>1, <3>2
  <2> HIDE DEF S
  <2>3. 0..n \subseteq S(x)
    BY <1>1, <2>1, <2>2, UpToBound
  <2> QED
    BY <2>3 DEF S
<1>5. v(a) <= v(b)
  <2>1. b \in S(a)
    BY <1>1, <1>4
  <2> QED
    BY <2>1
<1>6. v(a) >= 0
  <2>1. a \in S(0) /\ 0 <= a
    BY <1>1, <1>4
  <2>2. v(0) = 0
    BY <1>1, <1>2
  <2> QED
    BY <1>1, <1>2, <2>1, <2>2
<1> QED
  BY <1>5, <1>6 DEF v

\* What the sentences of a window cost and match.
LEMMA CostIs ==
  ASSUME NEW sentences \in Seq(Sentence), NEW from \in DOMAIN sentences
  PROVE  \A to \in 0..Len(sentences) :
           /\ Cost(sentences, from, to) \in Int
           /\ \A u \in to..Len(sentences) : Cost(sentences, from, to) <= Cost(sentences, from, u)
<1> DEFINE costs == [i \in DOMAIN sentences |-> Tokens(sentences[i].length)]
<1>1. Len(sentences) \in Nat /\ DOMAIN sentences = 1..Len(sentences) /\ from \in Nat /\ from >= 1
  OBVIOUS
<1>2. \A i \in DOMAIN sentences : costs[i] \in Int /\ costs[i] >= 1
  <2> TAKE i \in DOMAIN sentences
  <2>1. sentences[i].length \in Nat
    <3>1. sentences[i] \in Sentence
      OBVIOUS
    <3> QED
      BY <3>1 DEF Sentence
  <2>2. Tokens(sentences[i].length) \in Nat /\ Tokens(sentences[i].length) >= 1
    BY <2>1, EstimateIs
  <2> QED
    BY <2>2
<1> HIDE DEF costs
<1>3. costs \in Seq(Int) /\ Len(costs) = Len(sentences) /\ \A k \in 1..Len(costs) : costs[k] >= 0
  <2>1. costs = [i \in 1..Len(sentences) |-> costs[i]]
    BY <1>1 DEF costs
  <2> QED
    BY <1>1, <1>2, <2>1
<1>4. ASSUME NEW to \in 0..Len(sentences)
      PROVE  Total(costs, from, to) \in Int
             /\ \A u \in to..Len(sentences) : Total(costs, from, to) <= Total(costs, from, u)
  <2>1. Total(costs, from, to) \in Int
    BY <1>1, <1>3, TotalIs
  <2>2. ASSUME NEW u \in to..Len(sentences) PROVE Total(costs, from, to) <= Total(costs, from, u)
    <3>1. u \in 0..Len(sentences) /\ to <= u
      BY <1>1
    <3> QED
      BY <1>1, <1>3, <3>1, TotalGrows
  <2> QED
    BY <2>1, <2>2
<1> QED
  BY <1>4 DEF Cost, costs

\* No window matches less than nothing.
LEMMA MatchesIs ==
  ASSUME NEW sentences \in Seq(Sentence), NEW terms, NEW from \in DOMAIN sentences,
         NEW to \in DOMAIN sentences
  PROVE  Matches(sentences, terms, from, to) \in Int /\ Matches(sentences, terms, from, to) >= 0
<1> DEFINE found == [i \in DOMAIN sentences |-> Cardinality(sentences[i].words \cap terms)]
<1>1. Len(sentences) \in Nat /\ DOMAIN sentences = 1..Len(sentences) /\ from \in Nat /\ from >= 1
      /\ to \in 0..Len(sentences)
  OBVIOUS
<1>2. \A i \in DOMAIN sentences : found[i] \in Nat
  <2> TAKE i \in DOMAIN sentences
  <2>1. IsFiniteSet(sentences[i].words)
    <3>1. sentences[i] \in Sentence
      OBVIOUS
    <3> QED
      BY <3>1 DEF Sentence
  <2>2. sentences[i].words \cap terms \in SUBSET sentences[i].words
    OBVIOUS
  <2>3. IsFiniteSet(sentences[i].words \cap terms)
    BY <2>1, <2>2, FS_Subset
  <2> QED
    BY <2>3, FS_CardinalityType
<1> HIDE DEF found
<1>3. found \in Seq(Int) /\ Len(found) = Len(sentences) /\ \A k \in 1..Len(found) : found[k] >= 0
  <2>1. found = [i \in 1..Len(sentences) |-> found[i]]
    BY <1>1 DEF found
  <2> QED
    BY <1>1, <1>2, <2>1
<1>4. Total(found, from, to) \in Int
  BY <1>1, <1>3, TotalIs
<1>5. Total(found, from, to) >= 0
  BY <1>1, <1>3, TotalGrows
<1> QED
  BY <1>4, <1>5 DEF Matches, found

Fits(sentences, max, from, to) == from = to \/ Cost(sentences, from, to) <= max

\* The windows that fit are those that end no later than the furthest.
LEMMA FurthestIs ==
  ASSUME NEW sentences \in Seq(Sentence), NEW max \in Int, NEW from \in DOMAIN sentences
  PROVE  /\ Furthest(sentences, max, from) \in from..Len(sentences)
         /\ \A to \in from..Len(sentences) :
              Fits(sentences, max, from, to) <=> to <= Furthest(sentences, max, from)
<1> DEFINE n == Len(sentences)
           c(to) == Cost(sentences, from, to)
           over == {to \in from + 1 .. n : c(to) > max}
<1>1. n \in Nat /\ from \in 1..n /\ \A to \in from..n : to \in 0..n
  OBVIOUS
<1>2. \A to \in from..n : c(to) \in Int /\ \A u \in to..n : c(to) <= c(u)
  BY <1>1, CostIs
<1>3. Furthest(sentences, max, from) = IF over = {} THEN n ELSE Min(over) - 1
  BY DEF Furthest
<1> HIDE DEF n, c
<1>4. over \subseteq Int /\ IsFiniteSet(over)
  <2>1. over \in SUBSET (from + 1 .. n)
    OBVIOUS
  <2>2. IsFiniteSet(from + 1 .. n)
    BY <1>1, FS_Interval
  <2>3. \A x \in from + 1 .. n : x \in Int
    BY <1>1
  <2> HIDE DEF over
  <2>4. IsFiniteSet(over)
    BY <2>1, <2>2, FS_Subset
  <2> QED
    BY <2>1, <2>3, <2>4
<1>5. CASE over = {}
  <2>1. ASSUME NEW to \in from..n PROVE from = to \/ c(to) <= max
    <3>1. from = to \/ to \in from + 1..n
      BY <1>1
    <3> QED
      BY <1>2, <1>5, <3>1
  <2> QED
    BY <1>1, <1>3, <1>5, <2>1 DEF Fits, n, c
<1>6. CASE over # {}
  <2> DEFINE m == Min(over)
  <2>1. m \in over /\ \A to \in over : m <= to
    BY <1>4, <1>6, MinIs
  <2> HIDE DEF m
  <2>2. m \in from + 1..n /\ c(m) > max
    BY <2>1
  <2>3. ASSUME NEW to \in from..n, to <= m - 1 PROVE from = to \/ c(to) <= max
    <3>1. from = to \/ to \in from + 1..n
      BY <1>1
    <3>2. to \notin over
      <4> HIDE DEF over
      <4> QED
        BY <1>1, <2>1, <2>2, <2>3
    <3> QED
      BY <1>2, <3>1, <3>2
  <2>4. ASSUME NEW to \in from..n, ~(to <= m - 1) PROVE ~(from = to \/ c(to) <= max)
    <3>1. m \in from..n /\ to \in m..n /\ from # to
      BY <1>1, <2>2, <2>4
    <3>2. c(m) <= c(to) /\ c(m) \in Int /\ c(to) \in Int
      BY <1>2, <3>1
    <3> QED
      BY <2>2, <3>1, <3>2
  <2>5. m - 1 \in from..n
    BY <1>1, <2>2
  <2>6. Furthest(sentences, max, from) = m - 1
    BY <1>3, <1>6 DEF m
  <2> QED
    BY <2>3, <2>4, <2>5, <2>6 DEF Fits, n, c
<1> QED
  BY <1>5, <1>6

\* The best of the windows seen, the earliest and shortest if several are.
BestOf(sentences, terms, best, seen) ==
  \/ seen = {} /\ best = [score |-> -1, from |-> 1, to |-> 0]
  \/ \E w \in seen :
       /\ best = Window(sentences, terms, w[1], w[2])
       /\ \A v \in seen :
            /\ Matches(sentences, terms, v[1], v[2]) <= best.score
            /\ Matches(sentences, terms, v[1], v[2]) = best.score =>
                 v[1] > w[1] \/ (v[1] = w[1] /\ v[2] >= w[2])

\* Of a window and the best of those before it, the better is the best of all.
LEMMA BetterAdds ==
  ASSUME NEW sentences \in Seq(Sentence), NEW terms, NEW best, NEW seen,
         BestOf(sentences, terms, best, seen), NEW from \in DOMAIN sentences,
         NEW to \in DOMAIN sentences,
         \A v \in seen : v[1] \in DOMAIN sentences /\ v[2] \in DOMAIN sentences
                         /\ (v[1] < from \/ (v[1] = from /\ v[2] < to))
  PROVE  BestOf(sentences, terms, Better(best, Window(sentences, terms, from, to)),
                seen \cup {<<from, to>>})
<1> DEFINE score(f, u) == Matches(sentences, terms, f, u)
           new == seen \cup {<<from, to>>}
<1>1. \A f, u \in DOMAIN sentences : score(f, u) \in Int /\ score(f, u) >= 0
  BY MatchesIs
<1>2. \A f, u : /\ Window(sentences, terms, f, u) = [score |-> score(f, u), from |-> f, to |-> u]
                /\ Window(sentences, terms, f, u).score = score(f, u)
  BY DEF Window
<1>3. from \in Int /\ to \in Int /\ \A v \in seen : v[1] \in Int /\ v[2] \in Int
  OBVIOUS
<1>4. <<from, to>> \in new /\ <<from, to>>[1] = from /\ <<from, to>>[2] = to
  OBVIOUS
<1>5. CASE score(from, to) > best.score
  <2>1. Better(best, Window(sentences, terms, from, to)) = Window(sentences, terms, from, to)
    BY <1>2, <1>5 DEF Better
  <2>2. \A v \in seen : score(v[1], v[2]) < score(from, to)
    <3> TAKE v \in seen
    <3>1. PICK w \in seen : best = Window(sentences, terms, w[1], w[2])
                            /\ score(v[1], v[2]) <= best.score
      BY DEF BestOf
    <3>2. best.score = score(w[1], w[2])
      BY <1>2, <3>1
    <3>3. score(w[1], w[2]) \in Int /\ score(v[1], v[2]) \in Int /\ score(from, to) \in Int
      BY <1>1
    <3> HIDE DEF score
    <3> QED
      BY <1>5, <3>1, <3>2, <3>3
  <2>3. \A v \in new : /\ score(v[1], v[2]) <= score(from, to)
                       /\ score(v[1], v[2]) = score(from, to) =>
                            v[1] > from \/ (v[1] = from /\ v[2] >= to)
    <3> TAKE v \in new
    <3>1. CASE v \in seen
      <4>1. score(v[1], v[2]) < score(from, to) /\ score(v[1], v[2]) \in Int /\ score(from, to) \in Int
        BY <1>1, <2>2, <3>1
      <4> HIDE DEF score
      <4> QED
        BY <4>1
    <3>2. CASE v = <<from, to>>
      BY <1>1, <1>3, <1>4, <3>2
    <3> QED
      BY <3>1, <3>2
  <2>4. Window(sentences, terms, from, to).score = score(from, to)
    BY <1>2
  <2> DEFINE w == <<from, to>>
  <2>5. w \in new /\ w[1] = from /\ w[2] = to
    BY <1>4
  <2> HIDE DEF w
  <2>6. BestOf(sentences, terms, Window(sentences, terms, w[1], w[2]), new)
    <3>1. Window(sentences, terms, w[1], w[2]).score = score(from, to)
      BY <2>4, <2>5
    <3> HIDE DEF new
    <3> QED
      BY <2>3, <2>5, <3>1 DEF BestOf
  <2> QED
    BY <2>1, <2>5, <2>6
<1>6. CASE ~(score(from, to) > best.score)
  <2>1. Better(best, Window(sentences, terms, from, to)) = best
    BY <1>2, <1>6 DEF Better
  <2>2. ~(seen = {} /\ best = [score |-> -1, from |-> 1, to |-> 0])
    <3>1. score(from, to) \in Int /\ score(from, to) >= 0
      BY <1>1
    <3> HIDE DEF score
    <3> QED
      BY <1>6, <3>1
  <2>3. PICK w \in seen :
          /\ best = Window(sentences, terms, w[1], w[2])
          /\ \A v \in seen :
               /\ score(v[1], v[2]) <= best.score
               /\ score(v[1], v[2]) = best.score => v[1] > w[1] \/ (v[1] = w[1] /\ v[2] >= w[2])
    BY <2>2 DEF BestOf
  <2>4. best.score = score(w[1], w[2]) /\ best.score \in Int /\ score(from, to) \in Int
    BY <1>1, <1>2, <2>3
  <2>5. w[1] < from \/ (w[1] = from /\ w[2] < to)
    BY <2>3
  <2>6. \A v \in new : /\ score(v[1], v[2]) <= best.score
                       /\ score(v[1], v[2]) = best.score =>
                            v[1] > w[1] \/ (v[1] = w[1] /\ v[2] >= w[2])
    <3> TAKE v \in new
    <3>1. CASE v \in seen
      BY <2>3, <3>1
    <3>2. CASE v = <<from, to>>
      <4>1. score(from, to) <= best.score
        <5> HIDE DEF score
        <5> QED
          BY <1>6, <2>4
      <4> QED
        BY <1>3, <1>4, <2>5, <3>2, <4>1
    <3> QED
      BY <3>1, <3>2
  <2>7. w \in new
    OBVIOUS
  <2> QED
    BY <2>1, <2>3, <2>6, <2>7 DEF BestOf
<1> QED
  BY <1>5, <1>6

\* The windows looked at before the k-th that starts at `from`.
Seen(sentences, max, from, k) ==
  {w \in (DOMAIN sentences) \X (DOMAIN sentences) :
     /\ w[1] <= w[2] /\ Fits(sentences, max, w[1], w[2])
     /\ w[1] < from \/ (w[1] = from /\ w[2] < from + k)}

Windows == [score : Int, from : Nat, to : Nat]

\* The windows that start at one sentence join those seen.
LEMMA BestFromIs ==
  ASSUME NEW sentences \in Seq(Sentence), NEW terms, NEW max \in Int,
         NEW from \in DOMAIN sentences, NEW best \in Windows,
         BestOf(sentences, terms, best, Seen(sentences, max, from, 0))
  PROVE  /\ BestFrom(sentences, terms, max, best, from) \in Windows
         /\ BestOf(sentences, terms, BestFrom(sentences, terms, max, best, from),
                   Seen(sentences, max, from + 1, 0))
<1> DEFINE n == Len(sentences)
           count == Furthest(sentences, max, from) - from + 1
           w(k) == Window(sentences, terms, from, from + k - 1)
           Unfolds(g) == g = [k \in 0..count |-> IF k = 0 THEN best ELSE Better(g[k - 1], w(k))]
           after == CHOOSE g : Unfolds(g)
           T == [x \in (1..count) \X Windows |-> Better(x[2], w(x[1]))]
<1>1. n \in Nat /\ DOMAIN sentences = 1..n /\ from \in 1..n
  OBVIOUS
<1>2. Furthest(sentences, max, from) \in from..n
  BY FurthestIs
<1>3. count \in Nat /\ count >= 1 /\ \A k \in 1..count : from + k - 1 \in from..n
  BY <1>1, <1>2
<1>4. \A k \in 1..count : w(k) \in Windows
  <2> TAKE k \in 1..count
  <2>1. from + k - 1 \in DOMAIN sentences /\ from + k - 1 \in Nat /\ from \in Nat
    BY <1>1, <1>3
  <2>2. Matches(sentences, terms, from, from + k - 1) \in Int
    BY <2>1, MatchesIs
  <2> QED
    BY <2>1, <2>2 DEF Window, Windows
<1> HIDE DEF n, count, w
<1>5. T \in [(1..count) \X Windows -> Windows]
  BY <1>4 DEF Better
<1>6. \E f : Solves(f, count, Windows, best, T)
  <2> HIDE DEF T
  <2> QED
    BY <1>3, <1>5, RecursionExists
<1>7. PICK f \in [0..count -> Windows] : f[0] = best /\ \A k \in 1..count : f[k] = T[<<k, f[k - 1]>>]
  BY <1>6 DEF Solves
<1>8. \A k \in 1..count : f[k] = Better(f[k - 1], w(k))
  <2> TAKE k \in 1..count
  <2>1. <<k, f[k - 1]>> \in (1..count) \X Windows
    BY <1>3
  <2> QED
    BY <1>7, <2>1
<1>9. Unfolds(f)
  <2>1. \A k \in 0..count : k = 0 \/ k \in 1..count
    BY <1>3
  <2> QED
    BY <1>7, <1>8, <2>1
<1>10. Unfolds(after)
  BY <1>9
<1>11. BestFrom(sentences, terms, max, best, from) = after[count]
  BY DEF BestFrom, count, w
<1> HIDE DEF after, T
<1>12. after[0] = best /\ \A k \in 1..count : after[k] = Better(after[k - 1], w(k))
  <2>1. 0 \in 0..count /\ \A k \in 1..count : k \in 0..count /\ k # 0
    BY <1>3
  <2> QED
    BY <1>10, <2>1
<1> DEFINE Leads == {k \in 0..count : after[k] \in Windows
                      /\ BestOf(sentences, terms, after[k], Seen(sentences, max, from, k))}
<1>13. 0 \in Leads
  BY <1>3, <1>12
<1>14. \A k \in 0..count - 1 : k \in Leads => k + 1 \in Leads
  <2> TAKE k \in 0..count - 1
  <2> HAVE k \in Leads
  <2> DEFINE to == from + k
             seen == Seen(sentences, max, from, k)
  <2>1. k + 1 \in 1..count /\ (k + 1) - 1 = k /\ k + 1 \in 0..count /\ k \in Nat
    BY <1>3
  <2>2. from + (k + 1) - 1 = to
    BY <1>1, <2>1
  <2>3. to \in from..n
    BY <1>3, <2>1, <2>2
  <2>4. w(k + 1) = Window(sentences, terms, from, to)
    BY <2>2 DEF w
  <2>5. after[k + 1] = Better(after[k], w(k + 1))
    BY <1>12, <2>1
  <2>6. after[k + 1] \in Windows
    BY <1>4, <2>1, <2>5 DEF Better
  <2>7. Fits(sentences, max, from, to)
    <3>1. to <= Furthest(sentences, max, from)
      BY <1>1, <1>2, <2>1 DEF count
    <3> QED
      BY <2>3, <3>1, FurthestIs DEF n
  <2>8. to \in DOMAIN sentences
    BY <1>1, <2>3
  <2>9. \A v \in seen : v[1] \in DOMAIN sentences /\ v[2] \in DOMAIN sentences
                        /\ (v[1] < from \/ (v[1] = from /\ v[2] < to))
    BY DEF Seen
  <2>10. Seen(sentences, max, from, k + 1) = seen \cup {<<from, to>>}
    <3>1. \A u \in DOMAIN sentences : u < from + (k + 1) <=> u < to \/ u = to
      BY <1>1, <2>1
    <3>2. <<from, to>> \in Seen(sentences, max, from, k + 1)
      <4>1. from <= to
        BY <2>3
      <4> QED
        BY <2>7, <2>8, <3>1, <4>1 DEF Seen
    <3>3. \A v \in Seen(sentences, max, from, k + 1) : v = <<from, to>> \/ v \in seen
      <4> HIDE DEF to
      <4> QED
        BY <3>1 DEF Seen, to
    <3>4. \A v \in seen : v \in Seen(sentences, max, from, k + 1)
      BY <3>1 DEF Seen
    <3> QED
      BY <3>2, <3>3, <3>4
  <2>11. BestOf(sentences, terms, after[k], seen)
    OBVIOUS
  <2> HIDE DEF to, seen
  <2>12. BestOf(sentences, terms, after[k + 1], seen \cup {<<from, to>>})
    BY <2>4, <2>5, <2>8, <2>9, <2>11, BetterAdds
  <2> QED
    BY <2>1, <2>6, <2>10, <2>12 DEF to, seen
<1> HIDE DEF Leads
<1>15. count \in Leads
  <2>1. count \in Nat /\ count \in 0..count
    BY <1>3
  <2>2. 0..count \subseteq Leads
    BY <1>13, <1>14, <2>1, UpToBound
  <2> QED
    BY <2>1, <2>2
<1>16. Seen(sentences, max, from, count) = Seen(sentences, max, from + 1, 0)
  <2>1. ASSUME NEW v \in (DOMAIN sentences) \X (DOMAIN sentences), v[1] <= v[2],
               Fits(sentences, max, v[1], v[2])
        PROVE  (v[1] < from \/ (v[1] = from /\ v[2] < from + count))
               <=> (v[1] < from + 1 \/ (v[1] = from + 1 /\ v[2] < from + 1 + 0))
    <3>1. v[1] \in 1..n /\ v[2] \in 1..n
      BY <1>1
    <3>2. v[1] = from => v[2] <= Furthest(sentences, max, from)
      <4> HAVE v[1] = from
      <4>1. v[2] \in from..n
        BY <1>1, <2>1, <3>1
      <4> QED
        BY <2>1, <4>1, FurthestIs DEF n
    <3>3. from + count = Furthest(sentences, max, from) + 1
      BY <1>1, <1>2 DEF count
    <3> QED
      BY <1>1, <1>2, <2>1, <3>1, <3>2, <3>3
  <2> QED
    BY <2>1 DEF Seen
<1> QED
  BY <1>11, <1>15, <1>16 DEF Leads

\* The head of a sentence that is too long is cut behind a word of it.
LEMMA HeadIs ==
  ASSUME NEW sentence \in Sentence, NEW max \in Nat, max > 0
  PROVE  CutBehindAWord(sentence, max, HeadOf(sentence, max))
<1> DEFINE limit == max * CharsPerToken
           blanks == sentence.blanks \cap (1..limit)
           words == 1..Max(blanks) \ sentence.blanks
           head == HeadOf(sentence, max)
           ends == {i \in 1..limit - 1 : i \notin sentence.blanks /\ i + 1 \in sentence.blanks}
           Behind == /\ head < limit /\ head \notin sentence.blanks /\ head + 1 \in sentence.blanks
                     /\ \A i, j \in head + 1..limit :
                          i < j /\ i \notin sentence.blanks => j \notin sentence.blanks
<1>1. limit \in Nat /\ limit = 4 * max /\ limit >= 4
  BY DEF CharsPerToken
<1>2. ASSUME NEW h \in 1..limit PROVE Tokens(h + 2) <= max
  <2>1. (h + 2) \div 4 \in Int /\ (h + 2) \div 4 <= max
    BY <1>1
  <2>2. 1 \in Int /\ 1 <= max
    OBVIOUS
  <2> DEFINE quarter == (h + 2) \div 4
  <2> HIDE DEF quarter
  <2>3. Max({1, quarter}) \in {1, quarter}
    BY <2>1, <2>2, TwoOf DEF quarter
  <2>4. Max({1, quarter}) <= max
    BY <2>1, <2>2, <2>3 DEF quarter
  <2> QED
    BY <2>4 DEF Tokens, CharsPerToken, quarter
<1>3. head = IF blanks = {} THEN limit ELSE IF words = {} THEN limit ELSE Max(words)
  BY DEF HeadOf
<1> HIDE DEF limit, head
<1>4. ASSUME blanks = {} PROVE head \in 1..limit /\ (ends # {} => Behind)
  <2>1. head = limit /\ ends = {}
    <3>1. \A i \in 1..limit - 1 : i + 1 \in 1..limit
      BY <1>1
    <3> QED
      BY <1>3, <1>4, <3>1
  <2> QED
    BY <1>1, <2>1
<1>5. ASSUME blanks # {} PROVE head \in 1..limit /\ (ends # {} => Behind)
  <2>1. IsFiniteSet(1..limit) /\ blanks \subseteq 1..limit
    BY <1>1, FS_Interval
  <2>2. IsFiniteSet(blanks) /\ blanks \subseteq Int
    <3>1. IsFiniteSet(blanks)
      BY <2>1, FS_Subset
    <3> QED
      BY <2>1, <3>1
  <2> DEFINE last == Max(blanks)
  <2>3. last \in blanks /\ \A y \in blanks : last >= y
    <3> HIDE DEF blanks
    <3> QED
      BY <1>5, <2>2, MaxIs
  <2> HIDE DEF last
  <2>4. last \in 1..limit /\ last \in sentence.blanks /\ last \in Int
    BY <2>3
  <2>5. words = 1..last \ sentence.blanks
    BY DEF last
  <2>6. \A i \in ends : i \in words
    <3> TAKE i \in ends
    <3>1. i \in 1..limit - 1 /\ i + 1 \in blanks /\ i \notin sentence.blanks
      BY <1>1
    <3>2. i + 1 <= last
      BY <2>3, <3>1
    <3>3. i \in 1..last
      BY <1>1, <2>4, <3>1, <3>2
    <3> QED
      BY <2>5, <3>1, <3>3
  <2>7. CASE words = {}
    <3> HIDE DEF words, blanks, ends
    <3>1. head = limit
      BY <1>3, <1>5, <2>7
    <3>2. ends = {}
      BY <2>6, <2>7
    <3> QED
      BY <1>1, <3>1, <3>2
  <2>8. CASE words # {}
    <3>1. IsFiniteSet(1..last) /\ words \subseteq 1..last
      <4>1. IsFiniteSet(1..last)
        <5> HIDE DEF words, blanks
        <5> QED
          BY <2>4, FS_Interval
      <4>2. words \subseteq 1..last
        BY <2>5
      <4> QED
        BY <4>1, <4>2
    <3>2. IsFiniteSet(words) /\ words \subseteq Int
      <4>1. IsFiniteSet(words)
        BY <3>1, FS_Subset
      <4> QED
        BY <3>1, <4>1
    <3>3. head \in words /\ \A y \in words : head >= y
      <4> HIDE DEF words, blanks
      <4>1. head = Max(words)
        BY <1>3, <1>5, <2>8
      <4> QED
        BY <2>8, <3>2, <4>1, MaxIs
    <3>4. head \in 1..last /\ head \notin sentence.blanks /\ head # last /\ head < last
      <4>1. head \in 1..last /\ head \notin sentence.blanks
        BY <2>5, <3>3
      <4> QED
        BY <2>4, <4>1
    <3>5. \A i \in head + 1..last : i \in sentence.blanks
      <4> TAKE i \in head + 1..last
      <4>1. i \in 1..last /\ i > head
        BY <2>4, <3>4
      <4>2. i \notin words
        BY <2>4, <3>3, <3>4, <4>1
      <4> QED
        BY <2>5, <4>1, <4>2
    <3>6. \A j \in 1..limit : j > last => j \notin sentence.blanks
      <4> TAKE j \in 1..limit
      <4> HAVE j > last
      <4>1. j \notin blanks
        BY <2>3, <2>4
      <4> QED
        BY <4>1
    <3>7. head + 1 \in head + 1..last /\ head < limit /\ head \in 1..limit
      BY <1>1, <2>4, <3>4
    <3>8. ASSUME NEW i \in head + 1..limit, NEW j \in head + 1..limit, i < j,
                 i \notin sentence.blanks
          PROVE  j \notin sentence.blanks
      <4>1. ~(i <= last)
        <5> SUFFICES ASSUME i <= last PROVE FALSE
          OBVIOUS
        <5>1. i \in head + 1..last
          BY <1>1, <2>4, <3>4
        <5> QED
          BY <3>5, <3>8, <5>1
      <4>2. j \in 1..limit /\ j > last
        BY <1>1, <2>4, <3>4, <3>8, <4>1
      <4> QED
        BY <3>6, <4>2
    <3> HIDE DEF blanks, words, ends
    <3> QED
      BY <3>4, <3>5, <3>7, <3>8
  <2> QED
    BY <2>7, <2>8
<1>6. head \in 1..limit /\ (ends # {} => Behind)
  BY <1>4, <1>5
<1>7. (\E i \in 1..limit - 1 : i \notin sentence.blanks /\ i + 1 \in sentence.blanks) => ends # {}
  OBVIOUS
<1> QED
  BY <1>2, <1>6, <1>7 DEF CutBehindAWord, head, limit

\* What is shown of a passage is all of it, the head of its only sentence, or the best of
\* all the windows that fit.
LEMMA Trimmings ==
  ASSUME NEW sentences \in Seq(Sentence), sentences # <<>>, NEW terms, NEW max \in Nat
  PROVE  ExcerptBest(sentences, terms, max)
<1> DEFINE n == Len(sentences)
           start == [score |-> -1, from |-> 1, to |-> 0]
           Unfolds(g) == g = [k \in 0..n |-> IF k = 0 THEN start
                                             ELSE BestFrom(sentences, terms, max, g[k - 1], k)]
           after == CHOOSE g : Unfolds(g)
           T == [x \in (1..n) \X Windows |->
                   IF BestFrom(sentences, terms, max, x[2], x[1]) \in Windows
                   THEN BestFrom(sentences, terms, max, x[2], x[1]) ELSE start]
           Leads(k, b) == b \in Windows /\ BestOf(sentences, terms, b, Seen(sentences, max, k + 1, 0))
<1>1. n \in Nat /\ n >= 1 /\ DOMAIN sentences = 1..n
  OBVIOUS
<1>2. start \in Windows
  BY DEF Windows
<1>3. T \in [(1..n) \X Windows -> Windows]
  BY <1>2
<1>4. \E f : Solves(f, n, Windows, start, T)
  <2> HIDE DEF T, n, start
  <2> QED
    BY <1>1, <1>2, <1>3, RecursionExists
<1>5. PICK f \in [0..n -> Windows] : f[0] = start /\ \A k \in 1..n : f[k] = T[<<k, f[k - 1]>>]
  BY <1>4 DEF Solves
<1>6. Leads(0, start)
  <2>1. Seen(sentences, max, 0 + 1, 0) = {}
    <3>1. \A v \in (1..n) \X (1..n) : ~(v[1] < 0 + 1 \/ (v[1] = 0 + 1 /\ v[2] < 0 + 1 + 0))
      BY <1>1
    <3> QED
      BY <1>1, <3>1 DEF Seen
  <2> HIDE DEF start
  <2> QED
    BY <1>2, <2>1 DEF BestOf, start
<1>7. ASSUME NEW k \in 1..n, NEW b, Leads(k - 1, b)
      PROVE  Leads(k, BestFrom(sentences, terms, max, b, k))
  <2>1. k \in DOMAIN sentences /\ (k - 1) + 1 = k /\ max \in Int
    BY <1>1
  <2>2. b \in Windows /\ BestOf(sentences, terms, b, Seen(sentences, max, k, 0))
    BY <1>7, <2>1
  <2> QED
    BY <2>1, <2>2, BestFromIs
<1> HIDE DEF start, Leads
<1>8. \A k \in 1..n : Leads(k - 1, f[k - 1]) => f[k] = BestFrom(sentences, terms, max, f[k - 1], k)
  <2> TAKE k \in 1..n
  <2> HAVE Leads(k - 1, f[k - 1])
  <2>1. BestFrom(sentences, terms, max, f[k - 1], k) \in Windows
    BY <1>7 DEF Leads
  <2>2. <<k, f[k - 1]>> \in (1..n) \X Windows
    BY <1>1
  <2> QED
    BY <1>5, <2>1, <2>2
<1> HIDE DEF T
<1> DEFINE S == {k \in 0..n : Leads(k, f[k])}
<1>9. \A k \in 0..n : Leads(k, f[k])
  <2>1. 0 \in S
    BY <1>1, <1>5, <1>6
  <2>2. \A k \in 0..n - 1 : k \in S => k + 1 \in S
    <3> TAKE k \in 0..n - 1
    <3> HAVE k \in S
    <3>1. k + 1 \in 1..n /\ (k + 1) - 1 = k /\ k + 1 \in 0..n
      BY <1>1
    <3>2. Leads((k + 1) - 1, f[(k + 1) - 1])
      BY <3>1
    <3>3. f[k + 1] = BestFrom(sentences, terms, max, f[(k + 1) - 1], k + 1)
      BY <1>8, <3>1, <3>2
    <3>4. Leads(k + 1, f[k + 1])
      BY <1>7, <3>1, <3>2, <3>3
    <3> QED
      BY <3>1, <3>4
  <2> HIDE DEF S, n
  <2>3. 0..n \subseteq S
    BY <1>1, <2>1, <2>2, UpToBound
  <2> QED
    BY <2>3 DEF S
<1>10. \A k \in 1..n : f[k] = BestFrom(sentences, terms, max, f[k - 1], k)
  <2> TAKE k \in 1..n
  <2>1. k - 1 \in 0..n
    BY <1>1
  <2> QED
    BY <1>8, <1>9, <2>1
<1>11. Unfolds(f)
  <2>1. \A k \in 0..n : k = 0 \/ k \in 1..n
    BY <1>1
  <2> HIDE DEF n
  <2> QED
    BY <1>5, <1>10, <2>1
<1>12. Unfolds(after)
  BY <1>11
<1>13. Best(sentences, terms, max) = after[n]
  BY DEF Best, start
<1> HIDE DEF after
<1>14. after[0] = start /\ \A k \in 1..n : after[k] = BestFrom(sentences, terms, max, after[k - 1], k)
  <2>1. 0 \in 0..n /\ \A k \in 1..n : k \in 0..n /\ k # 0
    BY <1>1
  <2> HIDE DEF n
  <2> QED
    BY <1>12, <2>1
<1> DEFINE R == {k \in 0..n : Leads(k, after[k])}
<1>15. Leads(n, after[n])
  <2>1. 0 \in R
    BY <1>1, <1>6, <1>14
  <2>2. \A k \in 0..n - 1 : k \in R => k + 1 \in R
    <3> TAKE k \in 0..n - 1
    <3> HAVE k \in R
    <3>1. k + 1 \in 1..n /\ (k + 1) - 1 = k /\ k + 1 \in 0..n
      BY <1>1
    <3>2. Leads((k + 1) - 1, after[(k + 1) - 1])
      BY <3>1
    <3>3. after[k + 1] = BestFrom(sentences, terms, max, after[(k + 1) - 1], k + 1)
      BY <1>14, <3>1
    <3>4. Leads(k + 1, after[k + 1])
      BY <1>7, <3>1, <3>2, <3>3
    <3> QED
      BY <3>1, <3>4
  <2> HIDE DEF R, n
  <2>3. 0..n \subseteq R /\ n \in 0..n
    BY <1>1, <2>1, <2>2, UpToBound
  <2> QED
    BY <2>3 DEF R
<1> DEFINE e == Excerpt(sentences, terms, max)
           best == Best(sentences, terms, max)
           score(from, to) == Matches(sentences, terms, from, to)
           all == Seen(sentences, max, n + 1, 0)
<1>16. \A from \in 1..n : \A to \in from..n :
         <<from, to>> \in all <=> (from = to \/ Cost(sentences, from, to) <= max)
  <2> TAKE from \in 1..n
  <2> TAKE to \in from..n
  <2>1. from \in 1..n /\ to \in 1..n /\ from <= to /\ from < n + 1
    BY <1>1
  <2> QED
    BY <1>1, <2>1 DEF Seen, Fits
<1>17. CASE max > 0 /\ ~(PassageTokens(sentences) <= max) /\ n # 1
  <2> HIDE DEF e, best
  <2>1. BestOf(sentences, terms, best, all)
    BY <1>13, <1>15 DEF Leads, best
  <2>2. <<1, 1>> \in all
    <3>1. 1 \in 1..n /\ 1 \in 1..n
      BY <1>1
    <3> QED
      BY <1>16, <3>1
  <2>3. e = [from |-> best.from, to |-> best.to, head |-> 0]
    BY <1>17 DEF Excerpt, e, best
  <2> HIDE DEF all, n
  <2>4. PICK w \in all :
          /\ best = Window(sentences, terms, w[1], w[2])
          /\ \A v \in all :
               /\ score(v[1], v[2]) <= best.score
               /\ score(v[1], v[2]) = best.score => v[1] > w[1] \/ (v[1] = w[1] /\ v[2] >= w[2])
    BY <2>1, <2>2 DEF BestOf
  <2>5. w[1] = e.from /\ w[2] = e.to /\ best.score = score(w[1], w[2]) /\ e.head = 0
    BY <2>3, <2>4 DEF Window
  <2>6. w[1] \in 1..n /\ w[2] \in w[1]..n
    BY <1>1, <2>4 DEF all, Seen
  <2>7. e.from \in 1..n /\ e.to \in e.from..n /\ <<e.from, e.to>> \in all
    <3>1. w = <<w[1], w[2]>>
      BY <2>4 DEF all, Seen
    <3> QED
      BY <2>4, <2>5, <2>6, <3>1
  <2>8. ASSUME NEW from \in 1..n, NEW to \in from..n,
               from = to \/ Cost(sentences, from, to) <= max
        PROVE  /\ score(from, to) <= score(e.from, e.to)
               /\ score(from, to) = score(e.from, e.to) => from >= e.from
    <3>1. <<from, to>> \in all
      BY <1>16, <2>8
    <3>2. <<from, to>>[1] = from /\ <<from, to>>[2] = to
      OBVIOUS
    <3> HIDE DEF score
    <3>3. /\ score(from, to) <= best.score
          /\ score(from, to) = best.score => from > w[1] \/ from = w[1]
      BY <2>4, <3>1, <3>2
    <3>4. best.score = score(e.from, e.to) /\ w[1] = e.from
      BY <2>5
    <3>5. from \in Int /\ e.from \in Int
      BY <1>1, <2>7
    <3> QED
      BY <3>3, <3>4, <3>5
  <2>9. e.from = e.to \/ Cost(sentences, e.from, e.to) <= max
    BY <1>16, <2>7
  <2>10. ~(max = 0 \/ PassageTokens(sentences) <= max) /\ Len(sentences) # 1 /\ DOMAIN sentences = 1..n
         /\ Len(sentences) = n
    BY <1>1, <1>17 DEF n
  <2> QED
    BY <2>5, <2>7, <2>8, <2>9, <2>10 DEF ExcerptBest, e
<1>18. CASE max > 0 /\ ~(PassageTokens(sentences) <= max) /\ n = 1
  <2>1. e = [from |-> 1, to |-> 1, head |-> HeadOf(sentences[1], max)]
    BY <1>18 DEF Excerpt
  <2>2. sentences[1] \in Sentence
    BY <1>1
  <2>3. CutBehindAWord(sentences[1], max, e.head)
    BY <1>18, <2>1, <2>2, HeadIs
  <2> QED
    BY <1>18, <2>1, <2>3 DEF ExcerptBest
<1>19. CASE max = 0 \/ PassageTokens(sentences) <= max
  <2>1. e = [from |-> 1, to |-> n, head |-> 0]
    BY <1>19 DEF Excerpt
  <2> QED
    BY <1>19, <2>1 DEF ExcerptBest
<1>20. max = 0 \/ max > 0
  OBVIOUS
<1> QED
  BY <1>17, <1>18, <1>19, <1>20

-----------------------------------------------------------------------------
(***************************************************************************)
(* Two rankings fused.                                                     *)
(***************************************************************************)
\* Products are as their factors.
LEMMA Scaling ==
  ASSUME NEW a \in Int, NEW b \in Int, NEW c \in Int, c > 0
  PROVE  /\ a * c \in Int /\ b * c \in Int
         /\ a >= b <=> a * c >= b * c
         /\ a > b <=> a * c > b * c
<1> DEFINE d == a - b
<1>1. d \in Int /\ a * c = b * c + d * c
  OBVIOUS
<1>2. d = 0 => d * c = 0
  OBVIOUS
<1>3. d > 0 => d * c > 0
  OBVIOUS
<1>4. d < 0 => d * c < 0
  OBVIOUS
<1>5. d * c \in Int /\ b * c \in Int /\ a * c \in Int
  OBVIOUS
<1>6. (d >= 0 <=> a >= b) /\ (d > 0 <=> a > b) /\ (d < 0 <=> a < b)
  OBVIOUS
<1> HIDE DEF d
<1> DEFINE x == a * c
           y == b * c
           z == d * c
<1>7. x \in Int /\ y \in Int /\ z \in Int /\ x = y + z
  BY <1>1, <1>5
<1>8. (d = 0 => z = 0) /\ (d > 0 => z > 0) /\ (d < 0 => z < 0)
  BY <1>2, <1>3, <1>4
<1> HIDE DEF x, y, z
<1>9. d >= 0 <=> x >= y
  BY <1>1, <1>7, <1>8
<1>10. d > 0 <=> x > y
  BY <1>1, <1>7, <1>8
<1> QED
  BY <1>5, <1>6, <1>9, <1>10 DEF x, y

\* A fraction with a positive denominator.
Fraction == [num : Nat, den : Nat \ {0}]

\* No fraction is higher than one that is higher than it, nor than those below that.
LEMMA HigherIs ==
  ASSUME NEW s \in Fraction, NEW t \in Fraction, NEW u \in Fraction
  PROVE  /\ Higher(s, t) => ~Higher(t, s)
         /\ ~Higher(t, s) /\ ~Higher(u, t) => ~Higher(u, s)
<1> DEFINE sn == s.num
           sd == s.den
           tn == t.num
           td == t.den
           un == u.num
           ud == u.den
<1>1. sn \in Int /\ sd \in Int /\ tn \in Int /\ td \in Int /\ un \in Int /\ ud \in Int
      /\ sd > 0 /\ td > 0 /\ ud > 0
  BY DEF Fraction
<1>2. /\ Higher(s, t) <=> sn * td > tn * sd
      /\ Higher(t, s) <=> tn * sd > sn * td
      /\ Higher(u, t) <=> un * td > tn * ud
      /\ Higher(u, s) <=> un * sd > sn * ud
  BY DEF Higher
<1> HIDE DEF sn, sd, tn, td, un, ud
<1> DEFINE p == sn * td
           q == tn * sd
           x == tn * ud
           y == un * td
           z == sn * ud
           w == un * sd
<1>3. p \in Int /\ q \in Int /\ x \in Int /\ y \in Int /\ z \in Int /\ w \in Int
  BY <1>1
<1>4. p * ud = z * td /\ q * ud = x * sd /\ y * sd = w * td
  BY <1>1
<1>5. /\ Higher(s, t) <=> p > q
      /\ Higher(t, s) <=> q > p
      /\ Higher(u, t) <=> y > x
      /\ Higher(u, s) <=> w > z
  BY <1>2
<1> HIDE DEF p, q, x, y, z, w
<1>6. ASSUME p >= q, x >= y PROVE z >= w
  <2>1. p * ud >= q * ud /\ p * ud \in Int /\ q * ud \in Int
    BY <1>1, <1>3, <1>6, Scaling
  <2>2. x * sd >= y * sd /\ x * sd \in Int /\ y * sd \in Int
    BY <1>1, <1>3, <1>6, Scaling
  <2>3. z * td >= w * td
    <3> DEFINE k == q * ud
               l == x * sd
               m == p * ud
               o == y * sd
    <3>1. k \in Int /\ l \in Int /\ m \in Int /\ o \in Int /\ m >= k /\ l >= o /\ k = l
      BY <1>4, <2>1, <2>2
    <3>2. z * td = m /\ w * td = o
      BY <1>4
    <3> HIDE DEF k, l, m, o
    <3>3. m >= o
      BY <3>1
    <3> QED
      BY <3>2, <3>3
  <2> QED
    BY <1>1, <1>3, <2>3, Scaling
<1> QED
  BY <1>3, <1>5, <1>6

\* Each chunk has one place.
Ranked == {r \in Seq([id : Nat]) : \A i, j \in DOMAIN r : r[i].id = r[j].id => i = j}

\* The place of a chunk in a ranking.
LEMMA AtIs ==
  ASSUME NEW r \in Ranked
  PROVE  /\ \A id \in Ids(r) : At(r, id) \in DOMAIN r /\ r[At(r, id)].id = id
         /\ \A i \in DOMAIN r : r[i].id \in Ids(r) /\ At(r, r[i].id) = i
<1>1. \A id \in Ids(r) : At(r, id) \in DOMAIN r /\ r[At(r, id)].id = id
  BY DEF Ids, At
<1>2. \A i \in DOMAIN r : r[i].id \in Ids(r)
  BY DEF Ids
<1> QED
  BY <1>1, <1>2 DEF Ranked

\* What a chunk of two rankings scores.
LEMMA ScoreIs ==
  ASSUME NEW first \in Rankings, NEW second \in Rankings, NEW id \in Ids(first) \cup Ids(second)
  PROVE  /\ Score(first, second, id) \in Fraction
         /\ id \in Ids(first) => K + At(first, id) \in 61..121
         /\ id \in Ids(second) => K + At(second, id) \in 61..121
<1>1. \A r \in Rankings : r \in Ranked /\ Len(r) <= 61 /\ Len(r) \in Nat /\ DOMAIN r = 1..Len(r)
  BY DEF Rankings, Ranked
<1>2. \A r \in Rankings : \A x \in Ids(r) : K + At(r, x) \in 61..121
  <2> TAKE r \in Rankings
  <2> TAKE x \in Ids(r)
  <2>1. At(r, x) \in DOMAIN r
    BY <1>1, AtIs
  <2>2. At(r, x) \in 1..Len(r) /\ Len(r) \in Nat /\ Len(r) <= 61
    BY <1>1, <2>1
  <2> DEFINE p == At(r, x)
             m == Len(r)
  <2>3. p \in 1..m /\ m \in Nat /\ m <= 61
    BY <2>2
  <2> HIDE DEF p, m
  <2>4. p \in 1..61
    BY <2>3
  <2> QED
    BY <2>4 DEF K, p
<1> DEFINE a == K + At(first, id)
           b == K + At(second, id)
<1>3. (id \in Ids(first) => a \in 61..121) /\ (id \in Ids(second) => b \in 61..121)
  BY <1>2
<1>4. Score(first, second, id)
        = CASE id \in Ids(first) \cap Ids(second) -> [num |-> a + b, den |-> a * b]
            [] id \in Ids(first) \ Ids(second) -> [num |-> 1, den |-> a]
            [] id \in Ids(second) \ Ids(first) -> [num |-> 1, den |-> b]
  BY DEF Score
<1> HIDE DEF a, b
<1>5. CASE id \in Ids(first) \cap Ids(second)
  <2>1. Score(first, second, id) = [num |-> a + b, den |-> a * b]
    BY <1>4, <1>5
  <2>2. a \in Nat /\ b \in Nat /\ a > 0 /\ b > 0
    BY <1>3, <1>5
  <2>3. a + b \in Nat /\ a * b \in Nat /\ a * b # 0
    BY <2>2
  <2> QED
    BY <1>3, <2>1, <2>3 DEF Fraction, a, b
<1>6. CASE id \in Ids(first) \ Ids(second)
  <2>1. Score(first, second, id) = [num |-> 1, den |-> a] /\ a \in Nat \ {0}
    BY <1>3, <1>4, <1>6
  <2> QED
    BY <1>3, <2>1 DEF Fraction, a, b
<1>7. CASE id \in Ids(second) \ Ids(first)
  <2>1. Score(first, second, id) = [num |-> 1, den |-> b] /\ b \in Nat \ {0}
    BY <1>3, <1>4, <1>7
  <2> QED
    BY <1>3, <2>1 DEF Fraction, a, b
<1> QED
  BY <1>5, <1>6, <1>7

\* A chunk of both rankings scores more than one of either, and than one behind it in both.
LEMMA ScoresFair ==
  ASSUME NEW first \in Rankings, NEW second \in Rankings,
         NEW x \in Ids(first) \cap Ids(second), NEW y \in Ids(first) \cup Ids(second)
  PROVE  /\ y \notin Ids(first) \cap Ids(second)
              => Higher(Score(first, second, x), Score(first, second, y))
         /\ (/\ y \in Ids(first) \cap Ids(second)
             /\ At(first, x) < At(first, y) /\ At(second, x) < At(second, y))
              => Higher(Score(first, second, x), Score(first, second, y))
<1> DEFINE a == K + At(first, x)
           b == K + At(second, x)
           c == K + At(first, y)
           d == K + At(second, y)
<1>1. a \in 61..121 /\ b \in 61..121 /\ (y \in Ids(first) => c \in 61..121)
      /\ (y \in Ids(second) => d \in 61..121)
  <2>1. x \in Ids(first) \cup Ids(second)
    OBVIOUS
  <2> QED
    BY <2>1, ScoreIs
<1>2. Score(first, second, x) = [num |-> a + b, den |-> a * b]
  BY DEF Score
<1>3. /\ y \in Ids(first) \cap Ids(second) => Score(first, second, y) = [num |-> c + d, den |-> c * d]
      /\ y \in Ids(first) \ Ids(second) => Score(first, second, y) = [num |-> 1, den |-> c]
      /\ y \in Ids(second) \ Ids(first) => Score(first, second, y) = [num |-> 1, den |-> d]
  BY DEF Score
<1>4. ASSUME NEW e \in 61..121 PROVE (a + b) * e > 1 * (a * b)
  <2> HIDE DEF a, b
  <2> DEFINE m == a * b
             s == a + b
  <2>1. m \in Int /\ s \in Int /\ s >= 122
    BY <1>1
  <2>2. a * b <= 121 * b /\ a * b <= 121 * a
    <3>1. (121 - a) * b >= 0 /\ (121 - b) * a >= 0
      BY <1>1
    <3> QED
      BY <1>1, <3>1
  <2>3. 2 * m <= 121 * s
    <3>1. m <= 121 * b /\ m <= 121 * a
      BY <2>2
    <3> HIDE DEF m
    <3> QED
      BY <1>1, <2>1, <3>1
  <2> HIDE DEF m, s
  <2>4. s * e >= s * 61 /\ s * e \in Int
    <3>1. s * (e - 61) >= 0
      BY <2>1
    <3> QED
      BY <2>1, <3>1
  <2>5. s * e > m
    <3> DEFINE z == s * e
    <3>1. z \in Int /\ z >= s * 61
      BY <2>4
    <3> HIDE DEF z
    <3>2. z > m
      BY <2>1, <2>3, <3>1
    <3> QED
      BY <3>2 DEF z
  <2>6. 1 * m = m
    BY <2>1
  <2> QED
    BY <2>5, <2>6 DEF m, s
<1>5. ASSUME y \in Ids(first) \cap Ids(second), a < c, b < d
      PROVE  (a + b) * (c * d) > (c + d) * (a * b)
  <2>1. a \in 61..121 /\ b \in 61..121 /\ c \in 61..121 /\ d \in 61..121
    BY <1>1, <1>5
  <2>2. a < c /\ b < d
    BY <1>5
  <2> HIDE DEF a, b, c, d
  <2> DEFINE p == a * c
             q == b * d
             v == d - b
             w == c - a
  <2>3. p \in Int /\ q \in Int /\ v \in Int /\ w \in Int /\ p > 0 /\ q > 0 /\ v > 0 /\ w > 0
    BY <2>1, <2>2
  <2>4. (a + b) * (c * d) = (c + d) * (a * b) + p * v + q * w
    BY <2>1
  <2>5. p * v > 0 /\ q * w > 0 /\ p * v \in Int /\ q * w \in Int
    <3> HIDE DEF p, q, v, w
    <3> QED
      BY <2>3
  <2> DEFINE l == (a + b) * (c * d)
             r == (c + d) * (a * b)
             x1 == p * v
             x2 == q * w
  <2>6. l \in Int /\ r \in Int /\ x1 \in Int /\ x2 \in Int /\ x1 > 0 /\ x2 > 0 /\ l = r + x1 + x2
    BY <2>1, <2>4, <2>5
  <2> HIDE DEF l, r, x1, x2
  <2>7. l > r
    BY <2>6
  <2> QED
    BY <2>7 DEF l, r
<1>6. ASSUME y \in Ids(first) \cap Ids(second),
             At(first, x) < At(first, y), At(second, x) < At(second, y)
      PROVE  a < c /\ b < d
  <2>1. first \in Ranked /\ second \in Ranked /\ DOMAIN first = 1..Len(first)
        /\ DOMAIN second = 1..Len(second)
    BY DEF Rankings, Ranked
  <2>2. At(first, x) \in DOMAIN first /\ At(first, y) \in DOMAIN first
    BY <1>6, <2>1, AtIs
  <2>3. At(second, x) \in DOMAIN second /\ At(second, y) \in DOMAIN second
    BY <1>6, <2>1, AtIs
  <2>4. /\ At(first, x) \in Int /\ At(first, y) \in Int
        /\ At(second, x) \in Int /\ At(second, y) \in Int /\ K \in Int
    BY <2>1, <2>2, <2>3 DEF K
  <2> QED
    BY <1>6, <2>4
<1> HIDE DEF a, b, c, d
<1>7. ASSUME y \notin Ids(first) \cap Ids(second)
      PROVE  Higher(Score(first, second, x), Score(first, second, y))
  <2>1. PICK e \in 61..121 : Score(first, second, y) = [num |-> 1, den |-> e]
    BY <1>1, <1>3, <1>7
  <2> QED
    BY <1>2, <1>4, <2>1 DEF Higher
<1>8. ASSUME y \in Ids(first) \cap Ids(second), a < c, b < d
      PROVE  Higher(Score(first, second, x), Score(first, second, y))
  BY <1>2, <1>3, <1>5, <1>8 DEF Higher
<1> QED
  BY <1>6, <1>7, <1>8 DEF a, b, c, d

\* Two rankings merged: each chunk once.
LEMMA MergedIs ==
  ASSUME NEW first \in Rankings, NEW second \in Rankings
  PROVE  Merged(first, second) \in Ranked /\ Ids(Merged(first, second)) = Ids(first) \cup Ids(second)
<1> DEFINE X == [id : Nat]
           P == {i \in DOMAIN second : second[i].id \notin Ids(first)}
           rest == Pick(second, P)
           m == Merged(first, second)
           a == Len(first)
           b == Len(rest)
<1>1. first \in Seq(X) /\ second \in Seq(X) /\ first \in Ranked /\ second \in Ranked
  BY DEF Rankings, Ranked
<1>2. /\ rest \in Seq(X) /\ DOMAIN rest = 1..b /\ P \subseteq Int /\ IsFiniteSet(P)
      /\ b = Cardinality(P)
      /\ \A i \in P : Rank(P, i) \in 1..b /\ rest[Rank(P, i)] = second[i]
      /\ \A k \in 1..b : Nth(P, k) \in P /\ rest[k] = second[Nth(P, k)]
  <2>1. P \subseteq DOMAIN second
    OBVIOUS
  <2> HIDE DEF P
  <2> QED
    BY <1>1, <2>1, PickIs
<1>3. m = first \o rest
  BY DEF Merged
<1>4. \A k \in 1..b : rest[k].id \in Ids(second) \ Ids(first)
  <2> TAKE k \in 1..b
  <2>1. Nth(P, k) \in P /\ rest[k] = second[Nth(P, k)]
    BY <1>2
  <2> HIDE DEF rest, b
  <2> QED
    BY <2>1 DEF Ids
<1>5. \A k, l \in 1..b : rest[k].id = rest[l].id => k = l
  <2> TAKE k \in 1..b, l \in 1..b
  <2> HAVE rest[k].id = rest[l].id
  <2>1. Nth(P, k) \in DOMAIN second /\ Nth(P, l) \in DOMAIN second
        /\ second[Nth(P, k)].id = second[Nth(P, l)].id
    BY <1>2
  <2>2. Nth(P, k) = Nth(P, l)
    BY <1>1, <2>1 DEF Ranked
  <2>3. Rank(P, Nth(P, k)) = k /\ Rank(P, Nth(P, l)) = l
    <3> HIDE DEF P, rest
    <3> QED
      BY <1>2, NthIs
  <2> QED
    BY <2>2, <2>3
<1> HIDE DEF P, rest, m
<1>6. /\ m \in Seq(X) /\ Len(m) = a + b /\ a \in Nat /\ b \in Nat /\ DOMAIN m = 1..a + b
      /\ \A k \in 1..a : m[k] = first[k]
      /\ \A k \in 1..b : m[a + k] = rest[k]
  <2>1. m \in Seq(X)
    BY <1>1, <1>2, <1>3, ConcatProperties
  <2>2. Len(m) = a + b /\ a \in Nat /\ b \in Nat
    <3>1. Len(first \o rest) = a + b
      BY <1>1, <1>2, ConcatProperties
    <3>2. a \in Nat /\ b \in Nat
      BY <1>1, <1>2
    <3> QED
      BY <1>3, <3>1, <3>2
  <2>3. \A k \in 1..a + b : m[k] = IF k <= a THEN first[k] ELSE rest[k - a]
    BY <1>1, <1>2, <1>3, ConcatProperties
  <2>4. DOMAIN m = 1..a + b
    BY <2>1, <2>2
  <2> HIDE DEF a, b, X
  <2>5. \A k \in 1..a : m[k] = first[k]
    BY <2>2, <2>3
  <2>6. \A k \in 1..b : m[a + k] = rest[k]
    <3> TAKE k \in 1..b
    <3> DEFINE l == a + k
    <3>1. l \in 1..a + b /\ ~(l <= a) /\ l - a = k
      BY <2>2
    <3> HIDE DEF l
    <3>2. m[l] = rest[k]
      BY <2>3, <3>1
    <3> QED
      BY <3>2 DEF l
  <2> QED
    BY <2>1, <2>2, <2>4, <2>5, <2>6
<1>7. DOMAIN first = 1..a
  BY <1>1
<1>8. \A k \in 1..a + b : (k \in 1..a) \/ (k - a \in 1..b /\ a + (k - a) = k)
  BY <1>6
<1> HIDE DEF a, b, X
<1>9. \A k \in 1..a : m[k].id \in Ids(first)
  BY <1>6, <1>7 DEF Ids
<1>10. \A k \in 1..a + b : ~(k \in 1..a) => m[k] = rest[k - a] /\ m[k].id \in Ids(second) \ Ids(first)
  <2> TAKE k \in 1..a + b
  <2> HAVE ~(k \in 1..a)
  <2>1. k - a \in 1..b /\ a + (k - a) = k
    BY <1>8
  <2>2. m[a + (k - a)] = rest[k - a]
    BY <1>6, <2>1
  <2> QED
    BY <1>4, <2>1, <2>2
<1>11. ASSUME NEW k \in 1..a + b, NEW l \in 1..a + b, m[k].id = m[l].id PROVE k = l
  <2>1. CASE k \in 1..a /\ l \in 1..a
    <3>1. first[k].id = first[l].id
      BY <1>6, <1>11, <2>1
    <3> QED
      BY <1>1, <1>7, <2>1, <3>1 DEF Ranked
  <2>2. CASE ~(k \in 1..a) /\ ~(l \in 1..a)
    <3>1. k - a \in 1..b /\ l - a \in 1..b /\ rest[k - a].id = rest[l - a].id
      BY <1>8, <1>10, <1>11, <2>2
    <3>2. k - a = l - a
      BY <1>5, <3>1
    <3> QED
      BY <1>6, <3>2
  <2> QED
    BY <1>9, <1>10, <1>11, <2>1, <2>2
<1>12. m \in Ranked
  BY <1>6, <1>11 DEF Ranked, X
<1>13. Ids(m) = {m[k].id : k \in 1..a + b}
  BY <1>6 DEF Ids
<1>14. \A id \in Ids(m) : id \in Ids(first) \cup Ids(second)
  BY <1>9, <1>10, <1>13
<1>15. ASSUME NEW id \in Ids(first) PROVE id \in Ids(m)
  <2>1. PICK k \in 1..a : first[k].id = id
    BY <1>7 DEF Ids
  <2>2. k \in 1..a + b /\ m[k].id = id
    BY <1>6, <2>1
  <2> QED
    BY <1>13, <2>2
<1>16. ASSUME NEW id \in Ids(second), id \notin Ids(first) PROVE id \in Ids(m)
  <2>1. PICK i \in P : second[i].id = id
    BY <1>16 DEF Ids, P
  <2>2. PICK k \in 1..b : rest[k] = second[i]
    BY <1>2
  <2>3. a + k \in 1..a + b /\ m[a + k].id = id
    BY <1>6, <2>1, <2>2
  <2> QED
    BY <1>13, <2>3
<1> QED
  BY <1>12, <1>14, <1>15, <1>16 DEF m

\* The best score first is an order of what is merged.
LEMMA AboveIs ==
  ASSUME NEW first \in Rankings, NEW second \in Rankings
  PROVE  Orders(DOMAIN Merged(first, second), Above(first, second, Merged(first, second)))
<1> DEFINE m == Merged(first, second)
           D == DOMAIN m
           R == Above(first, second, m)
           score(i) == Score(first, second, m[i].id)
<1>1. m \in Ranked /\ Ids(m) = Ids(first) \cup Ids(second)
  BY MergedIs
<1>2. \A i \in D : score(i) \in Fraction /\ i \in Int
  <2> TAKE i \in D
  <2>1. m[i].id \in Ids(m)
    BY DEF Ids
  <2>2. i \in Int
    <3>1. D = 1..Len(m)
      BY <1>1 DEF Ranked
    <3> QED
      BY <3>1
  <2> QED
    BY <1>1, <2>1, <2>2, ScoreIs
<1>3. \A i, j \in D : <<i, j>> \in R <=> \/ Higher(score(i), score(j))
                                         \/ ~Higher(score(j), score(i)) /\ i < j
  BY DEF Above
<1> HIDE DEF m, R, score, D
<1>4. \A i, j, k \in D : /\ Higher(score(i), score(j)) => ~Higher(score(j), score(i))
                         /\ ~Higher(score(j), score(i)) /\ ~Higher(score(k), score(j))
                              => ~Higher(score(k), score(i))
  BY <1>2, HigherIs
<1>5. ASSUME NEW i \in D, NEW j \in D, <<i, j>> \in R PROVE <<j, i>> \notin R
  BY <1>2, <1>3, <1>4, <1>5
<1>6. ASSUME NEW i \in D, NEW j \in D, NEW k \in D, <<i, j>> \in R, <<j, k>> \in R
      PROVE  <<i, k>> \in R
  <2>1. ~Higher(score(j), score(i)) /\ ~Higher(score(k), score(j))
    BY <1>3, <1>4, <1>6
  <2>2. ~Higher(score(k), score(i))
    BY <1>4, <2>1
  <2>3. CASE Higher(score(i), score(k))
    BY <1>3, <2>3
  <2>4. CASE ~Higher(score(i), score(k))
    <3>1. ~Higher(score(i), score(j))
      \* Else k, no lower than i, would be no lower than j.
      BY <1>4, <2>1, <2>4
    <3>2. ~Higher(score(j), score(k))
      BY <1>4, <2>1, <2>4
    <3>3. i < j /\ j < k
      BY <1>3, <1>6, <3>1, <3>2
    <3>4. i < k
      BY <1>2, <3>3
    <3> QED
      BY <1>3, <2>2, <3>4
  <2> QED
    BY <2>3, <2>4
<1>7. ASSUME NEW i \in D, NEW j \in D, i # j PROVE <<i, j>> \in R \/ <<j, i>> \in R
  <2>1. i < j \/ j < i
    BY <1>2, <1>7
  <2> QED
    BY <1>3, <2>1
<1>8. Orders(D, R)
  BY <1>5, <1>6, <1>7 DEF Orders
<1> QED
  BY <1>8 DEF D, R, m

\* What is fused is what is merged, in that order.
LEMMA Fusion ==
  ASSUME NEW first \in Rankings, NEW second \in Rankings
  PROVE  FusionFair(first, second)
<1> DEFINE m == Merged(first, second)
           D == DOMAIN m
           R == Above(first, second, m)
           n == Len(m)
           order == Sorted(D, R)
           fused == Fuse(first, second)
<1>1. m \in Ranked /\ Ids(m) = Ids(first) \cup Ids(second)
  BY MergedIs
<1>2. m \in Seq([id : Nat]) /\ n \in Nat /\ D = 1..n
      /\ \A i, j \in D : m[i].id = m[j].id => i = j
  BY <1>1 DEF Ranked
<1> DEFINE X == [id : Nat]
<1>2a. \A i \in D : m[i] \in X
  <2>1. m \in Seq(X) /\ D = 1..Len(m)
    BY <1>2
  <2> HIDE DEF m, D, X
  <2> QED
    BY <2>1
<1>2b. \A i, j \in D : m[i].id = m[j].id => i = j
  BY <1>2
<1>3. Orders(D, R)
  BY AboveIs
<1>4. fused = [k \in D |-> m[order[k]]]
  BY DEF Fuse
<1>5. \A i, j \in D : Higher(Score(first, second, m[i].id), Score(first, second, m[j].id))
                        => <<i, j>> \in R
  BY DEF Above
<1> HIDE DEF m, D, R, fused, n
<1>6. IsFiniteSet(D) /\ Cardinality(D) = n
  BY <1>2, FS_Interval
<1>7. /\ \A k \in 1..n : order[k] \in D
      /\ \A x \in D : \E k \in 1..n : order[k] = x
      /\ \A k, l \in 1..n : k < l <=> <<order[k], order[l]>> \in R
  BY <1>3, <1>6, SortedIs
<1> HIDE DEF order
<1>8. \A k \in 1..n : order[k] \in D /\ fused[k] = m[order[k]]
  BY <1>2, <1>4, <1>7
<1>9. fused \in Ranked /\ Len(fused) = n /\ DOMAIN fused = 1..n
  <2> HIDE DEF X
  <2>1. \A k \in 1..n : fused[k] \in X
    BY <1>8, <1>2a
  <2>2. fused = [k \in 1..n |-> fused[k]]
    BY <1>2, <1>4
  <2>3. fused \in Seq(X) /\ Len(fused) = n /\ DOMAIN fused = 1..n
    BY <1>2, <2>1, <2>2
  <2>4. ASSUME NEW k \in 1..n, NEW l \in 1..n, fused[k].id = fused[l].id PROVE k = l
    <3>1. order[k] = order[l]
      BY <1>8, <1>2b, <2>4
    <3>2. ~(k < l) /\ ~(l < k)
      <4>1. <<order[k], order[l]>> \notin R /\ <<order[l], order[k]>> \notin R
        BY <1>3, <1>8, <3>1 DEF Orders
      <4> QED
        BY <1>7, <4>1
    <3> QED
      BY <1>2, <3>2
  <2> QED
    BY <2>3, <2>4 DEF Ranked, X
<1>10. Ids(fused) = Ids(m)
  <2>1. Ids(fused) = {fused[k].id : k \in 1..n} /\ Ids(m) = {m[i].id : i \in D}
    BY <1>9 DEF Ids, D
  <2>2. \A k \in 1..n : fused[k].id \in Ids(m)
    BY <1>8, <2>1
  <2>3. \A i \in D : m[i].id \in Ids(fused)
    <3> TAKE i \in D
    <3>1. PICK k \in 1..n : order[k] = i
      BY <1>7
    <3> QED
      BY <1>8, <2>1, <3>1
  <2> QED
    BY <2>1, <2>2, <2>3
<1>11. Cardinality(Ids(fused)) = n
  <2> DEFINE f == [k \in 1..n |-> fused[k].id]
  <2>1. f \in Bijection(1..n, Ids(fused))
    <3>1. Ids(fused) = {fused[k].id : k \in 1..n}
      BY <1>9 DEF Ids
    <3>2. \A k, l \in 1..n : f[k] = f[l] => k = l
      BY <1>9 DEF Ranked
    <3>3. f \in [1..n -> Ids(fused)] /\ \A x \in Ids(fused) : \E k \in 1..n : f[k] = x
      BY <3>1
    <3> HIDE DEF f
    <3> QED
      BY <3>2, <3>3 DEF Bijection, Injection, IsInjective, Surjection
  <2>2. IsFiniteSet(1..n) /\ Cardinality(1..n) = n
    BY <1>2, FS_Interval
  <2> HIDE DEF f
  <2> QED
    BY <2>1, <2>2, FS_Bijection DEF ExistsBijection
<1>12. ASSUME NEW x \in Ids(fused), NEW y \in Ids(fused),
              Higher(Score(first, second, x), Score(first, second, y))
       PROVE  At(fused, x) < At(fused, y)
  <2> DEFINE k == At(fused, x)
             l == At(fused, y)
  <2>1. k \in 1..n /\ l \in 1..n /\ fused[k].id = x /\ fused[l].id = y
    BY <1>9, AtIs
  <2> HIDE DEF k, l
  <2>2. order[k] \in D /\ order[l] \in D /\ m[order[k]].id = x /\ m[order[l]].id = y
    BY <1>8, <2>1
  <2>3. <<order[k], order[l]>> \in R
    BY <1>5, <1>12, <2>2
  <2>4. k < l
    BY <1>7, <2>1, <2>3
  <2> QED
    BY <2>4 DEF k, l
<1>13. \A x, y \in Ids(fused) :
         /\ (x \in Ids(first) \cap Ids(second) /\ y \notin Ids(first) \cap Ids(second))
              => At(fused, x) < At(fused, y)
         /\ (/\ x \in Ids(first) \cap Ids(second) /\ y \in Ids(first) \cap Ids(second)
             /\ At(first, x) < At(first, y) /\ At(second, x) < At(second, y))
              => At(fused, x) < At(fused, y)
  BY <1>1, <1>10, <1>12, ScoresFair
<1> QED
  BY <1>1, <1>9, <1>10, <1>11, <1>13 DEF FusionFair, fused

-----------------------------------------------------------------------------
(***************************************************************************)
(* The hits narrowed.                                                      *)
(***************************************************************************)
\* What a rising function chooses is what is picked at its values.
LEMMA RisingIs ==
  ASSUME NEW X, NEW s \in Seq(X), NEW n \in Nat, NEW f \in [1..n -> DOMAIN s],
         \A i, j \in 1..n : i < j => f[i] < f[j]
  PROVE  Range(f) \subseteq DOMAIN s /\ [k \in 1..n |-> s[f[k]]] = Pick(s, Range(f))
<1> DEFINE P == {f[k] : k \in 1..n}
<1>1. P \subseteq DOMAIN s /\ P = Range(f)
  BY DEF Range
<1>2. \A i \in 1..n : f[i] \in Int /\ f[i] \in P
  OBVIOUS
<1>3. \A i, j \in 1..n : (f[i] <= f[j] <=> i <= j) /\ (f[i] = f[j] => i = j)
  <2> TAKE i \in 1..n, j \in 1..n
  <2>1. i \in Int /\ j \in Int /\ f[i] \in Int /\ f[j] \in Int
    BY <1>2
  <2>2. (i < j => f[i] < f[j]) /\ (j < i => f[j] < f[i])
    OBVIOUS
  <2> QED
    BY <2>1, <2>2
<1>4. ASSUME NEW m \in 0..n
      PROVE  Cardinality({f[i] : i \in 1..m}) = m
  <2> DEFINE g == [i \in 1..m |-> f[i]]
             G == {f[i] : i \in 1..m}
  <2>1. \A i \in 1..m : i \in 1..n
    OBVIOUS
  <2>2. \A i, j \in 1..m : g[i] = g[j] => i = j
    BY <1>3, <2>1
  <2>3. g \in [1..m -> G] /\ \A x \in G : \E i \in 1..m : g[i] = x
    OBVIOUS
  <2> HIDE DEF g, G
  <2>4. g \in Bijection(1..m, G)
    BY <2>2, <2>3 DEF Bijection, Injection, IsInjective, Surjection
  <2>5. IsFiniteSet(1..m) /\ Cardinality(1..m) = m
    BY FS_Interval
  <2>6. Cardinality(G) = m
    BY <2>4, <2>5, FS_Bijection DEF ExistsBijection
  <2> QED
    BY <2>6 DEF G
<1>5. Cardinality(P) = n
  <2>1. n \in 0..n
    OBVIOUS
  <2> QED
    BY <1>4, <2>1
<1>6. ASSUME NEW k \in 1..n PROVE Nth(P, k) = f[k]
  <2>1. {j \in P : j <= f[k]} = {f[i] : i \in 1..k}
    <3>1. \A i \in 1..k : i \in 1..n /\ f[i] <= f[k]
      BY <1>3
    <3>2. \A i \in 1..n : f[i] <= f[k] => i \in 1..k
      BY <1>3
    <3> QED
      BY <3>1, <3>2
  <2>2. Rank(P, f[k]) = k
    <3>1. k \in 0..n
      OBVIOUS
    <3> QED
      BY <1>4, <2>1, <3>1 DEF Rank
  <2>3. IsFiniteSet(P) /\ P \subseteq Int
    BY <1>1, PickIs
  <2>4. f[k] \in P
    BY <1>2
  <2> HIDE DEF P
  <2> QED
    BY <2>2, <2>3, <2>4, NthIs
<1>7. Pick(s, P) = [k \in 1..n |-> s[f[k]]]
  <2> HIDE DEF P
  <2> QED
    BY <1>5, <1>6 DEF Pick
<1> QED
  BY <1>1, <1>7

\* All of a sequence, picked, is the sequence.
LEMMA PickAll ==
  ASSUME NEW X, NEW s \in Seq(X)
  PROVE  Pick(s, DOMAIN s) = s
<1> DEFINE n == Len(s)
           f == [k \in 1..n |-> k]
<1>1. n \in Nat /\ DOMAIN s = 1..n /\ s = [k \in 1..n |-> s[k]]
  OBVIOUS
<1> HIDE DEF n
<1>2. f \in [1..n -> DOMAIN s] /\ \A i, j \in 1..n : i < j => f[i] < f[j]
  BY <1>1
<1>3. Range(f) = DOMAIN s /\ [k \in 1..n |-> s[f[k]]] = s
  BY <1>1 DEF Range
<1> HIDE DEF f
<1>4. [k \in 1..n |-> s[f[k]]] = Pick(s, Range(f))
  BY <1>1, <1>2, RisingIs
<1> QED
  BY <1>3, <1>4

\* What is picked of what is picked could have been picked at once.
LEMMA PickPick ==
  ASSUME NEW X, NEW s \in Seq(X), NEW P, P \subseteq DOMAIN s, NEW Q, Q \subseteq DOMAIN Pick(s, P)
  PROVE  \E R \in SUBSET P : Pick(Pick(s, P), Q) = Pick(s, R)
<1> DEFINE t == Pick(s, P)
           n == Cardinality(Q)
           f == [k \in 1..n |-> Nth(P, Nth(Q, k))]
<1>1. /\ t \in Seq(X) /\ DOMAIN t = 1..Cardinality(P) /\ IsFiniteSet(P) /\ P \subseteq Int
      /\ \A k \in 1..Cardinality(P) : Nth(P, k) \in P /\ t[k] = s[Nth(P, k)]
  BY PickIs
<1> HIDE DEF t
<1>2. Q \subseteq DOMAIN t
  BY DEF t
<1>3. n \in Nat /\ IsFiniteSet(Q) /\ Q \subseteq Int /\ \A k \in 1..n : Nth(Q, k) \in Q
  <2>1. IsFiniteSet(Q) /\ Q \subseteq Int
    BY <1>1, <1>2, PickIs
  <2>2. n \in Nat
    BY <2>1, FS_CardinalityType
  <2>3. \A k \in 1..n : Nth(Q, k) \in Q
    BY <2>1, NthIs
  <2> QED
    BY <2>1, <2>2, <2>3
<1>4. Pick(t, Q) = [k \in 1..n |-> t[Nth(Q, k)]]
  BY DEF Pick
<1> HIDE DEF n
<1>5. \A k \in 1..n : f[k] \in P /\ t[Nth(Q, k)] = s[f[k]]
  BY <1>1, <1>2, <1>3
<1>6. \A i, j \in 1..n : i < j => f[i] < f[j]
  <2> TAKE i \in 1..n, j \in 1..n
  <2> HAVE i < j
  <2>1. Nth(Q, i) < Nth(Q, j)
    BY <1>3, NthIs DEF n
  <2>2. Nth(Q, i) \in 1..Cardinality(P) /\ Nth(Q, j) \in 1..Cardinality(P)
    BY <1>1, <1>2, <1>3
  <2>3. Nth(P, Nth(Q, i)) < Nth(P, Nth(Q, j))
    BY <1>1, <2>1, <2>2, NthIs
  <2> QED
    BY <2>3
<1>7. f \in [1..n -> DOMAIN s]
  BY <1>5
<1>8. Pick(t, Q) = [k \in 1..n |-> s[f[k]]]
  BY <1>4, <1>5
<1>9. Range(f) \in SUBSET P
  BY <1>5 DEF Range
<1> HIDE DEF f
<1>10. Pick(t, Q) = Pick(s, Range(f))
  BY <1>3, <1>6, <1>7, <1>8, RisingIs
<1> QED
  BY <1>9, <1>10 DEF t

\* The first k places, or all there are.
LEMMA FirstOfIs ==
  ASSUME NEW P, P \subseteq Int, IsFiniteSet(P), NEW k \in Nat
  PROVE  /\ FirstOf(P, k) \subseteq P /\ IsFiniteSet(FirstOf(P, k))
         /\ Cardinality(FirstOf(P, k)) = IF k <= Cardinality(P) THEN k ELSE Cardinality(P)
<1> DEFINE c == Cardinality(P)
           m == IF k <= c THEN k ELSE c
           F == FirstOf(P, k)
           g == [j \in 1..m |-> Nth(P, j)]
<1>1. c \in Nat
  BY FS_CardinalityType
<1> HIDE DEF c
<1>2. m \in 0..c /\ m <= k
  BY <1>1
<1>3. \A i \in P : Rank(P, i) \in 1..c /\ Nth(P, Rank(P, i)) = i
  BY RankIs, NthIs DEF c
<1>4. /\ \A j \in 1..c : Nth(P, j) \in P /\ Rank(P, Nth(P, j)) = j
      /\ \A i, j \in 1..c : i < j => Nth(P, i) < Nth(P, j)
  BY NthIs DEF c
<1>5. \A i \in P : i \in F <=> Rank(P, i) \in 1..m
  <2> TAKE i \in P
  <2>1. Rank(P, i) \in 1..c
    BY <1>3
  <2>2. i \in F <=> Rank(P, i) <= k
    BY DEF FirstOf
  <2> HIDE DEF F
  <2> QED
    BY <1>1, <2>1, <2>2
<1>6. F \subseteq P
  BY DEF FirstOf
<1>7. \A j \in 1..m : j \in 1..c
  BY <1>1, <1>2
<1> HIDE DEF m, F
<1>8. g \in [1..m -> F]
  <2>1. \A j \in 1..m : Nth(P, j) \in F
    BY <1>4, <1>5, <1>7
  <2> QED
    BY <2>1
<1>9. \A i, j \in 1..m : g[i] = g[j] => i = j
  BY <1>4, <1>7
<1>10. \A x \in F : \E j \in 1..m : g[j] = x
  <2> TAKE x \in F
  <2>1. x \in P /\ Rank(P, x) \in 1..m
    BY <1>5, <1>6
  <2>2. g[Rank(P, x)] = x
    BY <1>3, <2>1
  <2> QED
    BY <2>1, <2>2
<1> HIDE DEF g
<1>11. g \in Bijection(1..m, F)
  BY <1>8, <1>9, <1>10 DEF Bijection, Injection, IsInjective, Surjection
<1>12. IsFiniteSet(1..m) /\ Cardinality(1..m) = m
  BY <1>1, <1>2, FS_Interval
<1>13. IsFiniteSet(F) /\ Cardinality(F) = m
  BY <1>11, <1>12, FS_Bijection DEF ExistsBijection
<1> QED
  BY <1>6, <1>13 DEF F, m, c

\* What is kept: the first hit, and no two of the same material.
LEMMA KeptIs ==
  ASSUME NEW hits \in Seq(Hit)
  PROVE  /\ Kept(hits) \subseteq DOMAIN hits
         /\ \A i, j \in Kept(hits) : i < j => ~Repeats(hits[i], hits[j])
         /\ hits # <<>> => 1 \in Kept(hits)
<1> DEFINE n == Len(hits)
           D == SUBSET (1..n)
           More(kept, k) == IF \E i \in kept : Repeats(hits[i], hits[k]) THEN kept
                            ELSE kept \cup {k}
           Unfolds(g) == g = [k \in 0..n |-> IF k = 0 THEN {} ELSE More(g[k - 1], k)]
           after == CHOOSE g : Unfolds(g)
           T == [x \in (1..n) \X D |-> More(x[2], x[1])]
<1>1. n \in Nat /\ DOMAIN hits = 1..n /\ (hits # <<>> => n >= 1)
  OBVIOUS
<1>2. Kept(hits) = after[n]
  BY DEF Kept
<1> HIDE DEF n
<1>3. {} \in D /\ \A k \in 1..n : \A kept \in D : More(kept, k) \in D
  OBVIOUS
<1> HIDE DEF More
<1>4. T \in [(1..n) \X D -> D]
  BY <1>3
<1>5. \E f : Solves(f, n, D, {}, T)
  <2> HIDE DEF T, D
  <2> QED
    BY <1>1, <1>3, <1>4, RecursionExists
<1>6. PICK f \in [0..n -> D] : f[0] = {} /\ \A k \in 1..n : f[k] = T[<<k, f[k - 1]>>]
  BY <1>5 DEF Solves
<1>7. \A k \in 1..n : f[k] = More(f[k - 1], k)
  <2> TAKE k \in 1..n
  <2>1. <<k, f[k - 1]>> \in (1..n) \X D
    <3>1. k - 1 \in 0..n
      BY <1>1
    <3> QED
      BY <1>6, <3>1
  <2> QED
    BY <1>6, <2>1
<1>8. Unfolds(f)
  <2>1. \A k \in 0..n : k = 0 \/ k \in 1..n
    BY <1>1
  <2> QED
    BY <1>6, <1>7, <2>1
<1>9. Unfolds(after)
  BY <1>8
<1> HIDE DEF after, T
<1>10. after[0] = {} /\ \A k \in 1..n : after[k] = More(after[k - 1], k)
  <2>1. 0 \in 0..n /\ \A k \in 1..n : k \in 0..n /\ k # 0
    BY <1>1
  <2> QED
    BY <1>9, <2>1
<1> DEFINE S == {k \in 0..n : /\ after[k] \subseteq 1..k
                              /\ \A i, j \in after[k] : i < j => ~Repeats(hits[i], hits[j])
                              /\ k >= 1 => 1 \in after[k]}
<1>11. 0 \in S
  BY <1>1, <1>10
<1>12. \A k \in 0..n - 1 : k \in S => k + 1 \in S
  <2> TAKE k \in 0..n - 1
  <2> HAVE k \in S
  <2> DEFINE kept == after[k]
  <2>1. k + 1 \in 1..n /\ (k + 1) - 1 = k /\ k + 1 \in 0..n /\ k \in Nat
    BY <1>1
  <2>2. /\ kept \subseteq 1..k
        /\ \A i, j \in kept : i < j => ~Repeats(hits[i], hits[j])
        /\ k >= 1 => 1 \in kept
    OBVIOUS
  <2>3. after[k + 1] = More(kept, k + 1)
    BY <1>10, <2>1
  <2> HIDE DEF kept
  <2>4. CASE \E i \in kept : Repeats(hits[i], hits[k + 1])
    <3>1. after[k + 1] = kept
      BY <2>3, <2>4 DEF More
    <3>2. k >= 1
      BY <2>1, <2>2, <2>4
    <3>3. kept \subseteq 1..k + 1
      BY <2>1, <2>2
    <3> QED
      BY <2>1, <2>2, <3>1, <3>2, <3>3
  <2>5. CASE ~\E i \in kept : Repeats(hits[i], hits[k + 1])
    <3>1. after[k + 1] = kept \cup {k + 1}
      BY <2>3, <2>5 DEF More
    <3>2. \A i \in kept : i \in 1..k + 1 /\ i < k + 1 /\ ~(k + 1 < i)
      BY <2>1, <2>2
    <3>3. \A i, j \in kept \cup {k + 1} : i < j => ~Repeats(hits[i], hits[j])
      <4> TAKE i \in kept \cup {k + 1}, j \in kept \cup {k + 1}
      <4> HAVE i < j
      <4>1. i # k + 1
        BY <2>1, <3>2
      <4> QED
        BY <2>2, <2>5, <4>1
    <3>4. 1 \in kept \cup {k + 1}
      BY <2>1, <2>2
    <3>5. kept \cup {k + 1} \subseteq 1..k + 1
      BY <2>1, <3>2
    <3> QED
      BY <2>1, <3>1, <3>3, <3>4, <3>5
  <2> QED
    BY <2>4, <2>5
<1> HIDE DEF S
<1>13. n \in S
  <2>1. 0..n \subseteq S
    BY <1>1, <1>11, <1>12, UpToBound
  <2> QED
    BY <1>1, <2>1
<1> QED
  BY <1>1, <1>2, <1>13 DEF S

\* Spreading shows the best hit and as many as it may.
LEMMA SpreadIs ==
  ASSUME NEW X, NEW hits \in Seq(X), NEW limit \in Nat, limit >= 1
  PROVE  \E P \in SUBSET DOMAIN hits :
           /\ SpreadOut(hits, limit) = Pick(hits, P)
           /\ Cardinality(P) = IF Len(hits) <= limit THEN Len(hits) ELSE limit
           /\ hits # <<>> => 1 \in P
<1> DEFINE n == Len(hits)
           same(i, j) == hits[i].book = hits[j].book /\ hits[i].page = hits[j].page
           skipped == {i \in DOMAIN hits : \E j \in 1..i - 1 : same(i, j)}
           fresh == DOMAIN hits \ skipped
           first == FirstOf(fresh, limit)
           rest == FirstOf(skipped, limit - Cardinality(first))
<1>1. n \in Nat /\ DOMAIN hits = 1..n /\ (hits # <<>> => n >= 1)
  OBVIOUS
<1>2. IsFiniteSet(DOMAIN hits) /\ Cardinality(DOMAIN hits) = n
  <2> HIDE DEF n
  <2> QED
    BY <1>1, FS_Interval
<1>3. CASE n <= limit
  <2>1. SpreadOut(hits, limit) = Pick(hits, DOMAIN hits)
    BY <1>3, PickAll DEF SpreadOut
  <2>2. hits # <<>> => 1 \in DOMAIN hits
    BY <1>1
  <2> QED
    BY <1>2, <1>3, <2>1, <2>2
<1>4. CASE ~(n <= limit)
  <2>1. SpreadOut(hits, limit) = Pick(hits, first \cup rest)
    BY <1>4 DEF SpreadOut
  <2>2. skipped \in SUBSET DOMAIN hits /\ fresh \in SUBSET DOMAIN hits
        /\ skipped \cap fresh = {} /\ skipped \cup fresh = DOMAIN hits
    OBVIOUS
  <2>3. 1 \in fresh /\ \A i \in fresh : i >= 1
    BY <1>1, <1>4
  <2> HIDE DEF skipped, fresh
  <2>4. /\ IsFiniteSet(skipped) /\ IsFiniteSet(fresh)
        /\ Cardinality(skipped) \in Nat /\ Cardinality(fresh) \in Nat
    BY <1>2, <2>2, FS_Subset, FS_CardinalityType
  <2>5. Cardinality(skipped) + Cardinality(fresh) = n
    <3>1. Cardinality(skipped \cup fresh)
            = Cardinality(skipped) + Cardinality(fresh) - Cardinality(skipped \cap fresh)
      BY <2>4, FS_Union
    <3>2. Cardinality(skipped \cap fresh) = 0
      BY <2>2, FS_EmptySet
    <3> HIDE DEF n
    <3> QED
      BY <1>2, <2>2, <2>4, <3>1, <3>2
  <2>6. \A i \in DOMAIN hits : i \in Int
    BY <1>1
  <2>7. skipped \subseteq Int /\ fresh \subseteq Int
    BY <2>2, <2>6
  <2>8. /\ first \subseteq fresh /\ IsFiniteSet(first)
        /\ Cardinality(first) = IF limit <= Cardinality(fresh) THEN limit ELSE Cardinality(fresh)
    BY <2>4, <2>7, FirstOfIs
  <2>9. 1 \in first
    <3>1. {j \in fresh : j <= 1} = {1}
      <4>1. \A j \in fresh : j \in Int /\ j >= 1
        BY <2>3, <2>7
      <4> QED
        BY <2>3, <4>1
    <3>2. Rank(fresh, 1) = 1
      BY <3>1, FS_Singleton DEF Rank
    <3> QED
      BY <2>3, <3>2 DEF FirstOf
  <2> HIDE DEF first, n
  <2> DEFINE left == limit - Cardinality(first)
  <2>10. left \in Nat /\ Cardinality(first) \in Nat
    BY <2>4, <2>8
  <2>11. /\ rest \subseteq skipped /\ IsFiniteSet(rest)
         /\ Cardinality(rest) = IF left <= Cardinality(skipped) THEN left ELSE Cardinality(skipped)
    BY <2>4, <2>7, <2>10, FirstOfIs
  <2> HIDE DEF rest
  <2>12. Cardinality(first) + Cardinality(rest) = limit
    BY <1>1, <1>4, <2>4, <2>5, <2>8, <2>10, <2>11
  <2>13. Cardinality(first \cup rest) = limit
    <3>1. first \cap rest = {}
      BY <2>2, <2>8, <2>11
    <3>2. Cardinality(first \cap rest) = 0
      BY <3>1, FS_EmptySet
    <3>3. Cardinality(rest) \in Nat
      BY <2>11, FS_CardinalityType
    <3>4. Cardinality(first \cup rest)
            = Cardinality(first) + Cardinality(rest) - Cardinality(first \cap rest)
      BY <2>8, <2>11, FS_Union
    <3> QED
      BY <2>10, <2>12, <3>2, <3>3, <3>4
  <2>14. first \cup rest \in SUBSET DOMAIN hits /\ 1 \in first \cup rest
    BY <2>2, <2>8, <2>9, <2>11
  <2> QED
    BY <1>4, <2>1, <2>13, <2>14 DEF n
<1> QED
  BY <1>3, <1>4

\* A power of a positive number is one.
LEMMA PowerIs ==
  ASSUME NEW base \in Nat \ {0}, NEW exponent \in Nat
  PROVE  Power(base, exponent) \in Nat \ {0}
<1> DEFINE N == Nat \ {0}
           Unfolds(g) == g = [n \in 0..exponent |-> IF n = 0 THEN 1 ELSE base * g[n - 1]]
           upTo == CHOOSE g : Unfolds(g)
           T == [x \in (1..exponent) \X N |-> base * x[2]]
<1>1. 1 \in N /\ \A m \in N : base * m \in N
  OBVIOUS
<1>2. T \in [(1..exponent) \X N -> N]
  BY <1>1
<1> HIDE DEF N
<1>3. \E f : Solves(f, exponent, N, 1, T)
  <2> HIDE DEF T
  <2> QED
    BY <1>1, <1>2, RecursionExists
<1>4. PICK f \in [0..exponent -> N] : f[0] = 1 /\ \A k \in 1..exponent : f[k] = T[<<k, f[k - 1]>>]
  BY <1>3 DEF Solves
<1>5. \A k \in 1..exponent : f[k] = base * f[k - 1]
  <2> TAKE k \in 1..exponent
  <2>1. <<k, f[k - 1]>> \in (1..exponent) \X N
    <3>1. k - 1 \in 0..exponent
      OBVIOUS
    <3> QED
      BY <1>4, <3>1
  <2> QED
    BY <1>4, <2>1
<1>6. Unfolds(f)
  <2>1. \A k \in 0..exponent : k = 0 \/ k \in 1..exponent
    OBVIOUS
  <2> QED
    BY <1>4, <1>5, <2>1
<1>7. Unfolds(upTo)
  BY <1>6
<1>8. Power(base, exponent) = upTo[exponent]
  BY DEF Power
<1> HIDE DEF upTo, T
<1>9. upTo[0] = 1 /\ \A k \in 1..exponent : upTo[k] = base * upTo[k - 1]
  <2>1. 0 \in 0..exponent /\ \A k \in 1..exponent : k \in 0..exponent /\ k # 0
    OBVIOUS
  <2> QED
    BY <1>7, <2>1
<1>10. \A k \in 0..exponent : upTo[k] \in N
  <2>1. upTo[0] \in N /\ \A k \in 1..exponent : upTo[k - 1] \in N => upTo[k] \in N
    BY <1>1, <1>9
  <2> QED
    BY <2>1, Along
<1>11. exponent \in 0..exponent
  OBVIOUS
<1> QED
  BY <1>8, <1>10, <1>11 DEF N

\* Sums from the first number on.
LEMMA SumsIs ==
  ASSUME NEW s \in Seq(Int)
  PROVE  /\ \A k \in 0..Len(s) : Total(s, 1, k) \in Int
         /\ Total(s, 1, 0) = 0
         /\ \A k \in 1..Len(s) : Total(s, 1, k) = Total(s, 1, k - 1) + s[k]
<1>1. 1 \in Nat /\ 1 >= 1 /\ 0 \in 0..Len(s) /\ 0 < 1 /\ \A k \in 1..Len(s) : k >= 1
  OBVIOUS
<1>2. \A k \in 0..Len(s) : Total(s, 1, k) \in Int
  BY <1>1, TotalIs
<1>3. Total(s, 1, 0) = 0
  BY <1>1, TotalIs
<1>4. \A k \in 1..Len(s) : Total(s, 1, k) = Total(s, 1, k - 1) + s[k]
  BY <1>1, TotalIs
<1> QED
  BY <1>2, <1>3, <1>4

\* What is more in each place is more in all.
LEMMA TotalAdds ==
  ASSUME NEW s \in Seq(Int), NEW t \in Seq(Int), NEW u \in Seq(Int),
         Len(t) = Len(s), Len(u) = Len(s), \A k \in 1..Len(s) : u[k] >= s[k] + t[k]
  PROVE  Total(u, 1, Len(s)) >= Total(s, 1, Len(s)) + Total(t, 1, Len(s))
<1> DEFINE n == Len(s)
           a(k) == Total(s, 1, k)
           b(k) == Total(t, 1, k)
           c(k) == Total(u, 1, k)
           S == {k \in 0..n : c(k) >= a(k) + b(k)}
<1>1. n \in Nat /\ Len(t) = n /\ Len(u) = n
      /\ \A k \in 1..n : s[k] \in Int /\ t[k] \in Int /\ u[k] \in Int /\ u[k] >= s[k] + t[k]
  OBVIOUS
<1>2. /\ \A k \in 0..n : a(k) \in Int
      /\ a(0) = 0 /\ \A k \in 1..n : a(k) = a(k - 1) + s[k]
  BY SumsIs
<1>3. /\ \A k \in 0..n : b(k) \in Int
      /\ b(0) = 0 /\ \A k \in 1..n : b(k) = b(k - 1) + t[k]
  BY <1>1, SumsIs
<1>4. /\ \A k \in 0..n : c(k) \in Int
      /\ c(0) = 0 /\ \A k \in 1..n : c(k) = c(k - 1) + u[k]
  BY <1>1, SumsIs
<1> HIDE DEF a, b, c, n
<1>5. 0 \in S
  BY <1>1, <1>2, <1>3, <1>4
<1>6. \A k \in 0..n - 1 : k \in S => k + 1 \in S
  <2> TAKE k \in 0..n - 1
  <2> HAVE k \in S
  <2>1. k + 1 \in 1..n /\ (k + 1) - 1 = k /\ k + 1 \in 0..n /\ k \in 0..n
    BY <1>1
  <2>2. /\ a(k + 1) = a(k) + s[k + 1] /\ b(k + 1) = b(k) + t[k + 1] /\ c(k + 1) = c(k) + u[k + 1]
        /\ a(k) \in Int /\ b(k) \in Int /\ c(k) \in Int /\ c(k) >= a(k) + b(k)
    BY <1>2, <1>3, <1>4, <2>1
  <2>3. s[k + 1] \in Int /\ t[k + 1] \in Int /\ u[k + 1] \in Int /\ u[k + 1] >= s[k + 1] + t[k + 1]
    BY <1>1, <2>1
  <2>4. c(k + 1) >= a(k + 1) + b(k + 1)
    <3> DEFINE x == a(k)
               y == b(k)
               z == c(k)
               p == s[k + 1]
               q == t[k + 1]
               r == u[k + 1]
    <3>1. /\ x \in Int /\ y \in Int /\ z \in Int /\ p \in Int /\ q \in Int /\ r \in Int
          /\ z >= x + y /\ r >= p + q
      BY <2>2, <2>3
    <3>2. a(k + 1) = x + p /\ b(k + 1) = y + q /\ c(k + 1) = z + r
      BY <2>2
    <3> HIDE DEF x, y, z, p, q, r
    <3> QED
      BY <3>1, <3>2
  <2> QED
    BY <2>1, <2>4
<1> HIDE DEF S
<1>7. n \in S
  <2>1. n \in Nat /\ n \in 0..n
    BY <1>1
  <2>2. 0..n \subseteq S
    BY <1>5, <1>6, <2>1, UpToBound
  <2> QED
    BY <2>1, <2>2
<1> QED
  BY <1>7 DEF S, a, b, c, n

\* A hit is worth something wherever it is.
LEMMA WeightPositive ==
  ASSUME NEW hits \in Seq(Hit), NEW i \in DOMAIN hits
  PROVE  Weight(hits, i) \in Nat \ {0}
<1> DEFINE p == Power(17, i - 1)
           q == Power(20, Len(hits) - i)
           w == hits[i].sim
<1>1. i - 1 \in Nat /\ Len(hits) - i \in Nat /\ 17 \in Nat \ {0} /\ 20 \in Nat \ {0}
  OBVIOUS
<1>2. p \in Nat \ {0} /\ q \in Nat \ {0}
  BY <1>1, PowerIs
<1>3. w \in Nat \ {0}
  <2>1. hits[i] \in Hit
    OBVIOUS
  <2> QED
    BY <2>1 DEF Hit
<1> HIDE DEF p, q, w
<1>4. \A x, y \in Nat \ {0} : x * y \in Nat \ {0}
  OBVIOUS
<1>5. w * p * q \in Nat \ {0}
  BY <1>2, <1>3, <1>4
<1> QED
  BY <1>5 DEF Weight, w, p, q

\* The worth of the hits of some books, as numbers in a row.
Worths(hits, books) ==
  [i \in DOMAIN hits |-> IF hits[i].book \in books THEN Weight(hits, i) ELSE 0]

\* A book found is worth something, and two books no more than all.
LEMMA WorthIs ==
  ASSUME NEW hits \in Seq(Hit)
  PROVE  /\ \A books : Worth(hits, books) \in Int
         /\ \A b \in BooksOf(hits) : Worth(hits, {b}) > 0
         /\ \A b, c : b # c =>
              Worth(hits, {b} \cup {c} \cup BooksOf(hits)) >= Worth(hits, {b}) + Worth(hits, {c})
<1> DEFINE n == Len(hits)
<1>1. n \in Nat /\ DOMAIN hits = 1..n
  OBVIOUS
<1>2. \A i \in 1..n : Weight(hits, i) \in Int /\ Weight(hits, i) > 0
  BY <1>1, WeightPositive
<1> HIDE DEF n
<1>3. ASSUME NEW books
      PROVE  /\ Worths(hits, books) \in Seq(Int) /\ Len(Worths(hits, books)) = n
             /\ \A i \in 1..n : /\ Worths(hits, books)[i]
                                     = IF hits[i].book \in books THEN Weight(hits, i) ELSE 0
                                /\ Worths(hits, books)[i] >= 0
  <2> DEFINE v == Worths(hits, books)
  <2>1. v = [i \in 1..n |-> IF hits[i].book \in books THEN Weight(hits, i) ELSE 0]
    BY <1>1 DEF Worths
  <2>2. \A i \in 1..n : v[i] = (IF hits[i].book \in books THEN Weight(hits, i) ELSE 0)
    BY <2>1
  <2>3. \A i \in 1..n : v[i] \in Int /\ v[i] >= 0
    BY <1>2, <2>2
  <2>4. v = [i \in 1..n |-> v[i]]
    BY <2>1
  <2> HIDE DEF v
  <2>5. v \in Seq(Int) /\ Len(v) = n
    BY <1>1, <2>3, <2>4
  <2> QED
    BY <2>2, <2>3, <2>5 DEF v
<1>4. \A books : Worth(hits, books) = Total(Worths(hits, books), 1, n)
  BY DEF Worth, Worths, n
<1>5. ASSUME NEW books PROVE Worth(hits, books) \in Int
  <2>1. n \in 0..n /\ 1 \in Nat /\ 1 >= 1
    BY <1>1
  <2> QED
    BY <1>3, <1>4, <2>1, TotalIs
<1>6. ASSUME NEW b \in BooksOf(hits) PROVE Worth(hits, {b}) > 0
  <2> DEFINE v == Worths(hits, {b})
  <2>1. PICK i \in 1..n : hits[i].book = b
    BY <1>1 DEF BooksOf
  <2>2. /\ v \in Seq(Int) /\ Len(v) = n /\ \A j \in 1..n : v[j] >= 0
        /\ v[i] \in Int /\ v[i] > 0
    BY <1>2, <1>3, <2>1
  <2> HIDE DEF v
  <2>3. 1 \in Nat /\ 1 >= 1 /\ i \in 0..n /\ i - 1 \in 0..n /\ n \in 0..n /\ i <= n /\ i >= 1
        /\ 0 \in 0..n /\ 0 <= i - 1
    BY <1>1
  <2>4. Total(v, 1, i) = Total(v, 1, i - 1) + v[i]
    BY <2>2, <2>3, TotalIs
  <2>5. Total(v, 1, i - 1) \in Int /\ Total(v, 1, n) \in Int /\ Total(v, 1, i) \in Int
    BY <2>2, <2>3, TotalIs
  <2>6. Total(v, 1, i) <= Total(v, 1, n)
    BY <2>2, <2>3, TotalGrows
  <2>7. Total(v, 1, i - 1) >= 0
    BY <2>2, <2>3, TotalGrows
  <2>8. Total(v, 1, n) > 0
    BY <2>2, <2>4, <2>5, <2>6, <2>7
  <2> QED
    BY <1>4, <2>8 DEF v
<1>7. ASSUME NEW b, NEW c, b # c
      PROVE  Worth(hits, {b} \cup {c} \cup BooksOf(hits)) >= Worth(hits, {b}) + Worth(hits, {c})
  <2> DEFINE s == Worths(hits, {b})
             t == Worths(hits, {c})
             u == Worths(hits, {b} \cup {c} \cup BooksOf(hits))
  <2>1. s \in Seq(Int) /\ Len(s) = n /\ t \in Seq(Int) /\ Len(t) = n /\ u \in Seq(Int) /\ Len(u) = n
    BY <1>3
  <2>2. \A i \in 1..n : u[i] >= s[i] + t[i]
    <3> TAKE i \in 1..n
    <3>1. s[i] = IF hits[i].book \in {b} THEN Weight(hits, i) ELSE 0
      BY <1>3
    <3>2. t[i] = IF hits[i].book \in {c} THEN Weight(hits, i) ELSE 0
      BY <1>3
    <3>3. u[i] = Weight(hits, i)
      <4>1. hits[i].book \in {b} \cup {c} \cup BooksOf(hits)
        BY <1>1 DEF BooksOf
      <4> QED
        BY <1>3, <4>1
    <3> HIDE DEF s, t, u
    <3> QED
      BY <1>2, <1>7, <3>1, <3>2, <3>3
  <2>3. /\ Worth(hits, {b}) = Total(s, 1, n) /\ Worth(hits, {c}) = Total(t, 1, n)
        /\ Worth(hits, {b} \cup {c} \cup BooksOf(hits)) = Total(u, 1, n)
    BY <1>4
  <2> HIDE DEF s, t, u
  <2>4. Total(u, 1, n) >= Total(s, 1, n) + Total(t, 1, n)
    BY <2>1, <2>2, TotalAdds
  <2> QED
    BY <2>3, <2>4
<1> QED
  BY <1>5, <1>6, <1>7

\* The books of some hits, and where each is first.
LEMMA BooksIs ==
  ASSUME NEW hits \in Seq(Hit)
  PROVE  /\ IsFiniteSet(BooksOf(hits))
         /\ \A b \in BooksOf(hits) : FirstHit(hits, b) \in DOMAIN hits
                                     /\ hits[FirstHit(hits, b)].book = b
         /\ \A i \in DOMAIN hits : hits[i].book \in BooksOf(hits)
<1> DEFINE n == Len(hits)
           f == [i \in 1..n |-> hits[i].book]
<1>1. n \in Nat /\ DOMAIN hits = 1..n
  OBVIOUS
<1>2. f \in Surjection(1..n, BooksOf(hits)) /\ \A i \in DOMAIN hits : hits[i].book \in BooksOf(hits)
  BY <1>1 DEF BooksOf, Surjection
<1> HIDE DEF f, n
<1>3. IsFiniteSet(1..n)
  BY <1>1, FS_Interval
<1>4. IsFiniteSet(BooksOf(hits))
  BY <1>2, <1>3, FS_Surjection
<1>5. ASSUME NEW b \in BooksOf(hits)
      PROVE  FirstHit(hits, b) \in DOMAIN hits /\ hits[FirstHit(hits, b)].book = b
  <2> DEFINE P == {i \in DOMAIN hits : hits[i].book = b}
  <2>1. P \in SUBSET (1..n) /\ P # {}
    BY <1>1 DEF BooksOf
  <2>2. \A i \in 1..n : i \in Int
    BY <1>1
  <2> HIDE DEF P
  <2>3. P \subseteq Int /\ IsFiniteSet(P)
    BY <1>3, <2>1, <2>2, FS_Subset
  <2>4. Min(P) \in P
    BY <2>1, <2>3, MinIs
  <2> QED
    BY <2>4 DEF FirstHit, P
<1> QED
  BY <1>2, <1>4, <1>5

\* The vote puts every book before or behind every other.
LEMMA OutvotesIs ==
  ASSUME NEW hits \in Seq(Hit)
  PROVE  Orders(BooksOf(hits), Outvotes(hits))
<1> DEFINE B == BooksOf(hits)
           R == Outvotes(hits)
           w(b) == Worth(hits, {b})
           f(b) == FirstHit(hits, b)
<1>1. \A b \in B : w(b) \in Int /\ f(b) \in Int /\ hits[f(b)].book = b
  <2>1. \A i \in DOMAIN hits : i \in Int
    OBVIOUS
  <2> QED
    BY <2>1, WorthIs, BooksIs
<1>2. \A b, c \in B : f(b) = f(c) => b = c
  BY <1>1
<1>3. \A b, c \in B : <<b, c>> \in R <=> w(b) > w(c) \/ (w(b) = w(c) /\ f(b) < f(c))
  BY DEF Outvotes
<1> HIDE DEF B, R, w, f
<1>4. ASSUME NEW b \in B, NEW c \in B, <<b, c>> \in R PROVE <<c, b>> \notin R
  BY <1>1, <1>3, <1>4
<1>5. ASSUME NEW b \in B, NEW c \in B, NEW d \in B, <<b, c>> \in R, <<c, d>> \in R
      PROVE  <<b, d>> \in R
  <2>1. w(b) > w(c) \/ (w(b) = w(c) /\ f(b) < f(c))
    BY <1>3, <1>5
  <2>2. w(c) > w(d) \/ (w(c) = w(d) /\ f(c) < f(d))
    BY <1>3, <1>5
  <2>3. w(b) > w(d) \/ (w(b) = w(d) /\ f(b) < f(d))
    BY <1>1, <2>1, <2>2
  <2> QED
    BY <1>3, <2>3
<1>6. ASSUME NEW b \in B, NEW c \in B, b # c PROVE <<b, c>> \in R \/ <<c, b>> \in R
  <2>1. f(b) # f(c)
    BY <1>2, <1>6
  <2>2. w(b) > w(c) \/ w(c) > w(b) \/ (w(b) = w(c) /\ (f(b) < f(c) \/ f(c) < f(b)))
    BY <1>1, <2>1
  <2> QED
    BY <1>1, <1>3, <2>2
<1>7. Orders(B, R)
  BY <1>4, <1>5, <1>6 DEF Orders
<1> QED
  BY <1>7 DEF B, R

\* A dominant book is the first of the vote; with no more than two books, nothing is
\* outvoted but by a dominant one.
LEMMA VotedIs ==
  ASSUME NEW hits \in Seq(Hit), hits # <<>>
  PROVE  /\ \A b \in BooksOf(hits) :
              Dominant(hits, b) => Voted(hits) = {i \in DOMAIN hits : hits[i].book = b}
         /\ (Cardinality(BooksOf(hits)) <= 2 /\ 1 \notin Voted(hits)) =>
              \E b \in BooksOf(hits) : b # hits[1].book /\ Dominant(hits, b)
<1> DEFINE B == BooksOf(hits)
           R == Outvotes(hits)
           votes == Vote(hits)
           c == Cardinality(B)
           all == Worth(hits, B)
           seats == IF Dominant(hits, votes[1]) THEN 1 ELSE Min({2, Len(votes)})
<1>1. 1 \in DOMAIN hits /\ hits[1].book \in B /\ IsFiniteSet(B)
  <2>1. 1 \in DOMAIN hits
    OBVIOUS
  <2> QED
    BY <2>1, BooksIs
<1>2. Orders(B, R)
  BY OutvotesIs
<1>3. Voted(hits) = {i \in DOMAIN hits : \E k \in 1..seats : hits[i].book = votes[k]}
  BY DEF Voted
<1>4. \A b \in B : Worth(hits, {b}) \in Int /\ Worth(hits, {b}) > 0 /\ all \in Int
  BY WorthIs
<1>5. \A b, d \in B : b # d => all >= Worth(hits, {b}) + Worth(hits, {d})
  <2> TAKE b \in B, d \in B
  <2> HAVE b # d
  <2>1. {b} \cup {d} \cup B = B
    OBVIOUS
  <2>2. Worth(hits, {b} \cup {d} \cup BooksOf(hits)) >= Worth(hits, {b}) + Worth(hits, {d})
    BY WorthIs
  <2> QED
    BY <2>1, <2>2
<1>6. \A b \in B : Dominant(hits, b) <=> 100 * Worth(hits, {b}) >= 62 * all
  BY DEF Dominant, Dominance
<1>7. \A b, d \in B : <<b, d>> \in R =>
         Worth(hits, {b}) > Worth(hits, {d}) \/ Worth(hits, {b}) = Worth(hits, {d})
  BY DEF Outvotes
<1>8. votes = Sorted(B, R)
  BY DEF Vote
<1> HIDE DEF B, R, seats, all, votes
<1>9. c \in Nat /\ c >= 1
  BY <1>1, FS_CardinalityType, FS_EmptySet
<1>10. /\ \A k \in 1..c : votes[k] \in B
       /\ \A b \in B : \E k \in 1..c : votes[k] = b
  BY <1>1, <1>2, <1>8, SortedIs
<1>11. \A k \in 1..c : \A b \in B : votes[k] = b <=> Cardinality({d \in B : <<d, b>> \in R}) = k - 1
  BY <1>1, <1>2, <1>8, SortedIs
<1>12. Len(votes) = c
  <2> DEFINE v(k) == CHOOSE x \in B : Cardinality({y \in B : <<y, x>> \in R}) = k - 1
  <2>1. votes = [k \in 1..c |-> v(k)]
    BY <1>8 DEF Sorted
  <2> HIDE DEF c, v
  <2> QED
    BY <1>9, <2>1
<1> HIDE DEF c
<1>13. 1 \in 1..c
  BY <1>9
<1>14. ASSUME NEW b \in B, Dominant(hits, b)
       PROVE  Voted(hits) = {i \in DOMAIN hits : hits[i].book = b}
  <2>1. ASSUME NEW d \in B PROVE <<d, b>> \notin R
    <3>1. CASE d = b
      BY <1>2, <3>1 DEF Orders
    <3>2. CASE d # b
      <4> DEFINE x == Worth(hits, {b})
                 y == Worth(hits, {d})
      <4>1. x \in Int /\ y \in Int /\ all \in Int /\ y > 0 /\ all >= x + y /\ 100 * x >= 62 * all
        BY <1>4, <1>5, <1>6, <1>14, <3>2
      <4>2. <<d, b>> \in R => y > x \/ y = x
        BY <1>7
      <4> HIDE DEF x, y
      <4>3. x > y
        BY <4>1
      <4>4. ~(y > x) /\ ~(y = x)
        BY <4>1, <4>3
      <4> QED
        BY <4>2, <4>4
    <3> QED
      BY <3>1, <3>2
  <2>2. {d \in B : <<d, b>> \in R} = {}
    BY <2>1
  <2>3. Cardinality({d \in B : <<d, b>> \in R}) = 1 - 1
    <3>1. Cardinality({d \in B : <<d, b>> \in R}) = 0
      BY <2>2, FS_EmptySet
    <3> QED
      BY <3>1
  <2>4. votes[1] = b
    BY <1>11, <1>13, <2>3
  <2>5. seats = 1
    BY <1>14, <2>4 DEF seats
  <2>6. \A k \in 1..1 : k = 1
    OBVIOUS
  <2> QED
    BY <1>3, <2>4, <2>5, <2>6
<1>15. ASSUME c <= 2, 1 \notin Voted(hits)
       PROVE  \E b \in B : b # hits[1].book /\ Dominant(hits, b)
  <2>1. Dominant(hits, votes[1])
    <3> SUFFICES ASSUME ~Dominant(hits, votes[1]) PROVE FALSE
      OBVIOUS
    <3>1. seats = c
      <4>1. seats = Min({2, c})
        BY <1>12 DEF seats
      <4>2. Min({2, c}) \in {2, c} /\ Min({2, c}) <= 2 /\ Min({2, c}) <= c
        <5>1. 2 \in Int /\ c \in Int
          BY <1>9
        <5> QED
          BY <5>1, TwoOf
      <4> QED
        BY <1>9, <1>15, <4>1, <4>2
    <3>2. PICK k \in 1..c : votes[k] = hits[1].book
      BY <1>1, <1>10
    <3> QED
      BY <1>1, <1>3, <1>15, <3>1, <3>2
  <2>2. votes[1] # hits[1].book
    <3>1. seats = 1
      BY <2>1 DEF seats
    <3>2. 1 \in 1..seats
      BY <3>1
    <3> QED
      BY <1>1, <1>3, <1>15, <3>2
  <2> QED
    BY <1>10, <1>13, <2>1, <2>2
<1> QED
  BY <1>14, <1>15 DEF B, c

\* What is picked with the first is picked first.
LEMMA FirstPicked ==
  ASSUME NEW X, NEW s \in Seq(X), NEW P, P \subseteq DOMAIN s, 1 \in P
  PROVE  Pick(s, P)[1] = s[1] /\ Cardinality(P) >= 1
<1>1. IsFiniteSet(P) /\ P \subseteq Int
  BY PickIs
<1>2. {j \in P : j <= 1} = {1}
  <2>1. \A j \in P : j \in Int /\ j >= 1
    OBVIOUS
  <2> QED
    BY <2>1
<1>3. Rank(P, 1) = 1
  BY <1>2, FS_Singleton DEF Rank
<1>4. Rank(P, 1) \in 1..Cardinality(P) /\ Pick(s, P)[Rank(P, 1)] = s[1] /\ Cardinality(P) \in Nat
  BY PickIs
<1> QED
  BY <1>3, <1>4

\* The least of three numbers is no more than any of them.
LEMMA LeastOfThree ==
  ASSUME NEW a \in Int, NEW b \in Int, NEW c \in Int
  PROVE  Min({a, b, c}) \in Int /\ Min({a, b, c}) <= a /\ Min({a, b, c}) <= b /\ Min({a, b, c}) <= c
<1>1. {a, b, c} = ({a} \cup {b}) \cup {c}
  OBVIOUS
<1>2. IsFiniteSet(({a} \cup {b}) \cup {c})
  <2>1. IsFiniteSet({a})
    BY FS_Singleton
  <2>2. IsFiniteSet({a} \cup {b})
    BY <2>1, FS_AddElement
  <2> QED
    BY <2>2, FS_AddElement
<1>3. IsFiniteSet({a, b, c}) /\ {a, b, c} \subseteq Int /\ {a, b, c} # {}
  BY <1>1, <1>2
<1>4. Min({a, b, c}) \in {a, b, c} /\ \A y \in {a, b, c} : Min({a, b, c}) <= y
  BY <1>3, MinIs
<1> QED
  BY <1>4

\* A route is all the hits, or those of the vote if they are enough.
LEMMA RouteIs ==
  ASSUME NEW hits \in Seq(Hit)
  PROVE  \E P \in SUBSET DOMAIN hits :
           /\ Route(hits) = Pick(hits, P)
           /\ P = DOMAIN hits \/ (P = Voted(hits) /\ Cardinality(P) >= 3)
           /\ (Len(hits) > 3 /\ Cardinality(Voted(hits)) >= 3) => P = Voted(hits)
<1>1. Voted(hits) \in SUBSET DOMAIN hits
  BY DEF Voted
<1>2. Len(hits) \in Nat /\ MinChunks = 3
  BY DEF MinChunks
<1>3. Cardinality(Voted(hits)) \in Nat
  BY <1>1, PickIs
<1> DEFINE enough == ~(Len(hits) <= MinChunks \/ Cardinality(Voted(hits)) < MinChunks)
<1>4. enough <=> Len(hits) > 3 /\ Cardinality(Voted(hits)) >= 3
  BY <1>2, <1>3
<1>5. CASE enough
  <2>1. Route(hits) = Pick(hits, Voted(hits))
    BY <1>5 DEF Route
  <2> QED
    BY <1>1, <1>4, <1>5, <2>1
<1>6. CASE ~enough
  <2>1. Route(hits) = hits
    BY <1>6 DEF Route
  <2>2. Route(hits) = Pick(hits, DOMAIN hits)
    BY <2>1, PickAll
  <2> QED
    BY <1>4, <1>6, <2>2
<1> QED
  BY <1>5, <1>6

\* What is shown of what a search found.
LEMMA Narrowing ==
  ASSUME NEW hits \in Seq(Hit), NEW limit \in Nat, limit >= 1
  PROVE  NarrowingKeeps(hits, limit)
<1> DEFINE Kp == Kept(hits)
           once == Dedupe(hits)
           routed == Route(once)
           kept == Narrow(hits, limit)
<1>1. /\ Kp \subseteq DOMAIN hits
      /\ \A i, j \in Kp : i < j => ~Repeats(hits[i], hits[j])
      /\ hits # <<>> => 1 \in Kp
  BY KeptIs
<1>2. once = Pick(hits, Kp)
  BY DEF Dedupe
<1>3. kept = SpreadOut(routed, limit)
  BY DEF Narrow
<1> HIDE DEF Kp, once, kept
<1>4. /\ once \in Seq(Hit) /\ Len(once) = Cardinality(Kp) /\ Cardinality(Kp) \in Nat
      /\ DOMAIN once = 1..Cardinality(Kp)
      /\ \A k \in DOMAIN once : Nth(Kp, k) \in Kp /\ once[k] = hits[Nth(Kp, k)]
  BY <1>1, <1>2, PickIs
<1>5. PICK P \in SUBSET DOMAIN once :
        /\ routed = Pick(once, P)
        /\ P = DOMAIN once \/ (P = Voted(once) /\ Cardinality(P) >= 3)
        /\ (Len(once) > 3 /\ Cardinality(Voted(once)) >= 3) => P = Voted(once)
  BY <1>4, RouteIs
<1> HIDE DEF routed
<1>6. /\ routed \in Seq(Hit) /\ Len(routed) = Cardinality(P) /\ Cardinality(P) \in Nat
      /\ DOMAIN routed = 1..Cardinality(P)
      /\ \A k \in DOMAIN routed : Nth(P, k) \in P /\ routed[k] = once[Nth(P, k)]
  BY <1>4, <1>5, PickIs
<1>7. PICK Q \in SUBSET DOMAIN routed :
        /\ kept = Pick(routed, Q)
        /\ Cardinality(Q) = IF Len(routed) <= limit THEN Len(routed) ELSE limit
        /\ routed # <<>> => 1 \in Q
  <2>1. \E Q \in SUBSET DOMAIN routed :
          /\ SpreadOut(routed, limit) = Pick(routed, Q)
          /\ Cardinality(Q) = IF Len(routed) <= limit THEN Len(routed) ELSE limit
          /\ routed # <<>> => 1 \in Q
    <3>1. routed \in Seq(Hit)
      BY <1>6
    <3> QED
      BY <3>1, SpreadIs
  <2> QED
    BY <1>3, <2>1
<1>8. /\ kept \in Seq(Hit) /\ Len(kept) = Cardinality(Q) /\ DOMAIN kept = 1..Cardinality(Q)
      /\ \A k \in DOMAIN kept : Nth(Q, k) \in Q /\ kept[k] = routed[Nth(Q, k)]
  <2>1. routed \in Seq(Hit) /\ Q \in SUBSET DOMAIN routed
    BY <1>6
  <2>2. /\ Pick(routed, Q) \in Seq(Hit) /\ Len(Pick(routed, Q)) = Cardinality(Q)
        /\ DOMAIN Pick(routed, Q) = 1..Cardinality(Q)
    BY <2>1, PickIs
  <2>3. \A k \in DOMAIN Pick(routed, Q) :
          Nth(Q, k) \in Q /\ Pick(routed, Q)[k] = routed[Nth(Q, k)]
    BY <2>1, PickIs
  <2> QED
    BY <1>7, <2>2, <2>3
<1>9. PICK R \in SUBSET Kp : kept = Pick(hits, R)
  <2>1. P \subseteq DOMAIN Pick(hits, Kp)
    BY <1>2, <1>5
  <2>2. PICK Z \in SUBSET Kp : Pick(Pick(hits, Kp), P) = Pick(hits, Z)
    BY <1>1, <2>1, PickPick
  <2>3. routed = Pick(hits, Z)
    BY <1>2, <1>5, <2>2
  <2>4. Z \subseteq DOMAIN hits /\ Q \subseteq DOMAIN Pick(hits, Z)
    BY <1>1, <1>7, <2>3
  <2>5. PICK Y \in SUBSET Z : Pick(Pick(hits, Z), Q) = Pick(hits, Y)
    BY <2>4, PickPick
  <2> QED
    BY <1>7, <2>3, <2>5
<1>10. Subsequence(kept, hits)
  BY <1>1, <1>9 DEF Subsequence
<1>11. \A i, j \in DOMAIN kept : i < j => ~Repeats(kept[i], kept[j])
  <2> TAKE i \in DOMAIN kept, j \in DOMAIN kept
  <2> HAVE i < j
  <2>1. R \subseteq DOMAIN hits
    BY <1>1
  <2>2. /\ DOMAIN kept = 1..Cardinality(R) /\ IsFiniteSet(R) /\ R \subseteq Int
        /\ \A k \in 1..Cardinality(R) : Nth(R, k) \in R /\ kept[k] = hits[Nth(R, k)]
    BY <1>9, <2>1, PickIs
  <2>3. Nth(R, i) < Nth(R, j)
    BY <2>2, NthIs
  <2> QED
    BY <1>1, <2>2, <2>3
<1>12. Len(once) \in Nat /\ (once # <<>> <=> hits # <<>>)
  <2>1. hits # <<>> => Cardinality(Kp) >= 1
    BY <1>1, FirstPicked
  <2>2. hits = <<>> => Kp = {}
    BY <1>1
  <2>3. Kp = {} => Cardinality(Kp) = 0
    BY FS_EmptySet
  <2>4. once # <<>> <=> Len(once) > 0
    BY <1>4
  <2> HIDE DEF Kp
  <2> QED
    BY <1>4, <2>1, <2>2, <2>3, <2>4
<1>13. Cardinality(P) = Len(once) \/ Cardinality(P) >= 3
  <2>1. CASE P = DOMAIN once
    <3>1. Cardinality(1..Cardinality(Kp)) = Cardinality(Kp)
      <4> DEFINE n == Cardinality(Kp)
      <4>1. n \in Nat
        BY <1>4
      <4> HIDE DEF n
      <4>2. Cardinality(1..n) = n
        BY <4>1, FS_Interval
      <4> QED
        BY <4>2 DEF n
    <3> QED
      BY <1>4, <2>1, <3>1
  <2> QED
    BY <1>5, <2>1
<1>14. Len(kept) >= Min({MinChunks, limit, Len(once)})
  <2> DEFINE least == Min({MinChunks, limit, Len(once)})
  <2>1. least \in Int /\ least <= 3 /\ least <= limit /\ least <= Len(once)
    <3>1. MinChunks \in Int /\ limit \in Int /\ Len(once) \in Int /\ MinChunks = 3
      BY <1>12 DEF MinChunks
    <3> HIDE DEF least
    <3> QED
      BY <3>1, LeastOfThree DEF least
  <2> HIDE DEF least
  <2>2. Len(kept) >= least
    BY <1>6, <1>7, <1>8, <1>12, <1>13, <2>1
  <2> QED
    BY <2>2 DEF least
<1>15. hits # <<>> => once[1] = hits[1]
  BY <1>1, <1>2, FirstPicked
<1>16. ASSUME 1 \in P PROVE kept[1] = once[1]
  <2>1. routed[1] = once[1] /\ Cardinality(P) >= 1
    BY <1>4, <1>5, <1>16, FirstPicked
  <2>2. routed # <<>>
    BY <1>6, <2>1
  <2>3. kept[1] = routed[1]
    BY <1>6, <1>7, <2>2, FirstPicked
  <2> QED
    BY <2>1, <2>3
<1>17. ASSUME hits # <<>>, Cardinality(BooksOf(hits)) <= 2
       PROVE  \/ kept[1] = hits[1]
              \/ \E b \in BooksOf(once) : b # hits[1].book /\ Dominant(once, b)
  <2>1. CASE 1 \in P
    BY <1>15, <1>16, <1>17, <2>1
  <2>2. CASE 1 \notin P
    <3>1. once # <<>> /\ 1 \in DOMAIN once
      <4>1. once # <<>>
        BY <1>12, <1>17
      <4> QED
        BY <1>4, <4>1
    <3>2. P = Voted(once)
      BY <1>5, <2>2, <3>1
    <3>3. Cardinality(BooksOf(once)) <= 2
      <4>1. BooksOf(once) \in SUBSET BooksOf(hits)
        BY <1>1, <1>4 DEF BooksOf
      <4>2. IsFiniteSet(BooksOf(hits))
        BY BooksIs
      <4>3. Cardinality(BooksOf(once)) <= Cardinality(BooksOf(hits))
            /\ Cardinality(BooksOf(once)) \in Nat /\ Cardinality(BooksOf(hits)) \in Nat
        BY <4>1, <4>2, FS_Subset, FS_CardinalityType
      <4> QED
        BY <1>17, <4>3
    <3>4. \E b \in BooksOf(once) : b # once[1].book /\ Dominant(once, b)
      BY <1>4, <2>2, <3>1, <3>2, <3>3, VotedIs
    <3> QED
      BY <1>15, <1>17, <3>4
  <2> QED
    BY <2>1, <2>2
<1>18. ASSUME NEW b \in BooksOf(once), Len(once) > MinChunks, Dominant(once, b),
              Cardinality({i \in DOMAIN once : once[i].book = b}) >= MinChunks
       PROVE  BooksOf(kept) = {b}
  <2>1. once # <<>> /\ MinChunks = 3
    BY <1>18 DEF MinChunks, BooksOf
  <2>2. Voted(once) = {i \in DOMAIN once : once[i].book = b}
    BY <1>4, <1>18, <2>1, VotedIs
  <2>3. P = Voted(once) /\ Cardinality(P) >= 3
    BY <1>5, <1>18, <2>1, <2>2
  <2>4. \A k \in DOMAIN kept : kept[k].book = b
    <3> TAKE k \in DOMAIN kept
    <3>1. Nth(Q, k) \in DOMAIN routed /\ kept[k] = routed[Nth(Q, k)]
      BY <1>7, <1>8
    <3>2. Nth(P, Nth(Q, k)) \in P /\ routed[Nth(Q, k)] = once[Nth(P, Nth(Q, k))]
      BY <1>6, <3>1
    <3> QED
      BY <2>2, <2>3, <3>1, <3>2
  <2>5. 1 \in DOMAIN kept
    BY <1>6, <1>7, <1>8, <2>3
  <2> QED
    BY <2>4, <2>5 DEF BooksOf
<1> QED
  BY <1>10, <1>11, <1>14, <1>17, <1>18 DEF NarrowingKeeps, once, kept

-----------------------------------------------------------------------------
(***************************************************************************)
(* What a run shows the model: samples, batches, calls.                    *)
(***************************************************************************)
\* No passage comes twice in a pool.
LEMMA PoolDiffers ==
  ASSUME NEW pool \in Pools
  PROVE  /\ pool \in Seq(Passage) /\ DOMAIN pool = 1..Len(pool) /\ Len(pool) \in Nat
         /\ IsFiniteSet(DOMAIN pool) /\ DOMAIN pool \subseteq Int
         /\ \A i, j \in DOMAIN pool : pool[i] = pool[j] => i = j
<1>1. /\ pool \in Seq(Passage) /\ DOMAIN pool = 1..Len(pool) /\ Len(pool) \in Nat
      /\ \A i, j \in DOMAIN pool :
           (i < j /\ pool[i].book = pool[j].book) => pool[i].index < pool[j].index
  BY DEF Pools
<1>2. \A i \in DOMAIN pool : pool[i].index \in Nat
  <2>1. \A i \in DOMAIN pool : pool[i] \in Passage
    BY <1>1
  <2> QED
    BY <2>1 DEF Passage
<1>3. IsFiniteSet(DOMAIN pool)
  <2> DEFINE n == Len(pool)
  <2>1. n \in Int /\ 1 \in Int /\ DOMAIN pool = 1..n
    BY <1>1
  <2> HIDE DEF n
  <2> QED
    BY <2>1, FS_Interval
<1>4. DOMAIN pool \subseteq Int
  BY <1>1
<1>5. ASSUME NEW i \in DOMAIN pool, NEW j \in DOMAIN pool, pool[i] = pool[j], i # j
      PROVE  FALSE
  <2>1. (i < j \/ j < i) /\ pool[i].index \in Nat /\ pool[j].index \in Nat
    BY <1>2, <1>4, <1>5
  <2>2. pool[i].index = pool[j].index /\ pool[i].book = pool[j].book
    BY <1>5
  <2>3. pool[i].index < pool[j].index \/ pool[j].index < pool[i].index
    BY <1>1, <2>1, <2>2
  <2> QED
    BY <2>1, <2>2, <2>3
<1> QED
  BY <1>1, <1>3, <1>4, <1>5

\* A rounded fraction is a number.
LEMMA RoundIs ==
  ASSUME NEW a \in Nat, NEW b \in Nat, b > 0
  PROVE  Round(a, b) \in Int
<1>1. a \div b \in Int
  OBVIOUS
<1> DEFINE q == a \div b
<1>2. Round(a, b) \in {q, q + 1}
  BY DEF Round
<1> HIDE DEF q
<1>3. q \in Int
  BY <1>1 DEF q
<1> QED
  BY <1>2, <1>3

\* A chapter has some passage of the sample to give, and no more than it has.
LEMMA TakeIs ==
  ASSUME NEW pool \in Pools, NEW chapter \in Chapters(pool), NEW wanted \in Nat
  PROVE  /\ chapter \subseteq DOMAIN pool /\ chapter \subseteq Int /\ IsFiniteSet(chapter)
         /\ Cardinality(chapter) \in Nat /\ chapter # {}
         /\ Take(pool, chapter, wanted) \in 1..Cardinality(chapter)
<1> DEFINE all == TokensIn(pool, DOMAIN pool)
           own == TokensIn(pool, chapter)
           size == Cardinality(chapter)
<1>1. PICK i \in DOMAIN pool : chapter = ChapterOf(pool, i)
  BY DEF Chapters
<1>2. chapter \subseteq DOMAIN pool /\ i \in chapter
  BY <1>1 DEF ChapterOf
<1>3. /\ pool \in Seq(Passage) /\ DOMAIN pool = 1..Len(pool) /\ Len(pool) \in Nat
      /\ IsFiniteSet(DOMAIN pool) /\ DOMAIN pool \subseteq Int
  BY PoolDiffers
<1>4. IsFiniteSet(chapter) /\ chapter \subseteq Int /\ size \in Nat /\ size # 0
  <2>1. chapter \in SUBSET DOMAIN pool
    BY <1>2
  <2>2. IsFiniteSet(chapter)
    BY <1>3, <2>1, FS_Subset
  <2> QED
    BY <1>2, <1>3, <2>2, FS_CardinalityType, FS_EmptySet
<1>5. \A P \in SUBSET DOMAIN pool : TokensIn(pool, P) \in Nat /\ (P = DOMAIN pool => TokensIn(pool, P) > 0)
  <2> TAKE P \in SUBSET DOMAIN pool
  <2> DEFINE s == [k \in DOMAIN pool |-> IF k \in P THEN pool[k].tokens ELSE 0]
             n == Len(pool)
  <2>1. \A k \in 1..n : pool[k].tokens \in Nat /\ pool[k].tokens > 0
    <3>1. \A k \in 1..n : pool[k] \in Passage
      BY <1>3
    <3> QED
      BY <3>1 DEF Passage
  <2>2. s \in Seq(Int) /\ Len(s) = n /\ \A k \in 1..n : s[k] \in Nat
    BY <1>3, <2>1
  <2>3. P = DOMAIN pool => \A k \in 1..n : s[k] > 0
    BY <1>3, <2>1
  <2>4. TokensIn(pool, P) = Total(s, 1, n)
    BY DEF TokensIn
  <2>5. n \in Nat /\ n >= 1 /\ 1 \in 0..n /\ n \in 0..n
    BY <1>3, <1>2
  <2> HIDE DEF s, n
  <2>6. \A k \in 1..Len(s) : s[k] >= 0
    BY <2>2
  <2>7. Total(s, 1, n) \in Int /\ Total(s, 1, 0) = 0 /\ Total(s, 1, 1) = Total(s, 1, 0) + s[1]
    <3>1. /\ \A k \in 0..Len(s) : Total(s, 1, k) \in Int
          /\ Total(s, 1, 0) = 0
          /\ \A k \in 1..Len(s) : Total(s, 1, k) = Total(s, 1, k - 1) + s[k]
      BY <2>2, SumsIs
    <3>2. 1 \in 1..Len(s) /\ n \in 0..Len(s)
      BY <2>2, <2>5
    <3>3. Total(s, 1, 1) = Total(s, 1, 1 - 1) + s[1] /\ 1 - 1 = 0
      BY <3>1, <3>2
    <3> QED
      BY <3>1, <3>2, <3>3
  <2>8. Total(s, 1, 1) <= Total(s, 1, n) /\ Total(s, 1, 1) >= 0
    <3>1. 1 \in 0..Len(s) /\ n \in 0..Len(s) /\ 1 <= n /\ 1 >= 1 /\ 1 \in Nat
      BY <2>2, <2>5
    <3> QED
      BY <2>2, <2>6, <3>1, TotalGrows
  <2>9. s[1] \in Nat
    BY <2>2, <2>5
  <2>10. Total(s, 1, n) \in Nat
    BY <2>7, <2>8, <2>9
  <2>11. P = DOMAIN pool => Total(s, 1, n) > 0
    <3>1. 1 \in 1..n
      BY <2>5
    <3> QED
      BY <2>3, <2>7, <2>8, <2>9, <3>1
  <2> QED
    BY <2>4, <2>10, <2>11
<1>6. own \in Nat /\ all \in Nat /\ all > 0
  BY <1>2, <1>5
<1>7. Take(pool, chapter, wanted) = Min({Max({1, Round(wanted * own, all)}), size})
  BY DEF Take
<1> HIDE DEF own, all
<1>8. Round(wanted * own, all) \in Int
  <2> DEFINE a == wanted * own
  <2>1. a \in Nat
    BY <1>6
  <2> HIDE DEF a
  <2>2. Round(a, all) \in Int
    BY <1>6, <2>1, RoundIs
  <2> QED
    BY <2>2 DEF a
<1> DEFINE share == Round(wanted * own, all)
           most == Max({1, share})
<1>9. most \in Int /\ most >= 1
  <2> HIDE DEF share
  <2>1. share \in Int /\ 1 \in Int
    BY <1>8 DEF share
  <2>2. Max({1, share}) \in {1, share} /\ Max({1, share}) >= 1
    BY <2>1, TwoOf
  <2> QED
    BY <2>1, <2>2
<1>10. Take(pool, chapter, wanted) = Min({most, size})
  BY <1>7
<1> HIDE DEF most, size
<1>11. size \in Int /\ size >= 1
  BY <1>4 DEF size
<1>12. Min({most, size}) \in {most, size} /\ Min({most, size}) <= size
  BY <1>9, <1>11, TwoOf
<1>13. Take(pool, chapter, wanted) \in 1..size
  BY <1>9, <1>10, <1>11, <1>12
<1> QED
  BY <1>2, <1>4, <1>13 DEF size

\* Positions spaced over size of them are at least the whole spacing apart.
LEMMA Spacing ==
  ASSUME NEW size \in Nat, NEW take \in Nat, 1 <= take, take <= size,
         NEW i \in 0..take - 1
  PROVE  /\ (i * size) \div take + 1 \in 1..size
         /\ \A j \in 0..take - 1 :
              i < j => (j * size) \div take - (i * size) \div take >= size \div take
<1> DEFINE at(k) == (k * size) \div take
           q == size \div take
<1>1. \A x \in Nat : /\ x \div take \in Nat /\ x % take \in 0..take - 1
                     /\ x = take * (x \div take) + (x % take)
  OBVIOUS
<1>2. \A k \in 0..take - 1 :
        /\ k * size \in Nat /\ at(k) \in Nat /\ (k * size) % take \in 0..take - 1
        /\ k * size = take * at(k) + ((k * size) % take)
  <2> TAKE k \in 0..take - 1
  <2>1. k \in Nat
    OBVIOUS
  <2> DEFINE x == k * size
  <2>2. x \in Nat
    BY <2>1
  <2> HIDE DEF x
  <2>3. /\ x \div take \in Nat /\ x % take \in 0..take - 1
        /\ x = take * (x \div take) + (x % take)
    BY <1>1, <2>2
  <2> QED
    BY <2>2, <2>3 DEF x
<1>3. at(i) + 1 \in 1..size
  <2> SUFFICES ASSUME at(i) >= size PROVE FALSE
    BY <1>2
  <2>1. take * at(i) >= take * size
    <3>1. at(i) \in Nat /\ size \in Nat
      BY <1>2
    <3> HIDE DEF at
    <3>2. at(i) * take >= size * take
      BY <3>1, Scaling
    <3> QED
      BY <3>1, <3>2
  <2>2. i * size <= (take - 1) * size
    <3>1. i \in Int /\ take - 1 \in Int /\ take - 1 >= i /\ size > 0 /\ size \in Int
      OBVIOUS
    <3> QED
      BY <3>1, Scaling
  <2> DEFINE a == i * size
             b == take * at(i)
             c == take * size
             d == (take - 1) * size
             r == (i * size) % take
  <2>3. a = b + r /\ r >= 0 /\ r \in Int /\ b >= c /\ a <= d /\ d = c - size
        /\ a \in Int /\ b \in Int /\ c \in Int /\ d \in Int /\ size > 0
    <3>1. a = b + r /\ r >= 0 /\ r \in Int /\ a \in Int
      BY <1>2
    <3>2. b \in Int
      <4>1. at(i) \in Nat
        BY <1>2
      <4> HIDE DEF at
      <4> QED
        BY <4>1
    <3> QED
      BY <2>1, <2>2, <3>1, <3>2
  <2> HIDE DEF a, b, c, d, r
  <2> QED
    BY <2>3
<1>4. ASSUME NEW j \in 0..take - 1, i < j PROVE at(j) - at(i) >= q
  <2>1. q \in Nat /\ at(i) \in Nat /\ at(j) \in Nat
    BY <1>1, <1>2
  <2> SUFFICES ASSUME at(j) < at(i) + q PROVE FALSE
    BY <2>1
  <2> DEFINE ri == (i * size) % take
             rj == (j * size) % take
             r == size % take
             bi == take * at(i)
             bj == take * at(j)
             bq == take * q
             ai == i * size
             aj == j * size
  <2>2. ai = bi + ri /\ aj = bj + rj /\ ri >= 0 /\ rj < take /\ ri \in Int /\ rj \in Int
        /\ ai \in Int /\ aj \in Int
    <3>1. ai = bi + ri /\ ri >= 0 /\ ri \in Int /\ ai \in Int
      BY <1>2
    <3>2. aj = bj + rj /\ rj < take /\ rj \in Int /\ aj \in Int
      BY <1>2
    <3> QED
      BY <3>1, <3>2
  <2>3. size = bq + r /\ r >= 0 /\ r \in Int
    BY <1>1
  <2>4. aj >= ai + size
    <3>1. j \in Int /\ i + 1 \in Int /\ j >= i + 1 /\ size > 0 /\ size \in Int
      BY <1>4
    <3>2. j * size >= (i + 1) * size
      BY <3>1, Scaling
    <3>3. (i + 1) * size = i * size + size
      OBVIOUS
    <3> QED
      BY <3>2, <3>3
  <2>5. bj <= bi + bq - take
    <3>1. at(i) + q - 1 \in Int /\ at(j) \in Int /\ at(i) + q - 1 >= at(j) /\ take > 0
          /\ at(i) \in Int /\ q \in Int
      BY <2>1
    <3> HIDE DEF at, q
    <3>2. (at(i) + q - 1) * take >= at(j) * take
      BY <3>1, Scaling
    <3>3. (at(i) + q - 1) * take = take * at(i) + take * q - take
      BY <3>1
    <3>4. at(j) * take = take * at(j)
      BY <3>1
    <3> QED
      BY <3>2, <3>3, <3>4
  <2>6. bi \in Int /\ bj \in Int /\ bq \in Int
    <3> HIDE DEF at, q
    <3> QED
      BY <2>1
  <2> HIDE DEF ri, rj, r, bi, bj, bq, ai, aj
  <2> QED
    BY <2>2, <2>3, <2>4, <2>5, <2>6
<1> QED
  BY <1>3, <1>4

\* The ranks of what is spread over a chapter.
LEMMA SpreadRanks ==
  ASSUME NEW P, P \subseteq Int, IsFiniteSet(P), NEW take \in 1..Cardinality(P)
  PROVE  /\ Spread(P, take) \subseteq P /\ Spread(P, take) # {}
         /\ \A i, j \in 1..Cardinality(P) :
              (i < j /\ Nth(P, i) \in Spread(P, take) /\ Nth(P, j) \in Spread(P, take))
                => j - i >= Cardinality(P) \div take
<1> DEFINE size == Cardinality(P)
           at(k) == (k * size) \div take + 1
<1>1. size \in Nat /\ take \in Nat /\ 1 <= take /\ take <= size
  BY FS_CardinalityType
<1>2. \A k \in 0..take - 1 :
        /\ at(k) \in 1..size
        /\ \A l \in 0..take - 1 : k < l => at(l) - at(k) >= size \div take
  <2> HIDE DEF size
  <2> TAKE k \in 0..take - 1
  <2>1. /\ (k * size) \div take + 1 \in 1..size
        /\ \A l \in 0..take - 1 :
             k < l => (l * size) \div take - (k * size) \div take >= size \div take
    BY <1>1, Spacing
  <2>2. ASSUME NEW l \in 0..take - 1, k < l PROVE at(l) - at(k) >= size \div take
    <3> DEFINE a == (l * size) \div take
               b == (k * size) \div take
    <3>1. a \in Int /\ b \in Int /\ a - b >= size \div take
      <4>1. l * size \in Nat /\ k * size \in Nat
        BY <1>1
      <4>2. \A x \in Nat : x \div take \in Int
        BY <1>1
      <4>3. a \in Int /\ b \in Int
        BY <4>1, <4>2
      <4> QED
        BY <2>1, <2>2, <4>3
    <3>2. at(l) = a + 1 /\ at(k) = b + 1
      OBVIOUS
    <3> HIDE DEF a, b
    <3>3. at(l) - at(k) = a - b
      BY <3>1, <3>2
    <3> QED
      BY <3>1, <3>3
  <2> QED
    BY <2>1, <2>2
<1>3. \A k \in 0..take - 1 : Min({size, at(k)}) = at(k)
  <2> TAKE k \in 0..take - 1
  <2>1. at(k) \in Int /\ at(k) <= size /\ size \in Int
    BY <1>1, <1>2
  <2> HIDE DEF at, size
  <2>2. Min({size, at(k)}) \in {size, at(k)} /\ Min({size, at(k)}) <= at(k)
    BY <2>1, TwoOf
  <2> QED
    BY <2>1, <2>2
<1>4. \A x : x \in Spread(P, take) <=> \E k \in 0..take - 1 : x = Nth(P, at(k))
  <2>1. Spread(P, take) = {Nth(P, Min({size, at(k)})) : k \in 0..take - 1}
    BY DEF Spread
  <2> HIDE DEF at, size
  <2> QED
    BY <1>3, <2>1
<1> HIDE DEF at
<1>5. /\ \A k \in 1..size : Nth(P, k) \in P /\ Rank(P, Nth(P, k)) = k
  BY NthIs
<1> HIDE DEF size
<1>6. Spread(P, take) \subseteq P
  BY <1>2, <1>4, <1>5
<1>7. Spread(P, take) # {}
  <2>1. 0 \in 0..take - 1
    BY <1>1
  <2> QED
    BY <1>4, <2>1
<1>8. ASSUME NEW i \in 1..size, NEW j \in 1..size, i < j,
             Nth(P, i) \in Spread(P, take), Nth(P, j) \in Spread(P, take)
      PROVE  j - i >= size \div take
  <2>1. PICK k \in 0..take - 1 : Nth(P, i) = Nth(P, at(k))
    BY <1>4, <1>8
  <2>2. PICK l \in 0..take - 1 : Nth(P, j) = Nth(P, at(l))
    BY <1>4, <1>8
  <2>3. i = at(k) /\ j = at(l)
    BY <1>2, <1>5, <2>1, <2>2
  <2>4. k < l
    <3> SUFFICES ASSUME l <= k PROVE FALSE
      OBVIOUS
    <3>1. l # k
      BY <1>8, <2>3
    <3>2. l < k
      BY <3>1
    <3>3. at(k) - at(l) >= size \div take
      BY <1>2, <3>2
    <3>4. size \div take >= 0 /\ size \div take \in Int
      BY <1>1
    <3> QED
      BY <1>8, <2>3, <3>3, <3>4
  <2> QED
    BY <1>2, <2>3, <2>4
<1> QED
  BY <1>6, <1>7, <1>8 DEF size

\* Chapter by chapter and place by place is an order.
LEMMA BeforeOrders ==
  ASSUME NEW pool \in Pools, NEW P \in SUBSET DOMAIN pool
  PROVE  Orders(P, Before(pool, P))
<1> DEFINE start(i) == Min(ChapterOf(pool, i))
<1>1. IsFiniteSet(DOMAIN pool) /\ DOMAIN pool \subseteq Int
  BY PoolDiffers
<1>2. \A i \in P : i \in Int /\ start(i) \in Int
  <2> TAKE i \in P
  <2>1. ChapterOf(pool, i) \in SUBSET DOMAIN pool /\ i \in ChapterOf(pool, i)
    BY DEF ChapterOf
  <2>2. IsFiniteSet(ChapterOf(pool, i)) /\ ChapterOf(pool, i) \subseteq Int
        /\ ChapterOf(pool, i) # {}
    BY <1>1, <2>1, FS_Subset
  <2> QED
    BY <1>1, <2>2, MinIs
<1>3. \A x, y \in P : <<x, y>> \in Before(pool, P) <=>
                         (start(x) < start(y) \/ (start(x) = start(y) /\ x < y))
  BY DEF Before
<1> HIDE DEF start
<1> QED
  BY <1>2, <1>3 DEF Orders

\* The sample is the picked passages in that order, cut to what was asked for.
LEMMA SampleIs ==
  ASSUME NEW pool \in Pools, NEW wanted \in Nat
  PROVE  LET sample == SelectByCoverage(pool, wanted)
             picked == Picked(pool, wanted)
         IN /\ picked \subseteq DOMAIN pool
            /\ sample \in Seq(Passage) /\ Len(sample) <= wanted
            /\ \A k \in DOMAIN sample : \E i \in picked : sample[k] = pool[i]
            /\ \A k, l \in DOMAIN sample : sample[k] = sample[l] => k = l
            /\ Len(sample) # wanted =>
                 \A i \in picked : \E k \in DOMAIN sample : sample[k] = pool[i]
<1> DEFINE sample == SelectByCoverage(pool, wanted)
           picked == Picked(pool, wanted)
           order == Sorted(picked, Before(pool, picked))
           n == Cardinality(picked)
           m == Min({wanted, n})
<1>1. pool \in Seq(Passage) /\ IsFiniteSet(DOMAIN pool)
      /\ (\A i \in DOMAIN pool : pool[i] \in Passage)
      /\ \A i, j \in DOMAIN pool : pool[i] = pool[j] => i = j
  <2>1. pool \in Seq(Passage) /\ IsFiniteSet(DOMAIN pool) /\ DOMAIN pool = 1..Len(pool)
        /\ \A i, j \in DOMAIN pool : pool[i] = pool[j] => i = j
    BY PoolDiffers
  <2> QED
    BY <2>1
<1>2. \A chapter \in Chapters(pool) :
        Spread(chapter, Take(pool, chapter, wanted)) \subseteq DOMAIN pool
  <2> TAKE chapter \in Chapters(pool)
  <2>1. /\ chapter \subseteq DOMAIN pool /\ chapter \subseteq Int /\ IsFiniteSet(chapter)
        /\ Take(pool, chapter, wanted) \in 1..Cardinality(chapter)
    BY TakeIs
  <2>2. Spread(chapter, Take(pool, chapter, wanted)) \subseteq chapter
    BY <2>1, SpreadRanks
  <2> QED
    BY <2>1, <2>2
<1>3. picked \in SUBSET DOMAIN pool
  BY <1>2 DEF Picked
<1>4. IsFiniteSet(picked)
  BY <1>1, <1>3, FS_Subset
<1>5. sample = [k \in 1..m |-> pool[order[k]]]
  BY DEF SelectByCoverage
<1>6. Orders(picked, Before(pool, picked))
  <2> HIDE DEF picked
  <2> QED
    BY <1>3, BeforeOrders
<1>7. /\ n \in Nat
      /\ \A k \in 1..n : order[k] \in picked
      /\ \A x \in picked : \E k \in 1..n : order[k] = x
      /\ \A k, l \in 1..n : k < l <=> <<order[k], order[l]>> \in Before(pool, picked)
  <2> HIDE DEF picked
  <2> QED
    BY <1>4, <1>6, SortedIs
<1>8. \A k, l \in 1..n : order[k] = order[l] => k = l
  <2> SUFFICES ASSUME NEW k \in 1..n, NEW l \in 1..n, order[k] = order[l], k < l PROVE FALSE
    <3>1. \A k, l \in 1..n : k = l \/ k < l \/ l < k
      BY <1>7
    <3> QED
      BY <3>1
  <2>1. <<order[k], order[k]>> \in Before(pool, picked) /\ order[k] \in picked
    BY <1>7
  <2> HIDE DEF picked, order
  <2> QED
    BY <1>6, <2>1 DEF Orders
<1> HIDE DEF picked, order, n
<1>9. m \in Nat /\ m <= wanted /\ m <= n /\ (m = wanted \/ m = n)
  <2>1. wanted \in Int /\ n \in Int
    BY <1>7
  <2>2. m \in {wanted, n} /\ m <= wanted /\ m <= n
    BY <2>1, TwoOf
  <2> HIDE DEF m
  <2> QED
    BY <1>7, <2>2
<1> HIDE DEF m
<1>10. \A k \in 1..m : k \in 1..n /\ order[k] \in picked /\ pool[order[k]] \in Passage
  BY <1>1, <1>3, <1>7, <1>9
<1>11. sample \in Seq(Passage) /\ Len(sample) = m /\ DOMAIN sample = 1..m
       /\ \A k \in 1..m : sample[k] = pool[order[k]]
  BY <1>5, <1>9, <1>10
<1> HIDE DEF sample
<1>12. \A k, l \in 1..m : sample[k] = sample[l] => k = l
  <2> SUFFICES ASSUME NEW k \in 1..m, NEW l \in 1..m, sample[k] = sample[l] PROVE k = l
    OBVIOUS
  <2>1. pool[order[k]] = pool[order[l]] /\ order[k] \in DOMAIN pool /\ order[l] \in DOMAIN pool
    BY <1>3, <1>10, <1>11
  <2>2. order[k] = order[l]
    BY <1>1, <2>1
  <2> QED
    BY <1>8, <1>10, <2>2
<1>13. ASSUME m # wanted, NEW i \in picked PROVE \E k \in 1..m : sample[k] = pool[i]
  <2>1. m = n
    BY <1>9, <1>13
  <2>2. PICK k \in 1..n : order[k] = i
    BY <1>7
  <2> QED
    BY <1>11, <2>1, <2>2
<1> QED
  <2>1. \A k \in DOMAIN sample : \E i \in picked : sample[k] = pool[i]
    BY <1>10, <1>11
  <2> QED
    BY <1>3, <1>9, <1>11, <1>12, <1>13, <2>1 DEF sample, picked

\* A sample is a fair cross-section of the chapters.
LEMMA Sample ==
  ASSUME NEW pool \in Pools, NEW wanted \in Nat
  PROVE  CoverageSpreads(pool, wanted)
<1> DEFINE sample == SelectByCoverage(pool, wanted)
           picked == Picked(pool, wanted)
           shown(chapter) ==
             {k \in 1..Cardinality(chapter) : pool[Nth(chapter, k)] \in ToSet(sample)}
<1>1. \A i, j \in DOMAIN pool : pool[i] = pool[j] => i = j
  BY PoolDiffers
<1>2. /\ picked \subseteq DOMAIN pool
      /\ sample \in Seq(Passage) /\ Len(sample) <= wanted
      /\ \A k \in DOMAIN sample : \E i \in picked : sample[k] = pool[i]
      /\ \A k, l \in DOMAIN sample : sample[k] = sample[l] => k = l
      /\ Len(sample) # wanted =>
           \A i \in picked : \E k \in DOMAIN sample : sample[k] = pool[i]
  BY SampleIs
<1>3. IsInjective(sample)
  BY <1>2 DEF IsInjective
<1>4. \A x : x \in ToSet(sample) <=> \E k \in DOMAIN sample : sample[k] = x
  BY DEF ToSet
<1>5. ToSet(sample) \subseteq ToSet(pool)
  <2>1. \A i \in DOMAIN pool : pool[i] \in ToSet(pool)
    BY DEF ToSet
  <2> HIDE DEF sample, picked
  <2> QED
    BY <1>2, <1>4, <2>1
<1>6. \A i \in picked : \E chapter \in Chapters(pool) :
        i \in Spread(chapter, Take(pool, chapter, wanted))
  BY DEF Picked
<1>7. \A chapter \in Chapters(pool) :
        Spread(chapter, Take(pool, chapter, wanted)) \subseteq picked
  BY DEF Picked
<1> HIDE DEF picked, sample
<1>8. ASSUME NEW chapter \in Chapters(pool)
      PROVE  /\ shown(chapter) = {} => Len(sample) = wanted
             /\ \A i, j \in shown(chapter) :
                  i < j => j - i >= Cardinality(chapter) \div Take(pool, chapter, wanted)
  <2> DEFINE take == Take(pool, chapter, wanted)
             size == Cardinality(chapter)
  <2>1. /\ chapter \subseteq DOMAIN pool /\ chapter \subseteq Int /\ IsFiniteSet(chapter)
        /\ size \in Nat /\ take \in 1..size
    BY TakeIs
  <2>2. /\ Spread(chapter, take) \subseteq chapter /\ Spread(chapter, take) # {}
        /\ \A i, j \in 1..size :
             (i < j /\ Nth(chapter, i) \in Spread(chapter, take)
                    /\ Nth(chapter, j) \in Spread(chapter, take)) => j - i >= size \div take
    BY <2>1, SpreadRanks
  <2>3. Spread(chapter, take) \subseteq picked
    BY <1>7
  <2>4. /\ \A k \in 1..size : Nth(chapter, k) \in chapter
        /\ \A i \in chapter : Nth(chapter, Rank(chapter, i)) = i
        /\ \A i \in chapter : Rank(chapter, i) \in 1..size
    BY <2>1, NthIs, RankIs
  <2>5. ASSUME NEW i \in chapter, i \in picked PROVE i \in Spread(chapter, take)
    <3>1. PICK other \in Chapters(pool) : i \in Spread(other, Take(pool, other, wanted))
      BY <1>6, <2>5
    <3>2. i \in other
      <4>1. /\ other \subseteq Int /\ IsFiniteSet(other)
            /\ Take(pool, other, wanted) \in 1..Cardinality(other)
        BY TakeIs
      <4>2. Spread(other, Take(pool, other, wanted)) \subseteq other
        BY <4>1, SpreadRanks
      <4> QED
        BY <3>1, <4>2
    <3>3. other = chapter
      BY <3>2 DEF Chapters, ChapterOf
    <3> QED
      BY <3>1, <3>3
  <2>6. ASSUME NEW k \in 1..size
        PROVE  (pool[Nth(chapter, k)] \in ToSet(sample)) => Nth(chapter, k) \in Spread(chapter, take)
    <3> SUFFICES ASSUME pool[Nth(chapter, k)] \in ToSet(sample)
                 PROVE  Nth(chapter, k) \in Spread(chapter, take)
      OBVIOUS
    <3>1. PICK l \in DOMAIN sample : sample[l] = pool[Nth(chapter, k)]
      BY <1>4
    <3>2. PICK i \in picked : sample[l] = pool[i]
      BY <1>2
    <3>3. Nth(chapter, k) \in chapter /\ Nth(chapter, k) \in DOMAIN pool /\ i \in DOMAIN pool
      BY <1>2, <2>1, <2>4
    <3>4. Nth(chapter, k) = i
      BY <1>1, <3>1, <3>2, <3>3
    <3> QED
      BY <2>5, <3>3, <3>4
  <2>7. shown(chapter) = {} => Len(sample) = wanted
    <3> SUFFICES ASSUME Len(sample) # wanted PROVE shown(chapter) # {}
      OBVIOUS
    <3>1. PICK i : i \in Spread(chapter, take)
      BY <2>2
    <3>2. i \in picked /\ i \in chapter
      BY <2>2, <2>3, <3>1
    <3>3. pool[i] \in ToSet(sample)
      BY <1>2, <1>4, <3>2
    <3>4. Rank(chapter, i) \in shown(chapter)
      BY <2>4, <3>2, <3>3
    <3> QED
      BY <3>4
  <2> HIDE DEF take, size
  <2>8. ASSUME NEW i \in shown(chapter), NEW j \in shown(chapter), i < j
        PROVE  j - i >= size \div take
    <3>1. /\ i \in 1..size /\ j \in 1..size
          /\ pool[Nth(chapter, i)] \in ToSet(sample) /\ pool[Nth(chapter, j)] \in ToSet(sample)
      BY DEF size
    <3>2. Nth(chapter, i) \in Spread(chapter, take) /\ Nth(chapter, j) \in Spread(chapter, take)
      BY <2>6, <3>1
    <3> QED
      BY <2>2, <2>8, <3>1, <3>2
  <2> QED
    BY <2>7, <2>8 DEF take, size
<1> QED
  BY <1>2, <1>3, <1>5, <1>8 DEF CoverageSpreads, sample

\* Two places at a stride of c: they are the same only of one batch, and next to each
\* other only when there is one batch.
LEMMA StrideApart ==
  ASSUME NEW c \in Nat, c >= 1, NEW i \in 1..c, NEW j \in 1..c, NEW k \in Nat, NEW l \in Nat
  PROVE  /\ i + (k - 1) * c \in Int
         /\ i + (k - 1) * c = j + (l - 1) * c => i = j /\ k = l
         /\ i + (l - 1) * c = i + (k - 1) * c + 1 => c = 1
<1>1. ASSUME NEW x \in Nat, NEW y \in Nat, x < y PROVE (y - 1) * c >= (x - 1) * c + c
  <2>1. y - 1 \in Int /\ x \in Int /\ y - 1 >= x /\ c > 0 /\ c \in Int
    BY <1>1
  <2>2. (y - 1) * c >= x * c
    BY <2>1, Scaling
  <2>3. x * c = (x - 1) * c + c
    OBVIOUS
  <2> QED
    BY <2>2, <2>3
<1> DEFINE a == (k - 1) * c
           b == (l - 1) * c
<1>2. a \in Int /\ b \in Int
  OBVIOUS
<1>3. /\ k < l => b >= a + c
      /\ l < k => a >= b + c
      /\ k = l => a = b
  BY <1>1
<1> HIDE DEF a, b
<1>4. i + a = j + b => i = j /\ k = l
  BY <1>2, <1>3
<1>5. i + b = i + a + 1 => c = 1
  BY <1>2, <1>3
<1> QED
  BY <1>2, <1>4, <1>5 DEF a, b

\* The strides from 1 to c go over all of 1..n.
LEMMA StrideIs ==
  ASSUME NEW n \in Nat, NEW c \in 1..n
  PROVE  /\ \A i \in 1..c :
              /\ (n - i) \div c + 1 \in Nat /\ (n - i) \div c + 1 >= 1
              /\ \A k \in 1..(n - i) \div c + 1 : i + (k - 1) * c \in 1..n
              /\ \A size \in Nat : c * size >= n => (n - i) \div c + 1 <= size
         /\ \A p \in 1..n : \E i \in 1..c : \E k \in 1..(n - i) \div c + 1 :
              p = i + (k - 1) * c
<1>1. \A x \in Nat : /\ x \div c \in Nat /\ x % c \in 0..c - 1
                     /\ x = c * (x \div c) + (x % c)
  OBVIOUS
<1>2. ASSUME NEW i \in 1..c
      PROVE  /\ (n - i) \div c + 1 \in Nat /\ (n - i) \div c + 1 >= 1
             /\ \A k \in 1..(n - i) \div c + 1 : i + (k - 1) * c \in 1..n
             /\ \A size \in Nat : c * size >= n => (n - i) \div c + 1 <= size
             /\ \A q \in Nat : i + q * c <= n => q <= (n - i) \div c
  <2> DEFINE d == (n - i) \div c
             r == (n - i) % c
  <2>1. d \in Nat /\ r \in 0..c - 1 /\ n - i = c * d + r
    <3>1. n - i \in Nat
      OBVIOUS
    <3> QED
      BY <1>1, <3>1
  <2> HIDE DEF d, r
  <2> DEFINE cd == c * d
  <2>2. cd \in Int /\ n - i = cd + r /\ cd = d * c
    BY <2>1
  <2>3. ASSUME NEW k \in 1..d + 1 PROVE i + (k - 1) * c \in 1..n
    <3>1. k - 1 \in Int /\ d \in Int /\ c \in Int /\ c > 0 /\ d >= k - 1 /\ k - 1 >= 0
      BY <2>1
    <3>2. d * c >= (k - 1) * c
      BY <3>1, Scaling
    <3>3. (k - 1) * c >= 0
      BY <3>1, Scaling
    <3> DEFINE e == (k - 1) * c
    <3>4. e \in Int /\ e <= cd /\ e >= 0
      BY <2>2, <3>1, <3>2, <3>3
    <3> HIDE DEF e, cd
    <3>5. i + e \in 1..n
      BY <2>1, <2>2, <3>4
    <3> QED
      BY <3>5 DEF e
  <2>4. ASSUME NEW size \in Nat, c * size >= n PROVE d + 1 <= size
    <3> SUFFICES ASSUME d >= size PROVE FALSE
      BY <2>1
    <3>1. d * c >= size * c
      BY <2>1, Scaling
    <3>2. c * size = size * c /\ size * c \in Int
      OBVIOUS
    <3> DEFINE e == size * c
    <3>3. e \in Int /\ e >= n /\ cd >= e
      BY <2>2, <2>4, <3>1, <3>2
    <3> HIDE DEF e, cd
    <3> QED
      BY <2>1, <2>2, <3>3
  <2>5. ASSUME NEW q \in Nat, i + q * c <= n PROVE q <= d
    <3> SUFFICES ASSUME q >= d + 1 PROVE FALSE
      BY <2>1
    <3>1. q * c >= (d + 1) * c
      BY <2>1, Scaling
    <3>2. (d + 1) * c = d * c + c
      BY <2>1
    <3> DEFINE e == q * c
    <3>3. e \in Int /\ i + e <= n /\ e >= cd + c
      BY <2>2, <2>5, <3>1, <3>2
    <3> HIDE DEF e, cd
    <3> QED
      BY <2>1, <2>2, <3>3
  <2> QED
    BY <2>1, <2>3, <2>4, <2>5 DEF d
<1>3. ASSUME NEW p \in 1..n
      PROVE  \E i \in 1..c : \E k \in 1..(n - i) \div c + 1 : p = i + (k - 1) * c
  <2> DEFINE q == (p - 1) \div c
             i == ((p - 1) % c) + 1
  <2>1. q \in Nat /\ i \in 1..c /\ p - 1 = c * q + (i - 1)
    <3>1. p - 1 \in Nat
      OBVIOUS
    <3> QED
      BY <1>1, <3>1
  <2> HIDE DEF q, i
  <2>2. p = i + q * c /\ i + q * c <= n
    <3>1. c * q = q * c /\ q * c \in Int
      BY <2>1
    <3> QED
      BY <2>1, <3>1
  <2>3. q <= (n - i) \div c /\ (n - i) \div c + 1 \in Nat
    BY <1>2, <2>1, <2>2
  <2> DEFINE d == (n - i) \div c
  <2>4. d \in Int
    <3>1. n - i \in Nat
      BY <2>1
    <3> QED
      BY <1>1, <3>1
  <2>5. q + 1 \in 1..d + 1 /\ (q + 1) - 1 = q
    <3> HIDE DEF d
    <3>1. q <= d
      BY <2>3 DEF d
    <3> QED
      BY <2>1, <2>4, <3>1
  <2>6. p = i + ((q + 1) - 1) * c
    BY <2>2, <2>5
  <2> QED
    BY <2>1, <2>5, <2>6
<1> QED
  BY <1>2, <1>3

\* There are enough batches, and none is empty.
LEMMA BatchCountIs ==
  ASSUME NEW n \in Nat, NEW size \in Nat \ {0}
  PROVE  LET count == Max({1, (n + size - 1) \div size})
         IN /\ n >= 1 => count \in 1..n /\ count * size >= n
            /\ n = 0 => count = 1
<1> DEFINE q == (n + size - 1) \div size
           r == (n + size - 1) % size
<1>1. q \in Nat /\ r \in 0..size - 1 /\ n + size - 1 = size * q + r
  <2>1. n + size - 1 \in Nat
    OBVIOUS
  <2>2. \A x \in Nat : /\ x \div size \in Nat /\ x % size \in 0..size - 1
                       /\ x = size * (x \div size) + (x % size)
    OBVIOUS
  <2> QED
    BY <2>1, <2>2
<1> HIDE DEF q, r
<1>2. size * q = q * size /\ q * size \in Int
  BY <1>1
<1>3. Max({1, q}) \in {1, q} /\ Max({1, q}) >= 1 /\ Max({1, q}) >= q
  <2>1. 1 \in Int /\ q \in Int
    BY <1>1
  <2> QED
    BY <2>1, TwoOf
<1>4. ASSUME n >= 1 PROVE q >= 1 /\ q <= n /\ q * size >= n
  <2>1. q >= 1
    <3> SUFFICES ASSUME q = 0 PROVE FALSE
      BY <1>1
    <3>1. q * size = 0
      OBVIOUS
    <3> QED
      BY <1>1, <1>2, <1>4, <3>1
  <2>2. q <= n
    <3> SUFFICES ASSUME q >= n + 1 PROVE FALSE
      BY <1>1
    <3>1. q * size >= (n + 1) * size
      BY <1>1, Scaling
    <3>2. (n + 1) * size = n * size + size
      OBVIOUS
    <3>3. n * size >= n
      <4>1. size * n >= 1 * n
        BY <1>4, Scaling
      <4> QED
        BY <4>1
    <3> DEFINE a == q * size
               b == n * size
    <3>4. a \in Int /\ b \in Int /\ a >= b + size /\ b >= n /\ n + size - 1 = a + r
      BY <1>1, <1>2, <3>1, <3>2, <3>3
    <3> HIDE DEF a, b
    <3> QED
      BY <1>1, <3>4
  <2> QED
    BY <1>1, <1>2, <2>1, <2>2
<1>5. ASSUME n = 0 PROVE q = 0
  <2> SUFFICES ASSUME q >= 1 PROVE FALSE
    BY <1>1
  <2>1. q * size >= 1 * size
    BY <1>1, Scaling
  <2> QED
    BY <1>1, <1>2, <1>5, <2>1
<1> DEFINE count == Max({1, q})
<1>6. count \in {1, q} /\ count >= 1 /\ count >= q
  BY <1>3
<1> HIDE DEF count
<1>7. n >= 1 => count = q
  BY <1>1, <1>4, <1>6
<1>8. n >= 1 => count \in 1..n /\ count * size >= n
  BY <1>1, <1>4, <1>7
<1>9. n = 0 => count = 1
  BY <1>5, <1>6
<1> QED
  BY <1>8, <1>9 DEF count, q

\* What is narrowed to topics still repeats no passage.
LEMMA TopicsDiffer ==
  ASSUME NEW X, NEW found \in Seq(X), NEW s \in Seq(X),
         \A i, j \in DOMAIN found : found[i] = found[j] => i = j,
         \A i, j \in DOMAIN s : s[i] = s[j] => i = j
  PROVE  /\ WithTopics(found, s) \in Seq(X)
         /\ \A i, j \in DOMAIN WithTopics(found, s) :
              WithTopics(found, s)[i] = WithTopics(found, s)[j] => i = j
<1> DEFINE P == {i \in DOMAIN s : s[i] \notin ToSet(found)}
           rest == Pick(s, P)
           t == WithTopics(found, s)
           n == Len(found)
           m == Len(rest)
<1>1. /\ rest \in Seq(X) /\ DOMAIN rest = 1..Cardinality(P) /\ Len(rest) = Cardinality(P)
      /\ P \subseteq Int /\ IsFiniteSet(P)
      /\ \A k \in 1..Cardinality(P) : Nth(P, k) \in P /\ rest[k] = s[Nth(P, k)]
  BY PickIs
<1>2. \A k, l \in DOMAIN rest : rest[k] = rest[l] => k = l
  <2> SUFFICES ASSUME NEW k \in DOMAIN rest, NEW l \in DOMAIN rest, rest[k] = rest[l]
               PROVE  k = l
    OBVIOUS
  <2>1. Nth(P, k) \in P /\ Nth(P, l) \in P /\ s[Nth(P, k)] = s[Nth(P, l)]
    <3> HIDE DEF rest
    <3>1. k \in 1..Cardinality(P) /\ l \in 1..Cardinality(P)
      BY <1>1
    <3> QED
      BY <1>1, <3>1
  <2>2. Nth(P, k) = Nth(P, l)
    BY <2>1
  <2>3. Rank(P, Nth(P, k)) = k /\ Rank(P, Nth(P, l)) = l
    <3> HIDE DEF P
    <3>1. \A x \in 1..Cardinality(P) : Rank(P, Nth(P, x)) = x
      BY <1>1, NthIs
    <3> QED
      BY <1>1, <3>1
  <2> QED
    BY <2>2, <2>3
<1>3. \A k \in DOMAIN rest : \A i \in DOMAIN found : rest[k] # found[i]
  <2>1. \A i \in DOMAIN found : found[i] \in ToSet(found)
    BY DEF ToSet
  <2>2. \A k \in DOMAIN rest : rest[k] \notin ToSet(found)
    <3> TAKE k \in DOMAIN rest
    <3>1. k \in 1..Cardinality(P)
      BY <1>1
    <3> HIDE DEF rest
    <3>2. Nth(P, k) \in P /\ rest[k] = s[Nth(P, k)]
      BY <1>1, <3>1
    <3> QED
      BY <3>2
  <2> QED
    BY <2>1, <2>2
<1>4. t = found \o rest
  BY DEF WithTopics
<1> HIDE DEF rest, t
<1>5. /\ t \in Seq(X) /\ Len(t) = n + m /\ n \in Nat /\ m \in Nat
      /\ DOMAIN found = 1..n /\ DOMAIN rest = 1..m /\ DOMAIN t = 1..n + m
      /\ \A i \in 1..n : t[i] = found[i]
      /\ \A i \in n + 1..n + m : t[i] = rest[i - n]
  <2>1. found \in Seq(X) /\ rest \in Seq(X)
    BY <1>1
  <2>2. n \in Nat /\ m \in Nat /\ DOMAIN found = 1..n /\ DOMAIN rest = 1..m
    BY <2>1
  <2>3. t \in Seq(X) /\ Len(t) = n + m
    BY <1>4, <2>1, ConcatProperties
  <2>4. \A i \in 1..Len(found) + Len(rest) :
          t[i] = IF i <= Len(found) THEN found[i] ELSE rest[i - Len(found)]
    BY <1>4, <2>1, ConcatProperties
  <2> HIDE DEF n, m
  <2>5. DOMAIN t = 1..n + m
    BY <2>2, <2>3
  <2>6. \A i \in 1..n + m : t[i] = IF i <= n THEN found[i] ELSE rest[i - n]
    BY <2>4 DEF n, m
  <2>7. \A i \in 1..n : i \in 1..n + m /\ i <= n
    BY <2>2
  <2>8. \A i \in n + 1..n + m : i \in 1..n + m /\ ~(i <= n)
    BY <2>2
  <2> QED
    BY <2>2, <2>3, <2>5, <2>6, <2>7, <2>8
<1> HIDE DEF n, m
<1>6. \A i \in n + 1..n + m : i - n \in 1..m
  BY <1>5
<1>7. ASSUME NEW i \in 1..n + m, NEW j \in 1..n + m, t[i] = t[j] PROVE i = j
  <2>1. CASE i <= n /\ j <= n
    BY <1>5, <1>7, <2>1
  <2>2. CASE i > n /\ j > n
    <3>1. i \in n + 1..n + m /\ j \in n + 1..n + m
      BY <1>5, <2>2
    <3>2. rest[i - n] = rest[j - n] /\ i - n \in 1..m /\ j - n \in 1..m
      BY <1>5, <1>6, <1>7, <3>1
    <3>3. i - n = j - n
      BY <1>2, <1>5, <3>2
    <3> QED
      BY <1>5, <3>3
  <2>3. CASE i <= n /\ j > n
    <3>1. i \in DOMAIN found /\ t[i] = found[i]
      BY <1>5, <2>3
    <3>2. j - n \in DOMAIN rest /\ t[j] = rest[j - n]
      BY <1>5, <1>6, <2>3
    <3> QED
      BY <1>3, <1>7, <3>1, <3>2
  <2>4. CASE i > n /\ j <= n
    <3>1. j \in DOMAIN found /\ t[j] = found[j]
      BY <1>5, <2>4
    <3>2. i - n \in DOMAIN rest /\ t[i] = rest[i - n]
      BY <1>5, <1>6, <2>4
    <3> QED
      BY <1>3, <1>7, <3>1, <3>2
  <2> QED
    BY <1>5, <2>1, <2>2, <2>3, <2>4
<1> QED
  BY <1>5, <1>7 DEF t

\* The batches of a sample are its strides, and there are none of an empty one.
LEMMA DealIs ==
  ASSUME NEW X, NEW s \in Seq(X), NEW size \in Nat \ {0}
  PROVE  LET count == BatchCount(s, size)
             n == Len(s)
         IN /\ n = 0 => Deal(s, size) = <<>>
            /\ n >= 1 => /\ count \in 1..n /\ count * size >= n
                         /\ Deal(s, size) = [i \in 1..count |-> Strided(s, i, count)]
                         /\ Len(Deal(s, size)) = count /\ DOMAIN Deal(s, size) = 1..count
<1> DEFINE count == BatchCount(s, size)
           n == Len(s)
           batches == [i \in 1..count |-> Strided(s, i, count)]
           full == {i \in 1..count : batches[i] # <<>>}
<1>1. Deal(s, size) = Pick(batches, full)
  BY DEF Deal
<1>2. /\ n \in Nat
      /\ n >= 1 => count \in 1..n /\ count * size >= n
      /\ n = 0 => count = 1
  <2>1. n \in Nat
    OBVIOUS
  <2>2. count = Max({1, (n + size - 1) \div size})
    BY DEF BatchCount
  <2> HIDE DEF n, count
  <2> QED
    BY <2>1, <2>2, BatchCountIs
<1>3. ASSUME n = 0 PROVE Deal(s, size) = <<>>
  <2>1. count = 1
    BY <1>2, <1>3
  <2>2. Strided(s, 1, 1) = <<>>
    <3>1. Strided(s, 1, 1) = [k \in 1..(n - 1) \div 1 + 1 |-> s[1 + (k - 1) * 1]]
      BY DEF Strided
    <3>2. (n - 1) \div 1 + 1 = 0
      BY <1>3
    <3>3. 1..0 = {}
      OBVIOUS
    <3> HIDE DEF n
    <3>4. Strided(s, 1, 1) = [k \in {} |-> s[1 + (k - 1) * 1]]
      BY <3>1, <3>2, <3>3
    <3> QED
      BY <3>4
  <2>3. full = {}
    <3> HIDE DEF count
    <3>1. \A i \in 1..count : batches[i] = Strided(s, 1, 1)
      BY <2>1
    <3> QED
      BY <2>2, <3>1
  <2> HIDE DEF full, batches
  <2>4. Cardinality(full) = 0
    BY <2>3, FS_EmptySet
  <2>5. Pick(batches, full) = [k \in 1..0 |-> batches[Nth(full, k)]]
    BY <2>4 DEF Pick
  <2>6. 1..0 = {}
    OBVIOUS
  <2>7. Pick(batches, full) = [k \in {} |-> batches[Nth(full, k)]]
    BY <2>5, <2>6
  <2> QED
    BY <1>1, <2>7
<1>4. ASSUME n >= 1
      PROVE  /\ Deal(s, size) = batches /\ Len(Deal(s, size)) = count
             /\ DOMAIN Deal(s, size) = 1..count
  <2>1. count \in 1..n
    BY <1>2, <1>4
  <2>2. ASSUME NEW i \in 1..count PROVE batches[i] # <<>>
    <3> DEFINE l == (n - i) \div count + 1
    <3>1. l \in Nat /\ l >= 1
      <4> HIDE DEF n, count
      <4> QED
        BY <1>2, <2>1, StrideIs
    <3>2. Strided(s, i, count) = [k \in 1..l |-> s[i + (k - 1) * count]]
      BY DEF Strided
    <3>3. batches[i] = Strided(s, i, count)
      OBVIOUS
    <3> HIDE DEF l, batches
    <3>4. 1 \in DOMAIN batches[i]
      BY <3>1, <3>2, <3>3
    <3> QED
      BY <3>4, NoPlaces
  <2>3. full = DOMAIN batches
    BY <2>2
  <2> DEFINE Y == {batches[i] : i \in 1..count}
  <2>4. batches \in Seq(Y)
    <3>1. batches = [i \in 1..count |-> batches[i]] /\ \A i \in 1..count : batches[i] \in Y
      OBVIOUS
    <3>2. count \in Nat
      BY <1>2, <2>1
    <3> HIDE DEF count, batches, Y
    <3> QED
      BY <3>1, <3>2
  <2>5. Len(batches) = count /\ DOMAIN batches = 1..count
    <3> HIDE DEF count
    <3>1. count \in Nat
      BY <1>2, <2>1
    <3> QED
      BY <3>1
  <2> HIDE DEF batches, full, Y
  <2>6. Pick(batches, full) = batches
    BY <2>3, <2>4, PickAll
  <2> QED
    BY <1>1, <2>5, <2>6
<1> QED
  BY <1>2, <1>3, <1>4

\* The batches partition the sample.
LEMMA Batches ==
  ASSUME NEW X, NEW s \in Seq(X), \A i, j \in DOMAIN s : s[i] = s[j] => i = j,
         NEW size \in Nat \ {0}
  PROVE  LET batches == Deal(s, size)
         IN /\ \A c \in ToSet(s) :
                 Cardinality({i \in DOMAIN batches : c \in ToSet(batches[i])}) = 1
            /\ \A i \in DOMAIN batches :
                 /\ Len(batches[i]) \in 1..size /\ IsInjective(batches[i])
                 /\ Len(batches) > 1 =>
                      \A k \in 1..Len(s) - 1 :
                        ~({s[k], s[k + 1]} \subseteq ToSet(batches[i]))
<1> DEFINE batches == Deal(s, size)
           n == Len(s)
           count == BatchCount(s, size)
           at(i, k) == i + (k - 1) * count
           last(i) == (n - i) \div count + 1
<1>1. n \in Nat /\ DOMAIN s = 1..n
  OBVIOUS
<1>2. CASE n = 0
  <2>1. batches = <<>>
    BY <1>2, DealIs
  <2>2. DOMAIN batches = {}
    BY <2>1, NoPlaces
  <2>3. ToSet(s) = {}
    BY <1>1, <1>2 DEF ToSet
  <2> HIDE DEF batches
  <2> QED
    BY <2>2, <2>3 DEF batches
<1>3. CASE n >= 1
  <2>1. /\ count \in 1..n /\ count * size >= n
        /\ batches = [i \in 1..count |-> Strided(s, i, count)]
        /\ Len(batches) = count /\ DOMAIN batches = 1..count
    BY <1>3, DealIs
  <2> HIDE DEF batches, count, n
  <2>2. /\ \A i \in 1..count :
             /\ last(i) \in Nat /\ last(i) >= 1 /\ last(i) <= size
             /\ \A k \in 1..last(i) : at(i, k) \in 1..n
        /\ \A p \in 1..n : \E i \in 1..count : \E k \in 1..last(i) : p = at(i, k)
    <3>1. n \in Nat /\ count \in 1..n /\ count * size >= n
      BY <1>1, <2>1
    <3>2. \A p \in 1..n : \E i \in 1..count : \E k \in 1..last(i) : p = at(i, k)
      BY <3>1, StrideIs
    <3>3. \A i \in 1..count : /\ last(i) \in Nat /\ last(i) >= 1
                              /\ \A k \in 1..last(i) : at(i, k) \in 1..n
      BY <3>1, StrideIs
    <3>4. \A i \in 1..count : \A z \in Nat : count * z >= n => last(i) <= z
      BY <3>1, StrideIs
    <3> HIDE DEF last, at
    <3>5. \A i \in 1..count : last(i) <= size
      BY <3>1, <3>4
    <3> QED
      BY <3>2, <3>3, <3>5
  <2>3. \A i, j \in 1..count : \A k, l \in Nat :
          /\ at(i, k) = at(j, l) => i = j /\ k = l
          /\ at(i, l) = at(i, k) + 1 => count = 1
    <3>1. count \in Nat /\ count >= 1
      BY <1>1, <2>1
    <3> QED
      BY <3>1, StrideApart
  <2>4. \A i \in 1..count : batches[i] = [k \in 1..last(i) |-> s[at(i, k)]]
    <3> TAKE i \in 1..count
    <3>1. Strided(s, i, count) = [k \in 1..last(i) |-> s[at(i, k)]]
      BY DEF Strided, n
    <3>2. batches[i] = Strided(s, i, count)
      BY <2>1
    <3> QED
      BY <3>1, <3>2
  <2> HIDE DEF at, last
  <2>5. \A i \in 1..count : /\ Len(batches[i]) = last(i) /\ DOMAIN batches[i] = 1..last(i)
                            /\ \A k \in 1..last(i) : batches[i][k] = s[at(i, k)]
    <3> TAKE i \in 1..count
    <3>1. last(i) \in Nat /\ batches[i] = [k \in 1..last(i) |-> s[at(i, k)]]
      BY <2>2, <2>4
    <3>2. DOMAIN batches[i] = 1..last(i) /\ \A k \in 1..last(i) : batches[i][k] = s[at(i, k)]
      BY <3>1
    <3> DEFINE b == batches[i]
               m == last(i)
               e == [k \in 1..m |-> s[at(i, k)]]
    <3>3. Len(b) = m
      <4>1. m \in Nat /\ b = [k \in 1..m |-> b[k]]
        BY <3>1, <3>2
      <4> HIDE DEF b, m
      <4> QED
        BY <4>1
    <3> QED
      BY <3>2, <3>3
  <2>6. ASSUME NEW i \in 1..count, NEW p \in 1..n
        PROVE  s[p] \in ToSet(batches[i]) <=> \E k \in 1..last(i) : p = at(i, k)
    <3>1. s[p] \in ToSet(batches[i]) <=> \E k \in 1..last(i) : s[at(i, k)] = s[p]
      BY <2>5 DEF ToSet
    <3>2. \A k \in 1..last(i) : s[at(i, k)] = s[p] <=> at(i, k) = p
      BY <1>1, <2>2
    <3> QED
      BY <3>1, <3>2
  <2>7. ASSUME NEW c \in ToSet(s)
        PROVE  Cardinality({i \in DOMAIN batches : c \in ToSet(batches[i])}) = 1
    <3>1. PICK p \in 1..n : s[p] = c
      BY <1>1 DEF ToSet
    <3>2. PICK i \in 1..count : \E k \in 1..last(i) : p = at(i, k)
      BY <2>2
    <3>3. ASSUME NEW j \in 1..count, \E k \in 1..last(j) : p = at(j, k) PROVE j = i
      <4>1. PICK k \in 1..last(i) : p = at(i, k)
        BY <3>2
      <4>2. PICK l \in 1..last(j) : p = at(j, l)
        BY <3>3
      <4>3. k \in Nat /\ l \in Nat
        BY <2>2
      <4> QED
        BY <2>3, <4>1, <4>2, <4>3
    <3>4. {j \in DOMAIN batches : c \in ToSet(batches[j])} = {i}
      BY <2>1, <2>6, <3>1, <3>2, <3>3
    <3> QED
      BY <3>4, FS_Singleton
  <2>8. ASSUME NEW i \in 1..count
        PROVE  Len(batches[i]) \in 1..size /\ IsInjective(batches[i])
    <3>1. Len(batches[i]) \in 1..size
      BY <2>2, <2>5
    <3>2. ASSUME NEW k \in 1..last(i), NEW l \in 1..last(i), batches[i][k] = batches[i][l]
          PROVE  k = l
      <4>1. s[at(i, k)] = s[at(i, l)] /\ at(i, k) \in 1..n /\ at(i, l) \in 1..n
        BY <2>2, <2>5, <3>2
      <4>2. at(i, k) = at(i, l)
        BY <1>1, <4>1
      <4>3. k \in Nat /\ l \in Nat
        BY <2>2
      <4> QED
        BY <2>3, <4>2, <4>3
    <3> QED
      BY <2>5, <3>1, <3>2 DEF IsInjective
  <2>9. ASSUME NEW i \in 1..count, count > 1, NEW k \in 1..n - 1,
               {s[k], s[k + 1]} \subseteq ToSet(batches[i])
        PROVE  FALSE
    <3>1. k \in 1..n /\ k + 1 \in 1..n
      BY <1>1
    <3>2. PICK a \in 1..last(i) : k = at(i, a)
      BY <2>6, <2>9, <3>1
    <3>3. PICK b \in 1..last(i) : k + 1 = at(i, b)
      BY <2>6, <2>9, <3>1
    <3>4. a \in Nat /\ b \in Nat /\ at(i, b) = at(i, a) + 1
      BY <2>2, <3>2, <3>3
    <3>5. count = 1
      BY <2>3, <3>4
    <3> QED
      BY <2>9, <3>5
  <2> QED
    BY <2>1, <2>7, <2>8, <2>9 DEF batches, n
<1> QED
  BY <1>1, <1>2, <1>3

\* However the sample was narrowed to topics.
LEMMA Dealing ==
  ASSUME NEW c \in Dealt
  PROVE  BatchesPartition(c.pool, c.found, c.wanted, c.size)
<1>1. /\ c.pool \in Pools /\ c.found \in Seq(Passage) /\ c.wanted \in Nat /\ c.size \in Nat \ {0}
      /\ IsInjective(c.found)
  BY DEF Dealt
<1> DEFINE s == SelectByCoverage(c.pool, c.wanted)
           t == WithTopics(c.found, s)
<1>2. s \in Seq(Passage) /\ \A i, j \in DOMAIN s : s[i] = s[j] => i = j
  BY <1>1, SampleIs
<1>3. \A i, j \in DOMAIN c.found : c.found[i] = c.found[j] => i = j
  BY <1>1 DEF IsInjective
<1> HIDE DEF s
<1>4. t \in Seq(Passage) /\ \A i, j \in DOMAIN t : t[i] = t[j] => i = j
  BY <1>1, <1>2, <1>3, TopicsDiffer
<1> HIDE DEF t
<1>5. LET batches == Deal(t, c.size)
      IN /\ \A p \in ToSet(t) :
              Cardinality({i \in DOMAIN batches : p \in ToSet(batches[i])}) = 1
         /\ \A i \in DOMAIN batches :
              /\ Len(batches[i]) \in 1..c.size /\ IsInjective(batches[i])
              /\ Len(batches) > 1 =>
                   \A k \in 1..Len(t) - 1 :
                     ~({t[k], t[k + 1]} \subseteq ToSet(batches[i]))
  BY <1>1, <1>4, Batches
<1> QED
  BY <1>5 DEF BatchesPartition, t, s

\* Every question is in one stretch of an exercise, of those that start at the multiples.
LEMMA StretchOf ==
  ASSUME NEW p \in Nat \ {0}, NEW x \in Nat
  PROVE  \E st \in Nat : /\ st % p = 0 /\ st <= x /\ x < st + p
                         /\ \A t \in Nat : t % p = 0 /\ t <= x /\ x < t + p => t = st
<1>1. \A y \in Nat : /\ y \div p \in Nat /\ y % p \in 0..p - 1
                     /\ y = p * (y \div p) + (y % p)
  OBVIOUS
<1>2. ASSUME NEW a \in Nat, NEW b \in Nat, a < b PROVE p * b >= p * a + p
  <2>1. b * p >= (a + 1) * p
    BY <1>2, Scaling
  <2>2. (a + 1) * p = a * p + p /\ b * p = p * b /\ a * p = p * a
    OBVIOUS
  <2> QED
    BY <2>1, <2>2
<1> DEFINE d == x \div p
           st == p * d
<1>3. d \in Nat /\ st \in Nat /\ st <= x /\ x < st + p
  <2>1. d \in Nat /\ x % p \in 0..p - 1 /\ x = st + (x % p)
    BY <1>1
  <2>2. st \in Nat
    <3> HIDE DEF d
    <3> QED
      BY <2>1
  <2> QED
    BY <2>1, <2>2
<1> HIDE DEF d
<1>4. ASSUME NEW t \in Nat, t % p = 0, t <= x, x < t + p PROVE t = st
  <2> DEFINE e == t \div p
  <2>1. e \in Nat /\ t = p * e
    BY <1>1, <1>4
  <2> HIDE DEF e
  <2>2. /\ d < e => p * e >= p * d + p
        /\ e < d => p * d >= p * e + p
    BY <1>2, <1>3, <2>1
  <2>3. p * e = t /\ p * d = st
    BY <2>1
  <2> HIDE DEF st
  <2>4. ~(d < e) /\ ~(e < d)
    BY <1>3, <1>4, <2>2, <2>3
  <2>5. d = e
    BY <1>3, <2>1, <2>4
  <2> QED
    BY <2>3, <2>5
<1>5. st % p = 0
  <2> DEFINE e == st \div p
             r == st % p
  <2>1. e \in Nat /\ r \in 0..p - 1 /\ st = p * e + r
    <3> HIDE DEF st
    <3> QED
      BY <1>1, <1>3
  <2> HIDE DEF e, r
  <2>2. /\ d < e => p * e >= p * d + p
        /\ e < d => p * d >= p * e + p
    BY <1>2, <1>3, <2>1
  <2> DEFINE pe == p * e
  <2>3. pe \in Int /\ st = pe + r /\ (d < e => pe >= st + p) /\ (e < d => st >= pe + p)
    BY <2>1, <2>2
  <2>4. e = d => pe = st
    OBVIOUS
  <2> HIDE DEF pe, st
  <2> QED
    BY <1>3, <2>1, <2>3, <2>4 DEF r
<1> HIDE DEF st
<1> QED
  BY <1>3, <1>4, <1>5

\* The calls planned are finitely many, and come one after the other.
LEMMA StartsAre ==
  ASSUME NEW pool \in Pools, NEW perCall \in Nat \ {0}
  PROVE  /\ \A x \in Starts(pool, perCall) :
              /\ x = <<x[1], x[2]>> /\ x[1] \in DOMAIN pool /\ pool[x[1]].qualifies
              /\ x[2] \in Nat /\ x[2] % perCall = 0 /\ x[2] < pool[x[1]].asks
         /\ \A i \in DOMAIN pool : \A n \in Nat :
              pool[i].qualifies /\ n % perCall = 0 /\ n < pool[i].asks
                => <<i, n>> \in Starts(pool, perCall)
         /\ IsFiniteSet(Starts(pool, perCall))
         /\ Orders(Starts(pool, perCall), Earlier(Starts(pool, perCall)))
<1> DEFINE J == {j \in DOMAIN pool : pool[j].qualifies}
           N(i) == {n \in 0..pool[i].asks - 1 : n % perCall = 0}
           T(i) == {<<i, start>> : start \in N(i)}
           calls == Starts(pool, perCall)
<1>1. calls = UNION {T(i) : i \in J}
  BY DEF Starts
<1>2. \A i \in DOMAIN pool : i \in Int /\ pool[i].asks \in Nat
  <2>1. \A i \in DOMAIN pool : i \in Int /\ pool[i] \in Passage
    BY PoolDiffers
  <2> QED
    BY <2>1 DEF Passage
<1> HIDE DEF calls
<1>3. \A x \in calls : \E i \in J : \E start \in N(i) : x = <<i, start>>
  BY <1>1
<1>4. ASSUME NEW x \in calls
      PROVE  /\ x = <<x[1], x[2]>> /\ x[1] \in DOMAIN pool /\ pool[x[1]].qualifies
             /\ x[2] \in Nat /\ x[2] % perCall = 0 /\ x[2] < pool[x[1]].asks
  <2>0. PICK i \in J : \E start \in N(i) : x = <<i, start>>
    BY <1>3
  <2>1. PICK start \in N(i) : x = <<i, start>>
    BY <2>0
  <2>2. x[1] = i /\ x[2] = start /\ i \in DOMAIN pool /\ pool[i].qualifies
    BY <2>1
  <2>3. start \in Nat /\ start % perCall = 0 /\ start < pool[i].asks
    BY <1>2, <2>2
  <2> QED
    BY <2>1, <2>2, <2>3
<1>5. ASSUME NEW i \in DOMAIN pool, NEW n \in Nat, pool[i].qualifies, n % perCall = 0,
             n < pool[i].asks
      PROVE  <<i, n>> \in calls
  <2>1. n \in N(i) /\ i \in J
    BY <1>2, <1>5
  <2> HIDE DEF N, J
  <2> QED
    BY <1>1, <2>1
<1>6. IsFiniteSet(calls)
  <2>1. IsFiniteSet(J)
    <3>1. J \in SUBSET DOMAIN pool /\ IsFiniteSet(DOMAIN pool)
      BY PoolDiffers
    <3> HIDE DEF J
    <3> QED
      BY <3>1, FS_Subset
  <2>2. ASSUME NEW i \in J PROVE IsFiniteSet(T(i))
    <3>1. IsFiniteSet(N(i))
      <4> DEFINE m == pool[i].asks - 1
      <4>1. m \in Int /\ 0 \in Int
        BY <1>2
      <4>2. N(i) \in SUBSET (0..m)
        OBVIOUS
      <4> HIDE DEF m, N
      <4> QED
        BY <4>1, <4>2, FS_Interval, FS_Subset
    <3> DEFINE f == [start \in N(i) |-> <<i, start>>]
    <3> HIDE DEF N
    <3>2. f \in Surjection(N(i), T(i))
      BY DEF Surjection
    <3> HIDE DEF f, T
    <3> QED
      BY <3>1, <3>2, FS_Surjection
  <2> DEFINE all == {T(i) : i \in J}
             g == [i \in J |-> T(i)]
  <2>3. IsFiniteSet(all)
    <3> HIDE DEF J, T
    <3>1. g \in Surjection(J, all)
      BY DEF Surjection
    <3> HIDE DEF g, all
    <3> QED
      BY <2>1, <3>1, FS_Surjection
  <2>4. \A t \in all : IsFiniteSet(t)
    BY <2>2
  <2>5. calls = UNION all
    BY <1>1
  <2> HIDE DEF all
  <2> QED
    BY <2>3, <2>4, <2>5, FS_UNION
<1>7. Orders(calls, Earlier(calls))
  <2>1. \A x, y \in calls : <<x, y>> \in Earlier(calls) <=>
                              (x[1] < y[1] \/ (x[1] = y[1] /\ x[2] < y[2]))
    BY DEF Earlier
  <2>2. \A x \in calls : x[1] \in Int /\ x[2] \in Int
    BY <1>2, <1>4
  <2>3. \A x, y \in calls : x[1] = y[1] /\ x[2] = y[2] => x = y
    BY <1>4
  <2> QED
    BY <2>1, <2>2, <2>3 DEF Orders
<1> QED
  BY <1>4, <1>5, <1>6, <1>7 DEF calls

\* A call shows the passages before the exercise, in order, and no more than its span.
LEMMA ContextIs ==
  ASSUME NEW pool \in Pools, NEW source \in Passage, NEW span \in Nat
  PROVE  LET shown == HarvestContext(pool, source, span)
         IN /\ shown[Len(shown)] = source /\ Len(shown) <= span + 1
            /\ \A i, j \in DOMAIN shown :
                 /\ shown[i].book = shown[j].book
                 /\ i < j => shown[i].index < shown[j].index
<1> DEFINE P == {i \in DOMAIN pool : /\ pool[i].book = source.book
                                     /\ pool[i].index < source.index
                                     /\ pool[i].index >= source.index - span}
           lead == Pick(pool, P)
           shown == HarvestContext(pool, source, span)
           n == Cardinality(P)
<1>1. pool \in Seq(Passage) /\ source.index \in Nat
      /\ \A i \in DOMAIN pool : pool[i].index \in Nat /\ i \in Int
  <2>1. pool \in Seq(Passage) /\ \A i \in DOMAIN pool : i \in Int /\ pool[i] \in Passage
    BY PoolDiffers
  <2> QED
    BY <2>1 DEF Passage
<1>2. \A i, j \in DOMAIN pool : i < j /\ pool[i].book = pool[j].book => pool[i].index < pool[j].index
  BY DEF Pools
<1>3. \A i \in P : /\ i \in DOMAIN pool /\ pool[i].book = source.book
                   /\ pool[i].index < source.index /\ pool[i].index >= source.index - span
  OBVIOUS
<1>4. P \subseteq DOMAIN pool
  OBVIOUS
<1>5. shown = Append(lead, source)
  BY DEF HarvestContext
<1> HIDE DEF P
<1>6. /\ IsFiniteSet(P) /\ P \subseteq Int
      /\ lead \in Seq(Passage) /\ Len(lead) = n /\ n \in Nat /\ DOMAIN lead = 1..n
      /\ \A k \in 1..n : Nth(P, k) \in P /\ lead[k] = pool[Nth(P, k)]
  BY <1>1, <1>4, PickIs
<1>7. \A k, l \in 1..n : k < l => Nth(P, k) < Nth(P, l)
  BY <1>6, NthIs
<1>8. n <= span
  <2> DEFINE a == source.index - span
             b == source.index - 1
             f == [i \in P |-> pool[i].index]
  <2>1. a \in Int /\ b \in Int /\ b - a + 1 = span
    BY <1>1
  <2>2. f \in [P -> a..b]
    <3>1. \A i \in P : pool[i].index \in a..b
      BY <1>1, <1>3
    <3> HIDE DEF a, b
    <3> QED
      BY <3>1
  <2>3. \A i, j \in P : f[i] = f[j] => i = j
    <3> SUFFICES ASSUME NEW i \in P, NEW j \in P, f[i] = f[j], i # j PROVE FALSE
      OBVIOUS
    <3>1. /\ i \in DOMAIN pool /\ j \in DOMAIN pool /\ pool[i].book = pool[j].book
          /\ pool[i].index = pool[j].index /\ i \in Int /\ j \in Int
          /\ pool[i].index \in Nat
      BY <1>1, <1>3
    <3>2. i < j \/ j < i
      BY <3>1
    <3>3. pool[i].index < pool[j].index \/ pool[j].index < pool[i].index
      BY <1>2, <3>1, <3>2
    <3> QED
      BY <3>1, <3>3
  <2> HIDE DEF a, b, f
  <2>4. f \in Injection(P, a..b)
    BY <2>2, <2>3 DEF Injection, IsInjective
  <2>5. IsFiniteSet(a..b) /\ Cardinality(a..b) = IF a > b THEN 0 ELSE b - a + 1
    BY <2>1, FS_Interval
  <2>6. Cardinality(P) <= Cardinality(a..b)
    BY <2>4, <2>5, FS_Injection
  <2>7. a > b => span = 0
    BY <2>1
  <2> QED
    BY <1>6, <2>1, <2>5, <2>6, <2>7
<1> HIDE DEF n, lead, shown
<1>9. /\ Len(shown) = n + 1 /\ DOMAIN shown = 1..n + 1 /\ shown[n + 1] = source
      /\ \A k \in 1..n : shown[k] = lead[k]
  BY <1>5, <1>6
<1>10. \A k \in 1..n : shown[k].book = source.book /\ shown[k].index < source.index
  <2> TAKE k \in 1..n
  <2>1. shown[k] = pool[Nth(P, k)] /\ Nth(P, k) \in P
    BY <1>6, <1>9
  <2> QED
    BY <1>3, <2>1
<1>11. \A k, l \in 1..n : k < l => shown[k].index < shown[l].index
  <2> TAKE k, l \in 1..n
  <2> HAVE k < l
  <2>1. Nth(P, k) \in P /\ Nth(P, l) \in P /\ Nth(P, k) < Nth(P, l)
    BY <1>6, <1>7
  <2>2. pool[Nth(P, k)].index < pool[Nth(P, l)].index
    BY <1>2, <1>3, <2>1
  <2> QED
    BY <1>6, <1>9, <2>2
<1>12. ASSUME NEW i \in 1..n + 1, NEW j \in 1..n + 1
       PROVE  /\ shown[i].book = shown[j].book
              /\ i < j => shown[i].index < shown[j].index
  <2>1. (i \in 1..n \/ i = n + 1) /\ (j \in 1..n \/ j = n + 1)
    BY <1>6
  <2>2. i < j => i \in 1..n
    BY <1>6
  <2> QED
    BY <1>9, <1>10, <1>11, <2>1, <2>2
<1> QED
  BY <1>6, <1>8, <1>9, <1>12 DEF shown

\* The book's own questions are asked once each, with the pages that answer them.
LEMMA Harvesting ==
  ASSUME NEW pool \in Pools, NEW perCall \in Nat \ {0}, NEW span \in Nat
  PROVE  HarvestCovers(pool, perCall, span)
<1> DEFINE calls == Starts(pool, perCall)
           order == Sorted(calls, Earlier(calls))
           n == Cardinality(calls)
           plan == PlanHarvest(pool, perCall, span)
<1>1. /\ \A x \in calls :
           /\ x = <<x[1], x[2]>> /\ x[1] \in DOMAIN pool /\ pool[x[1]].qualifies
           /\ x[2] \in Nat /\ x[2] % perCall = 0 /\ x[2] < pool[x[1]].asks
      /\ \A i \in DOMAIN pool : \A m \in Nat :
           pool[i].qualifies /\ m % perCall = 0 /\ m < pool[i].asks => <<i, m>> \in calls
      /\ IsFiniteSet(calls) /\ Orders(calls, Earlier(calls))
  BY StartsAre
<1>2. /\ \A i \in DOMAIN pool : /\ pool[i] \in Passage /\ pool[i].asks \in Nat
                                /\ pool[i].qualifies \in BOOLEAN
      /\ \A i, j \in DOMAIN pool : pool[i] = pool[j] => i = j
  <2>1. /\ \A i \in DOMAIN pool : pool[i] \in Passage
        /\ \A i, j \in DOMAIN pool : pool[i] = pool[j] => i = j
    BY PoolDiffers
  <2> QED
    BY <2>1 DEF Passage
<1>3. plan = [k \in 1..n |-> HarvestBatch(pool, pool[order[k][1]], order[k][2], perCall, span)]
  BY DEF PlanHarvest
<1> HIDE DEF calls
<1>4. /\ n \in Nat
      /\ \A k \in 1..n : order[k] \in calls
      /\ \A x \in calls : \E k \in 1..n : order[k] = x
      /\ \A k, l \in 1..n : k < l <=> <<order[k], order[l]>> \in Earlier(calls)
  BY <1>1, SortedIs
<1>5. \A k, l \in 1..n : order[k] = order[l] => k = l
  <2> SUFFICES ASSUME NEW k \in 1..n, NEW l \in 1..n, order[k] = order[l], k < l PROVE FALSE
    <3>1. \A k, l \in 1..n : k = l \/ k < l \/ l < k
      BY <1>4
    <3> QED
      BY <3>1
  <2>1. <<order[k], order[k]>> \in Earlier(calls) /\ order[k] \in calls
    BY <1>4
  <2> HIDE DEF order
  <2> QED
    BY <1>1, <2>1 DEF Orders
<1> HIDE DEF order, n, plan
<1>6. DOMAIN plan = 1..n
  BY <1>3
<1>7. ASSUME NEW k \in 1..n
      PROVE  /\ order[k][1] \in DOMAIN pool /\ pool[order[k][1]].qualifies
             /\ order[k] = <<order[k][1], order[k][2]>>
             /\ order[k][2] \in Nat /\ order[k][2] % perCall = 0
             /\ order[k][2] < pool[order[k][1]].asks
             /\ plan[k].source = pool[order[k][1]]
             /\ plan[k].from = order[k][2] + 1 /\ plan[k].to \in Int
             /\ plan[k].to <= order[k][2] + perCall /\ plan[k].to <= pool[order[k][1]].asks
             /\ plan[k].to = order[k][2] + perCall \/ plan[k].to = pool[order[k][1]].asks
             /\ plan[k].passages = HarvestContext(pool, pool[order[k][1]], span)
  <2> DEFINE x == order[k]
             end == x[2] + perCall
             asks == pool[x[1]].asks
  <2>1. /\ x = <<x[1], x[2]>> /\ x[1] \in DOMAIN pool /\ pool[x[1]].qualifies
        /\ x[2] \in Nat /\ x[2] % perCall = 0 /\ x[2] < pool[x[1]].asks
    BY <1>1, <1>4
  <2>2. plan[k] = HarvestBatch(pool, pool[x[1]], x[2], perCall, span)
    BY <1>3
  <2>3. /\ plan[k].source = pool[x[1]] /\ plan[k].from = x[2] + 1
        /\ plan[k].to = Min({end, asks})
        /\ plan[k].passages = HarvestContext(pool, pool[x[1]], span)
    BY <2>2 DEF HarvestBatch
  <2>4. end \in Int /\ asks \in Int
    BY <1>2, <2>1
  <2> HIDE DEF end, asks
  <2>5. Min({end, asks}) \in {end, asks} /\ Min({end, asks}) <= end /\ Min({end, asks}) <= asks
    BY <2>4, TwoOf
  <2> QED
    BY <2>1, <2>3, <2>4, <2>5 DEF end, asks
<1>8. ASSUME NEW i \in DOMAIN pool, NEW q \in 1..pool[i].asks
      PROVE  Cardinality({k \in DOMAIN plan : /\ plan[k].source = pool[i]
                                              /\ q \in plan[k].from..plan[k].to})
               = (IF pool[i].qualifies THEN 1 ELSE 0)
  <2> DEFINE Asking == {k \in DOMAIN plan : /\ plan[k].source = pool[i]
                                          /\ q \in plan[k].from..plan[k].to}
  <2>1. \A k \in 1..n : plan[k].source = pool[i] => order[k][1] = i
    BY <1>2, <1>7
  <2>2. CASE ~pool[i].qualifies
    <3>1. Asking = {}
      BY <1>6, <1>7, <2>1, <2>2
    <3> HIDE DEF Asking
    <3>2. Cardinality(Asking) = 0
      BY <3>1, FS_EmptySet
    <3> QED
      BY <2>2, <3>2 DEF Asking
  <2>3. CASE pool[i].qualifies
    <3>1. q - 1 \in Nat /\ q <= pool[i].asks /\ q \in Int /\ pool[i].asks \in Nat
      BY <1>2
    <3>2. PICK st \in Nat :
            /\ st % perCall = 0 /\ st <= q - 1 /\ q - 1 < st + perCall
            /\ \A t \in Nat : t % perCall = 0 /\ t <= q - 1 /\ q - 1 < t + perCall => t = st
      BY <3>1, StretchOf
    <3>3. st < pool[i].asks
      BY <3>1, <3>2
    <3>4. <<i, st>> \in calls
      BY <1>1, <2>3, <3>2, <3>3
    <3>5. PICK k \in 1..n : order[k] = <<i, st>>
      BY <1>4, <3>4
    <3>6. order[k][1] = i /\ order[k][2] = st
      BY <3>5
    <3>7. plan[k].source = pool[i]
      BY <1>7, <3>6
    <3>8. q \in plan[k].from..plan[k].to
      <4>1. plan[k].from = st + 1 /\ plan[k].to \in Int
            /\ (plan[k].to = st + perCall \/ plan[k].to = pool[i].asks)
        BY <1>7, <3>6
      <4> QED
        BY <3>1, <3>2, <4>1
    <3>9. ASSUME NEW l \in 1..n, plan[l].source = pool[i], q \in plan[l].from..plan[l].to
          PROVE  l = k
      <4>1. order[l][1] = i
        BY <2>1, <3>9
      <4>2. /\ order[l][2] \in Nat /\ order[l][2] % perCall = 0 /\ plan[l].to \in Int
            /\ plan[l].from = order[l][2] + 1 /\ plan[l].to <= order[l][2] + perCall
            /\ order[l] = <<order[l][1], order[l][2]>>
        BY <1>7
      <4>3. order[l][2] <= q - 1 /\ q - 1 < order[l][2] + perCall
        BY <3>1, <3>9, <4>2
      <4>4. order[l][2] = st
        BY <3>2, <4>2, <4>3
      <4>5. order[l] = <<i, st>>
        BY <4>1, <4>2, <4>4
      <4> QED
        BY <1>5, <3>5, <4>5
    <3>10. Asking = {k}
      BY <1>6, <3>7, <3>8, <3>9
    <3> HIDE DEF Asking
    <3>11. Cardinality(Asking) = 1
      BY <3>10, FS_Singleton
    <3> QED
      BY <2>3, <3>11 DEF Asking
  <2> QED
    BY <2>2, <2>3
<1>9. ASSUME NEW c \in ToSet(pool), NEW q \in 1..c.asks
      PROVE  Cardinality({k \in DOMAIN plan : /\ plan[k].source = c
                                              /\ q \in plan[k].from..plan[k].to})
               = (IF c.qualifies THEN 1 ELSE 0)
  <2>1. PICK i \in DOMAIN pool : pool[i] = c
    BY DEF ToSet
  <2>2. q \in 1..pool[i].asks
    BY <2>1
  <2>3. Cardinality({k \in DOMAIN plan : /\ plan[k].source = pool[i]
                                         /\ q \in plan[k].from..plan[k].to})
          = (IF pool[i].qualifies THEN 1 ELSE 0)
    BY <1>8, <2>2
  <2> QED
    BY <2>1, <2>3
<1>10. ASSUME NEW k \in DOMAIN plan
       PROVE  LET shown == plan[k].passages IN
              /\ plan[k].to - plan[k].from < perCall
              /\ shown[Len(shown)] = plan[k].source /\ Len(shown) <= span + 1
              /\ \A i, j \in DOMAIN shown :
                   /\ shown[i].book = shown[j].book
                   /\ i < j => shown[i].index < shown[j].index
  <2> DEFINE source == pool[order[k][1]]
  <2>1. source \in Passage /\ plan[k].source = source
        /\ plan[k].passages = HarvestContext(pool, source, span)
    BY <1>2, <1>6, <1>7
  <2>2. plan[k].to - plan[k].from < perCall
    <3>1. order[k][2] \in Nat /\ plan[k].to \in Int /\ plan[k].from = order[k][2] + 1
          /\ plan[k].to <= order[k][2] + perCall
      BY <1>6, <1>7
    <3> QED
      BY <3>1
  <2> HIDE DEF source
  <2>3. LET shown == HarvestContext(pool, source, span)
        IN /\ shown[Len(shown)] = source /\ Len(shown) <= span + 1
           /\ \A i, j \in DOMAIN shown :
                /\ shown[i].book = shown[j].book
                /\ i < j => shown[i].index < shown[j].index
    BY <2>1, ContextIs
  <2> QED
    BY <2>1, <2>2, <2>3
<1> QED
  BY <1>9, <1>10 DEF HarvestCovers, plan

-----------------------------------------------------------------------------
(***************************************************************************)
(* The calls.                                                              *)
(***************************************************************************)

\* A behaviour makes no call, or one there can be.
LEMMA Called == CallSpec => [](call = NoCall \/ call \in Possible)
<1>1. CallInit => (call = NoCall \/ call \in Possible)
  BY DEF CallInit
<1>2. (call = NoCall \/ call \in Possible) /\ [CallNext]_call => (call = NoCall \/ call \in Possible)'
  BY InputsAssumption DEF CallNext
<1> QED
  BY <1>1, <1>2, PTL DEF CallSpec

\* Every kind of call is a call of its function.
LEMMA Kinds ==
  ASSUME NEW c \in Possible
  PROVE  /\ c.kind = "sample" => c \in Sampled
         /\ c.kind = "deal" => c \in Dealt
         /\ c.kind = "harvest" => c \in Exercised
         /\ c.kind = "reply" => c \in Replied
         /\ c.kind = "options" => c \in Keyed
         /\ c.kind = "text" => c \in Printed
         /\ c.kind = "pages" => c \in Parsed
         /\ c.kind = "hits" => c \in Searched
         /\ c.kind = "rankings" => c \in Fused
         /\ c.kind = "passage" => c \in Trimmed
         /\ c.kind = "words" => c \in Worded
         /\ c.kind = "book" => c \in Covered
<1>1. /\ \A d \in Sampled : d.kind = "sample"
      /\ \A d \in Dealt : d.kind = "deal"
      /\ \A d \in Exercised : d.kind = "harvest"
  BY DEF Sampled, Dealt, Exercised
<1>2. /\ \A d \in Replied : d.kind = "reply"
      /\ \A d \in Keyed : d.kind = "options"
      /\ \A d \in Printed : d.kind = "text"
  BY DEF Replied, Keyed, Printed
<1>3. /\ \A d \in Parsed : d.kind = "pages"
      /\ \A d \in Searched : d.kind = "hits"
      /\ \A d \in Fused : d.kind = "rankings"
  BY DEF Parsed, Searched, Fused
<1>4. /\ \A d \in Trimmed : d.kind = "passage"
      /\ \A d \in Worded : d.kind = "words"
      /\ \A d \in Covered : d.kind = "book"
  BY DEF Trimmed, Worded, Covered
<1>5. \/ c \in Sampled \/ c \in Dealt \/ c \in Exercised \/ c \in Replied \/ c \in Keyed
      \/ c \in Printed \/ c \in Parsed \/ c \in Searched \/ c \in Fused \/ c \in Trimmed
      \/ c \in Worded \/ c \in Covered
  BY DEF Possible
<1> QED
  BY <1>1, <1>2, <1>3, <1>4, <1>5

\* Of parse_generated, _canonical_choices and build_question_fields: whatever the model
\* replies and however its writer labelled the choices, every complete question of a reply
\* is kept once and in order, and the answer marked correct is the one that was meant.
THEOREM ReplyReadHolds == CallSpec => []ReplyRead
<1>1. (call = NoCall \/ call \in Possible) => ReplyRead
  <2>1. call = NoCall => ReplyRead
    BY DEF NoCall, ReplyRead
  <2>2. call \in Possible => ReplyRead
    BY Kinds, Siblings, KeysStand DEF ReplyRead
  <2> QED
    BY <2>1, <2>2
<1> QED
  BY Called, <1>1, PTL

\* Of find_questions, carries_questions and _split_options: whatever a passage prints, no
\* line of it is in two questions, but for a first line found again with its marker, no
\* choice is offered that is not printed right under its question in its place, and no
\* passage qualifies by its prose.
THEOREM PrintedOnceHolds == CallSpec => []PrintedOnce
<1>1. (call = NoCall \/ call \in Possible) => PrintedOnce
  <2>1. call = NoCall => PrintedOnce
    BY DEF NoCall, PrintedOnce
  <2>2. call \in Possible => PrintedOnce
    BY Kinds, Lines DEF PrintedOnce
  <2> QED
    BY <2>1, <2>2
<1> QED
  BY Called, <1>1, PTL

\* Of detect_chapters and chunk_pages: whatever the pages and their outline, every paragraph
\* of a chapter is in its chunks, in reading order, one too long for a chunk in all its
\* pieces; a chunk is over the limit by no more than the overlap; and a page is in one
\* chapter, or in those that begin on it.
THEOREM PagesIndexedHolds == CallSpec => []PagesIndexed
<1>1. (call = NoCall \/ call \in Possible) => PagesIndexed
  <2>1. call = NoCall => PagesIndexed
    BY DEF NoCall, PagesIndexed
  <2>2. call \in Possible => PagesIndexed
    BY Kinds, Indexed DEF PagesIndexed
  <2> QED
    BY <2>1, <2>2
<1> QED
  BY Called, <1>1, PTL

\* Of significant_terms, fetch_coverage_chunks and excerpt: whatever the words of a question and the
\* chunks that hold them, a word that singles nothing out changes nothing wherever it
\* stands; the cross-section of a book is as large as it may be and even; and the excerpt of
\* a passage is the best run of whole sentences within the budget, the earliest of several,
\* or of its only sentence the head, cut behind a word.
THEOREM MaterialChosenHolds == CallSpec => []MaterialChosen
<1>1. (call = NoCall \/ call \in Possible) => MaterialChosen
  <2>1. call = NoCall => MaterialChosen
    BY DEF NoCall, MaterialChosen
  <2>2. ASSUME call \in Worded PROVE FillerIgnored(call.words, call.total, call.filler)
    <3>1. /\ call.words \in Seq(Word) /\ call.total \in Nat /\ call.filler \in Word
          /\ \A w, v \in ToSet(call.words) \cup {call.filler} : w.word = v.word => w = v
          /\ Len(call.words) < MaxTermsProbed
          /\ call.filler.found \notin 1..SelectivityCap(call.total)
      BY <2>2 DEF Worded
    <3> QED
      BY <3>1, Filler
  <2>3. ASSUME call \in Covered PROVE CoverageEven(call.chunks, call.perBook)
    <3>1. call.chunks \in Nat /\ call.perBook \in Nat \ {0}
      BY <2>3 DEF Covered
    <3> QED
      BY <3>1, CrossSection
  <2>4. ASSUME call \in Trimmed PROVE ExcerptBest(call.sentences, call.terms, call.max)
    <3>1. call.sentences \in Seq(Sentence) /\ call.sentences # <<>> /\ call.max \in Nat
      BY <2>4 DEF Trimmed
    <3> QED
      BY <3>1, Trimmings
  <2>5. call \in Possible => MaterialChosen
    BY Kinds, <2>2, <2>3, <2>4 DEF MaterialChosen
  <2> QED
    BY <2>1, <2>5
<1> QED
  BY Called, <1>1, PTL

\* Of fuse, dedupe, route and spread: whatever two searches find, no chunk is lost or made
\* up, one that both found is before any that only one did, and an order both agree on
\* stays; and whatever is narrowed, what is shown was found, in that order, nothing twice,
\* enough of it, with the best hit unless its book was outvoted.
THEOREM HitsRankedHolds == CallSpec => []HitsRanked
<1>1. (call = NoCall \/ call \in Possible) => HitsRanked
  <2>1. call = NoCall => HitsRanked
    BY DEF NoCall, HitsRanked
  <2>2. ASSUME call \in Fused PROVE FusionFair(call.first, call.second)
    <3>1. call.first \in Rankings /\ call.second \in Rankings
      BY <2>2 DEF Fused
    <3> QED
      BY <3>1, Fusion
  <2>3. ASSUME call \in Searched PROVE NarrowingKeeps(call.hits, call.limit)
    <3>1. call.hits \in Seq(Hit) /\ call.limit \in Nat /\ call.limit >= 1
      BY <2>3 DEF Searched
    <3> QED
      BY <3>1, Narrowing
  <2>4. call \in Possible => HitsRanked
    BY Kinds, <2>2, <2>3 DEF HitsRanked
  <2> QED
    BY <2>1, <2>4
<1> QED
  BY Called, <1>1, PTL

\* Whatever material, topics and exercises there are, what a run shows the model is a fair
\* cross-section of it, dealt into batches that hold everything once, and the calls for the
\* book's own questions ask each once with the passages before it.
THEOREM MaterialShownHolds == CallSpec => []MaterialShown
<1>1. (call = NoCall \/ call \in Possible) => MaterialShown
  <2>1. call = NoCall => MaterialShown
    BY DEF NoCall, MaterialShown
  <2>2. ASSUME call \in Sampled PROVE CoverageSpreads(call.pool, call.wanted)
    <3>1. call.pool \in Pools /\ call.wanted \in Nat
      BY <2>2 DEF Sampled
    <3> QED
      BY <3>1, Sample
  <2>3. ASSUME call \in Dealt
        PROVE  BatchesPartition(call.pool, call.found, call.wanted, call.size)
    BY <2>3, Dealing
  <2>4. ASSUME call \in Exercised PROVE HarvestCovers(call.pool, call.perCall, call.span)
    <3>1. call.pool \in Pools /\ call.perCall \in Nat \ {0} /\ call.span \in Nat
      BY <2>4 DEF Exercised
    <3> QED
      BY <3>1, Harvesting
  <2>5. call \in Possible => MaterialShown
    BY Kinds, <2>2, <2>3, <2>4 DEF MaterialShown
  <2> QED
    BY <2>1, <2>5
<1> QED
  BY Called, <1>1, PTL

=============================================================================
