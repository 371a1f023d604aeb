------------------------------ MODULE ChatProofs ------------------------------
(***************************************************************************)
(* Theorems about Chat, for any library, any texts, any number of messages *)
(* and of tabs; and about RateLimit, which its requests pass, for every    *)
(* limit and any number of checks at a time.                               *)
(***************************************************************************)
EXTENDS Chat, RateLimit, Extremes, SequenceTheorems, TLAPS

-----------------------------------------------------------------------------
(***************************************************************************)
(* Which books an answer is from.                                          *)
(***************************************************************************)
\* A way a turn can come out: answered exactly if over sources, in the books asked for.
Stays(way, ids) ==
  /\ way[1] \in Outcome /\ way[2] \subseteq Books
  /\ way[1] = "answered" <=> way[2] # {}
  /\ ids # {} => way[2] \subseteq ids

LEMMA FixedStays ==
  ASSUME NEW ids, NEW outcome \in Outcome \ {"answered"}, NEW way \in Fixed(outcome)
  PROVE  Stays(way, ids)
BY DEF Fixed, Stays, Outcome

LEMMA AnsweredStays ==
  ASSUME NEW ids, NEW from, from \subseteq Books, ids # {} => from \subseteq ids,
         NEW way \in Answered(from)
  PROVE  Stays(way, ids)
BY DEF Answered, Stays, Outcome

LEMMA SearchStays ==
  ASSUME NEW ids, NEW outcome \in Outcome \ {"answered"}, NEW way \in Search(ids, outcome)
  PROVE  Stays(way, ids)
<1>1. Reach(ids) \subseteq Books /\ (ids # {} => Reach(ids) \subseteq ids)
  BY DEF Reach
<1> QED
  BY <1>1, FixedStays, AnsweredStays DEF Search

LEMMA IncludedStays ==
  ASSUME NEW ids, NEW books, books \subseteq Books, ids # {} => books \subseteq ids,
         NEW way \in Included(books)
  PROVE  Stays(way, ids)
<1>1. CASE Cardinality(books) <= MultiBook
  BY <1>1, AnsweredStays DEF Included
<1>2. CASE ~(Cardinality(books) <= MultiBook)
  <2>1. PICK some \in kSubset(MultiBook, books) : way \in Answered(some)
    BY <1>2 DEF Included
  <2>2. some \subseteq Books /\ (ids # {} => some \subseteq ids)
    BY <2>1 DEF kSubset
  <2> QED
    BY <2>1, <2>2, AnsweredStays
<1> QED
  BY <1>1, <1>2

\* Whichever way the question takes.
LEMMA PrepareStays ==
  ASSUME NEW intent, NEW profile, NEW ids, NEW texts, NEW history,
         NEW way \in Prepare(intent, profile, ids, texts, history)
  PROVE  Stays(way, ids)
<1> DEFINE target == TargetBooks(profile, ids)
           books == Meant(profile, target, texts, history)
<1> USE DEF Outcome
<1>1. target.books \subseteq Books /\ (ids # {} => target.books \subseteq ids /\ target.narrowed)
  BY DEF TargetBooks, Visible
<1>2. books \subseteq Books /\ (ids # {} => books \subseteq ids)
  BY <1>1 DEF Meant, BookFromConversation
<1> HIDE DEF target, books
<1>3. CASE way \in PrepareOverview(profile, ids, texts, history)
  BY <1>2, <1>3, FixedStays, IncludedStays DEF PrepareOverview, target, books
<1>4. CASE way \in PrepareMetadata(profile, ids, texts, history)
  BY <1>4, FixedStays, SearchStays DEF PrepareMetadata
<1>5. CASE way \in PrepareCompare(profile, ids)
  BY <1>1, <1>5, FixedStays, IncludedStays DEF PrepareCompare, target
<1>6. CASE way \in PrepareLookup(ids) \/ way \in Search(ids, "refusal")
  BY <1>6, SearchStays DEF PrepareLookup
<1>7. CASE way \in Fixed("conversational")
  BY <1>7, FixedStays
<1> QED
  BY <1>3, <1>4, <1>5, <1>6, <1>7 DEF Prepare

\* And then of those books only the ones there are.
LEMMA FoundStays ==
  ASSUME NEW ids, NEW way, Stays(way, ids), way[1] = "answered" => Found(way[2]) # {}
  PROVE  Stays(<<way[1], Found(way[2])>>, ids)
BY DEF Stays, Found

-----------------------------------------------------------------------------
(***************************************************************************)
(* The messages and the turns.                                             *)
(***************************************************************************)
\* A sequence with one more at its end.
LEMMA Grown ==
  ASSUME NEW S, NEW seq \in Seq(S), NEW e
  PROVE  /\ Append(seq, e) \in Seq(S \cup {e})
         /\ Len(Append(seq, e)) = Len(seq) + 1
         /\ \A i \in 1..Len(seq) : Append(seq, e)[i] = seq[i]
         /\ Append(seq, e)[Len(seq) + 1] = e
<1>1. seq \in Seq(S \cup {e}) /\ e \in S \cup {e}
  OBVIOUS
<1> QED
  BY <1>1, AppendProperties

\* Every message has a turn, and each turn is in a step of its own.
Step == {"committing", "streaming", "filing", "over"}

Shaped ==
  /\ said \in Seq(Texts)
  /\ \E S : turn \in Seq(S)
  /\ Len(turn) = Len(said)
  /\ pc \in Seq(Step)
  /\ Len(pc) = Len(said)

LEMMA NextShaped ==
  ASSUME Shaped, [Next]_vars
  PROVE  Shaped'
<1> USE DEF Shaped
<1>1. ASSUME NEW text \in Texts, Ask(text)
      PROVE  Shaped'
  <2>1. said' \in Seq(Texts) /\ Len(said') = Len(said) + 1
    BY <1>1, AppendProperties DEF Ask
  <2>2. pc' \in Seq(Step) /\ Len(pc') = Len(pc) + 1
    BY <1>1, AppendProperties DEF Ask, Step
  <2>3. PICK S : turn \in Seq(S)
    OBVIOUS
  <2>4. PICK e : turn' = Append(turn, e)
    BY <1>1 DEF Ask
  <2>5. turn' \in Seq(S \cup {e}) /\ Len(turn') = Len(turn) + 1
    BY <2>3, <2>4, Grown
  <2> QED
    BY <2>1, <2>2, <2>5
<1>2. ASSUME UNCHANGED <<said, turn>>, DOMAIN pc' = DOMAIN pc, \A n \in DOMAIN pc : pc'[n] \in Step,
             pc' = [n \in DOMAIN pc |-> pc'[n]]
      PROVE  Shaped'
  <2>1. pc' \in [1..Len(pc) -> Step] /\ Len(pc) \in Nat
    BY <1>2
  <2>2. pc' \in Seq(Step) /\ Len(pc') = Len(pc)
    BY <2>1
  <2> QED
    BY <1>2, <2>2
<1>3. \A n \in DOMAIN said : n \in DOMAIN pc /\ pc[n] \in Step
  OBVIOUS
<1>4. CASE LibraryChanges \/ UNCHANGED vars
  BY <1>4 DEF LibraryChanges, vars
<1>5. CASE Crash
  BY <1>2, <1>5 DEF Crash, Step
<1>6. ASSUME NEW n \in DOMAIN said,
             \/ Commit(n) \/ Speak(n) \/ StreamEnds(n) \/ File(n) \/ FileLate(n)
             \/ RequestFails(n) \/ StreamBreaks(n) \/ LeaveWhileFiling(n)
      PROVE  Shaped'
  <2>1. \/ UNCHANGED <<said, turn, pc>>
        \/ \E step \in Step : pc' = [pc EXCEPT ![n] = step] /\ UNCHANGED <<said, turn>>
    BY <1>6 DEF Commit, Speak, StreamEnds, File, FileLate, RequestFails, StreamBreaks,
                LeaveWhileFiling, Detach, Step
  <2> QED
    BY <1>2, <1>3, <2>1
<1> QED
  BY <1>1, <1>4, <1>5, <1>6 DEF Next, Works

THEOREM AlwaysShaped == Spec => []Shaped
<1>1. Init => Shaped
  BY EmptySeq DEF Init, Shaped
<1> QED
  BY <1>1, NextShaped, PTL DEF Spec

\* A message that arrives is the last one, and those before it keep their turns.
LEMMA AskGrows ==
  ASSUME Shaped, NEW text \in Texts, Ask(text)
  PROVE  LET N == Len(said) + 1 IN
         /\ Len(said') = N /\ said'[N] = text
         /\ \A n \in 1..Len(said) : said'[n] = said[n] /\ turn'[n] = turn[n] /\ pc'[n] = pc[n]
         /\ pc'[N] = "committing"
         /\ N \in 1..N /\ \A n \in 1..N : n = N \/ n \in 1..Len(said)
<1> USE DEF Shaped
<1>1. said' = Append(said, text) /\ pc' = Append(pc, "committing")
  BY DEF Ask
<1>2. Len(said') = Len(said) + 1 /\ said'[Len(said) + 1] = text
        /\ \A n \in 1..Len(said) : said'[n] = said[n]
  BY <1>1, AppendProperties
<1>3. pc'[Len(said) + 1] = "committing" /\ \A n \in 1..Len(said) : pc'[n] = pc[n]
  BY <1>1, AppendProperties DEF Step
<1>4. PICK S : turn \in Seq(S)
  OBVIOUS
<1>5. PICK e : turn' = Append(turn, e)
  BY DEF Ask
<1>6. \A n \in 1..Len(said) : turn'[n] = turn[n]
  BY <1>4, <1>5, Grown
<1>7. Len(said) \in Nat
  OBVIOUS
<1> QED
  BY <1>2, <1>3, <1>6, <1>7

\* What was decided of it is one of the ways its question can take.
LEMMA AskDecides ==
  ASSUME Shaped, NEW text \in Texts, Ask(text)
  PROVE  LET N == Len(said) + 1 IN
         /\ Stays(<<turn'[N].outcome, turn'[N].cites>>, turn'[N].limit)
         /\ text.ids # {} => turn'[N].limit = text.ids
<1> DEFINE texts == Append(said, text)
           what == Resolved(Len(said) + 1, text, History)
           about == About(what.asked, texts, History)
<1>1. PICK way \in Prepare(texts[what.asked].intent, Profile(about, texts), what.ids,
                           texts, History) :
        /\ way[1] = "answered" => Found(way[2]) # {}
        /\ turn' = Append(turn, [asked |-> what.asked, about |-> about, limit |-> what.ids,
                                 outcome |-> way[1], cites |-> Found(way[2])])
  BY DEF Ask
<1>2. text.ids # {} => what.ids = text.ids
  BY DEF Resolved, Resumes
<1>3. Stays(<<way[1], Found(way[2])>>, what.ids)
  BY <1>1, PrepareStays, FoundStays
<1> HIDE DEF texts, what, about
<1>4. turn'[Len(said) + 1] = [asked |-> what.asked, about |-> about, limit |-> what.ids,
                              outcome |-> way[1], cites |-> Found(way[2])]
  BY <1>1, Grown DEF Shaped
<1> QED
  BY <1>2, <1>3, <1>4 DEF Stays

\* The model is asked for words only over sources, and a reader who picked books is answered
\* from no other, whatever the search finds and whatever the library becomes.
THEOREM StaysWithinBooksHolds == Spec => []StaysWithinBooks
<1>1. Init => StaysWithinBooks
  BY DEF Init, StaysWithinBooks
<1>2. Shaped /\ StaysWithinBooks /\ [Next]_vars => StaysWithinBooks'
  <2> SUFFICES ASSUME Shaped, StaysWithinBooks, [Next]_vars
               PROVE  StaysWithinBooks'
    OBVIOUS
  <2>1. CASE UNCHANGED <<said, turn>>
    BY <2>1 DEF StaysWithinBooks
  <2>2. ASSUME NEW text \in Texts, Ask(text)
        PROVE  StaysWithinBooks'
    <3>1. Shaped'
      BY NextShaped
    <3>2. \A n \in 1..Len(said) : said'[n] = said[n] /\ turn'[n] = turn[n]
      BY <2>2, AskGrows
    <3>3. Len(said') = Len(said) + 1 /\ said'[Len(said) + 1] = text
            /\ \A n \in 1..Len(said) + 1 : n = Len(said) + 1 \/ n \in 1..Len(said)
      BY <2>2, AskGrows
    <3>4. /\ Stays(<<turn'[Len(said) + 1].outcome, turn'[Len(said) + 1].cites>>,
                   turn'[Len(said) + 1].limit)
          /\ text.ids # {} => turn'[Len(said) + 1].limit = text.ids
      BY <2>2, AskDecides
    <3>5. DOMAIN said = 1..Len(said) /\ DOMAIN said' = 1..Len(said) + 1
      BY <3>1, <3>3 DEF Shaped
    <3> QED
      BY <3>2, <3>3, <3>4, <3>5 DEF StaysWithinBooks, Stays
  <2> QED
    BY <2>1, <2>2 DEF Next, Works, Commit, Speak, StreamEnds, File, FileLate, RequestFails,
                      StreamBreaks, LeaveWhileFiling, Detach, Crash, LibraryChanges, vars
<1> QED
  BY <1>1, <1>2, AlwaysShaped, PTL DEF Spec

-----------------------------------------------------------------------------
(***************************************************************************)
(* The log reads as a dialogue.                                            *)
(***************************************************************************)
Entry == [n : Nat, role : {"user", "assistant"}]

\* What is in the log, and under way to it, is of messages that were sent.
Logged ==
  /\ log \in Seq(Entry)
  /\ \A i \in 1..Len(log) : log[i].n \in 1..Len(said)
  /\ {committed, late, cut} \subseteq SUBSET (1..Len(said))

\* An answer under way is of a question that is filed, and is not in the log yet; if the tab
\* was closed while it was being filed it may be there, once.
OnceFiled ==
  \A n \in 1..Len(said) :
    /\ pc[n] \in {"streaming", "filing"} => n \in committed
    /\ n \in late \/ AnswersTo(n) # {} => n \in committed
    /\ pc[n] # "over" => AnswersTo(n) = {} /\ n \notin late /\ n \notin cut
    /\ n \in late => Cardinality(AnswersTo(n)) <= IF n \in cut THEN 1 ELSE 0
    /\ Cardinality(AnswersTo(n)) <= IF n \in cut THEN 2 ELSE 1

\* As long as each message waited for the turn before it, only the last one is under way,
\* and the log ends with it.
InTurn ==
  ~mixed =>
    /\ \A n \in 1..Len(said) : pc[n] # "over" \/ n \in late =>
         n = Len(said) /\ log # <<>> /\ log[Len(log)].n = n
    /\ \A i \in 1..Len(log) : log[i].role = "assistant" =>
         i - 1 \in 1..Len(log) /\ log[i - 1].n = log[i].n

Dialogue == Logged /\ OnceFiled /\ InTurn

LEMMA FiniteAnswers ==
  ASSUME Logged, NEW n
  PROVE  /\ AnswersTo(n) \subseteq 1..Len(log)
         /\ IsFiniteSet(AnswersTo(n)) /\ Cardinality(AnswersTo(n)) \in Nat
<1>1. Len(log) \in Nat /\ DOMAIN log = 1..Len(log)
  BY DEF Logged
<1>2. AnswersTo(n) \subseteq 1..Len(log)
  BY <1>1 DEF AnswersTo
<1>3. IsFiniteSet(1..Len(log))
  BY <1>1, FS_Interval
<1> QED
  BY <1>2, <1>3, FS_Subset, FS_CardinalityType

\* What an entry appended to the log changes.
LEMMA LogGrows ==
  ASSUME Logged, NEW m \in Nat, NEW role \in {"user", "assistant"},
         log' = Append(log, [n |-> m, role |-> role])
  PROVE  /\ log' \in Seq(Entry) /\ Len(log') = Len(log) + 1
         /\ \A i \in 1..Len(log) : log'[i] = log[i]
         /\ log'[Len(log) + 1] = [n |-> m, role |-> role]
         /\ \A n : AnswersTo(n)' = AnswersTo(n) \cup
              (IF n = m /\ role = "assistant" THEN {Len(log) + 1} ELSE {})
         /\ \A n : Len(log) + 1 \notin AnswersTo(n)
<1> DEFINE e == [n |-> m, role |-> role]
<1>1. e \in Entry /\ log \in Seq(Entry) /\ log' = Append(log, e)
  BY DEF Entry, Logged
<1> HIDE DEF e
<1>2. /\ log' \in Seq(Entry) /\ Len(log') = Len(log) + 1
      /\ \A i \in 1..Len(log) : log'[i] = log[i]
      /\ log'[Len(log) + 1] = e
  BY <1>1, AppendProperties
<1>3. /\ Len(log) \in Nat /\ DOMAIN log = 1..Len(log) /\ DOMAIN log' = 1..Len(log) + 1
      /\ \A i : i \in 1..Len(log) + 1 <=> i \in 1..Len(log) \/ i = Len(log) + 1
      /\ Len(log) + 1 \notin 1..Len(log)
  BY <1>1, <1>2
<1>4. \A n : e = [n |-> n, role |-> "assistant"] <=> n = m /\ role = "assistant"
  BY DEF e
<1>5. ASSUME NEW n
      PROVE  /\ AnswersTo(n)' = AnswersTo(n) \cup
                  (IF n = m /\ role = "assistant" THEN {Len(log) + 1} ELSE {})
             /\ Len(log) + 1 \notin AnswersTo(n)
  <2>1. AnswersTo(n)' = {i \in 1..Len(log) + 1 : log'[i] = [n |-> n, role |-> "assistant"]}
    BY <1>3 DEF AnswersTo
  <2>2. AnswersTo(n) = {i \in 1..Len(log) : log[i] = [n |-> n, role |-> "assistant"]}
    BY <1>3 DEF AnswersTo
  <2> QED
    BY <1>2, <1>3, <1>4, <2>1, <2>2
<1> QED
  BY <1>2, <1>5 DEF e

\* Filing the answer to m, the one under way.
LEMMA FiledGrows ==
  ASSUME Shaped, Dialogue, NEW m \in 1..Len(said), Filed(m), said' = said,
         pc[m] # "over" \/ m \in late, mixed' = mixed
  PROVE  /\ log' \in Seq(Entry)
         /\ \A i \in 1..Len(log') : log'[i].n \in 1..Len(said)
         /\ \A n \in 1..Len(said) \ {m} : AnswersTo(n)' = AnswersTo(n)
         /\ AnswersTo(m)' # {} /\ Cardinality(AnswersTo(m)') = Cardinality(AnswersTo(m)) + 1
         /\ ~mixed => /\ log'[Len(log')].n = m /\ log' # <<>>
                      /\ \A i \in 1..Len(log') : log'[i].role = "assistant" =>
                           i - 1 \in 1..Len(log') /\ log'[i - 1].n = log'[i].n
<1>1. m \in Nat /\ Len(said) \in Nat /\ Len(log) \in Nat /\ Logged
  BY DEF Dialogue, Logged, Shaped
<1>2. log' = Append(log, [n |-> m, role |-> "assistant"])
  BY DEF Filed
<1>3. /\ log' \in Seq(Entry) /\ Len(log') = Len(log) + 1
      /\ \A i \in 1..Len(log) : log'[i] = log[i]
      /\ log'[Len(log) + 1] = [n |-> m, role |-> "assistant"]
      /\ \A n : AnswersTo(n)' = AnswersTo(n) \cup (IF n = m THEN {Len(log) + 1} ELSE {})
      /\ \A n : Len(log) + 1 \notin AnswersTo(n)
  BY <1>1, <1>2, LogGrows
<1>4. \A i \in 1..Len(log') : i \in 1..Len(log) \/ i = Len(log')
  BY <1>1, <1>3
<1>5. \A i \in 1..Len(log') : log'[i].n \in 1..Len(said)
  BY <1>1, <1>3, <1>4 DEF Logged
<1>6. AnswersTo(m)' # {} /\ Cardinality(AnswersTo(m)') = Cardinality(AnswersTo(m)) + 1
  BY <1>1, <1>3, FiniteAnswers, FS_AddElement
<1>7. ASSUME ~mixed
      PROVE  /\ log'[Len(log')].n = m /\ log' # <<>>
             /\ \A i \in 1..Len(log') : log'[i].role = "assistant" =>
                  i - 1 \in 1..Len(log') /\ log'[i - 1].n = log'[i].n
  <2>1. log # <<>> /\ log[Len(log)].n = m
    BY <1>7 DEF Dialogue, InTurn
  <2>2. Len(log) \in 1..Len(log) /\ log' # <<>>
    BY <1>1, <1>3, <2>1 DEF Logged
  <2>3. \A i \in 1..Len(log) : log[i].role = "assistant" =>
          i - 1 \in 1..Len(log) /\ log[i - 1].n = log[i].n
    BY <1>7 DEF Dialogue, InTurn
  <2>4. \A j \in 1..Len(log) : j \in 1..Len(log')
    BY <1>1, <1>3
  <2>5. Len(log') - 1 = Len(log)
    BY <1>1, <1>3
  <2> QED
    BY <1>3, <1>4, <2>1, <2>2, <2>3, <2>4, <2>5
<1> QED
  BY <1>3, <1>5, <1>6, <1>7

\* A message that arrives.
LEMMA AskDialogue ==
  ASSUME Shaped, Dialogue, NEW text \in Texts, Ask(text)
  PROVE  Dialogue'
<1> DEFINE N == Len(said) + 1
<1>1. /\ Len(said) \in Nat /\ Len(log) \in Nat /\ N \in Nat /\ Logged
      /\ DOMAIN said = 1..Len(said) /\ N \notin 1..Len(said)
  BY DEF Dialogue, Logged, Shaped
<1>2. /\ Len(said') = N /\ pc'[N] = "committing" /\ N \in 1..N
      /\ \A n \in 1..Len(said) : pc'[n] = pc[n]
      /\ \A n \in 1..N : n = N \/ n \in 1..Len(said)
  BY AskGrows
<1>3. /\ log' = Append(log, [n |-> N, role |-> "user"])
      /\ UNCHANGED <<committed, late, cut>>
      /\ mixed' = (mixed \/ Going # {} \/ late # {})
  BY DEF Ask
<1> HIDE DEF N
<1>4. /\ log' \in Seq(Entry) /\ Len(log') = Len(log) + 1
      /\ \A i \in 1..Len(log) : log'[i] = log[i]
      /\ log'[Len(log) + 1] = [n |-> N, role |-> "user"]
      /\ \A n : AnswersTo(n)' = AnswersTo(n)
  BY <1>1, <1>3, LogGrows
<1>5. \A i \in 1..Len(log') : i \in 1..Len(log) \/ i = Len(log) + 1
  BY <1>1, <1>4
<1>6. \A n \in 1..Len(said) : n \in 1..N
  BY <1>1 DEF N
<1>7. Logged'
  BY <1>2, <1>3, <1>4, <1>5, <1>6 DEF Dialogue, Logged
<1>8. AnswersTo(N) = {} /\ N \notin late /\ N \notin cut
  BY <1>1, FiniteAnswers DEF Logged, AnswersTo
<1>9. OnceFiled'
  <2> SUFFICES ASSUME NEW n \in 1..N
               PROVE  /\ pc'[n] \in {"streaming", "filing"} => n \in committed'
                      /\ n \in late' \/ AnswersTo(n)' # {} => n \in committed'
                      /\ pc'[n] # "over" => AnswersTo(n)' = {} /\ n \notin late' /\ n \notin cut'
                      /\ n \in late' => Cardinality(AnswersTo(n)') <= IF n \in cut' THEN 1 ELSE 0
                      /\ Cardinality(AnswersTo(n)') <= IF n \in cut' THEN 2 ELSE 1
    BY <1>2 DEF OnceFiled
  <2>1. CASE n = N
    <3>1. AnswersTo(n) = {} /\ Cardinality(AnswersTo(n)) <= 1
      BY <1>8, <2>1, FS_EmptySet
    <3> QED
      BY <1>2, <1>3, <1>4, <1>8, <2>1, <3>1
  <2>2. CASE n \in 1..Len(said)
    BY <1>2, <1>3, <1>4, <2>2 DEF Dialogue, OnceFiled
  <2> QED
    BY <1>2, <2>1, <2>2
<1>10. InTurn'
  <2> SUFFICES ASSUME ~mixed'
               PROVE  /\ \A n \in 1..N : pc'[n] # "over" \/ n \in late' =>
                           n = N /\ log' # <<>> /\ log'[Len(log')].n = n
                      /\ \A i \in 1..Len(log') : log'[i].role = "assistant" =>
                           i - 1 \in 1..Len(log') /\ log'[i - 1].n = log'[i].n
    BY <1>2 DEF InTurn
  <2>1. ~mixed /\ late = {} /\ \A n \in 1..Len(said) : pc[n] = "over"
    BY <1>1, <1>3 DEF Going
  <2>2. log' # <<>> /\ log'[Len(log')].n = N
    BY <1>1, <1>4
  <2>3. \A i \in 1..Len(log) : log[i].role = "assistant" =>
          i - 1 \in 1..Len(log) /\ log[i - 1].n = log[i].n
    BY <2>1 DEF Dialogue, InTurn
  <2>4. \A j \in 1..Len(log) : j \in 1..Len(log')
    BY <1>1, <1>4
  <2> QED
    BY <1>2, <1>3, <1>4, <1>5, <2>1, <2>2, <2>3, <2>4
<1> QED
  BY <1>7, <1>9, <1>10 DEF Dialogue

\* A turn goes on and leaves the log alone.
LEMMA QuietDialogue ==
  ASSUME Shaped, Dialogue, NEW n \in 1..Len(said),
         UNCHANGED <<said, log, mixed>>,
         pc[n] # "over" \/ n \in late,
         \A m \in 1..Len(said) \ {n} : pc'[m] = pc[m],
         committed \subseteq committed', late' \subseteq late \cup {n},
         cut \subseteq cut', cut' \subseteq cut \cup {n},
         committed' \subseteq 1..Len(said),
         pc'[n] \in {"streaming", "filing"} \/ n \in late' => n \in committed',
         pc'[n] # "over" => pc[n] # "over" /\ n \notin late' /\ n \notin cut',
         n \in late' => Cardinality(AnswersTo(n)) <= IF n \in cut' THEN 1 ELSE 0
  PROVE  Dialogue'
<1>1. \A m : AnswersTo(m)' = AnswersTo(m)
  BY DEF AnswersTo
<1>2. Logged'
  BY DEF Dialogue, Logged
<1>3. Cardinality(AnswersTo(n)) \in Nat
  BY FiniteAnswers DEF Dialogue
<1>4. Cardinality(AnswersTo(n)) <= IF n \in cut' THEN 2 ELSE 1
  BY <1>3 DEF Dialogue, OnceFiled
<1>5. OnceFiled'
  BY <1>1, <1>4 DEF Dialogue, OnceFiled
<1>6. InTurn'
  BY DEF Dialogue, InTurn
<1> QED
  BY <1>2, <1>5, <1>6 DEF Dialogue

\* A turn that is over files its answer.
LEMMA FiledDialogue ==
  ASSUME Shaped, Dialogue, NEW n \in 1..Len(said),
         Filed(n), UNCHANGED <<said, committed, mixed>>,
         pc[n] # "over" \/ n \in late, n \in committed, pc'[n] = "over",
         \A m \in 1..Len(said) \ {n} : pc'[m] = pc[m],
         late' \subseteq late \cup {n}, cut \subseteq cut', cut' \subseteq cut \cup {n},
         Cardinality(AnswersTo(n)) + 1 <= IF n \in cut' THEN 2 ELSE 1,
         n \in late' => Cardinality(AnswersTo(n)) + 1 <= IF n \in cut' THEN 1 ELSE 0
  PROVE  Dialogue'
<1>1. /\ log' \in Seq(Entry)
      /\ \A i \in 1..Len(log') : log'[i].n \in 1..Len(said)
      /\ \A m \in 1..Len(said) \ {n} : AnswersTo(m)' = AnswersTo(m)
      /\ AnswersTo(n)' # {} /\ Cardinality(AnswersTo(n)') = Cardinality(AnswersTo(n)) + 1
      /\ ~mixed => /\ log'[Len(log')].n = n /\ log' # <<>>
                   /\ \A i \in 1..Len(log') : log'[i].role = "assistant" =>
                        i - 1 \in 1..Len(log') /\ log'[i - 1].n = log'[i].n
  BY FiledGrows
<1>2. Logged'
  BY <1>1 DEF Dialogue, Logged
<1>3. OnceFiled'
  BY <1>1 DEF Dialogue, OnceFiled
<1>4. InTurn'
  BY <1>1 DEF Dialogue, InTurn
<1> QED
  BY <1>2, <1>3, <1>4 DEF Dialogue

LEMMA TurnDialogue ==
  ASSUME Shaped, Dialogue, NEW n \in DOMAIN said,
         \/ Commit(n) \/ Speak(n) \/ StreamEnds(n) \/ File(n) \/ FileLate(n)
         \/ RequestFails(n) \/ StreamBreaks(n) \/ LeaveWhileFiling(n)
  PROVE  Dialogue'
<1>1. /\ n \in 1..Len(said) /\ \A step : pc' = [pc EXCEPT ![n] = step] =>
           pc'[n] = step /\ \A m \in 1..Len(said) \ {n} : pc'[m] = pc[m]
  BY DEF Shaped
<1>2. /\ pc[n] \in {"streaming", "filing"} => n \in committed
      /\ n \in late => n \in committed /\ pc[n] = "over"
      /\ n \in late => Cardinality(AnswersTo(n)) <= IF n \in cut THEN 1 ELSE 0
      /\ pc[n] # "over" => AnswersTo(n) = {} /\ n \notin late /\ n \notin cut
  BY <1>1 DEF Dialogue, OnceFiled
<1>3. Cardinality({}) = 0 /\ Cardinality(AnswersTo(n)) \in Nat
  BY FS_EmptySet, FiniteAnswers DEF Dialogue
<1>4. committed \subseteq 1..Len(said)
  BY DEF Dialogue, Logged
<1>5. CASE Commit(n)
  BY <1>1, <1>2, <1>4, <1>5, QuietDialogue DEF Commit
<1>6. CASE Speak(n)
  BY <1>1, <1>2, <1>4, <1>6, QuietDialogue DEF Speak
<1>7. CASE StreamEnds(n)
  BY <1>1, <1>2, <1>4, <1>7, QuietDialogue DEF StreamEnds
<1>8. CASE RequestFails(n)
  BY <1>1, <1>2, <1>4, <1>8, QuietDialogue DEF RequestFails
<1>9. CASE StreamBreaks(n)
  <2>1. Cardinality(AnswersTo(n)) <= IF n \in cut' THEN 1 ELSE 0
    BY <1>2, <1>3, <1>9 DEF StreamBreaks
  <2>2. pc[n] = "streaming" /\ UNCHANGED <<said, log, committed, cut, mixed>>
    BY <1>9 DEF StreamBreaks
  <2>3. pc'[n] = "over" /\ late' \subseteq late \cup {n}
          /\ \A m \in 1..Len(said) \ {n} : pc'[m] = pc[m]
    BY <1>1, <1>9 DEF StreamBreaks, Detach
  <2> QED
    BY <1>1, <1>2, <1>4, <2>1, <2>2, <2>3, QuietDialogue
<1>10. CASE File(n)
  <2>1. Cardinality(AnswersTo(n)) + 1 <= IF n \in cut' THEN 2 ELSE 1
    <3>1. AnswersTo(n) = {} /\ n \notin cut'
      BY <1>2, <1>10 DEF File
    <3> QED
      BY <1>3, <3>1
  <2>2. CASE Filed(n)
    BY <1>1, <1>2, <1>10, <2>1, <2>2, FiledDialogue DEF File
  <2>3. CASE UNCHANGED log
    BY <1>1, <1>2, <1>4, <1>10, <2>3, QuietDialogue DEF File
  <2> QED
    BY <1>10, <2>2, <2>3 DEF File
<1>11. CASE LeaveWhileFiling(n)
  <2>1. /\ Cardinality(AnswersTo(n)) <= IF n \in cut' THEN 1 ELSE 0
        /\ Cardinality(AnswersTo(n)) + 1 <= IF n \in cut' THEN 1 ELSE 0
        /\ Cardinality(AnswersTo(n)) + 1 <= IF n \in cut' THEN 2 ELSE 1
    BY <1>2, <1>3, <1>11 DEF LeaveWhileFiling
  <2>2. /\ pc[n] = "filing" /\ cut' = cut \cup {n} /\ UNCHANGED <<said, committed, mixed>>
        /\ Filed(n) \/ UNCHANGED log
    BY <1>11 DEF LeaveWhileFiling
  <2>3. pc'[n] = "over" /\ late' \subseteq late \cup {n}
          /\ \A m \in 1..Len(said) \ {n} : pc'[m] = pc[m]
    BY <1>1, <1>11 DEF LeaveWhileFiling, Detach
  <2>4. CASE Filed(n)
    BY <1>1, <1>2, <2>1, <2>2, <2>3, <2>4, FiledDialogue
  <2>5. CASE UNCHANGED log
    BY <1>1, <1>2, <1>4, <2>1, <2>2, <2>3, <2>5, QuietDialogue
  <2> QED
    BY <2>2, <2>4, <2>5
<1>12. CASE FileLate(n)
  <2>1. Cardinality(AnswersTo(n)) + 1 <= IF n \in cut THEN 2 ELSE 1
    BY <1>2, <1>3, <1>12 DEF FileLate
  <2>2. CASE Filed(n)
    BY <1>1, <1>2, <1>12, <2>1, <2>2, FiledDialogue DEF FileLate
  <2>3. CASE UNCHANGED log
    BY <1>1, <1>2, <1>4, <1>12, <2>3, QuietDialogue DEF FileLate
  <2> QED
    BY <1>12, <2>2, <2>3 DEF FileLate
<1> QED
  BY <1>5, <1>6, <1>7, <1>8, <1>9, <1>10, <1>11, <1>12

THEOREM AlwaysDialogue == Spec => []Dialogue
<1>1. Init => Dialogue
  <2> SUFFICES ASSUME Init PROVE Dialogue
    OBVIOUS
  <2>1. said = <<>> /\ log = <<>> /\ log \in Seq(Entry) /\ Len(said) = 0 /\ Len(log) = 0
    BY EmptySeq DEF Init
  <2>2. 1..Len(said) = {} /\ 1..Len(log) = {}
    BY <2>1
  <2> QED
    BY <2>1, <2>2 DEF Init, Dialogue, Logged, OnceFiled, InTurn
<1>2. Shaped /\ Dialogue /\ [Next]_vars => Dialogue'
  <2> SUFFICES ASSUME Shaped, Dialogue, [Next]_vars
               PROVE  Dialogue'
    OBVIOUS
  <2>1. CASE LibraryChanges \/ UNCHANGED vars
    <3>1. UNCHANGED <<said, pc, log, committed, late, cut, mixed>>
      BY <2>1 DEF LibraryChanges, vars
    <3>2. \A n : AnswersTo(n)' = AnswersTo(n)
      BY <3>1 DEF AnswersTo
    <3>3. Logged' /\ InTurn'
      BY <3>1 DEF Dialogue, Logged, InTurn
    <3>4. OnceFiled'
      BY <3>1, <3>2 DEF Dialogue, OnceFiled
    <3> QED
      BY <3>3, <3>4 DEF Dialogue
  <2>2. CASE Crash
    <3>1. /\ UNCHANGED <<said, log, committed, cut, mixed>> /\ late' = {}
          /\ \A n \in 1..Len(said) : pc'[n] = "over"
      BY <2>2 DEF Crash, Shaped
    <3>2. \A n : AnswersTo(n)' = AnswersTo(n)
      BY <3>1 DEF AnswersTo
    <3>3. Logged'
      BY <3>1 DEF Dialogue, Logged
    <3>4. OnceFiled'
      <4> SUFFICES ASSUME NEW n \in 1..Len(said)
                   PROVE  /\ n \in committed \/ AnswersTo(n) = {}
                          /\ Cardinality(AnswersTo(n)) <= IF n \in cut THEN 2 ELSE 1
        BY <3>1, <3>2 DEF OnceFiled
      <4> QED
        BY DEF Dialogue, OnceFiled
    <3>5. InTurn'
      BY <3>1 DEF Dialogue, InTurn
    <3> QED
      BY <3>3, <3>4, <3>5 DEF Dialogue
  <2> QED
    BY <2>1, <2>2, AskDialogue, TurnDialogue DEF Next, Works
<1> QED
  BY <1>1, <1>2, AlwaysShaped, PTL DEF Spec

\* However streams break, tabs close and processes die, a question is filed before its
\* answer and its answer once, right under it as long as messages wait for each other.
THEOREM ReadsAsADialogueHolds == Spec => []ReadsAsADialogue
<1>1. Shaped /\ Dialogue => ReadsAsADialogue
  <2> SUFFICES ASSUME Shaped, Dialogue, NEW n \in 1..Len(said)
               PROVE  /\ Cardinality(AnswersTo(n)) <= IF n \in cut THEN 2 ELSE 1
                      /\ AnswersTo(n) # {} => n \in committed
                      /\ \A i \in AnswersTo(n) : ~mixed => log[i - 1].n = n
    BY DEF ReadsAsADialogue, Shaped
  <2>1. \A i \in AnswersTo(n) : i \in 1..Len(log) /\ log[i].role = "assistant" /\ log[i].n = n
    BY FiniteAnswers DEF Dialogue, AnswersTo
  <2> QED
    BY <2>1 DEF Dialogue, OnceFiled, InTurn
<1> QED
  BY <1>1, AlwaysShaped, AlwaysDialogue, PTL

-----------------------------------------------------------------------------
(***************************************************************************)
(* What a turn is given of the conversation.                               *)
(***************************************************************************)
\* The last of some places in the log.
LEMMA LastPlace ==
  ASSUME Logged, NEW S, S \subseteq 1..Len(log), S # {}
  PROVE  Max(S) \in S /\ Max(S) \in 1..Len(log) /\ \A i \in S : i <= Max(S)
<1>1. IsFiniteSet(1..Len(log))
  BY FS_Interval DEF Logged
<1>2. IsFiniteSet(S) /\ S \subseteq Int
  <2>1. S \in SUBSET (1..Len(log)) /\ S \subseteq Int
    BY DEF Logged
  <2> QED
    BY <1>1, <2>1, FS_Subset
<1>3. Max(S) \in S /\ \A i \in S : Max(S) >= i
  BY <1>2, MaxIs
<1> QED
  BY <1>2, <1>3

LEMMA Places ==
  ASSUME Logged
  PROVE  /\ DOMAIN log = 1..Len(log) /\ Len(log) \in Nat
         /\ History \subseteq Transcript /\ Transcript \subseteq 1..Len(log)
         /\ Readers(History) \subseteq History
         /\ Readers(History) # {} => LastAsked(History) \in 1..Len(said)
<1>1. DOMAIN log = 1..Len(log) /\ Len(log) \in Nat
  BY DEF Logged
<1>2. /\ History \subseteq Transcript /\ Transcript \subseteq 1..Len(log)
      /\ Readers(History) \subseteq History
  BY <1>1 DEF History, Transcript, Readers
<1>3. ASSUME Readers(History) # {}
      PROVE  LastAsked(History) \in 1..Len(said)
  BY <1>2, <1>3, LastPlace DEF LastAsked, Logged
<1> QED
  BY <1>1, <1>2, <1>3

\* The turn that is decided on.
LEMMA AskTurn ==
  ASSUME Shaped, NEW text \in Texts, Ask(text)
  PROVE  LET N == Len(said) + 1
             what == Resolved(N, text, History)
             about == About(what.asked, Append(said, text), History)
         IN \E way \in Prepare(Append(said, text)[what.asked].intent,
                               Profile(about, Append(said, text)), what.ids,
                               Append(said, text), History) :
              /\ Stays(<<way[1], Found(way[2])>>, what.ids)
              /\ turn'[N] = [asked |-> what.asked, about |-> about, limit |-> what.ids,
                             outcome |-> way[1], cites |-> Found(way[2])]
<1> DEFINE N == Len(said) + 1
           texts == Append(said, text)
           what == Resolved(N, text, History)
           about == About(what.asked, texts, History)
<1>1. PICK way \in Prepare(texts[what.asked].intent, Profile(about, texts), what.ids,
                           texts, History) :
        /\ way[1] = "answered" => Found(way[2]) # {}
        /\ turn' = Append(turn, [asked |-> what.asked, about |-> about, limit |-> what.ids,
                                 outcome |-> way[1], cites |-> Found(way[2])])
  BY DEF Ask
<1>2. Stays(<<way[1], Found(way[2])>>, what.ids)
  BY <1>1, PrepareStays, FoundStays
<1>3. turn'[N] = [asked |-> what.asked, about |-> about, limit |-> what.ids,
                  outcome |-> way[1], cites |-> Found(way[2])]
  <2> HIDE DEF texts, what, about
  <2> QED
    BY <1>1, Grown DEF Shaped
<1> QED
  BY <1>1, <1>2, <1>3

LEMMA AskTyped ==
  ASSUME Shaped, Logged, Len(said) < MaxAsks, NEW text \in Texts, Ask(text)
  PROVE  turn'[Len(said) + 1] \in Turn
<1> DEFINE N == Len(said) + 1
           texts == Append(said, text)
           what == Resolved(N, text, History)
           about == About(what.asked, texts, History)
<1>1. PICK way : /\ Stays(<<way[1], Found(way[2])>>, what.ids)
                 /\ turn'[N] = [asked |-> what.asked, about |-> about, limit |-> what.ids,
                                outcome |-> way[1], cites |-> Found(way[2])]
  BY AskTurn
<1>2. Len(said) \in Nat /\ MaxAsks \in Nat /\ N \in Asks /\ \A n \in 1..Len(said) : n \in Asks
  BY TextsAssumption DEF Shaped, Asks
<1>3. text.ids \subseteq Books /\ text.names \subseteq Books
  BY TextsAssumption
<1>4. what.asked \in Asks /\ what.ids \subseteq Books
  <2>1. CASE Resumes(text, History)
    <3>1. what = [asked |-> LastAsked(History), ids |-> Chosen(text)]
      BY <2>1 DEF Resolved
    <3>2. Readers(History) # {}
      BY <2>1 DEF Resumes
    <3>3. Chosen(text) \subseteq Books
      BY <1>3 DEF Chosen, Visible
    <3> HIDE DEF what
    <3> QED
      BY <1>2, <3>1, <3>2, <3>3, Places
  <2>2. CASE ~Resumes(text, History)
    <3>1. what = [asked |-> N, ids |-> text.ids]
      BY <2>2 DEF Resolved
    <3> HIDE DEF what, N
    <3> QED
      BY <1>2, <1>3, <3>1
  <2> QED
    BY <2>1, <2>2
<1>5. about \subseteq Asks
  <2> HIDE DEF what, texts
  <2> QED
    BY <1>2, <1>4, Places DEF About
<1> HIDE DEF what, about, N
<1> QED
  BY <1>1, <1>4, <1>5 DEF Turn, Stays, N

\* The types that Shaped and Logged do not give; and only what was shown is filed.
Typed ==
  /\ library \in [Books -> {"none", "embedding", "ready"}]
  /\ Len(said) <= MaxAsks
  /\ \A n \in 1..Len(said) : turn[n] \in Turn /\ (pc[n] = "filing" => n \in shown)
  /\ {shown, lost} \subseteq SUBSET (1..Len(said)) /\ late \subseteq shown
  /\ mixed \in BOOLEAN /\ changes \in 0..MaxChanges /\ crashes \in 0..MaxCrashes

LEMMA ChangeTyped ==
  ASSUME Typed, Change
  PROVE  library' \in [Books -> {"none", "embedding", "ready"}] /\ changes' \in 0..MaxChanges
BY TextsAssumption DEF Change, Typed

LEMMA AskKeepsTypes ==
  ASSUME Shaped, Dialogue, Typed, NEW text \in Texts, Ask(text)
  PROVE  Typed'
<1>1. Len(said) \in Nat /\ MaxAsks \in Nat /\ Logged /\ Len(said) < MaxAsks
  BY TextsAssumption DEF Shaped, Dialogue, Ask
<1>2. /\ Len(said') = Len(said) + 1 /\ pc'[Len(said) + 1] = "committing"
      /\ \A n \in 1..Len(said) : turn'[n] = turn[n] /\ pc'[n] = pc[n]
      /\ \A n \in 1..Len(said) + 1 : n = Len(said) + 1 \/ n \in 1..Len(said)
  BY AskGrows
<1>3. turn'[Len(said) + 1] \in Turn
  BY <1>1, AskTyped
<1>4. /\ mixed' \in BOOLEAN
      /\ UNCHANGED <<shown, late, lost, crashes>>
  BY DEF Ask
<1>5. 1..Len(said) \subseteq 1..Len(said')
  BY <1>1, <1>2
<1>6. library' \in [Books -> {"none", "embedding", "ready"}] /\ changes' \in 0..MaxChanges
  BY ChangeTyped DEF Ask, Typed
<1> QED
  BY <1>1, <1>2, <1>3, <1>4, <1>5, <1>6 DEF Typed

LEMMA TurnKeepsTypes ==
  ASSUME Shaped, Dialogue, Typed, NEW n \in 1..Len(said),
         \/ Commit(n) \/ Speak(n) \/ StreamEnds(n) \/ File(n) \/ FileLate(n)
         \/ RequestFails(n) \/ StreamBreaks(n) \/ LeaveWhileFiling(n)
  PROVE  Typed'
<1>1. UNCHANGED <<library, said, turn, mixed, changes, crashes>>
  BY DEF Commit, Speak, StreamEnds, File, FileLate, RequestFails, StreamBreaks, LeaveWhileFiling
<1>2. /\ shown \subseteq shown' /\ shown' \subseteq shown \cup {n}
      /\ lost' \subseteq lost \cup {n}
      /\ late' \subseteq late \cup shown
  BY DEF Commit, Speak, StreamEnds, File, FileLate, RequestFails, StreamBreaks, LeaveWhileFiling,
         Detach
<1>3. /\ \A m \in 1..Len(said) \ {n} : pc'[m] = pc[m]
      /\ pc'[n] = "filing" => n \in shown
  BY DEF Commit, Speak, StreamEnds, File, FileLate, RequestFails, StreamBreaks, LeaveWhileFiling,
         Detach, Shaped, Typed
<1>4. \A m \in 1..Len(said) : pc'[m] = "filing" => m \in shown'
  BY <1>2, <1>3 DEF Typed
<1> QED
  BY <1>1, <1>2, <1>4 DEF Typed

THEOREM AlwaysTyped == Spec => []Typed
<1>1. Init => Typed
  <2> SUFFICES ASSUME Init PROVE Typed
    OBVIOUS
  <2>1. Len(said) = 0 /\ 1..Len(said) = {} /\ {MaxAsks, MaxChanges, MaxCrashes} \subseteq Nat
    BY TextsAssumption DEF Init
  <2>2. library \in [Books -> {"none", "embedding", "ready"}]
    BY DEF Init
  <2>3. Len(said) <= MaxAsks /\ 0 \in 0..MaxChanges /\ 0 \in 0..MaxCrashes
    BY <2>1
  <2>4. {shown, lost} \subseteq SUBSET (1..Len(said)) /\ late \subseteq shown
    BY DEF Init
  <2> QED
    BY <2>1, <2>2, <2>3, <2>4 DEF Init, Typed
<1>2. Shaped /\ Dialogue /\ Typed /\ [Next]_vars => Typed'
  <2> SUFFICES ASSUME Shaped, Dialogue, Typed, [Next]_vars
               PROVE  Typed'
    OBVIOUS
  <2>1. CASE UNCHANGED vars
    BY <2>1 DEF Typed, vars
  <2>2. CASE LibraryChanges
    <3>1. /\ library' \in [Books -> {"none", "embedding", "ready"}]
          /\ changes' \in 0..MaxChanges
          /\ UNCHANGED <<said, turn, pc, shown, late, lost, mixed, crashes>>
      BY <2>2, ChangeTyped DEF LibraryChanges
    <3> QED
      BY <3>1 DEF Typed
  <2>3. CASE Crash
    <3>1. /\ UNCHANGED <<library, said, turn, shown, mixed, changes>> /\ late' = {}
          /\ lost' \subseteq lost \cup shown \cup late
          /\ \A n \in 1..Len(said) : pc'[n] = "over"
      BY <2>3 DEF Crash, Shaped
    <3>2. crashes' \in 0..MaxCrashes
      BY <2>3, TextsAssumption DEF Crash, Typed
    <3> QED
      BY <3>1, <3>2 DEF Typed
  <2>4. DOMAIN said = 1..Len(said)
    BY DEF Shaped
  <2> QED
    BY <2>1, <2>2, <2>3, <2>4, AskKeepsTypes, TurnKeepsTypes DEF Next, Works
<1> QED
  BY <1>1, <1>2, AlwaysShaped, AlwaysDialogue, PTL DEF Spec

\* The types of the conversation's records; and an answer on its way to the log, by the
\* stream or by the write that outlives it, is one the reader has seen words of.
THEOREM TypesHold == Spec => []TypeOK
<1>1. Shaped /\ Dialogue /\ Typed => TypeOK
  <2> SUFFICES ASSUME Shaped, Dialogue, Typed PROVE TypeOK
    OBVIOUS
  <2>1. /\ DOMAIN said = 1..Len(said) /\ DOMAIN turn = 1..Len(said) /\ DOMAIN pc = 1..Len(said)
        /\ DOMAIN log = 1..Len(log) /\ Len(said) \in Nat /\ MaxAsks \in Nat
    BY TextsAssumption DEF Shaped, Dialogue, Logged
  <2>2. said \in Seq(Texts) /\ Len(said) <= MaxAsks
    BY <2>1 DEF Shaped, Typed
  <2>3. turn \in [DOMAIN said -> Turn]
    <3>1. turn = [n \in DOMAIN turn |-> turn[n]]
      BY DEF Shaped
    <3> QED
      BY <2>1, <3>1 DEF Typed
  <2>4. pc \in [DOMAIN said -> {"committing", "streaming", "filing", "over"}]
    BY <2>1 DEF Shaped, Step
  <2>5. {shown, committed, late, cut, lost} \subseteq SUBSET DOMAIN said
    BY <2>1 DEF Dialogue, Logged, Typed
  <2>6. late \cup {n \in DOMAIN said : pc[n] = "filing"} \subseteq shown
    BY <2>1 DEF Typed
  <2>7. \A i \in DOMAIN log : log[i] \in [n : DOMAIN said, role : {"user", "assistant"}]
    <3> SUFFICES ASSUME NEW i \in 1..Len(log)
                 PROVE  log[i] \in [n : 1..Len(said), role : {"user", "assistant"}]
      BY <2>1
    <3>1. log[i] \in Entry /\ log[i].n \in 1..Len(said)
      BY DEF Dialogue, Logged
    <3> QED
      BY <3>1 DEF Entry
  <2> QED
    BY <2>2, <2>3, <2>4, <2>5, <2>6, <2>7 DEF TypeOK, Typed
<1> QED
  BY <1>1, AlwaysShaped, AlwaysDialogue, AlwaysTyped, PTL

-----------------------------------------------------------------------------
(***************************************************************************)
(* Which book is meant is asked once.                                      *)
(***************************************************************************)
\* The log is in the order of the messages, an answer after its question, as long as each
\* message waited for the turn before it; and every message is in it.
Ordered ==
  /\ \A n \in 1..Len(said) : \E i \in 1..Len(log) : log[i] = [n |-> n, role |-> "user"]
  /\ ~mixed => \A i, j \in 1..Len(log) : i < j =>
       /\ log[i].n <= log[j].n
       /\ log[j].role = "user" => log[i].n < log[j].n

\* What was decided of a message: a question that is no follow-up is searched with alone, and
\* a reply that chose its books chose all of them or those it names.
Decided ==
  /\ changes \in Nat /\ (changes = 0 => library = [b \in Books |-> "ready"])
  /\ \A n \in 1..Len(said) :
       /\ turn[n].asked \in 1..n
       /\ said[turn[n].asked].intent # "follow_up" => turn[n].about = {turn[n].asked}
       /\ turn[n].asked # n /\ changes = 0 =>
            turn[n].limit = Books \/ turn[n].limit = said[n].names

LEMMA OrderedGrows ==
  ASSUME Shaped, Shaped', Logged, Ordered, NEW m \in Nat, NEW role \in {"user", "assistant"},
         log' = Append(log, [n |-> m, role |-> role]), mixed => mixed',
         \/ role = "user" /\ m = Len(said) + 1 /\ Len(said') = m
         \/ role = "assistant" /\ said' = said /\ (~mixed' => m = Len(said))
  PROVE  Ordered'
<1>1. /\ log' \in Seq(Entry) /\ Len(log') = Len(log) + 1
      /\ \A i \in 1..Len(log) : log'[i] = log[i]
      /\ log'[Len(log) + 1] = [n |-> m, role |-> role]
  BY LogGrows
<1>2. Len(log) \in Nat /\ Len(said) \in Nat /\ \A i \in 1..Len(log) : log[i].n \in 1..Len(said)
  BY DEF Logged, Shaped
<1>3. /\ \A i \in 1..Len(log') : i \in 1..Len(log) \/ i = Len(log) + 1
      /\ 1..Len(log) \subseteq 1..Len(log') /\ Len(log) + 1 \in 1..Len(log')
  BY <1>1, <1>2
<1>4. ASSUME NEW n \in 1..Len(said')
      PROVE  \E i \in 1..Len(log') : log'[i] = [n |-> n, role |-> "user"]
  <2>1. CASE n \in 1..Len(said)
    <3>1. PICK i \in 1..Len(log) : log[i] = [n |-> n, role |-> "user"]
      BY <2>1 DEF Ordered
    <3> QED
      BY <1>1, <1>3, <3>1
  <2>2. CASE n \notin 1..Len(said)
    <3>1. role = "user" /\ n = m
      BY <1>2, <2>2
    <3> QED
      BY <1>1, <1>3, <3>1
  <2> QED
    BY <2>1, <2>2
<1>5. ASSUME ~mixed', NEW i \in 1..Len(log'), NEW j \in 1..Len(log'), i < j
      PROVE  /\ log'[i].n <= log'[j].n
             /\ log'[j].role = "user" => log'[i].n < log'[j].n
  <2>1. i \in 1..Len(log) /\ log'[i] = log[i] /\ log[i].n \in 1..Len(said)
    BY <1>1, <1>2, <1>5
  <2>2. CASE j \in 1..Len(log)
    BY <1>1, <1>5, <2>1, <2>2 DEF Ordered
  <2>3. CASE j = Len(log) + 1
    <3>1. log'[j].n = m /\ log'[j].role = role
      BY <1>1, <2>3
    <3>2. log'[i].n \in 1..Len(said)
      BY <2>1
    <3>3. CASE role = "user" /\ m = Len(said) + 1
      <4>1. log'[i].n < m
        BY <1>2, <3>2, <3>3
      <4> QED
        BY <1>2, <3>1, <3>2, <4>1
    <3>4. CASE role = "assistant" /\ m = Len(said)
      <4>1. log'[i].n <= m
        BY <1>2, <3>2, <3>4
      <4> QED
        BY <3>1, <3>4, <4>1
    <3> QED
      BY <1>5, <3>3, <3>4
  <2> QED
    BY <1>3, <2>2, <2>3
<1> QED
  BY <1>4, <1>5 DEF Ordered

THEOREM AlwaysOrdered == Spec => []Ordered
<1>1. Init => Ordered
  <2> SUFFICES ASSUME Init PROVE Ordered
    OBVIOUS
  <2>1. 1..Len(said) = {} /\ 1..Len(log) = {}
    BY DEF Init
  <2> QED
    BY <2>1 DEF Ordered
<1>2. Shaped /\ Dialogue /\ Ordered /\ [Next]_vars => Ordered'
  <2> SUFFICES ASSUME Shaped, Dialogue, Ordered, [Next]_vars
               PROVE  Ordered'
    OBVIOUS
  <2>1. Shaped' /\ Logged /\ Len(said) \in Nat /\ DOMAIN said = 1..Len(said)
    BY NextShaped DEF Dialogue, Shaped
  <2>2. CASE UNCHANGED <<said, log, mixed>>
    BY <2>2 DEF Ordered
  <2>3. ASSUME NEW text \in Texts, Ask(text) PROVE Ordered'
    <3> DEFINE N == Len(said) + 1
    <3>1. log' = Append(log, [n |-> N, role |-> "user"]) /\ (mixed => mixed')
      BY <2>3 DEF Ask
    <3>2. Len(said') = N /\ N \in Nat
      BY <2>1, <2>3, AskGrows
    <3> HIDE DEF N
    <3> QED
      BY <2>1, <3>1, <3>2, OrderedGrows DEF N
  <2>4. ASSUME NEW n \in 1..Len(said), Filed(n), UNCHANGED <<said, mixed>>,
               pc[n] # "over" \/ n \in late
        PROVE  Ordered'
    <3>1. ~mixed' => n = Len(said)
      BY <2>4 DEF Dialogue, InTurn
    <3>2. n \in Nat /\ log' = Append(log, [n |-> n, role |-> "assistant"])
      BY <2>4 DEF Filed
    <3> QED
      BY <2>1, <2>4, <3>1, <3>2, OrderedGrows
  <2>5. CASE ~(UNCHANGED <<said, log, mixed>>) /\ ~\E text \in Texts : Ask(text)
    <3>1. PICK n \in 1..Len(said) : File(n) \/ FileLate(n) \/ LeaveWhileFiling(n)
      BY <2>1, <2>5 DEF Next, Works, Commit, Speak, StreamEnds, RequestFails, StreamBreaks, Crash,
                        LibraryChanges, vars
    <3>2. /\ Filed(n) \/ UNCHANGED log
          /\ UNCHANGED <<said, mixed>> /\ (pc[n] # "over" \/ n \in late)
      BY <3>1 DEF File, FileLate, LeaveWhileFiling
    <3> QED
      BY <2>4, <2>5, <3>2
  <2> QED
    BY <2>2, <2>3, <2>5
<1> QED
  BY <1>1, <1>2, AlwaysShaped, AlwaysDialogue, PTL DEF Spec

LEMMA AskDecided ==
  ASSUME Shaped, Logged, Decided, NEW text \in Texts, Ask(text)
  PROVE  Decided'
<1> DEFINE N == Len(said) + 1
           texts == Append(said, text)
           what == Resolved(N, text, History)
           about == About(what.asked, texts, History)
<1>1. /\ Len(said) \in Nat /\ N \in 1..N /\ N \notin 1..Len(said) /\ said' = texts /\ Len(said') = N
      /\ \A n \in 1..N : n = N \/ n \in 1..Len(said)
      /\ \A n \in 1..Len(said) : said'[n] = said[n] /\ turn'[n] = turn[n] /\ n \in 1..N
      /\ said'[N] = text
  BY AskGrows DEF Ask, Shaped
<1>2. changes' \in Nat /\ (changes' = 0 => changes = 0 /\ library' = library)
  BY DEF Ask, Change, Decided
<1>7. /\ changes' \in Nat /\ (changes' = 0 => library' = [b \in Books |-> "ready"])
      /\ \A n \in 1..Len(said) :
           /\ turn'[n].asked \in 1..n
           /\ said'[turn'[n].asked].intent # "follow_up" => turn'[n].about = {turn'[n].asked}
           /\ turn'[n].asked # n /\ changes' = 0 =>
                turn'[n].limit = Books \/ turn'[n].limit = said'[n].names
  <2> HIDE DEF texts, what, about, N
  <2>1. changes' \in Nat /\ (changes' = 0 => library' = [b \in Books |-> "ready"])
    BY <1>2 DEF Decided
  <2>2. ASSUME NEW n \in 1..Len(said)
        PROVE  /\ turn'[n].asked \in 1..n
               /\ said'[turn'[n].asked].intent # "follow_up" => turn'[n].about = {turn'[n].asked}
               /\ turn'[n].asked # n /\ changes' = 0 =>
                    turn'[n].limit = Books \/ turn'[n].limit = said'[n].names
    <3>1. turn[n].asked \in 1..n /\ turn[n].asked \in 1..Len(said)
      BY <1>1 DEF Decided
    <3>2. turn'[n] = turn[n] /\ said'[n] = said[n] /\ said'[turn[n].asked] = said[turn[n].asked]
      BY <1>1, <3>1
    <3> QED
      BY <1>2, <3>1, <3>2 DEF Decided
  <2> QED
    BY <2>1, <2>2
<1>3. PICK way :
        turn'[N] = [asked |-> what.asked, about |-> about, limit |-> what.ids,
                    outcome |-> way[1], cites |-> Found(way[2])]
  BY AskTurn
<1>4. turn'[N].asked = what.asked /\ turn'[N].about = about /\ turn'[N].limit = what.ids
  <2> HIDE DEF what, about, N
  <2> QED
    BY <1>3
<1>5. CASE ~Resumes(text, History)
  <2>1. what.asked = N
    BY <1>5 DEF Resolved
  <2> HIDE DEF what, texts
  <2>2. said'[turn'[N].asked].intent # "follow_up" => turn'[N].about = {turn'[N].asked}
    BY <1>1, <1>4 DEF About
  <2> QED
    BY <1>1, <1>4, <1>7, <2>1, <2>2 DEF Decided
<1>6. CASE Resumes(text, History)
  <2>1. what.asked = LastAsked(History) /\ what.ids = Chosen(text)
    BY <1>6 DEF Resolved
  <2>2. Readers(History) # {} /\ Chosen(text) # {}
    BY <1>6 DEF Resumes
  <2>3. what.asked \in 1..Len(said) /\ what.asked \in 1..N
    BY <1>1, <2>1, <2>2, Places
  <2>4. changes = 0 => what.ids = Books \/ what.ids = text.names
    <3>1. changes = 0 => Visible = Books
      BY DEF Decided, Visible
    <3>2. text.names \subseteq Books
      BY TextsAssumption
    <3> QED
      BY <2>1, <2>2, <3>1, <3>2 DEF Chosen
  <2> HIDE DEF what, texts
  <2>5. said'[turn'[N].asked].intent # "follow_up" => turn'[N].about = {turn'[N].asked}
    BY <1>1, <1>4 DEF About
  <2> QED
    BY <1>1, <1>2, <1>4, <1>7, <2>3, <2>4, <2>5 DEF Decided
<1> QED
  BY <1>5, <1>6

THEOREM AlwaysDecided == Spec => []Decided
<1>1. Init => Decided
  <2> SUFFICES ASSUME Init PROVE Decided
    OBVIOUS
  <2>1. 1..Len(said) = {}
    BY DEF Init
  <2> QED
    BY <2>1 DEF Init, Decided
<1>2. Shaped /\ Dialogue /\ Decided /\ [Next]_vars => Decided'
  <2> SUFFICES ASSUME Shaped, Dialogue, Decided, [Next]_vars
               PROVE  Decided'
    OBVIOUS
  <2>1. CASE UNCHANGED <<library, said, turn, changes>>
    BY <2>1 DEF Decided
  <2>2. CASE LibraryChanges
    BY <2>2 DEF LibraryChanges, Change, Decided
  <2> QED
    BY <2>1, <2>2, AskDecided DEF Next, Works, Commit, Speak, StreamEnds, File, FileLate, RequestFails,
                   StreamBreaks, LeaveWhileFiling, Crash, vars, Dialogue
<1> QED
  BY <1>1, <1>2, AlwaysShaped, AlwaysDialogue, PTL DEF Spec

\* The history is the end of the transcript.
LEMMA HistoryEnds ==
  ASSUME Logged, NEW i \in History, NEW j \in Transcript, i <= j
  PROVE  j \in History
<1> DEFINE from(k) == {q \in Transcript : q >= k}
<1>1. Transcript \subseteq 1..Len(log) /\ i \in Transcript
  BY Places
<1>2. IsFiniteSet(from(i)) /\ from(j) \subseteq from(i)
  <2>1. IsFiniteSet(1..Len(log))
    BY FS_Interval DEF Logged
  <2>2. from(i) \in SUBSET (1..Len(log))
    BY <1>1
  <2>3. \A q \in Transcript : q >= j => q >= i
    BY <1>1
  <2>4. IsFiniteSet(from(i))
    <3> HIDE DEF from
    <3> QED
      BY <2>1, <2>2, FS_Subset
  <2> QED
    BY <2>3, <2>4
<1>3. Cardinality(from(i)) <= Turns
  BY DEF History
<1>4. Cardinality(from(j)) <= Turns
  <2> HIDE DEF from
  <2>1. /\ Cardinality(from(j)) <= Cardinality(from(i))
        /\ Cardinality(from(j)) \in Nat /\ Cardinality(from(i)) \in Nat
    BY <1>2, FS_Subset, FS_CardinalityType
  <2>2. Turns \in Nat
    BY TextsAssumption
  <2> QED
    BY <1>3, <2>1, <2>2
<1> QED
  BY <1>4 DEF History

\* Its last message is of the last question filed, as long as each waited its turn.
LEMMA LastWord ==
  ASSUME Shaped, Dialogue, Ordered, ~mixed, Transcript # {}
  PROVE  LET m == log[Max(Transcript)].n IN
         /\ m \in committed /\ \A c \in committed : c <= m
         /\ History # {} /\ Max(History) = Max(Transcript)
<1> DEFINE p == Max(Transcript)
<1>1. /\ Logged /\ Transcript \subseteq 1..Len(log) /\ History \subseteq Transcript
      /\ DOMAIN log = 1..Len(log) /\ Len(log) \in Nat
  BY Places DEF Dialogue
<1>2. p \in Transcript /\ p \in 1..Len(log) /\ \A i \in Transcript : i <= p
  BY <1>1, LastPlace
<1> HIDE DEF p
<1>3. log[p].n \in committed
  <2>1. CASE log[p].role = "assistant"
    <3>1. log[p] \in Entry /\ log[p].n \in 1..Len(said)
      BY <1>1, <1>2 DEF Logged
    <3>2. log[p] = [n |-> log[p].n, role |-> "assistant"]
      BY <2>1, <3>1 DEF Entry
    <3>3. p \in AnswersTo(log[p].n)
      BY <1>1, <1>2, <3>2 DEF AnswersTo
    <3> QED
      BY <3>1, <3>3 DEF Dialogue, OnceFiled
  <2> QED
    BY <1>2, <2>1 DEF Transcript
<1>4. ASSUME NEW c \in committed
      PROVE  c <= log[p].n
  <2>1. c \in 1..Len(said) /\ Len(said) \in Nat /\ log[p].n \in 1..Len(said)
    BY <1>1, <1>2 DEF Logged, Shaped
  <2>2. PICK q \in 1..Len(log) : log[q] = [n |-> c, role |-> "user"]
    BY <2>1 DEF Ordered
  <2>3. log[q].n = c /\ q \in Transcript /\ q <= p
    BY <1>1, <1>2, <2>2 DEF Transcript
  <2>4. CASE q = p
    BY <2>1, <2>3, <2>4
  <2>5. CASE q < p
    BY <1>2, <2>3, <2>5 DEF Ordered
  <2> QED
    BY <1>1, <1>2, <2>3, <2>4, <2>5
<1>5. p \in History
  <2>1. {j \in Transcript : j >= p} = {p}
    <3>1. \A j \in Transcript : j >= p => j = p
      BY <1>1, <1>2
    <3>2. p >= p
      BY <1>2
    <3> QED
      BY <1>2, <3>1, <3>2
  <2>2. Cardinality({p}) = 1
    BY FS_Singleton
  <2>3. 1 <= Turns
    BY TextsAssumption
  <2> QED
    BY <1>2, <2>1, <2>2, <2>3 DEF History
<1>6. Max(History) = p
  <2>1. Max(History) \in History /\ p <= Max(History) /\ Max(History) \in 1..Len(log)
    BY <1>1, <1>5, LastPlace
  <2>2. Max(History) <= p
    BY <1>1, <1>2, <2>1
  <2> QED
    BY <1>2, <2>1, <2>2
<1> QED
  BY <1>3, <1>4, <1>5, <1>6 DEF p

\* And the reader's last message in it is that question.
LEMMA LastQuestion ==
  ASSUME Shaped, Dialogue, Ordered, ~mixed, Transcript # {},
         NEW u \in 1..Len(log), log[u] = [n |-> log[Max(Transcript)].n, role |-> "user"]
  PROVE  /\ u \in Transcript
         /\ \A r \in Readers(History) : r <= u
         /\ Readers(History) # {} => u \in Readers(History)
<1> DEFINE p == Max(Transcript)
           m == log[p].n
<1>1. /\ Logged /\ Transcript \subseteq 1..Len(log) /\ History \subseteq Transcript
      /\ Readers(History) \subseteq History
      /\ DOMAIN log = 1..Len(log) /\ Len(log) \in Nat
  BY Places DEF Dialogue
<1>2. p \in 1..Len(log) /\ \A i \in Transcript : i <= p
  BY <1>1, LastPlace
<1>3. m \in committed /\ m \in 1..Len(said) /\ Len(said) \in Nat
  BY <1>1, <1>2, LastWord DEF Logged, Shaped
<1> HIDE DEF p
<1>4. log[u].n = m /\ log[u].role = "user"
  BY DEF p
<1>5. u \in Transcript
  BY <1>1, <1>3, <1>4 DEF Transcript
<1>6. ASSUME NEW r \in Readers(History), ~(r <= u)
      PROVE  FALSE
  <2>1. r \in 1..Len(log) /\ r <= p /\ log[r].role = "user" /\ u < r /\ log[r].n \in 1..Len(said)
    BY <1>1, <1>2, <1>6 DEF Readers, Logged
  <2>2. m < log[r].n
    BY <1>4, <2>1 DEF Ordered
  <2>3. log[r].n <= m
    <3>1. CASE r = p
      BY <1>3, <3>1
    <3>2. CASE r < p
      BY <1>2, <2>1, <3>2 DEF Ordered
    <3> QED
      BY <1>2, <2>1, <3>1, <3>2
  <2> QED
    BY <1>3, <2>1, <2>2, <2>3
<1>7. ASSUME NEW r \in Readers(History)
      PROVE  u \in Readers(History)
  <2>1. r \in History /\ r <= u
    BY <1>1, <1>6
  <2>2. u \in History
    BY <1>1, <1>5, <2>1, HistoryEnds
  <2> QED
    BY <1>4, <2>2 DEF Readers
<1> QED
  BY <1>5, <1>6, <1>7

\* A history of three messages reaches back to it, whatever its answer.
LEMMA QuestionHeard ==
  ASSUME Shaped, Dialogue, Ordered, ~mixed, Transcript # {}, Turns >= 3,
         NEW u \in 1..Len(log), log[u] = [n |-> log[Max(Transcript)].n, role |-> "user"]
  PROVE  u \in Readers(History)
<1> DEFINE p == Max(Transcript)
           m == log[p].n
           from == {j \in Transcript : j >= u}
<1>1. /\ Logged /\ Transcript \subseteq 1..Len(log)
      /\ DOMAIN log = 1..Len(log) /\ Len(log) \in Nat
  BY Places DEF Dialogue
<1>2. p \in 1..Len(log) /\ \A i \in Transcript : i <= p
  BY <1>1, LastPlace
<1>3. m \in 1..Len(said) /\ Len(said) \in Nat
  BY <1>1, <1>2 DEF Logged, Shaped
<1> HIDE DEF p
<1>4. log[u].n = m /\ log[u].role = "user" /\ u \in Transcript
  BY LastQuestion DEF p
<1>5. ASSUME NEW j \in Transcript, j >= u
      PROVE  j \in {u} \cup AnswersTo(m)
  <2>1. CASE j # u
    <3>1. j \in 1..Len(log) /\ u < j /\ j <= p /\ log[j] \in Entry /\ log[j].n \in 1..Len(said)
      BY <1>1, <1>2, <1>5, <2>1 DEF Logged
    <3>2. m <= log[j].n /\ (log[j].role = "user" => m < log[j].n)
      BY <1>4, <3>1 DEF Ordered
    <3>3. log[j].n <= m
      <4>1. CASE j = p
        BY <1>3, <4>1
      <4>2. CASE j < p
        BY <1>2, <3>1, <4>2 DEF Ordered
      <4> QED
        BY <1>2, <3>1, <4>1, <4>2
    <3>4. log[j].n = m /\ log[j].role # "user"
      BY <1>3, <3>1, <3>2, <3>3
    <3>5. log[j] = [n |-> m, role |-> "assistant"]
      BY <3>1, <3>4 DEF Entry
    <3> QED
      BY <1>1, <3>1, <3>5 DEF AnswersTo
  <2> QED
    BY <2>1
<1>6. Cardinality(from) <= 3
  <2>1. IsFiniteSet(AnswersTo(m)) /\ Cardinality(AnswersTo(m)) \in Nat /\ Cardinality(AnswersTo(m)) <= 2
    BY <1>1, <1>3, FiniteAnswers DEF Dialogue, OnceFiled
  <2>2. /\ IsFiniteSet(AnswersTo(m) \cup {u}) /\ Cardinality(AnswersTo(m) \cup {u}) <= 3
        /\ Cardinality(AnswersTo(m) \cup {u}) \in Nat
    <3>1. IsFiniteSet(AnswersTo(m) \cup {u})
      BY <2>1, FS_AddElement
    <3>2. Cardinality(AnswersTo(m) \cup {u}) =
            IF u \in AnswersTo(m) THEN Cardinality(AnswersTo(m)) ELSE Cardinality(AnswersTo(m)) + 1
      BY <2>1, FS_AddElement
    <3> QED
      BY <2>1, <3>1, <3>2, FS_CardinalityType
  <2>3. from \subseteq AnswersTo(m) \cup {u}
    BY <1>5
  <2> HIDE DEF from, m
  <2>4. /\ Cardinality(from) <= Cardinality(AnswersTo(m) \cup {u})
        /\ Cardinality(from) \in Nat
    BY <2>2, <2>3, FS_Subset, FS_CardinalityType
  <2> QED
    BY <2>2, <2>4
<1>7. u \in History
  <2>1. IsFiniteSet(from)
    <3>1. IsFiniteSet(1..Len(log))
      BY <1>1, FS_Interval
    <3>2. from \in SUBSET (1..Len(log))
      BY <1>1
    <3> HIDE DEF from
    <3> QED
      BY <3>1, <3>2, FS_Subset
  <2>2. Cardinality(from) \in Nat /\ Turns \in Nat
    BY <2>1, FS_CardinalityType, TextsAssumption
  <2>3. Cardinality(from) <= Turns
    <3> HIDE DEF from
    <3> QED
      BY <1>6, <2>2
  <2> QED
    BY <1>4, <2>3 DEF History
<1> QED
  BY <1>4, <1>7 DEF Readers

\* The reader is asked which book is meant only over a choice of them that nothing in the
\* conversation narrows.
LEMMA AskedBack ==
  ASSUME NEW intent, NEW profile, NEW ids, NEW texts, NEW history,
         NEW way \in Prepare(intent, profile, ids, texts, history), way[1] = "pick_book"
  PROVE  /\ ids = {} /\ Cardinality(Visible) > 1
         /\ BookFromConversation(texts, history, Visible) = {}
<1> DEFINE target == TargetBooks(profile, ids)
           books == Meant(profile, target, texts, history)
           pick == target.books # {} /\ books = {}
<1>1. \A outcome \in {"refusal", "no_mentions"} : way \notin Search(ids, outcome)
  BY DEF Search, Fixed, Answered
<1>2. \A some : way \notin Included(some)
  BY DEF Included, Answered
<1>3. \A outcome : outcome # "pick_book" => way \notin Fixed(outcome)
  BY DEF Fixed
<1>4. pick
  <2>1. CASE way \in PrepareOverview(profile, ids, texts, history)
    BY <1>2, <1>3, <2>1 DEF PrepareOverview
  <2>2. CASE way \in PrepareMetadata(profile, ids, texts, history)
    BY <1>1, <1>3, <2>2 DEF PrepareMetadata
  <2>3. CASE way \in PrepareCompare(profile, ids)
    BY <1>2, <1>3, <2>3 DEF PrepareCompare
  <2>4. CASE way \in PrepareLookup(ids) \/ way \in Search(ids, "refusal")
    BY <1>1, <2>4 DEF PrepareLookup
  <2>5. CASE way \in Fixed("conversational")
    BY <1>3, <2>5
  <2> QED
    BY <2>1, <2>2, <2>3, <2>4, <2>5 DEF Prepare
<1>5. /\ ~target.narrowed /\ Cardinality(target.books) > 1
      /\ BookFromConversation(texts, history, target.books) = {}
  <2> HIDE DEF target
  <2> QED
    BY <1>4 DEF Meant
<1>6. ids = {} /\ target.books = Visible
  BY <1>5 DEF TargetBooks
<1> QED
  BY <1>5, <1>6

\* The two parts of ClarifiedOnce: what a reply resumes, and what is asked after it.
Resumed(n) ==
  turn[n].asked # n =>
    LET m == Max(Before(n)) IN
    /\ turn[n].asked = m /\ turn[m].outcome = "pick_book"
    /\ said[m].intent # "follow_up" => turn[n].about = turn[m].about
    /\ turn[n].outcome # "pick_book" /\ turn[n].limit # {}

Settled(n, k) ==
  /\ turn[n].asked # n /\ changes = 0 /\ Cardinality(turn[n].limit) = 1 /\ n \in committed
  /\ n = Max(Before(k) \cup {0})
  => turn[k].outcome # "pick_book"

LEMMA ClarifiedParts ==
  ASSUME Shaped
  PROVE  ClarifiedOnce <=> (~mixed => \A n \in 1..Len(said) :
                              Resumed(n) /\ \A k \in 1..Len(said) : Settled(n, k))
<1>1. DOMAIN said = 1..Len(said)
  BY DEF Shaped
<1> QED
  BY <1>1 DEF ClarifiedOnce, Resumed, Settled

LEMMA ClarifiedPartsNext ==
  ASSUME Shaped'
  PROVE  ClarifiedOnce' <=> (~mixed' => \A n \in 1..Len(said') :
                              Resumed(n)' /\ \A k \in 1..Len(said') : Settled(n, k)')
<1>1. DOMAIN said' = 1..Len(said')
  BY DEF Shaped
<1> QED
  BY <1>1 DEF ClarifiedOnce, Resumed, Settled

LEMMA NotNone ==
  ASSUME NEW S, Cardinality(S) = 1
  PROVE  S # {}
<1>1. Cardinality({}) = 0
  BY FS_EmptySet
<1> QED
  BY <1>1

LEMMA MaxOf ==
  ASSUME NEW S, NEW N \in Nat, S \subseteq 0..N, S # {}
  PROVE  Max(S) \in S /\ \A i \in S : i <= Max(S)
<1>1. IsFiniteSet(0..N)
  BY FS_Interval
<1>2. IsFiniteSet(S) /\ S \subseteq Int
  <2>1. S \in SUBSET (0..N) /\ S \subseteq Int
    OBVIOUS
  <2> QED
    BY <1>1, <2>1, FS_Subset
<1>3. Max(S) \in S /\ \A i \in S : Max(S) >= i
  BY <1>2, MaxIs
<1> QED
  BY <1>2, <1>3

\* A message that resumes another resumes the one filed before it.
LEMMA AskResumes ==
  ASSUME Shaped, Dialogue, Ordered, Decided, ~mixed, \A n \in 1..Len(said) : Resumed(n),
         NEW text \in Texts, Ask(text), NEW N, N = Len(said) + 1
  PROVE  Resumed(N)'
<1> DEFINE texts == Append(said, text)
           what == Resolved(N, text, History)
           about == About(what.asked, texts, History)
           m == log[Max(Transcript)].n
<1>1. /\ Len(said) \in Nat /\ N \in 1..N /\ N \notin 1..Len(said) /\ said' = texts /\ Len(said') = N
      /\ \A n \in 1..Len(said) : said'[n] = said[n] /\ turn'[n] = turn[n]
      /\ committed' = committed /\ committed \subseteq 1..Len(said) /\ Logged
  BY AskGrows DEF Ask, Shaped, Dialogue, Logged
<1>2. PICK way \in Prepare(texts[what.asked].intent, Profile(about, texts), what.ids, texts, History) :
        turn'[N] = [asked |-> what.asked, about |-> about, limit |-> what.ids,
                    outcome |-> way[1], cites |-> Found(way[2])]
  BY AskTurn
<1>3. /\ turn'[N].asked = what.asked /\ turn'[N].about = about /\ turn'[N].limit = what.ids
      /\ turn'[N].outcome = way[1]
  <2> HIDE DEF what, about
  <2> QED
    BY <1>2
<1> SUFFICES ASSUME turn'[N].asked # N
             PROVE  LET k == Max(Before(N)') IN
                    /\ turn'[N].asked = k /\ turn'[k].outcome = "pick_book"
                    /\ said'[k].intent # "follow_up" => turn'[N].about = turn'[k].about
                    /\ turn'[N].outcome # "pick_book" /\ turn'[N].limit # {}
  <2> HIDE DEF what, about, texts
  <2> QED
    BY DEF Resumed
<1>4. Resumes(text, History)
  <2>1. ~Resumes(text, History) => what.asked = N
    BY DEF Resolved
  <2> HIDE DEF what
  <2> QED
    BY <1>3, <2>1
<1>5. /\ what.asked = LastAsked(History) /\ what.ids = Chosen(text)
      /\ Readers(History) # {} /\ Chosen(text) # {} /\ PickBookPending(History)
  BY <1>4 DEF Resolved, Resumes
<1>6. Transcript # {}
  BY <1>1, <1>5, Places
<1>7. /\ m \in committed /\ \A c \in committed : c <= m
      /\ History # {} /\ Max(History) = Max(Transcript)
  BY <1>6, LastWord
<1> HIDE DEF what, about, texts
<1>8. turn[m].outcome = "pick_book" /\ m \in 1..Len(said)
  BY <1>1, <1>5, <1>7 DEF PickBookPending
<1>9. LastAsked(History) = m
  <2>1. PICK u \in 1..Len(log) : log[u] = [n |-> m, role |-> "user"]
    BY <1>8 DEF Ordered
  <2>2. u \in Readers(History) /\ \A r \in Readers(History) : r <= u
    BY <1>5, <1>6, <2>1, LastQuestion
  <2>3. Readers(History) \subseteq 1..Len(log)
    BY <1>1, Places
  <2>4. /\ Max(Readers(History)) \in Readers(History) /\ Max(Readers(History)) \in 1..Len(log)
        /\ u <= Max(Readers(History))
    BY <1>1, <2>2, <2>3, LastPlace
  <2>5. Max(Readers(History)) <= u
    BY <2>2, <2>4
  <2>6. Max(Readers(History)) = u
    BY <2>1, <2>4, <2>5
  <2> QED
    BY <2>1, <2>6 DEF LastAsked
<1>10. Max(Before(N)') = m
  <2>1. Before(N)' = committed
    <3>1. \A c \in committed : c < N
      BY <1>1
    <3> QED
      BY <1>1, <3>1 DEF Before
  <2>2. committed \subseteq 0..Len(said)
    BY <1>1
  <2>3. Max(committed) \in committed /\ m <= Max(committed)
    BY <1>1, <1>7, <2>2, MaxOf
  <2> HIDE DEF m
  <2>4. Max(committed) \in Int /\ m \in Int /\ Max(committed) <= m
    <3>1. committed \subseteq Int
      BY <2>2
    <3>2. m \in committed /\ \A c \in committed : c <= m
      BY <1>7
    <3> QED
      BY <2>3, <3>1, <3>2
  <2>5. Max(committed) = m
    BY <2>3, <2>4
  <2> QED
    BY <2>1, <2>5
<1>11. turn[m].asked = m /\ (said[m].intent # "follow_up" => turn[m].about = {m})
  <2>1. turn[m].asked = m
    BY <1>8 DEF Resumed
  <2> QED
    BY <1>8, <2>1 DEF Decided
<1>12. said[m].intent # "follow_up" => about = {m}
  BY <1>1, <1>5, <1>8, <1>9 DEF about, About
<1>13. way[1] # "pick_book"
  BY <1>2, <1>5, AskedBack
<1> QED
  BY <1>1, <1>3, <1>5, <1>8, <1>9, <1>10, <1>11, <1>12, <1>13

\* What follows a reply that chose one book is not asked about it again.
LEMMA AskSettled ==
  ASSUME Shaped, Dialogue, Ordered, Decided, ~mixed, Turns >= 3,
         NEW text \in Texts, Ask(text), NEW n \in 1..Len(said), NEW N, N = Len(said) + 1
  PROVE  Settled(n, N)'
<1> DEFINE texts == Append(said, text)
           what == Resolved(N, text, History)
           about == About(what.asked, texts, History)
           p == Max(Transcript)
<1>1. /\ Len(said) \in Nat /\ N \notin 1..Len(said) /\ said' = texts
      /\ \A k \in 1..Len(said) : said'[k] = said[k] /\ turn'[k] = turn[k]
      /\ committed' = committed /\ committed \subseteq 1..Len(said) /\ Logged
      /\ changes' = 0 => changes = 0
  <2>1. said' = texts /\ committed' = committed /\ (Change \/ UNCHANGED changes)
    BY DEF Ask
  <2>2. changes' = 0 => changes = 0
    BY <2>1 DEF Change, Decided
  <2>3. N \notin 1..Len(said) /\ committed \subseteq 1..Len(said)
    BY DEF Shaped, Dialogue, Logged
  <2> HIDE DEF texts
  <2> QED
    BY <2>1, <2>2, <2>3, AskGrows DEF Shaped, Dialogue
<1>2. PICK way \in Prepare(texts[what.asked].intent, Profile(about, texts), what.ids, texts, History) :
        turn'[N] = [asked |-> what.asked, about |-> about, limit |-> what.ids,
                    outcome |-> way[1], cites |-> Found(way[2])]
  BY AskTurn
<1>3. turn'[N].outcome = way[1]
  <2> HIDE DEF what, about
  <2> QED
    BY <1>2
<1> HIDE DEF what, about, texts
<1> SUFFICES ASSUME turn[n].asked # n, changes = 0, Cardinality(turn[n].limit) = 1, n \in committed,
                    n = Max(Before(N)' \cup {0}), way[1] = "pick_book"
             PROVE  FALSE
  BY <1>1, <1>3 DEF Settled
<1>4. Visible = Books /\ Cardinality(Books) > 1 /\ BookFromConversation(texts, History, Books) = {}
  <2>1. Visible = Books
    BY DEF Decided, Visible
  <2> QED
    BY <1>2, <2>1, AskedBack
<1>5. turn[n].limit = said[n].names
  BY <1>4 DEF Decided
<1>6. /\ said[n].names \cap Books = said[n].names /\ said[n].names # {}
      /\ ~(Cardinality(said[n].names) > 1)
  <2>1. said[n] \in Texts
    BY DEF Shaped
  <2>2. said[n].names \subseteq Books
    BY <2>1, TextsAssumption
  <2>3. Cardinality(said[n].names) = 1
    BY <1>5
  <2>4. said[n].names # {}
    BY <2>3, NotNone
  <2>5. ~(Cardinality(said[n].names) > 1)
    BY <2>3
  <2> QED
    BY <2>2, <2>4, <2>5
<1>7. \A c \in committed : c <= n
  <2>1. Before(N)' = committed
    <3>1. \A c \in committed : c < N
      BY <1>1
    <3> QED
      BY <1>1, <3>1 DEF Before
  <2>2. committed \cup {0} \subseteq 0..Len(said)
    BY <1>1
  <2> QED
    BY <1>1, <2>1, <2>2, MaxOf
<1>8. PICK u \in 1..Len(log) : log[u] = [n |-> n, role |-> "user"]
  BY DEF Ordered
<1>9. log[u].n = n /\ log[u].role = "user" /\ u \in Transcript
  BY <1>1, <1>8, Places DEF Transcript
<1>10. log[p].n = n
  <2>1. log[p].n \in committed /\ n <= log[p].n
    BY <1>9, LastWord
  <2> HIDE DEF p
  <2>2. log[p].n \in 1..Len(said) /\ log[p].n <= n
    BY <1>1, <1>7, <2>1
  <2> QED
    BY <1>1, <2>1, <2>2
<1>11. u \in Readers(History) /\ \A r \in Readers(History) : r <= u
  BY <1>8, <1>9, <1>10, LastQuestion, QuestionHeard
<1> DEFINE naming == {i \in Readers(History) : texts[log[i].n].names \cap Books # {}}
<1>12. texts[n] = said[n]
  BY <1>1
<1>13. Max(naming) = u
  <2>1. naming \subseteq 1..Len(log) /\ u \in naming
    BY <1>1, <1>6, <1>9, <1>11, <1>12, Places
  <2> HIDE DEF naming
  <2>2. Max(naming) \in naming /\ Max(naming) \in 1..Len(log) /\ u <= Max(naming)
    BY <1>1, <2>1, LastPlace
  <2>3. Max(naming) <= u
    BY <1>11, <2>2 DEF naming
  <2> QED
    BY <2>2, <2>3
<1>14. naming # {}
  BY <1>6, <1>9, <1>11, <1>12
<1>15. BookFromConversation(texts, History, Books) = said[n].names
  BY <1>6, <1>9, <1>12, <1>13, <1>14 DEF BookFromConversation
<1> QED
  BY <1>4, <1>6, <1>15

\* What a turn goes on with changes nothing of it.
LEMMA TurnClarified ==
  ASSUME Shaped, Dialogue, Shaped', ClarifiedOnce, UNCHANGED <<said, turn, mixed>>,
         changes \in Nat, changes' \in {changes, changes + 1},
         \/ committed' = committed
         \/ \E c \in 1..Len(said) : pc[c] # "over" /\ committed' = committed \cup {c}
  PROVE  ClarifiedOnce'
<1> SUFFICES ASSUME ~mixed, NEW n \in 1..Len(said), NEW k \in 1..Len(said)
             PROVE  Resumed(n)' /\ Settled(n, k)'
  BY ClarifiedPartsNext
<1>1. Resumed(n) /\ Settled(n, k)
  BY ClarifiedParts
<1>2. Len(said) \in Nat /\ committed \subseteq 1..Len(said) /\ committed' \subseteq 1..Len(said)
  BY DEF Shaped, Dialogue, Logged
<1>3. \A i \in 1..Len(said) : Before(i)' = Before(i)
  <2>1. ASSUME NEW c \in 1..Len(said), pc[c] # "over", committed' = committed \cup {c}
        PROVE  \A i \in 1..Len(said) : Before(i)' = Before(i)
    <3>1. c = Len(said)
      BY <2>1 DEF Dialogue, InTurn
    <3>2. \A i \in 1..Len(said) : ~(c < i)
      BY <1>2, <3>1
    <3> QED
      BY <2>1, <3>2 DEF Before
  <2> QED
    BY <2>1 DEF Before
<1>4. Resumed(n)'
  BY <1>1, <1>3 DEF Resumed
<1>5. Settled(n, k)'
  <2> SUFFICES ASSUME turn[n].asked # n, changes' = 0, Cardinality(turn[n].limit) = 1,
                      n = Max(Before(k) \cup {0})
               PROVE  turn[k].outcome # "pick_book"
    BY <1>3 DEF Settled
  <2>1. changes = 0
    OBVIOUS
  <2>2. n \in committed
    <3>1. Before(k) \cup {0} \subseteq 0..Len(said)
      <4>1. Before(k) \subseteq 1..Len(said)
        BY <1>2 DEF Before
      <4>2. 1..Len(said) \subseteq 0..Len(said) /\ 0 \in 0..Len(said)
        BY <1>2
      <4> QED
        BY <4>1, <4>2
    <3>2. Max(Before(k) \cup {0}) \in Before(k) \cup {0}
      BY <1>2, <3>1, MaxOf
    <3>3. n # 0
      OBVIOUS
    <3> QED
      BY <3>2, <3>3 DEF Before
  <2> QED
    BY <1>1, <2>1, <2>2 DEF Settled
<1> QED
  BY <1>4, <1>5

\* A reply to "which book do you mean?" resumes the question that was asked about, in the
\* books it chose, and settles it; where the history a turn is given has room for a question
\* and an answer that was filed twice (chat_history_turns is 4).
THEOREM ClarifiedOnceHolds ==
  ASSUME Turns >= 3
  PROVE  Spec => []ClarifiedOnce
<1>1. Init => ClarifiedOnce
  BY DEF Init, ClarifiedOnce
<1>2. Shaped /\ Dialogue /\ Ordered /\ Decided /\ ClarifiedOnce /\ [Next]_vars => ClarifiedOnce'
  <2> SUFFICES ASSUME Shaped, Dialogue, Ordered, Decided, ClarifiedOnce, [Next]_vars
               PROVE  ClarifiedOnce'
    OBVIOUS
  <2>1. Shaped' /\ changes \in Nat /\ DOMAIN said = 1..Len(said) /\ Len(said) \in Nat
    BY NextShaped DEF Decided, Shaped
  <2>2. ASSUME NEW text \in Texts, Ask(text)
        PROVE  ClarifiedOnce'
    <3> PICK N \in Nat : N = Len(said) + 1
      BY <2>1
    <3>1. /\ Len(said') = N /\ UNCHANGED committed /\ (changes' = 0 => changes = 0)
          /\ \A n \in 1..Len(said) : said'[n] = said[n] /\ turn'[n] = turn[n]
          /\ \A n \in 1..N : n = N \/ n \in 1..Len(said)
          /\ committed \subseteq 1..Len(said) /\ N \notin 1..Len(said)
      <4>1. /\ Len(said') = N /\ UNCHANGED committed /\ (changes' = 0 => changes = 0)
            /\ \A n \in 1..Len(said) : said'[n] = said[n] /\ turn'[n] = turn[n]
        <5>1. UNCHANGED committed /\ (Change \/ UNCHANGED changes)
          BY <2>2 DEF Ask
        <5>2. changes' = 0 => changes = 0
          BY <2>1, <5>1 DEF Change
        <5> QED
          BY <2>2, <5>1, <5>2, AskGrows
      <4>2. (\A n \in 1..N : n = N \/ n \in 1..Len(said)) /\ N \notin 1..Len(said)
        BY <2>1
      <4> QED
        BY <4>1, <4>2 DEF Dialogue, Logged
    <3> SUFFICES ASSUME ~mixed' PROVE \A n \in 1..N : Resumed(n)' /\ \A k \in 1..N : Settled(n, k)'
      BY <2>1, <3>1, ClarifiedPartsNext
    <3>2. ~mixed
      BY <2>2 DEF Ask
    <3>3. \A n \in 1..Len(said) : Resumed(n) /\ \A k \in 1..Len(said) : Settled(n, k)
      BY <3>2, ClarifiedParts
    <3>4. \A n : Before(n)' = Before(n)
      BY <3>1 DEF Before
    <3>5. ASSUME NEW n \in 1..Len(said) PROVE Resumed(n)'
      <4>1. turn[n].asked \in 1..n /\ turn[n].asked \in 1..Len(said)
        BY <2>1 DEF Decided
      <4> QED
        BY <3>1, <3>3, <3>4, <4>1 DEF Resumed
    <3>6. ASSUME NEW n \in 1..Len(said), NEW k \in 1..Len(said) PROVE Settled(n, k)'
      BY <3>1, <3>3, <3>4 DEF Settled
    <3>7. Resumed(N)'
      BY <2>2, <3>2, <3>3, AskResumes
    <3>8. ASSUME NEW n \in 1..Len(said) PROVE Settled(n, N)'
      BY <2>2, <3>2, AskSettled
    <3>9. ASSUME NEW k PROVE Settled(N, k)'
      BY <3>1 DEF Settled
    <3> QED
      BY <3>1, <3>5, <3>6, <3>7, <3>8, <3>9
  <2>3. ASSUME NEW c \in 1..Len(said), Commit(c)
        PROVE  ClarifiedOnce'
    <3>1. /\ UNCHANGED <<said, turn, mixed, changes>> /\ pc[c] # "over"
          /\ committed' = committed \cup {c}
      BY <2>3 DEF Commit
    <3> QED
      BY <2>1, <3>1, TurnClarified
  <2>4. CASE LibraryChanges
    <3>1. UNCHANGED <<said, turn, mixed, committed>> /\ changes' = changes + 1
      BY <2>4 DEF LibraryChanges, Change
    <3> QED
      BY <2>1, <3>1, TurnClarified
  <2>5. CASE UNCHANGED <<said, turn, mixed, changes, committed>>
    BY <2>1, <2>5, TurnClarified
  <2> QED
    BY <2>1, <2>2, <2>3, <2>4, <2>5 DEF Next, Works, Speak, StreamEnds, File, FileLate, RequestFails,
                   StreamBreaks, LeaveWhileFiling, Crash, vars
<1> QED
  BY <1>1, <1>2, AlwaysShaped, AlwaysDialogue, AlwaysOrdered, AlwaysDecided, PTL DEF Spec

-----------------------------------------------------------------------------
(***************************************************************************)
(* The limit on requests.                                                  *)
(***************************************************************************)
\* Counting, letting in and refusing agree, except that a check whose process died was not
\* let in.
Counts ==
  /\ used \in 0..MaxUsed /\ letIn \in 0..MaxUsed /\ refused \in 0..MaxUsed
  /\ letIn + Cardinality(expiring) <= Limit
  /\ letIn + Cardinality(expiring) + refused <= used
  /\ ~orphan /\ refused > 0 => letIn + Cardinality(expiring) = Limit
  /\ ~orphan => letIn + Cardinality(expiring) + refused = used

\* At most one check has the expiry still to set, the first of a window that has none.
OneExpiring ==
  /\ expiring = {} \/ \E c \in Checks : expiring = {c}
  /\ expiring # {} => used > 0 /\ ~timed
  /\ timed => used > 0
  /\ timed \in BOOLEAN /\ orphan \in BOOLEAN

\* The inductive invariant.
Counted == Counts /\ OneExpiring

LEMMA Sizes ==
  /\ Cardinality({}) = 0
  /\ \A c \in Checks : Cardinality({c}) = 1 /\ {} \cup {c} = {c} /\ {c} \ {c} = {}
BY FS_EmptySet, FS_Singleton

LEMMA CountedInit == LimitInit => Counted
<1> SUFFICES ASSUME LimitInit PROVE Counted
  OBVIOUS
<1>1. Cardinality(expiring) = 0
  BY Sizes DEF LimitInit
<1>2. Counts
  BY <1>1, LimitAssumption DEF LimitInit, Counts
<1>3. OneExpiring
  BY DEF LimitInit, OneExpiring
<1> QED
  BY <1>2, <1>3 DEF Counted

\* A check is counted, and let in, refused, or left with the expiry to set.
LEMMA IncrCounted ==
  ASSUME Counted, NEW c \in Checks, Incr(c)
  PROVE  Counted'
<1> USE LimitAssumption DEF Counted
<1>1. used \in Nat /\ letIn \in Nat /\ refused \in Nat /\ Cardinality(expiring) \in Nat
  BY Sizes DEF Counts, OneExpiring
<1>2. CASE used = 0
  <2>1. expiring = {} /\ expiring' = {c} /\ used' = 1 /\ UNCHANGED <<letIn, refused, timed, orphan>>
    BY <1>2, Sizes DEF OneExpiring, Incr
  <2>2. Cardinality(expiring) = 0 /\ Cardinality(expiring') = 1
    BY <2>1, Sizes
  <2>3. Counts'
    BY <1>1, <1>2, <2>1, <2>2 DEF Counts
  <2>4. ~timed
    BY <1>2, <2>1 DEF OneExpiring
  <2>5. OneExpiring'
    BY <2>1, <2>4 DEF OneExpiring
  <2> QED
    BY <2>3, <2>5
<1>3. CASE used # 0
  <2>1. UNCHANGED <<expiring, timed, orphan>>
    BY <1>3 DEF Incr
  <2>2. Counts'
    BY <1>1, <1>3, <2>1 DEF Counts, Incr
  <2>3. OneExpiring'
    BY <1>1, <2>1 DEF OneExpiring, Incr
  <2> QED
    BY <2>2, <2>3
<1> QED
  BY <1>2, <1>3

LEMMA ExpireCounted ==
  ASSUME Counted, NEW c \in Checks, Expire(c) \/ ExpireLost(c)
  PROVE  Counted'
<1> USE LimitAssumption DEF Counted
<1>1. expiring = {c} /\ expiring' = {}
  BY Sizes DEF Expire, ExpireLost, OneExpiring
<1>2. Cardinality(expiring) = 1 /\ Cardinality(expiring') = 0
  BY <1>1, Sizes
<1>3. OneExpiring'
  BY <1>1 DEF Expire, ExpireLost, OneExpiring
<1>4. CASE Expire(c)
  BY <1>2, <1>3, <1>4 DEF Expire, Counts
<1>5. CASE ExpireLost(c)
  <2>1. orphan' = TRUE
    BY <1>5 DEF ExpireLost
  <2> QED
    BY <1>2, <1>3, <1>5, <2>1 DEF ExpireLost, Counts
<1> QED
  BY <1>4, <1>5

LEMMA WindowCounted ==
  ASSUME Counted, WindowEnds
  PROVE  Counted'
<1>1. expiring = {} /\ expiring' = {} /\ orphan' = orphan /\ timed' = FALSE
  BY DEF Counted, OneExpiring, WindowEnds
<1>2. Cardinality(expiring') = 0
  BY <1>1, Sizes
<1>3. Counts'
  BY <1>2, LimitAssumption DEF Counts, WindowEnds
<1>4. expiring' = {} /\ ~timed' /\ timed' \in BOOLEAN /\ orphan' \in BOOLEAN
  BY <1>1 DEF Counted, OneExpiring
<1>5. OneExpiring'
  BY <1>4 DEF OneExpiring
<1> QED
  BY <1>3, <1>5 DEF Counted

THEOREM AlwaysCounted == LimitSpec => []Counted
<1>1. ASSUME Counted, [LimitNext]_limitVars
      PROVE  Counted'
  <2>1. CASE LimitNext
    BY <1>1, <2>1, IncrCounted, ExpireCounted, WindowCounted DEF LimitNext
  <2>2. CASE UNCHANGED limitVars
    BY <1>1, <2>2 DEF limitVars, Counted, Counts, OneExpiring
  <2> QED
    BY <1>1, <2>1, <2>2
<1> QED
  BY CountedInit, <1>1, PTL DEF LimitSpec

\* Of ratelimit.check: every variable keeps its type, and one check at most sets the expiry
\* of a window.
THEOREM LimitTypeCorrect == LimitSpec => []LimitTypeOK
<1>1. Counted => LimitTypeOK
  BY DEF Counted, Counts, OneExpiring, LimitTypeOK
<1> QED
  BY AlwaysCounted, <1>1, PTL

\* Of ratelimit.check: however many requests one reader has in flight at a time, a window
\* lets in no more than the limit, and refuses nobody before it has let in that many.
THEOREM LimitAlwaysHolds == LimitSpec => []LimitHolds
<1>1. Counted => LimitHolds
  <2>1. SUFFICES ASSUME Counted PROVE LimitHolds
    OBVIOUS
  <2>2. Cardinality(expiring) \in {0, 1} /\ letIn \in Nat
    BY <2>1, Sizes DEF Counted, Counts, OneExpiring
  <2> QED
    BY <2>1, <2>2, LimitAssumption DEF Counted, Counts, OneExpiring, LimitHolds
<1> QED
  BY AlwaysCounted, <1>1, PTL

=============================================================================
