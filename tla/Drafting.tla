------------------------------ MODULE Drafting ------------------------------
(***************************************************************************)
(* One run of generate_questions in backend/app/services/assessments.py:   *)
(* how a paper is filled.  The run reads the brief, takes questions the    *)
(* book already asks, asks for the paper's share of new ones, and goes on  *)
(* asking until the paper is full or its budget of calls is spent.         *)
(* Generation models what other processes see of such a run.               *)
(*                                                                         *)
(* There is one format, multiple choice, so a dictionary by format is one  *)
(* value here.  A question is its stem, and near duplicates are equal      *)
(* stems.  What the model server answers, and what the validation makes of *)
(* it, is any outcome: a call that failed, or a reply of at least one item *)
(* of which some (`fresh`) passed and some (`refused`) did not.            *)
(***************************************************************************)
EXTENDS Integers, SequencesExt

CONSTANTS
  Target,       \* questions the author asked for
  MaxCalls,     \* settings.assessment_max_llm_calls
  Batches,      \* batches of passages the sample makes
  BookBatches,  \* the batches of the book's own questions, sequences of stems
  Unusable,     \* stems of the book no paper can carry (they point at a figure)
  Stems,        \* stems the model may write
  Share,        \* settings.assessment_book_question_share, in per cent
  Preferences,  \* readings of the brief that occur
  MaxItems      \* bound on the items of a reply that pass validation

BookQuestions == {"auto", "prefer", "only", "never"}
BookStems == UNION {ToSet(BookBatches[i]) : i \in DOMAIN BookBatches}

ASSUME BoundsAssumption ==
  /\ {Target, MaxCalls, Batches, MaxItems} \subseteq Nat \ {0}
  /\ Share \in 0..100
  /\ Preferences \subseteq BookQuestions
ASSUME BookAssumption == BookBatches \in Seq(Seq(BookStems))

VARIABLES
  pc,          \* the pass the run is in: brief, harvest, first, backfill, ended
  preference,  \* what the brief says of the book's questions
  left,        \* calls left in the budget
  next,        \* calls that took a batch of passages from the round robin
  cursor,      \* harvest batches looked at
  accepted,    \* the questions accepted, in order, with their source
  kept,        \* the stems the deduper remembers
  remaining,   \* what the first pass still wants
  produced,    \* accepted questions of the format
  reached,     \* a written reply was looked at
  retry,       \* the format is still worth asking
  tally,       \* the trace's counts of calls and of failed calls, and whether any reason
  blind,       \* the deduper was skipped, embeddings being down
  paper        \* what the run ends with: questions, or why there are none

vars == <<pc, preference, left, next, cursor, accepted, kept, remaining, produced,
          reached, retry, tally, blind, paper>>

-----------------------------------------------------------------------------
Lesser(a, b) == IF a < b THEN a ELSE b

\* The run has not ended; it ended with questions; the service never answered, nothing
\* could be used, the material settles nothing, there was no material; or an exception
\* ended it, and nobody knows why.
Ending == {"running", "written", "silent", "rejected", "unsettled", "no material", "broken"}

Init ==
  /\ pc = "brief" /\ preference = "auto"
  /\ left = MaxCalls /\ next = 0 /\ cursor = 0
  /\ accepted = <<>> /\ kept = {}
  /\ remaining = Target /\ produced = 0 /\ reached = FALSE /\ retry = FALSE
  /\ tally = [calls |-> 0, failed |-> 0, refused |-> FALSE]
  /\ blind = FALSE
  /\ paper = [end |-> "running", questions |-> <<>>]

-----------------------------------------------------------------------------
\* How many questions the book may contribute.
Available == Cardinality(UNION {{i} \X DOMAIN BookBatches[i] : i \in DOMAIN BookBatches})

\* Mutant: a brief that wants none of the book's questions is read as one that says nothing.
HarvestTargetUnread(p) ==
  IF p \in {"only", "prefer"} THEN Lesser(Target, Available)
  ELSE Lesser((Target * Share) \div 100, Available)

HarvestTarget(p) ==
  CASE p = "never"            -> 0
    [] p \in {"only", "prefer"} -> Lesser(Target, Available)
    [] p = "auto"             -> Lesser((Target * Share) \div 100, Available)

\* Mutant: a deduper of its own for every call.
NovelInCall(stems, down) ==
  IF down THEN [kept |-> kept, new |-> stems]
  ELSE FoldLeft(LAMBDA d, s : IF s \in d.kept THEN d
                              ELSE [kept |-> d.kept \cup {s}, new |-> Append(d.new, s)],
                [kept |-> {}, new |-> <<>>], stems)

\* The deduper: a stem is kept unless one like it was; down, it keeps everything.
Novel(stems, down) ==
  IF down THEN [kept |-> kept, new |-> stems]
  ELSE FoldLeft(LAMBDA d, s : IF s \in d.kept THEN d
                              ELSE [kept |-> d.kept \cup {s}, new |-> Append(d.new, s)],
                [kept |-> kept, new |-> <<>>], stems)

Tallied(failed, refused) ==
  [calls |-> tally.calls + 1, failed |-> tally.failed + (IF failed THEN 1 ELSE 0),
   refused |-> tally.refused \/ refused]

\* A call that failed, or whose reply would not parse.
Failed == /\ tally' = Tallied(TRUE, FALSE)
          /\ UNCHANGED <<accepted, kept, produced, blind>>

\* A reply of which `stems` passed validation: they are deduplicated and accepted.
Accept(stems, book, refused) ==
  \E down \in BOOLEAN :
    LET d == Novel(stems, down) IN
    /\ stems = <<>> => ~down
    /\ accepted' = accepted \o [i \in DOMAIN d.new |-> [stem |-> d.new[i], book |-> book]]
    /\ kept' = d.kept
    /\ produced' = produced + Len(d.new)
    /\ blind' = (blind \/ down)
    /\ tally' = Tallied(FALSE, refused \/ Len(d.new) < Len(stems))

-----------------------------------------------------------------------------
\* The brief is read, the material fetched, sampled and planned.
ReadBrief ==
  /\ pc = "brief"
  /\ preference' \in Preferences
  /\ \/ pc' = "harvest" /\ UNCHANGED paper
     \/ pc' = "ended" /\ paper' = [end |-> "no material", questions |-> <<>>]
  /\ UNCHANGED <<left, next, cursor, accepted, kept, remaining, produced, reached, retry,
                 tally, blind>>

\* Pass zero.  The places of a batch with a stem that can be used,
UsableOf(i) == {k \in DOMAIN BookBatches[i] : BookBatches[i][k] \notin Unusable}

\* and the first of them, as many as are still wanted.
Asked(i) ==
  {k \in UsableOf(i) : Cardinality({j \in UsableOf(i) : j <= k})
                         <= HarvestTarget(preference) - Len(accepted)}

Harvests ==
  /\ Len(accepted) < HarvestTarget(preference)
  /\ cursor < Len(BookBatches)
  /\ left > 0

\* An answer whose fields the schema refuses is met outside the try that guards the call:
\* the exception leaves the run, and what it had accepted goes with it.
Broken ==
  /\ pc' = "ended"
  /\ paper' = [end |-> "broken", questions |-> <<>>]
  /\ UNCHANGED <<tally, accepted, kept, produced, blind>>

\* The next batch with something usable in it: answered as far as it is wanted.
HarvestAsk(i) ==
  /\ left' = left - 1
  /\ \/ Broken
     \/ Failed /\ UNCHANGED <<pc, paper>>
     \/ \E ns \in BoundedSeq(Asked(i), MaxItems), refused \in BOOLEAN :
          /\ ns # <<>> \/ refused
          /\ Accept([k \in DOMAIN ns |-> BookBatches[i][ns[k]]], TRUE, refused)
          /\ UNCHANGED <<pc, paper>>

\* Mutant: batches with nothing usable in them are not passed over.
TakeFromBookStuck ==
  /\ pc = "harvest" /\ Harvests
  /\ LET usable == {i \in cursor + 1 .. Len(BookBatches) : UsableOf(i) # {}} IN
     IF usable = {}
     THEN UNCHANGED <<cursor, left, tally, accepted, kept, produced, blind, pc, paper>>
     ELSE \E i \in usable : /\ \A j \in usable : i <= j
                            /\ cursor' = i
                            /\ HarvestAsk(i)
  /\ UNCHANGED <<preference, next, remaining, reached, retry>>

TakeFromBook ==
  /\ pc = "harvest" /\ Harvests
  /\ LET usable == {i \in cursor + 1 .. Len(BookBatches) : UsableOf(i) # {}} IN
     IF usable = {}
     THEN /\ cursor' = Len(BookBatches)
          /\ UNCHANGED <<left, tally, accepted, kept, produced, blind, pc, paper>>
     ELSE \E i \in usable : /\ \A j \in usable : i <= j
                            /\ cursor' = i
                            /\ HarvestAsk(i)
  /\ UNCHANGED <<preference, next, remaining, reached, retry>>

HarvestDone ==
  /\ pc = "harvest" /\ ~Harvests
  /\ pc' = "first"
  /\ UNCHANGED <<preference, left, next, cursor, accepted, kept, remaining, produced,
                 reached, retry, tally, blind, paper>>

\* One call for new questions, from the next batch of passages.
Ask(wanted) ==
  /\ left' = left - 1
  /\ next' = next + 1
  /\ \/ Failed /\ UNCHANGED reached
     \/ /\ reached' = TRUE
        /\ \E stems \in BoundedSeq(Stems, Lesser(wanted, MaxItems)), refused \in BOOLEAN :
             /\ stems # <<>> \/ refused
             /\ Accept(stems, FALSE, refused)

\* Pass one: at most one call per batch of passages.
Asks == next < Batches /\ remaining > 0 /\ left > 0

FirstAsk ==
  /\ pc = "first" /\ Asks
  /\ Ask(remaining)
  /\ remaining' = remaining - (produced' - produced)
  /\ UNCHANGED <<pc, preference, cursor, retry, paper>>

FirstDone ==
  /\ pc = "first" /\ ~Asks
  /\ pc' = "backfill"
  /\ retry' = (produced > 0 \/ ~reached)
  /\ UNCHANGED <<preference, left, next, cursor, accepted, kept, remaining, produced,
                 reached, tally, blind, paper>>

\* Pass two: the shortfall, from a format that works or never got a hearing.
Short == Len(accepted) < Target /\ retry /\ left > 0

\* Mutant: a call that brings nothing ends the asking.
BackfillOnce ==
  /\ pc = "backfill" /\ Short
  /\ Ask(Target - Len(accepted))
  /\ retry' = (accepted' # accepted)
  /\ UNCHANGED <<pc, preference, cursor, remaining, paper>>

Backfill ==
  /\ pc = "backfill" /\ Short
  /\ Ask(Target - Len(accepted))
  /\ retry' = /\ produced' > 0 \/ ~reached'
              /\ ~(accepted' = accepted /\ produced' = 0)
  /\ UNCHANGED <<pc, preference, cursor, remaining, paper>>

\* Mutant: any failed call is taken for an outage.
WhyEmptyAnyFailure ==
  IF tally.failed > 0 THEN "silent" ELSE IF tally.refused THEN "rejected" ELSE "unsettled"

\* Nothing accepted: why, from the trace's tallies.
WhyEmpty ==
  IF tally.calls > 0 /\ tally.failed = tally.calls THEN "silent"
  ELSE IF tally.refused THEN "rejected"
  ELSE "unsettled"

Harvested == {accepted[i].stem : i \in {k \in DOMAIN accepted : accepted[k].book}}

\* The first Target of what was accepted, marked by where the stem came from.
Questions ==
  [i \in 1..Lesser(Target, Len(accepted)) |->
     [stem |-> accepted[i].stem, book |-> accepted[i].stem \in Harvested]]

Finish ==
  /\ pc = "backfill" /\ ~Short
  /\ pc' = "ended"
  /\ paper' = IF accepted = <<>> THEN [end |-> WhyEmpty, questions |-> <<>>]
              ELSE [end |-> "written", questions |-> Questions]
  /\ UNCHANGED <<preference, left, next, cursor, accepted, kept, remaining, produced,
                 reached, retry, tally, blind>>

Ended == pc = "ended" /\ UNCHANGED vars

Calls == TakeFromBook \/ FirstAsk \/ Backfill
Goes == ReadBrief \/ HarvestDone \/ FirstDone \/ Finish

Next == Calls \/ Goes \/ Ended
Spec == Init /\ [][Next]_vars
FairSpec == Spec /\ WF_vars(Calls \/ Goes)

-----------------------------------------------------------------------------
\* No stem is on the paper twice, whichever pass and whichever call brought it, as long
\* as the deduper could compare; and then the questions marked as the book's own are
\* those taken from it (docs: D31, a harvested question is a checkable claim).
NoTwice ==
  ~blind =>
    /\ IsInjective([i \in DOMAIN accepted |-> accepted[i].stem])
    /\ \A i \in DOMAIN paper.questions : paper.questions[i].book = accepted[i].book

\* The share of the book is a ceiling, over several calls and whatever numbers the
\* replies repeat, and what the book gave has the first claim on the paper: none of it
\* is lost when the paper is cut to its size.
BookCeiling ==
  /\ ~blind => Cardinality(Harvested) <= HarvestTarget(preference)
  /\ (~blind /\ paper.end = "written") =>
       Harvested \subseteq {paper.questions[i].stem : i \in DOMAIN paper.questions}
  /\ preference = "never" => Harvested = {}

\* No run gives up early: a call that failed, a reply refused or a run of duplicates never
\* ends it.  A paper that is handed over short has spent its budget of calls; one that is
\* empty has too, or has shown every batch of passages to the model, and asked once more if
\* nothing was answered at all.  What does end a run early is a reply that breaks it, and
\* that only while it takes the book's questions, before any call for new ones: no answer of
\* the two passes that write can.
NoEarlySurrender ==
  /\ paper.end = "written" /\ Len(paper.questions) < Target => left = 0
  /\ pc = "ended" /\ paper.end \in {"silent", "rejected", "unsettled"} =>
       \/ left = 0
       \/ next >= Batches + (IF paper.end = "silent" THEN 1 ELSE 0)
  /\ paper.end = "broken" =>
       next = 0 /\ cursor > 0 /\ left < MaxCalls

\* The author of a paper for which the run found no question is told of the service exactly
\* when no call was answered; and that questions were refused only if some were.
HonestReason ==
  (pc = "ended" /\ paper.end \in {"silent", "rejected", "unsettled"}) =>
    /\ paper.end = "silent" <=> tally.failed = MaxCalls - left
    /\ paper.end = "rejected" => tally.refused

\* One failed batch never fails the paper: a run that had material ends with a paper or with
\* the reason there is none (the docstrings of generate_questions and take_from_book).
OneBatchFailsNoPaper == paper.end # "broken"

\* Whatever is answered, the run ends, within its budget.
Ends == <>(pc = "ended")

=============================================================================
