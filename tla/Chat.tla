-------------------------------- MODULE Chat --------------------------------
(***************************************************************************)
(* One conversation with the tutor: send_message in                        *)
(* backend/app/api/v1/chat.py and prepare_turn, stream_answer and          *)
(* record_answer in services/chat.py.                                      *)
(*                                                                         *)
(* A question is decided on within its request (what it refers to, which   *)
(* books it is about, what they hold), filed and answered by a stream of   *)
(* words; the answer is filed when the stream ends, by the stream itself   *)
(* or, if it was cut off, by a write that outlives it.  A reader may have  *)
(* the conversation open in several tabs.                                  *)
(*                                                                         *)
(* What a text says is a record: the kind of message it is (`intent`), how *)
(* its material is gathered (`shape`), whether it points at "this book"    *)
(* (`single`) or at all of them (`all`), the titles it names, whether it   *)
(* names them and no more (`bare`) or is one of the invited "all of them"  *)
(* (`every`); and `ids`, the books picked in the page.  What a search      *)
(* finds is any outcome its WHERE clause allows, of the library as it is   *)
(* by then: it may have changed since the books were chosen.               *)
(***************************************************************************)
EXTENDS Integers, FiniteSetsExt, SequencesExt

CONSTANTS
  Books,       \* the books there are
  Texts,       \* what a reader may send
  MaxAsks,     \* bound: messages sent
  Tabs,        \* bound: turns at a time
  MaxChanges,  \* bound: changes of the library
  MaxCrashes,  \* bound: deaths of the API process
  Turns,       \* settings.chat_history_turns
  MultiBook    \* settings.chat_multibook_max

Intents == {"chat", "question", "follow_up"}
Shapes == <<"compare", "metadata", "lookup", "overview", "focused">>
Asks == 1..MaxAsks

ASSUME TextsAssumption ==
  /\ {MaxAsks, Tabs, Turns, MultiBook} \subseteq Nat \ {0}
  /\ {MaxChanges, MaxCrashes} \subseteq Nat
  /\ Texts \subseteq [intent : Intents, shape : ToSet(Shapes), names : SUBSET Books,
                      ids : SUBSET Books, single : BOOLEAN, all : BOOLEAN, bare : BOOLEAN,
                      every : BOOLEAN]

VARIABLES
  library,    \* books as this reader sees them
  said,       \* the messages sent, in the order of their arrival
  turn,       \* what was decided of each
  pc,         \* where each turn is
  shown,      \* turns of which the reader has seen words
  log,        \* chat_messages, ordered by created_at: when the transaction began
  committed,  \* the questions of the log that are committed
  late,       \* the detached writes under way, by their turn
  cut,        \* history: turns cut off while their answer was being filed
  lost,       \* history: answers a crash or a failing database took
  mixed,      \* history: a message was sent before the turn before it was settled
  changes, crashes

vars == <<library, said, turn, pc, shown, log, committed, late, cut, lost, mixed,
          changes, crashes>>

-----------------------------------------------------------------------------
Outcome == {"conversational", "refusal", "no_mentions", "pick_book", "needs_two_books",
            "book_facts", "answered"}

\* asked is the message answered, about the messages whose text is searched with, limit
\* the books the reader limited it to ({} for no limit), cites the books its
\* sources are taken from.
Turn == [asked : Asks, about : SUBSET Asks, limit : SUBSET Books, outcome : Outcome,
         cites : SUBSET Books]

TypeOK ==
  /\ library \in [Books -> {"none", "embedding", "ready"}]
  /\ said \in Seq(Texts) /\ Len(said) <= MaxAsks
  /\ turn \in [DOMAIN said -> Turn]
  /\ pc \in [DOMAIN said -> {"committing", "streaming", "filing", "over"}]
  /\ {shown, committed, late, cut, lost} \subseteq SUBSET DOMAIN said
  /\ late \cup {n \in DOMAIN said : pc[n] = "filing"} \subseteq shown  \* never an empty answer
  /\ \A i \in DOMAIN log : log[i] \in [n : DOMAIN said, role : {"user", "assistant"}]
  /\ mixed \in BOOLEAN /\ changes \in 0..MaxChanges /\ crashes \in 0..MaxCrashes

Init ==
  /\ library = [b \in Books |-> "ready"]
  /\ said = <<>> /\ turn = <<>> /\ pc = <<>>
  /\ shown = {} /\ log = <<>> /\ committed = {} /\ late = {}
  /\ cut = {} /\ lost = {} /\ mixed = FALSE /\ changes = 0 /\ crashes = 0

-----------------------------------------------------------------------------
\* What other transactions see of the conversation, and the end of it a turn is given: both
\* as the places of their messages in the log.
Transcript == {i \in DOMAIN log : log[i].role = "assistant" \/ log[i].n \in committed}
History ==
  LET messages == Transcript
  IN {i \in messages : Cardinality({j \in messages : j >= i}) <= Turns}

\* The reader's messages in a history, and the last of them.
Readers(history) == {i \in history : log[i].role = "user"}
LastAsked(history) == log[Max(Readers(history))].n

Visible == {b \in Books : library[b] = "ready"}

\* Mutant: the question which book is meant counts as open wherever in the history it is.
PickBookPendingEver(history) ==
  \E i \in history : log[i].role = "assistant" /\ turn[log[i].n].outcome = "pick_book"

\* The tutor's last word was the question which book is meant.
PickBookPending(history) ==
  /\ history # {}
  /\ LET last == log[Max(history)] IN
     last.role = "assistant" /\ turn[last.n].outcome = "pick_book"

\* The books a reply to it chooses.
Chosen(text) ==
  IF text.every THEN Visible
  ELSE IF text.bare THEN text.names \cap Visible
  ELSE {}

\* Message n, saying `text`, answers it: the last thing the reader asked is resumed.
Resumes(text, history) ==
  /\ text.ids = {} /\ PickBookPending(history)
  /\ Chosen(text) # {} /\ Readers(history) # {}

\* The message that is answered, and the books it is limited to.
Resolved(n, text, history) ==
  IF Resumes(text, history)
  THEN [asked |-> LastAsked(history), ids |-> Chosen(text)]
  ELSE [asked |-> n, ids |-> text.ids]

\* A follow-up is searched with the last question glued before it.
About(asked, texts, history) ==
  IF texts[asked].intent = "follow_up" /\ Readers(history) # {}
  THEN {LastAsked(history), asked}
  ELSE {asked}

\* How such a text reads: the first shape any part of it has.
Profile(about, texts) ==
  LET some(P(_)) == \E k \in about : P(texts[k])
      first == CHOOSE i \in DOMAIN Shapes :
                 /\ some(LAMBDA t : t.shape = Shapes[i])
                 /\ \A j \in 1..i - 1 : ~some(LAMBDA t : t.shape = Shapes[j])
  IN [shape |-> Shapes[first],
      names |-> UNION {texts[k].names : k \in about},
      all |-> some(LAMBDA t : t.all),
      single |-> some(LAMBDA t : t.single) /\ ~some(LAMBDA t : t.all)]

\* Which books a question about whole books means, and whether the reader said so.
TargetBooks(profile, ids) ==
  IF ids # {} THEN [books |-> ids \cap Visible, narrowed |-> TRUE]
  ELSE IF profile.names \cap Visible # {}
       THEN [books |-> profile.names \cap Visible, narrowed |-> TRUE]
  ELSE [books |-> Visible, narrowed |-> FALSE]

\* The one book the reader named last, unless that message named several.
BookFromConversation(texts, history, books) ==
  LET naming == {i \in Readers(history) : texts[log[i].n].names \cap books # {}}
      named == texts[log[Max(naming)].n].names \cap books
  IN IF naming = {} \/ Cardinality(named) > 1 THEN {} ELSE named

\* Ways a turn can come out: an outcome, with the books its sources are taken from.
Fixed(outcome) == {<<outcome, {}>>}
Answered(from) == IF from = {} THEN {} ELSE {<<"answered", from>>}

\* Mutant: the filter on the books is dropped.
ReachAll(ids) == Books

\* The WHERE clause of a search.
Reach(ids) == IF ids = {} THEN Books ELSE ids \cap Books
Search(ids, otherwise) == Fixed(otherwise) \cup Answered(Reach(ids))

\* The first few of the books, in the order of their titles: any of them.
Included(books) ==
  IF Cardinality(books) <= MultiBook THEN Answered(books)
  ELSE UNION {Answered(some) : some \in kSubset(MultiBook, books)}

\* The books a question about a whole book means; none, if the reader has to be asked.
Meant(profile, target, texts, history) ==
  IF profile.single /\ ~target.narrowed /\ Cardinality(target.books) > 1
  THEN BookFromConversation(texts, history, target.books)
  ELSE target.books

PrepareMetadata(profile, ids, texts, history) ==
  LET target == TargetBooks(profile, ids) IN
  IF target.books = {} THEN Fixed("refusal")
  ELSE IF ~target.narrowed /\ ~profile.single /\ ~profile.all THEN Search(ids, "refusal")
  ELSE IF Meant(profile, target, texts, history) = {} THEN Fixed("pick_book")
  ELSE Fixed("book_facts")

PrepareOverview(profile, ids, texts, history) ==
  LET target == TargetBooks(profile, ids)
      books == Meant(profile, target, texts, history)
  IN IF target.books = {} THEN Fixed("refusal")
     ELSE IF books = {} THEN Fixed("pick_book")
     ELSE Fixed("refusal") \cup Included(books)

PrepareLookup(ids) == Search(ids, "no_mentions")

PrepareCompare(profile, ids) ==
  LET books == TargetBooks(profile, ids).books IN
  IF Cardinality(books) < 2 THEN Fixed("needs_two_books")
  ELSE Fixed("refusal") \cup Included(books)

Prepare(intent, profile, ids, texts, history) ==
  CASE intent = "chat" -> Fixed("conversational")
    [] intent # "chat" ->
       CASE profile.shape = "overview" -> PrepareOverview(profile, ids, texts, history)
         [] profile.shape = "metadata" -> PrepareMetadata(profile, ids, texts, history)
         [] profile.shape = "compare"  -> PrepareCompare(profile, ids)
         [] profile.shape = "lookup"   -> PrepareLookup(ids)
         [] OTHER                      -> Search(ids, "refusal")

-----------------------------------------------------------------------------
Going == {n \in DOMAIN said : pc[n] # "over"}

\* A book is ingested again, finished, deleted, shared or withdrawn.
Change ==
  /\ changes < MaxChanges
  /\ changes' = changes + 1
  /\ \E b \in Books, s \in {"none", "embedding", "ready"} :
       s # library[b] /\ library' = [library EXCEPT ![b] = s]

LibraryChanges ==
  /\ Change
  /\ UNCHANGED <<said, turn, pc, shown, log, committed, late, cut, lost, mixed, crashes>>

\* Of the books looked for, those there are when the search is made, still embedding or not.
Found(books) == {b \in books : library'[b] # "none"}

\* A message arrives: within its transaction the turn is decided on.  The library may change
\* between the choice of its books and the search in them.
Ask(text) ==
  /\ Len(said) < MaxAsks /\ Cardinality(Going) < Tabs
  /\ LET n == Len(said) + 1
         texts == Append(said, text)
         history == History
         what == Resolved(n, text, history)
         about == About(what.asked, texts, history)
     IN /\ said' = texts
        /\ \E way \in Prepare(texts[what.asked].intent, Profile(about, texts), what.ids,
                              texts, history) :
             /\ Change \/ UNCHANGED <<library, changes>>
             /\ way[1] = "answered" => Found(way[2]) # {}
             /\ turn' = Append(turn, [asked |-> what.asked, about |-> about,
                                      limit |-> what.ids, outcome |-> way[1],
                                      cites |-> Found(way[2])])
        /\ log' = Append(log, [n |-> n, role |-> "user"])
  /\ pc' = Append(pc, "committing")
  /\ mixed' = (mixed \/ Going # {} \/ late # {})
  /\ UNCHANGED <<shown, committed, late, cut, lost, crashes>>

\* The question is filed, the conversation touched, and the stream begins.
Commit(n) ==
  /\ pc[n] = "committing"
  /\ committed' = committed \cup {n}
  /\ pc' = [pc EXCEPT ![n] = "streaming"]
  /\ UNCHANGED <<library, said, turn, shown, log, late, cut, lost, mixed, changes, crashes>>

\* The request fails before it: an error, and nothing is filed.
RequestFails(n) ==
  /\ pc[n] = "committing"
  /\ pc' = [pc EXCEPT ![n] = "over"]
  /\ UNCHANGED <<library, said, turn, shown, log, committed, late, cut, lost, mixed,
                 changes, crashes>>

Model(n) == turn[n].cites # {}

Speak(n) ==
  /\ pc[n] = "streaming" /\ n \notin shown
  /\ shown' = shown \cup {n}
  /\ UNCHANGED <<library, said, turn, pc, log, committed, late, cut, lost, mixed,
                 changes, crashes>>

\* Mutant: an empty answer is filed.
StreamEndsEmpty(n) ==
  /\ pc[n] = "streaming" /\ (n \in shown \/ Model(n))
  /\ pc' = [pc EXCEPT ![n] = "filing"]
  /\ UNCHANGED <<library, said, turn, shown, log, committed, late, cut, lost, mixed,
                 changes, crashes>>

\* The stream ends; an empty answer is not filed.
StreamEnds(n) ==
  /\ pc[n] = "streaming" /\ (n \in shown \/ Model(n))
  /\ pc' = [pc EXCEPT ![n] = IF n \in shown THEN "filing" ELSE "over"]
  /\ UNCHANGED <<library, said, turn, shown, log, committed, late, cut, lost, mixed,
                 changes, crashes>>

\* record_answer, and its failure, which is swallowed.
Filed(n) == log' = Append(log, [n |-> n, role |-> "assistant"])

\* Mutant: the stream does not remember that it has filed its answer.
FileUnmarked(n) ==
  /\ pc[n] = "filing"
  /\ Filed(n) /\ late' = late \cup {n}
  /\ pc' = [pc EXCEPT ![n] = "over"]
  /\ UNCHANGED <<library, said, turn, shown, committed, cut, lost, mixed, changes, crashes>>

File(n) ==
  /\ pc[n] = "filing"
  /\ \/ Filed(n) /\ UNCHANGED lost
     \/ lost' = lost \cup {n} /\ UNCHANGED log
  /\ pc' = [pc EXCEPT ![n] = "over"]
  /\ UNCHANGED <<library, said, turn, shown, committed, late, cut, mixed, changes, crashes>>

\* Mutant: a broken stream files nothing.
DetachSilent(n) ==
  /\ pc' = [pc EXCEPT ![n] = "over"]
  /\ late' = late

\* The stream breaks, by the model server or by the reader closing the tab; what was
\* shown is filed by a write of its own.
Detach(n) ==
  /\ pc' = [pc EXCEPT ![n] = "over"]
  /\ late' = IF n \in shown THEN late \cup {n} ELSE late

StreamBreaks(n) ==
  /\ pc[n] = "streaming"
  /\ Detach(n)
  /\ UNCHANGED <<library, said, turn, shown, log, committed, cut, lost, mixed, changes,
                 crashes>>

\* The tab is closed while the answer is being filed: the commit may have come through.
LeaveWhileFiling(n) ==
  /\ pc[n] = "filing"
  /\ Detach(n)
  /\ cut' = cut \cup {n}
  /\ Filed(n) \/ UNCHANGED log
  /\ UNCHANGED <<library, said, turn, shown, committed, lost, mixed, changes, crashes>>

FileLate(n) ==
  /\ n \in late
  /\ late' = late \ {n}
  /\ \/ Filed(n) /\ UNCHANGED lost
     \/ lost' = lost \cup {n} /\ UNCHANGED log
  /\ UNCHANGED <<library, said, turn, pc, shown, committed, cut, mixed, changes, crashes>>

\* The API process dies.
Crash ==
  /\ crashes < MaxCrashes /\ Going \cup late # {}
  /\ crashes' = crashes + 1
  /\ pc' = [n \in DOMAIN pc |-> "over"]
  /\ lost' = lost \cup (Going \cap shown) \cup late
  /\ late' = {}
  /\ UNCHANGED <<library, said, turn, shown, log, committed, cut, mixed, changes>>

Works ==
  \E n \in DOMAIN said : Commit(n) \/ Speak(n) \/ StreamEnds(n) \/ File(n) \/ FileLate(n)

Next ==
  \/ \E text \in Texts : Ask(text)
  \/ Works
  \/ \E n \in DOMAIN said : RequestFails(n) \/ StreamBreaks(n) \/ LeaveWhileFiling(n)
  \/ Crash \/ LibraryChanges

Spec == Init /\ [][Next]_vars

\* The process goes on with what it has started.
FairSpec == Spec /\ WF_vars(Works)

-----------------------------------------------------------------------------
AnswersTo(n) == {i \in DOMAIN log : log[i] = [n |-> n, role |-> "assistant"]}

\* A question is filed before its answer, and its answer once; twice only if the tab was
\* closed while the answer was being filed.  As long as every message waits for the turn
\* before it, an answer is read right under its question.  ("Written once, complete.")
ReadsAsADialogue ==
  \A n \in DOMAIN said :
    /\ Cardinality(AnswersTo(n)) <= IF n \in cut THEN 2 ELSE 1
    /\ AnswersTo(n) # {} => n \in committed
    /\ \A i \in AnswersTo(n) : ~mixed => log[i - 1].n = n

\* The message before n that was filed.
Before(n) == {m \in committed : m < n}

\* A reply to "which book do you mean?" resumes the question that was asked about, with
\* the subject it had, in the books the reply chose, and never leads to being asked
\* again; if no message overtook a turn, and the question was not itself a follow-up.  A
\* reader who chose one book, which is still there, is not asked by the next message either.
ClarifiedOnce ==
  ~mixed => \A n \in DOMAIN said :
    turn[n].asked # n =>
      LET m == Max(Before(n)) IN
      /\ turn[n].asked = m /\ turn[m].outcome = "pick_book"
      /\ said[m].intent # "follow_up" => turn[n].about = turn[m].about
      /\ turn[n].outcome # "pick_book" /\ turn[n].limit # {}
      /\ changes = 0 /\ Cardinality(turn[n].limit) = 1 /\ n \in committed =>
           \A k \in DOMAIN said : n = Max(Before(k) \cup {0}) => turn[k].outcome # "pick_book"

\* The model is asked for words only over sources, and a reader who picked books, in the
\* page or in words, is answered from no other, whatever way the question takes.
StaysWithinBooks ==
  \A n \in DOMAIN said :
    /\ turn[n].outcome = "answered" <=> turn[n].cites # {}
    /\ turn[n].limit # {} => turn[n].cites \subseteq turn[n].limit
    /\ said[n].ids # {} => turn[n].limit = said[n].ids

\* Words the reader has seen are filed in the end, unless the process died or the
\* database refused them.
ShownIsFiled ==
  \A n \in Asks :
    (n \in DOMAIN said /\ n \in shown) ~> (n \in lost \/ AnswersTo(n) # {})

=============================================================================
