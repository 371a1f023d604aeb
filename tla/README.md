# A verification of kitaably

TLA+ modules of kitaably's backend, checked with TLC on small instances, and proofs about
them checked with TLAPS. Everything is translated from the source; paths below are
relative to `src/backend/app/` unless they start with another directory.
`PROJECT.json` maps each definition to its lines.

## 1. The system and its hard parts

kitaably ingests books, answers questions about them in a chat, writes multiple-choice
papers from them, lets people sit those papers (proctored or not) and marks them. Requests
are FastAPI handlers, each one READ COMMITTED Postgres transaction through an ORM session;
slow work is Celery tasks on four queues, delivered at least once
(`workers/celery_app.py`: `task_acks_late`, `task_reject_on_worker_lost`,
`visibility_timeout`); Celery beat starts two sweeps. Postgres policies, unique constraints,
triggers and `SECURITY DEFINER` functions are part of the logic. Components interact through
rows, through messages sent after a commit, and through nothing else.

| component | state | operations | what is hard | what makes it correct |
|---|---|---|---|---|
| sitting a paper (`services/attempts.py`, `api/v1/attempts.py`) | `attempts`, `answers` | start, autosave, submit, override, release, void | two tabs, retries, decisions on loaded rows, column-wise updates, policies asked before the lock | one sitting, one deadline; submit and deadline close the answers; nothing is released unmarked |
| marking (`workers/tasks/grading.py`) | marks, score, `graded_at`, `grading_error` | `grade_attempt` | redelivery, races with override and void, answers inserted twice | every question marked, a human's mark kept, a handed-in paper is marked in the end |
| proctoring (`…_proctoring.sql`, `workers/tasks/maintenance.py`, `workers/tasks/proctoring.py`) | `proctor_sessions`, `proctor_events` | open, record, heartbeat, close, sweep, aggregate | check-then-write in two statements, `now()` of the transaction start, a crash before the enqueue | one session, its record closed by its end, a silence recorded once, every ended session scored |
| authoring (`services/assessments.py`, `api/v1/assessments.py`) | `assessments`, `questions` | draft, edit, write, delete, publish, close | two tabs and a generation run write the same questions | a published paper is frozen, its questions are one run's and the author's |
| generation as a task (`workers/tasks/assessments.py`, the sweep of `workers/tasks/maintenance.py`) | the same rows | generate, fail, stale sweep | a slow run against the sweep, redelivery, a process lost anywhere | the author is always told how the writing ended |
| generation inside (`generate_questions`, `rag/formats.py`, `rag/harvest.py`) | the questions accepted, the budget of calls | brief, harvest, first pass, retries, backfill | failed calls, torn replies, duplicates, shares and rounding | no question twice, no early surrender, an honest reason for an empty paper |
| library (`services/books.py`, `workers/tasks/ingest.py`) | `books`, `chapters`, `chunks`, Storage | upload, ingest, retry, re-ingest, share, delete | two runs of one ingest, scope triggers, file and row not atomic | a chunk's scope is its book's; one whole reading at a time; a deletion leaves nothing |
| chunking (`rag/chunk.py`) | pure | chapters, chunks | flushes, overlap, pieces | the text is in the index, in order, in its chapter |
| chat (`services/chat.py`, `api/v1/chat.py`) | `chat_sessions`, `chat_messages` | ask, stream, file | a cut stream, a question answered over two turns, two tabs | an answer once and under its question; the books the reader chose |
| retrieval (`rag/rank.py`, `rag/trim.py`, `rag/retrieve.py`) | pure, over what a query returned | fuse, dedupe, vote, route, excerpt, terms | ties, starvation, thresholds | narrowing never starves; the best hit survives |
| plumbing (`core/ratelimit.py`, `core/security.py`) | Redis counters, cached keys | check, get, refresh | two Redis calls | a window's limit, and nobody locked out for ever |
| audit, notifications, feedback; embeddings; frontend; deployment | | | | see section 7 |

The hazards, each at its line and with the properties that would catch it, are in
`PROJECT.json`.

## 2. Modules

| module | role |
|---|---|
| `Sitting` | abstract: what one sitting promises (begun once, finished once, marked after, shown after that, never undone) |
| `Attempts` | detailed: requests of `Slot` handlers, `Worker` graders, the queue, the clock, the author closing the paper |
| `Proctoring` | the monitoring record of one attempt: `Slot` requests, `Sweeper` sweeps, `Aggregator` tasks |
| `Generation` | one paper from its draft to its closing: `Slot` requests of its author, `Run` generation tasks, `Sweeper` stale sweeps |
| `Drafting` | the inside of one run of `generate_questions` |
| `Sampling`, `Questions`, `Harvest` | pure: the passages a run shows the model, one reply and its answer key, the questions a page prints |
| `Shelf` | abstract: what one book promises to whoever asks it questions |
| `Library` | detailed: rows, file, triggers, locks, ingest and delete tasks, the queue |
| `Chunking` | pure: chapters and chunks of a parsed book |
| `Chat` | one conversation: what each turn decides, its stream, the filing of its answer, the books coming and going |
| `Retrieval` | pure: what becomes of the passages a search finds |
| `RateLimit` | the counter of one key |
| `Places` | choosing from a sequence by a set of its places, sorting, adding up: the comprehensions and sorts of the pure functions |
| `Calls` | the pure functions called: what the inputs can be (`Possible`), one call of one of `Inputs`, what it must return |
| `Extremes` | lemmas on `Max` and `Min` of finite sets of integers, and induction up to a bound |
| `…Proofs` | theorems about the module of that name; `ChatProofs` also holds those about `RateLimit` |
| `MC…` | instances for TLC; `MCCalls` are bounded inputs of the pure functions, which `MCDrafting` calls beside a run; `MCChat` also runs the rate limiter |

**How a request is modelled.** The ORM loads rows, the handler decides on what it loaded, and
the UPDATE at flush carries only the columns that differ from the loaded ones (`Updated`). So
an operation is a read step, which stores what was loaded in `req[s]` (or `worker[w]`,
`run[w]`, `sweep[w]`, `agg[a]`), and a write step merged with its commit: nobody sees an
uncommitted row, and a row lock only delays. Where something is decided while a row lock is
held, or two transactions can wait for each other, the lock is explicit (`lock` in `Attempts`,
`BookFree` and `ChunksFree` in `Library`). Requests that are refused and reads are stuttering
steps. Actions are named after the operation and its step: `SaveRead`, `SavePolicy`,
`SaveLock`, `SaveCommit` are one autosave. A task is a message taken from a count, and put
back if its process is lost or its visibility timeout passes while it runs.

**Attempts.** `attempt` is the row in `attempts` (`absent` before it exists; the times
`graded_at`, `results_released_at` and the text `grading_error` are kept as whether they are
null), `answers` the rows in `answers`. `lost` remembers a marking that was lost without a word.
Correct options and points are constants; feedback and
audit rows, which nothing reads, are left out.

**Proctoring.** `now()` in Postgres is the start of the transaction, so each request and
sweep carries `now`; the sweep has also its own `now` and begins a second transaction after
it commits the gaps. Events are kept in commit order with type, `received_at`, and for a
gap the heartbeat it starts from. The integrity score is a function of the events and the
length of the sitting, so a score is the number of events seen and that length. Two variables
are history: `lost`, an end that was committed and never enqueued, and `overlapped`, an
aggregation that began while one of another end was under way.

**Generation.** `paper` is the row of `assessments`, `questions` the committed rows of the
paper with id, index and the run that wrote them (`by`; none once the author edited it). A run
loads the row, leaves checkpoints of its trace, and replaces the generated questions in one
transaction: the rows its DELETE finds are fixed first (`RunSwap`), then the unique
`(assessment_id, index)` decides whether its inserts pass (`RunCommit`) or the whole is rolled
back. `age` counts the time since the row was written in steps: all the sweep asks is whether
it is past `Stale`.

**Drafting.** The words are gone: a question is its stem, near-duplicates are equal stems, and
a call to the model ends in failure or in a reply of some items that pass validation and some
that do not. What is kept is every decision: the book's share, which batch is shown, what the
budget leaves, when a format is given up, what is told to the author of an empty paper, and the
exception that ends the run (`Broken`). A database that fails inside a run is `Generation`'s.
`Generation`'s step from `RunLoad` to `RunSwap` is such a run.

**Library.** The chapters and chunks that one run stores are one record, named by the run's
reading of the book, with the scope its rows carry. Parsing, chunking and embedding are one
status `working`, which nothing tells apart; a status write with its load is one step. A
delete may end with an error at either of its steps (`DeleteError`), and is not retried.
`stranded` remembers that a message was never sent or a failure never recorded.

**Chat.** A text is what the classifiers of `rag/intent.py` and `rag/shape.py` say of it
(intent, shape, the books it names, whether it is no more than a title). `turn` is what
`prepare_turn` decided, `log` the rows of `chat_messages` in the order of `created_at`, which is
when the transaction began. `cites` is the set of books sources may be taken from. The library
may change between requests and, within one, once between the choice of its books and the
search in them; the reads of one choice see the same library. A reader
may close the tab at any point of a stream; the detached write of what was shown goes on
(`late`).

**Retrieval, Sampling, Questions, Harvest, Chunking.** Passages, lines, options and paragraphs
are records of what the functions look at: a book, a page, a length in characters, a marker,
where the blanks are, a set of matched words; two lines or sentences say the same if they
carry the same text. Similarities are integers over one denominator, and fusion scores fractions
compared by cross-multiplication, so that no limit on the length of a ranking is built in. Lists
that Python selects or sorts are written by the set of places they take (`Pick`, `Sorted`), and a
loop that carries state as a recursive function of how many elements it has seen (`Packed`,
`Total`): so their lemmas can be proved. `Calls` puts the functions together: `Possible` says
what an input can be (passages of a book in reading order, each once; an outline in order; no
word with two counts), a behaviour makes one call with one of `Inputs`, and the six invariants
say what it returns.

## 3. Runs

Twelve runs; `CHECK_DEADLOCK FALSE` where the system really stops (a paper marked, a book
deleted, the bounds on requests and faults used up). In the runs of `MCDrafting` and `MCChat`,
which check for deadlock, the end of a behaviour is a step of its own (`Ended`, `Rests`).

| run | shows | bounds, and why they are enough |
|---|---|---|
| `attempts_answering` | `GradedIsComplete`, `OneSitting`, `SubmittedSeal`, `DeadlineSeal` | two handlers (two tabs), two questions, two options, immediate release, two minutes in a window of three so that a late start is cut short, clock 0..3, one lost API or worker process: every order of start, save, submit, deadline and marking occurs |
| `attempts_marking` | `TypeOK`, `HumanMarkKept`, `ImplementsSitting` | two handlers and two graders, every kind of request, two messages: each race is between two of them |
| `attempts_live` | `EventuallyMarked` | one handler, two graders, one lost API or worker process or one failure of the database |
| `proctoring_ending` | `NotFlooded`, `OneGapPerSilence`, `ScoredOnlyEnded`, `EndSeal`, `OneSession` | two tabs, two sweeps and an aggregator, batches of none and one, limit 1, clock 0..3 with gap 1, abandonment 2, deadline 1: silence, abandonment and the deadline all occur in each order with a submit |
| `proctoring_live` | `AggregateConverges`, `EventuallyScored` | one tab with heartbeats and voids, a sweep, two aggregators, clock 0..4, one lost API, sweep or worker process: an end is committed over another while either is being scored |
| `generation_drafting` | `OneDrafting`, `FrozenSeal`, `EventuallyTold` | a tab with every request and one that edits, two runs, a sweep, a redelivery, one lost process of any kind, papers of one question beside one the author writes: the first place is the one that is fought over |
| `library_shelf` | `ScopeFollows`, `DeletedLeavesNothing`, `IsShelf` | one request at a time, two workers, one waiting message, one retry, one fault of any kind, a delete's errors at will |
| `library_live` | `EventuallySettled` | the same without sharing and deleting |
| `drafting` | `NoTwice`, `BookCeiling`, `NoEarlySurrender`, `HonestReason`, `Ends`; and of every call `MaterialShown`, `ReplyRead`, `PrintedOnce`, `PagesIndexed`, `HitsRanked`, `MaterialChosen` | three questions, four calls, two batches of passages, three exercises of the book (one with a figure besides, one all figure), replies of two items, four stems one of which the book asks too: the book's share, both passes and the budget each end a run |
| `drafting_broken` | violates `OneBatchFailsNoPaper` | the same |
| `attempts_override_lost` | violates `HumanMarkStands` | two handlers, two graders, one question |
| `chat` | `TypeOK`, `ReadsAsADialogue`, `ClarifiedOnce`, `StaysWithinBooks`, `ShownIsFiled`, `LimitHolds`, `LetInAgain` | two books, seven texts (one for each way a turn can go), two tabs, three messages in order and two once something goes out of order, fails, or the library changes (never both out of order and changed): a clarification is a question, a reply and what follows |

The inputs of the pure functions: three chapters of one, two or four passages of two lengths, with
and without exercises; replies of up to three objects in three shapes, whole, broken or cut;
two or three options under four keys and three texts; pages of up to four lines under every
kind of marker, "1." and "Q1." among them; three pages of up to two paragraphs of 20, 43 or 121
characters (within the overlap, fitting, too long), under every outline; up to five hits of three books; rankings of up to four; passages of up to three
sentences, and of one with its blanks anywhere; questions of up to three words among rare, common and absent ones. Each call is a
step of its own from the run that found no material, so that a counterexample ends in the input.

Bounds are in guards: `MaxClock` in `Tick`, `MaxQueue` and `MaxQueued` where a message would be
started, `MaxEvents` in `RecordBegin`, `MaxWritten`, `MaxRedelivered`, `MaxCrashes`,
`MaxMishaps`, `MaxAsks`, `MaxChanges`, `MaxUsed`; `MCChat` names those on the order of texts
(`Short`, `LastTexts`, `FirstTexts`). Symmetry (`Permutations` of handlers and graders) is used
in safety runs only.

Two runs refute what comments in the repository say (the quoted lines are in `PROJECT.json`,
`findings`). `attempts_override_lost`, `HumanMarkStands`: a grading task that loaded an answer
before the author overrode it overwrites the author's mark. `drafting_broken`,
`OneBatchFailsNoPaper`: an answer to a question of the book whose options are of the wrong type
raises out of `generate_questions` (`services/assessments.py` 1993, behind the `try` of
1937-1971; `parse_harvested` checks only `n`), so one bad answer ends the run and what it had
accepted is lost, against "One failed batch must not fail the paper" (1538, and 1905).

## 4. What the code does that its comments do not say

Each was found as a counterexample to the stronger property that suggests itself, or while
translating; the passing properties say what remains true.

*Sitting and marking.* Voiding between load and commit of a grading task is not seen, so a
voided paper is marked. Two overrides sum without each other, so the score may not be the sum
of the marks. Two submits on both sides of the deadline turn `submitted` into
`auto_submitted`, and one that read `in_progress` overwrites a void. Two deliveries that both
insert a missing answer leave `grading_error` on the paper that one of them graded. A save
that passed the policy commits after the submit, or after the deadline. An API process lost
between commit and enqueue leaves a submitted paper unmarked until somebody submits it again;
so does a grading task that cannot record its own failure (`workers/tasks/grading.py` 109-112
only logs it), or fails before the `try` (39-52).

*Proctoring.* The sweep can abort a session that was closed since it was selected. A sweep
killed before its enqueue leaves sessions unscored. Two processes consume `maintenance` and
`proctor` (`docker-compose.yml`): two sweeps that overlap record one silence twice, never more
(`OneGapPerSilence` counts the sweeps), and aggregations of two different ends that overlap may
leave the score of the older (`AggregateConverges` excuses those behaviours, and no others,
with `overlapped`). A gap recorded later than the heartbeat that ended it marks the next silence
too. A batch past its check is written after the session was scored.

*Generation.* When the sweep releases a slow run, the run's terminal write does not clear the
sweep's error: the column was null when it loaded the row and is null when it finishes, so the
UPDATE leaves it out, and the full paper keeps "interrupted" (`maintenance.py` near 184 says
the late write wins). A late or redelivered run takes a published paper back to draft and
replaces its questions; an edit that loaded the draft changes a published paper. Failing
before a trace is attached leaves a trace that never finishes on a draft.

*Drafting.* The first pass asks for the whole target even after the book has given part of it
(`services/assessments.py` near 1892: the writing pass "fills whatever they leave"). With
embeddings down duplicates pass, a question is put twice and the harvest exceeds its ceiling.
A format that never worked is retried once. Questions of the book that point at a figure, and
answers its text does not settle, are counted as rejected by the trace
(`services/generation_trace.py` 104 adds up all the reasons) although the comment at
`services/assessments.py` 1984-1988 says they are not; so the third reason for an empty paper
(2154) is never given, and `HonestReason` holds of the other two. Sampling trims from the end, so a
long book's last chapters can lose their share ("Each chapter gets a share"), and the last
position of a chapter is not always included ("endpoints included").

*Questions and Harvest.* A choice list with some keys blank and some named can mark another
option correct: a blank key is numbered by place and can take the label a later one was given
(259-300); `ReplyRead` is of lists with all or no keys. A reply of one bare object decodes to
its `options` list and the question is lost. A printed list "(a) (b) (c)" is lost, and others
are cut at "(C)" or "c.", which read as items; a choice that is itself a question is found
again as one. A question behind "Q1." or "Question 1." is found twice: the loose line keeps its
marker, so it is not the text of its item, which has lost it ("so a question that ends an
exercise is not harvested twice", `rag/harvest.py` 216-219).

*Library and Chunking.* A re-ingest takes a ready book out of use until it is embedded again
as far as its status goes (its passages stay). A worker lost during classification reads the
book again; two retries make two runs. A failed retry marks a ready book failed, and a ready
book may keep an error text. A delete that fails after the file is gone (`workers/tasks/ingest.py`
386-402) is not retried and leaves a book without its file. An API process lost before its message leaves a book `uploaded`,
which nobody can retry, or a file nobody names. The overlap carried over can put a chunk over
its budget by as much ("never exceeds"). Front matter before the first chapter of an outline
is not indexed, and a page on which two chapters start is in both.

*Chat and Retrieval.* A tab closed while its answer is being committed files the answer twice
("Written once, complete"); answers cut by a disconnect or a failing model are filed like
complete ones. With two tabs, or a late write, `created_at` interleaves turns, and a reply to
"which book?" may resume another question (`mixed`). A follow-up that led to that question,
resumed, is glued to itself and loses its subject; and it is narrowed by the titles of the
question before. `narrow` may drop the strongest hit for the vote. `excerpt` takes the narrowest
of equally good windows ("Widest window that fits", `rag/trim.py` 108), and the first sentence
if no word matches; one sentence of several may be over the budget on its own, and only a
passage of a single sentence is cut.

*Rate limit.* A failure of the first call lets a request in uncounted; a process lost, or a
failure, between the two leaves a key without an expiry, and its reader is refused for ever
(`orphan`).

## 5. Fairness

People owe nothing: no fairness on starting, saving, submitting, heartbeats, authors, owners
or readers. A request that was accepted runs to its end (weak fairness per handler); workers
keep consuming and beat keeps starting sweeps (weak fairness per process); time passes
(`Tick`). Waiting for an answer's row lock is strongly fair: Postgres queues lock waiters. In
`Generation` only the sweep, the clock and a run's calls, each of which has a timeout, are
fair: a run may hang in its last transaction or its handler, and a message may never come.
In `Library` taking an ingest message is strongly fair, since the broker's queue is in order
and other messages are taken before it; an ingest goes on because its calls have timeouts and
Postgres ends a deadlock. In `Chat` the process goes on with what it started (detached writes
too), and in `RateLimit` Redis expires what is set to expire. Crash actions, refusals and lost
messages are never fair, and bounded.

## 6. What is proved

For every value of the constants that satisfies the named assumptions, without symmetry or
bounds on the numbers of handlers, workers, runs, questions, books or messages.

| module | theorems | the invariant, and why it is needed |
|---|---|---|
| `AttemptsProofs` | `TypeCorrect`, `AlwaysConsistent`, `GradedComplete`, `Implements`, `OneSittingHolds`, `SubmittedSealHolds`, `DeadlineSealHolds`, `HumanMarkKeptHolds` | a grading task commits column-wise marks computed from rows that have changed since. It is right because marks and graders are never set back to null (`TaskKnows`, `HandlerKnows`: what was seen non-null still is). For the refinement, a message exists only for a finished attempt, and a finished one never reopens (`Consistent`) |
| `ProctoringProofs` | `TypeCorrect`, `Correct`, `ScoredOnlyEndedHolds`, `OneSessionHolds`, `EndSealHolds`, `OneGapPerSilenceHolds`, `AggregateConvergesHolds`, `NotFloodedHolds` | a close that read the session active finds it begun, one that read it ended will enqueue it ended (`Consistent`). For the gaps, `Marked`: a gap is later than the heartbeat it starts from, so it still covers that silence when the heartbeat is moved forth and back; each sweep holds at most one gap of a silence it saw unmarked, so there are no more than sweeps (`FewGaps`). For the score, `Converging`: a session for which nothing is due is scored by its end, and no aggregation is left that would put an older score back, as long as neither `lost` nor `overlapped` has happened. For the limit, `AllRoomy`: a batch past its check already counts in every window its events will be in |
| `GenerationProofs` | `TypeCorrect`, `OneDraftingHolds`, `FrozenSealHolds` | `Whole`: a generated question that a run's DELETE did not find stands before every question it found, and the first place is taken whenever there is a generated question; so the run's inserts, which begin at the first place, meet the unique index whenever another run's questions would stay |
| `LibraryProofs` | `TypeCorrect`, `Correct`, `ScopeFollowsHolds`, `DeletedLeavesNothingHolds`, `ImplementsShelf` | `Sound`: the one run that holds the chunks has found all there are, with the scope the book has while it holds them; a share holds the book row and waits for the chunks; a deletion reaches the row only after the file is gone |
| `DraftingProofs` | `FillingHolds`, `NoTwiceHolds`, `BookCeilingHolds`, `NoEarlySurrenderHolds`, `HonestReasonHolds` | `Filling`: the trace's tallies and the budget agree (`Counts`), a refusal is recorded whenever an answer brought nothing (`Answered`), accepted and remembered stems are the same, each once (`Once`), the book's stand before the model's within their ceiling (`BookFirst`), a format is given up only with a reason (`Willing`), and the paper is what was accepted (`Handed`): together `Whole`, until an answer breaks the run (`Gone`) |
| `ChatProofs` | `TypesHold`, `AlwaysShaped`, `StaysWithinBooksHolds`, `AlwaysDialogue`, `ReadsAsADialogueHolds`, `AlwaysOrdered`, `AlwaysDecided`, `ClarifiedOnceHolds` | `Dialogue`: an answer under way is of a filed question and not in the log yet, unless it was cut off while being filed; as long as messages waited for each other only the last one is under way, and the log ends with it. For the clarification, `Ordered`: every question is in the log and, as long as messages waited for each other, in the order asked with its answers behind it; and `Decided`: what a turn was decided on. Assumes `Turns >= 3`: an answer cut off while being filed may stand in the log twice, and the history must still reach its question (TLC refutes the property at 2; `chat_history_turns` is 4) |
| `ChatProofs`, of `RateLimit` | `LimitTypeCorrect`, `LimitAlwaysHolds` | `Counted`: let in, refused and still to be let in add up to the count unless an expiry was lost, and one check at most has an expiry to set |
| `CallsProofs` | `MaterialShownHolds`, `ReplyReadHolds`, `PrintedOnceHolds`, `PagesIndexedHolds`, `HitsRankedHolds`, `MaterialChosenHolds` | whatever `Inputs` of `Possible` are called. The state has nothing to be invariant about; the work is in what each function returns, below |

*Layout.* One lemma per invariant for the initial states, then a step per action of `Next` and
under it a step per conjunct the action can disturb; most actions leave the rows alone and are
covered by lemmas on what a step keeps. Temporal conclusions by `PTL`.

*The pure functions* (`CallsProofs`). What a set of places, a sort and a sum give is proved once
(`NthIs`, `PickIs`, `SortedIs`, `TotalIs`), and that a recursive function along a list exists
and keeps what each of its steps keeps (`RecursionExists`, `Along`), both by induction up to a
bound. On these rest

- chunking: `Good`, the invariant of the packing loop: the chunks emitted so far lay the
  paragraphs seen out in order, each in full, and the buffer starts within the overlap of the
  last of them (`PackGood`, `FlushGood`, `CutGood`), with its meaning for the property in
  `Laid` and `Shows`;
- the sample: the k-th of `take` positions over `size` is `k * size \div take`, so that two are
  a whole spacing apart (`Spacing`), and `take` is at least one (`TakeIs`); the batches: every
  place of the sample is `i + k * count` for exactly one batch `i`, which its neighbour is not
  (`StrideIs`, `StrideApart`), and there are as many batches as their size asks for
  (`BatchCountIs`); the harvest: every question is in exactly one stretch that starts at a
  multiple of `perCall` (`StretchOf`), and passages with different places in a book are no
  more than the span (`ContextIs`);
- fusion: two late places are worth more than one first place (`ScoreIs`, `ScoresFair`), for
  rankings of at most 61, see the assumptions; narrowing: a dominant book is the first of the
  vote (`OutvotesIs`, `VotedIs`), and deduplicating, spreading and cutting each leave a
  subsequence that keeps the first hit (`KeptIs`, `SpreadIs`, `RouteIs`);
- search words: a word that is not selective is inserted anywhere without a change to those that
  are kept (`InsertIs`, `FillerGoes`); the cross-section: Postgres's tiles start where the
  longer ones are used up (`StartAfter`, `NtileIs`); the excerpt: the best window from each
  start on is the best of those that fit (`FurthestIs`, `BestFromIs`), and the head of a
  single sentence ends where a blank follows a word;
- the book's questions: the text of a loose line is in no stem without its marker, and two
  places of a page are in one item at most (`Lines`).

*Assumptions.* Those of each module are on its constants and the code fixes them: a share is a
percentage, limits and targets are positive, a batch is a finite sequence, a missing score is
not a score (`NullAssumption`), the book's batches are sequences of stems (`BookAssumption`).
What a theorem assumes beyond them is its ASSUME, and named in the table. `Calls` assumes of its
inputs what `Possible` says (`InputsAssumption`); of that, two bounds are not the callers' but
the properties'. Rankings fused are of at most 61: further down, a chunk that both searches
found late is worth less than one at the front of a single list, by the constant of the fusion
(the code asks for 30 and 20, `core/config.py`). And a question has fewer than 24 words, so that one
more is still probed (`_MAX_TERMS_PROBED`).

Sets of places, not sequences selected from sequences, stand for the transcript and history of
`Chat` and for `UsableOf` and `Asked` in `Drafting`, so that their lemmas need no induction. The
deduper's fold is the exception: `NovelCleans` is proved from the recursive function behind
`FoldLeft`, by the induction up to a bound of `Extremes` (`UpToBound`).

*Only model-checked.* Liveness (`EventuallyMarked`, `EventuallyScored`, `EventuallyTold`,
`EventuallySettled`, `ShownIsFiled`, `LetInAgain`, `Ends`), which needs ENABLED and fairness.
Every safety invariant and action property that a passing run checks is stated by a theorem. The type invariants of the other modules are proved and not run; so are the inductive
invariants.

## 7. Not modelled, and why

- The words: prompts, the brief's text, intent and shape patterns, suggestions, wording of
  errors and traces (`rag/prompts.py`, `rag/intent.py`, `rag/shape.py`,
  `services/suggestions.py`). What they decide is an input of the models.
- Text extraction (`rag/parse.py`) and embeddings (`src/embeddings/`): calls that answer or
  fail.
- The cached signing keys of `core/security.py`, guards and middleware: preconditions of
  the requests. A key rotated within 30 seconds of a refresh is refused until then.
- Audit, notification and feedback rows are written in the transaction of what they
  describe and are read by none of the operations above.
- Reads (previews, results, reports, lists) change nothing.
- The frontend, its exam runner and its proctoring monitor: clients that send any request at
  any time.
- Deployment files fix numbers the runs quote.

What is left of the plan, in this order: the integrity score as a function; the refresh of
signing keys under its lock and floor; the exam runner's debounce, flush and countdown submit
against the server of `Attempts`; `Drafting` as a refinement of the run in `Generation`.

## 8. Running

    tlc -workers 2 -config Attempts_marking.cfg MCAttempts
    tlapm AttemptsProofs.tla
