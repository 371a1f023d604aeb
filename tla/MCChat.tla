------------------------------- MODULE MCChat -------------------------------
(***************************************************************************)
(* Instances for TLC of Chat and of RateLimit.  A behaviour is one of a    *)
(* conversation, or one of the limit (`part`).                             *)
(***************************************************************************)
EXTENDS Chat, RateLimit

CONSTANTS b1, b2, t1, t2

VARIABLE part

Plain == [intent |-> "question", shape |-> "focused", names |-> {}, ids |-> {},
          single |-> FALSE, all |-> FALSE, bare |-> FALSE, every |-> FALSE]

Summarize == [Plain EXCEPT !.shape = "overview", !.single = TRUE]     \* "summarize this book"
WhoWrote  == [Plain EXCEPT !.shape = "metadata"]                     \* "who wrote Hamlet"
Title     == [Plain EXCEPT !.bare = TRUE, !.names = {b1}]             \* a title, no more
AllBooks  == [Plain EXCEPT !.every = TRUE, !.all = TRUE]              \* "all my books"
Again     == [Plain EXCEPT !.intent = "follow_up"]                    \* "explain that again"
Picked    == [Plain EXCEPT !.ids = {b2}, !.shape = "lookup"]          \* a mention in one book
Compare   == [Plain EXCEPT !.shape = "compare", !.all = TRUE]         \* "compare my books"

AllTexts == {Summarize, WhoWrote, Title, AllBooks, Again, Picked, Compare}

-----------------------------------------------------------------------------
\* Bound: a conversation in which something goes out of order, the library changes or the
\* process dies has this many messages, and the library changes only in one in order.
Short == 2

\* Messages that failed or were left before a word of an answer was seen.
Unheard == {n \in DOMAIN said : pc[n] = "over" /\ n \notin shown}
InOrder == ~mixed /\ changes = 0 /\ crashes = 0 /\ lost = {} /\ Unheard = {}

\* Bound: what is sent last in a longer one, or in one where something of this happens.
LastTexts == {Summarize, Title, Again}

\* Bound: what only a conversation begins with.
FirstTexts == {Compare, WhoWrote}

Talks ==
  /\ Next
  /\ changes' + crashes' <= 1
  /\ ~(mixed' /\ changes' > 0)
  /\ Len(said') > Short => InOrder' /\ said'[MaxAsks] \in LastTexts
  /\ (said' # <<>> /\ (mixed' \/ crashes' + changes' > 0)) => Last(said') \in LastTexts
  /\ Len(said') > 1 => Last(said') \notin FirstTexts
  /\ UNCHANGED <<limitVars, part>>

Limits == LimitNext /\ UNCHANGED <<vars, part>>

mcVars == <<vars, limitVars, part>>
Rests == Going \cup late = {} /\ UNCHANGED mcVars

MCInit ==
  /\ Init /\ LimitInit
  /\ part \in {"conversation", "limit"}

MCNext ==
  \/ part = "conversation" /\ Talks
  \/ part = "limit" /\ Limits
  \/ Rests

MCSpec ==
  /\ MCInit /\ [][MCNext]_mcVars
  /\ WF_mcVars(part = "conversation" /\ Works /\ UNCHANGED <<limitVars, part>>)
  /\ WF_mcVars(WindowEnds /\ UNCHANGED <<vars, part>>)
  /\ WF_mcVars((\E c \in Checks : Expire(c)) /\ UNCHANGED <<vars, part>>)

=============================================================================
