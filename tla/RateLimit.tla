----------------------------- MODULE RateLimit -----------------------------
(***************************************************************************)
(* The limit on one reader's requests: check in                            *)
(* backend/app/core/ratelimit.py.  A window is a key in Redis that counts  *)
(* and expires; a check counts itself and, if it is the first of the       *)
(* window, sets the key to expire, in two calls.  (If Redis does not answer *)
(* the first, the request is let in and nothing is counted: no step here.) *)
(***************************************************************************)
EXTENDS Integers, FiniteSets

CONSTANTS
  Checks,   \* requests that may be checked at a time
  Limit,    \* requests let in within a window
  MaxUsed   \* bound on the count

ASSUME LimitAssumption == Limit \in Nat \ {0} /\ MaxUsed \in Nat /\ MaxUsed > Limit

VARIABLES
  used,      \* the count of the key, 0 when there is no key
  timed,     \* the key expires
  expiring,  \* checks that counted 1 and have not set the expiry
  letIn,     \* history: requests let in by the count in this window
  refused,   \* history: requests refused in it
  orphan     \* history: an expiry was never set

limitVars == <<used, timed, expiring, letIn, refused, orphan>>

LimitTypeOK ==
  /\ used \in 0..MaxUsed /\ timed \in BOOLEAN /\ orphan \in BOOLEAN
  /\ expiring \subseteq Checks
  /\ letIn \in 0..MaxUsed /\ refused \in 0..MaxUsed
  /\ expiring # {} => used > 0 /\ ~timed  \* the expiry of a window is set once

LimitInit ==
  used = 0 /\ timed = FALSE /\ expiring = {} /\ letIn = 0 /\ refused = 0 /\ orphan = FALSE

\* Mutant: the count before this request is compared.
IncrBefore(c) ==
  /\ c \notin expiring /\ used < MaxUsed
  /\ used' = used + 1
  /\ IF used = 0
     THEN expiring' = expiring \cup {c} /\ UNCHANGED <<letIn, refused>>
     ELSE /\ IF used > Limit THEN refused' = refused + 1 /\ UNCHANGED letIn
                             ELSE letIn' = letIn + 1 /\ UNCHANGED refused
          /\ UNCHANGED expiring
  /\ UNCHANGED <<timed, orphan>>

\* INCR, and the answer; the first one has the expiry to set before it is let in.
Incr(c) ==
  /\ c \notin expiring /\ used < MaxUsed
  /\ used' = used + 1
  /\ IF used = 0
     THEN expiring' = expiring \cup {c} /\ UNCHANGED <<letIn, refused>>
     ELSE /\ IF used' > Limit THEN refused' = refused + 1 /\ UNCHANGED letIn
                              ELSE letIn' = letIn + 1 /\ UNCHANGED refused
          /\ UNCHANGED expiring
  /\ UNCHANGED <<timed, orphan>>

\* Mutant: the key is never set to expire.
ExpireNever(c) ==
  /\ c \in expiring
  /\ expiring' = expiring \ {c}
  /\ letIn' = letIn + 1
  /\ UNCHANGED <<used, timed, refused, orphan>>

\* EXPIRE.
Expire(c) ==
  /\ c \in expiring
  /\ expiring' = expiring \ {c}
  /\ timed' = TRUE
  /\ letIn' = letIn + 1
  /\ UNCHANGED <<used, refused, orphan>>

\* Redis does not answer the second call, and the request is let in; or the process dies.
ExpireLost(c) ==
  /\ c \in expiring
  /\ expiring' = expiring \ {c}
  /\ orphan' = TRUE
  /\ \/ letIn' = letIn + 1
     \/ UNCHANGED letIn
  /\ UNCHANGED <<used, timed, refused>>

\* The window is over.
WindowEnds ==
  /\ timed
  /\ used' = 0 /\ timed' = FALSE /\ letIn' = 0 /\ refused' = 0
  /\ UNCHANGED <<expiring, orphan>>

LimitNext ==
  \/ \E c \in Checks : Incr(c) \/ Expire(c) \/ ExpireLost(c)
  \/ WindowEnds

\* Redis expires a key that is set to expire, and a process goes on with its check.
LimitFair == WF_limitVars(WindowEnds) /\ WF_limitVars(\E c \in Checks : Expire(c))

LimitSpec == LimitInit /\ [][LimitNext]_limitVars /\ LimitFair

-----------------------------------------------------------------------------
\* Whatever the order of concurrent checks, a window lets in no more than the limit, and
\* refuses nobody before it has.
LimitHolds == letIn <= Limit /\ (refused > 0 => letIn + Cardinality(expiring) >= Limit \/ orphan)

\* A reader who was refused is not refused for ever: the count starts again, unless the
\* expiry of the window was lost between the two calls; then it never does.
LetInAgain == refused > 0 ~> (refused = 0 \/ orphan)

=============================================================================
