----------------------------- MODULE CustodyLog -----------------------------
(***************************************************************************)
(* What the chain of custody promises its readers: one append-only log per *)
(* incident.  A request adds its entries to the end of the log all at      *)
(* once, next to each other and in its own order, or adds nothing; it may  *)
(* leave out an entry it does not insist on, never one it does.            *)
(***************************************************************************)
EXTENDS Naturals, Sequences, FiniteSets

CONSTANTS
  Incident,   \* incident ids
  Request,    \* requests that record custody events
  Plan        \* the entries a request records, in order

VARIABLES
  log,        \* per incident: the recorded events
  ended       \* requests that were answered

\* The entries a request may leave out, by their place in its plan.
Optional(r) == {k \in 1 .. Len(Plan[r]) : ~Plan[r][k].strict}

\* The entries for incident i of a request that leaves out some.
Taken(r, i, skipped) ==
  {k \in 1 .. Len(Plan[r]) : Plan[r][k].incident = i /\ k \notin skipped}

\* The n-th number of S.
Nth(S, n) == CHOOSE k \in S : Cardinality({j \in S : j <= k}) = n

\* What request r adds to the log of incident i when it leaves out some entries.
Block(r, i, skipped) ==
  LET taken == Taken(r, i, skipped)
  IN [n \in 1 .. Cardinality(taken) |-> Plan[r][Nth(taken, n)].what]

LogInit ==
  /\ log = [i \in Incident |-> <<>>]
  /\ ended = {}

Record(r) ==
  /\ \E skipped \in SUBSET Optional(r) :
       log' = [i \in Incident |-> log[i] \o Block(r, i, skipped)]
  /\ ended' = ended \cup {r}

Refuse(r) ==
  /\ ended' = ended \cup {r}
  /\ UNCHANGED log

LogNext == \E r \in Request \ ended : Record(r) \/ Refuse(r)

LogSpec == LogInit /\ [][LogNext]_<<log, ended>>
=============================================================================
