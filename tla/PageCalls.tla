------------------------------ MODULE PageCalls ------------------------------
(***************************************************************************)
(* The calls of the mounted pages: request() of api.ts as a page sees it.  *)
(* WebSession has the cookies and the expiry; here a call is sent, served, *)
(* sent a second time after any failure, and its promise settles.  A page  *)
(* that is left does not cancel its calls: they are served, and what the   *)
(* page wrote after the await still runs, only its state is gone.  Left    *)
(* out: the server may execute a request after the client gave it up,      *)
(* since aborting a fetch does not recall what was sent (a page that needs *)
(* it, as the start of a collection does, has an action of its own).       *)
(***************************************************************************)
EXTENDS Naturals, FiniteSets

CONSTANTS
  Nothing,      \* no argument, no result
  Reads,        \* kinds of calls that change nothing, neither when they are
                \* served nor, once their page is gone, when they settle
  Slot,         \* bound: calls in flight at once, 1..n
  MaxFaults     \* bound: lost answers, timeouts and server errors

ASSUME CallsAssumption == IsFiniteSet(Slot) /\ Slot = 1..Cardinality(Slot) /\ Slot # {} /\ MaxFaults \in Nat

VARIABLES net, faults

MAX_RETRIES == 2
NoCall      == [st |-> "idle", kind |-> "none", arg |-> Nothing, try |-> 0, ok |-> FALSE,
                res |-> Nothing, live |-> FALSE]

CallsTypeOK ==
  /\ DOMAIN net = Slot /\ faults \in 0..MaxFaults
  /\ \A c \in Slot : /\ DOMAIN net[c] = DOMAIN NoCall
                     /\ net[c].st \in {"idle", "sent", "answered", "broken"}
                     /\ net[c].try \in 0..MAX_RETRIES

CallsInit == net = [c \in Slot |-> NoCall] /\ faults = 0

\* Put the calls of the set new, <<kind, argument>> each, into free slots.
Least(S)    == CHOOSE c \in S : \A d \in S : c <= d
FreeIn(n)   == {c \in Slot : n[c].st = "idle"}
Room(k)     == Cardinality(FreeIn(net)) >= k
NewCall(k, a, l) == [NoCall EXCEPT !.st = "sent", !.kind = k, !.arg = a, !.try = 1, !.live = l]
With(n, k, a, l) == [n EXCEPT ![Least(FreeIn(n))] = NewCall(k, a, l)]
Without(n, c)    == [n EXCEPT ![c] = NoCall]
\* The page is left; of its reads nothing is heard again.
Orphaned(n)      == [c \in Slot |-> IF n[c].kind \in Reads THEN NoCall ELSE [n[c] EXCEPT !.live = FALSE]]

Pending(k)  == \E c \in Slot : net[c].st # "idle" /\ net[c].live /\ net[c].kind = k

\* The server's answer to a call of kind k in slot c.
Asked(c, k)       == net[c].st = "sent" /\ net[c].kind = k
Serve(c, ok, r)   == net' = [net EXCEPT ![c].st = "answered", ![c].ok = ok, ![c].res = r]

\* The promise of the call: settled when it has been tried often enough.
Resolved(c, k) == net[c].kind = k /\ net[c].st = "answered" /\ net[c].ok
Rejected(c, k) == /\ net[c].kind = k
                  /\ net[c].st = "broken" \/ (net[c].st = "answered" /\ ~net[c].ok /\ net[c].try = MAX_RETRIES)

\* Any error answer is tried once more.
Again(c) ==
  /\ net[c].st = "answered" /\ ~net[c].ok /\ net[c].try < MAX_RETRIES
  /\ net' = [net EXCEPT ![c].st = "sent", ![c].try = @ + 1, ![c].res = Nothing]
  /\ UNCHANGED faults

\* The request or its answer is lost; the second loss is final.
Lose(c) ==
  /\ net[c].st \in {"sent", "answered"} /\ faults < MaxFaults
  /\ faults' = faults + 1
  /\ net' = IF net[c].try < MAX_RETRIES
            THEN [net EXCEPT ![c].st = "sent", ![c].try = @ + 1, ![c].ok = FALSE, ![c].res = Nothing]
            ELSE [net EXCEPT ![c].st = "broken", ![c].ok = FALSE, ![c].res = Nothing]

\* The timer of the first attempt runs out: 408, never tried again.
TimeOut(c) ==
  /\ net[c].st \in {"sent", "answered"} /\ net[c].try = 1 /\ faults < MaxFaults
  /\ faults' = faults + 1
  /\ net' = [net EXCEPT ![c].st = "broken", ![c].ok = FALSE, ![c].res = Nothing]
=============================================================================
