------------------------------- MODULE ApiCall -------------------------------
(***************************************************************************)
(* What apiGet, apiPost, apiPatch, apiPut and apiDelete promise a page     *)
(* that waits for one call at a time: the server may execute the call up   *)
(* to MAX_RETRIES times, it has executed it at least once when the call    *)
(* resolves, and nothing is known of a call that is rejected or lost with  *)
(* the page.                                                               *)
(***************************************************************************)
EXTENDS Naturals

CONSTANT Caller       \* who waits for calls

VARIABLES
  call,               \* per caller: the state of its promise
  execs               \* per caller: how often the server executed the call

vars == <<call, execs>>

MAX_RETRIES == 2
Promise     == {"none", "pending", "ok", "failed"}

Init == /\ call = [c \in Caller |-> "none"]
        /\ execs = [c \in Caller |-> 0]

Settle(c, s) == call' = [call EXCEPT ![c] = s] /\ UNCHANGED execs

Call(c)    == /\ call[c] # "pending"
              /\ call' = [call EXCEPT ![c] = "pending"]
              /\ execs' = [execs EXCEPT ![c] = 0]
Execute(c) == /\ call[c] = "pending" /\ execs[c] < MAX_RETRIES
              /\ execs' = [execs EXCEPT ![c] = @ + 1]
              /\ UNCHANGED call
Resolve(c) == call[c] = "pending" /\ execs[c] > 0 /\ Settle(c, "ok")
Reject(c)  == call[c] = "pending" /\ Settle(c, "failed")
\* The page is unloaded and its promises with it.
Unload(c)  == /\ call' = [call EXCEPT ![c] = "none"]
              /\ execs' = [execs EXCEPT ![c] = 0]

Step(c) == Call(c) \/ Execute(c) \/ Resolve(c) \/ Reject(c) \/ Unload(c)
Next == \E c \in Caller : Step(c)
Spec == Init /\ [][Next]_vars
=============================================================================
