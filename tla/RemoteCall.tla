----------------------------- MODULE RemoteCall -----------------------------
(***************************************************************************)
(* What the bridge to a terminal promises its callers: a request is        *)
(* executed at most once, a caller gets one answer, ok only after the      *)
(* request was executed, and that answer stands.  An error says nothing of *)
(* the terminal: a request may have been executed before it or be executed *)
(* after it, once the caller has given up.                                 *)
(***************************************************************************)
EXTENDS Integers

CONSTANT Requests

VARIABLES
  outcome,   \* what the caller of each request knows
  executed   \* how often the terminal executed each request

call == <<outcome, executed>>

Outcomes == {"idle", "open", "ok", "error"}

Init ==
  /\ outcome = [r \in Requests |-> "idle"]
  /\ executed = [r \in Requests |-> 0]

Ask(r) ==
  /\ outcome[r] = "idle"
  /\ outcome' = [outcome EXCEPT ![r] = "open"]
  /\ UNCHANGED executed

\* No terminal is known: nothing is sent.
Refuse(r) ==
  /\ outcome[r] = "idle"
  /\ outcome' = [outcome EXCEPT ![r] = "error"]
  /\ UNCHANGED executed

Execute(r) ==
  /\ outcome[r] # "idle" /\ executed[r] = 0
  /\ executed' = [executed EXCEPT ![r] = 1]
  /\ UNCHANGED outcome

Answer(r) ==
  /\ outcome[r] = "open" /\ executed[r] = 1
  /\ outcome' = [outcome EXCEPT ![r] = "ok"]
  /\ UNCHANGED executed

\* A dead socket or process fails every request that went through it.
Fail(rs) ==
  /\ \A r \in rs : outcome[r] = "open"
  /\ outcome' = [r \in Requests |-> IF r \in rs THEN "error" ELSE outcome[r]]
  /\ UNCHANGED executed

Next ==
  \/ \E r \in Requests : Ask(r) \/ Refuse(r) \/ Execute(r) \/ Answer(r)
  \/ \E rs \in SUBSET Requests : Fail(rs)

Spec == Init /\ [][Next]_call
=============================================================================
