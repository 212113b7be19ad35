--------------------------- MODULE OperatorVerdict ---------------------------
(***************************************************************************)
(* What human-on-the-loop (HotL) supervision promises about one tool call  *)
(* that was escalated to an operator: the tool runs only on a recorded     *)
(* "allow", the loop is told "denied" only on a recorded "deny", a         *)
(* decision is recorded at most once and is never rewritten, and a call    *)
(* that ended stays ended.  Whatever else may end a call (a time-out, a    *)
(* cancellation, a storage failure, the death of the process) withdraws it *)
(* without running the tool.                                               *)
(*                                                                         *)
(* Module HotlEscalation implements this specification.                    *)
(***************************************************************************)
CONSTANT Esc          \* the escalation ids

VARIABLES
  decision,           \* the operator's recorded decision on each escalation
  outcome             \* how the escalated tool call ended

Decision == {"none", "allow", "deny"}
Outcome  == {"open", "released", "denied", "withdrawn"}

VerdictTypeOK ==
  /\ decision \in [Esc -> Decision]
  /\ outcome  \in [Esc -> Outcome]

Init ==
  /\ decision = [e \in Esc |-> "none"]
  /\ outcome  = [e \in Esc |-> "open"]

Decide(e, v) ==       \* an operator's verdict is recorded, once
  /\ decision[e] = "none"
  /\ decision' = [decision EXCEPT ![e] = v]
  /\ UNCHANGED outcome

Release(e) ==         \* the tool runs
  /\ outcome[e] = "open"
  /\ decision[e] = "allow"
  /\ outcome' = [outcome EXCEPT ![e] = "released"]
  /\ UNCHANGED decision

Deny(e) ==            \* the loop is told that the operator refused
  /\ outcome[e] = "open"
  /\ decision[e] = "deny"
  /\ outcome' = [outcome EXCEPT ![e] = "denied"]
  /\ UNCHANGED decision

Withdraw(W) ==        \* the calls W end without the tool having run
  /\ \A e \in W : outcome[e] = "open"
  /\ outcome' = [e \in Esc |-> IF e \in W THEN "withdrawn" ELSE outcome[e]]
  /\ UNCHANGED decision

Next ==
  \/ \E e \in Esc : \/ \E v \in {"allow", "deny"} : Decide(e, v)
                    \/ Release(e)
                    \/ Deny(e)
  \/ \E W \in SUBSET Esc : Withdraw(W)

vvars == <<decision, outcome>>

Spec == Init /\ [][Next]_vvars
=============================================================================
