-------------------------- MODULE IncidentLifecycle --------------------------
(***************************************************************************)
(* What the incident pipeline promises, whatever requests race, fail, are  *)
(* dropped or die with the process: one live incident for one alert, a     *)
(* status that only moves along the documented arrows, and agents that     *)
(* work on an incident one at a time, each only after the transition that  *)
(* lets it in.                                                             *)
(***************************************************************************)

CONSTANTS
  Incident,   \* incidents, all of the same alert
  Agent       \* who may run an agent's turn

VARIABLES
  status,     \* the status of each incident
  agents      \* who is at work on it

vars == <<status, agents>>

Terminal == {"resolved", "failed", "dismissed"}
Live(i)  == status[i] \notin Terminal \cup {"absent"}

(* IncidentStatus::can_transition_to                                       *)
Legal ==
  {<<"open", "analyzing">>, <<"analyzing", "awaiting_approval">>, <<"analyzing", "open">>,
   <<"awaiting_approval", "repairing">>, <<"repairing", "resolved">>, <<"repairing", "failed">>}
  \cup ({"open", "analyzing", "awaiting_approval", "repairing"} \X {"dismissed"})

Init ==
  /\ status = [i \in Incident |-> "absent"]
  /\ agents = [i \in Incident |-> {}]

(* An alert with no live incident opens one.                               *)
Opens(i) ==
  /\ status[i] = "absent"
  /\ \A o \in Incident : ~Live(o)
  /\ status' = [status EXCEPT ![i] = "open"]
  /\ UNCHANGED agents

(* A request moves the incident into analysis or repair, and its agent     *)
(* starts, or never does when the request fails there.                     *)
Begins(i, a) ==
  /\ agents[i] = {}
  /\ \E s \in {"analyzing", "repairing"} :
       /\ <<status[i], s>> \in Legal
       /\ status' = [status EXCEPT ![i] = s]
  /\ agents' \in {agents, [agents EXCEPT ![i] = {a}]}

(* The agent is done, or stopped; the row may not follow at once.          *)
Stops ==
  /\ agents' \in [Incident -> SUBSET Agent]
  /\ \A i \in Incident : agents'[i] \in {agents[i], {}}
  /\ UNCHANGED status

(* The end of an analysis or a repair is recorded once its agent is done.  *)
Concludes(i) ==
  /\ agents[i] = {}
  /\ \E s \in {"open", "awaiting_approval", "resolved", "failed"} :
       /\ <<status[i], s>> \in Legal
       /\ status' = [status EXCEPT ![i] = s]
  /\ UNCHANGED agents

(* The operator gives up on the incident; a running agent is not stopped.  *)
Dismissed(i) ==
  /\ Live(i)
  /\ status' = [status EXCEPT ![i] = "dismissed"]
  /\ UNCHANGED agents

(* After an interruption no agent is at work, and the incidents it left in *)
(* between are put back or failed.                                         *)
Reconciled ==
  /\ \A i \in Incident : agents[i] = {}
  /\ \E S \in SUBSET {i \in Incident : status[i] \in {"analyzing", "repairing"}} :
       status' = [i \in Incident |-> IF i \notin S THEN status[i]
                                     ELSE IF status[i] = "analyzing" THEN "open" ELSE "failed"]
  /\ UNCHANGED agents

Next ==
  \/ \E i \in Incident : Opens(i) \/ Concludes(i) \/ Dismissed(i)
  \/ \E i \in Incident, a \in Agent : Begins(i, a)
  \/ Stops \/ Reconciled

Spec == Init /\ [][Next]_vars
=============================================================================
