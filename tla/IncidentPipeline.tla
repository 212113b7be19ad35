-------------------------- MODULE IncidentPipeline --------------------------
(***************************************************************************)
(* The self-healing incident pipeline: alerts in, an Analyst's turn, the   *)
(* owner's approval, an Executor's turn, and the audit entries each of     *)
(* them leaves.                                                            *)
(*                                                                         *)
(* Every operation is an HTTP handler: a chain of awaits on the store with *)
(* an agent's turn in the middle, run inside the request.  Handlers of the *)
(* same incident interleave at every await; the client may disconnect,     *)
(* which drops the handler where it is; the process may crash.  A change   *)
(* of status is a read and a conditional update: set_status validates the  *)
(* transition on the row it read and updates only if the status is still   *)
(* that one.                                                               *)
(*                                                                         *)
(* All incidents here are rows of one alert, i.e. of one pair of source    *)
(* and external id: rows of different alerts share nothing.                *)
(***************************************************************************)
EXTENDS Naturals, FiniteSets

CONSTANTS
  Incident,     \* ids of incident rows, in the order they may be inserted
  Req,          \* request slots
  NoIncident,   \* no incident
  MaxRequests,  \* bound on the requests served
  MaxFaults,    \* bound on store and audit errors
  MaxDrops,     \* bound on clients that disconnect
  MaxCrashes    \* bound on crashes

ASSUME ConstantsAssumption ==
  /\ NoIncident \notin Incident
  /\ {MaxRequests, MaxFaults, MaxDrops, MaxCrashes} \subseteq Nat

VARIABLES
  (* durable *)
  status,     \* incidents.status; "absent" before the row is inserted
  rcas,       \* how many rows incident_rcas holds for it; the last is the latest
  repairs,    \* the rows of incident_repairs: which RCA, and whether it went well
  trail,      \* the incident.* actions in the audit chain
  (* in memory *)
  up,         \* the process serves requests
  req,        \* the handlers
  (* history *)
  executed,   \* how many times an Executor's turn began
  hurt,       \* incidents some error, disconnect or crash interfered with
  (* the environment *)
  sent, faults, drops, crashes

rows == <<status, rcas, repairs, trail>>
env  == <<sent, faults, drops, crashes>>
vars == <<rows, up, req, executed, hurt, env>>

Terminal  == {"resolved", "failed", "dismissed"}
Transient == {"analyzing", "repairing"}
Status    == {"absent", "open", "analyzing", "awaiting_approval", "repairing"} \cup Terminal
Action    == {"open", "analyzed", "analysis_failed", "repaired", "repair_failed",
              "dismissed", "reconciled"}
Steps     == {"idle", "find", "insert", "refind", "bump", "read", "check", "move",
              "run", "store", "audit"}
Kinds     == {"none", "ingest", "analyze", "approve", "dismiss"}

Request == [kind : Kinds, pc : Steps, inc : Incident \cup {NoIncident},
            to : Status, seen : Status, rca : Nat]

Handling(kind, step, i, to, r) ==
  [kind |-> kind, pc |-> step, inc |-> i, to |-> to, seen |-> "absent", rca |-> r]
Idle    == Handling("none", "idle", NoIncident, "absent", 0)

Repair  == [rca : Nat, ok : BOOLEAN]

TypeOK ==
  /\ status \in [Incident -> Status]
  /\ rcas \in [Incident -> Nat]
  /\ repairs \in [Incident -> SUBSET Repair]
  /\ trail \in [Incident -> SUBSET Action]
  /\ up \in BOOLEAN
  /\ req \in [Req -> Request]
  /\ executed \in [Incident -> Nat]
  /\ hurt \subseteq Incident
  /\ {sent, faults, drops, crashes} \subseteq Nat

Init ==
  /\ status = [i \in Incident |-> "absent"]
  /\ rcas = [i \in Incident |-> 0]
  /\ repairs = [i \in Incident |-> {}]
  /\ trail = [i \in Incident |-> {}]
  /\ up = TRUE
  /\ req = [q \in Req |-> Idle]
  /\ executed = [i \in Incident |-> 0]
  /\ hurt = {}
  /\ sent = 0 /\ faults = 0 /\ drops = 0 /\ crashes = 0
-----------------------------------------------------------------------------
(* Mutated forms: plausible mistakes in the helpers below, each of which a *)
(* property must catch.                                                    *)

CanTransitionBack(from, to) ==
  \/ from = "open" /\ to = "analyzing"
  \/ from = "analyzing" /\ to \in {"awaiting_approval", "open"}
  \/ from = "awaiting_approval" /\ to = "repairing"
  \/ from \in {"repairing", "dismissed"} /\ to \in {"resolved", "failed"}
  \/ from \notin Terminal \cup {"absent"} /\ to = "dismissed"
NoLiveRowUnchecked == TRUE
StillUnchecked(q)  == TRUE
RevertForgotten(q) == req' = [req EXCEPT ![q] = Idle]
ActionByKind(r) ==
  CASE r.kind = "ingest" -> "open"
    [] r.kind = "analyze" -> "analyzed"
    [] r.kind = "approve" -> "repaired"
    [] OTHER -> "dismissed"
-----------------------------------------------------------------------------
(* IncidentStatus::can_transition_to                                       *)
CanTransition(from, to) ==
  \/ from = "open" /\ to = "analyzing"
  \/ from = "analyzing" /\ to \in {"awaiting_approval", "open"}
  \/ from = "awaiting_approval" /\ to = "repairing"
  \/ from = "repairing" /\ to \in {"resolved", "failed"}
  \/ from \notin Terminal \cup {"absent"} /\ to = "dismissed"

(* What the partial unique index and find_live call live.                  *)
LiveRows == {i \in Incident : status[i] \notin Terminal \cup {"absent"}}

NoLiveRow == LiveRows = {}

At(q, step) == up /\ req[q].pc = step

Goto(q, step) == req' = [req EXCEPT ![q].pc = step]
Answer(q)     == req' = [req EXCEPT ![q] = Idle]

(* Ask set_status for a transition, next.                                  *)
Ask(q, to) == req' = [req EXCEPT ![q].pc = "check", ![q].to = to]

(* analysis_failed: back to open, best effort.                             *)
Revert(q) == Ask(q, "open")

(* An error of the store or of the audit chain.                            *)
Fault(q) ==
  /\ faults < MaxFaults
  /\ faults' = faults + 1
  /\ hurt' = hurt \cup ({req[q].inc} \ {NoIncident})

NoFault == UNCHANGED <<faults, hurt>>
-----------------------------------------------------------------------------
(* Requests.                                                               *)

Arrives(q, r) ==
  /\ up /\ req[q].pc = "idle" /\ sent < MaxRequests
  /\ sent' = sent + 1
  /\ req' = [req EXCEPT ![q] = r]
  /\ UNCHANGED <<rows, up, executed, hurt, faults, drops, crashes>>

Known(i) == status[i] # "absent"

Ingest(q) == Arrives(q, Handling("ingest", "find", NoIncident, "absent", 0))

Analyze(q) ==
  \E i \in Incident :
    Known(i) /\ Arrives(q, Handling("analyze", "check", i, "analyzing", 0))

(* The body names an RCA; 0 is an id that is none of this incident's.      *)
ApproveRepair(q) ==
  \E i \in Incident : \E r \in 0 .. rcas[i] :
    Known(i) /\ Arrives(q, Handling("approve", "read", i, "absent", r))

Dismiss(q) ==
  \E i \in Incident :
    Known(i) /\ Arrives(q, Handling("dismiss", "check", i, "dismissed", 0))
-----------------------------------------------------------------------------
(* ingest: look for the live row, insert, and let the unique index decide. *)

Found(q, otherwise) ==
  \/ \E i \in LiveRows : req' = [req EXCEPT ![q] = Handling("ingest", "bump", i, "absent", 0)]
  \/ NoLiveRow /\ otherwise

FindLive(q) ==
  /\ At(q, "find")
  /\ \/ Found(q, Goto(q, "insert")) /\ NoFault
     \/ Answer(q) /\ Fault(q)
  /\ UNCHANGED <<rows, up, executed, sent, drops, crashes>>

InsertRow(q) ==
  /\ At(q, "insert")
  /\ \/ /\ NoLiveRow
        /\ \E i \in Incident :
             /\ status[i] = "absent"
             /\ status' = [status EXCEPT ![i] = "open"]
             /\ req' = [req EXCEPT ![q] = Handling("ingest", "audit", i, "open", 0)]
        /\ NoFault
     \/ ~NoLiveRow /\ Goto(q, "refind") /\ NoFault /\ UNCHANGED status
     \/ Answer(q) /\ Fault(q) /\ UNCHANGED status
  /\ UNCHANGED <<rcas, repairs, trail, up, executed, sent, drops, crashes>>

FindAgain(q) ==
  /\ At(q, "refind")
  /\ \/ Found(q, Answer(q)) /\ NoFault
     \/ Answer(q) /\ Fault(q)
  /\ UNCHANGED <<rows, up, executed, sent, drops, crashes>>

(* bump_duplicate refreshes payload and severity, by id; neither is kept   *)
(* here                                                                    *)
BumpDuplicate(q) ==
  /\ At(q, "bump")
  /\ Answer(q)
  /\ NoFault \/ Fault(q)
  /\ UNCHANGED <<rows, up, executed, sent, drops, crashes>>
-----------------------------------------------------------------------------
(* set_status and what each handler does with its answer.                  *)

(* analysis_failed and the path without an RCA ignore set_status's error   *)
BestEffort(q) ==
  \/ req[q].kind = "analyze" /\ req[q].to = "open"
  \/ req[q].kind = "approve" /\ req[q].to = "failed" /\ req[q].rca = 0

Refused(q) == IF BestEffort(q) THEN Goto(q, "audit") ELSE Answer(q)

Moved(q) ==
  IF req[q].to = "repairing" /\ req[q].rca = 0 THEN Ask(q, "failed")
  ELSE Goto(q, IF req[q].to \in Transient THEN "run" ELSE "audit")

Check(q) ==
  LET s == status[req[q].inc] IN
  /\ At(q, "check")
  /\ \/ /\ CanTransition(s, req[q].to)
        /\ req' = [req EXCEPT ![q].pc = "move", ![q].seen = s]
        /\ NoFault
     \/ ~CanTransition(s, req[q].to) /\ Refused(q) /\ NoFault
     \/ Refused(q) /\ Fault(q)
  /\ UNCHANGED <<rows, up, executed, sent, drops, crashes>>

Still(q) == status[req[q].inc] = req[q].seen

StartsExecutor(q) == req[q].to = "repairing" /\ req[q].rca # 0

(* The conditional update; an error may come before it or, from the fetch  *)
(* that follows it, after                                                  *)
Move(q) ==
  LET i == req[q].inc
      Update == status' = [status EXCEPT ![i] = req[q].to]
  IN
  /\ At(q, "move")
  /\ \/ /\ Still(q)
        /\ Update /\ Moved(q) /\ NoFault
        /\ executed' = IF StartsExecutor(q) THEN [executed EXCEPT ![i] = @ + 1] ELSE executed
     \/ /\ ~Still(q)
        /\ Refused(q) /\ NoFault
        /\ UNCHANGED <<status, executed>>
     \/ /\ Refused(q) /\ Fault(q)
        /\ (Still(q) /\ Update) \/ UNCHANGED status
        /\ UNCHANGED executed
  /\ UNCHANGED <<rcas, repairs, trail, up, sent, drops, crashes>>

(* approve_repair's first await: the latest RCA, which must be the one     *)
(* that was named                                                          *)
ReadDetails(q) ==
  LET latest == rcas[req[q].inc] IN
  /\ At(q, "read")
  /\ \/ /\ latest \in {0, req[q].rca}
        /\ req' = [req EXCEPT ![q] =
                     Handling("approve", "check", req[q].inc, "repairing", latest)]
        /\ NoFault
     \/ latest \notin {0, req[q].rca} /\ Answer(q) /\ NoFault
     \/ Answer(q) /\ Fault(q)
  /\ UNCHANGED <<rows, up, executed, sent, drops, crashes>>
-----------------------------------------------------------------------------
(* The agents' turns and what they leave.                                  *)

(* A usable reply goes on to insert_rca, any other end is a failure; an    *)
(* Executor's turn is recorded however it ends                             *)
Turn(q) ==
  /\ At(q, "run")
  /\ \/ req[q].kind = "analyze" /\ (Goto(q, "store") \/ Revert(q))
     \/ /\ req[q].kind = "approve"
        /\ \E s \in {"resolved", "failed"} :
             req' = [req EXCEPT ![q].pc = "store", ![q].to = s]
  /\ UNCHANGED <<rows, up, executed, hurt, env>>

InsertRca(q) ==
  LET i == req[q].inc IN
  /\ At(q, "store") /\ req[q].kind = "analyze"
  /\ \/ /\ rcas' = [rcas EXCEPT ![i] = @ + 1]
        /\ Ask(q, "awaiting_approval")
        /\ NoFault
     \/ Revert(q) /\ Fault(q) /\ UNCHANGED rcas
  /\ UNCHANGED <<status, repairs, trail, up, executed, sent, drops, crashes>>

InsertRepair(q) ==
  LET i == req[q].inc IN
  /\ At(q, "store") /\ req[q].kind = "approve"
  /\ \/ /\ repairs' = [repairs EXCEPT ![i] =
                         @ \cup {[rca |-> req[q].rca, ok |-> req[q].to = "resolved"]}]
        /\ Goto(q, "check")
        /\ NoFault
     \/ Answer(q) /\ Fault(q) /\ UNCHANGED repairs
  /\ UNCHANGED <<status, rcas, trail, up, executed, sent, drops, crashes>>

ActionOf(r) ==
  CASE r.kind = "ingest" -> "open"
    [] r.kind = "analyze" -> IF r.to = "open" THEN "analysis_failed" ELSE "analyzed"
    [] r.kind = "approve" -> IF r.to = "resolved" THEN "repaired" ELSE "repair_failed"
    [] OTHER -> "dismissed"

(* The append is best effort: an error is logged and forgotten             *)
Audit(q) ==
  /\ At(q, "audit")
  /\ Answer(q)
  /\ \/ /\ trail' = [trail EXCEPT ![req[q].inc] = @ \cup {ActionOf(req[q])}]
        /\ NoFault
     \/ Fault(q) /\ UNCHANGED trail
  /\ UNCHANGED <<status, rcas, repairs, up, executed, sent, drops, crashes>>
-----------------------------------------------------------------------------
(* Disconnects, crashes, and the reconciliation at boot.                   *)

Drop(q) ==
  /\ up /\ req[q].pc # "idle" /\ drops < MaxDrops
  /\ drops' = drops + 1
  /\ hurt' = hurt \cup ({req[q].inc} \ {NoIncident})
  /\ Answer(q)
  /\ UNCHANGED <<rows, up, executed, sent, faults, crashes>>

Crash ==
  /\ up /\ crashes < MaxCrashes
  /\ crashes' = crashes + 1
  /\ up' = FALSE
  /\ hurt' = hurt \cup ({req[q].inc : q \in Req} \ {NoIncident})
  /\ req' = [q \in Req |-> Idle]
  /\ UNCHANGED <<rows, executed, sent, faults, drops>>

Interrupted == {i \in Incident : status[i] \in Transient}

Reconciled(s) == IF s = "analyzing" THEN "open" ELSE "failed"

(* Before requests are accepted.  An error of the store ends it where it   *)
(* is, and then nothing is audited; an error of the audit loses an entry.  *)
Boot ==
  /\ ~up
  /\ up' = TRUE
  /\ \E moved \in SUBSET Interrupted : \E told \in SUBSET moved :
       /\ \/ told = Interrupted /\ UNCHANGED faults
          \/ /\ moved = Interrupted \/ told = {}
             /\ faults < MaxFaults /\ faults' = faults + 1
       /\ status' = [i \in Incident |-> IF i \in moved THEN Reconciled(status[i]) ELSE status[i]]
       /\ trail' = [i \in Incident |-> IF i \in told THEN trail[i] \cup {"reconciled"} ELSE trail[i]]
  /\ UNCHANGED <<rcas, repairs, req, executed, hurt, sent, drops, crashes>>
-----------------------------------------------------------------------------
Handler(q) ==
  \/ FindLive(q) \/ InsertRow(q) \/ FindAgain(q) \/ BumpDuplicate(q)
  \/ Check(q) \/ Move(q) \/ ReadDetails(q)
  \/ Turn(q) \/ InsertRca(q) \/ InsertRepair(q) \/ Audit(q)

Next ==
  \/ \E q \in Req : \/ Ingest(q) \/ Analyze(q) \/ ApproveRepair(q) \/ Dismiss(q)
                    \/ Handler(q) \/ Drop(q)
  \/ Crash \/ Boot

Spec == Init /\ [][Next]_vars

(* A handler the client waits for is polled until it answers, agents' turns *)
(* are bounded, and a crashed server is started again.                     *)
LiveSpec == Spec /\ (\A q \in Req : WF_vars(Handler(q))) /\ WF_vars(Boot)
-----------------------------------------------------------------------------
(* Properties.                                                             *)

(* Concurrent alerts never open twin incidents: of the rows of one alert   *)
(* at most one is live (ingest's read, insert and retry, backed by the     *)
(* partial unique index).                                                  *)
OneLiveIncident == \A i, j \in LiveRows : i = j

(* However approvals race each other, a dismissal, a disconnect or a crash *)
(* with its reconciliation, no incident is repaired twice: an interrupted  *)
(* repair is failed, never retried.                                        *)
RepairedOnce == \A i \in Incident : executed[i] <= 1

(* A request at work between a transition into analysis or repair and the  *)
(* one out of it.                                                          *)
Holds(q) ==
  \/ req[q].pc \in {"run", "store"}
  \/ /\ req[q].pc \in {"check", "move"}
     /\ req[q].to \in {"awaiting_approval", "open", "resolved", "failed"}

Working(i) == \E q \in Req : req[q].inc = i /\ Holds(q)

(* An incident stays on analyzing or repairing with nobody working on it   *)
(* only when an error, a disconnect or a crash hit it: every other path of *)
(* the handlers, a lost race with dismiss included, moves it on.           *)
StrandedOnlyBy ==
  \A i \in Incident : status[i] \in Transient => Working(i) \/ i \in hurt

(* The chain tells how an incident ended and nothing else: a resolved one  *)
(* was repaired, a dismissed one was dismissed; unless an error, a         *)
(* disconnect or a crash hit it, the entry is there or being written.      *)
EndOf(s) ==
  CASE s = "resolved"  -> {"repaired"}
    [] s = "failed"    -> {"repair_failed", "reconciled"}
    [] s = "dismissed" -> {"dismissed"}
    [] OTHER           -> {}

Telling(i) == {ActionOf(req[q]) : q \in {p \in Req : req[p].pc = "audit" /\ req[p].inc = i}}

AuditTellsTheEnd ==
  \A i \in Incident :
    /\ "repaired" \in trail[i] =>
         /\ status[i] = "resolved"
         /\ \E r \in 1 .. rcas[i] : [rca |-> r, ok |-> TRUE] \in repairs[i]
    /\ "dismissed" \in trail[i] => status[i] = "dismissed"
    /\ status[i] \in Terminal /\ i \notin hurt =>
         EndOf(status[i]) \cap (trail[i] \cup Telling(i)) # {}

(* An incident being analyzed or repaired moves on, unless an error, a     *)
(* disconnect or a crash hit it.                                           *)
WorkEnds == \A i \in Incident : status[i] \in Transient ~> status[i] \notin Transient \/ i \in hurt

(* The handlers, with their split status changes, faults, disconnects and  *)
(* crashes, implement the lifecycle: see IncidentLifecycle.                *)
AtWork == [i \in Incident |-> {q \in Req : req[q].pc = "run" /\ req[q].inc = i}]

Lifecycle == INSTANCE IncidentLifecycle WITH agents <- AtWork, Agent <- Req

ImplementsLifecycle == Lifecycle!Spec

(* incident_pipeline.rs:490 "No newer RCA can appear afterwards: analyze   *)
(* requires `open`, which is unreachable from `awaiting_approval`": the    *)
(* Executor runs on the incident's latest RCA.                             *)
RepairsLatestRca ==
  \A q \in Req : req[q].pc = "run" /\ req[q].kind = "approve" => req[q].rca = rcas[req[q].inc]
=============================================================================
