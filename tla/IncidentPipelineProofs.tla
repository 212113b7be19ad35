----------------------- MODULE IncidentPipelineProofs -----------------------
(***************************************************************************)
(* The safety of IncidentPipeline for any number of incidents, requests,   *)
(* errors, disconnects and crashes, and its refinement of                  *)
(* IncidentLifecycle.                                                      *)
(*                                                                         *)
(* Everything rests on who may move a row out of analysis or repair.  That *)
(* is the request that moved it in, and only it (HeldInv): the conditional *)
(* update lets one request in, and nothing but a dismissal, which is final,*)
(* takes the row from under it.  So a row is repaired once, an agent works *)
(* alone, and a row nobody holds was hurt by an error, a disconnect or a   *)
(* crash.                                                                  *)
(***************************************************************************)
EXTENDS IncidentPipeline, TLAPS

(* What a handler is about, by its kind and step.                          *)
Fits(r) ==
  \/ r = Idle
  \/ /\ r.kind = "ingest"
     /\ \/ r.pc \in {"find", "insert", "refind", "bump"}
        \/ r.pc = "audit" /\ r.to = "open"
  \/ /\ r.kind = "analyze"
     /\ \/ r.pc \in {"check", "move"} /\ r.to \in {"analyzing", "open", "awaiting_approval"}
        \/ r.pc \in {"run", "store"} /\ r.to = "analyzing"
        \/ r.pc = "audit" /\ r.to \in {"open", "awaiting_approval"}
  \/ /\ r.kind = "approve"
     /\ \/ r.pc = "read"
        \/ r.pc \in {"check", "move"} /\ r.to \in {"repairing", "resolved", "failed"}
        \/ r.pc = "run" /\ r.to = "repairing" /\ r.rca # 0
        \/ r.pc = "store" /\ r.to \in {"resolved", "failed"} /\ r.rca # 0
        \/ r.pc = "audit" /\ r.to \in {"resolved", "failed"}
  \/ /\ r.kind = "dismiss"
     /\ r.pc \in {"check", "move", "audit"} /\ r.to = "dismissed"

(* The incident a handler is about has a row, and the RCA it names exists. *)
About(r) ==
  /\ r.pc \in {"idle", "find", "insert", "refind"} <=> r.inc = NoIncident
  /\ r.inc # NoIncident => status[r.inc] # "absent"
  /\ r.kind = "approve" => r.rca <= rcas[r.inc]

Shape ==
  /\ \A q \in Req : Fits(req[q]) /\ About(req[q])
  /\ \A q \in Req : req[q].pc = "move" => CanTransition(req[q].seen, req[q].to)
  /\ ~up => \A q \in Req : req[q] = Idle

(* Once an Executor's turn began the row never waits for approval again.   *)
ExecutedInv ==
  \A i \in Incident :
    /\ executed[i] <= 1
    /\ executed[i] = 1 => status[i] \in {"repairing"} \cup Terminal

(* Who moved a row into analysis or repair holds it alone, and the row     *)
(* stays where it is unless it is dismissed.                               *)
HeldStatus(q) == IF req[q].kind = "analyze" THEN "analyzing" ELSE "repairing"

HeldInv ==
  /\ \A p, q \in Req : Holds(p) /\ Holds(q) /\ req[p].inc = req[q].inc => p = q
  /\ \A q \in Req : Holds(q) => status[req[q].inc] \in {HeldStatus(q), "dismissed"}

(* A row in analysis or repair has its holder, or was hurt.                *)
HolderInv ==
  \A i \in Incident : status[i] \in Transient =>
    \/ i \in hurt
    \/ \E q \in Req : req[q].inc = i /\ Holds(q) /\ HeldStatus(q) = status[i]

(* What a handler is about to write to the chain is what happened.         *)
Succeeds(r) == r.kind = "approve" /\ r.to = "resolved"
Cured(r)    == r.rca # 0 /\ [rca |-> r.rca, ok |-> TRUE] \in repairs[r.inc]

TellingInv ==
  /\ \A q \in Req : Succeeds(req[q]) /\ req[q].pc \in {"check", "move", "audit"} =>
       Cured(req[q])
  /\ \A q \in Req : req[q].pc = "audit" /\ req[q].to \in {"resolved", "dismissed"} =>
       status[req[q].inc] = req[q].to

IInv == /\ TypeOK
        /\ Shape
        /\ OneLiveIncident
        /\ ExecutedInv
        /\ HeldInv
        /\ HolderInv
        /\ TellingInv
        /\ AuditTellsTheEnd
-----------------------------------------------------------------------------
(* Proofs of type correctness. *)

LEMMA TypeInit == Init => TypeOK
  BY DEF Init, TypeOK, Idle, Handling, Request, Kinds, Steps, Status

LEMMA HandlingType ==
  /\ Idle \in Request
  /\ \A k \in Kinds, p \in Steps, i \in Incident \cup {NoIncident}, t \in Status, r \in Nat :
       Handling(k, p, i, t, r) \in Request
  BY DEF Idle, Handling, Request, Kinds, Steps, Status

LEMMA TypeStep == TypeOK /\ Shape /\ [Next]_vars => TypeOK'
<1> SUFFICES ASSUME TypeOK, Shape, [Next]_vars PROVE TypeOK'
  OBVIOUS
<1> USE ConstantsAssumption DEF Idle, Handling, TypeOK, Request, Kinds, Steps, Status,
   Terminal, Transient, Action, Repair, rows, env, Shape, Fits, About
<1>1. ASSUME NEW q \in Req, Ingest(q) PROVE TypeOK'
  BY <1>1 DEF Ingest, Arrives
<1>2. ASSUME NEW q \in Req, Analyze(q) PROVE TypeOK'
  BY <1>2 DEF Analyze, Arrives, Known
<1>3. ASSUME NEW q \in Req, ApproveRepair(q) PROVE TypeOK'
  BY <1>3 DEF ApproveRepair, Arrives, Known
<1>4. ASSUME NEW q \in Req, Dismiss(q) PROVE TypeOK'
  BY <1>4 DEF Dismiss, Arrives, Known
<1>5. ASSUME NEW q \in Req, FindLive(q) PROVE TypeOK'
  BY <1>5 DEF FindLive, At, Found, Goto, Answer, Fault, NoFault, LiveRows
<1>6. ASSUME NEW q \in Req, InsertRow(q) PROVE TypeOK'
  BY <1>6 DEF InsertRow, At, Goto, Answer, Fault, NoFault
<1>7. ASSUME NEW q \in Req, FindAgain(q) PROVE TypeOK'
  BY <1>7 DEF FindAgain, At, Found, Answer, Fault, NoFault, LiveRows
<1>8. ASSUME NEW q \in Req, BumpDuplicate(q) PROVE TypeOK'
  BY <1>8 DEF BumpDuplicate, At, Answer, Fault, NoFault
<1>9. ASSUME NEW q \in Req, Check(q) PROVE TypeOK'
  BY SMTT(30), <1>9 DEF Check, At, Refused, BestEffort, Goto, Answer, Fault, NoFault
<1>10. ASSUME NEW q \in Req, Move(q) PROVE TypeOK'
  BY SMTT(30), <1>10 DEF Move, At, Still, Moved, Refused, BestEffort, StartsExecutor, Ask,
     Goto,
     Answer, Fault, NoFault
<1>11. ASSUME NEW q \in Req, ReadDetails(q) PROVE TypeOK'
  BY <1>11 DEF ReadDetails, At, Answer, Fault, NoFault
<1>12. ASSUME NEW q \in Req, Turn(q) PROVE TypeOK'
  BY <1>12 DEF Turn, At, Goto, Revert, Ask
<1>13. ASSUME NEW q \in Req, InsertRca(q) PROVE TypeOK'
  BY <1>13 DEF InsertRca, At, Ask, Revert, Fault, NoFault
<1>14. ASSUME NEW q \in Req, InsertRepair(q) PROVE TypeOK'
  <2> HIDE DEF Shape, Fits, About
  <2>1. req' \in [Req -> Request] /\ faults' \in Nat /\ hurt' \subseteq Incident
    <3>1. faults' \in Nat /\ hurt' \subseteq Incident
      BY <1>14 DEF InsertRepair, Fault, NoFault
    <3>2. CASE Goto(q, "check")
      BY <3>1, <3>2 DEF Goto
    <3>3. CASE Answer(q)
      BY <3>1, <3>3 DEF Answer
    <3> QED
      BY <1>14, <3>2, <3>3 DEF InsertRepair
  <2> DEFINE new == [rca |-> req[q].rca, ok |-> req[q].to = "resolved"]
  <2>2. new \in Repair
    BY DEF Repair
  <2>3. repairs' = [repairs EXCEPT ![req[q].inc] = @ \cup {new}] \/ UNCHANGED repairs
    BY <1>14 DEF InsertRepair
  <2> HIDE DEF new, Repair
  <2>4. repairs' \in [Incident -> SUBSET Repair]
    BY <2>2, <2>3
  <2> QED
    BY <1>14, <2>1, <2>4 DEF InsertRepair
<1>15. ASSUME NEW q \in Req, Audit(q) PROVE TypeOK'
  BY <1>15 DEF Audit, At, Answer, Fault, NoFault, ActionOf
<1>16. ASSUME NEW q \in Req, Drop(q) PROVE TypeOK'
  BY <1>16 DEF Drop, Answer
<1>17. ASSUME Crash PROVE TypeOK'
  <2> HIDE DEF Shape, Fits, About
  <2>1. req' \in [Req -> Request]
    BY <1>17 DEF Crash
  <2>2. hurt' \subseteq Incident
    BY <1>17 DEF Crash
  <2>3. crashes' \in Nat
    BY <1>17 DEF Crash
  <2>4. /\ up' \in BOOLEAN
        /\ UNCHANGED <<status, rcas, repairs, trail, executed, sent, faults, drops>>
    BY <1>17 DEF Crash
  <2> HIDE DEF Status, Request, Repair, Action
  <2> QED
    BY <2>1, <2>2, <2>3, <2>4
<1>18. ASSUME Boot PROVE TypeOK'
  BY <1>18 DEF Boot, Interrupted, Reconciled
<1>19. ASSUME UNCHANGED vars PROVE TypeOK'
  BY <1>19 DEF vars, rows, env
<1> QED
  BY <1>1, <1>2, <1>3, <1>4, <1>5, <1>6, <1>7, <1>8, <1>9, <1>10, <1>11, <1>12, <1>13,
     <1>14, <1>15, <1>16, <1>17, <1>18, <1>19 DEF Next, Handler
-----------------------------------------------------------------------------
(* The shape of the handlers. *)

LEMMA ShapeInit == Init => Shape
  BY DEF Init, Shape, Fits, About, Idle, Handling

LEMMA ShapeStep == TypeOK /\ Shape /\ [Next]_vars => Shape'
<1> SUFFICES ASSUME TypeOK, Shape, [Next]_vars PROVE Shape'
  OBVIOUS
<1> USE ConstantsAssumption DEF Idle, Handling, TypeOK, Request, Terminal, Transient, rows,
   env, Shape, Fits, About, CanTransition
<1>1. ASSUME NEW q \in Req, Ingest(q) PROVE Shape'
  BY <1>1 DEF Ingest, Arrives
<1>2. ASSUME NEW q \in Req, Analyze(q) PROVE Shape'
  BY <1>2 DEF Analyze, Arrives, Known
<1>3. ASSUME NEW q \in Req, ApproveRepair(q) PROVE Shape'
  BY <1>3 DEF ApproveRepair, Arrives, Known
<1>4. ASSUME NEW q \in Req, Dismiss(q) PROVE Shape'
  BY <1>4 DEF Dismiss, Arrives, Known
<1>5. ASSUME NEW q \in Req, FindLive(q) PROVE Shape'
  <2>1. CASE \E i \in LiveRows : req' = [req EXCEPT ![q] = Handling("ingest", "bump", i, "absent", 0)]
    BY <1>5, <2>1 DEF FindLive, At, LiveRows
  <2>2. CASE Goto(q, "insert")
    BY <1>5, <2>2 DEF FindLive, At, Goto
  <2>3. CASE Answer(q)
    BY <1>5, <2>3 DEF FindLive, Answer
  <2> QED
    BY <1>5, <2>1, <2>2, <2>3 DEF FindLive, Found
<1>6. ASSUME NEW q \in Req, InsertRow(q) PROVE Shape'
  BY SMTT(30), <1>6 DEF InsertRow, At, Goto, Answer, Fault, NoFault
<1>7. ASSUME NEW q \in Req, FindAgain(q) PROVE Shape'
  BY SMTT(30), <1>7 DEF FindAgain, At, Found, Answer, Fault, NoFault, LiveRows
<1>8. ASSUME NEW q \in Req, BumpDuplicate(q) PROVE Shape'
  BY <1>8 DEF BumpDuplicate, At, Answer, Fault, NoFault
<1>9. ASSUME NEW q \in Req, Check(q) PROVE Shape'
  <2>1. up /\ up' = up /\ req[q].pc = "check" /\ UNCHANGED <<status, rcas>>
    BY <1>9 DEF Check, At
  <2>2. CASE Answer(q)
    BY <2>1, <2>2 DEF Answer
  <2>3. CASE Goto(q, "audit") /\ BestEffort(q)
    BY <2>1, <2>3 DEF Goto, BestEffort
  <2>4. CASE /\ CanTransition(status[req[q].inc], req[q].to)
             /\ req' = [req EXCEPT ![q].pc = "move", ![q].seen = status[req[q].inc]]
    <3>1. \A p \in Req \ {q} : req'[p] = req[p]
      BY <2>4
    <3>2. /\ req'[q].kind = req[q].kind /\ req'[q].pc = "move" /\ req'[q].to = req[q].to
          /\ req'[q].inc = req[q].inc /\ req'[q].rca = req[q].rca
          /\ req'[q].seen = status[req[q].inc]
      BY <2>4
    <3>3. Fits(req'[q]) /\ About(req[q])'
      BY <2>1, <3>2
    <3>4. CanTransition(req'[q].seen, req'[q].to)
      BY <2>4, <3>2
    <3> HIDE DEF Fits, About, CanTransition, Idle
    <3> QED
      BY <2>1, <3>1, <3>3, <3>4 DEF About
  <2> QED
    BY <1>9, <2>2, <2>3, <2>4 DEF Check, Refused
<1>10. ASSUME NEW q \in Req, Move(q) PROVE Shape'
  <2>1. /\ up /\ up' = up /\ req[q].pc = "move" /\ UNCHANGED rcas
        /\ \A i \in Incident : status[i] # "absent" => status'[i] # "absent"
    BY <1>10 DEF Move, At
  <2>2. CASE Answer(q)
    BY <2>1, <2>2 DEF Answer
  <2>3. CASE Goto(q, "audit") /\ BestEffort(q)
    BY <2>1, <2>3 DEF Goto, BestEffort
  <2>4. CASE Moved(q)
    <3>1. CASE Ask(q, "failed") /\ req[q].to = "repairing" /\ req[q].rca = 0
      BY <2>1, <3>1 DEF Ask
    <3>2. CASE Goto(q, "run") /\ req[q].to \in Transient /\ ~(req[q].to = "repairing" /\ req[q].rca = 0)
      BY <2>1, <3>2 DEF Goto
    <3>3. CASE Goto(q, "audit") /\ req[q].to \notin Transient
      BY <2>1, <3>3 DEF Goto
    <3> QED
      BY <2>4, <3>1, <3>2, <3>3 DEF Moved
  <2> QED
    BY <1>10, <2>2, <2>3, <2>4 DEF Move, Refused
<1>11. ASSUME NEW q \in Req, ReadDetails(q) PROVE Shape'
  <2>1. CASE Answer(q)
    BY SMTT(30), <1>11, <2>1 DEF ReadDetails, Answer
  <2>2. CASE ~Answer(q)
    BY SMTT(30), <1>11, <2>2 DEF ReadDetails, At
  <2> QED
    BY <2>1, <2>2
<1>12. ASSUME NEW q \in Req, Turn(q) PROVE Shape'
  <2>1. CASE req[q].kind = "analyze" /\ Goto(q, "store")
    BY <1>12, <2>1 DEF Turn, At, Goto
  <2>3. CASE req[q].kind = "analyze" /\ Revert(q)
    BY SMTT(30), <1>12, <2>3 DEF Turn, At, Revert, Ask
  <2>2. CASE req[q].kind = "approve"
    BY <1>12, <2>2 DEF Turn, At
  <2> QED
    BY <1>12, <2>1, <2>2, <2>3 DEF Turn
<1>13. ASSUME NEW q \in Req, InsertRca(q) PROVE Shape'
  BY <1>13 DEF InsertRca, At, Ask, Revert, Fault, NoFault
<1>14. ASSUME NEW q \in Req, InsertRepair(q) PROVE Shape'
  BY SMTT(30), <1>14 DEF InsertRepair, At, Goto, Answer, Fault, NoFault
<1>15. ASSUME NEW q \in Req, Audit(q) PROVE Shape'
  BY <1>15 DEF Audit, At, Answer, Fault, NoFault, ActionOf
<1>16. ASSUME NEW q \in Req, Drop(q) PROVE Shape'
  BY <1>16 DEF Drop, Answer
<1>17. ASSUME Crash PROVE Shape'
  BY <1>17 DEF Crash
<1>18. ASSUME Boot PROVE Shape'
  BY <1>18 DEF Boot, Interrupted, Reconciled
<1>19. ASSUME UNCHANGED vars PROVE Shape'
  BY <1>19 DEF vars, rows, env
<1> QED
  BY <1>1, <1>2, <1>3, <1>4, <1>5, <1>6, <1>7, <1>8, <1>9, <1>10, <1>11, <1>12, <1>13,
     <1>14, <1>15, <1>16, <1>17, <1>18, <1>19 DEF Next, Handler
-----------------------------------------------------------------------------
(* The statuses: one live row, one repair. *)

(* A step leaves a row where it is, opens one where none is live, or moves *)
(* it along an arrow of can_transition_to (set_status, the insert, Boot).  *)
StatusMoves ==
  \A i \in Incident :
    \/ status'[i] = status[i]
    \/ /\ status[i] = "absent" /\ status'[i] = "open" /\ NoLiveRow
       /\ \A j \in Incident \ {i} : status'[j] = status[j]
    \/ CanTransition(status[i], status'[i])

LEMMA StatusStep == TypeOK /\ Shape /\ [Next]_vars => StatusMoves
<1> SUFFICES ASSUME TypeOK, Shape, [Next]_vars PROVE StatusMoves
  OBVIOUS
<1> USE DEF StatusMoves, rows, env
<1>1. ASSUME NEW q \in Req, InsertRow(q) PROVE StatusMoves
  BY <1>1 DEF InsertRow, TypeOK
<1>2. ASSUME NEW q \in Req, Move(q) PROVE StatusMoves
  BY <1>2 DEF Move, At, Still, TypeOK, Shape
<1>3. ASSUME Boot PROVE StatusMoves
  BY <1>3 DEF Boot, Interrupted, Reconciled, Transient, Terminal, CanTransition, TypeOK
<1>4. ASSUME UNCHANGED status PROVE StatusMoves
  BY <1>4
<1> QED
  BY <1>1, <1>2, <1>3, <1>4 DEF Next, Handler, vars, Ingest, Analyze, ApproveRepair, Dismiss,
     Arrives, FindLive, FindAgain, BumpDuplicate, Check, ReadDetails, Turn, InsertRca,
     InsertRepair, Audit, Drop, Crash

LEMMA OneLiveStep == OneLiveIncident /\ StatusMoves => OneLiveIncident'
  BY DEF OneLiveIncident, StatusMoves, LiveRows, NoLiveRow, CanTransition, Terminal

LEMMA ExecutedStep ==
  TypeOK /\ Shape /\ ExecutedInv /\ StatusMoves /\ [Next]_vars => ExecutedInv'
<1> SUFFICES ASSUME TypeOK, Shape, ExecutedInv, StatusMoves, [Next]_vars PROVE ExecutedInv'
  OBVIOUS
<1>1. ASSUME NEW q \in Req, Move(q) PROVE ExecutedInv'
  <2> DEFINE i == req[q].inc
  <2>1. CASE executed' = executed
    BY <2>1 DEF ExecutedInv, StatusMoves, CanTransition, Terminal
  <2>2. CASE /\ StartsExecutor(q) /\ Still(q)
             /\ status' = [status EXCEPT ![i] = req[q].to]
             /\ executed' = [executed EXCEPT ![i] = @ + 1]
    <3>1. i \in Incident /\ status[i] = "awaiting_approval" /\ status'[i] = "repairing"
      BY <1>1, <2>2 DEF Move, At, Still, StartsExecutor, Shape, Fits, About, TypeOK, Request,
         CanTransition, Terminal, Idle, Handling
    <3>2. executed[i] = 0 /\ executed'[i] = 1
      BY <2>2, <3>1 DEF ExecutedInv, TypeOK, Terminal
    <3> QED
      BY <2>2, <3>1, <3>2 DEF ExecutedInv, TypeOK
  <2> QED
    BY <1>1, <2>1, <2>2 DEF Move
<1>2. ASSUME UNCHANGED executed PROVE ExecutedInv'
  BY <1>2 DEF ExecutedInv, StatusMoves, CanTransition, Terminal
<1> QED
  BY <1>1, <1>2 DEF Next, Handler, vars, rows, env, Ingest, Analyze, ApproveRepair, Dismiss,
     Arrives, FindLive, InsertRow, FindAgain, BumpDuplicate, Check, ReadDetails, Turn, InsertRca,
     InsertRepair, Audit, Drop, Crash, Boot

-----------------------------------------------------------------------------
(* Who holds a row. *)

LEMMA HeldStep ==
  TypeOK /\ Shape /\ HeldInv /\ StatusMoves /\ [Next]_vars => HeldInv'
<1> SUFFICES ASSUME TypeOK, Shape, HeldInv, StatusMoves, [Next]_vars PROVE HeldInv'
  OBVIOUS
<1> USE DEF Shape, Fits, About, TypeOK, Request, Idle, Handling
<1>frame. ASSUME /\ \A p \in Req : Holds(p)' => /\ Holds(p)
                                            /\ req'[p].inc = req[p].inc
                                            /\ req'[p].kind = req[p].kind
             /\ \A i \in Incident : status'[i] = status[i] \/ status[i] = "absent"
      PROVE  HeldInv'
  BY <1>frame DEF HeldInv, HeldStatus, Holds
<1> USE DEF HeldInv, Holds, HeldStatus, Terminal, Transient, rows, env
<1>1. ASSUME NEW q \in Req, Ingest(q) PROVE HeldInv'
  BY <1>1 DEF Ingest, Arrives
<1>2. ASSUME NEW q \in Req, Analyze(q) PROVE HeldInv'
  BY <1>2 DEF Analyze, Arrives, Known
<1>3. ASSUME NEW q \in Req, ApproveRepair(q) PROVE HeldInv'
  BY <1>3 DEF ApproveRepair, Arrives, Known
<1>4. ASSUME NEW q \in Req, Dismiss(q) PROVE HeldInv'
  BY <1>4 DEF Dismiss, Arrives, Known
<1>5. ASSUME NEW q \in Req, FindLive(q) PROVE HeldInv'
  BY SMTT(30), <1>5 DEF FindLive, At, Found, Goto, Answer, Fault, NoFault, LiveRows
<1>6. ASSUME NEW q \in Req, InsertRow(q) PROVE HeldInv'
  <2> HIDE DEF HeldInv, HeldStatus, Holds, Terminal, Transient
  <2>1. ~Holds(q)' /\ \A p \in Req \ {q} : req'[p] = req[p]
    BY <1>6 DEF InsertRow, At, Goto, Answer, Holds
  <2>2. \A i \in Incident : status'[i] = status[i] \/ status[i] = "absent"
    BY <1>6 DEF InsertRow
  <2> QED
    BY <1>frame, <2>1, <2>2 DEF Holds
<1>7. ASSUME NEW q \in Req, FindAgain(q) PROVE HeldInv'
  <2> HIDE DEF HeldInv, HeldStatus, Holds, Terminal, Transient
  <2>1. CASE Answer(q)
    BY <1>frame, <1>7, <2>1 DEF FindAgain, Answer, Holds
  <2>2. CASE ~Answer(q)
    BY <1>frame, <1>7, <2>2 DEF FindAgain, Found, LiveRows, Holds
  <2> QED
    BY <2>1, <2>2
<1>8. ASSUME NEW q \in Req, BumpDuplicate(q) PROVE HeldInv'
  BY <1>8 DEF BumpDuplicate, At, Answer, Fault, NoFault
<1>9. ASSUME NEW q \in Req, Check(q) PROVE HeldInv'
  <2> HIDE DEF HeldInv, HeldStatus, Terminal, Transient
  <2>1. \/ ~Holds(q)'
        \/ Holds(q) /\ req'[q].inc = req[q].inc /\ req'[q].kind = req[q].kind
    <3>0. req \in [Req -> Request]
      OBVIOUS
    <3> HIDE DEF Shape, TypeOK
    <3>1. CASE Answer(q)
      <4>1. req'[q].pc = "idle"
        BY <3>0, <3>1 DEF Answer
      <4> QED
        BY <4>1
    <3>2. CASE Goto(q, "audit")
      <4>1. req'[q].pc = "audit"
        BY <3>0, <3>2 DEF Goto
      <4> QED
        BY <4>1
    <3>3. CASE req' = [req EXCEPT ![q].pc = "move", ![q].seen = status[req[q].inc]]
      BY <1>9, <3>0, <3>3 DEF Check, At
    <3> QED
      BY <1>9, <3>1, <3>2, <3>3 DEF Check, Refused
  <2>2. \A p \in Req \ {q} : req'[p] = req[p]
    BY <1>9 DEF Check, Refused, Goto, Answer
  <2> HIDE DEF Holds
  <2> QED
    BY <1>frame, <1>9, <2>1, <2>2 DEF Check, Holds
<1>10. ASSUME NEW q \in Req, Move(q) PROVE HeldInv'
  <2> HIDE DEF HeldInv, HeldStatus, Holds, Terminal, Transient
  <2> DEFINE i == req[q].inc
  <2>1. /\ i \in Incident /\ CanTransition(req[q].seen, req[q].to)
        /\ \A p \in Req \ {q} : req'[p] = req[p]
        /\ req[q].kind \in {"analyze", "approve", "dismiss"}
        /\ \/ req'[q] = Idle
           \/ req'[q].kind = req[q].kind /\ req'[q].inc = i
    <3>1. i \in Incident /\ CanTransition(req[q].seen, req[q].to)
          /\ req[q].kind \in {"analyze", "approve", "dismiss"}
      BY <1>10 DEF Move, At
    <3>2. CASE Refused(q)
      <4>1. CASE Goto(q, "audit")
        BY <3>1, <4>1 DEF Goto
      <4> HIDE DEF Idle
      <4>2. CASE Answer(q)
        BY <3>1, <4>2 DEF Answer
      <4> QED
        BY <3>2, <4>1, <4>2 DEF Refused
    <3>3. CASE Moved(q)
      BY <3>1, <3>3 DEF Moved, Ask, Goto
    <3> QED
      BY <1>10, <3>1, <3>2, <3>3 DEF Move
  <2>2. CASE UNCHANGED status
    <3>1. ~Holds(q)'
      BY <1>10, <2>2 DEF Move, At, Still, Refused, Moved, Goto, Answer, Ask, Holds,
         CanTransition, Transient, Terminal
    <3> QED
      BY <1>frame, <2>1, <2>2, <3>1 DEF Holds
  <2>3. CASE status' = [status EXCEPT ![i] = req[q].to] /\ Still(q)
    <3>1. CASE req[q].to \in Transient
      <4>1. \A p \in Req : Holds(p) => req[p].inc # i
        BY <2>1, <2>3, <3>1 DEF HeldInv, HeldStatus, Still, CanTransition, Transient, Terminal
      <4>2. status'[i] = req[q].to /\ (req[q].to = "analyzing" <=> req[q].kind = "analyze")
        BY <1>10, <2>3, <3>1 DEF Move, At, Transient
      <4>5. \A p \in Req : Holds(p) => status'[req[p].inc] = status[req[p].inc]
        BY <2>3, <4>1
      <4> HIDE DEF Shape, TypeOK, Fits, About, Request
      <4>3. \A p \in Req : Holds(p)' => p = q \/ (Holds(p) /\ req'[p] = req[p])
        BY <2>1 DEF Holds
      <4>4. Holds(q)' => req'[q].inc = i /\ HeldStatus(q)' = req[q].to
        <5>1. CASE req'[q] = Idle
          BY <5>1 DEF Holds
        <5>2. CASE req'[q].kind = req[q].kind /\ req'[q].inc = i
          BY <2>1, <3>1, <4>2, <5>2 DEF HeldStatus, Transient
        <5> QED
          BY <2>1, <5>1, <5>2
      <4> QED
        BY <4>1, <4>2, <4>3, <4>4, <4>5 DEF HeldInv, HeldStatus
    <3>2. CASE req[q].to = "dismissed"
      <4>1. ~Holds(q)' /\ status'[i] = "dismissed"
        BY <1>10, <2>3, <3>2 DEF Move, At, Refused, BestEffort, Moved, Goto, Answer, Holds,
           Transient
      <4> QED
        BY <2>1, <2>3, <4>1 DEF HeldInv, HeldStatus, Holds
    <3>3. CASE req[q].to \in {"open", "awaiting_approval", "resolved", "failed"}
      <4>1. Holds(q) /\ ~Holds(q)'
        BY <1>10, <2>3, <3>3 DEF Move, At, Refused, BestEffort, Moved, Goto, Answer, Holds,
           Transient
      <4>2. \A p \in Req : Holds(p)' => p # q /\ Holds(p) /\ req'[p] = req[p] /\ req[p].inc # i
        BY <2>1, <4>1 DEF HeldInv, Holds
      <4> QED
        BY <2>1, <2>3, <4>2 DEF HeldInv, HeldStatus
    <3> QED
      BY <1>10, <3>1, <3>2, <3>3 DEF Move, At, Transient
  <2> QED
    BY <1>10, <2>2, <2>3 DEF Move
<1>11. ASSUME NEW q \in Req, ReadDetails(q) PROVE HeldInv'
  BY SMTT(30), <1>11 DEF ReadDetails, At, Answer, Fault, NoFault
<1>12. ASSUME NEW q \in Req, Turn(q) PROVE HeldInv'
  <2> HIDE DEF HeldInv, HeldStatus, Holds, Terminal, Transient
  <2>1. CASE Revert(q)
    BY <1>frame, <1>12, <2>1 DEF Turn, At, Revert, Ask, Holds
  <2>2. CASE Goto(q, "store")
    BY <1>frame, <1>12, <2>2 DEF Turn, At, Goto, Holds
  <2>3. CASE req[q].kind = "approve" /\ ~Revert(q) /\ ~Goto(q, "store")
    BY <1>frame, <1>12, <2>3 DEF Turn, At, Holds
  <2> QED
    BY <1>12, <2>1, <2>2, <2>3 DEF Turn
<1>13. ASSUME NEW q \in Req, InsertRca(q) PROVE HeldInv'
  BY SMTT(30), <1>13 DEF InsertRca, At, Ask, Revert, Fault, NoFault
<1>14. ASSUME NEW q \in Req, InsertRepair(q) PROVE HeldInv'
  <2> HIDE DEF HeldInv, HeldStatus, Holds, Terminal, Transient
  <2>1. CASE Goto(q, "check")
    BY <1>frame, <1>14, <2>1 DEF InsertRepair, At, Goto, Holds
  <2>2. CASE Answer(q)
    BY <1>frame, <1>14, <2>2 DEF InsertRepair, At, Answer, Holds
  <2> QED
    BY <1>14, <2>1, <2>2 DEF InsertRepair
<1>15. ASSUME NEW q \in Req, Audit(q) PROVE HeldInv'
  BY <1>15 DEF Audit, At, Answer, Fault, NoFault
<1>16. ASSUME NEW q \in Req, Drop(q) PROVE HeldInv'
  BY <1>16 DEF Drop, Answer
<1>17. ASSUME Crash PROVE HeldInv'
  BY <1>17 DEF Crash
<1>18. ASSUME Boot PROVE HeldInv'
  BY <1>18 DEF Boot, Interrupted
<1>19. ASSUME UNCHANGED vars PROVE HeldInv'
  BY <1>19 DEF vars, rows, env
<1> QED
  BY <1>1, <1>2, <1>3, <1>4, <1>5, <1>6, <1>7, <1>8, <1>9, <1>10, <1>11, <1>12, <1>13,
     <1>14, <1>15, <1>16, <1>17, <1>18, <1>19 DEF Next, Handler

HolderOf(q, i) == req[q].inc = i /\ Holds(q) /\ HeldStatus(q) = status[i]

LEMMA HolderStep ==
  TypeOK /\ Shape /\ HolderInv /\ [Next]_vars => HolderInv'
<1> SUFFICES ASSUME TypeOK, Shape, HolderInv, [Next]_vars PROVE HolderInv'
  OBVIOUS
<1>frame. ASSUME NEW q \in Req,
                 \A p \in Req \ {q} : req'[p] = req[p],
                 hurt \subseteq hurt',
                 \A i \in Incident : status'[i] \in Transient =>
                   \/ i \in hurt'
                   \/ HolderOf(q, i)'
                   \/ status'[i] = status[i] /\ ~HolderOf(q, i)
          PROVE  HolderInv'
  BY <1>frame DEF HolderInv, HolderOf, Holds, HeldStatus
<1> USE ConstantsAssumption DEF HolderInv, Holds, HeldStatus, Idle, Handling, TypeOK,
   Request, Terminal, Transient, rows, env, Shape, Fits, About
<1>1. ASSUME NEW q \in Req, Ingest(q) PROVE HolderInv'
  <2> HIDE DEF HolderInv, HeldStatus, Holds, HolderOf, Terminal, Transient
  <2>1. ~Holds(q)
    BY <1>1 DEF Ingest, Arrives, Holds
  <2> QED
    BY <1>frame, <1>1, <2>1 DEF Ingest, Arrives, HolderOf
<1>2. ASSUME NEW q \in Req, Analyze(q) PROVE HolderInv'
  BY <1>2 DEF Analyze, Arrives, Known
<1>3. ASSUME NEW q \in Req, ApproveRepair(q) PROVE HolderInv'
  BY <1>3 DEF ApproveRepair, Arrives, Known
<1>4. ASSUME NEW q \in Req, Dismiss(q) PROVE HolderInv'
  BY SMTT(30), <1>4 DEF Dismiss, Arrives, Known
<1>5. ASSUME NEW q \in Req, FindLive(q) PROVE HolderInv'
  <2> HIDE DEF HolderInv, HeldStatus, Holds, HolderOf, Terminal, Transient
  <2>1. ~Holds(q) /\ ~Holds(q)'
    <3>1. CASE Goto(q, "insert")
      BY <1>5, <3>1 DEF FindLive, At, Goto, Holds
    <3>2. CASE ~Goto(q, "insert")
      BY <1>5, <3>2 DEF FindLive, At, Found, Answer, LiveRows, Holds
    <3> QED
      BY <3>1, <3>2
  <2>2. \A p \in Req \ {q} : req'[p] = req[p]
    BY <1>5 DEF FindLive, At, Found, Goto, Answer, LiveRows
  <2> QED
    BY <1>frame, <1>5, <2>1, <2>2 DEF FindLive, Fault, NoFault, HolderOf
<1>6. ASSUME NEW q \in Req, InsertRow(q) PROVE HolderInv'
  BY SMTT(30), <1>6 DEF InsertRow, At, Goto, Answer, Fault, NoFault
<1>7. ASSUME NEW q \in Req, FindAgain(q) PROVE HolderInv'
  BY <1>7 DEF FindAgain, At, Found, Answer, Fault, NoFault, LiveRows
<1>8. ASSUME NEW q \in Req, BumpDuplicate(q) PROVE HolderInv'
  BY <1>8 DEF BumpDuplicate, At, Answer, Fault, NoFault
<1>9. ASSUME NEW q \in Req, Check(q) PROVE HolderInv'
  BY SMTT(30), <1>9 DEF Check, At, Refused, BestEffort, Goto, Answer, Fault, NoFault,
     CanTransition
<1>10. ASSUME NEW q \in Req, Move(q) PROVE HolderInv'
  <2> HIDE DEF HolderInv, HeldStatus, Holds, HolderOf, Terminal, Transient
  <2>0. PICK i \in Incident : i = req[q].inc
    BY <1>10 DEF Move, At
  <2>1. /\ CanTransition(req[q].seen, req[q].to)
        /\ \A j \in Incident : j # i => status'[j] = status[j] /\ ~HolderOf(q, j)
    BY <1>10, <2>0 DEF Move, At, HolderOf
  <2>2. /\ \A p \in Req \ {q} : req'[p] = req[p]
        /\ hurt \subseteq hurt'
    <3>1. CASE Refused(q)
      BY <1>10, <3>1 DEF Move, Refused, Goto, Answer, Fault, NoFault
    <3>2. CASE Moved(q)
      BY <1>10, <3>2 DEF Move, Moved, Goto, Ask, Fault, NoFault
    <3> QED
      BY <1>10, <3>1, <3>2 DEF Move
  <2>3. CASE ~Still(q) /\ UNCHANGED status
    <3>1. ~HolderOf(q, i)
      BY <1>10, <2>0, <2>1, <2>3 DEF Move, At, Still, HolderOf, Holds, HeldStatus,
         CanTransition, Terminal
    <3> QED
      BY <1>frame, <2>0, <2>1, <2>2, <2>3, <3>1
  <2>4. CASE Fault(q)
    <3>1. i \in hurt'
      BY <2>0, <2>1, <2>4, ConstantsAssumption DEF Fault
    <3> QED
      BY <1>frame, <2>0, <2>1, <2>2, <3>1
  <2>5. CASE Still(q) /\ Moved(q) /\ status' = [status EXCEPT ![i] = req[q].to]
    <3>1. status'[i] = req[q].to
      BY <2>0, <2>1, <2>5
    <3>2. CASE req[q].to \in Transient
      <4>1. HolderOf(q, i)'
        BY <1>10, <2>0, <2>5, <3>1, <3>2 DEF Move, At, Moved, Ask, Goto, HolderOf, Holds,
           HeldStatus, Transient
      <4> QED
        BY <1>frame, <2>0, <2>1, <2>2, <4>1
    <3>3. CASE req[q].to \notin Transient
      BY <1>frame, <2>0, <2>1, <2>2, <3>1, <3>3
    <3> QED
      BY <3>2, <3>3
  <2> QED
    BY <1>10, <2>0, <2>3, <2>4, <2>5 DEF Move
<1>11. ASSUME NEW q \in Req, ReadDetails(q) PROVE HolderInv'
  BY SMTT(30), <1>11 DEF ReadDetails, At, Answer, Fault, NoFault
<1>12. ASSUME NEW q \in Req, Turn(q) PROVE HolderInv'
  <2> HIDE DEF HolderInv, HeldStatus, Holds, HolderOf, Terminal, Transient
  <2>1. CASE Goto(q, "store")
    BY <1>frame, <1>12, <2>1 DEF Turn, At, Goto, HolderOf, Holds, HeldStatus
  <2>2. CASE Revert(q)
    BY <1>frame, <1>12, <2>2 DEF Turn, At, Revert, Ask, HolderOf, Holds, HeldStatus
  <2>3. CASE ~Revert(q) /\ ~Goto(q, "store")
    BY <1>frame, <1>12, <2>3 DEF Turn, At, HolderOf, Holds, HeldStatus
  <2> QED
    BY <2>1, <2>2, <2>3
<1>13. ASSUME NEW q \in Req, InsertRca(q) PROVE HolderInv'
  BY <1>13 DEF InsertRca, At, Ask, Revert, Fault, NoFault
<1>14. ASSUME NEW q \in Req, InsertRepair(q) PROVE HolderInv'
  <2> HIDE DEF HolderInv, HeldStatus, Holds, HolderOf, Terminal, Transient
  <2>1. CASE Goto(q, "check")
    BY <1>frame, <1>14, <2>1 DEF InsertRepair, At, Goto, NoFault, Fault, HolderOf, Holds,
       HeldStatus
  <2>2. CASE Answer(q) /\ Fault(q)
    BY <1>frame, <1>14, <2>2 DEF InsertRepair, At, Answer, Fault, HolderOf
  <2> QED
    BY <1>14, <2>1, <2>2 DEF InsertRepair
<1>15. ASSUME NEW q \in Req, Audit(q) PROVE HolderInv'
  <2> HIDE DEF HolderInv, HeldStatus, Holds, HolderOf, Terminal, Transient
  <2>1. ~Holds(q)
    BY <1>15 DEF Audit, At, Holds
  <2> QED
    BY <1>frame, <1>15, <2>1 DEF Audit, Answer, Fault, NoFault, HolderOf
<1>16. ASSUME NEW q \in Req, Drop(q) PROVE HolderInv'
  BY SMTT(30), <1>16 DEF Drop, Answer
<1>17. ASSUME Crash PROVE HolderInv'
  BY <1>17 DEF Crash
<1>18. ASSUME Boot PROVE HolderInv'
  BY <1>18 DEF Boot, Interrupted, Reconciled
<1>19. ASSUME UNCHANGED vars PROVE HolderInv'
  BY <1>19 DEF vars, rows, env
<1> QED
  BY <1>1, <1>2, <1>3, <1>4, <1>5, <1>6, <1>7, <1>8, <1>9, <1>10, <1>11, <1>12, <1>13,
     <1>14, <1>15, <1>16, <1>17, <1>18, <1>19 DEF Next, Handler

LEMMA TellingStep ==
  TypeOK /\ Shape /\ TellingInv /\ StatusMoves /\ [Next]_vars => TellingInv'
<1> SUFFICES ASSUME TypeOK, Shape, TellingInv, StatusMoves, [Next]_vars PROVE TellingInv'
  OBVIOUS
<1>m. \A i \in Incident : status[i] \in Terminal => status'[i] = status[i]
  BY DEF StatusMoves, CanTransition, Terminal
<1>inc. \A p \in Req : req[p].pc \in {"check", "move", "audit"} => req[p].inc \in Incident
  BY DEF TypeOK, Request, Shape, About
<1>frame. ASSUME NEW q \in Req,
                 \A p \in Req \ {q} : req'[p] = req[p],
                 \A i \in Incident : repairs[i] \subseteq repairs'[i],
                 Succeeds(req'[q]) /\ req'[q].pc \in {"check", "move", "audit"} => Cured(req[q])',
                 req'[q].pc = "audit" /\ req'[q].to \in {"resolved", "dismissed"} =>
                   status'[req'[q].inc] = req'[q].to
          PROVE  TellingInv'
  <2>1. ASSUME NEW p \in Req, Succeeds(req'[p]), req'[p].pc \in {"check", "move", "audit"}
        PROVE  Cured(req[p])'
    BY <1>frame, <1>inc, <2>1 DEF TellingInv, Cured
  <2>2. ASSUME NEW p \in Req, req'[p].pc = "audit", req'[p].to \in {"resolved", "dismissed"}
        PROVE  status'[req'[p].inc] = req'[p].to
    BY <1>m, <1>frame, <1>inc, <2>2 DEF TellingInv, Terminal
  <2> QED
    BY <2>1, <2>2 DEF TellingInv
<1>quiet. ASSUME NEW q \in Req,
                 \A p \in Req \ {q} : req'[p] = req[p],
                 \A i \in Incident : repairs[i] \subseteq repairs'[i],
                 ~Succeeds(req'[q]) \/ req'[q].pc \notin {"check", "move", "audit"},
                 req'[q].pc = "audit" => req'[q].to \notin {"resolved", "dismissed"}
          PROVE  TellingInv'
  BY <1>frame, <1>quiet
<1>same. ASSUME NEW q \in Req,
                \A p \in Req \ {q} : req'[p] = req[p],
                UNCHANGED repairs,
                req'[q].kind = req[q].kind, req'[q].to = req[q].to,
                req'[q].rca = req[q].rca, req'[q].inc = req[q].inc,
                req[q].pc \in {"check", "move"},
                req'[q].pc = "audit" => status'[req[q].inc] = req[q].to
         PROVE  TellingInv'
  <2>1. Succeeds(req'[q]) => Cured(req[q])'
    BY <1>same DEF Succeeds, TellingInv, Cured
  <2> QED
    BY <1>frame, <1>same, <2>1
<1> USE <1>m DEF TellingInv, Succeeds, Cured, Idle, Handling, TypeOK, Request, Terminal,
   Transient, rows, env, Shape, Fits, About
<1>1. ASSUME NEW q \in Req, Ingest(q) PROVE TellingInv'
  BY <1>1 DEF Ingest, Arrives
<1>2. ASSUME NEW q \in Req, Analyze(q) PROVE TellingInv'
  BY <1>2 DEF Analyze, Arrives, Known
<1>3. ASSUME NEW q \in Req, ApproveRepair(q) PROVE TellingInv'
  BY <1>3 DEF ApproveRepair, Arrives, Known
<1>4. ASSUME NEW q \in Req, Dismiss(q) PROVE TellingInv'
  <2> HIDE DEF TellingInv, Succeeds, Cured, Terminal, Transient
  <2>1. \A p \in Req \ {q} : req'[p] = req[p]
    BY <1>4 DEF Dismiss, Arrives
  <2>2. ~Succeeds(req'[q]) /\ req'[q].pc # "audit"
    BY <1>4 DEF Dismiss, Arrives, Known, Succeeds
  <2> QED
    BY <1>quiet, <1>4, <2>1, <2>2 DEF Dismiss, Arrives
<1>5. ASSUME NEW q \in Req, FindLive(q) PROVE TellingInv'
  BY <1>5 DEF FindLive, At, Found, Goto, Answer, Fault, NoFault, LiveRows
<1>6. ASSUME NEW q \in Req, InsertRow(q) PROVE TellingInv'
  BY <1>6 DEF InsertRow, At, Goto, Answer, Fault, NoFault
<1>7. ASSUME NEW q \in Req, FindAgain(q) PROVE TellingInv'
  BY <1>7 DEF FindAgain, At, Found, Answer, Fault, NoFault, LiveRows
<1>8. ASSUME NEW q \in Req, BumpDuplicate(q) PROVE TellingInv'
  BY <1>8 DEF BumpDuplicate, At, Answer, Fault, NoFault
<1>9. ASSUME NEW q \in Req, Check(q) PROVE TellingInv'
  <2> HIDE DEF TellingInv, Succeeds, Cured, Terminal, Transient
  <2>1. CASE req' = [req EXCEPT ![q].pc = "move", ![q].seen = status[req[q].inc]]
    BY <1>same, <1>9, <2>1 DEF Check, At
  <2>2. CASE Answer(q)
    BY <1>quiet, <1>9, <2>2 DEF Check, Answer
  <2>3. CASE BestEffort(q) /\ Goto(q, "audit")
    <3>1. req[q].to \in {"open", "failed"}
      BY <2>3 DEF BestEffort
    <3> QED
      BY <1>quiet, <1>9, <2>3, <3>1 DEF Check, At, Goto, Succeeds
  <2> QED
    BY <1>9, <2>1, <2>2, <2>3 DEF Check, Refused
<1>10. ASSUME NEW q \in Req, Move(q) PROVE TellingInv'
  <2> HIDE DEF TellingInv, Succeeds, Cured, Terminal, Transient
  <2>1. CASE Answer(q)
    BY <1>quiet, <1>10, <2>1 DEF Move, Answer
  <2>2. CASE BestEffort(q) /\ Goto(q, "audit")
    <3>1. req[q].to \in {"open", "failed"}
      BY <2>2 DEF BestEffort
    <3> QED
      BY <1>quiet, <1>10, <2>2, <3>1 DEF Move, At, Goto, Succeeds
  <2>3. CASE Moved(q) /\ status' = [status EXCEPT ![req[q].inc] = req[q].to]
    <3>1. CASE Ask(q, "failed")
      BY <1>quiet, <1>10, <2>3, <3>1 DEF Move, At, Ask, Succeeds
    <3>2. CASE Goto(q, "run")
      BY <1>quiet, <1>10, <2>3, <3>2 DEF Move, At, Goto
    <3>3. CASE Goto(q, "audit")
      <4>1. status'[req[q].inc] = req[q].to
        BY <1>10, <2>3 DEF Move, At
      <4> QED
        BY <1>same, <1>10, <3>3, <4>1 DEF Move, At, Goto
    <3> QED
      BY <2>3, <3>1, <3>2, <3>3 DEF Moved
  <2> QED
    BY <1>10, <2>1, <2>2, <2>3 DEF Move, Refused
<1>11. ASSUME NEW q \in Req, ReadDetails(q) PROVE TellingInv'
  <2> HIDE DEF TellingInv, Succeeds, Cured, Terminal, Transient
  <2>1. CASE Answer(q)
    BY <1>quiet, <1>11, <2>1 DEF ReadDetails, Answer
  <2>2. CASE ~Answer(q)
    <3> DEFINE r == Handling("approve", "check", req[q].inc, "repairing", rcas[req[q].inc])
    <3>1. req' = [req EXCEPT ![q] = r]
      BY <1>11, <2>2 DEF ReadDetails
    <3>2. r.to = "repairing" /\ r.pc = "check"
      OBVIOUS
    <3> HIDE DEF r
    <3> QED
      BY <1>quiet, <1>11, <3>1, <3>2 DEF ReadDetails, Succeeds
  <2> QED
    BY <2>1, <2>2
<1>12. ASSUME NEW q \in Req, Turn(q) PROVE TellingInv'
  <2> HIDE DEF TellingInv, Succeeds, Cured, Terminal, Transient
  <2>1. CASE Goto(q, "store")
    BY <1>quiet, <1>12, <2>1 DEF Turn, At, Goto
  <2>2. CASE Revert(q)
    BY <1>quiet, <1>12, <2>2 DEF Turn, At, Revert, Ask, Succeeds
  <2>3. CASE ~Revert(q) /\ ~Goto(q, "store")
    BY <1>quiet, <1>12, <2>3 DEF Turn, At
  <2> QED
    BY <2>1, <2>2, <2>3
<1>13. ASSUME NEW q \in Req, InsertRca(q) PROVE TellingInv'
  BY <1>13 DEF InsertRca, At, Ask, Revert, Fault, NoFault
<1>14. ASSUME NEW q \in Req, InsertRepair(q) PROVE TellingInv'
  <2> HIDE DEF TellingInv, Succeeds, Cured, Terminal, Transient
  <2>1. CASE Answer(q)
    BY <1>quiet, <1>14, <2>1 DEF InsertRepair, At, Answer
  <2>2. CASE Goto(q, "check") /\ ~Answer(q)
    <3>1. \A p \in Req \ {q} : req'[p] = req[p]
      BY <2>2 DEF Goto
    <3>2. /\ req'[q].pc = "check" /\ req'[q].rca = req[q].rca /\ req'[q].inc = req[q].inc
          /\ req[q].inc \in Incident /\ req[q].rca # 0 /\ req'[q].to = req[q].to
      BY <1>14, <2>2 DEF InsertRepair, At, Goto
    <3> DEFINE new == [rca |-> req[q].rca, ok |-> req[q].to = "resolved"]
    <3>3. repairs' = [repairs EXCEPT ![req[q].inc] = @ \cup {new}] /\ UNCHANGED status
      BY <1>14, <2>2 DEF InsertRepair
    <3>4. req[q].to = "resolved" => new = [rca |-> req[q].rca, ok |-> TRUE]
      OBVIOUS
    <3> HIDE DEF new
    <3>5. /\ \A j \in Incident : repairs[j] \subseteq repairs'[j]
          /\ new \in repairs'[req[q].inc]
      BY <3>2, <3>3
    <3>6. Succeeds(req'[q]) => Cured(req[q])'
      <4> SUFFICES ASSUME req[q].to = "resolved" PROVE Cured(req[q])'
        BY <3>2 DEF Succeeds
      <4> HIDE DEF Request, Idle, TypeOK, Shape, Fits, About
      <4>1. [rca |-> req'[q].rca, ok |-> TRUE] \in repairs'[req'[q].inc]
        BY <3>2, <3>4, <3>5
      <4> QED
        BY <3>2, <4>1 DEF Cured
    <3> QED
      BY <1>frame, <3>1, <3>2, <3>5, <3>6
  <2> QED
    BY <1>14, <2>1, <2>2 DEF InsertRepair
<1>15. ASSUME NEW q \in Req, Audit(q) PROVE TellingInv'
  BY <1>15 DEF Audit, At, Answer, Fault, NoFault
<1>16. ASSUME NEW q \in Req, Drop(q) PROVE TellingInv'
  BY <1>16 DEF Drop, Answer
<1>17. ASSUME Crash PROVE TellingInv'
  BY <1>17 DEF Crash
<1>18. ASSUME Boot PROVE TellingInv'
  BY <1>18 DEF Boot, Interrupted
<1>19. ASSUME UNCHANGED vars PROVE TellingInv'
  BY <1>19 DEF vars, rows, env
<1> QED
  BY <1>1, <1>2, <1>3, <1>4, <1>5, <1>6, <1>7, <1>8, <1>9, <1>10, <1>11, <1>12, <1>13,
     <1>14, <1>15, <1>16, <1>17, <1>18, <1>19 DEF Next, Handler

LEMMA AuditStep ==
  TypeOK /\ Shape /\ HolderInv /\ TellingInv /\ AuditTellsTheEnd /\ StatusMoves /\ [Next]_vars
    => AuditTellsTheEnd'
<1> SUFFICES ASSUME TypeOK, Shape, HolderInv, TellingInv, AuditTellsTheEnd, StatusMoves, [Next]_vars
             PROVE  AuditTellsTheEnd'
  OBVIOUS
<1>m. \A i \in Incident : status[i] \in Terminal => status'[i] = status[i]
  BY DEF StatusMoves, CanTransition, Terminal
<1>frame. ASSUME UNCHANGED trail,
                 hurt \subseteq hurt',
                 \A i \in Incident : repairs[i] \subseteq repairs'[i] /\ rcas[i] <= rcas'[i],
                 \A p \in Req : req[p].pc = "audit" => req'[p] = req[p] \/ req[p].inc \in hurt',
                 \A i \in Incident :
                   \/ status'[i] = status[i]
                   \/ status'[i] \notin Terminal /\ status[i] \notin Terminal
                   \/ i \in hurt'
                   \/ EndOf(status'[i]) \cap Telling(i)' # {}
          PROVE  AuditTellsTheEnd'
  <2> SUFFICES ASSUME NEW i \in Incident
               PROVE  /\ "repaired" \in trail[i] =>
                           /\ status'[i] = "resolved"
                           /\ \E r \in 1 .. rcas'[i] : [rca |-> r, ok |-> TRUE] \in repairs'[i]
                      /\ "dismissed" \in trail[i] => status'[i] = "dismissed"
                      /\ status'[i] \in Terminal /\ i \notin hurt' =>
                           EndOf(status'[i]) \cap (trail[i] \cup Telling(i)') # {}
    BY <1>frame DEF AuditTellsTheEnd
  <2>1. "repaired" \in trail[i] => \E r \in 1 .. rcas'[i] : [rca |-> r, ok |-> TRUE] \in repairs'[i]
    <3> SUFFICES ASSUME "repaired" \in trail[i]
                 PROVE  \E r \in 1 .. rcas'[i] : [rca |-> r, ok |-> TRUE] \in repairs'[i]
      OBVIOUS
    <3>1. PICK r \in 1 .. rcas[i] : [rca |-> r, ok |-> TRUE] \in repairs[i]
      BY DEF AuditTellsTheEnd
    <3>2. r \in 1 .. rcas'[i]
      BY <1>frame, TypeStep DEF TypeOK
    <3> QED
      BY <1>frame, <3>1, <3>2
  <2>2. /\ "repaired" \in trail[i] => status'[i] = "resolved"
        /\ "dismissed" \in trail[i] => status'[i] = "dismissed"
    BY <1>m DEF AuditTellsTheEnd, Terminal
  <2>3. CASE status'[i] = status[i] /\ i \notin hurt'
    <3>1. Telling(i) \subseteq Telling(i)'
      BY <1>frame, <2>3 DEF Telling
    <3> QED
      BY <1>frame, <2>1, <2>2, <2>3, <3>1 DEF AuditTellsTheEnd
  <2> QED
    BY <1>frame, <2>1, <2>2, <2>3
<1>entry. ASSUME UNCHANGED <<rcas, repairs>>,
                 \A i \in Incident : i \notin hurt' => i \notin hurt,
                 \A i \in Incident :
                   \/ status'[i] = status[i]
                   \/ status[i] \notin Terminal /\ (i \in hurt' \/ status'[i] \notin Terminal),
                 \A i \in Incident : "repaired" \in trail'[i] =>
                   \/ "repaired" \in trail[i]
                   \/ /\ status[i] = "resolved"
                      /\ \E r \in 1 .. rcas[i] : [rca |-> r, ok |-> TRUE] \in repairs[i],
                 \A i \in Incident : "dismissed" \in trail'[i] =>
                   "dismissed" \in trail[i] \/ status[i] = "dismissed",
                 \A i \in Incident : trail[i] \cup Telling(i) \subseteq trail'[i] \cup Telling(i)'
          PROVE  AuditTellsTheEnd'
  <2> SUFFICES ASSUME NEW i \in Incident
               PROVE  /\ "repaired" \in trail'[i] =>
                           /\ status'[i] = "resolved"
                           /\ \E r \in 1 .. rcas[i] : [rca |-> r, ok |-> TRUE] \in repairs[i]
                      /\ "dismissed" \in trail'[i] => status'[i] = "dismissed"
                      /\ status'[i] \in Terminal /\ i \notin hurt' =>
                           EndOf(status'[i]) \cap (trail'[i] \cup Telling(i)') # {}
    BY <1>entry DEF AuditTellsTheEnd
  <2>1. "repaired" \in trail'[i] => status[i] = "resolved"
    BY <1>entry DEF AuditTellsTheEnd
  <2>2. "repaired" \in trail'[i] => \E r \in 1 .. rcas[i] : [rca |-> r, ok |-> TRUE] \in repairs[i]
    BY <1>entry DEF AuditTellsTheEnd
  <2>3. "dismissed" \in trail'[i] => status[i] = "dismissed"
    BY <1>entry DEF AuditTellsTheEnd
  <2>4. status[i] \in Terminal => status'[i] = status[i]
    BY <1>m
  <2>5. status'[i] \in Terminal /\ i \notin hurt' =>
          EndOf(status'[i]) \cap (trail'[i] \cup Telling(i)') # {}
    <3>1. CASE status'[i] = status[i] /\ status[i] \in Terminal /\ i \notin hurt'
      <4>1. EndOf(status[i]) \cap (trail[i] \cup Telling(i)) # {}
        BY <1>entry, <3>1 DEF AuditTellsTheEnd
      <4> QED
        BY <1>entry, <3>1, <4>1
    <3> QED
      BY <1>entry, <3>1
  <2> QED
    BY <2>1, <2>2, <2>3, <2>4, <2>5 DEF Terminal
<1>nat. \A i \in Incident : rcas[i] \in Nat
  BY DEF TypeOK
<1> USE <1>nat DEF Idle, Handling, TypeOK, Request, Terminal, Transient, rows, env, Shape,
   Fits, About
<1>1. ASSUME NEW q \in Req, Ingest(q) PROVE AuditTellsTheEnd'
  BY <1>1, <1>frame DEF Ingest, Arrives
<1>2. ASSUME NEW q \in Req, Analyze(q) PROVE AuditTellsTheEnd'
  BY <1>2, <1>frame DEF Analyze, Arrives, Known
<1>3. ASSUME NEW q \in Req, ApproveRepair(q) PROVE AuditTellsTheEnd'
  BY <1>3, <1>frame DEF ApproveRepair, Arrives, Known
<1>4. ASSUME NEW q \in Req, Dismiss(q) PROVE AuditTellsTheEnd'
  BY <1>4, <1>frame DEF Dismiss, Arrives, Known
<1>5. ASSUME NEW q \in Req, FindLive(q) PROVE AuditTellsTheEnd'
  BY <1>5, <1>frame DEF FindLive, At, Found, Goto, Answer, Fault, NoFault, LiveRows
<1>6. ASSUME NEW q \in Req, InsertRow(q) PROVE AuditTellsTheEnd'
  <2> HIDE DEF Terminal, Transient
  <2>1. \A p \in Req : req[p].pc = "audit" => req'[p] = req[p]
    BY <1>6 DEF InsertRow, At, Goto, Answer
  <2> HIDE DEF Shape, Fits, About, Request, Idle, Handling
  <2>2. \A i \in Incident : status'[i] = status[i] \/ (status[i] = "absent" /\ status'[i] = "open")
    BY <1>6 DEF InsertRow
  <2> QED
    BY <1>frame, <1>6, <2>1, <2>2 DEF InsertRow, Fault, NoFault, Terminal
<1>7. ASSUME NEW q \in Req, FindAgain(q) PROVE AuditTellsTheEnd'
  BY <1>7, <1>frame DEF FindAgain, At, Found, Answer, Fault, NoFault, LiveRows
<1>8. ASSUME NEW q \in Req, BumpDuplicate(q) PROVE AuditTellsTheEnd'
  BY <1>8, <1>frame DEF BumpDuplicate, At, Answer, Fault, NoFault
<1>9. ASSUME NEW q \in Req, Check(q) PROVE AuditTellsTheEnd'
  BY <1>9, <1>frame DEF Check, At, Refused, BestEffort, Goto, Answer, Fault, NoFault
<1>10. ASSUME NEW q \in Req, Move(q) PROVE AuditTellsTheEnd'
  <2> HIDE DEF Terminal, Transient
  <2>0. PICK i \in Incident : i = req[q].inc
    BY <1>10 DEF Move, At
  <2>1. \A p \in Req : req[p].pc = "audit" => req'[p] = req[p]
    <3>1. CASE Refused(q)
      BY <1>10, <3>1 DEF Move, At, Refused, Goto, Answer
    <3>2. CASE Moved(q)
      BY <1>10, <3>2 DEF Move, At, Moved, Ask, Goto
    <3> QED
      BY <1>10, <3>1, <3>2 DEF Move
  <2>2. CASE UNCHANGED status
    BY <1>frame, <1>10, <2>1, <2>2 DEF Move, Fault, NoFault
  <2>3. CASE Fault(q) /\ status' = [status EXCEPT ![i] = req[q].to]
    <3>1. i \in hurt' /\ hurt \subseteq hurt'
      BY <2>0, <2>3, ConstantsAssumption DEF Fault
    <3> QED
      BY <1>frame, <1>10, <2>1, <2>3, <3>1 DEF Move
  <2>4. CASE NoFault /\ Moved(q) /\ Still(q) /\ status' = [status EXCEPT ![i] = req[q].to]
    <3>1. status[i] \notin Terminal
      BY <1>10, <2>0, <2>4 DEF Move, At, Still, CanTransition, Terminal
    <3>2. CASE req[q].to \in Terminal
      <4>1. req'[q].pc = "audit" /\ req'[q].inc = i
        BY <1>10, <2>0, <2>4, <3>2 DEF Move, At, Moved, Goto, Transient, Terminal
      <4>2. ActionOf(req'[q]) \in EndOf(req[q].to)
        BY <1>10, <2>4, <3>2 DEF Move, At, Moved, Goto, Transient, Terminal, ActionOf, EndOf
      <4>3. EndOf(status'[i]) \cap Telling(i)' # {}
        BY <2>4, <4>1, <4>2 DEF Telling
      <4> QED
        BY <1>frame, <1>10, <2>1, <2>4, <4>3 DEF Move, NoFault
    <3>3. CASE req[q].to \notin Terminal
      BY <1>frame, <1>10, <2>1, <2>4, <3>1, <3>3 DEF Move, NoFault
    <3> QED
      BY <3>2, <3>3
  <2> QED
    BY <1>10, <2>0, <2>2, <2>3, <2>4 DEF Move
<1>11. ASSUME NEW q \in Req, ReadDetails(q) PROVE AuditTellsTheEnd'
  BY <1>11, <1>frame DEF ReadDetails, At, Answer, Fault, NoFault
<1>12. ASSUME NEW q \in Req, Turn(q) PROVE AuditTellsTheEnd'
  BY <1>12, <1>frame DEF Turn, At, Goto, Revert, Ask
<1>13. ASSUME NEW q \in Req, InsertRca(q) PROVE AuditTellsTheEnd'
  BY <1>13, <1>frame DEF InsertRca, At, Ask, Revert, Fault, NoFault
<1>14. ASSUME NEW q \in Req, InsertRepair(q) PROVE AuditTellsTheEnd'
  BY <1>14, <1>frame DEF InsertRepair, At, Goto, Answer, Fault, NoFault
<1>15. ASSUME NEW q \in Req, Audit(q) PROVE AuditTellsTheEnd'
  <2> HIDE DEF Terminal, Transient
  <2>0. PICK i \in Incident : i = req[q].inc
    BY <1>15 DEF Audit, At
  <2>1. \A p \in Req \ {q} : req'[p] = req[p]
    BY <1>15 DEF Audit, Answer
  <2>2. CASE Fault(q) /\ UNCHANGED trail
    <3>1. i \in hurt' /\ hurt \subseteq hurt'
      BY <2>0, <2>2, ConstantsAssumption DEF Fault
    <3> QED
      BY <1>frame, <1>15, <2>0, <2>1, <2>2, <3>1 DEF Audit
  <2>3. CASE NoFault /\ trail' = [trail EXCEPT ![i] = @ \cup {ActionOf(req[q])}]
    <3>0. i \notin hurt' => i \notin hurt
      BY <2>3 DEF NoFault
    <3> HIDE DEF Shape, Fits, About, Request, Idle, Handling
    <3>1. \A j \in Incident : trail'[j] = trail[j] \/ (j = i /\ trail'[j] = trail[j] \cup {ActionOf(req[q])})
      BY <2>3 DEF TypeOK
    <3>2. \A j \in Incident :
            trail[j] \cup Telling(j) \subseteq trail'[j] \cup Telling(j)'
      <4> SUFFICES ASSUME NEW j \in Incident, NEW a \in Telling(j), a \notin Telling(j)'
                   PROVE  a \in trail'[j]
        BY <3>1
      <4>1. PICK p \in Req : req[p].pc = "audit" /\ req[p].inc = j /\ a = ActionOf(req[p])
        BY DEF Telling
      <4>2. p = q
        BY <2>1, <4>1 DEF Telling
      <4> QED
        BY <2>0, <2>3, <4>1, <4>2
    <3>3. ActionOf(req[q]) = "repaired" => status[i] = "resolved" /\ Cured(req[q])
      BY <1>15, <2>0 DEF Audit, At, ActionOf, TellingInv, Succeeds, Shape, Fits, Idle,
         Handling
    <3>4. ActionOf(req[q]) = "repaired" => \E r \in 1 .. rcas[i] : [rca |-> r, ok |-> TRUE] \in repairs[i]
      <4>1. ActionOf(req[q]) = "repaired" => req[q].kind = "approve"
        BY <1>15, <2>0 DEF Audit, At, ActionOf, Shape, Fits, Idle, Handling
      <4>2. ActionOf(req[q]) = "repaired" => req[q].rca \in 1 .. rcas[i]
        BY <2>0, <3>3, <4>1, <1>nat DEF Cured, Shape, About, Request
      <4> QED
        BY <2>0, <3>3, <4>2 DEF Cured
    <3>5. ActionOf(req[q]) = "dismissed" => status[i] = "dismissed"
      BY <1>15, <2>0 DEF Audit, At, ActionOf, TellingInv, Shape, Fits, Idle, Handling
    <3> QED
      <4>1. \A j \in Incident : "repaired" \in trail'[j] =>
              \/ "repaired" \in trail[j]
              \/ /\ status[j] = "resolved"
                 /\ \E r \in 1 .. rcas[j] : [rca |-> r, ok |-> TRUE] \in repairs[j]
        BY <3>1, <3>3, <3>4
      <4>2. \A j \in Incident : "dismissed" \in trail'[j] =>
              "dismissed" \in trail[j] \/ status[j] = "dismissed"
        BY <3>1, <3>5
      <4>3. UNCHANGED <<status, rcas, repairs, hurt>>
        BY <1>15, <2>3 DEF Audit, NoFault
      <4> QED
        BY <1>entry, <3>2, <4>1, <4>2, <4>3
  <2> QED
    BY <1>15, <2>0, <2>2, <2>3 DEF Audit
<1>16. ASSUME NEW q \in Req, Drop(q) PROVE AuditTellsTheEnd'
  BY <1>16, <1>frame DEF Drop, Answer
<1>17. ASSUME Crash PROVE AuditTellsTheEnd'
  <2> HIDE DEF Terminal, Transient
  <2>1. \A p \in Req : req[p].pc = "audit" => req[p].inc \in hurt'
    BY <1>17 DEF Crash
  <2> QED
    BY <1>frame, <1>17, <2>1 DEF Crash
<1>18. ASSUME Boot PROVE AuditTellsTheEnd'
  <2> HIDE DEF Terminal, Transient
  <2>1. \A i \in Incident : status[i] \in Transient => i \in hurt
    BY <1>18 DEF Boot, HolderInv, Holds
  <2> HIDE DEF Shape, Fits, About, Request, Idle, Handling
  <2>2. \A i \in Incident : status'[i] = status[i] \/ (status[i] \in Transient /\ i \in hurt)
    BY <1>18, <2>1 DEF Boot, Interrupted
  <2>3. \A i \in Incident : trail'[i] = trail[i] \/ trail'[i] = trail[i] \cup {"reconciled"}
    BY <1>18 DEF Boot
  <2>4. \A i \in Incident : Telling(i)' = Telling(i)
    BY <1>18 DEF Boot, Telling
  <2> QED
    <3>1. \A i \in Incident : status'[i] = status[i] \/ (status[i] \notin Terminal /\ i \in hurt')
      BY <1>18, <2>2 DEF Boot, Transient, Terminal
    <3>2. UNCHANGED <<rcas, repairs, hurt>>
      BY <1>18 DEF Boot
    <3>3. /\ \A i \in Incident : "repaired" \in trail'[i] => "repaired" \in trail[i]
          /\ \A i \in Incident : "dismissed" \in trail'[i] => "dismissed" \in trail[i]
          /\ \A i \in Incident : trail[i] \subseteq trail'[i]
      BY <2>3
    <3> QED
      BY <1>entry, <2>4, <3>1, <3>2, <3>3
<1>19. ASSUME UNCHANGED vars PROVE AuditTellsTheEnd'
  BY <1>19, <1>frame DEF vars, rows, env
<1> QED
  BY <1>1, <1>2, <1>3, <1>4, <1>5, <1>6, <1>7, <1>8, <1>9, <1>10, <1>11, <1>12, <1>13,
     <1>14, <1>15, <1>16, <1>17, <1>18, <1>19 DEF Next, Handler

-----------------------------------------------------------------------------
(* The invariant. *)

LEMMA InvInit == Init => IInv
<1> SUFFICES ASSUME Init PROVE IInv
  OBVIOUS
<1>1. TypeOK /\ Shape
  BY TypeInit, ShapeInit
<1>2. OneLiveIncident /\ ExecutedInv /\ HolderInv
  BY DEF Init, OneLiveIncident, LiveRows, ExecutedInv, HolderInv, Transient
<1>3. HeldInv /\ TellingInv
  BY DEF Init, HeldInv, Holds, TellingInv, Idle, Handling
<1>4. AuditTellsTheEnd
  BY DEF Init, AuditTellsTheEnd, Terminal
<1> QED
  BY <1>1, <1>2, <1>3, <1>4 DEF IInv

LEMMA InvStep == IInv /\ [Next]_vars => IInv'
  BY TypeStep, ShapeStep, StatusStep, OneLiveStep, ExecutedStep, HeldStep, HolderStep,
     TellingStep, AuditStep DEF IInv

(* The invariant holds for ever.                                           *)
THEOREM InvAlways == Spec => []IInv
  BY InvInit, InvStep, PTL DEF Spec

(* Every reachable state is well typed, for any sets of incidents and      *)
(* requests and any bounds.                                                *)
THEOREM TypeCorrect == Spec => []TypeOK
  BY InvAlways, PTL DEF IInv

(* Of the rows of one alert at most one is live, whatever alerts race.     *)
THEOREM OneLive == Spec => []OneLiveIncident
  BY InvAlways, PTL DEF IInv

(* No incident is repaired twice.                                          *)
THEOREM Repaired == Spec => []RepairedOnce
<1>1. IInv => RepairedOnce
  BY DEF IInv, ExecutedInv, RepairedOnce
<1> QED
  BY <1>1, InvAlways, PTL

(* An incident is left on analyzing or repairing by an error, a disconnect *)
(* or a crash only.                                                        *)
THEOREM Stranded == Spec => []StrandedOnlyBy
<1>1. IInv => StrandedOnlyBy
  BY DEF IInv, HolderInv, StrandedOnlyBy, Working
<1> QED
  BY <1>1, InvAlways, PTL

(* The audit chain tells how an incident ended, and nothing else.          *)
THEOREM AuditTells == Spec => []AuditTellsTheEnd
  BY InvAlways, PTL DEF IInv

-----------------------------------------------------------------------------
(* The refinement of IncidentLifecycle. *)

(* HeldInv leaves at most one agent at work on an incident.                *)
LEMMA OneAgent ==
  ASSUME HeldInv, NEW i \in Incident, NEW q \in Req, q \in AtWork[i]
  PROVE  AtWork[i] = {q}
  BY DEF HeldInv, Holds, AtWork

LEMMA QuietRefines ==
  ASSUME UNCHANGED status,
         \A p \in Req : req[p].pc = "run" \/ req'[p].pc = "run" => req'[p] = req[p]
  PROVE  UNCHANGED Lifecycle!vars
  BY DEF Lifecycle!vars, AtWork

LEMMA StopRefines ==
  ASSUME HeldInv, UNCHANGED status, NEW q \in Req,
         \A p \in Req \ {q} : req'[p] = req[p],
         req'[q].pc # "run"
  PROVE  Lifecycle!Next
<1>1. \A i \in Incident : AtWork'[i] = AtWork[i] \ {q}
  BY DEF AtWork
<1>2. ASSUME NEW i \in Incident PROVE AtWork'[i] \in {AtWork[i], {}}
  <2>1. CASE q \in AtWork[i]
    <3>1. AtWork[i] = {q}
      BY <2>1, OneAgent
    <3> QED
      BY <1>1, <3>1
  <2>2. CASE q \notin AtWork[i]
    BY <1>1, <2>2
  <2> QED
    BY <2>1, <2>2
<1>3. AtWork' \in [Incident -> SUBSET Req]
  BY DEF AtWork
<1> QED
  BY <1>2, <1>3 DEF Lifecycle!Next, Lifecycle!Stops

LEMMA MoveRefines ==
  ASSUME IInv, NEW q \in Req, Move(q)
  PROVE  Lifecycle!Next \/ UNCHANGED Lifecycle!vars
<1> USE DEF IInv, Shape, Fits, About, TypeOK, Request, Idle, Handling
<1>0. PICK i \in Incident : i = req[q].inc
  BY DEF Move, At
<1>1. /\ CanTransition(req[q].seen, req[q].to)
      /\ \A p \in Req \ {q} : req'[p] = req[p]
      /\ req'[q].pc = "run" => Moved(q) /\ req[q].to \in Transient /\ req'[q].inc = i
  <2>1. CASE Refused(q)
    BY <1>0, <2>1 DEF Move, At, Refused, Goto, Answer
  <2>2. CASE Moved(q)
    BY <1>0, <2>2 DEF Move, At, Moved, Ask, Goto
  <2> QED
    BY <2>1, <2>2 DEF Move
<1>2. CASE UNCHANGED status
  <2>1. req'[q].pc # "run"
    <3>1. CASE Refused(q)
      BY <3>1 DEF Move, At, Refused, Goto, Answer
    <3>2. CASE Moved(q) /\ Still(q) /\ status' = [status EXCEPT ![i] = req[q].to]
      BY <1>0, <1>1, <1>2, <3>2 DEF Still, CanTransition, Terminal
    <3> QED
      BY <1>0, <3>1, <3>2 DEF Move
  <2> QED
    BY <1>1, <1>2, <2>1, StopRefines
<1>3. CASE Still(q) /\ status' = [status EXCEPT ![i] = req[q].to]
  <2>1. <<status[i], req[q].to>> \in Lifecycle!Legal
    <3>1. CanTransition(status[i], req[q].to)
      BY <1>0, <1>1, <1>3 DEF Still
    <3>2. CASE req[q].to = "dismissed"
      <4>1. status[i] \in {"open", "analyzing", "awaiting_approval", "repairing"}
        BY <3>1, <3>2 DEF CanTransition, Terminal, Status
      <4> QED
        BY <3>2, <4>1 DEF Lifecycle!Legal
    <3>3. CASE req[q].to # "dismissed"
      BY <3>1, <3>3 DEF CanTransition, Lifecycle!Legal
    <3> QED
      BY <3>2, <3>3
  <2>2. \A p \in AtWork[i] : req[p].kind \in {"analyze", "approve"} /\ p # q
                             /\ status[i] \in {HeldStatus(p), "dismissed"}
    BY <1>0 DEF AtWork, Move, At, HeldInv, Holds
  <2>3. \A j \in Incident \ {i} : AtWork'[j] = AtWork[j]
    BY <1>0, <1>1 DEF AtWork, Move, At
  <2>4. CASE req[q].to \in Transient
    <3>1. AtWork[i] = {}
      BY <1>0, <1>1, <1>3, <2>2, <2>4 DEF Still, CanTransition, Transient, Terminal,
         HeldStatus
    <3>2. AtWork'[i] \in {{}, {q}}
      <4>1. \A p \in Req : p \in AtWork'[i] => p = q
        <5> SUFFICES ASSUME NEW p \in Req \ {q}, p \in AtWork'[i] PROVE p \in AtWork[i]
          BY <3>1
        <5>1. req'[p].pc = "run" /\ req'[p].inc = i
          BY DEF AtWork
        <5> QED
          BY <1>1, <5>1 DEF AtWork
      <4>2. AtWork'[i] \subseteq Req
        BY DEF AtWork
      <4> QED
        BY <4>1, <4>2
    <3>3. AtWork' \in {AtWork, [AtWork EXCEPT ![i] = {q}]}
      <4>1. AtWork \in [Incident -> SUBSET Req] /\ AtWork' \in [Incident -> SUBSET Req]
        BY DEF AtWork
      <4>2. CASE AtWork'[i] = {}
        <5>1. \A j \in Incident : AtWork'[j] = AtWork[j]
          BY <2>3, <3>1, <4>2
        <5> QED
          BY <4>1, <5>1
      <4>3. CASE AtWork'[i] = {q}
        <5>1. \A j \in Incident : AtWork'[j] = [AtWork EXCEPT ![i] = {q}][j]
          BY <2>3, <4>1, <4>3
        <5> QED
          BY <4>1, <5>1
      <4> QED
        BY <3>2, <4>2, <4>3
    <3>4. Lifecycle!Begins(i, q)
      BY <1>3, <2>1, <2>4, <3>1, <3>3 DEF Lifecycle!Begins, Transient
    <3> QED
      BY <3>4 DEF Lifecycle!Next
  <2>5. CASE req[q].to \notin Transient
    <3>1. req'[q].pc # "run"
      BY <1>1, <2>5
    <3>2. AtWork' = AtWork
      BY <1>1, <3>1 DEF AtWork, Move, At
    <3>3. CASE req[q].to = "dismissed"
      <4>1. Lifecycle!Dismissed(i)
        BY <1>3, <2>1, <3>2, <3>3 DEF Lifecycle!Dismissed, Lifecycle!Live, Lifecycle!Legal,
           Lifecycle!Terminal
      <4> QED
        BY <4>1 DEF Lifecycle!Next
    <3>4. CASE req[q].to \in {"open", "awaiting_approval", "resolved", "failed"}
      <4>1. Holds(q)
        BY <3>4 DEF Move, At, Holds
      <4>2. AtWork[i] = {}
        BY <1>0, <4>1 DEF AtWork, HeldInv, Holds, Move, At
      <4>3. Lifecycle!Concludes(i)
        BY <1>3, <2>1, <3>2, <3>4, <4>2 DEF Lifecycle!Concludes
      <4> QED
        BY <4>3 DEF Lifecycle!Next
    <3> QED
      BY <2>5, <3>3, <3>4 DEF Move, At, Transient
  <2> QED
    BY <2>4, <2>5
<1> QED
  BY <1>0, <1>2, <1>3 DEF Move

LEMMA StepRefines == IInv /\ [Next]_vars => [Lifecycle!Next]_(Lifecycle!vars)
<1> SUFFICES ASSUME IInv, [Next]_vars PROVE Lifecycle!Next \/ UNCHANGED Lifecycle!vars
  BY DEF Lifecycle!vars
<1> USE DEF IInv, TypeOK, Request, Idle, Handling, rows, env
<1>1. ASSUME NEW q \in Req,
             Ingest(q) \/ Analyze(q) \/ ApproveRepair(q) \/ Dismiss(q)
      PROVE  UNCHANGED Lifecycle!vars
  BY <1>1, QuietRefines DEF Ingest, Analyze, ApproveRepair, Dismiss, Arrives
<1>2. ASSUME NEW q \in Req, FindLive(q) \/ FindAgain(q) \/ BumpDuplicate(q)
      PROVE  UNCHANGED Lifecycle!vars
  <2>1. /\ UNCHANGED status
        /\ req[q].pc # "run" /\ req'[q].pc # "run"
        /\ \A p \in Req \ {q} : req'[p] = req[p]
    BY <1>2 DEF FindLive, FindAgain, BumpDuplicate, At, Found, LiveRows, Goto, Answer
  <2> QED
    BY <2>1, QuietRefines
<1>3. ASSUME NEW q \in Req,
   Check(q) \/ ReadDetails(q) \/ InsertRca(q) \/ InsertRepair(q) \/ Audit(q)
      PROVE  UNCHANGED Lifecycle!vars
  <2>1. /\ UNCHANGED status
        /\ req[q].pc # "run" /\ req'[q].pc # "run"
        /\ \A p \in Req \ {q} : req'[p] = req[p]
    BY <1>3 DEF Check, Refused, ReadDetails, InsertRca, InsertRepair, Audit, At, Ask,
       Revert, Goto, Answer
  <2> QED
    BY <2>1, QuietRefines
<1>4. ASSUME NEW q \in Req, InsertRow(q)
      PROVE  Lifecycle!Next \/ UNCHANGED Lifecycle!vars
  <2>1. /\ req[q].pc # "run" /\ req'[q].pc # "run"
        /\ \A p \in Req \ {q} : req'[p] = req[p]
    BY <1>4 DEF InsertRow, At, Goto, Answer
  <2>2. AtWork' = AtWork
    BY <2>1 DEF AtWork
  <2>3. CASE UNCHANGED status
    BY <2>2, <2>3 DEF Lifecycle!vars
  <2>4. CASE NoLiveRow /\ \E i \in Incident : status[i] = "absent" /\ status' = [status EXCEPT ![i] = "open"]
    BY <2>2, <2>4 DEF NoLiveRow, LiveRows, Lifecycle!Next, Lifecycle!Opens, Lifecycle!Live,
       Lifecycle!Terminal, Terminal
  <2> QED
    BY <1>4, <2>3, <2>4 DEF InsertRow
<1>5. ASSUME NEW q \in Req, Turn(q) \/ Drop(q) PROVE Lifecycle!Next
  <2>1. CASE Turn(q)
    <3>1. req'[q].pc # "run" /\ \A p \in Req \ {q} : req'[p] = req[p]
      BY <2>1 DEF Turn, At, Goto, Revert, Ask
    <3> QED
      BY <2>1, <3>1, StopRefines DEF Turn
  <2>2. CASE Drop(q)
    BY <2>2, StopRefines DEF Drop, Answer
  <2> QED
    BY <1>5, <2>1, <2>2
<1>6. ASSUME Crash PROVE Lifecycle!Next
  <2>1. AtWork' = [i \in Incident |-> {}]
    BY <1>6 DEF Crash, AtWork
  <2> QED
    BY <1>6, <2>1 DEF Crash, Lifecycle!Next, Lifecycle!Stops
<1>7. ASSUME Boot PROVE Lifecycle!Next
  <2>1. AtWork' = AtWork /\ \A i \in Incident : AtWork[i] = {}
    BY <1>7 DEF Boot, AtWork, Shape
  <2>2. PICK S \in SUBSET Interrupted :
          status' = [i \in Incident |-> IF i \in S THEN Reconciled(status[i]) ELSE status[i]]
    BY <1>7 DEF Boot
  <2>3. /\ S \in SUBSET {i \in Incident : status[i] \in {"analyzing", "repairing"}}
        /\ status' = [i \in Incident |-> IF i \notin S THEN status[i]
                                         ELSE IF status[i] = "analyzing" THEN "open" ELSE "failed"]
    BY <2>2 DEF Interrupted, Transient, Reconciled
  <2> QED
    BY <2>1, <2>3 DEF Lifecycle!Next, Lifecycle!Reconciled
<1>8. ASSUME UNCHANGED vars PROVE UNCHANGED Lifecycle!vars
  BY <1>8, QuietRefines DEF vars
<1> QED
  BY <1>1, <1>2, <1>3, <1>4, <1>5, <1>6, <1>7, <1>8, MoveRefines DEF Next, Handler

LEMMA InitRefines == Init => Lifecycle!Init
  BY DEF Init, Lifecycle!Init, AtWork, Idle, Handling

(* The handlers, with their split status changes, errors, disconnects and  *)
(* crashes, implement the lifecycle.                                       *)
THEOREM Refinement == Spec => ImplementsLifecycle
<1>1. Spec => Lifecycle!Spec
  BY InitRefines, StepRefines, InvAlways, PTL DEF Spec, Lifecycle!Spec
<1> QED
  BY <1>1 DEF ImplementsLifecycle
=============================================================================
