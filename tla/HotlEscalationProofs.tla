------------------------ MODULE HotlEscalationProofs ------------------------
(***************************************************************************)
(* The safety of HotlEscalation for any number of escalations, operator    *)
(* requests, faults and crashes, and its refinement of OperatorVerdict.    *)
(*                                                                         *)
(* None of the safety invariants is inductive alone.  IInv adds what ties  *)
(* the durable rows to the requests and calls under way (Provenance), what *)
(* a slot of the waiter map says about its call (SlotsFresh), and that     *)
(* nothing of a dead process survives (DownIsEmpty).                       *)
(***************************************************************************)
EXTENDS HotlEscalation, FiniteSetTheorems, TLAPS

(* Where the durable state comes from: a row exists only for a call that   *)
(* got past its insert, and a request that got past a step left its mark.  *)
Provenance ==
  /\ \A e \in Esc : call[e] \in {"idle", "minted", "refused"} => row[e] = "absent"
  /\ \A p \in Post :
       /\ stage[p] \in {"looked", "recorded", "persisted", "resumed"}
            => row[target[p]] # "absent"
       /\ stage[p] \in {"recorded", "persisted", "resumed"}
            => ledger[target[p]] = verdict[p]
       /\ stage[p] \in {"persisted", "resumed"} => row[target[p]] = "resolved"
  /\ \A e \in listed : row[e] # "absent"

(* A slot belongs to a call that reached the await, and nothing was sent   *)
(* on its channel; before the slot there is no value either.               *)
SlotsFresh ==
  /\ \A e \in waiters :
       sent[e] = "nothing" /\ call[e] \in CallEnded \cup {"parked"}
  /\ \A e \in Esc :
       call[e] \in {"idle", "minted", "persisted"} => sent[e] = "nothing"

DownIsEmpty ==
  boot # "up" =>
    /\ waiters = {}
    /\ \A e \in Esc : /\ sent[e] = "nothing"
                      /\ call[e] \in CallEnded \cup {"idle"}

(* While the loop that a request resumed is still parked, the request's    *)
(* verdict is what waits in its channel.                                   *)
ResumedWaits ==
  \A p \in Post :
    stage[p] = "resumed" /\ call[target[p]] = "parked" => sent[target[p]] = verdict[p]

IInv ==
  /\ TypeOK
  /\ Provenance
  /\ SlotsFresh
  /\ DownIsEmpty
  /\ ResumedWaits
  /\ VerdictIsDurable
  /\ NoOrphanedTicket
  /\ GaugeMatchesWaiters
  /\ ResumedIsTrue
  /\ NoPhantomDecision

-----------------------------------------------------------------------------
(* Type correctness *)

LEMMA TypeInit == Init => TypeOK
  BY DEF Init, TypeOK, RowStatus, CallStatus, Stages, Verdict

LEMMA TypeStep == TypeOK /\ [Next]_vars => TypeOK'
<1> SUFFICES ASSUME TypeOK, [Next]_vars PROVE TypeOK'
  OBVIOUS
<1> USE DEF TypeOK, RowStatus, CallStatus, Stages, Verdict, MoveCall, MovePost,
            store, process, registry, agent, requests, world
<1>1. ASSUME NEW e \in Esc, CheckWithArgs(e) PROVE TypeOK'
  BY <1>1, ConstantsAssumption DEF CheckWithArgs
<1>2. ASSUME NEW e \in Esc, GateFailsClosed(e) PROVE TypeOK'
  BY <1>2 DEF GateFailsClosed
<1>3. ASSUME NEW e \in Esc, InsertPending(e) PROVE TypeOK'
  BY <1>3 DEF InsertPending
<1>4. ASSUME NEW e \in Esc, InsertPendingFails(e) PROVE TypeOK'
  BY <1>4 DEF InsertPendingFails, StorageFault
<1>5. ASSUME NEW e \in Esc, InstallWaiter(e) PROVE TypeOK'
  BY <1>5 DEF InstallWaiter
<1>6. ASSUME NEW e \in Esc, AwaitCancelled(e) PROVE TypeOK'
  BY <1>6 DEF AwaitCancelled
<1>7. ASSUME NEW e \in Esc, AwaitVerdict(e) PROVE TypeOK'
  BY <1>7 DEF AwaitVerdict, CallAfter
<1>8. ASSUME NEW e \in Esc, AwaitDeadline(e) PROVE TypeOK'
  BY <1>8 DEF AwaitDeadline
<1>9. ASSUME NEW e \in Esc, CancelTurn(e) PROVE TypeOK'
  BY <1>9 DEF CancelTurn
<1>10. ASSUME NEW e \in Esc, SleeperTerminalise(e) PROVE TypeOK'
  BY <1>10 DEF SleeperTerminalise, Terminalise, StorageFault
<1>11. ASSUME NEW e \in Esc, SleeperFire(e) PROVE TypeOK'
  BY <1>11 DEF SleeperFire, TakeSlot, ReceiverAlive
<1>12. ASSUME NEW p \in Post, Preflight(p) PROVE TypeOK'
  BY <1>12 DEF Preflight
<1>13. ASSUME NEW p \in Post, RecordLedger(p) PROVE TypeOK'
  BY <1>13 DEF RecordLedger
<1>14. ASSUME NEW p \in Post, PersistVerdict(p) PROVE TypeOK'
  BY <1>14 DEF PersistVerdict, DecisionMatches
<1>15. ASSUME NEW p \in Post, FireOneshot(p) PROVE TypeOK'
  BY <1>15 DEF FireOneshot, TakeSlot, ReceiverAlive
<1>16. ASSUME NEW p \in Post, PostFails(p) PROVE TypeOK'
  BY <1>16 DEF PostFails, StorageFault
<1>17. CASE Crash
  BY <1>17 DEF Crash
<1>18. CASE ReplayList
  BY <1>18 DEF ReplayList
<1>19. CASE ReplayReattach
  <2> DEFINE alive == {e \in listed : Unexpired(e)}
  <2>1. IsFiniteSet(alive)
    BY FS_Subset, ConstantsAssumption
  <2>2. Cardinality(alive) \in Int
    BY <2>1, FS_CardinalityType
  <2> QED
    BY <1>19, <2>2 DEF ReplayReattach, ReattachSlots
<1>20. CASE Tick
  BY <1>20 DEF Tick
<1>21. CASE UNCHANGED vars
  BY <1>21 DEF vars
<1> QED
  BY <1>1, <1>2, <1>3, <1>4, <1>5, <1>6, <1>7, <1>8, <1>9, <1>10, <1>11, <1>12, <1>13,
     <1>14, <1>15, <1>16, <1>17, <1>18, <1>19, <1>20, <1>21
     DEF Next, Loop, Sleeper, Operator, Boot

(* Every variable keeps the shape the code gives it, whatever interleaving *)
(* of loops, operators, sleepers, crashes and replays.                     *)
THEOREM TypeCorrect == Spec => []TypeOK
<1> QED BY TypeInit, TypeStep, PTL DEF Spec

-----------------------------------------------------------------------------
(* The inductive invariant *)

LEMMA InvInit == Init => IInv
<1> SUFFICES ASSUME Init PROVE IInv
  OBVIOUS
<1>1. TypeOK
  BY TypeInit
<1>2. GaugeMatchesWaiters
  BY FS_EmptySet DEF Init, GaugeMatchesWaiters
<1> QED
  BY <1>1, <1>2
  DEF Init, IInv, Provenance, SlotsFresh, DownIsEmpty, ResumedWaits,
      VerdictIsDurable, NoOrphanedTicket, ResumedIsTrue, NoPhantomDecision, Verdict

(* The gauge is moved by one with every slot that comes or goes.           *)
LEMMA CountSlots ==
  ASSUME waiters \subseteq Esc, NEW e \in Esc
  PROVE  /\ Cardinality(waiters) \in Nat
         /\ e \notin waiters => Cardinality(waiters \cup {e}) = Cardinality(waiters) + 1
         /\ e \in waiters => Cardinality(waiters \ {e}) = Cardinality(waiters) - 1
<1>1. IsFiniteSet(waiters)
  BY FS_Subset, ConstantsAssumption
<1> QED
  BY <1>1, FS_CardinalityType, FS_AddElement, FS_RemoveElement

(* Sending on a slot keeps the counting and the freshness of the others.   *)
LEMMA TakeSlotKeeps ==
  ASSUME TypeOK, SlotsFresh, GaugeMatchesWaiters, NEW e \in Esc, NEW v, TakeSlot(e, v)
  PROVE  /\ GaugeMatchesWaiters'
         /\ waiters' = waiters \ {e}
         /\ e \in waiters /\ call[e] = "parked" => sent' = [sent EXCEPT ![e] = v]
         /\ ~(e \in waiters /\ call[e] = "parked") => sent' = sent
<1>1. CASE e \in waiters
  BY <1>1, CountSlots DEF TypeOK, TakeSlot, GaugeMatchesWaiters, ReceiverAlive
<1>2. CASE e \notin waiters
  BY <1>2 DEF TakeSlot, GaugeMatchesWaiters
<1> QED
  BY <1>1, <1>2

LEMMA InvStep == IInv /\ [Next]_vars => IInv'
<1> SUFFICES ASSUME IInv, [Next]_vars PROVE IInv'
  OBVIOUS
<1>0. TypeOK'
  BY TypeStep DEF IInv
<1> USE <1>0 DEF IInv, TypeOK, Provenance, SlotsFresh, DownIsEmpty, ResumedWaits,
      VerdictIsDurable, NoOrphanedTicket, GaugeMatchesWaiters, ResumedIsTrue,
      NoPhantomDecision,
      RowStatus, CallStatus, CallEnded, Stages, StageActive, Verdict, CallAfter,
      MoveCall, MovePost, store, process, registry, agent, requests, world
<1>1. ASSUME NEW e \in Esc, CheckWithArgs(e) PROVE IInv'
  BY <1>1 DEF CheckWithArgs
<1>2. ASSUME NEW e \in Esc, GateFailsClosed(e) PROVE IInv'
  BY <1>2 DEF GateFailsClosed
<1>3. ASSUME NEW e \in Esc, InsertPending(e) PROVE IInv'
  BY <1>3 DEF InsertPending
<1>4. ASSUME NEW e \in Esc, InsertPendingFails(e) PROVE IInv'
  BY <1>4 DEF InsertPendingFails, StorageFault
<1>5. ASSUME NEW e \in Esc, InstallWaiter(e) PROVE IInv'
  <2>1. e \notin waiters
    BY <1>5 DEF InstallWaiter
  <2>2. GaugeMatchesWaiters'
    BY <1>5, <2>1, CountSlots DEF InstallWaiter
  <2> QED
    BY <1>5, <2>2 DEF InstallWaiter
<1>6. ASSUME NEW e \in Esc, AwaitCancelled(e) PROVE IInv'
  BY <1>6 DEF AwaitCancelled
<1>7. ASSUME NEW e \in Esc, AwaitVerdict(e) PROVE IInv'
  BY <1>7 DEF AwaitVerdict
<1>8. ASSUME NEW e \in Esc, AwaitDeadline(e) PROVE IInv'
  BY <1>8 DEF AwaitDeadline
<1>9. ASSUME NEW e \in Esc, CancelTurn(e) PROVE IInv'
  BY <1>9 DEF CancelTurn
<1>10. ASSUME NEW e \in Esc, SleeperTerminalise(e) PROVE IInv'
  BY <1>10 DEF SleeperTerminalise, Terminalise, StorageFault
<1>11. ASSUME NEW e \in Esc, SleeperFire(e) PROVE IInv'
  <2>1. TakeSlot(e, "timeout")
    BY <1>11 DEF SleeperFire
  <2>2. GaugeMatchesWaiters' /\ waiters' = waiters \ {e}
    BY <2>1, TakeSlotKeeps
  <2>3. /\ e \in waiters /\ call[e] = "parked" => sent' = [sent EXCEPT ![e] = "timeout"]
        /\ ~(e \in waiters /\ call[e] = "parked") => sent' = sent
    BY <2>1, TakeSlotKeeps
  <2> QED
    BY <1>11, <2>2, <2>3 DEF SleeperFire
<1>12. ASSUME NEW p \in Post, Preflight(p) PROVE IInv'
  BY <1>12 DEF Preflight, LookupPending
<1>13. ASSUME NEW p \in Post, RecordLedger(p) PROVE IInv'
  BY <1>13 DEF RecordLedger
<1>14. ASSUME NEW p \in Post, PersistVerdict(p) PROVE IInv'
  BY <1>14 DEF PersistVerdict, DecisionMatches
<1>15. ASSUME NEW p \in Post, FireOneshot(p) PROVE IInv'
  <2> DEFINE e == target[p]
  <2>1. e \in Esc /\ TakeSlot(e, verdict[p])
    BY <1>15 DEF FireOneshot
  <2>2. GaugeMatchesWaiters' /\ waiters' = waiters \ {e}
    BY <2>1, TakeSlotKeeps
  <2>3. /\ e \in waiters /\ call[e] = "parked" => sent' = [sent EXCEPT ![e] = verdict[p]]
        /\ ~(e \in waiters /\ call[e] = "parked") => sent' = sent
    BY <2>1, TakeSlotKeeps
  <2>4. /\ stage[p] = "persisted"
        /\ stage' = [stage EXCEPT ![p] = IF e \in waiters /\ call[e] = "parked"
                                         THEN "resumed" ELSE "unresumed"]
        /\ UNCHANGED <<store, process, sleeper, agent, requests, world>>
    BY <1>15 DEF FireOneshot, ReceiverAlive
  <2>5. row[e] = "resolved" /\ ledger[e] = verdict[p]
    BY <2>4
  <2>6. \A q \in Post : stage[q] = "resumed" /\ target[q] = e
                        => ~(e \in waiters /\ call[e] = "parked")
    OBVIOUS
  <2> HIDE DEF e
  <2>7. Provenance' /\ DownIsEmpty' /\ NoPhantomDecision'
    BY <2>1, <2>2, <2>3, <2>4
  <2>8. SlotsFresh' /\ VerdictIsDurable' /\ NoOrphanedTicket'
    BY <2>1, <2>2, <2>3, <2>4, <2>5
  <2>9. ResumedWaits' /\ ResumedIsTrue'
    <3>1. \A q \in Post \ {p} : stage'[q] = stage[q]
      BY <2>4
    <3>2. CASE e \in waiters /\ call[e] = "parked"
      <4>1. /\ stage'[p] = "resumed" /\ target[p] = e
            /\ sent' = [sent EXCEPT ![e] = verdict[p]]
            /\ \A q \in Post \ {p} : stage'[q] = "resumed" => target[q] # e
        BY <2>3, <2>4, <2>6, <3>1, <3>2 DEF e
      <4> QED
        BY <2>1, <2>4, <2>5, <3>1, <3>2, <4>1
    <3>3. CASE ~(e \in waiters /\ call[e] = "parked")
      <4>1. stage'[p] # "resumed" /\ sent' = sent
        BY <2>3, <2>4, <3>3
      <4> QED
        BY <2>1, <2>4, <3>1, <4>1
    <3> QED
      BY <3>2, <3>3
  <2> QED
    BY <2>2, <2>7, <2>8, <2>9
<1>16. ASSUME NEW p \in Post, PostFails(p) PROVE IInv'
  BY <1>16 DEF PostFails, StorageFault
<1>17. CASE Crash
  <2>1. GaugeMatchesWaiters'
    BY <1>17, FS_EmptySet DEF Crash
  <2>2. Provenance' /\ NoPhantomDecision'
    BY <1>17 DEF Crash
  <2>3. ResumedWaits' /\ ResumedIsTrue'
    BY <1>17 DEF Crash
  <2> QED
    BY <1>17, <2>1, <2>2, <2>3 DEF Crash
<1>18. CASE ReplayList
  <2>1. \A e \in listed' : row'[e] # "absent"
    BY <1>18 DEF ReplayList
  <2> QED
    BY <1>18, <2>1 DEF ReplayList
<1>19. CASE ReplayReattach
  <2>1. GaugeMatchesWaiters'
    BY <1>19 DEF ReplayReattach, ReattachSlots
  <2>2. \A e \in waiters' : row[e] # "absent" /\ sent[e] = "nothing" /\ call[e] \in CallEnded
    BY <1>19 DEF ReplayReattach, ReattachSlots
  <2> QED
    BY <1>19, <2>1, <2>2 DEF ReplayReattach, ReattachSlots
<1>20. CASE Tick
  BY <1>20 DEF Tick
<1>21. CASE UNCHANGED vars
  BY <1>21 DEF vars
<1> QED
  BY <1>1, <1>2, <1>3, <1>4, <1>5, <1>6, <1>7, <1>8, <1>9, <1>10, <1>11, <1>12, <1>13,
     <1>14, <1>15, <1>16, <1>17, <1>18, <1>19, <1>20, <1>21
     DEF Next, Loop, Sleeper, Operator, Boot

THEOREM Invariance == Spec => []IInv
<1> QED BY InvInit, InvStep, PTL DEF Spec

(* No verdict takes effect before it is durable: a tool runs only after    *)
(* its "allow" is in the ledger and in the resolved row.                   *)
THEOREM VerdictDurable == Spec => []VerdictIsDurable
<1> QED BY Invariance, PTL DEF IInv

(* A parked call always has a slot that will be fired, or a value.         *)
THEOREM NoTicketOrphaned == Spec => []NoOrphanedTicket
<1> QED BY Invariance, PTL DEF IInv

(* The suspended-loops gauge is the size of the waiter map.                *)
THEOREM GaugeExact == Spec => []GaugeMatchesWaiters
<1> QED BY Invariance, PTL DEF IInv

(* At most one operator is told "resumed", and is told the truth.          *)
THEOREM ResumedTrue == Spec => []ResumedIsTrue
<1> QED BY Invariance, PTL DEF IInv

(* No decision without an escalation, no resolved row without a decision.  *)
THEOREM NoPhantom == Spec => []NoPhantomDecision
<1> QED BY Invariance, PTL DEF IInv

-----------------------------------------------------------------------------
(* Action properties *)

(* Only InsertPending, Terminalise and PersistVerdict write a row, only    *)
(* RecordLedger the ledger; each is guarded by what was there.             *)
LEMMA RowSteps ==
  IInv /\ [Next]_vars =>
    \A e \in Esc :
      /\ \/ row'[e] = row[e]
         \/ row[e] = "absent" /\ row'[e] = "pending"
         \/ row[e] = "pending" /\ row'[e] = "expired" /\ ~(now < expires[e])
         \/ row[e] = "pending" /\ row'[e] = "resolved" /\ now < expires[e]
      /\ \/ ledger'[e] = ledger[e]
         \/ ledger[e] = "none"
<1> SUFFICES ASSUME IInv, [Next]_vars, NEW f \in Esc
             PROVE  /\ \/ row'[f] = row[f]
                       \/ row[f] = "absent" /\ row'[f] = "pending"
                       \/ row[f] = "pending" /\ row'[f] = "expired" /\ ~(now < expires[f])
                       \/ row[f] = "pending" /\ row'[f] = "resolved" /\ now < expires[f]
                    /\ ledger'[f] = ledger[f] \/ ledger[f] = "none"
  OBVIOUS
<1> USE DEF IInv, TypeOK, store
<1>1. ASSUME NEW e \in Esc, InsertPending(e)
      PROVE  row[e] = "absent" /\ row' = [row EXCEPT ![e] = "pending"] /\ ledger' = ledger
  BY <1>1 DEF InsertPending, MoveCall, Provenance
<1>2. ASSUME NEW e \in Esc, SleeperTerminalise(e)
      PROVE  /\ ~(now < expires[e]) /\ ledger' = ledger
             /\ \/ row' = row
                \/ row[e] = "pending" /\ row' = [row EXCEPT ![e] = "expired"]
  BY <1>2 DEF SleeperTerminalise, Terminalise, Unexpired
<1>3. ASSUME NEW p \in Post, PersistVerdict(p)
      PROVE  /\ ledger' = ledger
             /\ \/ row' = row
                \/ /\ row[target[p]] = "pending" /\ now < expires[target[p]]
                   /\ row' = [row EXCEPT ![target[p]] = "resolved"]
  BY <1>3 DEF PersistVerdict, DecisionMatches, Unexpired
<1>4. ASSUME NEW p \in Post, RecordLedger(p)
      PROVE  /\ row' = row
             /\ \/ ledger' = ledger
                \/ /\ ledger[target[p]] = "none"
                   /\ ledger' = [ledger EXCEPT ![target[p]] = verdict[p]]
  BY <1>4 DEF RecordLedger
<1>5. CASE UNCHANGED <<row, ledger>>
  BY <1>5
<1>6. ASSUME NEW e \in Esc, CheckWithArgs(e) PROVE UNCHANGED <<row, ledger>>
  BY <1>6 DEF CheckWithArgs
<1>7. ASSUME NEW e \in Esc,
             \/ GateFailsClosed(e) \/ InsertPendingFails(e) \/ InstallWaiter(e)
             \/ AwaitCancelled(e) \/ AwaitVerdict(e) \/ AwaitDeadline(e)
             \/ CancelTurn(e) \/ SleeperFire(e)
      PROVE  UNCHANGED <<row, ledger>>
  BY <1>7 DEF GateFailsClosed, InsertPendingFails, InstallWaiter, AwaitCancelled,
              AwaitVerdict, AwaitDeadline, CancelTurn, SleeperFire
<1>8. ASSUME NEW p \in Post, Preflight(p) \/ FireOneshot(p) \/ PostFails(p)
      PROVE  UNCHANGED <<row, ledger>>
  BY <1>8 DEF Preflight, FireOneshot, PostFails
<1>9. ASSUME Crash \/ ReplayList \/ ReplayReattach \/ Tick \/ UNCHANGED vars
      PROVE  UNCHANGED <<row, ledger>>
  BY <1>9 DEF Crash, ReplayList, ReplayReattach, Tick, vars
<1>10. CASE \E e \in Esc : InsertPending(e) \/ SleeperTerminalise(e)
  BY <1>1, <1>2, <1>10
<1>11. CASE \E p \in Post : PersistVerdict(p) \/ RecordLedger(p)
  BY <1>3, <1>4, <1>11
<1> QED
  BY <1>5, <1>6, <1>7, <1>8, <1>9, <1>10, <1>11
     DEF Next, Loop, Sleeper, Operator, Boot

(* Resolved and expired rows, and recorded decisions, never change again.  *)
THEOREM TerminalFinal == Spec => TerminalIsFinal
<1>1. IInv /\ [Next]_vars =>
        [\A e \in Esc : /\ row[e] \in {"resolved", "expired"} => row'[e] = row[e]
                        /\ ledger[e] # "none" => ledger'[e] = ledger[e]]_vars
  BY RowSteps
<1> QED
  BY <1>1, Invariance, PTL DEF Spec, TerminalIsFinal

(* Decisions are accepted only before the deadline, sweeps only after it.  *)
THEOREM DeadlinesHonoured == Spec => DeadlineHonoured
<1>1. IInv /\ [Next]_vars =>
        [\A e \in Esc :
           /\ row[e] # "resolved" /\ row'[e] = "resolved" => now < expires[e]
           /\ row[e] # "expired" /\ row'[e] = "expired" => now >= expires[e]]_vars
  BY RowSteps DEF IInv, TypeOK
<1> QED
  BY <1>1, Invariance, PTL DEF Spec, DeadlineHonoured

-----------------------------------------------------------------------------
(* Refinement *)

OutcomeOf(c) ==
  CASE c = "dispatched" -> "released"
    [] c = "denied"     -> "denied"
    [] c \in CallEnded \ {"dispatched", "denied"} -> "withdrawn"
    [] OTHER -> "open"

LEMMA OutcomePointwise ==
  /\ outcomeBar  = [e \in Esc |-> OutcomeOf(call[e])]
  /\ outcomeBar' = [e \in Esc |-> OutcomeOf(call'[e])]
BY DEF outcomeBar, OutcomeOf

(* One call ends without a verdict: a Withdraw of that call.               *)
LEMMA WithdrawOne ==
  ASSUME NEW e \in Esc, NEW to \in {"timedout", "cancelled", "refused"}, TypeOK,
         call[e] \notin CallEnded, call' = [call EXCEPT ![e] = to],
         ledger' = ledger
  PROVE  OV!Withdraw({e})
BY OutcomePointwise DEF OutcomeOf, OV!Withdraw, CallEnded, CallStatus, TypeOK

LEMMA RefineStep == IInv /\ [Next]_vars => [OV!Next]_(OV!vvars)
<1> SUFFICES ASSUME IInv, [Next]_vars PROVE [OV!Next]_(OV!vvars)
  OBVIOUS
<1> USE DEF IInv
<1>0. TypeOK
  OBVIOUS
<1>1. ASSUME UNCHANGED <<call, ledger>> PROVE UNCHANGED OV!vvars
  BY <1>1, OutcomePointwise DEF OV!vvars
<1>2. ASSUME NEW e \in Esc, OV!Withdraw({e}) PROVE OV!Next
  BY <1>2 DEF OV!Next
<1>3. ASSUME NEW e \in Esc, NEW from \in {"idle", "minted", "persisted"},
             NEW to \in {"minted", "persisted", "parked"},
             MoveCall(e, from, to), ledger' = ledger
      PROVE  UNCHANGED OV!vvars
  BY <1>3, OutcomePointwise DEF MoveCall, OutcomeOf, CallEnded, OV!vvars, TypeOK
<1>4. ASSUME NEW e \in Esc, CheckWithArgs(e) \/ InsertPending(e) \/ InstallWaiter(e)
      PROVE  UNCHANGED OV!vvars
  BY <1>3, <1>4 DEF CheckWithArgs, InsertPending, InstallWaiter, store
<1>5. ASSUME NEW e \in Esc, GateFailsClosed(e) \/ InsertPendingFails(e)
                            \/ AwaitCancelled(e) \/ AwaitDeadline(e)
      PROVE  OV!Withdraw({e})
  BY <1>0, <1>5, WithdrawOne
     DEF GateFailsClosed, InsertPendingFails, AwaitCancelled, AwaitDeadline,
         MoveCall, store, CallEnded
<1>6. ASSUME NEW e \in Esc, AwaitVerdict(e) PROVE OV!Next
  <2>1. /\ call[e] = "parked" /\ call' = [call EXCEPT ![e] = CallAfter(sent[e])]
        /\ ledger' = ledger
        /\ sent[e] \in {"allow", "deny", "timeout"}
    BY <1>0, <1>6 DEF AwaitVerdict, MoveCall, store, TypeOK, Verdict
  <2>2. CASE sent[e] = "timeout"
    BY <1>0, <1>2, <2>1, <2>2, WithdrawOne DEF CallAfter, CallEnded
  <2>3. CASE sent[e] = "allow"
    <3>1. call' = [call EXCEPT ![e] = "dispatched"] /\ ledger[e] = "allow"
      BY <2>1, <2>3 DEF CallAfter, VerdictIsDurable, Verdict
    <3>2. OV!Release(e)
      BY <1>0, <2>1, <3>1, OutcomePointwise
         DEF OV!Release, OutcomeOf, CallEnded, TypeOK
    <3> QED BY <3>2 DEF OV!Next
  <2>4. CASE sent[e] = "deny"
    <3>1. call' = [call EXCEPT ![e] = "denied"] /\ ledger[e] = "deny"
      BY <2>1, <2>4 DEF CallAfter, VerdictIsDurable, Verdict
    <3>2. OV!Deny(e)
      BY <1>0, <2>1, <3>1, OutcomePointwise
         DEF OV!Deny, OutcomeOf, CallEnded, TypeOK
    <3> QED BY <3>2 DEF OV!Next
  <2> QED BY <2>1, <2>2, <2>3, <2>4
<1>7. ASSUME NEW e \in Esc, CancelTurn(e) \/ SleeperTerminalise(e) \/ SleeperFire(e)
      PROVE  UNCHANGED <<call, ledger>>
  BY <1>7 DEF CancelTurn, SleeperTerminalise, SleeperFire, agent, store
<1>8. ASSUME NEW p \in Post, Preflight(p) \/ PersistVerdict(p) \/ FireOneshot(p)
                             \/ PostFails(p)
      PROVE  UNCHANGED <<call, ledger>>
  BY <1>8 DEF Preflight, PersistVerdict, FireOneshot, PostFails, agent, store
<1>9. ASSUME NEW p \in Post, RecordLedger(p) PROVE OV!Next \/ UNCHANGED OV!vvars
  <2>1. call' = call /\ target[p] \in Esc /\ verdict[p] \in {"allow", "deny"}
    BY <1>0, <1>9 DEF RecordLedger, agent, TypeOK, Verdict
  <2>2. CASE ledger' = ledger
    BY <1>1, <2>1, <2>2
  <2>3. CASE ledger[target[p]] = "none"
             /\ ledger' = [ledger EXCEPT ![target[p]] = verdict[p]]
    <3>1. OV!Decide(target[p], verdict[p])
      BY <2>1, <2>3, OutcomePointwise DEF OV!Decide
    <3> QED BY <2>1, <3>1 DEF OV!Next
  <2> QED BY <1>9, <2>2, <2>3 DEF RecordLedger
<1>10. ASSUME Crash PROVE OV!Next
  <2> DEFINE W == {e \in Esc : call[e] \notin CallEnded \cup {"idle"}}
  <2>1. OV!Withdraw(W)
    BY <1>0, <1>10, OutcomePointwise
       DEF Crash, OV!Withdraw, OutcomeOf, CallEnded, CallStatus, TypeOK, store
  <2> QED BY <2>1 DEF OV!Next
<1>11. ASSUME ReplayList \/ ReplayReattach \/ Tick \/ UNCHANGED vars
       PROVE  UNCHANGED <<call, ledger>>
  BY <1>11 DEF ReplayList, ReplayReattach, Tick, vars, agent, store
<1> QED
  BY <1>1, <1>2, <1>4, <1>5, <1>6, <1>7, <1>8, <1>9, <1>10, <1>11
     DEF Next, Loop, Sleeper, Operator, Boot

(* Every behaviour of the protocol is one that OperatorVerdict allows.     *)
THEOREM Refinement == Spec => ImplementsOperatorVerdict
<1>1. Init => OV!Init
  BY OutcomePointwise DEF Init, OV!Init, OutcomeOf, CallEnded
<1> QED
  BY <1>1, RefineStep, Invariance, PTL DEF Spec, OV!Spec, ImplementsOperatorVerdict
=============================================================================
