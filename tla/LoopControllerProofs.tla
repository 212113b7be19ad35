------------------------ MODULE LoopControllerProofs ------------------------
(***************************************************************************)
(* The safety of LoopController for any number of loops, drivers and       *)
(* overlapping requests, and any number of faults, drops and crashes.      *)
(*                                                                         *)
(* That two drivers never tick one loop does not follow from the map of    *)
(* drivers: cancel empties an entry while its driver still runs.  It       *)
(* follows from the rows.  A driver is armed only by a request that just   *)
(* made the row active, or at boot; a row becomes active only from paused  *)
(* or from nothing; and a paused row has no driver that still drives.      *)
(* Ownership states that argument, and the other invariants rest on it.    *)
(* The second half of the module adds what holds while no two requests are *)
(* at work on the same loop (Apart).                                       *)
(***************************************************************************)
EXTENDS LoopController, TLAPS

(* A request that has moved a row to active and is about to arm a driver.  *)
Arming(q) == stage[q] \in {"inserted", "resumed"}

(* A driver, or a request past its first write, is about some loop.        *)
Attached ==
  /\ \A d \in Driver : pc[d] = "free" <=> home[d] = NoLoop
  /\ \A q \in Req : stage[q] \in {"idle", "checked"} <=> subject[q] = NoLoop

(* Whoever arms a loop next is alone with it: no second arming request, no *)
(* driver that still drives; a paused row has neither, nor an absent one.  *)
Ownership ==
  /\ \A q \in Req : Arming(q) =>
       /\ \A d \in Driver : home[d] = subject[q] => ~Driving(d)
       /\ \A p \in Req : Arming(p) /\ subject[p] = subject[q] => p = q
       /\ status[subject[q]] \notin {"absent", "paused"}
  /\ \A d \in Driver : Driving(d) => status[home[d]] \notin {"absent", "paused"}

(* A loop without a row is unknown to the map, the drivers, the requests;  *)
(* a loop just inserted has no driver yet.                                 *)
NewIsUnknown ==
  /\ \A l \in Loop : status[l] = "absent" =>
       /\ armed[l] = NoDriver
       /\ \A d \in Driver : home[d] # l
       /\ \A q \in Req : subject[q] # l
  /\ \A q \in Req : stage[q] = "inserted" =>
       /\ armed[subject[q]] = NoDriver
       /\ \A d \in Driver : home[d] # subject[q]

(* Only the drivers of terminal rows are told to stop. *)
StoppedIsOver ==
  /\ \A q \in Req : stage[q] = "terminalised" => status[subject[q]] \in Terminal
  /\ \A d \in stopped : home[d] \in Loop /\ status[home[d]] \in Terminal

(* Nothing of a dead process survives into the boot replay. *)
BootIsEmpty ==
  boot => /\ \A d \in Driver : pc[d] = "free"
          /\ \A q \in Req : stage[q] = "idle"
          /\ \A l \in Loop : armed[l] = NoDriver

(* The agent's own end or pause comes with a clean failure count. *)
BreakerInv ==
  /\ BreakerHolds
  /\ \A d \in Driver : pc[d] \in {"countDone", "countPause"} => fails[d] = 0

(* After the late tick of a terminal loop nobody is left to fire another.  *)
LateInv ==
  \A l \in Loop : late[l] > 0 =>
    /\ late[l] = 1
    /\ status[l] \in Terminal
    /\ \A q \in Req : ~(Arming(q) /\ subject[q] = l)
    /\ \A d \in Driver : home[d] = l => pc[d] \notin {"gate", "sleep", "starting"}

Tenure == /\ Attached
          /\ Ownership
          /\ NewIsUnknown
          /\ StoppedIsOver
          /\ BootIsEmpty
          /\ SlotIsTrue
          /\ SoleTicker

IInv == /\ TypeOK
        /\ Tenure
        /\ OneLiveLoop
        /\ BreakerInv
        /\ LateInv

-----------------------------------------------------------------------------
(* Type correctness: with Attached, which says that a request past its     *)
(* first write names a loop.                                               *)

LEMMA EndingIsTerminal ==
  DOMAIN Ending \subseteq Places /\ \A p \in DOMAIN Ending : Ending[p] \in Terminal
  BY DEF Ending, Places, Terminal

LEMMA CountUpType ==
  ASSUME NEW f \in [Loop -> Nat], NEW l \in Loop, NEW top \in Nat
  PROVE  CountUp(f, l, top) \in [Loop -> Nat]
  BY DEF CountUp

LEMMA TypeInit == Init => TypeOK /\ Attached
<1> SUFFICES ASSUME Init PROVE TypeOK /\ Attached
  OBVIOUS
<1>1. 0 \in Nat /\ "absent" \in Status /\ "free" \in Places /\ "idle" \in Stages
  BY DEF Status, Places, Stages
<1> QED
  BY <1>1 DEF Init, TypeOK, Attached

LEMMA TypeStep == TypeOK /\ Attached /\ [Next]_vars => TypeOK'
<1> SUFFICES ASSUME TypeOK, Attached, [Next]_vars PROVE TypeOK'
  OBVIOUS
<1>0. /\ {"free", "gate", "sleep", "starting", "setup", "turn", "record",
          "countDone", "countPause", "pause", "leave", "exhaust", "finish",
          "gone", "fail"} = Places
      /\ \A p \in DOMAIN Ending : Ending[p] \in Terminal
  BY EndingIsTerminal DEF Places, Ending
<1>c. Saturation \in Nat
  BY ConstantsAssumption DEF TypeOK, Saturation
<1> USE <1>0 DEF TypeOK, Status, Live, Terminal, Stages,
            rows, drivers, turn, requests, limits, world, history
<1>1. ASSUME NEW d \in Driver, GateTrips(d) PROVE TypeOK'
  BY <1>1 DEF GateTrips, Goto
<1>2. ASSUME NEW d \in Driver, GatePasses(d) PROVE TypeOK'
  BY <1>2 DEF GatePasses, Goto, StorageFault
<1>3. ASSUME NEW d \in Driver, Wake(d) PROVE TypeOK'
  BY <1>3 DEF Wake, Goto
<1>4. ASSUME NEW d \in Driver, SeeCancel(d) PROVE TypeOK'
  BY <1>4 DEF SeeCancel, Goto
<1>5. ASSUME NEW d \in Driver, StartTick(d) PROVE TypeOK'
  <2>1. /\ fired' \in [Loop -> Nat]
        /\ late' \in [Loop -> Nat]
    <3>1. home[d] \in Loop
      BY <1>5 DEF StartTick, Attached
    <3>2. /\ CountUp(fired, home[d], Saturation) \in [Loop -> Nat]
          /\ CountUp(late, home[d], 2) \in [Loop -> Nat]
      BY <3>1, <1>c, CountUpType
    <3> QED
      BY <1>5, <3>2 DEF StartTick
  <2> QED
    BY <1>5, <2>1 DEF StartTick, Goto
<1>6. ASSUME NEW d \in Driver, SkipTick(d) PROVE TypeOK'
  BY <1>6 DEF SkipTick, TickCounted, Goto
<1>7. ASSUME NEW d \in Driver, SessionGone(d) PROVE TypeOK'
  BY <1>7 DEF SessionGone, Goto
<1>8. ASSUME NEW d \in Driver, TurnRefused(d) PROVE TypeOK'
  BY <1>8 DEF TurnRefused, TickCounted, Goto
<1>9. ASSUME NEW d \in Driver, TurnSpawned(d) PROVE TypeOK'
  BY <1>9 DEF TurnSpawned, Goto
<1>10. ASSUME NEW d \in Driver, TakeCompletion(d) PROVE TypeOK'
  BY <1>10 DEF TakeCompletion, TickCounted, Goto
<1>11. ASSUME NEW d \in Driver, PersistTickCount(d) PROVE TypeOK'
  BY <1>11 DEF PersistTickCount, RecordTick, Goto, StorageFault
<1>12. ASSUME NEW d \in Driver, TerminaliseRow(d) PROVE TypeOK'
  BY <1>12 DEF TerminaliseRow, Terminalise, Goto, StorageFault
<1>13. ASSUME NEW d \in Driver, PauseRow(d) PROVE TypeOK'
  BY <1>13 DEF PauseRow, Goto, StorageFault
<1>14. ASSUME NEW d \in Driver, Record(d) PROVE TypeOK'
  BY <1>14 DEF Record, RecordTick, AfterRecord, Goto, StorageFault
<1>15. ASSUME NEW d \in Driver, Leave(d) PROVE TypeOK'
  BY <1>15 DEF Leave, FreeSlot, Goto
<1>16. ASSUME NEW q \in Req, CreateRefused(q) PROVE TypeOK'
  BY <1>16 DEF CreateRefused, Advance, StorageFault
<1>17. ASSUME NEW q \in Req, CreateArm(q) PROVE TypeOK'
  BY <1>17 DEF CreateArm, Advance, Arm, Goto
<1>18. ASSUME NEW q \in Req, CancelStop(q) PROVE TypeOK'
  BY <1>18 DEF CancelStop, Advance, StopDriver, Attached
<1>19. ASSUME NEW q \in Req, ResumeStore(q) PROVE TypeOK'
  BY <1>19 DEF ResumeStore, Advance, Resumable
<1>20. ASSUME NEW q \in Req, ResumeRefused(q) PROVE TypeOK'
  BY <1>20 DEF ResumeRefused, Advance, StorageFault
<1>21. ASSUME NEW q \in Req, ResumeArm(q) PROVE TypeOK'
  BY <1>21 DEF ResumeArm, Advance, Arm, Goto
<1>22. ASSUME NEW q \in Req, CreateCheck(q) PROVE TypeOK'
  BY <1>22 DEF CreateCheck
<1>23. ASSUME NEW q \in Req, DropRequest(q) PROVE TypeOK'
  BY <1>23 DEF DropRequest, Advance
<1>24. ASSUME NEW q \in Req, NEW l \in Loop, CreateInsert(q, l) PROVE TypeOK'
  BY <1>24 DEF CreateInsert, Advance, NoLiveLoop
<1>25. ASSUME NEW q \in Req, NEW l \in Loop, CancelTerminalise(q, l) PROVE TypeOK'
  BY <1>25 DEF CancelTerminalise, Advance, Terminalise
<1>26. ASSUME NEW q \in Req, NEW l \in Loop, ResumeRead(q, l) PROVE TypeOK'
  BY <1>26 DEF ResumeRead, Advance
<1>27. CASE OperatorTurn
  BY <1>27 DEF OperatorTurn
<1>28. CASE TurnEnds
  BY <1>28 DEF TurnEnds
<1>29. CASE Crash
  BY <1>29 DEF Crash
<1>30. CASE Replay
  <2>0. /\ boot' = FALSE
        /\ UNCHANGED <<ran, streak, archived, turn, requests, limits, drops,
                       crashes, history>>
    BY <1>30 DEF Replay
  <2>1. \/ status' = status /\ armed' = armed /\ UNCHANGED drivers
              /\ faults' \in Nat
        \/ \E l \in Loop : /\ Arm(l, ran[l], streak[l])
                          /\ UNCHANGED <<status, faults>>
        \/ \E l \in Loop : /\ Terminalise(l, "budget_exhausted")
                          /\ UNCHANGED <<faults, armed, drivers>>
    BY <1>30 DEF Replay, ReplayRow, StorageFault
  <2>2. CASE status' = status /\ armed' = armed /\ UNCHANGED drivers
              /\ faults' \in Nat
    BY <2>0, <2>2
  <2>3. ASSUME NEW l \in Loop, Arm(l, ran[l], streak[l]), UNCHANGED <<status, faults>>
        PROVE  TypeOK'
    <3>1. /\ armed' \in [Loop -> Driver \cup {NoDriver}]
          /\ pc' \in [Driver -> Places]
          /\ home' \in [Driver -> Loop \cup {NoLoop}]
          /\ ticks' \in [Driver -> Nat]
          /\ fails' \in [Driver -> Nat]
          /\ UNCHANGED <<result, stopped>>
      BY <2>3 DEF Arm, Goto
    <3> QED
      BY <2>0, <2>3, <3>1
  <2>4. ASSUME NEW l \in Loop, Terminalise(l, "budget_exhausted"),
               UNCHANGED <<faults, armed, drivers>>
        PROVE  TypeOK'
    BY <2>0, <2>4 DEF Terminalise
  <2> QED
    BY <2>1, <2>2, <2>3, <2>4
<1>31. CASE Archive
  BY <1>31 DEF Archive
<1>32. ASSUME NEW l \in Loop, Expire(l) PROVE TypeOK'
  BY <1>32 DEF Expire
<1>33. CASE UNCHANGED vars
  BY <1>33 DEF vars
<1> QED
  BY <1>1, <1>2, <1>3, <1>4, <1>5, <1>6, <1>7, <1>8, <1>9, <1>10, <1>11,
     <1>12, <1>13, <1>14, <1>15, <1>16, <1>17, <1>18, <1>19, <1>20, <1>21,
     <1>22, <1>23, <1>24, <1>25, <1>26, <1>27, <1>28, <1>29, <1>30, <1>31,
     <1>32, <1>33
     DEF Next, DriverStep, RequestStep, NewRequest

LEMMA AttachedStep == TypeOK /\ Attached /\ [Next]_vars => Attached'
<1> SUFFICES ASSUME TypeOK, Attached, [Next]_vars PROVE Attached'
  OBVIOUS
<1>0. "free" \notin DOMAIN Ending
  BY DEF Ending
<1>a. /\ pc \in [Driver -> Places]
      /\ home \in [Driver -> Loop \cup {NoLoop}]
      /\ stage \in [Req -> Stages]
      /\ subject \in [Req -> Loop \cup {NoLoop}]
      /\ NoLoop \notin Loop
  BY ConstantsAssumption DEF TypeOK
<1> USE <1>0, <1>a DEF Attached, drivers, requests
<1>1. ASSUME NEW d \in Driver, GateTrips(d) PROVE Attached'
  BY <1>1 DEF GateTrips, Goto
<1>2. ASSUME NEW d \in Driver, GatePasses(d) PROVE Attached'
  BY <1>2 DEF GatePasses, Goto, StorageFault
<1>3. ASSUME NEW d \in Driver, Wake(d) PROVE Attached'
  BY <1>3 DEF Wake, Goto
<1>4. ASSUME NEW d \in Driver, SeeCancel(d) PROVE Attached'
  BY <1>4 DEF SeeCancel, Goto
<1>5. ASSUME NEW d \in Driver, StartTick(d) PROVE Attached'
  BY <1>5 DEF StartTick, Goto, CountUp, Saturation
<1>6. ASSUME NEW d \in Driver, SkipTick(d) PROVE Attached'
  BY <1>6 DEF SkipTick, TickCounted, Goto
<1>7. ASSUME NEW d \in Driver, SessionGone(d) PROVE Attached'
  BY <1>7 DEF SessionGone, Goto
<1>8. ASSUME NEW d \in Driver, TurnRefused(d) PROVE Attached'
  BY <1>8 DEF TurnRefused, TickCounted, Goto
<1>9. ASSUME NEW d \in Driver, TurnSpawned(d) PROVE Attached'
  BY <1>9 DEF TurnSpawned, Goto
<1>10. ASSUME NEW d \in Driver, TakeCompletion(d) PROVE Attached'
  BY <1>10 DEF TakeCompletion, TickCounted, Goto
<1>11. ASSUME NEW d \in Driver, PersistTickCount(d) PROVE Attached'
  BY <1>11 DEF PersistTickCount, RecordTick, Goto, StorageFault
<1>12. ASSUME NEW d \in Driver, TerminaliseRow(d) PROVE Attached'
  BY <1>12 DEF TerminaliseRow, Terminalise, Goto, StorageFault
<1>13. ASSUME NEW d \in Driver, PauseRow(d) PROVE Attached'
  BY <1>13 DEF PauseRow, Goto, StorageFault
<1>14. ASSUME NEW d \in Driver, Record(d) PROVE Attached'
  BY <1>14 DEF Record, RecordTick, AfterRecord, Goto, StorageFault
<1>15. ASSUME NEW d \in Driver, Leave(d) PROVE Attached'
  BY <1>15 DEF Leave, FreeSlot, Goto
<1>16. ASSUME NEW q \in Req, CreateRefused(q) PROVE Attached'
  BY <1>16 DEF CreateRefused, Advance, StorageFault
<1>17. ASSUME NEW q \in Req, CreateArm(q) PROVE Attached'
  BY <1>17 DEF CreateArm, Advance, Arm, Goto
<1>18. ASSUME NEW q \in Req, CancelStop(q) PROVE Attached'
  BY <1>18 DEF CancelStop, Advance, StopDriver
<1>19. ASSUME NEW q \in Req, ResumeStore(q) PROVE Attached'
  BY <1>19 DEF ResumeStore, Advance, Resumable
<1>20. ASSUME NEW q \in Req, ResumeRefused(q) PROVE Attached'
  BY <1>20 DEF ResumeRefused, Advance, StorageFault
<1>21. ASSUME NEW q \in Req, ResumeArm(q) PROVE Attached'
  BY <1>21 DEF ResumeArm, Advance, Arm, Goto
<1>22. ASSUME NEW q \in Req, CreateCheck(q) PROVE Attached'
  BY <1>22 DEF CreateCheck
<1>23. ASSUME NEW q \in Req, DropRequest(q) PROVE Attached'
  BY <1>23 DEF DropRequest, Advance
<1>24. ASSUME NEW q \in Req, NEW l \in Loop, CreateInsert(q, l) PROVE Attached'
  BY <1>24 DEF CreateInsert, Advance, NoLiveLoop
<1>25. ASSUME NEW q \in Req, NEW l \in Loop, CancelTerminalise(q, l) PROVE Attached'
  BY <1>25 DEF CancelTerminalise, Advance, Terminalise
<1>26. ASSUME NEW q \in Req, NEW l \in Loop, ResumeRead(q, l) PROVE Attached'
  BY <1>26 DEF ResumeRead, Advance
<1>27. CASE OperatorTurn
  BY <1>27 DEF OperatorTurn
<1>28. CASE TurnEnds
  BY <1>28 DEF TurnEnds
<1>29. CASE Crash
  BY <1>29 DEF Crash
<1>30. CASE Replay
  BY <1>30 DEF Replay, ReplayRow, Arm, Goto, Terminalise, StorageFault
<1>31. CASE Archive
  BY <1>31 DEF Archive
<1>32. ASSUME NEW l \in Loop, Expire(l) PROVE Attached'
  BY <1>32 DEF Expire
<1>33. CASE UNCHANGED vars
  BY <1>33 DEF vars
<1> QED
  BY <1>1, <1>2, <1>3, <1>4, <1>5, <1>6, <1>7, <1>8, <1>9, <1>10, <1>11,
     <1>12, <1>13, <1>14, <1>15, <1>16, <1>17, <1>18, <1>19, <1>20, <1>21,
     <1>22, <1>23, <1>24, <1>25, <1>26, <1>27, <1>28, <1>29, <1>30, <1>31,
     <1>32, <1>33
     DEF Next, DriverStep, RequestStep, NewRequest

(* Every variable keeps the shape the code gives it. *)
THEOREM TypeCorrect == Spec => []TypeOK
<1>1. TypeOK /\ Attached /\ [Next]_vars => (TypeOK /\ Attached)'
  BY TypeStep, AttachedStep
<1> QED
  BY TypeInit, <1>1, PTL DEF Spec

-----------------------------------------------------------------------------
(* The inductive invariant *)

LEMMA InvInit == Init => IInv
  BY TypeInit, ConstantsAssumption
  DEF Init, IInv, Tenure, Ownership, NewIsUnknown, StoppedIsOver, BootIsEmpty,
      SlotIsTrue, SoleTicker, OneLiveLoop, BreakerInv, BreakerHolds, LateInv,
      Arming, Driving, Ticking, Live

LEMMA InvStep == IInv /\ [Next]_vars => IInv'
<1> SUFFICES ASSUME TypeOK, Tenure, OneLiveLoop, BreakerInv, LateInv, [Next]_vars
             PROVE  IInv'
  BY DEF IInv
<1> DEFINE Safe == Tenure /\ OneLiveLoop /\ BreakerInv /\ LateInv
<1>t. TypeOK'
  BY TypeStep DEF Tenure
<1>0. /\ \A p \in DOMAIN Ending : Ending[p] \in Terminal /\ p \notin {"free", "leave"}
      /\ \A p \in DOMAIN Ending : p \notin {"gate", "sleep", "starting", "setup", "turn",
                                       "record", "countDone", "countPause"}
      /\ FailureLimit \in Nat \ {0}
      /\ status \in [Loop -> Status]
      /\ armed \in [Loop -> Driver \cup {NoDriver}]
      /\ pc \in [Driver -> Places]
      /\ home \in [Driver -> Loop \cup {NoLoop}]
      /\ stopped \subseteq Driver
      /\ stage \in [Req -> Stages]
      /\ subject \in [Req -> Loop \cup {NoLoop}]
      /\ boot \in BOOLEAN
      /\ streak \in [Loop -> Nat] /\ fails \in [Driver -> Nat] /\ late \in [Loop -> Nat]
      /\ NoLoop \notin Loop /\ NoDriver \notin Driver
  BY EndingIsTerminal, ConstantsAssumption DEF TypeOK, Ending
<1> USE <1>0 DEF rows, drivers, requests, history, Attached, Driving, Ticking, Arming,
                 Live, Terminal, Tenure, Ownership, NewIsUnknown, StoppedIsOver,
                 BootIsEmpty, SlotIsTrue, SoleTicker, OneLiveLoop, BreakerInv,
                 BreakerHolds, LateInv
<1>1. ASSUME NEW d \in Driver, GateTrips(d) PROVE Safe'
  BY <1>1 DEF GateTrips, Goto
<1>2. ASSUME NEW d \in Driver, GatePasses(d) PROVE Safe'
  BY <1>2 DEF GatePasses, Goto, StorageFault
<1>3. ASSUME NEW d \in Driver, Wake(d) PROVE Safe'
  BY <1>3 DEF Wake, Goto
<1>4. ASSUME NEW d \in Driver, SeeCancel(d) PROVE Safe'
  BY <1>4 DEF SeeCancel, Goto
<1>5. ASSUME NEW d \in Driver, StartTick(d) PROVE Safe'
  BY <1>5 DEF StartTick, Goto, CountUp, Saturation
<1>6. ASSUME NEW d \in Driver, SkipTick(d) PROVE Safe'
  BY <1>6 DEF SkipTick, TickCounted, Goto
<1>7. ASSUME NEW d \in Driver, SessionGone(d) PROVE Safe'
  BY <1>7 DEF SessionGone, Goto
<1>8. ASSUME NEW d \in Driver, TurnRefused(d) PROVE Safe'
  BY <1>8 DEF TurnRefused, TickCounted, Goto
<1>9. ASSUME NEW d \in Driver, TurnSpawned(d) PROVE Safe'
  BY <1>9 DEF TurnSpawned, Goto
<1>10. ASSUME NEW d \in Driver, TakeCompletion(d) PROVE Safe'
  BY <1>10 DEF TakeCompletion, TickCounted, Goto
<1>11. ASSUME NEW d \in Driver, PersistTickCount(d) PROVE Safe'
  BY <1>11 DEF PersistTickCount, RecordTick, Goto, StorageFault
<1>12. ASSUME NEW d \in Driver, TerminaliseRow(d) PROVE Safe'
  BY <1>12 DEF TerminaliseRow, Terminalise, Goto, StorageFault
<1>13. ASSUME NEW d \in Driver, PauseRow(d) PROVE Safe'
  BY <1>13, SMTT(30) DEF PauseRow, Goto, StorageFault
<1>14. ASSUME NEW d \in Driver, Record(d) PROVE Safe'
  BY <1>14 DEF Record, RecordTick, AfterRecord, Goto, StorageFault
<1>15. ASSUME NEW d \in Driver, Leave(d) PROVE Safe'
  BY <1>15 DEF Leave, FreeSlot, Goto
<1>16. ASSUME NEW q \in Req, CreateRefused(q) PROVE Safe'
  BY <1>16 DEF CreateRefused, Advance, StorageFault
<1>17. ASSUME NEW q \in Req, CreateArm(q) PROVE Safe'
  <2>1. Tenure'
    <3>1. Attached' /\ NewIsUnknown' /\ StoppedIsOver' /\ BootIsEmpty'
      BY <1>17 DEF CreateArm, Advance, Arm, Goto
    <3>2. Ownership'
      BY <1>17 DEF CreateArm, Advance, Arm, Goto
    <3>3. SlotIsTrue'
      BY <1>17 DEF CreateArm, Advance, Arm, Goto
    <3>4. SoleTicker'
      BY <1>17 DEF CreateArm, Advance, Arm, Goto
    <3> QED
      BY <3>1, <3>2, <3>3, <3>4
  <2>2. OneLiveLoop'
    <3>1. status' = status
      BY <1>17 DEF CreateArm
    <3> QED
      BY <3>1
  <2>3. BreakerInv'
    BY <1>17 DEF CreateArm, Advance, Arm, Goto
  <2>4. LateInv'
    BY <1>17 DEF CreateArm, Advance, Arm, Goto
  <2> QED
    BY <2>1, <2>2, <2>3, <2>4
<1>18. ASSUME NEW q \in Req, CancelStop(q) PROVE Safe'
  BY <1>18 DEF CancelStop, Advance, StopDriver
<1>19. ASSUME NEW q \in Req, ResumeStore(q) PROVE Safe'
  BY <1>19 DEF ResumeStore, Advance, Resumable
<1>20. ASSUME NEW q \in Req, ResumeRefused(q) PROVE Safe'
  BY <1>20 DEF ResumeRefused, Advance, StorageFault
<1>21. ASSUME NEW q \in Req, ResumeArm(q) PROVE Safe'
  <2>1. Tenure'
    <3>1. Attached' /\ NewIsUnknown' /\ StoppedIsOver' /\ BootIsEmpty'
      BY <1>21 DEF ResumeArm, Advance, Arm, Goto
    <3>2. Ownership'
      BY <1>21 DEF ResumeArm, Advance, Arm, Goto
    <3>3. SlotIsTrue'
      BY <1>21 DEF ResumeArm, Advance, Arm, Goto
    <3>4. SoleTicker'
      BY <1>21 DEF ResumeArm, Advance, Arm, Goto
    <3> QED
      BY <3>1, <3>2, <3>3, <3>4
  <2>2. OneLiveLoop'
    <3>1. status' = status
      BY <1>21 DEF ResumeArm
    <3> QED
      BY <3>1
  <2>3. BreakerInv'
    BY <1>21 DEF ResumeArm, Advance, Arm, Goto
  <2>4. LateInv'
    BY <1>21 DEF ResumeArm, Advance, Arm, Goto
  <2> QED
    BY <2>1, <2>2, <2>3, <2>4
<1>22. ASSUME NEW q \in Req, CreateCheck(q) PROVE Safe'
  BY <1>22 DEF CreateCheck
<1>23. ASSUME NEW q \in Req, DropRequest(q) PROVE Safe'
  BY <1>23 DEF DropRequest, Advance
<1>24. ASSUME NEW q \in Req, NEW l \in Loop, CreateInsert(q, l) PROVE Safe'
  BY <1>24 DEF CreateInsert, Advance, NoLiveLoop
<1>25. ASSUME NEW q \in Req, NEW l \in Loop, CancelTerminalise(q, l) PROVE Safe'
  BY <1>25 DEF CancelTerminalise, Advance, Terminalise
<1>26. ASSUME NEW q \in Req, NEW l \in Loop, ResumeRead(q, l) PROVE Safe'
  BY <1>26 DEF ResumeRead, Advance
<1>27. ASSUME OperatorTurn PROVE Safe'
  BY <1>27 DEF OperatorTurn
<1>28. ASSUME TurnEnds PROVE Safe'
  BY <1>28 DEF TurnEnds
<1>29. ASSUME Crash PROVE Safe'
  BY <1>29 DEF Crash
<1>30. ASSUME Replay PROVE Safe'
  BY <1>30 DEF Replay, ReplayRow, Arm, Goto, Terminalise, StorageFault
<1>31. ASSUME Archive PROVE Safe'
  BY <1>31 DEF Archive
<1>32. ASSUME NEW l \in Loop, Expire(l) PROVE Safe'
  BY <1>32 DEF Expire
<1>33. ASSUME UNCHANGED vars PROVE Safe'
  BY <1>33 DEF vars
<1>q. Safe'
  BY <1>1, <1>2, <1>3, <1>4, <1>5, <1>6, <1>7, <1>8, <1>9, <1>10, <1>11,
     <1>12, <1>13, <1>14, <1>15, <1>16, <1>17, <1>18, <1>19, <1>20, <1>21,
     <1>22, <1>23, <1>24, <1>25, <1>26, <1>27, <1>28, <1>29, <1>30, <1>31,
     <1>32, <1>33
     DEF Next, DriverStep, RequestStep, NewRequest
<1> QED
  BY <1>t, <1>q DEF IInv

THEOREM Invariance == Spec => []IInv
<1> QED BY InvInit, InvStep, PTL DEF Spec

(* At most one loop of a session is live. *)
THEOREM OneLive == Spec => []OneLiveLoop
<1>1. IInv => OneLiveLoop
  BY DEF IInv
<1> QED BY <1>1, Invariance, PTL

(* An entry of the driver map is never stale: it names a driver that runs, *)
(* and runs that loop, although an entry is removed by loop id by whoever  *)
(* leaves (DriverSlot::drop).  The converse fails when requests overlap: a *)
(* leaving driver may remove its successor's entry.                        *)
THEOREM SlotTrue == Spec => []SlotIsTrue
<1>1. IInv => SlotIsTrue
  BY DEF IInv, Tenure
<1> QED BY <1>1, Invariance, PTL

(* No two drivers tick one loop. *)
THEOREM SoleDriver == Spec => []SoleTicker
<1>1. IInv => SoleTicker
  BY DEF IInv, Tenure
<1> QED BY <1>1, Invariance, PTL

(* A terminal loop fires at most one more tick. *)
THEOREM LateTick == Spec => []LateTickBounded
<1>1. IInv => LateTickBounded
  BY DEF IInv, TypeOK, LateInv, LateTickBounded
<1> QED BY <1>1, Invariance, PTL

(* The failure breaker fires before a row or a driver passes the limit. *)
THEOREM Breaker == Spec => []BreakerHolds
<1>1. IInv => BreakerHolds
  BY DEF IInv, BreakerInv
<1> QED BY <1>1, Invariance, PTL

-----------------------------------------------------------------------------
(* What a step may never do *)

LEMMA TerminalStep ==
  IInv /\ [Next]_vars =>
    \A l \in Loop : status[l] \in Terminal =>
      /\ status'[l] = status[l]
      /\ ran'[l] = ran[l]
      /\ streak'[l] = streak[l]
<1> DEFINE Final == \A l \in Loop : status[l] \in Terminal =>
                      /\ status'[l] = status[l]
                      /\ ran'[l] = ran[l]
                      /\ streak'[l] = streak[l]
<1> SUFFICES ASSUME IInv, [Next]_vars PROVE Final
  OBVIOUS
<1>0. /\ status \in [Loop -> Status]
      /\ ran \in [Loop -> Nat]
      /\ streak \in [Loop -> Nat]
      /\ home \in [Driver -> Loop \cup {NoLoop}]
      /\ subject \in [Req -> Loop \cup {NoLoop}]
  BY DEF IInv, TypeOK
<1> USE <1>0 DEF Live, Terminal, rows
<1>1. ASSUME NEW d \in Driver, GateTrips(d) PROVE Final
  BY <1>1 DEF GateTrips, Goto
<1>2. ASSUME NEW d \in Driver, GatePasses(d) PROVE Final
  BY <1>2 DEF GatePasses, Goto, StorageFault
<1>3. ASSUME NEW d \in Driver, Wake(d) PROVE Final
  BY <1>3 DEF Wake, Goto
<1>4. ASSUME NEW d \in Driver, SeeCancel(d) PROVE Final
  BY <1>4 DEF SeeCancel, Goto
<1>5. ASSUME NEW d \in Driver, StartTick(d) PROVE Final
  BY <1>5 DEF StartTick, Goto, CountUp, Saturation
<1>6. ASSUME NEW d \in Driver, SkipTick(d) PROVE Final
  BY <1>6 DEF SkipTick, TickCounted, Goto
<1>7. ASSUME NEW d \in Driver, SessionGone(d) PROVE Final
  BY <1>7 DEF SessionGone, Goto
<1>8. ASSUME NEW d \in Driver, TurnRefused(d) PROVE Final
  BY <1>8 DEF TurnRefused, TickCounted, Goto
<1>9. ASSUME NEW d \in Driver, TurnSpawned(d) PROVE Final
  BY <1>9 DEF TurnSpawned, Goto
<1>10. ASSUME NEW d \in Driver, TakeCompletion(d) PROVE Final
  BY <1>10 DEF TakeCompletion, TickCounted, Goto
<1>11. ASSUME NEW d \in Driver, PersistTickCount(d) PROVE Final
  BY <1>11 DEF PersistTickCount, RecordTick, Goto, StorageFault
<1>12. ASSUME NEW d \in Driver, TerminaliseRow(d) PROVE Final
  BY <1>12 DEF TerminaliseRow, Terminalise, Goto, StorageFault
<1>13. ASSUME NEW d \in Driver, PauseRow(d) PROVE Final
  BY <1>13 DEF PauseRow, Goto, StorageFault
<1>14. ASSUME NEW d \in Driver, Record(d) PROVE Final
  BY <1>14 DEF Record, RecordTick, AfterRecord, Goto, StorageFault
<1>15. ASSUME NEW d \in Driver, Leave(d) PROVE Final
  BY <1>15 DEF Leave, FreeSlot, Goto
<1>16. ASSUME NEW q \in Req, CreateRefused(q) PROVE Final
  BY <1>16 DEF CreateRefused, Advance, StorageFault
<1>17. ASSUME NEW q \in Req, CreateArm(q) PROVE Final
  BY <1>17 DEF CreateArm, Advance, Arm, Goto
<1>18. ASSUME NEW q \in Req, CancelStop(q) PROVE Final
  BY <1>18 DEF CancelStop, Advance, StopDriver
<1>19. ASSUME NEW q \in Req, ResumeStore(q) PROVE Final
  BY <1>19 DEF ResumeStore, Advance, Resumable
<1>20. ASSUME NEW q \in Req, ResumeRefused(q) PROVE Final
  BY <1>20 DEF ResumeRefused, Advance, StorageFault
<1>21. ASSUME NEW q \in Req, ResumeArm(q) PROVE Final
  BY <1>21 DEF ResumeArm, Advance, Arm, Goto
<1>22. ASSUME NEW q \in Req, CreateCheck(q) PROVE Final
  BY <1>22 DEF CreateCheck
<1>23. ASSUME NEW q \in Req, DropRequest(q) PROVE Final
  BY <1>23 DEF DropRequest, Advance
<1>24. ASSUME NEW q \in Req, NEW l \in Loop, CreateInsert(q, l) PROVE Final
  BY <1>24 DEF CreateInsert, Advance, NoLiveLoop
<1>25. ASSUME NEW q \in Req, NEW l \in Loop, CancelTerminalise(q, l) PROVE Final
  BY <1>25 DEF CancelTerminalise, Advance, Terminalise
<1>26. ASSUME NEW q \in Req, NEW l \in Loop, ResumeRead(q, l) PROVE Final
  BY <1>26 DEF ResumeRead, Advance
<1>27. ASSUME OperatorTurn PROVE Final
  BY <1>27 DEF OperatorTurn
<1>28. ASSUME TurnEnds PROVE Final
  BY <1>28 DEF TurnEnds
<1>29. ASSUME Crash PROVE Final
  BY <1>29 DEF Crash
<1>30. ASSUME Replay PROVE Final
  BY <1>30 DEF Replay, ReplayRow, Arm, Goto, Terminalise, StorageFault
<1>31. ASSUME Archive PROVE Final
  BY <1>31 DEF Archive
<1>32. ASSUME NEW l \in Loop, Expire(l) PROVE Final
  BY <1>32 DEF Expire
<1>33. ASSUME UNCHANGED vars PROVE Final
  BY <1>33 DEF vars
<1> QED
  BY <1>1, <1>2, <1>3, <1>4, <1>5, <1>6, <1>7, <1>8, <1>9, <1>10, <1>11,
     <1>12, <1>13, <1>14, <1>15, <1>16, <1>17, <1>18, <1>19, <1>20, <1>21,
     <1>22, <1>23, <1>24, <1>25, <1>26, <1>27, <1>28, <1>29, <1>30, <1>31,
     <1>32, <1>33
     DEF Next, DriverStep, RequestStep, NewRequest

(* No step revives a terminal row or alters its counters: every write of   *)
(* the store is guarded by the row's status.                               *)
THEOREM TerminalFinal == Spec => TerminalIsFinal
<1>1. IInv /\ [Next]_vars =>
        [\A l \in Loop : status[l] \in Terminal =>
           /\ status'[l] = status[l]
           /\ ran'[l] = ran[l]
           /\ streak'[l] = streak[l]]_vars
  BY TerminalStep
<1> QED
  BY <1>1, Invariance, PTL DEF Spec, TerminalIsFinal

LEMMA StrandedStep ==
  IInv /\ [Next]_vars =>
    \A l \in Loop : ~Stranded(l) /\ Stranded(l)' =>
      faults' > faults \/ drops' > drops \/ Overtaken(l)
<1> DEFINE Explained == \A l \in Loop : ~Stranded(l) /\ Stranded(l)' =>
                          faults' > faults \/ drops' > drops \/ Overtaken(l)
<1> SUFFICES ASSUME IInv, [Next]_vars PROVE Explained
  OBVIOUS
<1>0. /\ \A p \in DOMAIN Ending : Ending[p] # "active" /\ p \notin {"free", "leave"}
      /\ status \in [Loop -> Status]
      /\ armed \in [Loop -> Driver \cup {NoDriver}]
      /\ pc \in [Driver -> Places]
      /\ home \in [Driver -> Loop \cup {NoLoop}]
      /\ stage \in [Req -> Stages]
      /\ subject \in [Req -> Loop \cup {NoLoop}]
      /\ faults \in Nat /\ drops \in Nat
      /\ NoLoop \notin Loop /\ NoDriver \notin Driver
  BY ConstantsAssumption DEF IInv, TypeOK, Ending
<1>a. /\ Attached
      /\ \A q \in Req : stage[q] = "inserted" => armed[subject[q]] = NoDriver
      /\ \A q \in Req : stage[q] = "terminalised" => status[subject[q]] # "active"
      /\ \A d \in stopped : home[d] \in Loop /\ status[home[d]] # "active"
      /\ BootIsEmpty
      /\ SlotIsTrue
      /\ OneLiveLoop
  BY DEF IInv, Tenure, NewIsUnknown, StoppedIsOver, Terminal
<1> USE <1>0, <1>a DEF Stranded, Driving, Overtaken, rows, drivers, requests, world,
                       Attached, SlotIsTrue, BootIsEmpty, OneLiveLoop, Live
<1>1. ASSUME NEW d \in Driver, GateTrips(d) PROVE Explained
  BY <1>1 DEF GateTrips, Goto
<1>2. ASSUME NEW d \in Driver, GatePasses(d) PROVE Explained
  BY <1>2 DEF GatePasses, Goto, StorageFault
<1>3. ASSUME NEW d \in Driver, Wake(d) PROVE Explained
  BY <1>3 DEF Wake, Goto
<1>4. ASSUME NEW d \in Driver, SeeCancel(d) PROVE Explained
  BY <1>4 DEF SeeCancel, Goto
<1>5. ASSUME NEW d \in Driver, StartTick(d) PROVE Explained
  BY <1>5 DEF StartTick, Goto, CountUp, Saturation
<1>6. ASSUME NEW d \in Driver, SkipTick(d) PROVE Explained
  BY <1>6 DEF SkipTick, TickCounted, Goto
<1>7. ASSUME NEW d \in Driver, SessionGone(d) PROVE Explained
  BY <1>7 DEF SessionGone, Goto
<1>8. ASSUME NEW d \in Driver, TurnRefused(d) PROVE Explained
  BY <1>8 DEF TurnRefused, TickCounted, Goto
<1>9. ASSUME NEW d \in Driver, TurnSpawned(d) PROVE Explained
  BY <1>9 DEF TurnSpawned, Goto
<1>10. ASSUME NEW d \in Driver, TakeCompletion(d) PROVE Explained
  BY <1>10 DEF TakeCompletion, TickCounted, Goto
<1>11. ASSUME NEW d \in Driver, PersistTickCount(d) PROVE Explained
  BY <1>11 DEF PersistTickCount, RecordTick, Goto, StorageFault
<1>12. ASSUME NEW d \in Driver, TerminaliseRow(d) PROVE Explained
  BY <1>12 DEF TerminaliseRow, Terminalise, Goto, StorageFault
<1>13. ASSUME NEW d \in Driver, PauseRow(d) PROVE Explained
  BY <1>13 DEF PauseRow, Goto, StorageFault
<1>14. ASSUME NEW d \in Driver, Record(d) PROVE Explained
  BY <1>14 DEF Record, RecordTick, AfterRecord, Goto, StorageFault
<1>15. ASSUME NEW d \in Driver, Leave(d) PROVE Explained
  BY <1>15 DEF Leave, FreeSlot, Goto
<1>16. ASSUME NEW q \in Req, CreateRefused(q) PROVE Explained
  BY <1>16 DEF CreateRefused, Advance, StorageFault
<1>17. ASSUME NEW q \in Req, CreateArm(q) PROVE Explained
  BY <1>17 DEF CreateArm, Advance, Arm, Goto
<1>18. ASSUME NEW q \in Req, CancelStop(q) PROVE Explained
  BY <1>18 DEF CancelStop, Advance, StopDriver
<1>19. ASSUME NEW q \in Req, ResumeStore(q) PROVE Explained
  BY <1>19 DEF ResumeStore, Advance, Resumable
<1>20. ASSUME NEW q \in Req, ResumeRefused(q) PROVE Explained
  BY <1>20 DEF ResumeRefused, Advance, StorageFault
<1>21. ASSUME NEW q \in Req, ResumeArm(q) PROVE Explained
  BY <1>21 DEF ResumeArm, Advance, Arm, Goto
<1>22. ASSUME NEW q \in Req, CreateCheck(q) PROVE Explained
  BY <1>22 DEF CreateCheck
<1>23. ASSUME NEW q \in Req, DropRequest(q) PROVE Explained
  BY <1>23 DEF DropRequest, Advance
<1>24. ASSUME NEW q \in Req, NEW l \in Loop, CreateInsert(q, l) PROVE Explained
  BY <1>24 DEF CreateInsert, Advance, NoLiveLoop
<1>25. ASSUME NEW q \in Req, NEW l \in Loop, CancelTerminalise(q, l) PROVE Explained
  BY <1>25 DEF CancelTerminalise, Advance, Terminalise
<1>26. ASSUME NEW q \in Req, NEW l \in Loop, ResumeRead(q, l) PROVE Explained
  BY <1>26 DEF ResumeRead, Advance
<1>27. ASSUME OperatorTurn PROVE Explained
  BY <1>27 DEF OperatorTurn
<1>28. ASSUME TurnEnds PROVE Explained
  BY <1>28 DEF TurnEnds
<1>29. ASSUME Crash PROVE Explained
  BY <1>29 DEF Crash
<1>30. ASSUME Replay PROVE Explained
  BY <1>30 DEF Replay, ReplayRow, Arm, Goto, Terminalise, StorageFault
<1>31. ASSUME Archive PROVE Explained
  BY <1>31 DEF Archive
<1>32. ASSUME NEW l \in Loop, Expire(l) PROVE Explained
  BY <1>32 DEF Expire
<1>33. ASSUME UNCHANGED vars PROVE Explained
  BY <1>33 DEF vars
<1> QED
  BY <1>1, <1>2, <1>3, <1>4, <1>5, <1>6, <1>7, <1>8, <1>9, <1>10, <1>11,
     <1>12, <1>13, <1>14, <1>15, <1>16, <1>17, <1>18, <1>19, <1>20, <1>21,
     <1>22, <1>23, <1>24, <1>25, <1>26, <1>27, <1>28, <1>29, <1>30, <1>31,
     <1>32, <1>33
     DEF Next, DriverStep, RequestStep, NewRequest

(* A loop is stranded only by a failed write, by a dropped request, or by  *)
(* a resume that overtakes the pausing driver.                             *)
THEOREM StrandedCauses == Spec => StrandedOnlyBy
<1>1. IInv /\ [Next]_vars =>
        [\A l \in Loop : ~Stranded(l) /\ Stranded(l)' =>
           faults' > faults \/ drops' > drops \/ Overtaken(l)]_vars
  BY StrandedStep
<1> QED
  BY <1>1, Invariance, PTL DEF Spec, StrandedOnlyBy

-----------------------------------------------------------------------------
(***************************************************************************)
(* Requests that keep apart                                                *)
(*                                                                         *)
(* Two overlapping requests on one loop can make a driver's counters       *)
(* stale, start a tick too many and leave a cancelled loop's driver        *)
(* running.  Requests on different loops cannot, nor can a request that    *)
(* was dropped: nobody touches a row between a request's read, its write   *)
(* and its arming, so a row about to be armed is active (Alone), it has no *)
(* driver at all (Manned), and the counters it is armed with are the row's *)
(* (Fresh).  The budget then follows by counting: a live row has at most   *)
(* one tick that is not yet in its count, and whatever loses that tick is  *)
(* a failed write or a crash (Budget).                                     *)
(***************************************************************************)

(* No two requests are at work on one loop. *)
Apart ==
  \A p, q \in Req : subject[p] = subject[q] /\ subject[p] # NoLoop => p = q

(* A row that is read to be resumed stays off, one about to be armed is    *)
(* active.                                                                 *)
Alone ==
  /\ \A q \in Req : stage[q] = "read" => status[subject[q]] # "active"
  /\ \A q \in Req : Arming(q) => status[subject[q]] = "active"

(* A loop has one driver at most, in the map unless it was told to stop.   *)
Manned ==
  /\ \A c, d \in Driver : home[c] = home[d] /\ home[c] # NoLoop => c = d
  /\ \A d \in Driver : home[d] # NoLoop => armed[home[d]] = d \/ d \in stopped

(* The counters a request is about to arm with are the row's.              *)
Fresh ==
  /\ CopyIsFresh
  /\ \A l \in Loop : status[l] = "absent" => ran[l] = 0 /\ streak[l] = 0
  /\ \A q \in Req : stage[q] = "inserted" => ran[subject[q]] = 0 /\ streak[subject[q]] = 0
  /\ \A q \in Req : stage[q] \in {"read", "resumed"} => snap[q] = ran[subject[q]]
  /\ \A q \in Req : stage[q] = "resumed" => streak[subject[q]] = 0

(* Turns that may not be counted in the row yet.                           *)
Uncounted(d) == pc[d] \in {"setup", "turn", "record", "countDone", "countPause", "fail"}

Lost == faults + crashes

Budget ==
  /\ BudgetHolds
  /\ \A l \in Loop : status[l] = "absent" => fired[l] = 0
  /\ \A l \in Loop : status[l] \in Live =>
       /\ fired[l] <= ran[l] + 1 + Lost
       /\ (\A d \in Driver : home[d] = l => ~Uncounted(d)) => fired[l] <= ran[l] + Lost
  /\ \A d \in Driver :
       /\ pc[d] \in {"sleep", "starting", "setup", "turn"} => ticks[d] < MaxTicks
       /\ pc[d] \in {"gate", "sleep", "starting"} => fired[home[d]] <= ticks[d] + Lost
       /\ pc[d] \in {"record", "countDone", "countPause"} /\ status[home[d]] \in Live =>
            fired[home[d]] <= ticks[d] + Lost

SInv == Alone /\ Manned /\ Fresh /\ Budget /\ CancelStopsDriver
-----------------------------------------------------------------------------
(* Who may touch a row between a request's steps. *)

LEMMA AloneStep ==
  Apart /\ Apart' /\ IInv /\ Alone /\ [Next]_vars => Alone'
<1> SUFFICES ASSUME Apart, Apart', IInv, Alone, [Next]_vars PROVE Alone'
  OBVIOUS
<1>t. /\ pc \in [Driver -> Places] /\ home \in [Driver -> Loop \cup {NoLoop}]
      /\ stage \in [Req -> Stages] /\ subject \in [Req -> Loop \cup {NoLoop}]
      /\ status \in [Loop -> Status] /\ armed \in [Loop -> Driver \cup {NoDriver}]
      /\ stopped \subseteq Driver /\ NoLoop \notin Loop /\ NoDriver \notin Driver
  BY ConstantsAssumption DEF TypeOK, IInv
<1>e. "free" \notin DOMAIN Ending /\ "leave" \notin DOMAIN Ending
      /\ \A p \in DOMAIN Ending : Ending[p] \in Terminal
  BY DEF Ending, Terminal
<1>s. /\ \A d \in Driver : (pc[d] = "free" <=> home[d] = NoLoop)
      /\ \A q \in Req : (stage[q] \in {"idle", "checked"} <=> subject[q] = NoLoop)
      /\ BootIsEmpty /\ Ownership /\ NewIsUnknown /\ StoppedIsOver /\ SlotIsTrue /\ SoleTicker
  BY DEF IInv, Tenure, Attached
<1> HIDE DEF IInv
<1> USE <1>t, <1>e, <1>s DEF Apart, Alone, Arming, Driving, drivers, requests, rows, turn, limits,
   world, history, BootIsEmpty, Ownership, NewIsUnknown, Terminal, Live
<1>1. ASSUME NEW d \in Driver, GateTrips(d) PROVE Alone'
  BY <1>1 DEF GateTrips, Goto
<1>2. ASSUME NEW d \in Driver, GatePasses(d) PROVE Alone'
  BY <1>2 DEF GatePasses, Goto, StorageFault
<1>3. ASSUME NEW d \in Driver, Wake(d) PROVE Alone'
  BY <1>3 DEF Wake, Goto
<1>4. ASSUME NEW d \in Driver, SeeCancel(d) PROVE Alone'
  BY <1>4 DEF SeeCancel, Goto
<1>5. ASSUME NEW d \in Driver, StartTick(d) PROVE Alone'
  BY <1>5 DEF StartTick, Goto, CountUp, Saturation
<1>6. ASSUME NEW d \in Driver, SkipTick(d) PROVE Alone'
  BY <1>6 DEF SkipTick, TickCounted, Goto
<1>7. ASSUME NEW d \in Driver, SessionGone(d) PROVE Alone'
  BY <1>7 DEF SessionGone, Goto
<1>8. ASSUME NEW d \in Driver, TurnRefused(d) PROVE Alone'
  BY <1>8 DEF TurnRefused, TickCounted, Goto
<1>9. ASSUME NEW d \in Driver, TurnSpawned(d) PROVE Alone'
  BY <1>9 DEF TurnSpawned, Goto
<1>10. ASSUME NEW d \in Driver, TakeCompletion(d) PROVE Alone'
  BY <1>10, SMTT(30) DEF TakeCompletion, TickCounted, Goto
<1>11. ASSUME NEW d \in Driver, PersistTickCount(d) PROVE Alone'
  BY <1>11 DEF PersistTickCount, RecordTick, Goto, StorageFault
<1>12. ASSUME NEW d \in Driver, TerminaliseRow(d) PROVE Alone'
  BY <1>12, SMTT(30) DEF TerminaliseRow, Terminalise, Goto, StorageFault
<1>13. ASSUME NEW d \in Driver, PauseRow(d) PROVE Alone'
  BY <1>13 DEF PauseRow, Goto, StorageFault
<1>14. ASSUME NEW d \in Driver, Record(d) PROVE Alone'
  BY <1>14 DEF Record, RecordTick, AfterRecord, Goto, StorageFault
<1>15. ASSUME NEW d \in Driver, Leave(d) PROVE Alone'
  BY <1>15 DEF Leave, FreeSlot, Goto
<1>16. ASSUME NEW q \in Req, CreateRefused(q) PROVE Alone'
  BY <1>16 DEF CreateRefused, Advance, StorageFault
<1>17. ASSUME NEW q \in Req, CreateArm(q) PROVE Alone'
  BY <1>17 DEF CreateArm, Advance, Arm, Goto
<1>18. ASSUME NEW q \in Req, CancelStop(q) PROVE Alone'
  BY <1>18 DEF CancelStop, Advance, StopDriver
<1>19. ASSUME NEW q \in Req, ResumeStore(q) PROVE Alone'
  BY <1>19 DEF ResumeStore, Advance, Resumable
<1>20. ASSUME NEW q \in Req, ResumeRefused(q) PROVE Alone'
  BY <1>20 DEF ResumeRefused, Advance, StorageFault
<1>21. ASSUME NEW q \in Req, ResumeArm(q) PROVE Alone'
  BY <1>21 DEF ResumeArm, Advance, Arm, Goto
<1>22. ASSUME NEW q \in Req, CreateCheck(q) PROVE Alone'
  BY <1>22 DEF CreateCheck
<1>23. ASSUME NEW q \in Req, DropRequest(q) PROVE Alone'
  BY <1>23 DEF DropRequest, Advance
<1>24. ASSUME NEW q \in Req, NEW l \in Loop, CreateInsert(q, l) PROVE Alone'
  BY <1>24 DEF CreateInsert, Advance, NoLiveLoop
<1>25. ASSUME NEW q \in Req, NEW l \in Loop, CancelTerminalise(q, l) PROVE Alone'
  BY <1>25 DEF CancelTerminalise, Advance, Terminalise
<1>26. ASSUME NEW q \in Req, NEW l \in Loop, ResumeRead(q, l) PROVE Alone'
  BY <1>26 DEF ResumeRead, Advance
<1>27. CASE OperatorTurn
  BY <1>27 DEF OperatorTurn
<1>28. CASE TurnEnds
  BY <1>28 DEF TurnEnds
<1>29. CASE Crash
  BY <1>29 DEF Crash
<1>30. CASE Replay
  BY <1>30 DEF Replay, ReplayRow, Arm, Goto, Terminalise, StorageFault
<1>31. CASE Archive
  BY <1>31 DEF Archive
<1>32. ASSUME NEW l \in Loop, Expire(l) PROVE Alone'
  BY <1>32 DEF Expire
<1>33. CASE UNCHANGED vars
  BY <1>33 DEF vars
<1> QED
  BY <1>1, <1>2, <1>3, <1>4, <1>5, <1>6, <1>7, <1>8, <1>9, <1>10, <1>11,
     <1>12, <1>13, <1>14, <1>15, <1>16, <1>17, <1>18, <1>19, <1>20, <1>21,
     <1>22, <1>23, <1>24, <1>25, <1>26, <1>27, <1>28, <1>29, <1>30, <1>31,
     <1>32, <1>33
     DEF Next, DriverStep, RequestStep, NewRequest

LEMMA MannedStep == Apart /\ Apart' /\ IInv /\ Alone /\ Manned /\ [Next]_vars => Manned'
<1> SUFFICES ASSUME Apart, Apart', IInv, Alone, Manned, [Next]_vars PROVE Manned'
  OBVIOUS
<1>t. /\ pc \in [Driver -> Places] /\ home \in [Driver -> Loop \cup {NoLoop}]
      /\ stage \in [Req -> Stages] /\ subject \in [Req -> Loop \cup {NoLoop}]
      /\ status \in [Loop -> Status] /\ armed \in [Loop -> Driver \cup {NoDriver}]
      /\ stopped \subseteq Driver /\ NoLoop \notin Loop /\ NoDriver \notin Driver
  BY ConstantsAssumption DEF TypeOK, IInv
<1>e. "free" \notin DOMAIN Ending /\ "leave" \notin DOMAIN Ending
      /\ \A p \in DOMAIN Ending : Ending[p] \in Terminal
  BY DEF Ending, Terminal
<1>s. /\ \A d \in Driver : (pc[d] = "free" <=> home[d] = NoLoop)
      /\ \A q \in Req : (stage[q] \in {"idle", "checked"} <=> subject[q] = NoLoop)
      /\ BootIsEmpty /\ Ownership /\ NewIsUnknown /\ StoppedIsOver /\ SlotIsTrue /\ SoleTicker
  BY DEF IInv, Tenure, Attached
<1> HIDE DEF IInv
<1> USE <1>t, <1>e, <1>s DEF Apart, Alone, Manned, Arming, drivers, requests, rows, turn, limits,
   world, history, BootIsEmpty, NewIsUnknown, StoppedIsOver, Terminal, Live
<1>1. ASSUME NEW d \in Driver, GateTrips(d) PROVE Manned'
  BY <1>1 DEF GateTrips, Goto
<1>2. ASSUME NEW d \in Driver, GatePasses(d) PROVE Manned'
  BY <1>2 DEF GatePasses, Goto, StorageFault
<1>3. ASSUME NEW d \in Driver, Wake(d) PROVE Manned'
  BY <1>3 DEF Wake, Goto
<1>4. ASSUME NEW d \in Driver, SeeCancel(d) PROVE Manned'
  BY <1>4 DEF SeeCancel, Goto
<1>5. ASSUME NEW d \in Driver, StartTick(d) PROVE Manned'
  BY <1>5 DEF StartTick, Goto, CountUp, Saturation
<1>6. ASSUME NEW d \in Driver, SkipTick(d) PROVE Manned'
  BY <1>6 DEF SkipTick, TickCounted, Goto
<1>7. ASSUME NEW d \in Driver, SessionGone(d) PROVE Manned'
  BY <1>7 DEF SessionGone, Goto
<1>8. ASSUME NEW d \in Driver, TurnRefused(d) PROVE Manned'
  BY <1>8 DEF TurnRefused, TickCounted, Goto
<1>9. ASSUME NEW d \in Driver, TurnSpawned(d) PROVE Manned'
  BY <1>9 DEF TurnSpawned, Goto
<1>10. ASSUME NEW d \in Driver, TakeCompletion(d) PROVE Manned'
  BY <1>10, SMTT(30) DEF TakeCompletion, TickCounted, Goto
<1>11. ASSUME NEW d \in Driver, PersistTickCount(d) PROVE Manned'
  BY <1>11 DEF PersistTickCount, RecordTick, Goto, StorageFault
<1>12. ASSUME NEW d \in Driver, TerminaliseRow(d) PROVE Manned'
  BY <1>12, SMTT(30) DEF TerminaliseRow, Terminalise, Goto, StorageFault
<1>13. ASSUME NEW d \in Driver, PauseRow(d) PROVE Manned'
  BY <1>13 DEF PauseRow, Goto, StorageFault
<1>14. ASSUME NEW d \in Driver, Record(d) PROVE Manned'
  BY <1>14 DEF Record, RecordTick, AfterRecord, Goto, StorageFault
<1>15. ASSUME NEW d \in Driver, Leave(d) PROVE Manned'
  BY <1>15 DEF Leave, FreeSlot, Goto
<1>16. ASSUME NEW q \in Req, CreateRefused(q) PROVE Manned'
  BY <1>16 DEF CreateRefused, Advance, StorageFault
<1>17. ASSUME NEW q \in Req, CreateArm(q) PROVE Manned'
  BY <1>17 DEF CreateArm, Advance, Arm, Goto
<1>18. ASSUME NEW q \in Req, CancelStop(q) PROVE Manned'
  BY <1>18 DEF CancelStop, Advance, StopDriver
<1>19. ASSUME NEW q \in Req, ResumeStore(q) PROVE Manned'
  BY <1>19 DEF ResumeStore, Advance, Resumable
<1>20. ASSUME NEW q \in Req, ResumeRefused(q) PROVE Manned'
  BY <1>20 DEF ResumeRefused, Advance, StorageFault
<1>21. ASSUME NEW q \in Req, ResumeArm(q) PROVE Manned'
  BY <1>21 DEF ResumeArm, Advance, Arm, Goto
<1>22. ASSUME NEW q \in Req, CreateCheck(q) PROVE Manned'
  BY <1>22 DEF CreateCheck
<1>23. ASSUME NEW q \in Req, DropRequest(q) PROVE Manned'
  BY <1>23 DEF DropRequest, Advance
<1>24. ASSUME NEW q \in Req, NEW l \in Loop, CreateInsert(q, l) PROVE Manned'
  BY <1>24 DEF CreateInsert, Advance, NoLiveLoop
<1>25. ASSUME NEW q \in Req, NEW l \in Loop, CancelTerminalise(q, l) PROVE Manned'
  BY <1>25 DEF CancelTerminalise, Advance, Terminalise
<1>26. ASSUME NEW q \in Req, NEW l \in Loop, ResumeRead(q, l) PROVE Manned'
  BY <1>26 DEF ResumeRead, Advance
<1>27. CASE OperatorTurn
  BY <1>27 DEF OperatorTurn
<1>28. CASE TurnEnds
  BY <1>28 DEF TurnEnds
<1>29. CASE Crash
  BY <1>29 DEF Crash
<1>30. CASE Replay
  BY <1>30 DEF Replay, ReplayRow, Arm, Goto, Terminalise, StorageFault
<1>31. CASE Archive
  BY <1>31 DEF Archive
<1>32. ASSUME NEW l \in Loop, Expire(l) PROVE Manned'
  BY <1>32 DEF Expire
<1>33. CASE UNCHANGED vars
  BY <1>33 DEF vars
<1> QED
  BY <1>1, <1>2, <1>3, <1>4, <1>5, <1>6, <1>7, <1>8, <1>9, <1>10, <1>11,
     <1>12, <1>13, <1>14, <1>15, <1>16, <1>17, <1>18, <1>19, <1>20, <1>21,
     <1>22, <1>23, <1>24, <1>25, <1>26, <1>27, <1>28, <1>29, <1>30, <1>31,
     <1>32, <1>33
     DEF Next, DriverStep, RequestStep, NewRequest

-----------------------------------------------------------------------------
(* The counters. *)

LEMMA FreshStep == Apart /\ Apart' /\ IInv /\ Alone /\ Fresh /\ [Next]_vars => Fresh'
<1> SUFFICES ASSUME Apart, Apart', IInv, Alone, Fresh, [Next]_vars PROVE Fresh'
  OBVIOUS
<1>t. /\ pc \in [Driver -> Places] /\ home \in [Driver -> Loop \cup {NoLoop}]
      /\ stage \in [Req -> Stages] /\ subject \in [Req -> Loop \cup {NoLoop}]
      /\ status \in [Loop -> Status] /\ armed \in [Loop -> Driver \cup {NoDriver}]
      /\ stopped \subseteq Driver /\ NoLoop \notin Loop /\ NoDriver \notin Driver
  BY ConstantsAssumption DEF TypeOK, IInv
<1>e. "free" \notin DOMAIN Ending /\ "leave" \notin DOMAIN Ending
      /\ \A p \in DOMAIN Ending : Ending[p] \in Terminal
  BY DEF Ending, Terminal
<1>s. /\ \A d \in Driver : (pc[d] = "free" <=> home[d] = NoLoop)
      /\ \A q \in Req : (stage[q] \in {"idle", "checked"} <=> subject[q] = NoLoop)
      /\ BootIsEmpty /\ Ownership /\ NewIsUnknown /\ StoppedIsOver /\ SlotIsTrue /\ SoleTicker
  BY DEF IInv, Tenure, Attached
<1>n. /\ ran \in [Loop -> Nat] /\ streak \in [Loop -> Nat] /\ snap \in [Req -> Nat]
      /\ ticks \in [Driver -> Nat] /\ fails \in [Driver -> Nat]
  BY DEF TypeOK, IInv
<1> HIDE DEF IInv
<1> USE <1>t, <1>e, <1>s, <1>n DEF Apart, Alone, Fresh, CopyIsFresh, Ticking, Arming, Driving,
   drivers, requests, rows, turn, limits, world, history, BootIsEmpty, Ownership,
   NewIsUnknown, Terminal, Live
<1>1. ASSUME NEW d \in Driver, GateTrips(d) PROVE Fresh'
  BY <1>1 DEF GateTrips, Goto
<1>2. ASSUME NEW d \in Driver, GatePasses(d) PROVE Fresh'
  BY <1>2 DEF GatePasses, Goto, StorageFault
<1>3. ASSUME NEW d \in Driver, Wake(d) PROVE Fresh'
  BY <1>3 DEF Wake, Goto
<1>4. ASSUME NEW d \in Driver, SeeCancel(d) PROVE Fresh'
  BY <1>4 DEF SeeCancel, Goto
<1>5. ASSUME NEW d \in Driver, StartTick(d) PROVE Fresh'
  BY <1>5 DEF StartTick, Goto, CountUp, Saturation
<1>6. ASSUME NEW d \in Driver, SkipTick(d) PROVE Fresh'
  BY <1>6 DEF SkipTick, TickCounted, Goto
<1>7. ASSUME NEW d \in Driver, SessionGone(d) PROVE Fresh'
  BY <1>7 DEF SessionGone, Goto
<1>8. ASSUME NEW d \in Driver, TurnRefused(d) PROVE Fresh'
  BY <1>8 DEF TurnRefused, TickCounted, Goto
<1>9. ASSUME NEW d \in Driver, TurnSpawned(d) PROVE Fresh'
  BY <1>9 DEF TurnSpawned, Goto
<1>10. ASSUME NEW d \in Driver, TakeCompletion(d) PROVE Fresh'
  BY <1>10, SMTT(30) DEF TakeCompletion, TickCounted, Goto
<1>11. ASSUME NEW d \in Driver, PersistTickCount(d) PROVE Fresh'
  <2>1. home[d] \in Loop /\ Driving(d)
    BY <1>11 DEF PersistTickCount
  <2>2. CASE pc'[d] # "gate" /\ UNCHANGED <<ran, streak>>
    BY <1>11, <2>1, <2>2 DEF PersistTickCount, AfterRecord, Goto
  <2>3. CASE /\ status[home[d]] = "active"
             /\ ran' = [ran EXCEPT ![home[d]] = ticks[d]]
             /\ streak' = [streak EXCEPT ![home[d]] = fails[d]]
    <3>1. /\ UNCHANGED <<status, home, ticks, fails, stage, subject, snap>>
          /\ \A e \in Driver \ {d} : pc'[e] = pc[e]
      BY <1>11 DEF PersistTickCount, Goto
    <3>2. \A e \in Driver \ {d} : Driving(e) => home[e] # home[d]
      BY <1>s, <2>1 DEF SoleTicker
    <3>3. \A q \in Req : stage[q] \in {"inserted", "read", "resumed"} =>
            subject[q] \in Loop /\ subject[q] # home[d]
      BY <2>1, <2>3
    <3>4. CopyIsFresh'
      BY <2>1, <2>3, <3>1, <3>2
    <3> QED
      BY <2>1, <2>3, <3>1, <3>3, <3>4
  <2> QED
    BY <1>11, <2>2, <2>3 DEF PersistTickCount, RecordTick, AfterRecord, Goto
<1>12. ASSUME NEW d \in Driver, TerminaliseRow(d) PROVE Fresh'
  BY <1>12, SMTT(30) DEF TerminaliseRow, Terminalise, Goto, StorageFault
<1>13. ASSUME NEW d \in Driver, PauseRow(d) PROVE Fresh'
  BY <1>13 DEF PauseRow, Goto, StorageFault
<1>14. ASSUME NEW d \in Driver, Record(d) PROVE Fresh'
  <2>1. home[d] \in Loop /\ Driving(d)
    BY <1>14 DEF Record
  <2>2. CASE pc'[d] # "gate" /\ UNCHANGED <<ran, streak>>
    BY <1>14, <2>1, <2>2 DEF Record, AfterRecord, Goto
  <2>3. CASE /\ status[home[d]] = "active"
             /\ ran' = [ran EXCEPT ![home[d]] = ticks[d]]
             /\ streak' = [streak EXCEPT ![home[d]] = fails[d]]
    <3>1. /\ UNCHANGED <<status, home, ticks, fails, stage, subject, snap>>
          /\ \A e \in Driver \ {d} : pc'[e] = pc[e]
      BY <1>14 DEF Record, Goto
    <3>2. \A e \in Driver \ {d} : Driving(e) => home[e] # home[d]
      BY <1>s, <2>1 DEF SoleTicker
    <3>3. \A q \in Req : stage[q] \in {"inserted", "read", "resumed"} =>
            subject[q] \in Loop /\ subject[q] # home[d]
      BY <2>1, <2>3
    <3>4. CopyIsFresh'
      BY <2>1, <2>3, <3>1, <3>2
    <3> QED
      BY <2>1, <2>3, <3>1, <3>3, <3>4
  <2> QED
    BY <1>14, <2>2, <2>3 DEF Record, RecordTick, AfterRecord, Goto
<1>15. ASSUME NEW d \in Driver, Leave(d) PROVE Fresh'
  BY <1>15 DEF Leave, FreeSlot, Goto
<1>16. ASSUME NEW q \in Req, CreateRefused(q) PROVE Fresh'
  BY <1>16 DEF CreateRefused, Advance, StorageFault
<1>17. ASSUME NEW q \in Req, CreateArm(q) PROVE Fresh'
  BY <1>17 DEF CreateArm, Advance, Arm, Goto
<1>18. ASSUME NEW q \in Req, CancelStop(q) PROVE Fresh'
  BY <1>18 DEF CancelStop, Advance, StopDriver
<1>19. ASSUME NEW q \in Req, ResumeStore(q) PROVE Fresh'
  BY <1>19 DEF ResumeStore, Advance, Resumable
<1>20. ASSUME NEW q \in Req, ResumeRefused(q) PROVE Fresh'
  BY <1>20 DEF ResumeRefused, Advance, StorageFault
<1>21. ASSUME NEW q \in Req, ResumeArm(q) PROVE Fresh'
  BY <1>21 DEF ResumeArm, Advance, Arm, Goto
<1>22. ASSUME NEW q \in Req, CreateCheck(q) PROVE Fresh'
  BY <1>22 DEF CreateCheck
<1>23. ASSUME NEW q \in Req, DropRequest(q) PROVE Fresh'
  BY <1>23 DEF DropRequest, Advance
<1>24. ASSUME NEW q \in Req, NEW l \in Loop, CreateInsert(q, l) PROVE Fresh'
  BY <1>24 DEF CreateInsert, Advance, NoLiveLoop
<1>25. ASSUME NEW q \in Req, NEW l \in Loop, CancelTerminalise(q, l) PROVE Fresh'
  BY <1>25 DEF CancelTerminalise, Advance, Terminalise
<1>26. ASSUME NEW q \in Req, NEW l \in Loop, ResumeRead(q, l) PROVE Fresh'
  BY <1>26 DEF ResumeRead, Advance
<1>27. CASE OperatorTurn
  BY <1>27 DEF OperatorTurn
<1>28. CASE TurnEnds
  BY <1>28 DEF TurnEnds
<1>29. CASE Crash
  BY <1>29 DEF Crash
<1>30. CASE Replay
  BY <1>30 DEF Replay, ReplayRow, Arm, Goto, Terminalise, StorageFault
<1>31. CASE Archive
  BY <1>31 DEF Archive
<1>32. ASSUME NEW l \in Loop, Expire(l) PROVE Fresh'
  BY <1>32 DEF Expire
<1>33. CASE UNCHANGED vars
  BY <1>33 DEF vars
<1> QED
  BY <1>1, <1>2, <1>3, <1>4, <1>5, <1>6, <1>7, <1>8, <1>9, <1>10, <1>11,
     <1>12, <1>13, <1>14, <1>15, <1>16, <1>17, <1>18, <1>19, <1>20, <1>21,
     <1>22, <1>23, <1>24, <1>25, <1>26, <1>27, <1>28, <1>29, <1>30, <1>31,
     <1>32, <1>33
     DEF Next, DriverStep, RequestStep, NewRequest

-----------------------------------------------------------------------------
(* A cancel reaches the driver. *)

LEMMA CancelStep ==
  Apart /\ Apart' /\ IInv /\ Alone /\ Manned /\ CancelStopsDriver /\ [Next]_vars
    => CancelStopsDriver'
<1> SUFFICES ASSUME Apart, Apart', IInv, Alone, Manned, CancelStopsDriver, [Next]_vars
             PROVE  CancelStopsDriver'
  OBVIOUS
<1>t. /\ pc \in [Driver -> Places] /\ home \in [Driver -> Loop \cup {NoLoop}]
      /\ stage \in [Req -> Stages] /\ subject \in [Req -> Loop \cup {NoLoop}]
      /\ status \in [Loop -> Status] /\ armed \in [Loop -> Driver \cup {NoDriver}]
      /\ stopped \subseteq Driver /\ NoLoop \notin Loop /\ NoDriver \notin Driver
  BY ConstantsAssumption DEF TypeOK, IInv
<1>e. "free" \notin DOMAIN Ending /\ "leave" \notin DOMAIN Ending
      /\ \A p \in DOMAIN Ending : Ending[p] \in Terminal
  BY DEF Ending, Terminal
<1>s. /\ \A d \in Driver : (pc[d] = "free" <=> home[d] = NoLoop)
      /\ \A q \in Req : (stage[q] \in {"idle", "checked"} <=> subject[q] = NoLoop)
      /\ BootIsEmpty /\ Ownership /\ NewIsUnknown /\ StoppedIsOver /\ SlotIsTrue /\ SoleTicker
  BY DEF IInv, Tenure, Attached
<1> HIDE DEF IInv
<1>d. drops \in Nat
  BY DEF TypeOK, IInv
<1> USE <1>t, <1>e, <1>s, <1>d DEF Apart, Alone, Manned, CancelStopsDriver, Arming, Driving,
   drivers, requests, rows, turn, limits, world, history, BootIsEmpty, Ownership,
   NewIsUnknown, StoppedIsOver, Terminal, Live
<1>1. ASSUME NEW d \in Driver, GateTrips(d) PROVE CancelStopsDriver'
  BY <1>1 DEF GateTrips, Goto
<1>2. ASSUME NEW d \in Driver, GatePasses(d) PROVE CancelStopsDriver'
  BY <1>2 DEF GatePasses, Goto, StorageFault
<1>3. ASSUME NEW d \in Driver, Wake(d) PROVE CancelStopsDriver'
  BY <1>3 DEF Wake, Goto
<1>4. ASSUME NEW d \in Driver, SeeCancel(d) PROVE CancelStopsDriver'
  BY <1>4 DEF SeeCancel, Goto
<1>5. ASSUME NEW d \in Driver, StartTick(d) PROVE CancelStopsDriver'
  BY <1>5 DEF StartTick, Goto, CountUp, Saturation
<1>6. ASSUME NEW d \in Driver, SkipTick(d) PROVE CancelStopsDriver'
  BY <1>6 DEF SkipTick, TickCounted, Goto
<1>7. ASSUME NEW d \in Driver, SessionGone(d) PROVE CancelStopsDriver'
  BY <1>7 DEF SessionGone, Goto
<1>8. ASSUME NEW d \in Driver, TurnRefused(d) PROVE CancelStopsDriver'
  BY <1>8 DEF TurnRefused, TickCounted, Goto
<1>9. ASSUME NEW d \in Driver, TurnSpawned(d) PROVE CancelStopsDriver'
  BY <1>9 DEF TurnSpawned, Goto
<1>10. ASSUME NEW d \in Driver, TakeCompletion(d) PROVE CancelStopsDriver'
  BY <1>10, SMTT(30) DEF TakeCompletion, TickCounted, Goto
<1>11. ASSUME NEW d \in Driver, PersistTickCount(d) PROVE CancelStopsDriver'
  BY <1>11 DEF PersistTickCount, RecordTick, Goto, StorageFault
<1>12. ASSUME NEW d \in Driver, TerminaliseRow(d) PROVE CancelStopsDriver'
  BY <1>12, SMTT(30) DEF TerminaliseRow, Terminalise, Goto, StorageFault
<1>13. ASSUME NEW d \in Driver, PauseRow(d) PROVE CancelStopsDriver'
  BY <1>13 DEF PauseRow, Goto, StorageFault
<1>14. ASSUME NEW d \in Driver, Record(d) PROVE CancelStopsDriver'
  BY <1>14 DEF Record, RecordTick, AfterRecord, Goto, StorageFault
<1>15. ASSUME NEW d \in Driver, Leave(d) PROVE CancelStopsDriver'
  BY <1>15 DEF Leave, FreeSlot, Goto
<1>16. ASSUME NEW q \in Req, CreateRefused(q) PROVE CancelStopsDriver'
  BY <1>16 DEF CreateRefused, Advance, StorageFault
<1>17. ASSUME NEW q \in Req, CreateArm(q) PROVE CancelStopsDriver'
  BY <1>17 DEF CreateArm, Advance, Arm, Goto
<1>18. ASSUME NEW q \in Req, CancelStop(q) PROVE CancelStopsDriver'
  BY <1>18 DEF CancelStop, Advance, StopDriver
<1>19. ASSUME NEW q \in Req, ResumeStore(q) PROVE CancelStopsDriver'
  BY <1>19 DEF ResumeStore, Advance, Resumable
<1>20. ASSUME NEW q \in Req, ResumeRefused(q) PROVE CancelStopsDriver'
  BY <1>20 DEF ResumeRefused, Advance, StorageFault
<1>21. ASSUME NEW q \in Req, ResumeArm(q) PROVE CancelStopsDriver'
  BY <1>21 DEF ResumeArm, Advance, Arm, Goto
<1>22. ASSUME NEW q \in Req, CreateCheck(q) PROVE CancelStopsDriver'
  BY <1>22 DEF CreateCheck
<1>23. ASSUME NEW q \in Req, DropRequest(q) PROVE CancelStopsDriver'
  BY <1>23 DEF DropRequest, Advance
<1>24. ASSUME NEW q \in Req, NEW l \in Loop, CreateInsert(q, l) PROVE CancelStopsDriver'
  BY <1>24 DEF CreateInsert, Advance, NoLiveLoop
<1>25. ASSUME NEW q \in Req, NEW l \in Loop, CancelTerminalise(q, l) PROVE CancelStopsDriver'
  BY <1>25 DEF CancelTerminalise, Advance, Terminalise
<1>26. ASSUME NEW q \in Req, NEW l \in Loop, ResumeRead(q, l) PROVE CancelStopsDriver'
  BY <1>26 DEF ResumeRead, Advance
<1>27. CASE OperatorTurn
  BY <1>27 DEF OperatorTurn
<1>28. CASE TurnEnds
  BY <1>28 DEF TurnEnds
<1>29. CASE Crash
  BY <1>29 DEF Crash
<1>30. CASE Replay
  BY <1>30 DEF Replay, ReplayRow, Arm, Goto, Terminalise, StorageFault
<1>31. CASE Archive
  BY <1>31 DEF Archive
<1>32. ASSUME NEW l \in Loop, Expire(l) PROVE CancelStopsDriver'
  BY <1>32 DEF Expire
<1>33. CASE UNCHANGED vars
  BY <1>33 DEF vars
<1> QED
  BY <1>1, <1>2, <1>3, <1>4, <1>5, <1>6, <1>7, <1>8, <1>9, <1>10, <1>11,
     <1>12, <1>13, <1>14, <1>15, <1>16, <1>17, <1>18, <1>19, <1>20, <1>21,
     <1>22, <1>23, <1>24, <1>25, <1>26, <1>27, <1>28, <1>29, <1>30, <1>31,
     <1>32, <1>33
     DEF Next, DriverStep, RequestStep, NewRequest

-----------------------------------------------------------------------------
(* The budget. *)

LEMMA BudgetStep ==
  Apart /\ Apart' /\ IInv /\ Alone /\ Fresh /\ Budget /\ [Next]_vars => Budget'
<1> SUFFICES ASSUME Apart, Apart', IInv, Alone, Fresh, Budget, [Next]_vars PROVE Budget'
  OBVIOUS
<1>t. /\ pc \in [Driver -> Places] /\ home \in [Driver -> Loop \cup {NoLoop}]
      /\ stage \in [Req -> Stages] /\ subject \in [Req -> Loop \cup {NoLoop}]
      /\ status \in [Loop -> Status] /\ armed \in [Loop -> Driver \cup {NoDriver}]
      /\ stopped \subseteq Driver /\ NoLoop \notin Loop /\ NoDriver \notin Driver
  BY ConstantsAssumption DEF TypeOK, IInv
<1>e. "free" \notin DOMAIN Ending /\ "leave" \notin DOMAIN Ending
      /\ \A p \in DOMAIN Ending : Ending[p] \in Terminal
  BY DEF Ending, Terminal
<1>s. /\ \A d \in Driver : (pc[d] = "free" <=> home[d] = NoLoop)
      /\ \A q \in Req : (stage[q] \in {"idle", "checked"} <=> subject[q] = NoLoop)
      /\ BootIsEmpty /\ Ownership /\ NewIsUnknown /\ StoppedIsOver /\ SlotIsTrue /\ SoleTicker
  BY DEF IInv, Tenure, Attached
<1>n. /\ ran \in [Loop -> Nat] /\ streak \in [Loop -> Nat] /\ snap \in [Req -> Nat]
      /\ ticks \in [Driver -> Nat] /\ fails \in [Driver -> Nat]
  BY DEF TypeOK, IInv
<1>b. /\ fired \in [Loop -> Nat] /\ faults \in Nat /\ crashes \in Nat
      /\ MaxTicks \in Nat \ {0} /\ Saturation \in Nat
  BY ConstantsAssumption DEF TypeOK, IInv, Saturation
<1>f. CopyIsFresh
  BY DEF Fresh
<1> HIDE DEF IInv, Fresh
<1> USE <1>t, <1>e, <1>s, <1>n, <1>b, <1>f DEF Apart, Alone, Budget, BudgetHolds, Uncounted, Lost,
   CopyIsFresh, Ticking, Arming, Driving, drivers, requests, rows, turn, limits, world,
   history, BootIsEmpty, Ownership, NewIsUnknown, StoppedIsOver, Terminal, Live
<1>1. ASSUME NEW d \in Driver, GateTrips(d) PROVE Budget'
  BY <1>1 DEF GateTrips, Goto
<1>2. ASSUME NEW d \in Driver, GatePasses(d) PROVE Budget'
  BY <1>2 DEF GatePasses, Goto, StorageFault, OverBudget
<1>3. ASSUME NEW d \in Driver, Wake(d) PROVE Budget'
  BY <1>3 DEF Wake, Goto
<1>4. ASSUME NEW d \in Driver, SeeCancel(d) PROVE Budget'
  BY <1>4 DEF SeeCancel, Goto
<1>5. ASSUME NEW d \in Driver, StartTick(d) PROVE Budget'
  <2> DEFINE l == home[d]
  <2>1. l \in Loop /\ pc[d] = "starting" /\ ticks[d] < MaxTicks
    BY <1>5 DEF StartTick
  <2>2. /\ pc'[d] = "setup" /\ \A e \in Driver \ {d} : pc'[e] = pc[e]
        /\ UNCHANGED <<rows, home, ticks, faults, crashes>>
    BY <1>5 DEF StartTick, Goto
  <2>3. /\ fired' \in [Loop -> Nat] /\ fired'[l] <= fired[l] + 1
        /\ \A k \in Loop \ {l} : fired'[k] = fired[k]
    BY <1>5, <2>1 DEF StartTick, CountUp
  <2>4. \A e \in Driver \ {d} : home[e] = l => ~Driving(e)
    BY <2>1 DEF SoleTicker
  <2>5. fired[l] <= ticks[d] + Lost
    BY <2>1
  <2>6. status[l] # "absent"
    BY <2>1
  <2>7. status[l] \in Live => fired[l] <= ran[l] + Lost
    BY <2>1, <2>4
  <2> HIDE DEF l
  <2> QED
    BY SMTT(30), <2>1, <2>2, <2>3, <2>4, <2>5, <2>6, <2>7 DEF l
<1>6. ASSUME NEW d \in Driver, SkipTick(d) PROVE Budget'
  BY <1>6 DEF SkipTick, TickCounted, Goto
<1>7. ASSUME NEW d \in Driver, SessionGone(d) PROVE Budget'
  BY <1>7 DEF SessionGone, Goto
<1>8. ASSUME NEW d \in Driver, TurnRefused(d) PROVE Budget'
  BY <1>8 DEF TurnRefused, TickCounted, Goto
<1>9. ASSUME NEW d \in Driver, TurnSpawned(d) PROVE Budget'
  BY <1>9 DEF TurnSpawned, Goto
<1>10. ASSUME NEW d \in Driver, TakeCompletion(d) PROVE Budget'
  BY <1>10, SMTT(30) DEF TakeCompletion, TickCounted, Goto
<1>11. ASSUME NEW d \in Driver, PersistTickCount(d) PROVE Budget'
  BY <1>11 DEF PersistTickCount, RecordTick, Goto, StorageFault
<1>12. ASSUME NEW d \in Driver, TerminaliseRow(d) PROVE Budget'
  BY <1>12, SMTT(30) DEF TerminaliseRow, Terminalise, Goto, StorageFault
<1>13. ASSUME NEW d \in Driver, PauseRow(d) PROVE Budget'
  BY <1>13 DEF PauseRow, Goto, StorageFault
<1>14. ASSUME NEW d \in Driver, Record(d) PROVE Budget'
  BY <1>14 DEF Record, RecordTick, AfterRecord, Goto, StorageFault
<1>15. ASSUME NEW d \in Driver, Leave(d) PROVE Budget'
  BY <1>15 DEF Leave, FreeSlot, Goto
<1>16. ASSUME NEW q \in Req, CreateRefused(q) PROVE Budget'
  BY <1>16 DEF CreateRefused, Advance, StorageFault
<1>17. ASSUME NEW q \in Req, CreateArm(q) PROVE Budget'
  <2> DEFINE l == subject[q]
  <2>1. /\ stage[q] = "inserted" /\ l \in Loop /\ status[l] = "active"
        /\ \A e \in Driver : home[e] = l => ~Uncounted(e)
    BY <1>17 DEF CreateArm
  <2>2. fired[l] <= 0 + Lost /\ 0 \in Nat
    <3>1. 0 = ran[l]
      BY <2>1 DEF Fresh
    <3> QED
      BY <2>1, <3>1
  <2> HIDE DEF l
  <2>3. UNCHANGED <<rows, fired, faults, crashes>>
    BY <1>17 DEF CreateArm
  <2>4. CASE UNCHANGED drivers
    BY <2>3, <2>4
  <2>5. ASSUME NEW d \in Driver, pc[d] = "free", pc' = [pc EXCEPT ![d] = "gate"],
               home' = [home EXCEPT ![d] = l], ticks' = [ticks EXCEPT ![d] = 0]
        PROVE  Budget'
    <3>1. \A e \in Driver \ {d} : pc'[e] = pc[e] /\ home'[e] = home[e] /\ ticks'[e] = ticks[e]
      BY <2>5
    <3>2. pc'[d] = "gate" /\ home'[d] = l /\ ticks'[d] = 0
      BY <2>5
    <3>3. \A k \in Loop : (\A e \in Driver : home'[e] = k => ~Uncounted(e)') =>
            (\A e \in Driver : home[e] = k => ~Uncounted(e))
      BY <2>5, <3>1
    <3> HIDE DEF Uncounted
    <3> QED
      BY <2>1, <2>2, <2>3, <3>1, <3>2, <3>3
  <2> QED
    BY <1>17, <2>4, <2>5 DEF CreateArm, Arm, Goto, l
<1>18. ASSUME NEW q \in Req, CancelStop(q) PROVE Budget'
  BY <1>18 DEF CancelStop, Advance, StopDriver
<1>19. ASSUME NEW q \in Req, ResumeStore(q) PROVE Budget'
  BY <1>19 DEF ResumeStore, Advance, Resumable
<1>20. ASSUME NEW q \in Req, ResumeRefused(q) PROVE Budget'
  BY <1>20 DEF ResumeRefused, Advance, StorageFault
<1>21. ASSUME NEW q \in Req, ResumeArm(q) PROVE Budget'
  <2> DEFINE l == subject[q]
  <2>1. /\ stage[q] = "resumed" /\ l \in Loop /\ status[l] = "active"
        /\ \A e \in Driver : home[e] = l => ~Uncounted(e)
    BY <1>21 DEF ResumeArm
  <2>2. fired[l] <= snap[q] + Lost /\ snap[q] \in Nat
    <3>1. snap[q] = ran[l]
      BY <2>1 DEF Fresh
    <3> QED
      BY <2>1, <3>1
  <2> HIDE DEF l
  <2>3. UNCHANGED <<rows, fired, faults, crashes>>
    BY <1>21 DEF ResumeArm
  <2>4. CASE UNCHANGED drivers
    BY <2>3, <2>4
  <2>5. ASSUME NEW d \in Driver, pc[d] = "free", pc' = [pc EXCEPT ![d] = "gate"],
               home' = [home EXCEPT ![d] = l], ticks' = [ticks EXCEPT ![d] = snap[q]]
        PROVE  Budget'
    <3>1. \A e \in Driver \ {d} : pc'[e] = pc[e] /\ home'[e] = home[e] /\ ticks'[e] = ticks[e]
      BY <2>5
    <3>2. pc'[d] = "gate" /\ home'[d] = l /\ ticks'[d] = snap[q]
      BY <2>5
    <3>3. \A k \in Loop : (\A e \in Driver : home'[e] = k => ~Uncounted(e)') =>
            (\A e \in Driver : home[e] = k => ~Uncounted(e))
      BY <2>5, <3>1
    <3> HIDE DEF Uncounted
    <3> QED
      BY <2>1, <2>2, <2>3, <3>1, <3>2, <3>3
  <2> QED
    BY <1>21, <2>4, <2>5 DEF ResumeArm, Arm, Goto, l
<1>22. ASSUME NEW q \in Req, CreateCheck(q) PROVE Budget'
  BY <1>22 DEF CreateCheck
<1>23. ASSUME NEW q \in Req, DropRequest(q) PROVE Budget'
  BY <1>23 DEF DropRequest, Advance
<1>24. ASSUME NEW q \in Req, NEW l \in Loop, CreateInsert(q, l) PROVE Budget'
  BY <1>24 DEF CreateInsert, Advance, NoLiveLoop
<1>25. ASSUME NEW q \in Req, NEW l \in Loop, CancelTerminalise(q, l) PROVE Budget'
  BY <1>25 DEF CancelTerminalise, Advance, Terminalise
<1>26. ASSUME NEW q \in Req, NEW l \in Loop, ResumeRead(q, l) PROVE Budget'
  BY <1>26 DEF ResumeRead, Advance
<1>27. CASE OperatorTurn
  BY <1>27 DEF OperatorTurn
<1>28. CASE TurnEnds
  BY <1>28 DEF TurnEnds
<1>29. CASE Crash
  BY <1>29 DEF Crash
<1>30. CASE Replay
  BY <1>30 DEF Replay, ReplayRow, Arm, Goto, Terminalise, StorageFault
<1>31. CASE Archive
  BY <1>31 DEF Archive
<1>32. ASSUME NEW l \in Loop, Expire(l) PROVE Budget'
  BY <1>32 DEF Expire
<1>33. CASE UNCHANGED vars
  BY <1>33 DEF vars
<1> QED
  BY <1>1, <1>2, <1>3, <1>4, <1>5, <1>6, <1>7, <1>8, <1>9, <1>10, <1>11,
     <1>12, <1>13, <1>14, <1>15, <1>16, <1>17, <1>18, <1>19, <1>20, <1>21,
     <1>22, <1>23, <1>24, <1>25, <1>26, <1>27, <1>28, <1>29, <1>30, <1>31,
     <1>32, <1>33
     DEF Next, DriverStep, RequestStep, NewRequest

-----------------------------------------------------------------------------
(* The theorems. *)

LEMMA ApartInit == Init => SInv
  BY ConstantsAssumption
  DEF Init, SInv, Alone, Manned, Fresh, Budget, BudgetHolds, CopyIsFresh, CancelStopsDriver,
      Arming, Driving, Ticking, Uncounted, Lost, Live

LEMMA ApartStep == Apart /\ Apart' /\ IInv /\ SInv /\ [Next]_vars => SInv'
  BY AloneStep, MannedStep, FreshStep, CancelStep, BudgetStep DEF SInv

(* The invariant holds as long as no two requests meet on one loop. *)
THEOREM ApartAlways == Spec /\ []Apart => []SInv
<1>1. Apart /\ Apart' /\ IInv /\ SInv /\ [Next]_vars => SInv'
  BY ApartStep
<1> QED
  BY <1>1, ApartInit, Invariance, PTL DEF Spec

(* While no two requests are at work on one loop, the counters a driver    *)
(* ticks with are those of its active row, across pauses, resumes, failed  *)
(* writes, dropped handlers and restarts.                                  *)
THEOREM CopyFresh == Spec /\ []Apart => []CopyIsFresh
<1>1. SInv => CopyIsFresh
  BY DEF SInv, Fresh
<1> QED
  BY <1>1, ApartAlways, PTL

(* While no two requests are at work on one loop, it starts at most        *)
(* max_ticks turns, and one more for each crash or failed write that lost  *)
(* a count.                                                                *)
THEOREM BudgetKept == Spec /\ []Apart => []BudgetHolds
<1>1. SInv => BudgetHolds
  BY DEF SInv, Budget
<1> QED
  BY <1>1, ApartAlways, PTL

(* While no two requests are at work on one loop, the driver map is exact: *)
(* an entry names a driver that runs that loop, a loop has one driver at   *)
(* most, and that driver is in the map unless it was told to stop (arm,    *)
(* cancel and DriverSlot::drop agree on the entry).                        *)
THEOREM MapExact == Spec /\ []Apart => [](SlotIsTrue /\ Manned)
<1>1. SInv => Manned
  BY DEF SInv
<1> QED
  BY <1>1, SlotTrue, ApartAlways, PTL

(* While no two requests are at work on one loop, a cancel that ran to its *)
(* end has stopped every driver of its loop, or told it to stop.           *)
THEOREM CancelStops == Spec /\ []Apart => []CancelStopsDriver
<1>1. SInv => CancelStopsDriver
  BY DEF SInv
<1> QED
  BY <1>1, ApartAlways, PTL
=============================================================================
