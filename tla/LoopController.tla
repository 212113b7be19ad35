---------------------------- MODULE LoopController ----------------------------
(***************************************************************************)
(* The controller of /loop: recurring agent turns on one chat session.     *)
(*                                                                         *)
(* A loop is a durable row and, while it is active, one driver task that   *)
(* sleeps, fires a tick and does its bookkeeping.  The actors are          *)
(*   - the drivers: each await of `drive` ends a step;                     *)
(*   - the operators' create, cancel and resume requests, whose handlers   *)
(*     await the store (and may be dropped when a client disconnects)      *)
(*     between the row's move and the driver's start or stop;              *)
(*   - the turns on the session, a tick's or an operator's, which hold the *)
(*     session's turn lock and outlive a driver that stops waiting;        *)
(*   - the process, which may crash and re-arm the active rows at boot.    *)
(* All the loops share one session: rows of different sessions have no     *)
(* state in common.  Time is abstracted to the moments that matter: a      *)
(* sleep may end at any point, and a row's ttl may pass at any point.      *)
(***************************************************************************)
EXTENDS Integers, FiniteSets

CONSTANTS
  Loop,           \* loop ids
  Driver,         \* slots for driver tasks: bounds how many may be alive
  Req,            \* slots for operator requests: bounds how many overlap
  NoLoop,         \* not a loop id
  NoDriver,       \* not a driver
  MaxTicks,       \* the rows' max_ticks budget
  FailureLimit,   \* MAX_CONSECUTIVE_FAILURES
  MaxFaults,      \* bound on the number of storage failures
  MaxDrops,       \* bound on the number of dropped request handlers
  MaxCrashes,     \* bound on the number of crashes
  MaxExpired      \* bound on the number of rows whose ttl passes

ASSUME ConstantsAssumption ==
  /\ NoLoop \notin Loop
  /\ NoDriver \notin Driver
  /\ {MaxTicks, FailureLimit} \subseteq Nat \ {0}
  /\ {MaxFaults, MaxDrops, MaxCrashes, MaxExpired} \subseteq Nat

VARIABLES
  (* durable: the loops table and the session *)
  status,         \* loops.status
  ran,            \* loops.ticks_run
  streak,         \* loops.consecutive_failures
  archived,       \* has the session been archived?
  (* in memory: lost by a crash *)
  armed,          \* LoopController.drivers: the driver registered per loop
  pc,             \* where each driver is in `drive`
  home,           \* the loop a driver drives
  ticks, fails,   \* the driver's own copies of ticks_run, consecutive_failures
  result,         \* the completion sent to the driver's one-shot channel
  stopped,        \* drivers whose cancellation token has fired
  lock,           \* the session's turn lock
  waiting,        \* the driver that awaits the completion of the turn
  stage,          \* how far each operator request got
  subject,        \* the loop a request is about
  snap,           \* the ticks_run a resume request read
  boot,           \* is the process booting, before it serves requests?
  (* the environment *)
  expired,        \* rows whose expires_at has passed
  overspent,      \* rows whose session has burned max_total_tokens
  faults, drops, crashes,
  (* history *)
  fired,          \* turns started for a loop (saturating)
  late            \* those started after the row was terminal (saturating)

rows     == <<status, ran, streak>>
drivers  == <<pc, home, ticks, fails, result, stopped>>
turn     == <<lock, waiting>>
requests == <<stage, subject, snap>>
limits   == <<expired, overspent>>
world    == <<faults, drops, crashes>>
history  == <<fired, late>>
vars     == <<rows, archived, armed, drivers, turn, requests, boot, limits,
              world, history>>

Live     == {"active", "paused"}
Terminal == {"done", "cancelled", "failed", "budget_exhausted"}
Status   == {"absent"} \cup Live \cup Terminal

(* The terminal status a driver is about to write, by where it is. *)
Ending == [exhaust |-> "budget_exhausted", finish |-> "done",
           gone |-> "cancelled", fail |-> "failed"]
Places == {"free", "gate", "sleep", "starting", "setup", "turn", "record",
           "countDone", "countPause", "pause", "leave"} \cup DOMAIN Ending
Stages == {"idle", "checked", "inserted", "terminalised", "read", "resumed"}

TypeOK ==
  /\ status \in [Loop -> Status]
  /\ ran \in [Loop -> Nat]
  /\ streak \in [Loop -> Nat]
  /\ archived \in BOOLEAN
  /\ armed \in [Loop -> Driver \cup {NoDriver}]
  /\ pc \in [Driver -> Places]
  /\ home \in [Driver -> Loop \cup {NoLoop}]
  /\ ticks \in [Driver -> Nat]
  /\ fails \in [Driver -> Nat]
  /\ result \in [Driver -> {"none", "ok", "done", "pause", "error"}]
  /\ stopped \subseteq Driver
  /\ lock \in {"free", "operator", "tick"}
  /\ waiting \in Driver \cup {NoDriver}
  /\ stage \in [Req -> Stages]
  /\ subject \in [Req -> Loop \cup {NoLoop}]
  /\ snap \in [Req -> Nat]
  /\ boot \in BOOLEAN
  /\ expired \subseteq Loop
  /\ overspent \subseteq Loop
  /\ {faults, drops, crashes} \subseteq Nat
  /\ fired \in [Loop -> Nat]
  /\ late \in [Loop -> Nat]

Init ==
  /\ status = [l \in Loop |-> "absent"]
  /\ ran = [l \in Loop |-> 0]
  /\ streak = [l \in Loop |-> 0]
  /\ archived = FALSE
  /\ armed = [l \in Loop |-> NoDriver]
  /\ pc = [d \in Driver |-> "free"]
  /\ home = [d \in Driver |-> NoLoop]
  /\ ticks = [d \in Driver |-> 0]
  /\ fails = [d \in Driver |-> 0]
  /\ result = [d \in Driver |-> "none"]
  /\ stopped = {}
  /\ lock = "free"
  /\ waiting = NoDriver
  /\ stage = [q \in Req |-> "idle"]
  /\ subject = [q \in Req |-> NoLoop]
  /\ snap = [q \in Req |-> 0]
  /\ boot = FALSE
  /\ expired = {}
  /\ overspent = {}
  /\ faults = 0
  /\ drops = 0
  /\ crashes = 0
  /\ fired = [l \in Loop |-> 0]
  /\ late = [l \in Loop |-> 0]

-----------------------------------------------------------------------------
(* Mutated forms: plausible mistakes in the helpers below, each of which a *)
(* property must catch.                                                    *)

RecordTickCountOnly(d) ==
  /\ ran' = IF status[home[d]] = "active"
            THEN [ran EXCEPT ![home[d]] = ticks[d]] ELSE ran
  /\ UNCHANGED streak
ResumableWhenever(l) == status[l] # "active"
TickCountedLate(d, n, f) ==
  /\ ticks' = [ticks EXCEPT ![d] = n]
  /\ fails' = [fails EXCEPT ![d] = f]
  /\ pc' = [pc EXCEPT ![d] = IF f > FailureLimit THEN "fail" ELSE "record"]
TtlForgotten(d) == FALSE
OverBudgetByOne(d) == ticks[d] > MaxTicks \/ home[d] \in expired
FreeSlotForgotten(d) == UNCHANGED armed
NoActiveLoop == \A l \in Loop : status[l] # "active"
StopForgetsToken(l) ==
  /\ armed' = [armed EXCEPT ![l] = NoDriver]
  /\ UNCHANGED stopped
AfterRecordAlways(d) == "gate"

-----------------------------------------------------------------------------
(* Helpers *)

StorageFault == faults < MaxFaults /\ faults' = faults + 1

Goto(d, place) == pc' = [pc EXCEPT ![d] = place]

(* The largest count a well-behaved loop can reach, plus one. *)
Saturation == MaxTicks + MaxFaults + MaxCrashes + 1
CountUp(f, l, top) == [f EXCEPT ![l] = IF @ < top THEN @ + 1 ELSE @]

(* store.record_tick: only an active row takes the driver's counters. *)
RecordTick(d) ==
  IF status[home[d]] = "active"
  THEN /\ ran' = [ran EXCEPT ![home[d]] = ticks[d]]
       /\ streak' = [streak EXCEPT ![home[d]] = fails[d]]
  ELSE UNCHANGED <<ran, streak>>

(* store.terminalise: moves a live row, leaves a terminal one alone. *)
Terminalise(l, to) ==
  status' = IF status[l] \in Live THEN [status EXCEPT ![l] = to] ELSE status

(* store.resume: moves a paused row and clears its failures. *)
Resumable(l) == status[l] = "paused"

(* LoopController::arm: a no-op when the loop has a driver in the map. *)
Arm(l, n, f) ==
  \/ /\ armed[l] # NoDriver
     /\ UNCHANGED <<armed, drivers>>
  \/ /\ armed[l] = NoDriver
     /\ \E d \in Driver :
          /\ pc[d] = "free"
          /\ armed' = [armed EXCEPT ![l] = d]
          /\ Goto(d, "gate")
          /\ home' = [home EXCEPT ![d] = l]
          /\ ticks' = [ticks EXCEPT ![d] = n]
          /\ fails' = [fails EXCEPT ![d] = f]
          /\ UNCHANGED <<result, stopped>>

(* The end of a tick that was not ended by the agent: the failure breaker, *)
(* then the bookkeeping write.                                             *)
TickCounted(d, n, f) ==
  /\ ticks' = [ticks EXCEPT ![d] = n]
  /\ fails' = [fails EXCEPT ![d] = f]
  /\ Goto(d, IF f >= FailureLimit THEN "fail" ELSE "record")

(* Where the bookkeeping write leads: a row that is no longer active ends  *)
(* the driver.                                                             *)
AfterRecord(d) == IF status[home[d]] = "active" THEN "gate" ELSE "leave"

(* The budget gates before a sleep; the ttl is checked again after it. *)
PastTtl(d) == home[d] \in expired
OverBudget(d) == ticks[d] >= MaxTicks \/ PastTtl(d)

(* What cancel does to the driver in the map. *)
StopDriver(l) ==
  /\ armed' = [armed EXCEPT ![l] = NoDriver]
  /\ stopped' = IF armed[l] = NoDriver THEN stopped
                ELSE stopped \cup {armed[l]}

(* The unique index loops_one_live_per_session. *)
NoLiveLoop == \A l \in Loop : status[l] \notin Live

(* DriverSlot::drop removes the map entry by loop id, whoever it names. *)
FreeSlot(d) == armed' = [armed EXCEPT ![home[d]] = NoDriver]

-----------------------------------------------------------------------------
(* The driver task *)

GateTrips(d) ==
  /\ pc[d] = "gate"
  /\ OverBudget(d) \/ home[d] \in overspent
  /\ Goto(d, "exhaust")
  /\ UNCHANGED <<rows, archived, armed, home, ticks, fails, result, stopped,
                 turn, requests, boot, limits, world, history>>

(* A token query that fails lets the tick proceed. *)
GatePasses(d) ==
  /\ pc[d] = "gate"
  /\ ~OverBudget(d)
  /\ IF home[d] \in overspent THEN StorageFault ELSE UNCHANGED faults
  /\ Goto(d, "sleep")
  /\ UNCHANGED <<rows, archived, armed, home, ticks, fails, result, stopped,
                 turn, requests, boot, limits, drops, crashes, history>>

(* The sleep ends; select! may pick it over a cancellation. *)
Wake(d) ==
  /\ pc[d] = "sleep"
  /\ Goto(d, IF PastTtl(d) THEN "exhaust" ELSE "starting")
  /\ UNCHANGED <<rows, archived, armed, home, ticks, fails, result, stopped,
                 turn, requests, boot, limits, world, history>>

(* The token fires while the driver sleeps or waits for its turn, which    *)
(* then runs on without it.                                                *)
SeeCancel(d) ==
  /\ pc[d] \in {"sleep", "turn"}
  /\ d \in stopped
  /\ Goto(d, "leave")
  /\ waiting' = IF waiting = d THEN NoDriver ELSE waiting
  /\ UNCHANGED <<rows, archived, armed, home, ticks, fails, result, stopped,
                 lock, requests, boot, limits, world, history>>

(* run_turn takes the session's turn lock, before its first write. *)
StartTick(d) ==
  LET l == home[d] IN
  /\ pc[d] = "starting"
  /\ ~archived
  /\ lock = "free"
  /\ lock' = "tick"
  /\ Goto(d, "setup")
  /\ fired' = CountUp(fired, l, Saturation)
  /\ late' = IF status[l] \in Terminal THEN CountUp(late, l, 2) ELSE late
  /\ UNCHANGED <<rows, archived, armed, home, ticks, fails, result, stopped,
                 waiting, requests, boot, limits, world>>

(* A tick that collides with a turn in flight is skipped, not queued. *)
SkipTick(d) ==
  /\ pc[d] = "starting"
  /\ ~archived
  /\ lock # "free"
  /\ TickCounted(d, ticks[d], fails[d])
  /\ UNCHANGED <<rows, archived, armed, home, result, stopped, turn,
                 requests, boot, limits, world, history>>

SessionGone(d) ==
  /\ pc[d] = "starting"
  /\ archived
  /\ Goto(d, "gone")
  /\ UNCHANGED <<rows, archived, armed, home, ticks, fails, result, stopped,
                 turn, requests, boot, limits, world, history>>

(* run_turn fails: before it has the lock, or after (the user message, the *)
(* history or the HotL budget check), when its guard frees the lock.       *)
TurnRefused(d) ==
  /\ pc[d] \in {"starting", "setup"}
  /\ TickCounted(d, ticks[d] + 1, fails[d] + 1)
  /\ lock' = IF pc[d] = "setup" THEN "free" ELSE lock
  /\ UNCHANGED <<rows, archived, armed, home, result, stopped, waiting,
                 requests, boot, limits, world, history>>

TurnSpawned(d) ==
  /\ pc[d] = "setup"
  /\ Goto(d, "turn")
  /\ waiting' = d
  /\ UNCHANGED <<rows, archived, armed, home, ticks, fails, result, stopped,
                 lock, requests, boot, limits, world, history>>

(* The completion arrives: plain success, failure, or the agent's wish to  *)
(* end or to pause the loop.                                               *)
TakeCompletion(d) ==
  /\ pc[d] = "turn"
  /\ CASE result[d] = "ok" -> TickCounted(d, ticks[d] + 1, 0)
       [] result[d] = "error" -> TickCounted(d, ticks[d] + 1, fails[d] + 1)
       [] result[d] \in {"done", "pause"} ->
            /\ ticks' = [ticks EXCEPT ![d] = @ + 1]
            /\ fails' = [fails EXCEPT ![d] = 0]
            /\ Goto(d, IF result[d] = "done" THEN "countDone" ELSE "countPause")
       [] OTHER -> FALSE
  /\ result' = [result EXCEPT ![d] = "none"]
  /\ UNCHANGED <<rows, archived, armed, home, stopped, turn, requests, boot,
                 limits, world, history>>

(* persist_tick_count, best effort, before the status moves. *)
PersistTickCount(d) ==
  /\ pc[d] \in {"countDone", "countPause"}
  /\ \/ RecordTick(d) /\ UNCHANGED faults
     \/ StorageFault /\ UNCHANGED <<ran, streak>>
  /\ Goto(d, IF pc[d] = "countDone" THEN "finish" ELSE "pause")
  /\ UNCHANGED <<status, archived, armed, home, ticks, fails, result, stopped,
                 turn, requests, boot, limits, drops, crashes, history>>

(* terminalise_with_audit, then the final message and the way out. *)
TerminaliseRow(d) ==
  /\ pc[d] \in DOMAIN Ending
  /\ \/ Terminalise(home[d], Ending[pc[d]]) /\ UNCHANGED faults
     \/ StorageFault /\ UNCHANGED status
  /\ Goto(d, "leave")
  /\ UNCHANGED <<ran, streak, archived, armed, home, ticks, fails, result,
                 stopped, turn, requests, boot, limits, drops, crashes,
                 history>>

(* pause_with_audit: only an active row pauses. *)
PauseRow(d) ==
  /\ pc[d] = "pause"
  /\ \/ /\ status' = IF status[home[d]] = "active"
                     THEN [status EXCEPT ![home[d]] = "paused"] ELSE status
        /\ UNCHANGED faults
     \/ StorageFault /\ UNCHANGED status
  /\ Goto(d, "leave")
  /\ UNCHANGED <<ran, streak, archived, armed, home, ticks, fails, result,
                 stopped, turn, requests, boot, limits, drops, crashes,
                 history>>

(* The bookkeeping write after a tick; a failing store parks the driver. *)
Record(d) ==
  /\ pc[d] = "record"
  /\ \/ /\ RecordTick(d)
        /\ Goto(d, AfterRecord(d))
        /\ UNCHANGED faults
     \/ /\ StorageFault
        /\ Goto(d, "leave")
        /\ UNCHANGED <<ran, streak>>
  /\ UNCHANGED <<status, archived, armed, home, ticks, fails, result, stopped,
                 turn, requests, boot, limits, drops, crashes, history>>

(* The audit entry and the final message are written; the slot drops. *)
Leave(d) ==
  /\ pc[d] = "leave"
  /\ FreeSlot(d)
  /\ Goto(d, "free")
  /\ home' = [home EXCEPT ![d] = NoLoop]
  /\ ticks' = [ticks EXCEPT ![d] = 0]
  /\ fails' = [fails EXCEPT ![d] = 0]
  /\ result' = [result EXCEPT ![d] = "none"]
  /\ stopped' = stopped \ {d}
  /\ UNCHANGED <<rows, archived, turn, requests, boot, limits, world, history>>

-----------------------------------------------------------------------------
(* The turns on the session *)

OperatorTurn ==
  /\ ~boot
  /\ ~archived
  /\ lock = "free"
  /\ lock' = "operator"
  /\ UNCHANGED <<rows, archived, armed, drivers, waiting, requests, boot,
                 limits, world, history>>

(* A turn ends: the guard drops, then the completion is sent to the driver *)
(* if it still waits.  The turn's tokens may exhaust a loop's budget.      *)
TurnEnds ==
  /\ \/ lock = "operator"
     \/ lock = "tick" /\ \A d \in Driver : pc[d] # "setup"
  /\ lock' = "free"
  /\ waiting' = NoDriver
  /\ IF waiting = NoDriver THEN UNCHANGED result
     ELSE \E r \in {"ok", "done", "pause", "error"} :
            result' = [result EXCEPT ![waiting] = r]
  /\ \E S \in SUBSET {l \in Loop : status[l] # "absent"} :
       overspent' = overspent \cup S
  /\ UNCHANGED <<rows, archived, armed, pc, home, ticks, fails, stopped,
                 requests, boot, expired, world, history>>

-----------------------------------------------------------------------------
(* The operators' requests *)

Advance(q, to, l) ==
  /\ stage' = [stage EXCEPT ![q] = to]
  /\ subject' = [subject EXCEPT ![q] = IF to = "idle" THEN NoLoop ELSE l]

(* create: the session is looked up, the row inserted (the unique index    *)
(* refuses a second live loop), the audit entry awaited, the driver armed. *)
CreateCheck(q) ==
  /\ ~boot
  /\ stage[q] = "idle"
  /\ ~archived
  /\ stage' = [stage EXCEPT ![q] = "checked"]
  /\ UNCHANGED <<rows, archived, armed, drivers, turn, subject, snap, boot,
                 limits, world, history>>

CreateInsert(q, l) ==
  /\ stage[q] = "checked"
  /\ status[l] = "absent"
  /\ NoLiveLoop
  /\ status' = [status EXCEPT ![l] = "active"]
  /\ Advance(q, "inserted", l)
  /\ UNCHANGED <<ran, streak, archived, armed, drivers, turn, snap, boot,
                 limits, world, history>>

(* The insert hits the unique index, or the store fails. *)
CreateRefused(q) ==
  /\ stage[q] = "checked"
  /\ IF NoLiveLoop THEN StorageFault ELSE UNCHANGED faults
  /\ Advance(q, "idle", NoLoop)
  /\ UNCHANGED <<rows, archived, armed, drivers, turn, snap, boot, limits,
                 drops, crashes, history>>

CreateArm(q) ==
  /\ stage[q] = "inserted"
  /\ Arm(subject[q], 0, 0)
  /\ Advance(q, "idle", NoLoop)
  /\ UNCHANGED <<rows, archived, turn, snap, boot, limits, world, history>>

(* cancel: the row first, then the driver's map entry and its token.  A    *)
(* row that is already terminal ends the request.                          *)
CancelTerminalise(q, l) ==
  /\ ~boot
  /\ stage[q] = "idle"
  /\ status[l] \in Live
  /\ Terminalise(l, "cancelled")
  /\ Advance(q, "terminalised", l)
  /\ UNCHANGED <<ran, streak, archived, armed, drivers, turn, snap, boot,
                 limits, world, history>>

CancelStop(q) ==
  /\ stage[q] = "terminalised"
  /\ StopDriver(subject[q])
  /\ Advance(q, "idle", NoLoop)
  /\ UNCHANGED <<rows, archived, pc, home, ticks, fails, result, turn, snap,
                 boot, limits, world, history>>

(* resume: the row is read, moved back to active if it is still paused,    *)
(* the audit entry awaited, and a driver armed with the row that was read. *)
ResumeRead(q, l) ==
  /\ ~boot
  /\ stage[q] = "idle"
  /\ status[l] = "paused"
  /\ Advance(q, "read", l)
  /\ snap' = [snap EXCEPT ![q] = ran[l]]
  /\ UNCHANGED <<rows, archived, armed, drivers, turn, boot, limits, world,
                 history>>

ResumeStore(q) ==
  LET l == subject[q] IN
  /\ stage[q] = "read"
  /\ Resumable(l)
  /\ status' = [status EXCEPT ![l] = "active"]
  /\ streak' = [streak EXCEPT ![l] = 0]
  /\ Advance(q, "resumed", l)
  /\ UNCHANGED <<ran, archived, armed, drivers, turn, snap, boot, limits,
                 world, history>>

(* The row has moved on since it was read, or the store fails. *)
ResumeRefused(q) ==
  /\ stage[q] = "read"
  /\ IF Resumable(subject[q]) THEN StorageFault ELSE UNCHANGED faults
  /\ Advance(q, "idle", NoLoop)
  /\ snap' = [snap EXCEPT ![q] = 0]
  /\ UNCHANGED <<rows, archived, armed, drivers, turn, boot, limits, drops,
                 crashes, history>>

ResumeArm(q) ==
  /\ stage[q] = "resumed"
  /\ Arm(subject[q], snap[q], 0)
  /\ Advance(q, "idle", NoLoop)
  /\ snap' = [snap EXCEPT ![q] = 0]
  /\ UNCHANGED <<rows, archived, turn, boot, limits, world, history>>

(* The client disconnects and the handler's future is dropped mid-way. *)
DropRequest(q) ==
  /\ stage[q] # "idle"
  /\ drops < MaxDrops
  /\ drops' = drops + 1
  /\ Advance(q, "idle", NoLoop)
  /\ snap' = [snap EXCEPT ![q] = 0]
  /\ UNCHANGED <<rows, archived, armed, drivers, turn, boot, limits, faults,
                 crashes, history>>

-----------------------------------------------------------------------------
(* The process and the environment *)

Crash ==
  /\ crashes < MaxCrashes
  /\ crashes' = crashes + 1
  /\ boot' = TRUE
  /\ armed' = [l \in Loop |-> NoDriver]
  /\ pc' = [d \in Driver |-> "free"]
  /\ home' = [d \in Driver |-> NoLoop]
  /\ ticks' = [d \in Driver |-> 0]
  /\ fails' = [d \in Driver |-> 0]
  /\ result' = [d \in Driver |-> "none"]
  /\ stopped' = {}
  /\ lock' = "free"
  /\ waiting' = NoDriver
  /\ stage' = [q \in Req |-> "idle"]
  /\ subject' = [q \in Req |-> NoLoop]
  /\ snap' = [q \in Req |-> 0]
  /\ UNCHANGED <<rows, archived, limits, faults, drops, history>>

(* replay_from_storage, before requests are served.  The unique index      *)
(* leaves at most one active row in the session.                           *)
ReplayRow(l) ==
  \/ /\ l \notin expired
     /\ Arm(l, ran[l], streak[l])
     /\ UNCHANGED <<status, faults>>
  \/ /\ l \in expired
     /\ \/ Terminalise(l, "budget_exhausted") /\ UNCHANGED faults
        \/ StorageFault /\ UNCHANGED status
     /\ UNCHANGED <<armed, drivers>>

Replay ==
  /\ boot
  /\ boot' = FALSE
  /\ \/ \E l \in Loop : status[l] = "active" /\ ReplayRow(l)
     \/ /\ IF \E l \in Loop : status[l] = "active"
           THEN StorageFault ELSE UNCHANGED faults
        /\ UNCHANGED <<status, armed, drivers>>
  /\ UNCHANGED <<ran, streak, archived, turn, requests, limits, drops,
                 crashes, history>>

Archive ==
  /\ ~boot
  /\ ~archived
  /\ archived' = TRUE
  /\ UNCHANGED <<rows, armed, drivers, turn, requests, boot, limits, world,
                 history>>

(* A row's expires_at passes. *)
Expire(l) ==
  /\ status[l] # "absent"
  /\ l \notin expired /\ Cardinality(expired) < MaxExpired
  /\ expired' = expired \cup {l}
  /\ UNCHANGED <<rows, archived, armed, drivers, turn, requests, boot,
                 overspent, world, history>>

-----------------------------------------------------------------------------

DriverStep(d) ==
  \/ GateTrips(d) \/ GatePasses(d) \/ Wake(d) \/ SeeCancel(d)
  \/ StartTick(d) \/ SkipTick(d) \/ SessionGone(d)
  \/ TurnRefused(d) \/ TurnSpawned(d) \/ TakeCompletion(d)
  \/ PersistTickCount(d) \/ TerminaliseRow(d) \/ PauseRow(d)
  \/ Record(d) \/ Leave(d)

(* What a request does once it is under way. *)
RequestStep(q) ==
  \/ \E l \in Loop : CreateInsert(q, l)
  \/ CreateRefused(q) \/ CreateArm(q)
  \/ CancelStop(q)
  \/ ResumeStore(q) \/ ResumeRefused(q) \/ ResumeArm(q)

NewRequest(q) ==
  \/ CreateCheck(q)
  \/ \E l \in Loop : CancelTerminalise(q, l) \/ ResumeRead(q, l)

Next ==
  \/ \E d \in Driver : DriverStep(d)
  \/ \E q \in Req : RequestStep(q) \/ NewRequest(q) \/ DropRequest(q)
  \/ OperatorTurn \/ TurnEnds
  \/ Crash \/ Replay \/ Archive
  \/ \E l \in Loop : Expire(l)

(* Tokio runs every ready task; a turn ends (the model backends and the    *)
(* tool calls are bounded); the clock reaches every expires_at.            *)
Fairness ==
  /\ \A d \in Driver : WF_vars(DriverStep(d))
  /\ \A q \in Req : WF_vars(RequestStep(q))
  /\ WF_vars(TurnEnds)
  /\ WF_vars(Replay)
  /\ \A l \in Loop : WF_vars(Expire(l))

Spec == Init /\ [][Next]_vars
LiveSpec == Spec /\ Fairness

-----------------------------------------------------------------------------
(* Properties *)

(* A driver that may still fire a tick or move the row. *)
Driving(d) == pc[d] \notin {"free", "leave"}

(* A driver between two bookkeeping writes, before its tick is counted. *)
Ticking(d) == pc[d] \in {"gate", "sleep", "starting", "setup", "turn"}

(* An active row that nothing will ever tick, short of a restart. *)
Stranded(l) ==
  /\ status[l] = "active"
  /\ ~boot
  /\ \A d \in Driver : ~(home[d] = l /\ Driving(d))
  /\ \A q \in Req : ~(subject[q] = l /\ stage[q] \in {"inserted", "resumed"})

(* At most one loop of a session is live, a paused one included, whatever  *)
(* creates and resumes overlap (the index of migration 0029).              *)
OneLiveLoop ==
  \A k, l \in Loop : status[k] \in Live /\ status[l] \in Live => k = l

(* A map entry names a running driver of that loop: a stale entry would    *)
(* block re-arming until a restart (DriverSlot).                           *)
SlotIsTrue ==
  \A l \in Loop : armed[l] # NoDriver => /\ home[armed[l]] = l
                                         /\ pc[armed[l]] # "free"

(* Two drivers never tick the same loop, although the map entry is removed *)
(* by id and by three different actors (arm, cancel, DriverSlot::drop).    *)
SoleTicker ==
  \A c, d \in Driver :
    Driving(c) /\ Driving(d) /\ home[c] = home[d] => c = d

(* A loop whose row is terminal fires at most one more tick, whichever way *)
(* a cancel raced the driver, its arming or its bookkeeping.               *)
LateTickBounded == \A l \in Loop : late[l] <= 1

(* No driver goes on after FailureLimit failures in a row, and no row says *)
(* it did: the breaker fires before the bookkeeping write.                 *)
BreakerHolds ==
  /\ \A l \in Loop : streak[l] < FailureLimit
  /\ \A d \in Driver : Ticking(d) \/ pc[d] = "record" => fails[d] < FailureLimit

(* Between two writes the driver's in-memory counters are the row's, so    *)
(* the budget gate judges what is stored.  With overlapping resumes they   *)
(* need not be: the slower one arms a driver with the counters it read.    *)
CopyIsFresh ==
  \A d \in Driver :
    Ticking(d) /\ status[home[d]] = "active" =>
      ran[home[d]] = ticks[d] /\ streak[home[d]] = fails[d]

(* max_ticks bounds the turns a loop starts; a crash or a failed write     *)
(* may lose the count of one tick each (persist_tick_count's note).        *)
BudgetHolds == \A l \in Loop : fired[l] <= MaxTicks + faults + crashes

(* Once a cancel has run to its end, every driver of the loop has stopped  *)
(* or has been told to ("terminalise the row, stop its driver"); no client *)
(* went away, which drops a cancel between the two.                        *)
CancelStopsDriver ==
  drops = 0 => \A l \in Loop :
    status[l] = "cancelled"
      /\ (\A q \in Req : ~(subject[q] = l /\ stage[q] = "terminalised"))
    => \A d \in Driver : home[d] = l /\ Driving(d) => d \in stopped

(* No step revives a terminal row or alters its counters: late bookkeeping *)
(* of a cancelled loop is discarded.                                       *)
TerminalIsFinal ==
  [][\A l \in Loop : status[l] \in Terminal =>
       /\ status'[l] = status[l]
       /\ ran'[l] = ran[l]
       /\ streak'[l] = streak[l]]_vars

(* A loop is stranded in three ways only: a failed write, a dropped        *)
(* request, or a resume that finds the pausing driver still in the map.    *)
Overtaken(l) ==
  /\ armed[l] # NoDriver
  /\ pc[armed[l]] = "leave"
  /\ \E q \in Req : subject[q] = l /\ stage[q] = "resumed"
StrandedOnlyBy ==
  [][\A l \in Loop : ~Stranded(l) /\ Stranded(l)' =>
       faults' > faults \/ drops' > drops \/ Overtaken(l)]_vars

(* The ttl is a backstop: an active loop ends or pauses unless stranded. *)
ActiveLoopEnds ==
  \A l \in Loop : status[l] = "active" ~> status[l] # "active" \/ Stranded(l)

=============================================================================
