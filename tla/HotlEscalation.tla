--------------------------- MODULE HotlEscalation ---------------------------
(***************************************************************************)
(* The suspend/resume protocol of human-on-the-loop (HotL) supervision:    *)
(* a tool call that trips a budget is parked on a one-shot channel until   *)
(* an operator decides, the escalation expires, or the turn is cancelled.  *)
(*                                                                         *)
(* Four kinds of concurrent actors share the state:                        *)
(*   - the agent loop: SuspendingHotlGate::check_with_args mints an        *)
(*     escalation, persists it and installs a waiter; the loop then blocks *)
(*     in HotlSuspensionTicket::await_decision;                            *)
(*   - the operators: each POST /v1/hotl/decisions is a chain of awaited   *)
(*     steps, and any number of them may be under way;                     *)
(*   - one sleeper task per installed waiter, woken at the deadline;       *)
(*   - the process, which may crash at any point and replays the durable   *)
(*     rows into a fresh registry when it boots.                           *)
(* Everything between two awaits of the code is one action here.           *)
(***************************************************************************)
EXTENDS Integers, FiniteSets

CONSTANTS
  Esc,            \* escalation ids; each is used by one tool call
  Post,           \* the operators' POST /v1/hotl/decisions requests
  Window,         \* the expiry window of an escalation, in ticks
  MaxTime,        \* bound on the clock
  MaxFaults,      \* bound on the number of storage failures
  MaxCrashes      \* bound on the number of crashes

ASSUME ConstantsAssumption ==
  /\ IsFiniteSet(Esc)
  /\ Window \in Nat \ {0}
  /\ {MaxTime, MaxFaults, MaxCrashes} \subseteq Nat

VARIABLES
  (* durable: the SQLite tables *)
  row,            \* hotl_pending.status of each escalation
  expires,        \* hotl_pending.expires_at, also the ticket's deadline
  ledger,         \* hotl_decisions: the operator's verdict, unique per id
  (* in memory: lost by a crash *)
  boot,           \* the process: down, replaying the store, or up
  listed,         \* the rows the boot replay's query returned
  waiters,        \* keys of DecisionRegistry.waiters
  gauge,          \* xiaoguai_hotl_suspended_loops
  sleeper,        \* the task spawned per waiter
  sent,           \* the value in the one-shot channel of each ticket
  call,           \* the tool call that was escalated
  cancelled,      \* calls whose turn's CancellationToken has fired
  stage,          \* how far each operator request got
  (* the requests themselves, fixed from the start *)
  target, verdict,
  (* the environment *)
  now, faults, crashes

store    == <<row, expires, ledger>>
process  == <<boot, listed>>
registry == <<waiters, gauge, sleeper>>
agent    == <<call, cancelled>>
requests == <<target, verdict>>
world    == <<now, faults, crashes>>
vars     == <<store, process, registry, sent, agent, stage, requests, world>>

RowStatus   == {"absent", "pending", "resolved", "expired"}
CallStatus  == {"idle", "minted", "persisted", "parked",
                "dispatched", "denied", "timedout", "cancelled", "refused", "lost"}
CallEnded   == {"dispatched", "denied", "timedout", "cancelled", "refused", "lost"}
Stages      == {"unsent", "looked", "recorded", "persisted",
                "resumed", "unresumed", "rejected", "failed", "lost"}
StageActive == {"looked", "recorded", "persisted"}
Verdict     == {"allow", "deny"}

TypeOK ==
  /\ row \in [Esc -> RowStatus]
  /\ expires \in [Esc -> Nat]
  /\ ledger \in [Esc -> Verdict \cup {"none"}]
  /\ boot \in {"down", "replaying", "up"}
  /\ listed \subseteq Esc
  /\ waiters \subseteq Esc
  /\ gauge \in Int
  /\ sleeper \in [Esc -> {"none", "armed", "firing"}]
  /\ sent \in [Esc -> Verdict \cup {"nothing", "timeout"}]
  /\ call \in [Esc -> CallStatus]
  /\ cancelled \subseteq Esc
  /\ stage \in [Post -> Stages]
  /\ target \in [Post -> Esc]
  /\ verdict \in [Post -> Verdict]
  /\ now \in Nat
  /\ faults \in Nat
  /\ crashes \in Nat

Init ==
  /\ row = [e \in Esc |-> "absent"]
  /\ expires = [e \in Esc |-> 0]
  /\ ledger = [e \in Esc |-> "none"]
  /\ boot = "up"
  /\ listed = {}
  /\ waiters = {}
  /\ gauge = 0
  /\ sleeper = [e \in Esc |-> "none"]
  /\ sent = [e \in Esc |-> "nothing"]
  /\ call = [e \in Esc |-> "idle"]
  /\ cancelled = {}
  /\ stage = [p \in Post |-> "unsent"]
  /\ target \in [Post -> Esc]
  /\ verdict \in [Post -> Verdict]
  /\ now = 0
  /\ faults = 0
  /\ crashes = 0

-----------------------------------------------------------------------------
(* Mutated forms: plausible mistakes in the helpers below, each of which a *)
(* property must catch.                                                    *)

DecisionIgnoresDeadline(e) == row[e] = "pending"
TerminaliseAnyStatus(e) == row' = [row EXCEPT ![e] = "expired"]
ReceiverAssumedAlive(e) == TRUE
TakeSlotSilently(e, v) ==
  /\ waiters' = waiters \ {e}
  /\ gauge' = IF e \in waiters THEN gauge - 1 ELSE gauge
  /\ UNCHANGED sent
TakeSlotAlwaysCounts(e, v) ==
  /\ waiters' = waiters \ {e}
  /\ gauge' = gauge - 1
  /\ sent' = IF e \in waiters /\ call[e] = "parked"
             THEN [sent EXCEPT ![e] = v] ELSE sent
ReattachWithoutSleeper(S) ==
  /\ waiters' = S
  /\ gauge' = Cardinality(S)
  /\ sleeper' = [e \in Esc |-> "none"]
CallAfterFallsThrough(v) == IF v = "deny" THEN "denied" ELSE "dispatched"
CallAfterAsksAgain(v) == IF v = "allow" THEN "dispatched" ELSE "parked"

-----------------------------------------------------------------------------
(* Helpers *)

Unexpired(e) == now < expires[e]

StorageFault == faults < MaxFaults /\ faults' = faults + 1

MoveCall(e, from, to) ==
  /\ call[e] = from
  /\ call' = [call EXCEPT ![e] = to]

MovePost(p, from, to) ==
  /\ stage[p] = from
  /\ stage' = [stage EXCEPT ![p] = to]

(* HotlEscalationStore::lookup answers Pending.                            *)
LookupPending(e) == row[e] = "pending" /\ Unexpired(e)

(* The WHERE clause of record_decision.                                    *)
DecisionMatches(e) == row[e] = "pending" /\ Unexpired(e)

(* terminalise: guarded on the status only.                                *)
Terminalise(e) ==
  row' = IF row[e] = "pending" THEN [row EXCEPT ![e] = "expired"] ELSE row

(* A receiver is alive from the moment the ticket is minted until the loop *)
(* stops awaiting it; a replayed slot's ticket is dropped at once.         *)
ReceiverAlive(e) == call[e] = "parked"

(* waiters.remove(id), then sender.send(v) and gauge.dec(): no await       *)
(* separates them.  Without a slot there is nothing to send.               *)
TakeSlot(e, v) ==
  IF e \in waiters
  THEN /\ waiters' = waiters \ {e}
       /\ gauge' = gauge - 1
       /\ sent' = IF ReceiverAlive(e) THEN [sent EXCEPT ![e] = v] ELSE sent
  ELSE UNCHANGED <<waiters, gauge, sent>>

(* The slots of a boot replay, each with its sleeper.                      *)
ReattachSlots(S) ==
  /\ waiters' = S
  /\ gauge' = Cardinality(S)
  /\ sleeper' = [e \in Esc |-> IF e \in S THEN "armed" ELSE "none"]

(* What dispatch_tools does with the verdict of a ticket.                  *)
CallAfter(v) ==
  CASE v = "allow"   -> "dispatched"
    [] v = "deny"    -> "denied"
    [] v = "timeout" -> "timedout"

-----------------------------------------------------------------------------
(* The gate and the agent loop *)

(* The enforcer said Escalate: the gate loads the redaction rules, mints   *)
(* an id and computes the deadline before it persists anything.            *)
CheckWithArgs(e) ==
  /\ boot = "up"
  /\ now + Window <= MaxTime       \* bound: every deadline can pass
  /\ MoveCall(e, "idle", "minted")
  /\ expires' = [expires EXCEPT ![e] = now + Window]
  /\ UNCHANGED <<row, ledger, process, registry, sent, cancelled, stage,
                 requests, world>>

(* The redaction rules cannot be loaded, or redaction is required and no   *)
(* rule matches: deny without escalating.                                  *)
GateFailsClosed(e) ==
  /\ boot = "up"
  /\ MoveCall(e, "idle", "refused")
  /\ UNCHANGED <<store, process, registry, sent, cancelled, stage, requests,
                 world>>

InsertPending(e) ==
  /\ MoveCall(e, "minted", "persisted")
  /\ row' = [row EXCEPT ![e] = "pending"]
  /\ UNCHANGED <<expires, ledger, process, registry, sent, cancelled, stage,
                 requests, world>>

InsertPendingFails(e) ==        \* rolled back; the gate denies the call
  /\ MoveCall(e, "minted", "refused")
  /\ StorageFault
  /\ UNCHANGED <<store, process, registry, sent, cancelled, stage, requests,
                 now, crashes>>

(* The rest of register_persisted.  The row has been committed, and so     *)
(* been visible to operators, since InsertPending.                         *)
InstallWaiter(e) ==
  /\ MoveCall(e, "persisted", "parked")
  /\ waiters' = waiters \cup {e}
  /\ gauge' = gauge + 1
  /\ sleeper' = [sleeper EXCEPT ![e] = "armed"]
  /\ UNCHANGED <<store, process, sent, cancelled, stage, requests, world>>

CancelTurn(e) ==
  /\ boot = "up"
  /\ call[e] \notin CallEnded
  /\ cancelled' = cancelled \cup {e}
  /\ UNCHANGED <<store, process, registry, sent, call, stage, requests, world>>

(* The biased select of await_decision: the cancel token is polled first,  *)
(* then the channel, then the ticket's own deadline.                       *)
AwaitCancelled(e) ==
  /\ e \in cancelled
  /\ MoveCall(e, "parked", "cancelled")
  /\ UNCHANGED <<store, process, registry, sent, cancelled, stage, requests,
                 world>>

AwaitVerdict(e) ==
  /\ e \notin cancelled
  /\ sent[e] # "nothing"
  /\ MoveCall(e, "parked", CallAfter(sent[e]))
  /\ UNCHANGED <<store, process, registry, sent, cancelled, stage, requests,
                 world>>

AwaitDeadline(e) ==
  /\ e \notin cancelled
  /\ sent[e] = "nothing"
  /\ ~Unexpired(e)
  /\ MoveCall(e, "parked", "timedout")
  /\ UNCHANGED <<store, process, registry, sent, cancelled, stage, requests,
                 world>>

-----------------------------------------------------------------------------
(* The sleeper spawned with each waiter *)

(* fire_timeout_terminalising: the store first, best effort ...            *)
SleeperTerminalise(e) ==
  /\ sleeper[e] = "armed"
  /\ ~Unexpired(e)
  /\ sleeper' = [sleeper EXCEPT ![e] = "firing"]
  /\ \/ Terminalise(e) /\ UNCHANGED faults
     \/ StorageFault /\ UNCHANGED row
  /\ UNCHANGED <<expires, ledger, process, waiters, gauge, sent, agent, stage,
                 requests, now, crashes>>

(* ... then the in-memory channel.                                         *)
SleeperFire(e) ==
  /\ sleeper[e] = "firing"
  /\ sleeper' = [sleeper EXCEPT ![e] = "none"]
  /\ TakeSlot(e, "timeout")
  /\ UNCHANGED <<store, process, agent, stage, requests, world>>

-----------------------------------------------------------------------------
(* POST /v1/hotl/decisions *)

(* The pre-flight look-up: only a pending, unexpired row goes on.          *)
Preflight(p) ==
  LET e == target[p]
  IN  /\ boot = "up"
      /\ MovePost(p, "unsent",
                  IF LookupPending(e) THEN "looked" ELSE "rejected")
      /\ UNCHANGED <<store, process, registry, sent, agent, requests, world>>

(* HotlDecisionStore::record: request_id is UNIQUE, a second row is a 409. *)
RecordLedger(p) ==
  LET e == target[p]
  IN  /\ \/ /\ ledger[e] = "none"
            /\ MovePost(p, "looked", "recorded")
            /\ ledger' = [ledger EXCEPT ![e] = verdict[p]]
         \/ /\ ledger[e] # "none"
            /\ MovePost(p, "looked", "rejected")
            /\ UNCHANGED ledger
      /\ UNCHANGED <<row, expires, process, registry, sent, agent, requests,
                     world>>

(* HotlEscalationStore::record_decision; no row matched means a late       *)
(* decision, answered 201 with resumed = false.                            *)
PersistVerdict(p) ==
  LET e == target[p]
  IN  /\ \/ /\ DecisionMatches(e)
            /\ MovePost(p, "recorded", "persisted")
            /\ row' = [row EXCEPT ![e] = "resolved"]
         \/ /\ ~DecisionMatches(e)
            /\ MovePost(p, "recorded", "unresumed")
            /\ UNCHANGED row
      /\ UNCHANGED <<expires, ledger, process, registry, sent, agent, requests,
                     world>>

(* The rest of resolve_persisted: wake the loop, report whether the send   *)
(* found a live receiver.                                                  *)
FireOneshot(p) ==
  LET e == target[p]
  IN  /\ MovePost(p, "persisted",
                  IF e \in waiters /\ ReceiverAlive(e) THEN "resumed"
                                                       ELSE "unresumed")
      /\ TakeSlot(e, verdict[p])
      /\ UNCHANGED <<store, process, sleeper, agent, requests, world>>

(* A storage error in any of the awaited steps before the send, or a       *)
(* raise_policy that cannot be created after the ledger row was written:   *)
(* the handler returns early and undoes nothing.                           *)
PostFails(p) ==
  /\ \E s \in {"looked", "recorded"} : MovePost(p, s, "failed")
  /\ StorageFault
  /\ UNCHANGED <<store, process, registry, sent, agent, requests, now, crashes>>

-----------------------------------------------------------------------------
(* The process and the clock *)

Crash ==
  /\ boot # "down"
  /\ crashes < MaxCrashes
  /\ crashes' = crashes + 1
  /\ boot' = "down"
  /\ listed' = {}
  /\ waiters' = {}
  /\ gauge' = 0
  /\ sleeper' = [e \in Esc |-> "none"]
  /\ sent' = [e \in Esc |-> "nothing"]
  /\ cancelled' = {}
  /\ call' = [e \in Esc |-> IF call[e] \in CallEnded \cup {"idle"}
                            THEN call[e] ELSE "lost"]
  /\ stage' = [p \in Post |-> IF stage[p] \in StageActive
                              THEN "lost" ELSE stage[p]]
  /\ UNCHANGED <<store, requests, now, faults>>

ReplayList ==                   \* list_pending_unexpired(now)
  /\ boot = "down"
  /\ boot' = "replaying"
  /\ listed' = {e \in Esc : row[e] = "pending" /\ Unexpired(e)}
  /\ UNCHANGED <<store, registry, sent, agent, stage, requests, world>>

(* Each listed row that is still unexpired gets a fresh slot and sleeper;  *)
(* its ticket is dropped.  The server starts to accept requests only now.  *)
ReplayReattach ==
  LET alive == {e \in listed : Unexpired(e)}
  IN  /\ boot = "replaying"
      /\ boot' = "up"
      /\ listed' = {}
      /\ ReattachSlots(alive)
      /\ UNCHANGED <<store, sent, agent, stage, requests, world>>

Tick ==
  /\ now < MaxTime
  /\ now' = now + 1
  /\ UNCHANGED <<store, process, registry, sent, agent, stage, requests,
                 faults, crashes>>

-----------------------------------------------------------------------------
Loop(e) ==
  \/ CheckWithArgs(e) \/ GateFailsClosed(e)
  \/ InsertPending(e) \/ InsertPendingFails(e) \/ InstallWaiter(e)
  \/ AwaitCancelled(e) \/ AwaitVerdict(e) \/ AwaitDeadline(e)

Sleeper(e) == SleeperTerminalise(e) \/ SleeperFire(e)

Operator(p) ==
  \/ Preflight(p) \/ RecordLedger(p) \/ PersistVerdict(p) \/ FireOneshot(p)
  \/ PostFails(p)

Boot == ReplayList \/ ReplayReattach

Next ==
  \/ \E e \in Esc : Loop(e) \/ CancelTurn(e) \/ Sleeper(e)
  \/ \E p \in Post : Operator(p)
  \/ Crash \/ Boot \/ Tick

Spec == Init /\ [][Next]_vars

(* The scheduler runs every spawned task and every started handler, time   *)
(* passes, and a supervisor restarts a dead process.  Nothing obliges a    *)
(* call to be made, an operator to answer, a turn to be cancelled, storage *)
(* to fail or the process to crash.                                        *)
Started(p) == stage[p] # "unsent" /\ Operator(p)
Running(e) == call[e] # "idle" /\ Loop(e)

Fairness ==
  /\ \A e \in Esc : WF_vars(Running(e)) /\ WF_vars(Sleeper(e))
  /\ \A p \in Post : WF_vars(Started(p))
  /\ WF_vars(Boot)
  /\ WF_vars(Tick)

FairSpec == Spec /\ Fairness

-----------------------------------------------------------------------------
(* Safety *)

(* Fail-closed: no verdict reaches the loop, and no tool is dispatched,    *)
(* unless that very verdict is in the ledger and the pending row has been  *)
(* resolved by it.  resolve_persisted writes before it sends.              *)
VerdictIsDurable ==
  \A e \in Esc :
    /\ sent[e] \in Verdict => row[e] = "resolved" /\ ledger[e] = sent[e]
    /\ call[e] = "dispatched" => row[e] = "resolved" /\ ledger[e] = "allow"
    /\ call[e] = "denied" => row[e] = "resolved" /\ ledger[e] = "deny"

(* The channel of a parked call is never dropped without a value: the slot *)
(* is still in the map, with a sleeper to fire it, or a value was sent.    *)
(* HotlTicketError::ChannelDropped cannot happen in one process.           *)
NoOrphanedTicket ==
  \A e \in Esc : call[e] = "parked" =>
    \/ e \in waiters /\ sleeper[e] # "none"
    \/ sent[e] # "nothing"

(* xiaoguai_hotl_suspended_loops counts the slots of the map, across every *)
(* order of register, resolve, time-out, crash and replay.                 *)
GaugeMatchesWaiters == gauge = Cardinality(waiters)

(* Of all the requests that decide one escalation at most one is told that *)
(* it resumed a loop; its verdict is the recorded one, and the loop never  *)
(* ended with another verdict or with a time-out.                          *)
ResumedIsTrue ==
  \A p \in Post : stage[p] = "resumed" =>
    /\ ledger[target[p]] = verdict[p] /\ row[target[p]] = "resolved"
    /\ call[target[p]] \in {"parked", CallAfter(verdict[p]), "cancelled", "lost"}
    /\ \A q \in Post \ {p} : stage[q] = "resumed" => target[q] # target[p]

(* The pre-flight check keeps a mistyped id from minting a decision row,   *)
(* and a resolved row always has its decision in the ledger.               *)
NoPhantomDecision ==
  \A e \in Esc :
    /\ ledger[e] # "none" => row[e] # "absent"
    /\ row[e] = "resolved" => ledger[e] # "none"

(* A row that was resolved or expired and a decision in the ledger are     *)
(* final, whatever arrives late: the sweep never overwrites a verdict and  *)
(* a second decision never replaces the first.                             *)
TerminalIsFinal ==
  [][\A e \in Esc :
       /\ row[e] \in {"resolved", "expired"} => row'[e] = row[e]
       /\ ledger[e] # "none" => ledger'[e] = ledger[e]]_vars

(* A row resolved after its deadline would be an abandoned escalation that *)
(* the audit shows as approved: whatever the order of sweep, decision and  *)
(* restart, a row only becomes resolved while its deadline lies ahead, and *)
(* a row only becomes expired once the deadline has passed.                *)
DeadlineHonoured ==
  [][\A e \in Esc :
       /\ row[e] # "resolved" /\ row'[e] = "resolved" => now < expires[e]
       /\ row[e] # "expired" /\ row'[e] = "expired" => now >= expires[e]]_vars

(* The protocol delivers what OperatorVerdict promises.                    *)
outcomeBar ==
  [e \in Esc |-> CASE call[e] = "dispatched" -> "released"
                  [] call[e] = "denied"     -> "denied"
                  [] call[e] \in CallEnded \ {"dispatched", "denied"} -> "withdrawn"
                  [] OTHER -> "open"]

OV == INSTANCE OperatorVerdict WITH decision <- ledger, outcome <- outcomeBar

ImplementsOperatorVerdict == OV!Spec

(* Liveness *)

(* No call stays parked: an operator, the sleeper, the ticket's own        *)
(* deadline, a cancel or the death of the process ends it.                 *)
ParkedCallEnds == \A e \in Esc : (call[e] = "parked") ~> (call[e] \in CallEnded)

(* No slot leaks: those of cancelled loops and of replayed rows, which no  *)
(* loop awaits, are swept too.                                             *)
SlotReleased == \A e \in Esc : (e \in waiters) ~> (e \notin waiters)
=============================================================================
