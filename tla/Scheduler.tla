------------------------------ MODULE Scheduler ------------------------------
(***************************************************************************)
(* The job scheduler: rows of scheduled_jobs, the JobRunner task that      *)
(* fires them, the webhook source that feeds it events, and everyone who   *)
(* writes the rows behind its back.                                        *)
(*                                                                         *)
(* The actors:                                                             *)
(*   - the runner task: run_loop selects between its timer (tick reads a   *)
(*     batch of due rows, then fires them one by one from that copy) and   *)
(*     the event channel (fire_event);                                     *)
(*   - "run now" requests: fire_now, awaited in HTTP handlers of the same  *)
(*     process, concurrent with the runner, and dropped at any await when  *)
(*     the client disconnects;                                             *)
(*   - webhook requests, which push events for the jobs bound to a route;  *)
(*   - the operator: whole-row upserts over HTTP, and the command line's   *)
(*     pause, resume and delete, which read a row and write it back;       *)
(*   - the process, which crashes and boots.                               *)
(* A fire is a chain of awaits; each await is an action.  Any error in it  *)
(* ends the fire, and with it the rest of the tick's batch.                *)
(***************************************************************************)
EXTENDS Integers, Sequences, FiniteSets

CONSTANTS
  Cron,           \* jobs with a well-formed cron expression
  Interval,       \* jobs with Trigger::Interval
  Proactive,      \* jobs with Trigger::Proactive
  Malformed,      \* jobs stored with a cron expression that does not parse
  Webhook,        \* reactive jobs, all bound to one route
  Pack,           \* the jobs that enabled packs upsert again at every boot
  Runner,         \* the runner task
  Hand,           \* the "run now" requests
  Cli,            \* invocations of the command line
  NoJob,          \* no job
  Period,         \* the interval of a job; cron slots are its multiples
  MaxJobsPerTick, \* RunnerOptions::max_jobs_per_tick
  MaxAttempts,    \* RetryPolicy::max_attempts
  Budget,         \* proactive pushes a day
  Day,            \* length of a day, in ticks of the clock
  Channel,        \* capacity of the event channel
  MaxTime,        \* bound on the clock
  MaxWrites,      \* bound on the operator's writes
  MaxPushes,      \* bound on webhook requests
  MaxFaults,      \* bound on storage failures
  MaxCrashes      \* bound on crashes

Scheduled == Cron \cup Interval \cup Proactive \cup Malformed
Job       == Scheduled \cup Webhook
Firer     == Hand \cup {Runner}

ASSUME ConstantsAssumption ==
  /\ IsFiniteSet(Job) /\ IsFiniteSet(Firer)
  /\ Pack \subseteq Cron \cup Interval
  /\ NoJob \notin Job /\ Runner \notin Hand
  /\ Webhook \cap Scheduled = {} /\ Proactive \cap (Cron \cup Interval \cup Malformed) = {}
  /\ Malformed \cap (Cron \cup Interval) = {} /\ Cron \cap Interval = {}
  /\ {Period, MaxJobsPerTick, MaxAttempts, Day, Channel} \subseteq Nat \ {0}
  /\ {Budget, MaxTime, MaxWrites, MaxPushes, MaxFaults, MaxCrashes} \subseteq Nat

VARIABLES
  (* durable *)
  row,            \* scheduled_jobs: [there, enabled, next]; next = 0 is NULL
  debt,           \* per firer, its finished attempts that have no audit row
  (* in memory *)
  up,             \* the process runs
  batch,          \* what is left of the tick's copy of the due rows
  fire,           \* the fire each firer is in
  events,         \* the event channel
  routes,         \* WebhookSource::routes of the route
  pushing,        \* the clone of routes a webhook request is working through
  used,           \* InMemoryBudgetLedger: the slots used today
  (* the command line, a process of its own *)
  cli,            \* the row each invocation has read
  (* history *)
  late,           \* fires the runner began since the job was paused
  ran,            \* the due time of the last run that succeeded in a tick
  missed,         \* events of a job that were consumed by a failed read
  (* the environment *)
  now, writes, pushes, faults, crashes, drops

table  == <<row, debt>>
memory == <<up, batch, fire, events, routes, pushing, used>>
ghosts == <<late, ran, missed>>
world  == <<now, writes, pushes, faults, crashes, drops>>
vars   == <<table, memory, cli, ghosts, world>>

Null  == 0
NoRun == -1
Time  == 0 .. (MaxTime + Period)
Steps == {"idle", "gate", "deny", "insert", "run", "audit", "advance"}

FireOf(step, j, slot, t) ==
  [pc |-> step, job |-> j, slot |-> slot, at |-> t, attempt |-> 1, ok |-> FALSE, rowed |-> FALSE]
Idle == FireOf("idle", NoJob, NoRun, 0)

Row  == [there : BOOLEAN, enabled : BOOLEAN, next : Nat]
Fire == [pc : Steps, job : Job \cup {NoJob}, slot : {NoRun} \cup Nat, at : Nat,
         attempt : 1 .. MaxAttempts, ok : BOOLEAN, rowed : BOOLEAN]
Copy == [what : {"none", "pause", "resume", "delete"}, job : Job \cup {NoJob}, next : Nat]

NoCopy == [what |-> "none", job |-> NoJob, next |-> 0]

TypeOK ==
  /\ row \in [Job -> Row]
  /\ debt \in [Firer -> Int]
  /\ up \in BOOLEAN
  /\ batch \subseteq [job : Scheduled, next : Nat]
  /\ fire \in [Firer -> Fire]
  /\ events \in Seq(Job) /\ Len(events) <= Channel
  /\ routes \in Seq(Job)
  /\ pushing \in Seq(Job)
  /\ used \in Nat
  /\ cli \in [Cli -> Copy]
  /\ late \in [Job -> Nat]
  /\ ran \in [Job -> {NoRun} \cup Nat]
  /\ missed \in [Job -> Nat]
  /\ {now, writes, pushes, faults, crashes, drops} \subseteq Nat
-----------------------------------------------------------------------------
(* Mutated forms: plausible mistakes in the helpers below, each of which a *)
(* property must catch.                                                    *)

SelectedPausedToo ==
  {j \in Job : row[j].there /\ (row[j].next = Null \/ row[j].next <= now)}
NextFireAtOnce(j, t)   == IF j \in Webhook THEN Null ELSE t
WriteAuditOfSuccess(f) ==
  debt' = IF fire[f].ok THEN [debt EXCEPT ![f] = @ - 1] ELSE debt
ReadyWhenQuiet ==
  /\ events # <<>>
  /\ \A j \in Job : ~(row[j].there /\ row[j].enabled /\ row[j].next <= now)
-----------------------------------------------------------------------------
(* The rows.                                                               *)

(* SQL of list_due: the rows the query selects before LIMIT, and the ways  *)
(* LIMIT can cut them.  They are ordered by COALESCE(next, created_at);    *)
(* created_at is not kept here, so a row without a next may stand          *)
(* anywhere.  The filter on scheduled triggers comes after the cut.        *)
Selected ==
  {j \in Job : row[j].there /\ row[j].enabled
               /\ (row[j].next = Null \/ row[j].next <= now)}

Precedes(s, t) == s = Null \/ t = Null \/ s <= t

Cuts ==
  {S \in SUBSET Selected :
     /\ Cardinality(S) <= MaxJobsPerTick
     /\ S # Selected => Cardinality(S) = MaxJobsPerTick
     /\ \A a \in S, b \in Selected \ S : Precedes(row[a].next, row[b].next)}

Due(S) == {[job |-> j, next |-> row[j].next] : j \in S \cap Scheduled}

(* Trigger::next_fire_after; Malformed has no value, the call fails.       *)
NextFire(j, t) ==
  IF j \in Webhook THEN Null
  ELSE IF j \in Cron THEN ((t \div Period) + 1) * Period
  ELSE t + Period

(* A whole-row write: INSERT .. ON CONFLICT DO UPDATE.                     *)
Written(j, enabled, next) ==
  [row EXCEPT ![j] = [there |-> TRUE, enabled |-> enabled, next |-> next]]

Disturb(j) == ran' = [ran EXCEPT ![j] = NoRun]
Fresh(j)   == late' = [late EXCEPT ![j] = 0]

(* History only: a fire of j no longer stands for the due time it read.    *)
Unslotted(j, g) ==
  [f \in Firer |-> IF g[f].job = j THEN [g[f] EXCEPT !.slot = NoRun] ELSE g[f]]

Absent == [there |-> FALSE, enabled |-> FALSE, next |-> Null]

(* After a first boot: jobs that were stored before are due at once or at  *)
(* a time of their own; the reactive ones are yet to be stored.            *)
Init ==
  /\ row \in [Job -> {Absent} \cup [there : {TRUE}, enabled : {TRUE}, next : {Null, 1}]]
  /\ \A j \in Webhook : row[j] = Absent
  /\ debt = [f \in Firer |-> 0]
  /\ up = TRUE /\ batch = {} /\ fire = [f \in Firer |-> Idle]
  /\ events = <<>> /\ routes = <<>> /\ pushing = <<>>
  /\ used = 0
  /\ cli = [c \in Cli |-> NoCopy]
  /\ late = [j \in Job |-> 0] /\ ran = [j \in Job |-> NoRun]
  /\ missed = [j \in Job |-> 0]
  /\ now = 1 /\ writes = 0 /\ pushes = 0 /\ faults = 0 /\ crashes = 0 /\ drops = 0
-----------------------------------------------------------------------------
(* One fire.                                                               *)

Started(f, j, slot) ==
  fire' = [fire EXCEPT ![f] =
             FireOf(IF j \in Proactive THEN "gate" ELSE "insert", j, slot, now)]

Goto(f, step) == fire' = [fire EXCEPT ![f].pc = step]

(* fire returned Ok: the tick goes on to the rest of its batch.            *)
Done(f) == fire' = [fire EXCEPT ![f] = Idle]

(* fire returned Err: `?` leaves the tick with the batch half done.        *)
Err(f) ==
  /\ fire' = [fire EXCEPT ![f] = Idle]
  /\ batch' = IF f = Runner THEN {} ELSE batch

StorageFault(f) ==
  /\ faults < MaxFaults
  /\ faults' = faults + 1
  /\ Err(f)
  /\ Disturb(fire[f].job)

At(f, step) == up /\ fire[f].pc = step

(* InMemoryBudgetLedger::check_and_debit                                   *)
Room == used < Budget

GateSkips(f) ==
  /\ At(f, "gate")
  /\ Goto(f, "advance")
  /\ UNCHANGED <<table, up, batch, events, routes, pushing, used, cli, ghosts, world>>

GateGrants(f) ==
  /\ At(f, "gate")
  /\ Room
  /\ used' = used + 1
  /\ Goto(f, "insert")
  /\ UNCHANGED <<table, up, batch, events, routes, pushing, cli, ghosts, world>>

GateRefuses(f) ==
  /\ At(f, "gate")
  /\ ~Room
  /\ Goto(f, "deny")
  /\ UNCHANGED <<table, up, batch, events, routes, pushing, used, cli, ghosts, world>>

(* write_budget_exhausted_audit                                            *)
Deny(f) ==
  /\ At(f, "deny")
  /\ \/ Goto(f, "advance") /\ UNCHANGED <<batch, ran, faults>>
     \/ StorageFault(f)
  /\ UNCHANGED <<table, up, events, routes, pushing, used, cli, late, missed,
                 now, writes, pushes, crashes, drops>>

(* runs.insert: the row refers to the job's, so a deleted job is an error  *)
InsertRun(f) ==
  /\ At(f, "insert")
  /\ \/ /\ row[fire[f].job].there
        /\ fire' = [fire EXCEPT ![f].pc = "run", ![f].rowed = TRUE]
        /\ UNCHANGED <<batch, ran, faults>>
     \/ /\ ~row[fire[f].job].there
        /\ Err(f)
        /\ UNCHANGED <<ran, faults>>
     \/ StorageFault(f)
  /\ UNCHANGED <<table, up, events, routes, pushing, used, cli, late, missed,
                 now, writes, pushes, crashes, drops>>

(* executor.execute, however long it takes, and the runs.update_status of  *)
(* its result: no such row when the job was deleted meanwhile              *)
Executed(f, ok) ==
  ran' = IF ok /\ f = Runner /\ fire[f].slot # NoRun
         THEN [ran EXCEPT ![fire[f].job] = fire[f].slot] ELSE ran

Execute(f) ==
  /\ At(f, "run")
  /\ \/ /\ fire[f].rowed
        /\ \E ok \in BOOLEAN :
             /\ fire' = [fire EXCEPT ![f].pc = "audit", ![f].ok = ok]
             /\ Executed(f, ok)
        /\ debt' = [debt EXCEPT ![f] = @ + 1]
        /\ UNCHANGED <<batch, faults>>
     \/ /\ ~fire[f].rowed
        /\ Err(f)
        /\ UNCHANGED <<debt, ran, faults>>
     \/ StorageFault(f) /\ UNCHANGED debt
  /\ UNCHANGED <<row, up, events, routes, pushing, used, cli, late, missed,
                 now, writes, pushes, crashes, drops>>

LastAttempt(f) == fire[f].attempt = MaxAttempts

WriteAudit(f) == debt' = [debt EXCEPT ![f] = @ - 1]

(* write_audit, then push_to_sinks, whose failures are swallowed; a failed *)
(* attempt that is not the last goes round again after its back-off        *)
AuditRun(f) ==
  /\ At(f, "audit")
  /\ \/ /\ WriteAudit(f)
        /\ IF fire[f].ok \/ LastAttempt(f)
           THEN Goto(f, "advance")
           ELSE fire' = [fire EXCEPT ![f].pc = "insert", ![f].attempt = @ + 1]
        /\ UNCHANGED <<batch, ran, faults>>
     \/ StorageFault(f) /\ UNCHANGED debt
  /\ UNCHANGED <<row, up, events, routes, pushing, used, cli, late, missed,
                 now, writes, pushes, crashes, drops>>

(* advance_schedule: record_fire touches next_fire_at only; a hand's fire  *)
(* may write over the runner's                                             *)
Advance(f) ==
  LET j == fire[f].job IN
  /\ At(f, "advance")
  /\ \/ /\ j \notin Malformed /\ row[j].there
        /\ row' = [row EXCEPT ![j].next = NextFire(j, fire[f].at)]
        /\ \/ f = Runner /\ Done(f) /\ UNCHANGED ran
           \/ f # Runner /\ fire' = Unslotted(j, [fire EXCEPT ![f] = Idle]) /\ Disturb(j)
        /\ UNCHANGED <<batch, faults>>
     \/ /\ j \in Malformed \/ ~row[j].there
        /\ Err(f)
        /\ UNCHANGED <<row, ran, faults>>
     \/ StorageFault(f) /\ UNCHANGED row
  /\ UNCHANGED <<debt, up, events, routes, pushing, used, cli, late, missed,
                 now, writes, pushes, crashes, drops>>
-----------------------------------------------------------------------------
(* Who starts a fire.                                                      *)

Free == up /\ fire[Runner].pc = "idle" /\ batch = {}

(* A read that fails has no effect but the loss of what it was for.        *)
ReadFault == faults < MaxFaults /\ faults' = faults + 1

Tick ==
  /\ Free
  /\ \/ \E S \in Cuts : batch' = Due(S) /\ UNCHANGED faults
     \/ ReadFault /\ UNCHANGED batch
  /\ UNCHANGED <<table, up, fire, events, routes, pushing, used, cli, ghosts,
                 now, writes, pushes, crashes, drops>>

NoteStart(j) ==
  late' = IF row[j].there /\ ~row[j].enabled THEN [late EXCEPT ![j] = @ + 1] ELSE late

(* The loop of tick: the copies in the order of the query                  *)
FireNext ==
  /\ up /\ fire[Runner].pc = "idle"
  /\ \E e \in batch :
       /\ \A o \in batch : Precedes(e.next, o.next)
       /\ batch' = batch \ {e}
       /\ Started(Runner, e.job, e.next)
       /\ NoteStart(e.job)
  /\ UNCHANGED <<table, up, events, routes, pushing, used, cli, ran, missed, world>>

(* fire_event: the event is out of the channel; the row is read again, and *)
(* must be enabled.  If the read fails the event is gone, logged only.     *)
Fireable(j) == row[j].there /\ row[j].enabled

Ready == events # <<>>

TakeEvent ==
  /\ Free /\ Ready
  /\ LET j == Head(events) IN
       \/ /\ Fireable(j)
          /\ Started(Runner, j, NoRun) /\ NoteStart(j)
          /\ UNCHANGED <<missed, faults>>
       \/ /\ ~Fireable(j)
          /\ UNCHANGED <<fire, late, missed, faults>>
       \/ /\ ReadFault
          /\ missed' = [missed EXCEPT ![j] = @ + 1]
          /\ UNCHANGED <<fire, late>>
  /\ events' = Tail(events)
  /\ UNCHANGED <<table, up, batch, routes, pushing, used, cli, ran,
                 now, writes, pushes, crashes, drops>>

(* fire_now: any row that is there, paused or not                          *)
FireNow(h) ==
  /\ up /\ fire[h].pc = "idle" /\ writes < MaxWrites
  /\ \E j \in Job : row[j].there /\ Started(h, j, NoRun)
  /\ writes' = writes + 1
  /\ UNCHANGED <<table, up, batch, events, routes, pushing, used, cli, ghosts,
                 now, pushes, faults, crashes, drops>>

(* The client of a "run now" request disconnects: its handler is dropped   *)
(* at the await it is in, and the rest of the fire with it.                *)
DropHand(h) ==
  /\ up /\ fire[h].pc # "idle"
  /\ fire' = [fire EXCEPT ![h] = Idle]
  /\ drops' = drops + 1
  /\ UNCHANGED <<table, up, batch, events, routes, pushing, used, cli, ghosts,
                 now, writes, pushes, faults, crashes>>

(* WebhookSource::push: one event per entry of the route, each waiting for *)
(* room in the channel                                                     *)
PushBegins ==
  /\ up /\ pushing = <<>> /\ pushes < MaxPushes
  /\ pushing' = routes
  /\ pushes' = pushes + 1
  /\ UNCHANGED <<table, up, batch, fire, events, routes, used, cli, ghosts,
                 now, writes, faults, crashes, drops>>

PushSends ==
  /\ up /\ pushing # <<>> /\ Len(events) < Channel
  /\ events' = Append(events, Head(pushing))
  /\ pushing' = Tail(pushing)
  /\ UNCHANGED <<table, up, batch, fire, routes, used, cli, ghosts, world>>
-----------------------------------------------------------------------------
(* Who writes the rows.                                                    *)

(* SqliteScheduledJobUpserter::upsert: the body replaces the row, and an   *)
(* enabled webhook job's route is registered                               *)
Registered(j, enabled) ==
  IF j \in Webhook /\ enabled THEN Append(routes, j) ELSE routes

Upsert ==
  /\ up /\ writes < MaxWrites
  /\ \E j \in Job, enabled \in BOOLEAN :
       /\ row' = Written(j, enabled, Null)
       /\ routes' = Registered(j, enabled)
       /\ Disturb(j) /\ Fresh(j) /\ fire' = Unslotted(j, fire)
  /\ writes' = writes + 1
  /\ UNCHANGED <<debt, up, batch, events, pushing, used, cli, missed,
                 now, pushes, faults, crashes, drops>>

(* `schedule create`: a fresh id, and the first fire on the calendar      *)
Unknown(j) ==
  /\ ~row[j].there
  /\ \A f \in Firer : fire[f].job # j
  /\ \A e \in batch : e.job # j
  /\ \A c \in Cli : cli[c].job # j

CliCreate ==
  /\ writes < MaxWrites
  /\ \E j \in Cron : /\ Unknown(j)
                     /\ row' = Written(j, TRUE, NextFire(j, now))
                     /\ Disturb(j) /\ Fresh(j)
  /\ writes' = writes + 1
  /\ UNCHANGED <<debt, memory, cli, missed, now, pushes, faults, crashes, drops>>

(* The command line's set_enabled and delete: resolve reads the row ..     *)
CliRead(c) ==
  /\ cli[c].what = "none" /\ writes < MaxWrites
  /\ \E j \in Job, what \in {"pause", "resume", "delete"} :
       /\ row[j].there
       /\ what = "resume" => j \notin Malformed
       /\ cli' = [cli EXCEPT ![c] = [what |-> what, job |-> j, next |-> row[j].next]]
  /\ writes' = writes + 1
  /\ UNCHANGED <<table, memory, ghosts, now, pushes, faults, crashes, drops>>

(* .. and the whole row is written back, even if it was deleted since      *)
CliWrite(c) ==
  LET j == cli[c].job IN
  /\ cli[c].what \in {"pause", "resume"}
  /\ row' = IF cli[c].what = "pause" THEN Written(j, FALSE, cli[c].next)
            ELSE Written(j, TRUE, NextFire(j, now))
  /\ Disturb(j) /\ Fresh(j) /\ fire' = Unslotted(j, fire)
  /\ cli' = [cli EXCEPT ![c] = NoCopy]
  /\ UNCHANGED <<debt, up, batch, events, routes, pushing, used, missed, world>>

(* DELETE cascades to the job's runs, those of fires under way included    *)
CliDelete(c) ==
  LET j == cli[c].job IN
  /\ cli[c].what = "delete"
  /\ row' = [row EXCEPT ![j] = Absent]
  /\ fire' = [f \in Firer |-> IF fire[f].job = j
                              THEN [fire[f] EXCEPT !.rowed = FALSE, !.slot = NoRun]
                              ELSE fire[f]]
  /\ Disturb(j) /\ Fresh(j)
  /\ cli' = [cli EXCEPT ![c] = NoCopy]
  /\ UNCHANGED <<debt, up, batch, events, routes, pushing, used, missed, world>>
-----------------------------------------------------------------------------
(* The process and the clock.                                              *)

Crash ==
  /\ up /\ crashes < MaxCrashes
  /\ crashes' = crashes + 1
  /\ up' = FALSE /\ batch' = {} /\ fire' = [f \in Firer |-> Idle]
  /\ events' = <<>> /\ routes' = <<>> /\ pushing' = <<>> /\ used' = 0
  /\ ran' = [j \in Job |-> NoRun]
  /\ UNCHANGED <<table, cli, late, missed, now, writes, pushes, faults, drops>>

(* The server's boot: an empty route table, and the packs' jobs upserted   *)
(* afresh, as new                                                          *)
Boot ==
  /\ ~up
  /\ up' = TRUE
  /\ row' = [j \in Job |-> IF j \in Pack
                           THEN [there |-> TRUE, enabled |-> TRUE, next |-> Null]
                           ELSE row[j]]
  /\ late' = [j \in Job |-> IF j \in Pack THEN 0 ELSE late[j]]
  /\ UNCHANGED <<debt, batch, fire, events, routes, pushing, used, cli, ran, missed, world>>

Clock ==
  /\ now < MaxTime
  /\ now' = now + 1
  /\ used' = IF now' % Day = 0 THEN 0 ELSE used
  /\ UNCHANGED <<table, up, batch, fire, events, routes, pushing, cli, ghosts,
                 writes, pushes, faults, crashes, drops>>
-----------------------------------------------------------------------------
Firing(f) ==
  \/ GateSkips(f) \/ GateGrants(f) \/ GateRefuses(f) \/ Deny(f)
  \/ InsertRun(f) \/ Execute(f) \/ AuditRun(f) \/ Advance(f)

Next ==
  \/ \E f \in Firer : Firing(f)
  \/ Tick \/ FireNext \/ TakeEvent
  \/ \E h \in Hand : FireNow(h) \/ DropHand(h)
  \/ PushBegins \/ PushSends
  \/ Upsert \/ CliCreate
  \/ \E c \in Cli : CliRead(c) \/ CliWrite(c) \/ CliDelete(c)
  \/ Crash \/ Boot \/ Clock

Spec == Init /\ [][Next]_vars

(* The runner's task and its fires go on; tokio's select! picks at random  *)
(* between timer and channel, so neither is passed over for ever.  Nothing *)
(* is assumed of operators, of the executor's result or of the clock.      *)
LiveSpec ==
  /\ Spec
  /\ \A f \in Firer : WF_vars(Firing(f))
  /\ WF_vars(FireNext)
  /\ SF_vars(Tick) /\ SF_vars(TakeEvent)
  /\ WF_vars(PushSends)
  /\ WF_vars(Boot)
-----------------------------------------------------------------------------
(* Properties.                                                             *)

(* A paused job may still fire from a copy the runner made before, but     *)
(* only once: no batch, retry or event keeps firing it afterwards          *)
(* (tick's stale copies, list_due's and fire_event's checks of enabled).   *)
PauseTakesHold == \A j \in Job : late[j] <= 1

(* Once the runner has run a job for its due time it does not start it     *)
(* again for that same time, unless storage failed, the process crashed,   *)
(* or someone else wrote the row (retries, advance_schedule and the next   *)
(* list_due agree on what is done).  A job whose cron expression does not  *)
(* parse is the exception: it cannot be advanced and runs at every tick.   *)
DueTimeRunsOnce ==
  LET r == fire[Runner] IN
  r.pc \in {"gate", "deny", "insert", "run"} /\ r.slot # NoRun /\ r.job \notin Malformed
    => ran[r.job] # r.slot

(* A finished attempt has its row in the audit chain, or its fire is about *)
(* to write it.  Of the runner's attempts only a storage failure or a      *)
(* crash, between the run's row and the audit's, leaves one without; of a  *)
(* "run now" request's also its client, by going away: no retry, pause,    *)
(* deletion or other fire ever does (the awaits of fire).                  *)
Owing(f) == IF fire[f].pc = "audit" THEN 1 ELSE 0
Lost(f)  == faults + crashes + IF f = Runner THEN 0 ELSE drops

AttemptsAudited ==
  \A f \in Firer : Owing(f) <= debt[f] /\ debt[f] <= Owing(f) + Lost(f)

(* A due job is fired, whatever the other jobs, the events and the         *)
(* requests do: batches cut by max_jobs_per_tick and ended by errors do    *)
(* not pass it over for ever.  Two kinds of rows do starve the others:     *)
(* an enabled job whose cron expression does not parse ends every batch,   *)
(* and as many enabled reactive jobs as fit in a batch fill it, for the    *)
(* query cuts before it drops them.                                        *)
Overdue(j) == up /\ Fireable(j) /\ row[j].next <= now
Runs(j)    == fire[Runner].job = j

Starving ==
  \/ \E m \in Malformed : Fireable(m)
  \/ Cardinality({w \in Webhook : Fireable(w)}) >= MaxJobsPerTick

DueJobRuns ==
  \A j \in Cron \cup Interval : Overdue(j) ~> (~Overdue(j) \/ Runs(j) \/ Starving)

(* A webhook's event that was accepted into the channel fires its job,     *)
(* unless the job is off or gone by then, the process went down, or the    *)
(* read of the job's row failed when the event was taken: fire_event keeps *)
(* no event for another try.                                               *)
Queued(j) == \E i \in DOMAIN events : events[i] = j

EventFires ==
  \A j \in Webhook, n \in 0 .. MaxFaults :
    Queued(j) /\ missed[j] = n ~> Runs(j) \/ ~Fireable(j) \/ ~up \/ missed[j] > n
=============================================================================
