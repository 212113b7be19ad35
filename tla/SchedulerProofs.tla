--------------------------- MODULE SchedulerProofs ---------------------------
(***************************************************************************)
(* The safety of Scheduler for any jobs, requests, command lines, storage  *)
(* failures and crashes.                                                   *)
(*                                                                         *)
(* A due time goes from the row into the tick's copy, from the copy into   *)
(* the runner's fire, and is spent when the row moves past it.  RunInv,    *)
(* BatchInv and SlotInv say of each of the three that the job has not been *)
(* run for it yet; the window in which the row still shows a due time that *)
(* was run is the runner's own (Settling).  Everyone else either leaves    *)
(* the three alone or disturbs the row, which makes its due time a new one *)
(* (Meddle): one lemma covers all their steps.                             *)
(***************************************************************************)
EXTENDS Scheduler, TLAPS

(* The parts of the type invariant, with what the model keeps besides.     *)
World  == /\ now \in Nat /\ writes \in Nat /\ pushes \in Nat
          /\ faults \in Nat /\ crashes \in Nat /\ drops \in Nat
Feed   == /\ events \in Seq(Webhook) /\ Len(events) <= Channel
          /\ routes \in Seq(Webhook) /\ pushing \in Seq(Webhook)
Rows   == row \in [Job -> Row]
Copies == cli \in [Cli -> Copy] /\ \A c \in Cli : cli[c].what # "none" => cli[c].job \in Job
Batch  == batch \subseteq [job : Scheduled, next : Nat]
Fires  == /\ fire \in [Firer -> Fire]
          /\ \A f \in Firer : fire[f].pc = "idle" => fire[f] = Idle
          /\ \A f \in Firer : fire[f].pc # "idle" => fire[f].job \in Job
          /\ \A h \in Hand : fire[h].slot = NoRun
Ghosts == /\ late \in [Job -> Nat] /\ ran \in [Job -> {NoRun} \cup Nat]
          /\ missed \in [Job -> Nat]
Rest   == up \in BOOLEAN /\ used \in Nat /\ debt \in [Firer -> Int]
Down   == ~up => batch = {} /\ (\A f \in Firer : fire[f] = Idle) /\ \A j \in Job : ran[j] = NoRun

Typed == World /\ Feed /\ Rows /\ Copies /\ Batch /\ Fires /\ Ghosts /\ Rest /\ Down

(* A job that fired while it was paused did so once, from the runner's     *)
(* last copy of it, and no other copy is left.                             *)
PauseInv == \A j \in Job : late[j] > 0 =>
  late[j] = 1 /\ ~row[j].enabled /\ \A e \in batch : e.job # j

(* The copies of a batch are of different jobs, none of which the runner   *)
(* is at, and each is due for a time its job has not been run for.         *)
BatchInv ==
  /\ \A a, b \in batch : a.job = b.job => a = b
  /\ \A e \in batch : /\ e.next <= now
                      /\ e.job # fire[Runner].job
                      /\ e.job \notin Malformed => e.next > ran[e.job]

(* The runner ran the job for its due time and has yet to write the next.  *)
Settling(j) ==
  LET r == fire[Runner] IN
  r.job = j /\ r.slot = ran[j] /\ r.ok /\ r.pc \in {"audit", "advance"}

(* A row's due time lies after the one its job was last run for.           *)
RunInv ==
  /\ \A w \in Webhook : ran[w] = NoRun
  /\ \A j \in Job : ran[j] # NoRun => row[j].there
  /\ \A j \in Job \ Malformed : row[j].next > ran[j] \/ Settling(j)

(* The runner's fire stands for a due time that its job was not run for    *)
(* before.                                                                 *)
Unrun(r) == r.pc \in {"gate", "deny", "insert", "run"} \/ (r.pc = "audit" /\ ~r.ok)

SlotInv ==
  LET r == fire[Runner] IN
  /\ r.at <= now
  /\ r.slot = NoRun /\ r.job \in Job => ran[r.job] = NoRun
  /\ r.slot # NoRun => r.job \in Scheduled /\ (r.rowed => row[r.job].there)
  /\ r.slot # NoRun /\ r.job \notin Malformed =>
       r.slot <= r.at /\ ran[r.job] <= r.slot /\ (Unrun(r) => ran[r.job] < r.slot)

-----------------------------------------------------------------------------
(* The helpers. *)

LEMMA DivMod ==
  \A t \in Nat, p \in Nat \ {0} : (t \div p) \in Nat /\ ((t \div p) + 1) * p > t
  BY Z3

(* A job's next due time lies after the time it fired.                     *)
LEMMA NextFireLater ==
  ASSUME NEW j \in Job, NEW t \in Nat
  PROVE  NextFire(j, t) \in Nat /\ (j \notin Webhook => NextFire(j, t) > t)
<1>1. Period \in Nat \ {0}
  BY ConstantsAssumption
<1>2. (t \div Period) \in Nat /\ ((t \div Period) + 1) * Period > t
  BY <1>1, DivMod
<1>3. ((t \div Period) + 1) * Period \in Nat
  BY <1>1, <1>2
<1> QED
  BY <1>1, <1>2, <1>3 DEF NextFire, Null

LEMMA FireType ==
  /\ Idle \in Fire
  /\ \A p \in Steps, j \in Job, s \in {NoRun} \cup Nat, t \in Nat : FireOf(p, j, s, t) \in Fire
  BY ConstantsAssumption DEF Idle, FireOf, Fire, Steps, NoRun
-----------------------------------------------------------------------------
(* Type correctness. *)

LEMMA TypedInit == Init => Typed
<1> SUFFICES ASSUME Init PROVE Typed
  OBVIOUS
<1>1. World /\ Feed /\ Rest
  BY ConstantsAssumption DEF Init, World, Feed, Rest
<1>2. Rows
  <2>1. {Absent} \cup [there : {TRUE}, enabled : {TRUE}, next : {Null, 1}] \subseteq Row
    <3>1. Absent \in Row /\ 1 \in Nat /\ Null \in Nat
      BY DEF Row, Absent, Null
    <3>2. [there : {TRUE}, enabled : {TRUE}, next : {Null, 1}] \subseteq Row
      BY <3>1 DEF Row
    <3> QED
      BY <3>1, <3>2
  <2> QED
    BY <2>1 DEF Init, Rows
<1>2a. Ghosts
  BY DEF Init, Ghosts, NoRun
<1>3. Copies /\ Batch /\ Down
  BY DEF Init, Copies, Copy, NoCopy, Batch, Down
<1>4. Fires
  BY FireType DEF Init, Fires, Idle, FireOf, Firer
<1> QED
  BY <1>1, <1>2, <1>2a, <1>3, <1>4 DEF Typed

LEMMA WorldStep == World /\ [Next]_vars => World'
<1> SUFFICES ASSUME World, [Next]_vars PROVE World'
  OBVIOUS
<1> USE ConstantsAssumption DEF World, world
<1>1. ASSUME NEW f \in Firer, GateSkips(f) PROVE World'
  BY <1>1 DEF GateSkips, At, Goto
<1>2. ASSUME NEW f \in Firer, GateGrants(f) PROVE World'
  BY <1>2 DEF GateGrants, At, Room, Goto
<1>3. ASSUME NEW f \in Firer, GateRefuses(f) PROVE World'
  BY <1>3 DEF GateRefuses, At, Room, Goto
<1>4. ASSUME NEW f \in Firer, Deny(f) PROVE World'
  BY <1>4 DEF Deny, At, Goto, StorageFault, Err
<1>5. ASSUME NEW f \in Firer, InsertRun(f) PROVE World'
  BY <1>5 DEF InsertRun, At, StorageFault, Err
<1>6. ASSUME NEW f \in Firer, Execute(f) PROVE World'
  BY <1>6 DEF Execute, At, Executed, StorageFault, Err
<1>7. ASSUME NEW f \in Firer, AuditRun(f) PROVE World'
  BY <1>7 DEF AuditRun, At, WriteAudit, LastAttempt, Goto, StorageFault, Err
<1>8. ASSUME NEW f \in Firer, Advance(f) PROVE World'
  BY <1>8 DEF Advance, At, Done, Err, StorageFault
<1>9. ASSUME Tick PROVE World'
  BY <1>9 DEF Tick, ReadFault, Free
<1>10. ASSUME FireNext PROVE World'
  BY <1>10 DEF FireNext, NoteStart
<1>11. ASSUME TakeEvent PROVE World'
  BY <1>11 DEF TakeEvent, ReadFault, Free, Ready, Fireable, NoteStart
<1>12. ASSUME NEW h \in Hand, FireNow(h) PROVE World'
  BY <1>12 DEF FireNow
<1>13. ASSUME PushBegins PROVE World'
  BY <1>13 DEF PushBegins
<1>14. ASSUME PushSends PROVE World'
  BY <1>14 DEF PushSends
<1>15. ASSUME Upsert PROVE World'
  BY <1>15 DEF Upsert
<1>16. ASSUME CliCreate PROVE World'
  BY <1>16 DEF CliCreate
<1>17. ASSUME NEW c \in Cli, CliRead(c) PROVE World'
  BY <1>17 DEF CliRead
<1>18. ASSUME NEW c \in Cli, CliWrite(c) PROVE World'
  BY <1>18 DEF CliWrite
<1>19. ASSUME NEW c \in Cli, CliDelete(c) PROVE World'
  BY <1>19 DEF CliDelete
<1>20. ASSUME Crash PROVE World'
  BY <1>20 DEF Crash
<1>21. ASSUME Boot PROVE World'
  BY <1>21 DEF Boot
<1>22. ASSUME Clock PROVE World'
  BY <1>22 DEF Clock
<1>23. ASSUME UNCHANGED vars PROVE World'
  BY <1>23 DEF vars
<1>24. ASSUME NEW h \in Hand, DropHand(h) PROVE World'
  BY <1>24 DEF DropHand
<1> QED
  BY <1>1, <1>2, <1>3, <1>4, <1>5, <1>6, <1>7, <1>8, <1>9, <1>10, <1>11, <1>12, <1>13,
     <1>14, <1>15, <1>16, <1>17, <1>18, <1>19, <1>20, <1>21, <1>22, <1>23,
     <1>24 DEF Next, Firing

LEMMA FeedStep == Feed /\ [Next]_vars => Feed'
<1> SUFFICES ASSUME Feed, [Next]_vars PROVE Feed'
  OBVIOUS
<1> USE ConstantsAssumption DEF Feed, memory
<1>1. ASSUME NEW f \in Firer, GateSkips(f) PROVE Feed'
  BY <1>1 DEF GateSkips, At, Goto
<1>2. ASSUME NEW f \in Firer, GateGrants(f) PROVE Feed'
  BY <1>2 DEF GateGrants, At, Room, Goto
<1>3. ASSUME NEW f \in Firer, GateRefuses(f) PROVE Feed'
  BY <1>3 DEF GateRefuses, At, Room, Goto
<1>4. ASSUME NEW f \in Firer, Deny(f) PROVE Feed'
  BY <1>4 DEF Deny, At, Goto, StorageFault, Err, Disturb
<1>5. ASSUME NEW f \in Firer, InsertRun(f) PROVE Feed'
  BY <1>5 DEF InsertRun, At, StorageFault, Err, Disturb
<1>6. ASSUME NEW f \in Firer, Execute(f) PROVE Feed'
  BY <1>6 DEF Execute, At, Executed, StorageFault, Err, Disturb
<1>7. ASSUME NEW f \in Firer, AuditRun(f) PROVE Feed'
  BY <1>7 DEF AuditRun, At, WriteAudit, LastAttempt, Goto, StorageFault, Err, Disturb
<1>8. ASSUME NEW f \in Firer, Advance(f) PROVE Feed'
  BY <1>8 DEF Advance, At, Done, Unslotted, Disturb, Err, StorageFault
<1>9. ASSUME Tick PROVE Feed'
  BY <1>9 DEF Tick, ReadFault, Free, Cuts, Due, Selected
<1>10. ASSUME FireNext PROVE Feed'
  BY <1>10 DEF FireNext, Started, NoteStart
<1>11. ASSUME TakeEvent PROVE Feed'
  BY <1>11 DEF TakeEvent, ReadFault, Free, Ready, Fireable, Started, NoteStart
<1>12. ASSUME NEW h \in Hand, FireNow(h) PROVE Feed'
  BY <1>12 DEF FireNow, Started
<1>13. ASSUME PushBegins PROVE Feed'
  BY <1>13 DEF PushBegins
<1>14. ASSUME PushSends PROVE Feed'
  BY SMTT(30), <1>14 DEF PushSends
<1>15. ASSUME Upsert PROVE Feed'
  <2>1. PICK j \in Job, enabled \in BOOLEAN : routes' = Registered(j, enabled)
    BY <1>15 DEF Upsert
  <2>2. Registered(j, enabled) \in Seq(Webhook)
    BY DEF Registered
  <2> QED
    BY <1>15, <2>1, <2>2 DEF Upsert
<1>16. ASSUME CliCreate PROVE Feed'
  BY <1>16 DEF CliCreate, Unknown, Written, Disturb, Fresh
<1>17. ASSUME NEW c \in Cli, CliRead(c) PROVE Feed'
  BY <1>17 DEF CliRead
<1>18. ASSUME NEW c \in Cli, CliWrite(c) PROVE Feed'
  BY <1>18 DEF CliWrite, Written, Disturb, Fresh, Unslotted
<1>19. ASSUME NEW c \in Cli, CliDelete(c) PROVE Feed'
  BY <1>19 DEF CliDelete, Absent, Disturb, Fresh
<1>20. ASSUME Crash PROVE Feed'
  BY <1>20 DEF Crash
<1>21. ASSUME Boot PROVE Feed'
  BY <1>21 DEF Boot
<1>22. ASSUME Clock PROVE Feed'
  BY <1>22 DEF Clock
<1>23. ASSUME UNCHANGED vars PROVE Feed'
  BY <1>23 DEF vars
<1>24. ASSUME NEW h \in Hand, DropHand(h) PROVE Feed'
  BY <1>24 DEF DropHand
<1> QED
  BY <1>1, <1>2, <1>3, <1>4, <1>5, <1>6, <1>7, <1>8, <1>9, <1>10, <1>11, <1>12, <1>13,
     <1>14, <1>15, <1>16, <1>17, <1>18, <1>19, <1>20, <1>21, <1>22, <1>23,
     <1>24 DEF Next, Firing

LEMMA RowsStep == Typed /\ [Next]_vars => Rows'
<1> SUFFICES ASSUME Typed, [Next]_vars PROVE Rows'
  OBVIOUS
<1> USE NextFireLater DEF Typed, World, Rows, Row, Copies, Copy, Null, Absent, table, memory
<1>1. ASSUME NEW f \in Firer, GateSkips(f) PROVE Rows'
  BY <1>1 DEF GateSkips, At, Goto
<1>2. ASSUME NEW f \in Firer, GateGrants(f) PROVE Rows'
  BY <1>2 DEF GateGrants, At, Room, Goto
<1>3. ASSUME NEW f \in Firer, GateRefuses(f) PROVE Rows'
  BY <1>3 DEF GateRefuses, At, Room, Goto
<1>4. ASSUME NEW f \in Firer, Deny(f) PROVE Rows'
  BY <1>4 DEF Deny, At, Goto, StorageFault, Err, Disturb
<1>5. ASSUME NEW f \in Firer, InsertRun(f) PROVE Rows'
  BY <1>5 DEF InsertRun, At, StorageFault, Err, Disturb
<1>6. ASSUME NEW f \in Firer, Execute(f) PROVE Rows'
  BY <1>6 DEF Execute, At, Executed, StorageFault, Err, Disturb
<1>7. ASSUME NEW f \in Firer, AuditRun(f) PROVE Rows'
  BY <1>7 DEF AuditRun, At, WriteAudit, LastAttempt, Goto, StorageFault, Err, Disturb
<1>8. ASSUME NEW f \in Firer, Advance(f) PROVE Rows'
  <2>1. CASE fire[f].pc = "idle"
    BY <1>8, <2>1 DEF Advance, At
  <2>2. CASE fire[f].pc # "idle"
    <3>1. fire[f].job \in Job /\ fire[f].at \in Nat
      BY <2>2 DEF Fires, Fire
    <3>2. NextFire(fire[f].job, fire[f].at) \in Nat
      BY <3>1
    <3> QED
      BY <1>8, <3>1, <3>2 DEF Advance, StorageFault
  <2> QED
    BY <2>1, <2>2
<1>9. ASSUME Tick PROVE Rows'
  BY <1>9 DEF Tick, ReadFault, Free, Cuts, Due, Selected
<1>10. ASSUME FireNext PROVE Rows'
  BY <1>10 DEF FireNext, Started, NoteStart
<1>11. ASSUME TakeEvent PROVE Rows'
  BY <1>11 DEF TakeEvent, ReadFault, Free, Ready, Fireable, Started, NoteStart
<1>12. ASSUME NEW h \in Hand, FireNow(h) PROVE Rows'
  BY <1>12 DEF FireNow, Started
<1>13. ASSUME PushBegins PROVE Rows'
  BY <1>13 DEF PushBegins
<1>14. ASSUME PushSends PROVE Rows'
  BY <1>14 DEF PushSends
<1>15. ASSUME Upsert PROVE Rows'
  BY <1>15 DEF Upsert, Written, Registered, Disturb, Fresh, Unslotted
<1>16. ASSUME CliCreate PROVE Rows'
  <2>1. PICK j \in Cron : row' = Written(j, TRUE, NextFire(j, now))
    BY <1>16 DEF CliCreate
  <2>2. NextFire(j, now) \in Nat
    BY DEF Job, Scheduled
  <2> QED
    BY <2>1, <2>2 DEF Written
<1>17. ASSUME NEW c \in Cli, CliRead(c) PROVE Rows'
  BY <1>17 DEF CliRead
<1>18. ASSUME NEW c \in Cli, CliWrite(c) PROVE Rows'
  <2>1. cli[c].job \in Job /\ NextFire(cli[c].job, now) \in Nat
    BY <1>18 DEF CliWrite
  <2> QED
    BY <1>18, <2>1 DEF CliWrite, Written
<1>19. ASSUME NEW c \in Cli, CliDelete(c) PROVE Rows'
  BY <1>19 DEF CliDelete, Absent, Disturb, Fresh
<1>20. ASSUME Crash PROVE Rows'
  BY <1>20 DEF Crash
<1>21. ASSUME Boot PROVE Rows'
  BY <1>21 DEF Boot
<1>22. ASSUME Clock PROVE Rows'
  BY <1>22 DEF Clock
<1>23. ASSUME UNCHANGED vars PROVE Rows'
  BY <1>23 DEF vars
<1>24. ASSUME NEW h \in Hand, DropHand(h) PROVE Rows'
  BY <1>24 DEF DropHand
<1> QED
  BY <1>1, <1>2, <1>3, <1>4, <1>5, <1>6, <1>7, <1>8, <1>9, <1>10, <1>11, <1>12, <1>13,
     <1>14, <1>15, <1>16, <1>17, <1>18, <1>19, <1>20, <1>21, <1>22, <1>23,
     <1>24 DEF Next, Firing

LEMMA CopiesStep == Typed /\ [Next]_vars => Copies'
<1> SUFFICES ASSUME Typed, [Next]_vars PROVE Copies'
  OBVIOUS
<1> USE DEF Typed, Rows, Row, Copies, Copy, NoCopy
<1>1. ASSUME NEW f \in Firer, GateSkips(f) PROVE Copies'
  BY <1>1 DEF GateSkips
<1>2. ASSUME NEW f \in Firer, GateGrants(f) PROVE Copies'
  BY <1>2 DEF GateGrants
<1>3. ASSUME NEW f \in Firer, GateRefuses(f) PROVE Copies'
  BY <1>3 DEF GateRefuses
<1>4. ASSUME NEW f \in Firer, Deny(f) PROVE Copies'
  BY <1>4 DEF Deny
<1>5. ASSUME NEW f \in Firer, InsertRun(f) PROVE Copies'
  BY <1>5 DEF InsertRun
<1>6. ASSUME NEW f \in Firer, Execute(f) PROVE Copies'
  BY <1>6 DEF Execute
<1>7. ASSUME NEW f \in Firer, AuditRun(f) PROVE Copies'
  BY <1>7 DEF AuditRun
<1>8. ASSUME NEW f \in Firer, Advance(f) PROVE Copies'
  BY <1>8 DEF Advance
<1>9. ASSUME Tick PROVE Copies'
  BY <1>9 DEF Tick, ReadFault
<1>10. ASSUME FireNext PROVE Copies'
  BY <1>10 DEF FireNext
<1>11. ASSUME TakeEvent PROVE Copies'
  BY <1>11 DEF TakeEvent, ReadFault
<1>12. ASSUME NEW h \in Hand, FireNow(h) PROVE Copies'
  BY <1>12 DEF FireNow
<1>13. ASSUME PushBegins PROVE Copies'
  BY <1>13 DEF PushBegins
<1>14. ASSUME PushSends PROVE Copies'
  BY <1>14 DEF PushSends
<1>15. ASSUME Upsert PROVE Copies'
  BY <1>15 DEF Upsert
<1>16. ASSUME CliCreate PROVE Copies'
  BY <1>16 DEF CliCreate
<1>17. ASSUME NEW c \in Cli, CliRead(c) PROVE Copies'
  BY <1>17 DEF CliRead
<1>18. ASSUME NEW c \in Cli, CliWrite(c) PROVE Copies'
  BY <1>18 DEF CliWrite
<1>19. ASSUME NEW c \in Cli, CliDelete(c) PROVE Copies'
  BY <1>19 DEF CliDelete
<1>20. ASSUME Crash PROVE Copies'
  BY <1>20 DEF Crash
<1>21. ASSUME Boot PROVE Copies'
  BY <1>21 DEF Boot
<1>22. ASSUME Clock PROVE Copies'
  BY <1>22 DEF Clock
<1>23. ASSUME UNCHANGED vars PROVE Copies'
  BY <1>23 DEF vars
<1>24. ASSUME NEW h \in Hand, DropHand(h) PROVE Copies'
  BY <1>24 DEF DropHand
<1> QED
  BY <1>1, <1>2, <1>3, <1>4, <1>5, <1>6, <1>7, <1>8, <1>9, <1>10, <1>11, <1>12, <1>13,
     <1>14, <1>15, <1>16, <1>17, <1>18, <1>19, <1>20, <1>21, <1>22, <1>23,
     <1>24 DEF Next, Firing

LEMMA BatchStep == Typed /\ [Next]_vars => Batch'
<1> SUFFICES ASSUME Typed, [Next]_vars PROVE Batch'
  OBVIOUS
<1> USE DEF Typed, Batch, Rows, Row, memory
<1>1. ASSUME NEW f \in Firer, GateSkips(f) PROVE Batch'
  BY <1>1 DEF GateSkips, At, Goto
<1>2. ASSUME NEW f \in Firer, GateGrants(f) PROVE Batch'
  BY <1>2 DEF GateGrants, At, Room, Goto
<1>3. ASSUME NEW f \in Firer, GateRefuses(f) PROVE Batch'
  BY <1>3 DEF GateRefuses, At, Room, Goto
<1>4. ASSUME NEW f \in Firer, Deny(f) PROVE Batch'
  BY <1>4 DEF Deny, At, Goto, StorageFault, Err, Disturb
<1>5. ASSUME NEW f \in Firer, InsertRun(f) PROVE Batch'
  BY <1>5 DEF InsertRun, At, StorageFault, Err, Disturb
<1>6. ASSUME NEW f \in Firer, Execute(f) PROVE Batch'
  BY <1>6 DEF Execute, At, Executed, StorageFault, Err, Disturb
<1>7. ASSUME NEW f \in Firer, AuditRun(f) PROVE Batch'
  BY <1>7 DEF AuditRun, At, WriteAudit, LastAttempt, Goto, StorageFault, Err, Disturb
<1>8. ASSUME NEW f \in Firer, Advance(f) PROVE Batch'
  BY <1>8 DEF Advance, At, Done, Err, StorageFault
<1>9. ASSUME Tick PROVE Batch'
  BY <1>9 DEF Tick, ReadFault, Free, Cuts, Due, Selected
<1>10. ASSUME FireNext PROVE Batch'
  BY <1>10 DEF FireNext, Started, NoteStart
<1>11. ASSUME TakeEvent PROVE Batch'
  BY <1>11 DEF TakeEvent, ReadFault, Free, Ready, Fireable, Started, NoteStart
<1>12. ASSUME NEW h \in Hand, FireNow(h) PROVE Batch'
  BY <1>12 DEF FireNow, Started
<1>13. ASSUME PushBegins PROVE Batch'
  BY <1>13 DEF PushBegins
<1>14. ASSUME PushSends PROVE Batch'
  BY <1>14 DEF PushSends
<1>15. ASSUME Upsert PROVE Batch'
  BY <1>15 DEF Upsert
<1>16. ASSUME CliCreate PROVE Batch'
  BY <1>16 DEF CliCreate, Unknown, Written, Disturb, Fresh
<1>17. ASSUME NEW c \in Cli, CliRead(c) PROVE Batch'
  BY <1>17 DEF CliRead
<1>18. ASSUME NEW c \in Cli, CliWrite(c) PROVE Batch'
  BY <1>18 DEF CliWrite
<1>19. ASSUME NEW c \in Cli, CliDelete(c) PROVE Batch'
  BY <1>19 DEF CliDelete
<1>20. ASSUME Crash PROVE Batch'
  BY <1>20 DEF Crash
<1>21. ASSUME Boot PROVE Batch'
  BY <1>21 DEF Boot
<1>22. ASSUME Clock PROVE Batch'
  BY <1>22 DEF Clock
<1>23. ASSUME UNCHANGED vars PROVE Batch'
  BY <1>23 DEF vars
<1>24. ASSUME NEW h \in Hand, DropHand(h) PROVE Batch'
  BY <1>24 DEF DropHand
<1> QED
  BY <1>1, <1>2, <1>3, <1>4, <1>5, <1>6, <1>7, <1>8, <1>9, <1>10, <1>11, <1>12, <1>13,
     <1>14, <1>15, <1>16, <1>17, <1>18, <1>19, <1>20, <1>21, <1>22, <1>23,
     <1>24 DEF Next, Firing

LEMMA GhostsStep == Typed /\ [Next]_vars => Ghosts'
<1> SUFFICES ASSUME Typed, [Next]_vars PROVE Ghosts'
  OBVIOUS
<1> USE DEF Typed, Ghosts, Fires, Fire, Copies, Copy, Batch, NoRun, ghosts, Scheduled, Job
<1>1. ASSUME NEW f \in Firer, GateSkips(f) PROVE Ghosts'
  BY <1>1 DEF GateSkips, At, Goto
<1>2. ASSUME NEW f \in Firer, GateGrants(f) PROVE Ghosts'
  BY <1>2 DEF GateGrants, At, Room, Goto
<1>3. ASSUME NEW f \in Firer, GateRefuses(f) PROVE Ghosts'
  BY <1>3 DEF GateRefuses, At, Room, Goto
<1>4. ASSUME NEW f \in Firer, Deny(f) PROVE Ghosts'
  BY <1>4 DEF Deny, At, Goto, StorageFault, Err, Disturb
<1>5. ASSUME NEW f \in Firer, InsertRun(f) PROVE Ghosts'
  BY <1>5 DEF InsertRun, At, StorageFault, Err, Disturb
<1>6. ASSUME NEW f \in Firer, Execute(f) PROVE Ghosts'
  BY <1>6 DEF Execute, At, Executed, StorageFault, Err, Disturb
<1>7. ASSUME NEW f \in Firer, AuditRun(f) PROVE Ghosts'
  BY <1>7 DEF AuditRun, At, WriteAudit, LastAttempt, Goto, StorageFault, Err, Disturb
<1>8. ASSUME NEW f \in Firer, Advance(f) PROVE Ghosts'
  BY <1>8 DEF Advance, At, Done, Disturb, Err, StorageFault
<1>9. ASSUME Tick PROVE Ghosts'
  BY <1>9 DEF Tick, ReadFault
<1>10. ASSUME FireNext PROVE Ghosts'
  BY <1>10 DEF FireNext, NoteStart
<1>11. ASSUME TakeEvent PROVE Ghosts'
  <2> DEFINE j == Head(events)
  <2>1. UNCHANGED ran /\ (missed' = missed \/ missed' = [missed EXCEPT ![j] = @ + 1])
    BY <1>11 DEF TakeEvent
  <2>2. late' = late \/ late' = [late EXCEPT ![j] = @ + 1]
    BY <1>11 DEF TakeEvent, NoteStart
  <2> HIDE DEF j
  <2> QED
    BY <2>1, <2>2
<1>12. ASSUME NEW h \in Hand, FireNow(h) PROVE Ghosts'
  BY <1>12 DEF FireNow, Started
<1>13. ASSUME PushBegins PROVE Ghosts'
  BY <1>13 DEF PushBegins
<1>14. ASSUME PushSends PROVE Ghosts'
  BY <1>14 DEF PushSends
<1>15. ASSUME Upsert PROVE Ghosts'
  BY <1>15 DEF Upsert, Disturb, Fresh
<1>16. ASSUME CliCreate PROVE Ghosts'
  BY <1>16 DEF CliCreate, Disturb, Fresh
<1>17. ASSUME NEW c \in Cli, CliRead(c) PROVE Ghosts'
  BY <1>17 DEF CliRead
<1>18. ASSUME NEW c \in Cli, CliWrite(c) PROVE Ghosts'
  BY <1>18 DEF CliWrite, Disturb, Fresh
<1>19. ASSUME NEW c \in Cli, CliDelete(c) PROVE Ghosts'
  BY <1>19 DEF CliDelete, Disturb, Fresh
<1>20. ASSUME Crash PROVE Ghosts'
  BY <1>20 DEF Crash
<1>21. ASSUME Boot PROVE Ghosts'
  BY <1>21 DEF Boot
<1>22. ASSUME Clock PROVE Ghosts'
  BY <1>22 DEF Clock
<1>23. ASSUME UNCHANGED vars PROVE Ghosts'
  BY <1>23 DEF vars
<1>24. ASSUME NEW h \in Hand, DropHand(h) PROVE Ghosts'
  BY <1>24 DEF DropHand
<1> QED
  BY <1>1, <1>2, <1>3, <1>4, <1>5, <1>6, <1>7, <1>8, <1>9, <1>10, <1>11, <1>12, <1>13,
     <1>14, <1>15, <1>16, <1>17, <1>18, <1>19, <1>20, <1>21, <1>22, <1>23,
     <1>24 DEF Next, Firing

LEMMA RestStep == Typed /\ [Next]_vars => Rest'
<1> SUFFICES ASSUME Typed, [Next]_vars PROVE Rest'
  OBVIOUS
<1> USE ConstantsAssumption DEF Typed, Rest, table, memory
<1>1. ASSUME NEW f \in Firer, GateSkips(f) PROVE Rest'
  BY <1>1 DEF GateSkips, At, Goto
<1>2. ASSUME NEW f \in Firer, GateGrants(f) PROVE Rest'
  BY <1>2 DEF GateGrants, At, Room, Goto
<1>3. ASSUME NEW f \in Firer, GateRefuses(f) PROVE Rest'
  BY <1>3 DEF GateRefuses, At, Room, Goto
<1>4. ASSUME NEW f \in Firer, Deny(f) PROVE Rest'
  BY <1>4 DEF Deny, At, Goto, StorageFault, Err
<1>5. ASSUME NEW f \in Firer, InsertRun(f) PROVE Rest'
  BY <1>5 DEF InsertRun, At, StorageFault, Err
<1>6. ASSUME NEW f \in Firer, Execute(f) PROVE Rest'
  BY <1>6 DEF Execute, At, Executed, StorageFault, Err
<1>7. ASSUME NEW f \in Firer, AuditRun(f) PROVE Rest'
  BY <1>7 DEF AuditRun, At, WriteAudit, LastAttempt, Goto, StorageFault, Err
<1>8. ASSUME NEW f \in Firer, Advance(f) PROVE Rest'
  BY <1>8 DEF Advance, At, Done, Err, StorageFault
<1>9. ASSUME Tick PROVE Rest'
  BY <1>9 DEF Tick, ReadFault, Free
<1>10. ASSUME FireNext PROVE Rest'
  BY <1>10 DEF FireNext, NoteStart
<1>11. ASSUME TakeEvent PROVE Rest'
  BY <1>11 DEF TakeEvent, ReadFault, Free, Ready, Fireable, NoteStart
<1>12. ASSUME NEW h \in Hand, FireNow(h) PROVE Rest'
  BY <1>12 DEF FireNow
<1>13. ASSUME PushBegins PROVE Rest'
  BY <1>13 DEF PushBegins
<1>14. ASSUME PushSends PROVE Rest'
  BY <1>14 DEF PushSends
<1>15. ASSUME Upsert PROVE Rest'
  BY <1>15 DEF Upsert
<1>16. ASSUME CliCreate PROVE Rest'
  BY <1>16 DEF CliCreate
<1>17. ASSUME NEW c \in Cli, CliRead(c) PROVE Rest'
  BY <1>17 DEF CliRead
<1>18. ASSUME NEW c \in Cli, CliWrite(c) PROVE Rest'
  BY <1>18 DEF CliWrite
<1>19. ASSUME NEW c \in Cli, CliDelete(c) PROVE Rest'
  BY <1>19 DEF CliDelete
<1>20. ASSUME Crash PROVE Rest'
  BY <1>20 DEF Crash
<1>21. ASSUME Boot PROVE Rest'
  BY <1>21 DEF Boot
<1>22. ASSUME Clock PROVE Rest'
  BY <1>22 DEF Clock
<1>23. ASSUME UNCHANGED vars PROVE Rest'
  BY <1>23 DEF vars
<1>24. ASSUME NEW h \in Hand, DropHand(h) PROVE Rest'
  BY <1>24 DEF DropHand
<1> QED
  BY <1>1, <1>2, <1>3, <1>4, <1>5, <1>6, <1>7, <1>8, <1>9, <1>10, <1>11, <1>12, <1>13,
     <1>14, <1>15, <1>16, <1>17, <1>18, <1>19, <1>20, <1>21, <1>22, <1>23,
     <1>24 DEF Next, Firing

(* The fires, one kind of update at a time.                                *)
Sound(f, r) ==
  /\ r \in Fire
  /\ r.pc = "idle" => r = Idle
  /\ r.pc # "idle" => r.job \in Job
  /\ f \in Hand => r.slot = NoRun

LEMMA FiresSound == Fires <=> fire = [f \in Firer |-> fire[f]] /\ \A f \in Firer : Sound(f, fire[f])
  BY DEF Fires, Sound, Firer

LEMMA OneFire ==
  ASSUME Fires, NEW f \in Firer, NEW r, Sound(f, r), fire' = [fire EXCEPT ![f] = r]
  PROVE  Fires'
<1>1. fire' = [h \in Firer |-> IF h = f THEN r ELSE fire[h]]
  BY DEF Fires
<1> QED
  BY <1>1 DEF Fires, Sound, Firer

LEMMA FireGoes ==
  ASSUME Fires, NEW f \in Firer, fire[f].pc # "idle", NEW p \in Steps \ {"idle"}
  PROVE  /\ Goto(f, p) => Fires'
         /\ \A b \in BOOLEAN : fire' = [fire EXCEPT ![f].pc = p, ![f].ok = b] => Fires'
         /\ \A b \in BOOLEAN : fire' = [fire EXCEPT ![f].pc = p, ![f].rowed = b] => Fires'
         /\ \A n \in 1 .. MaxAttempts : fire' = [fire EXCEPT ![f].pc = p, ![f].attempt = n] => Fires'
<1> DEFINE r == fire[f]
<1>1. Sound(f, r) /\ r.pc # "idle"
  BY DEF Fires, Sound
<1> USE DEF Sound, Fire
<1>2. Sound(f, [r EXCEPT !.pc = p])
  BY <1>1
<1>3. \A b \in BOOLEAN : Sound(f, [r EXCEPT !.pc = p, !.ok = b])
  BY <1>1
<1>4. \A b \in BOOLEAN : Sound(f, [r EXCEPT !.pc = p, !.rowed = b])
  BY <1>1
<1>5. \A n \in 1 .. MaxAttempts : Sound(f, [r EXCEPT !.pc = p, !.attempt = n])
  BY <1>1
<1> HIDE DEF Sound, Fire
<1>6. Goto(f, p) => Fires'
  BY <1>2, OneFire DEF Goto
<1>7. ASSUME NEW b \in BOOLEAN, fire' = [fire EXCEPT ![f].pc = p, ![f].ok = b] PROVE Fires'
  BY <1>3, <1>7, OneFire DEF Fires
<1>8. ASSUME NEW b \in BOOLEAN, fire' = [fire EXCEPT ![f].pc = p, ![f].rowed = b] PROVE Fires'
  BY <1>4, <1>8, OneFire DEF Fires
<1>9. ASSUME NEW n \in 1 .. MaxAttempts, fire' = [fire EXCEPT ![f].pc = p, ![f].attempt = n]
      PROVE Fires'
  BY <1>5, <1>9, OneFire DEF Fires
<1> QED
  BY <1>6, <1>7, <1>8, <1>9

LEMMA FireStarts ==
  ASSUME Fires, NEW f \in Firer, NEW j \in Job, NEW s \in {NoRun} \cup Nat, now \in Nat,
         f \in Hand => s = NoRun, Started(f, j, s)
  PROVE  Fires'
<1>1. \A p \in {"gate", "insert"} : Sound(f, FireOf(p, j, s, now))
  BY FireType DEF Sound, FireOf, Steps
<1> QED
  BY <1>1, OneFire DEF Started

LEMMA FireEnds ==
  ASSUME Fires, NEW f \in Firer, fire' = [fire EXCEPT ![f] = Idle]
  PROVE  Fires'
<1>1. Sound(f, Idle)
  BY FireType DEF Sound, FireOf, Idle
<1> QED
  BY <1>1, OneFire

LEMMA FireUnslots ==
  ASSUME NEW g \in [Firer -> Fire], \A f \in Firer : Sound(f, g[f]), NEW j \in Job
  PROVE  /\ fire' = Unslotted(j, g) => Fires'
         /\ fire' = [f \in Firer |-> IF g[f].job = j THEN [g[f] EXCEPT !.rowed = FALSE, !.slot = NoRun]
                                     ELSE g[f]] => Fires'
<1>1. ASSUME NEW f \in Firer, g[f].job = j
      PROVE  /\ Sound(f, [g[f] EXCEPT !.slot = NoRun])
             /\ Sound(f, [g[f] EXCEPT !.rowed = FALSE, !.slot = NoRun])
  <2> DEFINE r == g[f]
  <2>1. r \in Fire /\ r.pc # "idle" /\ r.job = j /\ NoRun \in {NoRun} \cup Nat
    BY <1>1, ConstantsAssumption DEF Sound, Idle, FireOf
  <2> HIDE DEF r
  <2>2. [r EXCEPT !.slot = NoRun] \in Fire /\ [r EXCEPT !.rowed = FALSE, !.slot = NoRun] \in Fire
    BY <2>1 DEF Fire
  <2>3. \A x \in {[r EXCEPT !.slot = NoRun], [r EXCEPT !.rowed = FALSE, !.slot = NoRun]} :
          x.pc = r.pc /\ x.job = j /\ x.slot = NoRun
    BY <2>1 DEF Fire
  <2> QED
    BY <2>1, <2>2, <2>3 DEF Sound, r
<1>2. ASSUME fire' = Unslotted(j, g) PROVE Fires'
  BY <1>1, <1>2 DEF Unslotted, Fires, Sound, Firer
<1>3. ASSUME fire' = [f \in Firer |-> IF g[f].job = j THEN [g[f] EXCEPT !.rowed = FALSE,
   !.slot = NoRun]
                                      ELSE g[f]]
      PROVE Fires'
  <2>1. \A f \in Firer : Sound(f, fire'[f])
    BY <1>1, <1>3
  <2> QED
    BY <2>1, <1>3 DEF Fires, Sound, Firer
<1> QED
  BY <1>2, <1>3

LEMMA FiresStep == Typed /\ [Next]_vars => Fires'
<1> SUFFICES ASSUME Typed, [Next]_vars PROVE Fires'
  OBVIOUS
<1>a. Fires /\ now \in Nat
  BY DEF Typed, World
<1>b. ASSUME NEW f \in Firer, NEW p, At(f, p), p # "idle"
      PROVE  /\ fire[f].pc # "idle"
             /\ StorageFault(f) \/ Err(f) => Fires'
             /\ \A q \in Steps \ {"idle"} : Goto(f, q) => Fires'
             /\ fire[f].job \in Job
  BY <1>a, <1>b, FireGoes, FireEnds DEF At, StorageFault, Err, Fires
<1>c. ASSUME NEW j \in Job, fire' = Unslotted(j, fire) PROVE Fires'
  BY <1>a, <1>c, FiresSound, FireUnslots DEF Fires
<1> USE <1>a DEF memory, table
<1>1. ASSUME NEW f \in Firer, GateSkips(f) PROVE Fires'
  <2>1. At(f, "gate")
    BY <1>1 DEF GateSkips
  <2> QED
    BY <1>1, <2>1, <1>b DEF GateSkips, Steps
<1>2. ASSUME NEW f \in Firer, GateGrants(f) PROVE Fires'
  <2>1. At(f, "gate")
    BY <1>2 DEF GateGrants
  <2> QED
    BY <1>2, <2>1, <1>b DEF GateGrants, Steps
<1>3. ASSUME NEW f \in Firer, GateRefuses(f) PROVE Fires'
  <2>1. At(f, "gate")
    BY <1>3 DEF GateRefuses
  <2> QED
    BY <1>3, <2>1, <1>b DEF GateRefuses, Steps
<1>4. ASSUME NEW f \in Firer, Deny(f) PROVE Fires'
  <2>1. At(f, "deny")
    BY <1>4 DEF Deny
  <2> QED
    BY <1>4, <2>1, <1>b DEF Deny, Steps
<1>5. ASSUME NEW f \in Firer, InsertRun(f) PROVE Fires'
  <2>1. At(f, "insert")
    BY <1>5 DEF InsertRun
  <2>2. fire[f].pc # "idle" /\ fire[f].job \in Job
    BY <2>1, <1>b
  <2>3. \A p \in {"run", "audit", "insert"} : p \in Steps \ {"idle"}
    BY DEF Steps
  <2> QED
    BY <1>5, <2>1, <2>2, <2>3, <1>b, FireGoes DEF InsertRun
<1>6. ASSUME NEW f \in Firer, Execute(f) PROVE Fires'
  <2>1. At(f, "run")
    BY <1>6 DEF Execute
  <2>2. fire[f].pc # "idle" /\ fire[f].job \in Job
    BY <2>1, <1>b
  <2>3. \A p \in {"run", "audit", "insert"} : p \in Steps \ {"idle"}
    BY DEF Steps
  <2> QED
    BY <1>6, <2>1, <2>2, <2>3, <1>b, FireGoes DEF Execute
<1>7. ASSUME NEW f \in Firer, AuditRun(f) PROVE Fires'
  <2>1. At(f, "audit")
    BY <1>7 DEF AuditRun
  <2>2. fire[f].pc # "idle" /\ fire[f].job \in Job
    BY <2>1, <1>b
  <2>3. \A p \in {"run", "audit", "insert"} : p \in Steps \ {"idle"}
    BY DEF Steps
  <2>4. ~LastAttempt(f) => fire[f].attempt + 1 \in 1 .. MaxAttempts
    BY ConstantsAssumption DEF LastAttempt, Fires, Fire
  <2>5. "advance" \in Steps \ {"idle"}
    BY DEF Steps
  <2> QED
    BY <1>7, <2>1, <2>2, <2>3, <1>b, <2>4, <2>5, FireGoes DEF AuditRun
<1>8. ASSUME NEW f \in Firer, Advance(f) PROVE Fires'
  <2>1. At(f, "advance")
    BY <1>8 DEF Advance
  <2>2. fire[f].pc # "idle" /\ fire[f].job \in Job
    BY <2>1, <1>b
  <2>3. \A p \in {"run", "audit", "insert"} : p \in Steps \ {"idle"}
    BY DEF Steps
  <2> DEFINE g == [fire EXCEPT ![f] = Idle]
  <2>5. g \in [Firer -> Fire] /\ \A h \in Firer : Sound(h, g[h])
    BY FireType, FiresSound DEF Fires, Sound, Idle, FireOf
  <2>6. fire' = Unslotted(fire[f].job, g) => Fires'
    BY <2>2, <2>5, FireUnslots
  <2> HIDE DEF g
  <2>7. g = [fire EXCEPT ![f] = Idle]
    BY DEF g
  <2> QED
    BY <1>8, <2>1, <2>2, <2>3, <1>b, <2>6, <2>7, FireEnds DEF Advance, Done
<1>9. ASSUME Tick PROVE Fires'
  BY <1>9 DEF Tick, ReadFault, Fires
<1>10. ASSUME FireNext PROVE Fires'
  <2>1. PICK e \in batch : Started(Runner, e.job, e.next)
    BY <1>10 DEF FireNext
  <2>2. e.job \in Job /\ e.next \in Nat /\ Runner \in Firer /\ Runner \notin Hand
    BY ConstantsAssumption DEF Typed, Batch, Job, Firer
  <2> QED
    BY <2>1, <2>2, FireStarts
<1>11. ASSUME TakeEvent PROVE Fires'
  <2>1. Head(events) \in Job /\ Runner \in Firer /\ Runner \notin Hand
    BY SMTT(30), <1>11, ConstantsAssumption DEF TakeEvent, ReadFault, Ready, Typed, Feed, Job, Firer
  <2> QED
    BY <1>11, <2>1, FireStarts DEF TakeEvent, ReadFault, Fires
<1>12. ASSUME NEW h \in Hand, FireNow(h) PROVE Fires'
  <2>1. PICK j \in Job : Started(h, j, NoRun)
    BY <1>12 DEF FireNow
  <2> QED
    BY <2>1, FireStarts DEF Firer
<1>13. ASSUME PushBegins PROVE Fires'
  BY <1>13 DEF PushBegins, Fires
<1>14. ASSUME PushSends PROVE Fires'
  BY <1>14 DEF PushSends, Fires
<1>15. ASSUME Upsert PROVE Fires'
  <2> QED
    BY <1>15, <1>c DEF Upsert
<1>16. ASSUME CliCreate PROVE Fires'
  BY <1>16 DEF CliCreate, Fires
<1>17. ASSUME NEW c \in Cli, CliRead(c) PROVE Fires'
  BY <1>17 DEF CliRead, Fires
<1>18. ASSUME NEW c \in Cli, CliWrite(c) PROVE Fires'
  <2>1. cli[c].job \in Job
    BY <1>18 DEF CliWrite, CliDelete, Typed, Copies
  <2> QED
    BY <1>18, <2>1, <1>c DEF CliWrite
<1>19. ASSUME NEW c \in Cli, CliDelete(c) PROVE Fires'
  <2>1. cli[c].job \in Job
    BY <1>19 DEF CliWrite, CliDelete, Typed, Copies
  <2> QED
    BY <1>19, <2>1, FiresSound, FireUnslots DEF CliDelete, Fires
<1>20. ASSUME Crash PROVE Fires'
  <2>1. \A f \in Firer : Sound(f, Idle)
    BY FireType DEF Sound, Idle, FireOf
  <2> QED
    BY <1>20, <2>1 DEF Crash, Fires, Sound, Firer
<1>21. ASSUME Boot PROVE Fires'
  BY <1>21 DEF Boot, Fires
<1>22. ASSUME Clock PROVE Fires'
  BY <1>22 DEF Clock, Fires
<1>23. ASSUME UNCHANGED vars PROVE Fires'
  BY <1>23 DEF vars, Fires
<1>24. ASSUME NEW h \in Hand, DropHand(h) PROVE Fires'
  BY <1>24, FireEnds DEF DropHand, Firer
<1> QED
  BY <1>1, <1>2, <1>3, <1>4, <1>5, <1>6, <1>7, <1>8, <1>9, <1>10, <1>11, <1>12, <1>13,
     <1>14, <1>15, <1>16, <1>17, <1>18, <1>19, <1>20, <1>21, <1>22, <1>23,
     <1>24 DEF Next, Firing

LEMMA DownStep == Typed /\ [Next]_vars => Down'
<1> SUFFICES ASSUME Typed, [Next]_vars PROVE Down'
  OBVIOUS
<1> USE ConstantsAssumption DEF Typed, Down, Fires, Firer, Ghosts, Copies, NoRun, memory,
   table, ghosts
<1>1. ASSUME NEW f \in Firer, GateSkips(f) PROVE Down'
  BY <1>1 DEF GateSkips, At, Goto
<1>2. ASSUME NEW f \in Firer, GateGrants(f) PROVE Down'
  BY <1>2 DEF GateGrants, At, Room, Goto
<1>3. ASSUME NEW f \in Firer, GateRefuses(f) PROVE Down'
  BY <1>3 DEF GateRefuses, At, Room, Goto
<1>4. ASSUME NEW f \in Firer, Deny(f) PROVE Down'
  BY <1>4 DEF Deny, At, Goto, StorageFault, Err, Disturb
<1>5. ASSUME NEW f \in Firer, InsertRun(f) PROVE Down'
  BY <1>5 DEF InsertRun, At, StorageFault, Err, Disturb
<1>6. ASSUME NEW f \in Firer, Execute(f) PROVE Down'
  BY <1>6 DEF Execute, At, Executed, StorageFault, Err, Disturb
<1>7. ASSUME NEW f \in Firer, AuditRun(f) PROVE Down'
  BY <1>7 DEF AuditRun, At, WriteAudit, LastAttempt, Goto, StorageFault, Err, Disturb
<1>8. ASSUME NEW f \in Firer, Advance(f) PROVE Down'
  BY <1>8 DEF Advance, At, Done, Unslotted, Disturb, Err, StorageFault
<1>9. ASSUME Tick PROVE Down'
  BY <1>9 DEF Tick, ReadFault, Free, Cuts, Due, Selected
<1>10. ASSUME FireNext PROVE Down'
  BY <1>10 DEF FireNext, Started, NoteStart
<1>11. ASSUME TakeEvent PROVE Down'
  BY <1>11 DEF TakeEvent, ReadFault, Free, Ready, Fireable, Started, NoteStart
<1>12. ASSUME NEW h \in Hand, FireNow(h) PROVE Down'
  BY <1>12 DEF FireNow, Started
<1>13. ASSUME PushBegins PROVE Down'
  BY <1>13 DEF PushBegins
<1>14. ASSUME PushSends PROVE Down'
  BY <1>14 DEF PushSends
<1>15. ASSUME Upsert PROVE Down'
  BY <1>15 DEF Upsert, Written, Registered, Disturb, Fresh, Unslotted
<1>16. ASSUME CliCreate PROVE Down'
  BY <1>16 DEF CliCreate, Unknown, Written, Disturb, Fresh
<1>17. ASSUME NEW c \in Cli, CliRead(c) PROVE Down'
  BY <1>17 DEF CliRead
<1>18. ASSUME NEW c \in Cli, CliWrite(c) PROVE Down'
  <2>1. ASSUME ~up PROVE cli[c].job \in Job /\ \A f \in Firer : fire[f].job # cli[c].job
    <3>1. cli[c].job \in Job
      BY <1>18 DEF CliWrite, CliDelete
    <3>2. NoJob \notin Job /\ \A f \in Firer : fire[f].job = NoJob
      BY <2>1, ConstantsAssumption DEF Idle, FireOf
    <3> QED
      BY <3>1, <3>2
  <2> QED
    BY <1>18, <2>1 DEF CliWrite, Unslotted, Disturb
<1>19. ASSUME NEW c \in Cli, CliDelete(c) PROVE Down'
  <2>1. ASSUME ~up PROVE cli[c].job \in Job /\ \A f \in Firer : fire[f].job # cli[c].job
    <3>1. cli[c].job \in Job
      BY <1>19 DEF CliWrite, CliDelete
    <3>2. NoJob \notin Job /\ \A f \in Firer : fire[f].job = NoJob
      BY <2>1, ConstantsAssumption DEF Idle, FireOf
    <3> QED
      BY <3>1, <3>2
  <2> QED
    BY <1>19, <2>1 DEF CliDelete, Disturb
<1>20. ASSUME Crash PROVE Down'
  BY <1>20 DEF Crash
<1>21. ASSUME Boot PROVE Down'
  BY <1>21 DEF Boot
<1>22. ASSUME Clock PROVE Down'
  BY <1>22 DEF Clock
<1>23. ASSUME UNCHANGED vars PROVE Down'
  BY <1>23 DEF vars
<1>24. ASSUME NEW h \in Hand, DropHand(h) PROVE Down'
  BY <1>24 DEF DropHand
<1> QED
  BY <1>1, <1>2, <1>3, <1>4, <1>5, <1>6, <1>7, <1>8, <1>9, <1>10, <1>11, <1>12, <1>13,
     <1>14, <1>15, <1>16, <1>17, <1>18, <1>19, <1>20, <1>21, <1>22, <1>23,
     <1>24 DEF Next, Firing

LEMMA TypedStep == Typed /\ [Next]_vars => Typed'
<1> SUFFICES ASSUME Typed, [Next]_vars PROVE Typed'
  OBVIOUS
<1>1. World /\ Feed
  BY DEF Typed
<1> QED
  BY <1>1, WorldStep, FeedStep, RowsStep, CopiesStep, BatchStep, FiresStep, GhostsStep,
     RestStep,
     DownStep DEF Typed

-----------------------------------------------------------------------------
(* A paused job. *)

LEMMA PauseStep == Typed /\ BatchInv /\ PauseInv /\ [Next]_vars => PauseInv'
<1> SUFFICES ASSUME Typed, BatchInv, PauseInv, [Next]_vars PROVE PauseInv'
  OBVIOUS
<1> USE DEF Typed, Rows, Row, Batch, Ghosts, Copies, Copy, BatchInv, PauseInv, Scheduled,
   Job, memory, table, ghosts
<1>1. ASSUME NEW f \in Firer, GateSkips(f) PROVE PauseInv'
  BY <1>1 DEF GateSkips, At, Goto
<1>2. ASSUME NEW f \in Firer, GateGrants(f) PROVE PauseInv'
  BY <1>2 DEF GateGrants, At, Room, Goto
<1>3. ASSUME NEW f \in Firer, GateRefuses(f) PROVE PauseInv'
  BY <1>3 DEF GateRefuses, At, Room, Goto
<1>4. ASSUME NEW f \in Firer, Deny(f) PROVE PauseInv'
  BY <1>4 DEF Deny, At, Goto, StorageFault, Err, Disturb
<1>5. ASSUME NEW f \in Firer, InsertRun(f) PROVE PauseInv'
  BY <1>5 DEF InsertRun, At, StorageFault, Err, Disturb
<1>6. ASSUME NEW f \in Firer, Execute(f) PROVE PauseInv'
  BY <1>6 DEF Execute, StorageFault, Err
<1>7. ASSUME NEW f \in Firer, AuditRun(f) PROVE PauseInv'
  BY <1>7 DEF AuditRun, At, WriteAudit, LastAttempt, Goto, StorageFault, Err, Disturb
<1>8. ASSUME NEW f \in Firer, Advance(f) PROVE PauseInv'
  BY <1>8 DEF Advance, Err, StorageFault
<1>9. ASSUME Tick PROVE PauseInv'
  BY <1>9 DEF Tick, ReadFault, Free, Cuts, Due, Selected
<1>10. ASSUME FireNext PROVE PauseInv'
  BY <1>10 DEF FireNext, NoteStart
<1>11. ASSUME TakeEvent PROVE PauseInv'
  BY <1>11 DEF TakeEvent, ReadFault, Fireable, NoteStart
<1>12. ASSUME NEW h \in Hand, FireNow(h) PROVE PauseInv'
  BY <1>12 DEF FireNow, Started
<1>13. ASSUME PushBegins PROVE PauseInv'
  BY <1>13 DEF PushBegins
<1>14. ASSUME PushSends PROVE PauseInv'
  BY <1>14 DEF PushSends
<1>15. ASSUME Upsert PROVE PauseInv'
  BY <1>15 DEF Upsert, Written, Fresh
<1>16. ASSUME CliCreate PROVE PauseInv'
  BY <1>16 DEF CliCreate, Written, Fresh
<1>17. ASSUME NEW c \in Cli, CliRead(c) PROVE PauseInv'
  BY <1>17 DEF CliRead
<1>18. ASSUME NEW c \in Cli, CliWrite(c) PROVE PauseInv'
  BY <1>18 DEF CliWrite, Written, Fresh
<1>19. ASSUME NEW c \in Cli, CliDelete(c) PROVE PauseInv'
  <2>1. cli[c].job \in Job
    BY <1>19 DEF CliDelete
  <2>2. \A j \in Job : late'[j] > 0 => late'[j] = late[j] /\ row'[j] = row[j] /\ batch' = batch
    <3>1. /\ late' = [late EXCEPT ![cli[c].job] = 0] /\ batch' = batch
          /\ row' = [row EXCEPT ![cli[c].job] = Absent]
      BY <1>19 DEF CliDelete, Fresh
    <3> QED
      BY <2>1, <3>1
  <2> QED
    BY <2>2
<1>20. ASSUME Crash PROVE PauseInv'
  BY <1>20 DEF Crash
<1>21. ASSUME Boot PROVE PauseInv'
  BY <1>21 DEF Boot
<1>22. ASSUME Clock PROVE PauseInv'
  BY <1>22 DEF Clock
<1>23. ASSUME UNCHANGED vars PROVE PauseInv'
  BY <1>23 DEF vars
<1>24. ASSUME NEW h \in Hand, DropHand(h) PROVE PauseInv'
  BY <1>24 DEF DropHand
<1> QED
  BY <1>1, <1>2, <1>3, <1>4, <1>5, <1>6, <1>7, <1>8, <1>9, <1>10, <1>11, <1>12, <1>13,
     <1>14, <1>15, <1>16, <1>17, <1>18, <1>19, <1>20, <1>21, <1>22, <1>23,
     <1>24 DEF Next, Firing

-----------------------------------------------------------------------------
(* The runner's fire. *)

(* What the runner itself does not do: others disturb a row, a due time    *)
(* and the standing of the runner's fire together, or not at all.          *)
Meddle ==
  /\ batch' = batch /\ now' >= now
  /\ \A j \in Job : ran'[j] = ran[j] \/ ran'[j] = NoRun
  /\ fire'[Runner] # fire[Runner] =>
       /\ fire[Runner].job \in Job /\ ran'[fire[Runner].job] = NoRun
       /\ fire'[Runner].slot = NoRun
       /\ \A k \in {"pc", "job", "at", "ok"} : fire'[Runner][k] = fire[Runner][k]
  /\ \A j \in Job : row'[j] # row[j] =>
       /\ ran'[j] = NoRun
       /\ fire'[Runner].slot = NoRun \/ fire[Runner].job # j \/ row'[j].there

Known == BatchInv /\ RunInv /\ SlotInv

LEMMA MeddleKeeps ==
  ASSUME Typed, Typed', Known, Meddle
  PROVE  Known'
<1> DEFINE r == fire[Runner]
<1>0. /\ now \in Nat /\ now' \in Nat /\ Runner \in Firer
      /\ r.at \in Nat /\ r.slot \in {NoRun} \cup Nat
      /\ \A j \in Job : /\ ran[j] \in {NoRun} \cup Nat /\ ran'[j] \in {NoRun} \cup Nat
                        /\ row[j].next \in Nat /\ row'[j].next \in Nat
      /\ \A e \in batch : e.job \in Job /\ e.next \in Nat
  BY DEF Typed, World, Ghosts, Rows, Row, Fires, Fire, Firer, Batch, Job
<1> USE <1>0 DEF NoRun
<1>1. BatchInv'
  BY DEF Meddle, Known, BatchInv
<1>2. RunInv'
  BY DEF Meddle, Known, RunInv, Settling, Job
<1>3. SlotInv'
  <2>1. CASE fire'[Runner] = fire[Runner]
    BY <2>1 DEF Meddle, Known, SlotInv, Unrun, Job
  <2>2. CASE fire'[Runner] # fire[Runner]
    BY <2>2 DEF Meddle, Known, SlotInv, Unrun
  <2> QED
    BY <2>1, <2>2
<1> QED
  BY <1>1, <1>2, <1>3 DEF Known

(* The runner's fire goes on to its next await.                            *)
Same(r, q) == q.job = r.job /\ q.slot = r.slot /\ q.at = r.at

LEMMA RunnerGoes ==
  ASSUME Typed, Known, UNCHANGED <<row, ran, now, batch>>,
         Same(fire[Runner], fire'[Runner]),
         fire[Runner].job \in Job,
         Settling(fire[Runner].job) => Settling(fire[Runner].job)',
         Unrun(fire'[Runner]) => Unrun(fire[Runner]),
         fire'[Runner].rowed => fire[Runner].rowed \/ row[fire[Runner].job].there
  PROVE  Known'
<1>1. BatchInv'
  BY DEF Known, BatchInv, Same
<1>2. RunInv'
  BY DEF Known, RunInv, Settling, Same
<1>3. SlotInv'
  BY DEF Known, SlotInv, Same
<1> QED
  BY <1>1, <1>2, <1>3 DEF Known

(* The runner's fire ends in an error.                                     *)
LEMMA RunnerErrs ==
  ASSUME Typed, Known, UNCHANGED <<row, now>>, batch' = {}, fire'[Runner] = Idle,
         NEW j \in Job, fire[Runner].job = j,
         \A k \in Job : k # j => ran'[k] = ran[k],
         \/ ran'[j] = NoRun
         \/ ran'[j] = ran[j] /\ (j \in Malformed \/ ~row[j].there \/ ~Settling(j))
  PROVE  Known'
<1>1. BatchInv'
  BY DEF Known, BatchInv
<1>2. \A k \in Job : row[k].next \in Nat /\ ran[k] \in {NoRun} \cup Nat
  BY DEF Typed, Rows, Row, Ghosts
<1>3. RunInv'
  BY <1>2 DEF Known, RunInv, Settling, NoRun, Job, Idle, FireOf
<1>4. SlotInv'
  BY ConstantsAssumption DEF Known, SlotInv, Idle, FireOf, Typed, World
<1> QED
  BY <1>1, <1>3, <1>4 DEF Known

(* A "run now" request's fire meddles.                                     *)
LEMMA HandMeddles ==
  ASSUME Typed, NEW f \in Firer, f # Runner, Firing(f)
  PROVE  Meddle
<1>0. /\ Runner \in Firer /\ fire \in [Firer -> Fire] /\ ran \in [Job -> {NoRun} \cup Nat]
      /\ row \in [Job -> Row] /\ now \in Nat
      /\ fire[Runner].pc = "idle" => fire[Runner].job \notin Job
  BY ConstantsAssumption DEF Typed, Fires, Ghosts, Rows, World, Firer, Idle, FireOf
<1>a. ASSUME UNCHANGED <<batch, now, row>>, ran' = ran \/ \E j \in Job : Disturb(j),
             fire'[Runner] = fire[Runner]
      PROVE  Meddle
  BY <1>0, <1>a DEF Meddle, Disturb
<1>b. ASSUME NEW p, At(f, p), p # "idle" PROVE fire[f].job \in Job
  BY <1>b DEF Typed, Fires, At
<1>c. ASSUME StorageFault(f), fire[f].job \in Job
      PROVE  fire'[Runner] = fire[Runner] /\ batch' = batch /\ \E j \in Job : Disturb(j)
  BY <1>0, <1>c DEF StorageFault, Err
<1>d. Err(f) => fire'[Runner] = fire[Runner] /\ batch' = batch
  BY <1>0 DEF Err
<1>e. \A p : Goto(f, p) => fire'[Runner] = fire[Runner]
  BY <1>0 DEF Goto
<1>1. CASE GateSkips(f) \/ GateGrants(f) \/ GateRefuses(f)
  BY <1>1, <1>a, <1>e DEF GateSkips, GateGrants, GateRefuses, table, ghosts, world
<1>2. CASE Deny(f)
  BY <1>2, <1>a, <1>b, <1>c, <1>e DEF Deny, table
<1>3. CASE InsertRun(f)
  <2>1. fire[f].job \in Job
    BY <1>3, <1>b DEF InsertRun
  <2> QED
    BY <1>0, <1>3, <2>1, <1>a, <1>c, <1>d DEF InsertRun, table
<1>4. CASE Execute(f)
  <2>1. fire[f].job \in Job
    BY <1>4, <1>b DEF Execute
  <2>2. \A ok \in BOOLEAN : Executed(f, ok) => ran' = ran
    BY DEF Executed
  <2> QED
    BY <1>0, <1>4, <2>1, <2>2, <1>a, <1>c, <1>d DEF Execute
<1>5. CASE AuditRun(f)
  <2>1. fire[f].job \in Job
    BY <1>5, <1>b DEF AuditRun
  <2> QED
    BY <1>0, <1>5, <2>1, <1>a, <1>c, <1>d, <1>e DEF AuditRun
<1>6. CASE Advance(f)
  <2>1. fire[f].job \in Job
    BY <1>6, <1>b DEF Advance
  <2>a. UNCHANGED now
    BY <1>6 DEF Advance
  <2>2. CASE (StorageFault(f) \/ (Err(f) /\ UNCHANGED ran)) /\ UNCHANGED row
    BY <2>a, <2>1, <2>2, <1>a, <1>c, <1>d
  <2>3. CASE ~((StorageFault(f) \/ (Err(f) /\ UNCHANGED ran)) /\ UNCHANGED row)
    <3> DEFINE j == fire[f].job
               g == [fire EXCEPT ![f] = Idle]
    <3>1. /\ batch' = batch /\ now' = now /\ row[j].there
          /\ row' = [row EXCEPT ![j].next = NextFire(j, fire[f].at)]
          /\ fire' = Unslotted(j, g) /\ ran' = [ran EXCEPT ![j] = NoRun]
      BY <1>6, <2>3 DEF Advance, Disturb
    <3>2. g[Runner] = fire[Runner]
      BY <1>0
    <3>3. fire'[Runner] = IF fire[Runner].job = j THEN [fire[Runner] EXCEPT !.slot = NoRun]
                          ELSE fire[Runner]
      BY <1>0, <3>1, <3>2 DEF Unslotted
    <3>4. \A k \in Job : /\ ran'[k] = IF k = j THEN NoRun ELSE ran[k]
                         /\ row'[k] # row[k] => k = j /\ row'[j].there
      BY <1>0, <2>1, <3>1 DEF Row
    <3>5. fire[Runner].job = j => ran'[j] = NoRun
      BY <3>4, <2>1
    <3> HIDE DEF j, g
    <3>6. fire'[Runner] # fire[Runner] =>
            /\ fire[Runner].job = j /\ fire'[Runner].slot = NoRun
            /\ \A k \in {"pc", "job", "at", "ok"} : fire'[Runner][k] = fire[Runner][k]
      BY <1>0, <3>3 DEF Fire
    <3> QED
      BY <1>0, <2>1, <3>1, <3>4, <3>5, <3>6 DEF Meddle, j
  <2> QED
    BY <2>2, <2>3
<1> QED
  BY <1>1, <1>2, <1>3, <1>4, <1>5, <1>6 DEF Firing

(* So does everything else that is not the runner, a crash or a boot.      *)
LEMMA OtherMeddles ==
  ASSUME Typed, [Next]_vars,
         \/ \E h \in Hand : FireNow(h) \/ DropHand(h)
         \/ PushBegins \/ PushSends \/ Upsert \/ CliCreate
         \/ \E c \in Cli : CliRead(c) \/ CliWrite(c) \/ CliDelete(c)
         \/ Clock \/ UNCHANGED vars
  PROVE  Meddle
<1>0. /\ Runner \in Firer /\ fire \in [Firer -> Fire] /\ ran \in [Job -> {NoRun} \cup Nat]
      /\ row \in [Job -> Row] /\ now \in Nat /\ Runner \notin Hand
  BY ConstantsAssumption DEF Typed, Fires, Ghosts, Rows, World, Firer
<1>1. ASSUME UNCHANGED <<batch, row, ran>>, now' \in {now, now + 1},
   fire'[Runner] = fire[Runner]
      PROVE  Meddle
  BY <1>0, <1>1 DEF Meddle
<1>2. ASSUME NEW j \in Job, UNCHANGED <<batch, now>>, Disturb(j),
             \A k \in Job : k # j => row'[k] = row[k],
             IF fire[Runner].job = j
             THEN /\ fire'[Runner].slot = NoRun
                  /\ \A k \in {"pc", "job", "at", "ok"} : fire'[Runner][k] = fire[Runner][k]
             ELSE fire'[Runner] = fire[Runner]
      PROVE  Meddle
  BY <1>0, <1>2 DEF Meddle, Disturb
<1>3. ASSUME NEW h \in Hand, FireNow(h) PROVE Meddle
  BY <1>0, <1>1, <1>3 DEF FireNow, Started, table, ghosts
<1>4. CASE PushBegins \/ PushSends \/ Clock \/ UNCHANGED vars
  BY <1>0, <1>1, <1>4 DEF PushBegins, PushSends, Clock, table, memory, ghosts, world, vars
<1>5. ASSUME NEW j \in Job, UNCHANGED <<batch, now>>, Disturb(j),
             \A k \in Job : k # j => row'[k] = row[k], fire' = Unslotted(j, fire)
      PROVE  Meddle
  BY <1>0, <1>2, <1>5 DEF Unslotted, Fire
<1>6. CASE Upsert
  BY <1>0, <1>5, <1>6 DEF Upsert, Written
<1>7. CASE CliCreate
  <2>1. PICK j \in Cron : Unknown(j) /\ row' = Written(j, TRUE, NextFire(j, now)) /\ Disturb(j)
    BY <1>7 DEF CliCreate
  <2>2. j \in Job /\ fire[Runner].job # j /\ UNCHANGED <<batch, fire, now>>
    BY <1>0, <1>7, <2>1 DEF Job, Scheduled, Unknown, CliCreate, memory
  <2> QED
    BY <1>0, <1>2, <2>1, <2>2 DEF Written
<1>8. ASSUME NEW c \in Cli, CliRead(c) PROVE Meddle
  BY <1>0, <1>1, <1>8 DEF CliRead, table, memory, ghosts
<1>9. ASSUME NEW c \in Cli, CliWrite(c) PROVE Meddle
  <2>1. cli[c].job \in Job
    BY <1>9 DEF CliWrite, Typed, Copies
  <2> QED
    BY <1>0, <1>5, <1>9, <2>1 DEF CliWrite, Written, world
<1>10. ASSUME NEW c \in Cli, CliDelete(c) PROVE Meddle
  <2>1. cli[c].job \in Job
    BY <1>10 DEF CliDelete, Typed, Copies
  <2>2. fire'[Runner] = IF fire[Runner].job = cli[c].job
                        THEN [fire[Runner] EXCEPT !.rowed = FALSE, !.slot = NoRun] ELSE fire[Runner]
    BY <1>0, <1>10 DEF CliDelete
  <2>3. \A k \in Job : k # cli[c].job => row'[k] = row[k]
    BY <1>0, <1>10 DEF CliDelete
  <2>4. UNCHANGED <<batch, now>> /\ Disturb(cli[c].job)
    BY <1>10 DEF CliDelete, world
  <2> QED
    BY <1>0, <1>2, <2>1, <2>2, <2>3, <2>4 DEF Fire
<1>11. ASSUME NEW h \in Hand, DropHand(h) PROVE Meddle
  BY <1>0, <1>1, <1>11 DEF DropHand, table, ghosts
<1> QED
  BY <1>3, <1>4, <1>6, <1>7, <1>8, <1>9, <1>10, <1>11

(* The runner's own steps.                                                 *)
LEMMA RunnerFires ==
  ASSUME Typed, Known, Firing(Runner)
  PROVE  Known'
<1> DEFINE r == fire[Runner]
           j == r.job
<1>0. /\ Runner \in Firer /\ fire \in [Firer -> Fire] /\ ran \in [Job -> {NoRun} \cup Nat]
      /\ row \in [Job -> Row] /\ now \in Nat
  BY DEF Typed, Fires, Ghosts, Rows, World, Firer
<1>a. ASSUME NEW p, At(Runner, p), p # "idle" PROVE j \in Job /\ r.pc = p
  BY <1>0, <1>a DEF Typed, Fires, At
<1>b. ASSUME j \in Job, StorageFault(Runner), UNCHANGED <<row, now>> PROVE Known'
  BY <1>0, <1>b, RunnerErrs DEF StorageFault, Err, Disturb
<1>c. ASSUME j \in Job, Err(Runner), UNCHANGED <<row, now, ran>>,
             j \in Malformed \/ ~row[j].there \/ ~Settling(j)
      PROVE  Known'
  BY <1>0, <1>c, RunnerErrs DEF Err
<1>d. ASSUME NEW p, Goto(Runner, p)
      PROVE  Same(r, r') /\ r'.pc = p /\ r'.ok = r.ok /\ r'.rowed = r.rowed
  BY <1>0, <1>d DEF Goto, Same, Fire
<1>e. ASSUME NEW p, Goto(Runner, p), j \in Job, UNCHANGED <<row, ran, now, batch>>,
             \/ Unrun(r) /\ p \in {"insert", "deny"}
             \/ p = "advance"
      PROVE  Known'
  BY <1>d, <1>e, RunnerGoes DEF Settling, Same, Unrun
<1>1. CASE GateSkips(Runner) \/ GateGrants(Runner) \/ GateRefuses(Runner)
  <2>1. At(Runner, "gate") /\ UNCHANGED <<row, ran, now, batch>>
    BY <1>1 DEF GateSkips, GateGrants, GateRefuses, table, ghosts, world
  <2>2. j \in Job /\ Unrun(r)
    BY <2>1, <1>a DEF Unrun
  <2> QED
    BY <1>1, <2>1, <2>2, <1>e DEF GateSkips, GateGrants, GateRefuses
<1>2. CASE Deny(Runner)
  <2>1. j \in Job /\ UNCHANGED <<row, now>>
    BY <1>2, <1>a DEF Deny, table
  <2> QED
    BY <1>2, <2>1, <1>b, <1>e DEF Deny
<1>3. CASE InsertRun(Runner)
  <2>1. j \in Job /\ r.pc = "insert" /\ UNCHANGED <<row, now>>
    BY <1>3, <1>a DEF InsertRun, table
  <2>2. CASE row[j].there /\ fire' = [fire EXCEPT ![Runner].pc = "run", ![Runner].rowed = TRUE]
             /\ UNCHANGED <<batch, ran>>
    <3>1. Same(r, r') /\ r'.pc = "run"
      BY <1>0, <2>2 DEF Same, Fire
    <3> QED
      BY <2>1, <2>2, <3>1, RunnerGoes DEF Settling, Unrun
  <2>3. ~Settling(j)
    BY <2>1 DEF Settling
  <2> QED
    BY <1>3, <2>1, <2>2, <2>3, <1>b, <1>c DEF InsertRun
<1>4. CASE Execute(Runner)
  <2>1. j \in Job /\ r.pc = "run" /\ UNCHANGED <<row, now>>
    BY <1>4, <1>a DEF Execute
  <2>2. ~Settling(j) /\ Unrun(r)
    BY <2>1 DEF Settling, Unrun
  <2>3. ASSUME NEW ok \in BOOLEAN, r.rowed, Executed(Runner, ok), UNCHANGED batch,
               fire' = [fire EXCEPT ![Runner].pc = "audit", ![Runner].ok = ok]
        PROVE  Known'
    <3>1. Same(r, r') /\ r'.pc = "audit" /\ r'.ok = ok /\ r'.rowed = r.rowed
      BY <1>0, <2>3 DEF Same, Fire
    <3>2. CASE ~ok \/ r.slot = NoRun
      <4>1. ran' = ran
        BY <2>3, <3>2 DEF Executed
      <4> QED
        BY <2>1, <2>2, <2>3, <3>1, <4>1, RunnerGoes
    <3>3. CASE ok /\ r.slot # NoRun
      <4>1. ran' = [ran EXCEPT ![j] = r.slot]
        BY <2>3, <3>3 DEF Executed
      <4>2. r.slot \in Nat /\ r.at \in Nat /\ j \in Scheduled /\ row[j].there
        BY <1>0, <2>3, <3>3 DEF Known, SlotInv, Fire
      <4>3. j \notin Webhook
        BY <4>2, ConstantsAssumption
      <4>4. \A k \in Job : ran'[k] = IF k = j THEN r.slot ELSE ran[k]
        BY <1>0, <4>1, <2>1
      <4> HIDE DEF j
      <4>5. BatchInv'
        BY <2>1, <2>3, <3>1, <4>4 DEF Known, BatchInv, Same, Typed, Batch, Job, j
      <4>6. RunInv'
        BY <2>1, <2>2, <3>1, <3>3, <4>2, <4>3, <4>4 DEF Known, RunInv, Settling, Same, Job, j
      <4>7. SlotInv'
        BY <2>1, <3>1, <3>3, <4>2, <4>4 DEF Known, SlotInv, Unrun, Same, j
      <4> QED
        BY <4>5, <4>6, <4>7 DEF Known
    <3> QED
      BY <3>2, <3>3
  <2> QED
    BY <1>4, <2>1, <2>2, <2>3, <1>b, <1>c DEF Execute
<1>5. CASE AuditRun(Runner)
  <2>1. j \in Job /\ r.pc = "audit" /\ UNCHANGED <<row, now>>
    BY <1>5, <1>a DEF AuditRun
  <2>2. ASSUME ~r.ok, fire' = [fire EXCEPT ![Runner].pc = "insert", ![Runner].attempt = @ + 1],
               UNCHANGED <<batch, ran>>
        PROVE  Known'
    <3>1. Same(r, r') /\ r'.pc = "insert" /\ r'.rowed = r.rowed
      BY <1>0, <2>2 DEF Same, Fire
    <3> QED
      BY <2>1, <2>2, <3>1, RunnerGoes DEF Settling, Unrun
  <2> QED
    BY <1>5, <2>1, <2>2, <1>b, <1>e DEF AuditRun
<1>6. CASE Advance(Runner)
  <2>1. j \in Job /\ r.pc = "advance" /\ UNCHANGED now
    BY <1>6, <1>a DEF Advance
  <2>2. ASSUME j \notin Malformed, fire' = [fire EXCEPT ![Runner] = Idle], UNCHANGED <<batch, ran>>,
               row' = [row EXCEPT ![j].next = NextFire(j, r.at)]
        PROVE  Known'
    <3>1. r.at \in Nat /\ r.slot \in {NoRun} \cup Nat /\ r' = Idle
      BY <1>0, <2>2 DEF Fire
    <3>2. NextFire(j, r.at) \in Nat /\ (j \notin Webhook => NextFire(j, r.at) > r.at)
      BY <2>1, <3>1, NextFireLater
    <3>3. \A k \in Job : /\ row'[k].there = row[k].there
                         /\ row'[k].next = IF k = j THEN NextFire(j, r.at) ELSE row[k].next
                         /\ ran[k] \in {NoRun} \cup Nat /\ row[k].next \in Nat
      BY <1>0, <2>2 DEF Row
    <3>4. NextFire(j, r.at) > ran[j]
      BY <2>1, <2>2, <3>1, <3>2, <3>3 DEF Known, SlotInv, RunInv, NoRun
    <3>5. NoJob \notin Job /\ Idle.job = NoJob /\ Idle.at = 0 /\ Idle.slot = NoRun
      BY ConstantsAssumption DEF Idle, FireOf
    <3> HIDE DEF j
    <3>6. BatchInv'
      BY <2>1, <2>2, <3>1, <3>5 DEF Known, BatchInv, Typed, Batch, Job
    <3>7. RunInv'
      BY <2>1, <2>2, <3>3, <3>4 DEF Known, RunInv, Settling, Job, j
    <3>8. SlotInv'
      BY <1>0, <2>1, <2>2, <3>1, <3>5 DEF SlotInv
    <3> QED
      BY <3>6, <3>7, <3>8 DEF Known
  <2>3. CASE j \notin Malformed /\ row[j].there /\ Runner = Runner /\ Done(Runner)
             /\ UNCHANGED <<batch, ran>> /\ row' = [row EXCEPT ![j].next = NextFire(j, r.at)]
    BY <2>2, <2>3 DEF Done
  <2> QED
    BY <1>6, <2>1, <2>3, <1>b, <1>c DEF Advance
<1> QED
  BY <1>1, <1>2, <1>3, <1>4, <1>5, <1>6 DEF Firing

LEMMA TickKeeps == Typed /\ Known /\ Tick => Known'
<1> SUFFICES ASSUME Typed, Known, Tick PROVE Known'
  OBVIOUS
<1>1. /\ fire[Runner] = Idle /\ Idle.job = NoJob /\ NoJob \notin Job
      /\ UNCHANGED <<row, ran, fire, now>>
  BY ConstantsAssumption DEF Tick, Free, Typed, Fires, Firer, Idle, FireOf, table, ghosts,
     world, ReadFault
<1> SUFFICES ASSUME NEW S \in Cuts, batch' = Due(S) PROVE Known'
  BY <1>1 DEF Tick, Known, BatchInv, RunInv, SlotInv, Settling
<1>2. batch' = Due(S)
  OBVIOUS
<1>3. \A j \in S : j \in Job /\ row[j].next <= now
  <2>1. \A j \in S : j \in Selected
    BY DEF Cuts
  <2> QED
    BY <2>1 DEF Selected, Null, Typed, World
<1>4. BatchInv'
  <2>1. \A e \in batch' : e.job \in Job /\ e.next = row[e.job].next /\ e.next <= now
                          /\ e = [job |-> e.job, next |-> e.next]
    BY <1>2, <1>3 DEF Due
  <2>2. \A e \in batch' : e.job \notin Malformed => e.next > ran[e.job]
    BY <1>1, <2>1 DEF Known, RunInv, Settling
  <2> QED
    BY <1>1, <2>1, <2>2 DEF BatchInv
<1> QED
  BY <1>1, <1>4 DEF Known, RunInv, SlotInv, Settling

LEMMA FireNextKeeps == Typed /\ Known /\ FireNext => Known'
<1> SUFFICES ASSUME Typed, Known, FireNext PROVE Known'
  OBVIOUS
<1>1. PICK e \in batch : batch' = batch \ {e} /\ Started(Runner, e.job, e.next)
  BY DEF FireNext
<1>2. /\ e.job \in Scheduled /\ e.job \in Job /\ e.next \in Nat /\ now \in Nat
      /\ UNCHANGED <<row, ran, now>> /\ fire[Runner] = Idle /\ Idle.job = NoJob /\ NoJob \notin Job
  BY ConstantsAssumption
     DEF FireNext, Typed, Batch, World, Job, Fires, Firer, Idle, FireOf, table, ghosts, world
<1>3. LET q == fire'[Runner] IN
      /\ q.job = e.job /\ q.slot = e.next /\ q.at = now /\ ~q.rowed
      /\ q.pc \in {"gate", "insert"}
  BY <1>1 DEF Started, FireOf, Typed, Fires, Firer
<1>4. \A j \in Job : ran[j] \in {NoRun} \cup Nat
  BY DEF Typed, Ghosts
<1>5. BatchInv'
  BY <1>1, <1>2, <1>3 DEF Known, BatchInv
<1>6. RunInv'
  BY <1>2, <1>3 DEF Known, RunInv, Settling
<1>7. SlotInv'
  BY <1>1, <1>2, <1>3, <1>4 DEF Known, BatchInv, SlotInv, NoRun
<1> QED
  BY <1>5, <1>6, <1>7 DEF Known

LEMMA TakeEventKeeps == Typed /\ Known /\ TakeEvent => Known'
<1> SUFFICES ASSUME Typed, Known, TakeEvent PROVE Known'
  OBVIOUS
<1> DEFINE j == Head(events)
<1>1. /\ batch = {} /\ batch' = {} /\ UNCHANGED <<row, ran, now>> /\ now \in Nat
      /\ fire[Runner] = Idle /\ Idle.job = NoJob /\ NoJob \notin Job /\ j \in Webhook
  BY ConstantsAssumption
     DEF TakeEvent, ReadFault, Free, Ready, Typed, Feed, World, Fires, Firer, Idle, FireOf, table, ghosts, world
<1>2. CASE UNCHANGED fire
  BY <1>1, <1>2 DEF Known, BatchInv, RunInv, SlotInv, Settling, Unrun
<1>3. CASE Started(Runner, j, NoRun)
  <2>1. LET q == fire'[Runner] IN q.job = j /\ q.slot = NoRun /\ q.at = now
    BY <1>3 DEF Started, FireOf, Typed, Fires, Firer
  <2>2. RunInv'
    <3>1. \A k \in Job \ Malformed : row[k].next > ran[k]
      BY <1>1 DEF Known, RunInv, Settling
    <3> QED
      BY <1>1, <3>1 DEF Known, RunInv
  <2>3. SlotInv'
    BY <1>1, <2>1 DEF Known, RunInv, SlotInv
  <2> QED
    BY <1>1, <2>2, <2>3 DEF Known, BatchInv
<1> QED
  BY <1>2, <1>3 DEF TakeEvent, ReadFault

LEMMA CrashKeeps == Typed /\ Known /\ (Crash \/ Boot) => Known'
<1> SUFFICES ASSUME Typed, Known, Crash \/ Boot PROVE Known'
  OBVIOUS
<1>1. /\ batch' = {} /\ fire'[Runner] = Idle /\ \A j \in Job : ran'[j] = NoRun
      /\ UNCHANGED now /\ now \in Nat
  BY DEF Crash, Boot, Typed, Down, Fires, Firer, World, world
<1>2. \A j \in Job : row'[j].next \in Nat
  BY DEF Crash, Boot, Typed, Rows, Row, Null, table
<1>3. Idle.job = NoJob /\ NoJob \notin Job /\ Idle.at = 0 /\ Idle.slot = NoRun
  BY ConstantsAssumption DEF Idle, FireOf
<1> QED
  BY <1>1, <1>2, <1>3 DEF Known, BatchInv, RunInv, SlotInv, NoRun, Job

LEMMA KnownStep == Typed /\ Known /\ [Next]_vars => Known'
<1> SUFFICES ASSUME Typed, Known, [Next]_vars PROVE Known'
  OBVIOUS
<1>1. Typed'
  BY TypedStep
<1>2. Meddle => Known'
  BY <1>1, MeddleKeeps
<1>3. ASSUME NEW f \in Firer, Firing(f) PROVE Known'
  BY <1>2, <1>3, HandMeddles, RunnerFires
<1> QED
  BY <1>2, <1>3, OtherMeddles, TickKeeps, FireNextKeeps, TakeEventKeeps, CrashKeeps DEF Next
-----------------------------------------------------------------------------
(* The audit chain's debt. *)

(* The attempts of a fire that were given up unaudited.                    *)
Slack(f) == debt[f] - Owing(f)

(* A step gives up an attempt only as it counts a reason for it.           *)
LEMMA Accounted ==
  ASSUME Typed, Typed', AttemptsAudited,
         \A f \in Firer :
           \/ Slack(f)' = Slack(f) /\ Lost(f)' >= Lost(f)
           \/ Slack(f)' = Slack(f) + 1 /\ Lost(f)' >= Lost(f) + 1
  PROVE  AttemptsAudited'
<1> SUFFICES ASSUME NEW f \in Firer
             PROVE  Owing(f)' <= debt'[f] /\ debt'[f] <= Owing(f)' + Lost(f)'
  BY DEF AttemptsAudited
<1>1. /\ debt[f] \in Int /\ debt'[f] \in Int /\ Owing(f) \in Int /\ Owing(f)' \in Int
      /\ Lost(f) \in Int /\ Lost(f)' \in Int
  BY DEF Typed, Rest, World, Owing, Lost
<1>2. 0 <= Slack(f) /\ Slack(f) <= Lost(f)
  BY <1>1 DEF AttemptsAudited, Slack
<1>3. 0 <= Slack(f)' /\ Slack(f)' <= Lost(f)'
  BY <1>1, <1>2 DEF Slack
<1> QED
  BY <1>1, <1>3 DEF Slack

LEMMA AuditStep == Typed /\ AttemptsAudited /\ [Next]_vars => AttemptsAudited'
<1> SUFFICES ASSUME Typed, AttemptsAudited, [Next]_vars PROVE AttemptsAudited'
  OBVIOUS
<1>a. Typed'
  BY TypedStep
<1>0. /\ faults \in Nat /\ crashes \in Nat /\ drops \in Nat
      /\ fire \in [Firer -> Fire] /\ debt \in [Firer -> Int]
      /\ \A f \in Firer : Owing(f) \in Int /\ Lost(f) \in Int
  BY DEF Typed, Rest, World, Fires, Owing, Lost
(* Only f's fire and f's debt change, ..                                   *)
<1>1. ASSUME NEW f \in Firer, UNCHANGED <<crashes, drops>>,
             \A h \in Firer \ {f} : debt'[h] = debt[h] /\ fire'[h].pc = fire[h].pc,
             \/ Slack(f)' = Slack(f) /\ faults' \in {faults, faults + 1}
             \/ Slack(f)' = Slack(f) + 1 /\ faults' = faults + 1
      PROVE  AttemptsAudited'
  <2>1. \A h \in Firer : \/ Lost(h)' = Lost(h) /\ faults' = faults
                         \/ Lost(h)' = Lost(h) + 1 /\ faults' = faults + 1
    BY <1>0, <1>1 DEF Lost
  <2>2. \A h \in Firer \ {f} : Slack(h)' = Slack(h)
    BY <1>1 DEF Slack, Owing
  <2> QED
    BY <1>0, <1>1, <1>a, <2>1, <2>2, Accounted
(* .. no fire finishes or audits an attempt, ..                            *)
<1>2. ASSUME debt' = debt, faults' \in {faults, faults + 1}, UNCHANGED <<crashes, drops>>,
             \A h \in Firer : fire'[h].pc = "audit" <=> fire[h].pc = "audit"
      PROVE  AttemptsAudited'
  <2>1. \A h \in Firer : Lost(h)' >= Lost(h) /\ Slack(h)' = Slack(h)
    BY <1>0, <1>2 DEF Lost, Slack, Owing
  <2> QED
    BY <1>a, <2>1, Accounted
(* .. or f's fire ends in an error before it has an attempt to audit.      *)
<1>3. ASSUME NEW f \in Firer, (Err(f) /\ UNCHANGED faults) \/ StorageFault(f)
      PROVE  /\ fire'[f].pc = "idle" /\ \A h \in Firer \ {f} : fire'[h].pc = fire[h].pc
             /\ faults' \in {faults, faults + 1} /\ (StorageFault(f) => faults' = faults + 1)
  BY <1>0, <1>3 DEF Err, StorageFault, Idle, FireOf
<1>4. ASSUME NEW f \in Firer, NEW p, Goto(f, p)
      PROVE  fire'[f].pc = p /\ \A h \in Firer \ {f} : fire'[h].pc = fire[h].pc
  BY <1>0, <1>4 DEF Goto, Fire
<1>5. ASSUME NEW j, NEW g \in [Firer -> Fire], fire' = Unslotted(j, g)
      PROVE  \A h \in Firer : fire'[h].pc = g[h].pc
  BY <1>5 DEF Unslotted, Fire
<1>6. ASSUME NEW f \in Firer, fire[f].pc # "audit", debt' = debt, UNCHANGED <<crashes, drops>>,
             (Err(f) /\ UNCHANGED faults) \/ StorageFault(f)
      PROVE  AttemptsAudited'
  BY <1>2, <1>3, <1>6
<1>7. ASSUME NEW f \in Firer, fire[f].pc # "audit", UNCHANGED <<debt, faults, crashes, drops>>,
             NEW p, p # "audit", Goto(f, p)
      PROVE  AttemptsAudited'
  BY <1>2, <1>4, <1>7
<1>11. ASSUME NEW f \in Firer, GateSkips(f) \/ GateGrants(f) \/ GateRefuses(f)
       PROVE  AttemptsAudited'
  <2>1. /\ Goto(f, "advance") \/ Goto(f, "insert") \/ Goto(f, "deny")
        /\ fire[f].pc # "audit" /\ UNCHANGED <<debt, faults, crashes, drops>>
    BY <1>11 DEF GateSkips, GateGrants, GateRefuses, At, table, world
  <2> QED
    BY <2>1, <1>7
<1>12. ASSUME NEW f \in Firer, Deny(f) PROVE AttemptsAudited'
  <2>1. fire[f].pc # "audit" /\ UNCHANGED <<debt, crashes, drops>>
    BY <1>12 DEF Deny, At, table
  <2> QED
    BY <1>12, <2>1, <1>6, <1>7 DEF Deny
<1>13. ASSUME NEW f \in Firer, InsertRun(f) PROVE AttemptsAudited'
  <2>1. fire[f].pc # "audit" /\ UNCHANGED <<debt, crashes, drops>>
    BY <1>13 DEF InsertRun, At, table
  <2>2. CASE fire' = [fire EXCEPT ![f].pc = "run", ![f].rowed = TRUE] /\ UNCHANGED faults
    <3>1. fire'[f].pc = "run" /\ \A h \in Firer \ {f} : fire'[h].pc = fire[h].pc
      BY <1>0, <2>2 DEF Fire
    <3> QED
      BY <2>1, <2>2, <3>1, <1>2
  <2> QED
    BY <1>13, <2>1, <2>2, <1>6 DEF InsertRun
<1>14. ASSUME NEW f \in Firer, Execute(f) PROVE AttemptsAudited'
  <2>1. fire[f].pc # "audit" /\ UNCHANGED <<crashes, drops>>
    BY <1>14 DEF Execute, At
  <2>2. ASSUME NEW ok \in BOOLEAN, fire' = [fire EXCEPT ![f].pc = "audit", ![f].ok = ok],
               debt' = [debt EXCEPT ![f] = @ + 1], faults' = faults
        PROVE  AttemptsAudited'
    <3>1. /\ fire'[f].pc = "audit" /\ debt'[f] = debt[f] + 1
          /\ \A h \in Firer \ {f} : debt'[h] = debt[h] /\ fire'[h].pc = fire[h].pc
      BY <1>0, <2>2 DEF Fire
    <3>2. Slack(f)' = Slack(f)
      BY <1>0, <2>1, <3>1 DEF Slack, Owing
    <3> QED
      BY <2>1, <2>2, <3>1, <3>2, <1>1
  <2> QED
    BY <1>14, <2>1, <2>2, <1>6 DEF Execute
<1>15. ASSUME NEW f \in Firer, AuditRun(f) PROVE AttemptsAudited'
  <2>1. fire[f].pc = "audit" /\ UNCHANGED <<crashes, drops>>
    BY <1>15 DEF AuditRun, At
  <2>2. ASSUME WriteAudit(f), UNCHANGED faults, fire'[f].pc # "audit",
               \A h \in Firer \ {f} : fire'[h].pc = fire[h].pc
        PROVE  AttemptsAudited'
    <3>1. debt'[f] = debt[f] - 1 /\ \A h \in Firer \ {f} : debt'[h] = debt[h]
      BY <1>0, <2>2 DEF WriteAudit
    <3>2. Slack(f)' = Slack(f)
      BY <1>0, <2>1, <2>2, <3>1 DEF Slack, Owing
    <3> QED
      BY <2>1, <2>2, <3>1, <3>2, <1>1
  <2>3. CASE WriteAudit(f) /\ UNCHANGED faults /\ Goto(f, "advance")
    BY <2>2, <2>3, <1>4
  <2>4. CASE WriteAudit(f) /\ UNCHANGED faults
             /\ fire' = [fire EXCEPT ![f].pc = "insert", ![f].attempt = @ + 1]
    <3>1. fire'[f].pc = "insert" /\ \A h \in Firer \ {f} : fire'[h].pc = fire[h].pc
      BY <1>0, <2>4 DEF Fire
    <3> QED
      BY <2>2, <2>4, <3>1
  <2>5. CASE StorageFault(f) /\ UNCHANGED debt
    <3>1. fire'[f].pc = "idle" /\ \A h \in Firer \ {f} : fire'[h].pc = fire[h].pc
      BY <2>5, <1>3
    <3>2. Slack(f)' = Slack(f) + 1
      BY <1>0, <2>1, <2>5, <3>1 DEF Slack, Owing
    <3> QED
      BY <2>1, <2>5, <3>1, <3>2, <1>1, <1>3
  <2> QED
    BY <1>15, <2>3, <2>4, <2>5 DEF AuditRun
<1>16. ASSUME NEW f \in Firer, Advance(f) PROVE AttemptsAudited'
  <2>1. fire[f].pc # "audit" /\ UNCHANGED <<debt, crashes, drops>>
    BY <1>16 DEF Advance, At
  <2> DEFINE g == [fire EXCEPT ![f] = Idle]
  <2>2. g \in [Firer -> Fire] /\ g[f].pc = "idle" /\ \A h \in Firer \ {f} : g[h] = fire[h]
    BY <1>0, FireType DEF Idle, FireOf
  <2> HIDE DEF g
  <2>3. CASE (fire' = g \/ fire' = Unslotted(fire[f].job, g)) /\ UNCHANGED faults
    BY <2>1, <2>2, <2>3, <1>2, <1>5
  <2> QED
    BY <1>16, <2>1, <2>3, <1>6 DEF Advance, Done, g
<1>17. ASSUME UNCHANGED <<debt, faults, crashes, drops>>, NEW f \in Firer, NEW j \in Job, NEW t,
              fire[f].pc = "idle", Started(f, j, t)
       PROVE  AttemptsAudited'
  <2>1. fire'[f].pc \in {"gate", "insert"} /\ \A h \in Firer \ {f} : fire'[h].pc = fire[h].pc
    BY <1>0, <1>17 DEF Started, FireOf
  <2> QED
    BY <1>17, <2>1, <1>2
<1>18. CASE FireNext
  <2>1. PICK e \in batch : Started(Runner, e.job, e.next)
    BY <1>18 DEF FireNext
  <2>2. /\ e.job \in Job /\ Runner \in Firer /\ fire[Runner].pc = "idle"
        /\ UNCHANGED <<debt, faults, crashes, drops>>
    BY <1>18 DEF FireNext, Typed, Batch, Job, Firer, table, world
  <2> QED
    BY <2>1, <2>2, <1>17
<1>19. ASSUME UNCHANGED <<fire, debt, crashes, drops>>, faults' \in {faults, faults + 1}
       PROVE  AttemptsAudited'
  BY <1>2, <1>19
<1>20. CASE TakeEvent
  <2>1. /\ Head(events) \in Job /\ Runner \in Firer /\ fire[Runner].pc = "idle"
        /\ UNCHANGED <<debt, crashes, drops>>
    BY <1>20 DEF TakeEvent, Free, Ready, Typed, Feed, Job, Firer, table
  <2> QED
    BY <1>20, <2>1, <1>17, <1>19 DEF TakeEvent, ReadFault
<1>21. ASSUME NEW h \in Hand, FireNow(h) PROVE AttemptsAudited'
  <2>1. PICK j \in Job : Started(h, j, NoRun)
    BY <1>21 DEF FireNow
  <2>2. h \in Firer /\ fire[h].pc = "idle" /\ UNCHANGED <<debt, faults, crashes, drops>>
    BY <1>21 DEF FireNow, Firer, table
  <2> QED
    BY <2>1, <2>2, <1>17
<1>22. CASE Tick \/ PushBegins \/ PushSends \/ CliCreate \/ Boot \/ Clock \/ UNCHANGED vars
            \/ \E c \in Cli : CliRead(c)
  BY <1>19, <1>22 DEF Tick, ReadFault, PushBegins, PushSends, CliCreate, Boot, Clock, CliRead,
     vars, table, memory, world
<1>23. CASE Upsert
  <2>1. /\ \E j \in Job : fire' = Unslotted(j, fire)
        /\ UNCHANGED <<debt, faults, crashes, drops>>
    BY <1>23 DEF Upsert
  <2> QED
    BY <1>0, <2>1, <1>2, <1>5
<1>24. ASSUME NEW c \in Cli, CliWrite(c) PROVE AttemptsAudited'
  <2>1. fire' = Unslotted(cli[c].job, fire) /\ UNCHANGED <<debt, faults, crashes, drops>>
    BY <1>24 DEF CliWrite, world
  <2> QED
    BY <1>0, <2>1, <1>2, <1>5
<1>25. ASSUME NEW c \in Cli, CliDelete(c) PROVE AttemptsAudited'
  <2>1. UNCHANGED <<debt, faults, crashes, drops>>
    BY <1>25 DEF CliDelete, world
  <2>2. \A h \in Firer : fire'[h].pc = fire[h].pc
    BY <1>0, <1>25 DEF CliDelete, Fire
  <2> QED
    BY <2>1, <2>2, <1>2
<1>26. CASE Crash
  <2>1. /\ \A f \in Firer : fire'[f].pc = "idle"
        /\ UNCHANGED <<debt, faults, drops>> /\ crashes' = crashes + 1
    BY <1>26 DEF Crash, Idle, FireOf, table
  <2>2. \A f \in Firer : Lost(f)' = Lost(f) + 1 /\ Slack(f)' \in {Slack(f), Slack(f) + 1}
    BY <1>0, <2>1 DEF Lost, Slack, Owing
  <2> QED
    BY <1>0, <1>a, <2>2, Accounted
<1>27. ASSUME NEW h \in Hand, DropHand(h) PROVE AttemptsAudited'
  <2>1. /\ h \in Firer /\ h # Runner /\ fire'[h].pc = "idle" /\ drops' = drops + 1
        /\ UNCHANGED <<debt, faults, crashes>>
        /\ \A f \in Firer \ {h} : fire'[f].pc = fire[f].pc
    BY <1>0, <1>27, ConstantsAssumption DEF DropHand, Firer, Idle, FireOf, table
  <2>2. \A f \in Firer : Lost(f)' >= Lost(f)
    BY <1>0, <2>1 DEF Lost
  <2>3. \A f \in Firer \ {h} : Slack(f)' = Slack(f)
    BY <2>1 DEF Slack, Owing
  <2>4. Lost(h)' = Lost(h) + 1 /\ Slack(h)' \in {Slack(h), Slack(h) + 1}
    BY <1>0, <2>1 DEF Lost, Slack, Owing
  <2> QED
    BY <1>0, <1>a, <2>2, <2>3, <2>4, Accounted
<1> QED
  BY <1>11, <1>12, <1>13, <1>14, <1>15, <1>16, <1>18, <1>20, <1>21, <1>22, <1>23, <1>24,
     <1>25, <1>26, <1>27 DEF Next, Firing
-----------------------------------------------------------------------------
(* The invariant. *)

IInv == Typed /\ Known /\ PauseInv /\ AttemptsAudited

LEMMA InvInit == Init => IInv
<1> SUFFICES ASSUME Init PROVE IInv
  OBVIOUS
<1>1. Typed
  BY TypedInit
<1>2. Known
  <2>1. /\ fire[Runner] = Idle /\ batch = {} /\ now = 1 /\ \A j \in Job : ran[j] = NoRun
    BY DEF Init, Firer
  <2>2. Idle.job = NoJob /\ NoJob \notin Job /\ Idle.at = 0 /\ Idle.slot = NoRun
    BY ConstantsAssumption DEF Idle, FireOf
  <2>3. \A j \in Job : row[j].next \in Nat
    BY <1>1 DEF Typed, Rows, Row
  <2> QED
    BY <2>1, <2>2, <2>3 DEF Known, BatchInv, RunInv, SlotInv, NoRun, Job
<1>3. PauseInv
  BY DEF Init, PauseInv
<1>4. AttemptsAudited
  BY DEF Init, AttemptsAudited, Owing, Lost, Idle, FireOf
<1> QED
  BY <1>1, <1>2, <1>3, <1>4 DEF IInv

LEMMA InvStep == IInv /\ [Next]_vars => IInv'
  BY TypedStep, KnownStep, PauseStep, AuditStep DEF IInv, Known

(* The invariant holds for ever.                                           *)
THEOREM InvAlways == Spec => []IInv
  BY InvInit, InvStep, PTL DEF Spec

(* Every reachable state is well typed: the channel keeps its capacity, a  *)
(* fire its attempts, whatever operators, requests and crashes do.         *)
THEOREM TypeCorrect == Spec => []TypeOK
<1>1. IInv => TypeOK
  <2>1. Seq(Webhook) \subseteq Seq(Job)
    BY DEF Job
  <2> QED
    BY <2>1 DEF IInv, Typed, TypeOK, World, Feed, Rows, Copies, Batch, Fires, Ghosts, Rest
<1> QED
  BY <1>1, InvAlways, PTL

(* A paused job fires at most once more, however its pause raced a tick,   *)
(* a retry or an event.                                                    *)
THEOREM PauseHolds == Spec => []PauseTakesHold
<1>1. IInv => PauseTakesHold
  BY DEF IInv, PauseInv, PauseTakesHold, Typed, Ghosts
<1> QED
  BY <1>1, InvAlways, PTL

(* The runner does not start a job again for a due time it ran it for.     *)
THEOREM RunsOnce == Spec => []DueTimeRunsOnce
<1>1. IInv => DueTimeRunsOnce
  <2>1. IInv => LET r == fire[Runner] IN r.slot # NoRun => r.job \in Job /\ r.slot \in Nat
    BY DEF IInv, Known, SlotInv, Typed, Fires, Fire, Firer, Job
  <2>2. IInv => ran \in [Job -> {NoRun} \cup Nat]
    BY DEF IInv, Typed, Ghosts
  <2> QED
    BY <2>1, <2>2 DEF IInv, Known, SlotInv, Unrun, DueTimeRunsOnce, NoRun
<1> QED
  BY <1>1, InvAlways, PTL

(* Each fire owes the audit chain the attempt it has just finished, and    *)
(* beyond it no more attempts than there were storage failures, crashes    *)
(* and, for "run now" requests alone, clients that went away: the runner   *)
(* itself loses none to retries, pauses, deletions or other fires.         *)
THEOREM Audited == Spec => []AttemptsAudited
  BY InvAlways, PTL DEF IInv
=============================================================================
