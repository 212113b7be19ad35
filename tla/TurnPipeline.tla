---------------------------- MODULE TurnPipeline ----------------------------
(***************************************************************************)
(* The turns of one chat session: what they store, what the model is       *)
(* shown, and the lock that keeps them apart.                              *)
(*                                                                         *)
(* A turn is a request handler (run_turn, or orchestrate_session for a     *)
(* team), the agent task it launches (run_inner) and a detached task that  *)
(* stores the run's output and releases the session's entry in the         *)
(* CancelRegistry, which is lock and cancellation token at once.  Beside   *)
(* the turns act the client that reads the event stream, the operators who *)
(* cancel a turn or delete a message, the loop controller which posts its  *)
(* closing notes into the same session without the lock, and crashes.      *)
(*                                                                         *)
(* Messages are abstracted to their author, role and tool-call numbers.    *)
(* All the user messages have the same content, the hardest case for the   *)
(* search that splits a run's own messages off the history (ticks of a     *)
(* loop do repeat one prompt).  System messages are never stored and never *)
(* trimmed, so they are left out.                                          *)
(***************************************************************************)
EXTENDS Integers, SequencesExt

CONSTANTS
  Turn,           \* the turns that may be asked for
  NoTurn,         \* not a turn
  Loop,           \* the author of the loop controller's notes, not a turn
  Kinds,          \* of "operator", "tick" and "team", those that occur
  HistoryWindow,  \* AgentConfig.history_window
  MaxIterations,  \* AgentConfig.max_iterations
  ToolCap,        \* MAX_TOOL_CALLS_PER_TURN
  MaxCalls,       \* bound on the tool calls of one model answer
  EventBuffer,    \* capacity of the event channel
  MaxNotes,       \* bound on the number of closing notes
  MaxDeletes,     \* bound on the number of deleted messages
  MaxFaults,      \* bound on the number of failed appends
  MaxCrashes,     \* bound on the number of crashes
  MaxMishaps      \* bound on deletions, failed appends and crashes together

ASSUME ConstantsAssumption ==
  /\ NoTurn \notin Turn
  /\ Loop \notin Turn \cup {NoTurn}
  /\ Kinds \subseteq {"operator", "tick", "team"}
  /\ {HistoryWindow, MaxIterations, ToolCap, MaxCalls, EventBuffer}
       \subseteq Nat \ {0}
  /\ {MaxNotes, MaxDeletes, MaxFaults, MaxCrashes, MaxMishaps} \subseteq Nat

VARIABLES
  (* durable *)
  transcript,     \* the session's rows of the messages table, in order
  claim,          \* messages_produced in a turn's agent.run audit entry
  (* in memory: lost by a crash *)
  lock,           \* CancelRegistry: the turn that holds the session's entry
  cancelled,      \* the turns under way whose cancellation token has fired
  pc,             \* how far each turn got
  kind,           \* who asked for it
  msgs,           \* the conversation of the agent task
  iter,           \* its iteration
  ending,         \* how the run ended
  output,         \* messages_to_persist
  fan,            \* where the tool calls of its fan-out are
  kept,           \* how many of them are stored
  client,         \* is the receiver of the event stream there?
  queue,          \* events in the channel
  (* the environment, and history *)
  unstored,       \* turns with an output that failed to be stored
  tampered,       \* authors of deleted messages
  quota,          \* the calls that were past the last look at the token when it
                  \* fired, less the calls and model requests begun since
  notes, deletes, faults, crashes

calls  == <<fan, quota>>
agent  == <<msgs, iter, ending, output, calls>>
stream == <<client, queue>>
world  == <<tampered, notes, deletes, faults, crashes>>
vars   == <<transcript, claim, lock, cancelled, pc, kind, agent, kept, stream,
            unstored, world>>

-----------------------------------------------------------------------------
(* Mutated forms: plausible mistakes in the helpers below, each of which a *)
(* property must catch.                                                    *)

SlideBare(s) == IF Len(s) <= HistoryWindow THEN s
                ELSE SubSeq(s, Len(s) - HistoryWindow + 1, Len(s))
InboundFirst(s) == SelectInSeq(s, LAMBDA m : m.role = "user")
OutOfIterationsByOne(t) == iter[t] > MaxIterations
LockFreeEvicting == TRUE
ReleaseLeaks(t) ==
  IF pc[t] = "audited" THEN lock' = NoTurn /\ cancelled' = cancelled \ {t}
  ELSE UNCHANGED <<lock, cancelled>>
FiredAtTop(t) == t \in cancelled /\ pc[t] = "top"
ProducedWithPrompt(s) ==
  LET i == SelectLastInSeq(s, LAMBDA m : m.role = "user")
  IN  IF i # 0 THEN Len(s) - i + 1 ELSE 0
StoredButLast(t) == kept[t] + 1 >= Len(output[t]) \/ t \in unstored

-----------------------------------------------------------------------------
(* Messages and what is done to sequences of them *)

User(t)        == [by |-> t, role |-> "user", n |-> 0, said |-> TRUE]
Text(t, s)     == [by |-> t, role |-> "text", n |-> 0, said |-> s]
Calls(t, k, s) == [by |-> t, role |-> "calls", n |-> k, said |-> s]
Result(t, k)   == [by |-> t, role |-> "result", n |-> k, said |-> k <= ToolCap]

(* The calls of a fan-out, counted by where they are: before or in the     *)
(* HotL gate, parked on a ticket, released from it, and in the tool.       *)
Fan   == [told : BOOLEAN, gate : Nat, parked : Nat, granted : Nat, busy : Nat]
NoFan == [told |-> FALSE, gate |-> 0, parked |-> 0, granted |-> 0, busy |-> 0]

Message == [by : Turn \cup {Loop}, role : {"user", "text", "calls", "result"},
            n : Nat, said : BOOLEAN]

(* The last HistoryWindow messages, less the results they begin with. *)
Slide(s) ==
  LET tail  == SubSeq(s, Len(s) - HistoryWindow + 1, Len(s))
      first == SelectInSeq(tail, LAMBDA m : m.role # "result")
  IN  IF Len(s) <= HistoryWindow THEN s
      ELSE IF first = 0 THEN <<>>
      ELSE SubSeq(tail, first, Len(tail))

(* Where the run's own messages begin: after the last user message with    *)
(* the content of the prompt; 0 if the window has dropped it.              *)
Inbound(s) == SelectLastInSeq(s, LAMBDA m : m.role = "user")

(* The reply: the last assistant message with a text. *)
Reply(s) ==
  SelectLastInSeq(s, LAMBDA m : m.role \in {"text", "calls"} /\ m.said)

(* messages_to_persist: the run's own messages, or the reply alone. *)
ToPersist(s) ==
  IF Inbound(s) # 0 THEN SubSeq(s, Inbound(s) + 1, Len(s))
  ELSE IF Reply(s) # 0 THEN <<Text(s[Reply(s)].by, TRUE)>>
  ELSE <<>>

(* messages_produced in the audit entry. *)
Produced(s) == IF Inbound(s) # 0 THEN Len(s) - Inbound(s) ELSE 0

-----------------------------------------------------------------------------
Asking  == {"checked", "locked", "stored", "loaded"}
Running == {"top", "calling", "tools", "team"}
Closing == {"persist", "audited"}
Over    == {"done", "refused", "dead"}
Endings == {"none", "completed", "cancelled", "maxed", "error"}

TypeOK ==
  /\ transcript \in Seq(Message)
  /\ claim \in [Turn -> Int]
  /\ lock \in Turn \cup {NoTurn}
  /\ cancelled \subseteq Turn
  /\ pc \in [Turn -> {"idle"} \cup Asking \cup Running \cup Closing \cup Over]
  /\ kind \in [Turn -> {"operator", "tick", "team"}]
  /\ msgs \in [Turn -> Seq(Message)]
  /\ iter \in [Turn -> 0..MaxIterations]
  /\ ending \in [Turn -> Endings]
  /\ output \in [Turn -> Seq(Message)]
  /\ fan \in [Turn -> Fan]
  /\ quota \in [Turn -> Int]
  /\ kept \in [Turn -> Nat]
  /\ client \in [Turn -> {"absent", "reading", "gone"}]
  /\ queue \in [Turn -> 0..EventBuffer]
  /\ unstored \subseteq Turn
  /\ tampered \subseteq Turn \cup {Loop}
  /\ {notes, deletes, faults, crashes} \subseteq Nat

Init ==
  /\ transcript = <<>>
  /\ claim = [t \in Turn |-> -1]
  /\ lock = NoTurn
  /\ cancelled = {}
  /\ pc = [t \in Turn |-> "idle"]
  /\ kind \in [Turn -> Kinds]
  /\ msgs = [t \in Turn |-> <<>>]
  /\ iter = [t \in Turn |-> 0]
  /\ ending = [t \in Turn |-> "none"]
  /\ output = [t \in Turn |-> <<>>]
  /\ fan = [t \in Turn |-> NoFan]
  /\ quota = [t \in Turn |-> 0]
  /\ kept = [t \in Turn |-> 0]
  /\ client = [t \in Turn |-> "absent"]
  /\ queue = [t \in Turn |-> 0]
  /\ unstored = {}
  /\ tampered = {}
  /\ notes = 0
  /\ deletes = 0
  /\ faults = 0
  /\ crashes = 0

At(t, here)   == pc[t] = here
Goto(t, there) == pc' = [pc EXCEPT ![t] = there]

(* The event channel: a send waits for room, or fails at once when the     *)
(* receiver is gone.                                                       *)
CanEmit(t) == client[t] = "gone" \/ queue[t] < EventBuffer
Emit(t) ==
  /\ CanEmit(t)
  /\ queue' = IF client[t] = "gone" THEN queue ELSE [queue EXCEPT ![t] = @ + 1]
  /\ UNCHANGED client

-----------------------------------------------------------------------------
(* The request handler *)

(* Validation and the session lookup; the request may be turned away. *)
CheckSession(t) ==
  /\ At(t, "idle")
  /\ \E there \in {"checked", "refused"} : Goto(t, there)
  /\ UNCHANGED <<transcript, claim, lock, cancelled, kind, agent, kept, stream,
                 unstored, world>>

LockFree == lock = NoTurn

(* Dropping the guard removes the session's entry, whoever owns it. *)
Release(t) ==
  /\ lock' = NoTurn
  /\ cancelled' = cancelled \ {t}

BeginTurn(t) ==
  /\ At(t, "checked")
  /\ \/ /\ LockFree
        /\ lock' = t
        /\ Goto(t, "locked")
     \/ /\ ~LockFree
        /\ Goto(t, "refused")
        /\ UNCHANGED lock
  /\ UNCHANGED <<transcript, claim, cancelled, kind, agent, kept, stream,
                 unstored, world>>

PersistUser(t) ==
  /\ At(t, "locked")
  /\ transcript' = Append(transcript, User(t))
  /\ Goto(t, IF kind[t] = "team" THEN "loaded" ELSE "stored")
  /\ UNCHANGED <<claim, lock, cancelled, kind, agent, kept, stream, unstored,
                 world>>

(* All the session's rows, then the message just stored. *)
LoadHistory(t) ==
  /\ At(t, "stored")
  /\ msgs' = [msgs EXCEPT ![t] = Append(transcript, User(t))]
  /\ Goto(t, "loaded")
  /\ UNCHANGED <<transcript, claim, lock, cancelled, kind, iter, ending, output,
                 calls, kept, stream, unstored, world>>

(* An early return once the lock is held: a storage error, the HotL        *)
(* budget, a team that fails validation, or a handler dropped because its  *)
(* client disconnected.  Dropping the guard releases the lock.             *)
GiveUp(t) ==
  /\ pc[t] \in {"locked", "stored", "loaded"}
  /\ Release(t)
  /\ Goto(t, "refused")
  /\ UNCHANGED <<transcript, claim, kind, agent, kept, stream, unstored, world>>

(* The agent task and the finalize task are spawned; the loop controller   *)
(* drops the event stream.                                                 *)
Launch(t) ==
  /\ At(t, "loaded")
  /\ Goto(t, IF kind[t] = "team" THEN "team" ELSE "top")
  /\ client' = [client EXCEPT ![t] = IF kind[t] = "tick" THEN "gone" ELSE "reading"]
  /\ UNCHANGED <<transcript, claim, lock, cancelled, kind, agent, kept, queue,
                 unstored, world>>

-----------------------------------------------------------------------------
(* The agent task *)

Finish(t, how, s) ==
  /\ ending' = [ending EXCEPT ![t] = how]
  /\ msgs' = [msgs EXCEPT ![t] = s]
  /\ output' = [output EXCEPT ![t] = ToPersist(s)]
  /\ Goto(t, "persist")
  /\ UNCHANGED iter

Fired(t) == t \in cancelled

OutOfIterations(t) == iter[t] >= MaxIterations

(* History: the turn begins a model request or a tool. *)
Begins(t) ==
  quota' = IF t \in cancelled THEN [quota EXCEPT ![t] = @ - 1] ELSE quota

(* The top of the loop: stop, or trim the history and ask the model. *)
LoopTop(t) ==
  /\ At(t, "top")
  /\ \/ /\ Fired(t)
        /\ Finish(t, "cancelled", msgs[t])
        /\ Emit(t)
        /\ UNCHANGED quota
     \/ /\ ~Fired(t) /\ OutOfIterations(t)
        /\ Finish(t, "maxed", msgs[t])
        /\ Emit(t)
        /\ UNCHANGED quota
     \/ /\ ~Fired(t) /\ ~OutOfIterations(t)
        /\ msgs' = [msgs EXCEPT ![t] = Slide(@)]
        /\ Goto(t, "calling")
        /\ Begins(t)
        /\ UNCHANGED <<iter, ending, output, stream>>
  /\ UNCHANGED <<transcript, claim, lock, cancelled, kind, fan, kept, unstored,
                 world>>

ModelReplies(t) ==
  /\ At(t, "calling")
  /\ Emit(t)
  /\ \E said \in BOOLEAN :
       Finish(t, "completed", Append(msgs[t], Text(t, said)))
  /\ UNCHANGED <<transcript, claim, lock, cancelled, kind, calls, kept, unstored,
                 world>>

(* The model asks for tools; the token is looked at before the fan-out.    *)
(* Calls past ToolCap are turned away without a look at gate or tool.      *)
Heard(k) == IF k > ToolCap THEN ToolCap ELSE k

ModelCalls(t) ==
  /\ At(t, "calling")
  /\ Emit(t)
  /\ \E k \in 1..MaxCalls, said \in BOOLEAN :
       LET s == Append(msgs[t], Calls(t, k, said))
       IN  \/ /\ Fired(t)
              /\ Finish(t, "cancelled", s)
              /\ UNCHANGED fan
           \/ /\ ~Fired(t)
              /\ msgs' = [msgs EXCEPT ![t] = s]
              /\ fan' = [fan EXCEPT ![t] = [NoFan EXCEPT !.gate = Heard(k)]]
              /\ Goto(t, "tools")
              /\ UNCHANGED <<iter, ending, output>>
  /\ UNCHANGED <<transcript, claim, lock, cancelled, kind, quota, kept, unstored,
                 world>>

(* The call fails, or its stream does: nothing is kept of the run. *)
ModelFails(t) ==
  /\ At(t, "calling")
  /\ Emit(t) \/ UNCHANGED stream
  /\ ending' = [ending EXCEPT ![t] = "error"]
  /\ Goto(t, "persist")
  /\ UNCHANGED <<transcript, claim, lock, cancelled, kind, msgs, iter, output,
                 calls, kept, unstored, world>>

-----------------------------------------------------------------------------
(* The fan-out: every call on its own, none of them looking at the token   *)
(* but where it waits for an operator.                                     *)

(* The calls are announced to the client one by one before any begins. *)
Announce(t) ==
  /\ ~fan[t].told
  /\ Emit(t)
  /\ fan' = [fan EXCEPT ![t].told = TRUE]
  /\ UNCHANGED quota

(* The gate lets a call pass, and the tool starts at once. *)
GateAllows(t) ==
  /\ fan[t].told /\ fan[t].gate > 0
  /\ fan' = [fan EXCEPT ![t].gate = @ - 1, ![t].busy = @ + 1]
  /\ Begins(t)
  /\ UNCHANGED stream

GateDenies(t) ==
  /\ fan[t].told /\ fan[t].gate > 0
  /\ fan' = [fan EXCEPT ![t].gate = @ - 1]
  /\ UNCHANGED <<quota, stream>>

(* The client is told (HotlPending), and the call waits on its ticket. *)
GateSuspends(t) ==
  /\ fan[t].told /\ fan[t].gate > 0
  /\ Emit(t)
  /\ fan' = [fan EXCEPT ![t].gate = @ - 1, ![t].parked = @ + 1]
  /\ UNCHANGED quota

(* await_decision: a cancel wins every tie.  Else the call is released, or *)
(* the client is told that it was denied, timed out or forgotten.          *)
TicketEnds(t) ==
  /\ fan[t].parked > 0
  /\ \/ /\ Fired(t)
        /\ fan' = [fan EXCEPT ![t].parked = @ - 1]
        /\ UNCHANGED stream
     \/ /\ ~Fired(t)
        /\ fan' = [fan EXCEPT ![t].parked = @ - 1, ![t].granted = @ + 1]
        /\ UNCHANGED stream
     \/ /\ ~Fired(t)
        /\ fan' = [fan EXCEPT ![t].parked = @ - 1]
        /\ Emit(t)
  /\ UNCHANGED quota

(* A released call tells the client (HotlResolved), then starts its tool. *)
GrantedStarts(t) ==
  /\ fan[t].granted > 0
  /\ Emit(t)
  /\ fan' = [fan EXCEPT ![t].granted = @ - 1, ![t].busy = @ + 1]
  /\ Begins(t)

(* The tool answers or fails; one that is not in the toolbox fails at once. *)
ToolEnds(t) ==
  /\ fan[t].busy > 0
  /\ fan' = [fan EXCEPT ![t].busy = @ - 1]
  /\ UNCHANGED <<quota, stream>>

Dispatch(t) ==
  /\ At(t, "tools")
  /\ \/ Announce(t) \/ GateAllows(t) \/ GateDenies(t) \/ GateSuspends(t)
     \/ TicketEnds(t) \/ GrantedStarts(t) \/ ToolEnds(t)
  /\ UNCHANGED <<transcript, claim, lock, cancelled, pc, kind, msgs, iter, ending,
                 output, kept, unstored, world>>

(* All the calls have ended; one result each. *)
Asked(t) == msgs[t][Len(msgs[t])].n
JoinCalls(t) ==
  /\ At(t, "tools")
  /\ fan[t] = [NoFan EXCEPT !.told = TRUE]
  /\ Emit(t)
  /\ msgs' = [msgs EXCEPT ![t] = @ \o [k \in 1..Asked(t) |-> Result(t, k)]]
  /\ iter' = [iter EXCEPT ![t] = @ + 1]
  /\ Goto(t, "top")
  /\ UNCHANGED <<transcript, claim, lock, cancelled, kind, ending, output, calls,
                 kept, unstored, world>>

-----------------------------------------------------------------------------
(* A team's run ends in one synthesized text, or fails, once the events of *)
(* its members have been forwarded to the client.                          *)
TeamEnds(t) ==
  /\ At(t, "team")
  /\ Emit(t)
  /\ \E ok \in BOOLEAN :
       /\ ending' = [ending EXCEPT ![t] = IF ok THEN "completed" ELSE "error"]
       /\ output' = [output EXCEPT ![t] = IF ok THEN <<Text(t, TRUE)>> ELSE <<>>]
  /\ Goto(t, "persist")
  /\ UNCHANGED <<transcript, claim, lock, cancelled, kind, msgs, iter, calls, kept,
                 unstored, world>>

-----------------------------------------------------------------------------
(* The finalize task *)

Unhurt == deletes + faults + crashes < MaxMishaps

Stored(t) == kept[t] = Len(output[t]) \/ t \in unstored

PersistNext(t) ==
  /\ At(t, "persist") /\ ~Stored(t)
  /\ transcript' = Append(transcript, output[t][kept[t] + 1])
  /\ kept' = [kept EXCEPT ![t] = @ + 1]
  /\ UNCHANGED <<claim, lock, cancelled, pc, kind, agent, stream, unstored, world>>

(* The first append that fails ends the persisting, logged only. *)
PersistFails(t) ==
  /\ At(t, "persist") /\ ~Stored(t)
  /\ faults < MaxFaults /\ Unhurt
  /\ faults' = faults + 1
  /\ unstored' = unstored \cup {t}
  /\ UNCHANGED <<transcript, claim, lock, cancelled, pc, kind, agent, kept,
                 stream, tampered, notes, deletes, crashes>>

(* The agent.run entry; only a finished run's entry counts messages. *)
AppendAudit(t) ==
  /\ At(t, "persist") /\ Stored(t)
  /\ claim' = [claim EXCEPT ![t] =
       IF kind[t] # "team" /\ ending[t] # "error" THEN Produced(msgs[t]) ELSE @]
  /\ msgs' = [msgs EXCEPT ![t] = <<>>]
  /\ Goto(t, "audited")
  /\ UNCHANGED <<transcript, lock, cancelled, kind, iter, ending, output, calls,
                 kept, stream, unstored, world>>

(* A team's forwarder first sends the final event on to the client.  With  *)
(* the turn the channel closes: what the client still reads is its affair. *)
ReleaseTurn(t) ==
  /\ At(t, "audited")
  /\ kind[t] = "team" => CanEmit(t)
  /\ client' = [client EXCEPT ![t] = "absent"]
  /\ queue' = [queue EXCEPT ![t] = 0]
  /\ Release(t)
  /\ Goto(t, "done")
  /\ UNCHANGED <<transcript, claim, kind, agent, kept, unstored, world>>

-----------------------------------------------------------------------------
(* Around the turns *)

Cancel ==
  /\ lock # NoTurn
  /\ cancelled' = cancelled \cup {lock}
  /\ quota' = IF lock \in cancelled THEN quota
              ELSE [quota EXCEPT ![lock] = fan[lock].gate + fan[lock].granted]
  /\ UNCHANGED <<transcript, claim, lock, pc, kind, msgs, iter, ending, output, fan,
                 kept, stream, unstored, world>>

Read(t) ==
  /\ client[t] = "reading" /\ queue[t] > 0
  /\ queue' = [queue EXCEPT ![t] = @ - 1]
  /\ UNCHANGED <<transcript, claim, lock, cancelled, pc, kind, agent, kept,
                 client, unstored, world>>

Disconnect(t) ==
  /\ client[t] = "reading"
  /\ client' = [client EXCEPT ![t] = "gone"]
  /\ queue' = [queue EXCEPT ![t] = 0]
  /\ UNCHANGED <<transcript, claim, lock, cancelled, pc, kind, agent, kept,
                 unstored, world>>

(* The loop controller tells the session why a loop stopped. *)
PostFinalMessage ==
  /\ notes < MaxNotes
  /\ notes' = notes + 1
  /\ transcript' = Append(transcript, Text(Loop, TRUE))
  /\ UNCHANGED <<claim, lock, cancelled, pc, kind, agent, kept, stream, unstored,
                 tampered, deletes, faults, crashes>>

DeleteMessage ==
  /\ deletes < MaxDeletes /\ Unhurt
  /\ deletes' = deletes + 1
  /\ \E i \in DOMAIN transcript :
       /\ transcript' = RemoveAt(transcript, i)
       /\ tampered' = tampered \cup {transcript[i].by}
  /\ UNCHANGED <<claim, lock, cancelled, pc, kind, agent, kept, stream, unstored,
                 notes, faults, crashes>>

(* A crash, and the restart: what was under way is gone. *)
Crash ==
  /\ crashes < MaxCrashes /\ Unhurt
  /\ crashes' = crashes + 1
  /\ pc' = [t \in Turn |-> IF pc[t] \in Over \cup {"idle"} THEN pc[t] ELSE "dead"]
  /\ lock' = NoTurn
  /\ cancelled' = {}
  /\ client' = [t \in Turn |-> "absent"]
  /\ queue' = [t \in Turn |-> 0]
  /\ msgs' = [t \in Turn |-> <<>>]
  /\ fan' = [t \in Turn |-> NoFan]
  /\ UNCHANGED <<transcript, claim, kind, iter, ending, output, quota, kept,
                 unstored, tampered, notes, deletes, faults>>

-----------------------------------------------------------------------------
Handler(t)  == CheckSession(t) \/ BeginTurn(t) \/ PersistUser(t) \/ LoadHistory(t)
               \/ GiveUp(t) \/ Launch(t)
Agent(t)    == LoopTop(t) \/ ModelReplies(t) \/ ModelCalls(t) \/ ModelFails(t)
               \/ Dispatch(t) \/ JoinCalls(t) \/ TeamEnds(t)
Finalize(t) == PersistNext(t) \/ PersistFails(t) \/ AppendAudit(t) \/ ReleaseTurn(t)
Client(t)   == Read(t) \/ Disconnect(t)

Next ==
  \/ \E t \in Turn : Handler(t) \/ Agent(t) \/ Finalize(t) \/ Client(t)
  \/ Cancel \/ PostFinalMessage \/ DeleteMessage \/ Crash

Spec == Init /\ [][Next]_vars

(* Tokio runs every ready task; the backend answers or fails, the tool     *)
(* calls end, and so do tickets, which have a deadline.  Handler, agent    *)
(* and finalize task of a turn work one after the other, so what is fair   *)
(* to one of them at a time is fair to each.  Nobody is obliged to ask for *)
(* a turn.                                                                 *)
TaskFairness ==
  \A t \in Turn :
    WF_vars(pc[t] # "idle" /\ (Handler(t) \/ Agent(t) \/ Finalize(t)))

(* A client reads its stream or its connection ends. *)
ClientFairness == \A t \in Turn : WF_vars(Client(t))

LiveSpec == Spec /\ TaskFairness /\ ClientFairness

-----------------------------------------------------------------------------
(* Safety *)

(* The lock covers all that a turn does to the session, from before its    *)
(* first write until its output is stored: two turns never overlap, and a  *)
(* turn that ends by an early return, a failure or a crash leaves the lock *)
(* to the next one (TurnGuard).                                            *)
UnderLock == {"locked", "stored", "loaded"} \cup Running \cup Closing
LockCoversTurn ==
  /\ \A t \in Turn : pc[t] \in UnderLock <=> lock = t
  /\ lock = NoTurn \/ pc[lock] \in UnderLock

(* A finished run whose output was stored is in the history of every later *)
(* turn as one block, prompt first: places are the positions of block's    *)
(* messages in s, and nothing stands between them but notes of the loop    *)
(* controller.                                                             *)
Placed(block, s, places) ==
  /\ \A j, k \in DOMAIN block : j < k => places[j] < places[k]
  /\ \A k \in DOMAIN block : s[places[k]] = block[k]
  /\ \A i \in DOMAIN s :
       \/ s[i].by = Loop
       \/ \E k \in DOMAIN block : places[k] = i
       \/ \A k \in DOMAIN block : i < places[k]
       \/ \A k \in DOMAIN block : places[k] < i
Occurs(block, s) ==
  \E places \in [DOMAIN block -> DOMAIN s] : Placed(block, s, places)
FollowUpSees ==
  \A t, u \in Turn :
    /\ At(t, "loaded") /\ kind[t] # "team"
    /\ At(u, "done") /\ u \notin unstored \cup tampered
    => Occurs(<<User(u)>> \o output[u], msgs[t])

(* Whatever the window has dropped and however the run ended, a turn never *)
(* stores a message of another turn as its own: not even the fallback to   *)
(* the last reply in the conversation does.                                *)
OutputIsOwn == \A t \in Turn : \A i \in DOMAIN output[t] : output[t][i].by = t

(* An audit entry of a finished run is never at odds with the messages     *)
(* table unless a failed append is on record too: it counts exactly the    *)
(* messages the turn stored, however trimming, the fallback reply and      *)
(* failures came together.  (The fallback reply, stored when the window    *)
(* has dropped the prompt, is counted as none.)                            *)
AuditCounts ==
  \A t \in Turn : claim[t] # -1 /\ t \notin unstored =>
    \/ claim[t] = kept[t]
    \/ claim[t] = 0 /\ kept[t] = 1

(* What the model is shown pairs every tool call with its results and      *)
(* every result with its call, except for the turns that left a broken     *)
(* record: cancelled before the fan-out, a failed append, a crash, a       *)
(* message the operator deleted, or a note of the loop controller that was *)
(* stored amid the turn's rows and stands before what is left of them.     *)
Broken(u) == \/ ending[u] = "cancelled"
             \/ u \in unstored \cup tampered
             \/ At(u, "dead")
Split(s, u) ==
  \E j, k \in DOMAIN s :
    /\ j < k /\ s[j].by = Loop /\ s[k].by = u
    /\ \A i \in j..k : s[i].role # "user"
Answered(s, i) ==
  \A k \in 1..s[i].n : i + k \in DOMAIN s /\ s[i + k] = Result(s[i].by, k)
Issued(s, i) ==
  LET j == i - s[i].n
  IN  /\ j \in DOMAIN s
      /\ s[j].role = "calls" /\ s[j].by = s[i].by /\ s[j].n >= s[i].n
Paired(s, u) ==
  \A i \in DOMAIN s : s[i].by = u =>
    /\ s[i].role = "calls" => Answered(s, i)
    /\ s[i].role = "result" => Issued(s, i)
PairsIntact ==
  \A t \in Turn : At(t, "calling") =>
    \A u \in Turn : Broken(u) \/ Split(msgs[t], u) \/ Paired(msgs[t], u)

(* Once its token has fired a turn asks the model nothing more, and starts *)
(* no tools but those of the fan-out it was in whose calls were, when the  *)
(* token fired, on their way through the gate or released from it: nobody  *)
(* looks at the token there.  No call that was parked starts, whatever the *)
(* operator decided, and no later fan-out does (is_cancelled before each   *)
(* request and each fan-out, the biased select of await_decision).         *)
CancelStopsWork == \A t \in Turn : quota[t] >= 0

-----------------------------------------------------------------------------
(* Refinement *)

(* Handlers, agents and finalize tasks, with early returns, failed         *)
(* appends, cancels and crashes, keep what a chat session promises: see    *)
(* ChatSession.                                                            *)
Stage(t) ==
  CASE pc[t] \in {"idle", "checked"} -> "new"
    [] pc[t] = "locked"              -> "begun"
    [] pc[t] \in Over                -> "over"
    [] OTHER                         -> "asked"

Line(m)  == [by |-> m.by, asks |-> m.role = "user"]
LogOf(s) == [i \in DOMAIN s |-> Line(s[i])]

Session ==
  INSTANCE ChatSession WITH
    log    <- LogOf(transcript),
    writer <- lock,
    stage  <- [t \in Turn |-> Stage(t)]

ImplementsSession == Session!Spec

-----------------------------------------------------------------------------
(* Liveness *)

(* The session is never left locked: the next message is not refused for   *)
(* ever.                                                                   *)
LockReleased == \A t \in Turn : lock = t ~> lock # t
=============================================================================
