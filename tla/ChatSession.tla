----------------------------- MODULE ChatSession -----------------------------
(***************************************************************************)
(* What a chat session promises, however its turns race, fail, are         *)
(* cancelled or die with the process: one turn writes at a time, its       *)
(* prompt before its answers, under its own name, and nothing once it is   *)
(* over.  A turn has the session once.  Only the loop controller's notes   *)
(* and deletions go on beside it.                                          *)
(***************************************************************************)
EXTENDS SequencesExt

CONSTANTS
  Turn,     \* the turns that may be asked for
  NoTurn,   \* not a turn
  Loop      \* the author of the loop controller's notes

VARIABLES
  log,      \* the session's messages: who wrote each, and is it a prompt?
  writer,   \* the turn that has the session
  stage     \* how far each turn got

vars == <<log, writer, stage>>

Prompt(t)     == [by |-> t, asks |-> TRUE]
Answer(by)    == [by |-> by, asks |-> FALSE]
Moves(t, to)  == stage' = [stage EXCEPT ![t] = to]

Init ==
  /\ log = <<>>
  /\ writer = NoTurn
  /\ stage = [t \in Turn |-> "new"]

(* A turn takes the session while nobody has it. *)
Begins(t) ==
  /\ stage[t] = "new" /\ writer = NoTurn
  /\ writer' = t
  /\ Moves(t, "begun")
  /\ UNCHANGED log

(* Its prompt comes first, and once. *)
Asks(t) ==
  /\ writer = t /\ stage[t] = "begun"
  /\ log' = Append(log, Prompt(t))
  /\ Moves(t, "asked")
  /\ UNCHANGED writer

Answers(t) ==
  /\ writer = t /\ stage[t] = "asked"
  /\ log' = Append(log, Answer(t))
  /\ UNCHANGED <<writer, stage>>

(* Turns end, several at once in a crash, and never come back; a request   *)
(* that is turned away ends before it began.                               *)
End(S) ==
  /\ stage' = [t \in Turn |-> IF t \in S THEN "over" ELSE stage[t]]
  /\ writer' = IF writer \in S THEN NoTurn ELSE writer
  /\ UNCHANGED log

Notes ==
  /\ log' = Append(log, Answer(Loop))
  /\ UNCHANGED <<writer, stage>>

Deletes ==
  /\ \E i \in DOMAIN log : log' = RemoveAt(log, i)
  /\ UNCHANGED <<writer, stage>>

Next ==
  \/ \E t \in Turn : Begins(t) \/ Asks(t) \/ Answers(t)
  \/ \E S \in SUBSET Turn : End(S)
  \/ Notes \/ Deletes

Spec == Init /\ [][Next]_vars
=============================================================================
