------------------------ MODULE SkillProposalsProofs ------------------------
(***************************************************************************)
(* The safety of SkillProposals, the budget behind its gate included, for  *)
(* any proposals, policies, decisions and bounds.                          *)
(*                                                                         *)
(* A skill step takes a step of the budget or leaves it alone              *)
(* (BudgetOrAside), so HotlBudgetProofs' invariant holds here, too.  What  *)
(* the gate answered cannot change any more (Answers), a row's name and    *)
(* version is its own (Taken), and a decision under way is about a row     *)
(* that exists: the three keep rows, files and trail together.             *)
(***************************************************************************)
EXTENDS SkillProposals, HotlBudgetProofs

Active(d) == decision[d].pc \notin {"idle", "done"}

(* How far a proposal got is on record.                                    *)
StageInv ==
  /\ \A c \in Call : step[c] \in {"gate", "insert"} => "propose" \in trail[c]
  /\ \A c \in Call : step[c] = "insert" \/ row[c] # "none" =>
       /\ {"propose", "gate"} \subseteq trail[c]
       /\ call[c] = "answered" /\ verdict[c] = "allow"

(* A decision under way is about a row; no two rows share a skill.         *)
DecisionInv ==
  /\ \A d \in Decision : Active(d) =>
       /\ decision[d].of \in Call /\ row[decision[d].of] # "none"
       /\ decision[d].to \in Outcome
       /\ decision[d].pc \in {"check", "write"} => decision[d].to = "installed"
  /\ \A a, b \in Call : row[a] # "none" /\ row[b] # "none" /\ skill[a] = skill[b] => a = b

(* A written file is the proposal's own.                                   *)
Own(c) == file[skill[c]] \in {c, Torn}

FileInv ==
  /\ \A s \in Skill : file[s] = Torn => hurt # {}
  /\ \A c \in Call : row[c] = "installed" => Own(c)
  /\ \A d \in Decision : decision[d].pc \in {"set", "audit"} /\ decision[d].to = "installed" =>
       Own(decision[d].of)

SkillInv == /\ BudgetInv /\ SkillTypeOK
            /\ StageInv /\ DecisionInv /\ FileInv /\ DecisionsAudited
-----------------------------------------------------------------------------
(* The budget. *)

LEMMA BudgetOrAside == TypeOK /\ [SkillNext]_allVars => Budget \/ Aside
<1> SUFFICES ASSUME TypeOK, [SkillNext]_allVars PROVE Budget \/ Aside
  OBVIOUS
<1>0. faults \in Nat /\ crashes \in Nat /\ (StoreFault => faults' \in Nat)
  BY WorldType DEF StoreFault
<1> USE <1>0 DEF Aside, vars, world, budgetButFaults
<1>1. ASSUME NEW c \in Call,
   Propose(c) \/ RecordPropose(c) \/ RecordVerdict(c) \/ InsertProposal(c)
      PROVE  Aside
  BY <1>1 DEF Propose, RecordPropose, RecordVerdict, InsertProposal
<1>2. ASSUME NEW c \in Call, Gate(c) PROVE Budget
  BY <1>2 DEF Gate, Budget
<1>3. ASSUME NEW d \in Decision, Decide(d) PROVE Aside
  BY <1>3 DEF Decide, ReadProposal, LookForFile, WriteFile, SetStatus, RecordDecision, Failure
<1>4. ASSUME NEW d \in Decision, Leave(d) PROVE Aside
  BY <1>4 DEF Leave
<1>5. CASE SkillCrash \/ (((\E p \in Policy : Edit(p)) \/ Clock) /\ UNCHANGED skillVars)
  BY <1>5 DEF SkillCrash, Budget
<1>6. CASE UNCHANGED allVars
  BY <1>6 DEF allVars
<1> QED
  BY <1>1, <1>2, <1>3, <1>4, <1>5, <1>6 DEF SkillNext

LEMMA BudgetHere == BudgetInv /\ [SkillNext]_allVars => BudgetInv'
  BY BudgetOrAside, BudgetStep, AsideStep DEF BudgetInv

(* What the gate answered and what it fetched for it stays.                *)
LEMMA Answers ==
  ASSUME TypeOK, [SkillNext]_allVars, NEW c \in Call, call[c] = "answered"
  PROVE  call'[c] = "answered" /\ verdict'[c] = verdict[c]
<1>1. CASE Budget
  <2>1. ASSUME NEW b \in Call, Check(b) PROVE b # c
    BY <2>1 DEF Check, FetchPolicies, InsertUsage, CountWindow
  <2>2. ASSUME NEW b \in Call, Check(b) PROVE call'[c] = "answered" /\ verdict'[c] = verdict[c]
    BY <2>1, <2>2, CheckCases
  <2>3. CASE (\E p \in Policy : Edit(p)) \/ Crash \/ Clock
    BY <2>3 DEF Edit, Crash, Clock
  <2> QED
    BY <1>1, <2>2, <2>3 DEF Budget
<1>2. CASE Aside
  BY <1>2 DEF Aside
<1> QED
  BY <1>1, <1>2, BudgetOrAside
-----------------------------------------------------------------------------
(* Type correctness. *)

LEMMA SkillTypeStep == SkillTypeOK /\ DecisionInv /\ [SkillNext]_allVars => SkillTypeOK'
<1> SUFFICES ASSUME SkillTypeOK, DecisionInv, [SkillNext]_allVars PROVE SkillTypeOK'
  OBVIOUS
<1> USE DEF SkillTypeOK, Outcome
<1>1. ASSUME NEW c \in Call, Propose(c) PROVE SkillTypeOK'
  BY <1>1 DEF Propose, Proceeds
<1>2. ASSUME NEW c \in Call, RecordPropose(c) PROVE SkillTypeOK'
  BY <1>2 DEF RecordPropose, Recorded, Proceeds
<1>3. ASSUME NEW c \in Call, Gate(c) PROVE SkillTypeOK'
  BY <1>3 DEF Gate, skillVars
<1>4. ASSUME NEW c \in Call, RecordVerdict(c) PROVE SkillTypeOK'
  BY <1>4 DEF RecordVerdict, Recorded, Proceeds
<1>5. ASSUME NEW c \in Call, InsertProposal(c) PROVE SkillTypeOK'
  BY <1>5 DEF InsertProposal, Proceeds
<1>6. ASSUME NEW d \in Decision, ReadProposal(d) PROVE SkillTypeOK'
  BY <1>6 DEF ReadProposal, Handling
<1>7. ASSUME NEW d \in Decision, LookForFile(d) PROVE SkillTypeOK'
  BY <1>7 DEF LookForFile, Moves, Handling
<1>8. ASSUME NEW d \in Decision, WriteFile(d) PROVE SkillTypeOK'
  <2>1. decision[d].of \in Call
    BY <1>8 DEF WriteFile, DecisionInv, Active
  <2> QED
    BY SMTT(30), <1>8, <2>1 DEF WriteFile, WriteFails, BreaksOff, Moves, Handling
<1>9. ASSUME NEW d \in Decision, SetStatus(d) PROVE SkillTypeOK'
  <2>1. decision[d].of \in Call /\ decision[d].to \in Outcome
    BY <1>9 DEF SetStatus, DecisionInv, Active
  <2> QED
    BY <1>9, <2>1 DEF SetStatus, AfterUpdate, Failure, BreaksOff, Moves, Handling
<1>10. ASSUME NEW d \in Decision, RecordDecision(d) PROVE SkillTypeOK'
  <2>1. decision[d].of \in Call /\ decision[d].to \in Outcome
    BY <1>10 DEF RecordDecision, DecisionInv, Active
  <2> QED
    BY <1>10, <2>1 DEF RecordDecision, Recorded, Failure, BreaksOff, Moves, Handling
<1>11. ASSUME NEW d \in Decision, Leave(d) PROVE SkillTypeOK'
  BY <1>11 DEF Leave, BreaksOff, Moves, Handling
<1>12. CASE SkillCrash
  <2>1. \A d \in Decision : Interrupted(d) => decision[d].of \in Call
    BY DEF Interrupted, DecisionInv, Active
  <2>2. hurt' \subseteq Call /\ file' \in [Skill -> Call \cup {NoCall, Torn}]
    BY <1>12, <2>1 DEF SkillCrash
  <2>3. /\ step' \in [Call -> {"idle", "record", "gate", "insert", "ended"}]
        /\ decision' \in [Decision -> [pc : Handling, of : Call \cup {NoCall}, to : {"none"} \cup Outcome]]
    BY <1>12 DEF SkillCrash, NoRequest, Handling
  <2> QED
    BY <1>12, <2>2, <2>3 DEF SkillCrash
<1>13. CASE UNCHANGED skillVars
  BY <1>13 DEF skillVars
<1> QED
  BY <1>1, <1>2, <1>3, <1>4, <1>5, <1>6, <1>7, <1>8, <1>9, <1>10, <1>11, <1>12, <1>13
     DEF SkillNext, Decide, allVars
-----------------------------------------------------------------------------
(* The gate. *)

LEMMA StageStep ==
  TypeOK /\ SkillTypeOK /\ DecisionInv /\ StageInv /\ [SkillNext]_allVars => StageInv'
<1> SUFFICES ASSUME TypeOK, SkillTypeOK, DecisionInv, StageInv, [SkillNext]_allVars PROVE StageInv'
  OBVIOUS
<1> USE Answers DEF SkillTypeOK, Outcome, StageInv
<1>1. ASSUME NEW c \in Call, Propose(c) PROVE StageInv'
  BY <1>1 DEF Propose, Proceeds
<1>2. ASSUME NEW c \in Call, RecordPropose(c) PROVE StageInv'
  BY <1>2 DEF RecordPropose, Recorded, Proceeds
<1>3. ASSUME NEW c \in Call, RecordVerdict(c) PROVE StageInv'
  BY <1>3 DEF RecordVerdict, GateOpens, Recorded, Proceeds
<1>4. ASSUME NEW c \in Call, InsertProposal(c) PROVE StageInv'
  BY <1>4 DEF InsertProposal, Proceeds
<1>5. ASSUME NEW d \in Decision, SetStatus(d) PROVE StageInv'
  <2>1. decision[d].of \in Call /\ row[decision[d].of] # "none"
    BY <1>5 DEF SetStatus, DecisionInv, Active
  <2> QED
    BY <1>5, <2>1 DEF SetStatus
<1>6. ASSUME NEW d \in Decision, RecordDecision(d) PROVE StageInv'
  BY <1>6 DEF RecordDecision, Recorded
<1>7. ASSUME NEW d \in Decision, ReadProposal(d) \/ LookForFile(d) \/ WriteFile(d) \/ Leave(d)
      PROVE StageInv'
  BY <1>7 DEF ReadProposal, LookForFile, WriteFile, Leave
<1>8. CASE SkillCrash
  BY <1>8 DEF SkillCrash
<1>9. CASE UNCHANGED skillVars
  BY <1>9 DEF skillVars
<1> QED
  BY <1>1, <1>2, <1>3, <1>4, <1>5, <1>6, <1>7, <1>8, <1>9 DEF SkillNext, Decide, Gate, allVars
-----------------------------------------------------------------------------
(* The decisions. *)

(* What a step does to the requests: only d's moves, and ends or keeps its *)
(* subject.                                                                *)
MovesOnly(d, pc) ==
  /\ \A e \in Decision \ {d} : decision'[e] = decision[e]
  /\ decision'[d].pc = pc
  /\ decision'[d].of = decision[d].of /\ decision'[d].to = decision[d].to

LEMMA MovesType ==
  ASSUME SkillTypeOK, NEW d \in Decision, NEW pc, Moves(d, pc)
  PROVE  MovesOnly(d, pc)
  BY DEF SkillTypeOK, Moves, MovesOnly

LEMMA DecisionCases ==
  ASSUME SkillTypeOK, DecisionInv, NEW d \in Decision, Decide(d) \/ Leave(d)
  PROVE  /\ UNCHANGED <<skill, step>> /\ hurt \subseteq hurt'
         /\ \/ /\ decision[d].pc = "idle"
               /\ \A e \in Decision \ {d} : decision'[e] = decision[e]
               /\ \E c \in Call, to \in Outcome :
                    /\ row[c] # "none" /\ decision'[d].of = c /\ decision'[d].to = to
                    /\ \/ decision'[d].pc = "done"
                       \/ decision'[d].pc = "check" /\ to = "installed"
                       \/ decision'[d].pc = "set" /\ to = "rejected"
               /\ UNCHANGED <<row, file, trail, hurt>>
            \/ /\ decision[d].pc = "check" /\ (MovesOnly(d, "write") \/ MovesOnly(d, "done"))
               /\ UNCHANGED <<row, file, trail, hurt>>
            \/ /\ decision[d].pc = "write" /\ UNCHANGED <<row, trail>>
               /\ \/ /\ MovesOnly(d, "set") /\ UNCHANGED hurt
                     /\ file' = [file EXCEPT ![skill[decision[d].of]] = decision[d].of]
                  \/ /\ MovesOnly(d, "done") /\ decision[d].of \in hurt'
                     /\ file' = [file EXCEPT ![skill[decision[d].of]] = Torn] \/ UNCHANGED file
            \/ /\ decision[d].pc = "set" /\ UNCHANGED <<file, trail, hurt>> /\ MovesOnly(d, "audit")
               /\ row' = [row EXCEPT ![decision[d].of] = decision[d].to]
            \/ /\ decision[d].pc = "audit" /\ UNCHANGED <<row, file, hurt>> /\ MovesOnly(d, "done")
               /\ trail' = [trail EXCEPT ![decision[d].of] = @ \cup {decision[d].to}]
            \/ /\ decision[d].pc \in {"set", "audit"} /\ UNCHANGED <<row, file, trail>>
               /\ MovesOnly(d, "done") /\ decision[d].of \in hurt'
<1>a. Active(d) => decision[d].of \in Call /\ decision[d].of # NoCall
  BY SkillAssumption DEF DecisionInv
<1>b. BreaksOff(d) /\ Active(d) =>
        MovesOnly(d, "done") /\ hurt \subseteq hurt' /\ decision[d].of \in hurt'
  BY <1>a, MovesType DEF BreaksOff
<1>1. CASE ReadProposal(d)
  BY <1>1 DEF ReadProposal, SkillTypeOK, Outcome
<1>2. CASE LookForFile(d)
  BY <1>2, MovesType DEF LookForFile
<1>3. CASE WriteFile(d)
  BY <1>3, <1>b, MovesType DEF WriteFile, WriteFails, Active
<1>4. CASE SetStatus(d)
  BY <1>4, <1>b, MovesType DEF SetStatus, AfterUpdate, Failure, Active
<1>5. CASE RecordDecision(d)
  BY <1>5, <1>b, MovesType DEF RecordDecision, Recorded, Failure, Active
<1>6. CASE Leave(d)
  BY <1>6, <1>b, MovesType DEF Leave, Active
<1> QED
  BY <1>1, <1>2, <1>3, <1>4, <1>5, <1>6 DEF Decide

(* The steps of propose, and those of the budget alone.                    *)
LEMMA OtherCases ==
  ASSUME SkillTypeOK, [SkillNext]_allVars,
         ~SkillCrash, \A d \in Decision : ~Decide(d) /\ ~Leave(d)
  PROVE  /\ UNCHANGED <<decision, skill, file, hurt>>
         /\ \A c \in Call : trail[c] \subseteq trail'[c]
         /\ \/ UNCHANGED row
            \/ \E c \in Call : ~Taken(skill[c]) /\ row' = [row EXCEPT ![c] = "pending"]
<1>1. ASSUME NEW c \in Call,
             Propose(c) \/ RecordPropose(c) \/ Gate(c) \/ RecordVerdict(c) \/ InsertProposal(c)
      PROVE  /\ UNCHANGED <<decision, skill, file, hurt>>
             /\ \A b \in Call : trail[b] \subseteq trail'[b]
             /\ UNCHANGED row \/ (~Taken(skill[c]) /\ row' = [row EXCEPT ![c] = "pending"])
  BY <1>1 DEF Propose, RecordPropose, Gate, RecordVerdict, InsertProposal, Recorded,
     skillVars,
              SkillTypeOK
<1>2. UNCHANGED skillVars => UNCHANGED <<decision, skill, file, hurt, trail, row>>
  BY DEF skillVars
<1> QED
  BY <1>1, <1>2 DEF SkillNext, allVars

LEMMA CrashCases ==
  ASSUME SkillTypeOK, SkillCrash
  PROVE  /\ UNCHANGED <<row, trail, skill>> /\ hurt \subseteq hurt'
         /\ \A d \in Decision : ~Active(d)' /\ (Interrupted(d) => decision[d].of \in hurt')
         /\ \A s \in Skill : file'[s] = file[s] \/ (file'[s] = Torn /\ hurt' # {})
<1>1. \A d \in Decision : decision'[d].pc \in {"idle", "done"}
  BY DEF SkillCrash, NoRequest, SkillTypeOK
<1>2. PICK S \in SUBSET {skill[decision[d].of] : d \in {e \in Decision : decision[e].pc = "write"}} :
        file' = [s \in Skill |-> IF s \in S THEN Torn ELSE file[s]]
  BY DEF SkillCrash
<1>3. S # {} => hurt' # {}
  <2>1. \A d \in Decision : decision[d].pc = "write" => decision[d].of \in hurt'
    BY DEF SkillCrash, Interrupted
  <2>2. S # {} => \E d \in Decision : decision[d].pc = "write"
    BY <1>2
  <2> QED
    BY <2>1, <2>2
<1> QED
  BY <1>1, <1>2, <1>3 DEF SkillCrash, Active

LEMMA DecisionStep == SkillTypeOK /\ DecisionInv /\ [SkillNext]_allVars => DecisionInv'
<1> SUFFICES ASSUME SkillTypeOK, DecisionInv, [SkillNext]_allVars PROVE DecisionInv'
  OBVIOUS
<1>1. ASSUME NEW d \in Decision, Decide(d) \/ Leave(d) PROVE DecisionInv'
  <2>1. \A c \in Call : row'[c] # "none" <=> row[c] # "none"
    BY <1>1, DecisionCases DEF DecisionInv, Active, SkillTypeOK, Outcome
  <2>2. \A a, b \in Call : row'[a] # "none" /\ row'[b] # "none" /\ skill'[a] = skill'[b] => a = b
    BY <1>1, <2>1, DecisionCases DEF DecisionInv
  <2>3. ASSUME NEW e \in Decision, Active(e)'
        PROVE  /\ decision'[e].of \in Call /\ row'[decision'[e].of] # "none"
               /\ decision'[e].to \in Outcome
               /\ decision'[e].pc \in {"check", "write"} => decision'[e].to = "installed"
    <3>1. CASE e # d
      <4>1. decision'[e] = decision[e]
        BY <1>1, <3>1, DecisionCases DEF MovesOnly
      <4> QED
        BY <2>1, <2>3, <4>1 DEF DecisionInv, Active
    <3>2. CASE e = d
      BY <1>1, <2>1, <2>3, <3>2, DecisionCases DEF DecisionInv, Active, MovesOnly
    <3> QED
      BY <3>1, <3>2
  <2> QED
    BY <2>2, <2>3 DEF DecisionInv
<1>2. CASE SkillCrash
  BY <1>2, CrashCases DEF DecisionInv
<1>3. CASE ~SkillCrash /\ \A d \in Decision : ~Decide(d) /\ ~Leave(d)
  <2>1. CASE UNCHANGED row
    BY <1>3, <2>1, OtherCases DEF DecisionInv, Active
  <2>2. ASSUME NEW c \in Call, ~Taken(skill[c]), row' = [row EXCEPT ![c] = "pending"]
        PROVE  DecisionInv'
    BY <1>3, <2>2, OtherCases DEF DecisionInv, Active, Taken, SkillTypeOK
  <2> QED
    BY <1>3, <2>1, <2>2, OtherCases
<1> QED
  BY <1>1, <1>2, <1>3

LEMMA FileStep == SkillTypeOK /\ DecisionInv /\ FileInv /\ [SkillNext]_allVars => FileInv'
<1> SUFFICES ASSUME SkillTypeOK, DecisionInv, FileInv, [SkillNext]_allVars PROVE FileInv'
  OBVIOUS
<1>0. file \in [Skill -> Call \cup {NoCall, Torn}] /\ skill \in [Call -> Skill]
  BY DEF SkillTypeOK
<1>1. ASSUME NEW d \in Decision, Decide(d) \/ Leave(d) PROVE FileInv'
  <2> DEFINE c == decision[d].of
  <2>1. CASE decision[d].pc = "write"
    <3>1. /\ c \in Call /\ row[c] # "none" /\ decision[d].to = "installed"
          /\ \A b \in Call : row[b] # "none" /\ skill[b] = skill[c] => b = c
      BY <2>1 DEF DecisionInv, Active
    <3>2. UNCHANGED <<row, skill>> /\ hurt \subseteq hurt'
      BY <1>1, <2>1, DecisionCases
    <3>3. \A s \in Skill : \/ file'[s] = file[s]
                           \/ s = skill[c] /\ (file'[s] = c \/ (file'[s] = Torn /\ hurt' # {}))
      BY <1>0, <1>1, <2>1, <3>1, DecisionCases
    <3>4. \A b \in Call : row[b] # "none" /\ Own(b) => Own(b)'
      BY <1>0, <3>1, <3>2, <3>3 DEF Own
    <3>5. \A s \in Skill : file'[s] = Torn => hurt' # {}
      BY <1>0, <3>1, <3>2, <3>3, SkillAssumption DEF FileInv, Torn
    <3>6. decision'[d].pc = "set" => Own(c)' /\ decision'[d].of = c
      BY <1>0, <1>1, <2>1, <3>1, DecisionCases DEF Own, MovesOnly
    <3>7. \A e \in Decision \ {d} : decision'[e] = decision[e]
      BY <1>1, <2>1, DecisionCases DEF MovesOnly
    <3>8. decision'[d].pc \in {"set", "done"}
      BY <1>1, <2>1, DecisionCases DEF MovesOnly
    <3>9. ASSUME NEW e \in Decision, decision'[e].pc \in {"set", "audit"},
                 decision'[e].to = "installed"
          PROVE  Own(decision[e].of)'
      <4>1. CASE e = d
        BY <3>6, <3>8, <3>9, <4>1 DEF Own
      <4>2. CASE e # d
        <5>1. decision'[e] = decision[e] /\ decision[e].of \in Call /\ row[decision[e].of] # "none"
          BY <3>7, <3>9, <4>2 DEF DecisionInv, Active
        <5>2. Own(decision[e].of)
          BY <3>9, <5>1 DEF FileInv
        <5> QED
          BY <3>4, <5>1, <5>2
      <4> QED
        BY <4>1, <4>2
    <3> QED
      BY <3>2, <3>4, <3>5, <3>9 DEF FileInv
  <2>2. CASE decision[d].pc # "write"
    <3>1. UNCHANGED <<file, skill>> /\ hurt \subseteq hurt'
      BY <1>1, <2>2, DecisionCases
    <3>2. \A b : Own(b)' <=> Own(b)
      BY <3>1 DEF Own
    <3>3. ASSUME NEW b \in Call, row'[b] = "installed" PROVE Own(b)
      <4>1. row[b] = "installed" \/ (decision[d].pc = "set" /\ c = b /\ decision[d].to = "installed")
        BY <1>1, <2>2, <3>3, DecisionCases DEF SkillTypeOK
      <4> QED
        BY <4>1 DEF FileInv
    <3>4. ASSUME NEW e \in Decision, decision'[e].pc \in {"set", "audit"},
                 decision'[e].to = "installed"
          PROVE  /\ decision[e].pc \in {"set", "audit"} /\ decision[e].to = "installed"
                 /\ decision'[e].of = decision[e].of
      BY <1>1, <2>2, <3>4, DecisionCases DEF MovesOnly
    <3> QED
      BY <3>1, <3>2, <3>3, <3>4 DEF FileInv
  <2> QED
    BY <2>1, <2>2
<1>2. CASE SkillCrash
  <2>1. \A c \in Call : Own(c) => Own(c)'
    BY <1>0, <1>2, CrashCases DEF Own
  <2> QED
    BY <1>2, <2>1, CrashCases DEF FileInv, Active
<1>3. CASE ~SkillCrash /\ \A d \in Decision : ~Decide(d) /\ ~Leave(d)
  <2>1. \A c \in Call : row'[c] = "installed" => row[c] = "installed"
    BY <1>3, OtherCases DEF SkillTypeOK
  <2> QED
    BY <1>3, <2>1, OtherCases DEF FileInv, Own
<1> QED
  BY <1>1, <1>2, <1>3

LEMMA AuditedStep ==
  SkillTypeOK /\ DecisionInv /\ DecisionsAudited /\ [SkillNext]_allVars => DecisionsAudited'
<1> SUFFICES ASSUME SkillTypeOK, DecisionInv, DecisionsAudited, [SkillNext]_allVars,
                    NEW c \in Call, row'[c] \in Outcome
             PROVE  row'[c] \in trail'[c] \/ Telling(c, row[c])' \/ c \in hurt'
  BY DEF DecisionsAudited
<1> DEFINE Done == row'[c] \in trail'[c] \/ Telling(c, row[c])' \/ c \in hurt'
<1>1. ASSUME NEW d \in Decision, Decide(d) \/ Leave(d) PROVE Done
  <2>1. CASE decision[d].pc = "set" /\ decision[d].of = c /\ MovesOnly(d, "audit")
             /\ row' = [row EXCEPT ![c] = decision[d].to]
    BY <2>1 DEF Telling, MovesOnly, SkillTypeOK
  <2>2. CASE decision[d].pc = "audit" /\ decision[d].of = c /\ UNCHANGED row
             /\ trail' = [trail EXCEPT ![c] = @ \cup {decision[d].to}] /\ UNCHANGED hurt
             /\ MovesOnly(d, "done")
    <3>1. row[c] \in trail[c] \/ Telling(c, row[c]) \/ c \in hurt
      BY <2>2 DEF DecisionsAudited
    <3> QED
      BY <2>2, <3>1 DEF Telling, MovesOnly, SkillTypeOK
  <2>3. CASE row'[c] = row[c] /\ trail'[c] = trail[c] /\ hurt \subseteq hurt'
             /\ (\A e \in Decision \ {d} : decision'[e] = decision[e])
             /\ (decision[d].pc = "audit" => decision[d].of # c \/ c \in hurt')
    <3>1. row[c] \in trail[c] \/ Telling(c, row[c]) \/ c \in hurt
      BY <2>3 DEF DecisionsAudited
    <3>2. CASE Telling(c, row[c])
      <4>1. PICK e \in Decision :
              decision[e].pc = "audit" /\ decision[e].of = c /\ decision[e].to = row[c]
        BY <3>2 DEF Telling
      <4>2. CASE e = d
        BY <2>3, <4>1, <4>2
      <4>3. CASE e # d
        <5>1. decision'[e].pc = "audit" /\ decision'[e].of = c /\ decision'[e].to = row'[c]
          BY <2>3, <4>1, <4>3
        <5> QED
          BY <5>1 DEF Telling
      <4> QED
        BY <4>2, <4>3
    <3> QED
      BY <2>3, <3>1, <3>2
  <2> QED
    BY <1>1, <2>1, <2>2, <2>3, DecisionCases DEF SkillTypeOK, MovesOnly
<1>2. CASE SkillCrash
  <2>1. row[c] \in trail[c] \/ Telling(c, row[c]) \/ c \in hurt
    BY <1>2, CrashCases DEF DecisionsAudited
  <2> QED
    BY <1>2, <2>1, CrashCases DEF Telling, Interrupted
<1>3. CASE ~SkillCrash /\ \A d \in Decision : ~Decide(d) /\ ~Leave(d)
  <2>1. row'[c] = row[c]
    BY <1>3, OtherCases DEF SkillTypeOK, Outcome
  <2>2. row[c] \in trail[c] \/ Telling(c, row[c]) \/ c \in hurt
    BY <2>1 DEF DecisionsAudited
  <2> QED
    BY <1>3, <2>1, <2>2, OtherCases DEF Telling
<1> QED
  BY <1>1, <1>2, <1>3
-----------------------------------------------------------------------------
(* The invariant. *)

LEMMA SkillInvInit == SkillInit => SkillInv
<1> SUFFICES ASSUME SkillInit PROVE SkillInv
  OBVIOUS
<1>1. BudgetInv
  BY BudgetInit DEF SkillInit
<1>2. SkillTypeOK
  BY DEF SkillInit, SkillTypeOK, NoRequest, Handling
<1>3. StageInv /\ DecisionInv /\ DecisionsAudited
  BY DEF SkillInit, StageInv, DecisionInv, DecisionsAudited, Active, NoRequest, Outcome
<1>4. FileInv
  BY SkillAssumption DEF SkillInit, FileInv, NoRequest, Torn
<1> QED
  BY <1>1, <1>2, <1>3, <1>4 DEF SkillInv

LEMMA SkillInvStep == SkillInv /\ [SkillNext]_allVars => SkillInv'
  BY BudgetHere, SkillTypeStep, StageStep, DecisionStep, FileStep, AuditedStep
     DEF SkillInv, BudgetInv

(* The invariant holds for ever.                                           *)
THEOREM SkillInvAlways == SkillSpec => []SkillInv
  BY SkillInvInit, SkillInvStep, PTL DEF SkillSpec

(* Every reachable state is well typed.                                    *)
THEOREM SkillTypeCorrect == SkillSpec => []SkillTypeOK
  BY SkillInvAlways, PTL DEF SkillInv

(* The budget is kept when it is proposals that are checked.               *)
THEOREM SkillWindowKept == SkillSpec => []WindowKept
  BY SkillInvAlways, PTL DEF SkillInv, BudgetInv

(* And the strictest verdict wins.                                         *)
THEOREM SkillStrictest == SkillSpec => []StrictestWins
<1>1. SkillInv => StrictestWins
  BY StrictestFollows DEF SkillInv
<1> QED
  BY <1>1, SkillInvAlways, PTL

(* No proposal becomes visible but through the gate, on record.            *)
THEOREM OnRecord == SkillSpec => []ProposedOnRecord
<1>1. SkillInv => ProposedOnRecord
  <2> SUFFICES ASSUME SkillInv, NEW c \in Call, row[c] # "none"
               PROVE  /\ {"propose", "gate"} \subseteq trail[c]
                      /\ \A r \in fetched[c] : \E w \in Within(r) : w.call = c
    BY DEF ProposedOnRecord
  <2>1. {"propose", "gate"} \subseteq trail[c] /\ call[c] = "answered" /\ verdict[c] = "allow"
    BY DEF SkillInv, StageInv
  <2>2. StrictestWins
    BY StrictestFollows DEF SkillInv
  <2> QED
    BY <2>1, <2>2 DEF StrictestWins
<1> QED
  BY <1>1, SkillInvAlways, PTL

(* An installed skill has its own file, whole unless a decision broke off. *)
THEOREM HasFile == SkillSpec => []InstalledHasFile
<1>1. SkillInv => InstalledHasFile
  BY DEF SkillInv, FileInv, Own, InstalledHasFile, SkillTypeOK
<1> QED
  BY <1>1, SkillInvAlways, PTL

(* Every outcome is in the audit chain, about to be, or its decision broke *)
(* off.                                                                    *)
THEOREM Audited == SkillSpec => []DecisionsAudited
  BY SkillInvAlways, PTL DEF SkillInv
=============================================================================
