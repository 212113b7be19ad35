--------------------------- MODULE SkillProposals ---------------------------
(***************************************************************************)
(* Agent-authored skills: an agent proposes, the HotL budget of the scope  *)
(* "skill_author" lets the proposal through or not, an operator approves   *)
(* or rejects it, and an approved one is installed as a YAML file.         *)
(*                                                                         *)
(* The gate is HotlBudget: a proposal is one of its calls, checked between *)
(* the two audit rows that propose writes around it.  Approve and reject   *)
(* are HTTP handlers, each a read of the row, then (approve only) a look   *)
(* at the file and a write of it, then an update by id, then an audit row; *)
(* handlers of the same proposal interleave at every step.                 *)
(***************************************************************************)
EXTENDS HotlBudget

CONSTANTS
  Skill,      \* names with their versions
  Decision,   \* the operators' requests
  NoCall      \* no proposal

ASSUME SkillAssumption ==
  /\ NoCall \notin Call
  /\ "torn" \notin Call \cup {NoCall}

VARIABLES
  (* durable *)
  row,        \* skill_proposals.status of each proposal
  file,       \* whose manifest the skill's YAML holds
  trail,      \* the skill.* rows of the audit chain
  (* in memory *)
  step,       \* how far each propose got
  decision,   \* the operators' requests
  (* fixed: what each proposal is about *)
  skill,
  (* history *)
  hurt        \* proposals whose approval or rejection broke off

skillVars == <<row, file, trail, step, decision, skill, hurt>>
allVars   == <<vars, skillVars>>

Torn      == "torn"
Outcome   == {"installed", "rejected"}
Handling  == {"idle", "check", "write", "set", "audit", "done"}
NoRequest == [pc |-> "idle", of |-> NoCall, to |-> "none"]

SkillTypeOK ==
  /\ row \in [Call -> {"none", "pending"} \cup Outcome]
  /\ file \in [Skill -> Call \cup {NoCall, Torn}]
  /\ trail \in [Call -> SUBSET ({"propose", "gate"} \cup Outcome)]
  /\ step \in [Call -> {"idle", "record", "gate", "insert", "ended"}]
  /\ decision \in [Decision -> [pc : Handling, of : Call \cup {NoCall}, to : {"none"} \cup Outcome]]
  /\ skill \in [Call -> Skill]
  /\ hurt \subseteq Call

SkillInit ==
  /\ Init
  /\ row = [c \in Call |-> "none"]
  /\ file = [s \in Skill |-> NoCall]
  /\ trail = [c \in Call |-> {}]
  /\ step = [c \in Call |-> "idle"]
  /\ decision = [d \in Decision |-> NoRequest]
  /\ skill \in [Call -> Skill]
  /\ hurt = {}
-----------------------------------------------------------------------------
(* Mutated forms: plausible mistakes in the helpers below, each of which a *)
(* property must catch.                                                    *)

GateOpensUnlessDenied(c) == verdict[c] # "deny"
WriteFailureIgnored(d)   == decision' = [decision EXCEPT ![d].pc = "set"] /\ UNCHANGED hurt
AuditsApprovals(d)       == IF decision[d].to = "installed" THEN "audit" ELSE "done"
-----------------------------------------------------------------------------
(* propose.  Any error ends it; a proposal that is switched off or not     *)
(* well-formed ends before it is on record.                                *)

Recorded(c, what) == trail' = [trail EXCEPT ![c] = @ \cup {what}]

Proceeds(c, to) == step' = [step EXCEPT ![c] = to]

Propose(c) ==
  /\ step[c] = "idle"
  /\ Proceeds(c, "record") \/ Proceeds(c, "ended")
  /\ UNCHANGED <<vars, row, file, trail, decision, skill, hurt>>

RecordPropose(c) ==
  /\ step[c] = "record"
  /\ \/ Recorded(c, "propose") /\ Proceeds(c, "gate") /\ UNCHANGED faults
     \/ StoreFault /\ Proceeds(c, "ended") /\ UNCHANGED trail
  /\ UNCHANGED <<policies, stamp, call, verdict, todo, fetched, weighed, now, edits, crashes,
                 row, file, decision, skill, hurt>>

(* The gate itself: the check of HotlBudget.                               *)
Gate(c) == step[c] = "gate" /\ Check(c) /\ UNCHANGED skillVars

(* EnforcerGateAdapter: an escalation refuses, too.                        *)
GateOpens(c) == verdict[c] = "allow"

RecordVerdict(c) ==
  /\ step[c] = "gate" /\ call[c] = "answered"
  /\ \/ /\ Recorded(c, "gate")
        /\ Proceeds(c, IF GateOpens(c) THEN "insert" ELSE "ended")
        /\ UNCHANGED faults
     \/ StoreFault /\ Proceeds(c, "ended") /\ UNCHANGED trail
  /\ UNCHANGED <<policies, stamp, call, verdict, todo, fetched, weighed, now, edits, crashes,
                 row, file, decision, skill, hurt>>

(* The row, unless the name and version are taken.                         *)
Taken(s) == \E o \in Call : skill[o] = s /\ row[o] # "none"

InsertProposal(c) ==
  /\ step[c] = "insert"
  /\ Proceeds(c, "ended")
  /\ \/ ~Taken(skill[c]) /\ row' = [row EXCEPT ![c] = "pending"] /\ UNCHANGED faults
     \/ Taken(skill[c]) /\ UNCHANGED <<row, faults>>
     \/ StoreFault /\ UNCHANGED row
  /\ UNCHANGED <<policies, stamp, call, verdict, todo, fetched, weighed, now, edits, crashes,
                 file, trail, decision, skill, hurt>>
-----------------------------------------------------------------------------
(* approve_proposal and reject_proposal.                                   *)

Moves(d, pc) == decision' = [decision EXCEPT ![d].pc = pc]

BreaksOff(d) ==
  /\ Moves(d, "done")
  /\ hurt' = hurt \cup ({decision[d].of} \ {NoCall})

Failure(d) == StoreFault /\ BreaksOff(d)

budgetButFaults == <<policies, stamp, call, verdict, todo, fetched, weighed, now, edits, crashes>>

(* repo.get, and the guard on what it returned                             *)
ReadProposal(d) ==
  /\ decision[d].pc = "idle"
  /\ \E c \in Call, to \in Outcome :
       /\ row[c] # "none"
       /\ decision' = [decision EXCEPT ![d] =
            [of |-> c, to |-> to,
             pc |-> IF row[c] # "pending" THEN "done"
                    ELSE IF to = "installed" THEN "check" ELSE "set"]]
  /\ UNCHANGED <<vars, row, file, trail, step, skill, hurt>>

(* write_skill_yaml: path.exists() ..                                      *)
LookForFile(d) ==
  /\ decision[d].pc = "check"
  /\ Moves(d, IF file[skill[decision[d].of]] = NoCall THEN "write" ELSE "done")
  /\ UNCHANGED <<vars, row, file, trail, step, skill, hurt>>

(* A failed write answers the request, with the row as it was.             *)
WriteFails(d) == BreaksOff(d)

(* .. and fs::write, which truncates first and may fail half way           *)
WriteFile(d) ==
  LET c == decision[d].of IN
  /\ decision[d].pc = "write"
  /\ \/ /\ file' = [file EXCEPT ![skill[c]] = c]
        /\ Moves(d, "set")
        /\ UNCHANGED <<hurt, faults>>
     \/ /\ StoreFault /\ WriteFails(d)
        /\ file' = [file EXCEPT ![skill[c]] = Torn] \/ UNCHANGED file
  /\ UNCHANGED <<budgetButFaults, row, trail, step, skill>>

AfterUpdate(d) == "audit"

(* UPDATE .. WHERE id, whatever the status has become                      *)
SetStatus(d) ==
  LET r == decision[d] IN
  /\ r.pc = "set"
  /\ \/ row' = [row EXCEPT ![r.of] = r.to] /\ Moves(d, AfterUpdate(d)) /\ UNCHANGED <<hurt, faults>>
     \/ Failure(d) /\ UNCHANGED row
  /\ UNCHANGED <<budgetButFaults, file, trail, step, skill>>

RecordDecision(d) ==
  LET r == decision[d] IN
  /\ r.pc = "audit"
  /\ \/ Recorded(r.of, r.to) /\ Moves(d, "done") /\ UNCHANGED <<hurt, faults>>
     \/ Failure(d) /\ UNCHANGED trail
  /\ UNCHANGED <<budgetButFaults, row, file, step, skill>>

Decide(d) ==
  ReadProposal(d) \/ LookForFile(d) \/ WriteFile(d) \/ SetStatus(d) \/ RecordDecision(d)

(* The client leaves; a write of the file is not interrupted by that.      *)
Leave(d) ==
  /\ decision[d].pc \in {"set", "audit"}
  /\ Unhurt /\ crashes' = crashes + 1
  /\ BreaksOff(d)
  /\ UNCHANGED <<policies, stamp, call, verdict, todo, fetched, weighed, now, edits, faults,
                 row, file, trail, step, skill>>
-----------------------------------------------------------------------------
Interrupted(d) == decision[d].pc \in {"check", "write", "set", "audit"}

(* A crash while a file is written may leave part of it.                   *)
SkillCrash ==
  /\ Crash
  /\ step' = [c \in Call |-> IF step[c] = "idle" THEN "idle" ELSE "ended"]
  /\ decision' = [d \in Decision |->
       IF decision[d].pc = "idle" THEN NoRequest ELSE [decision[d] EXCEPT !.pc = "done"]]
  /\ hurt' = hurt \cup {decision[d].of : d \in {e \in Decision : Interrupted(e)}}
  /\ \E S \in SUBSET {skill[decision[d].of] : d \in {e \in Decision : decision[e].pc = "write"}} :
       file' = [s \in Skill |-> IF s \in S THEN Torn ELSE file[s]]
  /\ UNCHANGED <<row, trail, skill>>

SkillNext ==
  \/ \E c \in Call : \/ Propose(c) \/ RecordPropose(c) \/ Gate(c)
                     \/ RecordVerdict(c) \/ InsertProposal(c)
  \/ \E d \in Decision : Decide(d) \/ Leave(d)
  \/ SkillCrash
  \/ ((\E p \in Policy : Edit(p)) \/ Clock) /\ UNCHANGED skillVars

SkillSpec == SkillInit /\ [][SkillNext]_allVars
-----------------------------------------------------------------------------
(* Properties.                                                             *)

(* A proposal the operator can see was put on record, passed the budget    *)
(* against every policy it was checked by, and that is on record, too:     *)
(* no race, fault or crash lets one in behind the gate's back.             *)
ProposedOnRecord ==
  \A c \in Call : row[c] # "none" =>
    /\ {"propose", "gate"} \subseteq trail[c]
    /\ \A r \in fetched[c] : \E w \in Within(r) : w.call = c

(* "so we don't end up with an `installed` row without a file on disk"     *)
(* (skill_author.rs:472): an installed proposal has its file, whole unless *)
(* a decision broke off.                                                   *)
InstalledHasFile ==
  \A c \in Call : row[c] = "installed" =>
    \/ file[skill[c]] = c
    \/ file[skill[c]] = Torn /\ hurt # {}

(* What became of a proposal is in the audit chain, or about to be, unless *)
(* a decision on it broke off.                                             *)
Telling(c, to) == \E d \in Decision :
  decision[d].pc = "audit" /\ decision[d].of = c /\ decision[d].to = to

DecisionsAudited ==
  \A c \in Call : row[c] \in Outcome =>
    row[c] \in trail[c] \/ Telling(c, row[c]) \/ c \in hurt

(* skill_author.rs:486 "Only a pending proposal may be approved - without  *)
(* this a previously rejected proposal could be flipped to `installed`,    *)
(* silently reversing the operator's rejection": it never is.              *)
RejectionStands == \A c \in Call : "rejected" \in trail[c] => row[c] # "installed"
=============================================================================
