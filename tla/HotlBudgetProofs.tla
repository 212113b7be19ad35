-------------------------- MODULE HotlBudgetProofs --------------------------
(***************************************************************************)
(* The safety of HotlBudget for any calls, policies and bounds.            *)
(*                                                                         *)
(* WindowKept is inductive once it is known that a count is taken by calls *)
(* whose row is in for good (CountedInv): the last of the counts that let  *)
(* calls pass saw the rows of all of them.  Each lemma takes one kind of   *)
(* step and not the specification's next-state relation, so that           *)
(* SkillProposals, whose steps move the budget too, can use them.          *)
(***************************************************************************)
EXTENDS HotlBudget, FiniteSetTheorems, TLAPS

(* A call has its row before it counts, and counts after it fetched.       *)
CountedInv ==
  /\ \A c \in Call : call[c] = "counting" => stamp[c] # NoStamp
  /\ \A c \in Call : call[c] = "idle" => fetched[c] = {}
  /\ \A w \in weighed : stamp[w.call] # NoStamp /\ call[w.call] \notin {"idle", "listed"}

(* A breach that was counted shows in the verdict.                         *)
BreachInv ==
  \A w \in weighed : w.breached =>
    /\ verdict[w.call] # "allow"
    /\ ~w.rule.escalates => verdict[w.call] = "deny"

(* A fetched policy is still to be counted for, or was, unless an error    *)
(* made the verdict Deny.                                                  *)
CoverInv ==
  \A c \in Call : call[c] \in {"listed", "counting", "answered"} =>
    \/ call[c] = "answered" /\ verdict[c] = "deny"
    \/ \A r \in fetched[c] :
         \/ call[c] # "answered" /\ \E e \in todo[c] : e[2] = r
         \/ \E w \in weighed : w.call = c /\ w.rule = r

BudgetInv == TypeOK /\ CountedInv /\ BreachInv /\ CoverInv /\ WindowKept

-----------------------------------------------------------------------------
(* Type correctness. *)

(* The budget's own steps, whichever specification takes them.             *)
Budget == (\E c \in Call : Check(c)) \/ (\E p \in Policy : Edit(p)) \/ Crash \/ Clock

(* Steps of others that leave the budget alone.                            *)
Aside == /\ UNCHANGED <<policies, stamp, call, verdict, todo, fetched, weighed, now, edits>>
         /\ faults' \in Nat /\ crashes' \in Nat

LEMMA BudgetInit == Init => BudgetInv
<1> SUFFICES ASSUME Init PROVE BudgetInv
  OBVIOUS
<1>1. TypeOK
  BY DEF Init, TypeOK, NoStamp, Stages, Verdict
<1>2. CountedInv /\ BreachInv /\ CoverInv
  BY DEF Init, CountedInv, BreachInv, CoverInv
<1>3. WindowKept
  <2> SUFFICES ASSUME NEW r \in Rule, NEW S \in SUBSET Within(r)
               PROVE  Cardinality({w.call : w \in S}) <= r.max
    BY DEF WindowKept
  <2>1. S = {} /\ {w.call : w \in S} = {}
    BY DEF Init, Within
  <2> QED
    BY <2>1, FS_EmptySet, ConstantsAssumption
<1> QED
  BY <1>1, <1>2, <1>3 DEF BudgetInv

LEMMA WorldType == TypeOK => now \in Nat /\ edits \in Nat /\ faults \in Nat /\ crashes \in Nat
  BY DEF TypeOK

LEMMA FetchTypes == TypeOK =>
  /\ Listed \in SUBSET (Policy \X Rule)
  /\ {e[2] : e \in Listed} \subseteq Rule
  BY DEF TypeOK, Listed

LEMMA WeighedType ==
  ASSUME NEW c \in Call, NEW r \in Rule, now \in Nat, NEW b \in BOOLEAN
  PROVE  [call |-> c, rule |-> r, at |-> now, breached |-> b] \in Weighed
  BY DEF Weighed

LEMMA TypeBudget == TypeOK /\ Budget => TypeOK'
<1> SUFFICES ASSUME TypeOK, Budget PROVE TypeOK'
  OBVIOUS
<1> USE WorldType DEF Stages, Verdict, world
<1>1. ASSUME NEW c \in Call, FetchPolicies(c) PROVE TypeOK'
  BY <1>1, FetchTypes DEF TypeOK, FetchPolicies, Answered, StoreFault
<1>2. ASSUME NEW c \in Call, InsertUsage(c) PROVE TypeOK'
  BY <1>2 DEF TypeOK, InsertUsage, Inserted, Answered, StoreFault
<1>3. ASSUME NEW c \in Call, CountWindow(c) PROVE TypeOK'
  <2>1. PICK e \in todo[c] :
       \/ /\ todo' = [todo EXCEPT ![c] = @ \ {e}]
          /\ call' = IF todo[c] = {e} THEN [call EXCEPT ![c] = "answered"] ELSE call
          /\ verdict' = IF Breached(e[2])
                        THEN [verdict EXCEPT ![c] = Stricter(@, Candidate(e[2]))] ELSE verdict
          /\ weighed' = weighed \cup
               {[call |-> c, rule |-> e[2], at |-> now, breached |-> Breached(e[2])]}
          /\ UNCHANGED faults
       \/ StoreFault /\ Answered(c, "deny") /\ UNCHANGED <<todo, weighed>>
    BY <1>3 DEF CountWindow
  <2>2. e[2] \in Rule /\ Breached(e[2]) \in BOOLEAN
    BY DEF TypeOK, Breached
  <2>3. Stricter(verdict[c], Candidate(e[2])) \in Verdict
    BY DEF TypeOK, Stricter, Candidate
  <2>4. /\ call' \in [Call -> Stages] /\ verdict' \in [Call -> Verdict] /\ faults' \in Nat
        /\ todo' \in [Call -> SUBSET (Policy \X Rule)]
    BY <2>1, <2>3 DEF TypeOK, Answered, StoreFault
  <2>5. weighed' \subseteq Weighed
    BY <2>1, <2>2, WeighedType DEF TypeOK
  <2> QED
    BY <1>3, <2>4, <2>5 DEF TypeOK, CountWindow
<1>4. ASSUME NEW p \in Policy, Edit(p) PROVE TypeOK'
  BY <1>4 DEF TypeOK, Edit
<1>5. CASE Crash
  BY <1>5 DEF TypeOK, Crash
<1>6. CASE Clock
  BY <1>6 DEF TypeOK, Clock
<1> QED
  BY <1>1, <1>2, <1>3, <1>4, <1>5, <1>6 DEF Budget, Check

-----------------------------------------------------------------------------
(* One count. *)

(* What CountWindow does when the store does not fail.                     *)
Counts(c, e) ==
  /\ todo' = [todo EXCEPT ![c] = @ \ {e}]
  /\ call' = IF todo[c] = {e} THEN [call EXCEPT ![c] = "answered"] ELSE call
  /\ verdict' = IF Breached(e[2])
                THEN [verdict EXCEPT ![c] = Stricter(@, Candidate(e[2]))] ELSE verdict
  /\ weighed' = weighed \cup
       {[call |-> c, rule |-> e[2], at |-> now, breached |-> Breached(e[2])]}

(* A check's step, as the rest sees it: the call moves on, or is denied.   *)
LEMMA CheckCases ==
  ASSUME TypeOK, NEW c \in Call, Check(c)
  PROVE  /\ UNCHANGED <<policies, now>>
         /\ \A d \in Call \ {c} : /\ call'[d] = call[d] /\ verdict'[d] = verdict[d]
                                  /\ todo'[d] = todo[d] /\ fetched'[d] = fetched[d]
                                  /\ stamp'[d] = stamp[d]
         /\ \/ /\ call[c] = "idle" /\ call'[c] = "answered"
               /\ UNCHANGED <<stamp, todo, fetched, weighed>>
            \/ /\ call[c] = "idle" /\ call'[c] = "listed" /\ UNCHANGED <<stamp, verdict, weighed>>
               /\ todo'[c] = Listed /\ fetched'[c] = {e[2] : e \in Listed}
            \/ /\ call[c] = "listed" /\ call'[c] = "counting" /\ stamp'[c] = now
               /\ UNCHANGED <<todo, fetched, weighed, verdict>>
            \/ /\ call[c] \in {"listed", "counting"} /\ call'[c] = "answered" /\ verdict'[c] = "deny"
               /\ UNCHANGED <<stamp, todo, fetched, weighed>>
            \/ /\ call[c] = "counting" /\ UNCHANGED <<stamp, fetched>>
               /\ \E e \in todo[c] : Counts(c, e)
<1>1. CASE FetchPolicies(c)
  BY <1>1 DEF TypeOK, FetchPolicies, Answered
<1>2. CASE InsertUsage(c)
  BY <1>2 DEF TypeOK, InsertUsage, Inserted, Answered
<1>3. CASE CountWindow(c)
  <2>1. PICK e \in todo[c] :
          Counts(c, e) \/ (Answered(c, "deny") /\ UNCHANGED <<todo, weighed>>)
    BY <1>3 DEF CountWindow, Counts
  <2>2. CASE Counts(c, e)
    BY <1>3, <2>2 DEF TypeOK, CountWindow, Counts
  <2>3. CASE Answered(c, "deny") /\ UNCHANGED <<todo, weighed>>
    BY <1>3, <2>3 DEF TypeOK, CountWindow, Answered
  <2> QED
    BY <2>1, <2>2, <2>3
<1> QED
  BY <1>1, <1>2, <1>3 DEF Check

LEMMA CountedBudget == TypeOK /\ CountedInv /\ Budget => CountedInv'
<1> SUFFICES ASSUME TypeOK, CountedInv, Budget PROVE CountedInv'
  OBVIOUS
<1>0. now \in Nat /\ \A w \in weighed : w.call \in Call
  BY DEF TypeOK, Weighed
<1>1. ASSUME NEW c \in Call, Check(c) PROVE CountedInv'
  <2>1. ASSUME weighed' = weighed, stamp'[c] = stamp[c] \/ stamp'[c] = now,
               call[c] \in {"idle", "listed"} \/ call'[c] = "answered",
               call'[c] # "idle", call'[c] = "counting" => stamp'[c] # NoStamp,
               call[c] = "counting" => call'[c] = "answered" /\ stamp'[c] = stamp[c]
        PROVE  CountedInv'
    BY <1>0, <1>1, <2>1, CheckCases DEF CountedInv, NoStamp
  <2>2. ASSUME call[c] = "counting", UNCHANGED <<stamp, fetched>>, NEW e \in todo[c], Counts(c, e)
        PROVE  CountedInv'
    <3>1. call'[c] \in {"counting", "answered"}
      BY <2>2 DEF Counts, TypeOK
    <3>2. \A w \in weighed' : w \in weighed \/ w.call = c
      BY <2>2 DEF Counts
    <3> QED
      BY <1>0, <1>1, <2>2, <3>1, <3>2, CheckCases DEF CountedInv
  <2> QED
    BY <1>0, <1>1, <2>1, <2>2, CheckCases DEF NoStamp
<1>2. ASSUME NEW p \in Policy, Edit(p) PROVE CountedInv'
  BY <1>2 DEF CountedInv, Edit
<1>3. CASE Crash
  BY <1>0, <1>3 DEF CountedInv, Crash
<1>4. CASE Clock
  BY <1>4 DEF CountedInv, Clock
<1> QED
  BY <1>1, <1>2, <1>3, <1>4 DEF Budget

LEMMA BreachBudget == TypeOK /\ CountedInv /\ BreachInv /\ Budget => BreachInv'
<1> SUFFICES ASSUME TypeOK, CountedInv, BreachInv, Budget PROVE BreachInv'
  OBVIOUS
<1>0. \A w \in weighed : w.call \in Call
  BY DEF TypeOK, Weighed
<1>1. ASSUME NEW c \in Call, Check(c) PROVE BreachInv'
  <2>1. ASSUME weighed' = weighed, call[c] \in {"idle", "listed"} \/ verdict'[c] = "deny"
        PROVE  BreachInv'
    BY <1>0, <1>1, <2>1, CheckCases DEF BreachInv, CountedInv
  <2>2. ASSUME NEW e \in todo[c], Counts(c, e) PROVE BreachInv'
    <3> DEFINE r == e[2]
    <3>1. /\ verdict'[c] = IF Breached(r) THEN Stricter(verdict[c], Candidate(r)) ELSE verdict[c]
          /\ weighed' = weighed \cup
               {[call |-> c, rule |-> r, at |-> now, breached |-> Breached(r)]}
      BY <2>2 DEF Counts, TypeOK
    <3>2. ASSUME NEW w \in weighed, w.breached, w.call = c
          PROVE  verdict'[c] # "allow" /\ (~w.rule.escalates => verdict'[c] = "deny")
      <4>1. verdict[c] # "allow" /\ (~w.rule.escalates => verdict[c] = "deny")
        BY <3>2 DEF BreachInv
      <4> QED
        BY <3>1, <4>1 DEF Stricter, Candidate
    <3>3. Breached(r) => verdict'[c] # "allow" /\ (~r.escalates => verdict'[c] = "deny")
      <4>1. verdict[c] \in Verdict
        BY DEF TypeOK
      <4> QED
        BY <3>1, <4>1 DEF Stricter, Candidate, Verdict
    <3>4. \A w \in weighed : w.call # c => verdict'[w.call] = verdict[w.call]
      BY <1>0, <1>1, CheckCases
    <3>5. ASSUME NEW w \in weighed', w.breached
          PROVE  verdict'[w.call] # "allow" /\ (~w.rule.escalates => verdict'[w.call] = "deny")
      <4>1. CASE w \in weighed /\ w.call = c
        BY <3>2, <3>5, <4>1
      <4>2. CASE w \in weighed /\ w.call # c
        BY <3>4, <3>5, <4>2 DEF BreachInv
      <4>3. CASE w \notin weighed
        <5>0. w = [call |-> c, rule |-> r, at |-> now, breached |-> Breached(r)]
          BY <3>1, <3>5, <4>3
        <5>1. w.call = c /\ w.rule = r /\ w.breached = Breached(r)
          BY <5>0
        <5> HIDE DEF r
        <5> QED
          BY <3>3, <3>5, <5>1
      <4> QED
        BY <4>1, <4>2, <4>3
    <3> QED
      BY <3>5 DEF BreachInv
  <2> QED
    BY <1>1, <2>1, <2>2, CheckCases
<1>2. ASSUME NEW p \in Policy, Edit(p) PROVE BreachInv'
  BY <1>2 DEF BreachInv, Edit
<1>3. CASE Crash \/ Clock
  BY <1>3 DEF BreachInv, Crash, Clock
<1> QED
  BY <1>1, <1>2, <1>3 DEF Budget

LEMMA CoverBudget == TypeOK /\ CountedInv /\ CoverInv /\ Budget => CoverInv'
<1> SUFFICES ASSUME TypeOK, CountedInv, CoverInv, Budget PROVE CoverInv'
  OBVIOUS
<1>1. ASSUME NEW c \in Call, Check(c) PROVE CoverInv'
  <2>1. ASSUME weighed' = weighed, call'[c] = "answered", verdict'[c] = "deny"
        PROVE  CoverInv'
    BY <1>1, <2>1, CheckCases DEF CoverInv
  <2>2. CASE call[c] = "idle" /\ call'[c] = "answered" /\ UNCHANGED <<todo, fetched, weighed>>
    BY <1>1, <2>2, CheckCases DEF CoverInv, CountedInv
  <2>3. CASE call'[c] = "listed" /\ weighed' = weighed /\ todo'[c] = Listed
             /\ fetched'[c] = {e[2] : e \in Listed}
    BY <1>1, <2>3, CheckCases DEF CoverInv
  <2>4. CASE call[c] = "listed" /\ call'[c] = "counting" /\ UNCHANGED <<todo, fetched, weighed>>
    BY <1>1, <2>4, CheckCases DEF CoverInv
  <2>5. ASSUME call[c] = "counting", UNCHANGED fetched, NEW e \in todo[c], Counts(c, e)
        PROVE  CoverInv'
    <3> DEFINE n == [call |-> c, rule |-> e[2], at |-> now, breached |-> Breached(e[2])]
    <3>1. /\ n \in weighed' /\ n.call = c /\ n.rule = e[2] /\ weighed \subseteq weighed'
          /\ todo'[c] = todo[c] \ {e}
          /\ call'[c] = IF todo[c] = {e} THEN "answered" ELSE call[c]
      BY <2>5 DEF Counts, TypeOK
    <3> HIDE DEF n
    <3>2. ASSUME NEW r \in fetched[c]
          PROVE  \/ call'[c] # "answered" /\ \E x \in todo'[c] : x[2] = r
                 \/ \E w \in weighed' : w.call = c /\ w.rule = r
      <4>1. CASE \E w \in weighed : w.call = c /\ w.rule = r
        BY <3>1, <4>1
      <4>2. CASE \E x \in todo[c] : x[2] = r
        BY <2>5, <3>1, <4>2
      <4> QED
        BY <2>5, <4>1, <4>2 DEF CoverInv
    <3>3. \A d \in Call \ {c} : /\ call'[d] = call[d] /\ verdict'[d] = verdict[d]
                                /\ todo'[d] = todo[d] /\ fetched'[d] = fetched[d]
      BY <1>1, CheckCases
    <3> QED
      BY <2>5, <3>1, <3>2, <3>3 DEF CoverInv
  <2> QED
    BY <1>1, <2>1, <2>2, <2>3, <2>4, <2>5, CheckCases
<1>2. ASSUME NEW p \in Policy, Edit(p) PROVE CoverInv'
  BY <1>2 DEF CoverInv, Edit
<1>3. CASE Crash
  BY <1>3 DEF CoverInv, Crash
<1>4. CASE Clock
  BY <1>4 DEF CoverInv, Clock
<1> QED
  BY <1>1, <1>2, <1>3, <1>4 DEF Budget

-----------------------------------------------------------------------------
(* The window. *)

LEMMA DivMonotone == \A a, b \in Int, d \in Nat \ {0} : a >= b => a \div d >= b \div d
  BY Z3

LEMMA CountedFinite ==
  ASSUME NEW n
  PROVE  IsFiniteSet(Counted(n)) /\ Cardinality(Counted(n)) \in Nat
<1>1. Counted(n) \subseteq Call
  BY DEF Counted
<1> QED
  BY <1>1, ConstantsAssumption, FS_Subset, FS_CardinalityType

(* A policy lets a call pass only if all the calls in its window, this one *)
(* and those that passed before included, are within its max.              *)
LEMMA NewCount ==
  ASSUME TypeOK, CountedInv, WindowKept, NEW c \in Call, call[c] = "counting",
         NEW e \in todo[c], Counts(c, e), UNCHANGED <<stamp, now>>
  PROVE  WindowKept'
<1> DEFINE r == e[2]
           n == [call |-> c, rule |-> r, at |-> now, breached |-> Breached(r)]
<1>1. r \in Rule /\ r.window \in Nat /\ r.max \in Nat /\ now \in Nat /\ Day \in Nat \ {0}
  BY ConstantsAssumption DEF TypeOK
<1>2. weighed' = weighed \cup {n}
  BY DEF Counts
<1>3. \A w \in weighed' : w.call \in Call /\ stamp[w.call] \in Nat
  BY <1>2 DEF TypeOK, Weighed, CountedInv
<1>4. n.call = c /\ n.rule = r /\ n.at = now /\ n.breached = Breached(r)
  OBVIOUS
<1> HIDE DEF n
<1> SUFFICES ASSUME NEW q \in Rule, NEW S \in SUBSET Within(q)', Together(S, q)'
             PROVE  Cardinality({w.call : w \in S}) <= q.max
  BY DEF WindowKept
<1>5. S \subseteq weighed' /\ \A w \in S : w.rule = q /\ ~w.breached
  BY DEF Within
<1>6. CASE n \in S
  <2>1. q = r /\ ~Breached(r)
    BY <1>4, <1>5, <1>6
  <2> HIDE DEF r
  <2>2. \A a \in S : stamp[a.call] >= now - r.window
    BY <1>4, <1>6, <2>1 DEF Together
  <2>3. \A a \in S : InWindow(stamp[a.call], now - r.window)
    <3>1. now - r.window \in Int
      BY <1>1
    <3>2. ASSUME NEW a \in S PROVE stamp[a.call] \in Int /\ stamp[a.call] >= now - r.window
      BY <1>3, <1>5, <2>2
    <3> QED
      BY <1>1, <3>1, <3>2, DivMonotone DEF InWindow
  <2>4. {w.call : w \in S} \subseteq Counted(r.window)
    BY <1>3, <1>5, <2>3 DEF Counted, NoStamp
  <2>5. Cardinality({w.call : w \in S}) <= Cardinality(Counted(r.window))
    BY <2>4, CountedFinite, FS_Subset
  <2>6. Cardinality({w.call : w \in S}) \in Nat
    BY <2>4, CountedFinite, FS_Subset, FS_CardinalityType
  <2> QED
    BY <1>1, <2>1, <2>5, <2>6, CountedFinite DEF Breached
<1>7. CASE n \notin S
  <2>1. S \in SUBSET Within(q)
    BY <1>2, <1>5, <1>7 DEF Within
  <2>2. Together(S, q)
    BY DEF Together
  <2> QED
    BY <2>1, <2>2 DEF WindowKept
<1> QED
  BY <1>6, <1>7

(* Nothing else touches the counts or the rows they were taken of.         *)
LEMMA SameCounts ==
  ASSUME WindowKept, weighed' = weighed, \A w \in weighed : stamp'[w.call] = stamp[w.call]
  PROVE  WindowKept'
<1> SUFFICES ASSUME NEW q \in Rule, NEW S \in SUBSET Within(q)', Together(S, q)'
             PROVE  Cardinality({w.call : w \in S}) <= q.max
  BY DEF WindowKept
<1>1. S \in SUBSET Within(q) /\ S \subseteq weighed
  BY DEF Within
<1>2. Together(S, q)
  BY <1>1 DEF Together
<1> QED
  BY <1>1, <1>2 DEF WindowKept

LEMMA WindowBudget == TypeOK /\ CountedInv /\ WindowKept /\ Budget => WindowKept'
<1> SUFFICES ASSUME TypeOK, CountedInv, WindowKept, Budget PROVE WindowKept'
  OBVIOUS
<1>1. ASSUME NEW c \in Call, Check(c) PROVE WindowKept'
  <2>1. ASSUME weighed' = weighed, stamp' = stamp \/ call[c] = "listed" PROVE WindowKept'
    <3>1. \A w \in weighed : w.call \in Call /\ (call[c] = "listed" => w.call # c)
      BY DEF TypeOK, Weighed, CountedInv
    <3>2. \A w \in weighed : stamp'[w.call] = stamp[w.call]
      BY <1>1, <2>1, <3>1, CheckCases
    <3> QED
      BY <2>1, <3>2, SameCounts
  <2> QED
    BY <1>1, <2>1, CheckCases, NewCount
<1>2. CASE (\E p \in Policy : Edit(p)) \/ Crash \/ Clock
  BY <1>2, SameCounts DEF Edit, Crash, Clock
<1> QED
  BY <1>1, <1>2 DEF Budget

LEMMA BudgetStep == BudgetInv /\ Budget => BudgetInv'
  BY TypeBudget, CountedBudget, BreachBudget, CoverBudget, WindowBudget DEF BudgetInv

LEMMA AsideStep == BudgetInv /\ Aside => BudgetInv'
<1> SUFFICES ASSUME BudgetInv, Aside PROVE BudgetInv'
  OBVIOUS
<1>1. TypeOK'
  BY DEF Aside, BudgetInv, TypeOK
<1>2. CountedInv' /\ BreachInv' /\ CoverInv'
  BY DEF Aside, BudgetInv, CountedInv, BreachInv, CoverInv
<1>3. WindowKept'
  BY SameCounts DEF Aside, BudgetInv
<1> QED
  BY <1>1, <1>2, <1>3 DEF BudgetInv

LEMMA StrictestFollows == BudgetInv => StrictestWins
<1> SUFFICES ASSUME BudgetInv, NEW c \in Call, call[c] = "answered"
             PROVE  /\ verdict[c] = "allow" => \A r \in fetched[c] : \E w \in Within(r) : w.call = c
                    /\ verdict[c] # "deny" =>
                         \A w \in weighed : w.call = c /\ w.breached => w.rule.escalates
  BY DEF StrictestWins
<1>1. ASSUME verdict[c] = "allow", NEW r \in fetched[c] PROVE \E w \in Within(r) : w.call = c
  <2>1. PICK w \in weighed : w.call = c /\ w.rule = r
    BY <1>1 DEF BudgetInv, CoverInv
  <2>2. ~w.breached
    BY <1>1, <2>1 DEF BudgetInv, BreachInv
  <2> QED
    BY <2>1, <2>2 DEF Within
<1>2. ASSUME verdict[c] # "deny", NEW w \in weighed, w.call = c, w.breached
      PROVE  w.rule.escalates
  BY <1>2 DEF BudgetInv, BreachInv
<1> QED
  BY <1>1, <1>2

LEMMA StepIsBudget == BudgetInv /\ [Next]_vars => BudgetInv'
<1> SUFFICES ASSUME BudgetInv, [Next]_vars PROVE BudgetInv'
  OBVIOUS
<1>1. CASE Next
  BY <1>1, BudgetStep DEF Next, Budget
<1>2. CASE UNCHANGED vars
  BY <1>2, AsideStep, WorldType DEF vars, world, Aside, BudgetInv
<1> QED
  BY <1>1, <1>2

(* The invariant holds for ever.                                           *)
THEOREM InvAlways == Spec => []BudgetInv
  BY BudgetInit, StepIsBudget, PTL DEF Spec

(* Every reachable state is well typed.                                    *)
THEOREM TypeCorrect == Spec => []TypeOK
  BY InvAlways, PTL DEF BudgetInv

(* Calls that a policy let pass inside one of its windows are no more than *)
(* its max, however their checks, the operator's edits, store errors and   *)
(* crashes interleave.                                                     *)
THEOREM WindowIsKept == Spec => []WindowKept
  BY InvAlways, PTL DEF BudgetInv

(* The strictest verdict of the fetched policies wins.                     *)
THEOREM Strictest == Spec => []StrictestWins
  BY InvAlways, StrictestFollows, PTL
=============================================================================
