----------------------------- MODULE HotlBudget -----------------------------
(***************************************************************************)
(* The rolling budget behind human-on-the-loop supervision: what           *)
(* SqliteHotlEnforcer::check answers to the tool calls of one scope, while *)
(* other calls are checked at the same time and the operator edits the     *)
(* policies.                                                               *)
(*                                                                         *)
(* A check is three awaits and more: fetch the policies of the scope, add  *)
(* a usage row, then one windowed count per fetched policy.  The row comes *)
(* before the counts, so calls checked in parallel see each other.  Every  *)
(* tool call weighs 1.0 (react.rs passes no other amount), so the sum of   *)
(* the amounts is the count, and max_usd a second max_count.               *)
(*                                                                         *)
(* Time is counted in seconds, Day of them in a UTC day.  The usage rows'  *)
(* occurred_at is text in the form 2026-01-31T12:00:00Z, the cutoff it is  *)
(* compared with is 2026-01-31 12:00:00: see InWindow.                     *)
(***************************************************************************)
EXTENDS Integers, FiniteSets

CONSTANTS
  Call,       \* tool calls of the scope, each checked once
  Policy,     \* ids of policies
  Rule,       \* what a policy may say: [max, window, escalates]
  NoRule,     \* no such policy
  HighRisk,   \* is_high_risk_scope of the scope
  Day,        \* seconds in a day
  MaxTime,    \* bound on the clock
  MaxEdits,   \* bound on the operator's edits
  MaxFaults,  \* bound on store errors, crashes and abandoned requests
  MaxUpsets   \* bound on all of these and the edits together

(* validate_policy_request admits no other rules                           *)
ASSUME ConstantsAssumption ==
  /\ IsFiniteSet(Call)
  /\ Rule \subseteq [max : Nat \ {0}, window : Nat \ {0}, escalates : BOOLEAN]
  /\ NoRule \notin Rule
  /\ HighRisk \in BOOLEAN
  /\ Day \in Nat \ {0}
  /\ {MaxTime, MaxEdits, MaxFaults, MaxUpsets} \subseteq Nat

VARIABLES
  (* durable *)
  policies,   \* hotl_policies of the scope
  stamp,      \* hotl_usage_log: occurred_at of each call's row
  (* in memory *)
  call,       \* how far the check of each call got
  verdict,    \* its verdict so far
  todo,       \* the fetched policies it has yet to count for
  (* history *)
  fetched,    \* the rules of the policies it fetched
  weighed,    \* every count that was taken
  (* the environment *)
  now, edits, faults, crashes

world == <<now, edits, faults, crashes>>
vars  == <<policies, stamp, call, verdict, todo, fetched, weighed, world>>

NoStamp == -1
Verdict == {"allow", "escalate", "deny"}
Stages  == {"idle", "listed", "counting", "answered", "lost"}
Weighed == [call : Call, rule : Rule, at : Nat, breached : BOOLEAN]

TypeOK ==
  /\ policies \in [Policy -> Rule \cup {NoRule}]
  /\ stamp \in [Call -> Nat \cup {NoStamp}]
  /\ call \in [Call -> Stages]
  /\ verdict \in [Call -> Verdict]
  /\ todo \in [Call -> SUBSET (Policy \X Rule)]
  /\ fetched \in [Call -> SUBSET Rule]
  /\ weighed \subseteq Weighed
  /\ {now, edits, faults, crashes} \subseteq Nat

Init ==
  /\ policies \in [Policy -> Rule \cup {NoRule}]
  /\ stamp = [c \in Call |-> NoStamp]
  /\ call = [c \in Call |-> "idle"]
  /\ verdict = [c \in Call |-> "allow"]
  /\ todo = [c \in Call |-> {}]
  /\ fetched = [c \in Call |-> {}]
  /\ weighed = {}
  /\ now = 0 /\ edits = 0 /\ faults = 0 /\ crashes = 0
-----------------------------------------------------------------------------
(* Mutated forms: plausible mistakes in the helpers below, each of which a *)
(* property must catch.                                                    *)

StricterLast(v, candidate) == candidate
InsertForgotten(c) == call' = [call EXCEPT ![c] = "counting"] /\ UNCHANGED stamp
-----------------------------------------------------------------------------
(* Helpers.                                                                *)

(* occurred_at >= cutoff, as text: on equal dates the row's T is above the *)
(* cutoff's blank, whatever the time of day.                               *)
InWindow(t, cutoff) == t \div Day >= cutoff \div Day

(* The rows of the windowed count.                                         *)
Counted(window) ==
  {d \in Call : stamp[d] # NoStamp /\ InWindow(stamp[d], now - window)}

Breached(r) == Cardinality(Counted(r.window)) > r.max

(* The strictest of two verdicts: Deny beats Escalate beats Allow.         *)
Stricter(v, candidate) ==
  IF v = "allow" \/ (v = "escalate" /\ candidate = "deny") THEN candidate ELSE v

Candidate(r) == IF r.escalates THEN "escalate" ELSE "deny"

Listed == {<<p, policies[p]>> : p \in {q \in Policy : policies[q] # NoRule}}

Calm   == edits + faults + crashes < MaxUpsets
Unhurt == Calm /\ faults + crashes < MaxFaults

StoreFault == Unhurt /\ faults' = faults + 1

Answered(c, v) ==
  /\ call' = [call EXCEPT ![c] = "answered"]
  /\ verdict' = [verdict EXCEPT ![c] = v]
-----------------------------------------------------------------------------
(* SqliteHotlEnforcer::check.  Every store error answers Deny.             *)

FetchPolicies(c) ==
  /\ call[c] = "idle"
  /\ \/ /\ Listed = {}
        /\ Answered(c, IF HighRisk THEN "escalate" ELSE "allow")
        /\ UNCHANGED <<todo, fetched, faults>>
     \/ /\ Listed # {}
        /\ call' = [call EXCEPT ![c] = "listed"]
        /\ todo' = [todo EXCEPT ![c] = Listed]
        /\ fetched' = [fetched EXCEPT ![c] = {e[2] : e \in Listed}]
        /\ UNCHANGED <<verdict, faults>>
     \/ /\ StoreFault /\ Answered(c, "deny")
        /\ UNCHANGED <<todo, fetched>>
  /\ UNCHANGED <<policies, stamp, weighed, now, edits, crashes>>

Inserted(c) ==
  /\ call' = [call EXCEPT ![c] = "counting"]
  /\ stamp' = [stamp EXCEPT ![c] = now]

InsertUsage(c) ==
  /\ call[c] = "listed"
  /\ \/ Inserted(c) /\ UNCHANGED <<verdict, faults>>
     \/ StoreFault /\ Answered(c, "deny") /\ UNCHANGED stamp
  /\ UNCHANGED <<policies, todo, fetched, weighed, now, edits, crashes>>

(* One round of the loop over the policies; the order is the store's.      *)
CountWindow(c) ==
  /\ call[c] = "counting"
  /\ \E e \in todo[c] :
       LET r == e[2] IN
       \/ /\ todo' = [todo EXCEPT ![c] = @ \ {e}]
          /\ call' = IF todo[c] = {e} THEN [call EXCEPT ![c] = "answered"] ELSE call
          /\ verdict' = IF Breached(r)
                        THEN [verdict EXCEPT ![c] = Stricter(@, Candidate(r))] ELSE verdict
          /\ weighed' = weighed \cup
               {[call |-> c, rule |-> r, at |-> now, breached |-> Breached(r)]}
          /\ UNCHANGED faults
       \/ StoreFault /\ Answered(c, "deny") /\ UNCHANGED <<todo, weighed>>
  /\ UNCHANGED <<policies, stamp, fetched, now, edits, crashes>>
-----------------------------------------------------------------------------
(* The operator's create, update and delete.                               *)

Edit(p) ==
  /\ Calm /\ edits < MaxEdits
  /\ edits' = edits + 1
  /\ \E r \in Rule \cup {NoRule} : policies' = [policies EXCEPT ![p] = r]
  /\ UNCHANGED <<stamp, call, verdict, todo, fetched, weighed, now, faults, crashes>>

(* A crash loses the checks under way; the next process serves new calls.  *)
Crash ==
  /\ Unhurt
  /\ crashes' = crashes + 1
  /\ call' = [c \in Call |-> IF call[c] \in {"listed", "counting"} THEN "lost" ELSE call[c]]
  /\ UNCHANGED <<policies, stamp, verdict, todo, fetched, weighed, now, edits, faults>>

Clock ==
  /\ now < MaxTime
  /\ now' = now + 1
  /\ UNCHANGED <<policies, stamp, call, verdict, todo, fetched, weighed, edits, faults, crashes>>
-----------------------------------------------------------------------------
Check(c) == FetchPolicies(c) \/ InsertUsage(c) \/ CountWindow(c)

Next ==
  \/ \E c \in Call : Check(c)
  \/ \E p \in Policy : Edit(p)
  \/ Crash \/ Clock

Spec == Init /\ [][Next]_vars
-----------------------------------------------------------------------------
(* Properties.                                                             *)

Within(r) == {w \in weighed : w.rule = r /\ ~w.breached}

(* However checks race each other, edits, faults and crashes: calls that a *)
(* policy let pass, all of them inside its window when each was counted,   *)
(* are no more than its max (the row before the count, and the count of    *)
(* every row of the scope, in SqliteHotlEnforcer::check).                  *)
Together(S, r) == \A a, b \in S : stamp[a.call] >= b.at - r.window

WindowKept ==
  \A r \in Rule : \A S \in SUBSET Within(r) :
    Together(S, r) => Cardinality({w.call : w \in S}) <= r.max

(* The order of the policies and what happens between two counts do not    *)
(* soften the verdict: an allowed call was within every policy it was      *)
(* checked against, an escalated one breached none that denies.            *)
StrictestWins ==
  \A c \in Call : call[c] = "answered" =>
    /\ verdict[c] = "allow" => \A r \in fetched[c] : \E w \in Within(r) : w.call = c
    /\ verdict[c] # "deny" => \A w \in weighed : w.call = c /\ w.breached => w.rule.escalates

(* hotl_bridge.rs:235 "SUM amount WHERE occurred_at >= now() - INTERVAL    *)
(* '? seconds'": a policy that is found breached has more than max calls   *)
(* in the window_seconds before.                                           *)
WindowRolls ==
  \A w \in weighed : w.breached =>
    Cardinality({d \in Call : stamp[d] # NoStamp /\ stamp[d] >= w.at - w.rule.window}) > w.rule.max
=============================================================================
