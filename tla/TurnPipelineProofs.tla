------------------------- MODULE TurnPipelineProofs -------------------------
(***************************************************************************)
(* The safety of TurnPipeline for any number of turns, any window and any  *)
(* number of calls, notes, deletions, faults and crashes.                  *)
(*                                                                         *)
(* That a turn stores only its own messages does not follow from the lock: *)
(* the loop controller writes without it.  It follows from the shape of    *)
(* the conversation.  Whatever the window drops, every message that no     *)
(* user message follows or is, is the turn's own (OwnTail): the prompt is  *)
(* the last message when the turn is launched, the turn appends nothing    *)
(* but its own messages, and the window keeps a suffix.                    *)
(***************************************************************************)
EXTENDS TurnPipeline, FiniteSetTheorems, TLAPS

-----------------------------------------------------------------------------
(* Lemmas about sequences of messages *)

LEMMA MessageTypes ==
  ASSUME NEW t \in Turn \cup {Loop}, NEW k \in Nat, NEW b \in BOOLEAN
  PROVE  /\ User(t) \in Message
         /\ Text(t, b) \in Message
         /\ Calls(t, k, b) \in Message
         /\ Result(t, k) \in Message
  BY ConstantsAssumption DEF User, Text, Calls, Result, Message

(* The sets of the elements above one of T are well founded by inclusion;  *)
(* the smallest is that of the greatest element.                           *)
LEMMA GreatestExists ==
  ASSUME NEW n \in Nat, NEW T \in SUBSET (1..n), T # {}
  PROVE  \E x \in T : \A y \in T : x >= y
<1> DEFINE Above(x) == {y \in T : y >= x}
           C == {Above(x) : x \in T}
<1>1. IsWellFoundedOn(StrictSubsetOrdering(1..n), SUBSET (1..n))
  <2>1. IsFiniteSet(1..n)
    BY FS_Interval
  <2>2. FiniteSubsetsOf(1..n) = SUBSET (1..n)
    BY <2>1, FS_FiniteSubsetsOfFinite
  <2> QED BY <2>2, FS_StrictSubsetOrderingWellFounded
<1>2. C \subseteq SUBSET (1..n) /\ C # {}
  OBVIOUS
<1> HIDE DEF C
<1>3. PICK A \in C : \A B \in C : ~(<<B, A>> \in StrictSubsetOrdering(1..n))
  BY <1>1, <1>2, WFMin
<1>4. PICK x \in T : A = Above(x)
  BY DEF C
<1>5. ASSUME NEW y \in T, ~(x >= y) PROVE FALSE
  <2>1. Above(y) \in C /\ Above(y) \in SUBSET (1..n) /\ A \in SUBSET (1..n)
    BY <1>2 DEF C
  <2>2. Above(y) \subseteq A
    <3>1. x \in Int /\ y \in Int /\ T \subseteq Int
      OBVIOUS
    <3>2. \A z \in T : z >= y => z >= x
      BY <3>1, <1>5
    <3> QED BY <1>4, <3>2
  <2>3. x \in A /\ x \notin Above(y)
    BY <1>4, <1>5
  <2>4. <<Above(y), A>> \in StrictSubsetOrdering(1..n)
    BY <2>1, <2>2, <2>3 DEF StrictSubsetOrdering
  <2> QED BY <1>3, <2>1, <2>4
<1> QED BY <1>5

LEMMA LeastExists ==
  ASSUME NEW n \in Nat, NEW T \in SUBSET (1..n), T # {}
  PROVE  \E x \in T : \A y \in T : x <= y
<1> DEFINE U == {n + 1 - x : x \in T}
<1>1. U \in SUBSET (1..n) /\ U # {}
  <2>1. \A x \in T : n + 1 - x \in 1..n
    OBVIOUS
  <2> QED BY <2>1
<1>2. PICK u \in U : \A y \in U : u >= y
  BY <1>1, GreatestExists
<1>3. PICK x \in T : u = n + 1 - x
  OBVIOUS
<1>4. \A y \in T : u >= n + 1 - y
  BY <1>2
<1> QED BY <1>3, <1>4

LEMMA MinIsLeast ==
  ASSUME NEW n \in Nat, NEW T \in SUBSET (1..n), T # {}
  PROVE  Min(T) \in T
BY LeastExists DEF Min

LEMMA MaxIsGreatest ==
  ASSUME NEW n \in Nat, NEW T \in SUBSET (1..n), T # {}
  PROVE  Max(T) \in T /\ \A y \in T : Max(T) >= y
BY GreatestExists DEF Max

LEMMA FirstIndex ==
  ASSUME NEW s \in Seq(Message)
  PROVE  LET first == SelectInSeq(s, LAMBDA m : m.role # "result")
         IN  first \in 0..Len(s) /\ (first # 0 => s[first].role # "result")
<1> DEFINE I == {i \in 1..Len(s) : s[i].role # "result"}
           first == SelectInSeq(s, LAMBDA m : m.role # "result")
<1>1. first = IF I # {} THEN Min(I) ELSE 0
  BY DEF SelectInSeq
<1>2. Len(s) \in Nat /\ I \in SUBSET (1..Len(s))
  OBVIOUS
<1>3. first # 0 => first \in I
  <2> HIDE DEF I, first
  <2> QED BY <1>1, <1>2, MinIsLeast
<1> HIDE DEF first
<1> QED BY <1>2, <1>3 DEF first

LEMMA LastUser ==
  ASSUME NEW s \in Seq(Message)
  PROVE  /\ Inbound(s) \in 0..Len(s)
         /\ \A i \in (Inbound(s) + 1)..Len(s) : s[i].role # "user"
<1> DEFINE I == {i \in 1..Len(s) : s[i].role = "user"}
<1>1. Inbound(s) = IF I # {} THEN Max(I) ELSE 0
  BY DEF Inbound, SelectLastInSeq
<1>2. Len(s) \in Nat /\ I \in SUBSET (1..Len(s))
  OBVIOUS
<1>3. CASE I = {}
  BY <1>1, <1>2, <1>3
<1>4. CASE I # {}
  <2>1. Max(I) \in I /\ \A y \in I : Max(I) >= y
    <3> HIDE DEF I
    <3> QED BY <1>2, <1>4, MaxIsGreatest
  <2>2. Inbound(s) = Max(I)
    BY <1>1, <1>4
  <2>3. Inbound(s) \in 1..Len(s)
    BY <1>2, <2>1, <2>2
  <2>4. ASSUME NEW i \in (Inbound(s) + 1)..Len(s), s[i].role = "user" PROVE FALSE
    <3>1. i \in 1..Len(s) /\ ~(Inbound(s) >= i)
      BY <2>3
    <3>2. i \in I
      BY <2>4, <3>1
    <3> QED BY <2>1, <2>2, <3>1, <3>2
  <2> QED BY <2>3, <2>4
<1> QED BY <1>3, <1>4

LEMMA InboundIsUser ==
  ASSUME NEW s \in Seq(Message), Inbound(s) # 0
  PROVE  s[Inbound(s)].role = "user"
<1> DEFINE I == {i \in 1..Len(s) : s[i].role = "user"}
<1>1. Inbound(s) = IF I # {} THEN Max(I) ELSE 0
  BY DEF Inbound, SelectLastInSeq
<1>2. Len(s) \in Nat /\ I \in SUBSET (1..Len(s))
  OBVIOUS
<1>3. Inbound(s) \in I
  <2> HIDE DEF I
  <2> QED BY <1>1, <1>2, MaxIsGreatest
<1> QED BY <1>3

LEMMA ReplyIndex ==
  ASSUME NEW s \in Seq(Message)
  PROVE  Reply(s) \in 0..Len(s)
<1> DEFINE I == {i \in 1..Len(s) : s[i].role \in {"text", "calls"} /\ s[i].said}
<1>1. Reply(s) = IF I # {} THEN Max(I) ELSE 0
  BY DEF Reply, SelectLastInSeq
<1>2. Len(s) \in Nat /\ I \in SUBSET (1..Len(s))
  OBVIOUS
<1> HIDE DEF I
<1>3. CASE I = {}
  BY <1>1, <1>2, <1>3
<1>4. CASE I # {}
  <2>1. Max(I) \in I
    BY <1>2, <1>4, MaxIsGreatest
  <2>2. \A x \in I : x \in 0..Len(s)
    BY <1>2
  <2>3. Max(I) \in 0..Len(s)
    BY <2>1, <2>2
  <2> QED BY <1>1, <1>4, <2>3
<1> QED BY <1>3, <1>4

LEMMA SuffixOf ==
  ASSUME NEW s \in Seq(Message), NEW a \in 1..(Len(s) + 1)
  PROVE  /\ SubSeq(s, a, Len(s)) \in Seq(Message)
         /\ Len(SubSeq(s, a, Len(s))) = Len(s) - a + 1
         /\ \A i \in 1..(Len(s) - a + 1) : SubSeq(s, a, Len(s))[i] = s[i + (a - 1)]
OBVIOUS

(* The window keeps a suffix of the conversation, and one it cut does not  *)
(* begin with a result.                                                    *)
LEMMA SlideKeepsSuffix ==
  ASSUME NEW s \in Seq(Message)
  PROVE  \E k \in 0..Len(s) :
           /\ Len(Slide(s)) = Len(s) - k
           /\ \A i \in 1..(Len(s) - k) : Slide(s)[i] = s[i + k]
           /\ Slide(s) \in Seq(Message)
           /\ k > 0 /\ k < Len(s) => Slide(s)[1].role # "result"
<1> DEFINE tail  == SubSeq(s, Len(s) - HistoryWindow + 1, Len(s))
           first == SelectInSeq(tail, LAMBDA m : m.role # "result")
<1>1. CASE Len(s) <= HistoryWindow
  <2>1. Slide(s) = s
    BY <1>1 DEF Slide
  <2> QED BY <2>1
<1>2. CASE ~(Len(s) <= HistoryWindow)
  <2>1. HistoryWindow \in Nat /\ HistoryWindow > 0
    BY ConstantsAssumption
  <2>2. /\ tail \in Seq(Message)
        /\ Len(tail) = HistoryWindow
        /\ \A i \in 1..HistoryWindow : tail[i] = s[i + (Len(s) - HistoryWindow)]
    BY <1>2, <2>1
  <2>3. first \in 0..HistoryWindow /\ (first # 0 => tail[first].role # "result")
    BY <2>2, FirstIndex
  <2>4. CASE first = 0
    <3>1. Slide(s) = <<>>
      BY <1>2, <2>4 DEF Slide
    <3> QED BY <3>1
  <2>5. CASE first # 0
    <3>1. Slide(s) = SubSeq(tail, first, HistoryWindow)
      BY <1>2, <2>2, <2>5 DEF Slide
    <3> HIDE DEF tail, first
    <3>2. first \in 1..HistoryWindow
      BY <2>3, <2>5
    <3>3. /\ Slide(s) \in Seq(Message)
          /\ Len(Slide(s)) = HistoryWindow - first + 1
          /\ \A i \in 1..(HistoryWindow - first + 1) : Slide(s)[i] = tail[i + (first - 1)]
      BY <2>1, <2>2, <3>1, <3>2, SuffixOf
    <3> DEFINE k == Len(s) - (HistoryWindow - first + 1)
    <3>4. k \in 0..Len(s) /\ Len(s) - k = HistoryWindow - first + 1
      BY <1>2, <2>1, <3>2
    <3>5. ASSUME NEW i \in 1..(Len(s) - k) PROVE Slide(s)[i] = s[i + k]
      <4>1. i + (first - 1) \in 1..HistoryWindow
        BY <3>2, <3>4, <2>1
      <4>2. (i + (first - 1)) + (Len(s) - HistoryWindow) = i + k
        BY <3>2, <3>4, <2>1, <4>1
      <4> QED BY <2>2, <3>3, <3>4, <4>1, <4>2
    <3>6. Slide(s)[1].role # "result"
      <4>1. 1 \in 1..(HistoryWindow - first + 1) /\ 1 + (first - 1) = first
        BY <2>1, <3>2
      <4> QED BY <2>3, <2>5, <3>3, <4>1
    <3> QED BY <3>3, <3>4, <3>5, <3>6
  <2> QED BY <2>4, <2>5
<1> QED BY <1>1, <1>2
-----------------------------------------------------------------------------
(* The inductive invariant *)

(* The parts of TypeOK, to be established one by one; that of the fan-outs *)
(* is with the invariant about them, below.                                *)
RowsOK == /\ transcript \in Seq(Message)
          /\ msgs \in [Turn -> Seq(Message)]
          /\ output \in [Turn -> Seq(Message)]
          /\ kept \in [Turn -> Nat]
RunsOK == /\ pc \in [Turn -> {"idle"} \cup Asking \cup Running \cup Closing \cup Over]
          /\ kind \in [Turn -> {"operator", "tick", "team"}]
          /\ lock \in Turn \cup {NoTurn}
          /\ cancelled \subseteq Turn
EndsOK == /\ claim \in [Turn -> Int]
          /\ iter \in [Turn -> 0..MaxIterations]
          /\ ending \in [Turn -> Endings]
StreamOK == /\ client \in [Turn -> {"absent", "reading", "gone"}]
            /\ queue \in [Turn -> 0..EventBuffer]
WorldOK == /\ unstored \subseteq Turn
           /\ tampered \subseteq Turn \cup {Loop}
           /\ {notes, deletes, faults, crashes} \subseteq Nat
Typed == RowsOK /\ RunsOK /\ EndsOK /\ StreamOK /\ WorldOK

(* Every message of s that is not followed by a user message, nor is one,  *)
(* is the turn's own.                                                      *)
OwnTail(s, t) ==
  \A i \in 1..Len(s) :
    (\A j \in i..Len(s) : s[j].role # "user") => s[i].by = t

OwnTails == \A t \in Turn : OwnTail(msgs[t], t)

(* How far a turn is agrees with its counters. *)
Progress ==
  \A t \in Turn :
    /\ pc[t] \in {"calling", "tools"} => iter[t] < MaxIterations
    /\ pc[t] = "tools" => msgs[t] # <<>>
    /\ kept[t] <= Len(output[t])
    /\ pc[t] \notin Closing \cup Over => kept[t] = 0
    /\ pc[t] = "team" => kind[t] = "team"

(* The output being stored is that of the conversation the audit entry     *)
(* will count, and once the entry is written nothing more is stored.       *)
Counted ==
  \A t \in Turn :
    /\ pc[t] = "persist" /\ kind[t] # "team" /\ ending[t] # "error"
         => output[t] = ToPersist(msgs[t])
    /\ claim[t] # -1 => pc[t] \in {"audited"} \cup Over

IInv == /\ Typed /\ LockCoversTurn /\ Progress
        /\ OwnTails /\ OutputIsOwn
        /\ Counted /\ AuditCounts

LEMMA OwnEmpty ==
  ASSUME NEW t
  PROVE  OwnTail(<<>>, t)
BY DEF OwnTail

LEMMA OwnSlide ==
  ASSUME NEW t, NEW s \in Seq(Message), OwnTail(s, t)
  PROVE  OwnTail(Slide(s), t)
<1>1. PICK k \in 0..Len(s) :
        /\ Len(Slide(s)) = Len(s) - k
        /\ \A i \in 1..(Len(s) - k) : Slide(s)[i] = s[i + k]
        /\ Slide(s) \in Seq(Message)
  BY SlideKeepsSuffix
<1>2. SUFFICES ASSUME NEW i \in 1..(Len(s) - k),
                      \A j \in i..(Len(s) - k) : Slide(s)[j].role # "user"
               PROVE  Slide(s)[i].by = t
  BY <1>1 DEF OwnTail
<1>3. i + k \in 1..Len(s)
  BY <1>2
<1>4. ASSUME NEW j \in (i + k)..Len(s) PROVE s[j].role # "user"
  <2>1. j - k \in i..(Len(s) - k) /\ j - k \in 1..(Len(s) - k) /\ (j - k) + k = j
    BY <1>2, <1>4
  <2> QED BY <1>1, <1>2, <2>1
<1>5. s[i + k].by = t
  BY <1>3, <1>4 DEF OwnTail
<1> QED BY <1>1, <1>2, <1>5

LEMMA OwnConcat ==
  ASSUME NEW t, NEW s \in Seq(Message), NEW r \in Seq(Message),
         OwnTail(s, t), \A i \in 1..Len(r) : r[i].by = t
  PROVE  OwnTail(s \o r, t)
<1>1. /\ Len(s) \in Nat /\ Len(r) \in Nat
      /\ Len(s \o r) = Len(s) + Len(r)
      /\ \A i \in 1..Len(s) : (s \o r)[i] = s[i]
      /\ \A i \in (Len(s) + 1)..(Len(s) + Len(r)) : (s \o r)[i] = r[i - Len(s)]
  OBVIOUS
<1>2. SUFFICES ASSUME NEW i \in 1..(Len(s) + Len(r)),
                      \A j \in i..(Len(s) + Len(r)) : (s \o r)[j].role # "user"
               PROVE  (s \o r)[i].by = t
  BY <1>1 DEF OwnTail
<1>3. CASE i <= Len(s)
  <2>1. \A j \in i..Len(s) : s[j].role # "user"
    BY <1>1, <1>2, <1>3
  <2>2. i \in 1..Len(s)
    BY <1>1, <1>3
  <2>3. s[i].by = t
    BY <2>1, <2>2 DEF OwnTail
  <2> QED BY <1>1, <2>2, <2>3
<1>4. CASE ~(i <= Len(s))
  <2>1. i - Len(s) \in 1..Len(r) /\ i \in (Len(s) + 1)..(Len(s) + Len(r))
    BY <1>1, <1>4
  <2> QED BY <1>1, <2>1
<1> QED BY <1>3, <1>4

LEMMA OwnAppend ==
  ASSUME NEW t, NEW s \in Seq(Message), NEW m \in Message, OwnTail(s, t), m.by = t
  PROVE  OwnTail(Append(s, m), t)
<1>1. /\ Append(s, m) = s \o <<m>> /\ <<m>> \in Seq(Message)
      /\ \A i \in 1..Len(<<m>>) : <<m>>[i].by = t
  OBVIOUS
<1> QED BY <1>1, OwnConcat

(* A history that ends in a prompt claims nothing. *)
LEMMA OwnPrompt ==
  ASSUME NEW t, NEW s \in Seq(Message), NEW m \in Message, m.role = "user"
  PROVE  OwnTail(Append(s, m), t)
<1>1. Len(Append(s, m)) = Len(s) + 1 /\ Append(s, m)[Len(s) + 1] = m /\ Len(s) \in Nat
  OBVIOUS
<1>2. \A i \in 1..(Len(s) + 1) : Len(s) + 1 \in i..(Len(s) + 1)
  BY <1>1
<1> QED BY <1>1, <1>2 DEF OwnTail

(* What is stored of an own tail is a sequence of the turn's messages. *)
LEMMA OwnOutput ==
  ASSUME NEW t \in Turn, NEW s \in Seq(Message), OwnTail(s, t)
  PROVE  /\ ToPersist(s) \in Seq(Message)
         /\ \A i \in DOMAIN ToPersist(s) : ToPersist(s)[i].by = t
<1>1. /\ Inbound(s) \in 0..Len(s)
      /\ \A i \in (Inbound(s) + 1)..Len(s) : s[i].role # "user"
  BY LastUser
<1>2. ASSUME NEW i \in (Inbound(s) + 1)..Len(s) PROVE s[i].by = t
  <2>1. \A j \in i..Len(s) : s[j].role # "user"
    BY <1>1, <1>2
  <2>2. i \in 1..Len(s)
    BY <1>1, <1>2
  <2> QED BY <2>1, <2>2 DEF OwnTail
<1>3. CASE Inbound(s) # 0
  <2> DEFINE a == Inbound(s) + 1
  <2>1. a \in 1..(Len(s) + 1)
    BY <1>1
  <2>2. ToPersist(s) = SubSeq(s, a, Len(s))
    BY <1>3 DEF ToPersist
  <2>3. /\ ToPersist(s) \in Seq(Message)
        /\ Len(ToPersist(s)) = Len(s) - a + 1
        /\ \A i \in 1..(Len(s) - a + 1) : ToPersist(s)[i] = s[i + (a - 1)]
    BY <2>1, <2>2, SuffixOf
  <2>4. ASSUME NEW i \in 1..(Len(s) - a + 1) PROVE ToPersist(s)[i].by = t
    <3>1. i + (a - 1) \in (Inbound(s) + 1)..Len(s)
      BY <1>1, <2>1, <2>4
    <3> QED BY <1>2, <2>3, <3>1
  <2>5. DOMAIN ToPersist(s) = 1..(Len(s) - a + 1)
    BY <2>3
  <2> QED BY <2>3, <2>4, <2>5
<1>4. CASE Inbound(s) = 0 /\ Reply(s) # 0
  <2>1. Reply(s) \in (Inbound(s) + 1)..Len(s)
    BY <1>1, <1>4, ReplyIndex
  <2>2. s[Reply(s)].by = t
    BY <1>2, <2>1
  <2>3. ToPersist(s) = <<Text(t, TRUE)>>
    BY <1>4, <2>2 DEF ToPersist
  <2>4. Text(t, TRUE) \in Message /\ Text(t, TRUE).by = t
    BY MessageTypes DEF Text
  <2>5. ASSUME NEW m \in Message, m.by = t
        PROVE  /\ <<m>> \in Seq(Message)
               /\ \A i \in DOMAIN <<m>> : <<m>>[i].by = t
    BY <2>5
  <2> QED BY <2>3, <2>4, <2>5
<1>5. CASE Inbound(s) = 0 /\ Reply(s) = 0
  <2>1. ToPersist(s) = <<>>
    BY <1>5 DEF ToPersist
  <2> QED BY <2>1
<1> QED BY <1>3, <1>4, <1>5

-----------------------------------------------------------------------------
(* Every action keeps the invariant *)

LEMMA Bounds ==
  /\ EventBuffer \in Nat /\ EventBuffer > 0
  /\ MaxIterations \in Nat
  /\ MaxCalls \in Nat
  /\ NoTurn \notin Turn
  /\ Kinds \subseteq {"operator", "tick", "team"}
BY ConstantsAssumption

LEMMA Initially == Init => IInv
<1> SUFFICES ASSUME Init PROVE IInv
  OBVIOUS
<1>1. Typed
  <2>1. RowsOK
    BY DEF Init, RowsOK
  <2>2. RunsOK
    BY Bounds DEF Init, RunsOK
  <2>3. EndsOK
    BY Bounds DEF Init, EndsOK, Endings
  <2>4. StreamOK
    BY Bounds DEF Init, StreamOK
  <2>5. WorldOK
    BY DEF Init, WorldOK
  <2> QED BY <2>1, <2>2, <2>3, <2>4, <2>5 DEF Typed
<1>2. LockCoversTurn
  BY Bounds DEF Init, LockCoversTurn, UnderLock, Running, Closing
<1>3. Progress
  BY DEF Init, Progress
<1>4. OwnTails
  BY OwnEmpty DEF Init, OwnTails
<1>5. OutputIsOwn
  BY DEF Init, OutputIsOwn
<1>9. Counted /\ AuditCounts
  BY DEF Init, Counted, AuditCounts
<1> QED BY <1>1, <1>2, <1>3, <1>4, <1>5, <1>9 DEF IInv

(* What the audit entry counts of a conversation, against what is stored.  *)
LEMMA CountedByAudit ==
  ASSUME NEW s \in Seq(Message)
  PROVE  \/ Produced(s) = Len(ToPersist(s))
         \/ Produced(s) = 0 /\ Len(ToPersist(s)) = 1
<1>1. Inbound(s) \in 0..Len(s)
  BY LastUser
<1>2. CASE Inbound(s) # 0
  <2>1. Inbound(s) + 1 \in 1..(Len(s) + 1)
    BY <1>1
  <2>2. Len(SubSeq(s, Inbound(s) + 1, Len(s))) = Len(s) - (Inbound(s) + 1) + 1
    BY <2>1, SuffixOf
  <2> QED BY <1>1, <1>2, <2>2 DEF Produced, ToPersist
<1>3. CASE Inbound(s) = 0 /\ Reply(s) # 0
  <2>1. Len(<<Text(s[Reply(s)].by, TRUE)>>) = 1
    OBVIOUS
  <2> QED BY <1>3, <2>1 DEF Produced, ToPersist
<1>4. CASE Inbound(s) = 0 /\ Reply(s) = 0
  <2>1. Len(<<>>) = 0
    OBVIOUS
  <2> QED BY <1>4, <2>1 DEF Produced, ToPersist
<1> QED BY <1>2, <1>3, <1>4

LEMMA EmitKeeps ==
  ASSUME StreamOK, NEW t \in Turn, Emit(t)
  PROVE  StreamOK'
BY Bounds DEF StreamOK, Emit, CanEmit

(* What a run leaves when it ends is the turn's own. *)
LEMMA FinishKeeps ==
  ASSUME IInv, NEW t \in Turn, NEW s \in Seq(Message), OwnTail(s, t),
         NEW how \in Endings, pc[t] \in Running, Finish(t, how, s), Emit(t),
         UNCHANGED <<transcript, claim, lock, cancelled, kind, kept, unstored, world>>
  PROVE  IInv'
<1>0. /\ Typed /\ LockCoversTurn /\ Progress /\ OwnTails /\ OutputIsOwn
      /\ Counted /\ AuditCounts
  BY DEF IInv
<1>00. RowsOK /\ RunsOK /\ EndsOK /\ StreamOK /\ WorldOK
  BY <1>0 DEF Typed
<1>6. /\ ToPersist(s) \in Seq(Message)
      /\ \A i \in DOMAIN ToPersist(s) : ToPersist(s)[i].by = t
  BY OwnOutput
<1> USE DEF Finish, Goto
<1>1. Typed'
  <2>1. RowsOK'
    BY <1>00, <1>6 DEF RowsOK
  <2>2. RunsOK'
    BY <1>00 DEF RunsOK, Closing
  <2>3. EndsOK'
    BY <1>00 DEF EndsOK
  <2>4. StreamOK'
    BY <1>00, EmitKeeps
  <2>5. WorldOK'
    BY <1>00 DEF WorldOK, world
  <2> QED BY <2>1, <2>2, <2>3, <2>4, <2>5 DEF Typed
<1>2. LockCoversTurn'
  BY <1>0, <1>00 DEF RunsOK, LockCoversTurn, UnderLock, Running, Closing
<1>3. Progress'
  <2>1. kept[t] = 0
    BY <1>0 DEF Progress, Running, Closing, Over
  <2>2. Len(ToPersist(s)) >= 0
    BY <1>6
  <2> QED BY <1>0, <1>00, <2>1, <2>2 DEF RowsOK, RunsOK, Progress, Closing, Over
<1>4. OwnTails'
  BY <1>0, <1>00 DEF RowsOK, OwnTails
<1>5. OutputIsOwn'
  BY <1>0, <1>00, <1>6 DEF RowsOK, OutputIsOwn
<1>9. Counted'
  BY <1>0, <1>00 DEF RowsOK, RunsOK, EndsOK, Counted, Running, Over
<1>10. AuditCounts'
  BY <1>0, <1>00 DEF EndsOK, AuditCounts
<1> QED BY <1>1, <1>2, <1>3, <1>4, <1>5, <1>9, <1>10 DEF IInv

LEMMA CheckSessionKeeps ==
  ASSUME IInv, NEW t \in Turn, CheckSession(t)
  PROVE  IInv'
<1> USE DEF CheckSession, At, Goto, agent, stream, world
<1>0. /\ Typed /\ LockCoversTurn /\ Progress /\ OwnTails /\ OutputIsOwn
      /\ Counted /\ AuditCounts
  BY DEF IInv
<1>00. RowsOK /\ RunsOK /\ EndsOK /\ StreamOK /\ WorldOK
  BY <1>0 DEF Typed
<1>1. Typed'
  <2>1. RowsOK'
    BY <1>00 DEF RowsOK
  <2>2. RunsOK'
    BY <1>00 DEF RunsOK, Asking, Running, Closing, Over
  <2>3. EndsOK'
    BY <1>00, Bounds DEF EndsOK, Endings
  <2>4. StreamOK'
    BY <1>00, Bounds DEF StreamOK
  <2>5. WorldOK'
    BY <1>00 DEF WorldOK
  <2> QED BY <2>1, <2>2, <2>3, <2>4, <2>5 DEF Typed
<1>2. LockCoversTurn'
  BY <1>0, <1>00, Bounds DEF RunsOK, LockCoversTurn, UnderLock, Running, Closing
<1>3. Progress'
  BY <1>0, <1>00 DEF RunsOK, RowsOK, EndsOK, Progress, Running, Closing, Over
<1>4. OwnTails'
  BY <1>0, <1>00 DEF RowsOK, OwnTails
<1>5. OutputIsOwn'
  BY <1>0, <1>00 DEF RowsOK, OutputIsOwn
<1>9. Counted'
  BY <1>0, <1>00 DEF RowsOK, RunsOK, EndsOK, Counted, Asking, Running, Over
<1>10. AuditCounts'
  BY <1>0, <1>00 DEF RowsOK, RunsOK, EndsOK, WorldOK, Counted, AuditCounts, Asking, Running,
     Over
<1> QED BY <1>1, <1>2, <1>3, <1>4, <1>5, <1>9, <1>10 DEF IInv

LEMMA BeginTurnKeeps ==
  ASSUME IInv, NEW t \in Turn, BeginTurn(t)
  PROVE  IInv'
<1> USE DEF BeginTurn, LockFree, At, Goto, agent, stream, world
<1>0. /\ Typed /\ LockCoversTurn /\ Progress /\ OwnTails /\ OutputIsOwn
      /\ Counted /\ AuditCounts
  BY DEF IInv
<1>00. RowsOK /\ RunsOK /\ EndsOK /\ StreamOK /\ WorldOK
  BY <1>0 DEF Typed
<1>1. Typed'
  <2>1. RowsOK'
    BY <1>00 DEF RowsOK
  <2>2. RunsOK'
    BY <1>00 DEF RunsOK, Asking, Running, Closing, Over
  <2>3. EndsOK'
    BY <1>00, Bounds DEF EndsOK, Endings
  <2>4. StreamOK'
    BY <1>00, Bounds DEF StreamOK
  <2>5. WorldOK'
    BY <1>00 DEF WorldOK
  <2> QED BY <2>1, <2>2, <2>3, <2>4, <2>5 DEF Typed
<1>2. LockCoversTurn'
  <2> USE <1>0, <1>00, Bounds DEF RunsOK, LockCoversTurn, UnderLock, Running, Closing
  <2>1. pc[t] = "checked" /\ lock # t
    OBVIOUS
  <2>2. CASE LockFree /\ lock' = t /\ Goto(t, "locked")
    <3>1. \A u \in Turn : u # t => pc'[u] = pc[u] /\ pc[u] \notin UnderLock
      BY <2>2
    <3>2. pc'[t] = "locked"
      BY <2>2
    <3> QED BY <2>2, <3>1, <3>2
  <2>3. CASE ~LockFree /\ Goto(t, "refused") /\ UNCHANGED lock
    <3>1. \A u \in Turn : u # t => pc'[u] = pc[u]
      BY <2>3
    <3>2. pc'[t] = "refused"
      BY <2>3
    <3> QED BY <2>1, <2>3, <3>1, <3>2
  <2> QED BY <2>2, <2>3
<1>3. Progress'
  BY <1>0, <1>00 DEF RunsOK, RowsOK, EndsOK, Progress, Running, Closing, Over
<1>4. OwnTails'
  BY <1>0, <1>00 DEF RowsOK, OwnTails
<1>5. OutputIsOwn'
  BY <1>0, <1>00 DEF RowsOK, OutputIsOwn
<1>9. Counted'
  BY <1>0, <1>00 DEF RowsOK, RunsOK, EndsOK, Counted, Asking, Running, Over
<1>10. AuditCounts'
  BY <1>0, <1>00 DEF RowsOK, RunsOK, EndsOK, WorldOK, Counted, AuditCounts, Asking, Running,
     Over
<1> QED BY <1>1, <1>2, <1>3, <1>4, <1>5, <1>9, <1>10 DEF IInv

LEMMA PersistUserKeeps ==
  ASSUME IInv, NEW t \in Turn, PersistUser(t)
  PROVE  IInv'
<1> USE DEF PersistUser, At, Goto, agent, stream, world
<1>0. /\ Typed /\ LockCoversTurn /\ Progress /\ OwnTails /\ OutputIsOwn
      /\ Counted /\ AuditCounts
  BY DEF IInv
<1>00. RowsOK /\ RunsOK /\ EndsOK /\ StreamOK /\ WorldOK
  BY <1>0 DEF Typed
<1>6. User(t) \in Message
  BY MessageTypes
<1>1. Typed'
  <2>1. RowsOK'
    BY <1>00, <1>6 DEF RowsOK
  <2>2. RunsOK'
    BY <1>00 DEF RunsOK, Asking, Running, Closing, Over
  <2>3. EndsOK'
    BY <1>00, Bounds DEF EndsOK, Endings
  <2>4. StreamOK'
    BY <1>00, Bounds DEF StreamOK
  <2>5. WorldOK'
    BY <1>00 DEF WorldOK
  <2> QED BY <2>1, <2>2, <2>3, <2>4, <2>5 DEF Typed
<1>2. LockCoversTurn'
  BY <1>0, <1>00, Bounds DEF RunsOK, LockCoversTurn, UnderLock, Running, Closing
<1>3. Progress'
  BY <1>0, <1>00 DEF RunsOK, RowsOK, EndsOK, Progress, Running, Closing, Over
<1>4. OwnTails'
  BY <1>0, <1>00 DEF RowsOK, OwnTails
<1>5. OutputIsOwn'
  BY <1>0, <1>00 DEF RowsOK, OutputIsOwn
<1>9. Counted'
  BY <1>0, <1>00 DEF RowsOK, RunsOK, EndsOK, Counted, Asking, Running, Over
<1>10. AuditCounts'
  BY <1>0, <1>00 DEF RowsOK, RunsOK, EndsOK, WorldOK, Counted, AuditCounts, Asking, Running,
     Over
<1> QED BY <1>1, <1>2, <1>3, <1>4, <1>5, <1>9, <1>10 DEF IInv

LEMMA LoadHistoryKeeps ==
  ASSUME IInv, NEW t \in Turn, LoadHistory(t)
  PROVE  IInv'
<1> USE DEF LoadHistory, At, Goto, agent, stream, world
<1>0. /\ Typed /\ LockCoversTurn /\ Progress /\ OwnTails /\ OutputIsOwn
      /\ Counted /\ AuditCounts
  BY DEF IInv
<1>00. RowsOK /\ RunsOK /\ EndsOK /\ StreamOK /\ WorldOK
  BY <1>0 DEF Typed
<1>6. User(t) \in Message /\ User(t).role = "user"
  BY MessageTypes DEF User
<1>7. OwnTail(Append(transcript, User(t)), t)
  BY <1>0, <1>6, OwnPrompt DEF Typed, RowsOK, RunsOK, EndsOK, WorldOK
<1>1. Typed'
  <2>1. RowsOK'
    BY <1>00, <1>6 DEF RowsOK
  <2>2. RunsOK'
    BY <1>00 DEF RunsOK, Asking, Running, Closing, Over
  <2>3. EndsOK'
    BY <1>00, Bounds DEF EndsOK, Endings
  <2>4. StreamOK'
    BY <1>00, Bounds DEF StreamOK
  <2>5. WorldOK'
    BY <1>00 DEF WorldOK
  <2> QED BY <2>1, <2>2, <2>3, <2>4, <2>5 DEF Typed
<1>2. LockCoversTurn'
  BY <1>0, <1>00, Bounds DEF RunsOK, LockCoversTurn, UnderLock, Running, Closing
<1>3. Progress'
  BY <1>0, <1>00 DEF RunsOK, RowsOK, EndsOK, Progress, Running, Closing, Over
<1>4. OwnTails'
  BY <1>0, <1>00, <1>7 DEF RowsOK, OwnTails
<1>5. OutputIsOwn'
  BY <1>0, <1>00 DEF RowsOK, OutputIsOwn
<1>9. Counted'
  BY <1>0, <1>00 DEF RowsOK, RunsOK, EndsOK, Counted, Asking, Running, Over
<1>10. AuditCounts'
  BY <1>0, <1>00 DEF RowsOK, RunsOK, EndsOK, WorldOK, Counted, AuditCounts, Asking, Running,
     Over
<1> QED BY <1>1, <1>2, <1>3, <1>4, <1>5, <1>9, <1>10 DEF IInv

LEMMA GiveUpKeeps ==
  ASSUME IInv, NEW t \in Turn, GiveUp(t)
  PROVE  IInv'
<1> USE DEF GiveUp, Release, At, Goto, agent, stream, world
<1>0. /\ Typed /\ LockCoversTurn /\ Progress /\ OwnTails /\ OutputIsOwn
      /\ Counted /\ AuditCounts
  BY DEF IInv
<1>00. RowsOK /\ RunsOK /\ EndsOK /\ StreamOK /\ WorldOK
  BY <1>0 DEF Typed
<1>1. Typed'
  <2>1. RowsOK'
    BY <1>00 DEF RowsOK
  <2>2. RunsOK'
    BY <1>00 DEF RunsOK, Asking, Running, Closing, Over
  <2>3. EndsOK'
    BY <1>00, Bounds DEF EndsOK, Endings
  <2>4. StreamOK'
    BY <1>00, Bounds DEF StreamOK
  <2>5. WorldOK'
    BY <1>00 DEF WorldOK
  <2> QED BY <2>1, <2>2, <2>3, <2>4, <2>5 DEF Typed
<1>2. LockCoversTurn'
  BY <1>0, <1>00, Bounds DEF RunsOK, LockCoversTurn, UnderLock, Running, Closing
<1>3. Progress'
  BY <1>0, <1>00 DEF RunsOK, RowsOK, EndsOK, Progress, Running, Closing, Over
<1>4. OwnTails'
  BY <1>0, <1>00 DEF RowsOK, OwnTails
<1>5. OutputIsOwn'
  BY <1>0, <1>00 DEF RowsOK, OutputIsOwn
<1>9. Counted'
  BY <1>0, <1>00 DEF RowsOK, RunsOK, EndsOK, Counted, Asking, Running, Over
<1>10. AuditCounts'
  BY <1>0, <1>00 DEF RowsOK, RunsOK, EndsOK, WorldOK, Counted, AuditCounts, Asking, Running,
     Over
<1> QED BY <1>1, <1>2, <1>3, <1>4, <1>5, <1>9, <1>10 DEF IInv

LEMMA LaunchKeeps ==
  ASSUME IInv, NEW t \in Turn, Launch(t)
  PROVE  IInv'
<1> USE DEF Launch, At, Goto, agent, stream, world
<1>0. /\ Typed /\ LockCoversTurn /\ Progress /\ OwnTails /\ OutputIsOwn
      /\ Counted /\ AuditCounts
  BY DEF IInv
<1>00. RowsOK /\ RunsOK /\ EndsOK /\ StreamOK /\ WorldOK
  BY <1>0 DEF Typed
<1>1. Typed'
  <2>1. RowsOK'
    BY <1>00 DEF RowsOK
  <2>2. RunsOK'
    BY <1>00 DEF RunsOK, Asking, Running, Closing, Over
  <2>3. EndsOK'
    BY <1>00, Bounds DEF EndsOK, Endings
  <2>4. StreamOK'
    BY <1>00, Bounds DEF StreamOK
  <2>5. WorldOK'
    BY <1>00 DEF WorldOK
  <2> QED BY <2>1, <2>2, <2>3, <2>4, <2>5 DEF Typed
<1>2. LockCoversTurn'
  BY <1>0, <1>00, Bounds DEF RunsOK, LockCoversTurn, UnderLock, Running, Closing
<1>3. Progress'
  BY <1>0, <1>00 DEF RunsOK, RowsOK, EndsOK, Progress, Running, Closing, Over
<1>4. OwnTails'
  BY <1>0, <1>00 DEF RowsOK, OwnTails
<1>5. OutputIsOwn'
  BY <1>0, <1>00 DEF RowsOK, OutputIsOwn
<1>9. Counted'
  BY <1>0, <1>00 DEF RowsOK, RunsOK, EndsOK, Counted, Asking, Running, Over
<1>10. AuditCounts'
  BY <1>0, <1>00 DEF RowsOK, RunsOK, EndsOK, WorldOK, Counted, AuditCounts, Asking, Running,
     Over
<1> QED BY <1>1, <1>2, <1>3, <1>4, <1>5, <1>9, <1>10 DEF IInv

LEMMA LoopTopKeeps ==
  ASSUME IInv, NEW t \in Turn, LoopTop(t)
  PROVE  IInv'
<1>0. /\ Typed /\ LockCoversTurn /\ Progress /\ OwnTails /\ OutputIsOwn
      /\ Counted /\ AuditCounts
  BY DEF IInv
<1>00. RowsOK /\ RunsOK /\ EndsOK /\ StreamOK /\ WorldOK
  BY <1>0 DEF Typed
<1>1. pc[t] = "top" /\ pc[t] \in Running /\ msgs[t] \in Seq(Message) /\ OwnTail(msgs[t], t)
  BY <1>0, <1>00 DEF LoopTop, At, RowsOK, OwnTails, Running
<1>2. CASE \E how \in {"cancelled", "maxed"} : Finish(t, how, msgs[t]) /\ Emit(t)
  BY <1>1, <1>2, FinishKeeps DEF LoopTop, Endings
<1>3. CASE /\ ~OutOfIterations(t)
           /\ msgs' = [msgs EXCEPT ![t] = Slide(@)]
           /\ Goto(t, "calling")
           /\ UNCHANGED <<iter, ending, output, stream>>
  <2>1. Slide(msgs[t]) \in Seq(Message) /\ OwnTail(Slide(msgs[t]), t)
    BY <1>1, SlideKeepsSuffix, OwnSlide
  <2>2. iter[t] < MaxIterations
    BY <1>00, <1>3, Bounds DEF OutOfIterations, EndsOK
  <2> USE <1>0, <1>00, <1>1, <1>3 DEF LoopTop, Goto
  <2>3. Typed'
    <3>1. RowsOK'
      BY <2>1 DEF RowsOK
    <3>2. RunsOK'
      BY DEF RunsOK, Running
    <3>3. EndsOK' /\ StreamOK' /\ WorldOK'
      BY DEF EndsOK, StreamOK, WorldOK, stream, world
    <3> QED BY <3>1, <3>2, <3>3 DEF Typed
  <2>4. LockCoversTurn'
    BY DEF RunsOK, LockCoversTurn, UnderLock, Running, Closing
  <2>5. Progress'
    BY <2>2 DEF RunsOK, RowsOK, Progress, Closing, Over
  <2>6. OwnTails'
    BY <2>1 DEF RowsOK, OwnTails
  <2>7. OutputIsOwn'
    BY DEF OutputIsOwn
  <2>8. Counted' /\ AuditCounts'
    BY DEF RowsOK, RunsOK, EndsOK, Counted, AuditCounts, Over
  <2> QED BY <2>3, <2>4, <2>5, <2>6, <2>7, <2>8 DEF IInv
<1> QED BY <1>2, <1>3 DEF LoopTop

LEMMA ModelRepliesKeeps ==
  ASSUME IInv, NEW t \in Turn, ModelReplies(t)
  PROVE  IInv'
<1>1. pc[t] \in Running /\ msgs[t] \in Seq(Message) /\ OwnTail(msgs[t], t)
  BY DEF ModelReplies, At, IInv, Typed, RowsOK, RunsOK, EndsOK, WorldOK, OwnTails, Running
<1>2. PICK said \in BOOLEAN : Finish(t, "completed", Append(msgs[t], Text(t, said)))
  BY DEF ModelReplies
<1> DEFINE s == Append(msgs[t], Text(t, said))
<1>3. Text(t, said) \in Message /\ Text(t, said).by = t
  BY MessageTypes DEF Text
<1>4. s \in Seq(Message) /\ OwnTail(s, t) /\ Finish(t, "completed", s)
  BY <1>1, <1>2, <1>3, OwnAppend
<1> HIDE DEF s
<1> QED BY <1>1, <1>4, FinishKeeps DEF ModelReplies, Endings

LEMMA ModelCallsKeeps ==
  ASSUME IInv, NEW t \in Turn, ModelCalls(t)
  PROVE  IInv'
<1>0. /\ Typed /\ LockCoversTurn /\ Progress /\ OwnTails /\ OutputIsOwn
      /\ Counted /\ AuditCounts
  BY DEF IInv
<1>00. RowsOK /\ RunsOK /\ EndsOK /\ StreamOK /\ WorldOK
  BY <1>0 DEF Typed
<1>1. /\ pc[t] = "calling" /\ pc[t] \in Running
      /\ msgs[t] \in Seq(Message) /\ OwnTail(msgs[t], t)
  BY <1>0, <1>00 DEF ModelCalls, At, RowsOK, OwnTails, Running
<1>2. PICK k \in 1..MaxCalls, said \in BOOLEAN :
        LET s == Append(msgs[t], Calls(t, k, said))
        IN  \/ Finish(t, "cancelled", s)
            \/ /\ msgs' = [msgs EXCEPT ![t] = s]
               /\ Goto(t, "tools")
               /\ UNCHANGED <<iter, ending, output>>
  BY DEF ModelCalls
<1> DEFINE s == Append(msgs[t], Calls(t, k, said))
<1>3. Calls(t, k, said) \in Message /\ Calls(t, k, said).by = t
  BY MessageTypes, Bounds DEF Calls
<1>4. s \in Seq(Message) /\ OwnTail(s, t) /\ s # <<>>
  <2>1. ASSUME NEW r \in Seq(Message), NEW m \in Message
        PROVE  Append(r, m) \in Seq(Message) /\ Append(r, m) # <<>>
    OBVIOUS
  <2> QED BY <1>1, <1>3, <2>1, OwnAppend
<1>5. CASE Finish(t, "cancelled", s)
  <2> HIDE DEF s
  <2> QED BY <1>1, <1>4, <1>5, FinishKeeps DEF ModelCalls, Endings
<1>6. CASE /\ msgs' = [msgs EXCEPT ![t] = s]
           /\ Goto(t, "tools")
           /\ UNCHANGED <<iter, ending, output>>
  <2> HIDE DEF s
  <2> DEFINE rest == UNCHANGED <<transcript, claim, lock, cancelled, kind, kept, unstored,
                                 world>>
  <2>1. Emit(t) /\ rest
    BY DEF ModelCalls
  <2> USE <1>0, <1>00, <1>1, <1>4, <1>6, <2>1 DEF Goto
  <2>2. Typed'
    <3>1. RowsOK'
      BY DEF RowsOK
    <3>2. RunsOK'
      BY DEF RunsOK, Running
    <3>3. StreamOK'
      BY EmitKeeps
    <3>4. EndsOK' /\ WorldOK'
      BY DEF EndsOK, WorldOK, world
    <3> QED BY <3>1, <3>2, <3>3, <3>4 DEF Typed
  <2>3. LockCoversTurn'
    BY DEF RunsOK, LockCoversTurn, UnderLock, Running, Closing
  <2>4. Progress'
    BY DEF RunsOK, RowsOK, Progress, Closing, Over
  <2>5. OwnTails'
    BY DEF RowsOK, OwnTails
  <2>6. OutputIsOwn'
    BY DEF OutputIsOwn
  <2>7. Counted' /\ AuditCounts'
    BY DEF RowsOK, RunsOK, EndsOK, Counted, AuditCounts, Over
  <2> QED BY <2>2, <2>3, <2>4, <2>5, <2>6, <2>7 DEF IInv
<1> QED BY <1>2, <1>5, <1>6

LEMMA ModelFailsKeeps ==
  ASSUME IInv, NEW t \in Turn, ModelFails(t)
  PROVE  IInv'
<1> USE DEF ModelFails, Emit, CanEmit, At, Goto, agent, stream, world
<1>0. /\ Typed /\ LockCoversTurn /\ Progress /\ OwnTails /\ OutputIsOwn
      /\ Counted /\ AuditCounts
  BY DEF IInv
<1>00. RowsOK /\ RunsOK /\ EndsOK /\ StreamOK /\ WorldOK
  BY <1>0 DEF Typed
<1>1. Typed'
  <2>1. RowsOK'
    BY <1>00 DEF RowsOK
  <2>2. RunsOK'
    BY <1>00 DEF RunsOK, Asking, Running, Closing, Over
  <2>3. EndsOK'
    BY <1>00, Bounds DEF EndsOK, Endings
  <2>4. StreamOK'
    BY <1>00, Bounds DEF StreamOK
  <2>5. WorldOK'
    BY <1>00 DEF WorldOK
  <2> QED BY <2>1, <2>2, <2>3, <2>4, <2>5 DEF Typed
<1>2. LockCoversTurn'
  BY <1>0, <1>00, Bounds DEF RunsOK, LockCoversTurn, UnderLock, Running, Closing
<1>3. Progress'
  BY <1>0, <1>00 DEF RunsOK, RowsOK, EndsOK, Progress, Running, Closing, Over
<1>4. OwnTails'
  BY <1>0, <1>00 DEF RowsOK, OwnTails
<1>5. OutputIsOwn'
  BY <1>0, <1>00 DEF RowsOK, OutputIsOwn
<1>9. Counted'
  BY <1>0, <1>00 DEF RowsOK, RunsOK, EndsOK, Counted, Asking, Running, Over
<1>10. AuditCounts'
  BY <1>0, <1>00 DEF RowsOK, RunsOK, EndsOK, WorldOK, Counted, AuditCounts, Asking, Running,
     Over
<1> QED BY <1>1, <1>2, <1>3, <1>4, <1>5, <1>9, <1>10 DEF IInv

(* A fan-out's own steps touch nothing but its calls and the event stream. *)
LEMMA DispatchKeeps ==
  ASSUME IInv, NEW t \in Turn, Dispatch(t)
  PROVE  IInv'
<1>1. UNCHANGED <<transcript, claim, lock, cancelled, pc, kind, msgs, iter, ending, output,
                  kept, unstored, world>>
  BY DEF Dispatch
<1>2. Emit(t) \/ UNCHANGED stream
  BY DEF Dispatch, Announce, GateAllows, GateDenies, GateSuspends, TicketEnds, GrantedStarts,
         ToolEnds, stream
<1>3. StreamOK'
  BY <1>2, EmitKeeps DEF IInv, Typed, StreamOK, stream
<1> QED
  BY <1>1, <1>3 DEF IInv, Typed, RowsOK, RunsOK, EndsOK, WorldOK, LockCoversTurn, Progress,
     OwnTails, OutputIsOwn, Counted, AuditCounts, world

LEMMA JoinCallsKeeps ==
  ASSUME IInv, NEW t \in Turn, JoinCalls(t)
  PROVE  IInv'
<1> USE DEF JoinCalls, Emit, CanEmit, At, Goto, agent, stream, world
<1>0. /\ Typed /\ LockCoversTurn /\ Progress /\ OwnTails /\ OutputIsOwn
      /\ Counted /\ AuditCounts
  BY DEF IInv
<1>00. RowsOK /\ RunsOK /\ EndsOK /\ StreamOK /\ WorldOK
  BY <1>0 DEF Typed
<1>6. /\ msgs[t] \in Seq(Message) /\ OwnTail(msgs[t], t)
      /\ Asked(t) \in Nat /\ iter[t] < MaxIterations
  <2>1. msgs[t] \in Seq(Message) /\ msgs[t] # <<>>
    BY <1>0 DEF Typed, RowsOK, RunsOK, EndsOK, WorldOK, Progress
  <2>2. msgs[t][Len(msgs[t])] \in Message
    BY <2>1
  <2> QED BY <1>0, <2>1, <2>2 DEF OwnTails, Progress, Asked, Message
<1> DEFINE r == [k \in 1..Asked(t) |-> Result(t, k)]
<1>7. /\ r \in Seq(Message)
      /\ \A i \in 1..Len(r) : r[i].by = t
  <2>1. ASSUME NEW k \in 1..Asked(t)
        PROVE  Result(t, k) \in Message /\ Result(t, k).by = t
    <3>1. k \in Nat
      BY <1>6
    <3>2. Result(t, k) \in Message
      BY <3>1, MessageTypes
    <3> QED BY <3>2 DEF Result
  <2> HIDE DEF Asked
  <2>2. DOMAIN r = 1..Asked(t) /\ \A k \in 1..Asked(t) : r[k] = Result(t, k)
    OBVIOUS
  <2>3. r \in [1..Asked(t) -> Message] /\ Asked(t) \in Nat
    BY <1>6, <2>1
  <2>4. ASSUME NEW n \in Nat, NEW q \in [1..n -> Message]
        PROVE  q \in Seq(Message) /\ Len(q) = n
    OBVIOUS
  <2> HIDE DEF r
  <2>5. r \in Seq(Message) /\ Len(r) = Asked(t)
    BY <2>3, <2>4
  <2> QED BY <2>1, <2>2, <2>5
<1>8. /\ msgs[t] \o r \in Seq(Message) /\ OwnTail(msgs[t] \o r, t)
      /\ msgs' = [msgs EXCEPT ![t] = msgs[t] \o r]
      /\ iter[t] < MaxIterations
  <2> HIDE DEF r
  <2>1. msgs[t] \o r \in Seq(Message) /\ OwnTail(msgs[t] \o r, t)
    BY <1>6, <1>7, OwnConcat
  <2> QED BY <1>6, <2>1 DEF r
<1> HIDE DEF r
<1>1. Typed'
  <2>1. RowsOK'
    BY <1>00, <1>8 DEF RowsOK
  <2>2. RunsOK'
    BY <1>00 DEF RunsOK, Asking, Running, Closing, Over
  <2>3. EndsOK'
    BY <1>00, Bounds, <1>8 DEF EndsOK, Endings
  <2>4. StreamOK'
    BY <1>00, Bounds DEF StreamOK
  <2>5. WorldOK'
    BY <1>00 DEF WorldOK
  <2> QED BY <2>1, <2>2, <2>3, <2>4, <2>5 DEF Typed
<1>2. LockCoversTurn'
  BY <1>0, <1>00, Bounds DEF RunsOK, LockCoversTurn, UnderLock, Running, Closing
<1>3. Progress'
  BY <1>0, <1>00, <1>8 DEF RunsOK, RowsOK, EndsOK, Progress, Running, Closing, Over
<1>4. OwnTails'
  BY <1>0, <1>00, <1>8 DEF RowsOK, OwnTails
<1>5. OutputIsOwn'
  BY <1>0, <1>00 DEF RowsOK, OutputIsOwn
<1>9. Counted'
  BY <1>0, <1>00 DEF RowsOK, RunsOK, EndsOK, Counted, Asking, Running, Over
<1>10. AuditCounts'
  BY <1>0, <1>00 DEF RowsOK, RunsOK, EndsOK, WorldOK, Counted, AuditCounts, Asking, Running,
     Over
<1> QED BY <1>1, <1>2, <1>3, <1>4, <1>5, <1>9, <1>10 DEF IInv

LEMMA TeamEndsKeeps ==
  ASSUME IInv, NEW t \in Turn, TeamEnds(t)
  PROVE  IInv'
<1> USE DEF TeamEnds, Emit, CanEmit, At, Goto, agent, stream, world
<1>0. /\ Typed /\ LockCoversTurn /\ Progress /\ OwnTails /\ OutputIsOwn
      /\ Counted /\ AuditCounts
  BY DEF IInv
<1>00. RowsOK /\ RunsOK /\ EndsOK /\ StreamOK /\ WorldOK
  BY <1>0 DEF Typed
<1>6. PICK ok \in BOOLEAN :
        /\ ending' = [ending EXCEPT ![t] = IF ok THEN "completed" ELSE "error"]
        /\ output' = [output EXCEPT ![t] = IF ok THEN <<Text(t, TRUE)>> ELSE <<>>]
  OBVIOUS
<1>7. /\ <<Text(t, TRUE)>> \in Seq(Message) /\ Len(<<Text(t, TRUE)>>) = 1
      /\ \A i \in DOMAIN <<Text(t, TRUE)>> : <<Text(t, TRUE)>>[i].by = t
  <2>1. Text(t, TRUE) \in Message /\ Text(t, TRUE).by = t
    BY MessageTypes DEF Text
  <2>2. ASSUME NEW m \in Message, m.by = t
        PROVE  /\ <<m>> \in Seq(Message) /\ Len(<<m>>) = 1
               /\ \A i \in DOMAIN <<m>> : <<m>>[i].by = t
    BY <2>2
  <2> QED BY <2>1, <2>2
<1>8. PICK o \in Seq(Message) :
        /\ output' = [output EXCEPT ![t] = o]
        /\ Len(o) \in Nat
        /\ \A i \in DOMAIN o : o[i].by = t
  <2>1. CASE ok
    BY <1>6, <1>7, <2>1
  <2>2. CASE ~ok
    <3>1. output' = [output EXCEPT ![t] = <<>>]
      BY <1>6, <2>2
    <3>2. <<>> \in Seq(Message) /\ Len(<<>>) = 0 /\ DOMAIN <<>> = {}
      OBVIOUS
    <3> QED BY <3>1, <3>2
  <2> QED BY <2>1, <2>2
<1>1. Typed'
  <2>1. RowsOK'
    BY <1>00, <1>8 DEF RowsOK
  <2>2. RunsOK'
    BY <1>00 DEF RunsOK, Asking, Running, Closing, Over
  <2>3. EndsOK'
    BY <1>00, Bounds, <1>6 DEF EndsOK, Endings
  <2>4. StreamOK'
    BY <1>00, Bounds DEF StreamOK
  <2>5. WorldOK'
    BY <1>00 DEF WorldOK
  <2> QED BY <2>1, <2>2, <2>3, <2>4, <2>5 DEF Typed
<1>2. LockCoversTurn'
  BY <1>0, <1>00, Bounds DEF RunsOK, LockCoversTurn, UnderLock, Running, Closing
<1>3. Progress'
  BY <1>0, <1>00, <1>8 DEF RunsOK, RowsOK, EndsOK, Progress, Running, Closing, Over
<1>4. OwnTails'
  BY <1>0, <1>00 DEF RowsOK, OwnTails
<1>5. OutputIsOwn'
  BY <1>0, <1>00, <1>8 DEF RowsOK, OutputIsOwn
<1>9. Counted'
  <2>1. kind[t] = "team"
    BY <1>0 DEF Progress
  <2> QED BY <1>0, <1>00, <2>1 DEF RowsOK, RunsOK, EndsOK, Counted, Over
<1>10. AuditCounts'
  BY <1>0, <1>00 DEF RowsOK, RunsOK, EndsOK, WorldOK, Counted, AuditCounts, Asking, Running,
     Over
<1> QED BY <1>1, <1>2, <1>3, <1>4, <1>5, <1>9, <1>10 DEF IInv

LEMMA PersistNextKeeps ==
  ASSUME IInv, NEW t \in Turn, PersistNext(t)
  PROVE  IInv'
<1> USE DEF PersistNext, Stored, At, Goto, agent, stream, world
<1>0. /\ Typed /\ LockCoversTurn /\ Progress /\ OwnTails /\ OutputIsOwn
      /\ Counted /\ AuditCounts
  BY DEF IInv
<1>00. RowsOK /\ RunsOK /\ EndsOK /\ StreamOK /\ WorldOK
  BY <1>0 DEF Typed
<1>6. kept[t] < Len(output[t]) /\ output[t][kept[t] + 1] \in Message
  <2>1. output[t] \in Seq(Message) /\ kept[t] \in Nat
    BY <1>00 DEF RowsOK
  <2>2. kept[t] < Len(output[t])
    BY <1>0, <2>1 DEF Progress
  <2>3. kept[t] + 1 \in 1..Len(output[t])
    BY <2>1, <2>2
  <2> QED BY <2>1, <2>2, <2>3
<1>1. Typed'
  <2>1. RowsOK'
    BY <1>00, <1>6 DEF RowsOK
  <2>2. RunsOK'
    BY <1>00 DEF RunsOK, Asking, Running, Closing, Over
  <2>3. EndsOK'
    BY <1>00, Bounds DEF EndsOK, Endings
  <2>4. StreamOK'
    BY <1>00, Bounds DEF StreamOK
  <2>5. WorldOK'
    BY <1>00 DEF WorldOK
  <2> QED BY <2>1, <2>2, <2>3, <2>4, <2>5 DEF Typed
<1>2. LockCoversTurn'
  BY <1>0, <1>00, Bounds DEF RunsOK, LockCoversTurn, UnderLock, Running, Closing
<1>3. Progress'
  BY SMTT(30), <1>0, <1>00, <1>6 DEF RunsOK, RowsOK, EndsOK, Progress, Running, Closing, Over
<1>4. OwnTails'
  BY <1>0, <1>00 DEF RowsOK, OwnTails
<1>5. OutputIsOwn'
  BY <1>0, <1>00 DEF RowsOK, OutputIsOwn
<1>9. Counted'
  BY <1>0, <1>00 DEF RowsOK, RunsOK, EndsOK, Counted, Asking, Running, Over
<1>10. AuditCounts'
  BY <1>0, <1>00 DEF RowsOK, RunsOK, EndsOK, WorldOK, Counted, AuditCounts, Asking, Running,
     Over
<1> QED BY <1>1, <1>2, <1>3, <1>4, <1>5, <1>9, <1>10 DEF IInv

LEMMA PersistFailsKeeps ==
  ASSUME IInv, NEW t \in Turn, PersistFails(t)
  PROVE  IInv'
<1> USE DEF PersistFails, At, Goto, agent, stream, world
<1>0. /\ Typed /\ LockCoversTurn /\ Progress /\ OwnTails /\ OutputIsOwn
      /\ Counted /\ AuditCounts
  BY DEF IInv
<1>00. RowsOK /\ RunsOK /\ EndsOK /\ StreamOK /\ WorldOK
  BY <1>0 DEF Typed
<1>1. Typed'
  <2>1. RowsOK'
    BY <1>00 DEF RowsOK
  <2>2. RunsOK'
    BY <1>00 DEF RunsOK, Asking, Running, Closing, Over
  <2>3. EndsOK'
    BY <1>00, Bounds DEF EndsOK, Endings
  <2>4. StreamOK'
    BY <1>00, Bounds DEF StreamOK
  <2>5. WorldOK'
    BY <1>00 DEF WorldOK
  <2> QED BY <2>1, <2>2, <2>3, <2>4, <2>5 DEF Typed
<1>2. LockCoversTurn'
  BY <1>0, <1>00, Bounds DEF RunsOK, LockCoversTurn, UnderLock, Running, Closing
<1>3. Progress'
  BY <1>0, <1>00 DEF RunsOK, RowsOK, EndsOK, Progress, Running, Closing, Over
<1>4. OwnTails'
  BY <1>0, <1>00 DEF RowsOK, OwnTails
<1>5. OutputIsOwn'
  BY <1>0, <1>00 DEF RowsOK, OutputIsOwn
<1>9. Counted'
  BY <1>0, <1>00 DEF RowsOK, RunsOK, EndsOK, Counted, Asking, Running, Over
<1>10. AuditCounts'
  BY <1>0, <1>00 DEF RowsOK, RunsOK, EndsOK, WorldOK, Counted, AuditCounts, Asking, Running,
     Over
<1> QED BY <1>1, <1>2, <1>3, <1>4, <1>5, <1>9, <1>10 DEF IInv

LEMMA AppendAuditKeeps ==
  ASSUME IInv, NEW t \in Turn, AppendAudit(t)
  PROVE  IInv'
<1> USE DEF AppendAudit, At, Goto, agent, stream, world
<1>0. /\ Typed /\ LockCoversTurn /\ Progress /\ OwnTails /\ OutputIsOwn
      /\ Counted /\ AuditCounts
  BY DEF IInv
<1>00. RowsOK /\ RunsOK /\ EndsOK /\ StreamOK /\ WorldOK
  BY <1>0 DEF Typed
<1>6. Produced(msgs[t]) \in Int
  <2>1. msgs[t] \in Seq(Message)
    BY <1>0 DEF Typed, RowsOK, RunsOK, EndsOK, WorldOK
  <2>2. Inbound(msgs[t]) \in 0..Len(msgs[t])
    BY <2>1, LastUser
  <2> QED BY <2>1, <2>2 DEF Produced
<1>7. ASSUME kind[t] # "team", ending[t] # "error", t \notin unstored
      PROVE  \/ Produced(msgs[t]) = kept[t]
             \/ Produced(msgs[t]) = 0 /\ kept[t] = 1
  <2>1. msgs[t] \in Seq(Message) /\ kept[t] = Len(ToPersist(msgs[t]))
    BY <1>0, <1>00, <1>7 DEF RowsOK, Counted, Stored
  <2> QED BY <2>1, CountedByAudit
<1>1. Typed'
  <2>1. RowsOK'
    BY <1>00 DEF RowsOK
  <2>2. RunsOK'
    BY <1>00 DEF RunsOK, Asking, Running, Closing, Over
  <2>3. EndsOK'
    BY <1>00, Bounds, <1>6 DEF EndsOK, Endings
  <2>4. StreamOK'
    BY <1>00, Bounds DEF StreamOK
  <2>5. WorldOK'
    BY <1>00 DEF WorldOK
  <2> QED BY <2>1, <2>2, <2>3, <2>4, <2>5 DEF Typed
<1>2. LockCoversTurn'
  BY <1>0, <1>00, Bounds DEF RunsOK, LockCoversTurn, UnderLock, Running, Closing
<1>3. Progress'
  BY <1>0, <1>00 DEF RunsOK, RowsOK, EndsOK, Progress, Running, Closing, Over
<1>4. OwnTails'
  BY <1>0, <1>00, OwnEmpty DEF RowsOK, OwnTails
<1>5. OutputIsOwn'
  BY <1>0, <1>00 DEF RowsOK, OutputIsOwn
<1>9. Counted'
  BY <1>0, <1>00 DEF RowsOK, RunsOK, EndsOK, Counted, Asking, Running, Over
<1>10. AuditCounts'
  BY <1>0, <1>00, <1>6, <1>7 DEF RowsOK, RunsOK, EndsOK, WorldOK, Counted, AuditCounts,
     Asking, Running, Over
<1> QED BY <1>1, <1>2, <1>3, <1>4, <1>5, <1>9, <1>10 DEF IInv

LEMMA ReleaseTurnKeeps ==
  ASSUME IInv, NEW t \in Turn, ReleaseTurn(t)
  PROVE  IInv'
<1> USE DEF ReleaseTurn, Release, At, Goto, agent, stream, world
<1>0. /\ Typed /\ LockCoversTurn /\ Progress /\ OwnTails /\ OutputIsOwn
      /\ Counted /\ AuditCounts
  BY DEF IInv
<1>00. RowsOK /\ RunsOK /\ EndsOK /\ StreamOK /\ WorldOK
  BY <1>0 DEF Typed
<1>1. Typed'
  <2>1. RowsOK'
    BY <1>00 DEF RowsOK
  <2>2. RunsOK'
    BY <1>00 DEF RunsOK, Asking, Running, Closing, Over
  <2>3. EndsOK'
    BY <1>00, Bounds DEF EndsOK, Endings
  <2>4. StreamOK'
    BY <1>00, Bounds DEF StreamOK
  <2>5. WorldOK'
    BY <1>00 DEF WorldOK
  <2> QED BY <2>1, <2>2, <2>3, <2>4, <2>5 DEF Typed
<1>2. LockCoversTurn'
  BY <1>0, <1>00, Bounds DEF RunsOK, LockCoversTurn, UnderLock, Running, Closing
<1>3. Progress'
  BY <1>0, <1>00 DEF RunsOK, RowsOK, EndsOK, Progress, Running, Closing, Over
<1>4. OwnTails'
  BY <1>0, <1>00 DEF RowsOK, OwnTails
<1>5. OutputIsOwn'
  BY <1>0, <1>00 DEF RowsOK, OutputIsOwn
<1>9. Counted'
  BY <1>0, <1>00 DEF RowsOK, RunsOK, EndsOK, Counted, Asking, Running, Over
<1>10. AuditCounts'
  BY <1>0, <1>00 DEF RowsOK, RunsOK, EndsOK, WorldOK, Counted, AuditCounts, Asking, Running,
     Over
<1> QED BY <1>1, <1>2, <1>3, <1>4, <1>5, <1>9, <1>10 DEF IInv

LEMMA ReadKeeps ==
  ASSUME IInv, NEW t \in Turn, Read(t)
  PROVE  IInv'
<1> USE DEF Read, At, Goto, agent, stream, world
<1>0. /\ Typed /\ LockCoversTurn /\ Progress /\ OwnTails /\ OutputIsOwn
      /\ Counted /\ AuditCounts
  BY DEF IInv
<1>00. RowsOK /\ RunsOK /\ EndsOK /\ StreamOK /\ WorldOK
  BY <1>0 DEF Typed
<1>1. Typed'
  <2>1. RowsOK'
    BY <1>00 DEF RowsOK
  <2>2. RunsOK'
    BY <1>00 DEF RunsOK, Asking, Running, Closing, Over
  <2>3. EndsOK'
    BY <1>00, Bounds DEF EndsOK, Endings
  <2>4. StreamOK'
    BY <1>00, Bounds DEF StreamOK
  <2>5. WorldOK'
    BY <1>00 DEF WorldOK
  <2> QED BY <2>1, <2>2, <2>3, <2>4, <2>5 DEF Typed
<1>2. LockCoversTurn'
  BY <1>0, <1>00, Bounds DEF RunsOK, LockCoversTurn, UnderLock, Running, Closing
<1>3. Progress'
  BY <1>0, <1>00 DEF RunsOK, RowsOK, EndsOK, Progress, Running, Closing, Over
<1>4. OwnTails'
  BY <1>0, <1>00 DEF RowsOK, OwnTails
<1>5. OutputIsOwn'
  BY <1>0, <1>00 DEF RowsOK, OutputIsOwn
<1>9. Counted'
  BY <1>0, <1>00 DEF RowsOK, RunsOK, EndsOK, Counted, Asking, Running, Over
<1>10. AuditCounts'
  BY <1>0, <1>00 DEF RowsOK, RunsOK, EndsOK, WorldOK, Counted, AuditCounts, Asking, Running,
     Over
<1> QED BY <1>1, <1>2, <1>3, <1>4, <1>5, <1>9, <1>10 DEF IInv

LEMMA DisconnectKeeps ==
  ASSUME IInv, NEW t \in Turn, Disconnect(t)
  PROVE  IInv'
<1> USE DEF Disconnect, At, Goto, agent, stream, world
<1>0. /\ Typed /\ LockCoversTurn /\ Progress /\ OwnTails /\ OutputIsOwn
      /\ Counted /\ AuditCounts
  BY DEF IInv
<1>00. RowsOK /\ RunsOK /\ EndsOK /\ StreamOK /\ WorldOK
  BY <1>0 DEF Typed
<1>1. Typed'
  <2>1. RowsOK'
    BY <1>00 DEF RowsOK
  <2>2. RunsOK'
    BY <1>00 DEF RunsOK, Asking, Running, Closing, Over
  <2>3. EndsOK'
    BY <1>00, Bounds DEF EndsOK, Endings
  <2>4. StreamOK'
    BY <1>00, Bounds DEF StreamOK
  <2>5. WorldOK'
    BY <1>00 DEF WorldOK
  <2> QED BY <2>1, <2>2, <2>3, <2>4, <2>5 DEF Typed
<1>2. LockCoversTurn'
  BY <1>0, <1>00, Bounds DEF RunsOK, LockCoversTurn, UnderLock, Running, Closing
<1>3. Progress'
  BY <1>0, <1>00 DEF RunsOK, RowsOK, EndsOK, Progress, Running, Closing, Over
<1>4. OwnTails'
  BY <1>0, <1>00 DEF RowsOK, OwnTails
<1>5. OutputIsOwn'
  BY <1>0, <1>00 DEF RowsOK, OutputIsOwn
<1>9. Counted'
  BY <1>0, <1>00 DEF RowsOK, RunsOK, EndsOK, Counted, Asking, Running, Over
<1>10. AuditCounts'
  BY <1>0, <1>00 DEF RowsOK, RunsOK, EndsOK, WorldOK, Counted, AuditCounts, Asking, Running,
     Over
<1> QED BY <1>1, <1>2, <1>3, <1>4, <1>5, <1>9, <1>10 DEF IInv

LEMMA CancelKeeps ==
  ASSUME IInv, Cancel
  PROVE  IInv'
<1> USE DEF Cancel, At, Goto, agent, stream, world
<1>0. /\ Typed /\ LockCoversTurn /\ Progress /\ OwnTails /\ OutputIsOwn
      /\ Counted /\ AuditCounts
  BY DEF IInv
<1>00. RowsOK /\ RunsOK /\ EndsOK /\ StreamOK /\ WorldOK
  BY <1>0 DEF Typed
<1>1. Typed'
  <2>1. RowsOK'
    BY <1>00 DEF RowsOK
  <2>2. RunsOK'
    BY <1>00 DEF RunsOK, Asking, Running, Closing, Over
  <2>3. EndsOK'
    BY <1>00, Bounds DEF EndsOK, Endings
  <2>4. StreamOK'
    BY <1>00, Bounds DEF StreamOK
  <2>5. WorldOK'
    BY <1>00 DEF WorldOK
  <2> QED BY <2>1, <2>2, <2>3, <2>4, <2>5 DEF Typed
<1>2. LockCoversTurn'
  BY <1>0, <1>00, Bounds DEF RunsOK, LockCoversTurn, UnderLock, Running, Closing
<1>3. Progress'
  BY <1>0, <1>00 DEF RunsOK, RowsOK, EndsOK, Progress, Running, Closing, Over
<1>4. OwnTails'
  BY <1>0, <1>00 DEF RowsOK, OwnTails
<1>5. OutputIsOwn'
  BY <1>0, <1>00 DEF RowsOK, OutputIsOwn
<1>9. Counted'
  BY <1>0, <1>00 DEF RowsOK, RunsOK, EndsOK, Counted, Asking, Running, Over
<1>10. AuditCounts'
  BY <1>0, <1>00 DEF RowsOK, RunsOK, EndsOK, WorldOK, Counted, AuditCounts, Asking, Running,
     Over
<1> QED BY <1>1, <1>2, <1>3, <1>4, <1>5, <1>9, <1>10 DEF IInv

LEMMA PostFinalMessageKeeps ==
  ASSUME IInv, PostFinalMessage
  PROVE  IInv'
<1> USE DEF PostFinalMessage, At, Goto, agent, stream, world
<1>0. /\ Typed /\ LockCoversTurn /\ Progress /\ OwnTails /\ OutputIsOwn
      /\ Counted /\ AuditCounts
  BY DEF IInv
<1>00. RowsOK /\ RunsOK /\ EndsOK /\ StreamOK /\ WorldOK
  BY <1>0 DEF Typed
<1>6. transcript' \in Seq(Message)
  <2>1. Text(Loop, TRUE) \in Message
    BY MessageTypes
  <2>2. ASSUME NEW m \in Message PROVE Append(transcript, m) \in Seq(Message)
    BY <1>00 DEF RowsOK
  <2> QED BY <2>1, <2>2
<1>1. Typed'
  <2>1. RowsOK'
    BY <1>00, <1>6 DEF RowsOK
  <2>2. RunsOK'
    BY <1>00 DEF RunsOK, Asking, Running, Closing, Over
  <2>3. EndsOK'
    BY <1>00, Bounds DEF EndsOK, Endings
  <2>4. StreamOK'
    BY <1>00, Bounds DEF StreamOK
  <2>5. WorldOK'
    BY <1>00 DEF WorldOK
  <2> QED BY <2>1, <2>2, <2>3, <2>4, <2>5 DEF Typed
<1>2. LockCoversTurn'
  BY <1>0, <1>00, Bounds DEF RunsOK, LockCoversTurn, UnderLock, Running, Closing
<1>3. Progress'
  BY <1>0, <1>00 DEF RunsOK, RowsOK, EndsOK, Progress, Running, Closing, Over
<1>4. OwnTails'
  BY <1>0, <1>00 DEF RowsOK, OwnTails
<1>5. OutputIsOwn'
  BY <1>0, <1>00 DEF RowsOK, OutputIsOwn
<1>9. Counted'
  BY <1>0, <1>00 DEF RowsOK, RunsOK, EndsOK, Counted, Asking, Running, Over
<1>10. AuditCounts'
  BY <1>0, <1>00 DEF RowsOK, RunsOK, EndsOK, WorldOK, Counted, AuditCounts, Asking, Running,
     Over
<1> QED BY <1>1, <1>2, <1>3, <1>4, <1>5, <1>9, <1>10 DEF IInv

LEMMA DeleteMessageKeeps ==
  ASSUME IInv, DeleteMessage
  PROVE  IInv'
<1> USE DEF DeleteMessage, At, Goto, agent, stream, world
<1>0. /\ Typed /\ LockCoversTurn /\ Progress /\ OwnTails /\ OutputIsOwn
      /\ Counted /\ AuditCounts
  BY DEF IInv
<1>00. RowsOK /\ RunsOK /\ EndsOK /\ StreamOK /\ WorldOK
  BY <1>0 DEF Typed
<1>6. /\ transcript' \in Seq(Message)
      /\ tampered' \subseteq Turn \cup {Loop}
  <2>1. PICK i \in DOMAIN transcript :
          /\ transcript' = RemoveAt(transcript, i)
          /\ tampered' = tampered \cup {transcript[i].by}
    OBVIOUS
  <2>2. transcript \in Seq(Message) /\ i \in 1..Len(transcript)
    BY <1>0, <2>1 DEF Typed, RowsOK, RunsOK, EndsOK, WorldOK
  <2>3. RemoveAt(transcript, i) \in Seq(Message)
    BY <2>2 DEF RemoveAt
  <2>4. transcript[i].by \in Turn \cup {Loop}
    <3>1. transcript[i] \in Message
      BY <2>2
    <3> QED BY <3>1 DEF Message
  <2> QED BY <1>0, <2>1, <2>3, <2>4 DEF Typed, RowsOK, RunsOK, EndsOK, WorldOK
<1>1. Typed'
  <2>1. RowsOK'
    BY <1>00, <1>6 DEF RowsOK
  <2>2. RunsOK'
    BY <1>00 DEF RunsOK, Asking, Running, Closing, Over
  <2>3. EndsOK'
    BY <1>00, Bounds DEF EndsOK, Endings
  <2>4. StreamOK'
    BY <1>00, Bounds DEF StreamOK
  <2>5. WorldOK'
    BY <1>00, <1>6 DEF WorldOK
  <2> QED BY <2>1, <2>2, <2>3, <2>4, <2>5 DEF Typed
<1>2. LockCoversTurn'
  BY <1>0, <1>00, Bounds DEF RunsOK, LockCoversTurn, UnderLock, Running, Closing
<1>3. Progress'
  BY <1>0, <1>00 DEF RunsOK, RowsOK, EndsOK, Progress, Running, Closing, Over
<1>4. OwnTails'
  BY <1>0, <1>00 DEF RowsOK, OwnTails
<1>5. OutputIsOwn'
  BY <1>0, <1>00 DEF RowsOK, OutputIsOwn
<1>9. Counted'
  BY <1>0, <1>00 DEF RowsOK, RunsOK, EndsOK, Counted, Asking, Running, Over
<1>10. AuditCounts'
  BY <1>0, <1>00 DEF RowsOK, RunsOK, EndsOK, WorldOK, Counted, AuditCounts, Asking, Running,
     Over
<1> QED BY <1>1, <1>2, <1>3, <1>4, <1>5, <1>9, <1>10 DEF IInv

LEMMA CrashKeeps ==
  ASSUME IInv, Crash
  PROVE  IInv'
<1> USE DEF Crash, At, Goto, agent, stream, world
<1>0. /\ Typed /\ LockCoversTurn /\ Progress /\ OwnTails /\ OutputIsOwn
      /\ Counted /\ AuditCounts
  BY DEF IInv
<1>00. RowsOK /\ RunsOK /\ EndsOK /\ StreamOK /\ WorldOK
  BY <1>0 DEF Typed
<1>1. Typed'
  <2>1. RowsOK'
    BY <1>00 DEF RowsOK
  <2>2. RunsOK'
    BY <1>00 DEF RunsOK, Asking, Running, Closing, Over
  <2>3. EndsOK'
    BY <1>00, Bounds DEF EndsOK, Endings
  <2>4. StreamOK'
    BY <1>00, Bounds DEF StreamOK
  <2>5. WorldOK'
    BY <1>00 DEF WorldOK
  <2> QED BY <2>1, <2>2, <2>3, <2>4, <2>5 DEF Typed
<1>2. LockCoversTurn'
  <2>1. \A t \in Turn : pc'[t] \in Over \cup {"idle"}
    BY <1>0, <1>00 DEF RunsOK, Over
  <2>2. \A t \in Turn : pc'[t] \notin UnderLock
    BY <2>1 DEF Over, UnderLock, Running, Closing
  <2> QED BY <2>2, Bounds DEF LockCoversTurn
<1>3. Progress'
  BY <1>0, <1>00 DEF RunsOK, RowsOK, EndsOK, Progress, Running, Closing, Over
<1>4. OwnTails'
  BY <1>0, <1>00, OwnEmpty DEF RowsOK, OwnTails
<1>5. OutputIsOwn'
  BY <1>0, <1>00 DEF RowsOK, OutputIsOwn
<1>9. Counted'
  BY <1>0, <1>00 DEF RowsOK, RunsOK, EndsOK, Counted, Asking, Running, Over
<1>10. AuditCounts'
  BY <1>0, <1>00 DEF RowsOK, RunsOK, EndsOK, WorldOK, Counted, AuditCounts, Asking, Running,
     Over
<1> QED BY <1>1, <1>2, <1>3, <1>4, <1>5, <1>9, <1>10 DEF IInv

LEMMA StepKeeps == IInv /\ [Next]_vars => IInv'
<1> SUFFICES ASSUME IInv, [Next]_vars PROVE IInv'
  OBVIOUS
<1>1. CASE UNCHANGED vars
  BY <1>1 DEF IInv, Typed, RowsOK, RunsOK, EndsOK, StreamOK, WorldOK, LockCoversTurn, Progress, OwnTails, OutputIsOwn, Counted,
              AuditCounts, vars, agent, stream, world
<1>2. ASSUME NEW t \in Turn, Handler(t) PROVE IInv'
  BY <1>2, CheckSessionKeeps, BeginTurnKeeps, PersistUserKeeps, LoadHistoryKeeps,
     GiveUpKeeps, LaunchKeeps DEF Handler
<1>3. ASSUME NEW t \in Turn, Agent(t) PROVE IInv'
  BY <1>3, LoopTopKeeps, ModelRepliesKeeps, ModelCallsKeeps, ModelFailsKeeps,
     DispatchKeeps, JoinCallsKeeps, TeamEndsKeeps DEF Agent
<1>4. ASSUME NEW t \in Turn, Finalize(t) PROVE IInv'
  BY <1>4, PersistNextKeeps, PersistFailsKeeps, AppendAuditKeeps, ReleaseTurnKeeps
     DEF Finalize
<1>5. ASSUME NEW t \in Turn, Client(t) PROVE IInv'
  BY <1>5, ReadKeeps, DisconnectKeeps DEF Client
<1>6. CASE Cancel \/ PostFinalMessage \/ DeleteMessage \/ Crash
  BY <1>6, CancelKeeps, PostFinalMessageKeeps, DeleteMessageKeeps, CrashKeeps
<1> QED BY <1>1, <1>2, <1>3, <1>4, <1>5, <1>6 DEF Next

-----------------------------------------------------------------------------
(* The fan-outs of a cancelled turn *)

(* The calls that may still start after a cancel are those that nothing    *)
(* but the gate or the event stream holds back; every other one needs a    *)
(* look at the token.                                                      *)
Counts == fan \in [Turn -> Fan] /\ quota \in [Turn -> Int]

Within(t) == t \in cancelled /\ pc[t] = "tools" => fan[t].gate + fan[t].granted <= quota[t]

FanInv == Counts /\ CancelStopsWork /\ \A t \in Turn : Within(t)

LEMMA FanInit == Init => FanInv
<1>1. NoFan \in Fan
  BY DEF NoFan, Fan
<1> QED
  BY <1>1 DEF Init, FanInv, Counts, CancelStopsWork, Within

(* A step that begins nothing and lets no call of a cancelled turn through. *)
LEMMA FanFrame ==
  ASSUME FanInv, Counts', UNCHANGED quota,
         \A t \in Turn :
           t \in cancelled' /\ pc'[t] = "tools" =>
             /\ t \in cancelled /\ pc[t] = "tools"
             /\ fan'[t].gate + fan'[t].granted <= fan[t].gate + fan[t].granted
  PROVE  FanInv'
<1>1. \A t \in Turn : /\ quota[t] \in Int
                      /\ fan[t].gate + fan[t].granted \in Int
                      /\ fan'[t].gate + fan'[t].granted \in Int
  BY DEF FanInv, Counts, Fan
<1> QED
  BY <1>1 DEF FanInv, CancelStopsWork, Within

(* One call of t's fan-out moves on.                                       *)
LEMMA FanMoves ==
  ASSUME FanInv, NEW t \in Turn, NEW g \in Fan, fan' = [fan EXCEPT ![t] = g],
         UNCHANGED <<pc, cancelled>>,
         \/ /\ UNCHANGED quota
            /\ t \in cancelled => g.gate + g.granted <= fan[t].gate + fan[t].granted
         \/ /\ Begins(t) /\ pc[t] = "tools"
            /\ g.gate + g.granted = fan[t].gate + fan[t].granted - 1
  PROVE  FanInv'
<1>1. /\ quota[t] \in Int /\ g.gate \in Nat /\ g.granted \in Nat
      /\ fan[t].gate \in Nat /\ fan[t].granted \in Nat
  BY DEF FanInv, Counts, Fan
<1>2. /\ fan'[t] = g /\ fan' \in [Turn -> Fan]
      /\ \A u \in Turn \ {t} : fan'[u] = fan[u]
  BY DEF FanInv, Counts
<1>3. CASE UNCHANGED quota /\ (t \in cancelled => g.gate + g.granted <= fan[t].gate + fan[t].granted)
  <2>1. \A u \in Turn : fan[u].gate + fan[u].granted \in Int
    BY DEF FanInv, Counts, Fan
  <2> QED
    BY <1>2, <1>3, <2>1, FanFrame DEF FanInv, Counts
<1>4. CASE /\ Begins(t) /\ pc[t] = "tools"
           /\ g.gate + g.granted = fan[t].gate + fan[t].granted - 1
  <2>1. CASE t \in cancelled
    <3>1. /\ quota' \in [Turn -> Int] /\ quota'[t] = quota[t] - 1
          /\ \A u \in Turn \ {t} : quota'[u] = quota[u]
      BY <1>4, <2>1 DEF Begins, FanInv, Counts
    <3>a. fan[t].gate + fan[t].granted <= quota[t]
      BY <1>4, <2>1 DEF FanInv, Within
    <3>2. quota'[t] >= g.gate + g.granted /\ quota'[t] >= 0
      BY <1>1, <1>4, <3>1, <3>a
    <3>3. CancelStopsWork'
      BY <3>1, <3>2 DEF FanInv, CancelStopsWork
    <3>4. Within(t)'
      BY <1>2, <3>2 DEF Within
    <3>5. \A u \in Turn \ {t} : Within(u)'
      BY <1>2, <3>1 DEF FanInv, Within
    <3> QED
      BY <1>2, <3>1, <3>3, <3>4, <3>5 DEF FanInv, Counts
  <2>2. CASE t \notin cancelled
    <3>1. UNCHANGED quota
      BY <1>4, <2>2 DEF Begins
    <3> QED
      BY <1>2, <2>2, <3>1 DEF FanInv, Counts, CancelStopsWork, Within
  <2> QED
    BY <2>1, <2>2
<1> QED
  BY <1>3, <1>4

(* Two counts of a fan-out at a time.                                      *)
CallMoved(f, a, b) ==
  /\ LET g == [f EXCEPT !.gate = a, !.busy = b]
     IN  g \in Fan /\ g.gate = a /\ g.granted = f.granted
  /\ LET g == [f EXCEPT !.gate = a, !.parked = b]
     IN  g \in Fan /\ g.gate = a /\ g.granted = f.granted
  /\ LET g == [f EXCEPT !.parked = a, !.granted = b]
     IN  g \in Fan /\ g.gate = f.gate /\ g.granted = b
  /\ LET g == [f EXCEPT !.granted = a, !.busy = b]
     IN  g \in Fan /\ g.gate = f.gate /\ g.granted = a

LEMMA CallMoves ==
  ASSUME NEW f \in Fan, NEW a \in Nat, NEW b \in Nat
  PROVE  CallMoved(f, a, b)
<1> USE DEF Fan
<1>1. LET g == [f EXCEPT !.gate = a, !.busy = b]
      IN  g \in Fan /\ g.gate = a /\ g.granted = f.granted
  OBVIOUS
<1>2. LET g == [f EXCEPT !.gate = a, !.parked = b]
      IN  g \in Fan /\ g.gate = a /\ g.granted = f.granted
  OBVIOUS
<1>3. LET g == [f EXCEPT !.parked = a, !.granted = b]
      IN  g \in Fan /\ g.gate = f.gate /\ g.granted = b
  OBVIOUS
<1>4. LET g == [f EXCEPT !.granted = a, !.busy = b]
      IN  g \in Fan /\ g.gate = f.gate /\ g.granted = a
  OBVIOUS
<1> QED
  BY <1>1, <1>2, <1>3, <1>4 DEF CallMoved

LEMMA FanDispatch ==
  ASSUME FanInv, NEW t \in Turn, Dispatch(t)
  PROVE  FanInv'
<1>0. fan[t] \in Fan /\ pc[t] = "tools" /\ UNCHANGED <<pc, cancelled>>
  BY DEF FanInv, Counts, Dispatch, At
<1>a. /\ fan[t].gate \in Nat /\ fan[t].parked \in Nat /\ fan[t].granted \in Nat
      /\ fan[t].busy \in Nat
  BY <1>0 DEF Fan
<1> DEFINE f == fan[t]
<1>1. CASE Announce(t)
  <2> DEFINE g == [f EXCEPT !.told = TRUE]
  <2>1. g \in Fan /\ g.gate = f.gate /\ g.granted = f.granted
    BY <1>0 DEF Fan
  <2>2. fan' = [fan EXCEPT ![t] = g] /\ UNCHANGED quota
    BY <1>1 DEF Announce
  <2> HIDE DEF g
  <2>3. g.gate + g.granted <= f.gate + f.granted
    BY <1>0, <2>1 DEF Fan
  <2> QED
    BY <1>0, <2>1, <2>2, <2>3, FanMoves
<1>2. CASE GateAllows(t)
  <2> DEFINE g == [f EXCEPT !.gate = @ - 1, !.busy = @ + 1]
  <2>1. g \in Fan /\ g.gate = f.gate - 1 /\ g.granted = f.granted
    <3>1. f.gate - 1 \in Nat /\ f.busy + 1 \in Nat
      BY <1>a, <1>2 DEF GateAllows
    <3>2. \A a, b \in Nat : CallMoved(f, a, b)
      BY <1>0, CallMoves
    <3> QED
      BY <3>1, <3>2 DEF CallMoved
  <2>2. fan' = [fan EXCEPT ![t] = g] /\ Begins(t)
    BY <1>2 DEF GateAllows
  <2> HIDE DEF g
  <2>3. g.gate + g.granted = f.gate + f.granted - 1
    BY <1>0, <2>1 DEF Fan
  <2> QED
    BY <1>0, <2>1, <2>2, <2>3, FanMoves
<1>3. CASE GateDenies(t)
  <2> DEFINE g == [f EXCEPT !.gate = @ - 1]
  <2>1. g \in Fan /\ g.gate = f.gate - 1 /\ g.granted = f.granted
    BY <1>0, <1>3 DEF GateDenies, Fan
  <2>2. fan' = [fan EXCEPT ![t] = g] /\ UNCHANGED quota
    BY <1>3 DEF GateDenies
  <2> HIDE DEF g
  <2>3. g.gate + g.granted <= f.gate + f.granted
    BY <1>0, <2>1 DEF Fan
  <2> QED
    BY <1>0, <2>1, <2>2, <2>3, FanMoves
<1>4. CASE GateSuspends(t)
  <2> DEFINE g == [f EXCEPT !.gate = @ - 1, !.parked = @ + 1]
  <2>1. g \in Fan /\ g.gate = f.gate - 1 /\ g.granted = f.granted
    <3>1. f.gate - 1 \in Nat /\ f.parked + 1 \in Nat
      BY <1>a, <1>4 DEF GateSuspends
    <3>2. \A a, b \in Nat : CallMoved(f, a, b)
      BY <1>0, CallMoves
    <3> QED
      BY <3>1, <3>2 DEF CallMoved
  <2>2. fan' = [fan EXCEPT ![t] = g] /\ UNCHANGED quota
    BY <1>4 DEF GateSuspends
  <2> HIDE DEF g
  <2>3. g.gate + g.granted <= f.gate + f.granted
    BY <1>0, <2>1 DEF Fan
  <2> QED
    BY <1>0, <2>1, <2>2, <2>3, FanMoves
<1>5. CASE TicketEnds(t)
  <2> DEFINE g == [f EXCEPT !.parked = @ - 1]
             h == [f EXCEPT !.parked = @ - 1, !.granted = @ + 1]
  <2>1. /\ g \in Fan /\ g.gate = f.gate /\ g.granted = f.granted
        /\ h \in Fan
    <3>1. f.parked - 1 \in Nat /\ f.granted + 1 \in Nat
      BY <1>a, <1>5 DEF TicketEnds
    <3>2. h \in Fan
      <4>1. \A a, b \in Nat : CallMoved(f, a, b)
        BY <1>0, CallMoves
      <4> QED
        BY <3>1, <4>1 DEF CallMoved
    <3>3. g \in Fan /\ g.gate = f.gate /\ g.granted = f.granted
      BY <1>0, <3>1 DEF Fan
    <3> QED
      BY <3>2, <3>3
  <2>2. /\ UNCHANGED quota
        /\ fan' = [fan EXCEPT ![t] = g] \/ (t \notin cancelled /\ fan' = [fan EXCEPT ![t] = h])
    BY <1>5 DEF TicketEnds, Fired
  <2> HIDE DEF g, h
  <2>3. g.gate + g.granted <= f.gate + f.granted
    BY <1>0, <2>1 DEF Fan
  <2> QED
    BY <1>0, <2>1, <2>2, <2>3, FanMoves
<1>6. CASE GrantedStarts(t)
  <2> DEFINE g == [f EXCEPT !.granted = @ - 1, !.busy = @ + 1]
  <2>1. g \in Fan /\ g.gate = f.gate /\ g.granted = f.granted - 1
    <3>1. f.granted - 1 \in Nat /\ f.busy + 1 \in Nat
      BY <1>a, <1>6 DEF GrantedStarts
    <3>2. \A a, b \in Nat : CallMoved(f, a, b)
      BY <1>0, CallMoves
    <3> QED
      BY <3>1, <3>2 DEF CallMoved
  <2>2. fan' = [fan EXCEPT ![t] = g] /\ Begins(t)
    BY <1>6 DEF GrantedStarts
  <2> HIDE DEF g
  <2>3. g.gate + g.granted = f.gate + f.granted - 1
    BY <1>0, <2>1 DEF Fan
  <2> QED
    BY <1>0, <2>1, <2>2, <2>3, FanMoves
<1>7. CASE ToolEnds(t)
  <2> DEFINE g == [f EXCEPT !.busy = @ - 1]
  <2>1. g \in Fan /\ g.gate = f.gate /\ g.granted = f.granted
    BY <1>0, <1>7 DEF ToolEnds, Fan
  <2>2. fan' = [fan EXCEPT ![t] = g] /\ UNCHANGED quota
    BY <1>7 DEF ToolEnds
  <2> HIDE DEF g
  <2>3. g.gate + g.granted <= f.gate + f.granted
    BY <1>0, <2>1 DEF Fan
  <2> QED
    BY <1>0, <2>1, <2>2, <2>3, FanMoves
<1> QED
  BY <1>1, <1>2, <1>3, <1>4, <1>5, <1>6, <1>7 DEF Dispatch

LEMMA FanStep == Typed /\ FanInv /\ [Next]_vars => FanInv'
<1> SUFFICES ASSUME Typed, FanInv, [Next]_vars PROVE FanInv'
  OBVIOUS
<1>0. /\ pc \in [Turn -> {"idle"} \cup Asking \cup Running \cup Closing \cup Over]
      /\ cancelled \subseteq Turn /\ Counts
      /\ \A t \in Turn : fan[t].gate + fan[t].granted \in Nat
  BY DEF Typed, RunsOK, FanInv, Counts, Fan
(* No fan-out begins, none goes on, and nobody else is cancelled.          *)
<1>1. ASSUME UNCHANGED calls, NEW t \in Turn, NEW there, there # "tools",
             pc' = [pc EXCEPT ![t] = there], cancelled' \subseteq cancelled
      PROVE  FanInv'
  BY <1>0, <1>1, FanFrame DEF calls, Counts
<1>2. ASSUME UNCHANGED <<calls, pc, cancelled>> PROVE FanInv'
  BY <1>0, <1>2, FanFrame DEF calls, Counts
<1>3. ASSUME NEW t \in Turn, Handler(t) PROVE FanInv'
  <2>1. /\ UNCHANGED calls /\ cancelled' \subseteq cancelled
        /\ \E there \in {"checked", "refused", "locked", "loaded", "stored", "team", "top"} :
             pc' = [pc EXCEPT ![t] = there]
    BY <1>3 DEF Handler, CheckSession, BeginTurn, PersistUser, LoadHistory, GiveUp, Launch,
                Release, Goto, agent
  <2> QED
    BY <2>1, <1>1
<1>4. ASSUME NEW t \in Turn, Finalize(t) PROVE FanInv'
  <2>1. /\ UNCHANGED calls /\ cancelled' \subseteq cancelled
        /\ \/ UNCHANGED <<pc, cancelled>>
           \/ \E there \in {"audited", "done"} : pc' = [pc EXCEPT ![t] = there]
    BY <1>4 DEF Finalize, PersistNext, PersistFails, AppendAudit, ReleaseTurn, Release, Goto,
                agent
  <2> QED
    BY <2>1, <1>1, <1>2
<1>5. ASSUME NEW t \in Turn, LoopTop(t) PROVE FanInv'
  <2>1. UNCHANGED quota
    BY <1>5 DEF LoopTop, Begins, Fired
  <2>2. /\ UNCHANGED <<calls, cancelled>>
        /\ \E there \in {"persist", "calling"} : pc' = [pc EXCEPT ![t] = there]
    BY <1>5, <2>1 DEF LoopTop, Finish, Goto, calls
  <2> QED
    BY <2>2, <1>1
<1>6. ASSUME NEW t \in Turn, ModelCalls(t) PROVE FanInv'
  <2>1. CASE Fired(t)
    <3>1. UNCHANGED <<calls, cancelled>> /\ pc' = [pc EXCEPT ![t] = "persist"]
      BY <1>6, <2>1 DEF ModelCalls, Finish, Goto, calls
    <3> QED
      BY <3>1, <1>1
  <2>2. CASE ~Fired(t)
    <3>1. PICK k \in 1..MaxCalls : fan' = [fan EXCEPT ![t] = [NoFan EXCEPT !.gate = Heard(k)]]
      BY <1>6, <2>2 DEF ModelCalls
    <3>2. [NoFan EXCEPT !.gate = Heard(k)] \in Fan
      <4>1. Heard(k) \in Nat /\ NoFan \in Fan
        BY ConstantsAssumption DEF NoFan, Fan, Heard
      <4> QED
        BY <4>1 DEF Fan
    <3>3. UNCHANGED <<quota, cancelled>> /\ pc' = [pc EXCEPT ![t] = "tools"] /\ t \notin cancelled
      BY <1>6, <2>2 DEF ModelCalls, Goto, Fired
    <3>4. Counts'
      BY <1>0, <3>1, <3>2, <3>3 DEF Counts
    <3>5. \A u \in Turn \ {t} : fan'[u] = fan[u] /\ pc'[u] = pc[u]
      BY <1>0, <3>1, <3>3 DEF Counts
    <3> QED
      BY <1>0, <3>3, <3>4, <3>5, FanFrame
  <2> QED
    BY <2>1, <2>2
<1>7. ASSUME NEW t \in Turn, ModelReplies(t) \/ ModelFails(t) \/ JoinCalls(t) \/ TeamEnds(t)
      PROVE  FanInv'
  <2>1. /\ UNCHANGED <<calls, cancelled>>
        /\ \E there \in {"persist", "top"} : pc' = [pc EXCEPT ![t] = there]
    BY <1>7 DEF ModelReplies, ModelFails, JoinCalls, TeamEnds, Finish, Goto
  <2> QED
    BY <2>1, <1>1
<1>8. CASE Cancel
  <2>1. CASE lock \in cancelled
    <3>1. UNCHANGED <<calls, pc, cancelled>>
      BY <1>0, <1>8, <2>1 DEF Cancel, calls
    <3> QED
      BY <3>1, <1>2
  <2>2. CASE lock \notin cancelled
    <3>1. /\ lock \in Turn /\ UNCHANGED <<pc, fan>> /\ cancelled' = cancelled \cup {lock}
          /\ quota' = [quota EXCEPT ![lock] = fan[lock].gate + fan[lock].granted]
      BY <1>8, <2>2 DEF Cancel, Typed, RunsOK
    <3>2. \A t \in Turn : quota'[t] = IF t = lock THEN fan[t].gate + fan[t].granted ELSE quota[t]
      BY <1>0, <3>1 DEF Counts
    <3>3. Counts'
      BY <1>0, <3>1 DEF Counts
    <3> QED
      BY <1>0, <3>1, <3>2, <3>3 DEF FanInv, CancelStopsWork, Within
  <2> QED
    BY <2>1, <2>2
<1>9. CASE Crash
  <2>1. NoFan \in Fan
    BY DEF NoFan, Fan
  <2> QED
    BY <1>0, <1>9, <2>1, FanFrame DEF Crash, Counts
<1>10. ASSUME NEW t \in Turn, Client(t) PROVE FanInv'
  BY <1>2, <1>10 DEF Client, Read, Disconnect, agent
<1>11. CASE PostFinalMessage \/ DeleteMessage \/ UNCHANGED vars
  BY <1>2, <1>11 DEF PostFinalMessage, DeleteMessage, agent, vars
<1> QED
  BY <1>3, <1>4, <1>5, <1>6, <1>7, <1>8, <1>9, <1>10, <1>11, FanDispatch DEF Next, Agent

-----------------------------------------------------------------------------
(* The theorems *)

THEOREM Invariance == Spec => []IInv
BY Initially, StepKeeps, PTL DEF Spec

THEOREM FansAlways == Spec => []FanInv
<1>1. IInv => Typed
  BY DEF IInv
<1> QED
  BY <1>1, FanInit, FanStep, Invariance, PTL DEF Spec

(* Every reachable state is well typed: no channel holds more than its     *)
(* buffer, no run makes more than its iterations, and the calls of a       *)
(* fan-out never number less than none.                                    *)
THEOREM TypeCorrect == Spec => []TypeOK
<1>1. IInv /\ FanInv => TypeOK
  BY DEF IInv, FanInv, Typed, RowsOK, RunsOK, EndsOK, StreamOK, WorldOK, Counts, TypeOK
<1> QED
  BY <1>1, Invariance, FansAlways, PTL

(* The session's lock is held by the turn that is under way, from its      *)
(* first write to its last, and by none else.                              *)
THEOREM LockCovers == Spec => []LockCoversTurn
BY Invariance, PTL DEF IInv

(* A turn stores nothing that another turn or the loop controller said.    *)
THEOREM OutputOwn == Spec => []OutputIsOwn
BY Invariance, PTL DEF IInv

(* The audit entry of a finished run counts what the turn stored.          *)
THEOREM AuditExact == Spec => []AuditCounts
BY Invariance, PTL DEF IInv

(* A cancelled turn asks the model nothing more and starts no tool but for *)
(* calls that were past the last look at the token when it fired: however  *)
(* many calls a fan-out has and whatever the operators decide on those     *)
(* that are parked.                                                        *)
THEOREM CancelStops == Spec => []CancelStopsWork
<1>1. FanInv => CancelStopsWork
  BY DEF FanInv
<1> QED
  BY <1>1, FansAlways, PTL
=============================================================================
