--------------------------- MODULE TurnHistoryProofs ---------------------------
(***************************************************************************)
(* What later turns see of earlier ones: a finished run is in the history  *)
(* as one block (FollowUpSees), and what the model is shown pairs calls    *)
(* and results (PairsIntact).                                              *)
(*                                                                         *)
(* The rows of a turn are placed in the transcript by an increasing        *)
(* function of its block, prompt first.  A note or a deletion of another's *)
(* message moves the places, an append by the turn itself adds one, and    *)
(* the lock lets nobody else append before the turn is over (Rows).  So a  *)
(* history that is loaded under the lock holds every earlier block, and as *)
(* a block pairs its calls and results (Outputs), so does the history,     *)
(* notes aside (Linked).  The window keeps Linked, because it drops the    *)
(* results it would begin with.                                            *)
(*                                                                         *)
(* The same view of the steps shows that the turns implement ChatSession:  *)
(* an output holds no prompt, and who has the lock follows from where the  *)
(* turns are.                                                              *)
(***************************************************************************)
EXTENDS TurnPipelineProofs

(* Nothing is stored yet. *)
Before == {"idle", "checked", "locked"}

(* The prompt is stored and the turn is not over. *)
Held == UnderLock \ {"locked"}

(* What the turn has stored so far. *)
Block(u) == <<User(u)>> \o SubSeq(output[u], 1, kept[u])

(* s holds block at places, and of u nothing else. *)
Embeds(block, s, u, places) ==
  /\ places \in [1..Len(block) -> 1..Len(s)]
  /\ Placed(block, s, places)
  /\ \A i \in 1..Len(s) : s[i].by = u => \E k \in 1..Len(block) : places[k] = i

(* Only notes follow the block. *)
AtEnd(block, s, places) ==
  \A i \in 1..Len(s) : places[Len(block)] < i => s[i].by = Loop

(* What s holds of u, which is at p and has stored b. *)
RowsAre(s, b, p, u) ==
  /\ p \in Before => \A i \in 1..Len(s) : s[i].by # u
  /\ p = "refused" => \A i \in 1..Len(s) : s[i].by = u => s[i].role = "user"
  /\ p \in Held =>
       \E places \in [1..Len(b) -> 1..Len(s)] :
         Embeds(b, s, u, places) /\ AtEnd(b, s, places)
  /\ p = "done" =>
       \E places \in [1..Len(b) -> 1..Len(s)] : Embeds(b, s, u, places)

Rows == \A u \in Turn : u \notin tampered => RowsAre(transcript, Block(u), pc[u], u)

(* Once audited, everything is stored or an append failed. *)
Complete == \A u \in Turn : pc[u] \in {"audited", "done"} => Stored(u)

(* The loop controller asks for nothing in its notes. *)
NotesOnly(s) == \A i \in 1..Len(s) : s[i].by = Loop => s[i].role # "user"
LoopTalks == NotesOnly(transcript) /\ \A t \in Turn : NotesOnly(msgs[t])

(* A run has no ending and no output before it ends. *)
Open == \A t \in Turn : pc[t] \notin Closing \cup Over =>
          ending[t] = "none" /\ output[t] = <<>>

(* Before a result stand results, back to its call or to a note. *)
ResultLinked(s, i) ==
  \E j \in 1..(i - 1) :
    /\ \A l \in (j + 1)..i : s[l].role = "result"
    /\ s[j].by = Loop \/ (Issued(s, i) /\ j = i - s[i].n)

(* Calls of u have their results, or a note and then more of u after them. *)
CallsLinked(s, u, i) ==
  \/ Answered(s, i)
  \/ \E j, k \in 1..Len(s) :
       /\ i < j /\ j < k /\ s[j].by = Loop /\ s[k].by = u
       /\ \A l \in j..k : s[l].role # "user"

(* What u said is linked so, its calls up to the nth message. *)
Linked(s, u, n) ==
  \A i \in 1..Len(s) : s[i].by = u =>
    /\ s[i].role = "result" => ResultLinked(s, i)
    /\ s[i].role = "calls" /\ i <= n => CallsLinked(s, u, i)

Conversations ==
  \A t \in Turn :
    /\ pc[t] \in {"top", "calling"} \/ (pc[t] = "loaded" /\ kind[t] # "team") =>
         \A u \in Turn : Broken(u) \/ Linked(msgs[t], u, Len(msgs[t]))
    /\ pc[t] = "tools" =>
         /\ Len(msgs[t]) > 0
         /\ msgs[t][Len(msgs[t])].by = t /\ msgs[t][Len(msgs[t])].role = "calls"
         /\ \A u \in Turn : Broken(u) \/ Linked(msgs[t], u, Len(msgs[t]) - 1)

(* The output of a run pairs its calls and results. *)
Outputs ==
  \A t \in Turn : pc[t] \in Closing \cup {"done"} => Broken(t) \/ Paired(output[t], t)

HInv == /\ Rows /\ Complete /\ LoopTalks /\ Open
        /\ Conversations /\ Outputs /\ FollowUpSees

-----------------------------------------------------------------------------
(* Lemmas about blocks and their places *)

LEMMA AppendIs ==
  ASSUME NEW s \in Seq(Message), NEW m \in Message
  PROVE  /\ Append(s, m) \in Seq(Message)
         /\ Len(Append(s, m)) = Len(s) + 1 /\ Len(s) \in Nat
         /\ \A i \in 1..Len(s) : Append(s, m)[i] = s[i]
         /\ Append(s, m)[Len(s) + 1] = m
         /\ DOMAIN s = 1..Len(s) /\ DOMAIN Append(s, m) = 1..(Len(s) + 1)
OBVIOUS

(* s without its last message, or r with one more. *)
Longer(r, s, m) ==
  /\ Len(s) \in Nat /\ DOMAIN s = 1..Len(s)
  /\ Len(r) = Len(s) + 1 /\ DOMAIN r = 1..(Len(s) + 1)
  /\ \A i \in 1..Len(s) : r[i] = s[i]
  /\ r[Len(s) + 1] = m

LEMMA AppendIsLonger ==
  ASSUME NEW s \in Seq(Message), NEW m \in Message
  PROVE  Append(s, m) \in Seq(Message) /\ Longer(Append(s, m), s, m)
BY AppendIs DEF Longer

(* A prompt is a block of its own. *)
LEMMA StartBlock ==
  ASSUME NEW u, NEW m, NEW s, NEW r, Longer(r, s, m), \A i \in 1..Len(s) : s[i].by # u
  PROVE  \E places \in [1..1 -> 1..Len(r)] :
           Embeds(<<m>>, r, u, places) /\ AtEnd(<<m>>, r, places)
<1> DEFINE p == [k \in 1..1 |-> Len(r)]
<1>1. Len(<<m>>) = 1 /\ DOMAIN <<m>> = 1..1 /\ <<m>>[1] = m
  OBVIOUS
<1>2. p \in [1..1 -> 1..Len(r)] /\ p[1] = Len(r)
  BY DEF Longer
<1> HIDE DEF p
<1>3. Placed(<<m>>, r, p)
  BY <1>1, <1>2 DEF Placed, Longer
<1>4. Embeds(<<m>>, r, u, p)
  BY <1>1, <1>2, <1>3 DEF Embeds, Longer
<1>5. AtEnd(<<m>>, r, p)
  BY <1>1, <1>2 DEF AtEnd, Longer
<1> QED BY <1>2, <1>4, <1>5

(* A turn adds to its own block. *)
LEMMA ExtendBlock ==
  ASSUME NEW u, NEW m, NEW s, NEW r, Longer(r, s, m), NEW b, NEW c, Longer(c, b, m),
         Len(b) > 0, NEW places, Embeds(b, s, u, places), AtEnd(b, s, places)
  PROVE  \E q \in [1..Len(c) -> 1..Len(r)] : Embeds(c, r, u, q) /\ AtEnd(c, r, q)
<1> DEFINE h == Len(b)
           n == Len(s)
           q == [k \in 1..(h + 1) |-> IF k = h + 1 THEN n + 1 ELSE places[k]]
<1>1. /\ h \in Nat /\ n \in Nat /\ Len(c) = h + 1 /\ Len(r) = n + 1 /\ h \in 1..h
      /\ DOMAIN b = 1..h /\ DOMAIN s = 1..n
      /\ DOMAIN c = 1..(h + 1) /\ DOMAIN r = 1..(n + 1)
      /\ \A i \in 1..n : r[i] = s[i]
      /\ r[n + 1] = m
      /\ \A k \in 1..h : c[k] = b[k]
      /\ c[h + 1] = m
  BY DEF Longer
<1>2. /\ \A k \in 1..h : places[k] \in 1..n /\ s[places[k]] = b[k]
      /\ \A j, k \in 1..h : j < k => places[j] < places[k]
      /\ \A i \in 1..n : \/ s[i].by = Loop
                         \/ \E k \in 1..h : places[k] = i
                         \/ \A k \in 1..h : i < places[k]
                         \/ \A k \in 1..h : places[k] < i
      /\ \A i \in 1..n : s[i].by = u => \E k \in 1..h : places[k] = i
      /\ \A i \in 1..n : places[h] < i => s[i].by = Loop
  BY <1>1 DEF Embeds, Placed, AtEnd
<1> HIDE DEF h, n
<1>3. \A k \in 1..h : k \in 1..(h + 1) /\ k # h + 1 /\ places[k] \in 1..(n + 1)
                      /\ places[k] < n + 1
  BY <1>1, <1>2
<1>4. /\ DOMAIN q = 1..(h + 1)
      /\ q[h + 1] = n + 1
      /\ \A k \in 1..h : q[k] = places[k]
  BY <1>1, <1>3
<1>5. \A k \in 1..(h + 1) : k = h + 1 \/ k \in 1..h
  BY <1>1
<1>6. q \in [1..(h + 1) -> 1..(n + 1)]
  BY <1>1, <1>3
<1> HIDE DEF q
<1>7. \A j, k \in 1..(h + 1) : j < k => q[j] < q[k]
  <2> TAKE j, k \in 1..(h + 1)
  <2>1. CASE k = h + 1
    BY <1>1, <1>3, <1>4, <1>5, <2>1
  <2>2. CASE k \in 1..h
    BY <1>1, <1>2, <1>4, <1>5, <2>2
  <2> QED BY <1>5, <2>1, <2>2
<1>8. \A k \in 1..(h + 1) : r[q[k]] = c[k]
  BY <1>1, <1>2, <1>4, <1>5
<1>9. ASSUME NEW i \in 1..(n + 1), r[i].by # Loop
      PROVE  \/ \E k \in 1..(h + 1) : q[k] = i
             \/ \A k \in 1..(h + 1) : i < q[k]
  <2>1. CASE i = n + 1
    BY <1>1, <1>4, <2>1
  <2>2. CASE i # n + 1
    <3>1. i \in 1..n /\ s[i].by # Loop
      BY <1>1, <1>9, <2>2
    <3>2. \/ \E k \in 1..h : places[k] = i
          \/ \A k \in 1..h : i < places[k]
          \/ places[h] < i
      BY <1>1, <1>2, <3>1
    <3>3. CASE \E k \in 1..h : places[k] = i
      BY <1>3, <1>4, <3>3
    <3>4. CASE \A k \in 1..h : i < places[k]
      BY <1>1, <1>4, <1>5, <3>1, <3>4
    <3>5. ~(places[h] < i)
      BY <1>2, <3>1
    <3> QED BY <3>2, <3>3, <3>4, <3>5
  <2> QED BY <2>1, <2>2
<1>10. Placed(c, r, q)
  BY <1>1, <1>7, <1>8, <1>9 DEF Placed
<1>11. ASSUME NEW i \in 1..(n + 1), r[i].by = u PROVE \E k \in 1..(h + 1) : q[k] = i
  <2>1. CASE i = n + 1
    BY <1>1, <1>4, <2>1
  <2>2. CASE i # n + 1
    <3>1. i \in 1..n /\ s[i].by = u
      BY <1>1, <1>11, <2>2
    <3> QED BY <1>2, <1>3, <1>4, <3>1
  <2> QED BY <2>1, <2>2
<1>12. Embeds(c, r, u, q)
  BY <1>1, <1>6, <1>10, <1>11 DEF Embeds
<1>13. AtEnd(c, r, q)
  BY <1>1, <1>4 DEF AtEnd
<1> QED BY <1>1, <1>6, <1>12, <1>13

(* Others store after it; a note leaves it at the end. *)
LEMMA FollowBlock ==
  ASSUME NEW u, NEW m, NEW s, NEW r, Longer(r, s, m), NEW b \in Seq(Message), Len(b) > 0,
         m.by # u, NEW places, Embeds(b, s, u, places)
  PROVE  /\ places \in [1..Len(b) -> 1..Len(r)]
         /\ Embeds(b, r, u, places)
         /\ m.by = Loop /\ AtEnd(b, s, places) => AtEnd(b, r, places)
<1> DEFINE h == Len(b)
           n == Len(s)
<1>1. /\ h \in Nat /\ n \in Nat /\ Len(r) = n + 1
      /\ DOMAIN b = 1..h /\ DOMAIN s = 1..n /\ DOMAIN r = 1..(n + 1)
      /\ \A i \in 1..n : r[i] = s[i]
      /\ r[n + 1] = m
  BY DEF Longer
<1>2. /\ places \in [1..h -> 1..n]
      /\ \A k \in 1..h : places[k] \in 1..n /\ s[places[k]] = b[k]
      /\ \A j, k \in 1..h : j < k => places[j] < places[k]
      /\ \A i \in 1..n : \/ s[i].by = Loop
                         \/ \E k \in 1..h : places[k] = i
                         \/ \A k \in 1..h : i < places[k]
                         \/ \A k \in 1..h : places[k] < i
      /\ \A i \in 1..n : s[i].by = u => \E k \in 1..h : places[k] = i
  BY <1>1 DEF Embeds, Placed
<1>3. AtEnd(b, s, places) => \A i \in 1..n : places[h] < i => s[i].by = Loop
  BY DEF AtEnd
<1> HIDE DEF h, n
<1>4. \A i \in 1..(n + 1) : i = n + 1 \/ i \in 1..n
  BY <1>1
<1>5. places \in [1..h -> 1..(n + 1)]
  BY <1>1, <1>2
<1>6. \A k \in 1..h : r[places[k]] = b[k] /\ places[k] < n + 1
  BY <1>1, <1>2
<1>7. ASSUME NEW i \in 1..(n + 1)
      PROVE  \/ r[i].by = Loop
             \/ \E k \in 1..h : places[k] = i
             \/ \A k \in 1..h : i < places[k]
             \/ \A k \in 1..h : places[k] < i
  <2>1. CASE i = n + 1
    BY <1>6, <2>1
  <2>2. CASE i \in 1..n
    BY <1>1, <1>2, <2>2
  <2> QED BY <1>4, <2>1, <2>2
<1>8. Placed(b, r, places)
  BY <1>1, <1>2, <1>6, <1>7 DEF Placed
<1>9. \A i \in 1..(n + 1) : r[i].by = u => \E k \in 1..h : places[k] = i
  BY <1>1, <1>2, <1>4
<1>10. Embeds(b, r, u, places)
  BY <1>1, <1>5, <1>8, <1>9 DEF Embeds, h
<1>11. ASSUME m.by = Loop, AtEnd(b, s, places) PROVE AtEnd(b, r, places)
  <2>1. \A i \in 1..(n + 1) : places[h] < i => r[i].by = Loop
    BY <1>1, <1>3, <1>4, <1>11
  <2> QED BY <1>1, <2>1 DEF AtEnd, h
<1> QED BY <1>1, <1>5, <1>10, <1>11 DEF h

(* r is s without its ith message. *)
Without(r, s, i) ==
  /\ Len(s) \in Nat /\ DOMAIN s = 1..Len(s)
  /\ Len(r) = Len(s) - 1 /\ DOMAIN r = 1..(Len(s) - 1)
  /\ \A j \in 1..(Len(s) - 1) : r[j] = s[IF j < i THEN j ELSE j + 1]

LEMMA ConcatIs ==
  ASSUME NEW a \in Seq(Message), NEW z \in Seq(Message)
  PROVE  /\ a \o z \in Seq(Message)
         /\ Len(a \o z) = Len(a) + Len(z)
         /\ DOMAIN (a \o z) = 1..(Len(a) + Len(z))
         /\ \A j \in 1..(Len(a) + Len(z)) :
              (a \o z)[j] = IF j <= Len(a) THEN a[j] ELSE z[j - Len(a)]
OBVIOUS

LEMMA RemoveIs ==
  ASSUME NEW s \in Seq(Message), NEW i \in 1..Len(s)
  PROVE  RemoveAt(s, i) \in Seq(Message) /\ Without(RemoveAt(s, i), s, i)
<1> DEFINE a == SubSeq(s, 1, i - 1)
           z == SubSeq(s, i + 1, Len(s))
           n == Len(s)
<1>1. n \in Nat /\ i \in 1..n /\ DOMAIN s = 1..n
  OBVIOUS
<1>2. /\ a \in Seq(Message) /\ Len(a) = i - 1
      /\ \A j \in 1..(i - 1) : a[j] = s[j]
  BY <1>1
<1>3. /\ z \in Seq(Message) /\ Len(z) = n - i
      /\ \A j \in 1..(n - i) : z[j] = s[i + j]
  <2>1. i + 1 \in 1..(Len(s) + 1)
    BY <1>1
  <2>2. /\ z \in Seq(Message)
        /\ Len(z) = Len(s) - (i + 1) + 1
        /\ \A j \in 1..(Len(s) - (i + 1) + 1) : z[j] = s[j + ((i + 1) - 1)]
    BY <2>1, SuffixOf
  <2> HIDE DEF z, n
  <2>3. Len(s) - (i + 1) + 1 = n - i /\ \A j \in 1..(n - i) : j + ((i + 1) - 1) = i + j
    BY <1>1 DEF n
  <2> QED BY <2>2, <2>3
<1>4. RemoveAt(s, i) = a \o z
  BY DEF RemoveAt
<1> HIDE DEF a, z, n
<1>5. /\ a \o z \in Seq(Message)
      /\ Len(a \o z) = Len(a) + Len(z)
      /\ DOMAIN (a \o z) = 1..(Len(a) + Len(z))
      /\ \A j \in 1..(Len(a) + Len(z)) :
           (a \o z)[j] = IF j <= Len(a) THEN a[j] ELSE z[j - Len(a)]
  BY <1>2, <1>3, ConcatIs
<1> DEFINE r == a \o z
<1> HIDE DEF r
<1>6. /\ r \in Seq(Message) /\ Len(r) = n - 1 /\ DOMAIN r = 1..(n - 1)
      /\ \A j \in 1..(n - 1) :
           r[j] = IF j <= i - 1 THEN a[j] ELSE z[j - (i - 1)]
  <2>1. Len(a) + Len(z) = n - 1 /\ Len(a) = i - 1
    BY <1>1, <1>2, <1>3
  <2> QED BY <1>5, <2>1 DEF r
<1>7. ASSUME NEW j \in 1..(n - 1)
      PROVE  r[j] = s[IF j < i THEN j ELSE j + 1]
  <2>1. CASE j < i
    <3>1. j \in 1..(i - 1) /\ j <= i - 1
      BY <1>1, <2>1
    <3> QED BY <1>2, <1>6, <2>1, <3>1
  <2>2. CASE ~(j < i)
    <3>1. /\ j - (i - 1) \in 1..(n - i) /\ i + (j - (i - 1)) = j + 1
          /\ ~(j <= i - 1)
      BY <1>1, <2>2
    <3> QED BY <1>3, <1>6, <2>2, <3>1
  <2> QED BY <2>1, <2>2
<1> QED BY <1>1, <1>4, <1>6, <1>7 DEF Without, r, n

(* Deleting a message of another author moves the places. *)
LEMMA RemoveKeepsBlock ==
  ASSUME NEW u, NEW s, NEW r, NEW i \in 1..Len(s), Without(r, s, i), s[i].by # u,
         NEW b \in Seq(Message), Len(b) > 0, \A k \in 1..Len(b) : b[k].by = u,
         NEW places, Embeds(b, s, u, places)
  PROVE  \E q \in [1..Len(b) -> 1..Len(r)] :
           Embeds(b, r, u, q) /\ (AtEnd(b, s, places) => AtEnd(b, r, q))
<1> DEFINE h == Len(b)
           n == Len(s)
           q == [k \in 1..h |-> IF places[k] > i THEN places[k] - 1 ELSE places[k]]
           up(j) == IF j < i THEN j ELSE j + 1
<1>1. /\ h \in Nat /\ n \in Nat /\ Len(r) = n - 1 /\ h \in 1..h /\ i \in 1..n
      /\ DOMAIN b = 1..h /\ DOMAIN s = 1..n /\ DOMAIN r = 1..(n - 1)
      /\ \A j \in 1..(n - 1) : r[j] = s[up(j)]
  BY DEF Without
<1>2. /\ \A k \in 1..h : places[k] \in 1..n /\ s[places[k]] = b[k]
      /\ \A j, k \in 1..h : j < k => places[j] < places[k]
      /\ \A j \in 1..n : \/ s[j].by = Loop
                         \/ \E k \in 1..h : places[k] = j
                         \/ \A k \in 1..h : j < places[k]
                         \/ \A k \in 1..h : places[k] < j
      /\ \A j \in 1..n : s[j].by = u => \E k \in 1..h : places[k] = j
  BY <1>1 DEF Embeds, Placed
<1>3. AtEnd(b, s, places) => \A j \in 1..n : places[h] < j => s[j].by = Loop
  BY DEF AtEnd
<1>4. \A k \in 1..h : places[k] # i
  BY <1>2
<1> HIDE DEF h, n
<1>5. \A k \in 1..h : q[k] \in 1..(n - 1) /\ up(q[k]) = places[k]
  BY <1>1, <1>2, <1>4
<1>6. q \in [1..h -> 1..(n - 1)]
  BY <1>5
<1>7. /\ \A j, k \in 1..(n - 1) : j < k <=> up(j) < up(k)
      /\ \A j, k \in 1..(n - 1) : up(j) = up(k) => j = k
      /\ \A j \in 1..(n - 1) : up(j) \in 1..n
  BY <1>1
<1> HIDE DEF q, up
<1>8. ASSUME NEW j \in 1..h, NEW k \in 1..h, j < k PROVE q[j] < q[k]
  <2>1. up(q[j]) < up(q[k])
    BY <1>2, <1>5, <1>8
  <2>2. q[j] \in 1..(n - 1) /\ q[k] \in 1..(n - 1)
    BY <1>5
  <2> QED BY <1>7, <2>1, <2>2
<1>9. \A k \in 1..h : r[q[k]] = b[k]
  BY <1>1, <1>2, <1>5
<1>10. ASSUME NEW j \in 1..(n - 1)
       PROVE  \/ r[j].by = Loop
              \/ \E k \in 1..h : q[k] = j
              \/ \A k \in 1..h : j < q[k]
              \/ \A k \in 1..h : q[k] < j
  <2>1. up(j) \in 1..n /\ r[j] = s[up(j)]
    BY <1>1, <1>7
  <2>2. CASE \E k \in 1..h : places[k] = up(j)
    BY <1>5, <1>7, <2>2
  <2>3. CASE \A k \in 1..h : up(j) < places[k]
    BY <1>5, <1>7, <2>3
  <2>4. CASE \A k \in 1..h : places[k] < up(j)
    BY <1>5, <1>7, <2>4
  <2> QED BY <1>2, <2>1, <2>2, <2>3, <2>4
<1>11. Placed(b, r, q)
  BY <1>1, <1>8, <1>9, <1>10 DEF Placed
<1>12. ASSUME NEW j \in 1..(n - 1), r[j].by = u PROVE \E k \in 1..h : q[k] = j
  <2>1. up(j) \in 1..n /\ s[up(j)].by = u
    BY <1>1, <1>7, <1>12
  <2>2. PICK k \in 1..h : places[k] = up(j)
    BY <1>2, <2>1
  <2> QED BY <1>5, <1>7, <2>2
<1>13. Embeds(b, r, u, q)
  BY <1>1, <1>6, <1>11, <1>12 DEF Embeds, h
<1>14. ASSUME AtEnd(b, s, places) PROVE AtEnd(b, r, q)
  <2>1. ASSUME NEW j \in 1..(n - 1), q[h] < j PROVE r[j].by = Loop
    <3>1. places[h] < up(j) /\ up(j) \in 1..n
      BY <1>1, <1>5, <1>7, <2>1
    <3> QED BY <1>1, <1>3, <1>14, <3>1
  <2> QED BY <1>1, <2>1 DEF AtEnd, h
<1> QED BY <1>1, <1>6, <1>13, <1>14 DEF h

-----------------------------------------------------------------------------
(* Places without a note between them are consecutive. *)

LEMMA Consecutive ==
  ASSUME NEW b \in Seq(Message), NEW s, Len(s) \in Nat, DOMAIN s = 1..Len(s),
         NEW u, NEW places, Embeds(b, s, u, places),
         NEW a \in 1..Len(b), NEW c \in a..Len(b),
         \A j \in places[a]..places[c] : s[j].by # Loop
  PROVE  \A k \in a..c : places[k] = places[a] + (k - a)
<1> DEFINE h == Len(b)
           n == Len(s)
           T == {k \in a..c : places[k] # places[a] + (k - a)}
<1>1. h \in Nat /\ n \in Nat /\ DOMAIN b = 1..h /\ a \in 1..h /\ c \in a..h /\ DOMAIN s = 1..n
  OBVIOUS
<1>2. /\ \A k \in 1..h : places[k] \in 1..n
      /\ \A j, k \in 1..h : j < k => places[j] < places[k]
      /\ \A j \in 1..n : \/ s[j].by = Loop
                         \/ \E k \in 1..h : places[k] = j
                         \/ \A k \in 1..h : j < places[k]
                         \/ \A k \in 1..h : places[k] < j
  BY <1>1 DEF Embeds, Placed
<1>3. SUFFICES ASSUME T # {} PROVE FALSE
  OBVIOUS
<1>4. T \in SUBSET (1..h)
  BY <1>1
<1>5. PICK k \in T : \A x \in T : k <= x
  BY <1>1, <1>3, <1>4, LeastExists
<1> HIDE DEF h, n
<1>6. k \in a..c /\ k # a /\ places[k] # places[a] + (k - a)
  BY <1>1, <1>2
<1>7. k - 1 \in a..c /\ k - 1 \notin T /\ k - 1 \in 1..h /\ k \in 1..h
  <2>1. k - 1 \in a..c /\ k - 1 \in 1..h /\ k \in 1..h /\ ~(k <= k - 1)
    BY <1>1, <1>6
  <2> QED BY <1>5, <2>1
<1>8. places[k - 1] = places[a] + ((k - 1) - a)
  BY <1>7
<1> HIDE DEF T
<1> DEFINE p == places[k - 1] + 1
<1>9. places[k - 1] \in 1..n /\ places[k] \in 1..n /\ places[k - 1] < places[k]
      /\ places[a] \in 1..n /\ places[c] \in 1..n
      /\ places[a] <= places[k - 1] /\ places[k] <= places[c]
  <2>1. places[k - 1] \in 1..n /\ places[k] \in 1..n /\ places[k - 1] < places[k]
        /\ places[a] \in 1..n /\ places[c] \in 1..n
    BY <1>1, <1>2, <1>7
  <2>2. places[a] <= places[k - 1]
    BY <1>1, <1>7, <1>8, <2>1
  <2>3. places[k] <= places[c]
    <3>1. k = c \/ (k < c /\ c \in 1..h)
      BY <1>1, <1>6
    <3> QED BY <1>2, <1>7, <2>1, <3>1
  <2> QED BY <2>1, <2>2, <2>3
<1>10. p # places[k] /\ p < places[k] /\ p \in 1..n /\ p \in places[a]..places[c]
  <2>1. p = places[a] + (k - a)
    <3>1. places[a] \in Int /\ a \in Int /\ k \in Int
      BY <1>1, <1>6, <1>9
    <3> QED BY <1>8, <3>1
  <2>2. p # places[k]
    BY <1>6, <2>1
  <2> HIDE DEF p
  <2>3. p = places[k - 1] + 1
    BY DEF p
  <2> DEFINE x == places[k - 1]
             y == places[k]
             v == places[a]
             w == places[c]
  <2>4. p = x + 1 /\ p # y /\ x \in 1..n /\ y \in 1..n /\ x < y
        /\ v \in 1..n /\ w \in 1..n /\ v <= x /\ y <= w
    BY <1>9, <2>2, <2>3
  <2> HIDE DEF x, y, v, w
  <2>5. p # y /\ p < y /\ p \in 1..n /\ p \in v..w
    BY <1>1, <2>4
  <2> QED BY <2>5 DEF x, y, v, w
<1>11. PICK m \in 1..h : places[m] = p
  <2>1. s[p].by # Loop
    BY <1>10
  <2>2. ~(p < places[k - 1]) /\ ~(places[k] < p)
    BY <1>9, <1>10
  <2> QED BY <1>2, <1>7, <1>10, <2>1, <2>2
<1>12. places[k - 1] < places[m] /\ places[m] < places[k] /\ m \in 1..h
  BY <1>9, <1>10, <1>11
<1> HIDE DEF p
<1>13. ~(m < k - 1) /\ ~(k < m)
  <2>1. \A j \in 1..h : places[j] \in Int
    BY <1>2
  <2>2. m < k - 1 => places[m] < places[k - 1]
    BY <1>2, <1>7, <1>12
  <2>3. k < m => places[k] < places[m]
    BY <1>2, <1>7, <1>12
  <2> QED BY <1>7, <1>12, <2>1, <2>2, <2>3
<1>14. m # k - 1 /\ m # k
  BY <1>7, <1>9, <1>12
<1> QED BY <1>1, <1>6, <1>12, <1>13, <1>14

-----------------------------------------------------------------------------
(* Calls and results in a conversation *)

(* A message of a sequence of messages. *)
LEMMA MessageAt ==
  ASSUME NEW s \in Seq(Message), NEW i \in 1..Len(s)
  PROVE  /\ s[i] \in Message /\ s[i].n \in Nat
         /\ s[i].by \in Turn \cup {Loop}
         /\ s[i].role \in {"user", "text", "calls", "result"}
<1>1. s[i] \in Message
  OBVIOUS
<1> QED BY <1>1 DEF Message

(* A block that pairs its calls and results is linked wherever it stands.  *)
LEMMA BlockLinked ==
  ASSUME NEW u, u # Loop, NEW b \in Seq(Message), \A k \in 1..Len(b) : b[k].by = u,
         Paired(b, u), NEW s, Len(s) \in Nat, DOMAIN s = 1..Len(s), NotesOnly(s),
         NEW places, Embeds(b, s, u, places)
  PROVE  Linked(s, u, Len(s))
<1> DEFINE h == Len(b)
           n == Len(s)
<1>1. /\ h \in Nat /\ n \in Nat /\ DOMAIN b = 1..h /\ DOMAIN s = 1..n
      /\ \A k \in 1..h : b[k].by = u /\ b[k].n \in Nat
      /\ \A i \in 1..n : s[i].by = Loop => s[i].role # "user"
  BY MessageAt DEF NotesOnly
<1>2. /\ \A k \in 1..h : places[k] \in 1..n /\ s[places[k]] = b[k]
      /\ \A j, k \in 1..h : j < k => places[j] < places[k]
      /\ \A i \in 1..n : \/ s[i].by = Loop
                         \/ \E k \in 1..h : places[k] = i
                         \/ \A k \in 1..h : i < places[k]
                         \/ \A k \in 1..h : places[k] < i
      /\ \A i \in 1..n : s[i].by = u => \E k \in 1..h : places[k] = i
  BY <1>1 DEF Embeds, Placed
<1>3. ASSUME NEW a \in 1..h, NEW c \in a..h, \A j \in places[a]..places[c] : s[j].by # Loop
      PROVE  \A k \in a..c : places[k] = places[a] + (k - a)
  BY <1>3, Consecutive
<1>4. ASSUME NEW a \in 1..h, b[a].role = "calls"
      PROVE  /\ a + b[a].n \in 1..h
             /\ \A m \in (a + 1)..(a + b[a].n) : b[m] = Result(u, m - a)
  <2>1. Answered(b, a)
    BY <1>1, <1>4 DEF Paired
  <2>2. \A k \in 1..b[a].n : a + k \in 1..h /\ b[a + k] = Result(u, k)
    BY <1>1, <2>1 DEF Answered
  <2>3. b[a].n \in Nat
    BY <1>1
  <2> HIDE DEF h
  <2>4. b[a].n = 0 \/ b[a].n \in 1..b[a].n
    BY <2>3
  <2>5. \A m \in (a + 1)..(a + b[a].n) : m - a \in 1..b[a].n /\ a + (m - a) = m
    BY <1>1, <2>3
  <2> QED BY <1>1, <2>2, <2>3, <2>4, <2>5
<1>5. ASSUME NEW c \in 1..h, b[c].role = "result"
      PROVE  LET a == c - b[c].n
             IN  a \in 1..h /\ b[a].role = "calls" /\ b[a].n >= b[c].n /\ b[a].by = u
  <2>1. Issued(b, c)
    BY <1>1, <1>5 DEF Paired
  <2> QED BY <1>1, <2>1 DEF Issued
<1>6. \A a, k : Result(a, k).role = "result"
  BY DEF Result
<1> HIDE DEF h, n
<1>7. ASSUME NEW a \in 1..h, NEW c \in a..h,
             NEW i \in places[a]..places[c], s[i].by # Loop
      PROVE  \E m \in a..c : places[m] = i
  <2>1. i \in 1..n /\ c \in 1..h /\ places[a] <= i /\ i <= places[c]
    BY <1>1, <1>2
  <2>2. ~(i < places[a]) /\ ~(places[c] < i)
    BY <1>2, <2>1
  <2>3. PICK m \in 1..h : places[m] = i
    BY <1>2, <1>7, <2>1, <2>2
  <2>4. ~(m < a) /\ ~(c < m)
    BY <1>2, <2>1, <2>2, <2>3
  <2> QED BY <1>1, <2>3, <2>4
<1>8. ASSUME NEW i \in 1..n, s[i].by = u, s[i].role = "result"
      PROVE  ResultLinked(s, i)
  <2>1. PICK c \in 1..h : places[c] = i
    BY <1>2, <1>8
  <2> DEFINE a == c - b[c].n
  <2>2. s[i] = b[c] /\ b[c].role = "result" /\ b[c].n \in Nat
    BY <1>1, <1>2, <1>8, <2>1
  <2>3. a \in 1..h /\ b[a].role = "calls" /\ b[a].n >= b[c].n /\ b[a].by = u
    BY <1>5, <2>2
  <2>4. c \in a..h /\ c <= a + b[a].n /\ a < c /\ b[a].n \in Nat
    <3>1. a # c
      BY <2>2, <2>3
    <3>2. b[a].n \in Nat
      BY <1>1, <2>3
    <3> QED BY <1>1, <2>2, <2>3, <3>1, <3>2
  <2>5. \A m \in (a + 1)..c : b[m].role = "result"
    <3>1. \A m \in (a + 1)..(a + b[a].n) : b[m] = Result(u, m - a)
      BY <1>4, <2>3
    <3> HIDE DEF a
    <3>2. \A m \in (a + 1)..c : m \in (a + 1)..(a + b[a].n)
      BY <1>1, <2>3, <2>4
    <3> QED BY <1>6, <3>1, <3>2
  <2>6. c - a = b[c].n
    BY <1>1, <2>2
  <2> HIDE DEF a
  <2>7. places[a] \in 1..n /\ places[a] < i /\ s[places[a]] = b[a]
    BY <1>2, <2>1, <2>3, <2>4
  <2>8. ASSUME NEW l \in (places[a] + 1)..i, s[l].by # Loop
        PROVE  s[l].role = "result"
    <3>1. l \in places[a]..places[c]
      BY <2>1, <2>7
    <3>2. PICK m \in a..c : places[m] = l
      BY <1>7, <2>3, <2>4, <2>8, <3>1
    <3>3. m # a
      BY <2>7, <3>2
    <3>4. m \in (a + 1)..c /\ m \in 1..h
      BY <1>1, <2>3, <3>2, <3>3
    <3> QED BY <1>2, <2>5, <3>2, <3>4
  <2> DEFINE T == {j \in places[a]..i : s[j].by = Loop}
  <2>9. CASE T = {}
    <3>1. \A j \in places[a]..places[c] : s[j].by # Loop
      BY <2>1, <2>9
    <3>2. places[c] = places[a] + (c - a)
      BY <1>3, <2>3, <2>4, <3>1
    <3>3. i - s[i].n = places[a]
      BY <1>1, <2>1, <2>2, <2>3, <2>6, <2>7, <3>2
    <3>4. Issued(s, i)
      BY <1>1, <1>8, <2>2, <2>3, <2>7, <3>3 DEF Issued
    <3>5. \A l \in (places[a] + 1)..i : s[l].role = "result"
      BY <2>7, <2>8, <2>9
    <3>6. places[a] \in 1..(i - 1)
      BY <2>7
    <3> QED BY <3>3, <3>4, <3>5, <3>6 DEF ResultLinked
  <2>10. CASE T # {}
    <3>1. T \in SUBSET (1..n)
      BY <1>1, <2>7
    <3>2. PICK j \in T : \A x \in T : j >= x
      BY <1>1, <2>10, <3>1, GreatestExists
    <3>3. j \in places[a]..i /\ s[j].by = Loop /\ j # i
      BY <1>8, <3>2
    <3>4. j \in 1..(i - 1)
      BY <2>7, <3>3
    <3>5. ASSUME NEW l \in (j + 1)..i PROVE s[l].role = "result"
      <4>1. l \in (places[a] + 1)..i /\ l \in places[a]..i /\ ~(j >= l)
        BY <2>7, <3>3, <3>5
      <4>2. s[l].by # Loop
        BY <3>2, <4>1
      <4> QED BY <2>8, <4>1, <4>2
    <3> QED BY <3>3, <3>4, <3>5 DEF ResultLinked
  <2> QED BY <2>9, <2>10
<1>9. ASSUME NEW i \in 1..n, s[i].by = u, s[i].role = "calls"
      PROVE  CallsLinked(s, u, i)
  <2>1. PICK a \in 1..h : places[a] = i
    BY <1>2, <1>9
  <2> DEFINE c == a + b[a].n
  <2>2. s[i] = b[a] /\ b[a].role = "calls" /\ b[a].n \in Nat /\ i \in 1..n
    BY <1>1, <1>2, <1>9, <2>1
  <2>3. c \in 1..h /\ \A m \in (a + 1)..c : b[m] = Result(u, m - a)
    BY <1>4, <2>2
  <2>4. c \in a..h /\ c - a = b[a].n
    BY <1>1, <2>2, <2>3
  <2> HIDE DEF c
  <2>5. places[c] \in 1..n /\ s[places[c]] = b[c] /\ (a = c \/ i < places[c])
    BY <1>1, <1>2, <2>1, <2>3, <2>4
  <2>6. CASE \E j \in i..places[c] : s[j].by = Loop
    <3>1. PICK j \in i..places[c] : s[j].by = Loop
      BY <2>6
    <3>2. j # i /\ j # places[c] /\ s[places[c]].by = u
      BY <1>1, <1>9, <2>3, <2>5, <3>1
    <3>3. j \in 1..n /\ i < j /\ j < places[c]
      BY <1>1, <2>2, <2>5, <3>1, <3>2
    <3>4. ASSUME NEW l \in j..places[c] PROVE s[l].role # "user"
      <4>1. l \in places[a]..places[c] /\ l \in 1..n /\ i < l
        BY <1>1, <2>1, <2>2, <2>5, <3>3, <3>4
      <4>2. CASE s[l].by = Loop
        BY <1>1, <4>1, <4>2
      <4>3. CASE s[l].by # Loop
        <5>1. PICK m \in a..c : places[m] = l
          BY <1>7, <2>4, <4>1, <4>3
        <5>2. m # a
          BY <2>1, <4>1, <5>1
        <5>3. m \in (a + 1)..c /\ m \in 1..h
          BY <1>1, <2>3, <5>1, <5>2
        <5>4. s[l].role = "result"
          BY <1>2, <1>6, <2>3, <5>1, <5>3
        <5> QED BY <5>4
      <4> QED BY <4>2, <4>3
    <3>5. places[c] \in 1..Len(s) /\ j \in 1..Len(s)
      BY <2>5, <3>3 DEF n
    <3> QED BY <3>1, <3>2, <3>3, <3>4, <3>5 DEF CallsLinked
  <2>7. CASE ~ \E j \in i..places[c] : s[j].by = Loop
    <3>1. \A k \in a..c : places[k] = places[a] + (k - a)
      BY <1>3, <2>1, <2>4, <2>7
    <3>2. ASSUME NEW k \in 1..s[i].n
          PROVE  i + k \in DOMAIN s /\ s[i + k] = Result(s[i].by, k)
      <4>1. a + k \in a..c /\ a + k \in 1..h /\ a + k \in (a + 1)..c /\ (a + k) - a = k
        BY <1>1, <2>2, <2>3, <2>4, <3>2
      <4>2. places[a + k] = i + k
        BY <2>1, <3>1, <4>1
      <4>3. b[a + k] = Result(u, k)
        BY <2>3, <4>1
      <4> QED BY <1>1, <1>2, <1>9, <4>1, <4>2, <4>3
    <3> QED BY <3>2 DEF Answered, CallsLinked
  <2> QED BY <2>6, <2>7
<1> QED BY <1>8, <1>9 DEF Linked, n

(* The window keeps it: a cut that would leave a result without its call   *)
(* drops the result as well.                                               *)
LEMMA LinkedSlide ==
  ASSUME NEW u, NEW s \in Seq(Message), Linked(s, u, Len(s))
  PROVE  Linked(Slide(s), u, Len(Slide(s)))
<1>1. PICK d \in 0..Len(s) :
        /\ Len(Slide(s)) = Len(s) - d
        /\ \A i \in 1..(Len(s) - d) : Slide(s)[i] = s[i + d]
        /\ Slide(s) \in Seq(Message)
        /\ d > 0 /\ d < Len(s) => Slide(s)[1].role # "result"
  BY SlideKeepsSuffix
<1> DEFINE w == Slide(s)
           n == Len(s) - d
<1>2. /\ n \in Nat /\ d \in Nat /\ Len(s) = n + d /\ Len(w) = n
      /\ DOMAIN w = 1..n /\ DOMAIN s = 1..(n + d)
      /\ \A i \in 1..n : w[i] = s[i + d] /\ s[i + d].n \in Nat
      /\ d > 0 /\ n > 0 => w[1].role # "result"
  <2>1. \A i \in 1..n : i + d \in 1..Len(s)
    OBVIOUS
  <2> QED BY <1>1, <2>1, MessageAt
<1> HIDE DEF w, n
<1>3. ASSUME NEW i \in 1..n, w[i].by = u
      PROVE  /\ i + d \in 1..(n + d) /\ w[i] = s[i + d] /\ s[i + d].n \in Nat
             /\ s[i + d].role = "result" => ResultLinked(s, i + d)
             /\ s[i + d].role = "calls" => CallsLinked(s, u, i + d)
  <2>1. i + d \in 1..Len(s) /\ i + d <= Len(s) /\ i + d \in 1..(n + d)
    BY <1>2
  <2>2. w[i] = s[i + d] /\ s[i + d].n \in Nat
    BY <1>2
  <2> QED BY <1>3, <2>1, <2>2 DEF Linked
<1>4. ASSUME NEW i \in 1..n, w[i].by = u, w[i].role = "result"
      PROVE  ResultLinked(w, i)
  <2> DEFINE e == i + d
  <2>1. /\ e \in 1..(n + d) /\ w[i] = s[e] /\ e = i + d
        /\ s[e].by = u /\ s[e].role = "result" /\ s[e].n \in Nat
        /\ ResultLinked(s, e)
    BY <1>3, <1>4
  <2> HIDE DEF e
  <2>2. PICK j \in 1..(e - 1) :
          /\ \A l \in (j + 1)..e : s[l].role = "result"
          /\ s[j].by = Loop \/ (Issued(s, e) /\ j = e - s[e].n)
    BY <2>1 DEF ResultLinked
  <2>3. j > d
    <3>1. SUFFICES ASSUME j <= d PROVE FALSE
      BY <1>2, <2>2
    <3>2. 1 + d \in (j + 1)..e /\ d > 0 /\ n > 0 /\ 1 \in 1..n
      BY <1>2, <2>1, <2>2, <3>1
    <3> QED BY <1>2, <2>2, <3>2
  <2> DEFINE p == j - d
  <2>4. p \in 1..(i - 1) /\ p \in 1..n /\ p + d = j
    BY <1>2, <2>1, <2>2, <2>3
  <2> HIDE DEF p
  <2>5. ASSUME NEW l \in (p + 1)..i PROVE w[l].role = "result"
    <3>1. p \in Int /\ d \in Int /\ i \in Int /\ l \in Int /\ n \in Int /\ i <= n /\ 1 <= p
      BY <1>2, <2>4, <2>5
    <3>2. p + 1 <= l /\ l <= i
      BY <2>5, <3>1
    <3>3. l \in 1..n
      BY <3>1, <3>2
    <3>4. l + d \in (j + 1)..e
      BY <2>1, <2>4, <3>1, <3>2
    <3> QED BY <1>2, <2>2, <3>3, <3>4
  <2>6. w[p] = s[j]
    BY <1>2, <2>4
  <2>7. ASSUME Issued(s, e), j = e - s[e].n
        PROVE  Issued(w, i) /\ p = i - w[i].n
    <3>1. p = i - w[i].n
      <4> DEFINE x == s[e].n
      <4>1. w[i].n = x /\ x \in Int /\ j = e - x
        BY <2>1, <2>7
      <4> HIDE DEF x
      <4>2. i \in Int /\ d \in Int /\ p \in Int
        BY <1>2, <2>4
      <4>3. p = i - x
        BY <2>1, <2>4, <4>1, <4>2
      <4> QED BY <4>1, <4>3
    <3>2. s[j].role = "calls" /\ s[j].by = s[e].by /\ s[j].n >= s[e].n
      BY <2>7 DEF Issued
    <3> QED BY <1>2, <2>1, <2>4, <2>6, <3>1, <3>2 DEF Issued
  <2> QED BY <2>2, <2>4, <2>5, <2>6, <2>7 DEF ResultLinked
<1>5. ASSUME NEW i \in 1..n, w[i].by = u, w[i].role = "calls"
      PROVE  CallsLinked(w, u, i)
  <2>1. /\ i + d \in 1..(n + d) /\ s[i + d].by = u /\ w[i] = s[i + d]
        /\ CallsLinked(s, u, i + d)
    BY <1>3, <1>5
  <2>2. CASE Answered(s, i + d)
    <3>1. ASSUME NEW k \in 1..w[i].n
          PROVE  i + k \in DOMAIN w /\ w[i + k] = Result(w[i].by, k)
      <4>1. (i + d) + k \in 1..(n + d) /\ s[(i + d) + k] = Result(w[i].by, k)
        BY <1>2, <2>1, <2>2 DEF Answered
      <4>2. i + k \in 1..n /\ (i + k) + d = (i + d) + k
        BY <1>2, <2>1, <4>1
      <4> QED BY <1>2, <4>1, <4>2
    <3> QED BY <3>1 DEF Answered, CallsLinked
  <2>3. CASE ~Answered(s, i + d)
    <3>1. PICK j \in 1..(n + d), k \in 1..(n + d) :
               /\ i + d < j /\ j < k /\ s[j].by = Loop /\ s[k].by = u
               /\ \A l \in j..k : s[l].role # "user"
      BY <1>2, <2>1, <2>3 DEF CallsLinked
    <3> DEFINE p == j - d
               q == k - d
    <3>2. p \in 1..n /\ q \in 1..n /\ i < p /\ p < q /\ p + d = j /\ q + d = k
      BY <1>2, <3>1
    <3> HIDE DEF p, q
    <3>3. \A l \in p..q : l \in 1..n /\ l + d \in j..k
      BY <1>2, <3>2
    <3>4. w[p].by = Loop /\ w[q].by = u
      BY <1>2, <3>1, <3>2
    <3>5. \A l \in p..q : w[l].role # "user"
      BY <1>2, <3>1, <3>3
    <3> QED BY <1>2, <3>2, <3>4, <3>5 DEF CallsLinked
  <2> QED BY <2>2, <2>3
<1>6. Linked(w, u, n)
  BY <1>2, <1>4, <1>5 DEF Linked
<1> QED BY <1>2, <1>6 DEF w

(* What goes on does not unlink what is linked. *)
LEMMA LinkedPrefix ==
  ASSUME NEW u, NEW s, NEW r, NEW n \in Nat, NEW m \in Nat, m >= n,
         Len(s) = n, DOMAIN s = 1..n, Len(r) = m, DOMAIN r = 1..m,
         \A i \in 1..n : r[i] = s[i] /\ s[i].n \in Nat,
         NEW c, Linked(s, u, c),
         NEW i \in 1..n, r[i].by = u
  PROVE  /\ r[i].role = "result" => ResultLinked(r, i)
         /\ r[i].role = "calls" /\ i <= c => CallsLinked(r, u, i)
<1>1. ASSUME r[i].role = "result" PROVE ResultLinked(r, i)
  <2>1. PICK j \in 1..(i - 1) :
          /\ \A l \in (j + 1)..i : s[l].role = "result"
          /\ s[j].by = Loop \/ (Issued(s, i) /\ j = i - s[i].n)
    BY <1>1 DEF Linked, ResultLinked
  <2>2. j \in 1..n /\ \A l \in (j + 1)..i : l \in 1..n
    OBVIOUS
  <2>3. \A l \in (j + 1)..i : r[l].role = "result"
    BY <2>1, <2>2
  <2>4. ASSUME Issued(s, i), j = i - s[i].n PROVE Issued(r, i) /\ j = i - r[i].n
    BY <2>2, <2>4 DEF Issued
  <2> QED BY <2>1, <2>2, <2>3, <2>4 DEF ResultLinked
<1>2. ASSUME r[i].role = "calls", i <= c PROVE CallsLinked(r, u, i)
  <2>1. CallsLinked(s, u, i)
    BY <1>2 DEF Linked
  <2>2. CASE Answered(s, i)
    BY <2>2 DEF Answered, CallsLinked
  <2>3. CASE ~Answered(s, i)
    <3>1. PICK j \in 1..n, k \in 1..n :
               /\ i < j /\ j < k /\ s[j].by = Loop /\ s[k].by = u
               /\ \A l \in j..k : s[l].role # "user"
      BY <2>1, <2>3 DEF CallsLinked
    <3>2. j \in 1..m /\ k \in 1..m /\ \A l \in j..k : l \in 1..n
      OBVIOUS
    <3>3. r[j].by = Loop /\ r[k].by = u /\ \A l \in j..k : r[l].role # "user"
      BY <3>1, <3>2
    <3> QED BY <3>1, <3>2, <3>3 DEF CallsLinked
  <2> QED BY <2>2, <2>3
<1> QED BY <1>1, <1>2

LEMMA LinkedAppend ==
  ASSUME NEW u, NEW s \in Seq(Message), NEW m \in Message,
         m.by = u => m.role # "result", Linked(s, u, Len(s))
  PROVE  /\ Linked(Append(s, m), u, Len(s))
         /\ ~(m.by = u /\ m.role = "calls") => Linked(Append(s, m), u, Len(s) + 1)
<1> DEFINE r == Append(s, m)
           n == Len(s)
<1>1. /\ n \in Nat /\ DOMAIN s = 1..n /\ Len(r) = n + 1 /\ DOMAIN r = 1..(n + 1)
      /\ \A i \in 1..n : r[i] = s[i] /\ s[i].n \in Nat
      /\ r[n + 1] = m
      /\ n + 1 \in Nat /\ n + 1 >= n /\ Len(s) = n /\ Linked(s, u, n)
  BY AppendIs, MessageAt
<1> HIDE DEF r, n
<1>2. ASSUME NEW i \in 1..n, r[i].by = u
      PROVE  /\ r[i].role = "result" => ResultLinked(r, i)
             /\ r[i].role = "calls" => CallsLinked(r, u, i)
  <2>1. i <= n
    BY <1>1
  <2> QED BY <1>1, <1>2, <2>1, LinkedPrefix
<1>3. \A i \in 1..(n + 1) : i = n + 1 \/ i \in 1..n
  BY <1>1
<1>4. Linked(r, u, n)
  <2>1. ~(n + 1 <= n)
    BY <1>1
  <2> QED BY <1>1, <1>2, <1>3, <2>1 DEF Linked
<1>5. ASSUME ~(m.by = u /\ m.role = "calls") PROVE Linked(r, u, n + 1)
  BY <1>1, <1>2, <1>3, <1>5 DEF Linked
<1> QED BY <1>1, <1>4, <1>5 DEF r

(* The results of the last calls come at the end. *)
LEMMA LinkedResults ==
  ASSUME NEW t \in Turn, NEW s \in Seq(Message), Len(s) > 0,
         s[Len(s)].by = t, s[Len(s)].role = "calls",
         NEW u, Linked(s, u, Len(s) - 1)
  PROVE  LET r == [k \in 1..s[Len(s)].n |-> Result(t, k)]
         IN  Linked(s \o r, u, Len(s \o r))
<1> DEFINE n == Len(s)
           c == s[n].n
           r == [k \in 1..c |-> Result(t, k)]
           w == s \o r
<1>1. n \in Nat /\ n \in 1..n /\ DOMAIN s = 1..n /\ \A i \in 1..n : s[i].n \in Nat
  BY MessageAt
<1>2. /\ c \in Nat
      /\ r \in Seq(Message) /\ Len(r) = c /\ \A k \in 1..c : r[k] = Result(t, k)
  <2>1. c \in Nat
    BY <1>1
  <2> HIDE DEF c
  <2>2. \A k \in 1..c : Result(t, k) \in Message
    <3> TAKE k \in 1..c
    <3>1. k \in Nat /\ t \in Turn \cup {Loop} /\ TRUE \in BOOLEAN
      BY <2>1
    <3> QED BY <3>1, MessageTypes
  <2> QED BY <2>1, <2>2
<1> HIDE DEF r, c
<1>3. /\ w \in Seq(Message) /\ Len(w) = n + c /\ DOMAIN w = 1..(n + c)
      /\ \A i \in 1..n : w[i] = s[i]
      /\ \A k \in 1..c : w[n + k] = Result(t, k)
  <2>1. /\ w \in Seq(Message)
        /\ Len(w) = Len(s) + Len(r)
        /\ DOMAIN w = 1..(Len(s) + Len(r))
        /\ \A j \in 1..(Len(s) + Len(r)) :
             w[j] = IF j <= Len(s) THEN s[j] ELSE r[j - Len(s)]
    BY <1>2, ConcatIs
  <2> HIDE DEF w, n
  <2>2. Len(s) = n
    BY DEF n
  <2>3. \A k \in 1..c : ~(n + k <= n) /\ (n + k) - n = k /\ n + k \in 1..(n + c)
    BY <1>1, <1>2
  <2>4. \A i \in 1..n : i <= n /\ i \in 1..(n + c)
    BY <1>1, <1>2
  <2>5. ASSUME NEW i \in 1..n PROVE w[i] = s[i]
    BY <1>2, <2>1, <2>2, <2>4
  <2>6. ASSUME NEW k \in 1..c PROVE w[n + k] = Result(t, k)
    <3>1. w[n + k] = r[(n + k) - n]
      BY <1>2, <2>1, <2>2, <2>3
    <3> QED BY <1>2, <2>3, <3>1
  <2> QED BY <1>2, <2>1, <2>2, <2>5, <2>6
<1>4. s[n].by = t /\ s[n].role = "calls" /\ s[n].n = c
  BY DEF c
<1>5. Len(s) = n /\ Linked(s, u, n - 1)
  OBVIOUS
<1> HIDE DEF w, n
<1>5a. ASSUME NEW i \in 1..n, w[i].by = u
       PROVE  /\ w[i].role = "result" => ResultLinked(w, i)
              /\ w[i].role = "calls" /\ i # n => CallsLinked(w, u, i)
  <2>1. n + c \in Nat /\ n + c >= n /\ (i # n => i <= n - 1)
    BY <1>1, <1>2
  <2> QED BY <1>1, <1>3, <1>5, <1>5a, <2>1, LinkedPrefix
<1>6. /\ \A k \in 1..c : w[n + k].role = "result" /\ w[n + k].n = k /\ w[n + k].by = t
      /\ w[n].by = t /\ w[n].role = "calls" /\ w[n].n = c
  <2>1. ASSUME NEW k \in 1..c
        PROVE  w[n + k].role = "result" /\ w[n + k].n = k /\ w[n + k].by = t
    <3>1. w[n + k] = Result(t, k)
      BY <1>3
    <3> QED BY <3>1 DEF Result
  <2>2. w[n] = s[n]
    BY <1>1, <1>3
  <2> QED BY <1>4, <2>1, <2>2
<1>7. Answered(w, n)
  <2>1. \A k \in 1..c : n + k \in 1..(n + c) /\ w[n + k] = Result(t, k)
    BY <1>1, <1>2, <1>3
  <2>2. w[n].n = c /\ w[n].by = t /\ DOMAIN w = 1..(n + c)
    BY <1>3, <1>6
  <2> QED BY <2>1, <2>2 DEF Answered
<1>8. ASSUME NEW i \in (n + 1)..(n + c)
      PROVE  /\ n \in 1..(i - 1) /\ n = i - w[i].n /\ Issued(w, i)
             /\ \A l \in (n + 1)..i : w[l].role = "result"
             /\ w[i].role # "calls"
  <2> DEFINE k == i - n
  <2>1. k \in 1..c /\ i = n + k /\ k \in Nat
    BY <1>1, <1>2
  <2> HIDE DEF k
  <2>2. w[i].role = "result" /\ w[i].n = k /\ w[i].by = t
    BY <1>6, <2>1
  <2>3. n = i - w[i].n /\ n \in 1..(i - 1) /\ c >= k
    BY <1>1, <1>2, <2>1, <2>2
  <2>4. Issued(w, i)
    BY <1>1, <1>2, <1>3, <1>6, <2>2, <2>3 DEF Issued
  <2>5. ASSUME NEW l \in (n + 1)..i PROVE w[l].role = "result"
    <3>1. l - n \in 1..c /\ n + (l - n) = l
      BY <1>1, <1>2, <2>1, <2>5
    <3> QED BY <1>6, <3>1
  <2> QED BY <2>2, <2>3, <2>4, <2>5
<1>9. \A i \in 1..(n + c) : i \in (n + 1)..(n + c) \/ i = n \/ i \in 1..n
  BY <1>1, <1>2
<1>10. ASSUME NEW i \in 1..(n + c), w[i].by = u, w[i].role = "result"
       PROVE  ResultLinked(w, i)
  <2>1. CASE i \in (n + 1)..(n + c)
    BY <1>8, <2>1 DEF ResultLinked
  <2> QED BY <1>1, <1>5a, <1>9, <1>10, <2>1
<1>11. ASSUME NEW i \in 1..(n + c), w[i].by = u, w[i].role = "calls"
       PROVE  CallsLinked(w, u, i)
  BY <1>5a, <1>7, <1>8, <1>9, <1>11 DEF CallsLinked
<1>12. Linked(w, u, n + c)
  BY <1>3, <1>10, <1>11 DEF Linked
<1> QED BY <1>3, <1>12 DEF w, r, c, n

(* A linked conversation pairs what no note splits. *)
LEMMA LinkedPairs ==
  ASSUME NEW u, NEW s \in Seq(Message), NotesOnly(s), Linked(s, u, Len(s))
  PROVE  Split(s, u) \/ Paired(s, u)
<1> DEFINE n == Len(s)
<1>1. n \in Nat /\ DOMAIN s = 1..n /\ \A i \in 1..n : s[i].by = Loop => s[i].role # "user"
  BY DEF NotesOnly
<1> HIDE DEF n
<1>2. SUFFICES ASSUME ~Split(s, u) PROVE Paired(s, u)
  OBVIOUS
<1>3. ASSUME NEW i \in 1..n, s[i].by = u, s[i].role = "result" PROVE Issued(s, i)
  <2>1. PICK j \in 1..(i - 1) :
          /\ \A l \in (j + 1)..i : s[l].role = "result"
          /\ s[j].by = Loop \/ (Issued(s, i) /\ j = i - s[i].n)
    BY <1>3 DEF Linked, ResultLinked, n
  <2>2. ASSUME s[j].by = Loop PROVE Split(s, u)
    <3>1. j \in 1..n /\ j < i
      BY <1>1
    <3>2. \A l \in j..i : l = j \/ l \in (j + 1)..i
      BY <1>1
    <3>3. \A l \in j..i : s[l].role # "user"
      BY <1>1, <2>1, <2>2, <3>1, <3>2
    <3> QED BY <1>1, <1>3, <2>2, <3>1, <3>3 DEF Split
  <2> QED BY <1>2, <2>1, <2>2
<1>4. ASSUME NEW i \in 1..n, s[i].by = u, s[i].role = "calls" PROVE Answered(s, i)
  <2>1. i <= n
    BY <1>1
  <2> QED BY <1>1, <1>2, <1>4, <2>1 DEF Linked, CallsLinked, Split, n
<1> QED BY <1>1, <1>3, <1>4 DEF Paired

(* What a linked conversation stores pairs its calls and results. *)
LEMMA LinkedOutput ==
  ASSUME NEW t \in Turn, NEW s \in Seq(Message), NotesOnly(s), OwnTail(s, t),
         Linked(s, t, Len(s))
  PROVE  Paired(ToPersist(s), t)
<1> DEFINE n == Len(s)
           p == Inbound(s)
           o == ToPersist(s)
<1>1. n \in Nat /\ DOMAIN s = 1..n /\ \A i \in 1..n : s[i].by = Loop => s[i].role # "user"
  BY DEF NotesOnly
<1>2. p \in 0..n /\ \A i \in (p + 1)..n : s[i].role # "user"
  BY LastUser
<1>3. t # Loop
  BY ConstantsAssumption
<1>4. CASE p # 0
  <2>1. p + 1 \in 1..(n + 1) /\ o = SubSeq(s, p + 1, n)
    <3>1. o = SubSeq(s, p + 1, n)
      BY <1>4 DEF ToPersist
    <3> HIDE DEF o, p, n
    <3>2. p + 1 \in 1..(n + 1)
      BY <1>1, <1>2
    <3> QED BY <3>1, <3>2
  <2>2. /\ Len(o) = n - (p + 1) + 1
        /\ o \in Seq(Message)
        /\ \A i \in 1..(n - (p + 1) + 1) : o[i] = s[i + ((p + 1) - 1)]
    BY <2>1, SuffixOf
  <2> DEFINE h == n - p
  <2>3. s[p].role = "user"
    BY <1>4, InboundIsUser
  <2>4. Len(s) = n
    OBVIOUS
  <2> HIDE DEF n, p, o
  <2>5. h \in Nat /\ n = h + p /\ p \in Nat /\ p \in 1..n
    BY <1>1, <1>2, <1>4
  <2>6. /\ Len(o) = h /\ DOMAIN o = 1..h
        /\ \A i \in 1..h : o[i] = s[i + p] /\ i + p \in (p + 1)..n /\ i + p \in 1..n
    <3>1. n - (p + 1) + 1 = h /\ \A i \in 1..h : i + ((p + 1) - 1) = i + p
      BY <2>5
    <3> HIDE DEF h
    <3>2. \A i \in 1..h : i + p \in (p + 1)..n /\ i + p \in 1..n
      BY <2>5
    <3>3. DOMAIN o = 1..Len(o)
      BY <2>2
    <3> QED BY <2>2, <3>1, <3>2, <3>3
  <2>7. ASSUME NEW i \in (p + 1)..n PROVE s[i].by = t
    <3>1. i \in 1..n /\ \A j \in i..n : s[j].role # "user"
      BY <1>1, <1>2, <2>5, <2>7
    <3> QED BY <2>4, <3>1 DEF OwnTail
  <2> HIDE DEF h
  <2>8. ASSUME NEW i \in 1..h, o[i].role = "calls" PROVE Answered(o, i)
    <3> DEFINE e == i + p
    <3>1. e \in (p + 1)..n /\ e \in 1..n /\ o[i] = s[e] /\ s[e].by = t /\ e <= n /\ e = i + p
      BY <1>1, <2>6, <2>7
    <3> HIDE DEF e
    <3>2. ASSUME NEW j \in 1..n, e < j, s[j].by = Loop PROVE FALSE
      <4>1. j \in (p + 1)..n
        BY <1>1, <2>5, <3>1, <3>2
      <4> QED BY <1>3, <2>7, <3>2, <4>1
    <3>3. Answered(s, e)
      BY <2>4, <2>8, <3>1, <3>2 DEF Linked, CallsLinked
    <3>4. ASSUME NEW k \in 1..o[i].n
          PROVE  i + k \in DOMAIN o /\ o[i + k] = Result(o[i].by, k)
      <4>1. e + k \in 1..n /\ s[e + k] = Result(o[i].by, k)
        BY <1>1, <3>1, <3>3 DEF Answered
      <4>2. i + k \in 1..h /\ (i + k) + p = e + k
        BY <1>1, <2>5, <3>1, <4>1
      <4> QED BY <2>6, <4>1, <4>2
    <3> QED BY <3>4 DEF Answered
  <2>9. ASSUME NEW i \in 1..h, o[i].role = "result" PROVE Issued(o, i)
    <3> DEFINE e == i + p
    <3>1. /\ e \in (p + 1)..n /\ e \in 1..n /\ o[i] = s[e] /\ s[e].by = t /\ e = i + p
          /\ s[e].n \in Nat
      BY <1>1, <2>4, <2>6, <2>7, MessageAt
    <3> HIDE DEF e
    <3>2. PICK j \in 1..(e - 1) :
            /\ \A l \in (j + 1)..e : s[l].role = "result"
            /\ s[j].by = Loop \/ (Issued(s, e) /\ j = e - s[e].n)
      BY <2>4, <2>9, <3>1 DEF Linked, ResultLinked
    <3>3. j \in 1..n
      BY <1>1, <3>1
    <3>4. ~(j < p)
      <4>1. j < p => p \in (j + 1)..e
        BY <1>1, <2>5, <3>1, <3>3
      <4> QED BY <2>3, <3>2, <4>1
    <3>5. j # p
      BY <1>1, <2>3, <3>2, <3>3 DEF Issued
    <3>6. j \in (p + 1)..n
      BY <1>1, <2>5, <3>3, <3>4, <3>5
    <3>7. Issued(s, e) /\ j = e - s[e].n
      BY <1>3, <2>7, <3>2, <3>6
    <3>8. s[j].role = "calls" /\ s[j].by = s[e].by /\ s[j].n >= s[e].n
      BY <3>7 DEF Issued
    <3> DEFINE q == j - p
    <3>9. q \in 1..h /\ q + p = j /\ q = i - o[i].n
      <4>1. q \in 1..h /\ q + p = j
        BY <1>1, <2>5, <3>6
      <4> DEFINE x == s[e].n
      <4>2. o[i].n = x /\ x \in Int /\ j = e - x
        BY <3>1, <3>7
      <4> HIDE DEF x, q
      <4>3. i \in Int /\ p \in Int /\ q \in Int /\ j \in Int
        BY <2>5, <4>1
      <4>4. q = i - x
        BY <3>1, <4>1, <4>2, <4>3
      <4> QED BY <4>1, <4>2, <4>4
    <3> HIDE DEF q
    <3>10. o[q] = s[j]
      BY <2>6, <3>9
    <3> QED BY <2>6, <3>1, <3>8, <3>9, <3>10 DEF Issued
  <2> QED BY <2>6, <2>8, <2>9 DEF Paired, o
<1>5. CASE p = 0
  <2>1. o = <<>> \/ \E v : o = <<Text(v, TRUE)>>
    BY <1>5 DEF ToPersist
  <2>2. CASE o = <<>>
    BY <2>2 DEF Paired
  <2>3. CASE \E v : o = <<Text(v, TRUE)>>
    <3>1. PICK v : o = <<Text(v, TRUE)>>
      BY <2>3
    <3>2. Text(v, TRUE).role = "text"
      BY DEF Text
    <3> DEFINE m == Text(v, TRUE)
    <3> HIDE DEF m
    <3>3. DOMAIN <<m>> = 1..1 /\ <<m>>[1] = m
      OBVIOUS
    <3>4. m.role = "text" /\ o = <<m>>
      BY <3>1, <3>2 DEF m
    <3> HIDE DEF o
    <3>5. \A i \in DOMAIN o : o[i].role = "text"
      BY <3>3, <3>4
    <3>6. Paired(o, t)
      BY <3>5 DEF Paired
    <3> QED BY <3>6 DEF o
  <2> QED BY <2>1, <2>2, <2>3
<1> QED BY <1>4, <1>5

-----------------------------------------------------------------------------
(* What a step does to rows and conversations *)

Same(u) ==
  /\ pc'[u] = pc[u] /\ msgs'[u] = msgs[u]
  /\ ending'[u] = ending[u] /\ output'[u] = output[u] /\ kept'[u] = kept[u]

Others(t) ==
  /\ kind' = kind /\ tampered' = tampered /\ unstored \subseteq unstored'
  /\ \A u \in Turn : u # t => Same(u)

Waits(t) == Same(t) /\ transcript' = transcript

(* It goes from one place to another, and its conversation becomes s. *)
Goes(t, here, there, s) ==
  /\ transcript' = transcript
  /\ pc[t] = here /\ pc'[t] = there /\ msgs'[t] = s
  /\ ending'[t] = ending[t] /\ output'[t] = output[t] /\ kept'[t] = kept[t]

Walks(t) ==
  \E here, there : /\ Goes(t, here, there, msgs[t])
                   /\ \/ here = "idle" /\ there = "checked"
                      \/ here = "checked" /\ there = "locked"
                      \/ here \in Before \cup {"stored", "loaded"} /\ there = "refused"
                      \/ here = "loaded" /\ kind[t] = "team" /\ there = "team"
                      \/ here = "loaded" /\ kind[t] # "team" /\ there = "top"
                      \/ here = "audited" /\ there = "done"

Prompts(t) ==
  /\ pc[t] = "locked"
  /\ pc'[t] = "stored" \/ (pc'[t] = "loaded" /\ kind[t] = "team")
  /\ transcript' = Append(transcript, User(t))
  /\ msgs'[t] = msgs[t] /\ ending'[t] = ending[t]
  /\ output'[t] = output[t] /\ kept'[t] = kept[t]

Loads(t)   == Goes(t, "stored", "loaded", Append(transcript, User(t)))
Slides(t)  == Goes(t, "top", "calling", Slide(msgs[t]))
Asks(t)    == \E k \in Nat, said \in BOOLEAN :
                Goes(t, "calling", "tools", Append(msgs[t], Calls(t, k, said)))
Hears(t)   == Goes(t, "tools", "top",
                   msgs[t] \o [k \in 1..msgs[t][Len(msgs[t])].n |-> Result(t, k)])
Audits(t)  == Stored(t) /\ Goes(t, "persist", "audited", <<>>)

Ends(t) ==
  /\ transcript' = transcript /\ kept'[t] = kept[t]
  /\ pc[t] \in Running /\ pc'[t] = "persist"
  /\ \/ /\ output'[t] = ToPersist(msgs'[t])
        /\ \/ pc[t] = "top" /\ msgs'[t] = msgs[t]
           \/ /\ pc[t] = "calling"
              /\ \E said \in BOOLEAN : msgs'[t] = Append(msgs[t], Text(t, said))
           \/ /\ pc[t] = "calling" /\ ending'[t] = "cancelled"
              /\ \E k \in Nat, said \in BOOLEAN :
                   msgs'[t] = Append(msgs[t], Calls(t, k, said))
     \/ /\ output'[t] \in {output[t], <<>>, <<Text(t, TRUE)>>}
        /\ msgs'[t] = msgs[t]

Stores(t) ==
  /\ pc[t] = "persist" /\ pc'[t] = "persist"
  /\ kept[t] + 1 \in 1..Len(output[t]) /\ kept'[t] = kept[t] + 1
  /\ transcript' = Append(transcript, output[t][kept[t] + 1])
  /\ msgs'[t] = msgs[t] /\ ending'[t] = ending[t] /\ output'[t] = output[t]

TurnSteps(t) ==
  \/ Waits(t) \/ Walks(t) \/ Prompts(t) \/ Loads(t)
  \/ Slides(t) \/ Asks(t) \/ Hears(t) \/ Ends(t) \/ Stores(t) \/ Audits(t)

(* Nothing happens to a turn. *)
Nothing == /\ kind' = kind /\ unstored' = unstored
           /\ \A u \in Turn : Same(u)

LEMMA Shapes ==
  ASSUME IInv
  PROVE  /\ transcript \in Seq(Message)
         /\ msgs \in [Turn -> Seq(Message)] /\ output \in [Turn -> Seq(Message)]
         /\ kept \in [Turn -> Nat] /\ DOMAIN pc = Turn /\ DOMAIN ending = Turn
         /\ pc = [u \in Turn |-> pc[u]]
         /\ ending = [u \in Turn |-> ending[u]]
         /\ \A u \in Turn :
              /\ pc[u] \in {"idle"} \cup Asking \cup Running \cup Closing \cup Over
              /\ kind[u] \in {"operator", "tick", "team"}
              /\ msgs[u] \in Seq(Message) /\ output[u] \in Seq(Message)
              /\ kept[u] \in Nat /\ kept[u] <= Len(output[u])
              /\ pc[u] \notin Closing \cup Over => kept[u] = 0
              /\ OwnTail(msgs[u], u)
              /\ \A i \in DOMAIN output[u] : output[u][i].by = u
BY DEF IInv, Typed, RowsOK, RunsOK, EndsOK, WorldOK, Progress, OwnTails, OutputIsOwn

(* Only one turn is under the lock. *)
LEMMA LockHolder ==
  ASSUME IInv, NEW t \in Turn, pc[t] \in UnderLock,
         NEW u \in Turn, pc[u] \in UnderLock
  PROVE  t = u
BY DEF IInv, LockCoversTurn

LEMMA HandlerSteps ==
  ASSUME IInv, NEW t \in Turn, Handler(t)
  PROVE  Others(t) /\ TurnSteps(t)
<1> USE Shapes DEF At, Goto, agent, world, Others, Same, TurnSteps
<1>1. CASE CheckSession(t)
  BY <1>1 DEF CheckSession, Walks, Goes, Before
<1>2. CASE BeginTurn(t)
  BY <1>2 DEF BeginTurn, Walks, Goes, Before
<1>3. CASE PersistUser(t)
  BY <1>3 DEF PersistUser, Prompts
<1>4. CASE LoadHistory(t)
  BY <1>4 DEF LoadHistory, Loads, Goes
<1>5. CASE GiveUp(t)
  BY <1>5 DEF GiveUp, Walks, Goes, Before
<1>6. CASE Launch(t)
  BY <1>6 DEF Launch, Walks, Goes
<1> QED BY <1>1, <1>2, <1>3, <1>4, <1>5, <1>6 DEF Handler

LEMMA FinishEnds ==
  ASSUME IInv, NEW t \in Turn, NEW how, NEW s, Finish(t, how, s), pc[t] \in Running,
         UNCHANGED <<transcript, kind, kept, unstored, world>>
  PROVE  /\ Others(t) /\ transcript' = transcript /\ kept'[t] = kept[t]
         /\ pc'[t] = "persist" /\ msgs'[t] = s /\ ending'[t] = how
         /\ output'[t] = ToPersist(msgs'[t])
BY Shapes DEF Finish, Goto, world, Others, Same

LEMMA AgentSteps ==
  ASSUME IInv, NEW t \in Turn, Agent(t)
  PROVE  Others(t) /\ TurnSteps(t)
<1> USE DEF At, TurnSteps, Running
<1>1. CASE LoopTop(t)
  <2> UNCHANGED <<transcript, kind, kept, unstored, world>> /\ pc[t] = "top"
    BY <1>1 DEF LoopTop
  <2>1. CASE \E how \in Endings : Finish(t, how, msgs[t])
    BY <2>1, FinishEnds DEF Ends
  <2>2. CASE /\ msgs' = [msgs EXCEPT ![t] = Slide(@)]
             /\ Goto(t, "calling")
             /\ UNCHANGED <<iter, ending, output, stream>>
    BY <2>2, Shapes DEF Slides, Goes, Others, Same, Goto, world
  <2> QED BY <1>1, <2>1, <2>2 DEF LoopTop, Endings
<1>2. CASE ModelReplies(t)
  <2>1. PICK said \in BOOLEAN : Finish(t, "completed", Append(msgs[t], Text(t, said)))
    BY <1>2 DEF ModelReplies
  <2>2. UNCHANGED <<transcript, kind, kept, unstored, world>> /\ pc[t] = "calling"
    BY <1>2 DEF ModelReplies
  <2> QED BY <2>1, <2>2, FinishEnds DEF Ends
<1>3. CASE ModelCalls(t)
  <2>1. PICK k \in 1..MaxCalls, said \in BOOLEAN :
          LET s == Append(msgs[t], Calls(t, k, said))
          IN  \/ Finish(t, "cancelled", s)
              \/ /\ msgs' = [msgs EXCEPT ![t] = s]
                 /\ Goto(t, "tools")
                 /\ UNCHANGED <<iter, ending, output>>
    BY <1>3 DEF ModelCalls
  <2>2. UNCHANGED <<transcript, kind, kept, unstored, world>> /\ pc[t] = "calling"
    BY <1>3 DEF ModelCalls
  <2> DEFINE s == Append(msgs[t], Calls(t, k, said))
  <2>3. k \in Nat
    BY <2>1, Bounds
  <2>4. CASE Finish(t, "cancelled", s)
    <3>1. /\ Others(t) /\ transcript' = transcript /\ kept'[t] = kept[t]
          /\ pc'[t] = "persist" /\ msgs'[t] = s /\ ending'[t] = "cancelled"
          /\ output'[t] = ToPersist(msgs'[t])
      <4> HIDE DEF s
      <4> QED BY <2>2, <2>4, FinishEnds
    <3> QED BY <2>2, <2>3, <3>1 DEF Ends
  <2>5. CASE /\ msgs' = [msgs EXCEPT ![t] = s]
             /\ Goto(t, "tools")
             /\ UNCHANGED <<iter, ending, output>>
    <3>1. Goes(t, "calling", "tools", s) /\ Others(t)
      <4> HIDE DEF s
      <4> QED BY <2>2, <2>5, Shapes DEF Goes, Others, Same, Goto, world
    <3> QED BY <2>3, <3>1 DEF Asks
  <2> QED BY <2>1, <2>4, <2>5
<1>4. CASE ModelFails(t)
  BY <1>4, Shapes DEF ModelFails, Goto, world, Others, Same, Ends
<1>5. CASE JoinCalls(t)
  <2> DEFINE s == msgs[t] \o [k \in 1..Asked(t) |-> Result(t, k)]
  <2>1. Goes(t, "tools", "top", s) /\ Others(t)
    <3>1. msgs' = [msgs EXCEPT ![t] = s]
      BY <1>5 DEF JoinCalls
    <3> HIDE DEF s
    <3> QED BY <1>5, <3>1, Shapes DEF JoinCalls, Goto, world, Goes, Others, Same
  <2> QED BY <2>1 DEF Hears, Asked
<1>6. CASE Dispatch(t)
  BY <1>6 DEF Dispatch, world, Others, Same, Waits
<1>7. CASE TeamEnds(t)
  BY <1>7, Shapes DEF TeamEnds, Goto, world, Others, Same, Ends
<1> QED BY <1>1, <1>2, <1>3, <1>4, <1>5, <1>6, <1>7 DEF Agent

LEMMA FinalizeSteps ==
  ASSUME IInv, NEW t \in Turn, Finalize(t)
  PROVE  Others(t) /\ TurnSteps(t)
<1> USE Shapes DEF At, Goto, agent, world, Others, Same, TurnSteps
<1>1. CASE PersistNext(t)
  <2>1. kept[t] + 1 \in 1..Len(output[t])
    <3>1. kept[t] # Len(output[t]) /\ Len(output[t]) \in Nat
      BY <1>1 DEF PersistNext, Stored
    <3> QED BY <3>1
  <2> QED BY <1>1, <2>1 DEF PersistNext, Stores
<1>2. CASE PersistFails(t)
  BY <1>2 DEF PersistFails, Waits
<1>3. CASE AppendAudit(t)
  BY <1>3 DEF AppendAudit, Audits, Goes
<1>4. CASE ReleaseTurn(t)
  BY <1>4 DEF ReleaseTurn, Walks, Goes
<1> QED BY <1>1, <1>2, <1>3, <1>4 DEF Finalize

(* Whoever acts, this is what the step does. *)
LEMMA Steps ==
  ASSUME IInv, [Next]_vars
  PROVE  \/ \E t \in Turn : Others(t) /\ TurnSteps(t)
         \/ Nothing /\ tampered' = tampered /\ transcript' = transcript
         \/ Nothing /\ tampered' = tampered /\ transcript' = Append(transcript, Text(Loop, TRUE))
         \/ /\ Nothing
            /\ \E i \in 1..Len(transcript) : /\ transcript' = RemoveAt(transcript, i)
                                             /\ tampered' = tampered \cup {transcript[i].by}
         \/ Crash
<1>1. ASSUME NEW t \in Turn, Handler(t) \/ Agent(t) \/ Finalize(t) \/ Client(t)
      PROVE  Others(t) /\ TurnSteps(t)
  <2>1. CASE Client(t)
    BY <2>1 DEF Client, Read, Disconnect, agent, world, Others, Same, TurnSteps, Waits
  <2> QED BY <1>1, <2>1, HandlerSteps, AgentSteps, FinalizeSteps
<1>2. CASE Cancel
  BY <1>2 DEF Cancel, agent, world, Nothing, Same
<1>3. CASE PostFinalMessage
  BY <1>3 DEF PostFinalMessage, agent, Nothing, Same
<1>4. CASE DeleteMessage
  <2>1. DOMAIN transcript = 1..Len(transcript)
    BY Shapes
  <2> QED BY <1>4, <2>1 DEF DeleteMessage, agent, Nothing, Same
<1>5. CASE UNCHANGED vars
  BY <1>5 DEF vars, agent, world, Nothing, Same
<1> QED BY <1>1, <1>2, <1>3, <1>4, <1>5 DEF Next

-----------------------------------------------------------------------------
(* What is open, complete or broken *)

LEMMA OpenStep ==
  ASSUME IInv, Open, [Next]_vars
  PROVE  Open'
<1>1. ASSUME NEW t \in Turn, Others(t), TurnSteps(t) PROVE Open'
  <2>1. ASSUME NEW u \in Turn, u # t, pc'[u] \notin Closing \cup Over
        PROVE  ending'[u] = "none" /\ output'[u] = <<>>
    BY <1>1, <2>1 DEF Others, Same, Open
  <2>2. ASSUME pc'[t] \notin Closing \cup Over
        PROVE  ending'[t] = "none" /\ output'[t] = <<>>
    <3>1. pc[t] \notin Closing \cup Over /\ ending'[t] = ending[t] /\ output'[t] = output[t]
      BY <1>1, <2>2 DEF TurnSteps, Waits, Same, Walks, Prompts, Loads, Slides, Asks, Hears,
                        Ends, Stores, Audits, Goes, Before, Closing, Over
    <3> QED BY <3>1 DEF Open
  <2> QED BY <2>1, <2>2 DEF Open
<1>2. ASSUME Nothing PROVE Open'
  BY <1>2 DEF Nothing, Same, Open
<1>3. ASSUME Crash PROVE Open'
  BY <1>3 DEF Crash, Open, Over
<1> QED BY <1>1, <1>2, <1>3, Steps

LEMMA BrokenStays ==
  ASSUME IInv, Open, [Next]_vars, NEW u \in Turn, Broken(u)
  PROVE  Broken(u)'
<1>1. ASSUME NEW t \in Turn, Others(t), TurnSteps(t) PROVE Broken(u)'
  <2>1. CASE u # t
    BY <1>1, <2>1 DEF Others, Same, Broken, At
  <2>2. CASE u = t
    <3>1. CASE Ends(t)
      <4>1. ending[t] = "none" /\ pc[t] # "dead"
        BY <3>1 DEF Ends, Open, Running, Closing, Over
      <4> QED BY <1>1, <2>2, <4>1 DEF Others, Broken, At
    <3>2. CASE ~Ends(t)
      <4>1. ending'[t] = ending[t] /\ (pc[t] = "dead" => pc'[t] = "dead")
        BY <1>1, <3>2 DEF TurnSteps, Waits, Same, Walks, Prompts, Loads, Slides, Asks, Hears,
                          Stores, Audits, Goes, Before
      <4> QED BY <1>1, <2>2, <4>1 DEF Others, Broken, At
    <3> QED BY <3>1, <3>2
  <2> QED BY <2>1, <2>2
<1>2. ASSUME Nothing, tampered \subseteq tampered' PROVE Broken(u)'
  BY <1>2 DEF Nothing, Same, Broken, At
<1>3. ASSUME Crash PROVE Broken(u)'
  BY <1>3 DEF Crash, Broken, At, Over
<1> QED BY <1>1, <1>2, <1>3, Steps

LEMMA CompleteStep ==
  ASSUME IInv, Complete, [Next]_vars
  PROVE  Complete'
<1>1. ASSUME NEW t \in Turn, Others(t), TurnSteps(t) PROVE Complete'
  <2>1. ASSUME NEW u \in Turn, u # t, pc'[u] \in {"audited", "done"}
        PROVE  Stored(u)'
    BY <1>1, <2>1 DEF Others, Same, Complete, Stored
  <2>2. ASSUME pc'[t] \in {"audited", "done"}
        PROVE  Stored(t)'
    <3>1. Stored(t) /\ kept'[t] = kept[t] /\ output'[t] = output[t]
      BY <1>1, <2>2 DEF TurnSteps, Waits, Same, Walks, Prompts, Loads, Slides, Asks, Hears,
                        Ends, Stores, Audits, Goes, Before, Complete
    <3> QED BY <1>1, <3>1 DEF Others, Stored
  <2> QED BY <2>1, <2>2 DEF Complete
<1>2. ASSUME Nothing PROVE Complete'
  BY <1>2 DEF Nothing, Same, Complete, Stored
<1>3. ASSUME Crash PROVE Complete'
  BY <1>3 DEF Crash, Complete, Stored, Over
<1> QED BY <1>1, <1>2, <1>3, Steps

-----------------------------------------------------------------------------
(* The loop controller asks for nothing *)

LEMMA NotesAppend ==
  ASSUME NEW s \in Seq(Message), NotesOnly(s),
         NEW m \in Message, m.by = Loop => m.role # "user"
  PROVE  NotesOnly(Append(s, m))
<1>1. /\ Len(Append(s, m)) = Len(s) + 1 /\ Len(s) \in Nat
      /\ \A i \in 1..Len(s) : Append(s, m)[i] = s[i]
      /\ Append(s, m)[Len(s) + 1] = m
  BY AppendIs
<1>2. \A i \in 1..(Len(s) + 1) : i = Len(s) + 1 \/ i \in 1..Len(s)
  BY <1>1
<1> QED BY <1>1, <1>2 DEF NotesOnly

LEMMA NotesSlide ==
  ASSUME NEW s \in Seq(Message), NotesOnly(s)
  PROVE  NotesOnly(Slide(s))
<1>1. PICK d \in 0..Len(s) :
        /\ Len(Slide(s)) = Len(s) - d
        /\ \A i \in 1..(Len(s) - d) : Slide(s)[i] = s[i + d]
  BY SlideKeepsSuffix
<1>2. \A i \in 1..(Len(s) - d) : i + d \in 1..Len(s)
  OBVIOUS
<1> QED BY <1>1, <1>2 DEF NotesOnly

LEMMA NotesResults ==
  ASSUME NEW t \in Turn, NEW s \in Seq(Message), NotesOnly(s), NEW c \in Nat
  PROVE  NotesOnly(s \o [k \in 1..c |-> Result(t, k)])
<1> DEFINE r == [k \in 1..c |-> Result(t, k)]
           n == Len(s)
           w == s \o r
<1>1. /\ r \in Seq(Message) /\ Len(r) = c
      /\ \A k \in 1..c : r[k].role = "result"
  <2>1. ASSUME NEW k \in 1..c
        PROVE  Result(t, k) \in Message /\ Result(t, k).role = "result"
    <3>1. k \in Nat /\ t \in Turn \cup {Loop} /\ TRUE \in BOOLEAN
      OBVIOUS
    <3> QED BY <3>1, MessageTypes DEF Result
  <2> QED BY <2>1
<1> HIDE DEF r
<1>2. /\ Len(w) = Len(s) + Len(r)
      /\ \A j \in 1..(Len(s) + Len(r)) :
           w[j] = IF j <= Len(s) THEN s[j] ELSE r[j - Len(s)]
  BY <1>1, ConcatIs
<1> HIDE DEF w
<1>3. ASSUME NEW i \in 1..(n + c), w[i].by = Loop PROVE w[i].role # "user"
  <2>1. CASE i <= n
    <3>1. i \in 1..Len(s) /\ w[i] = s[i]
      BY <1>1, <1>2, <2>1
    <3> QED BY <1>3, <3>1 DEF NotesOnly
  <2>2. CASE ~(i <= n)
    <3>1. i - n \in 1..c /\ w[i] = r[i - n]
      BY <1>1, <1>2, <2>2
    <3> QED BY <1>1, <3>1
  <2> QED BY <2>1, <2>2
<1>4. Len(w) = n + c
  BY <1>1, <1>2
<1> QED BY <1>3, <1>4 DEF NotesOnly, w, r

(* What a turn says. *)
LEMMA Says ==
  ASSUME NEW t \in Turn, NEW k \in Nat, NEW said \in BOOLEAN
  PROVE  /\ User(t) \in Message /\ User(t).by = t /\ User(t).role = "user"
         /\ Text(t, said) \in Message /\ Text(t, said).by = t /\ Text(t, said).role = "text"
         /\ Calls(t, k, said) \in Message /\ Calls(t, k, said).by = t
         /\ Calls(t, k, said).role = "calls"
         /\ t # Loop
BY MessageTypes, ConstantsAssumption DEF User, Text, Calls

LEMMA Notes ==
  /\ Text(Loop, TRUE) \in Message /\ Text(Loop, TRUE).by = Loop
  /\ Text(Loop, TRUE).role = "text" /\ Loop \notin Turn
<1>1. Loop \in Turn \cup {Loop} /\ 0 \in Nat /\ TRUE \in BOOLEAN
  OBVIOUS
<1> QED BY <1>1, MessageTypes, ConstantsAssumption DEF Text

(* What a turn stores next. *)
LEMMA StoresOwn ==
  ASSUME IInv, NEW t \in Turn, Stores(t)
  PROVE  /\ output[t][kept[t] + 1] \in Message /\ output[t][kept[t] + 1].by = t
         /\ t # Loop
<1>1. /\ output[t] \in Seq(Message) /\ kept[t] + 1 \in 1..Len(output[t])
      /\ \A i \in DOMAIN output[t] : output[t][i].by = t
  BY Shapes DEF Stores
<1>2. \A o \in Seq(Message) : \A i \in 1..Len(o) : o[i] \in Message /\ i \in DOMAIN o
  OBVIOUS
<1> QED BY <1>1, <1>2, ConstantsAssumption

(* What the conversation is when it changes. *)
LEMMA TalkStep ==
  ASSUME IInv, LoopTalks, NEW t \in Turn, TurnSteps(t)
  PROVE  NotesOnly(msgs'[t])
<1> DEFINE s == msgs[t]
<1>1. s \in Seq(Message) /\ NotesOnly(s) /\ transcript \in Seq(Message) /\ NotesOnly(transcript)
  BY Shapes DEF LoopTalks
<1>2. CASE msgs'[t] = msgs[t]
  BY <1>1, <1>2
<1>3. CASE Loads(t)
  <2>1. 0 \in Nat /\ TRUE \in BOOLEAN
    OBVIOUS
  <2>2. User(t) \in Message /\ User(t).by = t /\ t # Loop
    BY <2>1, Says
  <2> QED BY <1>1, <1>3, <2>2, NotesAppend DEF Loads, Goes
<1>4. CASE Slides(t)
  BY <1>1, <1>4, NotesSlide DEF Slides, Goes
<1>5. ASSUME NEW k \in Nat, NEW said \in BOOLEAN,
             msgs'[t] \in {Append(s, Text(t, said)), Append(s, Calls(t, k, said))}
      PROVE  NotesOnly(msgs'[t])
  <2>1. /\ Text(t, said) \in Message /\ Text(t, said).by = t
        /\ Calls(t, k, said) \in Message /\ Calls(t, k, said).by = t /\ t # Loop
    BY Says
  <2> HIDE DEF s
  <2>2. NotesOnly(Append(s, Text(t, said)))
    BY <1>1, <2>1, NotesAppend
  <2>3. NotesOnly(Append(s, Calls(t, k, said)))
    BY <1>1, <2>1, NotesAppend
  <2> QED BY <1>5, <2>2, <2>3
<1>6. CASE Hears(t)
  <2>1. pc[t] = "tools" /\ msgs'[t] = s \o [k \in 1..s[Len(s)].n |-> Result(t, k)]
    BY <1>6 DEF Hears, Goes
  <2>2. s # <<>>
    BY <2>1 DEF IInv, Progress
  <2> HIDE DEF s
  <2>3. Len(s) \in 1..Len(s)
    BY <1>1, <2>2
  <2>4. s[Len(s)].n \in Nat
    BY <1>1, <2>3, MessageAt
  <2> QED BY <1>1, <2>1, <2>4, NotesResults
<1>7. CASE Audits(t)
  <2>1. NotesOnly(<<>>)
    BY DEF NotesOnly
  <2> QED BY <1>7, <2>1 DEF Audits, Goes
<1>8. CASE Asks(t)
  BY <1>5, <1>8 DEF Asks, Goes
<1>9. CASE Ends(t)
  <2>1. 0 \in Nat
    OBVIOUS
  <2> QED BY <1>2, <1>5, <1>9, <2>1 DEF Ends
<1> QED BY <1>2, <1>3, <1>4, <1>6, <1>7, <1>8, <1>9
        DEF TurnSteps, Waits, Same, Walks, Prompts, Goes, Stores

LEMMA LoopTalksStep ==
  ASSUME IInv, LoopTalks, [Next]_vars
  PROVE  LoopTalks'
<1>0. transcript \in Seq(Message) /\ NotesOnly(transcript)
  BY Shapes DEF LoopTalks
<1>1. ASSUME NEW t \in Turn, Others(t), TurnSteps(t) PROVE LoopTalks'
  <2>1. \A u \in Turn : NotesOnly(msgs'[u])
    <3>1. ASSUME NEW u \in Turn, u # t PROVE NotesOnly(msgs'[u])
      BY <1>1, <3>1 DEF Others, Same, LoopTalks
    <3> QED BY <1>1, <3>1, TalkStep
  <2>2. NotesOnly(transcript')
    <3>1. CASE transcript' = transcript
      BY <1>0, <3>1
    <3>2. CASE Prompts(t)
      <4>1. 0 \in Nat /\ TRUE \in BOOLEAN
        OBVIOUS
      <4>2. User(t) \in Message /\ User(t).by = t /\ t # Loop
        BY <4>1, Says
      <4> QED BY <1>0, <3>2, <4>2, NotesAppend DEF Prompts
    <3>3. CASE Stores(t)
      <4> DEFINE m == output[t][kept[t] + 1]
      <4>1. m \in Message /\ m.by = t /\ t # Loop /\ transcript' = Append(transcript, m)
        BY <3>3, StoresOwn DEF Stores
      <4> HIDE DEF m
      <4> QED BY <1>0, <4>1, NotesAppend
    <3> QED BY <1>1, <3>1, <3>2, <3>3
            DEF TurnSteps, Waits, Walks, Loads, Slides, Asks, Hears, Ends, Audits, Goes
  <2> QED BY <2>1, <2>2 DEF LoopTalks
<1>2. ASSUME Nothing, NotesOnly(transcript') PROVE LoopTalks'
  BY <1>2 DEF Nothing, Same, LoopTalks
<1>3. ASSUME transcript' = Append(transcript, Text(Loop, TRUE)) PROVE NotesOnly(transcript')
  BY <1>0, <1>3, Notes, NotesAppend
<1>4. ASSUME NEW i \in 1..Len(transcript), transcript' = RemoveAt(transcript, i)
      PROVE  NotesOnly(transcript')
  <2> DEFINE s == transcript
             r == RemoveAt(s, i)
  <2>1. Without(r, s, i)
    BY <1>0, RemoveIs
  <2> HIDE DEF r
  <2>2. \A j \in 1..(Len(s) - 1) : (IF j < i THEN j ELSE j + 1) \in 1..Len(s)
    BY <1>0
  <2>3. NotesOnly(r)
    BY <1>0, <2>1, <2>2 DEF NotesOnly, Without
  <2> QED BY <1>4, <2>3 DEF r
<1>5. ASSUME Crash PROVE LoopTalks'
  <2>1. NotesOnly(<<>>)
    BY DEF NotesOnly
  <2> QED BY <1>0, <1>5, <2>1 DEF Crash, LoopTalks
<1> QED BY <1>0, <1>1, <1>2, <1>3, <1>4, <1>5, Steps

-----------------------------------------------------------------------------
(* The rows of a turn *)

(* What a turn has stored before its run ends, after one more append and   *)
(* once everything is stored. *)
LEMMA BlockIs ==
  ASSUME NEW u \in Turn, NEW o \in Seq(Message), NEW k \in Nat
  PROVE  LET b(x) == <<User(u)>> \o SubSeq(o, 1, x)
         IN  /\ k <= Len(o) => b(k) \in Seq(Message) /\ Len(b(k)) = k + 1
             /\ b(0) = <<User(u)>>
             /\ k + 1 <= Len(o) => b(k + 1) = Append(b(k), o[k + 1])
             /\ b(Len(o)) = <<User(u)>> \o o
<1>1. User(u) \in Message
  <2>1. 0 \in Nat /\ TRUE \in BOOLEAN
    OBVIOUS
  <2> QED BY <2>1, Says
<1> DEFINE m == User(u)
<1> HIDE DEF m
<1>2. k <= Len(o) => /\ <<m>> \o SubSeq(o, 1, k) \in Seq(Message)
                     /\ Len(<<m>> \o SubSeq(o, 1, k)) = k + 1
  BY <1>1 DEF m
<1>3. <<m>> \o SubSeq(o, 1, 0) = <<m>>
  <2>1. SubSeq(o, 1, 0) = <<>>
    OBVIOUS
  <2>2. <<m>> \o <<>> = <<m>>
    BY <1>1 DEF m
  <2> QED BY <2>1, <2>2
<1>4. k + 1 <= Len(o) =>
        <<m>> \o SubSeq(o, 1, k + 1) = Append(<<m>> \o SubSeq(o, 1, k), o[k + 1])
  BY <1>1 DEF m
<1>5. SubSeq(o, 1, Len(o)) = o
  OBVIOUS
<1> QED BY <1>2, <1>3, <1>4, <1>5 DEF m

LEMMA RowsAppend ==
  ASSUME NEW s \in Seq(Message), NEW m \in Message, NEW u, m.by # u,
         NEW b \in Seq(Message), Len(b) > 0, NEW p, p \in Held => m.by = Loop,
         RowsAre(s, b, p, u)
  PROVE  RowsAre(Append(s, m), b, p, u)
<1> DEFINE r == Append(s, m)
<1>1. Longer(r, s, m)
  BY AppendIsLonger
<1> HIDE DEF r
<1>2. /\ Len(r) = Len(s) + 1 /\ Len(s) \in Nat
      /\ \A i \in 1..Len(s) : r[i] = s[i]
      /\ r[Len(s) + 1] = m
      /\ \A i \in 1..(Len(s) + 1) : i = Len(s) + 1 \/ i \in 1..Len(s)
  BY <1>1 DEF Longer
<1>3. ASSUME p \in Before, NEW i \in 1..Len(r) PROVE r[i].by # u
  BY <1>2, <1>3 DEF RowsAre
<1>4. ASSUME p = "refused", NEW i \in 1..Len(r), r[i].by = u PROVE r[i].role = "user"
  BY <1>2, <1>4 DEF RowsAre
<1>5. ASSUME NEW places, Embeds(b, s, u, places)
      PROVE  /\ places \in [1..Len(b) -> 1..Len(r)]
             /\ Embeds(b, r, u, places)
             /\ m.by = Loop /\ AtEnd(b, s, places) => AtEnd(b, r, places)
  BY <1>1, <1>5, FollowBlock
<1>6. ASSUME p \in Held
      PROVE  \E places \in [1..Len(b) -> 1..Len(r)] :
               Embeds(b, r, u, places) /\ AtEnd(b, r, places)
  <2>1. PICK places : Embeds(b, s, u, places) /\ AtEnd(b, s, places)
    BY <1>6 DEF RowsAre
  <2> QED BY <1>5, <1>6, <2>1
<1>7. ASSUME p = "done"
      PROVE  \E places \in [1..Len(b) -> 1..Len(r)] : Embeds(b, r, u, places)
  <2>1. PICK places : Embeds(b, s, u, places)
    BY <1>7 DEF RowsAre
  <2> QED BY <1>5, <2>1
<1>8. RowsAre(r, b, p, u)
  BY <1>3, <1>4, <1>6, <1>7 DEF RowsAre
<1> QED BY <1>8 DEF r

LEMMA RowsRemove ==
  ASSUME NEW s \in Seq(Message), NEW i \in 1..Len(s), NEW u, s[i].by # u,
         NEW b \in Seq(Message), Len(b) > 0, \A k \in 1..Len(b) : b[k].by = u,
         NEW p, RowsAre(s, b, p, u)
  PROVE  RowsAre(RemoveAt(s, i), b, p, u)
<1> DEFINE r == RemoveAt(s, i)
<1>1. Without(r, s, i)
  BY RemoveIs
<1> HIDE DEF r
<1>2. \A j \in 1..Len(r) : \E l \in 1..Len(s) : r[j] = s[l]
  <2>1. \A j \in 1..(Len(s) - 1) : (IF j < i THEN j ELSE j + 1) \in 1..Len(s)
    OBVIOUS
  <2> QED BY <1>1, <2>1 DEF Without
<1>3. ASSUME p \in Before, NEW j \in 1..Len(r) PROVE r[j].by # u
  BY <1>2, <1>3 DEF RowsAre
<1>4. ASSUME p = "refused", NEW j \in 1..Len(r), r[j].by = u PROVE r[j].role = "user"
  BY <1>2, <1>4 DEF RowsAre
<1>5. ASSUME NEW places, Embeds(b, s, u, places)
      PROVE  \E q \in [1..Len(b) -> 1..Len(r)] :
               Embeds(b, r, u, q) /\ (AtEnd(b, s, places) => AtEnd(b, r, q))
  BY <1>1, <1>5, RemoveKeepsBlock
<1>6. ASSUME p \in Held
      PROVE  \E places \in [1..Len(b) -> 1..Len(r)] :
               Embeds(b, r, u, places) /\ AtEnd(b, r, places)
  <2>1. PICK places : Embeds(b, s, u, places) /\ AtEnd(b, s, places)
    BY <1>6 DEF RowsAre
  <2> QED BY <1>5, <2>1
<1>7. ASSUME p = "done"
      PROVE  \E places \in [1..Len(b) -> 1..Len(r)] : Embeds(b, r, u, places)
  <2>1. PICK places : Embeds(b, s, u, places)
    BY <1>7 DEF RowsAre
  <2> QED BY <1>5, <2>1
<1>8. RowsAre(r, b, p, u)
  BY <1>3, <1>4, <1>6, <1>7 DEF RowsAre
<1> QED BY <1>8 DEF r

(* The prompt is stored; one more message is. *)
LEMMA RowsStart ==
  ASSUME NEW s \in Seq(Message), NEW u \in Turn, NEW b, RowsAre(s, b, "locked", u),
         NEW p, p \in {"stored", "loaded"}
  PROVE  RowsAre(Append(s, User(u)), <<User(u)>>, p, u)
<1> DEFINE m == User(u)
           r == Append(s, m)
<1>1. m \in Message /\ Len(<<m>>) = 1
  <2>1. 0 \in Nat /\ TRUE \in BOOLEAN
    OBVIOUS
  <2> QED BY <2>1, Says
<1> HIDE DEF m
<1>2. Longer(r, s, m) /\ \A i \in 1..Len(s) : s[i].by # u
  BY <1>1, AppendIsLonger DEF RowsAre, Before
<1> HIDE DEF r
<1>3. \E places \in [1..1 -> 1..Len(r)] :
        Embeds(<<m>>, r, u, places) /\ AtEnd(<<m>>, r, places)
  BY <1>2, StartBlock
<1>4. RowsAre(r, <<m>>, p, u)
  BY <1>1, <1>3 DEF RowsAre, Before
<1> QED BY <1>4 DEF r, m

LEMMA RowsExtend ==
  ASSUME NEW s \in Seq(Message), NEW m \in Message, NEW u,
         NEW b \in Seq(Message), Len(b) > 0, RowsAre(s, b, "persist", u)
  PROVE  RowsAre(Append(s, m), Append(b, m), "persist", u)
<1> DEFINE r == Append(s, m)
           c == Append(b, m)
<1>1. Longer(r, s, m) /\ Longer(c, b, m)
  BY AppendIsLonger
<1> HIDE DEF r, c
<1>2. "persist" \in Held /\ "persist" \notin Before
  BY DEF Held, Before, UnderLock, Running, Closing
<1>3. PICK places : Embeds(b, s, u, places) /\ AtEnd(b, s, places)
  BY <1>2 DEF RowsAre
<1>4. \E q \in [1..Len(c) -> 1..Len(r)] : Embeds(c, r, u, q) /\ AtEnd(c, r, q)
  <2>1. Longer(r, s, m) /\ Longer(c, b, m) /\ Len(b) > 0
    BY <1>1
  <2>2. Embeds(b, s, u, places) /\ AtEnd(b, s, places)
    BY <1>3
  <2> QED BY ONLY <2>1, <2>2, ExtendBlock
<1>5. RowsAre(r, c, "persist", u)
  BY <1>2, <1>4 DEF RowsAre
<1> QED BY <1>5 DEF r, c

(* A turn that gives up has stored its prompt at most. *)
LEMMA RowsGiveUp ==
  ASSUME NEW s, NEW u \in Turn, NEW p \in {"stored", "loaded"},
         RowsAre(s, <<User(u)>>, p, u)
  PROVE  \A i \in 1..Len(s) : s[i].by = u => s[i].role = "user"
<1> DEFINE m == User(u)
<1>1. m.role = "user"
  BY DEF User
<1> HIDE DEF m
<1>2. Len(<<m>>) = 1 /\ DOMAIN <<m>> = 1..1 /\ <<m>>[1] = m
  OBVIOUS
<1>3. PICK places : Embeds(<<m>>, s, u, places)
  BY DEF RowsAre, Held, UnderLock, m
<1>4. ASSUME NEW i \in 1..Len(s), s[i].by = u PROVE s[i].role = "user"
  <2>1. s[places[1]] = m /\ places[1] = i
    BY <1>2, <1>3, <1>4 DEF Embeds, Placed
  <2> QED BY <1>1, <2>1
<1> QED BY <1>4

(* The block of a turn, where it is. *)
LEMMA Blocks ==
  ASSUME IInv, NEW u \in Turn
  PROVE  /\ Block(u) \in Seq(Message) /\ Len(Block(u)) > 0
         /\ \A k \in 1..Len(Block(u)) : Block(u)[k].by = u
         /\ kept[u] = 0 => Block(u) = <<User(u)>>
         /\ kept[u] = Len(output[u]) => Block(u) = <<User(u)>> \o output[u]
<1> DEFINE o == output[u]
           n == kept[u]
           z == SubSeq(o, 1, n)
           m == User(u)
<1>1. o \in Seq(Message) /\ n \in Nat /\ n <= Len(o) /\ \A i \in DOMAIN o : o[i].by = u
  BY Shapes
<1>2. m \in Message /\ m.by = u
  <2>1. 0 \in Nat /\ TRUE \in BOOLEAN
    OBVIOUS
  <2> QED BY <2>1, Says
<1> HIDE DEF o, n
<1>3. /\ <<m>> \o z \in Seq(Message) /\ Len(<<m>> \o z) = n + 1
      /\ <<m>> \o SubSeq(o, 1, 0) = <<m>>
      /\ <<m>> \o SubSeq(o, 1, Len(o)) = <<m>> \o o
  BY <1>1, BlockIs
<1> HIDE DEF m
<1>4. ASSUME NEW k \in 1..(n + 1) PROVE (<<m>> \o z)[k].by = u
  <2>1. z \in Seq(Message) /\ Len(z) = n /\ \A i \in 1..n : z[i] = o[i] /\ i \in DOMAIN o
    BY <1>1
  <2> HIDE DEF z
  <2>2. <<m>> \in Seq(Message) /\ Len(<<m>>) = 1 /\ <<m>>[1] = m
    BY <1>2
  <2>3. (<<m>> \o z)[k] = IF k <= 1 THEN <<m>>[k] ELSE z[k - 1]
    BY <1>1, <2>1, <2>2, ConcatIs
  <2>4. CASE k = 1
    BY <1>2, <2>2, <2>3, <2>4
  <2>5. CASE k # 1
    <3>1. k - 1 \in 1..n /\ ~(k <= 1)
      BY <1>1, <2>5
    <3> QED BY <1>1, <2>1, <2>3, <3>1
  <2> QED BY <2>4, <2>5
<1>5. Block(u) = <<m>> \o z
  BY DEF Block, o, n, m
<1>6. n + 1 > 0
  BY <1>1
<1>7. /\ n = 0 => Block(u) = <<m>>
      /\ n = Len(o) => Block(u) = <<m>> \o o
  BY <1>3, <1>5
<1> QED BY <1>3, <1>4, <1>5, <1>6, <1>7 DEF n, o, m

(* A step that stores nothing changes no block. *)
LEMMA BlockSame ==
  ASSUME IInv, IInv', NEW u \in Turn, kept'[u] = kept[u],
         output'[u] = output[u] \/ kept[u] = 0
  PROVE  Block(u)' = Block(u)
<1>1. CASE output'[u] = output[u]
  BY <1>1 DEF Block
<1>2. CASE kept[u] = 0
  <2>1. Block(u) = <<User(u)>>
    BY <1>2, Blocks
  <2>2. output'[u] \in Seq(Message) /\ 0 \in Nat /\ User(u)' = User(u)
    BY DEF IInv, Typed, RowsOK, RunsOK, EndsOK, WorldOK, User
  <2>3. <<User(u)>> \o SubSeq(output'[u], 1, 0) = <<User(u)>>
    BY <2>2, BlockIs
  <2>4. Block(u)' = <<User(u)>> \o SubSeq(output'[u], 1, 0)
    BY <1>2, <2>2 DEF Block
  <2> QED BY <2>1, <2>3, <2>4
<1> QED BY <1>1, <1>2

(* Where a turn goes without storing, its rows let it go. *)
LEMMA RowsWalk ==
  ASSUME IInv, IInv', NEW t \in Turn, TurnSteps(t), ~Prompts(t), ~Stores(t),
         RowsAre(transcript, Block(t), pc[t], t)
  PROVE  RowsAre(transcript, Block(t), pc'[t], t)
<1>1. pc[t] \in Closing \cup Over \/ kept[t] = 0
  BY Shapes
<1>2. \/ pc'[t] = pc[t]
      \/ pc[t] \in Before /\ pc'[t] \in Before \cup {"refused"}
      \/ pc[t] \in Held /\ pc'[t] \in Held
      \/ pc[t] \in {"stored", "loaded"} /\ pc'[t] = "refused"
      \/ pc[t] = "audited" /\ pc'[t] = "done"
  <2>1. CASE Waits(t)
    BY <2>1 DEF Waits, Same
  <2>2. CASE Walks(t)
    BY <2>2 DEF Walks, Goes, Before, Held, UnderLock, Running, Closing
  <2>3. CASE Ends(t)
    BY <2>3 DEF Ends, Held, UnderLock, Running, Closing
  <2>4. CASE Loads(t) \/ Slides(t) \/ Asks(t) \/ Hears(t) \/ Audits(t)
    BY <2>4 DEF Loads, Slides, Asks, Hears, Audits, Goes, Held, UnderLock, Running, Closing
  <2> QED BY <2>1, <2>2, <2>3, <2>4 DEF TurnSteps
<1>3. CASE pc'[t] = pc[t]
  BY <1>3
<1>4. CASE pc[t] \in Before /\ pc'[t] \in Before \cup {"refused"}
  BY <1>4 DEF RowsAre, Before, Held, UnderLock, Running, Closing
<1>5. CASE pc[t] \in Held /\ pc'[t] \in Held
  BY <1>5 DEF RowsAre, Before, Held, UnderLock, Running, Closing
<1>6. CASE pc[t] \in {"stored", "loaded"} /\ pc'[t] = "refused"
  <2>1. Block(t) = <<User(t)>>
    BY <1>1, <1>6, Blocks DEF Closing, Over
  <2>2. \A i \in 1..Len(transcript) : transcript[i].by = t => transcript[i].role = "user"
    BY <1>6, <2>1, RowsGiveUp
  <2> QED BY <1>6, <2>2 DEF RowsAre, Before, Held, UnderLock, Running, Closing
<1>7. CASE pc[t] = "audited" /\ pc'[t] = "done"
  BY <1>7 DEF RowsAre, Before, Held, UnderLock, Running, Closing
<1> QED BY <1>2, <1>3, <1>4, <1>5, <1>6, <1>7

LEMMA RowsStep ==
  ASSUME IInv, IInv', Rows, [Next]_vars
  PROVE  Rows'
<1>0. transcript \in Seq(Message)
  BY Shapes
<1>1. ASSUME NEW t \in Turn, Others(t), TurnSteps(t), NEW u \in Turn, u \notin tampered'
      PROVE  RowsAre(transcript', Block(u)', pc'[u], u)
  <2>1. RowsAre(transcript, Block(u), pc[u], u)
    BY <1>1 DEF Others, Rows
  <2>2. Block(u) \in Seq(Message) /\ Len(Block(u)) > 0
    BY Blocks
  <2>3. CASE u # t
    <3>1. pc'[u] = pc[u] /\ kept'[u] = kept[u] /\ output'[u] = output[u]
      BY <1>1, <2>3 DEF Others, Same
    <3>2. Block(u)' = Block(u)
      BY <3>1, BlockSame
    <3>3. CASE transcript' = transcript
      BY <2>1, <3>1, <3>2, <3>3
    <3>4. ASSUME NEW m \in Message, m.by = t, transcript' = Append(transcript, m),
                 pc[t] \in UnderLock
          PROVE  RowsAre(transcript', Block(u)', pc'[u], u)
      <4>1. pc[u] \notin Held
        BY <2>3, <3>4, LockHolder DEF Held
      <4> QED BY <1>0, <2>1, <2>2, <2>3, <3>1, <3>2, <3>4, <4>1, RowsAppend
    <3>5. CASE Prompts(t)
      <4>1. 0 \in Nat /\ TRUE \in BOOLEAN
        OBVIOUS
      <4>2. User(t) \in Message /\ User(t).by = t
        BY <4>1, Says
      <4> QED BY <3>4, <3>5, <4>2 DEF Prompts, UnderLock
    <3>6. CASE Stores(t)
      <4>1. pc[t] \in UnderLock /\ transcript' = Append(transcript, output[t][kept[t] + 1])
        BY <3>6 DEF Stores, UnderLock, Closing
      <4> QED BY <3>4, <3>6, <4>1, StoresOwn
    <3> QED BY <1>1, <3>3, <3>5, <3>6
            DEF TurnSteps, Waits, Walks, Loads, Slides, Asks, Hears, Ends, Audits, Goes
  <2>4. CASE u = t
    <3>1. CASE Prompts(t)
      <4>1. kept[t] = 0 /\ kept'[t] = kept[t]
        BY <3>1, Shapes DEF Prompts, Closing, Over
      <4>2. Block(t)' = <<User(t)>>
        <5>1. Block(t)' = Block(t) /\ Block(t) = <<User(t)>>
          BY <4>1, Blocks, BlockSame
        <5> QED BY <5>1
      <4>3. pc[t] = "locked" /\ pc'[t] \in {"stored", "loaded"}
            /\ transcript' = Append(transcript, User(t))
        BY <3>1 DEF Prompts
      <4> QED BY <1>0, <2>1, <2>4, <4>2, <4>3, RowsStart
    <3>2. CASE Stores(t)
      <4> DEFINE m == output[t][kept[t] + 1]
      <4>1. m \in Message
        BY <3>2, StoresOwn
      <4>2. Block(t)' = Append(Block(t), m)
        <5>1. output[t] \in Seq(Message) /\ kept[t] \in Nat /\ kept[t] + 1 <= Len(output[t])
          BY <3>2, Shapes DEF Stores
        <5>2. User(t)' = User(t)
          BY DEF User
        <5>3. Block(t)' = <<User(t)>> \o SubSeq(output[t], 1, kept[t] + 1)
          BY <3>2, <5>2 DEF Stores, Block
        <5> QED BY <5>1, <5>3, BlockIs DEF Block
      <4>3. pc[t] = "persist" /\ pc'[t] = "persist" /\ transcript' = Append(transcript, m)
        BY <3>2 DEF Stores
      <4> HIDE DEF m
      <4> QED BY <1>0, <2>1, <2>2, <2>4, <4>1, <4>2, <4>3, RowsExtend
    <3>3. CASE ~Prompts(t) /\ ~Stores(t)
      <4>1. transcript' = transcript /\ (Goes(t, pc[t], pc'[t], msgs'[t]) \/ Ends(t))
        BY <1>1, <3>3 DEF TurnSteps, Waits, Same, Walks, Loads, Slides, Asks, Hears,
                          Ends, Audits, Goes
      <4>2. kept'[t] = kept[t] /\ (output'[t] = output[t] \/ kept[t] = 0)
        <5>1. CASE Ends(t)
          BY <5>1, Shapes DEF Ends, Running, Closing, Over
        <5>2. CASE ~Ends(t)
          BY <4>1, <5>2 DEF Goes
        <5> QED BY <5>1, <5>2
      <4>3. Block(t)' = Block(t)
        BY <4>2, BlockSame
      <4> QED BY <1>1, <2>1, <2>4, <3>3, <4>1, <4>3, RowsWalk
    <3> QED BY <3>1, <3>2, <3>3
  <2> QED BY <2>3, <2>4
<1>2. ASSUME Nothing, NEW u \in Turn
      PROVE  pc'[u] = pc[u] /\ Block(u)' = Block(u)
  BY <1>2, BlockSame DEF Nothing, Same
<1>3. ASSUME Nothing, tampered' = tampered, transcript' = transcript PROVE Rows'
  BY <1>2, <1>3 DEF Rows
<1>4. ASSUME Nothing, tampered' = tampered,
             transcript' = Append(transcript, Text(Loop, TRUE)),
             NEW u \in Turn, u \notin tampered'
      PROVE  RowsAre(transcript', Block(u)', pc'[u], u)
  <2>1. RowsAre(transcript, Block(u), pc[u], u)
    BY <1>4 DEF Rows
  <2>2. Block(u) \in Seq(Message) /\ Len(Block(u)) > 0
    BY Blocks
  <2>3. RowsAre(Append(transcript, Text(Loop, TRUE)), Block(u), pc[u], u)
    BY <1>0, <2>1, <2>2, Notes, RowsAppend
  <2> QED BY <1>2, <1>4, <2>3
<1>5. ASSUME Nothing, NEW i \in 1..Len(transcript), transcript' = RemoveAt(transcript, i),
             tampered' = tampered \cup {transcript[i].by},
             NEW u \in Turn, u \notin tampered'
      PROVE  RowsAre(transcript', Block(u)', pc'[u], u)
  <2>1. RowsAre(transcript, Block(u), pc[u], u) /\ transcript[i].by # u
    BY <1>5 DEF Rows
  <2>2. RowsAre(RemoveAt(transcript, i), Block(u), pc[u], u)
    BY <1>0, <2>1, Blocks, RowsRemove
  <2> QED BY <1>2, <1>5, <2>2
<1>6. ASSUME Crash, NEW u \in Turn, u \notin tampered'
      PROVE  RowsAre(transcript', Block(u)', pc'[u], u)
  <2>1. Block(u)' = Block(u) /\ RowsAre(transcript, Block(u), pc[u], u)
        /\ transcript' = transcript
    BY <1>6, BlockSame DEF Crash, Rows
  <2>2. pc'[u] = pc[u] \/ pc'[u] = "dead"
    BY <1>6 DEF Crash
  <2> QED BY <2>1, <2>2 DEF RowsAre, Before, Held, UnderLock, Running, Closing
<1> QED BY <1>1, <1>3, <1>4, <1>5, <1>6, Steps DEF Rows

-----------------------------------------------------------------------------
(* What is stored, and what is shown, pairs calls and results *)

LEMMA PairedBlock ==
  ASSUME NEW u \in Turn, NEW o \in Seq(Message), Paired(o, u)
  PROVE  Paired(<<User(u)>> \o o, u)
<1> DEFINE m == User(u)
           b == <<m>> \o o
           n == Len(o)
<1>1. m \in Message /\ m.role = "user"
  <2>1. 0 \in Nat /\ TRUE \in BOOLEAN
    OBVIOUS
  <2> QED BY <2>1, Says
<1> HIDE DEF m
<1>2. /\ n \in Nat /\ DOMAIN o = 1..n /\ DOMAIN b = 1..(n + 1)
      /\ b[1] = m
      /\ \A i \in 1..n : b[i + 1] = o[i]
  <2>1. <<m>> \in Seq(Message) /\ Len(<<m>>) = 1 /\ <<m>>[1] = m
    BY <1>1
  <2>2. /\ DOMAIN b = 1..(1 + Len(o))
        /\ \A j \in 1..(1 + Len(o)) : b[j] = IF j <= 1 THEN <<m>>[j] ELSE o[j - 1]
    BY <2>1, ConcatIs
  <2> HIDE DEF b
  <2>3. n \in Nat /\ DOMAIN o = 1..n /\ 1 + Len(o) = n + 1
    OBVIOUS
  <2>4. \A i \in 1..n : i + 1 \in 1..(n + 1) /\ ~(i + 1 <= 1) /\ (i + 1) - 1 = i
    BY <2>3
  <2> HIDE DEF n
  <2>5. b[1] = m
    <3>1. 1 \in 1..(n + 1)
      BY <2>3
    <3> QED BY <2>1, <2>2, <2>3, <3>1
  <2>6. ASSUME NEW i \in 1..n PROVE b[i + 1] = o[i]
    BY <2>2, <2>3, <2>4
  <2> QED BY <2>2, <2>3, <2>5, <2>6
<1>3. \A i \in 1..n : o[i].n \in Nat
  BY MessageAt
<1> HIDE DEF b, n
<1>4. ASSUME NEW i \in 1..(n + 1), b[i].by = u, b[i].role = "calls"
      PROVE  Answered(b, i)
  <2> DEFINE e == i - 1
  <2>1. e \in 1..n /\ e + 1 = i
    <3>1. i # 1
      BY <1>1, <1>2, <1>4
    <3> QED BY <1>2, <3>1
  <2> HIDE DEF e
  <2>2. b[i] = o[e]
    BY <1>2, <2>1
  <2>3. Answered(o, e)
    BY <1>2, <1>4, <2>1, <2>2 DEF Paired
  <2>4. ASSUME NEW k \in 1..b[i].n
        PROVE  i + k \in DOMAIN b /\ b[i + k] = Result(b[i].by, k)
    <3>1. e + k \in 1..n /\ o[e + k] = Result(b[i].by, k)
      BY <1>2, <2>2, <2>3 DEF Answered
    <3>2. i + k \in 1..(n + 1) /\ (e + k) + 1 = i + k
      BY <1>2, <2>1, <3>1
    <3> QED BY <1>2, <3>1, <3>2
  <2> QED BY <2>4 DEF Answered
<1>5. ASSUME NEW i \in 1..(n + 1), b[i].by = u, b[i].role = "result"
      PROVE  Issued(b, i)
  <2> DEFINE e == i - 1
             x == b[i].n
             j == e - x
  <2>1. e \in 1..n /\ e + 1 = i
    <3>1. i # 1
      BY <1>1, <1>2, <1>5
    <3> QED BY <1>2, <3>1
  <2> HIDE DEF e
  <2>2. b[i] = o[e] /\ x \in Nat /\ o[e].n = x
    BY <1>2, <1>3, <2>1
  <2>3. Issued(o, e)
    BY <1>2, <1>5, <2>1, <2>2 DEF Paired
  <2>4. j \in 1..n /\ o[j].role = "calls" /\ o[j].by = o[e].by /\ o[j].n >= x
    BY <1>2, <2>2, <2>3 DEF Issued
  <2> HIDE DEF x
  <2>5. j + 1 = i - x /\ j + 1 \in 1..(n + 1)
    BY <1>2, <2>1, <2>2, <2>4
  <2> HIDE DEF j
  <2>6. b[j + 1] = o[j]
    BY <1>2, <2>4
  <2>7. b[i].n = x
    BY DEF x
  <2> QED BY <1>2, <2>2, <2>4, <2>5, <2>6, <2>7 DEF Issued
<1> QED BY <1>2, <1>4, <1>5 DEF Paired, b, m

(* A run that ends pairs what it stores, or is broken. *)
LEMMA OutputsStep ==
  ASSUME IInv, IInv', Open, Conversations, LoopTalks, Outputs, [Next]_vars
  PROVE  Outputs'
<1>0. \A u \in Turn : Broken(u) => Broken(u)'
  BY BrokenStays
<1>1. ASSUME NEW t \in Turn, Others(t), TurnSteps(t),
             NEW u \in Turn, pc'[u] \in Closing \cup {"done"}
      PROVE  Broken(u)' \/ Paired(output'[u], u)
  <2>1. CASE pc[u] \in Closing \cup {"done"} /\ output'[u] = output[u]
    BY <1>0, <2>1 DEF Outputs
  <2>2. CASE u # t
    BY <1>1, <2>1, <2>2 DEF Others, Same
  <2>3. CASE u = t /\ ~Ends(t)
    <3>1. pc[u] \in Closing \cup {"done"} /\ output'[u] = output[u]
      BY <1>1, <2>3 DEF TurnSteps, Waits, Same, Walks, Prompts, Loads, Slides, Asks, Hears,
                        Stores, Audits, Goes, Before, Closing
    <3> QED BY <2>1, <3>1
  <2>4. CASE u = t /\ Ends(t)
    <3> DEFINE s == msgs[t]
    <3>1. /\ s \in Seq(Message) /\ msgs'[t] \in Seq(Message)
          /\ OwnTail(msgs'[t], t) /\ NotesOnly(msgs'[t])
      <4>1. msgs'[t] \in Seq(Message) /\ OwnTail(msgs'[t], t)
        BY DEF IInv, Typed, RowsOK, RunsOK, EndsOK, WorldOK, OwnTails
      <4> QED BY <1>1, <4>1, Shapes, TalkStep
    <3>2. ASSUME Linked(msgs'[t], t, Len(msgs'[t])), output'[t] = ToPersist(msgs'[t])
          PROVE  Paired(output'[t], t)
      BY <3>1, <3>2, LinkedOutput
    <3>3. CASE Broken(t)
      BY <1>0, <2>4, <3>3
    <3>4. CASE ending'[t] = "cancelled"
      BY <2>4, <3>4 DEF Broken
    <3>5. CASE /\ ~Broken(t) /\ output'[t] = ToPersist(msgs'[t])
               /\ pc[t] = "top" /\ msgs'[t] = msgs[t]
      BY <2>4, <3>2, <3>5 DEF Conversations
    <3>6. ASSUME ~Broken(t), output'[t] = ToPersist(msgs'[t]), pc[t] = "calling",
                 NEW said \in BOOLEAN, msgs'[t] = Append(s, Text(t, said))
          PROVE  Paired(output'[t], t)
      <4> DEFINE m == Text(t, said)
      <4>1. Linked(s, t, Len(s))
        BY <3>6 DEF Conversations
      <4>2. m \in Message /\ m.role = "text"
        <5>1. 0 \in Nat
          OBVIOUS
        <5> QED BY <5>1, Says
      <4>3. Len(Append(s, m)) = Len(s) + 1
        BY <3>1, <4>2
      <4> HIDE DEF m, s
      <4>4. Linked(Append(s, m), t, Len(s) + 1)
        BY <3>1, <4>1, <4>2, LinkedAppend
      <4> QED BY <3>2, <3>6, <4>3, <4>4 DEF m, s
    <3>7. CASE output'[t] \in {output[t], <<>>, <<Text(t, TRUE)>>}
      <4>1. output[t] = <<>>
        BY <2>4 DEF Ends, Open, Running, Closing, Over
      <4>2. Paired(<<>>, t)
        BY DEF Paired
      <4>3. Paired(<<Text(t, TRUE)>>, t)
        <5> DEFINE m == Text(t, TRUE)
        <5>1. m.role = "text"
          BY DEF Text
        <5> HIDE DEF m
        <5>2. DOMAIN <<m>> = 1..1 /\ <<m>>[1] = m
          OBVIOUS
        <5>3. \A i \in DOMAIN <<m>> : <<m>>[i].role = "text"
          BY <5>1, <5>2
        <5>4. Paired(<<m>>, t)
          BY <5>3 DEF Paired
        <5> QED BY <5>4 DEF m
      <4> QED BY <2>4, <3>7, <4>1, <4>2, <4>3
    <3> QED BY <2>4, <3>3, <3>4, <3>5, <3>6, <3>7 DEF Ends
  <2> QED BY <2>2, <2>3, <2>4
<1>2. ASSUME Nothing PROVE Outputs'
  BY <1>0, <1>2 DEF Nothing, Same, Outputs
<1>3. ASSUME Crash PROVE Outputs'
  BY <1>0, <1>3 DEF Crash, Outputs, Over, Closing
<1> QED BY <1>1, <1>2, <1>3, Steps DEF Outputs

(* The history a turn loads is linked. *)
LEMMA HistoryLinked ==
  ASSUME IInv, Rows, Complete, LoopTalks, Outputs,
         NEW t \in Turn, pc[t] = "stored", NEW u \in Turn, ~Broken(u)
  PROVE  Linked(transcript, u, Len(transcript))
<1> DEFINE s == transcript
<1>1. s \in Seq(Message) /\ NotesOnly(s) /\ RowsAre(s, Block(u), pc[u], u) /\ pc[u] # "dead"
  BY Shapes DEF LoopTalks, Rows, Broken, At
<1>2. ASSUME \A i \in 1..Len(s) : s[i].by = u => s[i].role = "user"
      PROVE  Linked(s, u, Len(s))
  BY <1>2 DEF Linked
<1>3. CASE pc[u] \in Before
  BY <1>1, <1>2, <1>3 DEF RowsAre
<1>4. CASE pc[u] = "refused"
  BY <1>1, <1>2, <1>4 DEF RowsAre
<1>5. CASE pc[u] \in Held
  <2>1. u = t
    BY <1>5, LockHolder DEF Held, UnderLock
  <2>2. Block(u) = <<User(u)>>
    BY <2>1, Shapes, Blocks DEF Closing, Over
  <2> HIDE DEF s
  <2>3. RowsAre(s, <<User(u)>>, "stored", u)
    BY <1>1, <2>1, <2>2
  <2>4. "stored" \in {"stored", "loaded"}
    OBVIOUS
  <2>5. \A i \in 1..Len(s) : s[i].by = u => s[i].role = "user"
    BY <2>3, <2>4, RowsGiveUp
  <2>6. Linked(s, u, Len(s))
    BY <1>2, <2>5
  <2> QED BY <2>6 DEF s
<1>6. CASE pc[u] = "done"
  <2>1. kept[u] = Len(output[u]) /\ Paired(output[u], u) /\ output[u] \in Seq(Message)
    BY <1>6, Shapes DEF Complete, Stored, Outputs, Broken
  <2>2. Paired(Block(u), u)
    BY <2>1, Blocks, PairedBlock
  <2> DEFINE b == Block(u)
  <2>3. PICK places : Embeds(b, s, u, places)
    BY <1>1, <1>6 DEF RowsAre
  <2>4. b \in Seq(Message) /\ \A k \in 1..Len(b) : b[k].by = u
    BY Blocks
  <2>5. Len(s) \in Nat /\ DOMAIN s = 1..Len(s) /\ NotesOnly(s) /\ u # Loop
    BY <1>1, ConstantsAssumption
  <2>6. Paired(b, u)
    BY <2>2
  <2> HIDE DEF s, b
  <2>7. Linked(s, u, Len(s))
    BY ONLY <2>3, <2>4, <2>5, <2>6, BlockLinked
  <2> QED BY <2>7 DEF s
<1> QED BY <1>1, <1>3, <1>4, <1>5, <1>6, Shapes
        DEF Before, Held, UnderLock, Asking, Running, Closing, Over

(* What the model is shown next is linked. *)
LEMMA ConversationsStep ==
  ASSUME IInv, IInv', Open, Rows, Complete, LoopTalks, Outputs, Conversations, [Next]_vars
  PROVE  Conversations'
<1>0. \A u \in Turn : ~Broken(u)' => ~Broken(u)
  BY BrokenStays
<1> DEFINE Shown(t) == pc[t] \in {"top", "calling"} \/ (pc[t] = "loaded" /\ kind[t] # "team")
<1>1. ASSUME NEW t \in Turn, Others(t), TurnSteps(t), NEW u \in Turn, Shown(t)', ~Broken(u)'
      PROVE  Linked(msgs'[t], u, Len(msgs'[t]))
  <2> DEFINE s == msgs[t]
  <2>1. s \in Seq(Message) /\ ~Broken(u)
    BY <1>0, <1>1, Shapes
  <2>2. CASE Shown(t) /\ msgs'[t] = s
    BY <2>1, <2>2 DEF Conversations
  <2>3. CASE Loads(t)
    <3>1. pc[t] = "stored" /\ msgs'[t] = Append(transcript, User(t))
      BY <2>3 DEF Loads, Goes
    <3>2. Linked(transcript, u, Len(transcript)) /\ transcript \in Seq(Message)
      BY <2>1, <3>1, HistoryLinked, Shapes
    <3> DEFINE m == User(t)
               w == transcript
    <3>3. m \in Message /\ m.role = "user"
      <4>1. 0 \in Nat /\ TRUE \in BOOLEAN
        OBVIOUS
      <4> QED BY <4>1, Says
    <3> HIDE DEF m, w
    <3>4. w \in Seq(Message) /\ Linked(w, u, Len(w)) /\ msgs'[t] = Append(w, m)
      BY <3>1, <3>2 DEF w, m
    <3>5. Len(Append(w, m)) = Len(w) + 1
      BY <3>3, <3>4
    <3>6. Linked(Append(w, m), u, Len(w) + 1)
      BY <3>3, <3>4, LinkedAppend
    <3> QED BY <3>4, <3>5, <3>6
  <2>4. CASE Slides(t)
    <3>1. pc[t] = "top" /\ msgs'[t] = Slide(s)
      BY <2>4 DEF Slides, Goes
    <3>2. Linked(s, u, Len(s))
      BY <2>1, <3>1 DEF Conversations
    <3> HIDE DEF s
    <3> QED BY <2>1, <3>1, <3>2, LinkedSlide
  <2>5. CASE Hears(t)
    <3>1. pc[t] = "tools"
          /\ msgs'[t] = s \o [k \in 1..s[Len(s)].n |-> Result(t, k)]
      BY <2>5 DEF Hears, Goes
    <3>2. /\ Len(s) > 0 /\ s[Len(s)].by = t /\ s[Len(s)].role = "calls"
          /\ Linked(s, u, Len(s) - 1)
      BY <2>1, <3>1 DEF Conversations
    <3> HIDE DEF s
    <3> QED BY <2>1, <3>1, <3>2, LinkedResults
  <2>6. CASE Asks(t) \/ Ends(t) \/ Stores(t) \/ Audits(t)
    BY <1>1, <2>6 DEF Asks, Ends, Stores, Audits, Goes
  <2>7. CASE Waits(t)
    BY <1>1, <2>2, <2>7 DEF Waits, Same, Others
  <2>8. CASE Walks(t)
    BY <1>1, <2>2, <2>8 DEF Walks, Goes, Others
  <2>9. CASE Prompts(t)
    BY <1>1, <2>9 DEF Prompts, Others
  <2> QED BY <1>1, <2>3, <2>4, <2>5, <2>6, <2>7, <2>8, <2>9 DEF TurnSteps
<1>2. ASSUME NEW t \in Turn, Others(t), TurnSteps(t), pc'[t] = "tools"
      PROVE  /\ Len(msgs'[t]) > 0
             /\ msgs'[t][Len(msgs'[t])].by = t
             /\ msgs'[t][Len(msgs'[t])].role = "calls"
             /\ \A u \in Turn : Broken(u)' \/ Linked(msgs'[t], u, Len(msgs'[t]) - 1)
  <2> DEFINE s == msgs[t]
  <2>1. CASE pc[t] = "tools" /\ msgs'[t] = s
    BY <1>0, <2>1 DEF Conversations
  <2>2. CASE Asks(t)
    <3>1. PICK k \in Nat, said \in BOOLEAN :
            pc[t] = "calling" /\ msgs'[t] = Append(s, Calls(t, k, said))
      BY <2>2 DEF Asks, Goes
    <3> DEFINE m == Calls(t, k, said)
    <3>2. m \in Message /\ m.by = t /\ m.role = "calls" /\ s \in Seq(Message)
      BY Says, Shapes
    <3>3. \A u \in Turn : Broken(u) \/ Linked(s, u, Len(s))
      BY <3>1 DEF Conversations
    <3> HIDE DEF m, s
    <3>4. /\ Len(Append(s, m)) = Len(s) + 1 /\ Len(s) \in Nat
          /\ Append(s, m)[Len(s) + 1] = m
      BY <3>2
    <3>5. \A u \in Turn : Broken(u)' \/ Linked(Append(s, m), u, Len(s))
      BY <1>0, <3>2, <3>3, LinkedAppend
    <3>6. (Len(s) + 1) - 1 = Len(s) /\ Len(s) + 1 > 0
      BY <3>4
    <3>7. msgs'[t] = Append(s, m)
      BY <3>1 DEF m
    <3> QED BY <3>2, <3>4, <3>5, <3>6, <3>7
  <2> QED BY <1>2, <2>1, <2>2
          DEF TurnSteps, Waits, Same, Walks, Prompts, Loads, Slides, Hears,
              Ends, Stores, Audits, Goes, Before
<1>3. ASSUME NEW t \in Turn, Same(t), kind' = kind
      PROVE  /\ Shown(t)' => \A u \in Turn : Broken(u)' \/ Linked(msgs'[t], u, Len(msgs'[t]))
             /\ pc'[t] = "tools" =>
                  /\ Len(msgs'[t]) > 0
                  /\ msgs'[t][Len(msgs'[t])].by = t
                  /\ msgs'[t][Len(msgs'[t])].role = "calls"
                  /\ \A u \in Turn : Broken(u)' \/ Linked(msgs'[t], u, Len(msgs'[t]) - 1)
  BY <1>0, <1>3 DEF Same, Conversations
<1>4. ASSUME NEW t \in Turn, Others(t), TurnSteps(t) PROVE Conversations'
  <2>1. \A u \in Turn : u # t => Same(u) /\ kind' = kind
    BY <1>4 DEF Others
  <2> QED BY <1>1, <1>2, <1>3, <1>4, <2>1 DEF Conversations
<1>5. ASSUME Nothing PROVE Conversations'
  BY <1>3, <1>5 DEF Nothing, Conversations
<1>6. ASSUME Crash PROVE Conversations'
  BY <1>6 DEF Crash, Conversations, Over
<1> QED BY <1>4, <1>5, <1>6, Steps

-----------------------------------------------------------------------------
(* Every finished run is in the history as one block *)

LEMMA SeenBlock ==
  ASSUME NEW s \in Seq(Message), NEW m \in Message, NEW u, m.by # u,
         NEW b \in Seq(Message), Len(b) > 0, RowsAre(s, b, "done", u)
  PROVE  Occurs(b, Append(s, m))
<1> DEFINE r == Append(s, m)
<1>1. Longer(r, s, m) /\ r \in Seq(Message)
  BY AppendIsLonger
<1> HIDE DEF r
<1>2. PICK places : Embeds(b, s, u, places)
  BY DEF RowsAre
<1>3. /\ places \in [1..Len(b) -> 1..Len(r)]
      /\ Embeds(b, r, u, places)
      /\ m.by = Loop /\ AtEnd(b, s, places) => AtEnd(b, r, places)
  BY <1>1, <1>2, FollowBlock
<1>4. DOMAIN b = 1..Len(b) /\ DOMAIN r = 1..Len(r)
  BY <1>1
<1> QED BY <1>3, <1>4 DEF Occurs, Embeds, r

LEMMA FollowStep ==
  ASSUME IInv, IInv', Open, Rows, Complete, FollowUpSees, [Next]_vars
  PROVE  FollowUpSees'
<1> DEFINE Sees(t, u) == Occurs(<<User(u)>> \o output[u], msgs[t])
<1>0. SUFFICES ASSUME NEW t \in Turn, NEW u \in Turn,
                      pc'[t] = "loaded", kind'[t] # "team", pc'[u] = "done",
                      u \notin unstored' \cup tampered'
               PROVE  Sees(t, u)'
  BY DEF FollowUpSees, At
<1>1. ASSUME pc[t] = "loaded", kind[t] # "team", pc[u] = "done",
             u \notin unstored \cup tampered,
             output'[u] = output[u], msgs'[t] = msgs[t]
      PROVE  Sees(t, u)'
  <2>1. Sees(t, u)
    BY <1>1 DEF FollowUpSees, At
  <2>2. User(u)' = User(u)
    BY DEF User
  <2> QED BY <1>1, <2>1, <2>2
<1>2. ASSUME NEW v \in Turn, Others(v), TurnSteps(v), ~Loads(v) \/ v # t
      PROVE  Sees(t, u)'
  <2>1. u # t
    BY <1>0
  <2>2. kind' = kind /\ u \notin unstored \cup tampered
    BY <1>0, <1>2 DEF Others
  <2>3. pc[t] = "loaded" /\ msgs'[t] = msgs[t]
    <3>1. CASE v # t
      BY <1>0, <1>2, <3>1 DEF Others, Same
    <3>2. CASE v = t
      BY <1>0, <1>2, <2>2, <3>2
         DEF TurnSteps, Waits, Same, Walks, Prompts, Slides, Asks, Hears,
             Ends, Stores, Audits, Goes, Before
    <3> QED BY <3>1, <3>2
  <2>4. pc[u] = "done" /\ output'[u] = output[u]
    <3>1. CASE v # u
      BY <1>0, <1>2, <3>1 DEF Others, Same
    <3>2. CASE v = u
      <4>1. pc[u] \notin UnderLock
        BY <2>1, <2>3, LockHolder DEF UnderLock
      <4> QED BY <1>0, <1>2, <3>2, <4>1
              DEF TurnSteps, Waits, Same, Walks, Prompts, Loads, Slides, Asks, Hears,
                  Ends, Stores, Audits, Goes, Before, UnderLock, Running, Closing
    <3> QED BY <3>1, <3>2
  <2> QED BY <1>0, <1>1, <2>2, <2>3, <2>4
<1>3. ASSUME Others(t), Loads(t) PROVE Sees(t, u)'
  <2>1. pc[u] = "done" /\ output'[u] = output[u] /\ u \notin unstored \cup tampered
    BY <1>0, <1>3 DEF Others, Same
  <2> DEFINE s == transcript
             m == User(t)
             b == Block(u)
             r == Append(s, m)
  <2>2. msgs'[t] = r
    BY <1>3 DEF Loads, Goes
  <2>3. s \in Seq(Message) /\ m \in Message /\ m.by = t /\ t # u
    <3>1. 0 \in Nat /\ TRUE \in BOOLEAN
      OBVIOUS
    <3> QED BY <1>0, <3>1, Says, Shapes
  <2>4. b \in Seq(Message) /\ Len(b) > 0 /\ b = <<User(u)>> \o output[u]
    BY <2>1, Blocks DEF Complete, Stored
  <2>5. RowsAre(s, b, "done", u)
    BY <2>1 DEF Rows
  <2> HIDE DEF s, m, b
  <2>6. Occurs(b, r)
    <3>1. m.by # u
      BY <2>3
    <3> QED BY <2>3, <2>4, <2>5, <3>1, SeenBlock
  <2> HIDE DEF r
  <2>7. User(u)' = User(u)
    BY DEF User
  <2> QED BY <2>1, <2>2, <2>4, <2>6, <2>7
<1>4. ASSUME Nothing, tampered \subseteq tampered' PROVE Sees(t, u)'
  BY <1>0, <1>1, <1>4 DEF Nothing, Same
<1>5. ASSUME Crash PROVE Sees(t, u)'
  BY <1>0, <1>5 DEF Crash, Over
<1> QED BY <1>2, <1>3, <1>4, <1>5, Steps

-----------------------------------------------------------------------------
(* What a chat session promises *)

(* No output holds a prompt: what follows the last prompt is stored, or    *)
(* one text.                                                               *)
NoPrompt(s) == \A i \in 1..Len(s) : s[i].role # "user"
Answering == \A t \in Turn : NoPrompt(output[t])

LEMMA OneText ==
  ASSUME NEW t \in Turn
  PROVE  NoPrompt(<<Text(t, TRUE)>>)
<1> DEFINE m == Text(t, TRUE)
<1>1. m.role = "text"
  BY DEF Text
<1> HIDE DEF m
<1>2. Len(<<m>>) = 1 /\ <<m>>[1] = m
  OBVIOUS
<1>3. NoPrompt(<<m>>)
  BY <1>1, <1>2 DEF NoPrompt
<1> QED BY <1>3 DEF m

LEMMA OutputAnswers ==
  ASSUME NEW s \in Seq(Message)
  PROVE  NoPrompt(ToPersist(s))
<1> DEFINE n == Len(s)
           p == Inbound(s)
<1>1. n \in Nat /\ p \in 0..n /\ \A i \in (p + 1)..n : s[i].role # "user"
  BY LastUser
<1>2. CASE p # 0
  <2>1. ToPersist(s) = SubSeq(s, p + 1, n)
    BY <1>2 DEF ToPersist
  <2> HIDE DEF p, n
  <2>2. p + 1 \in 1..(n + 1)
    BY <1>1
  <2>3. /\ Len(ToPersist(s)) = n - (p + 1) + 1
        /\ \A i \in 1..(n - (p + 1) + 1) : ToPersist(s)[i] = s[i + ((p + 1) - 1)]
    BY <2>1, <2>2, SuffixOf DEF n
  <2>4. ASSUME NEW i \in 1..(n - (p + 1) + 1) PROVE i + ((p + 1) - 1) \in (p + 1)..n
    BY <1>1
  <2> QED BY <1>1, <2>3, <2>4 DEF NoPrompt
<1>3. CASE p = 0 /\ Reply(s) # 0
  <2> DEFINE m == Text(s[Reply(s)].by, TRUE)
  <2>1. ToPersist(s) = <<m>>
    BY <1>3 DEF ToPersist
  <2>2. m.role = "text"
    BY DEF Text
  <2> HIDE DEF m
  <2>3. Len(<<m>>) = 1 /\ <<m>>[1] = m
    OBVIOUS
  <2> QED BY <2>1, <2>2, <2>3 DEF NoPrompt
<1>4. CASE p = 0 /\ Reply(s) = 0
  <2>1. ToPersist(s) = <<>>
    BY <1>4 DEF ToPersist
  <2> QED BY <2>1 DEF NoPrompt
<1> QED BY <1>2, <1>3, <1>4

LEMMA AnsweringStep ==
  ASSUME IInv, IInv', Answering, [Next]_vars
  PROVE  Answering'
<1>1. ASSUME NEW t \in Turn, Others(t), TurnSteps(t), NEW u \in Turn
      PROVE  NoPrompt(output'[u])
  <2>1. CASE output'[u] = output[u]
    BY <2>1 DEF Answering
  <2>2. CASE output'[u] # output[u]
    <3>1. u = t /\ Ends(t)
      BY <1>1, <2>2 DEF Others, Same, TurnSteps, Waits, Walks, Prompts, Loads, Slides, Asks,
                        Hears, Stores, Audits, Goes
    <3>2. msgs'[t] \in Seq(Message) /\ NoPrompt(<<>>)
      BY DEF IInv, Typed, RowsOK, RunsOK, EndsOK, WorldOK, NoPrompt
    <3> QED BY <2>2, <3>1, <3>2, OneText, OutputAnswers DEF Ends
  <2> QED BY <2>1, <2>2
<1>2. ASSUME Nothing PROVE Answering'
  BY <1>2 DEF Nothing, Same, Answering
<1>3. ASSUME Crash PROVE Answering'
  BY <1>3 DEF Crash, Answering
<1> QED BY <1>1, <1>2, <1>3, Steps DEF Answering

LEMMA SameSeq ==
  ASSUME NEW L, NEW r \in Seq(L), NEW s \in Seq(L), Len(r) = Len(s),
         \A i \in 1..Len(s) : r[i] = s[i]
  PROVE  r = s
OBVIOUS

LEMMA TableIsSeq ==
  ASSUME NEW L, NEW n \in Nat, NEW f, f = [j \in 1..n |-> f[j]],
         \A j \in 1..n : f[j] \in L
  PROVE  f \in Seq(L) /\ Len(f) = n
<1>1. f \in [1..n -> L]
  OBVIOUS
<1> QED BY <1>1

(* The log of a longer and of a shorter history. *)
LEMMA LogAppend ==
  ASSUME NEW s \in Seq(Message), NEW m \in Message
  PROVE  LogOf(Append(s, m)) = Append(LogOf(s), Line(m))
<1> DEFINE n == Len(s)
           r == Append(s, m)
           a == LogOf(s)
           L == {Line(x) : x \in Message}
<1>1. /\ n \in Nat /\ DOMAIN s = 1..n /\ DOMAIN r = 1..(n + 1)
      /\ \A i \in 1..n : r[i] = s[i] /\ s[i] \in Message
      /\ r[n + 1] = m /\ \A i \in 1..(n + 1) : r[i] \in Message
  BY AppendIs
<1> HIDE DEF n, r
<1>2. a \in Seq(L) /\ Len(a) = n /\ \A i \in 1..n : a[i] = Line(s[i])
  BY <1>1 DEF LogOf
<1>3. /\ LogOf(r) \in Seq(L) /\ Len(LogOf(r)) = n + 1
      /\ \A i \in 1..(n + 1) : LogOf(r)[i] = Line(r[i])
  BY <1>1 DEF LogOf
<1>4. Line(m) \in L
  OBVIOUS
<1> HIDE DEF a, L
<1>5. \A x \in L : /\ Append(a, x) \in Seq(L) /\ Len(Append(a, x)) = n + 1
                   /\ \A i \in 1..n : Append(a, x)[i] = a[i]
                   /\ Append(a, x)[n + 1] = x
  BY <1>1, <1>2
<1>6. ASSUME NEW i \in 1..(n + 1) PROVE LogOf(r)[i] = Append(a, Line(m))[i]
  <2>1. i \in 1..n \/ i = n + 1
    BY <1>1
  <2> QED BY <1>1, <1>2, <1>3, <1>4, <1>5, <2>1
<1>7. LogOf(r) = Append(a, Line(m))
  <2> DEFINE y == Append(a, Line(m))
  <2>1. y \in Seq(L) /\ Len(y) = n + 1
    BY <1>4, <1>5
  <2> HIDE DEF y
  <2> QED BY <1>3, <1>6, <2>1, SameSeq DEF y
<1> QED BY <1>7 DEF a, r

LEMMA LogRemove ==
  ASSUME NEW s \in Seq(Message), NEW i \in 1..Len(s)
  PROVE  i \in DOMAIN LogOf(s) /\ LogOf(RemoveAt(s, i)) = RemoveAt(LogOf(s), i)
<1> DEFINE n == Len(s)
           r == RemoveAt(s, i)
           a == LogOf(s)
           L == {Line(s[j]) : j \in 1..n}
<1>1. Without(r, s, i)
  BY RemoveIs
<1>2. n \in Nat /\ DOMAIN s = 1..n /\ i \in 1..n
  OBVIOUS
<1> HIDE DEF n, r
<1>3. a \in Seq(L) /\ Len(a) = n /\ \A j \in 1..n : a[j] = Line(s[j])
  BY <1>2 DEF LogOf
<1>4. /\ LogOf(r) \in Seq(L) /\ Len(LogOf(r)) = n - 1
      /\ \A j \in 1..(n - 1) : LogOf(r)[j] = a[IF j < i THEN j ELSE j + 1]
  <2>1. \A j \in 1..(n - 1) : (IF j < i THEN j ELSE j + 1) \in 1..n
    BY <1>2
  <2>2. DOMAIN r = 1..(n - 1) /\ \A j \in 1..(n - 1) : r[j] = s[IF j < i THEN j ELSE j + 1]
    BY <1>1 DEF Without, n
  <2> HIDE DEF a
  <2>3. \A j \in 1..(n - 1) :
          /\ LogOf(r)[j] = a[IF j < i THEN j ELSE j + 1]
          /\ LogOf(r)[j] \in L
    BY <1>3, <2>1, <2>2 DEF LogOf
  <2>4. n - 1 \in Nat /\ LogOf(r) = [j \in 1..(n - 1) |-> LogOf(r)[j]]
    BY <1>2, <2>2 DEF LogOf
  <2> HIDE DEF L
  <2>5. LogOf(r) \in Seq(L) /\ Len(LogOf(r)) = n - 1
    BY <2>3, <2>4, TableIsSeq
  <2> QED BY <2>3, <2>5
<1> HIDE DEF a, L
<1>5. /\ RemoveAt(a, i) \in Seq(L) /\ Len(RemoveAt(a, i)) = n - 1
      /\ \A j \in 1..(n - 1) : RemoveAt(a, i)[j] = a[IF j < i THEN j ELSE j + 1]
  <2> DEFINE x == SubSeq(a, 1, i - 1)
             z == SubSeq(a, i + 1, n)
  <2>1. x \in Seq(L) /\ Len(x) = i - 1 /\ \A j \in 1..(i - 1) : x[j] = a[j]
    BY <1>2, <1>3
  <2>2. z \in Seq(L) /\ Len(z) = n - i /\ \A j \in 1..(n - i) : z[j] = a[j + i]
    BY <1>2, <1>3
  <2>3. RemoveAt(a, i) = x \o z
    BY <1>3 DEF RemoveAt
  <2> HIDE DEF x, z
  <2>4. /\ x \o z \in Seq(L) /\ Len(x \o z) = Len(x) + Len(z)
        /\ \A j \in 1..(Len(x) + Len(z)) :
             (x \o z)[j] = IF j <= Len(x) THEN x[j] ELSE z[j - Len(x)]
    BY <2>1, <2>2
  <2>5. Len(x) + Len(z) = n - 1
    BY <1>2, <2>1, <2>2
  <2>6. ASSUME NEW j \in 1..(n - 1)
        PROVE  (x \o z)[j] = a[IF j < i THEN j ELSE j + 1]
    <3>1. CASE j < i
      <4>1. j \in 1..(i - 1) /\ j <= i - 1
        BY <1>2, <3>1
      <4> QED BY <2>1, <2>4, <2>5, <3>1, <4>1
    <3>2. CASE ~(j < i)
      <4>1. /\ j - (i - 1) \in 1..(n - i) /\ (j - (i - 1)) + i = j + 1
            /\ ~(j <= i - 1)
        BY <1>2, <3>2
      <4> QED BY <2>1, <2>2, <2>4, <2>5, <3>2, <4>1
    <3> QED BY <3>1, <3>2
  <2> QED BY <2>3, <2>4, <2>5, <2>6
<1>7. LogOf(r) = RemoveAt(a, i)
  <2> DEFINE y == RemoveAt(a, i)
  <2>1. y \in Seq(L) /\ Len(y) = n - 1 /\ \A j \in 1..(n - 1) : LogOf(r)[j] = y[j]
    BY <1>4, <1>5
  <2> HIDE DEF y
  <2> QED BY <1>4, <2>1, SameSeq DEF y
<1>6. i \in DOMAIN a
  BY <1>2, <1>3
<1> QED BY <1>6, <1>7 DEF a, r

(* Who has the lock follows from where the turns are. *)
LEMMA LockSame ==
  ASSUME IInv, IInv', NEW t \in Turn, Others(t),
         pc[t] \in UnderLock <=> pc'[t] \in UnderLock
  PROVE  lock' = lock
BY DEF IInv, LockCoversTurn, Typed, RowsOK, RunsOK, EndsOK, WorldOK, Others, Same

LEMMA LockTaken ==
  ASSUME IInv, IInv', NEW t \in Turn, Others(t),
         pc[t] \notin UnderLock, pc'[t] \in UnderLock
  PROVE  lock = NoTurn /\ lock' = t
BY ConstantsAssumption DEF IInv, LockCoversTurn, Typed, RowsOK, RunsOK, EndsOK, WorldOK, Others, Same

LEMMA LockLeft ==
  ASSUME IInv, IInv', NEW t \in Turn, Others(t), pc'[t] \notin UnderLock
  PROVE  lock' = IF lock \in {t} THEN NoTurn ELSE lock
BY ConstantsAssumption DEF IInv, LockCoversTurn, Typed, RowsOK, RunsOK, EndsOK, WorldOK, Others, Same

(* The stages of the turns when one of them moves. *)
LEMMA StageMoves ==
  ASSUME NEW t \in Turn, Others(t)
  PROVE  [u \in Turn |-> Stage(u)'] = [[u \in Turn |-> Stage(u)] EXCEPT ![t] = Stage(t)']
<1>1. \A u \in Turn : u # t => Stage(u)' = Stage(u)
  BY DEF Others, Same, Stage
<1> QED BY <1>1

LEMMA WalkRefines ==
  ASSUME IInv, IInv', NEW t \in Turn, Others(t), Walks(t)
  PROVE  Session!Next \/ UNCHANGED Session!vars
<1> DEFINE stages == [u \in Turn |-> Stage(u)]
<1>1. /\ LogOf(transcript)' = LogOf(transcript)
      /\ stages' = [stages EXCEPT ![t] = Stage(t)']
  BY StageMoves DEF Walks, Goes, LogOf
<1>2. ASSUME Stage(t)' = Stage(t), lock' = lock
      PROVE  UNCHANGED Session!vars
  BY <1>1, <1>2 DEF Session!vars
<1>3. ASSUME pc'[t] \in {"refused", "done"}
      PROVE  Session!Next
  <2>1. pc'[t] \notin UnderLock /\ Stage(t)' = "over"
    BY <1>3 DEF UnderLock, Running, Closing, Over, Stage
  <2>2. lock' = IF lock \in {t} THEN NoTurn ELSE lock
    BY <2>1, LockLeft
  <2>3. stages' = [u \in Turn |-> IF u \in {t} THEN "over" ELSE stages[u]]
    BY <1>1, <2>1
  <2>4. Session!End({t})
    BY <1>1, <2>2, <2>3 DEF Session!End
  <2> QED BY <2>4 DEF Session!Next
<1>4. ASSUME pc[t] = "checked", pc'[t] = "locked"
      PROVE  Session!Next
  <2>1. pc[t] \notin UnderLock /\ pc'[t] \in UnderLock
    BY <1>4 DEF UnderLock, Running, Closing
  <2>2. lock = NoTurn /\ lock' = t
    BY <2>1, LockTaken
  <2>3. Stage(t) = "new" /\ Stage(t)' = "begun"
    BY <1>4 DEF Stage, Over
  <2>4. Session!Begins(t)
    BY <1>1, <2>2, <2>3 DEF Session!Begins, Session!Moves
  <2> QED BY <2>4 DEF Session!Next
<1>5. ASSUME \/ pc[t] = "idle" /\ pc'[t] = "checked"
             \/ pc[t] = "loaded" /\ pc'[t] \in Running
      PROVE  UNCHANGED Session!vars
  <2>1. pc[t] \in UnderLock <=> pc'[t] \in UnderLock
    BY <1>5 DEF UnderLock, Running, Closing
  <2>2. Stage(t)' = Stage(t)
    BY <1>5 DEF Stage, Over, Running
  <2> QED BY <1>2, <2>1, <2>2, LockSame
<1>6. \/ pc'[t] \in {"refused", "done"}
      \/ pc[t] = "checked" /\ pc'[t] = "locked"
      \/ pc[t] = "idle" /\ pc'[t] = "checked"
      \/ pc[t] = "loaded" /\ pc'[t] \in {"team", "top"}
  BY DEF Walks, Goes
<1> QED BY <1>3, <1>4, <1>5, <1>6 DEF Running

LEMMA PromptRefines ==
  ASSUME IInv, IInv', NEW t \in Turn, Others(t), Prompts(t)
  PROVE  Session!Next
<1> DEFINE stages == [u \in Turn |-> Stage(u)]
<1>1. stages' = [stages EXCEPT ![t] = Stage(t)']
  BY StageMoves
<1>2. Stage(t) = "begun" /\ Stage(t)' = "asked"
  BY DEF Prompts, Stage, Over
<1>3. pc[t] \in UnderLock /\ pc'[t] \in UnderLock
  BY DEF Prompts, UnderLock, Running, Closing
<1>4. lock = t /\ lock' = lock
  BY <1>3, LockSame DEF IInv, LockCoversTurn
<1>5. LogOf(transcript)' = Append(LogOf(transcript), Session!Prompt(t))
  <2>1. 0 \in Nat /\ TRUE \in BOOLEAN
    OBVIOUS
  <2>2. transcript \in Seq(Message) /\ User(t) \in Message
    BY <2>1, Shapes, Says
  <2>3. Line(User(t)) = Session!Prompt(t)
    BY DEF Line, User, Session!Prompt
  <2>4. transcript' = Append(transcript, User(t))
    BY DEF Prompts
  <2>5. LogOf(transcript)' = LogOf(transcript')
    BY DEF LogOf
  <2> QED BY <2>2, <2>3, <2>4, <2>5, LogAppend
<1>6. Session!Asks(t)
  BY <1>1, <1>2, <1>4, <1>5 DEF Session!Asks, Session!Moves
<1> QED BY <1>6 DEF Session!Next

LEMMA StoreRefines ==
  ASSUME IInv, IInv', Answering, NEW t \in Turn, Others(t), Stores(t)
  PROVE  Session!Next
<1> DEFINE stages == [u \in Turn |-> Stage(u)]
           m == output[t][kept[t] + 1]
<1>1. stages' = [stages EXCEPT ![t] = Stage(t)']
  BY StageMoves
<1>2. Stage(t) = "asked" /\ Stage(t)' = "asked"
  BY DEF Stores, Stage, Over
<1>3. pc[t] \in UnderLock /\ pc'[t] \in UnderLock
  BY DEF Stores, UnderLock, Running, Closing
<1>4. lock = t /\ lock' = lock
  BY <1>3, LockSame DEF IInv, LockCoversTurn
<1>5. LogOf(transcript)' = Append(LogOf(transcript), Session!Answer(t))
  <2>1. m \in Message /\ m.by = t /\ m.role # "user"
    BY StoresOwn DEF Stores, Answering, NoPrompt
  <2>2. transcript' = Append(transcript, m)
    BY DEF Stores
  <2> HIDE DEF m
  <2>3. Line(m) = Session!Answer(t)
    BY <2>1 DEF Line, Session!Answer
  <2>4. LogOf(transcript)' = LogOf(transcript')
    BY DEF LogOf
  <2> QED BY <2>1, <2>2, <2>3, <2>4, Shapes, LogAppend
<1>6. stages' = stages
  BY <1>1, <1>2
<1>7. Session!Answers(t)
  BY <1>2, <1>4, <1>5, <1>6 DEF Session!Answers
<1> QED BY <1>7 DEF Session!Next

LEMMA TurnRefines ==
  ASSUME IInv, IInv', Answering, NEW t \in Turn, Others(t), TurnSteps(t)
  PROVE  Session!Next \/ UNCHANGED Session!vars
<1>1. CASE Walks(t)
  BY <1>1, WalkRefines
<1>2. CASE Prompts(t)
  BY <1>2, PromptRefines
<1>3. CASE Stores(t)
  BY <1>3, StoreRefines
<1>4. CASE Waits(t) \/ Loads(t) \/ Slides(t) \/ Asks(t) \/ Hears(t) \/ Ends(t) \/ Audits(t)
  <2>1. transcript' = transcript
    BY <1>4 DEF Waits, Loads, Slides, Asks, Hears, Ends, Audits, Goes
  <2>2. \/ pc'[t] = pc[t]
        \/ pc[t] \in Held /\ pc'[t] \in Held
    BY <1>4 DEF Waits, Same, Loads, Slides, Asks, Hears, Ends, Audits, Goes, Held,
                UnderLock, Running, Closing
  <2>3. Stage(t)' = Stage(t) /\ (pc[t] \in UnderLock <=> pc'[t] \in UnderLock)
    BY <2>2 DEF Stage, Over, Held, UnderLock, Running, Closing
  <2>4. lock' = lock
    BY <2>3, LockSame
  <2>5. [u \in Turn |-> Stage(u)]' = [u \in Turn |-> Stage(u)]
    BY <2>3, StageMoves
  <2> QED BY <2>1, <2>4, <2>5 DEF Session!vars, LogOf
<1> QED BY <1>1, <1>2, <1>3, <1>4 DEF TurnSteps

LEMMA StepRefines ==
  ASSUME IInv, IInv', Answering, [Next]_vars
  PROVE  Session!Next \/ UNCHANGED Session!vars
<1>1. ASSUME NEW t \in Turn, Others(t), TurnSteps(t)
      PROVE  Session!Next \/ UNCHANGED Session!vars
  BY <1>1, TurnRefines
<1>2. ASSUME Nothing PROVE lock' = lock /\ [u \in Turn |-> Stage(u)]' = [u \in Turn |-> Stage(u)]
  BY <1>2 DEF Nothing, Same, Stage, IInv, LockCoversTurn, Typed, RowsOK, RunsOK, EndsOK, WorldOK
<1>3. CASE Nothing /\ transcript' = transcript
  BY <1>2, <1>3 DEF Session!vars, LogOf
<1>4. CASE Nothing /\ transcript' = Append(transcript, Text(Loop, TRUE))
  <2> DEFINE m == Text(Loop, TRUE)
  <2>1. m \in Message /\ m.by = Loop /\ m.role = "text"
    BY Notes
  <2> HIDE DEF m
  <2>2. Line(m) = Session!Answer(Loop)
    BY <2>1 DEF Line, Session!Answer
  <2>3. LogOf(transcript)' = Append(LogOf(transcript), Line(m))
    <3>1. LogOf(transcript)' = LogOf(transcript')
      BY DEF LogOf
    <3> QED BY <1>4, <2>1, <3>1, Shapes, LogAppend DEF m
  <2>4. Session!Notes
    BY <1>2, <1>4, <2>2, <2>3 DEF Session!Notes
  <2> QED BY <2>4 DEF Session!Next
<1>5. ASSUME Nothing, NEW i \in 1..Len(transcript), transcript' = RemoveAt(transcript, i)
      PROVE  Session!Next
  <2>1. /\ i \in DOMAIN LogOf(transcript)
        /\ LogOf(transcript') = RemoveAt(LogOf(transcript), i)
    BY <1>5, Shapes, LogRemove
  <2>2. LogOf(transcript)' = LogOf(transcript')
    BY DEF LogOf
  <2>3. \E j \in DOMAIN LogOf(transcript) :
          LogOf(transcript)' = RemoveAt(LogOf(transcript), j)
    BY <1>5, <2>1, <2>2
  <2>4. Session!Deletes
    BY <1>2, <1>5, <2>3 DEF Session!Deletes, RemoveAt, Session!RemoveAt
  <2> QED BY <2>4 DEF Session!Next
<1>6. CASE Crash
  <2> DEFINE S == {u \in Turn : pc[u] # "idle"}
  <2>1. LogOf(transcript)' = LogOf(transcript)
    BY <1>6 DEF Crash, LogOf
  <2>2. [u \in Turn |-> Stage(u)]' =
          [u \in Turn |-> IF u \in S THEN "over" ELSE [v \in Turn |-> Stage(v)][u]]
    BY <1>6 DEF Crash, Stage, Over
  <2>3. lock' = IF lock \in S THEN NoTurn ELSE lock
    BY <1>6 DEF Crash, IInv, LockCoversTurn, Typed, RowsOK, RunsOK, EndsOK, WorldOK, UnderLock, Running, Closing
  <2>4. Session!End(S)
    BY <2>1, <2>2, <2>3 DEF Session!End
  <2> QED BY <2>4 DEF Session!Next
<1> QED BY <1>1, <1>3, <1>4, <1>5, <1>6, Steps

-----------------------------------------------------------------------------
(* The theorems *)

LEMMA HistoryInit == Init => HInv
<1> SUFFICES ASSUME Init PROVE HInv
  OBVIOUS
<1>1. Rows
  BY DEF Init, Rows, RowsAre, Before, Held, UnderLock, Running, Closing
<1>2. Complete /\ Open /\ Outputs /\ Conversations /\ FollowUpSees
  BY DEF Init, Complete, Open, Outputs, Conversations, FollowUpSees, At, Closing
<1>3. LoopTalks
  BY DEF Init, LoopTalks, NotesOnly
<1> QED BY <1>1, <1>2, <1>3 DEF HInv

LEMMA HistoryStep == IInv /\ IInv' /\ HInv /\ [Next]_vars => HInv'
BY OpenStep, CompleteStep, LoopTalksStep, RowsStep, OutputsStep, ConversationsStep,
   FollowStep DEF HInv

(* The inductive invariant above holds of every reachable state. *)
THEOREM History == Spec => []HInv
<1>1. Init => HInv
  BY HistoryInit
<1>2. IInv /\ IInv' /\ HInv /\ [Next]_vars => HInv'
  BY HistoryStep
<1> QED BY <1>1, <1>2, Invariance, PTL DEF Spec

(* A turn that loads the history finds every finished run in it as one     *)
(* block, prompt first, with nothing amid it but notes of the loop         *)
(* controller: for any number of turns, notes, deletions, failed appends   *)
(* and crashes. *)
THEOREM FollowUp == Spec => []FollowUpSees
<1>1. HInv => FollowUpSees
  BY DEF HInv
<1> QED BY <1>1, History, PTL

(* What the model is shown pairs every call with its results and every     *)
(* result with its call, but for the turns that left a broken record or    *)
(* were split by a note: for any window, any number of calls in an answer  *)
(* and any history.  *)
THEOREM Pairs == Spec => []PairsIntact
<1>1. IInv /\ HInv => PairsIntact
  <2> SUFFICES ASSUME IInv, HInv, NEW t \in Turn, pc[t] = "calling", NEW u \in Turn, ~Broken(u)
               PROVE  Split(msgs[t], u) \/ Paired(msgs[t], u)
    BY DEF PairsIntact, At
  <2>1. /\ msgs[t] \in Seq(Message) /\ NotesOnly(msgs[t])
        /\ Linked(msgs[t], u, Len(msgs[t]))
    BY Shapes DEF HInv, LoopTalks, Conversations
  <2> QED BY <2>1, LinkedPairs
<1> QED BY <1>1, History, Invariance, PTL

LEMMA InitRefines == Init => Session!Init
<1> SUFFICES ASSUME Init PROVE Session!Init
  OBVIOUS
<1>1. LogOf(transcript) = <<>>
  <2>1. DOMAIN transcript = {}
    BY DEF Init
  <2> QED BY <2>1 DEF LogOf
<1>2. \A t \in Turn : Stage(t) = "new"
  BY DEF Init, Stage, Over
<1> QED BY <1>1, <1>2 DEF Init, Session!Init

(* The turns of a session, with their early returns, failures, cancels and *)
(* crashes, keep what ChatSession promises, whatever the bounds.           *)
THEOREM Refinement == Spec => ImplementsSession
<1>1. Init => Answering
  BY DEF Init, Answering, NoPrompt
<1>2. IInv /\ IInv' /\ Answering /\ [Next]_vars => Answering'
  BY AnsweringStep
<1>3. IInv /\ IInv' /\ Answering /\ [Next]_vars => [Session!Next]_(Session!vars)
  BY StepRefines
<1> QED BY <1>1, <1>2, <1>3, InitRefines, Invariance, PTL
        DEF Spec, ImplementsSession, Session!Spec
=============================================================================
