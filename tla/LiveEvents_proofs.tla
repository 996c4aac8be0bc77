-------------------------- MODULE LiveEvents_proofs --------------------------
(* Theorems about LiveEvents: the feeds of the clients, the queues the replays wait for,   *)
(* and the case that is left when no replay is under way.                                 *)
EXTENDS LiveEvents, SequenceTheorems, FiniteSetTheorems, TLAPS

\* An element is removed, and those behind it move up.
LEMMA RemovedElement ==
  ASSUME NEW S, NEW s \in Seq(S), NEW i \in 1 .. Len(s)
  PROVE  /\ RemoveAt(s, i) \in Seq(S)
         /\ Len(RemoveAt(s, i)) = Len(s) - 1
         /\ \A k \in 1 .. Len(s) - 1 : RemoveAt(s, i)[k] = IF k < i THEN s[k] ELSE s[k + 1]
<1> DEFINE front == SubSeq(s, 1, i - 1)
           rest == SubSeq(s, i + 1, Len(s))
<1>1. Len(s) \in Nat /\ \A k \in 1 .. Len(s) : s[k] \in S
  BY ElementOfSeq
<1>2. /\ front \in Seq(S) /\ Len(front) = i - 1
      /\ \A k \in 1 .. i - 1 : front[k] = s[k]
  <2>1. \A k \in 1 .. i - 1 : s[k] \in S
    BY <1>1
  <2>2. /\ front \in Seq(S)
        /\ Len(front) = IF 1 <= i - 1 THEN (i - 1) - 1 + 1 ELSE 0
        /\ \A k \in 1 .. (i - 1) - 1 + 1 : front[k] = s[1 + k - 1]
    BY <1>1, <2>1, SubSeqProperties
  <2> HIDE DEF front
  <2> QED
    BY <1>1, <2>2
<1>3. /\ rest \in Seq(S) /\ Len(rest) = Len(s) - i
      /\ \A k \in 1 .. Len(s) - i : rest[k] = s[i + k]
  <2>1. \A k \in i + 1 .. Len(s) : s[k] \in S
    BY <1>1
  <2>2. /\ rest \in Seq(S)
        /\ Len(rest) = IF i + 1 <= Len(s) THEN Len(s) - (i + 1) + 1 ELSE 0
        /\ \A k \in 1 .. Len(s) - (i + 1) + 1 : rest[k] = s[(i + 1) + k - 1]
    BY <1>1, <2>1, SubSeqProperties
  <2> HIDE DEF rest
  <2> QED
    BY <1>1, <2>2
<1>4. /\ front \o rest \in Seq(S)
      /\ Len(front \o rest) = Len(front) + Len(rest)
      /\ \A k \in 1 .. Len(front) + Len(rest) :
           (front \o rest)[k] = IF k <= Len(front) THEN front[k] ELSE rest[k - Len(front)]
  BY <1>2, <1>3, ConcatProperties
<1> HIDE DEF front, rest
<1>5. \A k \in 1 .. Len(s) - 1 : (front \o rest)[k] = IF k < i THEN s[k] ELSE s[k + 1]
  <2> TAKE k \in 1 .. Len(s) - 1
  <2>1. CASE k < i
    BY <1>1, <1>2, <1>3, <1>4, <2>1
  <2>2. CASE ~(k < i)
    <3>1. k - (i - 1) \in 1 .. Len(s) - i /\ i + (k - (i - 1)) = k + 1
      BY <1>1, <2>2
    <3>2. k \in 1 .. Len(front) + Len(rest) /\ ~(k <= Len(front)) /\ k - Len(front) = k - (i - 1)
      BY <1>1, <1>2, <1>3, <2>2
    <3>3. (front \o rest)[k] = rest[k - (i - 1)]
      BY <1>4, <3>2
    <3>4. rest[k - (i - 1)] = s[k + 1]
      BY <1>3, <3>1
    <3> QED
      BY <2>2, <3>3, <3>4
  <2> QED
    BY <2>1, <2>2
<1>6. RemoveAt(s, i) = front \o rest
  BY DEF RemoveAt, front, rest
<1>7. Len(front \o rest) = Len(s) - 1
  BY <1>1, <1>2, <1>3, <1>4
<1> QED
  BY <1>4, <1>5, <1>6, <1>7

\* An event that is appended is the last of its replay, if none was ahead of it.
LEMMA Appended ==
  ASSUME NEW s \in Seq(Events), NEW x \in Events, NEW r, NEW last \in Int,
         InOrder(s, r, last), x.replay = r => last < x.n
  PROVE  /\ InOrder(Append(s, x), r, IF x.replay = r THEN x.n ELSE last)
         /\ Numbers(Append(s, x), r) =
              IF x.replay = r THEN Numbers(s, r) \cup {x.n} ELSE Numbers(s, r)
<1> DEFINE more == Append(s, x)
           top == IF x.replay = r THEN x.n ELSE last
<1>1. /\ Len(s) \in Nat /\ more \in Seq(Events) /\ Len(more) = Len(s) + 1
      /\ (\A i \in 1 .. Len(s) : more[i] = s[i] /\ s[i] \in Events) /\ more[Len(s) + 1] = x
  BY LenProperties, AppendProperties, ElementOfSeq
<1> HIDE DEF more
<1>2. /\ Of(more, r) = IF x.replay = r THEN Of(s, r) \cup {Len(s) + 1} ELSE Of(s, r)
      /\ Of(s, r) \subseteq 1 .. Len(s) /\ Len(s) + 1 \notin Of(s, r)
  BY <1>1 DEF Of
<1>3. \A i \in Of(s, r) : more[i] = s[i] /\ s[i].n \in Int /\ s[i].n <= last
  BY <1>1, <1>2, LengthsOK DEF InOrder, Events
<1>4. x.n \in Int
  BY LengthsOK DEF Events
<1>5. ASSUME NEW i \in Of(more, r)
      PROVE  more[i].n <= top /\ \A j \in Of(more, r) : i < j => more[i].n < more[j].n
  <2>1. CASE i \in Of(s, r)
    <3>1. more[i].n <= last /\ last <= top
      BY <1>3, <1>4, <2>1
    <3>2. ASSUME NEW j \in Of(more, r), i < j PROVE more[i].n < more[j].n
      <4>1. CASE j \in Of(s, r)
        BY <1>3, <2>1, <3>2, <4>1 DEF InOrder
      <4>2. CASE j = Len(s) + 1 /\ x.replay = r
        <5>1. more[i].n <= last /\ more[i].n \in Int /\ last < x.n
          BY <1>3, <2>1, <4>2
        <5>2. more[j].n = x.n
          BY <1>1, <4>2
        <5> QED
          BY <1>4, <5>1, <5>2
      <4> QED
        BY <1>2, <4>1, <4>2
    <3> QED
      BY <1>3, <1>4, <2>1, <3>1, <3>2
  <2>2. CASE i = Len(s) + 1 /\ x.replay = r
    <3>1. \A j \in Of(more, r) : ~(i < j)
      BY <1>1, <1>2, <2>2
    <3> QED
      BY <1>1, <1>4, <2>2, <3>1
  <2> QED
    BY <1>2, <2>1, <2>2
<1>6. Numbers(more, r) = IF x.replay = r THEN Numbers(s, r) \cup {x.n} ELSE Numbers(s, r)
  BY <1>1, <1>2, <1>3 DEF Numbers
<1> QED
  BY <1>5, <1>6 DEF InOrder, more

\* The first event that is taken has the least number of its replay.
LEMMA Taken ==
  ASSUME NEW s \in Seq(Events), s # <<>>, NEW r, NEW last \in Int, InOrder(s, r, last)
  PROVE  /\ InOrder(Tail(s), r, last)
         /\ Head(s).replay # r => Numbers(Tail(s), r) = Numbers(s, r)
         /\ Head(s).replay = r =>
              /\ Numbers(Tail(s), r) = Numbers(s, r) \ {Head(s).n}
              /\ Head(s).n \in Numbers(s, r)
              /\ \A n \in Numbers(s, r) : Head(s).n <= n
<1> DEFINE t == Tail(s)
<1>1. /\ Len(s) \in Nat /\ Len(s) >= 1 /\ t \in Seq(Events) /\ Len(t) = Len(s) - 1
      /\ (\A i \in 1 .. Len(t) : t[i] = s[i + 1])
      /\ Head(s) = s[1] /\ \A i \in 1 .. Len(s) : s[i] \in Events
  BY LenProperties, EmptySeq, HeadTailProperties, ElementOfSeq
<1> HIDE DEF t
<1>2. \A i \in Of(t, r) : i \in 1 .. Len(t) /\ i + 1 \in Of(s, r) /\ t[i] = s[i + 1]
  BY <1>1 DEF Of
<1>3. \A i \in Of(s, r) : /\ i \in 1 .. Len(s) /\ s[i].n \in Int /\ s[i].replay = r
                          /\ i = 1 \/ (i - 1 \in Of(t, r) /\ t[i - 1] = s[i])
  BY <1>1, LengthsOK DEF Of, Events
<1>4. InOrder(t, r, last)
  <2>1. ASSUME NEW i \in Of(t, r) PROVE t[i].n <= last
    BY <1>2 DEF InOrder
  <2>2. ASSUME NEW i \in Of(t, r), NEW j \in Of(t, r), i < j PROVE t[i].n < t[j].n
    <3>1. i \in Int /\ j \in Int /\ i + 1 < j + 1
      BY <1>1, <1>2, <2>2
    <3>2. s[i + 1].n < s[j + 1].n
      BY <1>2, <3>1 DEF InOrder
    <3> QED
      BY <1>2, <3>2
  <2> QED
    BY <2>1, <2>2 DEF InOrder
<1>5. \A i \in Of(s, r) \ {1} : 1 \in Of(s, r) => s[1].n < s[i].n
  BY <1>3 DEF InOrder
<1>6. 1 \in Of(s, r) <=> Head(s).replay = r
  BY <1>1 DEF Of
<1>7. Numbers(t, r) = {s[i].n : i \in Of(s, r) \ {1}}
  <2>1. ASSUME NEW i \in Of(t, r) PROVE t[i].n \in {s[k].n : k \in Of(s, r) \ {1}}
    BY <1>2
  <2>2. ASSUME NEW i \in Of(s, r) \ {1} PROVE s[i].n \in {t[k].n : k \in Of(t, r)}
    BY <1>3
  <2> QED
    BY <2>1, <2>2 DEF Numbers
<1>8. CASE Head(s).replay # r
  BY <1>4, <1>6, <1>7, <1>8 DEF Numbers, t
<1>9. CASE Head(s).replay = r
  <2>1. 1 \in Of(s, r) /\ s[1].n \in Int
    BY <1>3, <1>6, <1>9
  <2>2. Numbers(t, r) = Numbers(s, r) \ {s[1].n}
    <3>1. ASSUME NEW i \in Of(s, r) \ {1} PROVE s[i].n # s[1].n
      BY <1>3, <1>5, <2>1
    <3>2. Numbers(s, r) = {s[i].n : i \in Of(s, r) \ {1}} \cup {s[1].n}
      BY <2>1 DEF Numbers
    <3>3. s[1].n \notin {s[i].n : i \in Of(s, r) \ {1}}
      BY <3>1
    <3> QED
      BY <1>7, <3>2, <3>3
  <2>3. s[1].n \in Numbers(s, r) /\ \A n \in Numbers(s, r) : s[1].n <= n
    BY <1>3, <1>5, <2>1 DEF Numbers
  <2> QED
    BY <1>1, <1>4, <1>9, <2>2, <2>3 DEF t
<1> QED
  BY <1>8, <1>9
-----------------------------------------------------------------------------
\* No client is twice in a list.
Distinct(clients) == \A i, j \in 1 .. Len(clients) : clients[i] = clients[j] => i = j

\* The clients in the list of the case are those that listen, and no replay waits for one
\* that has yet to connect.
Lists ==
  /\ Distinct(subscribers)
  /\ \A c \in Clients : c \in Elements(subscribers) <=> Listening(c)
  /\ \A r \in Replays : Distinct(pending[r]) /\ \A c \in Elements(pending[r]) : reader[c] # "off"

\* For a client that has yet to connect, there is nothing.
Unconnected ==
  \A c \in Clients : reader[c] = "off" => queue[c] = <<>> /\ \A r \in Replays : received[c][r] = <<>>

\* A replay whose agents run has events to come, and one that is blocked has an event to put.
Pace ==
  \A r \in Replays : /\ stage[r] \in {"new", "agent"} => pos[r] < Length
                     /\ stage[r] = "blocked" => pos[r] >= 1

\* The events on their way, to clients that have left too, are in order.
Ordered == \A c \in Clients, r \in Replays : InOrder(Coming(c), r, Awaited(c, r))

\* A client has got no more of a replay than there was.
Within ==
  \A c \in Clients, r \in Replays :
    Listening(c) => since[c][r] + Len(received[c][r]) <= Awaited(c, r)

\* A case that is stored unfinished is that of a replay under way, or of one that has failed.
Unfinished == ~storedCase.final => storedCase.by \in Replays /\ stage[storedCase.by] \notin {"new", "answered"}

\* The inductive invariant.
LiveInv ==
  /\ LiveTypeOK /\ Lists /\ Unconnected /\ Pace /\ Ordered /\ Within /\ FeedIsExact /\ Unfinished

\* What an event does to queues and lists: it is put into the queues of the clients that are
\* not pending afterwards.
LEMMA Delivered ==
  ASSUME LiveTypeOK, NEW r \in Replays, NEW clients \in Seq(Clients), Distinct(clients),
         NEW n \in 1 .. Length, Publish(r, clients, n)
  PROVE  /\ queue' \in [Clients -> Seq(Events)] /\ \A c \in Clients : Len(queue'[c]) <= Capacity
         /\ stage' \in [Replays -> Stages] /\ pending' \in [Replays -> Seq(Clients)]
         /\ \A q \in Replays \ {r} : stage'[q] = stage[q] /\ pending'[q] = pending[q]
         /\ Distinct(pending'[r])
         /\ Elements(pending'[r]) \subseteq Elements(clients)
         /\ \A c \in Clients :
              queue'[c] = IF c \in Elements(clients) \ Elements(pending'[r])
                          THEN Append(queue[c], [replay |-> r, n |-> n]) ELSE queue[c]
         /\ stage'[r] \in {"agent", "blocked", "upsert"}
         /\ stage'[r] = "blocked" <=> pending'[r] # <<>>
         /\ stage'[r] = "agent" => n # Length
<1> DEFINE x == [replay |-> r, n |-> n]
<1>1. PICK reach \in 0 .. Len(clients) :
        /\ \A i \in 1 .. reach : ~Full(clients[i])
        /\ queue' = [c \in Clients |-> IF \E i \in 1 .. reach : clients[i] = c
                                       THEN Append(queue[c], x) ELSE queue[c]]
        /\ pending' = [pending EXCEPT ![r] = SubSeq(clients, reach + 1, Len(clients))]
        /\ stage' = [stage EXCEPT ![r] = IF reach < Len(clients) THEN "blocked"
                                         ELSE IF n = Length THEN "upsert" ELSE "agent"]
  BY DEF Publish
<1> DEFINE rest == SubSeq(clients, reach + 1, Len(clients))
<1>2. Len(clients) \in Nat /\ \A i \in 1 .. Len(clients) : clients[i] \in Clients
  BY LenProperties, ElementOfSeq
<1>3. /\ rest \in Seq(Clients) /\ Len(rest) = Len(clients) - reach
      /\ \A i \in 1 .. Len(clients) - reach : rest[i] = clients[reach + i]
  <2>1. \A i \in reach + 1 .. Len(clients) : clients[i] \in Clients
    BY <1>2
  <2>2. /\ rest \in Seq(Clients)
        /\ Len(rest) = IF reach + 1 <= Len(clients) THEN Len(clients) - (reach + 1) + 1 ELSE 0
        /\ \A i \in 1 .. Len(clients) - (reach + 1) + 1 : rest[i] = clients[(reach + 1) + i - 1]
    BY <1>2, <2>1, SubSeqProperties
  <2> HIDE DEF rest
  <2>3. Len(rest) = Len(clients) - reach
    BY <1>2, <2>2
  <2>4. ASSUME NEW i \in 1 .. Len(clients) - reach PROVE rest[i] = clients[reach + i]
    <3>1. i \in 1 .. Len(clients) - (reach + 1) + 1 /\ (reach + 1) + i - 1 = reach + i
      BY <1>2
    <3> QED
      BY <2>2, <3>1
  <2> QED
    BY <2>2, <2>3, <2>4
<1>4. /\ pending'[r] = rest /\ pending' \in [Replays -> Seq(Clients)]
      /\ \A q \in Replays \ {r} : pending'[q] = pending[q]
  <2>1. pending' = [pending EXCEPT ![r] = rest] /\ pending \in [Replays -> Seq(Clients)]
    BY <1>1 DEF LiveTypeOK
  <2> HIDE DEF rest
  <2> QED
    BY <1>3, <2>1
<1> HIDE DEF rest
<1>5. Distinct(rest)
  <2>1. ASSUME NEW i \in 1 .. Len(rest), NEW j \in 1 .. Len(rest), rest[i] = rest[j] PROVE i = j
    <3>1. reach + i \in 1 .. Len(clients) /\ reach + j \in 1 .. Len(clients)
      BY <1>2, <1>3
    <3>2. clients[reach + i] = clients[reach + j]
      BY <1>2, <1>3, <2>1
    <3>3. reach + i = reach + j
      BY <3>1, <3>2 DEF Distinct
    <3> QED
      BY <1>2, <1>3, <3>3
  <2> QED
    BY <2>1 DEF Distinct
<1>6. Elements(rest) = {clients[i] : i \in reach + 1 .. Len(clients)}
  <2>1. \A i \in 1 .. Len(rest) : reach + i \in reach + 1 .. Len(clients) /\ rest[i] = clients[reach + i]
    BY <1>2, <1>3
  <2>2. ASSUME NEW i \in reach + 1 .. Len(clients)
        PROVE  i - reach \in 1 .. Len(rest) /\ rest[i - reach] = clients[i]
    <3>1. i - reach \in 1 .. Len(clients) - reach /\ reach + (i - reach) = i
      BY <1>2
    <3> QED
      BY <1>3, <3>1
  <2>3. Elements(rest) \subseteq {clients[i] : i \in reach + 1 .. Len(clients)}
    BY <2>1 DEF Elements
  <2>4. {clients[i] : i \in reach + 1 .. Len(clients)} \subseteq Elements(rest)
    BY <2>2 DEF Elements
  <2> QED
    BY <2>3, <2>4
<1>7. ASSUME NEW c \in Clients
      PROVE  c \in Elements(clients) \ Elements(rest) <=> \E i \in 1 .. reach : clients[i] = c
  <2>1. ASSUME c \in Elements(clients), c \notin Elements(rest)
        PROVE  \E i \in 1 .. reach : clients[i] = c
    BY <1>2, <1>6, <2>1 DEF Elements
  <2>2. ASSUME NEW i \in 1 .. reach, clients[i] = c
        PROVE  c \in Elements(clients) /\ c \notin Elements(rest)
    <3>1. i \in 1 .. Len(clients)
      BY <1>2
    <3>2. \A j \in reach + 1 .. Len(clients) : j \in 1 .. Len(clients) /\ i # j
      BY <1>2
    <3> QED
      BY <1>6, <2>2, <3>1, <3>2 DEF Elements, Distinct
  <2> QED
    BY <2>1, <2>2
<1>8. ASSUME NEW c \in Clients
      PROVE  /\ queue'[c] = IF c \in Elements(clients) \ Elements(rest)
                            THEN Append(queue[c], x) ELSE queue[c]
             /\ queue'[c] \in Seq(Events) /\ Len(queue'[c]) <= Capacity
  <2>1. queue[c] \in Seq(Events) /\ Len(queue[c]) \in Nat /\ Len(queue[c]) <= Capacity
    BY LenProperties DEF LiveTypeOK
  <2>2. x \in Events
    BY DEF Events
  <2>3. queue'[c] = IF c \in Elements(clients) \ Elements(rest) THEN Append(queue[c], x) ELSE queue[c]
    BY <1>1, <1>7
  <2>4. CASE \E i \in 1 .. reach : clients[i] = c
    <3>1. ~(Len(queue[c]) >= Capacity)
      BY <1>1, <2>4 DEF Full
    <3>2. Append(queue[c], x) \in Seq(Events) /\ Len(Append(queue[c], x)) = Len(queue[c]) + 1
      BY <2>1, <2>2, AppendProperties
    <3>3. queue'[c] = Append(queue[c], x)
      BY <1>7, <2>3, <2>4
    <3> QED
      BY <2>1, <2>3, <3>1, <3>2, <3>3, LengthsOK
  <2>5. CASE ~\E i \in 1 .. reach : clients[i] = c
    <3>1. queue'[c] = queue[c]
      BY <1>7, <2>3, <2>5
    <3> QED
      BY <2>1, <2>3, <3>1
  <2> QED
    BY <2>4, <2>5
<1>9. /\ stage' \in [Replays -> Stages] /\ stage'[r] \in {"agent", "blocked", "upsert"}
      /\ \A q \in Replays \ {r} : stage'[q] = stage[q]
      /\ stage'[r] = "blocked" <=> reach < Len(clients)
      /\ stage'[r] = "agent" => n # Length
  BY <1>1 DEF LiveTypeOK, Stages
<1>10. reach < Len(clients) <=> rest # <<>>
  BY <1>2, <1>3, EmptySeq
<1>11. Elements(rest) \subseteq Elements(clients)
  BY <1>2, <1>6 DEF Elements
<1>12. queue' \in [Clients -> Seq(Events)]
  <2>1. queue' = [c \in Clients |-> queue'[c]]
    BY <1>1
  <2> QED
    BY <1>8, <2>1
<1> QED
  BY <1>3, <1>4, <1>5, <1>8, <1>9, <1>10, <1>11, <1>12

\* What is on its way grows with what is put into the queue.
LEMMA ConcatAppend ==
  ASSUME NEW S, NEW s \in Seq(S), NEW t \in Seq(S), NEW x \in S
  PROVE  s \o Append(t, x) = Append(s \o t, x)
<1> DEFINE tx == Append(t, x)
           st == s \o t
           l == s \o tx
           m == Append(st, x)
<1>1. Len(s) \in Nat /\ Len(t) \in Nat
  BY LenProperties
<1>2. /\ tx \in Seq(S) /\ Len(tx) = Len(t) + 1 /\ tx[Len(t) + 1] = x
      /\ \A i \in 1 .. Len(t) : tx[i] = t[i]
  BY AppendProperties
<1>3. /\ st \in Seq(S) /\ Len(st) = Len(s) + Len(t)
      /\ \A i \in 1 .. Len(s) + Len(t) : st[i] = IF i <= Len(s) THEN s[i] ELSE t[i - Len(s)]
  BY ConcatProperties
<1> HIDE DEF tx, st
<1>4. /\ l \in Seq(S) /\ Len(l) = Len(s) + Len(tx)
      /\ \A i \in 1 .. Len(s) + Len(tx) : l[i] = IF i <= Len(s) THEN s[i] ELSE tx[i - Len(s)]
  BY <1>2, ConcatProperties
<1>5. /\ m \in Seq(S) /\ Len(m) = Len(st) + 1 /\ m[Len(st) + 1] = x
      /\ \A i \in 1 .. Len(st) : m[i] = st[i]
  <2>1. st \in Seq(S)
    BY <1>3
  <2> QED
    BY <2>1, AppendProperties
<1> HIDE DEF l, m
<1>6. Len(l) = Len(m) /\ Len(l) = Len(s) + Len(t) + 1
  BY <1>1, <1>2, <1>3, <1>4, <1>5
<1>7. ASSUME NEW i \in 1 .. Len(l) PROVE l[i] = m[i]
  <2>1. CASE i <= Len(s)
    <3>1. i \in 1 .. Len(s) + Len(tx) /\ i \in 1 .. Len(st) /\ i \in 1 .. Len(s) + Len(t)
      BY <1>1, <1>2, <1>3, <1>6, <2>1
    <3>2. l[i] = s[i]
      BY <1>4, <2>1, <3>1
    <3>3. m[i] = s[i]
      BY <1>3, <1>5, <2>1, <3>1
    <3> QED
      BY <3>2, <3>3
  <2>2. CASE i > Len(s) /\ i <= Len(s) + Len(t)
    <3>1. i - Len(s) \in 1 .. Len(t) /\ i \in 1 .. Len(s) + Len(tx) /\ i \in 1 .. Len(st)
      BY <1>1, <1>2, <1>3, <1>6, <2>2
    <3>2. l[i] = t[i - Len(s)]
      BY <1>1, <1>2, <1>4, <2>2, <3>1
    <3>3. m[i] = t[i - Len(s)]
      BY <1>1, <1>3, <1>5, <2>2, <3>1
    <3> QED
      BY <3>2, <3>3
  <2>3. CASE i = Len(s) + Len(t) + 1
    <3>1. i - Len(s) = Len(t) + 1 /\ i \in 1 .. Len(s) + Len(tx) /\ ~(i <= Len(s))
      BY <1>1, <1>2, <2>3
    <3>2. l[i] = x
      BY <1>2, <1>4, <3>1
    <3> QED
      BY <1>3, <1>5, <2>3, <3>2
  <2> QED
    BY <1>1, <1>6, <2>1, <2>2, <2>3
<1>8. l = m
  BY <1>4, <1>5, <1>6, <1>7, SeqEqual
<1> QED
  BY <1>8 DEF l, m, tx, st

LEMMA ComingGrows ==
  ASSUME LiveTypeOK, NEW c \in Clients
  PROVE  /\ Coming(c) \in Seq(Events)
         /\ \A x \in Events : held[c] \o Append(queue[c], x) = Append(Coming(c), x)
<1>1. held[c] \in Seq(Events) /\ queue[c] \in Seq(Events)
  BY DEF LiveTypeOK
<1>2. held[c] \o queue[c] \in Seq(Events)
  BY <1>1, ConcatProperties
<1>3. ASSUME NEW x \in Events PROVE held[c] \o Append(queue[c], x) = Append(held[c] \o queue[c], x)
  <2>1. \A s, t \in Seq(Events), y \in Events : s \o Append(t, y) = Append(s \o t, y)
    BY ConcatAppend
  <2> QED
    BY <1>1, <2>1
<1> QED
  BY <1>2, <1>3, Zenon DEF Coming

LEMMA PendingAreClients ==
  ASSUME LiveTypeOK, NEW r \in Replays
  PROVE  \A c \in Elements(pending[r]) : c \in Clients
<1>1. pending[r] \in Seq(Clients)
  BY DEF LiveTypeOK
<1>2. ASSUME NEW i \in 1 .. Len(pending[r]) PROVE pending[r][i] \in Clients
  BY <1>1, ElementOfSeq
<1> QED
  BY <1>2 DEF Elements

\* A connection holds an event while it sends it, and none else.
LEMMA HeldOnes ==
  ASSUME LiveTypeOK, NEW c \in Clients
  PROVE  /\ reader[c] # "sending" => held[c] = <<>>
         /\ reader[c] = "sending" =>
              held[c] \in Seq(Events) /\ Len(held[c]) = 1 /\ held[c][1] \in Events
<1>1. /\ held[c] \in Seq(Events) /\ Len(held[c]) <= 1
      /\ reader[c] = "sending" <=> Len(held[c]) = 1
  BY DEF LiveTypeOK
<1>2. Len(held[c]) \in Nat
  BY <1>1, LenProperties
<1>3. CASE reader[c] # "sending"
  <2>0. Len(held[c]) # 1
    BY <1>1, <1>3
  <2>1. Len(held[c]) = 0
    <3> DEFINE k == Len(held[c])
    <3>1. k \in Nat /\ k <= 1 /\ k # 1
      BY <1>1, <1>2, <2>0
    <3> HIDE DEF k
    <3>2. k = 0
      BY <3>1
    <3> QED
      BY <3>2 DEF k
  <2> QED
    BY <1>1, <1>3, <2>1, EmptySeq
<1>4. CASE reader[c] = "sending"
  BY <1>1, <1>4, ElementOfSeq
<1> QED
  BY <1>3, <1>4

\* A client is pending or has been served: the feeds stay exact.
LEMMA PublishKeeps ==
  ASSUME LiveInv, NEW r \in Replays, NEW clients \in Seq(Clients), Distinct(clients),
         NEW n \in 1 .. Length, Publish(r, clients, n), pos' = [pos EXCEPT ![r] = n],
         \A c \in Clients : IF c \in Elements(clients) THEN Awaited(c, r) = n - 1 /\ reader[c] # "off"
                            ELSE Awaited(c, r) <= n /\ (Listening(c) => Awaited(c, r) = n),
         UNCHANGED clientVars, storedCase' \in [by : {r}, final : {FALSE}] \cup {storedCase}
  PROVE  LiveInv'
<1> DEFINE x == [replay |-> r, n |-> n]
<1>1. LiveTypeOK /\ Lists /\ Unconnected /\ Pace /\ Ordered /\ Within /\ FeedIsExact /\ Unfinished
      /\ x \in Events
  BY DEF LiveInv, Events
<1>2. UNCHANGED <<subscribers, reader, held, received, since>>
  BY DEF clientVars
<1>3. /\ queue' \in [Clients -> Seq(Events)] /\ \A c \in Clients : Len(queue'[c]) <= Capacity
      /\ stage' \in [Replays -> Stages] /\ pending' \in [Replays -> Seq(Clients)]
      /\ \A q \in Replays \ {r} : stage'[q] = stage[q] /\ pending'[q] = pending[q]
      /\ Distinct(pending'[r])
      /\ Elements(pending'[r]) \subseteq Elements(clients)
      /\ \A c \in Clients :
           queue'[c] = IF c \in Elements(clients) \ Elements(pending'[r])
                       THEN Append(queue[c], x) ELSE queue[c]
      /\ stage'[r] \in {"agent", "blocked", "upsert"}
      /\ stage'[r] = "blocked" <=> pending'[r] # <<>>
      /\ stage'[r] = "agent" => n # Length
  BY <1>1, Delivered
<1>4. LiveTypeOK'
  <2>2. pos' \in [Replays -> 0..Length]
    BY <1>1, LengthsOK DEF LiveTypeOK
  <2>3. \A q \in Replays : stage'[q] = "blocked" <=> pending'[q] # <<>>
    BY <1>1, <1>3 DEF LiveTypeOK
  <2>4. storedCase' \in [by : Replays, final : BOOLEAN] \cup {Original}
    BY <1>1 DEF LiveTypeOK
  <2> QED
    BY <1>1, <1>2, <1>3, <2>2, <2>3, <2>4 DEF LiveTypeOK
<1>5. Lists'
  <2>1. \A c \in Elements(clients) : c \in Clients /\ reader[c] # "off"
    BY ElementOfSeq DEF Elements
  <2>2. ASSUME NEW q \in Replays
        PROVE  Distinct(pending'[q]) /\ \A c \in Elements(pending'[q]) : reader[c] # "off"
    BY <1>1, <1>3, <2>1 DEF Lists, LiveTypeOK
  <2> QED
    BY <1>1, <1>2, <2>2 DEF Lists, Listening
<1>6. Unconnected'
  BY <1>1, <1>2, <1>3 DEF Unconnected
<1>7. Pace'
  <2>1. pos'[r] = n /\ \A q \in Replays \ {r} : pos'[q] = pos[q]
    BY <1>1 DEF LiveTypeOK
  <2>2. n >= 1 /\ (n < Length \/ n = Length)
    BY LengthsOK
  <2>3. /\ stage'[r] \in {"new", "agent"} => pos'[r] < Length
        /\ stage'[r] = "blocked" => pos'[r] >= 1
    BY <1>3, <2>1, <2>2
  <2>4. ASSUME NEW q \in Replays \ {r}
        PROVE  /\ stage'[q] \in {"new", "agent"} => pos'[q] < Length
               /\ stage'[q] = "blocked" => pos'[q] >= 1
    BY <1>1, <1>3, <2>1 DEF Pace
  <2> QED
    BY <2>3, <2>4 DEF Pace
<1>8. Unfinished'
  <2>1. stage'[r] \notin {"new", "answered"} /\ \A q \in Replays : q # r => stage'[q] = stage[q]
    BY <1>1, <1>3 DEF LiveTypeOK
  <2>2. CASE storedCase' = storedCase
    BY <1>1, <2>1, <2>2 DEF Unfinished
  <2>3. CASE storedCase' \in [by : {r}, final : {FALSE}]
    <3>1. storedCase'.by = r
      BY <2>3
    <3> QED
      BY <2>1, <3>1 DEF Unfinished
  <2> QED
    BY <2>2, <2>3
<1>9. ASSUME NEW c \in Clients, NEW q \in Replays, q # r
      PROVE  Awaited(c, q)' = Awaited(c, q)
  BY <1>1, <1>3, <1>9 DEF Awaited, LiveTypeOK
<1>10. ASSUME NEW c \in Clients
       PROVE  Awaited(c, r)' = IF c \in Elements(pending'[r]) THEN n - 1 ELSE n
  BY <1>1 DEF Awaited, LiveTypeOK
<1>11. ASSUME NEW c \in Clients, NEW q \in Replays PROVE Awaited(c, q) \in Int
  BY <1>1 DEF Awaited, LiveTypeOK
<1>12. ASSUME NEW c \in Clients, NEW q \in Replays
       PROVE  /\ InOrder(Coming(c), q, Awaited(c, q))'
              /\ Listening(c) => /\ Awaited(c, q) <= Awaited(c, q)'
                                 /\ Numbers(Coming(c), q)' =
                                      Numbers(Coming(c), q) \cup (Awaited(c, q) + 1 .. Awaited(c, q)')
  <2> DEFINE s == Coming(c)
             a == Awaited(c, q)
             b == Awaited(c, q)'
  <2>0. /\ InOrder(Coming(c), q, Awaited(c, q))' <=> InOrder(Coming(c)', q, b)
        /\ Numbers(Coming(c), q)' = Numbers(Coming(c)', q)
    BY DEF InOrder, Numbers, Of
  <2>1. s \in Seq(Events) /\ InOrder(s, q, a) /\ a \in Int
    BY <1>1, <1>11, ComingGrows DEF Ordered
  <2>2. CASE c \in Elements(clients) \ Elements(pending'[r])
    <3>1. Coming(c)' = Append(s, x)
      BY <1>1, <1>2, <1>3, <2>2, ComingGrows DEF Coming
    <3>2. CASE q = r
      <4>1. a = n - 1 /\ b = n
        BY <1>10, <2>2, <3>2
      <4>2. a + 1 .. b = {n}
        BY <4>1
      <4>3. x.replay = q /\ x.n = n /\ a < n
        BY <3>2, <4>1
      <4>4. InOrder(Append(s, x), q, n) /\ Numbers(Append(s, x), q) = Numbers(s, q) \cup {n}
        <5> HIDE DEF s, a, x
        <5> QED
          BY <1>1, <2>1, <4>3, Appended
      <4>5. a <= b
        BY <4>1
      <4> QED
        BY <2>0, <3>1, <4>1, <4>2, <4>4, <4>5
    <3>3. CASE q # r
      <4>1. b = a /\ a + 1 .. b = {}
        BY <1>9, <2>1, <3>3
      <4>2. InOrder(Append(s, x), q, a) /\ Numbers(Append(s, x), q) = Numbers(s, q)
        <5>1. x.replay # q
          BY <3>3
        <5> HIDE DEF s, a, x
        <5> QED
          BY <1>1, <2>1, <5>1, Appended
      <4>3. a <= b
        BY <2>1, <4>1
      <4> QED
        BY <2>0, <3>1, <4>1, <4>2, <4>3
    <3> QED
      BY <3>2, <3>3
  <2>3. CASE c \notin Elements(clients) \ Elements(pending'[r])
    <3>1. Coming(c)' = s
      BY <1>2, <1>3, <2>3 DEF Coming
    <3>2. a <= b /\ (Listening(c) => a = b)
      BY <1>3, <1>9, <1>10, <1>11, <2>3
    <3>3. b \in Int
      BY <1>9, <1>10, <1>11
    <3>4. InOrder(s, q, b)
      <4> HIDE DEF s, a, b
      <4>1. \A i \in Of(s, q) : s[i] \in Events
        BY <2>1, ElementOfSeq DEF Of
      <4>2. \A i \in Of(s, q) : s[i].n \in Int
        BY <4>1, LengthsOK DEF Events
      <4> QED
        BY <2>1, <3>2, <3>3, <4>2 DEF InOrder
    <3>5. Listening(c) => a + 1 .. b = {}
      BY <2>1, <3>2
    <3> QED
      BY <2>0, <3>1, <3>2, <3>4, <3>5
  <2> QED
    BY <2>2, <2>3
<1>13. Ordered'
  BY <1>12 DEF Ordered
<1>14. ASSUME NEW c \in Clients, NEW q \in Replays, Listening(c)'
       PROVE  LET got == received[c][q]
              IN  /\ since[c][q] + Len(got) <= Awaited(c, q)'
                  /\ \A i \in 1..Len(got) : got[i] = [replay |-> q, n |-> since[c][q] + i]
                  /\ Numbers(Coming(c), q)' = since[c][q] + Len(got) + 1 .. Awaited(c, q)'
  <2> DEFINE got == received[c][q]
             k == since[c][q] + Len(got)
             a == Awaited(c, q)
             b == Awaited(c, q)'
  <2>1. Listening(c)
    BY <1>2, <1>14 DEF Listening
  <2>2. k <= a /\ Numbers(Coming(c), q) = k + 1 .. a
        /\ \A i \in 1..Len(got) : got[i] = [replay |-> q, n |-> since[c][q] + i]
    BY <1>1, <2>1 DEF Within, FeedIsExact
  <2>3. k \in Int /\ a \in Int /\ b \in Int
    <3>1. got \in Seq(Events) /\ since[c][q] \in 0..Length
      BY <1>1 DEF LiveTypeOK
    <3>2. Len(got) \in Nat
      BY <3>1, LenProperties
    <3> QED
      BY <1>9, <1>10, <1>11, <3>1, <3>2, LengthsOK
  <2>4. a <= b /\ Numbers(Coming(c), q)' = Numbers(Coming(c), q) \cup (a + 1 .. b)
    BY <1>12, <2>1
  <2> HIDE DEF k, a, b
  <2>5. (k + 1 .. a) \cup (a + 1 .. b) = k + 1 .. b /\ k <= b
    BY <2>2, <2>3, <2>4
  <2> QED
    BY <2>2, <2>4, <2>5 DEF k, a, b
<1>15. Within' /\ FeedIsExact'
  BY <1>2, <1>12, <1>14 DEF Within, FeedIsExact
<1> QED
  BY <1>4, <1>5, <1>6, <1>7, <1>8, <1>13, <1>15 DEF LiveInv

LEMMA NextEventKeeps ==
  ASSUME LiveInv, NEW r \in Replays, NextEvent(r)
  PROVE  LiveInv'
<1>1. LiveTypeOK /\ Lists /\ Pace
  BY DEF LiveInv
<1>2. /\ stage[r] \in {"new", "agent"} /\ pos' = [pos EXCEPT ![r] = pos[r] + 1]
      /\ Publish(r, subscribers, pos[r] + 1) /\ UNCHANGED clientVars
      /\ storedCase' \in [by : {r}, final : {FALSE}] \cup {storedCase}
  BY DEF NextEvent
<1>3. pos[r] \in Int /\ pos[r] + 1 \in 1 .. Length /\ pos[r] = (pos[r] + 1) - 1
  <2>1. pos[r] \in 0..Length /\ pos[r] < Length
    BY <1>1, <1>2 DEF LiveTypeOK, Pace
  <2> QED
    BY <2>1, LengthsOK
<1>4. pending[r] = <<>> /\ Elements(pending[r]) = {}
  BY <1>1, <1>2, EmptySeq DEF LiveTypeOK, Elements
<1>5. ASSUME NEW c \in Clients
      PROVE  /\ Awaited(c, r) = pos[r]
             /\ c \in Elements(subscribers) <=> Listening(c)
             /\ c \in Elements(subscribers) => reader[c] # "off"
  BY <1>1, <1>4 DEF Awaited, Lists, Listening
<1>6. subscribers \in Seq(Clients) /\ Distinct(subscribers)
  BY <1>1 DEF LiveTypeOK, Lists
<1>7. \A c \in Clients :
        IF c \in Elements(subscribers)
        THEN Awaited(c, r) = (pos[r] + 1) - 1 /\ reader[c] # "off"
        ELSE Awaited(c, r) <= pos[r] + 1 /\ (Listening(c) => Awaited(c, r) = pos[r] + 1)
  BY <1>3, <1>5
<1> QED
  BY <1>2, <1>3, <1>6, <1>7, PublishKeeps

LEMMA ResumeKeeps ==
  ASSUME LiveInv, NEW r \in Replays, Resume(r)
  PROVE  LiveInv'
<1>1. LiveTypeOK /\ Lists /\ Pace
  BY DEF LiveInv
<1>2. /\ stage[r] = "blocked" /\ Publish(r, pending[r], pos[r])
      /\ pos' = pos /\ storedCase' = storedCase /\ UNCHANGED clientVars
  BY DEF Resume
<1>3. pos[r] \in 1 .. Length /\ pos' = [pos EXCEPT ![r] = pos[r]]
  BY <1>1, <1>2, LengthsOK DEF LiveTypeOK, Pace
<1>4. pending[r] \in Seq(Clients) /\ Distinct(pending[r])
  BY <1>1 DEF LiveTypeOK, Lists
<1>5. \A c \in Clients :
        IF c \in Elements(pending[r]) THEN Awaited(c, r) = pos[r] - 1 /\ reader[c] # "off"
        ELSE Awaited(c, r) <= pos[r] /\ (Listening(c) => Awaited(c, r) = pos[r])
  BY <1>1, <1>3 DEF Awaited, Lists
<1> QED
  BY <1>2, <1>3, <1>4, <1>5, PublishKeeps

LEMMA AnswerKeeps ==
  ASSUME LiveInv, NEW r \in Replays, AnswerReplay(r)
  PROVE  LiveInv'
<1>1. /\ stage[r] = "upsert" /\ UNCHANGED <<pos, pending, queue>>
      /\ UNCHANGED <<subscribers, reader, held, received, since>>
      /\ stage' \in [Replays -> Stages] /\ stage'[r] \in {"answered", "failed"}
      /\ \A q \in Replays \ {r} : stage'[q] = stage[q]
      /\ \/ storedCase' = [by |-> r, final |-> TRUE]
         \/ storedCase' = storedCase /\ stage'[r] = "failed"
  BY DEF AnswerReplay, Upsert, clientVars, LiveInv, LiveTypeOK, Stages
<1>2. LiveTypeOK'
  <2>1. storedCase' \in [by : Replays, final : BOOLEAN] \cup {Original}
    <3>1. storedCase \in [by : Replays, final : BOOLEAN] \cup {Original}
      BY DEF LiveInv, LiveTypeOK
    <3>2. [by |-> r, final |-> TRUE] \in [by : Replays, final : BOOLEAN]
      OBVIOUS
    <3> QED
      BY <1>1, <3>1, <3>2
  <2>2. \A q \in Replays : stage'[q] = "blocked" <=> pending'[q] # <<>>
    BY <1>1 DEF LiveInv, LiveTypeOK
  <2> QED
    BY <1>1, <2>1, <2>2 DEF LiveInv, LiveTypeOK
<1>3. Lists' /\ Unconnected' /\ Pace'
  BY <1>1 DEF LiveInv, Lists, Unconnected, Pace, Listening
<1>4. Ordered' /\ Within' /\ FeedIsExact'
  BY <1>1 DEF LiveInv, Ordered, Within, FeedIsExact, Awaited, Coming, Listening
<1>5. Unfinished'
  BY <1>1 DEF LiveInv, Unfinished
<1> QED
  BY <1>2, <1>3, <1>4, <1>5 DEF LiveInv

\* What a replay has published does not depend on the clients.
LEMMA AwaitedStays ==
  ASSUME UNCHANGED replayVars, NEW c, NEW r
  PROVE  Awaited(c, r)' = Awaited(c, r)
BY DEF Awaited, replayVars

LEMMA SubscribeKeeps ==
  ASSUME LiveInv, NEW c \in Clients, Subscribe(c)
  PROVE  LiveInv'
<1>1. LiveTypeOK /\ Lists /\ Unconnected /\ Pace /\ Ordered /\ Within /\ FeedIsExact /\ Unfinished
  BY DEF LiveInv
<1>2. /\ reader[c] = "off" /\ reader' = [reader EXCEPT ![c] = "waiting"]
      /\ subscribers' = Append(subscribers, c) /\ since' = [since EXCEPT ![c] = pos]
      /\ UNCHANGED <<replayVars, queue, held, received>>
  BY DEF Subscribe
<1>3. UNCHANGED <<stage, pos, pending, storedCase>>
  BY <1>2 DEF replayVars
<1>4. /\ Len(subscribers) \in Nat /\ subscribers' \in Seq(Clients)
      /\ Len(subscribers') = Len(subscribers) + 1 /\ subscribers'[Len(subscribers) + 1] = c
      /\ \A i \in 1 .. Len(subscribers) : subscribers'[i] = subscribers[i]
  BY <1>1, <1>2, LenProperties, AppendProperties DEF LiveTypeOK
<1>5. LiveTypeOK'
  BY <1>1, <1>2, <1>3, <1>4 DEF LiveTypeOK
<1>6. Elements(subscribers') = Elements(subscribers) \cup {c}
  BY <1>4 DEF Elements
<1>7. c \notin Elements(subscribers)
  BY <1>1, <1>2 DEF Lists, Listening
<1>8. Lists'
  <2>1. Distinct(subscribers')
    <3>1. ASSUME NEW i \in 1 .. Len(subscribers'), NEW j \in 1 .. Len(subscribers'),
                 subscribers'[i] = subscribers'[j]
          PROVE  i = j
      BY <1>1, <1>4, <1>7, <3>1 DEF Lists, Distinct, Elements
    <3> QED
      BY <3>1 DEF Distinct
  <2>2. ASSUME NEW d \in Clients PROVE d \in Elements(subscribers') <=> Listening(d)'
    BY <1>1, <1>2, <1>6 DEF Lists, Listening, LiveTypeOK
  <2>3. ASSUME NEW r \in Replays
        PROVE  Distinct(pending'[r]) /\ \A d \in Elements(pending'[r]) : reader'[d] # "off"
    <3>1. \A d \in Elements(pending[r]) : d \in Clients
      BY <1>1, PendingAreClients
    <3> QED
      BY <1>1, <1>2, <1>3, <3>1 DEF Lists, LiveTypeOK
  <2> QED
    BY <2>1, <2>2, <2>3 DEF Lists, Distinct, Elements
<1>9. Unconnected' /\ Pace' /\ Unfinished'
  BY <1>1, <1>2, <1>3 DEF Unconnected, Pace, Unfinished, LiveTypeOK
<1>10. ASSUME NEW d \in Clients, NEW r \in Replays
       PROVE  Awaited(d, r)' = Awaited(d, r) /\ Coming(d)' = Coming(d)
  BY <1>2, AwaitedStays DEF Coming
<1>11. Ordered'
  BY <1>1, <1>10 DEF Ordered
<1>12. ASSUME NEW d \in Clients, NEW r \in Replays, Listening(d)'
       PROVE  LET got == received[d][r]
              IN  /\ since'[d][r] + Len(got) <= Awaited(d, r)
                  /\ \A i \in 1..Len(got) : got[i] = [replay |-> r, n |-> since'[d][r] + i]
                  /\ Numbers(Coming(d), r) = since'[d][r] + Len(got) + 1 .. Awaited(d, r)
  <2>1. CASE d # c
    <3>1. Listening(d) /\ since'[d] = since[d]
      BY <1>1, <1>2, <1>12, <2>1 DEF Listening, LiveTypeOK
    <3> QED
      BY <1>1, <3>1 DEF Within, FeedIsExact
  <2>2. CASE d = c
    <3>1. received[d][r] = <<>> /\ Len(received[d][r]) = 0 /\ queue[d] = <<>>
      BY <1>1, <1>2, <2>2, EmptySeq DEF Unconnected
    <3>2. held[d] = <<>>
      BY <1>1, <1>2, <2>2, HeldOnes
    <3>3. Coming(d) = <<>> /\ Numbers(Coming(d), r) = {}
      <4>1. Coming(d) = <<>>
        BY <3>1, <3>2 DEF Coming
      <4> QED
        BY <4>1, EmptySeq DEF Numbers, Of
    <3>4. since'[d][r] = pos[r] /\ pos[r] \in Int
      BY <1>1, <1>2, <2>2 DEF LiveTypeOK
    <3>5. Awaited(d, r) = pos[r]
      BY <1>1, <1>2, <2>2 DEF Awaited, Lists
    <3>6. since'[d][r] + Len(received[d][r]) = pos[r] /\ pos[r] + 1 .. pos[r] = {}
          /\ 1 .. Len(received[d][r]) = {}
      BY <3>1, <3>4
    <3>7. Numbers(Coming(d), r) = since'[d][r] + Len(received[d][r]) + 1 .. Awaited(d, r)
      BY <3>3, <3>5, <3>6
    <3>8. since'[d][r] + Len(received[d][r]) <= Awaited(d, r)
      BY <3>4, <3>5, <3>6
    <3> QED
      BY <3>6, <3>7, <3>8, Zenon
  <2> QED
    BY <2>1, <2>2
<1>13. Within' /\ FeedIsExact'
  BY <1>1, <1>2, <1>10, <1>12 DEF Within, FeedIsExact, Ordered
<1> QED
  BY <1>5, <1>8, <1>9, <1>11, <1>13 DEF LiveInv

\* What follows one element is the tail.
LEMMA OneAndRest ==
  ASSUME NEW S, NEW h \in Seq(S), Len(h) = 1, NEW t \in Seq(S)
  PROVE  h \o t # <<>> /\ Head(h \o t) = h[1] /\ Tail(h \o t) = t
<1> DEFINE u == h \o t
<1>1. Len(t) \in Nat
  BY LenProperties
<1>2. /\ u \in Seq(S) /\ Len(u) = Len(h) + Len(t)
      /\ \A i \in 1 .. Len(h) + Len(t) : u[i] = IF i <= Len(h) THEN h[i] ELSE t[i - Len(h)]
  BY ConcatProperties
<1> HIDE DEF u
<1>3. Len(u) = 1 + Len(t) /\ Len(u) # 0 /\ u[1] = h[1]
  BY <1>1, <1>2
<1>4. u # <<>>
  BY <1>3, EmptySeq
<1>5. /\ Tail(u) \in Seq(S) /\ Len(Tail(u)) = Len(u) - 1
      /\ \A i \in 1 .. Len(Tail(u)) : Tail(u)[i] = u[i + 1]
  BY <1>2, <1>4, HeadTailProperties
<1>6. Len(Tail(u)) = Len(t)
  BY <1>1, <1>3, <1>5
<1>7. ASSUME NEW i \in 1 .. Len(Tail(u)) PROVE Tail(u)[i] = t[i]
  <2>1. i + 1 \in 1 .. Len(h) + Len(t) /\ ~(i + 1 <= Len(h)) /\ (i + 1) - Len(h) = i
    BY <1>1, <1>6
  <2>2. Tail(u)[i] = u[i + 1]
    BY <1>5
  <2>3. u[i + 1] = t[(i + 1) - Len(h)]
    BY <1>2, <2>1
  <2> QED
    BY <2>1, <2>2, <2>3
<1>8. Tail(u) = t
  BY <1>5, <1>6, <1>7, SeqEqual
<1>9. Head(u) = u[1]
  BY <1>2, <1>4
<1> QED
  BY <1>3, <1>4, <1>8, <1>9 DEF u

\* What is on its way to a client begins with what is being sent to it.
LEMMA ComingBegins ==
  ASSUME LiveTypeOK, NEW c \in Clients
  PROVE  /\ reader[c] # "sending" => Coming(c) = queue[c]
         /\ reader[c] = "sending" =>
              Coming(c) # <<>> /\ Head(Coming(c)) = held[c][1] /\ Tail(Coming(c)) = queue[c]
<1>1. queue[c] \in Seq(Events)
  BY DEF LiveTypeOK
<1>2. CASE reader[c] # "sending"
  <2>1. held[c] = <<>>
    BY <1>2, HeldOnes
  <2>2. <<>> \o queue[c] = queue[c]
    BY <1>1, ConcatEmptySeq
  <2> QED
    BY <1>2, <2>1, <2>2 DEF Coming
<1>3. CASE reader[c] = "sending"
  <2>1. held[c] \in Seq(Events) /\ Len(held[c]) = 1
    BY <1>3, HeldOnes
  <2>2. \A h, t \in Seq(Events) : Len(h) = 1 =>
          h \o t # <<>> /\ Head(h \o t) = h[1] /\ Tail(h \o t) = t
    BY OneAndRest
  <2>3. /\ held[c] \o queue[c] # <<>> /\ Head(held[c] \o queue[c]) = held[c][1]
        /\ Tail(held[c] \o queue[c]) = queue[c]
    BY <1>1, <2>1, <2>2, Zenon
  <2> QED
    BY <1>3, <2>3, Zenon DEF Coming
<1> QED
  BY <1>2, <1>3

LEMMA GetKeeps ==
  ASSUME LiveInv, NEW c \in Clients, Get(c)
  PROVE  LiveInv'
<1>1. LiveTypeOK /\ Lists /\ Unconnected /\ Pace /\ Ordered /\ Within /\ FeedIsExact /\ Unfinished
  BY DEF LiveInv
<1>2. /\ reader[c] = "waiting" /\ queue[c] # <<>>
      /\ reader' = [reader EXCEPT ![c] = "sending"]
      /\ held' = [held EXCEPT ![c] = <<Head(queue[c])>>]
      /\ queue' = [queue EXCEPT ![c] = Tail(queue[c])]
      /\ UNCHANGED <<replayVars, subscribers, received, since>>
  BY DEF Get
<1>3. UNCHANGED <<stage, pos, pending, storedCase>>
  BY <1>2 DEF replayVars
<1>4. /\ queue[c] \in Seq(Events) /\ Head(queue[c]) \in Events /\ Tail(queue[c]) \in Seq(Events)
      /\ Len(queue[c]) \in Nat /\ Len(queue[c]) <= Capacity
      /\ Len(Tail(queue[c])) = Len(queue[c]) - 1
  BY <1>1, <1>2, HeadTailProperties, LenProperties DEF LiveTypeOK
<1>5. LiveTypeOK'
  <2>1. <<Head(queue[c])>> \in Seq(Events) /\ Len(<<Head(queue[c])>>) = 1
    BY <1>4
  <2>2. held' \in [Clients -> Seq(Events)] /\ queue' \in [Clients -> Seq(Events)]
    BY <1>1, <1>2, <1>4, <2>1 DEF LiveTypeOK
  <2>3. Len(Tail(queue[c])) <= Capacity
    BY <1>4, LengthsOK
  <2>4. \A d \in Clients : Len(queue'[d]) <= Capacity
    BY <1>1, <1>2, <2>3 DEF LiveTypeOK
  <2>5. \A d \in Clients : (reader'[d] = "sending" <=> Len(held'[d]) = 1) /\ Len(held'[d]) <= 1
    BY <1>1, <1>2, <2>1 DEF LiveTypeOK
  <2>6. reader' \in [Clients -> {"off", "waiting", "sending", "gone"}]
    BY <1>1, <1>2 DEF LiveTypeOK
  <2> QED
    BY <1>1, <1>2, <1>3, <2>2, <2>4, <2>5, <2>6 DEF LiveTypeOK
<1>6. ASSUME NEW d \in Clients PROVE Coming(d)' = Coming(d) /\ (Listening(d)' <=> Listening(d))
  <2>1. CASE d = c
    <3>1. Coming(d) = queue[c]
      BY <1>1, <1>2, <2>1, ComingBegins
    <3>2. Coming(d)' = <<Head(queue[c])>> \o Tail(queue[c])
      BY <1>1, <1>2, <2>1 DEF Coming, LiveTypeOK
    <3>3. <<Head(queue[c])>> \o Tail(queue[c]) = queue[c]
      <4>1. queue[c] = SubSeq(queue[c], 1, Len(queue[c]))
            /\ Tail(queue[c]) = SubSeq(queue[c], 2, Len(queue[c]))
        BY <1>2, <1>4, SubSeqFull, TailIsSubSeq
      <4>2. 1 \in 1 .. Len(queue[c]) /\ Len(queue[c]) \in 1 .. Len(queue[c]) /\ 1 + 1 = 2
        BY <1>2, <1>4, EmptySeq
      <4>3. SubSeq(queue[c], 1, Len(queue[c]))
              = <<queue[c][1]>> \o SubSeq(queue[c], 1 + 1, Len(queue[c]))
        BY <1>4, <4>2, SubSeqRecursiveFirst
      <4> QED
        BY <1>2, <1>4, <4>1, <4>2, <4>3
    <3> QED
      BY <1>1, <1>2, <2>1, <3>1, <3>2, <3>3 DEF Listening, LiveTypeOK
  <2>2. CASE d # c
    BY <1>1, <1>2, <2>2 DEF Coming, Listening, LiveTypeOK
  <2> QED
    BY <2>1, <2>2
<1>7. Lists' /\ Unconnected' /\ Pace' /\ Unfinished'
  <2>1. ASSUME NEW d \in Clients
        PROVE  (reader'[d] = "off" <=> reader[d] = "off") /\ (d # c => queue'[d] = queue[d])
    BY <1>1, <1>2 DEF LiveTypeOK
  <2>2. Unconnected'
    BY <1>1, <1>2, <2>1 DEF Unconnected
  <2>3. \A r \in Replays : \A d \in Elements(pending[r]) : d \in Clients
    BY <1>1, PendingAreClients
  <2>4. Lists'
    <3>1. \A d \in Clients : d \in Elements(subscribers) <=> Listening(d)'
      BY <1>1, <1>6 DEF Lists
    <3>2. \A r \in Replays : Distinct(pending[r]) /\ \A d \in Elements(pending[r]) : reader'[d] # "off"
      BY <1>1, <2>1, <2>3 DEF Lists
    <3> QED
      BY <1>1, <1>2, <1>3, <3>1, <3>2 DEF Lists, Distinct, Elements
  <2>5. Pace' /\ Unfinished'
    BY <1>1, <1>3 DEF Pace, Unfinished
  <2> QED
    BY <2>2, <2>4, <2>5
<1>8. \A d \in Clients, r \in Replays : Awaited(d, r)' = Awaited(d, r)
  BY <1>2, AwaitedStays
<1>9. Ordered' /\ Within' /\ FeedIsExact'
  BY <1>1, <1>2, <1>6, <1>8 DEF Ordered, Within, FeedIsExact
<1> QED
  BY <1>5, <1>7, <1>9 DEF LiveInv

\* What has been sent is the first of what was on its way, for every replay.
LEMMA SentKeepsOrder ==
  ASSUME LiveTypeOK, Ordered, NEW c \in Clients, reader[c] = "sending",
         held' = [held EXCEPT ![c] = <<>>], UNCHANGED <<replayVars, queue>>
  PROVE  /\ Ordered'
         /\ Coming(c)' = Tail(Coming(c)) /\ \A d \in Clients \ {c} : Coming(d)' = Coming(d)
         /\ held' \in [Clients -> Seq(Events)] /\ Len(held'[c]) = 0
<1>1. Coming(c)' = queue[c] /\ queue[c] \in Seq(Events) /\ Tail(Coming(c)) = queue[c]
  <2>1. Coming(c)' = <<>> \o queue[c] /\ queue[c] \in Seq(Events)
    BY DEF Coming, LiveTypeOK
  <2>2. Tail(Coming(c)) = queue[c]
    BY ComingBegins
  <2> QED
    BY <2>1, <2>2, ConcatEmptySeq
<1>2. \A d \in Clients \ {c} : Coming(d)' = Coming(d)
  BY DEF Coming, LiveTypeOK
<1>3. held' \in [Clients -> Seq(Events)] /\ Len(held'[c]) = 0
  <2>1. <<>> \in Seq(Events) /\ Len(<<>>) = 0
    BY EmptySeq
  <2> QED
    BY <2>1 DEF LiveTypeOK
<1>4. ASSUME NEW d \in Clients, NEW r \in Replays
      PROVE  InOrder(Coming(d)', r, Awaited(d, r))
  <2>1. Coming(d) \in Seq(Events) /\ InOrder(Coming(d), r, Awaited(d, r)) /\ Awaited(d, r) \in Int
    <3>1. Awaited(d, r) \in Int
      BY DEF Awaited, LiveTypeOK
    <3> QED
      BY <3>1, ComingGrows DEF Ordered
  <2>2. CASE d = c
    <3>1. Coming(d) # <<>>
      BY <2>2, ComingBegins
    <3>2. InOrder(Tail(Coming(d)), r, Awaited(d, r))
      BY <2>1, <3>1, Taken
    <3> QED
      BY <1>1, <2>2, <3>2
  <2>3. CASE d # c
    BY <1>2, <2>1, <2>3
  <2> QED
    BY <2>2, <2>3
<1>5. Ordered'
  <2>1. ASSUME NEW d \in Clients, NEW r \in Replays PROVE InOrder(Coming(d), r, Awaited(d, r))'
    <3>1. InOrder(Coming(d), r, Awaited(d, r))' <=> InOrder(Coming(d)', r, Awaited(d, r)')
      BY DEF InOrder, Of
    <3> QED
      BY <1>4, <3>1, AwaitedStays
  <2> QED
    BY <2>1 DEF Ordered
<1> QED
  BY <1>1, <1>2, <1>3, <1>5

\* A client that leaves takes only its own place from the list.
LEMMA UnsubscribeKeeps ==
  ASSUME LiveInv, NEW c \in Clients, reader[c] = "sending",
         held' = [held EXCEPT ![c] = <<>>], Unsubscribe(c), UNCHANGED <<replayVars, queue>>
  PROVE  LiveInv'
<1>1. LiveTypeOK /\ Lists /\ Unconnected /\ Pace /\ Ordered /\ Within /\ FeedIsExact /\ Unfinished
  BY DEF LiveInv
<1>2. /\ reader' = [reader EXCEPT ![c] = "gone"]
      /\ received' = [received EXCEPT ![c] = [r \in Replays |-> <<>>]]
      /\ since' = [since EXCEPT ![c] = [r \in Replays |-> 0]]
      /\ subscribers' = RemoveAt(subscribers, Place(c))
      /\ UNCHANGED <<stage, pos, pending, storedCase, queue>>
  BY DEF Unsubscribe, replayVars
<1>3. /\ Ordered' /\ held' \in [Clients -> Seq(Events)] /\ Len(held'[c]) = 0
      /\ \A d \in Clients \ {c} : Coming(d)' = Coming(d)
  BY <1>1, SentKeepsOrder
<1> DEFINE k == Place(c)
<1>4. Len(subscribers) \in Nat /\ k \in 1 .. Len(subscribers) /\ subscribers[k] = c
      /\ subscribers \in Seq(Clients)
  <2>1. \E i \in 1 .. Len(subscribers) : subscribers[i] = c
    BY <1>1 DEF Lists, Listening, Elements
  <2>2. subscribers \in Seq(Clients)
    BY <1>1 DEF LiveTypeOK
  <2> QED
    BY <2>1, <2>2, LenProperties DEF Place
<1> HIDE DEF k
<1>5. /\ subscribers' \in Seq(Clients) /\ Len(subscribers') = Len(subscribers) - 1
      /\ \A i \in 1 .. Len(subscribers) - 1 :
           subscribers'[i] = IF i < k THEN subscribers[i] ELSE subscribers[i + 1]
  BY <1>2, <1>4, RemovedElement DEF k
<1>6. LiveTypeOK'
  <2>1. /\ [r \in Replays |-> <<>>] \in [Replays -> Seq(Events)]
        /\ [r \in Replays |-> 0] \in [Replays -> 0..Length]
    BY EmptySeq, LengthsOK
  <2>2. received' \in [Clients -> [Replays -> Seq(Events)]]
        /\ since' \in [Clients -> [Replays -> 0..Length]]
    BY <1>1, <1>2, <2>1 DEF LiveTypeOK
  <2>3. reader' \in [Clients -> {"off", "waiting", "sending", "gone"}]
    BY <1>1, <1>2 DEF LiveTypeOK
  <2>4. \A d \in Clients : (reader'[d] = "sending" <=> Len(held'[d]) = 1) /\ Len(held'[d]) <= 1
    BY <1>1, <1>2, <1>3 DEF LiveTypeOK
  <2> QED
    BY <1>1, <1>2, <1>3, <1>5, <2>2, <2>3, <2>4 DEF LiveTypeOK
<1>7. Distinct(subscribers')
  <2>1. ASSUME NEW i \in 1 .. Len(subscribers'), NEW j \in 1 .. Len(subscribers'),
               subscribers'[i] = subscribers'[j]
        PROVE  i = j
    <3> DEFINE old(m) == IF m < k THEN m ELSE m + 1
    <3>1. old(i) \in 1 .. Len(subscribers) /\ old(j) \in 1 .. Len(subscribers)
      BY <1>4, <1>5
    <3>2. subscribers'[i] = subscribers[old(i)] /\ subscribers'[j] = subscribers[old(j)]
      BY <1>4, <1>5
    <3>3. old(i) = old(j)
      <4> HIDE DEF old
      <4> QED
        BY <1>1, <2>1, <3>1, <3>2 DEF Lists, Distinct
    <3> QED
      BY <1>4, <1>5, <3>3
  <2> QED
    BY <2>1 DEF Distinct
<1>8. Elements(subscribers') = Elements(subscribers) \ {c}
  <2>1. ASSUME NEW i \in 1 .. Len(subscribers') PROVE subscribers'[i] \in Elements(subscribers) \ {c}
    <3>1. i \in 1 .. Len(subscribers) /\ i + 1 \in 1 .. Len(subscribers)
      BY <1>4, <1>5
    <3>2. CASE i < k
      <4>1. subscribers'[i] = subscribers[i] /\ i # k
        BY <1>4, <1>5, <3>2
      <4> QED
        BY <1>1, <1>4, <3>1, <4>1 DEF Lists, Distinct, Elements
    <3>3. CASE ~(i < k)
      <4>1. subscribers'[i] = subscribers[i + 1] /\ i + 1 # k
        BY <1>4, <1>5, <3>3
      <4> QED
        BY <1>1, <1>4, <3>1, <4>1 DEF Lists, Distinct, Elements
    <3> QED
      BY <3>2, <3>3
  <2>2. ASSUME NEW i \in 1 .. Len(subscribers), subscribers[i] # c
        PROVE  \E j \in 1 .. Len(subscribers') : subscribers'[j] = subscribers[i]
    <3>1. CASE i < k
      BY <1>4, <1>5, <3>1
    <3>2. CASE i > k
      <4>1. i - 1 \in 1 .. Len(subscribers) - 1 /\ ~(i - 1 < k) /\ (i - 1) + 1 = i
        BY <1>4, <3>2
      <4>2. subscribers'[i - 1] = subscribers[i]
        BY <1>5, <4>1
      <4> QED
        BY <1>5, <4>1, <4>2
    <3>3. i # k
      BY <1>4, <2>2
    <3> QED
      BY <1>4, <3>1, <3>2, <3>3
  <2> QED
    BY <2>1, <2>2 DEF Elements
<1>9. ASSUME NEW d \in Clients
      PROVE  /\ Listening(d)' <=> Listening(d) /\ d # c
             /\ reader'[d] = "off" <=> reader[d] = "off"
             /\ d # c => received'[d] = received[d] /\ since'[d] = since[d]
  BY <1>1, <1>2 DEF Listening, LiveTypeOK
<1>10. Lists'
  <2>1. \A d \in Clients : d \in Elements(subscribers') <=> Listening(d)'
    BY <1>1, <1>8, <1>9 DEF Lists
  <2>2. \A r \in Replays : Distinct(pending[r]) /\ \A d \in Elements(pending[r]) : reader'[d] # "off"
    <3>2. \A r \in Replays : \A d \in Elements(pending[r]) : d \in Clients
      BY <1>1, PendingAreClients
    <3> QED
      BY <1>1, <1>9, <3>2 DEF Lists
  <2> QED
    BY <1>2, <1>7, <2>1, <2>2 DEF Lists, Distinct, Elements
<1>11. Unconnected' /\ Pace' /\ Unfinished'
  <2>1. Unconnected'
    BY <1>1, <1>2, <1>9 DEF Unconnected
  <2> QED
    BY <1>1, <1>2, <2>1 DEF Pace, Unfinished
<1>12. Within' /\ FeedIsExact'
  <2>1. \A d \in Clients, r \in Replays : Awaited(d, r)' = Awaited(d, r)
    BY AwaitedStays
  <2>2. ASSUME NEW d \in Clients, Listening(d)'
        PROVE  /\ Listening(d) /\ d # c /\ received'[d] = received[d] /\ since'[d] = since[d]
               /\ Coming(d)' = Coming(d)
    BY <1>3, <1>9, <2>2
  <2> QED
    BY <1>1, <2>1, <2>2 DEF Within, FeedIsExact
<1> QED
  BY <1>1, <1>3, <1>6, <1>10, <1>11, <1>12 DEF LiveInv

\* One element that is concatenated is the last.
LEMMA OneMore ==
  ASSUME NEW S, NEW g \in Seq(S), NEW h \in Seq(S), Len(h) = 1
  PROVE  /\ g \o h \in Seq(S) /\ Len(g \o h) = Len(g) + 1 /\ (g \o h)[Len(g) + 1] = h[1]
         /\ \A i \in 1 .. Len(g) : (g \o h)[i] = g[i]
<1> DEFINE u == g \o h
<1>1. Len(g) \in Nat
  BY LenProperties
<1>2. /\ u \in Seq(S) /\ Len(u) = Len(g) + Len(h)
      /\ \A i \in 1 .. Len(g) + Len(h) : u[i] = IF i <= Len(g) THEN g[i] ELSE h[i - Len(g)]
  BY ConcatProperties
<1> HIDE DEF u
<1>3. Len(g) + 1 \in 1 .. Len(g) + Len(h) /\ ~(Len(g) + 1 <= Len(g)) /\ (Len(g) + 1) - Len(g) = 1
  BY <1>1
<1>4. u[Len(g) + 1] = h[1]
  BY <1>2, <1>3
<1>5. ASSUME NEW i \in 1 .. Len(g) PROVE u[i] = g[i]
  BY <1>1, <1>2
<1> QED
  BY <1>2, <1>4, <1>5 DEF u

\* What Send does with an event that is not the last.
Arrival(c) ==
  /\ reader[c] = "sending"
  /\ held' = [held EXCEPT ![c] = <<>>]
  /\ received' = [received EXCEPT ![c][held[c][1].replay] = @ \o held[c]]
  /\ reader' = [reader EXCEPT ![c] = "waiting"]
  /\ UNCHANGED <<replayVars, queue, subscribers, since>>

\* An event that arrives is the next one of its replay.
LEMMA ArrivalKeeps ==
  ASSUME LiveInv, NEW c \in Clients, Arrival(c)
  PROVE  LiveInv'
<1> DEFINE e == held[c][1]
           p == e.replay
<1>1. LiveTypeOK /\ Lists /\ Unconnected /\ Pace /\ Ordered /\ Within /\ FeedIsExact /\ Unfinished
      /\ UNCHANGED <<stage, pos, pending, storedCase, queue, subscribers, since>>
      /\ reader[c] = "sending" /\ reader' = [reader EXCEPT ![c] = "waiting"]
  BY DEF LiveInv, Arrival, replayVars
<1>2. /\ Ordered' /\ held' \in [Clients -> Seq(Events)] /\ Len(held'[c]) = 0
      /\ Coming(c)' = Tail(Coming(c)) /\ \A d \in Clients \ {c} : Coming(d)' = Coming(d)
  BY <1>1, SentKeepsOrder DEF Arrival
<1>3. /\ held[c] \in Seq(Events) /\ Len(held[c]) = 1 /\ e \in Events /\ p \in Replays
      /\ e.n \in Int /\ e = [replay |-> p, n |-> e.n]
  <2>1. held[c] \in Seq(Events) /\ Len(held[c]) = 1 /\ e \in Events
    BY <1>1, HeldOnes
  <2> HIDE DEF e
  <2> QED
    BY <2>1, LengthsOK DEF Events
<1> HIDE DEF e
<1>4. ASSUME NEW r \in Replays
      PROVE  received[c][r] \in Seq(Events) /\ Len(received[c][r]) \in Nat
             /\ since[c][r] \in Int /\ Awaited(c, r) \in Int
  <2>1. received[c][r] \in Seq(Events) /\ since[c][r] \in Int
    BY <1>1 DEF LiveTypeOK
  <2>2. Awaited(c, r) \in Int
    BY <1>1 DEF Awaited, LiveTypeOK
  <2> QED
    BY <2>1, <2>2, LenProperties
<1> DEFINE got == received[c][p]
           more == got \o held[c]
<1>5. /\ more \in Seq(Events) /\ Len(more) = Len(got) + 1 /\ more[Len(got) + 1] = e
      /\ \A i \in 1 .. Len(got) : more[i] = got[i]
  <2>1. got \in Seq(Events)
    BY <1>3, <1>4
  <2> HIDE DEF got
  <2> QED
    BY <1>3, <2>1, OneMore DEF e
<1>6. /\ received' \in [Clients -> [Replays -> Seq(Events)]] /\ received'[c][p] = more
      /\ \A r \in Replays \ {p} : received'[c][r] = received[c][r]
      /\ \A d \in Clients \ {c} : received'[d] = received[d]
  <2>1. received' = [received EXCEPT ![c] = [received[c] EXCEPT ![p] = more]]
    BY <1>1 DEF Arrival, LiveTypeOK, e
  <2>2. received \in [Clients -> [Replays -> Seq(Events)]]
    BY <1>1 DEF LiveTypeOK
  <2>3. more \in Seq(Events)
    BY <1>5
  <2> HIDE DEF more, p
  <2> DEFINE f == [received[c] EXCEPT ![p] = more]
  <2>4. f \in [Replays -> Seq(Events)] /\ f[p] = more /\ \A r \in Replays \ {p} : f[r] = received[c][r]
    BY <1>3, <2>2, <2>3
  <2> HIDE DEF f
  <2>5. received' = [received EXCEPT ![c] = f]
    BY <2>1 DEF f
  <2>6. received'[c] = f /\ \A d \in Clients \ {c} : received'[d] = received[d]
    BY <2>2, <2>5
  <2>7. received' \in [Clients -> [Replays -> Seq(Events)]]
    BY <2>2, <2>4, <2>5
  <2> QED
    BY <2>4, <2>6, <2>7
<1> HIDE DEF more
<1>7. reader' \in [Clients -> {"off", "waiting", "sending", "gone"}]
      /\ \A d \in Clients : /\ Listening(d)' <=> Listening(d)
                            /\ reader'[d] = "off" <=> reader[d] = "off"
                            /\ d # c => reader'[d] = reader[d]
      /\ reader'[c] = "waiting" /\ Listening(c)
  BY <1>1 DEF Listening, LiveTypeOK
<1>8. LiveTypeOK'
  <2>1. \A d \in Clients : (reader'[d] = "sending" <=> Len(held'[d]) = 1) /\ Len(held'[d]) <= 1
    <3>1. ASSUME NEW d \in Clients \ {c} PROVE held'[d] = held[d]
      BY <1>1 DEF Arrival, LiveTypeOK
    <3>2. ASSUME NEW d \in Clients \ {c}
          PROVE  (reader'[d] = "sending" <=> Len(held'[d]) = 1) /\ Len(held'[d]) <= 1
      BY <1>1, <1>7, <3>1 DEF LiveTypeOK
    <3>3. (reader'[c] = "sending" <=> Len(held'[c]) = 1) /\ Len(held'[c]) <= 1
      BY <1>2, <1>7
    <3> QED
      BY <3>2, <3>3
  <2> QED
    BY <1>1, <1>2, <1>6, <1>7, <2>1 DEF LiveTypeOK
<1>9. Lists' /\ Unconnected' /\ Pace' /\ Unfinished'
  <2>1. Lists'
    <3>2. \A r \in Replays : \A d \in Elements(pending[r]) : d \in Clients
      BY <1>1, PendingAreClients
    <3>3. \A r \in Replays : Distinct(pending[r]) /\ \A d \in Elements(pending[r]) : reader'[d] # "off"
      BY <1>1, <1>7, <3>2 DEF Lists
    <3>4. \A d \in Clients : d \in Elements(subscribers) <=> Listening(d)'
      BY <1>1, <1>7 DEF Lists
    <3> QED
      BY <1>1, <3>3, <3>4 DEF Lists, Distinct, Elements
  <2>2. Unconnected'
    <3>1. ASSUME NEW d \in Clients, reader'[d] = "off"
          PROVE  queue'[d] = <<>> /\ \A r \in Replays : received'[d][r] = <<>>
      <4>1. d # c /\ reader[d] = "off"
        BY <1>7, <3>1
      <4> QED
        BY <1>1, <1>6, <4>1 DEF Unconnected
    <3> QED
      BY <3>1 DEF Unconnected
  <2> QED
    BY <1>1, <2>1, <2>2 DEF Pace, Unfinished
<1>10. \A d \in Clients, r \in Replays : Awaited(d, r)' = Awaited(d, r)
  BY AwaitedStays DEF Arrival
<1>11. ASSUME NEW d \in Clients, NEW r \in Replays, Listening(d)
       PROVE  LET new == received'[d][r]
              IN  /\ since[d][r] + Len(new) <= Awaited(d, r)
                  /\ \A i \in 1..Len(new) : new[i] = [replay |-> r, n |-> since[d][r] + i]
                  /\ Numbers(Coming(d)', r) = since[d][r] + Len(new) + 1 .. Awaited(d, r)
  <2> DEFINE k == since[d][r] + Len(received[d][r])
             a == Awaited(d, r)
  <2>1. /\ k <= a /\ Numbers(Coming(d), r) = k + 1 .. a
        /\ \A i \in 1..Len(received[d][r]) : received[d][r][i] = [replay |-> r, n |-> since[d][r] + i]
    BY <1>1, <1>11 DEF Within, FeedIsExact
  <2>2. CASE d # c
    BY <1>2, <1>6, <2>1, <2>2
  <2>3. CASE d = c
    <3>1. /\ Coming(c) \in Seq(Events) /\ Coming(c) # <<>> /\ Head(Coming(c)) = e
          /\ InOrder(Coming(c), r, a) /\ a \in Int
      BY <1>1, <1>4, <2>3, ComingBegins, ComingGrows DEF Ordered, e
    <3>2. /\ e.replay # r => Numbers(Tail(Coming(c)), r) = Numbers(Coming(c), r)
          /\ e.replay = r =>
               /\ Numbers(Tail(Coming(c)), r) = Numbers(Coming(c), r) \ {e.n}
               /\ e.n \in Numbers(Coming(c), r)
               /\ \A n \in Numbers(Coming(c), r) : e.n <= n
      <4> HIDE DEF a
      <4> QED
        BY <3>1, Taken
    <3>3. CASE r # p
      <4>1. received'[d][r] = received[d][r]
        BY <1>6, <2>3, <3>3
      <4>2. Numbers(Coming(d)', r) = Numbers(Coming(d), r)
        BY <1>2, <2>3, <3>2, <3>3
      <4> QED
        BY <2>1, <4>1, <4>2
    <3>4. CASE r = p
      <4>1. k \in Int /\ a \in Int
        BY <1>4, <2>3, <3>1
      <4>2. e.n \in k + 1 .. a /\ \A n \in k + 1 .. a : e.n <= n
        BY <2>1, <2>3, <3>2, <3>4
      <4> HIDE DEF k, a
      <4>3. e.n = k + 1 /\ k + 1 <= a /\ (k + 1 .. a) \ {k + 1} = k + 1 + 1 .. a
        <5>1. k + 1 <= a /\ k + 1 <= e.n /\ k + 1 \in k + 1 .. a
          BY <1>3, <4>1, <4>2
        <5>2. e.n <= k + 1
          BY <4>2, <5>1
        <5>3. e.n = k + 1
          BY <1>3, <4>1, <5>1, <5>2
        <5>4. (k + 1 .. a) \ {k + 1} = k + 1 + 1 .. a
          BY <4>1
        <5> QED
          BY <5>1, <5>3, <5>4
      <4>4. Numbers(Coming(d)', r) = k + 1 + 1 .. a
        BY <1>2, <2>1, <2>3, <3>2, <3>4, <4>3
      <4>5. received'[d][r] = more /\ Len(more) = Len(received[d][r]) + 1
            /\ since[d][r] \in Int /\ Len(received[d][r]) \in Nat
        BY <1>4, <1>5, <1>6, <2>3, <3>4
      <4>6. since[d][r] + Len(more) = k + 1 /\ since[d][r] + (Len(received[d][r]) + 1) = k + 1
        BY <4>5 DEF k
      <4>7. ASSUME NEW i \in 1 .. Len(more) PROVE more[i] = [replay |-> r, n |-> since[d][r] + i]
        <5>1. CASE i \in 1 .. Len(received[d][r])
          <6>1. more[i] = received[d][r][i]
            BY <1>5, <2>3, <3>4, <5>1
          <6>2. received[d][r][i] = [replay |-> r, n |-> since[d][r] + i]
            BY <2>1, <5>1
          <6> QED
            BY <6>1, <6>2
        <5>2. CASE i = Len(received[d][r]) + 1
          <6>1. more[i] = e
            BY <1>5, <2>3, <3>4, <5>2
          <6>2. e.n = since[d][r] + i
            BY <4>3, <4>6, <5>2
          <6> QED
            BY <1>3, <3>4, <6>1, <6>2
        <5> QED
          BY <4>5, <5>1, <5>2
      <4> QED
        BY <4>3, <4>4, <4>5, <4>6, <4>7 DEF a
    <3> QED
      BY <3>3, <3>4
  <2> QED
    BY <2>2, <2>3
<1>12. Within' /\ FeedIsExact'
  <2>1. ASSUME NEW d \in Clients, NEW r \in Replays
        PROVE  Numbers(Coming(d), r)' = Numbers(Coming(d)', r)
    BY DEF Numbers, Of
  <2>2. ASSUME NEW d \in Clients, NEW r \in Replays, Listening(d)'
        PROVE  /\ since'[d][r] + Len(received'[d][r]) <= Awaited(d, r)'
               /\ \A i \in 1..Len(received'[d][r]) :
                    received'[d][r][i] = [replay |-> r, n |-> since'[d][r] + i]
               /\ Numbers(Coming(d), r)' = since'[d][r] + Len(received'[d][r]) + 1 .. Awaited(d, r)'
    <3>1. Listening(d) /\ since' = since /\ Awaited(d, r)' = Awaited(d, r)
      BY <1>1, <1>7, <1>10, <2>2
    <3> QED
      BY <1>11, <2>1, <3>1
  <2> QED
    BY <1>2, <2>2 DEF Within, FeedIsExact, Ordered
<1> QED
  BY <1>2, <1>8, <1>9, <1>12 DEF LiveInv

LEMMA SendKeeps ==
  ASSUME LiveInv, NEW c \in Clients, Send(c) \/ SendFails(c)
  PROVE  LiveInv'
<1>1. CASE Arrival(c)
  BY <1>1, ArrivalKeeps
<1>2. CASE /\ reader[c] = "sending" /\ held' = [held EXCEPT ![c] = <<>>] /\ Unsubscribe(c)
           /\ UNCHANGED <<replayVars, queue>>
  BY <1>2, UnsubscribeKeeps
<1> QED
  BY <1>1, <1>2, Zenon DEF Send, SendFails, Arrival

LEMMA LiveInitHolds == LiveInit => LiveInv
<1> SUFFICES ASSUME LiveInit PROVE LiveInv
  OBVIOUS
<1>1. LiveTypeOK
  <2>1. <<>> \in Seq(Clients) /\ <<>> \in Seq(Events) /\ Len(<<>>) = 0
    BY EmptySeq
  <2>2. 0 \in 0..Length /\ 0 <= Capacity
    BY LengthsOK
  <2>3. /\ stage \in [Replays -> Stages] /\ pos \in [Replays -> 0..Length]
        /\ pending \in [Replays -> Seq(Clients)] /\ subscribers \in Seq(Clients)
        /\ reader \in [Clients -> {"off", "waiting", "sending", "gone"}]
        /\ queue \in [Clients -> Seq(Events)] /\ held \in [Clients -> Seq(Events)]
        /\ received \in [Clients -> [Replays -> Seq(Events)]] /\ storedCase = Original
        /\ since \in [Clients -> [Replays -> 0..Length]]
    BY <2>1, <2>2 DEF LiveInit, Stages
  <2>4. \A r \in Replays : stage[r] = "blocked" <=> pending[r] # <<>>
    BY DEF LiveInit
  <2>5. \A c \in Clients : Len(queue[c]) <= Capacity
    BY <2>1, <2>2 DEF LiveInit
  <2>6. \A c \in Clients : (reader[c] = "sending" <=> Len(held[c]) = 1) /\ Len(held[c]) <= 1
    BY <2>1 DEF LiveInit
  <2> QED
    BY <2>3, <2>4, <2>5, <2>6 DEF LiveTypeOK
<1>2. \A c \in Clients : Coming(c) = <<>> /\ ~Listening(c)
  BY DEF LiveInit, Coming, Listening
<1>3. Lists
  <2>1. Elements(<<>>) = {} /\ Distinct(<<>>)
    BY EmptySeq DEF Elements, Distinct
  <2>2. subscribers = <<>> /\ \A r \in Replays : pending[r] = <<>>
    BY DEF LiveInit
  <2> QED
    BY <1>2, <2>1, <2>2 DEF Lists
<1>4. Ordered
  <2>1. \A c \in Clients, r \in Replays : Of(Coming(c), r) = {}
    BY <1>2, EmptySeq DEF Of
  <2> QED
    BY <2>1 DEF Ordered, InOrder
<1>5. Unconnected /\ Pace
  BY LengthsOK DEF LiveInit, Unconnected, Pace
<1>6. Within /\ FeedIsExact
  BY <1>2 DEF Within, FeedIsExact
<1>7. Unfinished
  BY DEF LiveInit, Unfinished, Original
<1> QED
  BY <1>1, <1>3, <1>4, <1>5, <1>6, <1>7 DEF LiveInv

LEMMA LiveNextKeeps == LiveInv /\ [LiveNext]_liveVars => LiveInv'
<1> SUFFICES ASSUME LiveInv, [LiveNext]_liveVars PROVE LiveInv'
  OBVIOUS
<1>1. CASE UNCHANGED liveVars
  <2>1. UNCHANGED <<stage, pos, pending, storedCase, subscribers, reader, held, received, since, queue>>
    BY <1>1 DEF liveVars, replayVars, clientVars
  <2>2. LiveTypeOK' /\ Lists' /\ Unconnected' /\ Pace' /\ Unfinished'
    BY <2>1 DEF LiveInv, LiveTypeOK, Lists, Unconnected, Pace, Unfinished, Listening
  <2>3. Ordered' /\ Within' /\ FeedIsExact'
    BY <2>1 DEF LiveInv, Ordered, Within, FeedIsExact, Awaited, Coming, Listening
  <2> QED
    BY <2>2, <2>3 DEF LiveInv
<1>2. CASE LiveNext
  BY <1>2, NextEventKeeps, ResumeKeeps, AnswerKeeps, SubscribeKeeps, GetKeeps, SendKeeps DEF LiveNext
<1> QED
  BY <1>1, <1>2

\* Queues, lists and feeds keep their invariant, for every number of replays and clients.
THEOREM LiveInductive == LiveSpec => []LiveInv
<1>1. LiveSpec => LiveInit /\ [][LiveNext]_liveVars
  BY PTL DEF LiveSpec
<1> QED
  BY <1>1, LiveInitHolds, LiveNextKeeps, PTL

\* The types of replays, queues and lists; a replay is blocked exactly while clients are pending.
THEOREM LiveTypesCorrect == LiveSpec => []LiveTypeOK
<1>1. LiveInv => LiveTypeOK
  BY DEF LiveInv
<1> QED
  BY <1>1, LiveInductive, PTL

\* However many replays publish at once and however slow the clients are, one that listens gets
\* each event since it subscribed, once and in order (publish, case_events).
THEOREM FeedsAreExact == LiveSpec => []FeedIsExact
<1>1. LiveInv => FeedIsExact
  BY DEF LiveInv
<1> QED
  BY <1>1, LiveInductive, PTL

\* The events of a replay in a queue have different numbers, all below that of the event it is
\* putting, so that they cannot fill a queue that holds a whole workflow (subscribe, publish).
THEOREM BlockedByOthers == LiveSpec => []BlockedOnlyByCrowding
<1>1. ASSUME LiveInv, NEW r \in Replays, stage[r] = "blocked", Full(Head(pending[r]))
      PROVE  \E e \in Elements(queue[Head(pending[r])]) : e.replay # r
  <2> DEFINE c == Head(pending[r])
             q == queue[c]
  <2>1. LiveTypeOK /\ Ordered
    BY <1>1 DEF LiveInv
  <2>2. c \in Clients /\ c \in Elements(pending[r])
    <3>1. pending[r] \in Seq(Clients) /\ pending[r] # <<>>
      BY <1>1, <2>1 DEF LiveTypeOK
    <3>2. Len(pending[r]) \in Nat /\ 1 \in 1 .. Len(pending[r]) /\ c = pending[r][1]
      BY <3>1, LenProperties, EmptySeq
    <3> QED
      BY <3>1, <3>2, HeadTailProperties DEF Elements
  <2>3. Awaited(c, r) = pos[r] - 1 /\ pos[r] \in 0..Length
    BY <2>1, <2>2 DEF Awaited, LiveTypeOK
  <2> HIDE DEF c
  <2>4. q \in Seq(Events) /\ Len(q) \in Nat /\ Len(q) >= Capacity
    <3>1. q \in Seq(Events)
      BY <2>1, <2>2 DEF LiveTypeOK
    <3>2. Len(q) >= Capacity
      BY <1>1 DEF Full, c
    <3> QED
      BY <3>1, <3>2, LenProperties
  <2>5. InOrder(q, r, pos[r] - 1)
    <3>0. Awaited(c, r) \in Int
      BY <2>3
    <3>1. Coming(c) \in Seq(Events) /\ InOrder(Coming(c), r, Awaited(c, r))
      BY <2>1, <2>2, ComingGrows DEF Ordered
    <3>2. CASE reader[c] = "sending"
      <4>1. Coming(c) # <<>> /\ Tail(Coming(c)) = q
        BY <2>1, <2>2, <3>2, ComingBegins
      <4> QED
        <5> DEFINE s == Coming(c)
                   a == Awaited(c, r)
        <5>1. s \in Seq(Events) /\ s # <<>> /\ a \in Int /\ InOrder(s, r, a)
          BY <3>0, <3>1, <4>1
        <5> HIDE DEF s, a
        <5>2. InOrder(Tail(s), r, a)
          BY <5>1, Taken
        <5> QED
          BY <2>3, <4>1, <5>2 DEF s, a
    <3>3. CASE reader[c] # "sending"
      BY <2>1, <2>2, <2>3, <3>1, <3>3, ComingBegins
    <3> QED
      BY <3>2, <3>3
  <2>6. SUFFICES ASSUME \A e \in Elements(q) : e.replay = r PROVE FALSE
    BY DEF c
  <2> HIDE DEF q
  <2>7. ASSUME NEW i \in 1 .. Len(q)
        PROVE  i \in Of(q, r) /\ q[i].n \in 1 .. pos[r] - 1
    <3>1. q[i] \in Events /\ q[i].replay = r
      BY <2>4, <2>6, ElementOfSeq DEF Elements
    <3>2. i \in Of(q, r)
      BY <3>1 DEF Of
    <3>3. q[i].n <= pos[r] - 1
      BY <2>5, <3>2 DEF InOrder
    <3>4. q[i].n \in 1 .. Length
      BY <3>1 DEF Events
    <3> QED
      BY <2>3, <3>2, <3>3, <3>4, LengthsOK
  <2> DEFINE f == [i \in 1 .. Len(q) |-> q[i].n]
  <2>8. f \in [1 .. Len(q) -> 1 .. pos[r] - 1]
    BY <2>7
  <2>9. /\ IsFiniteSet(1 .. Len(q)) /\ IsFiniteSet(1 .. pos[r] - 1)
        /\ Cardinality(1 .. pos[r] - 1) < Cardinality(1 .. Len(q))
    <3> DEFINE top == pos[r] - 1
    <3>1. top \in Int /\ Len(q) \in Int /\ Len(q) >= 1 /\ top < Len(q) /\ 1 \in Int
      BY <2>3, <2>4, LengthsOK
    <3> HIDE DEF top
    <3>2. IsFiniteSet(1 .. Len(q)) /\ Cardinality(1 .. Len(q)) = IF 1 > Len(q) THEN 0 ELSE Len(q) - 1 + 1
      BY <3>1, FS_Interval
    <3>3. IsFiniteSet(1 .. top) /\ Cardinality(1 .. top) = IF 1 > top THEN 0 ELSE top - 1 + 1
      BY <3>1, FS_Interval
    <3>4. Cardinality(1 .. top) < Cardinality(1 .. Len(q))
      BY <3>1, <3>2, <3>3
    <3> QED
      BY <3>2, <3>3, <3>4 DEF top
  <2>10. PICK i, j \in 1 .. Len(q) : i # j /\ f[i] = f[j]
    <3> HIDE DEF f
    <3> QED
      BY <2>8, <2>9, FS_PigeonHole
  <2>11. q[i].n = q[j].n /\ (i < j \/ j < i)
    BY <2>4, <2>10
  <2>12. \A k, l \in 1 .. Len(q) : k < l => q[k].n < q[l].n
    BY <2>5, <2>7 DEF InOrder
  <2>13. q[i].n \in Int /\ q[j].n \in Int
    BY <2>3, <2>7
  <2> QED
    BY <2>11, <2>12, <2>13
<1>2. LiveInv => BlockedOnlyByCrowding
  BY <1>1 DEF BlockedOnlyByCrowding
<1> QED
  BY <1>2, LiveInductive, PTL

\* A snapshot that the case manager has stored is overwritten by the end of its own replay or of
\* another, unless the store raised (replay_case).
THEOREM QuietCasesAreFinished == LiveSpec => []QuietCaseIsFinished
<1>1. LiveInv => QuietCaseIsFinished
  BY DEF LiveInv, Unfinished, QuietCaseIsFinished
<1> QED
  BY <1>1, LiveInductive, PTL
=============================================================================
