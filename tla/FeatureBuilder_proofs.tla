----------------------- MODULE FeatureBuilder_proofs -----------------------
(* Theorems about FeatureBuilder, for any partitions, events and failures. *)
EXTENDS FeatureBuilder, FiniteSetTheorems, TLAPS

\* The event an invocation works on is one of its partition.
LEMMA CurrentEvent ==
  ASSUME TypeOK, NEW p \in Partitions, stage[p] # "idle"
  PROVE  /\ at[p] \in Positions(p)
         /\ Current(p) \in Txns
         /\ Carries(p, Current(p))
         /\ Entity(p) \in Entities
         /\ Concerns(Entity(p), Current(p))
<1>1. Stream[p] \in Seq(Txns) /\ Len(Stream[p]) \in Nat
  BY ConstantsOK, SMTT(30)
<1>2. at[p] \in 1..Len(Stream[p])
  BY <1>1 DEF TypeOK
<1>3. Current(p) \in Txns
  BY <1>1, <1>2 DEF Current
<1> QED
  BY <1>2, <1>3, ConstantsOK DEF Positions, Carries, Current, Entity, Concerns

\* A document that is written back is a document.
LEMMA UpsertedType ==
  ASSUME TypeOK, NEW p \in Partitions, stage[p] # "idle"
  PROVE  Upserted(p) \in [Entities -> [Txns -> Nat]]
<1>1. doc[p] \in [Txns -> Nat] /\ Current(p) \in Txns /\ Entity(p) \in Entities
  BY CurrentEvent DEF TypeOK
<1>2. \A d, t : d \in [Txns -> Nat] /\ t \in Txns => [d EXCEPT ![t] = @ + 1] \in [Txns -> Nat]
  OBVIOUS
<1>3. [doc[p] EXCEPT ![Current(p)] = @ + 1] \in [Txns -> Nat]
  BY <1>1, <1>2
<1>4. docs \in [Entities -> [Txns -> Nat]]
  BY DEF TypeOK
<1>5. \A d : d \in [Txns -> Nat] => [docs EXCEPT ![Entity(p)] = d] \in [Entities -> [Txns -> Nat]]
  BY <1>1, <1>4
<1> QED
  BY <1>3, <1>5 DEF Upserted

\* Where the invocations are, as far as TypeOK is concerned.
InvocationOK ==
  /\ checkpoint \in [Partitions -> Nat]
  /\ batchEnd \in [Partitions -> Nat]
  /\ at \in [Partitions -> Nat]
  /\ stage \in [Partitions -> Stages]
  /\ \A p \in Partitions :
       /\ checkpoint[p] <= batchEnd[p] /\ batchEnd[p] <= Len(Stream[p])
       /\ stage[p] # "idle" => at[p] \in checkpoint[p] + 1 .. batchEnd[p]

\* The types of all but the control state of the partitions.
DataOK ==
  /\ doc \in [Partitions -> [Txns -> Nat]]
  /\ docs \in [Entities -> [Txns -> Nat]]
  /\ seen \subseteq marked
  /\ marked \subseteq Txns
  /\ emitted \subseteq Txns
  /\ failures \in 0..MaxFailures
  /\ dropped \subseteq Partitions \X Nat
  /\ interrupted \in [Txns -> Nat]
  /\ expired \in [Txns -> Nat]

\* The type invariant speaks of each partition and of the data separately.
LEMMA TypeOKSplit ==
  /\ TypeOK <=> InvocationOK /\ DataOK
  /\ TypeOK' <=> InvocationOK' /\ DataOK'
BY DEF TypeOK, InvocationOK, DataOK

\* Going on to the next event stays inside the batch.
LEMMA ProceedType ==
  ASSUME TypeOK, NEW p \in Partitions, stage[p] # "idle", Proceed(p),
         UNCHANGED <<checkpoint, batchEnd>>
  PROVE  InvocationOK'
<1>1. at[p] \in checkpoint[p] + 1 .. batchEnd[p] /\ checkpoint[p] \in Nat /\ batchEnd[p] \in Nat
  BY DEF TypeOK
<1>2. CASE at[p] < batchEnd[p]
  <2>1. at' = [at EXCEPT ![p] = at[p] + 1] /\ stage' = [stage EXCEPT ![p] = "check"]
    BY <1>2 DEF Proceed, Goto
  <2>2. at[p] + 1 \in checkpoint[p] + 1 .. batchEnd[p]
    BY <1>1, <1>2
  <2> QED
    BY <2>1, <2>2 DEF TypeOK, InvocationOK, Stages
<1>3. CASE ~(at[p] < batchEnd[p])
  <2>1. at' = at /\ stage' = [stage EXCEPT ![p] = "return"]
    BY <1>3 DEF Proceed, Goto
  <2> QED
    BY <1>1, <2>1 DEF TypeOK, InvocationOK, Stages
<1> QED
  BY <1>2, <1>3

\* Every step of an invocation keeps the types.
LEMMA StepType ==
  ASSUME TypeOK, NEW p \in Partitions, Step(p)
  PROVE  TypeOK'
<1>1. CASE Deliver(p)
  <2>1. PICK n \in checkpoint[p] + 1 .. Len(Stream[p]) : batchEnd' = [batchEnd EXCEPT ![p] = n]
    BY <1>1 DEF Deliver
  <2>2. /\ checkpoint' = checkpoint /\ at' = [at EXCEPT ![p] = checkpoint[p] + 1]
        /\ stage' = [stage EXCEPT ![p] = "check"]
    BY <1>1 DEF Deliver, Goto
  <2>3. checkpoint[p] \in Nat /\ Len(Stream[p]) \in Nat
    BY ConstantsOK DEF TypeOK
  <2>4. n \in Nat /\ checkpoint[p] + 1 \in checkpoint[p] + 1 .. n /\ n <= Len(Stream[p])
    BY <2>3
  <2>5. InvocationOK'
    BY <2>1, <2>2, <2>3, <2>4 DEF TypeOK, InvocationOK, Stages
  <2> QED
    BY <1>1, <2>5, TypeOKSplit DEF Deliver, DataOK, history
<1>2. CASE Skip(p)
  <2>1. InvocationOK'
    BY <1>2, ProceedType DEF Skip
  <2> QED
    BY <1>2, <2>1, TypeOKSplit DEF Skip, DataOK, history
<1>3. CASE Accept(p)
  BY <1>3 DEF TypeOK, Accept, Goto, Stages, After, history
<1>4. CASE Read(p)
  <2>1. docs[Entity(p)] \in [Txns -> Nat]
    BY <1>4, CurrentEvent DEF TypeOK, Read
  <2>2. doc' \in [Partitions -> [Txns -> Nat]]
    BY <1>4, <2>1 DEF TypeOK, Read
  <2>3. InvocationOK'
    BY <1>4 DEF TypeOK, InvocationOK, Read, Goto, Stages, After
  <2> QED
    BY <1>4, <2>2, <2>3, TypeOKSplit DEF Read, DataOK, history
<1>5. CASE Write(p)
  <2>1. docs' \in [Entities -> [Txns -> Nat]] /\ doc' \in [Partitions -> [Txns -> Nat]]
    BY <1>5, UpsertedType DEF TypeOK, Write, Empty
  <2>2. InvocationOK'
    BY <1>5 DEF TypeOK, InvocationOK, Write, Goto, Stages, After
  <2> QED
    BY <1>5, <2>1, <2>2, TypeOKSplit, SMTT(30) DEF Write, DataOK, history
<1>6. CASE Emit(p)
  <2>1. emitted' \subseteq Txns
    BY <1>6, CurrentEvent DEF TypeOK, Emit
  <2>2. InvocationOK'
    BY <1>6 DEF TypeOK, InvocationOK, Emit, Goto, Stages, After
  <2> QED
    BY <1>6, <2>1, <2>2, TypeOKSplit DEF Emit, DataOK, history
<1>7. CASE Mark(p)
  <2>1. seen' \subseteq marked' /\ marked' \subseteq Txns
    BY <1>7, CurrentEvent DEF TypeOK, Mark
  <2>2. InvocationOK'
    BY <1>7, ProceedType DEF Mark
  <2> QED
    BY <1>7, <2>1, <2>2, TypeOKSplit DEF Mark, DataOK, history
<1>8. CASE Checkpoint(p)
  <2>1. InvocationOK'
    BY <1>8 DEF TypeOK, InvocationOK, Checkpoint, Goto, Stages
  <2> QED
    BY <1>8, <2>1, TypeOKSplit DEF Checkpoint, DataOK, history
<1>9. CASE DecodeFails(p)
  <2>1. InvocationOK'
    BY <1>9 DEF TypeOK, InvocationOK, DecodeFails, GiveUp, Goto, Stages
  <2>2. dropped' \subseteq Partitions \X Nat
    BY <1>9, ConstantsOK DEF TypeOK, DecodeFails, GiveUp
  <2> QED
    BY <1>9, <2>1, <2>2, TypeOKSplit DEF DecodeFails, DataOK
<1> QED
  BY <1>1, <1>2, <1>3, <1>4, <1>5, <1>6, <1>7, <1>8, <1>9 DEF Step

\* What ends an attempt at an event leaves the history and the documents in order.
LEMMA InterruptType ==
  ASSUME TypeOK, NEW p \in Partitions, stage[p] # "idle", Interrupt(p)
  PROVE  interrupted' \in [Txns -> Nat] /\ doc' \in [Partitions -> [Txns -> Nat]]
<1>1. Current(p) \in Txns /\ Empty \in [Txns -> Nat]
  BY CurrentEvent DEF Empty
<1>2. interrupted' \in [Txns -> Nat]
  <2>1. interrupted \in [Txns -> Nat] /\ interrupted[Current(p)] + 1 \in Nat
    BY <1>1 DEF TypeOK
  <2> QED
    BY <1>1, <2>1 DEF Interrupt
<1>3. doc' \in [Partitions -> [Txns -> Nat]]
  BY <1>1 DEF TypeOK, Interrupt
<1> QED
  BY <1>2, <1>3

\* Every failure keeps the types.
LEMMA FailureType ==
  ASSUME TypeOK, NEW p \in Partitions, CallFails(p) \/ Crash(p)
  PROVE  TypeOK'
<1>1. failures' \in 0..MaxFailures
  <2>1. failures \in 0..MaxFailures /\ MaxFailures \in Nat
    BY ConstantsOK DEF TypeOK
  <2>2. failures < MaxFailures /\ failures' = failures + 1
    BY DEF CallFails, Crash
  <2> QED
    BY <2>1, <2>2
<1>2. stage[p] # "idle"
  BY DEF CallFails, Crash
<1>3. interrupted' \in [Txns -> Nat] /\ doc' \in [Partitions -> [Txns -> Nat]]
  BY <1>2, InterruptType DEF CallFails, Crash
<1>4. CASE CallFails(p)
  <2>1. InvocationOK'
    BY <1>4 DEF TypeOK, InvocationOK, CallFails, GiveUp, Goto, Stages
  <2>2. dropped' \subseteq Partitions \X Nat
    BY <1>4, ConstantsOK DEF TypeOK, CallFails, GiveUp
  <2>3. docs' \in [Entities -> [Txns -> Nat]]
    BY <1>2, <1>4, UpsertedType DEF TypeOK, CallFails
  <2>4. seen' \subseteq marked' /\ marked' \subseteq Txns
    BY <1>2, <1>4, CurrentEvent DEF TypeOK, CallFails
  <2> QED
    BY <1>1, <1>3, <1>4, <2>1, <2>2, <2>3, <2>4, TypeOKSplit DEF CallFails, DataOK
<1>5. CASE Crash(p)
  <2>1. InvocationOK'
    BY <1>5 DEF TypeOK, InvocationOK, Crash, Goto, Stages
  <2> QED
    BY <1>1, <1>3, <1>5, <2>1, TypeOKSplit DEF Crash, DataOK
<1> QED
  BY <1>4, <1>5

\* The types hold initially.
LEMMA InitType == Init => TypeOK
BY ConstantsOK DEF Init, TypeOK, Empty, Stages

\* The expiry of a dedup document keeps the types.
LEMMA ExpireType == ASSUME TypeOK, NEW t \in Txns, Expire(t) PROVE TypeOK'
BY DEF TypeOK, Expire, invocation

\* So does a step that changes nothing.
LEMMA StutterType == TypeOK /\ UNCHANGED vars => TypeOK'
BY DEF TypeOK, vars, invocation, history

\* The types are right, and an invocation stays inside its batch, in every reachable state.
THEOREM TypeCorrect == Spec => []TypeOK
<1>1. TypeOK /\ [Next]_vars => TypeOK'
  BY StepType, FailureType, ExpireType, StutterType DEF Next
<1> QED
  BY <1>1, InitType, PTL DEF Spec

-----------------------------------------------------------------------------
(* What both invariants below need to know of a step.                      *)

\* What happens to the invocation of one partition.
PartitionStep(p) == Step(p) \/ CallFails(p) \/ Crash(p)

\* The stages in which a document has been read and is to be written back.
Writing == {"writeCard", "writeMerchant"}

\* A step of a partition leaves the other invocations alone, writes at most the document
\* that its invocation holds, and never unmarks.
LEMMA StepShape ==
  ASSUME TypeOK, NEW p \in Partitions, PartitionStep(p)
  PROVE  /\ \A q \in Partitions \ {p} :
              /\ checkpoint'[q] = checkpoint[q] /\ batchEnd'[q] = batchEnd[q]
              /\ at'[q] = at[q] /\ stage'[q] = stage[q] /\ doc'[q] = doc[q]
         /\ marked \subseteq marked' /\ dropped \subseteq dropped'
         /\ docs' = docs \/ (stage[p] \in Writing /\ docs' = Upserted(p))
<1>1. CASE Deliver(p)
  BY <1>1 DEF TypeOK, Deliver, Goto, history
<1>2. CASE Skip(p)
  BY <1>2 DEF TypeOK, Skip, Proceed, Goto, history
<1>3. CASE Accept(p)
  BY <1>3 DEF TypeOK, Accept, Goto, history
<1>4. CASE Read(p)
  BY <1>4 DEF TypeOK, Read, Goto, history
<1>5. CASE Write(p)
  BY <1>5 DEF TypeOK, Write, Goto, history, Writing
<1>6. CASE Emit(p)
  BY <1>6 DEF TypeOK, Emit, Goto, history
<1>7. CASE Mark(p)
  BY <1>7 DEF TypeOK, Mark, Proceed, Goto, history
<1>8. CASE Checkpoint(p)
  BY <1>8 DEF TypeOK, Checkpoint, Goto, history
<1>9. CASE DecodeFails(p)
  BY <1>9 DEF TypeOK, DecodeFails, GiveUp, Goto
<1>10. CASE CallFails(p)
  BY <1>10 DEF TypeOK, CallFails, GiveUp, Goto, Interrupt, Writing
<1>11. CASE Crash(p)
  BY <1>11 DEF TypeOK, Crash, Goto, Interrupt
<1> QED
  BY <1>1, <1>2, <1>3, <1>4, <1>5, <1>6, <1>7, <1>8, <1>9, <1>10, <1>11 DEF PartitionStep, Step

-----------------------------------------------------------------------------
(* No event is lost silently.                                              *)

\* Position i of partition p needs no further attempt.
Settled(p, i) == Stream[p][i] \in marked \cup Malformed \/ <<p, i>> \in dropped

\* Of a partition: everything before the checkpoint is settled, and while a batch is
\* processed so is everything before the current event, which itself is when the
\* function returns.
SettledBehind(p) ==
  /\ \A i \in 1..checkpoint[p] : Settled(p, i)
  /\ stage[p] # "idle" => \A i \in 1 .. at[p] - 1 : Settled(p, i)
  /\ stage[p] = "return" => at[p] = batchEnd[p] /\ Settled(p, at[p])

\* The inductive invariant behind NoSilentLoss.
LossInv == TypeOK /\ \A p \in Partitions : SettledBehind(p)

\* What is settled stays settled.
LEMMA SettledStays ==
  ASSUME marked \subseteq marked', dropped \subseteq dropped', NEW p, NEW i, Settled(p, i)
  PROVE  Settled(p, i)'
BY DEF Settled

\* The next event of the batch, or the return, once the current event is settled.
LEMMA ProceedSettled ==
  ASSUME LossInv, NEW p \in Partitions, stage[p] = "check" \/ stage[p] = "mark",
         Proceed(p), UNCHANGED <<checkpoint, batchEnd>>,
         marked \subseteq marked', dropped \subseteq dropped',
         \A i : i = at[p] => Settled(p, i)'
  PROVE  SettledBehind(p)'
<1>1. /\ at[p] \in checkpoint[p] + 1 .. batchEnd[p]
      /\ checkpoint[p] \in Nat /\ batchEnd[p] \in Nat /\ at[p] \in Nat
      /\ at \in [Partitions -> Nat] /\ stage \in [Partitions -> Stages]
  BY DEF LossInv, TypeOK
<1>2. \A i \in 1..checkpoint[p] : Settled(p, i)'
  BY SettledStays DEF LossInv, SettledBehind
<1>3. \A i \in 1..at[p] : Settled(p, i)'
  <2> TAKE i \in 1..at[p]
  <2>1. i = at[p] \/ i \in 1 .. at[p] - 1
    BY <1>1
  <2>2. i = at[p] \/ Settled(p, i)
    BY <2>1 DEF LossInv, SettledBehind
  <2> QED
    BY <2>2, SettledStays
<1>4. CASE at[p] < batchEnd[p]
  <2>1. at'[p] = at[p] + 1 /\ stage'[p] = "check"
    BY <1>1, <1>4 DEF Proceed, Goto
  <2>2. at'[p] - 1 = at[p]
    BY <1>1, <2>1
  <2> QED
    BY <1>2, <1>3, <2>1, <2>2 DEF SettledBehind
<1>5. CASE ~(at[p] < batchEnd[p])
  <2>1. at'[p] = at[p] /\ at[p] = batchEnd[p] /\ stage'[p] = "return"
    BY <1>1, <1>5 DEF Proceed, Goto
  <2>2. \A i \in 1 .. at[p] - 1 : i \in 1..at[p]
    BY <1>1
  <2>3. Settled(p, at[p])'
    BY <2>1
  <2> QED
    BY <1>2, <1>3, <2>1, <2>2, <2>3 DEF SettledBehind
<1> QED
  BY <1>4, <1>5

\* A batch that is given up is settled to its end.
LEMMA GiveUpSettled ==
  ASSUME LossInv, NEW p \in Partitions, stage[p] # "idle", GiveUp(p), marked \subseteq marked'
  PROVE  SettledBehind(p)'
<1>1. at[p] \in Nat /\ batchEnd[p] \in Nat
  BY DEF LossInv, TypeOK
<1>2. checkpoint'[p] = batchEnd[p] /\ stage'[p] = "idle" /\ dropped \subseteq dropped'
  BY DEF LossInv, TypeOK, GiveUp, Goto
<1>3. ASSUME NEW i \in 1..batchEnd[p] PROVE Settled(p, i)'
  <2>1. CASE i \in at[p]..batchEnd[p]
    BY <2>1 DEF GiveUp, Settled
  <2>2. CASE i \in 1 .. at[p] - 1
    <3>1. Settled(p, i)
      BY <2>2 DEF LossInv, SettledBehind
    <3> QED
      BY <1>2, <3>1, SettledStays
  <2> QED
    BY <1>1, <2>1, <2>2
<1> QED
  BY <1>2, <1>3 DEF SettledBehind

\* Each step of a partition keeps what is behind it settled.
LEMMA StepSettled ==
  ASSUME LossInv, NEW p \in Partitions, PartitionStep(p)
  PROVE  SettledBehind(p)'
<1> USE DEF LossInv
<1>1. marked \subseteq marked' /\ dropped \subseteq dropped'
  BY StepShape
<1>2. /\ checkpoint[p] \in Nat /\ at[p] \in Nat /\ batchEnd[p] \in Nat
      /\ stage \in [Partitions -> Stages] /\ at \in [Partitions -> Nat]
      /\ checkpoint \in [Partitions -> Nat]
  BY DEF TypeOK
<1>3. \A i : Settled(p, i) => Settled(p, i)'
  BY <1>1, SettledStays
<1>4. \A i \in 1..checkpoint[p] : Settled(p, i)'
  BY <1>3 DEF SettledBehind
<1>5. CASE Deliver(p)
  <2>1. checkpoint'[p] = checkpoint[p] /\ at'[p] = checkpoint[p] + 1 /\ stage'[p] = "check"
    BY <1>2, <1>5 DEF Deliver, Goto
  <2>2. at'[p] - 1 = checkpoint[p]
    BY <1>2, <2>1
  <2> QED
    BY <1>4, <2>1, <2>2 DEF SettledBehind
<1>6. CASE Skip(p)
  <2>1. Settled(p, at[p])
    BY <1>6 DEF Skip, Skippable, Current, Settled, TypeOK
  <2>2. \A i : i = at[p] => Settled(p, i)'
    BY <1>3, <2>1
  <2> QED
    BY <1>1, <1>6, <2>2, ProceedSettled DEF Skip
<1>7. CASE Mark(p)
  <2>1. \A i : i = at[p] => Settled(p, i)'
    BY <1>7 DEF Mark, Current, Settled
  <2> QED
    BY <1>1, <1>7, <2>1, ProceedSettled DEF Mark
<1>8. CASE Accept(p) \/ Read(p) \/ Write(p) \/ Emit(p)
  <2>1. /\ checkpoint'[p] = checkpoint[p] /\ at'[p] = at[p]
        /\ stage[p] # "idle" /\ stage'[p] \notin {"idle", "return"}
    BY <1>2, <1>8 DEF Accept, Read, Write, Emit, Goto, After
  <2> QED
    BY <1>3, <1>4, <2>1 DEF SettledBehind
<1>9. CASE Checkpoint(p)
  <2>1. checkpoint'[p] = batchEnd[p] /\ stage'[p] = "idle"
    BY <1>2, <1>9 DEF Checkpoint, Goto
  <2>2. \A i \in 1..batchEnd[p] : i \in 1 .. at[p] - 1 \/ i = at[p]
    BY <1>2, <1>9 DEF Checkpoint, SettledBehind
  <2>3. \A i \in 1..batchEnd[p] : Settled(p, i)
    BY <1>9, <2>2 DEF Checkpoint, SettledBehind
  <2> QED
    BY <1>3, <2>1, <2>3 DEF SettledBehind
<1>10. CASE DecodeFails(p) \/ CallFails(p)
  BY <1>1, <1>10, GiveUpSettled DEF DecodeFails, CallFails
<1>11. CASE Crash(p)
  <2>1. checkpoint'[p] = checkpoint[p] /\ stage'[p] = "idle"
    BY <1>2, <1>11 DEF Crash, Goto
  <2> QED
    BY <1>4, <2>1 DEF SettledBehind
<1> QED
  BY <1>5, <1>6, <1>7, <1>8, <1>9, <1>10, <1>11 DEF PartitionStep, Step

\* Through all crashes, failed calls and bodies that cannot be decoded, the host passes no
\* event that was neither completed, nor malformed, nor in a batch that raised.
THEOREM NothingLostSilently == Spec => []NoSilentLoss
<1>1. Init => LossInv
  <2>1. Init => TypeOK
    BY InitType
  <2> QED
    BY <2>1 DEF Init, LossInv, SettledBehind
<1>2. ASSUME LossInv, NEW p \in Partitions, PartitionStep(p) PROVE LossInv'
  <2>1. TypeOK'
    BY <1>2, StepType, FailureType DEF LossInv, PartitionStep
  <2>2. ASSUME NEW q \in Partitions \ {p} PROVE SettledBehind(q)'
    <3>1. /\ checkpoint'[q] = checkpoint[q] /\ batchEnd'[q] = batchEnd[q]
          /\ at'[q] = at[q] /\ stage'[q] = stage[q]
      BY <1>2, StepShape DEF LossInv
    <3>2. \A i : Settled(q, i) => Settled(q, i)'
      BY <1>2, StepShape, SettledStays DEF LossInv
    <3> QED
      BY <1>2, <3>1, <3>2 DEF LossInv, SettledBehind
  <2> QED
    BY <1>2, <2>1, <2>2, StepSettled DEF LossInv
<1>3. ASSUME LossInv, NEW t \in Txns, Expire(t) PROVE LossInv'
  BY <1>3, ExpireType DEF LossInv, SettledBehind, Settled, Expire, invocation
<1>4. LossInv /\ UNCHANGED vars => LossInv'
  BY StutterType DEF LossInv, SettledBehind, Settled, vars, invocation, history
<1>5. LossInv /\ [Next]_vars => LossInv'
  BY <1>2, <1>3, <1>4 DEF Next, PartitionStep
<1>6. LossInv => NoSilentLoss
  BY DEF LossInv, SettledBehind, Settled, NoSilentLoss
<1> QED
  BY <1>1, <1>5, <1>6, PTL DEF Spec

-----------------------------------------------------------------------------
(* What is published is counted.                                           *)

\* The document counts the transaction, unless it has several writers.
Counted(e, t) == Exclusive(e) => docs[e][t] > 0

\* What an invocation has done so far for its event: the document it holds is the stored
\* one, and the documents it has written count the event.
DoneSoFar(p) ==
  /\ stage[p] \in Writing /\ Exclusive(Entity(p)) => doc[p] = docs[Entity(p)]
  /\ stage[p] \in {"readMerchant", "writeMerchant", "emit", "mark"} =>
       Counted(CardOf[Current(p)], Current(p))
  /\ stage[p] \in {"emit", "mark"} => Counted(MerchantOf[Current(p)], Current(p))

\* PublishedIsCounted, in terms of Counted.
PublishedInv ==
  \A t \in marked \cup emitted : Counted(CardOf[t], t) /\ Counted(MerchantOf[t], t)

\* The inductive invariant behind PublishedIsCounted.
CountedInv == TypeOK /\ PublishedInv /\ \A p \in Partitions : DoneSoFar(p)

\* An upsert counts the event in the document, and forgets nothing in an exclusive one.
LEMMA UpsertCounts ==
  ASSUME CountedInv, NEW p \in Partitions, stage[p] \in Writing
  PROVE  /\ Upserted(p)[Entity(p)][Current(p)] > 0
         /\ \A e \in Entities \ {Entity(p)} : Upserted(p)[e] = docs[e]
         /\ \A e \in Entities, t \in Txns :
              Exclusive(e) /\ docs[e][t] > 0 => Upserted(p)[e][t] > 0
<1>1. stage[p] # "idle"
  BY DEF Writing
<1>2. Entity(p) \in Entities /\ Current(p) \in Txns
  BY <1>1, CurrentEvent DEF CountedInv
<1>3. doc[p] \in [Txns -> Nat] /\ docs \in [Entities -> [Txns -> Nat]]
  BY DEF CountedInv, TypeOK
<1>4. Upserted(p)[Entity(p)] = [doc[p] EXCEPT ![Current(p)] = @ + 1]
  BY <1>2, <1>3 DEF Upserted
<1>5. \A e \in Entities \ {Entity(p)} : Upserted(p)[e] = docs[e]
  BY <1>2, <1>3 DEF Upserted
<1>6. doc[p][Current(p)] \in Nat
  BY <1>2, <1>3
<1>7. Upserted(p)[Entity(p)][Current(p)] > 0
  BY <1>2, <1>3, <1>4, <1>6
<1>8. ASSUME NEW t \in Txns, Exclusive(Entity(p)), docs[Entity(p)][t] > 0
      PROVE  Upserted(p)[Entity(p)][t] > 0
  <2>1. doc[p] = docs[Entity(p)]
    BY <1>8 DEF CountedInv, DoneSoFar
  <2>2. CASE t = Current(p)
    BY <1>7, <2>2
  <2>3. CASE t # Current(p)
    BY <1>3, <1>4, <1>8, <2>1, <2>3
  <2> QED
    BY <2>2, <2>3
<1> QED
  BY <1>5, <1>7, <1>8

\* Two invocations never write the same exclusive document.
LEMMA OneWriter ==
  ASSUME TypeOK, NEW p \in Partitions, NEW q \in Partitions, p # q,
         stage[p] # "idle", stage[q] # "idle", Exclusive(Entity(q))
  PROVE  Entity(p) # Entity(q)
BY CurrentEvent DEF Exclusive

\* What an exclusive document counts, it counts after any step of a partition.
LEMMA StillCounted ==
  ASSUME CountedInv, NEW p \in Partitions, PartitionStep(p)
  PROVE  \A e \in Entities, t \in Txns : Counted(e, t) => Counted(e, t)'
<1>1. docs' = docs \/ (stage[p] \in Writing /\ docs' = Upserted(p))
  BY StepShape DEF CountedInv
<1>2. \A e \in Entities : Exclusive(e)' <=> Exclusive(e)
  BY DEF Exclusive, Concerns, Carries, Positions
<1> QED
  BY <1>1, <1>2, UpsertCounts DEF Counted

\* The other invocations are as far as they were.
LEMMA OthersDone ==
  ASSUME CountedInv, NEW p \in Partitions, PartitionStep(p), NEW q \in Partitions, q # p
  PROVE  DoneSoFar(q)'
<1>1. at'[q] = at[q] /\ stage'[q] = stage[q] /\ doc'[q] = doc[q]
  BY StepShape DEF CountedInv
<1>2. Current(q)' = Current(q) /\ Entity(q)' = Entity(q)
  BY <1>1 DEF Current, Entity
<1>3. DoneSoFar(q)
  BY DEF CountedInv
<1>4. CASE stage[q] = "idle"
  BY <1>1, <1>4 DEF DoneSoFar, Writing
<1>5. CASE stage[q] # "idle"
  <2>1. /\ Current(q) \in Txns /\ Entity(q) \in Entities
        /\ CardOf[Current(q)] \in Entities /\ MerchantOf[Current(q)] \in Entities
    BY <1>5, CurrentEvent, ConstantsOK DEF CountedInv
  <2>2. \A e \in Entities : Counted(e, Current(q)) => Counted(e, Current(q))'
    BY <1>2, <2>1, StillCounted
  <2>3. stage[q] \in Writing /\ Exclusive(Entity(q)) => docs'[Entity(q)] = docs[Entity(q)]
    <3> HAVE stage[q] \in Writing /\ Exclusive(Entity(q))
    <3>1. docs' = docs \/ (stage[p] \in Writing /\ docs' = Upserted(p))
      BY StepShape DEF CountedInv
    <3>2. stage[p] \in Writing => Entity(p) # Entity(q)
      BY <1>5, OneWriter DEF CountedInv, Writing
    <3> QED
      BY <2>1, <3>1, <3>2, UpsertCounts
  <2>4. Exclusive(Entity(q))' <=> Exclusive(Entity(q))
    BY <1>2 DEF Exclusive, Concerns, Carries, Positions
  <2> QED
    BY <1>1, <1>2, <1>3, <2>1, <2>2, <2>3, <2>4 DEF DoneSoFar
<1> QED
  BY <1>4, <1>5

\* The invocation that makes the step.
LEMMA StepDone ==
  ASSUME CountedInv, NEW p \in Partitions, PartitionStep(p)
  PROVE  DoneSoFar(p)'
<1>1. /\ stage \in [Partitions -> Stages] /\ at \in [Partitions -> Nat]
      /\ doc \in [Partitions -> [Txns -> Nat]]
  BY DEF CountedInv, TypeOK
<1>2. DoneSoFar(p)
  BY DEF CountedInv
<1>3. CASE stage'[p] \in {"idle", "check", "return", "readCard"}
  BY <1>3 DEF DoneSoFar, Writing
<1>4. \A e \in Entities : Exclusive(e)' <=> Exclusive(e)
  BY DEF Exclusive, Concerns, Carries, Positions
<1>5. CASE Deliver(p) \/ Skip(p) \/ Accept(p) \/ Mark(p) \/ Checkpoint(p) \/ DecodeFails(p)
           \/ CallFails(p) \/ Crash(p)
  <2>1. stage'[p] \in {"idle", "check", "return", "readCard"}
    BY <1>1, <1>5 DEF Deliver, Skip, Accept, Mark, Checkpoint, DecodeFails, CallFails, Crash,
                      Proceed, GiveUp, Goto, After
  <2> QED
    BY <1>3, <2>1
<1>6. ASSUME Read(p) \/ Write(p) \/ Emit(p)
      PROVE  /\ Current(p)' = Current(p)
             /\ Current(p) \in Txns /\ Entity(p) \in Entities
             /\ CardOf[Current(p)] \in Entities /\ MerchantOf[Current(p)] \in Entities
             /\ \A e \in Entities : Counted(e, Current(p)) => Counted(e, Current(p))'
  <2>1. stage[p] # "idle" /\ at' = at
    BY <1>6 DEF Read, Write, Emit, Writing
  <2>2. Current(p)' = Current(p)
    BY <2>1 DEF Current
  <2>3. /\ Current(p) \in Txns /\ Entity(p) \in Entities
        /\ CardOf[Current(p)] \in Entities /\ MerchantOf[Current(p)] \in Entities
    BY <2>1, CurrentEvent, ConstantsOK DEF CountedInv
  <2> QED
    BY <2>2, <2>3, StillCounted
<1>7. CASE Read(p)
  <2>1. stage[p] \in {"readCard", "readMerchant"} /\ stage'[p] = After(stage[p])
    BY <1>1, <1>7 DEF Read, Goto
  <2>2. After("readCard") = "writeCard" /\ After("readMerchant") = "writeMerchant"
    BY DEF After
  <2>3. /\ \/ stage[p] = "readCard" /\ stage'[p] = "writeCard"
           \/ stage[p] = "readMerchant" /\ stage'[p] = "writeMerchant"
        /\ docs' = docs /\ doc'[p] = docs[Entity(p)]
    BY <1>1, <1>7, <2>1, <2>2 DEF Read
  <2>4. Entity(p)' = Entity(p)
    BY <1>6, <1>7, <2>3 DEF Entity
  <2> QED
    BY <1>2, <1>6, <1>7, <2>3, <2>4 DEF DoneSoFar, Writing
<1>8. CASE Write(p)
  <2>1. stage[p] \in {"writeCard", "writeMerchant"} /\ stage'[p] = After(stage[p])
    BY <1>1, <1>8 DEF Write, Goto
  <2>2. After("writeCard") = "readMerchant" /\ After("writeMerchant") = "emit"
    BY DEF After
  <2>3. /\ \/ stage[p] = "writeCard" /\ stage'[p] = "readMerchant"
           \/ stage[p] = "writeMerchant" /\ stage'[p] = "emit"
        /\ docs' = Upserted(p)
    BY <1>1, <1>8, <2>1, <2>2 DEF Write
  <2>4. docs'[Entity(p)][Current(p)] > 0
    BY <2>3, UpsertCounts DEF Writing
  <2>5. CASE stage[p] = "writeCard"
    <3>1. Counted(CardOf[Current(p)], Current(p))'
      BY <1>6, <1>8, <2>4, <2>5 DEF Entity, Counted
    <3> QED
      BY <2>3, <2>5, <3>1 DEF DoneSoFar, Writing
  <2>6. CASE stage[p] = "writeMerchant"
    <3>1. Counted(MerchantOf[Current(p)], Current(p))'
      BY <1>6, <1>8, <2>4, <2>6 DEF Entity, Counted
    <3>2. Counted(CardOf[Current(p)], Current(p))'
      BY <1>2, <1>6, <1>8, <2>6 DEF DoneSoFar
    <3> QED
      BY <2>3, <2>6, <3>1, <3>2 DEF DoneSoFar, Writing
  <2> QED
    BY <2>3, <2>5, <2>6
<1>9. CASE Emit(p)
  <2>1. stage[p] = "emit" /\ stage'[p] = "mark"
    BY <1>1, <1>9 DEF Emit, Goto, After
  <2> QED
    BY <1>2, <1>6, <1>9, <2>1 DEF DoneSoFar, Writing
<1> QED
  BY <1>5, <1>7, <1>8, <1>9 DEF PartitionStep, Step

\* Only Emit and Mark publish, and they publish what the invocation has counted.
LEMMA StepPublishes ==
  ASSUME CountedInv, NEW p \in Partitions, PartitionStep(p)
  PROVE  PublishedInv'
<1>1. \A t \in Txns : CardOf[t] \in Entities /\ MerchantOf[t] \in Entities
  BY ConstantsOK
<1>2. marked \cup emitted \subseteq Txns
  BY DEF CountedInv, TypeOK
<1>3. \/ marked' \cup emitted' = marked \cup emitted
      \/ /\ stage[p] \in {"emit", "mark"}
         /\ marked' \cup emitted' = (marked \cup emitted) \cup {Current(p)}
  BY DEF PartitionStep, Step, Deliver, Skip, Accept, Read, Write, Emit, Mark, Checkpoint,
         DecodeFails, CallFails, Crash
<1>4. stage[p] \in {"emit", "mark"} =>
        /\ Current(p) \in Txns
        /\ Counted(CardOf[Current(p)], Current(p)) /\ Counted(MerchantOf[Current(p)], Current(p))
  BY CurrentEvent DEF CountedInv, DoneSoFar
<1>5. ASSUME NEW t \in marked' \cup emitted'
      PROVE  Counted(CardOf[t], t)' /\ Counted(MerchantOf[t], t)'
  <2>1. t \in Txns /\ Counted(CardOf[t], t) /\ Counted(MerchantOf[t], t)
    BY <1>2, <1>3, <1>4, <1>5 DEF CountedInv, PublishedInv
  <2> QED
    BY <1>1, <2>1, StillCounted
<1> QED
  BY <1>5 DEF PublishedInv

\* A step that touches neither documents nor invocations publishes nothing.
LEMMA NothingPublished ==
  ASSUME CountedInv, UNCHANGED <<invocation, doc, docs, emitted, marked>>
  PROVE  PublishedInv' /\ \A p \in Partitions : DoneSoFar(p)'
<1>1. \A e, t : Counted(e, t)' <=> Counted(e, t)
  BY DEF Counted, Exclusive, Concerns, Carries, Positions
<1>2. \A p : Current(p)' = Current(p) /\ Entity(p)' = Entity(p) /\ stage'[p] = stage[p]
  BY DEF Current, Entity, invocation
<1>3. \A e : Exclusive(e)' <=> Exclusive(e)
  BY DEF Exclusive, Concerns, Carries, Positions
<1>4. PublishedInv'
  BY <1>1 DEF CountedInv, PublishedInv
<1> QED
  BY <1>1, <1>2, <1>3, <1>4 DEF CountedInv, DoneSoFar

\* What was emitted or marked as seen is counted in the document of its card and of its
\* merchant, through all crashes and redeliveries, unless another partition may overwrite
\* the document.
THEOREM PublishedEventsAreCounted == Spec => []PublishedIsCounted
<1>1. Init => CountedInv
  BY InitType DEF Init, CountedInv, PublishedInv, DoneSoFar, Writing
<1>2. ASSUME CountedInv, NEW p \in Partitions, PartitionStep(p) PROVE CountedInv'
  <2>1. TypeOK'
    BY <1>2, StepType, FailureType DEF CountedInv, PartitionStep
  <2> QED
    BY <1>2, <2>1, StepPublishes, StepDone, OthersDone DEF CountedInv
<1>3. ASSUME CountedInv, NEW t \in Txns, Expire(t) PROVE CountedInv'
  BY <1>3, ExpireType, NothingPublished DEF CountedInv, Expire
<1>4. CountedInv /\ UNCHANGED vars => CountedInv'
  BY StutterType, NothingPublished DEF CountedInv, vars
<1>5. CountedInv /\ [Next]_vars => CountedInv'
  BY <1>2, <1>3, <1>4 DEF Next, PartitionStep
<1>6. CountedInv => PublishedIsCounted
  BY DEF CountedInv, PublishedInv, Counted, PublishedIsCounted, Concerns
<1> QED
  BY <1>1, <1>5, <1>6, PTL DEF Spec

-----------------------------------------------------------------------------
(* A repeat has a cause.                                                   *)

\* The invocation of p has passed the dedup check of t and not finished with it.
Attempting(p, t) == stage[p] \notin {"idle", "check", "return"} /\ Current(p) = t

\* It has already counted its event in e.
Paid(p, e) ==
  \/ stage[p] \in {"readMerchant", "writeMerchant", "emit", "mark"} /\ e = CardOf[Current(p)]
  \/ stage[p] \in {"emit", "mark"} /\ e = MerchantOf[Current(p)]

\* The partitions that may count t in e (once) before a dedup document of t expires or an
\* attempt at t is cut off.
MayCount(e, t) ==
  {p \in Partitions :
     Carries(p, t) /\ IF Attempting(p, t) THEN ~Paid(p, e) ELSE t \notin seen}

\* How often the causes allow t to be counted.
Allowed(t) == Copies(t) * (1 + expired[t]) + interrupted[t]

\* A document of e that counts t n times leaves room for those who may still count it.
Room(n, e, t) == n + Cardinality(MayCount(e, t)) <= Allowed(t)

\* The inductive invariant behind OvercountHasACause: there is room in every stored
\* document, and in every one that is about to replace it.
RoomInv ==
  /\ TypeOK
  /\ \A e \in Entities, t \in Txns : Room(docs[e][t], e, t)
  /\ \A p \in Partitions, t \in Txns : stage[p] \in Writing => Room(doc[p][t], Entity(p), t)

\* The numbers in Room are numbers.
LEMMA RoomTypes ==
  ASSUME TypeOK, NEW e, NEW t \in Txns
  PROVE  /\ Copies(t) \in Nat /\ Allowed(t) \in Nat
         /\ IsFiniteSet(MayCount(e, t)) /\ Cardinality(MayCount(e, t)) \in 0..Copies(t)
<1>1. IsFiniteSet({p \in Partitions : Carries(p, t)})
  BY ConstantsOK, FS_Subset
<1>2. MayCount(e, t) \subseteq {p \in Partitions : Carries(p, t)}
  BY DEF MayCount
<1>3. IsFiniteSet(MayCount(e, t)) /\ Cardinality(MayCount(e, t)) <= Copies(t)
  BY <1>1, <1>2, FS_Subset DEF Copies
<1>4. Copies(t) \in Nat /\ Cardinality(MayCount(e, t)) \in Nat
  BY <1>1, <1>3, FS_CardinalityType DEF Copies
<1>5. expired[t] \in Nat /\ interrupted[t] \in Nat
  BY DEF TypeOK
<1>6. \A x, y, z \in Nat : x * (1 + y) + z \in Nat
  OBVIOUS
<1> QED
  BY <1>3, <1>4, <1>5, <1>6 DEF Allowed

\* What a step of a partition does to MayCount and to the causes: no partition but this one
\* may count once more than before, and this one only when its attempt was cut off.
LEMMA StepMayCount ==
  ASSUME TypeOK, NEW p \in Partitions, PartitionStep(p), NEW e \in Entities, NEW t \in Txns
  PROVE  /\ expired' = expired
         /\ \/ MayCount(e, t)' \subseteq MayCount(e, t) /\ interrupted'[t] = interrupted[t]
            \/ /\ MayCount(e, t)' \subseteq MayCount(e, t) \cup {p}
               /\ interrupted'[t] = interrupted[t] + 1
               /\ Attempting(p, t) /\ (Paid(p, e) \/ MayCount(e, t)' \subseteq MayCount(e, t))
<1>1. /\ stage \in [Partitions -> Stages] /\ at \in [Partitions -> Nat]
      /\ interrupted \in [Txns -> Nat]
  BY DEF TypeOK
<1>2. expired' = expired
  BY DEF PartitionStep, Step, Deliver, Skip, Accept, Read, Write, Emit, Mark, Checkpoint,
         DecodeFails, CallFails, Crash, history
<1>3. seen \subseteq seen'
  BY DEF PartitionStep, Step, Deliver, Skip, Accept, Read, Write, Emit, Mark, Checkpoint,
         DecodeFails, CallFails, Crash
<1>4. Carries(p, t)' <=> Carries(p, t)
  BY DEF Carries, Positions
<1>5. ASSUME NEW q \in Partitions \ {p}, q \in MayCount(e, t)' PROVE q \in MayCount(e, t)
  <2>1. at'[q] = at[q] /\ stage'[q] = stage[q]
    BY StepShape
  <2>2. Current(q)' = Current(q)
    BY <2>1 DEF Current
  <2> QED
    BY <1>3, <1>5, <2>1, <2>2 DEF MayCount, Attempting, Paid, Carries, Positions
<1>6. CASE Deliver(p) \/ Skip(p) \/ Checkpoint(p) \/ DecodeFails(p)
  <2>1. stage[p] \in {"idle", "check", "return"} /\ stage'[p] \in {"idle", "check", "return"}
    BY <1>1, <1>6 DEF Deliver, Skip, Proceed, Checkpoint, DecodeFails, GiveUp, Goto
  <2>2. interrupted' = interrupted
    BY <1>6 DEF Deliver, Skip, Checkpoint, DecodeFails, history
  <2>3. p \in MayCount(e, t)' => p \in MayCount(e, t)
    BY <1>3, <1>4, <2>1 DEF MayCount, Attempting
  <2> QED
    BY <1>2, <1>5, <2>2, <2>3 DEF MayCount
<1>7. CASE Accept(p)
  <2>1. /\ stage[p] = "check" /\ stage'[p] = "readCard" /\ at' = at /\ seen' = seen
        /\ interrupted' = interrupted /\ Current(p) \notin seen
    BY <1>1, <1>7 DEF Accept, Goto, After, Skippable, history
  <2>2. Current(p)' = Current(p)
    BY <2>1 DEF Current
  <2>3. p \in MayCount(e, t)' => p \in MayCount(e, t)
    BY <1>4, <2>1, <2>2 DEF MayCount, Attempting, Paid
  <2> QED
    BY <1>2, <1>5, <2>1, <2>3 DEF MayCount
<1>8. CASE Read(p) \/ Write(p) \/ Emit(p)
  <2>1. at' = at /\ seen' = seen /\ interrupted' = interrupted
    BY <1>8 DEF Read, Write, Emit, history
  <2>2. \/ stage[p] = "readCard" /\ stage'[p] = "writeCard"
        \/ stage[p] = "writeCard" /\ stage'[p] = "readMerchant"
        \/ stage[p] = "readMerchant" /\ stage'[p] = "writeMerchant"
        \/ stage[p] = "writeMerchant" /\ stage'[p] = "emit"
        \/ stage[p] = "emit" /\ stage'[p] = "mark"
    BY <1>1, <1>8 DEF Read, Write, Emit, Goto, After
  <2>3. Current(p)' = Current(p)
    BY <2>1 DEF Current
  <2>4. p \in MayCount(e, t)' => p \in MayCount(e, t)
    BY <1>4, <2>1, <2>2, <2>3 DEF MayCount, Attempting, Paid
  <2> QED
    BY <1>2, <1>5, <2>1, <2>4 DEF MayCount
<1>9. CASE Mark(p)
  <2>1. /\ stage[p] = "mark" /\ stage'[p] \in {"check", "return"}
        /\ seen' = seen \cup {Current(p)} /\ interrupted' = interrupted
    BY <1>1, <1>9 DEF Mark, Proceed, Goto, history
  <2>2. p \in MayCount(e, t)' => p \in MayCount(e, t)
    BY <1>4, <2>1 DEF MayCount, Attempting
  <2> QED
    BY <1>2, <1>5, <2>1, <2>2 DEF MayCount
<1>10. CASE CallFails(p) \/ Crash(p)
  <2>1. stage'[p] = "idle" /\ stage[p] # "idle" /\ Interrupt(p)
    BY <1>1, <1>10 DEF CallFails, Crash, GiveUp, Goto
  <2>2. CASE Attempting(p, t)
    <3>1. interrupted'[t] = interrupted[t] + 1
      BY <1>1, <2>1, <2>2 DEF Interrupt, Attempting
    <3>2. p \in MayCount(e, t)' => p \in MayCount(e, t) \/ Paid(p, e)
      BY <1>4, <2>2 DEF MayCount
    <3> QED
      BY <1>2, <1>5, <2>2, <3>1, <3>2 DEF MayCount
  <2>3. CASE ~Attempting(p, t)
    <3>1. interrupted'[t] = interrupted[t]
      BY <1>1, <2>1, <2>3, CurrentEvent DEF Interrupt, Attempting
    <3>2. p \in MayCount(e, t)' => p \in MayCount(e, t)
      BY <1>3, <1>4, <2>1, <2>3 DEF MayCount, Attempting
    <3> QED
      BY <1>2, <1>5, <3>1, <3>2 DEF MayCount
  <2> QED
    BY <2>2, <2>3
<1> QED
  BY <1>6, <1>7, <1>8, <1>9, <1>10 DEF PartitionStep, Step

\* Whatever there is room for, there is room for after a step of a partition.
LEMMA RoomKept ==
  ASSUME TypeOK, TypeOK', NEW p \in Partitions, PartitionStep(p),
         NEW e \in Entities, NEW t \in Txns, NEW n \in Nat, Room(n, e, t)
  PROVE  n + Cardinality(MayCount(e, t)') <= Allowed(t)'
<1> DEFINE M == MayCount(e, t)
<1>1. IsFiniteSet(M) /\ Cardinality(M) \in Nat /\ Copies(t) \in Nat
  BY RoomTypes
<1>2. Copies(t)' = Copies(t) /\ expired' = expired
  BY StepMayCount DEF Copies, Carries, Positions
<1>3. interrupted[t] \in Nat /\ interrupted'[t] \in Nat /\ expired[t] \in Nat
  BY DEF TypeOK
<1>4. PICK k \in Nat : k = Copies(t) * (1 + expired[t])
  BY <1>1, <1>3
<1>5. Allowed(t) = k + interrupted[t] /\ Allowed(t)' = k + interrupted'[t]
  BY <1>2, <1>4 DEF Allowed
<1>6. n + Cardinality(M) <= k + interrupted[t]
  BY <1>5 DEF Room
<1>7. CASE M' \subseteq M /\ interrupted'[t] = interrupted[t]
  <2>1. Cardinality(M') <= Cardinality(M) /\ Cardinality(M') \in Nat
    BY <1>1, <1>7, FS_Subset, FS_CardinalityType
  <2> HIDE DEF M
  <2>2. n + Cardinality(M') <= k + interrupted'[t]
    BY <1>1, <1>3, <1>6, <1>7, <2>1
  <2> QED
    BY <1>5, <2>2 DEF M
<1>8. CASE M' \subseteq M \cup {p} /\ interrupted'[t] = interrupted[t] + 1
  <2>1. /\ IsFiniteSet(M \cup {p})
        /\ Cardinality(M \cup {p}) = IF p \in M THEN Cardinality(M) ELSE Cardinality(M) + 1
    BY <1>1, FS_AddElement
  <2>2. Cardinality(M') <= Cardinality(M \cup {p}) /\ Cardinality(M') \in Nat
    BY <1>8, <2>1, FS_Subset, FS_CardinalityType
  <2> HIDE DEF M
  <2>3. Cardinality(M') <= Cardinality(M) + 1
    BY <1>1, <2>1, <2>2
  <2>4. n + Cardinality(M') <= k + interrupted'[t]
    BY <1>1, <1>3, <1>6, <1>8, <2>2, <2>3
  <2> QED
    BY <1>5, <2>4 DEF M
<1> QED
  BY <1>7, <1>8, StepMayCount

\* An upsert uses up the room of its partition, or that of an attempt that is cut off.
LEMMA RoomForUpsert ==
  ASSUME TypeOK, TypeOK', NEW p \in Partitions, Write(p) \/ CallFails(p), stage[p] \in Writing,
         NEW e \in Entities, NEW t \in Txns, e = Entity(p), t = Current(p),
         NEW n \in Nat, Room(n, e, t)
  PROVE  n + 1 + Cardinality(MayCount(e, t)') <= Allowed(t)'
<1> DEFINE M == MayCount(e, t)
<1>1. IsFiniteSet(M) /\ Cardinality(M) \in Nat /\ Copies(t) \in Nat
  BY RoomTypes
<1>2. PartitionStep(p)
  BY DEF PartitionStep, Step
<1>3. Copies(t)' = Copies(t) /\ expired' = expired
  BY <1>2, StepMayCount DEF Copies, Carries, Positions
<1>4. /\ interrupted[t] \in Nat /\ interrupted'[t] \in Nat /\ expired[t] \in Nat
      /\ stage \in [Partitions -> Stages] /\ interrupted \in [Txns -> Nat]
  BY DEF TypeOK
<1>5. PICK k \in Nat : k = Copies(t) * (1 + expired[t])
  BY <1>1, <1>4
<1>6. Allowed(t) = k + interrupted[t] /\ Allowed(t)' = k + interrupted'[t]
  BY <1>3, <1>5 DEF Allowed
<1>7. n + Cardinality(M) <= k + interrupted[t]
  BY <1>6 DEF Room
<1>8. Carries(p, t) /\ CardOf[t] # MerchantOf[t]
  BY CurrentEvent, ConstantsOK DEF Writing
<1>9. Attempting(p, t) /\ ~Paid(p, e)
  BY <1>8 DEF Attempting, Paid, Writing, Entity
<1>10. p \in M
  BY <1>8, <1>9 DEF MayCount
<1>11. CASE CallFails(p)
  <2>1. interrupted'[t] = interrupted[t] + 1
    BY <1>4, <1>11 DEF CallFails, Interrupt, Writing
  <2>2. M' \subseteq M
    BY <1>2, <1>9, StepMayCount
  <2>3. Cardinality(M') <= Cardinality(M) /\ Cardinality(M') \in Nat
    BY <1>1, <2>2, FS_Subset, FS_CardinalityType
  <2> HIDE DEF M
  <2>4. n + 1 + Cardinality(M') <= k + interrupted'[t]
    BY <1>1, <1>4, <1>7, <2>1, <2>3
  <2> QED
    BY <1>6, <2>4 DEF M
<1>12. CASE Write(p)
  <2>1. /\ \/ stage[p] = "writeCard" /\ stage'[p] = "readMerchant"
           \/ stage[p] = "writeMerchant" /\ stage'[p] = "emit"
        /\ at' = at /\ interrupted' = interrupted
    BY <1>4, <1>12 DEF Write, Goto, After, history
  <2>2. Current(p)' = Current(p) /\ Entity(p) = e
    BY <2>1 DEF Current
  <2>3. Attempting(p, t)' /\ Paid(p, e)'
    BY <2>1, <2>2 DEF Attempting, Paid, Entity
  <2>4. p \notin M'
    BY <2>3 DEF MayCount
  <2>5. M' \subseteq M \ {p}
    BY <1>2, <2>1, <2>4, StepMayCount
  <2>6. IsFiniteSet(M \ {p}) /\ Cardinality(M \ {p}) = Cardinality(M) - 1
    BY <1>1, <1>10, FS_RemoveElement
  <2>7. Cardinality(M') <= Cardinality(M \ {p}) /\ Cardinality(M') \in Nat
    BY <2>5, <2>6, FS_Subset, FS_CardinalityType
  <2> HIDE DEF M
  <2>8. n + 1 + Cardinality(M') <= k + interrupted'[t]
    BY <1>1, <1>4, <1>7, <2>1, <2>6, <2>7
  <2> QED
    BY <1>6, <2>8 DEF M
<1> QED
  BY <1>11, <1>12

\* There is room in every stored document after a step of a partition.
LEMMA StepRoom ==
  ASSUME RoomInv, TypeOK', NEW p \in Partitions, PartitionStep(p),
         NEW e \in Entities, NEW t \in Txns
  PROVE  Room(docs[e][t], e, t)'
<1>1. docs \in [Entities -> [Txns -> Nat]] /\ doc \in [Partitions -> [Txns -> Nat]]
  BY DEF RoomInv, TypeOK
<1>2. docs[e][t] \in Nat /\ doc[p][t] \in Nat
  BY <1>1
<1>3. Room(docs[e][t], e, t) /\ (stage[p] \in Writing => Room(doc[p][t], Entity(p), t))
  BY DEF RoomInv
<1>4. CASE docs'[e][t] = docs[e][t]
  BY <1>2, <1>3, <1>4, RoomKept DEF RoomInv, Room
<1>5. CASE docs'[e][t] # docs[e][t]
  <2>1. stage[p] \in Writing /\ docs' = Upserted(p)
    BY <1>5, StepShape DEF RoomInv
  <2>2. Write(p) \/ CallFails(p)
    BY <1>5, <2>1 DEF PartitionStep, Step, Deliver, Skip, Accept, Read, Emit, Mark, Checkpoint,
                      DecodeFails, Crash, Writing
  <2>3. Entity(p) \in Entities /\ Current(p) \in Txns
    BY <2>1, CurrentEvent DEF RoomInv, Writing
  <2>4. e = Entity(p)
    BY <1>1, <1>5, <2>1, <2>3 DEF Upserted
  <2>5. docs'[e] = [doc[p] EXCEPT ![Current(p)] = @ + 1]
    BY <1>1, <2>1, <2>3, <2>4 DEF Upserted
  <2>6. CASE t = Current(p)
    <3>1. docs'[e][t] = doc[p][t] + 1
      BY <1>1, <2>5, <2>6
    <3>2. doc[p][t] + 1 + Cardinality(MayCount(e, t)') <= Allowed(t)'
      BY <1>2, <1>3, <2>1, <2>2, <2>4, <2>6, RoomForUpsert DEF RoomInv
    <3> QED
      BY <3>1, <3>2 DEF Room
  <2>7. CASE t # Current(p)
    <3>1. docs'[e][t] = doc[p][t]
      BY <1>1, <2>5, <2>7
    <3>2. doc[p][t] + Cardinality(MayCount(e, t)') <= Allowed(t)'
      BY <1>2, <1>3, <2>1, <2>4, RoomKept DEF RoomInv
    <3> QED
      BY <3>1, <3>2 DEF Room
  <2> QED
    BY <2>6, <2>7
<1> QED
  BY <1>4, <1>5

\* And in every document that is about to replace one.
LEMMA StepRoomHeld ==
  ASSUME RoomInv, TypeOK', NEW p \in Partitions, PartitionStep(p),
         NEW q \in Partitions, NEW t \in Txns, stage'[q] \in Writing
  PROVE  Room(doc[q][t], Entity(q), t)'
<1>1. /\ docs \in [Entities -> [Txns -> Nat]] /\ doc \in [Partitions -> [Txns -> Nat]]
      /\ stage \in [Partitions -> Stages]
  BY DEF RoomInv, TypeOK
<1>2. CASE q # p
  <2>1. at'[q] = at[q] /\ stage'[q] = stage[q] /\ doc'[q] = doc[q]
    BY <1>2, StepShape DEF RoomInv
  <2>2. Entity(q)' = Entity(q) /\ Entity(q) \in Entities
    BY <2>1, CurrentEvent DEF RoomInv, Writing, Entity, Current
  <2>3. doc[q][t] \in Nat /\ Room(doc[q][t], Entity(q), t)
    BY <1>1, <2>1 DEF RoomInv
  <2>4. doc[q][t] + Cardinality(MayCount(Entity(q), t)') <= Allowed(t)'
    BY <2>2, <2>3, RoomKept DEF RoomInv
  <2> QED
    BY <2>1, <2>2, <2>4 DEF Room, MayCount
<1>3. CASE q = p
  <2>1. Read(p)
    BY <1>1, <1>3 DEF PartitionStep, Step, Deliver, Skip, Accept, Read, Write, Emit, Mark,
                      Checkpoint, DecodeFails, CallFails, Crash, Proceed, GiveUp, Goto, After,
                      Writing
  <2>2. /\ \/ stage[p] = "readCard" /\ stage'[p] = "writeCard"
           \/ stage[p] = "readMerchant" /\ stage'[p] = "writeMerchant"
        /\ at' = at /\ docs' = docs /\ doc'[p] = docs[Entity(p)]
    BY <1>1, <2>1 DEF Read, Goto, After
  <2>3. Entity(p)' = Entity(p) /\ Entity(p) \in Entities
    BY <2>2, CurrentEvent DEF RoomInv, Entity, Current
  <2>4. docs[Entity(p)][t] \in Nat /\ Room(docs[Entity(p)][t], Entity(p), t)
    BY <1>1, <2>3 DEF RoomInv
  <2>5. docs[Entity(p)][t] + Cardinality(MayCount(Entity(p), t)') <= Allowed(t)'
    BY <2>3, <2>4, RoomKept DEF RoomInv
  <2> QED
    BY <1>3, <2>2, <2>3, <2>5 DEF Room, MayCount
<1> QED
  BY <1>2, <1>3

\* The expiry of a dedup document makes as much room as it lets partitions count again.
LEMMA ExpireRoom ==
  ASSUME TypeOK, NEW u \in Txns, Expire(u), NEW e, NEW t \in Txns, NEW n \in Nat,
         Room(n, e, t)
  PROVE  n + Cardinality(MayCount(e, t)') <= Allowed(t)'
<1> DEFINE C == {p \in Partitions : Carries(p, t)}
           M == MayCount(e, t)
<1>1. IsFiniteSet(M) /\ Cardinality(M) \in Nat /\ Copies(t) \in Nat
  BY RoomTypes
<1>2. /\ at' = at /\ stage' = stage /\ interrupted' = interrupted
      /\ seen' = seen \ {u} /\ expired' = [expired EXCEPT ![u] = @ + 1]
  BY DEF Expire, invocation
<1>3. expired[t] \in Nat /\ interrupted[t] \in Nat /\ expired \in [Txns -> Nat]
  BY DEF TypeOK
<1>4. Copies(t)' = Copies(t)
  BY DEF Copies, Carries, Positions
<1>5. \A p : Attempting(p, t)' <=> Attempting(p, t)
  BY <1>2 DEF Attempting, Current
<1>6. \A p : Paid(p, e)' <=> Paid(p, e)
  BY <1>2 DEF Paid, Current
<1>7. CASE t # u
  <2>1. M' = M
    BY <1>2, <1>5, <1>6, <1>7 DEF MayCount, Carries, Positions
  <2>2. Allowed(t)' = Allowed(t)
    BY <1>2, <1>3, <1>4, <1>7 DEF Allowed
  <2> QED
    BY <2>1, <2>2 DEF Room
<1>8. CASE t = u
  <2>1. IsFiniteSet(C) /\ Cardinality(C) = Copies(t)
    BY ConstantsOK, FS_Subset DEF Copies
  <2>2. M' \subseteq C
    BY DEF MayCount, Carries, Positions
  <2>3. Cardinality(M') <= Copies(t) /\ Cardinality(M') \in Nat
    BY <2>1, <2>2, FS_Subset, FS_CardinalityType
  <2>4. expired'[t] = expired[t] + 1
    BY <1>2, <1>3, <1>8
  <2>5. \A x, y \in Nat : x * (1 + (y + 1)) = x * (1 + y) + x
    OBVIOUS
  <2>6. PICK k \in Nat : k = Copies(t) * (1 + expired[t])
    BY <1>1, <1>3
  <2>7. Allowed(t) = k + interrupted[t] /\ Allowed(t)' = k + Copies(t) + interrupted[t]
    BY <1>1, <1>2, <1>3, <1>4, <2>4, <2>5, <2>6 DEF Allowed
  <2>8. n + Cardinality(M) <= k + interrupted[t]
    BY <2>7 DEF Room
  <2> HIDE DEF M
  <2>9. n + Cardinality(M') <= k + Copies(t) + interrupted[t]
    BY <1>1, <1>3, <2>3, <2>8
  <2> QED
    BY <2>7, <2>9 DEF M
<1> QED
  BY <1>7, <1>8

\* A transaction is counted in a document no more often than once for each partition that
\* carries it, once more for each after each expiry of its dedup document, and once for
\* each attempt at it that was cut off: whatever the order of the partitions' reads and
\* writes, the crashes and the expiries.
THEOREM RepeatsHaveACause == Spec => []OvercountHasACause
<1>1. Init => RoomInv
  <2> SUFFICES ASSUME Init PROVE RoomInv
    OBVIOUS
  <2>1. TypeOK
    BY InitType
  <2>2. ASSUME NEW e \in Entities, NEW t \in Txns PROVE Room(docs[e][t], e, t)
    <3>1. docs[e][t] = 0 /\ expired[t] = 0 /\ interrupted[t] = 0
      BY DEF Init, Empty
    <3>2. Cardinality(MayCount(e, t)) \in 0..Copies(t) /\ Copies(t) \in Nat
      BY <2>1, RoomTypes
    <3>3. Allowed(t) = Copies(t)
      BY <3>1, <3>2 DEF Allowed
    <3> QED
      BY <3>1, <3>2, <3>3 DEF Room
  <2> QED
    BY <2>1, <2>2 DEF Init, RoomInv, Writing
<1>2. ASSUME RoomInv, NEW p \in Partitions, PartitionStep(p) PROVE RoomInv'
  <2>1. TypeOK'
    BY <1>2, StepType, FailureType DEF RoomInv, PartitionStep
  <2> QED
    BY <1>2, <2>1, StepRoom, StepRoomHeld DEF RoomInv
<1>3. ASSUME RoomInv, NEW u \in Txns, Expire(u) PROVE RoomInv'
  <2>1. TypeOK'
    BY <1>3, ExpireType DEF RoomInv
  <2>2. docs' = docs /\ doc' = doc /\ stage' = stage /\ at' = at
    BY <1>3 DEF Expire, invocation
  <2>3. ASSUME NEW e \in Entities, NEW t \in Txns PROVE Room(docs[e][t], e, t)'
    <3>1. docs[e][t] \in Nat /\ Room(docs[e][t], e, t)
      BY <1>3 DEF RoomInv, TypeOK
    <3>2. docs[e][t] + Cardinality(MayCount(e, t)') <= Allowed(t)'
      BY <1>3, <3>1, ExpireRoom DEF RoomInv
    <3> QED
      BY <2>2, <3>2 DEF Room
  <2>4. ASSUME NEW p \in Partitions, NEW t \in Txns, stage'[p] \in Writing
        PROVE  Room(doc[p][t], Entity(p), t)'
    <3>1. doc[p][t] \in Nat /\ Room(doc[p][t], Entity(p), t)
      BY <1>3, <2>2, <2>4 DEF RoomInv, TypeOK
    <3>2. Entity(p)' = Entity(p)
      BY <2>2 DEF Entity, Current
    <3>3. doc[p][t] + Cardinality(MayCount(Entity(p), t)') <= Allowed(t)'
      BY <1>3, <3>1, <3>2, ExpireRoom DEF RoomInv
    <3> QED
      BY <2>2, <3>2, <3>3 DEF Room, MayCount
  <2> QED
    BY <2>1, <2>3, <2>4 DEF RoomInv
<1>4. RoomInv /\ UNCHANGED vars => RoomInv'
  <2> SUFFICES ASSUME RoomInv, UNCHANGED vars PROVE RoomInv'
    OBVIOUS
  <2>1. TypeOK'
    BY StutterType DEF RoomInv
  <2>2. /\ docs' = docs /\ doc' = doc /\ stage' = stage /\ at' = at /\ seen' = seen
        /\ expired' = expired /\ interrupted' = interrupted
    BY DEF vars, invocation, history
  <2>3. \A p : Current(p)' = Current(p) /\ Entity(p)' = Entity(p)
    BY <2>2 DEF Current, Entity
  <2>4. \A t : Allowed(t)' = Allowed(t)
    BY <2>2 DEF Allowed, Copies, Carries, Positions
  <2>5. \A e, t : MayCount(e, t)' = MayCount(e, t)
    BY <2>2, <2>3 DEF MayCount, Attempting, Paid, Carries, Positions
  <2>6. ASSUME NEW e \in Entities, NEW t \in Txns PROVE Room(docs[e][t], e, t)'
    BY <2>2, <2>4, <2>5 DEF RoomInv, Room
  <2>7. ASSUME NEW p \in Partitions, NEW t \in Txns, stage'[p] \in Writing
        PROVE  Room(doc[p][t], Entity(p), t)'
    <3>1. Room(doc[p][t], Entity(p), t)
      BY <2>2, <2>7 DEF RoomInv
    <3>2. Entity(p)' = Entity(p) /\ MayCount(Entity(p), t)' = MayCount(Entity(p), t)
      BY <2>3, <2>5
    <3> QED
      BY <2>2, <2>4, <3>1, <3>2 DEF Room
  <2> QED
    BY <2>1, <2>6, <2>7 DEF RoomInv
<1>5. RoomInv /\ [Next]_vars => RoomInv'
  BY <1>2, <1>3, <1>4 DEF Next, PartitionStep
<1>6. RoomInv => OvercountHasACause
  <2> SUFFICES ASSUME RoomInv, NEW e \in Entities, NEW t \in Txns
               PROVE  docs[e][t] <= Allowed(t)
    BY DEF OvercountHasACause, Allowed
  <2>1. docs[e][t] \in Nat /\ Room(docs[e][t], e, t)
    BY DEF RoomInv, TypeOK
  <2>2. TypeOK
    BY DEF RoomInv
  <2>3. Cardinality(MayCount(e, t)) \in 0..Copies(t) /\ Copies(t) \in Nat /\ Allowed(t) \in Nat
    BY <2>2, RoomTypes
  <2> QED
    BY <2>1, <2>3 DEF Room
<1> QED
  BY <1>1, <1>5, <1>6, PTL DEF Spec
=============================================================================
