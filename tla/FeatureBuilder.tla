--------------------------- MODULE FeatureBuilder ---------------------------
(***************************************************************************)
(* The feature builder (services/feature-builder): Event Hubs delivers     *)
(* transaction events in batches, one invocation per partition at a time,  *)
(* and every event is folded into the document of its card and of its      *)
(* merchant (pipeline.py over storage.py).                                 *)
(*                                                                         *)
(* A document is read, folded and upserted without an etag, an event is    *)
(* marked as seen only after everything else, and the host may die between *)
(* any two calls to Cosmos.  A document is the bag of the transactions     *)
(* counted in it; what a window makes of them is in SlidingWindow.         *)
(***************************************************************************)
EXTENDS Integers, Sequences, FiniteSets

CONSTANTS
  Partitions,    \* partitions of the event hub txn.events
  Txns,          \* transaction ids
  Entities,      \* keys of the features container: cards and merchants
  Stream,        \* Stream[p]: the transaction events in partition p
  CardOf,        \* the card of a transaction
  MerchantOf,    \* the merchant of a transaction
  Malformed,     \* events without the fields parse_event needs
  Undecodable,   \* events whose body is no JSON
  MaxFailures,   \* bound: crashes of the host and failed calls to Cosmos
  MaxExpiries    \* bound: dedup documents that expire (after an hour)

ASSUME ConstantsOK ==
  /\ IsFiniteSet(Partitions)
  /\ Stream \in [Partitions -> Seq(Txns)]
  /\ CardOf \in [Txns -> Entities]
  /\ MerchantOf \in [Txns -> Entities]
  /\ \A t, u \in Txns : CardOf[t] # MerchantOf[u]
  /\ Malformed \subseteq Txns
  /\ Undecodable \subseteq Txns
  /\ MaxFailures \in Nat
  /\ MaxExpiries \in Nat

VARIABLES
  checkpoint,   \* checkpoint[p]: events of p the host will not deliver again
  batchEnd,     \* batchEnd[p]: position of the last event of the current batch
  at,           \* at[p]: position of the event being processed
  stage,        \* stage[p]: the call process_event is about to make for it
  doc,          \* doc[p]: the document _fold_one has read and not yet written back
  docs,         \* features container: docs[e][t] is how often e counts t
  seen,         \* dedup container
  emitted,      \* transactions for which a feature event was sent
  failures,     \* how many failures happened
  marked,       \* history: every transaction ever marked as seen
  dropped,      \* history: positions the host skipped after a failed batch
  interrupted,  \* history: attempts at a transaction cut off after the dedup check
  expired       \* history: how often the dedup document of a transaction expired

invocation == <<checkpoint, batchEnd, at, stage>>
history == <<dropped, interrupted, expired>>
vars == <<invocation, doc, docs, seen, emitted, failures, marked, history>>

Stages == {"idle", "check", "readCard", "writeCard", "readMerchant", "writeMerchant",
           "emit", "mark", "return"}

Empty == [t \in Txns |-> 0]

Current(p) == Stream[p][at[p]]

\* The document the current call to Cosmos is about.
Entity(p) ==
  IF stage[p] \in {"readCard", "writeCard"} THEN CardOf[Current(p)] ELSE MerchantOf[Current(p)]

Init ==
  /\ checkpoint = [p \in Partitions |-> 0]
  /\ batchEnd = [p \in Partitions |-> 0]
  /\ at = [p \in Partitions |-> 0]
  /\ stage = [p \in Partitions |-> "idle"]
  /\ doc = [p \in Partitions |-> Empty]
  /\ docs = [e \in Entities |-> Empty]
  /\ seen = {}
  /\ emitted = {}
  /\ failures = 0
  /\ marked = {}
  /\ dropped = {}
  /\ interrupted = Empty
  /\ expired = Empty

Goto(p, s) == stage' = [stage EXCEPT ![p] = s]

\* Mutant of Deliver: the batch is checkpointed when it is handed out.
DeliverAndCheckpoint(p) ==
  /\ stage[p] = "idle"
  /\ \E n \in checkpoint[p] + 1 .. Len(Stream[p]) :
       batchEnd' = [batchEnd EXCEPT ![p] = n] /\ checkpoint' = [checkpoint EXCEPT ![p] = n]
  /\ at' = [at EXCEPT ![p] = checkpoint[p] + 1]
  /\ Goto(p, "check")
  /\ UNCHANGED <<doc, docs, seen, emitted, failures, marked, history>>

\* The host invokes feature_builder with the next events of the partition.
Deliver(p) ==
  /\ stage[p] = "idle"
  /\ \E n \in checkpoint[p] + 1 .. Len(Stream[p]) : batchEnd' = [batchEnd EXCEPT ![p] = n]
  /\ at' = [at EXCEPT ![p] = checkpoint[p] + 1]
  /\ Goto(p, "check")
  /\ UNCHANGED <<checkpoint, doc, docs, seen, emitted, failures, marked, history>>

\* Mutant of Proceed: the batch is left one event too late.
ProceedTooFar(p) ==
  IF at[p] <= batchEnd[p]
  THEN at' = [at EXCEPT ![p] = @ + 1] /\ Goto(p, "check")
  ELSE UNCHANGED at /\ Goto(p, "return")

\* process_batch: process_event returned, the next event of the batch follows.
Proceed(p) ==
  IF at[p] < batchEnd[p]
  THEN at' = [at EXCEPT ![p] = @ + 1] /\ Goto(p, "check")
  ELSE UNCHANGED at /\ Goto(p, "return")

\* Mutant of Skippable: the dedup container is not asked.
SkippableIfMalformed(t) == t \in Malformed

\* An event that parse_event rejects, or that was seen before.
Skippable(t) == t \in Malformed \/ t \in seen

Skip(p) ==
  /\ stage[p] = "check"
  /\ Current(p) \notin Undecodable
  /\ Skippable(Current(p))
  /\ Proceed(p)
  /\ UNCHANGED <<checkpoint, batchEnd, doc, docs, seen, emitted, failures, marked, history>>

\* Mutant of After: the event is marked as seen before the merchant is folded.
AfterMarkingEarly(s) ==
  CASE s = "check" -> "readCard"
    [] s = "readCard" -> "writeCard"
    [] s = "writeCard" -> "mark"
    [] s = "readMerchant" -> "writeMerchant"
    [] s = "writeMerchant" -> "emit"
    [] OTHER -> "mark"

\* The order of the calls in process_event.
After(s) ==
  CASE s = "check" -> "readCard"
    [] s = "readCard" -> "writeCard"
    [] s = "writeCard" -> "readMerchant"
    [] s = "readMerchant" -> "writeMerchant"
    [] s = "writeMerchant" -> "emit"
    [] OTHER -> "mark"

Accept(p) ==
  /\ stage[p] = "check"
  /\ Current(p) \notin Undecodable
  /\ ~Skippable(Current(p))
  /\ Goto(p, After("check"))
  /\ UNCHANGED <<checkpoint, batchEnd, at, doc, docs, seen, emitted, failures, marked, history>>

\* _fold_one: get_state, an empty WindowState when there is no document.
Read(p) ==
  /\ stage[p] \in {"readCard", "readMerchant"}
  /\ doc' = [doc EXCEPT ![p] = docs[Entity(p)]]
  /\ Goto(p, After(stage[p]))
  /\ UNCHANGED <<checkpoint, batchEnd, at, docs, seen, emitted, failures, marked, history>>

\* upsert_state replaces the whole document by the one read, with the event folded in.
Upserted(p) == [docs EXCEPT ![Entity(p)] = [doc[p] EXCEPT ![Current(p)] = @ + 1]]

Write(p) ==
  /\ stage[p] \in {"writeCard", "writeMerchant"}
  /\ docs' = Upserted(p)
  /\ doc' = [doc EXCEPT ![p] = Empty]
  /\ Goto(p, After(stage[p]))
  /\ UNCHANGED <<checkpoint, batchEnd, at, seen, emitted, failures, marked, history>>

\* The emitter swallows a failure to send.
Emit(p) ==
  /\ stage[p] = "emit"
  /\ emitted' \in {emitted, emitted \cup {Current(p)}}
  /\ Goto(p, After("emit"))
  /\ UNCHANGED <<checkpoint, batchEnd, at, doc, docs, seen, failures, marked, history>>

Mark(p) ==
  /\ stage[p] = "mark"
  /\ seen' = seen \cup {Current(p)}
  /\ marked' = marked \cup {Current(p)}
  /\ Proceed(p)
  /\ UNCHANGED <<checkpoint, batchEnd, doc, docs, emitted, failures, history>>

\* The function has returned and the host writes its checkpoint.
Checkpoint(p) ==
  /\ stage[p] = "return"
  /\ checkpoint' = [checkpoint EXCEPT ![p] = batchEnd[p]]
  /\ Goto(p, "idle")
  /\ UNCHANGED <<batchEnd, at, doc, docs, seen, emitted, failures, marked, history>>

-----------------------------------------------------------------------------
(* Failures.                                                               *)

\* The attempt at the current event ends here, and what it has read is lost.
Interrupt(p) ==
  /\ interrupted' = IF stage[p] \in {"check", "return"} THEN interrupted
                    ELSE [interrupted EXCEPT ![Current(p)] = @ + 1]
  /\ doc' = [doc EXCEPT ![p] = Empty]

\* Mutant of GiveUp: the host delivers a failed batch again.
GiveUpAndRetry(p) ==
  /\ UNCHANGED <<checkpoint, dropped>>
  /\ Goto(p, "idle")

\* feature_builder raises.  host.json has no retry policy, so the host goes on behind the
\* batch.
GiveUp(p) ==
  /\ checkpoint' = [checkpoint EXCEPT ![p] = batchEnd[p]]
  /\ dropped' = dropped \cup {<<p, i>> : i \in at[p]..batchEnd[p]}
  /\ Goto(p, "idle")

\* decode_event_body raises on a body that is no JSON.
DecodeFails(p) ==
  /\ stage[p] = "check"
  /\ Current(p) \in Undecodable
  /\ GiveUp(p)
  /\ UNCHANGED <<batchEnd, at, doc, docs, seen, emitted, failures, marked, interrupted, expired>>

\* A call to Cosmos raises; an upsert may have reached the container all the same.
CallFails(p) ==
  /\ failures < MaxFailures
  /\ failures' = failures + 1
  /\ \/ /\ stage[p] \in {"check", "readCard", "readMerchant"}
        /\ Current(p) \notin Undecodable \cup Malformed
        /\ UNCHANGED <<docs, seen, marked>>
     \/ /\ stage[p] \in {"writeCard", "writeMerchant"}
        /\ docs' \in {docs, Upserted(p)}
        /\ UNCHANGED <<seen, marked>>
     \/ /\ stage[p] = "mark"
        /\ \/ seen' = seen \cup {Current(p)} /\ marked' = marked \cup {Current(p)}
           \/ UNCHANGED <<seen, marked>>
        /\ UNCHANGED docs
  /\ GiveUp(p)
  /\ Interrupt(p)
  /\ UNCHANGED <<batchEnd, at, emitted, expired>>

\* The host dies, or the function runs into its timeout: the batch is delivered again.
Crash(p) ==
  /\ failures < MaxFailures
  /\ failures' = failures + 1
  /\ stage[p] # "idle"
  /\ Goto(p, "idle")
  /\ Interrupt(p)
  /\ UNCHANGED <<checkpoint, batchEnd, at, docs, seen, emitted, marked, dropped, expired>>

Expiries == {t \in Txns : expired[t] > 0}

\* Cosmos deletes a dedup document after its ttl.
Expire(t) ==
  /\ t \in seen
  /\ Cardinality(Expiries) < MaxExpiries /\ t \notin Expiries
  /\ seen' = seen \ {t}
  /\ expired' = [expired EXCEPT ![t] = @ + 1]
  /\ UNCHANGED <<invocation, doc, docs, emitted, failures, marked, dropped, interrupted>>

Step(p) ==
  \/ Deliver(p)
  \/ Skip(p)
  \/ Accept(p)
  \/ Read(p)
  \/ Write(p)
  \/ Emit(p)
  \/ Mark(p)
  \/ Checkpoint(p)
  \/ DecodeFails(p)

Next ==
  \/ \E p \in Partitions : Step(p) \/ CallFails(p) \/ Crash(p)
  \/ \E t \in Txns : Expire(t)

\* The host keeps delivering, and a coroutine that can go on does.
Spec == Init /\ [][Next]_vars /\ \A p \in Partitions : WF_vars(Step(p))
-----------------------------------------------------------------------------
\* The types of the variables.  While a batch is processed the event is one of it.
TypeOK ==
  /\ checkpoint \in [Partitions -> Nat]
  /\ batchEnd \in [Partitions -> Nat]
  /\ at \in [Partitions -> Nat]
  /\ stage \in [Partitions -> Stages]
  /\ doc \in [Partitions -> [Txns -> Nat]]
  /\ docs \in [Entities -> [Txns -> Nat]]
  /\ seen \subseteq marked
  /\ marked \subseteq Txns
  /\ emitted \subseteq Txns
  /\ failures \in 0..MaxFailures
  /\ dropped \subseteq Partitions \X Nat
  /\ interrupted \in [Txns -> Nat]
  /\ expired \in [Txns -> Nat]
  /\ \A p \in Partitions :
       /\ checkpoint[p] <= batchEnd[p] /\ batchEnd[p] <= Len(Stream[p])
       /\ stage[p] # "idle" => at[p] \in checkpoint[p] + 1 .. batchEnd[p]

Positions(p) == 1..Len(Stream[p])

Carries(p, t) == \E i \in Positions(p) : Stream[p][i] = t

Concerns(e, t) == e \in {CardOf[t], MerchantOf[t]}

\* All events about the entity are in one partition, so its document has one writer.
Exclusive(e) ==
  \A p, q \in Partitions, t, u \in Txns :
    Concerns(e, t) /\ Carries(p, t) /\ Concerns(e, u) /\ Carries(q, u) => p = q

\* What was emitted or marked as seen is counted in every document it belongs to, through
\* all crashes and redeliveries, unless another partition may overwrite the document.
PublishedIsCounted ==
  \A t \in marked \cup emitted, e \in Entities :
    Concerns(e, t) /\ Exclusive(e) => docs[e][t] > 0

Copies(t) == Cardinality({p \in Partitions : Carries(p, t)})

\* A transaction is counted twice only for a reason: it is in two partitions, an attempt
\* at it was cut off, or its dedup document expired; and not more often than that.  After
\* each expiry every partition that carries it may count it once more.
OvercountHasACause ==
  \A e \in Entities, t \in Txns :
    docs[e][t] <= Copies(t) * (1 + expired[t]) + interrupted[t]

\* The host never passes an event that was neither completed, nor malformed, nor in a batch
\* that raised: a crash loses nothing.
NoSilentLoss ==
  \A p \in Partitions : \A i \in 1..checkpoint[p] :
    Stream[p][i] \in marked \cup Malformed \/ <<p, i>> \in dropped

Consumed == \A p \in Partitions : checkpoint[p] = Len(Stream[p])

\* services/feature-builder/README.md:14-15 (idempotency by the dedup container) and
\* tests/test_features.py:177 (the state reflects only the first fold): delivering a
\* transaction again does not count it again.
CountedOnce == \A e \in Entities, t \in Txns : docs[e][t] <= 1
=============================================================================
