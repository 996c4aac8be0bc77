----------------------------- MODULE LiveEvents -----------------------------
(***************************************************************************)
(* The live feed of a case (agentic-orchestrator/app/api.py): replays of   *)
(* the case publish the events of their workflow to the queues of the      *)
(* websocket clients that watch it, and store the case.                    *)
(*                                                                         *)
(* All coroutines share one event loop and are interrupted only where they *)
(* wait: a publisher at a full queue, a client at an empty one or while it *)
(* sends, a replay while an agent runs or the case is stored.              *)
(***************************************************************************)
EXTENDS Integers, SequencesExt

CONSTANTS
  Replays,      \* requests to replay the case
  Clients,      \* websocket connections to the case
  Length,       \* events of a replay: the first is "start", the last is "end"
  SnapshotAt,   \* the event before which the case manager stores the case
  Capacity      \* maxsize of a queue

\* A planner of MAX_STEPS = 20 steps sends at most 42 events; the code's queues hold 64.
ASSUME LengthsOK ==
  /\ Length \in Nat /\ Capacity \in Nat
  /\ SnapshotAt \in 2..Length
  /\ Length <= Capacity

VARIABLES
  stage,         \* stage[r]: where the replay is
  pos,           \* pos[r]: the event it has published last, or is publishing
  pending,       \* pending[r]: the clients publish has still to serve
  subscribers,   \* live_subscribers of the case
  reader,        \* reader[c]: where the handler of the connection is
  queue,         \* queue[c]: the queue of the connection
  held,          \* held[c]: the event being sent to the client, in a sequence
  received,      \* history: received[c][r] is what a listening client got of replay r
  storedCase,    \* the stored case: by which replay, and whether at its end
  since          \* history: since[c][r] is pos[r] when a listening c subscribed

replayVars == <<stage, pos, pending, storedCase>>
clientVars == <<subscribers, reader, held, received, since>>
liveVars == <<replayVars, clientVars, queue>>

Stages == {"new", "agent", "blocked", "upsert", "answered", "failed"}

Original == [by |-> "alert", final |-> TRUE]

LiveInit ==
  /\ stage = [r \in Replays |-> "new"]
  /\ pos = [r \in Replays |-> 0]
  /\ pending = [r \in Replays |-> <<>>]
  /\ subscribers = <<>>
  /\ reader = [c \in Clients |-> "off"]
  /\ queue = [c \in Clients |-> <<>>]
  /\ held = [c \in Clients |-> <<>>]
  /\ received = [c \in Clients |-> [r \in Replays |-> <<>>]]
  /\ storedCase = Original
  /\ since = [c \in Clients |-> [r \in Replays |-> 0]]

Elements(s) == {s[i] : i \in 1..Len(s)}

\* Mutant of Full: a queue takes one event too many.
FullLate(c) == Len(queue[c]) > Capacity

\* Mutant of Full: a queue is taken for full when one place is left.
FullEarly(c) == Len(queue[c]) + 1 >= Capacity

Full(c) == Len(queue[c]) >= Capacity

\* Mutant of Publish: an event for a full queue is dropped.
PublishNowait(r, clients, n) ==
  /\ queue' = [c \in Clients |-> IF c \in Elements(clients) /\ ~Full(c)
                                 THEN Append(queue[c], [replay |-> r, n |-> n]) ELSE queue[c]]
  /\ UNCHANGED pending
  /\ stage' = [stage EXCEPT ![r] = IF n = Length THEN "upsert" ELSE "agent"]

\* publish: put the event into one queue after the other.  A put does not wait unless the
\* queue is full, so that all clients before the first with a full queue are reached.
Publish(r, clients, n) ==
  \E reach \in 0..Len(clients) :
    /\ \A i \in 1..reach : ~Full(clients[i])
    /\ reach < Len(clients) => Full(clients[reach + 1])
    /\ queue' = [c \in Clients |-> IF \E i \in 1..reach : clients[i] = c
                                   THEN Append(queue[c], [replay |-> r, n |-> n]) ELSE queue[c]]
    /\ pending' = [pending EXCEPT ![r] = SubSeq(clients, reach + 1, Len(clients))]
    /\ stage' = [stage EXCEPT ![r] = IF reach < Len(clients) THEN "blocked"
                                     ELSE IF n = Length THEN "upsert" ELSE "agent"]

-----------------------------------------------------------------------------
(* A replay.                                                               *)

\* An agent has run, and the next event goes to a copy of the list of subscribers.  The
\* agent that is the case manager has stored the case as it is.
NextEvent(r) ==
  /\ stage[r] \in {"new", "agent"}
  /\ pos' = [pos EXCEPT ![r] = @ + 1]
  /\ storedCase' = IF pos[r] + 1 = SnapshotAt THEN [by |-> r, final |-> FALSE] ELSE storedCase
  /\ Publish(r, subscribers, pos[r] + 1)
  /\ UNCHANGED clientVars

\* Mutant of Resume: the publisher waits until the client has got everything.
ResumeJoined(r) ==
  /\ stage[r] = "blocked"
  /\ queue[Head(pending[r])] = <<>>
  /\ Publish(r, pending[r], pos[r])
  /\ UNCHANGED <<pos, storedCase, clientVars>>

\* A blocked put goes on once there is room.
Resume(r) ==
  /\ stage[r] = "blocked"
  /\ ~Full(Head(pending[r]))
  /\ Publish(r, pending[r], pos[r])
  /\ UNCHANGED <<pos, storedCase, clientVars>>

\* Mutant of Upsert: the last state of the case is not stored.
UpsertNot(r) == UNCHANGED storedCase

Upsert(r) == storedCase' = [by |-> r, final |-> TRUE]

\* The case is stored and the request answered, unless the store raises.
AnswerReplay(r) ==
  /\ stage[r] = "upsert"
  /\ \/ Upsert(r) /\ stage' = [stage EXCEPT ![r] = "answered"]
     \/ UNCHANGED storedCase /\ stage' = [stage EXCEPT ![r] = "failed"]
  /\ UNCHANGED <<pos, pending, clientVars, queue>>

-----------------------------------------------------------------------------
(* A connection.                                                           *)

Subscribe(c) ==
  /\ reader[c] = "off"
  /\ reader' = [reader EXCEPT ![c] = "waiting"]
  /\ subscribers' = Append(subscribers, c)
  /\ since' = [since EXCEPT ![c] = pos]
  /\ UNCHANGED <<replayVars, queue, held, received>>

Get(c) ==
  /\ reader[c] = "waiting"
  /\ queue[c] # <<>>
  /\ reader' = [reader EXCEPT ![c] = "sending"]
  /\ held' = [held EXCEPT ![c] = <<Head(queue[c])>>]
  /\ queue' = [queue EXCEPT ![c] = Tail(@)]
  /\ UNCHANGED <<replayVars, subscribers, received, since>>

\* The place of a client in the list.
Place(c) == CHOOSE i \in 1..Len(subscribers) : subscribers[i] = c

\* The handler ends: its queue leaves the list, with what is in it.
Unsubscribe(c) ==
  /\ reader' = [reader EXCEPT ![c] = "gone"]
  /\ received' = [received EXCEPT ![c] = [r \in Replays |-> <<>>]]
  /\ since' = [since EXCEPT ![c] = [r \in Replays |-> 0]]
  /\ subscribers' = RemoveAt(subscribers, Place(c))

Send(c) ==
  /\ reader[c] = "sending"
  /\ held' = [held EXCEPT ![c] = <<>>]
  /\ \/ held[c][1].n = Length /\ Unsubscribe(c)
     \/ /\ held[c][1].n # Length
        /\ received' = [received EXCEPT ![c][held[c][1].replay] = @ \o held[c]]
        /\ reader' = [reader EXCEPT ![c] = "waiting"]
        /\ UNCHANGED <<subscribers, since>>
  /\ UNCHANGED <<replayVars, queue>>

\* That the client has gone is noticed only when something is sent to it.
SendFails(c) ==
  /\ reader[c] = "sending"
  /\ held' = [held EXCEPT ![c] = <<>>]
  /\ Unsubscribe(c)
  /\ UNCHANGED <<replayVars, queue>>

LiveNext ==
  \/ \E r \in Replays : NextEvent(r) \/ Resume(r) \/ AnswerReplay(r)
  \/ \E c \in Clients : Subscribe(c) \/ Get(c) \/ Send(c) \/ SendFails(c)

\* What goes on by itself: of a replay that has begun, and of a connection.
GoOn(r) == (stage[r] = "agent" /\ NextEvent(r)) \/ Resume(r) \/ AnswerReplay(r)
Serve(c) == Get(c) \/ Send(c) \/ SendFails(c)

\* Agents end, the store answers, and every send ends, by arriving or by failing; nothing
\* makes a request arrive or a client connect.
LiveSpec ==
  /\ LiveInit /\ [][LiveNext]_liveVars
  /\ \A r \in Replays : WF_liveVars(GoOn(r))
  /\ \A c \in Clients : WF_liveVars(Serve(c))
-----------------------------------------------------------------------------
Events == [replay : Replays, n : 1..Length]

\* The types of the variables; a publisher is blocked exactly while clients are pending,
\* and no queue is longer than its capacity.
LiveTypeOK ==
  /\ stage \in [Replays -> Stages]
  /\ pos \in [Replays -> 0..Length]
  /\ pending \in [Replays -> Seq(Clients)]
  /\ subscribers \in Seq(Clients)
  /\ reader \in [Clients -> {"off", "waiting", "sending", "gone"}]
  /\ queue \in [Clients -> Seq(Events)]
  /\ held \in [Clients -> Seq(Events)]
  /\ received \in [Clients -> [Replays -> Seq(Events)]]
  /\ storedCase \in [by : Replays, final : BOOLEAN] \cup {Original}
  /\ since \in [Clients -> [Replays -> 0..Length]]
  /\ \A r \in Replays : stage[r] = "blocked" <=> pending[r] # <<>>
  /\ \A c \in Clients : Len(queue[c]) <= Capacity
  /\ \A c \in Clients : (reader[c] = "sending" <=> Len(held[c]) = 1) /\ Len(held[c]) <= 1

\* The events on their way to a client.
Coming(c) == held[c] \o queue[c]

\* Those of one replay, by their places.
Of(events, r) == {i \in 1..Len(events) : events[i].replay = r}

Numbers(events, r) == {events[i].n : i \in Of(events, r)}

Listening(c) == reader[c] \in {"waiting", "sending"}

\* The last event of a replay that has been put into the queue of a client in the list.
Awaited(c, r) == IF c \in Elements(pending[r]) THEN pos[r] - 1 ELSE pos[r]

\* The events of one replay are in order, none is there twice, and none is ahead of the replay.
InOrder(events, r, last) ==
  \A i \in Of(events, r) :
    events[i].n <= last /\ \A j \in Of(events, r) : i < j => events[i].n < events[j].n

\* A client that listens gets of every replay each event since it subscribed, once and in
\* order, however the replays and the other clients interleave: it got the first ones, and
\* exactly the others are on their way.
FeedIsExact ==
  \A c \in Clients, r \in Replays : Listening(c) =>
    LET got == received[c][r]
    IN  /\ \A i \in 1..Len(got) : got[i] = [replay |-> r, n |-> since[c][r] + i]
        /\ Numbers(Coming(c), r) = since[c][r] + Len(got) + 1 .. Awaited(c, r)
        /\ InOrder(Coming(c), r, Awaited(c, r))

\* A replay waits for a client only where another replay crowds the queue: by itself, even
\* with a client that reads nothing, a replay never blocks, as a whole workflow fits.
BlockedOnlyByCrowding ==
  \A r \in Replays : stage[r] = "blocked" /\ Full(Head(pending[r])) =>
    \E e \in Elements(queue[Head(pending[r])]) : e.replay # r

\* When no replay is under way and none has failed, the stored case is a finished one, not
\* a snapshot of the case manager that another replay has left behind.
QuietCaseIsFinished ==
  (\A r \in Replays : stage[r] \in {"new", "answered"}) => storedCase.final

Abandoned(r) ==
  stage[r] = "blocked" /\ Full(Head(pending[r])) /\ reader[Head(pending[r])] = "gone"

\* In the end every replay that has begun is answered, or waits for room in the full queue of
\* a client that has left: nothing else stops it.
AnsweredOrAbandoned ==
  <>[](\A r \in Replays : stage[r] \in {"new", "answered", "failed"} \/ Abandoned(r))

\* tests/test_workflow_e2e.py:78-79 and README.md:75 of the orchestrator: a replay of a
\* case that exists is answered.
EveryReplayIsAnswered ==
  \A r \in Replays : stage[r] # "new" ~> stage[r] \in {"answered", "failed"}
=============================================================================
