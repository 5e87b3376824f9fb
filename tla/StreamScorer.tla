---------------------------- MODULE StreamScorer ----------------------------
(***************************************************************************)
(* The consume -> score -> produce loop of src/streaming, as deployed:     *)
(* several scorer processes in one consumer group read the partitions of   *)
(* the input topic, score each polled batch, write every result to the     *)
(* output topic or to the dead-letter topic, and only then commit.         *)
(*                                                                         *)
(* A message is a pair <<partition, offset>>, offsets counting from 0.     *)
(* Payloads are reduced to what parse_message tells apart: "good" or       *)
(* "bad".  The two result topics are one set of records, told apart by     *)
(* their kind, because both are written by the same producer queue.        *)
(*                                                                         *)
(* The broker and the group coordinator are external; they are modelled    *)
(* from the Consumer and Producer protocols of src/streaming/transport.py  *)
(* and from the way src/streaming/kafka.py configures the client.          *)
(***************************************************************************)
EXTENDS Integers, Sequences, FiniteSets

CONSTANTS
    Partitions,   \* partitions of the input topic
    Scorers,      \* replicas of the stream-scorer deployment
    NoScorer,     \* the owner of a partition nobody is assigned to
    BatchSize,    \* settings.STREAM_BATCH_SIZE
    MaxLog,       \* bound: messages published to a partition
    FaultKinds,   \* the faults the environment may inject
    MaxFaults     \* bound: faults injected in a behaviour

AllFaults == {"model", "load", "row", "send", "flush", "poll", "commit",
              "close", "crash", "stop", "evict", "rebalance"}

(* The faults after which process_once returns without committing and the  *)
(* same process goes on polling.                                           *)
SkippingFaults == {"model", "send", "flush"}

ASSUME ScorerAssumption ==
    /\ NoScorer \notin Scorers
    /\ BatchSize \in Nat \ {0}
    /\ MaxLog \in Nat
    /\ MaxFaults \in Nat
    /\ FaultKinds \subseteq AllFaults

VARIABLES
    log,        \* log[p]: the input partition, a sequence of payload kinds
    owner,      \* owner[p]: the scorer the group has assigned p to
    position,   \* position[p]: the owner's in-memory read position
    committed,  \* committed[p]: the group's committed offset
    pc,         \* pc[s]: where scorer s is in run / process_once / close
    stop,       \* stop[s]: StreamingScorer._stop
    loaded,     \* loaded[s]: the service module holds a model in memory
    fenced,     \* fenced[s]: the group has moved on without s
    batch,      \* batch[s]: the messages of the batch in flight
    todo,       \* todo[s]: result records still to be sent
    pending,    \* pending[s]: the producer's queue of sent records
    topics,     \* result records on the output and dead-letter topics
    lastScore,  \* lastScore[p]: 1 + source_offset of p's latest score, or 0
    skipped,    \* history: messages the current owner read and gave up on
    faults      \* number of faults injected so far

groupVars  == <<owner, position, committed>>
scorerVars == <<pc, stop, loaded, fenced, batch, todo>>
brokerVars == <<topics, lastScore>>
vars == <<log, groupVars, scorerVars, pending, brokerVars, skipped, faults>>

-----------------------------------------------------------------------------
Messages == Partitions \X Nat
Payloads == {"good", "bad"}
ResultKinds == {"score", "malformed", "rowError", "loadError"}
Records == [src : Messages, kind : ResultKinds]

(* parse_message: a payload that is JSON, an object and complete is good. *)
IsGood(m) == log[m[1]][m[2] + 1] = "good"

HasResult(m) == \E r \in topics : r.src = m

Settled(m) == HasResult(m) \/ m \in skipped

Fault(k) ==
    /\ k \in FaultKinds
    /\ faults < MaxFaults
    /\ faults' = faults + 1

(* Messages that poll returns when it takes n[p] records from each p. *)
Slice(n) == UNION {{p} \X (position[p] .. position[p] + n[p] - 1) :
                     p \in Partitions}

(* Mutant of Release: the next owner starts one before the committed       *)
(* offset.                                                                 *)
Release_OneBack(P) ==
    /\ owner' = [p \in Partitions |-> IF p \in P THEN NoScorer ELSE owner[p]]
    /\ position' = [p \in Partitions |->
                       IF p \in P THEN committed[p] - 1 ELSE position[p]]
    /\ skipped' = {m \in skipped : m[1] \in P => m[2] < committed[m[1]]}

(* Mutant of Release: the next owner starts where the last one had read.   *)
Release_KeepPosition(P) ==
    /\ owner' = [p \in Partitions |-> IF p \in P THEN NoScorer ELSE owner[p]]
    /\ UNCHANGED <<position, skipped>>

(* Partitions leave their owner: whoever is assigned them next starts from *)
(* the committed offset, so what was read beyond it is read again.         *)
Release(P) ==
    /\ owner' = [p \in Partitions |-> IF p \in P THEN NoScorer ELSE owner[p]]
    /\ position' = [p \in Partitions |->
                       IF p \in P THEN committed[p] ELSE position[p]]
    /\ skipped' = {m \in skipped : m[1] \in P => m[2] < committed[m[1]]}

Owned(s) == {p \in Partitions : owner[p] = s}

Init ==
    /\ log = [p \in Partitions |-> <<>>]
    /\ owner = [p \in Partitions |-> NoScorer]
    /\ position = [p \in Partitions |-> 0]
    /\ committed = [p \in Partitions |-> 0]
    /\ pc = [s \in Scorers |-> "down"]
    /\ stop = [s \in Scorers |-> FALSE]
    /\ loaded = [s \in Scorers |-> FALSE]
    /\ fenced = [s \in Scorers |-> FALSE]
    /\ batch = [s \in Scorers |-> {}]
    /\ todo = [s \in Scorers |-> {}]
    /\ pending = [s \in Scorers |-> <<>>]
    /\ topics = {}
    /\ lastScore = [p \in Partitions |-> 0]
    /\ skipped = {}
    /\ faults = 0

-----------------------------------------------------------------------------
(* The environment: publishers, and the coordinator of the consumer group. *)

Publish(p, k) ==
    /\ Len(log[p]) < MaxLog
    /\ log' = [log EXCEPT ![p] = Append(@, k)]
    /\ UNCHANGED <<groupVars, scorerVars, pending, brokerVars, skipped, faults>>

(* A member takes part in a rebalance when it polls. *)
Assign(p, s) ==
    /\ owner[p] = NoScorer
    /\ pc[s] = "loop" /\ ~stop[s] /\ ~fenced[s]
    /\ owner' = [owner EXCEPT ![p] = s]
    /\ UNCHANGED <<log, position, committed, scorerVars, pending, brokerVars,
                   skipped, faults>>

(* Between two polls a rebalance takes a partition away in an orderly way. *)
Rebalance(p) ==
    /\ owner[p] \in Scorers
    /\ pc[owner[p]] = "loop"
    /\ Fault("rebalance")
    /\ Release({p})
    /\ UNCHANGED <<log, committed, scorerVars, pending, brokerVars>>

(* A scorer too slow to poll again is dropped from the group.  It does not *)
(* know: it finishes its batch, and its producer still works.              *)
Evict(s) ==
    /\ pc[s] \in {"score", "send", "commit"}
    /\ ~fenced[s]
    /\ Fault("evict")
    /\ fenced' = [fenced EXCEPT ![s] = TRUE]
    /\ Release(Owned(s))
    /\ UNCHANGED <<log, committed, pc, stop, loaded, batch, todo, pending,
                   brokerVars>>

(* The producer's queue is first in, first out, and a background thread    *)
(* of the Kafka client may empty it before flush is called.                *)
Deliver(s) ==
    /\ pc[s] # "down"
    /\ pending[s] # <<>>
    /\ LET r == Head(pending[s]) IN
         /\ topics' = topics \cup {r}
         /\ lastScore' = IF r.kind = "score"
                         THEN [lastScore EXCEPT ![r.src[1]] = r.src[2] + 1]
                         ELSE lastScore
    /\ pending' = [pending EXCEPT ![s] = Tail(@)]
    /\ UNCHANGED <<log, groupVars, scorerVars, skipped, faults>>

-----------------------------------------------------------------------------
(* The life of a scorer process.                                           *)

Start(s) ==
    /\ pc[s] = "down"
    /\ pc' = [pc EXCEPT ![s] = "loop"]
    /\ UNCHANGED <<log, groupVars, stop, loaded, fenced, batch, todo, pending,
                   brokerVars, skipped, faults>>

RequestStop(s) ==
    /\ pc[s] # "down" /\ ~stop[s]
    /\ Fault("stop")
    /\ stop' = [stop EXCEPT ![s] = TRUE]
    /\ UNCHANGED <<log, groupVars, pc, loaded, fenced, batch, todo, pending,
                   brokerVars, skipped>>

(* The process is gone, and with it everything it kept in memory. *)
Exit(s) ==
    /\ pc' = [pc EXCEPT ![s] = "down"]
    /\ stop' = [stop EXCEPT ![s] = FALSE]
    /\ loaded' = [loaded EXCEPT ![s] = FALSE]
    /\ fenced' = [fenced EXCEPT ![s] = FALSE]
    /\ batch' = [batch EXCEPT ![s] = {}]
    /\ todo' = [todo EXCEPT ![s] = {}]
    /\ pending' = [pending EXCEPT ![s] = <<>>]
    /\ Release(Owned(s))
    /\ UNCHANGED <<log, committed, brokerVars>>

Crash(s) == pc[s] # "down" /\ Fault("crash") /\ Exit(s)

(* An exception leaves run; main's finally clause closes the scorer. *)
RaiseFrom(s) ==
    /\ pc' = [pc EXCEPT ![s] = "close"]
    /\ UNCHANGED <<log, groupVars, stop, loaded, fenced, batch, todo, pending,
                   brokerVars, skipped>>

LeaveLoop(s) == pc[s] = "loop" /\ stop[s] /\ RaiseFrom(s) /\ UNCHANGED faults

(* producer.close flushes before consumer.close leaves the group. *)
Close(s) ==
    /\ pc[s] = "close" /\ pending[s] = <<>>
    /\ Exit(s)
    /\ UNCHANGED faults

CloseFails(s) ==
    /\ pc[s] = "close" /\ pending[s] # <<>>
    /\ Fault("close")
    /\ Exit(s)

-----------------------------------------------------------------------------
(* process_once.                                                           *)

(* An evicted scorer's next poll finds it has no partitions and rejoins.   *)
Rejoin(s) ==
    /\ pc[s] = "loop" /\ ~stop[s] /\ fenced[s]
    /\ fenced' = [fenced EXCEPT ![s] = FALSE]
    /\ UNCHANGED <<log, groupVars, pc, stop, loaded, batch, todo, pending,
                   brokerVars, skipped, faults>>

(* A poll that returns something moves the position past all of it.  An    *)
(* empty poll changes nothing but statistics, and is a stuttering step.    *)
Poll(s) ==
    /\ pc[s] = "loop" /\ ~stop[s]
    /\ \E n \in [Partitions -> 0 .. BatchSize] :
         /\ \A p \in Partitions :
               n[p] > 0 => owner[p] = s /\ position[p] + n[p] <= Len(log[p])
         /\ batch' = [batch EXCEPT ![s] = Slice(n)]
         /\ Cardinality(batch'[s]) \in 1 .. BatchSize
         /\ position' = [p \in Partitions |-> position[p] + n[p]]
    /\ pc' = [pc EXCEPT ![s] = "score"]
    /\ UNCHANGED <<log, owner, committed, stop, loaded, fenced, todo, pending,
                   brokerVars, skipped, faults>>

PollFails(s) ==
    /\ pc[s] = "loop" /\ ~stop[s]
    /\ Fault("poll")
    /\ RaiseFrom(s)

Good(s) == {m \in batch[s] : IsGood(m)}

ResultsOf(s, goodKind) ==
    {[src |-> m, kind |-> goodKind] : m \in Good(s)} \cup
    {[src |-> m, kind |-> "malformed"] : m \in batch[s] \ Good(s)}

(* process_batch: the results of the batch, of which the good messages     *)
(* were all scored, or all failed together in the one vectorised call.     *)
Produce(s, goodKind) ==
    /\ todo' = [todo EXCEPT ![s] = ResultsOf(s, goodKind)]
    /\ pc' = [pc EXCEPT ![s] = "send"]
    /\ UNCHANGED <<log, groupVars, stop, fenced, batch, pending, brokerVars,
                   skipped>>

(* Mutant of ScoreBatch: a malformed message kills the consumer. *)
ScoreBatch_PoisonPill(s) ==
    /\ pc[s] = "score"
    /\ UNCHANGED faults
    /\ IF Good(s) = batch[s]
       THEN Produce(s, "score") /\ loaded' = [loaded EXCEPT ![s] = TRUE]
       ELSE RaiseFrom(s)

ScoreBatch(s) ==
    /\ pc[s] = "score"
    /\ Produce(s, "score")
    /\ loaded' = [loaded EXCEPT ![s] = @ \/ Good(s) # {}]
    /\ UNCHANGED faults

RowError(s) ==
    /\ pc[s] = "score" /\ Good(s) # {}
    /\ Fault("row")
    /\ Produce(s, "rowError")
    /\ loaded' = [loaded EXCEPT ![s] = TRUE]

(* The first prediction loads the model.  Loading may raise something      *)
(* other than ModelNotLoadedError: an artifact that exists but cannot be   *)
(* read is then a scoring error of every good message of the batch.        *)
LoadError(s) ==
    /\ pc[s] = "score" /\ Good(s) # {} /\ ~loaded[s]
    /\ Fault("load")
    /\ Produce(s, "loadError")
    /\ UNCHANGED loaded

(* process_once returns without committing.  The position stays where      *)
(* poll left it, so this owner will not see these messages again.          *)
GiveUp(s) ==
    /\ pc' = [pc EXCEPT ![s] = "loop"]
    /\ batch' = [batch EXCEPT ![s] = {}]
    /\ todo' = [todo EXCEPT ![s] = {}]
    /\ skipped' = IF fenced[s] THEN skipped ELSE skipped \cup batch[s]
    /\ UNCHANGED <<log, groupVars, stop, loaded, fenced, pending, brokerVars>>

ModelMissing(s) ==
    /\ pc[s] = "score" /\ Good(s) # {} /\ ~loaded[s]
    /\ Fault("model")
    /\ GiveUp(s)

(* Mutant of SendsNext: the results are sent in no particular order. *)
SendsNext_AnyOrder(s, r) == TRUE

(* Scores are sent first, each partition's in offset order. *)
SendsNext(s, r) ==
    \A q \in todo[s] : q.kind = "score" =>
        /\ r.kind = "score"
        /\ q.src[1] = r.src[1] => r.src[2] <= q.src[2]

Send(s) ==
    /\ pc[s] = "send"
    /\ \E r \in todo[s] :
         /\ SendsNext(s, r)
         /\ pending' = [pending EXCEPT ![s] = Append(@, r)]
         /\ todo' = [todo EXCEPT ![s] = @ \ {r}]
    /\ UNCHANGED <<log, groupVars, pc, stop, loaded, fenced, batch, brokerVars,
                   skipped, faults>>

SendFails(s) ==
    /\ pc[s] = "send" /\ todo[s] # {}
    /\ Fault("send")
    /\ GiveUp(s)

(* flush returns once every queued record has been delivered. *)
Flush(s) ==
    /\ pc[s] = "send" /\ todo[s] = {} /\ pending[s] = <<>>
    /\ pc' = [pc EXCEPT ![s] = "commit"]
    /\ UNCHANGED <<log, groupVars, stop, loaded, fenced, batch, todo, pending,
                   brokerVars, skipped, faults>>

(* Mutant of FlushFails: the failure is logged and the batch committed. *)
FlushFails_Commits(s) ==
    /\ pc[s] = "send" /\ todo[s] = {} /\ pending[s] # <<>>
    /\ Fault("flush")
    /\ pc' = [pc EXCEPT ![s] = "commit"]
    /\ UNCHANGED <<log, groupVars, stop, loaded, fenced, batch, todo, pending,
                   brokerVars, skipped>>

FlushFails(s) ==
    /\ pc[s] = "send" /\ todo[s] = {} /\ pending[s] # <<>>
    /\ Fault("flush")
    /\ GiveUp(s)

(* Mutant of Commit: the offsets are committed before the flush. *)
Commit_BeforeFlush(s) ==
    /\ pc[s] = "send" /\ todo[s] = {} /\ ~fenced[s]
    /\ committed' = [p \in Partitions |->
                        IF owner[p] = s THEN position[p] ELSE committed[p]]
    /\ pc' = [pc EXCEPT ![s] = "loop"]
    /\ batch' = [batch EXCEPT ![s] = {}]
    /\ UNCHANGED <<log, owner, position, stop, loaded, fenced, todo, pending,
                   brokerVars, skipped, faults>>

(* consumer.commit acknowledges everything returned so far: the positions  *)
(* of all the partitions the scorer owns, whatever batch they come from.   *)
Commit(s) ==
    /\ pc[s] = "commit" /\ ~fenced[s]
    /\ committed' = [p \in Partitions |->
                        IF owner[p] = s THEN position[p] ELSE committed[p]]
    /\ pc' = [pc EXCEPT ![s] = "loop"]
    /\ batch' = [batch EXCEPT ![s] = {}]
    /\ UNCHANGED <<log, owner, position, stop, loaded, fenced, todo, pending,
                   brokerVars, skipped, faults>>

(* The coordinator refuses the commit of a member of an older generation. *)
CommitFenced(s) ==
    pc[s] = "commit" /\ fenced[s] /\ RaiseFrom(s) /\ UNCHANGED faults

CommitFails(s) ==
    pc[s] = "commit" /\ ~fenced[s] /\ Fault("commit") /\ RaiseFrom(s)

-----------------------------------------------------------------------------
Environment ==
    \/ \E p \in Partitions, k \in Payloads : Publish(p, k)
    \/ \E p \in Partitions, s \in Scorers : Assign(p, s)
    \/ \E p \in Partitions : Rebalance(p)

Progress(s) ==
    \/ Start(s) \/ LeaveLoop(s) \/ Close(s) \/ Rejoin(s) \/ Poll(s)
    \/ ScoreBatch(s) \/ Send(s) \/ Deliver(s) \/ Flush(s)
    \/ Commit(s) \/ CommitFenced(s)

Failure(s) ==
    \/ Evict(s) \/ RequestStop(s) \/ Crash(s) \/ CloseFails(s) \/ PollFails(s)
    \/ RowError(s) \/ LoadError(s) \/ ModelMissing(s)
    \/ SendFails(s) \/ FlushFails(s) \/ CommitFails(s)

Next == Environment \/ \E s \in Scorers : Progress(s) \/ Failure(s)

Spec == Init /\ [][Next]_vars

(* One thread runs the loop and does not pause forever; the deployment     *)
(* restarts a scorer that has exited; the group assigns every partition.   *)
(* Faults are never fair: they may simply not happen.                      *)
Fairness ==
    /\ \A s \in Scorers : WF_vars(Progress(s))
    /\ WF_vars(\E p \in Partitions, s \in Scorers : Assign(p, s))

FairSpec == Spec /\ Fairness

-----------------------------------------------------------------------------
(* Properties.                                                             *)

(* Every variable has its type. *)
TypeOK ==
    /\ log \in [Partitions -> Seq(Payloads)]
    /\ owner \in [Partitions -> Scorers \cup {NoScorer}]
    /\ position \in [Partitions -> Nat]
    /\ committed \in [Partitions -> Nat]
    /\ pc \in [Scorers ->
                  {"down", "loop", "score", "send", "commit", "close"}]
    /\ stop \in [Scorers -> BOOLEAN]
    /\ loaded \in [Scorers -> BOOLEAN]
    /\ fenced \in [Scorers -> BOOLEAN]
    /\ batch \in [Scorers -> SUBSET Messages]
    /\ todo \in [Scorers -> SUBSET Records]
    /\ pending \in [Scorers -> Seq(Records)]
    /\ topics \subseteq Records
    /\ lastScore \in [Partitions -> Nat]
    /\ skipped \subseteq Messages
    /\ faults \in Nat

(* What the ordering in process_once really guarantees, whatever fails:    *)
(* an acknowledged message has a result on one of the topics, or it is in  *)
(* a batch that the partition's owner read and gave up on.                 *)
AckedSettled ==
    \A p \in Partitions : \A o \in 0 .. committed[p] - 1 : Settled(<<p, o>>)

(* The module docstrings' claim that no message is lost: an acknowledged   *)
(* message has a result on the output or the dead-letter topic.            *)
AckedHasResult ==
    \A p \in Partitions : \A o \in 0 .. committed[p] - 1 : HasResult(<<p, o>>)

(* The claim of partition_key: an older score never overtakes a newer one. *)
(* Stated at rest: once everything published is acknowledged and nothing   *)
(* is in flight, the latest score of a partition none of whose batches was *)
(* given up on is that of its last scored message.                         *)
AtRest(p) ==
    /\ committed[p] = Len(log[p])
    /\ \A s \in Scorers : batch[s] = {} /\ pending[s] = <<>>

NewestScoreLast ==
    \A p \in Partitions : AtRest(p) /\ (\A m \in skipped : m[1] # p) =>
        \A r \in topics : r.kind = "score" /\ r.src[1] = p
                            => r.src[2] < lastScore[p]

(* No poison pill and no stuck partition: every published message is       *)
(* eventually acknowledged, malformed ones included.                       *)
EventuallyAcked ==
    \A p \in Partitions : \A o \in 0 .. MaxLog - 1 :
        (o < Len(log[p])) ~> (o < committed[p])

(* The scorer implements the at-least-once contract: its topics, offsets   *)
(* and logs are the contract's, and every step of a scorer is a contract   *)
(* step or invisible to it.                                                *)
Contract == INSTANCE AtLeastOnce WITH
    published <- [p \in Partitions |-> Len(log[p])],
    delivered <- {r.src : r \in topics},
    acked <- committed

ImplementsContract == Contract!Spec

-----------------------------------------------------------------------------
(* The inductive strengthening of AckedSettled.                            *)

(* Offsets are ordered, and an unassigned partition is read from its       *)
(* committed offset.                                                       *)
OffsetsOK ==
    \A p \in Partitions :
        /\ committed[p] <= position[p]
        /\ position[p] <= Len(log[p])
        /\ owner[p] = NoScorer => position[p] = committed[p]

(* Only a live member of the current generation owns partitions. *)
OwnersOK ==
    \A p \in Partitions :
        owner[p] # NoScorer => pc[owner[p]] # "down" /\ ~fenced[owner[p]]

(* Where the result of a message of s's batch can be, by s's place in the  *)
(* code: still to be sent, queued in the producer, or on a topic.          *)
InTodo(s, m) == \E r \in todo[s] : r.src = m

InPending(s, m) == \E i \in 1 .. Len(pending[s]) : pending[s][i].src = m

BatchesOK ==
    \A s \in Scorers :
        /\ pc[s] \in {"down", "loop"} => batch[s] = {}
        /\ pc[s] = "send" => \A m \in batch[s] :
                                HasResult(m) \/ InTodo(s, m) \/ InPending(s, m)
        /\ pc[s] = "commit" => \A m \in batch[s] : HasResult(m)

(* Everything read by a partition's owner is settled or in its batch. *)
ReadCovered ==
    \A p \in Partitions : \A o \in 0 .. position[p] - 1 :
        \/ Settled(<<p, o>>)
        \/ owner[p] # NoScorer /\ <<p, o>> \in batch[owner[p]]

(* All of it together: the invariant every step preserves. *)
IInv ==
    /\ TypeOK
    /\ OffsetsOK
    /\ OwnersOK
    /\ BatchesOK
    /\ AckedSettled
    /\ ReadCovered

(* For the refinement: only messages that exist are in flight. *)
IsPublished(m) == m[2] < Len(log[m[1]])

InFlightPublished ==
    \A s \in Scorers :
        /\ \A m \in batch[s] : IsPublished(m)
        /\ \A r \in todo[s] : IsPublished(r.src)
        /\ \A i \in 1 .. Len(pending[s]) : IsPublished(pending[s][i].src)

(* Without faults that make process_once give a batch up, none is. *)
NothingSkipped == FaultKinds \cap SkippingFaults = {} => skipped = {}

=============================================================================
