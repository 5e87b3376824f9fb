------------------------ MODULE StreamScorer_proofs -------------------------
(***************************************************************************)
(* Machine-checked proofs about StreamScorer, for every set of partitions, *)
(* number of replicas, batch size and combination of faults.               *)
(***************************************************************************)
EXTENDS StreamScorer, TLAPS

(* The variables' types hold initially. *)
LEMMA TypeInit == Init => TypeOK
  BY DEF Init, TypeOK, Messages, Records

(* A poll's slice consists of messages. *)
LEMMA SliceType ==
    ASSUME TypeOK, NEW n \in [Partitions -> 0 .. BatchSize]
    PROVE  Slice(n) \subseteq Messages
  BY ScorerAssumption DEF TypeOK, Slice, Messages

(* Releasing partitions keeps the types of the variables it changes. *)
LEMMA ReleaseType ==
    ASSUME TypeOK, NEW P \in SUBSET Partitions, Release(P)
    PROVE  /\ owner' \in [Partitions -> Scorers \cup {NoScorer}]
           /\ position' \in [Partitions -> Nat]
           /\ skipped' \subseteq Messages
  BY DEF TypeOK, Release

(* A fault is counted. *)
LEMMA FaultType ==
    ASSUME TypeOK, NEW k, Fault(k)
    PROVE  faults' \in Nat
  BY DEF TypeOK, Fault

(* Giving a batch up keeps the types. *)
LEMMA GiveUpType ==
    ASSUME TypeOK, NEW s \in Scorers, GiveUp(s), faults' \in Nat
    PROVE  TypeOK'
  BY DEF TypeOK, GiveUp, groupVars, brokerVars

(* The end of a process keeps the types. *)
LEMMA ExitType ==
    ASSUME TypeOK, NEW s \in Scorers, Exit(s), faults' \in Nat
    PROVE  TypeOK'
  <1>1. Owned(s) \in SUBSET Partitions
    BY DEF Owned
  <1>2. Release(Owned(s))
    BY DEF Exit
  <1>. QED
    BY <1>1, <1>2, ReleaseType DEF TypeOK, Exit, brokerVars

(* Leaving the loop by an exception keeps the types. *)
LEMMA RaiseType ==
    ASSUME TypeOK, NEW s \in Scorers, RaiseFrom(s), faults' \in Nat
    PROVE  TypeOK'
  BY DEF TypeOK, RaiseFrom, groupVars, brokerVars

(* The results of a batch are records. *)
LEMMA ResultsType ==
    ASSUME TypeOK, NEW s \in Scorers, NEW k \in ResultKinds
    PROVE  ResultsOf(s, k) \subseteq Records
  BY DEF TypeOK, ResultsOf, Records, ResultKinds, Good

(* Producing the results of a batch keeps the types. *)
LEMMA ProduceType ==
    ASSUME TypeOK, NEW s \in Scorers, NEW k \in ResultKinds, Produce(s, k),
           loaded' \in [Scorers -> BOOLEAN], faults' \in Nat
    PROVE  TypeOK'
  BY ResultsType DEF TypeOK, Produce, groupVars, brokerVars

(* Every step keeps the types. *)
LEMMA TypeStep == TypeOK /\ [Next]_vars => TypeOK'
  <1>. SUFFICES ASSUME TypeOK, [Next]_vars PROVE TypeOK'
    OBVIOUS
  <1>1. ASSUME NEW p \in Partitions, NEW k \in Payloads, Publish(p, k)
        PROVE  TypeOK'
    BY <1>1 DEF TypeOK, Publish, groupVars, scorerVars, brokerVars
  <1>2. ASSUME NEW p \in Partitions, NEW s \in Scorers, Assign(p, s)
        PROVE  TypeOK'
    BY <1>2 DEF TypeOK, Assign, scorerVars, brokerVars
  <1>3. ASSUME NEW p \in Partitions, Rebalance(p)
        PROVE  TypeOK'
    <2>1. Release({p}) /\ Fault("rebalance")
      BY <1>3 DEF Rebalance
    <2>2. faults' \in Nat
      BY <2>1, FaultType
    <2>. QED
      BY <1>3, <2>1, <2>2, ReleaseType DEF TypeOK, Rebalance, scorerVars, brokerVars
  <1>4. ASSUME NEW s \in Scorers, Start(s)
        PROVE  TypeOK'
    BY <1>4 DEF TypeOK, Start, groupVars, brokerVars
  <1>5. ASSUME NEW s \in Scorers, LeaveLoop(s)
        PROVE  TypeOK'
    <2>1. faults' \in Nat
      BY <1>5 DEF LeaveLoop, TypeOK
    <2>. QED
      BY <1>5, <2>1, RaiseType DEF LeaveLoop
  <1>6. ASSUME NEW s \in Scorers, Close(s)
        PROVE  TypeOK'
    <2>1. faults' \in Nat
      BY <1>6 DEF Close, TypeOK
    <2>. QED
      BY <1>6, <2>1, ExitType DEF Close
  <1>7. ASSUME NEW s \in Scorers, Rejoin(s)
        PROVE  TypeOK'
    BY <1>7 DEF TypeOK, Rejoin, groupVars, brokerVars
  <1>8. ASSUME NEW s \in Scorers, Poll(s)
        PROVE  TypeOK'
    <2>1. PICK n \in [Partitions -> 0 .. BatchSize] :
            /\ batch' = [batch EXCEPT ![s] = Slice(n)]
            /\ position' = [p \in Partitions |-> position[p] + n[p]]
      BY <1>8 DEF Poll
    <2>2. batch' \in [Scorers -> SUBSET Messages]
      BY <2>1, SliceType DEF TypeOK
    <2>3. position' \in [Partitions -> Nat]
      BY <2>1, ScorerAssumption DEF TypeOK
    <2>. QED
      BY <1>8, <2>2, <2>3 DEF TypeOK, Poll, brokerVars
  <1>9. ASSUME NEW s \in Scorers, ScoreBatch(s)
        PROVE  TypeOK'
    <2>1. /\ loaded' \in [Scorers -> BOOLEAN]
          /\ faults' \in Nat
      BY <1>9 DEF ScoreBatch, TypeOK
    <2>. QED
      BY <1>9, <2>1, ProduceType DEF ScoreBatch, ResultKinds
  <1>10. ASSUME NEW s \in Scorers, Send(s)
         PROVE  TypeOK'
    <2>1. PICK r \in todo[s] :
            /\ pending' = [pending EXCEPT ![s] = Append(@, r)]
            /\ todo' = [todo EXCEPT ![s] = @ \ {r}]
      BY <1>10 DEF Send
    <2>2. r \in Records
      BY DEF TypeOK
    <2>3. pending' \in [Scorers -> Seq(Records)]
      BY <2>1, <2>2 DEF TypeOK
    <2>4. todo' \in [Scorers -> SUBSET Records]
      BY <2>1 DEF TypeOK
    <2>. QED
      BY <1>10, <2>3, <2>4 DEF TypeOK, Send, groupVars, brokerVars
  <1>11. ASSUME NEW s \in Scorers, Deliver(s)
         PROVE  TypeOK'
    <2>1. pending[s] \in Seq(Records) /\ pending[s] # <<>>
      BY <1>11 DEF TypeOK, Deliver
    <2>2. Head(pending[s]) \in Records /\ Tail(pending[s]) \in Seq(Records)
      BY <2>1
    <2>3. pending' \in [Scorers -> Seq(Records)]
      BY <1>11, <2>2 DEF TypeOK, Deliver
    <2>4. topics' \subseteq Records
      BY <1>11, <2>2 DEF TypeOK, Deliver
    <2>5. lastScore' \in [Partitions -> Nat]
      <3>. DEFINE r == Head(pending[s])
      <3>1. r.src[1] \in Partitions /\ r.src[2] + 1 \in Nat
        BY <2>2 DEF Records, Messages
      <3>2. lastScore \in [Partitions -> Nat]
        BY DEF TypeOK
      <3>3. \/ lastScore' = lastScore
            \/ lastScore' = [lastScore EXCEPT ![r.src[1]] = r.src[2] + 1]
        BY <1>11 DEF Deliver
      <3>. HIDE DEF r
      <3>. QED
        BY <3>1, <3>2, <3>3
    <2>. QED
      BY <1>11, <2>3, <2>4, <2>5 DEF TypeOK, Deliver, groupVars, scorerVars
  <1>12. ASSUME NEW s \in Scorers, Flush(s)
         PROVE  TypeOK'
    BY <1>12 DEF TypeOK, Flush, groupVars, brokerVars
  <1>13. ASSUME NEW s \in Scorers, Commit(s)
         PROVE  TypeOK'
    BY <1>13 DEF TypeOK, Commit, brokerVars
  <1>14. ASSUME NEW s \in Scorers, CommitFenced(s)
         PROVE  TypeOK'
    <2>1. faults' \in Nat
      BY <1>14 DEF CommitFenced, TypeOK
    <2>. QED
      BY <1>14, <2>1, RaiseType DEF CommitFenced
  <1>15. ASSUME NEW s \in Scorers, Evict(s)
         PROVE  TypeOK'
    <2>1. /\ Owned(s) \in SUBSET Partitions
          /\ Release(Owned(s)) /\ Fault("evict")
      BY <1>15 DEF Evict, Owned
    <2>2. faults' \in Nat
      BY <2>1, FaultType
    <2>. QED
      BY <1>15, <2>1, <2>2, ReleaseType DEF TypeOK, Evict, brokerVars
  <1>16. ASSUME NEW s \in Scorers, RequestStop(s)
         PROVE  TypeOK'
    <2>1. faults' \in Nat
      BY <1>16, FaultType DEF RequestStop
    <2>. QED
      BY <1>16, <2>1 DEF TypeOK, RequestStop, groupVars, brokerVars
  <1>17. ASSUME NEW s \in Scorers, Crash(s) \/ CloseFails(s)
         PROVE  TypeOK'
    BY <1>17, FaultType, ExitType DEF Crash, CloseFails
  <1>18. ASSUME NEW s \in Scorers, PollFails(s) \/ CommitFails(s)
         PROVE  TypeOK'
    BY <1>18, FaultType, RaiseType DEF PollFails, CommitFails
  <1>19. ASSUME NEW s \in Scorers, RowError(s) \/ LoadError(s)
         PROVE  TypeOK'
    <2>1. faults' \in Nat
      BY <1>19, FaultType DEF RowError, LoadError
    <2>2. loaded' \in [Scorers -> BOOLEAN]
      BY <1>19 DEF RowError, LoadError, TypeOK
    <2>. QED
      BY <1>19, <2>1, <2>2, ProduceType DEF RowError, LoadError, ResultKinds
  <1>20. ASSUME NEW s \in Scorers, ModelMissing(s) \/ SendFails(s) \/ FlushFails(s)
         PROVE  TypeOK'
    BY <1>20, FaultType, GiveUpType DEF ModelMissing, SendFails, FlushFails
  <1>21. CASE UNCHANGED vars
    BY <1>21 DEF TypeOK, vars, groupVars, scorerVars, brokerVars
  <1>. QED
    BY <1>1, <1>2, <1>3, <1>4, <1>5, <1>6, <1>7, <1>8, <1>9, <1>10, <1>11,
       <1>12, <1>13, <1>14, <1>15, <1>16, <1>17, <1>18, <1>19, <1>20, <1>21
       DEF Next, Environment, Progress, Failure

(* Type correctness: whatever faults occur, every variable keeps its type. *)
THEOREM TypeCorrect == Spec => []TypeOK
  BY TypeInit, TypeStep, PTL DEF Spec

-----------------------------------------------------------------------------
(* Nothing is read, owned or acknowledged at the start. *)
LEMMA InvInit == Init => IInv
  <1>. SUFFICES ASSUME Init PROVE IInv
    OBVIOUS
  <1>1. TypeOK
    BY TypeInit
  <1>2. OffsetsOK /\ OwnersOK
    BY DEF Init, OffsetsOK, OwnersOK
  <1>3. BatchesOK
    BY DEF Init, BatchesOK
  <1>4. AckedSettled /\ ReadCovered
    BY DEF Init, AckedSettled, ReadCovered
  <1>. QED
    BY <1>1, <1>2, <1>3, <1>4 DEF IInv

(* Once settled, a message stays settled while results and given-up        *)
(* messages only accumulate.                                               *)
LEMMA SettledStays ==
    ASSUME topics \subseteq topics', skipped \subseteq skipped', NEW m, Settled(m)
    PROVE  Settled(m)'
  BY DEF Settled, HasResult

(* Releasing partitions forgets what was read of them beyond the committed *)
(* offset, and nothing else.                                               *)
LEMMA ReleaseSafe ==
    ASSUME IInv, NEW P \in SUBSET Partitions, Release(P),
           UNCHANGED <<log, committed, topics>>
    PROVE  /\ OffsetsOK'
           /\ AckedSettled'
           /\ \A p \in P : owner'[p] = NoScorer
           /\ \A p \in Partitions \ P : owner'[p] = owner[p]
           /\ \A p \in P : \A o \in 0 .. position'[p] - 1 : Settled(<<p, o>>)'
           /\ \A p \in Partitions \ P : \A o \in 0 .. position'[p] - 1 :
                 \/ Settled(<<p, o>>)'
                 \/ owner[p] # NoScorer /\ <<p, o>> \in batch[owner[p]]
  <1>1. \A p \in P : owner'[p] = NoScorer /\ position'[p] = committed[p]
    BY DEF Release
  <1>2. \A p \in Partitions \ P : owner'[p] = owner[p] /\ position'[p] = position[p]
    BY DEF Release
  <1>3. OffsetsOK'
    BY <1>1, <1>2 DEF IInv, TypeOK, OffsetsOK
  <1>4. ASSUME NEW p \in Partitions, NEW o \in Nat, Settled(<<p, o>>),
               p \in P => o < committed[p]
        PROVE  Settled(<<p, o>>)'
    <2>1. CASE HasResult(<<p, o>>)
      BY <2>1 DEF HasResult, Settled
    <2>2. CASE <<p, o>> \in skipped
      BY <1>4, <2>2 DEF Release, Settled
    <2>. QED
      BY <1>4, <2>1, <2>2 DEF Settled
  <1>5. ASSUME NEW p \in Partitions, NEW o \in 0 .. committed[p] - 1
        PROVE  Settled(<<p, o>>)'
    <2>1. Settled(<<p, o>>) /\ o \in Nat /\ o < committed[p]
      BY DEF IInv, AckedSettled, TypeOK
    <2>. QED
      BY <2>1, <1>4
  <1>6. AckedSettled'
    BY <1>5 DEF AckedSettled
  <1>7. ASSUME NEW p \in Partitions \ P, NEW o \in 0 .. position'[p] - 1
        PROVE  \/ Settled(<<p, o>>)'
               \/ owner[p] # NoScorer /\ <<p, o>> \in batch[owner[p]]
    <2>1. o \in 0 .. position[p] - 1 /\ o \in Nat
      BY <1>2
    <2>2. \/ Settled(<<p, o>>)
          \/ owner[p] # NoScorer /\ <<p, o>> \in batch[owner[p]]
      BY <2>1 DEF IInv, ReadCovered
    <2>. QED
      BY <2>1, <2>2, <1>4
  <1>. QED
    BY <1>1, <1>2, <1>3, <1>5, <1>6, <1>7

(* A step that moves no offset, assigns no partition, loses no settled     *)
(* message and only empties batches by settling them preserves the parts   *)
(* of the invariant about offsets and messages.                            *)
LEMMA QuietSafe ==
    ASSUME IInv, UNCHANGED <<log, groupVars>>,
           topics \subseteq topics', skipped \subseteq skipped',
           \A p \in Partitions : owner[p] # NoScorer =>
               \A m \in batch[owner[p]] : m \in batch'[owner[p]] \/ Settled(m)'
    PROVE  OffsetsOK' /\ AckedSettled' /\ ReadCovered'
  <1>1. OffsetsOK'
    BY DEF IInv, OffsetsOK, groupVars
  <1>2. AckedSettled'
    <2>. SUFFICES ASSUME NEW p \in Partitions, NEW o \in 0 .. committed[p] - 1
                  PROVE  Settled(<<p, o>>)'
      BY DEF AckedSettled, groupVars
    <2>1. Settled(<<p, o>>)
      BY DEF IInv, AckedSettled
    <2>. QED
      BY <2>1, SettledStays
  <1>3. ReadCovered'
    <2>. SUFFICES ASSUME NEW p \in Partitions, NEW o \in 0 .. position[p] - 1
                  PROVE  \/ Settled(<<p, o>>)'
                         \/ owner[p] # NoScorer /\ <<p, o>> \in batch'[owner[p]]
      BY DEF ReadCovered, groupVars
    <2>1. \/ Settled(<<p, o>>)
          \/ owner[p] # NoScorer /\ <<p, o>> \in batch[owner[p]]
      BY DEF IInv, ReadCovered
    <2>. QED
      BY <2>1, SettledStays
  <1>. QED
    BY <1>1, <1>2, <1>3

(* Appending to the producer's queue keeps what it holds and adds a record. *)
LEMMA AppendHolds ==
    ASSUME NEW q \in Seq(Records), NEW r \in Records
    PROVE  /\ Append(q, r)[Len(q) + 1] = r
           /\ Len(Append(q, r)) = Len(q) + 1
           /\ \A i \in 1 .. Len(q) : Append(q, r)[i] = q[i]
  OBVIOUS

(* Taking the head off the producer's queue keeps the rest of it. *)
LEMMA TailHolds ==
    ASSUME NEW q \in Seq(Records), q # <<>>, NEW i \in 1 .. Len(q), i # 1
    PROVE  /\ i - 1 \in 1 .. Len(Tail(q))
           /\ Tail(q)[i - 1] = q[i]
  OBVIOUS

(* An owner that reads on has settled its previous batch. *)
LEMMA PollSafe ==
    ASSUME IInv, NEW s \in Scorers, Poll(s)
    PROVE  OffsetsOK' /\ OwnersOK' /\ BatchesOK' /\ AckedSettled' /\ ReadCovered'
  <1>1. PICK n \in [Partitions -> 0 .. BatchSize] :
          /\ \A p \in Partitions :
                n[p] > 0 => owner[p] = s /\ position[p] + n[p] <= Len(log[p])
          /\ batch' = [batch EXCEPT ![s] = Slice(n)]
          /\ position' = [p \in Partitions |-> position[p] + n[p]]
    BY DEF Poll
  <1>2. /\ pc[s] = "loop" /\ pc' = [pc EXCEPT ![s] = "score"]
        /\ UNCHANGED <<log, owner, committed, fenced, topics, skipped, todo, pending>>
    BY DEF Poll, brokerVars
  <1>3. TypeOK /\ batch[s] = {}
    BY <1>2 DEF IInv, BatchesOK
  <1>4. ASSUME NEW m
        PROVE  Settled(m)' <=> Settled(m)
    BY <1>2 DEF Settled, HasResult
  <1>5. OffsetsOK'
    <2>. SUFFICES ASSUME NEW p \in Partitions
                  PROVE  /\ committed[p] <= position'[p]
                         /\ position'[p] <= Len(log[p])
                         /\ owner[p] = NoScorer => position'[p] = committed[p]
      BY <1>2 DEF OffsetsOK
    <2>1. /\ n[p] \in Nat /\ position[p] \in Nat /\ committed[p] \in Nat
          /\ Len(log[p]) \in Nat
      BY <1>3, ScorerAssumption DEF TypeOK
    <2>2. /\ committed[p] <= position[p] /\ position[p] <= Len(log[p])
          /\ owner[p] = NoScorer => position[p] = committed[p]
      BY DEF IInv, OffsetsOK
    <2>3. CASE n[p] = 0
      BY <1>1, <2>1, <2>2, <2>3
    <2>4. CASE n[p] > 0
      BY <1>1, <2>1, <2>2, <2>4, ScorerAssumption
    <2>. QED
      BY <2>1, <2>3, <2>4
  <1>6. OwnersOK'
    BY <1>2, <1>3 DEF IInv, OwnersOK, TypeOK
  <1>7. BatchesOK'
    BY <1>1, <1>2, <1>3 DEF IInv, BatchesOK, TypeOK, HasResult, InTodo, InPending
  <1>8. AckedSettled'
    BY <1>2, <1>4 DEF IInv, AckedSettled
  <1>9. ReadCovered'
    <2>. SUFFICES ASSUME NEW p \in Partitions, NEW o \in 0 .. position'[p] - 1
                  PROVE  \/ Settled(<<p, o>>)'
                         \/ owner[p] # NoScorer /\ <<p, o>> \in batch'[owner[p]]
      BY <1>2 DEF ReadCovered
    <2>1. /\ position[p] \in Nat /\ n[p] \in Nat /\ o \in Nat
          /\ o < position[p] + n[p]
      BY <1>1, <1>3, ScorerAssumption DEF TypeOK
    <2>2. CASE o < position[p]
      <3>1. \/ Settled(<<p, o>>)
            \/ owner[p] # NoScorer /\ <<p, o>> \in batch[owner[p]]
        BY <2>1, <2>2 DEF IInv, ReadCovered
      <3>. QED
        BY <3>1, <1>1, <1>3, <1>4 DEF TypeOK
    <2>3. CASE o >= position[p]
      <3>1. n[p] > 0 /\ o \in position[p] .. position[p] + n[p] - 1
        BY <2>1, <2>3
      <3>2. owner[p] = s
        BY <1>1, <3>1
      <3>3. <<p, o>> \in Slice(n)
        BY <3>1 DEF Slice
      <3>. QED
        BY <1>1, <1>3, <3>2, <3>3, ScorerAssumption DEF TypeOK
    <2>. QED
      BY <2>1, <2>2, <2>3
  <1>. QED
    BY <1>5, <1>6, <1>7, <1>8, <1>9

(* Only a member of the current generation whose batch has all its results *)
(* acknowledges, so what it acknowledges is settled.                       *)
LEMMA CommitSafe ==
    ASSUME IInv, NEW s \in Scorers, Commit(s)
    PROVE  OffsetsOK' /\ OwnersOK' /\ BatchesOK' /\ AckedSettled' /\ ReadCovered'
  <1>1. /\ pc[s] = "commit" /\ pc' = [pc EXCEPT ![s] = "loop"]
        /\ committed' = [p \in Partitions |->
                           IF owner[p] = s THEN position[p] ELSE committed[p]]
        /\ batch' = [batch EXCEPT ![s] = {}]
        /\ UNCHANGED <<log, owner, position, fenced, topics, skipped, todo, pending>>
    BY DEF Commit, brokerVars
  <1>2. TypeOK /\ \A m \in batch[s] : HasResult(m)
    BY <1>1 DEF IInv, BatchesOK
  <1>3. ASSUME NEW m
        PROVE  Settled(m)' <=> Settled(m)
    BY <1>1 DEF Settled, HasResult
  <1>4. ASSUME NEW p \in Partitions, NEW o \in 0 .. position[p] - 1
        PROVE  \/ Settled(<<p, o>>)
               \/ /\ owner[p] # NoScorer /\ owner[p] # s
                  /\ <<p, o>> \in batch[owner[p]]
    BY <1>2 DEF IInv, ReadCovered, Settled
  <1>5. OffsetsOK'
    BY <1>1, <1>2, ScorerAssumption DEF IInv, OffsetsOK, TypeOK
  <1>6. OwnersOK'
    BY <1>1, <1>2 DEF IInv, OwnersOK, TypeOK
  <1>7. BatchesOK'
    BY <1>1, <1>2 DEF IInv, BatchesOK, TypeOK, HasResult, InTodo, InPending
  <1>8. AckedSettled'
    <2>. SUFFICES ASSUME NEW p \in Partitions, NEW o \in 0 .. committed'[p] - 1
                  PROVE  Settled(<<p, o>>)
      BY <1>3 DEF AckedSettled
    <2>1. CASE owner[p] = s
      BY <1>1, <1>4, <2>1
    <2>2. CASE owner[p] # s
      BY <1>1, <2>2 DEF IInv, AckedSettled
    <2>. QED
      BY <2>1, <2>2
  <1>9. ReadCovered'
    <2>. SUFFICES ASSUME NEW p \in Partitions, NEW o \in 0 .. position[p] - 1
                  PROVE  \/ Settled(<<p, o>>)
                         \/ owner[p] # NoScorer /\ <<p, o>> \in batch'[owner[p]]
      BY <1>1, <1>3 DEF ReadCovered
    <2>. QED
      BY <1>1, <1>2, <1>4 DEF TypeOK
  <1>. QED
    BY <1>5, <1>6, <1>7, <1>8, <1>9

(* The end of a process frees its partitions and disturbs no one else. *)
LEMMA ExitSafe ==
    ASSUME IInv, NEW s \in Scorers, Exit(s)
    PROVE  OffsetsOK' /\ OwnersOK' /\ BatchesOK' /\ AckedSettled' /\ ReadCovered'
  <1>1. /\ Release(Owned(s)) /\ Owned(s) \in SUBSET Partitions
        /\ UNCHANGED <<log, committed, topics>>
        /\ pc' = [pc EXCEPT ![s] = "down"]
        /\ fenced' = [fenced EXCEPT ![s] = FALSE]
        /\ batch' = [batch EXCEPT ![s] = {}]
        /\ todo' = [todo EXCEPT ![s] = {}]
        /\ pending' = [pending EXCEPT ![s] = <<>>]
    BY DEF Exit, Owned, brokerVars
  <1>2. /\ OffsetsOK'
        /\ AckedSettled'
        /\ \A p \in Owned(s) : owner'[p] = NoScorer
        /\ \A p \in Partitions \ Owned(s) : owner'[p] = owner[p]
        /\ \A p \in Owned(s) : \A o \in 0 .. position'[p] - 1 : Settled(<<p, o>>)'
        /\ \A p \in Partitions \ Owned(s) : \A o \in 0 .. position'[p] - 1 :
              \/ Settled(<<p, o>>)'
              \/ owner[p] # NoScorer /\ <<p, o>> \in batch[owner[p]]
    BY <1>1, ReleaseSafe
  <1>3. \A p \in Partitions \ Owned(s) : owner[p] # s
    BY DEF Owned
  <1>4. OwnersOK'
    BY <1>1, <1>2, <1>3 DEF IInv, TypeOK, OwnersOK
  <1>5. BatchesOK'
    BY <1>1 DEF IInv, TypeOK, BatchesOK, HasResult, InTodo, InPending
  <1>6. ReadCovered'
    BY <1>1, <1>2, <1>3 DEF IInv, TypeOK, ReadCovered
  <1>. QED
    BY <1>2, <1>4, <1>5, <1>6

(* An evicted scorer keeps its batch but owns nothing any more. *)
LEMMA EvictSafe ==
    ASSUME IInv, NEW s \in Scorers, Evict(s)
    PROVE  OffsetsOK' /\ OwnersOK' /\ BatchesOK' /\ AckedSettled' /\ ReadCovered'
  <1>1. /\ Release(Owned(s)) /\ Owned(s) \in SUBSET Partitions
        /\ UNCHANGED <<log, committed, topics, pc, batch, todo, pending>>
        /\ fenced' = [fenced EXCEPT ![s] = TRUE]
    BY DEF Evict, Owned, brokerVars
  <1>2. /\ OffsetsOK'
        /\ AckedSettled'
        /\ \A p \in Owned(s) : owner'[p] = NoScorer
        /\ \A p \in Partitions \ Owned(s) : owner'[p] = owner[p]
        /\ \A p \in Owned(s) : \A o \in 0 .. position'[p] - 1 : Settled(<<p, o>>)'
        /\ \A p \in Partitions \ Owned(s) : \A o \in 0 .. position'[p] - 1 :
              \/ Settled(<<p, o>>)'
              \/ owner[p] # NoScorer /\ <<p, o>> \in batch[owner[p]]
    BY <1>1, ReleaseSafe
  <1>3. \A p \in Partitions \ Owned(s) : owner[p] # s
    BY DEF Owned
  <1>4. OwnersOK'
    BY <1>1, <1>2, <1>3 DEF IInv, TypeOK, OwnersOK
  <1>5. BatchesOK'
    BY <1>1 DEF IInv, TypeOK, BatchesOK, HasResult, InTodo, InPending
  <1>6. ReadCovered'
    BY <1>1, <1>2, <1>3 DEF IInv, TypeOK, ReadCovered
  <1>. QED
    BY <1>2, <1>4, <1>5, <1>6

(* A rebalance between polls finds the owner without a batch. *)
LEMMA RebalanceSafe ==
    ASSUME IInv, NEW p \in Partitions, Rebalance(p)
    PROVE  OffsetsOK' /\ OwnersOK' /\ BatchesOK' /\ AckedSettled' /\ ReadCovered'
  <1>1. /\ Release({p}) /\ {p} \in SUBSET Partitions
        /\ UNCHANGED <<log, committed, topics, pc, fenced, batch, todo, pending>>
    BY DEF Rebalance, scorerVars, brokerVars
  <1>2. /\ OffsetsOK'
        /\ AckedSettled'
        /\ \A x \in {p} : owner'[x] = NoScorer
        /\ \A x \in Partitions \ {p} : owner'[x] = owner[x]
        /\ \A x \in {p} : \A o \in 0 .. position'[x] - 1 : Settled(<<x, o>>)'
        /\ \A x \in Partitions \ {p} : \A o \in 0 .. position'[x] - 1 :
              \/ Settled(<<x, o>>)'
              \/ owner[x] # NoScorer /\ <<x, o>> \in batch[owner[x]]
    BY <1>1, ReleaseSafe
  <1>3. OwnersOK'
    BY <1>1, <1>2 DEF IInv, TypeOK, OwnersOK
  <1>4. BatchesOK'
    BY <1>1 DEF IInv, BatchesOK, HasResult, InTodo, InPending
  <1>5. ReadCovered'
    BY <1>1, <1>2 DEF IInv, TypeOK, ReadCovered
  <1>. QED
    BY <1>2, <1>3, <1>4, <1>5

(* A partition is assigned with its position at the committed offset. *)
LEMMA AssignSafe ==
    ASSUME IInv, NEW p \in Partitions, NEW s \in Scorers, Assign(p, s)
    PROVE  OffsetsOK' /\ OwnersOK' /\ BatchesOK' /\ AckedSettled' /\ ReadCovered'
  <1>1. /\ owner[p] = NoScorer /\ pc[s] = "loop" /\ ~fenced[s]
        /\ owner' = [owner EXCEPT ![p] = s]
        /\ UNCHANGED <<log, position, committed, pc, fenced, batch, todo, pending,
                       topics, skipped>>
    BY DEF Assign, scorerVars, brokerVars
  <1>2. position[p] = committed[p]
    BY <1>1 DEF IInv, OffsetsOK
  <1>3. ASSUME NEW m
        PROVE  Settled(m)' <=> Settled(m)
    BY <1>1 DEF Settled, HasResult
  <1>4. OffsetsOK'
    BY <1>1, <1>2 DEF IInv, TypeOK, OffsetsOK
  <1>5. OwnersOK'
    BY <1>1 DEF IInv, TypeOK, OwnersOK
  <1>6. BatchesOK'
    BY <1>1 DEF IInv, BatchesOK, HasResult, InTodo, InPending
  <1>7. AckedSettled'
    BY <1>1, <1>3 DEF IInv, AckedSettled
  <1>8. ReadCovered'
    BY <1>1, <1>2, <1>3 DEF IInv, TypeOK, ReadCovered, AckedSettled
  <1>. QED
    BY <1>4, <1>5, <1>6, <1>7, <1>8

(* A batch given up is settled by its owner, or is not its owner's. *)
LEMMA GiveUpSafe ==
    ASSUME IInv, NEW s \in Scorers, GiveUp(s)
    PROVE  OffsetsOK' /\ OwnersOK' /\ BatchesOK' /\ AckedSettled' /\ ReadCovered'
  <1>1. /\ pc' = [pc EXCEPT ![s] = "loop"]
        /\ batch' = [batch EXCEPT ![s] = {}]
        /\ todo' = [todo EXCEPT ![s] = {}]
        /\ skipped' = IF fenced[s] THEN skipped ELSE skipped \cup batch[s]
        /\ UNCHANGED <<log, groupVars, owner, fenced, topics, pending>>
    BY DEF GiveUp, brokerVars, groupVars
  <1>2. \A p \in Partitions : owner[p] # NoScorer =>
            \A m \in batch[owner[p]] : m \in batch'[owner[p]] \/ Settled(m)'
    <2>. SUFFICES ASSUME NEW p \in Partitions, owner[p] # NoScorer,
                         NEW m \in batch[owner[p]], m \notin batch'[owner[p]]
                  PROVE  Settled(m)'
      OBVIOUS
    <2>1. owner[p] = s /\ m \in batch[s]
      BY <1>1 DEF IInv, TypeOK
    <2>2. ~fenced[s]
      BY <2>1 DEF IInv, OwnersOK
    <2>. QED
      BY <1>1, <2>1, <2>2 DEF Settled
  <1>3. OffsetsOK' /\ AckedSettled' /\ ReadCovered'
    BY <1>1, <1>2, QuietSafe
  <1>4. OwnersOK'
    BY <1>1 DEF IInv, TypeOK, OwnersOK
  <1>5. BatchesOK'
    BY <1>1 DEF IInv, TypeOK, BatchesOK, HasResult, InTodo, InPending
  <1>. QED
    BY <1>3, <1>4, <1>5

(* Scoring leaves every message of the batch with a result to send. *)
LEMMA ProduceSafe ==
    ASSUME IInv, NEW s \in Scorers, NEW k \in ResultKinds, Produce(s, k)
    PROVE  OffsetsOK' /\ OwnersOK' /\ BatchesOK' /\ AckedSettled' /\ ReadCovered'
  <1>1. /\ pc' = [pc EXCEPT ![s] = "send"]
        /\ todo' = [todo EXCEPT ![s] = ResultsOf(s, k)]
        /\ UNCHANGED <<log, groupVars, owner, fenced, batch, pending, topics, skipped>>
    BY DEF Produce, groupVars, brokerVars
  <1>2. OffsetsOK' /\ AckedSettled' /\ ReadCovered'
    BY <1>1, QuietSafe
  <1>3. OwnersOK'
    BY <1>1 DEF IInv, TypeOK, OwnersOK
  <1>4. \A m \in batch[s] : \E r \in ResultsOf(s, k) : r.src = m
    <2>. SUFFICES ASSUME NEW m \in batch[s]
                  PROVE  \E r \in ResultsOf(s, k) : r.src = m
      OBVIOUS
    <2>1. CASE m \in Good(s)
      <3>1. [src |-> m, kind |-> k] \in ResultsOf(s, k)
        BY <2>1 DEF ResultsOf
      <3>. QED
        BY <3>1
    <2>2. CASE m \notin Good(s)
      <3>1. [src |-> m, kind |-> "malformed"] \in ResultsOf(s, k)
        BY <2>2 DEF ResultsOf
      <3>. QED
        BY <3>1
    <2>. QED
      BY <2>1, <2>2
  <1>5. BatchesOK'
    BY <1>1, <1>4 DEF IInv, TypeOK, BatchesOK, HasResult, InTodo, InPending
  <1>. QED
    BY <1>2, <1>3, <1>5

(* Sending moves a result from the batch's list to the producer's queue. *)
LEMMA SendSafe ==
    ASSUME IInv, NEW s \in Scorers, Send(s)
    PROVE  OffsetsOK' /\ OwnersOK' /\ BatchesOK' /\ AckedSettled' /\ ReadCovered'
  <1>1. PICK r \in todo[s] :
          /\ pending' = [pending EXCEPT ![s] = Append(@, r)]
          /\ todo' = [todo EXCEPT ![s] = @ \ {r}]
    BY DEF Send
  <1>2. UNCHANGED <<log, groupVars, owner, pc, fenced, batch, topics, skipped>>
    BY DEF Send, groupVars, brokerVars
  <1>3. OffsetsOK' /\ AckedSettled' /\ ReadCovered'
    BY <1>2, QuietSafe
  <1>4. OwnersOK'
    BY <1>2 DEF IInv, OwnersOK
  <1>5. pending[s] \in Seq(Records) /\ r \in Records
    BY DEF IInv, TypeOK
  <1>6. /\ Append(pending[s], r)[Len(pending[s]) + 1] = r
        /\ Len(Append(pending[s], r)) = Len(pending[s]) + 1
        /\ \A i \in 1 .. Len(pending[s]) : Append(pending[s], r)[i] = pending[s][i]
    BY <1>5, AppendHolds
  <1>7. Len(pending[s]) \in Nat
    BY <1>5
  <1>8. /\ pending'[s] = Append(pending[s], r) /\ todo'[s] = todo[s] \ {r}
        /\ \A t \in Scorers \ {s} : pending'[t] = pending[t] /\ todo'[t] = todo[t]
    BY <1>1 DEF IInv, TypeOK
  <1>9. ASSUME NEW m, InPending(s, m)
        PROVE  InPending(s, m)'
    <2>1. PICK i \in 1 .. Len(pending[s]) : pending[s][i].src = m
      BY <1>9 DEF InPending
    <2>2. i \in 1 .. Len(pending'[s]) /\ pending'[s][i].src = m
      BY <2>1, <1>6, <1>7, <1>8
    <2>. QED
      BY <2>2 DEF InPending
  <1>10. ASSUME NEW m, InTodo(s, m)
         PROVE  InTodo(s, m)' \/ InPending(s, m)'
    <2>1. PICK q \in todo[s] : q.src = m
      BY <1>10 DEF InTodo
    <2>2. CASE q = r
      <3>1. /\ Len(pending[s]) + 1 \in 1 .. Len(pending'[s])
            /\ pending'[s][Len(pending[s]) + 1].src = m
        BY <2>1, <2>2, <1>6, <1>7, <1>8
      <3>. QED
        BY <3>1 DEF InPending
    <2>3. CASE q # r
      BY <2>1, <2>3, <1>8 DEF InTodo
    <2>. QED
      BY <2>2, <2>3
  <1>11. BatchesOK'
    <2>. SUFFICES ASSUME NEW t \in Scorers
                  PROVE  /\ pc[t] \in {"down", "loop"} => batch[t] = {}
                         /\ pc[t] = "send" => \A m \in batch[t] :
                               HasResult(m) \/ InTodo(t, m)' \/ InPending(t, m)'
                         /\ pc[t] = "commit" => \A m \in batch[t] : HasResult(m)
      BY <1>2 DEF BatchesOK, HasResult
    <2>1. CASE t = s
      BY <2>1, <1>9, <1>10 DEF IInv, BatchesOK
    <2>2. CASE t # s
      BY <2>2, <1>8 DEF IInv, BatchesOK, InTodo, InPending
    <2>. QED
      BY <2>1, <2>2
  <1>. QED
    BY <1>3, <1>4, <1>11

(* Delivery moves the oldest queued result to its topic. *)
LEMMA DeliverSafe ==
    ASSUME IInv, NEW s \in Scorers, Deliver(s)
    PROVE  OffsetsOK' /\ OwnersOK' /\ BatchesOK' /\ AckedSettled' /\ ReadCovered'
  <1>1. /\ pending[s] # <<>>
        /\ topics' = topics \cup {Head(pending[s])}
        /\ pending' = [pending EXCEPT ![s] = Tail(@)]
        /\ UNCHANGED <<log, groupVars, owner, pc, fenced, batch, todo, skipped>>
    BY DEF Deliver, groupVars, scorerVars
  <1>2. OffsetsOK' /\ AckedSettled' /\ ReadCovered'
    BY <1>1, QuietSafe
  <1>3. OwnersOK'
    BY <1>1 DEF IInv, OwnersOK
  <1>4. pending[s] \in Seq(Records)
    BY DEF IInv, TypeOK
  <1>5. /\ pending'[s] = Tail(pending[s])
        /\ \A t \in Scorers \ {s} : pending'[t] = pending[t]
    BY <1>1 DEF IInv, TypeOK
  <1>6. ASSUME NEW m, InPending(s, m)
        PROVE  HasResult(m)' \/ InPending(s, m)'
    <2>1. PICK i \in 1 .. Len(pending[s]) : pending[s][i].src = m
      BY <1>6 DEF InPending
    <2>2. CASE i = 1
      <3>1. Head(pending[s]).src = m
        BY <2>1, <2>2, <1>1, <1>4
      <3>. QED
        BY <3>1, <1>1 DEF HasResult
    <2>3. CASE i # 1
      <3>1. i - 1 \in 1 .. Len(pending'[s]) /\ pending'[s][i - 1].src = m
        BY <2>1, <2>3, <1>1, <1>4, <1>5, TailHolds
      <3>. QED
        BY <3>1 DEF InPending
    <2>. QED
      BY <2>2, <2>3
  <1>7. \A m : HasResult(m) => HasResult(m)'
    BY <1>1 DEF HasResult
  <1>8. BatchesOK'
    <2>. SUFFICES ASSUME NEW t \in Scorers
                  PROVE  /\ pc[t] \in {"down", "loop"} => batch[t] = {}
                         /\ pc[t] = "send" => \A m \in batch[t] :
                               HasResult(m)' \/ InTodo(t, m) \/ InPending(t, m)'
                         /\ pc[t] = "commit" => \A m \in batch[t] : HasResult(m)'
      BY <1>1 DEF BatchesOK, InTodo
    <2>1. CASE t = s
      BY <2>1, <1>6, <1>7 DEF IInv, BatchesOK
    <2>2. CASE t # s
      BY <2>2, <1>5, <1>7 DEF IInv, BatchesOK, InPending
    <2>. QED
      BY <2>1, <2>2
  <1>. QED
    BY <1>2, <1>3, <1>8

(* flush returns when the queue is empty: every result is on its topic. *)
LEMMA FlushSafe ==
    ASSUME IInv, NEW s \in Scorers, Flush(s)
    PROVE  OffsetsOK' /\ OwnersOK' /\ BatchesOK' /\ AckedSettled' /\ ReadCovered'
  <1>1. /\ pc[s] = "send" /\ todo[s] = {} /\ pending[s] = <<>>
        /\ pc' = [pc EXCEPT ![s] = "commit"]
        /\ UNCHANGED <<log, groupVars, owner, fenced, batch, todo, pending, topics,
                       skipped>>
    BY DEF Flush, groupVars, brokerVars
  <1>2. OffsetsOK' /\ AckedSettled' /\ ReadCovered'
    BY <1>1, QuietSafe
  <1>3. OwnersOK'
    BY <1>1 DEF IInv, TypeOK, OwnersOK
  <1>4. \A m \in batch[s] : HasResult(m)
    BY <1>1 DEF IInv, BatchesOK, InTodo, InPending
  <1>5. BatchesOK'
    BY <1>1, <1>4 DEF IInv, TypeOK, BatchesOK, HasResult, InTodo, InPending
  <1>. QED
    BY <1>2, <1>3, <1>5

(* The steps that touch neither offsets nor results. *)
LEMMA ControlSafe ==
    ASSUME IInv, NEW s \in Scorers,
           \/ Start(s)
           \/ RequestStop(s)
           \/ Rejoin(s)
           \/ pc[s] \in {"loop", "commit"} /\ RaiseFrom(s)
    PROVE  OffsetsOK' /\ OwnersOK' /\ BatchesOK' /\ AckedSettled' /\ ReadCovered'
  <1>1. UNCHANGED <<log, groupVars, owner, batch, todo, pending, topics, skipped>>
    BY DEF Start, RequestStop, Rejoin, RaiseFrom, groupVars, brokerVars
  <1>2. OffsetsOK' /\ AckedSettled' /\ ReadCovered'
    BY <1>1, QuietSafe
  <1>3. OwnersOK'
    BY <1>1 DEF IInv, TypeOK, OwnersOK, Start, RequestStop, Rejoin, RaiseFrom
  <1>4. BatchesOK'
    BY <1>1 DEF IInv, TypeOK, BatchesOK, HasResult, InTodo, InPending,
                Start, RequestStop, Rejoin, RaiseFrom
  <1>. QED
    BY <1>2, <1>3, <1>4

(* Publishing only makes the log longer. *)
LEMMA PublishSafe ==
    ASSUME IInv, NEW p \in Partitions, NEW k \in Payloads, Publish(p, k)
    PROVE  OffsetsOK' /\ OwnersOK' /\ BatchesOK' /\ AckedSettled' /\ ReadCovered'
  <1>1. /\ log' = [log EXCEPT ![p] = Append(@, k)]
        /\ UNCHANGED <<owner, position, committed, pc, fenced, batch, todo, pending,
                       topics, skipped>>
    BY DEF Publish, groupVars, scorerVars, brokerVars
  <1>2. \A x \in Partitions : Len(log[x]) <= Len(log'[x]) /\ Len(log'[x]) \in Nat
    BY <1>1 DEF IInv, TypeOK
  <1>3. OffsetsOK'
    <2>. SUFFICES ASSUME NEW x \in Partitions
                  PROVE  position[x] <= Len(log'[x])
      BY <1>1 DEF IInv, OffsetsOK
    <2>. QED
      BY <1>2 DEF IInv, TypeOK, OffsetsOK
  <1>4. OwnersOK' /\ BatchesOK'
    BY <1>1 DEF IInv, OwnersOK, BatchesOK, HasResult, InTodo, InPending
  <1>5. AckedSettled' /\ ReadCovered'
    BY <1>1 DEF IInv, AckedSettled, ReadCovered, Settled, HasResult
  <1>. QED
    BY <1>3, <1>4, <1>5

-----------------------------------------------------------------------------
(* Every step preserves the invariant. *)
LEMMA InvStep == IInv /\ [Next]_vars => IInv'
  <1>. SUFFICES ASSUME IInv, [Next]_vars PROVE IInv'
    OBVIOUS
  <1>. DEFINE Rest == OffsetsOK /\ OwnersOK /\ BatchesOK /\ AckedSettled /\ ReadCovered
  <1>1. TypeOK'
    BY TypeStep DEF IInv
  <1>2. ASSUME NEW p \in Partitions, NEW k \in Payloads, Publish(p, k)
        PROVE  Rest'
    BY <1>2, PublishSafe
  <1>3. ASSUME NEW p \in Partitions, NEW s \in Scorers, Assign(p, s)
        PROVE  Rest'
    BY <1>3, AssignSafe
  <1>4. ASSUME NEW p \in Partitions, Rebalance(p)
        PROVE  Rest'
    BY <1>4, RebalanceSafe
  <1>5. ASSUME NEW s \in Scorers,
               Start(s) \/ RequestStop(s) \/ Rejoin(s) \/ LeaveLoop(s)
               \/ PollFails(s) \/ CommitFenced(s) \/ CommitFails(s)
        PROVE  Rest'
    BY <1>5, ControlSafe DEF LeaveLoop, PollFails, CommitFenced, CommitFails
  <1>6. ASSUME NEW s \in Scorers, Close(s) \/ CloseFails(s) \/ Crash(s)
        PROVE  Rest'
    BY <1>6, ExitSafe DEF Close, CloseFails, Crash
  <1>7. ASSUME NEW s \in Scorers, Poll(s)
        PROVE  Rest'
    BY <1>7, PollSafe
  <1>8. ASSUME NEW s \in Scorers, ScoreBatch(s) \/ RowError(s) \/ LoadError(s)
        PROVE  Rest'
    BY <1>8, ProduceSafe DEF ScoreBatch, RowError, LoadError, ResultKinds
  <1>9. ASSUME NEW s \in Scorers, Send(s)
        PROVE  Rest'
    BY <1>9, SendSafe
  <1>10. ASSUME NEW s \in Scorers, Deliver(s)
         PROVE  Rest'
    BY <1>10, DeliverSafe
  <1>11. ASSUME NEW s \in Scorers, Flush(s)
         PROVE  Rest'
    BY <1>11, FlushSafe
  <1>12. ASSUME NEW s \in Scorers, Commit(s)
         PROVE  Rest'
    BY <1>12, CommitSafe
  <1>13. ASSUME NEW s \in Scorers, Evict(s)
         PROVE  Rest'
    BY <1>13, EvictSafe
  <1>14. ASSUME NEW s \in Scorers, ModelMissing(s) \/ SendFails(s) \/ FlushFails(s)
         PROVE  Rest'
    BY <1>14, GiveUpSafe DEF ModelMissing, SendFails, FlushFails
  <1>15. ASSUME UNCHANGED vars
         PROVE  Rest'
    <2>1. UNCHANGED <<log, groupVars, owner, pc, fenced, batch, todo, pending, topics,
                      skipped>>
      BY <1>15 DEF vars, groupVars, scorerVars, brokerVars
    <2>2. OffsetsOK' /\ AckedSettled' /\ ReadCovered'
      BY <2>1, QuietSafe
    <2>3. OwnersOK'
      BY <2>1 DEF IInv, OwnersOK
    <2>4. BatchesOK'
      BY <2>1 DEF IInv, BatchesOK, HasResult, InTodo, InPending
    <2>. QED
      BY <2>2, <2>3, <2>4
  <1>16. Rest'
    <2>. HIDE DEF Rest
    <2>1. ASSUME Environment
          PROVE  Rest'
      BY <1>2, <1>3, <1>4, <2>1 DEF Environment
    <2>2. ASSUME NEW s \in Scorers, Progress(s)
          PROVE  Rest'
      BY <1>5, <1>6, <1>7, <1>8, <1>9, <1>10, <1>11, <1>12, <2>2 DEF Progress
    <2>3. ASSUME NEW s \in Scorers, Failure(s)
          PROVE  Rest'
      BY <1>5, <1>6, <1>8, <1>13, <1>14, <2>3 DEF Failure
    <2>. QED
      BY <1>15, <2>1, <2>2, <2>3 DEF Next
  <1>. QED
    BY <1>1, <1>16 DEF IInv

(* The inductive invariant holds in every reachable state. *)
THEOREM InvariantHolds == Spec => []IInv
  BY InvInit, InvStep, PTL DEF Spec

(* Whatever fails, an acknowledged message has a result, or the owner of   *)
(* its partition read it and gave its batch up.                            *)
THEOREM AckedAreSettled == Spec => []AckedSettled
  <1>1. IInv => AckedSettled
    BY DEF IInv
  <1>. QED
    BY InvariantHolds, <1>1, PTL

-----------------------------------------------------------------------------
(* Without the faults that give a batch up, nothing is ever given up.      *)
LEMMA NothingSkippedStep == NothingSkipped /\ [Next]_vars => NothingSkipped'
  <1>. SUFFICES ASSUME NothingSkipped, [Next]_vars,
                       FaultKinds \cap SkippingFaults = {}
                PROVE  skipped' = {}
    BY DEF NothingSkipped
  <1>1. skipped = {}
    BY DEF NothingSkipped
  <1>2. ASSUME NEW P, Release(P)
        PROVE  skipped' = {}
    BY <1>1, <1>2 DEF Release
  <1>3. ASSUME NEW s \in Scorers
        PROVE  ~ModelMissing(s) /\ ~SendFails(s) /\ ~FlushFails(s)
    BY DEF ModelMissing, SendFails, FlushFails, Fault, SkippingFaults
  <1>4. ASSUME NEW p \in Partitions, Rebalance(p)
        PROVE  skipped' = {}
    BY <1>2, <1>4 DEF Rebalance
  <1>5. ASSUME NEW s \in Scorers,
               Evict(s) \/ Close(s) \/ CloseFails(s) \/ Crash(s)
        PROVE  skipped' = {}
    BY <1>2, <1>5 DEF Evict, Close, CloseFails, Crash, Exit
  <1>6. CASE Environment
    BY <1>1, <1>4, <1>6 DEF Environment, Publish, Assign
  <1>7. ASSUME NEW s \in Scorers, Progress(s)
        PROVE  skipped' = {}
    BY <1>1, <1>5, <1>7 DEF Progress, Start, LeaveLoop, RaiseFrom, Rejoin, Poll,
       ScoreBatch, Produce, Send, Deliver, Flush, Commit, CommitFenced
  <1>8. ASSUME NEW s \in Scorers, Failure(s)
        PROVE  skipped' = {}
    BY <1>1, <1>3, <1>5, <1>8 DEF Failure, RequestStop, PollFails, CommitFails,
       RaiseFrom, RowError, LoadError, Produce
  <1>9. CASE UNCHANGED vars
    BY <1>1, <1>9 DEF vars
  <1>. QED
    BY <1>6, <1>7, <1>8, <1>9 DEF Next

(* Logs only grow, so a published message stays published. *)
LEMMA LogGrows ==
    ASSUME TypeOK, [Next]_vars, NEW p \in Partitions
    PROVE  Len(log[p]) <= Len(log'[p])
  <1>1. ASSUME NEW x \in Partitions, NEW k \in Payloads, Publish(x, k)
        PROVE  Len(log[p]) <= Len(log'[p])
    BY <1>1 DEF TypeOK, Publish
  <1>2. CASE log' = log
    BY <1>2 DEF TypeOK
  <1>3. (\E x \in Partitions, k \in Payloads : Publish(x, k)) \/ log' = log
    BY DEF Next, Environment, Progress, Failure, Assign, Rebalance, Start, LeaveLoop,
       RaiseFrom, Close, Exit, Rejoin, Poll, ScoreBatch, Produce, Send, Deliver, Flush,
       Commit, CommitFenced, Evict, RequestStop, Crash, CloseFails, PollFails, RowError,
       LoadError, ModelMissing, GiveUp, SendFails, FlushFails, CommitFails, vars
  <1>. QED
    BY <1>1, <1>2, <1>3

(* Only published messages are polled, scored, queued and delivered. *)
LEMMA InFlightStep == IInv /\ InFlightPublished /\ [Next]_vars => InFlightPublished'
  <1>. SUFFICES ASSUME IInv, InFlightPublished, [Next]_vars
                PROVE  InFlightPublished'
    OBVIOUS
  <1>1. TypeOK /\ TypeOK'
    BY TypeStep DEF IInv
  <1>2. ASSUME NEW m \in Messages, IsPublished(m)
        PROVE  IsPublished(m)'
    <2>1. m[1] \in Partitions /\ m[2] \in Nat
      BY DEF Messages
    <2>2. /\ Len(log[m[1]]) \in Nat /\ Len(log'[m[1]]) \in Nat
          /\ Len(log[m[1]]) <= Len(log'[m[1]])
      BY <1>1, <2>1, LogGrows DEF TypeOK
    <2>. QED
      BY <1>2, <2>1, <2>2 DEF IsPublished
  <1>. DEFINE Fine(s) ==
         /\ \A m \in batch[s] : IsPublished(m)
         /\ \A r \in todo[s] : IsPublished(r.src)
         /\ \A i \in 1 .. Len(pending[s]) : IsPublished(pending[s][i].src)
  <1>3. ASSUME NEW s \in Scorers, batch'[s] \subseteq batch[s],
               todo'[s] \subseteq todo[s], pending'[s] = pending[s] \/ pending'[s] = <<>>
        PROVE  Fine(s)'
    <2>1. Fine(s)
      BY DEF InFlightPublished
    <2>2. /\ batch[s] \subseteq Messages /\ todo[s] \subseteq Records
          /\ pending[s] \in Seq(Records)
      BY <1>1 DEF TypeOK
    <2>3. \A r \in Records : r.src \in Messages
      BY DEF Records
    <2>4. \A i \in 1 .. Len(pending[s]) : pending[s][i].src \in Messages
      BY <2>2, <2>3
    <2>5. \A m \in batch'[s] : IsPublished(m)'
      BY <1>2, <1>3, <2>1, <2>2
    <2>6. \A r \in todo'[s] : IsPublished(r.src)'
      BY <1>2, <1>3, <2>1, <2>2, <2>3
    <2>7. (\A i \in 1 .. Len(pending[s]) : IsPublished(pending[s][i].src))'
      <3>. SUFFICES ASSUME NEW i \in 1 .. Len(pending'[s])
                    PROVE  IsPublished(pending[s][i].src)'
        OBVIOUS
      <3>1. pending'[s] = pending[s]
        BY <1>3
      <3>2. i \in 1 .. Len(pending[s]) /\ pending'[s][i] = pending[s][i]
        BY <3>1
      <3>. QED
        BY <1>2, <2>1, <2>4, <3>2
    <2>. QED
      BY <2>5, <2>6, <2>7
  <1>. DEFINE Others(s) == \A t \in Scorers \ {s} :
         batch'[t] = batch[t] /\ todo'[t] = todo[t] /\ pending'[t] = pending[t]
  <1>4. ASSUME NEW s \in Scorers, Others(s), Fine(s)'
        PROVE  InFlightPublished'
    <2>1. \A t \in Scorers \ {s} : Fine(t)'
      BY <1>3, <1>4
    <2>2. \A t \in Scorers : Fine(t)'
      BY <1>4, <2>1
    <2>. QED
      BY <2>2 DEF InFlightPublished
  <1>5. ASSUME NEW s \in Scorers, Poll(s)
        PROVE  InFlightPublished'
    <2>1. PICK n \in [Partitions -> 0 .. BatchSize] :
            /\ \A p \in Partitions :
                  n[p] > 0 => owner[p] = s /\ position[p] + n[p] <= Len(log[p])
            /\ batch' = [batch EXCEPT ![s] = Slice(n)]
      BY <1>5 DEF Poll
    <2>2. UNCHANGED <<log, todo, pending>>
      BY <1>5 DEF Poll
    <2>3. \A m \in Slice(n) : IsPublished(m)
      <3>. SUFFICES ASSUME NEW p \in Partitions,
                           NEW o \in position[p] .. position[p] + n[p] - 1
                    PROVE  o < Len(log[p])
        BY DEF Slice, IsPublished
      <3>1. /\ position[p] \in Nat /\ n[p] \in Nat /\ Len(log[p]) \in Nat
        BY <1>1, ScorerAssumption DEF TypeOK
      <3>2. n[p] > 0
        BY <3>1
      <3>. QED
        BY <2>1, <3>1, <3>2
    <2>4. Fine(s)'
      BY <1>1, <2>1, <2>2, <2>3 DEF TypeOK, InFlightPublished, IsPublished
    <2>5. Others(s)
      BY <1>1, <2>1, <2>2 DEF TypeOK
    <2>. QED
      BY <1>4, <2>4, <2>5
  <1>6. ASSUME NEW s \in Scorers, ScoreBatch(s) \/ RowError(s) \/ LoadError(s)
        PROVE  InFlightPublished'
    <2>1. PICK k \in ResultKinds : Produce(s, k)
      BY <1>6 DEF ScoreBatch, RowError, LoadError, ResultKinds
    <2>2. /\ todo' = [todo EXCEPT ![s] = ResultsOf(s, k)]
          /\ UNCHANGED <<log, batch, pending>>
      BY <2>1 DEF Produce
    <2>3. \A r \in ResultsOf(s, k) : r.src \in batch[s]
      BY DEF ResultsOf, Good
    <2>4. Fine(s)'
      BY <1>1, <2>2, <2>3 DEF TypeOK, InFlightPublished, IsPublished
    <2>5. Others(s)
      BY <1>1, <2>2 DEF TypeOK
    <2>. QED
      BY <1>4, <2>4, <2>5
  <1>7. ASSUME NEW s \in Scorers, Send(s)
        PROVE  InFlightPublished'
    <2>1. PICK r \in todo[s] :
            /\ pending' = [pending EXCEPT ![s] = Append(@, r)]
            /\ todo' = [todo EXCEPT ![s] = @ \ {r}]
      BY <1>7 DEF Send
    <2>2. UNCHANGED <<log, batch>>
      BY <1>7 DEF Send
    <2>3. pending[s] \in Seq(Records) /\ r \in Records /\ Len(pending[s]) \in Nat
      BY <1>1 DEF TypeOK
    <2>4. /\ Append(pending[s], r)[Len(pending[s]) + 1] = r
          /\ Len(Append(pending[s], r)) = Len(pending[s]) + 1
          /\ \A i \in 1 .. Len(pending[s]) : Append(pending[s], r)[i] = pending[s][i]
      BY <2>3, AppendHolds
    <2>5. pending'[s] = Append(pending[s], r) /\ todo'[s] = todo[s] \ {r}
      BY <1>1, <2>1 DEF TypeOK
    <2>6. \A i \in 1 .. Len(pending'[s]) : IsPublished(pending'[s][i].src)
      <3>. SUFFICES ASSUME NEW i \in 1 .. Len(pending'[s])
                    PROVE  IsPublished(pending'[s][i].src)
        OBVIOUS
      <3>1. CASE i = Len(pending[s]) + 1
        BY <2>4, <2>5, <3>1 DEF InFlightPublished
      <3>2. CASE i # Len(pending[s]) + 1
        <4>1. i \in 1 .. Len(pending[s])
          BY <2>3, <2>4, <2>5, <3>2
        <4>2. pending'[s][i] = pending[s][i]
          BY <2>4, <2>5, <4>1
        <4>. QED
          BY <4>1, <4>2 DEF InFlightPublished
      <3>. QED
        BY <3>1, <3>2
    <2>7. Fine(s)'
      <3>1. \A m \in batch'[s] : IsPublished(m)'
        BY <2>2 DEF InFlightPublished, IsPublished
      <3>2. \A q \in todo'[s] : IsPublished(q.src)'
        BY <2>2, <2>5 DEF InFlightPublished, IsPublished
      <3>3. (\A i \in 1 .. Len(pending[s]) : IsPublished(pending[s][i].src))'
        BY <2>2, <2>6 DEF IsPublished
      <3>. QED
        BY <3>1, <3>2, <3>3
    <2>8. Others(s)
      BY <1>1, <2>1, <2>2 DEF TypeOK
    <2>. QED
      BY <1>4, <2>7, <2>8
  <1>8. ASSUME NEW s \in Scorers, Deliver(s)
        PROVE  InFlightPublished'
    <2>1. /\ pending[s] # <<>>
          /\ pending' = [pending EXCEPT ![s] = Tail(@)]
          /\ UNCHANGED <<log, batch, todo>>
      BY <1>8 DEF Deliver, scorerVars
    <2>2. pending[s] \in Seq(Records) /\ pending'[s] = Tail(pending[s])
      BY <1>1, <2>1 DEF TypeOK
    <2>3. \A i \in 1 .. Len(Tail(pending[s])) :
            /\ i + 1 \in 1 .. Len(pending[s])
            /\ Tail(pending[s])[i] = pending[s][i + 1]
      BY <2>1, <2>2
    <2>4. Fine(s)'
      <3>1. \A m \in batch'[s] : IsPublished(m)'
        BY <2>1 DEF InFlightPublished, IsPublished
      <3>2. \A q \in todo'[s] : IsPublished(q.src)'
        BY <2>1 DEF InFlightPublished, IsPublished
      <3>3. \A i \in 1 .. Len(pending'[s]) : IsPublished(pending'[s][i].src)
        BY <2>2, <2>3 DEF InFlightPublished
      <3>4. (\A i \in 1 .. Len(pending[s]) : IsPublished(pending[s][i].src))'
        BY <2>1, <3>3 DEF IsPublished
      <3>. QED
        BY <3>1, <3>2, <3>4
    <2>5. Others(s)
      BY <1>1, <2>1 DEF TypeOK
    <2>. QED
      BY <1>4, <2>4, <2>5
  <1>9. ASSUME \A s \in Scorers :
                 /\ batch'[s] \subseteq batch[s]
                 /\ todo'[s] \subseteq todo[s]
                 /\ pending'[s] = pending[s] \/ pending'[s] = <<>>
        PROVE  InFlightPublished'
    BY <1>3, <1>9 DEF InFlightPublished
  <1>10. ASSUME NEW s \in Scorers,
                \/ Exit(s) \/ GiveUp(s) \/ RaiseFrom(s) \/ Start(s) \/ Rejoin(s)
                \/ Flush(s) \/ Commit(s) \/ Evict(s) \/ RequestStop(s)
         PROVE  InFlightPublished'
    <2>1. /\ batch' = batch \/ batch' = [batch EXCEPT ![s] = {}]
          /\ todo' = todo \/ todo' = [todo EXCEPT ![s] = {}]
          /\ pending' = pending \/ pending' = [pending EXCEPT ![s] = <<>>]
      BY <1>10 DEF Exit, GiveUp, RaiseFrom, Start, Rejoin, Flush, Commit, Evict,
                   RequestStop
    <2>2. \A t \in Scorers :
            /\ batch'[t] \subseteq batch[t]
            /\ todo'[t] \subseteq todo[t]
            /\ pending'[t] = pending[t] \/ pending'[t] = <<>>
      BY <1>1, <2>1 DEF TypeOK
    <2>. QED
      BY <1>9, <2>2
  <1>11. ASSUME Environment \/ UNCHANGED vars
         PROVE  InFlightPublished'
    <2>1. batch' = batch /\ todo' = todo /\ pending' = pending
      BY <1>11 DEF Environment, Publish, Assign, Rebalance, vars, scorerVars
    <2>. QED
      BY <1>9, <2>1
  <1>12. ASSUME NEW s \in Scorers, Progress(s)
         PROVE  InFlightPublished'
    <2>1. CASE LeaveLoop(s) \/ Close(s) \/ CommitFenced(s)
      BY <1>10, <2>1 DEF LeaveLoop, Close, CommitFenced
    <2>. QED
      BY <1>5, <1>6, <1>7, <1>8, <1>10, <1>12, <2>1 DEF Progress
  <1>13. ASSUME NEW s \in Scorers, Failure(s)
         PROVE  InFlightPublished'
    <2>1. CASE Crash(s) \/ CloseFails(s) \/ PollFails(s) \/ CommitFails(s)
               \/ ModelMissing(s) \/ SendFails(s) \/ FlushFails(s)
      BY <1>10, <2>1 DEF Crash, CloseFails, PollFails, CommitFails, ModelMissing,
                         SendFails, FlushFails
    <2>. QED
      BY <1>6, <1>10, <1>13, <2>1 DEF Failure
  <1>. QED
    BY <1>11, <1>12, <1>13 DEF Next

(* Nothing is in flight at the start. *)
LEMMA InFlightInit == Init => InFlightPublished /\ NothingSkipped
  BY DEF Init, InFlightPublished, NothingSkipped

(* A delivery of the scorer is a delivery of the contract. *)
LEMMA DeliverImplements ==
    ASSUME IInv, InFlightPublished, NEW s \in Scorers, Deliver(s)
    PROVE  [Contract!Next]_(Contract!vars)
  <1>. DEFINE r == Head(pending[s])
  <1>1. pending[s] \in Seq(Records) /\ pending[s] # <<>>
    BY DEF Deliver, IInv, TypeOK
  <1>2. r \in Records /\ r = pending[s][1] /\ 1 \in 1 .. Len(pending[s])
    BY <1>1
  <1>3. IsPublished(r.src) /\ r.src \in Messages
    BY <1>2 DEF InFlightPublished, Records
  <1>4. PICK p \in Partitions, o \in Nat : r.src = <<p, o>>
    BY <1>3 DEF Messages
  <1>5. o \in 0 .. Len(log[p]) - 1
    BY <1>3, <1>4 DEF IsPublished, IInv, TypeOK
  <1>6. topics' = topics \cup {r}
    BY DEF Deliver
  <1>7. {q.src : q \in topics'} = {q.src : q \in topics} \cup {<<p, o>>}
    <2>. HIDE DEF r
    <2>. QED
      BY <1>4, <1>6
  <1>8. log' = log /\ committed' = committed
    BY DEF Deliver, groupVars
  <1>9. Contract!Deliver(p, o)
    BY <1>7, <1>8 DEF Contract!Deliver
  <1>. QED
    BY <1>5, <1>9 DEF Contract!Next

(* A commit of the scorer is an acknowledgement of the contract, provided  *)
(* that no batch was given up.                                             *)
LEMMA CommitImplements ==
    ASSUME IInv, IInv', skipped' = {}, NEW s \in Scorers, Commit(s)
    PROVE  [Contract!Next]_(Contract!vars)
  <1>1. /\ log' = log /\ topics' = topics
        /\ committed' = [p \in Partitions |->
                           IF owner[p] = s THEN position[p] ELSE committed[p]]
    BY DEF Commit, brokerVars
  <1>2. ASSUME NEW p \in Partitions
        PROVE  /\ committed[p] <= committed'[p]
               /\ committed'[p] <= Len(log[p])
    BY <1>1 DEF IInv, TypeOK, OffsetsOK
  <1>3. ASSUME NEW p \in Partitions, NEW o \in 0 .. committed'[p] - 1
        PROVE  <<p, o>> \in {r.src : r \in topics}
    <2>1. Settled(<<p, o>>)'
      BY DEF IInv, AckedSettled
    <2>. QED
      BY <1>1, <2>1 DEF Settled, HasResult
  <1>4. committed' \in [Partitions -> Nat]
    BY DEF IInv, TypeOK
  <1>5. Contract!Acknowledge
    BY <1>1, <1>2, <1>3, <1>4 DEF Contract!Acknowledge
  <1>. QED
    BY <1>5 DEF Contract!Next

(* Publishing is publishing. *)
LEMMA PublishImplements ==
    ASSUME TypeOK, NEW p \in Partitions, NEW k \in Payloads, Publish(p, k)
    PROVE  [Contract!Next]_(Contract!vars)
  <1>1. /\ log' = [log EXCEPT ![p] = Append(@, k)]
        /\ topics' = topics /\ committed' = committed
    BY DEF Publish, groupVars, brokerVars
  <1>2. \A x \in Partitions : Len(log'[x]) = IF x = p THEN Len(log[x]) + 1
                                                       ELSE Len(log[x])
    BY <1>1 DEF TypeOK
  <1>3. [x \in Partitions |-> Len(log'[x])]
          = [[x \in Partitions |-> Len(log[x])] EXCEPT ![p] = @ + 1]
    BY <1>2
  <1>4. Contract!Publish(p)
    BY <1>1, <1>3 DEF Contract!Publish
  <1>. QED
    BY <1>4 DEF Contract!Next

(* No other step is visible to the contract. *)
LEMMA OthersImplement ==
    ASSUME [Next]_vars,
           ~ \E p \in Partitions, k \in Payloads : Publish(p, k),
           ~ \E s \in Scorers : Deliver(s) \/ Commit(s)
    PROVE  UNCHANGED Contract!vars
  <1>1. log' = log /\ topics' = topics /\ committed' = committed
    BY DEF Next, Environment, Progress, Failure, Assign, Rebalance, Start, LeaveLoop,
       RaiseFrom, Close, Exit, Rejoin, Poll, ScoreBatch, Produce, Send, Flush,
       CommitFenced, Evict, RequestStop, Crash, CloseFails, PollFails, RowError,
       LoadError, ModelMissing, GiveUp, SendFails, FlushFails, CommitFails, vars,
       groupVars, scorerVars, brokerVars
  <1>. QED
    BY <1>1 DEF Contract!vars

(* At-least-once delivery: where no fault makes process_once give a batch  *)
(* up - whatever crashes, evictions, rebalances, stops and failures to     *)
(* poll, commit or close there are - the scorer implements the contract.   *)
THEOREM DeliversAtLeastOnce ==
    ASSUME FaultKinds \cap SkippingFaults = {}
    PROVE  Spec => ImplementsContract
  <1>1. Init => Contract!Init
    <2>. SUFFICES ASSUME Init PROVE Contract!Init
      OBVIOUS
    <2>1. [p \in Partitions |-> Len(log[p])] = [p \in Partitions |-> 0]
      BY DEF Init
    <2>. QED
      BY <2>1 DEF Init, Contract!Init
  <1>2. ASSUME IInv, IInv', InFlightPublished, NothingSkipped', [Next]_vars
        PROVE  [Contract!Next]_(Contract!vars)
    <2>1. skipped' = {}
      BY <1>2 DEF NothingSkipped
    <2>2. CASE \E p \in Partitions, k \in Payloads : Publish(p, k)
      BY <1>2, <2>2, PublishImplements DEF IInv
    <2>3. CASE \E s \in Scorers : Deliver(s)
      BY <1>2, <2>3, DeliverImplements
    <2>4. CASE \E s \in Scorers : Commit(s)
      BY <1>2, <2>1, <2>4, CommitImplements
    <2>. QED
      BY <1>2, <2>2, <2>3, <2>4, OthersImplement
  <1>3. Spec => []InFlightPublished
    BY InvariantHolds, InFlightInit, InFlightStep, PTL DEF Spec
  <1>4. Spec => []NothingSkipped
    BY InFlightInit, NothingSkippedStep, PTL DEF Spec
  <1>. QED
    BY <1>1, <1>2, <1>3, <1>4, InvariantHolds, PTL
       DEF Spec, ImplementsContract, Contract!Spec

-----------------------------------------------------------------------------
(* The order of scores, for one replica.                                   *)

(* A message that can be scored, and its score.                            *)
ScoreOf(p, o) == [src |-> <<p, o>>, kind |-> "score"]
Scorable(p, o) == o \in Nat /\ o < Len(log[p]) /\ IsGood(<<p, o>>)

(* The score of a message is still to come after the i-th of the queue: it *)
(* is queued behind it, to be sent, to be scored or to be read, or the     *)
(* message was given up on.                                                *)
Coming(s, p, o, i) ==
    \/ o >= position[p]
    \/ <<p, o>> \in skipped
    \/ pc[s] = "score" /\ <<p, o>> \in batch[s]
    \/ ScoreOf(p, o) \in todo[s]
    \/ \E j \in 1 .. Len(pending[s]) : j > i /\ pending[s][j] = ScoreOf(p, o)

(* Where results are, by the place in the code.                            *)
Places(s) ==
    /\ todo[s] # {} => pc[s] = "send"
    /\ \A r \in todo[s] : r.src \in batch[s]
    /\ pc[s] = "commit" => pending[s] = << >>

(* Only what can be scored has a score.                                    *)
Genuine(r) == r.kind = "score" => Scorable(r.src[1], r.src[2])
AllGenuine(s) ==
    /\ \A r \in topics : Genuine(r)
    /\ \A r \in todo[s] : Genuine(r)
    /\ \A i \in 1 .. Len(pending[s]) : Genuine(pending[s][i])

(* What is in flight is not acknowledged, and a batch is the end of what   *)
(* was read.                                                               *)
Again(s) ==
    /\ \A p \in Partitions : \A x \in Nat : <<p, x>> \in batch[s] =>
          /\ committed[p] <= x
          /\ \A o \in Nat : x <= o /\ o < position[p] => <<p, o>> \in batch[s]
    /\ \A p \in Partitions : \A x \in Nat : \A i \in 1 .. Len(pending[s]) :
          pending[s][i] = ScoreOf(p, x) => committed[p] <= x

(* Scores are sent in order.                                               *)
InOrder(s) ==
    \A p \in Partitions : \A x, o \in Nat :
        /\ ScoreOf(p, x) \in todo[s] /\ <<p, o>> \in batch[s] /\ x < o /\ Scorable(p, o)
        => ScoreOf(p, o) \in todo[s]

(* After a queued score that of every newer message is still to come, ...  *)
NewerFollow(s) ==
    \A p \in Partitions : \A x, o \in Nat : \A i \in 1 .. Len(pending[s]) :
        pending[s][i] = ScoreOf(p, x) /\ x < o /\ Scorable(p, o) => Coming(s, p, o, i)

(* ... and so is every score newer than the last on the topic.             *)
NewestComes(s) ==
    \A p \in Partitions : \A o \in Nat :
        ScoreOf(p, o) \in topics /\ lastScore[p] <= o => Coming(s, p, o, 0)

OrderInv(s) ==
    Places(s) /\ AllGenuine(s) /\ Again(s) /\ InOrder(s) /\ NewerFollow(s) /\ NewestComes(s)

(* A record of a score is the score of its message.                        *)
LEMMA RecordIs ==
    ASSUME NEW r \in Records, r.kind = "score"
    PROVE  /\ r.src[1] \in Partitions /\ r.src[2] \in Nat
           /\ r = ScoreOf(r.src[1], r.src[2])
  BY DEF Records, Messages, ScoreOf

(* The types of what one scorer holds.                                     *)
LEMMA HeldTypes ==
    ASSUME TypeOK, NEW s \in Scorers
    PROVE  /\ batch[s] \subseteq Messages /\ todo[s] \subseteq Records
           /\ pending[s] \in Seq(Records) /\ topics \subseteq Records
           /\ \A p \in Partitions : /\ position[p] \in Nat /\ committed[p] \in Nat
                                    /\ lastScore[p] \in Nat /\ log[p] \in Seq(Payloads)
  BY DEF TypeOK

(* Steps after which a score that was to come still is.                    *)
LEMMA OrderKept ==
    ASSUME NEW s, AllGenuine(s), NewerFollow(s), NewestComes(s),
           log' = log, topics' = topics, lastScore' = lastScore,
           pending'[s] = pending[s],
           \A p \in Partitions : \A o, i \in Nat :
              Scorable(p, o) /\ Coming(s, p, o, i) => Coming(s, p, o, i)'
    PROVE  NewerFollow(s)' /\ NewestComes(s)'
  <1>1. \A p, o : Scorable(p, o)' <=> Scorable(p, o)
    BY DEF Scorable, IsGood
  <1>2. ASSUME NEW p \in Partitions, NEW x \in Nat, NEW o \in Nat,
               NEW i \in 1 .. Len(pending'[s]),
               pending'[s][i] = ScoreOf(p, x), x < o, Scorable(p, o)'
        PROVE  Coming(s, p, o, i)'
    <2>1. Scorable(p, o)
      BY <1>1, <1>2
    <2>2. i \in 1 .. Len(pending[s]) /\ pending[s][i] = ScoreOf(p, x) /\ i \in Nat
      BY <1>2
    <2>3. Coming(s, p, o, i)
      BY <1>2, <2>1, <2>2 DEF NewerFollow
    <2>. QED
      BY <2>1, <2>2, <2>3
  <1>3. ASSUME NEW p \in Partitions, NEW o \in Nat,
               ScoreOf(p, o) \in topics', lastScore'[p] <= o
        PROVE  Coming(s, p, o, 0)'
    <2>1. ScoreOf(p, o) \in topics
      BY <1>3
    <2>2. Scorable(p, o)
      <3>1. Genuine(ScoreOf(p, o))
        BY <2>1 DEF AllGenuine
      <3>. QED
        BY <3>1 DEF Genuine, ScoreOf
    <2>3. Coming(s, p, o, 0)
      BY <1>3, <2>1 DEF NewestComes
    <2>. QED
      BY <2>2, <2>3
  <1>4. NewerFollow(s)'
    BY <1>2 DEF NewerFollow, ScoreOf
  <1>5. NewestComes(s)'
    BY <1>3 DEF NewestComes, ScoreOf
  <1>. QED
    BY <1>4, <1>5

(* Steps that move no message.                                             *)
LEMMA QuietOrder ==
    ASSUME NEW s, OrderInv(s),
           UNCHANGED <<log, position, committed, topics, lastScore, skipped>>,
           batch'[s] = batch[s], todo'[s] = todo[s], pending'[s] = pending[s],
           \/ pc'[s] = pc[s]
           \/ /\ pc[s] # "score" /\ todo[s] = {}
              /\ pc'[s] = "commit" => pending[s] = << >>
    PROVE  OrderInv(s)'
  <1>1. Places(s)'
    BY DEF OrderInv, Places
  <1>2. AllGenuine(s)'
    BY DEF OrderInv, AllGenuine, Genuine, Scorable, IsGood
  <1>3. Again(s)'
    BY DEF OrderInv, Again, ScoreOf
  <1>4. InOrder(s)'
    BY DEF OrderInv, InOrder, Scorable, IsGood, ScoreOf
  <1>5. \A p \in Partitions : \A o, i \in Nat :
           Scorable(p, o) /\ Coming(s, p, o, i) => Coming(s, p, o, i)'
    BY DEF Coming, ScoreOf
  <1>6. NewerFollow(s)' /\ NewestComes(s)'
    BY <1>5, OrderKept DEF OrderInv
  <1>. QED
    BY <1>1, <1>2, <1>3, <1>4, <1>6 DEF OrderInv

(* Partitions are read again from the committed offset.                    *)
LEMMA RollbackOrder ==
    ASSUME TypeOK, OffsetsOK, NEW s \in Scorers, OrderInv(s),
           NEW P \in SUBSET Partitions, Release(P),
           UNCHANGED <<log, committed, topics, lastScore, batch, todo, pending, pc>>
    PROVE  OrderInv(s)'
  <1>1. /\ \A p \in Partitions : position'[p] = IF p \in P THEN committed[p] ELSE position[p]
        /\ skipped' = {m \in skipped : m[1] \in P => m[2] < committed[m[1]]}
    BY DEF Release
  <1>2. \A p \in Partitions :
           /\ position'[p] \in Nat /\ position[p] \in Nat /\ committed[p] \in Nat
           /\ position'[p] <= position[p] /\ committed[p] <= position[p]
    <2>1. \A p \in Partitions : position[p] \in Nat /\ committed[p] \in Nat
      BY HeldTypes
    <2>2. \A p \in Partitions : committed[p] <= position[p]
      BY DEF OffsetsOK
    <2>. QED
      BY <1>1, <2>1, <2>2
  <1>3. Places(s)'
    BY DEF OrderInv, Places
  <1>4. AllGenuine(s)'
    BY DEF OrderInv, AllGenuine, Genuine, Scorable, IsGood
  <1>5. Again(s)'
    <2>1. \A p \in Partitions, o \in Nat : o < position'[p] => o < position[p]
      BY <1>2
    <2>. QED
      BY <2>1 DEF OrderInv, Again, ScoreOf
  <1>6. InOrder(s)'
    BY DEF OrderInv, InOrder, Scorable, IsGood, ScoreOf
  <1>7. \A p \in Partitions : \A o, i \in Nat :
           Scorable(p, o) /\ Coming(s, p, o, i) => Coming(s, p, o, i)'
    <2>. SUFFICES ASSUME NEW p \in Partitions, NEW o \in Nat, NEW i \in Nat, Coming(s, p, o, i)
                  PROVE  Coming(s, p, o, i)'
      OBVIOUS
    <2>1. CASE o >= position[p]
      <3>1. o >= position'[p]
        BY <1>2, <2>1
      <3>. QED
        BY <3>1 DEF Coming
    <2>2. CASE <<p, o>> \in skipped
      <3>1. <<p, o>>[1] = p /\ <<p, o>>[2] = o
        OBVIOUS
      <3>2. <<p, o>> \in skipped' \/ (p \in P /\ ~(o < committed[p]))
        BY <1>1, <2>2, <3>1
      <3>3. p \in P /\ ~(o < committed[p]) => o >= position'[p]
        BY <1>1, <1>2
      <3>. QED
        BY <3>2, <3>3 DEF Coming
    <2>3. CASE \/ pc[s] = "score" /\ <<p, o>> \in batch[s]
               \/ ScoreOf(p, o) \in todo[s]
               \/ \E j \in 1 .. Len(pending[s]) : j > i /\ pending[s][j] = ScoreOf(p, o)
      BY <2>3 DEF Coming, ScoreOf
    <2>. QED
      BY <2>1, <2>2, <2>3 DEF Coming
  <1>8. NewerFollow(s)' /\ NewestComes(s)'
    BY <1>7, OrderKept DEF OrderInv
  <1>. QED
    BY <1>3, <1>4, <1>5, <1>6, <1>8 DEF OrderInv

(* A poll reads on from where the last one ended.                          *)
LEMMA PollOrder ==
    ASSUME IInv, NEW s \in Scorers, OrderInv(s), Poll(s)
    PROVE  OrderInv(s)'
  <1>1. PICK n \in [Partitions -> 0 .. BatchSize] :
          /\ batch' = [batch EXCEPT ![s] = Slice(n)]
          /\ position' = [p \in Partitions |-> position[p] + n[p]]
    BY DEF Poll
  <1>2. /\ pc[s] = "loop" /\ pc' = [pc EXCEPT ![s] = "score"]
        /\ UNCHANGED <<log, committed, topics, lastScore, todo, pending, skipped>>
    BY DEF Poll, brokerVars
  <1>3. /\ TypeOK /\ batch'[s] = Slice(n) /\ pc'[s] = "score" /\ batch[s] = {}
        /\ BatchSize \in Nat
    BY <1>1, <1>2, ScorerAssumption DEF IInv, TypeOK, BatchesOK
  <1>4. todo[s] = {}
    BY <1>2 DEF OrderInv, Places
  <1>5. \A p \in Partitions : /\ position[p] \in Nat /\ n[p] \in Nat /\ committed[p] \in Nat
                              /\ position'[p] = position[p] + n[p]
                              /\ committed[p] <= position[p]
    <2>1. \A p \in Partitions : position[p] \in Nat /\ committed[p] \in Nat
      BY <1>3, HeldTypes
    <2>2. \A p \in Partitions : committed[p] <= position[p]
      BY DEF IInv, OffsetsOK
    <2>. QED
      BY <1>1, <1>3, <2>1, <2>2
  <1>6. \A p \in Partitions : \A o \in Nat :
           <<p, o>> \in batch'[s] <=> position[p] <= o /\ o < position'[p]
    <2>. SUFFICES ASSUME NEW p \in Partitions, NEW o \in Nat
                  PROVE  <<p, o>> \in Slice(n) <=> position[p] <= o /\ o < position'[p]
      BY <1>3
    <2>1. <<p, o>> \in Slice(n) <=> o \in position[p] .. position[p] + n[p] - 1
      BY DEF Slice
    <2>. QED
      BY <1>5, <2>1
  <1>7. Places(s)'
    BY <1>2, <1>3, <1>4 DEF Places
  <1>8. AllGenuine(s)'
    BY <1>2, <1>4 DEF OrderInv, AllGenuine, Genuine, Scorable, IsGood
  <1>9. Again(s)'
    <2>1. ASSUME NEW p \in Partitions, NEW x \in Nat, <<p, x>> \in batch'[s]
          PROVE  /\ committed[p] <= x
                 /\ \A o \in Nat : x <= o /\ o < position'[p] => <<p, o>> \in batch'[s]
      <3>1. position[p] <= x
        BY <1>6, <2>1
      <3>2. \A o \in Nat : x <= o => position[p] <= o
        BY <1>5, <3>1
      <3>. QED
        BY <1>5, <1>6, <3>1, <3>2
    <2>2. \A p \in Partitions : \A x \in Nat : \A i \in 1 .. Len(pending[s]) :
             pending[s][i] = ScoreOf(p, x) => committed[p] <= x
      BY DEF OrderInv, Again
    <2>. QED
      BY <1>2, <2>1, <2>2 DEF Again, ScoreOf
  <1>10. InOrder(s)'
    BY <1>2, <1>4 DEF InOrder
  <1>11. \A p \in Partitions : \A o, i \in Nat :
            Scorable(p, o) /\ Coming(s, p, o, i) => Coming(s, p, o, i)'
    <2>. SUFFICES ASSUME NEW p \in Partitions, NEW o \in Nat, NEW i \in Nat, Coming(s, p, o, i)
                  PROVE  Coming(s, p, o, i)'
      OBVIOUS
    <2>1. CASE o >= position[p]
      <3>1. o >= position'[p] \/ <<p, o>> \in batch'[s]
        BY <1>5, <1>6, <2>1
      <3>. QED
        BY <1>3, <3>1 DEF Coming
    <2>2. CASE \/ <<p, o>> \in skipped
               \/ \E j \in 1 .. Len(pending[s]) : j > i /\ pending[s][j] = ScoreOf(p, o)
      BY <1>2, <2>2 DEF Coming, ScoreOf
    <2>. QED
      BY <1>2, <1>4, <2>1, <2>2 DEF Coming
  <1>12. NewerFollow(s)' /\ NewestComes(s)'
    BY <1>2, <1>11, OrderKept DEF OrderInv
  <1>. QED
    BY <1>7, <1>8, <1>9, <1>10, <1>12 DEF OrderInv

(* A batch that is scored has all its scores to send.                      *)
LEMMA ScoreOrder ==
    ASSUME IInv, InFlightPublished, NEW s \in Scorers, OrderInv(s), ScoreBatch(s)
    PROVE  OrderInv(s)'
  <1>1. /\ pc[s] = "score" /\ pc' = [pc EXCEPT ![s] = "send"]
        /\ todo' = [todo EXCEPT ![s] = ResultsOf(s, "score")]
        /\ UNCHANGED <<log, position, committed, topics, lastScore, batch, pending, skipped>>
    BY DEF ScoreBatch, Produce, groupVars, brokerVars
  <1>2. /\ TypeOK /\ pc'[s] = "send" /\ todo'[s] = ResultsOf(s, "score")
        /\ todo[s] = {}
    BY <1>1 DEF IInv, TypeOK, OrderInv, Places
  <1>3. /\ batch[s] \subseteq Messages /\ \A m \in batch[s] : m[2] < Len(log[m[1]])
    BY <1>2, HeldTypes DEF InFlightPublished, IsPublished
  <1>4. \A p \in Partitions : \A o \in Nat :
           <<p, o>> \in batch[s] /\ Scorable(p, o) => ScoreOf(p, o) \in todo'[s]
    BY <1>2 DEF ResultsOf, Good, Scorable, ScoreOf
  <1>5. \A r \in todo'[s] : /\ r.src \in batch[s]
                            /\ r.kind = "score" => IsGood(r.src)
    BY <1>2 DEF ResultsOf, Good
  <1>6. Places(s)'
    BY <1>1, <1>2, <1>5 DEF Places
  <1>7. \A r \in todo'[s] : Genuine(r)
    <2>. SUFFICES ASSUME NEW r \in todo'[s], r.kind = "score"
                  PROVE  Scorable(r.src[1], r.src[2])
      BY DEF Genuine
    <2>1. r.src \in Messages /\ IsGood(r.src) /\ r.src[2] < Len(log[r.src[1]])
      BY <1>3, <1>5
    <2>2. r.src = <<r.src[1], r.src[2]>> /\ r.src[2] \in Nat
      BY <2>1 DEF Messages
    <2>. QED
      BY <2>1, <2>2 DEF Scorable
  <1>8. AllGenuine(s)'
    BY <1>1, <1>7 DEF OrderInv, AllGenuine, Genuine, Scorable, IsGood
  <1>9. Again(s)'
    BY <1>1 DEF OrderInv, Again, ScoreOf
  <1>10. InOrder(s)'
    BY <1>1, <1>4 DEF InOrder, Scorable, IsGood, ScoreOf
  <1>11. \A p \in Partitions : \A o, i \in Nat :
            Scorable(p, o) /\ Coming(s, p, o, i) => Coming(s, p, o, i)'
    <2>. SUFFICES ASSUME NEW p \in Partitions, NEW o \in Nat, NEW i \in Nat,
                         Scorable(p, o), Coming(s, p, o, i)
                  PROVE  Coming(s, p, o, i)'
      OBVIOUS
    <2>1. CASE <<p, o>> \in batch[s]
      <3>1. ScoreOf(p, o) \in todo'[s]
        BY <1>4, <2>1
      <3>. QED
        BY <3>1 DEF Coming, ScoreOf
    <2>2. CASE \/ o >= position[p]
               \/ <<p, o>> \in skipped
               \/ \E j \in 1 .. Len(pending[s]) : j > i /\ pending[s][j] = ScoreOf(p, o)
      BY <1>1, <2>2 DEF Coming, ScoreOf
    <2>. QED
      BY <1>2, <2>1, <2>2 DEF Coming
  <1>12. NewerFollow(s)' /\ NewestComes(s)'
    BY <1>1, <1>11, OrderKept DEF OrderInv
  <1>. QED
    BY <1>6, <1>8, <1>9, <1>10, <1>12 DEF OrderInv

(* A scorer that gives its batch up has read it for nothing, unless it was *)
(* put out of the group: then it will be read again.                       *)
LEMMA GiveUpOrder ==
    ASSUME IInv, NEW s, Scorers = {s}, OrderInv(s), GiveUp(s)
    PROVE  OrderInv(s)'
  <1>1. /\ pc' = [pc EXCEPT ![s] = "loop"]
        /\ batch' = [batch EXCEPT ![s] = {}]
        /\ todo' = [todo EXCEPT ![s] = {}]
        /\ skipped' = IF fenced[s] THEN skipped ELSE skipped \cup batch[s]
        /\ UNCHANGED <<log, position, committed, topics, lastScore, pending>>
    BY DEF GiveUp, groupVars, brokerVars
  <1>2. /\ s \in Scorers /\ TypeOK
        /\ pc'[s] = "loop" /\ batch'[s] = {} /\ todo'[s] = {}
        /\ pending'[s] = pending[s] /\ skipped \subseteq skipped'
    BY <1>1 DEF IInv, TypeOK
  <1>3. \A p \in Partitions : \A o \in Nat :
           <<p, o>> \in batch[s] => <<p, o>> \in skipped' \/ o >= position'[p]
    <2>. SUFFICES ASSUME NEW p \in Partitions, NEW o \in Nat, <<p, o>> \in batch[s], fenced[s]
                  PROVE  o >= position'[p]
      BY <1>1
    <2>1. owner[p] \in Scorers \cup {NoScorer}
      BY <1>2 DEF TypeOK
    <2>2. owner[p] = NoScorer
      BY <2>1 DEF IInv, OwnersOK
    <2>3. position[p] = committed[p]
      BY <2>2 DEF IInv, OffsetsOK
    <2>4. committed[p] <= o
      BY DEF OrderInv, Again
    <2>5. position[p] \in Nat
      BY <1>2, HeldTypes
    <2>. QED
      BY <1>1, <2>3, <2>4, <2>5
  <1>4. Places(s)'
    BY <1>2 DEF Places
  <1>5. AllGenuine(s)'
    BY <1>1, <1>2 DEF OrderInv, AllGenuine, Genuine, Scorable, IsGood
  <1>6. Again(s)'
    BY <1>1, <1>2 DEF OrderInv, Again, ScoreOf
  <1>7. InOrder(s)'
    BY <1>2 DEF InOrder
  <1>8. \A p \in Partitions : \A o, i \in Nat :
           Scorable(p, o) /\ Coming(s, p, o, i) => Coming(s, p, o, i)'
    <2>. SUFFICES ASSUME NEW p \in Partitions, NEW o \in Nat, NEW i \in Nat, Coming(s, p, o, i)
                  PROVE  Coming(s, p, o, i)'
      OBVIOUS
    <2>1. CASE <<p, o>> \in batch[s]
      BY <1>3, <2>1 DEF Coming
    <2>2. CASE ScoreOf(p, o) \in todo[s]
      <3>1. ScoreOf(p, o).src \in batch[s]
        BY <2>2 DEF OrderInv, Places
      <3>2. <<p, o>> \in batch[s]
        BY <3>1 DEF ScoreOf
      <3>. QED
        BY <1>3, <3>2 DEF Coming
    <2>3. CASE \/ o >= position[p]
               \/ <<p, o>> \in skipped
               \/ \E j \in 1 .. Len(pending[s]) : j > i /\ pending[s][j] = ScoreOf(p, o)
      BY <1>1, <1>2, <2>3 DEF Coming, ScoreOf
    <2>. QED
      BY <2>1, <2>2, <2>3 DEF Coming
  <1>9. NewerFollow(s)' /\ NewestComes(s)'
    BY <1>1, <1>2, <1>8, OrderKept DEF OrderInv
  <1>. QED
    BY <1>4, <1>5, <1>6, <1>7, <1>9 DEF OrderInv

(* A commit comes when nothing is queued any more.                         *)
LEMMA CommitOrder ==
    ASSUME IInv, NEW s \in Scorers, OrderInv(s), Commit(s)
    PROVE  OrderInv(s)'
  <1>1. /\ pc[s] = "commit" /\ pc' = [pc EXCEPT ![s] = "loop"]
        /\ batch' = [batch EXCEPT ![s] = {}]
        /\ UNCHANGED <<log, position, topics, lastScore, todo, pending, skipped>>
    BY DEF Commit, brokerVars
  <1>2. /\ pc'[s] = "loop" /\ batch'[s] = {} /\ todo'[s] = {} /\ todo[s] = {}
        /\ pending'[s] = << >> /\ pending'[s] = pending[s]
    BY <1>1 DEF IInv, TypeOK, OrderInv, Places
  <1>3. Places(s)' /\ InOrder(s)'
    BY <1>2 DEF Places, InOrder
  <1>4. AllGenuine(s)'
    BY <1>1, <1>2 DEF OrderInv, AllGenuine, Genuine, Scorable, IsGood
  <1>5. Again(s)'
    BY <1>2 DEF Again
  <1>6. \A p \in Partitions : \A o, i \in Nat :
           Scorable(p, o) /\ Coming(s, p, o, i) => Coming(s, p, o, i)'
    BY <1>1, <1>2 DEF Coming
  <1>7. NewerFollow(s)' /\ NewestComes(s)'
    BY <1>1, <1>2, <1>6, OrderKept DEF OrderInv
  <1>. QED
    BY <1>3, <1>4, <1>5, <1>7 DEF OrderInv

(* The end of a process: all it held is read again.                        *)
LEMMA ExitOrder ==
    ASSUME IInv, NEW s, Scorers = {s}, OrderInv(s), Exit(s)
    PROVE  OrderInv(s)'
  <1>1. /\ pc' = [pc EXCEPT ![s] = "down"]
        /\ batch' = [batch EXCEPT ![s] = {}]
        /\ todo' = [todo EXCEPT ![s] = {}]
        /\ pending' = [pending EXCEPT ![s] = << >>]
        /\ \A p \in Partitions : position'[p] = IF p \in Owned(s) THEN committed[p] ELSE position[p]
        /\ skipped' = {m \in skipped : m[1] \in Owned(s) => m[2] < committed[m[1]]}
        /\ UNCHANGED <<log, committed, topics, lastScore>>
    BY DEF Exit, Release, brokerVars
  <1>2. /\ s \in Scorers /\ TypeOK
        /\ pc'[s] = "down" /\ batch'[s] = {} /\ todo'[s] = {} /\ pending'[s] = << >>
    BY <1>1 DEF IInv, TypeOK
  <1>3. \A p \in Partitions : /\ position'[p] = committed[p] /\ position'[p] <= position[p]
                              /\ position[p] \in Nat /\ committed[p] \in Nat
    <2>. SUFFICES ASSUME NEW p \in Partitions
                  PROVE  /\ position'[p] = committed[p] /\ position'[p] <= position[p]
                         /\ position[p] \in Nat /\ committed[p] \in Nat
      OBVIOUS
    <2>1. owner[p] = s \/ owner[p] = NoScorer
      BY <1>2 DEF TypeOK
    <2>2. /\ committed[p] <= position[p]
          /\ owner[p] = NoScorer => position[p] = committed[p]
      BY DEF IInv, OffsetsOK
    <2>3. position[p] \in Nat /\ committed[p] \in Nat
      BY <1>2, HeldTypes
    <2>. QED
      BY <1>1, <2>1, <2>2, <2>3 DEF Owned
  <1>4. Places(s)' /\ InOrder(s)' /\ Again(s)' /\ NewerFollow(s)'
    BY <1>2 DEF Places, InOrder, Again, NewerFollow
  <1>5. AllGenuine(s)'
    BY <1>1, <1>2 DEF OrderInv, AllGenuine, Genuine, Scorable, IsGood
  <1>6. ASSUME NEW p \in Partitions, NEW o \in Nat, Coming(s, p, o, 0)
        PROVE  Coming(s, p, o, 0)'
    <2>1. CASE o >= position[p]
      <3>1. o >= position'[p]
        BY <1>3, <2>1
      <3>. QED
        BY <3>1 DEF Coming
    <2>2. CASE <<p, o>> \in skipped
      <3>1. <<p, o>>[1] = p /\ <<p, o>>[2] = o
        OBVIOUS
      <3>2. <<p, o>> \in skipped' \/ ~(o < committed[p])
        BY <1>1, <2>2, <3>1
      <3>3. ~(o < committed[p]) => o >= position'[p]
        BY <1>3
      <3>. QED
        BY <3>2, <3>3 DEF Coming
    <2>3. CASE <<p, o>> \in batch[s] \/ ScoreOf(p, o) \in todo[s]
      <3>1. ScoreOf(p, o) \in todo[s] => ScoreOf(p, o).src \in batch[s]
        BY DEF OrderInv, Places
      <3>2. <<p, o>> \in batch[s]
        BY <2>3, <3>1 DEF ScoreOf
      <3>3. committed[p] <= o
        BY <3>2 DEF OrderInv, Again
      <3>4. o >= position'[p]
        BY <1>3, <3>3
      <3>. QED
        BY <3>4 DEF Coming
    <2>4. CASE \E j \in 1 .. Len(pending[s]) : j > 0 /\ pending[s][j] = ScoreOf(p, o)
      <3>1. committed[p] <= o
        BY <2>4 DEF OrderInv, Again
      <3>2. o >= position'[p]
        BY <1>3, <3>1
      <3>. QED
        BY <3>2 DEF Coming
    <2>. QED
      BY <1>6, <2>1, <2>2, <2>3, <2>4 DEF Coming
  <1>7. NewestComes(s)'
    <2>. SUFFICES ASSUME NEW p \in Partitions, NEW o \in Nat,
                         ScoreOf(p, o) \in topics, lastScore[p] <= o
                  PROVE  Coming(s, p, o, 0)'
      BY <1>1 DEF NewestComes, ScoreOf
    <2>1. Coming(s, p, o, 0)
      BY DEF OrderInv, NewestComes
    <2>. QED
      BY <1>6, <2>1
  <1>. QED
    BY <1>4, <1>5, <1>7 DEF OrderInv

(* A new message is behind every reader.                                   *)
LEMMA PublishOrder ==
    ASSUME IInv, InFlightPublished, NEW s \in Scorers, OrderInv(s),
           NEW p \in Partitions, NEW k \in Payloads, Publish(p, k)
    PROVE  OrderInv(s)'
  <1>1. /\ log' = [log EXCEPT ![p] = Append(@, k)]
        /\ UNCHANGED <<position, committed, topics, lastScore, skipped, pc, batch, todo, pending>>
    BY DEF Publish, groupVars, scorerVars, brokerVars
  <1>2. \A q \in Partitions : /\ log[q] \in Seq(Payloads) /\ position[q] \in Nat
                              /\ position[q] <= Len(log[q])
                              /\ log'[q] = IF q = p THEN Append(log[q], k) ELSE log[q]
    <2>1. \A q \in Partitions : log[q] \in Seq(Payloads) /\ position[q] \in Nat
      BY HeldTypes DEF IInv
    <2>2. \A q \in Partitions : position[q] <= Len(log[q])
      BY DEF IInv, OffsetsOK
    <2>3. \A q \in Partitions : log'[q] = IF q = p THEN Append(log[q], k) ELSE log[q]
      BY <1>1 DEF IInv, TypeOK
    <2>. QED
      BY <2>1, <2>2, <2>3
  <1>3. ASSUME NEW q \in Partitions, NEW o \in Nat
        PROVE  /\ Scorable(q, o) => Scorable(q, o)'
               /\ Scorable(q, o)' => Scorable(q, o) \/ o >= Len(log[q])
    <2>1. CASE q = p
      <3>0. log[q] \in Seq(Payloads) /\ log'[q] = Append(log[q], k)
        BY <1>2, <2>1
      <3>1. /\ Len(log'[q]) = Len(log[q]) + 1 /\ Len(log[q]) \in Nat
            /\ \A i \in 1 .. Len(log[q]) : log'[q][i] = log[q][i]
        BY <3>0
      <3>2. o < Len(log[q]) => o + 1 \in 1 .. Len(log[q])
        BY <3>1
      <3>3. <<q, o>>[1] = q /\ <<q, o>>[2] = o
        OBVIOUS
      <3>4. o < Len(log[q]) => (IsGood(<<q, o>>)' <=> IsGood(<<q, o>>))
        BY <3>1, <3>2, <3>3 DEF IsGood
      <3>5. o < Len(log[q]) => o < Len(log'[q])
        BY <3>1
      <3>6. o < Len(log[q]) \/ o >= Len(log[q])
        BY <3>1
      <3>. QED
        BY <3>4, <3>5, <3>6 DEF Scorable
    <2>2. CASE q # p
      <3>1. log'[q] = log[q]
        BY <1>2, <2>2
      <3>. QED
        BY <3>1 DEF Scorable, IsGood
    <2>. QED
      BY <2>1, <2>2
  <1>4. Places(s)'
    BY <1>1 DEF OrderInv, Places
  <1>5. \A r \in Records : Genuine(r) => Genuine(r)'
    <2>. SUFFICES ASSUME NEW r \in Records, Genuine(r), r.kind = "score"
                  PROVE  Scorable(r.src[1], r.src[2])'
      BY DEF Genuine
    <2>1. r.src[1] \in Partitions /\ r.src[2] \in Nat
      BY RecordIs
    <2>2. Scorable(r.src[1], r.src[2])
      BY DEF Genuine
    <2>. QED
      BY <1>3, <2>1, <2>2
  <1>6. AllGenuine(s)'
    <2>1. /\ topics \subseteq Records /\ todo[s] \subseteq Records
          /\ \A i \in 1 .. Len(pending[s]) : pending[s][i] \in Records
      BY HeldTypes DEF IInv
    <2>2. AllGenuine(s)
      BY DEF OrderInv
    <2>3. /\ \A r \in topics : Genuine(r)'
          /\ \A r \in todo[s] : Genuine(r)'
      BY <1>5, <2>1, <2>2 DEF AllGenuine
    <2>4. \A r \in Records :
             (\E i \in 1 .. Len(pending[s]) : pending[s][i] = r) => Genuine(r)'
      BY <1>5, <2>2 DEF AllGenuine
    <2>5. \A i \in 1 .. Len(pending'[s]) : \E r \in Records :
             /\ pending'[s][i] = r
             /\ Genuine(r)'
      BY <1>1, <2>1, <2>4
    <2>6. /\ \A r \in topics' : Genuine(r)'
          /\ \A r \in todo'[s] : Genuine(r)'
      BY <1>1, <2>3
    <2>. QED
      BY <2>5, <2>6 DEF AllGenuine, Genuine, Scorable, IsGood
  <1>7. Again(s)'
    BY <1>1 DEF OrderInv, Again, ScoreOf
  <1>8. InOrder(s)'
    <2>. SUFFICES ASSUME NEW q \in Partitions, NEW x \in Nat, NEW o \in Nat,
                         ScoreOf(q, x) \in todo[s], <<q, o>> \in batch[s], x < o,
                         Scorable(q, o)'
                  PROVE  ScoreOf(q, o) \in todo[s]
      BY <1>1 DEF InOrder, ScoreOf
    <2>1. IsPublished(<<q, o>>)
      BY DEF InFlightPublished
    <2>2. o < Len(log[q])
      BY <2>1 DEF IsPublished
    <2>3. Len(log[q]) \in Nat
      BY <1>2
    <2>4. Scorable(q, o)
      BY <1>3, <2>2, <2>3
    <2>. QED
      BY <2>4 DEF OrderInv, InOrder
  <1>9. \A q \in Partitions : \A o, i \in Nat : Coming(s, q, o, i) => Coming(s, q, o, i)'
    BY <1>1 DEF Coming, ScoreOf
  <1>10. \A q \in Partitions : \A o \in Nat : o >= Len(log[q]) => o >= position[q]
    <2>1. \A q \in Partitions : Len(log[q]) \in Nat
      BY <1>2
    <2>. QED
      BY <1>2, <2>1
  <1>11. NewerFollow(s)'
    <2>. SUFFICES ASSUME NEW q \in Partitions, NEW x \in Nat, NEW o \in Nat,
                         NEW i \in 1 .. Len(pending[s]),
                         pending[s][i] = ScoreOf(q, x), x < o, Scorable(q, o)'
                  PROVE  Coming(s, q, o, i)'
      BY <1>1 DEF NewerFollow, ScoreOf
    <2>1. Scorable(q, o) => Coming(s, q, o, i)
      BY DEF OrderInv, NewerFollow
    <2>2. o >= Len(log[q]) => Coming(s, q, o, i)
      BY <1>10 DEF Coming
    <2>3. Coming(s, q, o, i)
      BY <1>3, <2>1, <2>2
    <2>. QED
      BY <1>9, <2>3
  <1>12. NewestComes(s)'
    <2>. SUFFICES ASSUME NEW q \in Partitions, NEW o \in Nat,
                         ScoreOf(q, o) \in topics, lastScore[q] <= o
                  PROVE  Coming(s, q, o, 0)'
      BY <1>1 DEF NewestComes, ScoreOf
    <2>1. Coming(s, q, o, 0)
      BY DEF OrderInv, NewestComes
    <2>. QED
      BY <1>9, <2>1
  <1>. QED
    BY <1>4, <1>6, <1>7, <1>8, <1>11, <1>12 DEF OrderInv

(* Of the scores of a partition that are to be sent, the oldest is next.   *)
LEMMA SendOrder ==
    ASSUME IInv, NEW s \in Scorers, OrderInv(s), Send(s)
    PROVE  OrderInv(s)'
  <1>1. PICK r \in todo[s] :
          /\ SendsNext(s, r)
          /\ pending' = [pending EXCEPT ![s] = Append(@, r)]
          /\ todo' = [todo EXCEPT ![s] = @ \ {r}]
    BY DEF Send
  <1>2. /\ pc[s] = "send"
        /\ UNCHANGED <<log, position, committed, topics, lastScore, skipped, pc, batch>>
    BY DEF Send, groupVars, brokerVars
  <1>. DEFINE n == Len(pending[s])
  <1>3. pending[s] \in Seq(Records) /\ r \in Records
    BY HeldTypes DEF IInv
  <1>4. /\ todo'[s] = todo[s] \ {r}
        /\ n \in Nat /\ Len(pending'[s]) = n + 1
        /\ pending'[s][n + 1] = r
        /\ \A i \in 1 .. n : pending'[s][i] = pending[s][i]
    <2>1. pending'[s] = Append(pending[s], r) /\ todo'[s] = todo[s] \ {r}
      BY <1>1 DEF IInv, TypeOK
    <2>. QED
      BY <1>3, <2>1, AppendHolds
  <1>. HIDE DEF n
  <1>5. \A i \in 1 .. Len(pending'[s]) : i \in 1 .. n \/ i = n + 1
    BY <1>4
  <1>6. \A p \in Partitions, x \in Nat : ScoreOf(p, x) \in todo[s] => <<p, x>> \in batch[s]
    <2>1. \A p \in Partitions, x \in Nat : ScoreOf(p, x).src = <<p, x>>
      BY DEF ScoreOf
    <2>. QED
      BY <2>1 DEF OrderInv, Places
  <1>7. Places(s)'
    BY <1>2, <1>4 DEF OrderInv, Places
  <1>8. AllGenuine(s)'
    <2>1. \A i \in 1 .. Len(pending'[s]) : Genuine(pending'[s][i])
      <3>1. \A i \in 1 .. n : Genuine(pending[s][i])
        BY DEF OrderInv, AllGenuine, n
      <3>2. Genuine(r)
        BY DEF OrderInv, AllGenuine
      <3>. QED
        BY <1>4, <1>5, <3>1, <3>2
    <2>2. /\ \A q \in topics' : Genuine(q)
          /\ \A q \in todo'[s] : Genuine(q)
      BY <1>2, <1>4 DEF OrderInv, AllGenuine
    <2>. QED
      BY <1>2, <2>1, <2>2 DEF AllGenuine, Genuine, Scorable, IsGood
  <1>9. Again(s)'
    <2>1. ASSUME NEW p \in Partitions, NEW x \in Nat, NEW i \in 1 .. Len(pending'[s]),
                 pending'[s][i] = ScoreOf(p, x)
          PROVE  committed[p] <= x
      <3>1. CASE i \in 1 .. n
        BY <1>4, <2>1, <3>1 DEF OrderInv, Again, n
      <3>2. CASE i = n + 1
        <4>1. <<p, x>> \in batch[s]
          BY <1>4, <1>6, <2>1, <3>2
        <4>. QED
          BY <4>1 DEF OrderInv, Again
      <3>. QED
        BY <1>5, <3>1, <3>2
    <2>. QED
      BY <1>2, <2>1 DEF OrderInv, Again, ScoreOf
  <1>10. InOrder(s)'
    <2>. SUFFICES ASSUME NEW p \in Partitions, NEW x \in Nat, NEW o \in Nat,
                         ScoreOf(p, x) \in todo'[s], <<p, o>> \in batch[s], x < o,
                         Scorable(p, o)
                  PROVE  ScoreOf(p, o) \in todo'[s]
      BY <1>2 DEF InOrder, ScoreOf, Scorable, IsGood
    <2>1. ScoreOf(p, x) \in todo[s]
      BY <1>4
    <2>2. ScoreOf(p, o) \in todo[s]
      BY <2>1 DEF OrderInv, InOrder
    <2>3. r # ScoreOf(p, o)
      BY <1>1, <2>1 DEF SendsNext, ScoreOf
    <2>. QED
      BY <1>4, <2>2, <2>3
  <1>11. ASSUME NEW p \in Partitions, NEW o \in Nat, NEW i \in Nat, i <= n, Coming(s, p, o, i)
         PROVE  Coming(s, p, o, i)'
    <2>1. CASE ScoreOf(p, o) \in todo[s]
      <3>1. ScoreOf(p, o) \in todo'[s] \/ ScoreOf(p, o) = r
        BY <1>4, <2>1
      <3>2. n + 1 \in 1 .. Len(pending'[s]) /\ n + 1 > i /\ pending'[s][n + 1] = r
        BY <1>4, <1>11
      <3>. QED
        BY <3>1, <3>2 DEF Coming, ScoreOf
    <2>2. CASE \E j \in 1 .. Len(pending[s]) : j > i /\ pending[s][j] = ScoreOf(p, o)
      <3>1. PICK j \in 1 .. n : j > i /\ pending[s][j] = ScoreOf(p, o)
        BY <2>2 DEF n
      <3>2. j \in 1 .. Len(pending'[s]) /\ pending'[s][j] = ScoreOf(p, o)
        BY <1>4, <3>1
      <3>. QED
        BY <3>1, <3>2 DEF Coming, ScoreOf
    <2>3. CASE \/ o >= position[p]
               \/ <<p, o>> \in skipped
               \/ pc[s] = "score" /\ <<p, o>> \in batch[s]
      BY <1>2, <2>3 DEF Coming
    <2>. QED
      BY <1>11, <2>1, <2>2, <2>3 DEF Coming
  <1>12. NewerFollow(s)'
    <2>. SUFFICES ASSUME NEW p \in Partitions, NEW x \in Nat, NEW o \in Nat,
                         NEW i \in 1 .. Len(pending'[s]),
                         pending'[s][i] = ScoreOf(p, x), x < o, Scorable(p, o)
                  PROVE  Coming(s, p, o, i)'
      BY <1>2 DEF NewerFollow, ScoreOf, Scorable, IsGood
    <2>1. CASE i \in 1 .. n
      <3>1. pending[s][i] = ScoreOf(p, x)
        BY <1>4, <2>1
      <3>2. Coming(s, p, o, i)
        BY <2>1, <3>1 DEF OrderInv, NewerFollow, n
      <3>. QED
        BY <1>4, <1>11, <2>1, <3>2
    <2>2. CASE i = n + 1
      <3>1. r = ScoreOf(p, x)
        BY <1>4, <2>2
      <3>2. <<p, x>> \in batch[s]
        BY <1>6, <3>1
      <3>3. o >= position[p] \/ <<p, o>> \in batch[s]
        <4>1. position[p] \in Nat
          BY HeldTypes DEF IInv
        <4>. QED
          BY <3>2, <4>1 DEF OrderInv, Again
      <3>4. <<p, o>> \in batch[s] => ScoreOf(p, o) \in todo[s]
        BY <3>1 DEF OrderInv, InOrder
      <3>5. ScoreOf(p, o) # r
        BY <3>1 DEF ScoreOf
      <3>. QED
        BY <1>2, <1>4, <3>3, <3>4, <3>5 DEF Coming, ScoreOf
    <2>. QED
      BY <1>5, <2>1, <2>2
  <1>13. NewestComes(s)'
    <2>. SUFFICES ASSUME NEW p \in Partitions, NEW o \in Nat,
                         ScoreOf(p, o) \in topics, lastScore[p] <= o
                  PROVE  Coming(s, p, o, 0)'
      BY <1>2 DEF NewestComes, ScoreOf
    <2>1. Coming(s, p, o, 0)
      BY DEF OrderInv, NewestComes
    <2>2. 0 <= n
      BY <1>4
    <2>. QED
      BY <1>11, <2>1, <2>2
  <1>. QED
    BY <1>7, <1>8, <1>9, <1>10, <1>12, <1>13 DEF OrderInv

(* What is behind the head of the queue moves up by one.                   *)
LEMMA TailShifts ==
    ASSUME NEW q \in Seq(Records), q # << >>
    PROVE  /\ \A i \in 1 .. Len(Tail(q)) : i + 1 \in 1 .. Len(q) /\ Tail(q)[i] = q[i + 1]
           /\ \A i \in 1 .. Len(q) : i # 1 => i - 1 \in 1 .. Len(Tail(q)) /\ Tail(q)[i - 1] = q[i]
  <1>1. Len(Tail(q)) = Len(q) - 1 /\ Len(q) \in Nat
    OBVIOUS
  <1>2. \A i \in 1 .. Len(Tail(q)) : Tail(q)[i] = q[i + 1]
    OBVIOUS
  <1>3. \A i \in 1 .. Len(q) : i # 1 => i - 1 \in 1 .. Len(Tail(q)) /\ (i - 1) + 1 = i
    BY <1>1
  <1>. QED
    BY <1>1, <1>2, <1>3

(* The queue is emptied from its head, behind which the newer scores are.  *)
LEMMA DeliverOrder ==
    ASSUME IInv, NEW s \in Scorers, OrderInv(s), Deliver(s)
    PROVE  OrderInv(s)'
  <1>. DEFINE h == pending[s][1]
  <1>1. /\ pending[s] # << >>
        /\ topics' = topics \cup {Head(pending[s])}
        /\ lastScore' = IF Head(pending[s]).kind = "score"
                        THEN [lastScore EXCEPT ![Head(pending[s]).src[1]] = Head(pending[s]).src[2] + 1]
                        ELSE lastScore
        /\ pending' = [pending EXCEPT ![s] = Tail(@)]
        /\ UNCHANGED <<log, position, committed, skipped, pc, batch, todo>>
    BY DEF Deliver, groupVars, scorerVars
  <1>2. pending[s] \in Seq(Records) /\ lastScore \in [Partitions -> Nat]
    BY DEF IInv, TypeOK
  <1>3. /\ Head(pending[s]) = h /\ h \in Records /\ 1 \in 1 .. Len(pending[s])
        /\ Len(pending[s]) \in Nat
    BY <1>1, <1>2
  <1>4. /\ pending'[s] = Tail(pending[s])
        /\ topics' = topics \cup {h}
        /\ h.kind = "score" => h.src[1] \in Partitions /\ h.src[2] \in Nat
        /\ \A p \in Partitions :
              lastScore'[p] = IF h.kind = "score" /\ h.src[1] = p THEN h.src[2] + 1
                              ELSE lastScore[p]
    <2>1. pending'[s] = Tail(pending[s])
      BY <1>1 DEF IInv, TypeOK
    <2>2. h.kind = "score" => h.src[1] \in Partitions /\ h.src[2] \in Nat
      BY <1>3, RecordIs
    <2>. HIDE DEF h
    <2>. QED
      BY <1>1, <1>2, <1>3, <2>1, <2>2
  <1>5. /\ \A i \in 1 .. Len(pending'[s]) :
              i + 1 \in 1 .. Len(pending[s]) /\ pending'[s][i] = pending[s][i + 1]
        /\ \A i \in 1 .. Len(pending[s]) : i # 1 =>
              i - 1 \in 1 .. Len(pending'[s]) /\ pending'[s][i - 1] = pending[s][i]
    <2>. DEFINE q == pending[s]
    <2>1. q \in Seq(Records) /\ q # << >> /\ pending'[s] = Tail(q)
      BY <1>1, <1>2, <1>4
    <2>. HIDE DEF q
    <2>2. /\ \A i \in 1 .. Len(Tail(q)) : i + 1 \in 1 .. Len(q) /\ Tail(q)[i] = q[i + 1]
          /\ \A i \in 1 .. Len(q) : i # 1 => i - 1 \in 1 .. Len(Tail(q)) /\ Tail(q)[i - 1] = q[i]
      BY <2>1, TailShifts
    <2>. QED
      BY <2>1, <2>2 DEF q
  <1>6. Places(s)'
    BY <1>1, <1>3 DEF OrderInv, Places
  <1>7. AllGenuine(s)'
    <2>1. Genuine(h)
      BY <1>3 DEF OrderInv, AllGenuine
    <2>2. \A i \in 1 .. Len(pending'[s]) : Genuine(pending'[s][i])
      BY <1>5 DEF OrderInv, AllGenuine
    <2>3. /\ \A q \in topics' : Genuine(q)
          /\ \A q \in todo'[s] : Genuine(q)
      BY <1>1, <1>4, <2>1 DEF OrderInv, AllGenuine
    <2>. QED
      BY <1>1, <2>2, <2>3 DEF AllGenuine, Genuine, Scorable, IsGood
  <1>8. Again(s)'
    <2>1. \A p \in Partitions : \A x \in Nat : \A i \in 1 .. Len(pending'[s]) :
             pending'[s][i] = ScoreOf(p, x) => committed[p] <= x
      BY <1>5 DEF OrderInv, Again
    <2>. QED
      BY <1>1, <2>1 DEF OrderInv, Again, ScoreOf
  <1>9. InOrder(s)'
    BY <1>1 DEF OrderInv, InOrder, ScoreOf, Scorable, IsGood
  <1>10. ASSUME NEW p \in Partitions, NEW o \in Nat, NEW i \in Nat, Coming(s, p, o, i + 1)
         PROVE  Coming(s, p, o, i)'
    <2>1. CASE \E j \in 1 .. Len(pending[s]) : j > i + 1 /\ pending[s][j] = ScoreOf(p, o)
      <3>1. PICK j \in 1 .. Len(pending[s]) : j > i + 1 /\ pending[s][j] = ScoreOf(p, o)
        BY <2>1
      <3>2. j # 1 /\ j - 1 > i
        BY <3>1
      <3>3. j - 1 \in 1 .. Len(pending'[s]) /\ pending'[s][j - 1] = ScoreOf(p, o)
        BY <1>5, <3>1, <3>2
      <3>. QED
        BY <3>2, <3>3 DEF Coming, ScoreOf
    <2>2. CASE \/ o >= position[p]
               \/ <<p, o>> \in skipped
               \/ pc[s] = "score" /\ <<p, o>> \in batch[s]
               \/ ScoreOf(p, o) \in todo[s]
      BY <1>1, <2>2 DEF Coming, ScoreOf
    <2>. QED
      BY <1>10, <2>1, <2>2 DEF Coming
  <1>11. NewerFollow(s)'
    <2>. SUFFICES ASSUME NEW p \in Partitions, NEW x \in Nat, NEW o \in Nat,
                         NEW i \in 1 .. Len(pending'[s]),
                         pending'[s][i] = ScoreOf(p, x), x < o, Scorable(p, o)
                  PROVE  Coming(s, p, o, i)'
      BY <1>1 DEF NewerFollow, ScoreOf, Scorable, IsGood
    <2>1. i + 1 \in 1 .. Len(pending[s]) /\ pending[s][i + 1] = ScoreOf(p, x)
      BY <1>5
    <2>2. Coming(s, p, o, i + 1)
      BY <2>1 DEF OrderInv, NewerFollow
    <2>. QED
      BY <1>10, <2>2
  <1>12. NewestComes(s)'
    <2>. SUFFICES ASSUME NEW p \in Partitions, NEW o \in Nat,
                         ScoreOf(p, o) \in topics', lastScore'[p] <= o
                  PROVE  Coming(s, p, o, 0)'
      BY DEF NewestComes, ScoreOf
    <2>1. Coming(s, p, o, 0 + 1)
      <3>1. CASE h.kind = "score" /\ h.src[1] = p
        <4>1. h = ScoreOf(p, h.src[2]) /\ h.src[2] \in Nat
          BY <1>3, <3>1, RecordIs
        <4>2. h.src[2] < o
          BY <1>4, <3>1, <4>1
        <4>3. Scorable(p, o)
          <5>1. \A q \in topics' : Genuine(q)
            BY <1>3, <1>4 DEF OrderInv, AllGenuine
          <5>2. Genuine(ScoreOf(p, o))
            BY <5>1
          <5>. QED
            BY <5>2 DEF Genuine, ScoreOf
        <4>. QED
          BY <1>3, <4>1, <4>2, <4>3 DEF OrderInv, NewerFollow
      <3>2. CASE ~(h.kind = "score" /\ h.src[1] = p)
        <4>1. h # ScoreOf(p, o)
          BY <3>2 DEF ScoreOf
        <4>2. ScoreOf(p, o) \in topics /\ lastScore[p] <= o
          BY <1>4, <3>2, <4>1
        <4>3. Coming(s, p, o, 0)
          BY <4>2 DEF OrderInv, NewestComes
        <4>4. \A j \in 1 .. Len(pending[s]) : pending[s][j] = ScoreOf(p, o) => j > 0 + 1
          BY <1>3, <4>1
        <4>. QED
          BY <4>3, <4>4 DEF Coming
      <3>. QED
        BY <3>1, <3>2
    <2>. QED
      BY <1>10, <2>1
  <1>. QED
    BY <1>6, <1>7, <1>8, <1>9, <1>11, <1>12 DEF OrderInv

(* Nothing has been read or scored at the start.                           *)
LEMMA OrderInit ==
    ASSUME NEW s \in Scorers, Init
    PROVE  OrderInv(s)
  BY DEF Init, OrderInv, Places, AllGenuine, Again, InOrder, NewerFollow, NewestComes

(* With one replica and no failure inside the scoring of a batch, every    *)
(* step keeps the order.                                                   *)
LEMMA OrderStep ==
    ASSUME NEW s, Scorers = {s}, FaultKinds \cap {"row", "load"} = {},
           IInv, InFlightPublished, OrderInv(s), [Next]_vars
    PROVE  OrderInv(s)'
  <1>. USE DEF RaiseFrom, groupVars, scorerVars, brokerVars
  <1>0. s \in Scorers /\ TypeOK /\ OffsetsOK
    BY DEF IInv
  <1>1. CASE UNCHANGED vars
    BY <1>1, QuietOrder DEF vars
  <1>2. ASSUME NEW p \in Partitions, NEW k \in Payloads, Publish(p, k)
        PROVE  OrderInv(s)'
    BY <1>0, <1>2, PublishOrder
  <1>3. ASSUME NEW p \in Partitions, Assign(p, s)
        PROVE  OrderInv(s)'
    BY <1>3, QuietOrder DEF Assign
  <1>4. ASSUME NEW p \in Partitions, Rebalance(p)
        PROVE  OrderInv(s)'
    <2>1. /\ {p} \in SUBSET Partitions /\ Release({p})
          /\ UNCHANGED <<log, committed, topics, lastScore, batch, todo, pending, pc>>
      BY <1>4 DEF Rebalance
    <2>. QED
      BY <1>0, <2>1, RollbackOrder
  <1>5. CASE Evict(s)
    <2>1. /\ Owned(s) \in SUBSET Partitions /\ Release(Owned(s))
          /\ UNCHANGED <<log, committed, topics, lastScore, batch, todo, pending, pc>>
      BY <1>5 DEF Evict, Owned
    <2>. QED
      BY <1>0, <2>1, RollbackOrder
  <1>6. CASE Deliver(s)
    BY <1>0, <1>6, DeliverOrder
  <1>7. CASE Poll(s)
    BY <1>0, <1>7, PollOrder
  <1>8. CASE ScoreBatch(s)
    BY <1>0, <1>8, ScoreOrder
  <1>9. CASE Send(s)
    BY <1>0, <1>9, SendOrder
  <1>10. CASE Commit(s)
    BY <1>0, <1>10, CommitOrder
  <1>11. CASE ModelMissing(s) \/ SendFails(s) \/ FlushFails(s)
    <2>1. GiveUp(s)
      BY <1>11 DEF ModelMissing, SendFails, FlushFails
    <2>. QED
      BY <2>1, GiveUpOrder
  <1>12. CASE Crash(s) \/ Close(s) \/ CloseFails(s)
    <2>1. Exit(s)
      BY <1>12 DEF Crash, Close, CloseFails
    <2>. QED
      BY <2>1, ExitOrder
  <1>13. CASE RequestStop(s) \/ Rejoin(s)
    BY <1>13, QuietOrder DEF RequestStop, Rejoin
  <1>14. CASE Start(s) \/ Flush(s) \/ LeaveLoop(s) \/ PollFails(s)
              \/ CommitFenced(s) \/ CommitFails(s)
    <2>1. /\ UNCHANGED <<log, position, committed, topics, lastScore, skipped>>
          /\ UNCHANGED <<batch, todo, pending>>
      BY <1>14 DEF Start, Flush, LeaveLoop, PollFails, CommitFenced, CommitFails
    <2>2. todo[s] # {} => pc[s] = "send"
      BY DEF OrderInv, Places
    <2>3. /\ pc[s] # "score" /\ todo[s] = {}
          /\ pc'[s] = "commit" => pending[s] = << >>
      BY <1>0, <1>14, <2>2
         DEF Start, Flush, LeaveLoop, PollFails, CommitFenced, CommitFails, TypeOK
    <2>. QED
      BY <2>1, <2>3, QuietOrder
  <1>15. ~RowError(s) /\ ~LoadError(s)
    BY DEF RowError, LoadError, Fault
  <1>16. CASE Progress(s) \/ Failure(s)
    BY <1>5, <1>6, <1>7, <1>8, <1>9, <1>10, <1>11, <1>12, <1>13, <1>14, <1>15, <1>16
       DEF Progress, Failure
  <1>17. CASE Environment
    BY <1>2, <1>3, <1>4, <1>17 DEF Environment
  <1>. QED
    BY <1>1, <1>16, <1>17 DEF Next

(* At rest no score of an unspoilt partition is still to come.             *)
LEMMA NothingComes ==
    ASSUME IInv, NEW s, Scorers = {s}, OrderInv(s)
    PROVE  NewestScoreLast
  <1>. SUFFICES ASSUME NEW p \in Partitions, AtRest(p), \A m \in skipped : m[1] # p,
                       NEW r \in topics, r.kind = "score", r.src[1] = p,
                       ~(r.src[2] < lastScore[p])
                PROVE  FALSE
    BY DEF NewestScoreLast
  <1>0. s \in Scorers /\ TypeOK
    BY DEF IInv
  <1>. DEFINE o == r.src[2]
  <1>1. o \in Nat /\ r = ScoreOf(p, o) /\ lastScore[p] \in Nat
    BY <1>0, HeldTypes, RecordIs
  <1>2. Coming(s, p, o, 0)
    <2>1. lastScore[p] <= o
      BY <1>1
    <2>. QED
      BY <1>1, <2>1 DEF OrderInv, NewestComes
  <1>3. o < position[p]
    <2>1. Scorable(p, o)
      BY DEF OrderInv, AllGenuine, Genuine
    <2>2. o < committed[p]
      BY <2>1 DEF Scorable, AtRest
    <2>3. committed[p] <= position[p]
      BY DEF IInv, OffsetsOK
    <2>4. committed[p] \in Nat /\ position[p] \in Nat
      BY <1>0, HeldTypes
    <2>. QED
      BY <1>1, <2>2, <2>3, <2>4
  <1>4. <<p, o>> \notin skipped
    <2>1. <<p, o>>[1] = p
      OBVIOUS
    <2>. QED
      BY <2>1
  <1>5. /\ batch[s] = {} /\ pending[s] = << >>
    BY <1>0 DEF AtRest
  <1>6. todo[s] = {}
    BY <1>5 DEF OrderInv, Places
  <1>7. position[p] \in Nat
    BY <1>0, HeldTypes
  <1>. HIDE DEF o
  <1>. QED
    BY <1>1, <1>2, <1>3, <1>4, <1>5, <1>6, <1>7 DEF Coming

(* With one replica, whatever else fails, the latest score of a partition  *)
(* at rest, no batch of which was given up, is that of its newest scored   *)
(* message.                                                                *)
THEOREM NewestScoreIsLast ==
    ASSUME NEW s, Scorers = {s}, FaultKinds \cap {"row", "load"} = {}
    PROVE  Spec => []NewestScoreLast
  <1>1. Init => InFlightPublished /\ OrderInv(s)
    BY InFlightInit, OrderInit
  <1>2. IInv /\ InFlightPublished /\ OrderInv(s) /\ [Next]_vars
        => InFlightPublished' /\ OrderInv(s)'
    BY InFlightStep, OrderStep
  <1>3. IInv /\ OrderInv(s) => NewestScoreLast
    BY NothingComes
  <1>4. Spec => []IInv
    BY InvariantHolds
  <1>. QED
    BY <1>1, <1>2, <1>3, <1>4, PTL DEF Spec

=============================================================================
