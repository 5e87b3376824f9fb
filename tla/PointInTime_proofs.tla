-------------------------- MODULE PointInTime_proofs -------------------------
(***************************************************************************)
(* Machine-checked proofs about PointInTime, for any subscriber base, any  *)
(* horizon, window and cap, and cutoffs at least a horizon apart.          *)
(***************************************************************************)
EXTENDS PointInTime, FiniteSetTheorems, WellFoundedInduction, TLAPS

-----------------------------------------------------------------------------
(* Numbers.                                                                *)

(* The constants, one by one.                                              *)
LEMMA TheConstants ==
    /\ N \in Nat \ {0} /\ LastDay \in Nat \ {0} /\ RenewalDays \in Nat \ {0}
    /\ RetryDays \in Nat \ {0} /\ OBSERVATION_WINDOW_DAYS \in Nat \ {0}
    /\ PREDICTION_HORIZON_DAYS \in Nat \ {0} /\ BillingDays \in Nat \ {0}
    /\ TicketDays \in Nat \ {0} /\ StepDays \in Nat \ {0} /\ MinSubscribers \in Nat \ {0}
    /\ MAX_TRAINING_SUBSCRIBERS \in Nat /\ StepDays >= PREDICTION_HORIZON_DAYS
  BY PointInTimeAssumption

(* A greatest element is the Max.                                          *)
LEMMA MaxIs ==
    ASSUME NEW S \in SUBSET Int, NEW x \in S, \A y \in S : y <= x
    PROVE  Max(S) = x
  <1>1. \A y \in S : x >= y
    OBVIOUS
  <1>2. Max(S) \in S /\ \A y \in S : Max(S) >= y
    BY <1>1 DEF Max
  <1>3. Max(S) >= x /\ Max(S) <= x /\ Max(S) \in Int
    BY <1>2
  <1>. QED
    BY <1>3

(* A least one the Min.                                                    *)
LEMMA MinIs ==
    ASSUME NEW S \in SUBSET Int, NEW x \in S, \A y \in S : x <= y
    PROVE  Min(S) = x
  <1>1. Min(S) \in S /\ \A y \in S : Min(S) <= y
    BY DEF Min
  <1>2. Min(S) >= x /\ Min(S) <= x /\ Min(S) \in Int
    BY <1>1
  <1>. QED
    BY <1>2

(* A set of natural numbers has a least element.                           *)
LEMMA LeastExists ==
    ASSUME NEW S \in SUBSET Nat, S # {}
    PROVE  \E x \in S : \A y \in S : x <= y
  <1>1. PICK x \in S : \A y \in S : ~(<<y, x>> \in OpToRel(<, Nat))
    BY NatLessThanWellFounded, WFMin, Zenon
  <1>2. \A y \in S : ~(y < x)
    BY <1>1, Zenon DEF OpToRel
  <1>. QED
    BY <1>2

(* And if it is bounded a greatest.                                        *)
LEMMA MaxExists ==
    ASSUME NEW bound \in Nat, NEW S \in SUBSET (0 .. bound), S # {}
    PROVE  Max(S) \in S /\ \A y \in S : y <= Max(S)
  <1>. DEFINE T == {bound - x : x \in S}
  <1>0. \A x \in S : x \in Nat /\ x <= bound
    OBVIOUS
  <1>1. T \in SUBSET Nat /\ T # {}
    <2>1. \A x \in S : bound - x \in Nat
      BY <1>0
    <2>. QED
      BY <2>1
  <1>2. PICK t \in T : \A u \in T : t <= u
    BY <1>1, LeastExists
  <1>3. PICK x \in S : t = bound - x
    OBVIOUS
  <1>4. \A y \in S : y <= x
    <2>. SUFFICES ASSUME NEW y \in S PROVE y <= x
      OBVIOUS
    <2>1. bound - x <= bound - y
      BY <1>2, <1>3
    <2>. QED
      BY <1>0, <2>1
  <1>5. S \in SUBSET Int
    OBVIOUS
  <1>6. Max(S) = x
    BY <1>4, <1>5, MaxIs
  <1>. QED
    BY <1>4, <1>6

(* Two multiples of a number are as far apart as it is large.              *)
LEMMA MultiplesApart ==
    ASSUME NEW n \in Nat \ {0}, NEW c \in Nat, NEW d \in Nat, c % n = 0, d % n = 0, c < d
    PROVE  c + n <= d
  <1>. DEFINE p == c \div n
              q == d \div n
  <1>1. p \in Int /\ q \in Int /\ c = n * p /\ d = n * q
    OBVIOUS
  <1>. HIDE DEF p, q
  <1>2. p < q
    <2>. SUFFICES ASSUME q <= p PROVE FALSE
      BY <1>1
    <2>1. n * q <= n * p
      BY <1>1
    <2>. QED
      BY <1>1, <2>1
  <1>3. n * (p + 1) <= n * q
    BY <1>1, <1>2
  <1>. QED
    BY <1>1, <1>3

-----------------------------------------------------------------------------
(* The invariant.                                                          *)

LifecycleEvent ==
    [sub : Subscribers, type : {"signup", "renewal", "cancellation"}, at : Times]
Visit == [sub : Subscribers, at : Times]
PaymentEvent == [sub : Subscribers, status : {"succeeded", "failed"}, at : Times]
Subscriber ==
    [next_renewal : Nat, cancelled_on : 0 .. Never, last_session_on : -1 .. LastDay,
     lived : -1 .. LastDay]

Types ==
    /\ day \in 0 .. LastDay + 1
    /\ signup \in [Subscribers -> 0 .. LastDay]
    /\ sub \in [Subscribers -> Subscriber]
    /\ lifecycle \subseteq LifecycleEvent
    /\ sessions \subseteq Visit /\ IsFiniteSet(sessions)
    /\ payments \subseteq PaymentEvent
    /\ support_tickets \subseteq Visit

Sorted == \A s, t \in Subscribers : s < t => signup[s] <= signup[t]

(* Who has signed up and not cancelled has lived every day so far, and a   *)
(* cancellation ends a life.                                               *)
Lived(s) ==
    /\ sub[s].lived <= day
    /\ sub[s].lived # -1 => signup[s] <= sub[s].lived
    /\ signup[s] < day => sub[s].lived # -1
    /\ signup[s] < day /\ sub[s].cancelled_on = Never => sub[s].lived \in {day - 1, day}
    /\ sub[s].cancelled_on # Never => sub[s].cancelled_on = sub[s].lived

(* The events tell of a life what the simulator remembers of it: when it   *)
(* began, ...                                                              *)
Joined(s) ==
    sub[s].lived # -1 =>
        \E e \in lifecycle : /\ e.sub = s /\ e.type = "signup"
                             /\ e.at \in {2 * signup[s], 2 * signup[s] + 1}

(* ... when it ended, ...                                                  *)
Left(s) ==
    /\ \A e \in lifecycle : e.sub = s /\ e.type = "cancellation" =>
          /\ sub[s].cancelled_on # Never
          /\ e.at \in {2 * sub[s].cancelled_on, 2 * sub[s].cancelled_on + 1}
    /\ sub[s].cancelled_on # Never =>
          \E e \in lifecycle :
             /\ e.sub = s /\ e.type = "cancellation"
             /\ e.at \in {2 * sub[s].cancelled_on, 2 * sub[s].cancelled_on + 1}

(* ... and when the service was last used.                                 *)
Visited(s) ==
    LET last == sub[s].last_session_on
    IN  /\ last <= sub[s].lived
        /\ last # -1 => /\ signup[s] <= last
                        /\ \E e \in sessions : e.sub = s /\ e.at \in {2 * last, 2 * last + 1}
        /\ \A e \in sessions : e.sub = s => last # -1 /\ e.at <= 2 * last + 1

Life(s) == Lived(s) /\ Joined(s) /\ Left(s) /\ Visited(s)

Inv == Types /\ Sorted /\ \A s \in Subscribers : Life(s)

-----------------------------------------------------------------------------
(* The invariant holds at first and is kept.                               *)

(* Whoever signs up does so on a simulated day.                            *)
LEMMA SignupsFit == LastSignup \in 0 .. LastDay
  <1>1. CASE LastDay - RenewalDays >= 1
    <2>1. Max({LastDay - RenewalDays, 1}) = LastDay - RenewalDays
      BY <1>1, TheConstants, MaxIs
    <2>. QED
      BY <1>1, <2>1, TheConstants DEF LastSignup
  <1>2. CASE LastDay - RenewalDays < 1
    <2>1. Max({LastDay - RenewalDays, 1}) = 1
      BY <1>2, TheConstants, MaxIs
    <2>. QED
      BY <2>1, TheConstants DEF LastSignup
  <1>. QED
    BY <1>1, <1>2, TheConstants

(* Nobody has lived and nothing has happened.                              *)
LEMMA Begins == Init => Inv
  <1>. SUFFICES ASSUME Init PROVE Inv
    OBVIOUS
  <1>0. signup \in [Subscribers -> 0 .. LastSignup] /\ Sorted
    BY DEF Init, Sorted
  <1>1. \A s \in Subscribers : signup[s] \in 0 .. LastDay
    BY <1>0, SignupsFit, TheConstants
  <1>2. signup \in [Subscribers -> 0 .. LastDay]
    BY <1>0, <1>1
  <1>3. \A s \in Subscribers :
           /\ sub[s] \in Subscriber
           /\ sub[s].cancelled_on = Never /\ sub[s].last_session_on = -1 /\ sub[s].lived = -1
    <2>. SUFFICES ASSUME NEW s \in Subscribers
                  PROVE  /\ sub[s] \in Subscriber
                         /\ sub[s].cancelled_on = Never /\ sub[s].last_session_on = -1
                         /\ sub[s].lived = -1
      OBVIOUS
    <2>. DEFINE renewal == signup[s] + RenewalDays
    <2>1. sub[s] = [next_renewal |-> renewal, cancelled_on |-> Never,
                    last_session_on |-> -1, lived |-> -1]
      BY DEF Init
    <2>2. renewal \in Nat /\ Never \in 0 .. Never /\ -1 \in -1 .. LastDay
      BY <1>1, TheConstants DEF Never
    <2>. HIDE DEF renewal
    <2>. QED
      BY <2>1, <2>2 DEF Subscriber
  <1>4. sub \in [Subscribers -> Subscriber]
    <2>1. sub = [s \in Subscribers |-> sub[s]]
      BY DEF Init
    <2>. QED
      BY <1>3, <2>1
  <1>5. Types
    BY <1>2, <1>4, TheConstants, FS_EmptySet DEF Init, Types
  <1>6. ASSUME NEW s \in Subscribers PROVE Life(s)
    <2>1. day = 0 /\ lifecycle = {} /\ sessions = {}
      BY DEF Init
    <2>2. Lived(s)
      BY <1>1, <1>3, <2>1 DEF Lived
    <2>3. Joined(s) /\ Left(s)
      BY <1>3, <2>1 DEF Joined, Left
    <2>4. Visited(s)
      BY <1>3, <2>1 DEF Visited
    <2>. QED
      BY <2>2, <2>3, <2>4 DEF Life
  <1>. QED
    BY <1>0, <1>5, <1>6 DEF Inv

(* A day ends when everyone active has lived it.                           *)
LEMMA DayEnds == Inv /\ NextDay => Inv'
  <1>. SUFFICES ASSUME Inv, NextDay PROVE Inv'
    OBVIOUS
  <1>1. /\ day' = day + 1 /\ day \in 0 .. LastDay
        /\ UNCHANGED <<signup, sub, lifecycle, sessions, payments, support_tickets>>
        /\ Types /\ Sorted /\ LastDay \in Nat
    BY TheConstants DEF Inv, NextDay, Types
  <1>2. Types' /\ Sorted'
    BY <1>1 DEF Types, Sorted
  <1>3. ASSUME NEW s \in Subscribers PROVE Life(s)'
    <2>1. Life(s) /\ sub[s] \in Subscriber /\ signup[s] \in 0 .. LastDay
      BY <1>1 DEF Inv, Types
    <2>2. signup[s] <= day /\ sub[s].cancelled_on = Never => sub[s].lived = day
      BY DEF NextDay, Active
    <2>3. Joined(s)' /\ Left(s)' /\ Visited(s)'
      BY <1>1, <2>1 DEF Life, Joined, Left, Visited
    <2>4. Lived(s)'
      <3>1. sub[s].cancelled_on # Never => sub[s].cancelled_on = sub[s].lived
        BY <2>1 DEF Life, Lived
      <3>2. sub[s].cancelled_on \in 0 .. Never
        BY <2>1 DEF Subscriber
      <3>3. signup[s] <= day => sub[s].lived # -1
        BY <1>1, <2>2, <3>1, <3>2
      <3>. QED
        BY <1>1, <2>1, <2>2, <3>3 DEF Life, Lived, Subscriber
    <2>. QED
      BY <2>3, <2>4 DEF Life
  <1>. QED
    BY <1>2, <1>3 DEF Inv

(* What one subscriber's day adds.                                         *)
Turned(s, visits, cancels, early) ==
    /\ s \in Subscribers /\ visits \in SUBSET Today /\ cancels \in BOOLEAN
    /\ Turn(s)
    /\ sessions' = sessions \cup {[sub |-> s, at |-> t] : t \in visits}
    /\ \A e \in lifecycle' \ lifecycle :
          e.sub = s /\ (e.type = "cancellation" => cancels) /\ e.at \in Today
    /\ lifecycle \subseteq lifecycle'
    /\ signup[s] = day => Lifecycle(s, "signup", early) \in lifecycle'
    /\ cancels => Lifecycle(s, "cancellation", early) \in lifecycle'
    /\ payments \subseteq payments' /\ support_tickets \subseteq support_tickets'
    /\ \A e \in (payments' \ payments) \cup (support_tickets' \ support_tickets) : e.at \in Today
    /\ \A t \in Subscribers \ {s} : sub'[t] = sub[t]
    /\ sub'[s].cancelled_on = IF cancels THEN day ELSE Never
    /\ sub'[s].last_session_on = IF visits = {} THEN sub[s].last_session_on ELSE day
    /\ sub'[s].lived = day
    /\ UNCHANGED <<day, signup>>

(* What a subscriber's day changes of the lives, and that the tables stay  *)
(* tables.                                                                 *)
LEMMA LiveTurns ==
    ASSUME Types, day \in 0 .. LastDay, NEW s \in Subscribers, Live(s)
    PROVE  /\ \E visits, cancels, early : Turned(s, visits, cancels, early)
           /\ Types'
  <1>0. /\ LastDay \in Nat /\ RetryDays \in Nat /\ RenewalDays \in Nat /\ day \in Nat
        /\ Never = LastDay + 1 /\ Times = 0 .. (2 * LastDay + 1)
    BY TheConstants DEF Never, Times
  <1>1. PICK visits \in SUBSET Today, ticket \in BOOLEAN, cancels \in BOOLEAN,
             status \in {"succeeded", "failed"}, early \in SUBSET Midnights[s] :
          LET joins == signup[s] = day
              due   == day >= sub[s].next_renewal
          IN  /\ Cardinality({e \in sessions \cup support_tickets : e.sub = s})
                   + Cardinality(visits) + (IF ticket THEN 1 ELSE 0) <= MaxEvents[s]
              /\ ~due => status = "succeeded"
              /\ sessions' = sessions \cup {[sub |-> s, at |-> t] : t \in visits}
              /\ support_tickets' = support_tickets
                   \cup (IF ticket THEN {Ticket(s, early)} ELSE {})
              /\ payments' = payments
                   \cup (IF joins THEN {Payment(s, "succeeded", early)} ELSE {})
                   \cup (IF due THEN {Payment(s, status, early)} ELSE {})
              /\ lifecycle' = lifecycle
                   \cup (IF joins THEN {Lifecycle(s, "signup", early)} ELSE {})
                   \cup (IF due /\ status = "succeeded"
                         THEN {Lifecycle(s, "renewal", early)} ELSE {})
                   \cup (IF cancels THEN {Lifecycle(s, "cancellation", early)} ELSE {})
              /\ sub' = [sub EXCEPT ![s] =
                           [next_renewal |-> Renewal(s, status),
                            cancelled_on |-> IF cancels THEN day ELSE Never,
                            last_session_on |-> IF visits = {} THEN @.last_session_on
                                                ELSE day,
                            lived |-> day]]
              /\ UNCHANGED <<day, signup>>
    BY DEF Live
  <1>2. /\ Today \subseteq Times /\ Today = {2 * day, 2 * day + 1}
        /\ \A kind : Clock(kind, early) \in Today
    BY <1>0 DEF Today, Clock
  <1>. DEFINE joins == signup[s] = day
              due   == day >= sub[s].next_renewal
              renewed == Renewal(s, status)
              ended == IF cancels THEN day ELSE Never
              last == IF visits = {} THEN sub[s].last_session_on ELSE day
              new == [next_renewal |-> renewed, cancelled_on |-> ended,
                      last_session_on |-> last, lived |-> day]
  <1>3. sub' = [sub EXCEPT ![s] = new] /\ sub \in [Subscribers -> Subscriber]
    BY <1>1 DEF Types
  <1>4. new \in Subscriber
    <2>1. sub[s] \in Subscriber
      BY <1>3
    <2>2. renewed \in Nat
      BY <1>0, <2>1 DEF Renewal, Subscriber
    <2>3. ended \in 0 .. Never /\ last \in -1 .. LastDay /\ day \in -1 .. LastDay
      BY <1>0, <2>1 DEF Subscriber
    <2>. HIDE DEF renewed, ended, last
    <2>. QED
      BY <2>2, <2>3 DEF Subscriber
  <1>5. sub' \in [Subscribers -> Subscriber]
    <2>. HIDE DEF new
    <2>. QED
      BY <1>3, <1>4
  <1>6. /\ \A t \in Subscribers \ {s} : sub'[t] = sub[t]
        /\ sub'[s].cancelled_on = ended /\ sub'[s].last_session_on = last /\ sub'[s].lived = day
    <2>1. sub'[s] = new /\ \A t \in Subscribers \ {s} : sub'[t] = sub[t]
      <3>. HIDE DEF new
      <3>. QED
        BY <1>3
    <2>. HIDE DEF renewed, ended, last
    <2>. QED
      BY <2>1
  <1>7. lifecycle' = lifecycle
           \cup (IF joins THEN {Lifecycle(s, "signup", early)} ELSE {})
           \cup (IF due /\ status = "succeeded"
                 THEN {Lifecycle(s, "renewal", early)} ELSE {})
           \cup (IF cancels THEN {Lifecycle(s, "cancellation", early)} ELSE {})
    BY <1>1
  <1>8. \A type \in {"signup", "renewal", "cancellation"} :
           /\ Lifecycle(s, type, early) \in LifecycleEvent
           /\ Lifecycle(s, type, early).sub = s /\ Lifecycle(s, type, early).type = type
           /\ Lifecycle(s, type, early).at \in Today
    BY <1>2 DEF Lifecycle, LifecycleEvent
  <1>9. lifecycle' \subseteq LifecycleEvent
    BY <1>7, <1>8 DEF Types
  <1>10. sessions' \subseteq Visit /\ IsFiniteSet(sessions')
    <2>. DEFINE added == {[sub |-> s, at |-> t] : t \in visits}
    <2>. DEFINE morning == [sub |-> s, at |-> 2 * day]
                evening == [sub |-> s, at |-> 2 * day + 1]
    <2>1. added \subseteq {morning, evening}
      BY <1>2
    <2>2. IsFiniteSet({morning, evening})
      <3>. HIDE DEF morning, evening
      <3>1. IsFiniteSet({morning})
        BY FS_Singleton
      <3>2. {morning, evening} = {morning} \cup {evening}
        OBVIOUS
      <3>. QED
        BY <3>1, <3>2, FS_AddElement
    <2>3. IsFiniteSet(added) /\ added \subseteq Visit
      BY <1>2, <2>1, <2>2, FS_Subset DEF Visit
    <2>4. sessions' = sessions \cup added
      BY <1>1
    <2>. HIDE DEF added
    <2>. QED
      BY <2>3, <2>4, FS_Union DEF Types
  <1>11. /\ payments' \subseteq PaymentEvent /\ payments \subseteq payments'
         /\ \A e \in payments' \ payments : e.at \in Today
    <2>1. \A x \in {"succeeded", "failed"} :
             Payment(s, x, early) \in PaymentEvent /\ Payment(s, x, early).at \in Today
      BY <1>2 DEF Payment, PaymentEvent
    <2>2. payments' = payments \cup (IF joins THEN {Payment(s, "succeeded", early)} ELSE {})
                               \cup (IF due THEN {Payment(s, status, early)} ELSE {})
      BY <1>1
    <2>. QED
      BY <2>1, <2>2 DEF Types
  <1>12. /\ support_tickets' \subseteq Visit /\ support_tickets \subseteq support_tickets'
         /\ \A e \in support_tickets' \ support_tickets : e.at \in Today
    <2>1. Ticket(s, early) \in Visit /\ Ticket(s, early).at \in Today
      BY <1>2 DEF Ticket, Visit
    <2>2. support_tickets' = support_tickets \cup (IF ticket THEN {Ticket(s, early)} ELSE {})
      BY <1>1
    <2>. QED
      BY <2>1, <2>2 DEF Types
  <1>13. Types'
    BY <1>1, <1>5, <1>9, <1>10, <1>11, <1>12 DEF Types
  <1>14. /\ \A e \in lifecycle' \ lifecycle :
              e.sub = s /\ (e.type = "cancellation" => cancels) /\ e.at \in Today
         /\ lifecycle \subseteq lifecycle'
         /\ joins => Lifecycle(s, "signup", early) \in lifecycle'
         /\ cancels => Lifecycle(s, "cancellation", early) \in lifecycle'
    BY <1>7, <1>8
  <1>15. Turned(s, visits, cancels, early)
    <2>1. Turn(s)
      BY DEF Live
    <2>. QED
      BY <1>1, <1>6, <1>11, <1>12, <1>14, <2>1 DEF Turned
  <1>. QED
    BY <1>13, <1>15

(* A subscriber's day keeps it.                                            *)
LEMMA LiveKeeps ==
    ASSUME Inv, day <= LastDay, NEW s \in Subscribers, Live(s)
    PROVE  Inv'
  <1>1. /\ Types /\ Sorted /\ day \in 0 .. LastDay /\ LastDay \in Nat
        /\ Never = LastDay + 1 /\ Today = {2 * day, 2 * day + 1}
    BY TheConstants DEF Inv, Types, Never, Today
  <1>2. PICK visits, cancels, early : Turned(s, visits, cancels, early)
    BY <1>1, LiveTurns
  <1>3. Types' /\ Sorted'
    <2>1. signup' = signup
      BY <1>2 DEF Turned
    <2>. QED
      BY <1>1, <2>1, LiveTurns DEF Sorted
  <1>4. /\ day' = day /\ signup' = signup /\ Today \subseteq Times
        /\ visits \in SUBSET Today /\ cancels \in BOOLEAN
        /\ sessions' = sessions \cup {[sub |-> s, at |-> t] : t \in visits}
        /\ \A e \in lifecycle' \ lifecycle :
              e.sub = s /\ (e.type = "cancellation" => cancels) /\ e.at \in Today
        /\ lifecycle \subseteq lifecycle'
    BY <1>1, <1>2 DEF Turned, Times
  <1>5. ASSUME NEW t \in Subscribers, t # s PROVE Life(t)'
    <2>0. Life(t)
      BY DEF Inv
    <2>1. Life(t) /\ sub'[t] = sub[t]
      <3>1. \A u \in Subscribers \ {s} : sub'[u] = sub[u]
        BY <1>2 DEF Turned
      <3>. QED
        BY <1>5, <2>0, <3>1
    <2>2. \A e \in lifecycle' : e.sub = t => e \in lifecycle
      BY <1>4, <1>5
    <2>3. \A e \in sessions' : e.sub = t => e \in sessions
      BY <1>4, <1>5
    <2>4. Lived(t)'
      BY <1>4, <2>1 DEF Life, Lived
    <2>5. Joined(t)'
      BY <1>4, <2>1 DEF Life, Joined
    <2>6. Left(t)'
      BY <1>4, <2>1, <2>2 DEF Life, Left
    <2>7. Visited(t)'
      BY <1>4, <2>1, <2>3 DEF Life, Visited
    <2>. QED
      BY <2>4, <2>5, <2>6, <2>7 DEF Life
  <1>6. Life(s)'
    <2>1. /\ Life(s) /\ sub[s] \in Subscriber /\ signup[s] \in 0 .. LastDay
      BY <1>1 DEF Inv, Types
    <2>2. signup[s] <= day /\ sub[s].cancelled_on = Never /\ sub[s].lived < day
      BY <1>2 DEF Turned, Turn, Active
    <2>3. /\ signup[s] = day => Lifecycle(s, "signup", early) \in lifecycle'
          /\ cancels => Lifecycle(s, "cancellation", early) \in lifecycle'
          /\ sub'[s].cancelled_on = IF cancels THEN day ELSE Never
          /\ sub'[s].last_session_on = IF visits = {} THEN sub[s].last_session_on ELSE day
          /\ sub'[s].lived = day
      BY <1>2 DEF Turned
    <2>4. \A type \in {"signup", "cancellation"} :
             /\ Lifecycle(s, type, early).sub = s /\ Lifecycle(s, type, early).type = type
             /\ Lifecycle(s, type, early).at \in Today
      BY <1>1 DEF Lifecycle, Clock
    <2>5. Lived(s)'
      BY <1>1, <1>4, <2>1, <2>2, <2>3 DEF Lived
    <2>6. Joined(s)'
      <3>1. CASE sub[s].lived # -1
        BY <1>4, <2>1, <3>1 DEF Life, Joined
      <3>2. CASE sub[s].lived = -1
        <4>1. signup[s] = day
          BY <1>1, <2>1, <2>2, <3>2 DEF Life, Lived
        <4>. QED
          BY <1>1, <1>4, <2>3, <2>4, <4>1 DEF Joined
      <3>. QED
        BY <3>1, <3>2
    <2>7. Left(s)'
      <3>1. \A e \in lifecycle' : e.sub = s /\ e.type = "cancellation" =>
               cancels /\ e.at \in {2 * day, 2 * day + 1}
        BY <1>1, <1>4, <2>1, <2>2 DEF Life, Left
      <3>2. cancels => \E e \in lifecycle' : /\ e.sub = s /\ e.type = "cancellation"
                                             /\ e.at \in {2 * day, 2 * day + 1}
        BY <1>1, <2>3, <2>4
      <3>3. sub'[s].cancelled_on # Never <=> cancels
        BY <1>1, <2>3
      <3>4. Never' = Never /\ (cancels => sub'[s].cancelled_on = day)
        BY <2>3 DEF Never
      <3>. QED
        BY <3>1, <3>2, <3>3, <3>4 DEF Left
    <2>8. Visited(s)'
      <3>1. CASE visits = {}
        <4>1. sessions' = sessions
          BY <1>4, <3>1
        <4>2. sub'[s].last_session_on = sub[s].last_session_on
          BY <2>3, <3>1
        <4>3. sub[s].last_session_on <= sub[s].lived
          BY <2>1 DEF Life, Visited
        <4>. QED
          BY <1>1, <1>4, <2>1, <2>2, <2>3, <4>1, <4>2, <4>3 DEF Life, Visited, Subscriber
      <3>2. CASE visits # {}
        <4>1. PICK v \in visits : TRUE
          BY <3>2
        <4>2. v \in {2 * day, 2 * day + 1} /\ [sub |-> s, at |-> v] \in sessions'
          BY <1>1, <1>4
        <4>3. \A e \in sessions' : e.sub = s => e.at <= 2 * day + 1
          <5>1. \A e \in sessions : e.sub = s => e.at <= 2 * day + 1
            <6>. SUFFICES ASSUME NEW e \in sessions, e.sub = s PROVE e.at <= 2 * day + 1
              OBVIOUS
            <6>1. /\ sub[s].last_session_on <= sub[s].lived /\ e.at <= 2 * sub[s].last_session_on + 1
              BY <2>1 DEF Life, Visited
            <6>2. e.at \in Int
              BY <1>1 DEF Types, Visit, Times
            <6>. QED
              BY <1>1, <2>1, <2>2, <6>1, <6>2 DEF Subscriber
          <5>. QED
            BY <1>1, <1>4, <5>1
        <4>4. sub'[s].last_session_on = day /\ day # -1
          BY <1>1, <2>3, <3>2
        <4>5. \E e \in sessions' : e.sub = s /\ e.at \in {2 * day, 2 * day + 1}
          BY <4>2
        <4>. QED
          BY <1>1, <1>4, <2>2, <2>3, <4>3, <4>4, <4>5 DEF Visited
      <3>. QED
        BY <3>1, <3>2
    <2>. QED
      BY <2>5, <2>6, <2>7, <2>8 DEF Life
  <1>. QED
    BY <1>3, <1>5, <1>6 DEF Inv

(* Every step keeps the invariant.                                         *)
LEMMA StepKeeps == Inv /\ [Next]_vars => Inv'
  <1>. SUFFICES ASSUME Inv, [Next]_vars PROVE Inv'
    OBVIOUS
  <1>1. CASE UNCHANGED vars
    BY <1>1 DEF Inv, vars, Types, Sorted, Life, Lived, Joined, Left, Visited
  <1>2. CASE NextDay
    BY <1>2, DayEnds
  <1>3. CASE day <= LastDay /\ \E s \in Subscribers : Live(s)
    BY <1>3, LiveKeeps
  <1>. QED
    BY <1>1, <1>2, <1>3 DEF Next

(* The events keep telling the lives.                                      *)
THEOREM InvariantHolds == Spec => []Inv
  BY Begins, StepKeeps, PTL DEF Spec

-----------------------------------------------------------------------------
(* What follows.                                                           *)

(* The tables hold events of subscribers, at times of the simulation.      *)
THEOREM PointInTimeTypeCorrect == Spec => []PointInTimeTypeOK
  <1>1. Inv => PointInTimeTypeOK
    <2>. SUFFICES ASSUME Inv PROVE PointInTimeTypeOK
      OBVIOUS
    <2>1. Types
      BY DEF Inv
    <2>2. ASSUME NEW s \in Subscribers
          PROVE  /\ sub[s].lived \in -1 .. LastDay /\ sub[s].cancelled_on \in 0 .. Never
                 /\ sub[s].next_renewal \in Nat
      <3>1. sub[s] \in Subscriber
        BY <2>1 DEF Types
      <3>. QED
        BY <3>1 DEF Subscriber
    <2>3. ASSUME NEW e \in lifecycle \cup sessions \cup payments \cup support_tickets
          PROVE  e.sub \in Subscribers /\ e.at \in Times
      <3>1. e \in LifecycleEvent \/ e \in Visit \/ e \in PaymentEvent
        BY <2>1 DEF Types
      <3>. QED
        BY <3>1 DEF LifecycleEvent, Visit, PaymentEvent
    <2>. QED
      BY <2>1, <2>2, <2>3 DEF PointInTimeTypeOK, Types
  <1>. QED
    BY <1>1, InvariantHolds, PTL

(* As of a midnight that has come, or the one after, the lifecycle shows   *)
(* who had gone.                                                           *)
LEMMA GoneIs ==
    ASSUME Inv, NEW s \in Subscribers, NEW c \in 0 .. Never
    PROVE  AlreadyGone(s, c) <=> sub[s].cancelled_on < c
  <1>1. /\ Left(s) /\ sub[s].cancelled_on \in 0 .. Never /\ Never \in Nat
    BY TheConstants DEF Inv, Life, Types, Subscriber, Never
  <1>. DEFINE k == sub[s].cancelled_on
  <1>2. ASSUME AlreadyGone(s, c) PROVE k < c
    <2>1. PICK e \in Before(lifecycle, c) : e.sub = s /\ e.type = "cancellation"
      BY <1>2 DEF AlreadyGone
    <2>2. e \in lifecycle /\ e.at < 2 * c
      BY <2>1 DEF Before
    <2>3. e.at \in {2 * k, 2 * k + 1}
      BY <1>1, <2>1, <2>2 DEF Left
    <2>. HIDE DEF k
    <2>4. k \in Int
      BY <1>1 DEF k
    <2>. QED
      BY <2>2, <2>3, <2>4
  <1>3. ASSUME k < c PROVE AlreadyGone(s, c)
    <2>1. k # Never
      BY <1>1, <1>3
    <2>2. PICK e \in lifecycle :
             e.sub = s /\ e.type = "cancellation" /\ e.at \in {2 * k, 2 * k + 1}
      BY <1>1, <2>1 DEF Left
    <2>. HIDE DEF k
    <2>3. k \in Int
      BY <1>1 DEF k
    <2>4. e.at < 2 * c
      BY <1>3, <2>2, <2>3
    <2>. QED
      BY <2>2, <2>4 DEF AlreadyGone, Before
  <1>. QED
    BY <1>2, <1>3

(* Whoever signed up before a midnight that has come shows up by then.     *)
LEMMA StateIs ==
    ASSUME Inv, NEW s \in Subscribers, NEW c \in 0 .. day, signup[s] < c
    PROVE  HasState(s, c)
  <1>1. Life(s) /\ day \in Int /\ signup[s] \in Int
    BY DEF Inv, Types
  <1>2. sub[s].lived # -1
    BY <1>1 DEF Life, Lived
  <1>3. PICK e \in lifecycle : e.sub = s /\ e.at \in {2 * signup[s], 2 * signup[s] + 1}
    BY <1>1, <1>2 DEF Life, Joined
  <1>4. e.at < 2 * c
    BY <1>1, <1>3
  <1>. QED
    BY <1>3, <1>4 DEF HasState, Before

(* The rows of a cutoff that has come are who was at risk then.            *)
LEMMA RowsAre ==
    ASSUME Inv, NEW c \in 0 .. day
    PROVE  Snapshot(c, 0) = {s \in Subscribers : signup[s] < c /\ sub[s].cancelled_on >= c}
  <1>1. c \in 0 .. Never /\ c \in Int
    BY TheConstants DEF Inv, Types, Never
  <1>2. ASSUME NEW s \in Subscribers
        PROVE  (HasState(s, c) /\ ~AlreadyGone(s, c) /\ signup[s] < c)
                 <=> (signup[s] < c /\ sub[s].cancelled_on >= c)
    <2>1. AlreadyGone(s, c) <=> sub[s].cancelled_on < c
      BY <1>1, GoneIs
    <2>2. sub[s].cancelled_on \in Int
      BY TheConstants DEF Inv, Types, Subscriber, Never
    <2>3. signup[s] < c => HasState(s, c)
      BY StateIs
    <2>. QED
      BY <1>1, <2>1, <2>2, <2>3
  <1>3. Base(c, 0) = {s \in Subscribers : signup[s] < c}
    BY DEF Base
  <1>. QED
    BY <1>2, <1>3 DEF Snapshot

(* Of who was at risk the visits tell the last activity.                   *)
LEMMA ActivityIs ==
    ASSUME Inv, NEW s \in Subscribers, signup[s] < day, sub[s].lived < day
    PROVE  LET last == sub[s].last_session_on
           IN  /\ LastActivity(s, day) =
                     IF last = -1 THEN day - signup[s]
                     ELSE day - last - (IF [sub |-> s, at |-> 2 * last + 1] \in sessions
                                        THEN 1 ELSE 0)
               /\ Cardinality(Window(sessions, s, day, OBSERVATION_WINDOW_DAYS)) > 0
                     <=> last >= Max({0, day - OBSERVATION_WINDOW_DAYS})
  <1>. DEFINE last == sub[s].last_session_on
              tenure == day - signup[s]
              mine == {x \in Before(sessions, day) : x.sub = s}
              seen == {e.at : e \in mine}
              opening == day - OBSERVATION_WINDOW_DAYS
              shown == Window(sessions, s, day, OBSERVATION_WINDOW_DAYS)
  <1>1. /\ day \in Nat /\ last \in Int /\ last >= -1 /\ last < day
        /\ signup[s] \in Nat /\ tenure \in Int /\ opening \in Int /\ opening < day /\ tenure > 0
    <2>1. day \in 0 .. LastDay + 1 /\ sub[s] \in Subscriber /\ signup[s] \in 0 .. LastDay
      BY DEF Inv, Types
    <2>2. last <= sub[s].lived
      BY DEF Inv, Life, Visited
    <2>. QED
      BY <2>1, <2>2, TheConstants DEF Subscriber
  <1>2. /\ last # -1 => /\ signup[s] <= last
                        /\ \E e \in sessions : e.sub = s /\ e.at \in {2 * last, 2 * last + 1}
        /\ \A e \in sessions : e.sub = s => last # -1 /\ e.at <= 2 * last + 1
    BY DEF Inv, Life, Visited
  <1>3. /\ sessions \subseteq Visit /\ IsFiniteSet(sessions)
        /\ \A e \in sessions : e.at \in Nat /\ e = [sub |-> e.sub, at |-> e.at]
    BY TheConstants DEF Inv, Types, Visit, Times
  <1>. HIDE DEF last, tenure, opening
  <1>4. \A e : e \in mine <=> e \in sessions /\ e.sub = s
    <2>1. \A e \in sessions : e.sub = s => e.at < 2 * day
      BY <1>1, <1>2, <1>3
    <2>. QED
      BY <2>1 DEF Before
  <1>5. seen \in SUBSET Int
    BY <1>3, <1>4
  <1>6. \A e : e \in shown <=> e \in mine /\ e.at >= 2 * opening
    BY DEF Window, opening
  <1>7. IsFiniteSet(shown) /\ Cardinality(shown) \in Nat /\ (Cardinality(shown) > 0 <=> shown # {})
    <2>1. shown \subseteq sessions
      BY <1>4, <1>6
    <2>2. IsFiniteSet(shown)
      BY <1>3, <2>1, FS_Subset
    <2>. HIDE DEF shown
    <2>3. Cardinality(shown) \in Nat
      BY <2>2, FS_CardinalityType
    <2>4. Cardinality(shown) = 0 <=> shown = {}
      BY <2>2, FS_EmptySet
    <2>. QED
      BY <2>2, <2>3, <2>4
  <1>8. LastActivity(s, day) = Min({tenure, IF seen = {} THEN tenure ELSE DaysSince(Max(seen), day)})
    BY DEF LastActivity, tenure
  <1>9. CASE last = -1
    <2>1. mine = {}
      BY <1>2, <1>4, <1>9
    <2>2. seen = {} /\ shown = {}
      BY <1>6, <2>1
    <2>3. LastActivity(s, day) = tenure
      <3>1. Min({tenure, tenure}) = tenure
        BY <1>1, MinIs
      <3>. QED
        BY <1>8, <2>2, <3>1
    <2>4. Max({0, opening}) >= 0
      <3>1. CASE opening >= 0
        <4>1. Max({0, opening}) = opening
          BY <1>1, <3>1, MaxIs
        <4>. QED
          BY <3>1, <4>1
      <3>2. CASE opening < 0
        <4>1. Max({0, opening}) = 0
          BY <1>1, <3>2, MaxIs
        <4>. QED
          BY <4>1
      <3>. QED
        BY <1>1, <3>1, <3>2
    <2>5. Max({0, opening}) \in Int
      BY <1>1 DEF Max
    <2>6. ~(last >= Max({0, opening}))
      BY <1>9, <2>4, <2>5
    <2>7. ~(Cardinality(shown) > 0)
      BY <1>7, <2>2
    <2>. QED
      BY <1>9, <2>3, <2>6, <2>7 DEF last, tenure, opening
  <1>10. CASE last # -1
    <2>. DEFINE evening == [sub |-> s, at |-> 2 * last + 1]
                top == 2 * last + (IF evening \in sessions THEN 1 ELSE 0)
    <2>0. top \in {2 * last, 2 * last + 1} /\ top \in Int
      BY <1>1
    <2>1. \E e \in mine : e.at = top
      <3>1. CASE evening \in sessions
        <4>1. evening.sub = s /\ evening.at = top
          BY <3>1
        <4>. QED
          BY <1>4, <3>1, <4>1
      <3>2. CASE evening \notin sessions
        <4>1. PICK e \in sessions : e.sub = s /\ e.at \in {2 * last, 2 * last + 1}
          BY <1>2, <1>10
        <4>2. e.at # 2 * last + 1
          BY <1>3, <3>2, <4>1
        <4>3. e.at = top
          BY <1>1, <3>2, <4>1, <4>2
        <4>. QED
          BY <1>4, <4>1, <4>3
      <3>. QED
        BY <3>1, <3>2
    <2>2. \A e \in mine : e.at <= top
      <3>. SUFFICES ASSUME NEW e \in mine PROVE e.at <= top
        OBVIOUS
      <3>1. e \in sessions /\ e.sub = s /\ e.at <= 2 * last + 1 /\ e.at \in Nat
        BY <1>2, <1>3, <1>4
      <3>2. e.at = 2 * last + 1 => evening \in sessions
        BY <1>3, <3>1
      <3>. HIDE DEF evening
      <3>. QED
        BY <1>1, <3>1, <3>2
    <2>. HIDE DEF top
    <2>3. top \in seen /\ \A t \in seen : t <= top
      BY <2>1, <2>2
    <2>4. Max(seen) = top /\ seen # {}
      <3>. HIDE DEF seen
      <3>. QED
        BY <1>5, <2>3, MaxIs
    <2>. DEFINE since == DaysSince(top, day)
    <2>5. since = day - last - (IF evening \in sessions THEN 1 ELSE 0)
      <3>1. CASE evening \in sessions
        <4>1. top = 2 * last + 1
          BY <3>1, <1>1 DEF top
        <4>2. (2 * day - (2 * last + 1)) \div 2 = day - last - 1
          BY <1>1
        <4>. QED
          BY <3>1, <4>1, <4>2 DEF DaysSince
      <3>2. CASE evening \notin sessions
        <4>1. top = 2 * last
          BY <3>2, <1>1 DEF top
        <4>2. (2 * day - 2 * last) \div 2 = day - last
          BY <1>1
        <4>3. day - last - 0 = day - last
          BY <1>1
        <4>. QED
          BY <3>2, <4>1, <4>2, <4>3 DEF DaysSince
      <3>. QED
        BY <3>1, <3>2
    <2>6. since \in Int /\ since <= tenure
      <3>. HIDE DEF evening, since
      <3>1. signup[s] <= last
        BY <1>2, <1>10
      <3>. QED
        BY <1>1, <2>5, <3>1 DEF tenure
    <2>7. LastActivity(s, day) = since
      <3>. HIDE DEF since, seen
      <3>1. Min({tenure, since}) = since
        BY <1>1, <2>6, MinIs
      <3>2. DaysSince(Max(seen), day) = since
        BY <2>4 DEF since
      <3>. QED
        BY <1>8, <2>4, <3>1, <3>2
    <2>8. shown # {} <=> last >= opening
      <3>1. ASSUME NEW e \in shown PROVE last >= opening
        <4>1. e.at >= 2 * opening /\ e.at <= top /\ e.at \in Nat
          BY <1>3, <1>4, <1>6, <2>2
        <4>. QED
          BY <1>1, <2>0, <4>1
      <3>2. ASSUME last >= opening PROVE shown # {}
        <4>1. PICK e \in mine : e.at = top
          BY <2>1
        <4>2. e.at >= 2 * opening
          BY <1>1, <2>0, <3>2, <4>1
        <4>. QED
          BY <1>6, <4>1, <4>2
      <3>. QED
        BY <3>1, <3>2
    <2>9. last >= Max({0, opening}) <=> last >= opening
      <3>1. CASE opening >= 0
        <4>1. Max({0, opening}) = opening
          BY <1>1, <3>1, MaxIs
        <4>. QED
          BY <4>1
      <3>2. CASE opening < 0
        <4>1. Max({0, opening}) = 0
          BY <1>1, <3>2, MaxIs
        <4>. QED
          BY <1>1, <1>10, <3>2, <4>1
      <3>. QED
        BY <1>1, <3>1, <3>2
    <2>10. Cardinality(shown) > 0 <=> last >= Max({0, opening})
      BY <1>7, <2>8, <2>9
    <2>. HIDE DEF shown, mine, seen
    <2>11. LastActivity(s, day) = day - last - (IF evening \in sessions THEN 1 ELSE 0)
      BY <2>5, <2>7
    <2>. QED
      BY <1>10, <2>10, <2>11 DEF last, opening, shown
  <1>. QED
    BY <1>9, <1>10

(* The cap drops from the panel nobody whom it has let in.                 *)
LEMMA CapKeeps ==
    ASSUME Inv, NEW c \in 0 .. day, NEW cap \in Nat, NEW s \in Base(c, cap)
    PROVE  s \in Base(day, cap)
  <1>1. /\ Sorted /\ signup \in [Subscribers -> 0 .. LastDay] /\ day \in Nat
        /\ Subscribers \subseteq Int
    BY TheConstants DEF Inv, Types, Subscribers
  <1>2. s \in Subscribers /\ signup[s] < c /\ signup[s] < day
    BY <1>1 DEF Base
  <1>3. CASE cap = 0
    BY <1>2, <1>3 DEF Base
  <1>4. CASE cap # 0
    <2>. DEFINE known(x) == {t \in Subscribers : signup[t] < x}
                ahead(x) == {t \in known(x) : t < s}
    <2>1. Cardinality(ahead(c)) < cap
      BY <1>4 DEF Base
    <2>2. \A t \in Subscribers : t < s => signup[t] < c /\ signup[t] < day
      BY <1>1, <1>2 DEF Sorted
    <2>3. ahead(c) = ahead(day)
      BY <2>2
    <2>4. s \in known(day) /\ Cardinality(ahead(day)) < cap
      BY <1>2, <2>1, <2>3
    <2>. QED
      BY <1>4, <2>4 DEF Base
  <1>. QED
    BY <1>3, <1>4

(* On any day, the joins over the events return the subscribers who are at *)
(* risk, with their true recency, and the cap takes out only who is gone.  *)
LEMMA RowsHold == Inv => RowsAreTrue
  <1>. SUFFICES ASSUME Inv PROVE RowsAreTrue
    OBVIOUS
  <1>. DEFINE today == Snapshot(day, 0)
              panel(c) == Snapshot(c, MAX_TRAINING_SUBSCRIBERS)
  <1>1. day \in Nat /\ day \in 0 .. day /\ MAX_TRAINING_SUBSCRIBERS \in Nat
    BY TheConstants DEF Inv, Types
  <1>2. today = {s \in Subscribers : signup[s] < day /\ sub[s].cancelled_on >= day}
    BY <1>1, RowsAre
  <1>3. ASSUME NEW s \in {t \in today : sub[t].lived < day}
        PROVE  LET f    == Features(s, day)
                   last == sub[s].last_session_on
               IN  /\ f.last_activity_days_ago =
                         IF last = -1 THEN f.tenure_days
                         ELSE day - last - (IF [sub |-> s, at |-> 2 * last + 1] \in sessions
                                            THEN 1 ELSE 0)
                   /\ f.sessions > 0 <=> last >= Max({0, day - OBSERVATION_WINDOW_DAYS})
    <2>1. s \in Subscribers /\ signup[s] < day /\ sub[s].lived < day
      BY <1>2
    <2>2. /\ Features(s, day).last_activity_days_ago = LastActivity(s, day)
          /\ Features(s, day).tenure_days = day - signup[s]
          /\ Features(s, day).sessions
               = Cardinality(Window(sessions, s, day, OBSERVATION_WINDOW_DAYS))
      BY DEF Features
    <2>3. LET last == sub[s].last_session_on
          IN  /\ LastActivity(s, day) =
                    IF last = -1 THEN day - signup[s]
                    ELSE day - last - (IF [sub |-> s, at |-> 2 * last + 1] \in sessions
                                       THEN 1 ELSE 0)
              /\ Cardinality(Window(sessions, s, day, OBSERVATION_WINDOW_DAYS)) > 0
                    <=> last >= Max({0, day - OBSERVATION_WINDOW_DAYS})
      BY <2>1, ActivityIs
    <2>. QED
      BY <2>2, <2>3
  <1>4. ASSUME NEW c \in Cutoffs \cap 0 .. day, NEW s \in panel(c) \ panel(day)
        PROVE  AlreadyGone(s, day)
    <2>1. c \in 0 .. day /\ s \in Base(c, MAX_TRAINING_SUBSCRIBERS)
      BY DEF Snapshot
    <2>2. s \in Base(day, MAX_TRAINING_SUBSCRIBERS)
      BY <1>1, <2>1, CapKeeps
    <2>3. s \in Subscribers /\ signup[s] < day
      BY <1>1, <2>2 DEF Base
    <2>4. HasState(s, day)
      BY <1>1, <2>3, StateIs
    <2>. QED
      BY <2>2, <2>4 DEF Snapshot
  <1>. HIDE DEF today, panel
  <1>5. /\ \A s \in {t \in today : sub[t].lived < day} :
              LET f    == Features(s, day)
                  last == sub[s].last_session_on
              IN  /\ f.last_activity_days_ago =
                        IF last = -1 THEN f.tenure_days
                        ELSE day - last - (IF [sub |-> s, at |-> 2 * last + 1] \in sessions
                                           THEN 1 ELSE 0)
                  /\ f.sessions > 0 <=> last >= Max({0, day - OBSERVATION_WINDOW_DAYS})
        /\ \A c \in Cutoffs \cap 0 .. day : \A s \in panel(c) \ panel(day) : AlreadyGone(s, day)
    BY <1>3, <1>4
  <1>. QED
    BY <1>2, <1>5 DEF RowsAreTrue, today, panel

(* The rows of any day are the subscribers at risk on it.                  *)
THEOREM PanelsAreTrue == Spec => []RowsAreTrue
  BY InvariantHolds, RowsHold, PTL

(* What a day adds happens on that day.                                    *)
LEMMA EventsAreNew ==
    ASSUME Types, day \in 0 .. LastDay, NEW s \in Subscribers, Live(s)
    PROVE  /\ signup' = signup
           /\ lifecycle \subseteq lifecycle'
           /\ sessions \subseteq sessions' /\ payments \subseteq payments'
           /\ support_tickets \subseteq support_tickets'
           /\ \A e \in (lifecycle' \ lifecycle) \cup (sessions' \ sessions)
                         \cup (payments' \ payments) \cup (support_tickets' \ support_tickets) :
                 e.at >= 2 * day
  <1>0. \A t \in Today : t >= 2 * day
    BY TheConstants DEF Today
  <1>1. PICK visits, cancels, early : Turned(s, visits, cancels, early)
    BY LiveTurns
  <1>2. /\ signup' = signup /\ visits \subseteq Today
        /\ sessions' = sessions \cup {[sub |-> s, at |-> t] : t \in visits}
        /\ lifecycle \subseteq lifecycle'
        /\ payments \subseteq payments' /\ support_tickets \subseteq support_tickets'
        /\ \A e \in (lifecycle' \ lifecycle) \cup (payments' \ payments)
                      \cup (support_tickets' \ support_tickets) : e.at \in Today
    BY <1>1 DEF Turned
  <1>3. sessions \subseteq sessions' /\ \A e \in sessions' \ sessions : e.at \in Today
    BY <1>2
  <1>. QED
    BY <1>0, <1>2, <1>3

(* So nothing as of a midnight that has come changes.                      *)
LEMMA PastStays ==
    ASSUME Inv, day <= LastDay, NEW s \in Subscribers, Live(s), NEW c \in 0 .. day
    PROVE  /\ Before(lifecycle, c)' = Before(lifecycle, c)
           /\ Before(sessions, c)' = Before(sessions, c)
           /\ Before(payments, c)' = Before(payments, c)
           /\ Before(support_tickets, c)' = Before(support_tickets, c)
  <1>1. Types /\ day \in 0 .. LastDay /\ c \in Int /\ c <= day
    BY TheConstants DEF Inv, Types
  <1>2. \A t : t >= 2 * day /\ t \in Int => ~(t < 2 * c)
    BY <1>1
  <1>3. Types'
    BY <1>1, LiveTurns
  <1>4. \A e \in lifecycle' \cup sessions' \cup payments' \cup support_tickets' : e.at \in Int
    <2>1. /\ lifecycle' \subseteq LifecycleEvent /\ sessions' \subseteq Visit
          /\ payments' \subseteq PaymentEvent /\ support_tickets' \subseteq Visit
      BY <1>3 DEF Types, LifecycleEvent, Visit, PaymentEvent, Times
    <2>2. \A e \in LifecycleEvent \cup Visit \cup PaymentEvent : e.at \in Int
      BY TheConstants DEF LifecycleEvent, Visit, PaymentEvent, Times
    <2>. QED
      BY <2>1, <2>2
  <1>5. /\ \A e \in lifecycle' \ lifecycle : ~(e.at < 2 * c)
        /\ \A e \in sessions' \ sessions : ~(e.at < 2 * c)
        /\ \A e \in payments' \ payments : ~(e.at < 2 * c)
        /\ \A e \in support_tickets' \ support_tickets : ~(e.at < 2 * c)
    <2>1. \A e \in (lifecycle' \ lifecycle) \cup (sessions' \ sessions)
                     \cup (payments' \ payments) \cup (support_tickets' \ support_tickets) :
             e.at >= 2 * day
      BY <1>1, EventsAreNew
    <2>. QED
      BY <1>2, <1>4, <2>1
  <1>6. /\ lifecycle \subseteq lifecycle' /\ sessions \subseteq sessions'
        /\ payments \subseteq payments' /\ support_tickets \subseteq support_tickets'
    BY <1>1, EventsAreNew
  <1>. QED
    BY <1>5, <1>6 DEF Before

(* A row of a midnight that has come is settled, and its label with the    *)
(* horizon.                                                                *)
LEMMA RowsStay ==
    ASSUME Inv, day <= LastDay, NEW s \in Subscribers, Live(s), NEW c \in 0 .. day,
           NEW known \in {c + PREDICTION_HORIZON_DAYS <= day}
    PROVE  LET rows == [t \in Snapshot(c, 0) |-> <<Features(t, c), known /\ Label(t, c)>>]
           IN rows' = rows
  <1>1. day \in Nat /\ c \in Nat /\ c <= day /\ PREDICTION_HORIZON_DAYS \in Nat
    BY TheConstants DEF Inv, Types
  <1>2. signup' = signup
    BY <1>1, EventsAreNew DEF Inv
  <1>3. /\ Before(lifecycle, c)' = Before(lifecycle, c)
        /\ Before(sessions, c)' = Before(sessions, c)
        /\ Before(payments, c)' = Before(payments, c)
        /\ Before(support_tickets, c)' = Before(support_tickets, c)
    BY PastStays
  <1>4. Snapshot(c, 0)' = Snapshot(c, 0)
    <2>1. Base(c, 0)' = Base(c, 0)
      BY <1>2 DEF Base
    <2>2. ASSUME NEW t
          PROVE  (HasState(t, c)' <=> HasState(t, c)) /\ (AlreadyGone(t, c)' <=> AlreadyGone(t, c))
      BY <1>3 DEF HasState, AlreadyGone
    <2>. QED
      BY <2>1, <2>2 DEF Snapshot
  <1>5. ASSUME NEW t, NEW days
        PROVE  /\ Window(sessions, t, c, days)' = Window(sessions, t, c, days)
               /\ Window(payments, t, c, days)' = Window(payments, t, c, days)
               /\ Window(support_tickets, t, c, days)' = Window(support_tickets, t, c, days)
    BY <1>3 DEF Window
  <1>6. ASSUME NEW t PROVE Features(t, c)' = Features(t, c)
    <2>1. LastActivity(t, c)' = LastActivity(t, c)
      BY <1>2, <1>3 DEF LastActivity
    <2>. QED
      BY <1>2, <1>5, <2>1 DEF Features
  <1>7. ASSUME NEW t PROVE (known /\ Label(t, c))' = (known /\ Label(t, c))
    <2>1. CASE known
      <3>1. c + PREDICTION_HORIZON_DAYS \in 0 .. day
        <4>1. c + PREDICTION_HORIZON_DAYS <= day
          BY <2>1, Zenon
        <4>. HIDE <2>1
        <4>. QED
          BY <1>1, <4>1
      <3>2. Before(lifecycle, c + PREDICTION_HORIZON_DAYS)'
              = Before(lifecycle, c + PREDICTION_HORIZON_DAYS)
        BY <3>1, PastStays
      <3>3. Label(t, c)' <=> Label(t, c)
        BY <3>2 DEF Label, Before
      <3>. QED
        BY <3>3
    <2>2. CASE ~known
      BY <2>2
    <2>. QED
      BY <2>1, <2>2
  <1>. QED
    BY <1>4, <1>6, <1>7

(* Features never see what comes after the cutoff, nor labels what comes   *)
(* after their horizon.                                                    *)
THEOREM NothingLooksAhead == Spec => NoLookAhead
  <1>. DEFINE told == <<signup, lifecycle, sessions, payments, support_tickets>>
              Settled ==
                 \A c \in {day} \cup (Cutoffs \cap 0 .. day) :
                 \A known \in {c + PREDICTION_HORIZON_DAYS <= day} :
                    LET rows == [s \in Snapshot(c, 0) |-> <<Features(s, c), known /\ Label(s, c)>>]
                    IN rows' = rows
  <1>1. Inv /\ [Next]_vars => [Settled]_told
    <2>. SUFFICES ASSUME Inv, [Next]_vars, told' # told PROVE Settled
      OBVIOUS
    <2>1. PICK s \in Subscribers : day <= LastDay /\ Live(s)
      <3>1. ~UNCHANGED vars /\ ~NextDay
        BY DEF vars, NextDay
      <3>. QED
        BY <3>1 DEF Next
    <2>2. day \in Nat
      BY TheConstants DEF Inv, Types
    <2>3. ASSUME NEW c \in {day} \cup (Cutoffs \cap 0 .. day),
                 NEW known \in {c + PREDICTION_HORIZON_DAYS <= day}
          PROVE  LET rows == [t \in Snapshot(c, 0) |-> <<Features(t, c), known /\ Label(t, c)>>]
                 IN rows' = rows
      <3>1. c \in 0 .. day
        BY <2>2
      <3>. QED
        BY <2>1, <3>1, RowsStay
    <2>. QED
      BY <2>3
  <1>. QED
    BY <1>1, InvariantHolds, PTL DEF Spec, NoLookAhead

(* Two cutoffs are a horizon apart.                                        *)
LEMMA CutoffsApart ==
    ASSUME NEW c \in Cutoffs, NEW d \in Cutoffs, c < d
    PROVE  c + PREDICTION_HORIZON_DAYS <= d
  <1>1. /\ c \in Nat /\ d \in Nat /\ c % StepDays = 0 /\ d % StepDays = 0
        /\ StepDays \in Nat \ {0} /\ PREDICTION_HORIZON_DAYS \in Nat
        /\ StepDays >= PREDICTION_HORIZON_DAYS
    BY TheConstants DEF Cutoffs, MonthlyCutoffs
  <1>2. c + StepDays <= d
    BY <1>1, MultiplesApart
  <1>. QED
    BY <1>1, <1>2

(* A cutoff's label is whether its window holds the day of cancellation,   *)
(* on whose midnight the event may be.                                     *)
LEMMA LabelIs ==
    ASSUME Inv, NEW s \in Subscribers, NEW c \in Nat, sub[s].cancelled_on # Never
    PROVE  Label(s, c) <=> /\ c <= sub[s].cancelled_on
                           /\ sub[s].cancelled_on < c + PREDICTION_HORIZON_DAYS
  <1>. DEFINE k == sub[s].cancelled_on
              at(e) == /\ e.sub = s /\ e.type = "cancellation"
                       /\ e.at \in {2 * k, 2 * k + 1}
  <1>1. Left(s) /\ k \in Int /\ PREDICTION_HORIZON_DAYS \in Nat
    BY TheConstants DEF Inv, Life, Types, Subscriber, Never
  <1>2. /\ \A e \in lifecycle : e.sub = s /\ e.type = "cancellation" =>
              e.at \in {2 * k, 2 * k + 1}
        /\ \E e \in lifecycle : at(e)
    BY <1>1 DEF Left
  <1>. HIDE DEF k
  <1>3. ASSUME Label(s, c) PROVE c <= k /\ k < c + PREDICTION_HORIZON_DAYS
    <2>1. PICK e \in lifecycle : /\ e.sub = s /\ e.type = "cancellation"
                                 /\ e.at >= 2 * c
                                 /\ e.at < 2 * (c + PREDICTION_HORIZON_DAYS)
      BY <1>3 DEF Label
    <2>2. e.at \in {2 * k, 2 * k + 1}
      BY <1>2, <2>1
    <2>. QED
      BY <1>1, <2>1, <2>2
  <1>4. ASSUME c <= k, k < c + PREDICTION_HORIZON_DAYS PROVE Label(s, c)
    <2>1. PICK e \in lifecycle : at(e)
      BY <1>2
    <2>2. e.at >= 2 * c /\ e.at < 2 * (c + PREDICTION_HORIZON_DAYS)
      BY <1>1, <1>4, <2>1
    <2>. QED
      BY <2>1, <2>2 DEF Label
  <1>. QED
    BY <1>3, <1>4 DEF k

(* A cancellation labels the last row of its subscriber, if its window     *)
(* reaches as far, and no other.                                           *)
LEMMA LabelledOnce ==
    ASSUME Inv, NEW s \in Subscribers, sub[s].cancelled_on # Never
    PROVE  LET panel    == {c \in Cutoffs : c <= day /\ s \in Snapshot(c, 0)}
               labelled == {c \in panel : Label(s, c)}
           IN  labelled = {c \in panel : /\ sub[s].cancelled_on < c + PREDICTION_HORIZON_DAYS
                                         /\ \A d \in panel : d <= c}
  <1>. DEFINE panel    == {c \in Cutoffs : c <= day /\ s \in Snapshot(c, 0)}
              k == sub[s].cancelled_on
  <1>0. /\ PREDICTION_HORIZON_DAYS \in Nat /\ k \in Int /\ day \in Nat
        /\ Cutoffs \subseteq Nat
    BY TheConstants DEF Inv, Types, Subscriber, Never, Cutoffs, MonthlyCutoffs
  <1>1. \A c \in panel : c \in Cutoffs /\ c \in Nat /\ c <= k
    <2>. SUFFICES ASSUME NEW c \in panel PROVE c \in Cutoffs /\ c \in Nat /\ c <= k
      OBVIOUS
    <2>1. c \in Cutoffs /\ c \in 0 .. day /\ s \in Snapshot(c, 0)
      BY <1>0
    <2>2. k >= c
      BY <2>1, RowsAre
    <2>. QED
      BY <1>0, <2>1, <2>2
  <1>2. ASSUME NEW c \in panel
        PROVE  Label(s, c) <=> /\ k < c + PREDICTION_HORIZON_DAYS
                               /\ \A d \in panel : d <= c
    <2>1. c \in Cutoffs /\ c \in Nat /\ c <= k
      BY <1>1
    <2>2. Label(s, c) <=> k < c + PREDICTION_HORIZON_DAYS
      BY <2>1, LabelIs
    <2>3. ASSUME k < c + PREDICTION_HORIZON_DAYS, NEW d \in panel, c < d PROVE FALSE
      <3>1. d \in Cutoffs /\ d \in Nat /\ d <= k
        BY <1>1
      <3>2. c + PREDICTION_HORIZON_DAYS <= d
        BY <2>1, <2>3, <3>1, CutoffsApart
      <3>. HIDE DEF k, panel
      <3>. QED
        BY <1>0, <2>1, <2>3, <3>1, <3>2
    <2>4. \A d \in panel : d \in Int /\ (d <= c \/ c < d)
      BY <1>1, <2>1
    <2>. HIDE DEF k, panel
    <2>. QED
      BY <2>2, <2>3, <2>4
  <1>. QED
    BY <1>2 DEF panel

(* The windows that are trained on are split by time, each part's labels   *)
(* known before the next begins.                                           *)
LEMMA SplitInTime ==
    ASSUME NEW w \in Windows
    PROVE  /\ w \subseteq Cutoffs
           /\ \A c \in TrainOf(w) : c + PREDICTION_HORIZON_DAYS <= ValidationOf(w)
           /\ ValidationOf(w) + PREDICTION_HORIZON_DAYS <= TestOf(w)
           /\ TestOf(w) + PREDICTION_HORIZON_DAYS <= LastDay
  <1>1. w \subseteq Cutoffs /\ Cardinality(w) >= 3
    BY DEF Windows, Prefixes, Usable
  <1>2. LastDay \in Nat /\ PREDICTION_HORIZON_DAYS \in Nat
    BY TheConstants
  <1>3. \A c \in Cutoffs : c \in 0 .. LastDay /\ c + PREDICTION_HORIZON_DAYS <= LastDay
    BY <1>2 DEF Cutoffs, MonthlyCutoffs, LatestScorable
  <1>4. w \in SUBSET (0 .. LastDay)
    BY <1>1, <1>3
  <1>5. w # {} /\ w \ {TestOf(w)} # {}
    <2>1. w # {}
      <3>. SUFFICES ASSUME w = {} PROVE FALSE
        OBVIOUS
      <3>. QED
        BY <1>1, FS_EmptySet
    <2>2. w # {TestOf(w)}
      <3>. SUFFICES ASSUME w = {TestOf(w)} PROVE FALSE
        OBVIOUS
      <3>1. Cardinality({TestOf(w)}) = 1
        BY FS_Singleton
      <3>. QED
        BY <1>1, <3>1
    <2>. QED
      BY <2>1, <2>2
  <1>6. TestOf(w) \in w /\ \A y \in w : y <= TestOf(w)
    BY <1>2, <1>4, <1>5, MaxExists DEF TestOf
  <1>7. /\ ValidationOf(w) \in w \ {TestOf(w)}
        /\ \A y \in w \ {TestOf(w)} : y <= ValidationOf(w)
    <2>. DEFINE rest == w \ {TestOf(w)}
    <2>1. rest \in SUBSET (0 .. LastDay) /\ rest # {}
      BY <1>4, <1>5
    <2>. HIDE DEF rest
    <2>2. Max(rest) \in rest /\ \A y \in rest : y <= Max(rest)
      BY <1>2, <2>1, MaxExists
    <2>. QED
      BY <2>2 DEF rest, ValidationOf
  <1>8. \A c \in w : c \in Int /\ c \in Cutoffs
    BY <1>1, <1>4
  <1>9. ASSUME NEW c \in TrainOf(w) PROVE c + PREDICTION_HORIZON_DAYS <= ValidationOf(w)
    <2>1. c \in w \ {TestOf(w)} /\ c # ValidationOf(w) /\ c <= ValidationOf(w)
      BY <1>7 DEF TrainOf
    <2>2. c < ValidationOf(w)
      BY <1>7, <1>8, <2>1
    <2>. QED
      BY <1>7, <1>8, <2>1, <2>2, CutoffsApart
  <1>10. ValidationOf(w) + PREDICTION_HORIZON_DAYS <= TestOf(w)
    <2>1. ValidationOf(w) < TestOf(w)
      BY <1>6, <1>7, <1>8
    <2>. QED
      BY <1>6, <1>7, <1>8, <2>1, CutoffsApart
  <1>11. TestOf(w) + PREDICTION_HORIZON_DAYS <= LastDay
    BY <1>3, <1>6, <1>8
  <1>. QED
    BY <1>1, <1>9, <1>10, <1>11

(* A cancellation is the label of one row, and training knows the past     *)
(* only.                                                                   *)
THEOREM CancellationsCountOnce == Spec => []ChurnCountedOnce
  <1>1. Inv => ChurnCountedOnce
    <2>. SUFFICES ASSUME Inv PROVE ChurnCountedOnce
      OBVIOUS
    <2>1. \A s \in {e.sub : e \in {x \in lifecycle : x.type = "cancellation"}} :
             s \in Subscribers /\ sub[s].cancelled_on # Never
      <3>1. \A e \in lifecycle : e.sub \in Subscribers
        BY DEF Inv, Types, LifecycleEvent
      <3>2. \A e \in lifecycle : e.type = "cancellation" => sub[e.sub].cancelled_on # Never
        BY <3>1 DEF Inv, Life, Left
      <3>. QED
        BY <3>1, <3>2
    <2>. QED
      BY <2>1, LabelledOnce, SplitInTime DEF ChurnCountedOnce
  <1>. QED
    BY <1>1, InvariantHolds, PTL

=============================================================================
