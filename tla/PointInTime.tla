----------------------------- MODULE PointInTime -----------------------------
(***************************************************************************)
(* The life of a simulated subscriber base, day by day, and the snapshots  *)
(* that training takes of it: features from what happened before a cutoff, *)
(* labels from the horizon after it, and a split of the cutoffs by time.   *)
(*                                                                         *)
(* Time is counted in half days: an event at 2*d happens on the midnight   *)
(* that begins day d, one at 2*d+1 later that day.  Cutoffs are midnights. *)
(* What the simulator draws at random is a choice.                         *)
(***************************************************************************)
EXTENDS Integers, Sequences, FiniteSets, FiniteSetsExt

CONSTANTS
    N,                            \* subscribers, numbered in signup order
    LastDay,                      \* the last simulated day
    RenewalDays, RetryDays,       \* between renewals, and after a failed one
    OBSERVATION_WINDOW_DAYS, PREDICTION_HORIZON_DAYS,
    BillingDays, TicketDays,      \* lookbacks of payments and of tickets
    StepDays,                     \* between two cutoffs
    MAX_TRAINING_SUBSCRIBERS,     \* cap on the subscribers of a snapshot
    MinSubscribers,               \* fewest subscribers behind a usable cutoff
    MaxEvents,                    \* bound: sessions and tickets of each
    Midnights                     \* bound: the kinds of events of each, other
                                  \* than sessions, that a midnight may carry

Kinds == {"signup", "renewal", "cancellation", "payment", "ticket"}

ASSUME PointInTimeAssumption ==
    /\ {N, LastDay, RenewalDays, RetryDays, OBSERVATION_WINDOW_DAYS,
        PREDICTION_HORIZON_DAYS, BillingDays, TicketDays, StepDays,
        MinSubscribers} \subseteq Nat \ {0}
    /\ MAX_TRAINING_SUBSCRIBERS \in Nat /\ MaxEvents \in [1..N -> Nat]
    /\ Midnights \in [1..N -> SUBSET Kinds]
    /\ StepDays >= PREDICTION_HORIZON_DAYS

Subscribers == 1..N
Never == LastDay + 1

VARIABLES
    day,
    signup,          \* signup_date, drawn for everyone before the first day
    sub,             \* sub[s]: next_renewal, cancelled_on, last_session_on, and
                     \* the last day lived
    lifecycle, sessions, payments, support_tickets

vars == <<day, signup, sub, lifecycle, sessions, payments, support_tickets>>

(* Signups are sorted, so that a smaller number signed up no later.        *)
LastSignup == Max({LastDay - RenewalDays, 1}) - 1
Init ==
    /\ day = 0
    /\ signup \in {f \in [Subscribers -> 0..LastSignup] :
                      \A s, t \in Subscribers : s < t => f[s] <= f[t]}
    /\ sub = [s \in Subscribers |->
                [next_renewal |-> signup[s] + RenewalDays, cancelled_on |-> Never,
                 last_session_on |-> -1, lived |-> -1]]
    /\ lifecycle = {} /\ sessions = {} /\ payments = {} /\ support_tickets = {}

(***************************************************************************)
(* The simulation                                                          *)
(***************************************************************************)
Today == {2 * day, 2 * day + 1}   \* _at: midnight, or later that day
Clock(kind, early) == IF kind \in early THEN 2 * day ELSE 2 * day + 1
Lifecycle(s, type, early) == [sub |-> s, type |-> type, at |-> Clock(type, early)]
Payment(s, status, early) ==
    [sub |-> s, status |-> status, at |-> Clock("payment", early)]
Ticket(s, early) == [sub |-> s, at |-> Clock("ticket", early)]

Active(s) == signup[s] <= day /\ sub[s].cancelled_on = Never
Turn(s) ==
    /\ Active(s) /\ sub[s].lived < day
    /\ \A t \in 1..(s - 1) : Active(t) => sub[t].lived = day

(* What a renewal attempt leaves; a failed one is retried sooner.          *)
Renewal(s, status) ==
    IF day < sub[s].next_renewal THEN sub[s].next_renewal
    ELSE day + IF status = "failed" THEN RetryDays ELSE RenewalDays

(* One subscriber's day: it joins, uses the service, opens a ticket, pays  *)
(* what is due and perhaps cancels, in this order, each at its own time of *)
(* day: a cancellation may well carry an earlier time than a renewal.      *)
Live(s) ==
    /\ Turn(s)
    /\ \E visits \in SUBSET Today, ticket \in BOOLEAN, cancels \in BOOLEAN,
          status \in {"succeeded", "failed"}, early \in SUBSET Midnights[s] :
        LET joins == signup[s] = day
            due   == day >= sub[s].next_renewal
        IN  /\ Cardinality({e \in sessions \cup support_tickets : e.sub = s})
                 + Cardinality(visits) + (IF ticket THEN 1 ELSE 0) <= MaxEvents[s]
            /\ ~due => status = "succeeded"
            /\ sessions' = sessions \cup {[sub |-> s, at |-> t] : t \in visits}
            /\ support_tickets' = support_tickets
                 \cup (IF ticket THEN {Ticket(s, early)} ELSE {})
            /\ payments' = payments
                 \cup (IF joins THEN {Payment(s, "succeeded", early)} ELSE {})
                 \cup (IF due THEN {Payment(s, status, early)} ELSE {})
            /\ lifecycle' = lifecycle
                 \cup (IF joins THEN {Lifecycle(s, "signup", early)} ELSE {})
                 \cup (IF due /\ status = "succeeded"
                       THEN {Lifecycle(s, "renewal", early)} ELSE {})
                 \cup (IF cancels THEN {Lifecycle(s, "cancellation", early)} ELSE {})
            /\ sub' = [sub EXCEPT ![s] =
                         [next_renewal |-> Renewal(s, status),
                          cancelled_on |-> IF cancels THEN day ELSE Never,
                          last_session_on |-> IF visits = {} THEN @.last_session_on
                                              ELSE day,
                          lived |-> day]]
            /\ UNCHANGED <<day, signup>>

NextDay_PastEnd ==
    /\ day <= LastDay + 1
    /\ \A s \in Subscribers : Active(s) => sub[s].lived \in {day, LastDay}
    /\ day' = day + 1
    /\ UNCHANGED <<signup, sub, lifecycle, sessions, payments, support_tickets>>
NextDay ==
    /\ day <= LastDay
    /\ \A s \in Subscribers : Active(s) => sub[s].lived = day
    /\ day' = day + 1
    /\ UNCHANGED <<signup, sub, lifecycle, sessions, payments, support_tickets>>

Next == NextDay \/ (day <= LastDay /\ \E s \in Subscribers : Live(s))

Spec == Init /\ [][Next]_vars

(***************************************************************************)
(* A snapshot as of the midnight that begins day c                         *)
(***************************************************************************)
Before(events, c) == {e \in events : e.at < 2 * c}
Window(events, s, c, days) ==
    {e \in Before(events, c) : e.sub = s /\ e.at >= 2 * (c - days)}

(* base: those who signed up before the cutoff, the first `cap` of them.   *)
Base(c, cap) ==
    LET known == {s \in Subscribers : signup[s] < c}
    IN  IF cap = 0 THEN known
        ELSE {s \in known : Cardinality({t \in known : t < s}) < cap}

(* The join with latest_state needs a lifecycle event before the cutoff.   *)
HasState(s, c) == \E e \in Before(lifecycle, c) : e.sub = s
AlreadyGone(s, c) ==
    \E e \in Before(lifecycle, c) : e.sub = s /\ e.type = "cancellation"
Snapshot(c, cap) == {s \in Base(c, cap) : HasState(s, c) /\ ~AlreadyGone(s, c)}

(* The label window of the cutoff: [cutoff, horizon_end).                  *)
Label_EndIncluded(s, c) ==
    \E e \in lifecycle : /\ e.sub = s /\ e.type = "cancellation"
                         /\ e.at >= 2 * c
                         /\ e.at <= 2 * (c + PREDICTION_HORIZON_DAYS)
Label(s, c) ==
    \E e \in lifecycle : /\ e.sub = s /\ e.type = "cancellation"
                         /\ e.at >= 2 * c
                         /\ e.at < 2 * (c + PREDICTION_HORIZON_DAYS)

(* Whole days from an event to the cutoff.                                 *)
DaysSince(t, c) == (2 * c - t) \div 2

(* Recency looks at all history; never active is absent since signup.      *)
LastActivity_WindowOnly(s, c) ==
    LET tenure == c - signup[s]
        seen   == {e.at : e \in Window(sessions, s, c, OBSERVATION_WINDOW_DAYS)}
    IN  Min({tenure, IF seen = {} THEN tenure ELSE DaysSince(Max(seen), c)})
LastActivity(s, c) ==
    LET tenure == c - signup[s]
        seen   == {e.at : e \in {x \in Before(sessions, c) : x.sub = s}}
    IN  Min({tenure, IF seen = {} THEN tenure ELSE DaysSince(Max(seen), c)})

Features_WholeHistory(s, c) ==
    [tenure_days |-> c - signup[s],
     sessions |-> Cardinality(Window(sessions, s, c, OBSERVATION_WINDOW_DAYS)),
     last_activity_days_ago |-> LastActivity(s, c),
     support_tickets |-> Cardinality({e \in support_tickets : e.sub = s}),
     payment_failures |->
        Cardinality({p \in Window(payments, s, c, BillingDays) : p.status = "failed"})]
Features(s, c) ==
    [tenure_days |-> c - signup[s],
     sessions |-> Cardinality(Window(sessions, s, c, OBSERVATION_WINDOW_DAYS)),
     last_activity_days_ago |-> LastActivity(s, c),
     support_tickets |-> Cardinality(Window(support_tickets, s, c, TicketDays)),
     payment_failures |->
        Cardinality({p \in Window(payments, s, c, BillingDays) : p.status = "failed"})]

(***************************************************************************)
(* Cutoffs and splits                                                      *)
(***************************************************************************)
(* Evenly spaced, with room at the end for the last label window.          *)
MonthlyCutoffs(last) == {c \in 0..last : c % StepDays = 0}
LatestScorable == LastDay - PREDICTION_HORIZON_DAYS
Cutoffs == MonthlyCutoffs(LatestScorable)

(* usable_cutoffs; a backfill trains once per prefix of at least three.    *)
Usable == {c \in Cutoffs : Cardinality(Base(c, 0)) >= MinSubscribers}
Prefixes(cutoffs) == {{d \in cutoffs : d <= c} : c \in cutoffs}
Windows == {w \in {Cutoffs} \cup Prefixes(Usable) : Cardinality(w) >= 3}

(* The latest cutoff tests, the one before validates, the others train.    *)
TestOf(w) == Max(w)
ValidationOf(w) == Max(w \ {TestOf(w)})
TrainOf(w) == w \ {TestOf(w), ValidationOf(w)}

(***************************************************************************)
(* Properties                                                              *)
(***************************************************************************)
Times == 0..(2 * LastDay + 1)
PointInTimeTypeOK ==
    /\ day \in 0..(LastDay + 1)
    /\ \A s \in Subscribers :
          /\ sub[s].lived \in -1..LastDay /\ sub[s].cancelled_on \in 0..Never
          /\ sub[s].next_renewal \in Nat
    /\ \A e \in lifecycle \cup sessions \cup payments \cup support_tickets :
          e.sub \in Subscribers /\ e.at \in Times

(* A snapshot as of today, or of a training cutoff that has come, uses     *)
(* nothing that happens later: its rows and features never change again,   *)
(* and neither do its labels once the horizon has passed.                  *)
NoLookAhead ==
    [][\A c \in {day} \cup (Cutoffs \cap 0..day) :
       \A known \in {c + PREDICTION_HORIZON_DAYS <= day} :
          LET rows == [s \in Snapshot(c, 0) |-> <<Features(s, c), known /\ Label(s, c)>>]
          IN rows' = rows]_<<signup, lifecycle, sessions, payments, support_tickets>>

(* The rows that the joins over the events return, as of any day that has  *)
(* come, are the subscribers who are at risk in the simulated world:       *)
(* signed up before, not yet gone.  Their last activity is as long ago as  *)
(* the simulator remembers it, however long that is and whatever the       *)
(* session window still shows; the cap takes nobody out of the panel       *)
(* before they cancel.  (NoLookAhead: what holds on the day holds after.)  *)
RowsAreTrue ==
    LET today    == Snapshot(day, 0)
        panel(c) == Snapshot(c, MAX_TRAINING_SUBSCRIBERS)
    IN  /\ today = {s \in Subscribers : signup[s] < day /\ sub[s].cancelled_on >= day}
        /\ \A s \in {t \in today : sub[t].lived < day} :
              LET f    == Features(s, day)
                  last == sub[s].last_session_on
              IN  /\ f.last_activity_days_ago =
                        IF last = -1 THEN f.tenure_days
                        ELSE day - last - (IF [sub |-> s, at |-> 2 * last + 1] \in sessions
                                           THEN 1 ELSE 0)
                  /\ f.sessions > 0 <=> last >= Max({0, day - OBSERVATION_WINDOW_DAYS})
        /\ \A c \in Cutoffs \cap 0..day : \A s \in panel(c) \ panel(day) : AlreadyGone(s, day)

(* Train on the past, score the future: in every window of cutoffs that is *)
(* trained on, a cancellation labels a row of one cutoff only, the last    *)
(* that still has the subscriber, and does so if it comes before the day   *)
(* its horizon ends; on the midnight of a cutoff it belongs to that cutoff *)
(* and not to the one whose horizon ends there.  Training labels were      *)
(* known before the validation cutoff, its labels before the test cutoff,  *)
(* and the test's before the simulation ends.                              *)
ChurnCountedOnce ==
    /\ \A s \in {e.sub : e \in {x \in lifecycle : x.type = "cancellation"}} :
          LET panel    == {c \in Cutoffs : c <= day /\ s \in Snapshot(c, 0)}
              labelled == {c \in panel : Label(s, c)}
          IN  labelled = {c \in panel : /\ sub[s].cancelled_on < c + PREDICTION_HORIZON_DAYS
                                        /\ \A d \in panel : d <= c}
    /\ \A w \in Windows :
        /\ w \subseteq Cutoffs
        /\ \A c \in TrainOf(w) : c + PREDICTION_HORIZON_DAYS <= ValidationOf(w)
        /\ ValidationOf(w) + PREDICTION_HORIZON_DAYS <= TestOf(w)
        /\ TestOf(w) + PREDICTION_HORIZON_DAYS <= LastDay

=============================================================================
