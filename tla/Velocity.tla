---------------------------------- MODULE Velocity ----------------------------------
(***************************************************************************)
(* The velocity store of the rule-based antifraud, and the attempts it     *)
(* judges.  A goroutine takes the time, waits for the store's lock, prunes *)
(* what is older than a day, records its attempt unless its payment and    *)
(* idempotency key are recorded already, and counts; so attempts may be    *)
(* recorded in another order than that of their times, and another         *)
(* goroutine may have pruned by a later time.                              *)
(***************************************************************************)
EXTENDS Naturals, FiniteSets, VelocityScore

CONSTANTS
    Requests,    \* the payment requests that reach the antifraud
    Data,        \* what each of them says: merchant, seen key, card, ...
    OtherRules,  \* what the rules without memory may find in a request
    OPAFails,    \* the requests the OPA policy may fail to evaluate
    W5m, W30m, W1h, W24h,  \* the windows, in ticks of the clock
    MaxTime,     \* bound on the clock
    MaxWait      \* bound on the wait for the lock

Fields == {"merchant", "key", "card", "email", "phone", "wallet"}

ASSUME DataAssumption ==
    /\ Data \in [Requests -> [Fields -> STRING]]
    /\ \A r \in Requests : Data[r].merchant # ""
ASSUME WindowsAssumption ==
    /\ W5m \in Nat /\ W30m \in Nat /\ W1h \in Nat /\ W24h \in Nat
    /\ W5m <= W30m /\ W30m <= W1h /\ W1h + MaxWait < W24h
    /\ MaxTime \in Nat /\ MaxWait \in Nat
ASSUME OtherRulesAssumption ==
    OtherRules \subseteq [score: Nat, block: BOOLEAN] /\ OPAFails \subseteq Requests

VARIABLES
    clock,   \* time.Now()
    verdict, \* what Check made of each request
    events,  \* velocityStore.events: a request and the time it took
    seen,    \* velocityStore.seen: the keys of recorded requests
    log      \* history: every event recorded since the process was started

vars == <<clock, verdict, events, seen, log>>

NoVerdict == ""

-----------------------------------------------------------------------------
(* countLocked.  A hash of nothing is nothing, and matches nothing.        *)

Within(e, now, window) == now <= e.at + window

Same(e, r, field) ==
    /\ Data[e.request].merchant = Data[r].merchant
    /\ Data[r][field] # ""
    /\ Data[e.request][field] = Data[r][field]

Window == [card |-> W1h, email |-> W30m, phone |-> W1h, wallet |-> W1h,
           merchant |-> W5m]

Attempts(evs, r, now, field) ==
    Cardinality({e \in evs : Same(e, r, field) /\ Within(e, now, Window[field])})

DistinctCards(evs, r, now, field) ==
    Cardinality({Data[e.request].card :
        e \in {x \in evs : Same(x, r, field) /\ Data[x.request].card # ""
                           /\ Within(x, now, W24h)}})

Count(evs, r, now) ==
    [card     |-> Attempts(evs, r, now, "card"),
     email    |-> Attempts(evs, r, now, "email"),
     phone    |-> Attempts(evs, r, now, "phone"),
     wallet   |-> Attempts(evs, r, now, "wallet"),
     merchant |-> Attempts(evs, r, now, "merchant"),
     cardsOfEmail |-> DistinctCards(evs, r, now, "email"),
     cardsOfPhone |-> DistinctCards(evs, r, now, "phone")]

-----------------------------------------------------------------------------
(* pruneLocked, and the events a request leaves behind.                    *)

(* Fault variant: an event exactly a day old goes.                         *)
PruneDayOld(now) == {e \in events : now < e.at + W24h}

Prune(now) == {e \in events : now <= e.at + W24h}

Keys(evs) == {Data[e.request].key : e \in evs}

(* Fault variant: the keys of pruned events stay.                          *)
SeenForever(now) == seen

Seen(now) == Keys(Prune(now))

(* Fault variant of Record: a repeated key is not noticed.                 *)
RecordAlways(r, now) == Prune(now) \cup {[request |-> r, at |-> now]}

Record(r, now) ==
    IF Data[r].key \in Seen(now) THEN Prune(now)
    ELSE Prune(now) \cup {[request |-> r, at |-> now]}

-----------------------------------------------------------------------------
(* RuleBasedAntiFraud.Check.                                               *)

(* recordAndCount, under its lock, of a goroutine that took the time wait  *)
(* ticks before it had the lock.                                           *)
RecordAndCount(r, wait) ==
    /\ verdict[r] = NoVerdict
    /\ wait <= clock
    /\ events' = Record(r, clock - wait)
    /\ seen' = Seen(clock - wait) \cup {Data[r].key}
    /\ log' = log \cup (events' \ events)
    /\ UNCHANGED clock

Judge(r, wait, others) ==
    LET now == clock - wait IN
    /\ RecordAndCount(r, wait)
    /\ verdict' = [verdict EXCEPT ![r] =
                       Verdict(others, Count(Record(r, now), r, now))]

(* The OPA policy cannot be evaluated: an error, but the attempt counts.   *)
OPAError(r, wait) ==
    /\ r \in OPAFails
    /\ RecordAndCount(r, wait)
    /\ verdict' = [verdict EXCEPT ![r] = "ERROR"]

Tick ==
    /\ clock < MaxTime
    /\ clock' = clock + 1
    /\ UNCHANGED <<verdict, events, seen, log>>

(* newVelocityStore: the store is in memory, whatever the database is.     *)
(* What Check has answered stands.                                         *)
Restart ==
    /\ events' = {}
    /\ seen' = {}
    /\ log' = {}
    /\ UNCHANGED <<clock, verdict>>

Init ==
    /\ clock = 0
    /\ verdict = [r \in Requests |-> NoVerdict]
    /\ events = {}
    /\ seen = {}
    /\ log = {}

Next ==
    \/ \E r \in Requests, wait \in 0..MaxWait :
          OPAError(r, wait) \/ \E others \in OtherRules : Judge(r, wait, others)
    \/ Tick
    \/ Restart

Spec == Init /\ [][Next]_vars

-----------------------------------------------------------------------------
(* Properties.                                                             *)

Event == [request: Requests, at: 0..MaxTime]

TypeOK ==
    /\ clock \in 0..MaxTime
    /\ verdict \in [Requests -> {NoVerdict, "ERROR", "PASSED", "REVIEW", "BLOCKED"}]
    /\ events \subseteq Event
    /\ seen = Keys(events)
    /\ log \subseteq Event
    /\ events \subseteq log

(* "A repeated idempotent payment does not count as a new attempt": two    *)
(* events of one key are a day apart, less the wait for the lock, whatever *)
(* the order in which their goroutines came to record them (velocity.go    *)
(* recordAndCount and pruneLocked; TestIdempotentVelocityDoesNotDoubleCount*)
(* and DIPLOMA_CHAPTER2_CODE_CONTEXT.md:569 say so of one moment).         *)
CountedOnce ==
    \A a, b \in log :
        (a # b /\ Data[a.request].key = Data[b.request].key /\ a.at <= b.at)
            => b.at + MaxWait > a.at + W24h

(* What is counted against an attempt are all the attempts of its window   *)
(* that the process ever recorded, for all that was pruned in between by   *)
(* goroutines with a later time; only of the cards of a day may it miss    *)
(* those a day old by the clock (velocity.go pruneLocked, countLocked).    *)
CountsAreExact ==
    [][\A r \in Requests : verdict'[r] # verdict[r] =>
          \A wait \in 0..MaxWait : RecordAndCount(r, wait) =>
              LET now     == clock - wait
                  byClock == {e \in log' : Within(e, clock, W24h)} IN
              /\ \A f \in DOMAIN Window :
                    Attempts(events', r, now, f) = Attempts(log', r, now, f)
              /\ \A f \in {"email", "phone"} :
                    DistinctCards(events', r, now, f)
                        >= DistinctCards(byClock, r, now, f)]_vars

(* Of the attempts with one card at one merchant, four at most of any hour *)
(* are not blocked, in whatever order concurrent goroutines record them,   *)
(* until the process is restarted: then it is four more                    *)
(* (rule_based_antifraud.go checkVelocity, velocity.go recordAndCount).    *)
Passed(r, start) ==
    {e \in log : /\ Same(e, r, "card")
                 /\ e.at \in start..(start + W1h)
                 /\ verdict[e.request] \in {"PASSED", "REVIEW"}}

FourPassAtMost ==
    \A r \in Requests, start \in 0..MaxTime : Cardinality(Passed(r, start)) <= 4
=============================================================================
