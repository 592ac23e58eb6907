------------------------------ MODULE Velocity_proofs ------------------------------
(***************************************************************************)
(* Theorems of Velocity, for any requests, data, windows and waits.        *)
(***************************************************************************)
EXTENDS Velocity, FiniteSetTheorems, TLAPS

-----------------------------------------------------------------------------
(* An event the store has forgotten is more than a day old by the clock:   *)
(* whoever pruned it had a time no later than the clock's.                 *)

ForgottenIsOld == \A e \in log \ events : clock > e.at + W24h

IInv == TypeOK /\ IsFiniteSet(log) /\ ForgottenIsOld

(* Type correctness and finiteness of a recorded attempt.                  *)
LEMMA RecordTypes ==
    ASSUME IInv, NEW r \in Requests, NEW wait \in 0..MaxWait, RecordAndCount(r, wait)
    PROVE  /\ clock - wait \in 0..MaxTime
           /\ events' \subseteq Event
           /\ events' \subseteq log'
           /\ log' \subseteq Event
           /\ log' = log \cup {[request |-> r, at |-> clock - wait]} \/ log' = log
           /\ IsFiniteSet(log')
           /\ seen' = Keys(events')
<1>. DEFINE now == clock - wait
            new == [request |-> r, at |-> now]
<1>1. now \in 0..MaxTime /\ new \in Event
  BY WindowsAssumption DEF IInv, TypeOK, RecordAndCount, Event
<1>2. Prune(now) \subseteq events
  BY DEF Prune
<1>3. events' = Prune(now) \/ events' = Prune(now) \cup {new}
  BY DEF RecordAndCount, Record
<1>4. log' = log \cup (events' \ events)
  BY DEF RecordAndCount
<1>5. log' = log \cup {new} \/ log' = log
  BY <1>2, <1>3, <1>4
<1>6. IsFiniteSet(log')
  BY <1>5, FS_AddElement DEF IInv
<1>7. seen' = Keys(events')
  <2>1. seen' = Keys(Prune(now)) \cup {Data[r].key}
    BY DEF RecordAndCount, Seen
  <2>2. CASE Data[r].key \in Keys(Prune(now))
    BY <2>1, <2>2 DEF RecordAndCount, Record, Seen
  <2>3. CASE Data[r].key \notin Keys(Prune(now))
    <3>1. events' = Prune(now) \cup {new}
      BY <2>3 DEF RecordAndCount, Record, Seen
    <3>2. Keys(events') = Keys(Prune(now)) \cup {Data[new.request].key}
      BY <3>1 DEF Keys
    <3>. QED  BY <2>1, <3>2
  <2>. QED  BY <2>2, <2>3
<1>. QED
  BY <1>1, <1>2, <1>3, <1>4, <1>5, <1>6, <1>7 DEF IInv, TypeOK

(* A forgotten event stays forgotten, and what is pruned is old.           *)
LEMMA RecordForgets ==
    ASSUME IInv, NEW r \in Requests, NEW wait \in 0..MaxWait, RecordAndCount(r, wait)
    PROVE  ForgottenIsOld'
<1>. DEFINE now == clock - wait
<1>1. SUFFICES ASSUME NEW e \in log' \ events'
               PROVE  clock > e.at + W24h
  BY DEF ForgottenIsOld, RecordAndCount
<1>2. e \in log /\ e \in Event
  BY DEF RecordAndCount, IInv, TypeOK
<1>3. CASE e \notin events
  BY <1>2, <1>3 DEF IInv, ForgottenIsOld
<1>4. CASE e \in events
  <2>1. e \notin Prune(now)
    BY DEF RecordAndCount, Record
  <2>2. ~(now <= e.at + W24h)
    BY <1>4, <2>1 DEF Prune
  <2>. QED
    BY <1>2, <2>2, WindowsAssumption DEF IInv, TypeOK, Event
<1>. QED  BY <1>3, <1>4

(* The score of the attempts is one of the verdicts                        *)
(* (rule_based_antifraud.go).                                              *)
LEMMA VerdictTypes ==
    ASSUME NEW others, NEW counts
    PROVE  Verdict(others, counts) \in {"PASSED", "REVIEW", "BLOCKED"}
BY DEF Verdict

(* The invariant of the velocity counters is inductive.                    *)
LEMMA Inductive == IInv /\ [Next]_vars => IInv'
<1>. SUFFICES ASSUME IInv, [Next]_vars PROVE IInv'
  OBVIOUS
<1>1. ASSUME NEW r \in Requests, NEW wait \in 0..MaxWait, RecordAndCount(r, wait),
             NEW v \in {NoVerdict, "ERROR", "PASSED", "REVIEW", "BLOCKED"},
             verdict' = [verdict EXCEPT ![r] = v]
      PROVE  IInv'
  <2>1. clock' = clock
    BY <1>1 DEF RecordAndCount
  <2>2. verdict' \in [Requests -> {NoVerdict, "ERROR", "PASSED", "REVIEW", "BLOCKED"}]
    BY <1>1 DEF IInv, TypeOK
  <2>3. TypeOK'
    BY <1>1, <2>1, <2>2, RecordTypes DEF IInv, TypeOK, Event
  <2>. QED
    BY <1>1, <2>3, RecordTypes, RecordForgets DEF IInv
<1>2. CASE Tick
  <2>1. TypeOK'
    <3>1. clock' \in 0..MaxTime
      BY <1>2, WindowsAssumption DEF Tick, IInv, TypeOK
    <3>. QED  BY <1>2, <3>1 DEF Tick, IInv, TypeOK, Event, Keys
  <2>2. ForgottenIsOld'
    BY <1>2, WindowsAssumption DEF Tick, IInv, TypeOK, Event, ForgottenIsOld
  <2>. QED  BY <1>2, <2>1, <2>2 DEF IInv, Tick
<1>3. CASE UNCHANGED vars
  BY <1>3 DEF vars, IInv, TypeOK, ForgottenIsOld, Keys, Event
<1>4. ASSUME NEW r \in Requests, NEW wait \in 0..MaxWait,
             OPAError(r, wait) \/ \E others \in OtherRules : Judge(r, wait, others)
      PROVE  IInv'
  <2>1. CASE OPAError(r, wait)
    BY <1>1, <2>1 DEF OPAError
  <2>2. ASSUME NEW others \in OtherRules, Judge(r, wait, others)
        PROVE  IInv'
    <3>. DEFINE now == clock - wait
                v   == Verdict(others, Count(Record(r, now), r, now))
    <3>1. v \in {"PASSED", "REVIEW", "BLOCKED"}
      BY VerdictTypes
    <3>2. RecordAndCount(r, wait) /\ verdict' = [verdict EXCEPT ![r] = v]
      BY <2>2 DEF Judge
    <3>. HIDE DEF v
    <3>. QED  BY <1>1, <3>1, <3>2
  <2>. QED  BY <1>4, <2>1, <2>2
<1>5. CASE Restart
  <2>1. Keys({}) = {}
    BY DEF Keys
  <2>2. events' = {} /\ seen' = {} /\ log' = {} /\ clock' = clock /\ verdict' = verdict
    BY <1>5 DEF Restart
  <2>3. TypeOK'
    BY <2>1, <2>2 DEF IInv, TypeOK, Event
  <2>. QED
    BY <2>2, <2>3, FS_EmptySet DEF IInv, ForgottenIsOld
<1>. QED  BY <1>2, <1>3, <1>4, <1>5 DEF Next

(* Before the first attempt nothing is counted.                            *)
LEMMA Initial == Init => IInv
<1>1. IsFiniteSet({})
  BY FS_EmptySet
<1>2. Keys({}) = {}
  BY DEF Keys
<1>3. ASSUME Init PROVE TypeOK
  <2>1. clock \in 0..MaxTime
    BY <1>3, WindowsAssumption DEF Init
  <2>2. events = {} /\ seen = {} /\ log = {}
    BY <1>3 DEF Init
  <2>3. seen = Keys(events)
    BY <1>2, <2>2
  <2>4. verdict \in [Requests -> {NoVerdict, "ERROR", "PASSED", "REVIEW", "BLOCKED"}]
    BY <1>3 DEF Init
  <2>. QED  BY <2>1, <2>2, <2>3, <2>4 DEF TypeOK
<1>. QED  BY <1>1, <1>3 DEF Init, IInv, ForgottenIsOld

(* The store and its history are well formed, and the keys it takes for    *)
(* seen are those of the attempts it holds (velocity.go pruneLocked builds *)
(* both anew).                                                             *)
THEOREM VelocityTypeCorrect == Spec => []TypeOK
<1>1. IInv => TypeOK
  BY DEF IInv
<1>. QED  BY <1>1, Initial, Inductive, PTL DEF Spec

-----------------------------------------------------------------------------
(* An attempt is counted once in its day.                                  *)

(* An event of the same key that is older than the new one's time allows.  *)
LEMMA RecordedAfresh ==
    ASSUME IInv, NEW r \in Requests, NEW wait \in 0..MaxWait, RecordAndCount(r, wait),
           NEW x \in log,
           NEW e \in log' \ log, Data[x.request].key = Data[e.request].key
    PROVE  clock > x.at + W24h /\ e.at = clock - wait
<1>. DEFINE now == clock - wait
            new == [request |-> r, at |-> now]
<1>1. e \in events' /\ e \notin events
  BY DEF RecordAndCount, IInv, TypeOK
<1>2. Data[r].key \notin Keys(Prune(now)) /\ e = new
  BY <1>1 DEF RecordAndCount, Record, Seen, Prune
<1>3. x \in Event /\ now \in 0..MaxTime
  BY RecordTypes DEF IInv, TypeOK
<1>4. CASE x \in events
  <2>1. x \notin Prune(now)
    BY <1>2 DEF Keys
  <2>2. ~(now <= x.at + W24h)
    BY <1>4, <2>1 DEF Prune
  <2>. QED
    BY <1>2, <1>3, <2>2, WindowsAssumption DEF IInv, TypeOK, Event
<1>5. CASE x \notin events
  BY <1>2, <1>5 DEF IInv, ForgottenIsOld
<1>. QED  BY <1>4, <1>5

(* No step counts an attempt twice.                                        *)
LEMMA CountedOnceInductive == IInv /\ CountedOnce /\ [Next]_vars => CountedOnce'
<1>. SUFFICES ASSUME IInv, CountedOnce, [Next]_vars PROVE CountedOnce'
  OBVIOUS
<1>1. ASSUME NEW r \in Requests, NEW wait \in 0..MaxWait, RecordAndCount(r, wait)
      PROVE  CountedOnce'
  <2>1. SUFFICES ASSUME NEW a \in log', NEW b \in log', a # b,
                        Data[a.request].key = Data[b.request].key, a.at <= b.at
                 PROVE  b.at + MaxWait > a.at + W24h
    BY DEF CountedOnce
  <2>2. /\ a \in Event /\ b \in Event /\ log \subseteq Event
        /\ log' = log \cup {[request |-> r, at |-> clock - wait]} \/ log' = log
    BY <1>1, RecordTypes DEF IInv, TypeOK
  <2>3. /\ a.at \in Nat /\ b.at \in Nat /\ clock \in Nat /\ wait \in 0..MaxWait
        /\ W24h \in Nat /\ MaxWait \in Nat /\ MaxWait < W24h
    BY <2>2, WindowsAssumption DEF Event, IInv, TypeOK
  <2>4. CASE a \in log /\ b \in log
    BY <2>1, <2>4 DEF CountedOnce
  <2>5. CASE a \in log /\ b \notin log
    <3>1. clock > a.at + W24h /\ b.at = clock - wait
      BY <1>1, <2>1, <2>5, RecordedAfresh
    <3>. QED  BY <2>3, <3>1
  <2>6. CASE a \notin log /\ b \in log
    <3>1. clock > b.at + W24h /\ a.at = clock - wait
      BY <1>1, <2>1, <2>6, RecordedAfresh
    <3>. QED  BY <2>1, <2>3, <3>1
  <2>7. CASE a \notin log /\ b \notin log
    BY <2>1, <2>2, <2>7
  <2>. QED  BY <2>4, <2>5, <2>6, <2>7
<1>2. CASE Tick \/ UNCHANGED vars
  BY <1>2 DEF Tick, vars, CountedOnce
<1>3. CASE Restart
  BY <1>3 DEF Restart, CountedOnce
<1>. QED  BY <1>1, <1>2, <1>3 DEF Next, OPAError, Judge

(* Two recorded attempts of one payment and idempotency key are a day      *)
(* apart, less the wait for the lock (velocity.go recordAndCount).         *)
THEOREM AttemptsCountOnce == Spec => []CountedOnce
<1>1. Init => CountedOnce
  BY DEF Init, CountedOnce
<1>. QED  BY <1>1, Initial, Inductive, CountedOnceInductive, PTL DEF Spec

-----------------------------------------------------------------------------
(* The counts of a judgement.                                              *)

(* A subset of a finite set of events has no more distinct cards.          *)
LEMMA FewerCards ==
    ASSUME NEW S, NEW T, T \subseteq S, IsFiniteSet(S)
    PROVE  LET Cards(X) == {Data[e.request].card : e \in X} IN
           Cardinality(Cards(T)) <= Cardinality(Cards(S))
<1>. DEFINE Cards(X) == {Data[e.request].card : e \in X}
            f == [e \in S |-> Data[e.request].card]
<1>1. f \in Surjection(S, Cards(S))
  BY DEF Surjection
<1>2. IsFiniteSet(Cards(S))
  <2>. HIDE DEF f, Cards
  <2>. QED  BY <1>1, FS_Surjection
<1>3. Cards(T) \in SUBSET Cards(S)
  OBVIOUS
<1>. HIDE DEF Cards
<1>4. Cardinality(Cards(T)) <= Cardinality(Cards(S))
  BY <1>2, <1>3, FS_Subset
<1>. QED  BY <1>4 DEF Cards

(* A judgement counts every attempt ever recorded of the last hour, half   *)
(* hour and five minutes, and the cards of every attempt not a day old by  *)
(* the clock (velocity.go pruneLocked, countLocked).                       *)
LEMMA JudgementCounts ==
    ASSUME IInv, NEW r \in Requests, NEW wait \in 0..MaxWait, RecordAndCount(r, wait)
    PROVE  LET now     == clock - wait
               byClock == {e \in log' : Within(e, clock, W24h)} IN
           /\ \A f \in DOMAIN Window :
                 Attempts(events', r, now, f) = Attempts(log', r, now, f)
           /\ \A f \in {"email", "phone"} :
                 DistinctCards(events', r, now, f)
                     >= DistinctCards(byClock, r, now, f)
<1>. DEFINE now == clock - wait
            byClock == {e \in log' : Within(e, clock, W24h)}
<1>1. /\ events' \subseteq log' /\ log' \subseteq Event /\ IsFiniteSet(log')
      /\ now \in 0..MaxTime /\ clock \in Nat /\ clock' = clock
  <2>1. clock \in Nat
    BY WindowsAssumption DEF IInv, TypeOK
  <2>2. clock' = clock
    BY DEF RecordAndCount
  <2>. QED  BY <2>1, <2>2, RecordTypes
<1>2. \A e \in log' \ events' : clock > e.at + W24h
  BY <1>1, RecordForgets DEF ForgottenIsOld
<1>3. ASSUME NEW f \in DOMAIN Window
      PROVE  Attempts(events', r, now, f) = Attempts(log', r, now, f)
  <2>1. Window[f] \in Nat /\ Window[f] <= W1h
    BY WindowsAssumption DEF Window
  <2>2. \A e \in log' : Within(e, now, Window[f]) => e \in events'
    BY <1>1, <1>2, <2>1, WindowsAssumption DEF Within, Event
  <2>3. {e \in events' : Same(e, r, f) /\ Within(e, now, Window[f])}
            = {e \in log' : Same(e, r, f) /\ Within(e, now, Window[f])}
    BY <1>1, <2>2
  <2>. QED  BY <2>3 DEF Attempts
<1>4. ASSUME NEW f \in {"email", "phone"}
      PROVE  DistinctCards(events', r, now, f) >= DistinctCards(byClock, r, now, f)
  <2>. DEFINE Of(evs) == {x \in evs : Same(x, r, f) /\ Data[x.request].card # ""
                                      /\ Within(x, now, W24h)}
  <2>1. byClock \subseteq events'
    BY <1>1, <1>2, WindowsAssumption DEF Within, Event
  <2>2. Of(byClock) \subseteq Of(events')
    BY <2>1
  <2>3. Of(events') \in SUBSET log'
    BY <1>1
  <2>4. IsFiniteSet(Of(events'))
    BY <1>1, <2>3, FS_Subset
  <2>5. DistinctCards(byClock, r, now, f) <= DistinctCards(events', r, now, f)
    BY <2>2, <2>4, FewerCards DEF DistinctCards
  <2>. QED  BY <2>5
<1>. QED  BY <1>3, <1>4

(* No pruning, by whatever goroutine, takes an attempt out of the counts   *)
(* of a later judgement whose window it is in (velocity.go pruneLocked).   *)
THEOREM JudgementsCountAll == Spec => CountsAreExact
<1>1. IInv /\ [Next]_vars =>
        [\A r \in Requests : verdict'[r] # verdict[r] =>
            \A wait \in 0..MaxWait : RecordAndCount(r, wait) =>
              LET now     == clock - wait
                  byClock == {e \in log' : Within(e, clock, W24h)} IN
              /\ \A f \in DOMAIN Window :
                    Attempts(events', r, now, f) = Attempts(log', r, now, f)
              /\ \A f \in {"email", "phone"} :
                    DistinctCards(events', r, now, f)
                        >= DistinctCards(byClock, r, now, f)]_vars
  BY JudgementCounts
<1>. QED  BY <1>1, Initial, Inductive, PTL DEF Spec, CountsAreExact

-----------------------------------------------------------------------------
(* Four attempts of a card an hour.                                        *)

Judged == \A e \in log : verdict[e.request] # NoVerdict

(* What one judgement does to the history.                                 *)
LEMMA Judgement ==
    ASSUME IInv, Judged, NEW r \in Requests, NEW wait \in 0..MaxWait,
           RecordAndCount(r, wait),
           NEW v \in {"ERROR", "PASSED", "REVIEW", "BLOCKED"},
           verdict' = [verdict EXCEPT ![r] = v]
    PROVE  /\ Judged'
           /\ \A e \in log : e.request # r /\ verdict'[e.request] = verdict[e.request]
           /\ \A e \in log' \ log : e.request = r /\ e.at = clock - wait
           /\ verdict'[r] = v
<1>1. /\ log \subseteq Event /\ log' \subseteq Event
      /\ log' = log \cup {[request |-> r, at |-> clock - wait]} \/ log' = log
  BY RecordTypes DEF IInv, TypeOK
<1>2. \A q \in Requests : verdict'[q] = IF q = r THEN v ELSE verdict[q]
  BY DEF IInv, TypeOK
<1>3. \A e \in log : e.request # r
  BY DEF Judged, RecordAndCount
<1>4. \A e \in log : e.request \in Requests
  BY <1>1 DEF Event
<1>5. \A e \in log' \ log : e.request = r /\ e.at = clock - wait
  BY <1>1
<1>6. Judged'
  BY <1>1, <1>2, <1>3, <1>4, <1>5 DEF Judged, NoVerdict
<1>. QED  BY <1>2, <1>3, <1>4, <1>5, <1>6

(* Who is among those that passed in an hour was counted by the last of    *)
(* them, so that the last would have been blocked as the fifth.            *)
LEMMA FifthIsBlocked ==
    ASSUME IInv, Judged, FourPassAtMost,
           NEW r \in Requests, NEW wait \in 0..MaxWait, RecordAndCount(r, wait),
           NEW v \in {"ERROR", "PASSED", "REVIEW", "BLOCKED"},
           verdict' = [verdict EXCEPT ![r] = v],
           v \in {"PASSED", "REVIEW"} =>
               Attempts(events', r, clock - wait, "card") <= 4
    PROVE  FourPassAtMost'
<1>. DEFINE now == clock - wait
            counted == {e \in events' : Same(e, r, "card") /\ Within(e, now, W1h)}
<1>1. SUFFICES ASSUME NEW q \in Requests, NEW start \in 0..MaxTime
               PROVE  Cardinality(Passed(q, start)') <= 4
  BY DEF FourPassAtMost
<1>2. /\ \A e \in log : e.request # r /\ verdict'[e.request] = verdict[e.request]
      /\ \A e \in log' \ log : e.request = r /\ e.at = now
      /\ verdict'[r] = v
  BY Judgement
<1>3. /\ log \subseteq log' /\ log' \subseteq Event /\ events' \subseteq log'
      /\ IsFiniteSet(log')
  BY RecordTypes DEF RecordAndCount
<1>4. now \in 0..MaxTime /\ W1h \in Nat /\ start \in Nat
  BY RecordTypes, WindowsAssumption
<1>5. Passed(q, start)' = {e \in log' : /\ Same(e, q, "card")
                                       /\ e.at \in start..(start + W1h)
                                       /\ verdict'[e.request] \in {"PASSED", "REVIEW"}}
  BY DEF Passed, Same
<1>6. CASE \E e \in Passed(q, start)' : e \notin log
  <2>1. PICK new \in Passed(q, start)' : new \notin log
    BY <1>6
  <2>2. /\ new.request = r /\ new.at = now /\ v \in {"PASSED", "REVIEW"}
        /\ now <= start + W1h /\ Same(new, q, "card")
    BY <1>2, <1>4, <1>5, <2>1
  <2>3. ASSUME NEW e \in Passed(q, start)'
        PROVE  e \in counted
    <3>1. e \in log' /\ e.at \in Nat /\ start <= e.at /\ Same(e, q, "card")
      BY <1>3, <1>4, <1>5 DEF Event
    <3>2. Same(e, r, "card")
      BY <2>2, <3>1 DEF Same
    <3>3. now <= e.at + W1h
      BY <1>4, <2>2, <3>1
    <3>4. e \in events'
      BY <1>3, <1>4, <3>1, <3>3, RecordForgets, WindowsAssumption
      DEF ForgottenIsOld, IInv, TypeOK, RecordAndCount
    <3>. QED  BY <3>2, <3>3, <3>4 DEF Within
  <2>4. Cardinality(counted) <= 4
    BY <2>2 DEF Attempts, Window
  <2>5. IsFiniteSet(counted)
    <3>1. counted \in SUBSET log'
      BY <1>3
    <3>. QED  BY <1>3, <3>1, FS_Subset
  <2>6. Passed(q, start)' \in SUBSET counted
    BY <2>3
  <2>7. IsFiniteSet(Passed(q, start)')
    BY <2>5, <2>6, FS_Subset
  <2>8. Cardinality(Passed(q, start)') <= Cardinality(counted)
    BY <2>5, <2>6, FS_Subset
  <2>9. Cardinality(counted) \in Nat /\ Cardinality(Passed(q, start)') \in Nat
    BY <2>5, <2>7, FS_CardinalityType
  <2>. QED  BY <2>4, <2>8, <2>9
<1>7. CASE \A e \in Passed(q, start)' : e \in log
  <2>1. Passed(q, start)' = Passed(q, start)
    BY <1>2, <1>3, <1>5, <1>7 DEF Passed
  <2>. QED  BY <2>1 DEF FourPassAtMost
<1>. QED  BY <1>6, <1>7

(* No step passes a fifth attempt of a window.                             *)
LEMMA FourInductive == 
    IInv /\ Judged /\ FourPassAtMost /\ [Next]_vars => Judged' /\ FourPassAtMost'
<1>. SUFFICES ASSUME IInv, Judged, FourPassAtMost, [Next]_vars
              PROVE  Judged' /\ FourPassAtMost'
  OBVIOUS
<1>1. ASSUME NEW r \in Requests, NEW wait \in 0..MaxWait, OPAError(r, wait)
      PROVE  Judged' /\ FourPassAtMost'
  <2>1. RecordAndCount(r, wait) /\ verdict' = [verdict EXCEPT ![r] = "ERROR"]
    BY <1>1 DEF OPAError
  <2>2. Judged'
    BY <2>1, Judgement
  <2>. QED  BY <2>1, <2>2, FifthIsBlocked
<1>2. ASSUME NEW r \in Requests, NEW wait \in 0..MaxWait, NEW others \in OtherRules,
             Judge(r, wait, others)
      PROVE  Judged' /\ FourPassAtMost'
  <2>. DEFINE now    == clock - wait
              counts == Count(Record(r, now), r, now)
              v      == Verdict(others, counts)
  <2>1. RecordAndCount(r, wait) /\ verdict' = [verdict EXCEPT ![r] = v]
    BY <1>2 DEF Judge
  <2>2. v \in {"PASSED", "REVIEW", "BLOCKED"}
    BY VerdictTypes
  <2>3. events' = Record(r, now)
    BY <2>1 DEF RecordAndCount
  <2>4. counts.card = Attempts(events', r, now, "card")
    BY <2>3 DEF Count
  <2>5. counts.card >= 5 => v = "BLOCKED"
    BY DEF Verdict, VelocityBlocks
  <2>6. Attempts(events', r, now, "card") \in Nat
    <3>1. {e \in events' : Same(e, r, "card") /\ Within(e, now, Window["card"])}
              \in SUBSET log'
      BY <2>1, RecordTypes
    <3>2. IsFiniteSet(log')
      BY <2>1, RecordTypes
    <3>. QED  BY <3>1, <3>2, FS_Subset, FS_CardinalityType DEF Attempts
  <2>7. v \in {"PASSED", "REVIEW"} => Attempts(events', r, now, "card") <= 4
    BY <2>4, <2>5, <2>6
  <2>. HIDE DEF v
  <2>8. Judged'
    BY <2>1, <2>2, Judgement
  <2>. QED  BY <2>1, <2>2, <2>7, <2>8, FifthIsBlocked
<1>3. CASE Tick \/ UNCHANGED vars
  BY <1>3 DEF Tick, vars, Judged, FourPassAtMost, Passed, Same
<1>4. CASE Restart
  <2>1. log' = {}
    BY <1>4 DEF Restart
  <2>2. \A r, start : Passed(r, start)' = {}
    BY <2>1 DEF Passed
  <2>. QED
    BY <2>1, <2>2, FS_EmptySet DEF Judged, FourPassAtMost
<1>. QED  BY <1>1, <1>2, <1>3, <1>4 DEF Next

(* Of one card, four attempts at most of any hour come through, whatever   *)
(* the other rules find (rule_based_antifraud.go checkVelocity).           *)
THEOREM FourPass == Spec => []FourPassAtMost
<1>1. Init => Judged
  BY DEF Init, Judged
<1>2. Init => FourPassAtMost
  <2>1. Init => \A r, start : Passed(r, start) = {}
    BY DEF Init, Passed
  <2>. QED  BY <2>1, FS_EmptySet DEF FourPassAtMost
<1>. QED  BY <1>1, <1>2, Initial, Inductive, FourInductive, PTL DEF Spec

-----------------------------------------------------------------------------
(* The score card.                                                         *)

(* More attempts, with the other rules finding the same, never get a       *)
(* milder verdict: no second threshold weighs less than the first          *)
(* (rule_based_antifraud.go checkVelocity, Check).                         *)
THEOREM MoreAttemptsNoMilder ==
    ASSUME NEW v \in Counts, NEW w \in Counts,
           \A f \in DOMAIN v : v[f] <= w[f],
           NEW others \in [score: Nat, block: BOOLEAN]
    PROVE  Severity(Verdict(others, v)) <= Severity(Verdict(others, w))
<1>1. /\ v.card <= w.card /\ v.email <= w.email /\ v.phone <= w.phone
      /\ v.wallet <= w.wallet /\ v.merchant <= w.merchant
      /\ v.cardsOfEmail <= w.cardsOfEmail /\ v.cardsOfPhone <= w.cardsOfPhone
  BY DEF Counts
<1>2. /\ v.card \in Nat /\ v.email \in Nat /\ v.phone \in Nat /\ v.wallet \in Nat
      /\ v.merchant \in Nat /\ v.cardsOfEmail \in Nat /\ v.cardsOfPhone \in Nat
      /\ w.card \in Nat /\ w.email \in Nat /\ w.phone \in Nat /\ w.wallet \in Nat
      /\ w.merchant \in Nat /\ w.cardsOfEmail \in Nat /\ w.cardsOfPhone \in Nat
  BY DEF Counts
<1>3. VelocityPoints(v) \in Nat /\ VelocityPoints(w) \in Nat
  BY DEF VelocityPoints, Steps, Step
<1>4. VelocityPoints(v) <= VelocityPoints(w)
  BY <1>1, <1>2 DEF VelocityPoints, Steps, Step
<1>5. VelocityBlocks(v) => VelocityBlocks(w)
  BY <1>1, <1>2 DEF VelocityBlocks
<1>6. others.score \in Nat
  OBVIOUS
<1>. QED
  BY <1>3, <1>4, <1>5, <1>6 DEF Verdict, Severity
=============================================================================
