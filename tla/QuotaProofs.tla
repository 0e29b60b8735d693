---------------------------- MODULE QuotaProofs ----------------------------
(***************************************************************************)
(* Theorems about Quota for any finite set of overlapping requests, any    *)
(* caps, any number of days and either adapter.                            *)
(***************************************************************************)
EXTENDS Quota, FiniteSetTheorems, TLAPS

\* The counter and the one free call account for every call of the day:
\* those that are settled and those still between charge and check.
Accounting ==
  \A d \in Days : \A t \in Types :
    count[d][t] + Free(d, t) = Settled(d, t) + Cardinality(Waiting(d, t))

\* A waiting call was charged to a type.
WaitingTyped == \A r \in Requests : req[r].pc = "check" => req[r].type \in Types

IInv == TypeOK /\ WaitingTyped /\ Accounting /\ DailyCap

Here(b) == IF b THEN 1 ELSE 0

\* The calls between charge and check are finitely many.
LEMMA WaitingFinite ==
  ASSUME NEW d, NEW t
  PROVE  /\ IsFiniteSet(Waiting(d, t))
         /\ Cardinality(Waiting(d, t)) \in Nat
<1>1. Waiting(d, t) \in SUBSET Requests
  BY DEF Waiting
<1>2. IsFiniteSet(Waiting(d, t))
  BY <1>1, FS_Subset, RequestsAssumption
<1> QED
  BY <1>2, FS_CardinalityType

\* A charge adds its request to the calls waiting for their check.
LEMMA WaitingJoins ==
  ASSUME TypeOK, NEW r \in Requests, NEW t \in Types, req[r].pc = "idle",
         req' = [req EXCEPT ![r] = [pc |-> "check", type |-> t, day |-> day]],
         NEW d \in Days, NEW s \in Types
  PROVE  Cardinality(Waiting(d, s))' =
           Cardinality(Waiting(d, s)) + Here(d = day /\ s = t)
<1>1. CASE d = day /\ s = t
  <2>1. Waiting(d, s)' = Waiting(d, s) \cup {r}
    BY <1>1 DEF Waiting, TypeOK, RequestState
  <2>2. r \notin Waiting(d, s)
    BY DEF Waiting
  <2> QED
    BY <1>1, <2>1, <2>2, WaitingFinite, FS_AddElement DEF Here
<1>2. CASE ~(d = day /\ s = t)
  <2>1. Waiting(d, s)' = Waiting(d, s)
    BY <1>2 DEF Waiting, TypeOK, RequestState
  <2>2. Cardinality(Waiting(d, s)) \in Nat
    BY WaitingFinite
  <2> QED
    BY <1>2, <2>1, <2>2 DEF Here
<1> QED
  BY <1>1, <1>2

\* A check, or an error, removes its request from them.
LEMMA WaitingLeaves ==
  ASSUME TypeOK, NEW r \in Requests, req[r].pc = "check",
         req' = [req EXCEPT ![r] = Idle],
         NEW d \in Days, NEW s \in Types
  PROVE  Cardinality(Waiting(d, s))' =
           Cardinality(Waiting(d, s)) - Here(d = req[r].day /\ s = req[r].type)
<1>1. CASE d = req[r].day /\ s = req[r].type
  <2>1. Waiting(d, s)' = Waiting(d, s) \ {r}
    BY <1>1 DEF Waiting, TypeOK, RequestState, Idle
  <2>2. r \in Waiting(d, s)
    BY <1>1 DEF Waiting
  <2>3. IsFiniteSet(Waiting(d, s))
    BY WaitingFinite
  <2>4. Cardinality(Waiting(d, s) \ {r}) = Cardinality(Waiting(d, s)) - 1
    BY <2>2, <2>3, FS_RemoveElement
  <2> QED
    BY <1>1, <2>1, <2>4 DEF Here
<1>2. CASE ~(d = req[r].day /\ s = req[r].type)
  <2>1. Waiting(d, s)' = Waiting(d, s)
    BY <1>2 DEF Waiting, TypeOK, RequestState, Idle
  <2>2. Cardinality(Waiting(d, s)) \in Nat
    BY WaitingFinite
  <2> QED
    BY <1>2, <2>1, <2>2 DEF Here
<1> QED
  BY <1>1, <1>2

\* No request is lost sight of: a waiting one is counted at least once.
LEMMA WaitingCounted ==
  ASSUME NEW r \in Requests, req[r].pc = "check"
  PROVE  Cardinality(Waiting(req[r].day, req[r].type)) >= 1
<1>1. r \in Waiting(req[r].day, req[r].type)
  BY DEF Waiting
<1>2. Cardinality(Waiting(req[r].day, req[r].type)) # 0
  BY <1>1, WaitingFinite, FS_EmptySet
<1> QED
  BY <1>2, WaitingFinite

\* What a charge of one tally does to the others.
LEMMA PlusOne ==
  ASSUME NEW tally \in Tallies, NEW d \in Days, NEW t \in Types
  PROVE  /\ Plus1(tally, d, t) \in Tallies
         /\ \A e \in Days, s \in Types :
              Plus1(tally, d, t)[e][s] = tally[e][s] + Here(e = d /\ s = t)
BY DEF Plus1, Tallies, Here

\* Nobody has called before the first call.
LEMMA Initial == Init => IInv
<1> SUFFICES ASSUME Init PROVE IInv
  OBVIOUS
<1>1. TypeOK
  BY TypesAssumption, BoundAssumption
  DEF Init, TypeOK, Days, Tallies, Zero, Idle, RequestState
<1>2. \A d, t : Waiting(d, t) = {}
  BY DEF Init, Waiting, Idle
<1>3. \A d, t : Cardinality(Waiting(d, t)) = 0
  BY <1>2, FS_EmptySet
<1>4. \A d \in Days, t \in Types : Free(d, t) = 0
  BY TypesAssumption DEF Init, Free
<1>5. Accounting
  BY <1>3, <1>4 DEF Init, Accounting, Settled, Zero
<1>6. DailyCap
  BY <1>4, CapAssumption DEF Init, DailyCap, Zero
<1>7. WaitingTyped
  BY DEF Init, Idle, WaitingTyped
<1> QED
  BY <1>1, <1>5, <1>6, <1>7 DEF IInv

\* A charge moves the counter, or takes the free call, and is waiting.
LEMMA ChargeStep ==
  ASSUME IInv, NEW r \in Requests, NEW t \in Types, UpsertAndCheck(r, t)
  PROVE  IInv'
<1> USE DEF UpsertAndCheck
<1>0. TypeOK /\ Accounting /\ DailyCap /\ day \in Days
  BY DEF IInv, TypeOK
<1>a. WaitingTyped'
  BY <1>0 DEF IInv, WaitingTyped, TypeOK, RequestState
<1>1. count' \in Tallies
  BY <1>0, PlusOne DEF Upsert, TypeOK
<1>2. opener' \in [Days -> Types \cup {None}] /\ req' \in [Requests -> RequestState]
  BY <1>0 DEF TypeOK, RequestState
<1>b. ASSUME NEW d \in Days, NEW s \in Types, Cap[s] <= 0 PROVE count'[d][s] = 0
  <2>1. s # t
    BY <1>b, CapAssumption
  <2>2. count[d][s] = 0 /\ count \in Tallies
    BY <1>0, <1>b DEF TypeOK
  <2>3. Plus1(count, day, t)[d][s] = count[d][s]
    BY <1>0, <2>1, <2>2, PlusOne DEF Here
  <2> QED
    BY <2>2, <2>3 DEF Upsert
<1>3. TypeOK'
  BY <1>0, <1>1, <1>2, <1>b DEF TypeOK
<1>4. ASSUME NEW d \in Days, NEW s \in Types
      PROVE  count'[d][s] + Free(d, s)' = count[d][s] + Free(d, s) + Here(d = day /\ s = t)
  <2>0. count[d][s] \in Nat /\ Free(d, s) \in Nat
    BY <1>0 DEF TypeOK, Tallies, Free
  <2>1. CASE opener[day] # None \/ CountsFirst
    <3>1. count'[d][s] = count[d][s] + Here(d = day /\ s = t)
      BY SMTT(20), <1>0, <2>1, PlusOne DEF Upsert, TypeOK
    <3>2. Free(d, s)' = Free(d, s)
      BY <1>0, <2>1, TypesAssumption DEF Free, TypeOK
    <3> QED
      BY <2>0, <3>1, <3>2 DEF Here
  <2>2. CASE opener[day] = None /\ ~CountsFirst
    <3>1. count' = count
      BY <2>2 DEF Upsert
    <3>2. Free(d, s)' = Free(d, s) + Here(d = day /\ s = t)
      BY <1>0, <2>2, TypesAssumption DEF Free, TypeOK, Here
    <3> QED
      BY <2>0, <3>1, <3>2 DEF Here
  <2> QED
    BY <2>1, <2>2
<1>5. ASSUME NEW d \in Days, NEW s \in Types
      PROVE  Cardinality(Waiting(d, s))' = Cardinality(Waiting(d, s)) + Here(d = day /\ s = t)
  BY <1>0, WaitingJoins
<1>6. \A d \in Days, s \in Types : Settled(d, s)' = Settled(d, s) /\ Settled(d, s) \in Nat
  BY <1>0 DEF Settled, TypeOK, Tallies
<1>7. Accounting'
  <2> SUFFICES ASSUME NEW d \in Days, NEW s \in Types
               PROVE  count'[d][s] + Free(d, s)'
                        = Settled(d, s)' + Cardinality(Waiting(d, s))'
    BY DEF Accounting, Days
  <2>1. count[d][s] + Free(d, s) = Settled(d, s) + Cardinality(Waiting(d, s))
    BY <1>0 DEF Accounting
  <2>2. Cardinality(Waiting(d, s)) \in Nat /\ Here(d = day /\ s = t) \in Nat
    BY WaitingFinite DEF Here
  <2> QED
    BY <1>4, <1>5, <1>6, <2>1, <2>2
<1>8. \A d \in Days, s \in Types : Free(d, s) <= Free(d, s)'
  BY <1>0, TypesAssumption DEF Free, TypeOK
<1>9. DailyCap'
  BY <1>0, <1>8, CapAssumption DEF DailyCap, Free, TypeOK, Tallies
<1> QED
  BY <1>a, <1>3, <1>7, <1>9 DEF IInv

\* A check, or an error, settles one waiting call; it lets the call through
\* only if the day's counter, which includes it, is within the cap.
LEMMA SettleStep ==
  ASSUME IInv, NEW r \in Requests, Check(r) \/ Abort(r)
  PROVE  IInv'
<1> DEFINE t == req[r].type
           d == req[r].day
<1>0. TypeOK /\ Accounting /\ DailyCap /\ WaitingTyped /\ day \in Days
  BY DEF IInv, TypeOK
<1>1. /\ req[r].pc = "check"
      /\ req' = [req EXCEPT ![r] = Idle]
      /\ opener' = opener /\ count' = count /\ day' = day
  BY DEF Check, Abort
<1>2. t \in Types /\ d \in Days
  BY <1>0, <1>1 DEF WaitingTyped, TypeOK, RequestState
<1>3. WaitingTyped'
  BY <1>0, <1>1 DEF WaitingTyped, Idle, TypeOK
<1> DEFINE Grows(new, old, n) ==
             /\ new \in Tallies
             /\ \A e \in Days, s \in Types :
                  new[e][s] = old[e][s] + IF e = d /\ s = t THEN n ELSE 0
<1>4. \A tally \in Tallies : Grows(Plus1(tally, d, t), tally, 1) /\ Grows(tally, tally, 0)
  BY <1>2, PlusOne DEF Here, Tallies
<1>5. \E a, c, x, l \in {0, 1} :
        /\ a + c + x + l = 1
        /\ Grows(admitted', admitted, a) /\ Grows(crossed', crossed, c)
        /\ Grows(refused', refused, x) /\ Grows(lost', lost, l)
        /\ a = 1 => day = d /\ ~Exceeds(count[day][t], t)
  <2>0. admitted \in Tallies /\ crossed \in Tallies /\ refused \in Tallies /\ lost \in Tallies
    BY <1>0 DEF TypeOK
  <2> HIDE DEF t, d, Grows
  <2>1. CASE Abort(r)
    <3>1. /\ lost' = Plus1(lost, d, t) /\ admitted' = admitted
          /\ crossed' = crossed /\ refused' = refused
      BY <2>1 DEF Abort, t, d
    <3> WITNESS 0 \in {0, 1}, 0 \in {0, 1}, 0 \in {0, 1}, 1 \in {0, 1}
    <3> QED
      BY <1>4, <2>0, <3>1
  <2>2. CASE Check(r) /\ Exceeds(count[day][t], t)
    <3>1. /\ refused' = Plus1(refused, d, t) /\ admitted' = admitted
          /\ crossed' = crossed /\ lost' = lost
      BY <2>2 DEF Check, t, d
    <3> WITNESS 0 \in {0, 1}, 0 \in {0, 1}, 1 \in {0, 1}, 0 \in {0, 1}
    <3> QED
      BY <1>4, <2>0, <3>1
  <2>3. CASE Check(r) /\ ~Exceeds(count[day][t], t) /\ day # d
    <3>1. /\ crossed' = Plus1(crossed, d, t) /\ admitted' = admitted
          /\ refused' = refused /\ lost' = lost
      BY <2>3 DEF Check, t, d
    <3> WITNESS 0 \in {0, 1}, 1 \in {0, 1}, 0 \in {0, 1}, 0 \in {0, 1}
    <3> QED
      BY <1>4, <2>0, <3>1
  <2>4. CASE Check(r) /\ ~Exceeds(count[day][t], t) /\ day = d
    <3>1. /\ admitted' = Plus1(admitted, d, t) /\ crossed' = crossed
          /\ refused' = refused /\ lost' = lost
      BY <2>4 DEF Check, t, d
    <3> WITNESS 1 \in {0, 1}, 0 \in {0, 1}, 0 \in {0, 1}, 0 \in {0, 1}
    <3> QED
      BY <1>4, <2>0, <2>4, <3>1
  <2> QED
    BY <2>1, <2>2, <2>3, <2>4
<1>6. PICK a, c, x, l \in {0, 1} :
        /\ a + c + x + l = 1
        /\ Grows(admitted', admitted, a) /\ Grows(crossed', crossed, c)
        /\ Grows(refused', refused, x) /\ Grows(lost', lost, l)
        /\ a = 1 => day = d /\ ~Exceeds(count[day][t], t)
  BY <1>5
<1>7. TypeOK'
  <2>1. req' \in [Requests -> RequestState]
    BY <1>0, <1>1, BoundAssumption DEF TypeOK, RequestState, Idle, Days
  <2> QED
    BY <1>0, <1>1, <1>6, <2>1 DEF TypeOK
<1>8. \A e \in Days, s \in Types : Free(e, s)' = Free(e, s)
  BY <1>1 DEF Free
<1>9. Accounting'
  <2> SUFFICES ASSUME NEW e \in Days, NEW s \in Types
               PROVE  count'[e][s] + Free(e, s)'
                        = Settled(e, s)' + Cardinality(Waiting(e, s))'
    BY DEF Accounting, Days
  <2>1. count[e][s] + Free(e, s) = Settled(e, s) + Cardinality(Waiting(e, s))
    BY <1>0 DEF Accounting
  <2>2. Cardinality(Waiting(e, s))'
          = Cardinality(Waiting(e, s)) - Here(e = d /\ s = t)
    BY <1>0, <1>1, WaitingLeaves
  <2>3. Settled(e, s)' = Settled(e, s) + Here(e = d /\ s = t)
    BY <1>0, <1>6 DEF Settled, Here, TypeOK, Tallies
  <2>4. Cardinality(Waiting(e, s)) \in Nat /\ Settled(e, s) \in Nat
    BY <1>0, WaitingFinite DEF Settled, TypeOK, Tallies
  <2> QED
    BY <1>1, <1>8, <2>1, <2>2, <2>3, <2>4 DEF Here
<1>10. DailyCap'
  <2> SUFFICES ASSUME NEW e \in Days, NEW s \in Types, Cap[s] > 0
               PROVE  admitted'[e][s] <= Cap[s] + Free(e, s)
    BY <1>8 DEF DailyCap, Days
  <2>0. /\ Cap[s] \in Int /\ Free(e, s) \in Nat /\ admitted[e][s] \in Nat
        /\ admitted[e][s] <= Cap[s] + Free(e, s)
    BY <1>0, CapAssumption DEF TypeOK, Tallies, Free, DailyCap
  <2>1. CASE ~(a = 1 /\ e = d /\ s = t)
    BY <1>6, <2>0, <2>1
  <2>2. CASE a = 1 /\ e = d /\ s = t
    <3>1. count[e][s] <= Cap[s] /\ count[e][s] \in Nat
      BY <1>0, <1>6, <2>0, <2>2 DEF Exceeds, TypeOK, Tallies
    <3>2. count[e][s] + Free(e, s) = Settled(e, s) + Cardinality(Waiting(e, s))
      BY <1>0 DEF Accounting
    <3>3. Cardinality(Waiting(e, s)) >= 1 /\ Cardinality(Waiting(e, s)) \in Nat
      BY <1>1, <2>2, WaitingCounted, WaitingFinite
    <3>4. Settled(e, s) >= admitted[e][s] /\ Settled(e, s) \in Nat
      BY <1>0 DEF Settled, TypeOK, Tallies
    <3>5. admitted'[e][s] = admitted[e][s] + 1
      BY <1>6, <2>2
    <3> QED
      BY <2>0, <3>1, <3>2, <3>3, <3>4, <3>5
  <2> QED
    BY <2>1, <2>2
<1> QED
  BY <1>3, <1>7, <1>9, <1>10 DEF IInv

\* Midnight, a type without a cap and stuttering touch no tally.
LEMMA QuietStep ==
  ASSUME IInv, Midnight \/ UNCHANGED vars
  PROVE  IInv'
<1>1. UNCHANGED <<opener, count, req, admitted, crossed, refused, lost>> /\ day' \in Days
  BY BoundAssumption DEF IInv, TypeOK, Midnight, vars, Days
<1>2. \A d \in Days, t \in Types :
        Free(d, t)' = Free(d, t) /\ Settled(d, t)' = Settled(d, t)
          /\ Waiting(d, t)' = Waiting(d, t)
  BY <1>1 DEF Free, Settled, Waiting
<1> QED
  BY <1>1, <1>2 DEF IInv, TypeOK, WaitingTyped, Accounting, DailyCap, Days

\* The inductive invariant.
LEMMA Inductive == Spec => []IInv
<1>1. IInv /\ [Next]_vars => IInv'
  BY ChargeStep, SettleStep, QuietStep DEF Next, Unlimited
<1> QED
  BY <1>1, Initial, PTL DEF Spec

\* The tallies, the row and the requests keep their types.
THEOREM TypeCorrect == Spec => []TypeOK
<1>1. IInv => TypeOK
  BY DEF IInv
<1> QED
  BY <1>1, Inductive, PTL

\* However many requests overlap, no more calls of a type are let through on
\* the day they were charged than its cap, or one more on Postgres for the
\* type that opened the day.
THEOREM CapHolds == Spec => []DailyCap
<1>1. IInv => DailyCap
  BY DEF IInv
<1> QED
  BY <1>1, Inductive, PTL

\* With an adapter that counts the call that creates the row, the counter is
\* the number of calls charged: none is lost in a race and none comes back.
THEOREM MemoryCountsEveryCall == ASSUME CountsFirst PROVE Spec => []EveryCallCounted
<1>1. IInv => EveryCallCounted
  <2> SUFFICES ASSUME IInv, NEW d \in Days, NEW t \in Types
               PROVE  count[d][t] = Settled(d, t) + Cardinality(Waiting(d, t))
    BY DEF EveryCallCounted
  <2>1. Free(d, t) = 0 /\ count[d][t] \in Nat
    BY CountsFirst DEF Free, IInv, TypeOK, Tallies
  <2> QED
    BY <2>1 DEF IInv, Accounting
<1> QED
  BY <1>1, Inductive, PTL
=============================================================================
