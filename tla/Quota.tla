------------------------------- MODULE Quota -------------------------------
(***************************************************************************)
(* The daily quota of one user: Service.Enforce over the row of            *)
(* quota_consumptions that all of the day's calls share.                   *)
(*                                                                         *)
(* Enforce charges the call first (UpsertAndCheck) and reads the counters  *)
(* back in a second statement (GetTodayUsage); both take "today" from the  *)
(* clock, so other calls, and midnight, may fall between the two.          *)
(***************************************************************************)
EXTENDS Integers, FiniteSets

CONSTANTS Requests,    \* generation requests of the user in flight at once
          Types,       \* models.GenerationType
          None,        \* no type: the day has no row
          Cap,         \* Limits, by type; zero or less is no limit
          CountsFirst, \* the adapter counts the call that creates the row:
                       \* the in-memory one does, the Postgres one does not
          MaxDay,      \* bound on the days
          MaxCalls     \* bound on the calls charged, by day and type

ASSUME RequestsAssumption == IsFiniteSet(Requests)
ASSUME TypesAssumption == None \notin Types
ASSUME CapAssumption == Cap \in [Types -> Int]
ASSUME CountsFirstAssumption == CountsFirst \in BOOLEAN
ASSUME BoundAssumption == MaxDay \in Nat /\ MaxCalls \in Nat

VARIABLES
  day,       \* the UTC calendar day
  opener,    \* by day, the type of the call that created the row, if any did
  count,     \* text_calls_used, image_calls_used, by day and type
  req,       \* requests in flight
  admitted,  \* history: calls let through on the day they were charged
  crossed,   \* history: calls let through after the midnight of that day
  refused,   \* history: calls answered with QuotaExceeded
  lost       \* history: calls charged and then ended by an error

vars == <<day, opener, count, req, admitted, crossed, refused, lost>>

Days    == 0..MaxDay
Tallies == [Days -> [Types -> Nat]]

RequestState == [pc: {"idle", "check"}, type: Types \cup {None}, day: Days]

TypeOK ==
  /\ day \in Days
  /\ opener \in [Days -> Types \cup {None}]
  /\ count \in Tallies
  /\ \A d \in Days : \A t \in Types : Cap[t] <= 0 => count[d][t] = 0
  /\ req \in [Requests -> RequestState]
  /\ admitted \in Tallies
  /\ crossed \in Tallies
  /\ refused \in Tallies
  /\ lost \in Tallies

Zero == [d \in Days |-> [t \in Types |-> 0]]
Idle == [pc |-> "idle", type |-> None, day |-> 0]

Init ==
  /\ day = 0
  /\ opener = [d \in Days |-> None]
  /\ count = Zero
  /\ req = [r \in Requests |-> Idle]
  /\ admitted = Zero
  /\ crossed = Zero
  /\ refused = Zero
  /\ lost = Zero

-----------------------------------------------------------------------------
Plus1(tally, d, t) == [tally EXCEPT ![d][t] = @ + 1]

\* A type without a cap is let through and not counted.
Unlimited(t) == Cap[t] <= 0 /\ UNCHANGED vars

\* Mutation: ON CONFLICT DO NOTHING.
UpsertDoNothing(d, t) == UNCHANGED count

\* INSERT of a row of zeros, or ON CONFLICT DO UPDATE of the one counter; the
\* in-memory adapter creates the row and then always adds one.
Upsert(d, t) ==
  IF opener[d] # None \/ CountsFirst THEN count' = Plus1(count, d, t)
                                     ELSE UNCHANGED count

UpsertAndCheck(r, t) ==
  /\ Cap[t] > 0
  /\ count[day][t] < MaxCalls
  /\ req[r].pc = "idle"
  /\ Upsert(day, t)
  /\ opener' = IF opener[day] = None THEN [opener EXCEPT ![day] = t] ELSE opener
  /\ req' = [req EXCEPT ![r] = [pc |-> "check", type |-> t, day |-> day]]
  /\ UNCHANGED <<day, admitted, crossed, refused, lost>>

\* Mutation: one call too many.
ExceedsLate(n, t) == n > Cap[t] + 1

Exceeds(n, t) == n > Cap[t]

\* GetTodayUsage and the comparison; a day without a row reads as zero.
Check(r) ==
  LET t == req[r].type
      d == req[r].day
  IN /\ req[r].pc = "check"
     /\ \/ /\ Exceeds(count[day][t], t)
           /\ refused' = Plus1(refused, d, t)
           /\ UNCHANGED <<admitted, crossed>>
        \/ /\ ~Exceeds(count[day][t], t)
           /\ IF day = d
                THEN admitted' = Plus1(admitted, d, t) /\ UNCHANGED crossed
                ELSE crossed' = Plus1(crossed, d, t) /\ UNCHANGED admitted
           /\ UNCHANGED refused
     /\ req' = [req EXCEPT ![r] = Idle]
     /\ UNCHANGED <<day, opener, count, lost>>

\* A statement after the charge fails, or the request is cancelled: 500, and
\* nothing gives the charge back.
Abort(r) ==
  /\ req[r].pc = "check"
  /\ lost' = Plus1(lost, req[r].day, req[r].type)
  /\ req' = [req EXCEPT ![r] = Idle]
  /\ UNCHANGED <<day, opener, count, admitted, crossed, refused>>

Midnight ==
  /\ day < MaxDay
  /\ day' = day + 1
  /\ UNCHANGED <<opener, count, req, admitted, crossed, refused, lost>>

Next ==
  \/ Midnight
  \/ \E t \in Types : Unlimited(t)
  \/ \E r \in Requests :
       \/ \E t \in Types : UpsertAndCheck(r, t)
       \/ Check(r)
       \/ Abort(r)

Spec == Init /\ [][Next]_vars

-----------------------------------------------------------------------------
Waiting(d, t) ==
  {r \in Requests : req[r].pc = "check" /\ req[r].day = d /\ req[r].type = t}

Settled(d, t) == admitted[d][t] + crossed[d][t] + refused[d][t] + lost[d][t]

\* The one call a day that an adapter may let through without counting it.
Free(d, t) == IF ~CountsFirst /\ opener[d] = t THEN 1 ELSE 0

\* However calls interleave, no more are let through on the day they were
\* charged than the cap, and one more for the type whose call created the row
\* of a Postgres-backed day.
DailyCap ==
  \A d \in Days : \A t \in Types :
    Cap[t] > 0 => admitted[d][t] <= Cap[t] + Free(d, t)

\* The Repository port: UpsertAndCheck increments the call count, and creates
\* the row if today has none.  Every call ever charged is in the counter.
EveryCallCounted ==
  \A d \in Days : \A t \in Types :
    count[d][t] = Settled(d, t) + Cardinality(Waiting(d, t))
=============================================================================
