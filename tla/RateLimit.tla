----------------------------- MODULE RateLimit -----------------------------
(***************************************************************************)
(* The two rate limiters a request passes: one by client address for every *)
(* route, one by user id on the routes that ask for it.  Each keeps a map  *)
(* from keys to token buckets; the bucket is looked up, or made, under a   *)
(* lock, and asked for a token after it.                                   *)
(*                                                                         *)
(* The bucket itself (golang.org/x/time/rate) is full when it is made and  *)
(* gains one token each time 1/perMinute of a minute has passed.           *)
(***************************************************************************)
EXTENDS Integers, FiniteSets

CONSTANTS Visits,    \* requests
          Addresses,
          Visitors,  \* user ids
          Anonymous, \* no user: not signed in, or a route without the second limiter
          PerAddress, PerVisitor, \* the configured rates
          NoBucket,
          MaxTicks   \* bound on the refills

ASSUME RateAssumption ==
  /\ IsFiniteSet(Visits) /\ NoBucket \notin Visits
  /\ PerAddress \in Int /\ PerVisitor \in Int /\ MaxTicks \in Nat
  /\ Anonymous \notin Addresses \cup Visitors

VARIABLES
  visit,   \* the step of each request, its address and its user
  bucket,  \* by limiter and key, the bucket in the map, named by its maker
  level,   \* by limiter and maker, what is in the bucket
  ticks    \* refills since the start

rateVars == <<visit, bucket, level, ticks>>

Limiters == {"ip", "user"}
AllKeys  == Addresses \cup Visitors

\* newKeyedLimiter: a rate below one is one.
Burst(limiter) ==
  LET rate == IF limiter = "ip" THEN PerAddress ELSE PerVisitor
  IN  IF rate < 1 THEN 1 ELSE rate

RateTypeOK ==
  /\ visit \in [Visits -> [pc: {"new", "ip", "user", "served", "refused"},
                           ip: Addresses, user: Visitors \cup {Anonymous},
                           holds: Visits \cup {NoBucket}, by: Limiters]]
  /\ bucket \in [Limiters -> [AllKeys -> Visits \cup {NoBucket}]]
  /\ level \in [Limiters -> [Visits -> Nat]]
  /\ \A l \in Limiters, v \in Visits : level[l][v] <= Burst(l)
  /\ ticks \in 0..MaxTicks

RateInit ==
  /\ \E a \in Addresses :
       visit = [v \in Visits |-> [pc |-> "new", ip |-> a, user |-> Anonymous,
                                  holds |-> NoBucket, by |-> "ip"]]
  /\ bucket = [l \in Limiters |-> [k \in AllKeys |-> NoBucket]]
  /\ level = [l \in Limiters |-> [v \in Visits |-> 0]]
  /\ ticks = 0

-----------------------------------------------------------------------------
Arrive(v) ==
  /\ visit[v].pc = "new"
  /\ \E a \in Addresses, u \in Visitors \cup {Anonymous} :
       visit' = [visit EXCEPT ![v].pc = "ip", ![v].ip = a, ![v].user = u]
  /\ UNCHANGED <<bucket, level, ticks>>

Key(v, limiter) == IF limiter = "ip" THEN visit[v].ip ELSE visit[v].user

\* Mutation: the map is read before the lock is taken.
LookUpUnlocked(v, limiter) ==
  /\ visit[v].pc = limiter /\ visit[v].holds = NoBucket
  /\ visit' = [visit EXCEPT ![v].holds = v]
  /\ bucket' = [bucket EXCEPT ![limiter][Key(v, limiter)] = v]
  /\ level' = [level EXCEPT ![limiter][v] = Burst(limiter)]
  /\ UNCHANGED ticks

LookUp(v, limiter) ==
  LET made == bucket[limiter][Key(v, limiter)] IN
  /\ visit[v].pc = limiter /\ visit[v].holds = NoBucket
  /\ IF made # NoBucket
     THEN visit' = [visit EXCEPT ![v].holds = made] /\ UNCHANGED <<bucket, level>>
     ELSE /\ visit' = [visit EXCEPT ![v].holds = v]
          /\ bucket' = [bucket EXCEPT ![limiter][Key(v, limiter)] = v]
          /\ level' = [level EXCEPT ![limiter][v] = Burst(limiter)]
  /\ UNCHANGED ticks

\* Allow, which takes a token if there is one.
Take(v, limiter) ==
  LET b == visit[v].holds IN
  /\ visit[v].pc = limiter /\ b # NoBucket
  /\ IF level[limiter][b] > 0
     THEN /\ visit' = [visit EXCEPT ![v].pc = IF limiter = "ip" /\ visit[v].user # Anonymous
                                                THEN "user" ELSE "served",
                                    ![v].holds = NoBucket]
          /\ level' = [level EXCEPT ![limiter][b] = @ - 1]
     ELSE /\ visit' = [visit EXCEPT ![v].pc = "refused", ![v].by = limiter,
                                    ![v].holds = NoBucket]
          /\ UNCHANGED level
  /\ UNCHANGED <<bucket, ticks>>

Refill ==
  /\ ticks < MaxTicks
  /\ ticks' = ticks + 1
  /\ level' = [l \in Limiters |-> [v \in Visits |->
                  IF level[l][v] < Burst(l) THEN level[l][v] + 1 ELSE level[l][v]]]
  /\ UNCHANGED <<visit, bucket>>

RateNext ==
  \/ \E v \in Visits : \/ Arrive(v)
                       \/ \E l \in Limiters : LookUp(v, l) \/ Take(v, l)
  \/ Refill

RateSpec == RateInit /\ [][RateNext]_rateVars

-----------------------------------------------------------------------------
\* Who got a token from the limiter under the key.
Through(l, key) ==
  {v \in Visits : /\ Key(v, l) = key
                  /\ \/ visit[v].pc = "served"
                     \/ l = "ip" /\ visit[v].pc = "user"
                     \/ l = "ip" /\ visit[v].pc = "refused" /\ visit[v].by = "user"}

Passed(l, key) == Cardinality(Through(l, key))

\* However the first requests of a key overlap, it shares one bucket: what gets
\* through is bounded by the burst and the time that has passed.
WithinRate ==
  \A l \in Limiters, key \in AllKeys : Passed(l, key) <= Burst(l) + ticks

\* Nobody pays for another: a request is turned away only when its own key has
\* used up its burst.
RefusedWhenSpent ==
  \A v \in Visits, l \in Limiters :
    visit[v].pc = "refused" /\ visit[v].by = l => Passed(l, Key(v, l)) >= Burst(l)

RateKept == WithinRate /\ RefusedWhenSpent
=============================================================================
