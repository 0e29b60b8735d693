-------------------------- MODULE GenerationProofs --------------------------
(***************************************************************************)
(* Proofs about Generation, for any requests, chain, checker and caps: the *)
(* pipeline uses the quota as Quota specifies it, so the theorems about    *)
(* Quota hold in it and bound what the providers see; nothing unchecked    *)
(* leaves; and what a client or a record says of an asset is true.         *)
(*                                                                         *)
(* The invariant says of every request, by the step it is at, what exists  *)
(* of it.  A step is of one request and leaves the others as they are.     *)
(***************************************************************************)
EXTENDS Generation, FiniteSetTheorems, TLAPS

\* The theorems about the quota.
QP == INSTANCE QuotaProofs WITH req <- charging

PipeTypes ==
  /\ step \in [Requests -> Steps]
  /\ kind \in [Requests -> Kinds \cup {None}]
  /\ banned \in SUBSET Requests /\ left \in SUBSET Requests
  /\ tried \in [Requests -> 0..Len(Chain)]
  /\ answer \in [Requests -> Answers]
  /\ contacted \in SUBSET Requests /\ flags \in SUBSET Requests
  /\ blobs \in SUBSET Requests /\ rows \in SUBSET Requests
  /\ records \in [Requests -> 0..Len(Chain)]
  /\ spoiled \in SUBSET Requests

Early == {"idle", "harden", "enforce", "moderate", "flag", "enqueue"}
Late  == {"put", "create", "cleanup", "record"}

\* A charge is waiting for its check only inside Enforce, and for a capped type.
Charging(r) ==
  charging[r].pc = "check" =>
    /\ step[r] = "enforce" /\ Cap[kind[r]] > 0
    /\ charging[r].type = kind[r] /\ charging[r].day = 0

\* What is asked for decides where a request can be, and before the providers
\* nothing exists of it.
Placed(r) ==
  /\ step[r] \in {"enforce", "moderate", "flag", "enqueue", "provide", "record"} =>
       kind[r] \in Types
  /\ step[r] \in {"put", "create", "cleanup"} => kind[r] \in Assets
  /\ step[r] \in Early =>
       /\ r \notin contacted /\ r \notin blobs /\ r \notin rows
       /\ tried[r] = 0 /\ answer[r] = "none"
  /\ step[r] # "end" =>
       r \notin flags /\ records[r] = 0 /\ answer[r] \in {"none", "accepted"}

\* What moderation refuses does not come as far as the providers.
Judged(r) ==
  /\ step[r] \in {"enqueue", "provide"} => (r \in banned => Checker = "permissive")
  /\ r \in contacted =>
       /\ r \in banned => Checker = "permissive"
       /\ kind[r] \in Types /\ answer[r] \notin {"quota", "refused"}

\* A refusal and its flag.
Flagged(r) ==
  /\ r \in flags => answer[r] = "refused"
  /\ answer[r] = "refused" => r \in flags \/ r \in spoiled

\* Bytes, then the row, then the record and the answer.
Stored(r) ==
  /\ step[r] \in {"provide", "put"} => r \notin blobs /\ r \notin rows
  /\ step[r] = "create" => r \in blobs /\ r \notin rows
  /\ step[r] = "cleanup" => r \in blobs /\ (r \in rows => r \in spoiled)
  /\ step[r] = "record" =>
       IF kind[r] \in Assets THEN r \in rows /\ r \in blobs ELSE r \notin rows /\ r \notin blobs
  /\ step[r] = "end" /\ r \notin spoiled => (r \in rows <=> r \in blobs)
  /\ step[r] = "end" /\ kind[r] \in Assets /\ (answer[r] = "ok" \/ records[r] # 0) =>
       r \in rows /\ r \in blobs
  /\ records[r] # 0 => r \in contacted /\ answer[r] \in {"ok", "accepted"}
  /\ step[r] \in Late /\ kind[r] \in Types => r \in contacted

\* The providers that had their turn have failed, so the stub was not of them.
Failing(r) ==
  /\ step[r] = "provide" =>
       /\ tried[r] < Len(Chain)
       /\ r \notin left => \A i \in 1..tried[r] : Chain[i] # "stub"
  /\ r \notin left /\ answer[r] \in {"timeout", "malformed"} =>
       tried[r] = Len(Chain) /\ \A i \in 1..Len(Chain) : Chain[i] # "stub"

InOrder(r) ==
  Charging(r) /\ Placed(r) /\ Judged(r) /\ Flagged(r) /\ Stored(r) /\ Failing(r)

PipeInv == day = 0 /\ PipeTypes /\ \A r \in Requests : InOrder(r)

-----------------------------------------------------------------------------
(* The quota inside the pipeline. *)

\* The theorems about the quota may be used.
LEMMA QuotaMayBeUsed ==
  /\ QP!RequestsAssumption /\ QP!TypesAssumption /\ QP!CapAssumption
  /\ QP!CountsFirstAssumption /\ QP!BoundAssumption
<1>1. QP!RequestsAssumption
  BY QuotaAssumption DEF QP!RequestsAssumption, IsFiniteSet, QP!IsFiniteSet
<1>2. QP!TypesAssumption /\ QP!CapAssumption
  BY QuotaAssumption DEF QP!TypesAssumption, QP!CapAssumption
<1>3. QP!CountsFirstAssumption /\ QP!BoundAssumption
  BY QuotaAssumption DEF QP!CountsFirstAssumption, QP!BoundAssumption
<1>. QED
  BY <1>1, <1>2, <1>3

\* A request that is not text, image or video is an upload.
LEMMA KindsKnown == Types = {"text", "image", "video"} /\ Kinds = {"text", "image", "video", "upload"}
  BY KindsAssumption DEF Kinds

\* Every step of the pipeline is a step of the quota, or does not touch it.
LEMMA QuotaStep == [Next]_vars => [Q!Next]_(Q!vars)
<1> SUFFICES ASSUME [Next]_vars PROVE Q!Next \/ UNCHANGED counters
  BY DEF counters, Q!vars
<1>1. ASSUME NEW r \in Requests, Charge(r), kind[r] \in Types PROVE Q!Next
  BY <1>1 DEF Charge, Q!Next
<1>2. ASSUME NEW r \in Requests, Enforce(r) PROVE Q!Next \/ UNCHANGED counters
  BY <1>2 DEF Enforce, Q!Next
<1>3. ASSUME NEW r \in Requests, Dies(r) PROVE Q!Next \/ UNCHANGED counters
  BY <1>3 DEF Dies, Q!Next
<1>4. ASSUME NEW r \in Requests,
             Moderate(r) \/ Flag(r) \/ Enqueue(r) \/ TextChain(r) \/ ImageChain(r) \/ VideoChain(r)
               \/ Record(r) \/ Persist(r) \/ Harden(r) \/ Bind(r) \/ Receive(r) \/ ClientLeaves(r)
      PROVE  UNCHANGED counters
  BY <1>4 DEF Moderate, Flag, Enqueue, TextChain, ImageChain, VideoChain, Attempt, Record,
     Persist, Put, CreateAsset, Cleanup, Harden, Bind, Receive, Asked, ClientLeaves
<1>5. CASE UNCHANGED vars
  BY <1>5 DEF vars
<1>. QED
  BY <1>1, <1>2, <1>3, <1>4, <1>5, KindsKnown
     DEF Next, GenerateText, GenerateImage, GenerateVideo, ProcessVideo, Upload, Checked

\* The pipeline implements the quota.
THEOREM QuotaUsed == Spec => UsesQuota
<1>1. Init => Q!Init
  BY DEF Init
<1>. QED
  BY <1>1, QuotaStep, PTL DEF Spec, UsesQuota, Q!Spec

\* Quota and the instance the theorems are taken from say the same.
LEMMA SameInit == Q!Init => QP!Init
  BY DEF Q!Init, QP!Init, Q!Zero, QP!Zero, Q!Days, QP!Days, Q!Idle, QP!Idle

\* So do their steps,
LEMMA SameStep == [Q!Next]_(Q!vars) => [QP!Next]_(QP!vars)
<1>1. \A r, t : Q!UpsertAndCheck(r, t) => QP!UpsertAndCheck(r, t)
  BY Zenon DEF Q!UpsertAndCheck, QP!UpsertAndCheck, Q!Upsert, QP!Upsert, Q!Plus1, QP!Plus1
<1>2. \A r : Q!Check(r) => QP!Check(r)
  BY Zenon DEF Q!Check, QP!Check, Q!Exceeds, QP!Exceeds, Q!Plus1, QP!Plus1, Q!Idle, QP!Idle
<1>3. \A r : Q!Abort(r) => QP!Abort(r)
  BY Zenon DEF Q!Abort, QP!Abort, Q!Plus1, QP!Plus1, Q!Idle, QP!Idle
<1>4. Q!Midnight => QP!Midnight
  BY Zenon DEF Q!Midnight, QP!Midnight
<1>5. \A t : Q!Unlimited(t) => QP!Unlimited(t)
  BY DEF Q!Unlimited, QP!Unlimited, Q!vars, QP!vars
<1>6. Q!Next => QP!Next
  BY <1>1, <1>2, <1>3, <1>4, <1>5, Zenon DEF Q!Next, QP!Next
<1>. QED
  BY <1>6 DEF Q!vars, QP!vars

\* and what is proved of them.
LEMMA SameFacts == (QP!TypeOK => Q!TypeOK) /\ (QP!DailyCap => Q!DailyCap)
<1>1. QP!TypeOK => Q!TypeOK
  BY DEF QP!TypeOK, Q!TypeOK, QP!Tallies, Q!Tallies, QP!Days, Q!Days, QP!RequestState,
     Q!RequestState
<1>2. QP!DailyCap => Q!DailyCap
  BY DEF QP!DailyCap, Q!DailyCap, QP!Days, Q!Days, QP!Free, Q!Free
<1>. QED
  BY <1>1, <1>2

\* The counters keep their types, and the daily cap holds, in the pipeline too.
LEMMA QuotaHolds == Spec => []Q!TypeOK /\ []Q!DailyCap
  BY QuotaUsed, QuotaMayBeUsed, SameInit, SameStep, SameFacts, QP!TypeCorrect, QP!CapHolds, PTL
     DEF UsesQuota, Q!Spec, QP!Spec

-----------------------------------------------------------------------------
(* One request at a time. *)

\* There is a provider.
LEMMA ChainLength == Len(Chain) \in Nat /\ 0 < Len(Chain)
  BY ChainAssumption

\* A step that leaves a request alone leaves what is said of it alone.
LEMMA OthersInOrder ==
  ASSUME NEW q \in Requests, InOrder(q),
         step'[q] = step[q], kind'[q] = kind[q], tried'[q] = tried[q],
         answer'[q] = answer[q], records'[q] = records[q], charging'[q] = charging[q],
         q \in banned' <=> q \in banned, q \in left' <=> q \in left,
         q \in contacted' <=> q \in contacted, q \in flags' <=> q \in flags,
         q \in blobs' <=> q \in blobs, q \in rows' <=> q \in rows,
         q \in spoiled' <=> q \in spoiled
  PROVE  InOrder(q)'
<1>1. Charging(q)' /\ Placed(q)'
  BY DEF InOrder, Charging, Placed
<1>2. Judged(q)' /\ Flagged(q)'
  BY DEF InOrder, Judged, Flagged
<1>3. Stored(q)'
  BY DEF InOrder, Stored
<1>4. Failing(q)'
  BY DEF InOrder, Failing
<1>. QED
  BY <1>1, <1>2, <1>3, <1>4 DEF InOrder

\* The step of one request.
OnlyOf(r) ==
  \A q \in Requests \ {r} :
    /\ step'[q] = step[q] /\ kind'[q] = kind[q] /\ tried'[q] = tried[q]
    /\ answer'[q] = answer[q] /\ records'[q] = records[q] /\ charging'[q] = charging[q]
    /\ q \in banned' <=> q \in banned
    /\ q \in left' <=> q \in left
    /\ q \in contacted' <=> q \in contacted
    /\ q \in flags' <=> q \in flags
    /\ q \in blobs' <=> q \in blobs
    /\ q \in rows' <=> q \in rows
    /\ q \in spoiled' <=> q \in spoiled

\* So it is enough to look at that request.
LEMMA OneRequest ==
  ASSUME PipeInv, NEW r \in Requests, OnlyOf(r), PipeTypes', InOrder(r)', day' = day
  PROVE  PipeInv'
<1>1. \A q \in Requests \ {r} : InOrder(q)'
  BY OthersInOrder DEF OnlyOf, PipeInv
<1>. QED
  BY <1>1 DEF PipeInv

\* A handler returns with an answer, unless it was given one before.
LEMMA EndsStep ==
  ASSUME PipeTypes, NEW r \in Requests, NEW a \in Answers, Ends(r, a)
  PROVE  /\ step' = [step EXCEPT ![r] = "end"] /\ step'[r] = "end"
         /\ answer' = [answer EXCEPT ![r] = IF answer[r] = "none" THEN a ELSE answer[r]]
         /\ answer'[r] = IF answer[r] = "none" THEN a ELSE answer[r]
         /\ step' \in [Requests -> Steps] /\ answer' \in [Requests -> Answers]
         /\ \A q \in Requests \ {r} : step'[q] = step[q] /\ answer'[q] = answer[q]
  BY DEF Ends, PipeTypes, Steps

\* It goes on to its next step.
LEMMA GoesStep ==
  ASSUME PipeTypes, NEW r \in Requests, NEW from, NEW to \in Steps, Goes(r, from, to)
  PROVE  /\ step[r] = from /\ step' = [step EXCEPT ![r] = to] /\ step'[r] = to
         /\ step' \in [Requests -> Steps]
         /\ \A q \in Requests \ {r} : step'[q] = step[q]
  BY DEF Goes, PipeTypes

\* A request is asked for.
LEMMA AskedInv ==
  ASSUME PipeInv, NEW r \in Requests, NEW k \in Kinds, NEW next \in {"enforce", "harden"},
         k \in Types => next = "enforce", k \notin Types => next = "harden", Asked(r, k, next)
  PROVE  PipeInv'
<1> USE DEF PipeInv
<1>0. /\ step[r] = "idle" /\ kind' = [kind EXCEPT ![r] = k]
      /\ UNCHANGED <<counters, left, tried, rest>>
      /\ banned' \in {banned, banned \cup {r}}
      /\ \/ Ends(r, "invalid")
         \/ Goes(r, "idle", next) /\ answer' = answer
  BY DEF Asked
<1>1. /\ kind'[r] = k /\ kind' \in [Requests -> Kinds \cup {None}]
      /\ \A q \in Requests \ {r} : kind'[q] = kind[q]
  BY <1>0 DEF PipeTypes
<1>2. CASE Ends(r, "invalid")
  <2>1. "invalid" \in Answers
    BY DEF Answers
  <2>2. PipeTypes' /\ OnlyOf(r)
    BY <1>0, <1>1, <1>2, <2>1, EndsStep DEF PipeTypes, OnlyOf, rest, counters
  <2>3. step'[r] = "end" /\ answer'[r] = "invalid"
    BY <1>0, <1>2, <2>1, EndsStep DEF InOrder, Placed, Early
  <2>4. InOrder(r)'
    BY <1>0, <1>1, <2>3 DEF InOrder, Charging, Placed, Judged, Flagged, Stored, Failing, Early,
       Late, rest, counters
  <2>. QED
    BY <1>0, <2>2, <2>4, OneRequest DEF counters
<1>3. CASE Goes(r, "idle", next) /\ answer' = answer
  <2>1. next \in Steps
    BY DEF Steps
  <2>2. PipeTypes' /\ OnlyOf(r)
    BY <1>0, <1>1, <1>3, <2>1, GoesStep DEF PipeTypes, OnlyOf, rest, counters
  <2>3. step'[r] = next
    BY <1>3, <2>1, GoesStep
  <2>4. InOrder(r)'
    BY <1>0, <1>1, <1>3, <2>3 DEF InOrder, Charging, Placed, Judged, Flagged, Stored, Failing,
       Early, Late, rest, counters
  <2>. QED
    BY <1>0, <2>2, <2>4, OneRequest DEF counters
<1>. QED
  BY <1>0, <1>2, <1>3

\* The client leaves; nothing is taken back.
LEMMA LeavesInv == ASSUME PipeInv, NEW r \in Requests, ClientLeaves(r) PROVE PipeInv'
<1>1. PipeTypes' /\ OnlyOf(r)
  BY DEF ClientLeaves, PipeInv, PipeTypes, OnlyOf, rest, counters
<1>2. InOrder(r)'
  BY DEF ClientLeaves, PipeInv, InOrder, Charging, Placed, Judged, Flagged, Stored, Failing,
     Early, Late, rest, counters
<1>. QED
  BY <1>1, <1>2, OneRequest DEF ClientLeaves, counters

\* An upload is hardened, or refused.
LEMMA HardenInv ==
  ASSUME PipeInv, NEW r \in Requests, kind[r] = "upload", Harden(r) PROVE PipeInv'
<1>0. UNCHANGED <<counters, kind, banned, left, tried, rest>> /\ step[r] = "harden"
  BY DEF Harden, Goes
<1>1. CASE Goes(r, "harden", "put") /\ answer' = answer
  <2>1. "put" \in Steps
    BY DEF Steps
  <2>2. PipeTypes' /\ OnlyOf(r) /\ step'[r] = "put"
    BY <1>0, <1>1, <2>1, GoesStep DEF PipeInv, PipeTypes, OnlyOf, rest, counters
  <2>3. InOrder(r)'
    BY <1>0, <1>1, <2>2, KindsKnown DEF PipeInv, InOrder, Charging, Placed, Judged, Flagged,
       Stored, Failing, Early, Late, Assets, rest, counters
  <2>. QED
    BY <1>0, <2>2, <2>3, OneRequest DEF counters
<1>2. ASSUME NEW a \in {"invalid", "internal"}, Ends(r, a) PROVE PipeInv'
  <2>1. a \in Answers
    BY DEF Answers
  <2>2. PipeTypes' /\ OnlyOf(r) /\ step'[r] = "end"
    BY <1>0, <1>2, <2>1, EndsStep DEF PipeInv, PipeTypes, OnlyOf, rest, counters
  <2>3. answer'[r] = a
    BY <1>0, <1>2, <2>1, EndsStep DEF PipeInv, InOrder, Placed, Early
  <2>4. InOrder(r)'
    BY <1>0, <2>2, <2>3 DEF PipeInv, InOrder, Charging, Placed, Judged, Flagged, Stored,
       Failing, Early, Late, rest, counters
  <2>. QED
    BY <1>0, <2>2, <2>4, OneRequest DEF counters
<1>. QED
  BY <1>1, <1>2 DEF Harden

\* A verdict: what goes on is allowed.
LEMMA ModerateInv ==
  ASSUME PipeInv, NEW r \in Requests, Moderate(r) PROVE PipeInv'
<1>0. /\ UNCHANGED <<counters, kind, banned, left, tried, answer, rest>> /\ step[r] = "moderate"
      /\ kind[r] \in Types /\ tried[r] = 0
  BY DEF Moderate, PipeInv, InOrder, Placed, Early
<1>1. ASSUME NEW to \in {"enqueue", "provide", "flag"}, Goes(r, "moderate", to),
             to # "flag" => "allow" \in Verdicts(r)
      PROVE  PipeInv'
  <2>1. to \in Steps
    BY DEF Steps
  <2>2. PipeTypes' /\ OnlyOf(r) /\ step'[r] = to
    BY <1>0, <1>1, <2>1, GoesStep DEF PipeInv, PipeTypes, OnlyOf, rest, counters
  <2>3. to # "flag" => (r \in banned => Checker = "permissive")
    BY <1>1, CheckerAssumption DEF Verdicts
  <2>4. 0 < Len(Chain)
    BY ChainLength
  <2>5. Charging(r)' /\ Placed(r)' /\ Judged(r)' /\ Flagged(r)' /\ Stored(r)'
    BY <1>0, <2>2, <2>3 DEF PipeInv, InOrder, Charging, Placed, Judged, Flagged, Stored, Early,
       Late, rest, counters
  <2>6. Failing(r)'
    BY <1>0, <2>2, <2>4 DEF PipeInv, InOrder, Failing, Placed, Early, rest, counters
  <2>. QED
    BY <1>0, <2>2, <2>5, <2>6, OneRequest DEF InOrder, counters
<1>2. CASE "allow" \in Verdicts(r) /\
           Goes(r, "moderate", IF kind[r] = "video" THEN "enqueue" ELSE "provide")
  BY <1>1, <1>2
<1>3. CASE "refuse" \in Verdicts(r) /\ Goes(r, "moderate", "flag")
  BY <1>1, <1>3
<1>. QED
  BY <1>2, <1>3 DEF Moderate

\* A refusal, with or without its flag.
LEMMA FlagInv == ASSUME PipeInv, NEW r \in Requests, Flag(r) PROVE PipeInv'
<1>0. /\ UNCHANGED <<counters, kind, banned, left, tried, contacted, blobs, rows, records>>
      /\ step[r] = "flag" /\ Ends(r, "refused")
      /\ \/ flags' = flags \cup {r} /\ spoiled' = spoiled
         \/ spoiled' = spoiled \cup {r} /\ flags' = flags
  BY DEF Flag
<1>1. "refused" \in Answers
  BY DEF Answers
<1>2. PipeTypes' /\ OnlyOf(r) /\ step'[r] = "end"
  BY <1>0, <1>1, EndsStep DEF PipeInv, PipeTypes, OnlyOf, counters
<1>3. answer'[r] = "refused"
  BY <1>0, <1>1, EndsStep DEF PipeInv, InOrder, Placed, Early
<1>4. InOrder(r)'
  BY <1>0, <1>2, <1>3 DEF PipeInv, InOrder, Charging, Placed, Judged, Flagged, Stored, Failing,
     Early, Late, counters
<1>. QED
  BY <1>0, <1>2, <1>4, OneRequest DEF counters

\* A video is accepted, or its job is not taken.
LEMMA EnqueueInv ==
  ASSUME PipeInv, NEW r \in Requests, Enqueue(r) PROVE PipeInv'
<1>0. /\ UNCHANGED <<counters, kind, banned, tried, rest>> /\ step[r] = "enqueue"
      /\ answer[r] = "none" /\ tried[r] = 0
  BY DEF Enqueue, Goes, PipeInv, InOrder, Placed, Early
<1>1. CASE Goes(r, "enqueue", "provide") /\ answer' = [answer EXCEPT ![r] = "accepted"]
             /\ left' = left \ {r}
  <2>1. "provide" \in Steps /\ "accepted" \in Answers
    BY DEF Steps, Answers
  <2>2. PipeTypes' /\ OnlyOf(r) /\ step'[r] = "provide" /\ answer'[r] = "accepted"
    BY <1>0, <1>1, <2>1, GoesStep DEF PipeInv, PipeTypes, OnlyOf, rest, counters
  <2>3. 0 < Len(Chain)
    BY ChainLength
  <2>4. Charging(r)' /\ Placed(r)' /\ Judged(r)' /\ Flagged(r)' /\ Stored(r)'
    BY <1>0, <2>2 DEF PipeInv, InOrder, Charging, Placed, Judged, Flagged, Stored, Early, Late,
       rest, counters
  <2>5. Failing(r)'
    BY <1>0, <2>2, <2>3 DEF Failing, counters
  <2>. QED
    BY <1>0, <2>2, <2>4, <2>5, OneRequest DEF InOrder, counters
<1>2. CASE Ends(r, "internal") /\ left' = left
  <2>1. "internal" \in Answers
    BY DEF Answers
  <2>2. PipeTypes' /\ OnlyOf(r) /\ step'[r] = "end"
    BY <1>0, <1>2, <2>1, EndsStep DEF PipeInv, PipeTypes, OnlyOf, rest, counters
  <2>3. answer'[r] = "internal"
    BY <1>0, <1>2, <2>1, EndsStep DEF PipeInv
  <2>4. InOrder(r)'
    BY <1>0, <1>2, <2>2, <2>3 DEF PipeInv, InOrder, Charging, Placed, Judged, Flagged, Stored,
       Failing, Early, Late, rest, counters
  <2>. QED
    BY <1>0, <2>2, <2>4, OneRequest DEF counters
<1>. QED
  BY <1>1, <1>2 DEF Enqueue

\* A turn that is left brings the count of turns to the length of the chain at most.
LEMMA NextTurn ==
  ASSUME NEW r \in Requests, tried \in [Requests -> 0..Len(Chain)], tried[r] < Len(Chain),
         tried' = [tried EXCEPT ![r] = @ + 1]
  PROVE  /\ tried[r] \in Nat /\ tried'[r] = tried[r] + 1
         /\ tried' \in [Requests -> 0..Len(Chain)]
         /\ \A q \in Requests \ {r} : tried'[q] = tried[q]
  BY ChainLength

\* A provider's turn: only one that was reached can have made something.
LEMMA AttemptInv ==
  ASSUME PipeInv, NEW r \in Requests, NEW gemini,
         gemini \subseteq {"good", "ErrMalformedOutput", "PlainError"}, Attempt(r, gemini)
  PROVE  PipeInv'
<1>0. /\ UNCHANGED <<counters, kind, banned, left, flags, blobs, rows, records, spoiled>>
      /\ step[r] = "provide" /\ kind[r] \in Types
      /\ tried' = [tried EXCEPT ![r] = @ + 1]
      /\ contacted' = IF r \in left THEN contacted ELSE contacted \cup {r}
  BY DEF Attempt, PipeInv, InOrder, Placed
<1>1. /\ tried[r] \in Nat /\ tried[r] < Len(Chain) /\ Len(Chain) \in Nat
      /\ tried'[r] = tried[r] + 1 /\ tried' \in [Requests -> 0..Len(Chain)]
      /\ \A q \in Requests \ {r} : tried'[q] = tried[q]
  <2>1. Len(Chain) \in Nat
    BY ChainLength
  <2>2. tried \in [Requests -> 0..Len(Chain)] /\ tried[r] < Len(Chain)
    BY <1>0 DEF PipeInv, PipeTypes, InOrder, Failing
  <2>. QED
    BY <1>0, <2>1, <2>2, NextTurn
<1>2. PICK o \in Outcomes(r, gemini) :
        \/ /\ o = "good"
           /\ Goes(r, "provide", IF kind[r] = "text" THEN "record" ELSE "put")
           /\ UNCHANGED answer
        \/ o # "good" /\ ~Last(r, o) /\ UNCHANGED <<step, answer>>
        \/ o # "good" /\ Last(r, o) /\ Ends(r, Classify(o))
  BY Zenon DEF Attempt
<1>3. /\ o = "good" => r \notin left
      /\ o # "good" /\ r \notin left => Chain[tried[r] + 1] # "stub"
  BY DEF Outcomes
<1>4. o # "good" /\ r \notin left => \A i \in 1..(tried[r] + 1) : Chain[i] # "stub"
  <2>1. \A n \in Nat : \A i \in 1..(n + 1) : i \in 1..n \/ i = n + 1
    OBVIOUS
  <2>. QED
    BY <1>0, <1>1, <1>3, <2>1 DEF PipeInv, InOrder, Failing
<1>5. CASE o = "good" /\ answer' = answer /\
           Goes(r, "provide", IF kind[r] = "text" THEN "record" ELSE "put")
  <2> DEFINE to == IF kind[r] = "text" THEN "record" ELSE "put"
  <2>1. to \in Steps
    BY DEF Steps
  <2>2. step' \in [Requests -> Steps] /\ step'[r] = to
        /\ \A q \in Requests \ {r} : step'[q] = step[q]
    BY <1>5, <2>1, GoesStep DEF PipeInv
  <2>3. PipeTypes' /\ OnlyOf(r)
    BY <1>0, <1>1, <1>5, <2>2 DEF PipeInv, PipeTypes, OnlyOf, counters
  <2>4. r \in contacted'
    BY <1>0, <1>3, <1>5
  <2>5. Charging(r)' /\ Placed(r)'
    BY <1>0, <1>5, <2>2, KindsKnown DEF PipeInv, InOrder, Charging, Placed, Assets, Early,
       counters
  <2>6. Judged(r)' /\ Flagged(r)'
    BY <1>0, <1>5, <2>2 DEF PipeInv, InOrder, Judged, Flagged, Placed, counters
  <2>7. Stored(r)'
    BY <1>0, <1>5, <2>2, <2>4, KindsKnown DEF PipeInv, InOrder, Stored, Placed, Assets, Late
  <2>8. Failing(r)'
    BY <1>0, <1>5, <2>2 DEF PipeInv, InOrder, Failing, Placed
  <2>. QED
    BY <1>0, <2>3, <2>5, <2>6, <2>7, <2>8, OneRequest DEF InOrder, counters
<1>6. CASE o # "good" /\ ~Last(r, o) /\ UNCHANGED <<step, answer>>
  <2>1. PipeTypes' /\ OnlyOf(r)
    BY <1>0, <1>1, <1>6 DEF PipeInv, PipeTypes, OnlyOf, counters
  <2>2. Charging(r)' /\ Placed(r)' /\ Judged(r)' /\ Flagged(r)' /\ Stored(r)'
    BY <1>0, <1>6 DEF PipeInv, InOrder, Charging, Placed, Judged, Flagged, Stored, Early, Late,
       counters
  <2>3. Failing(r)'
    <3>1. tried'[r] < Len(Chain)
      BY <1>1, <1>6 DEF Last
    <3>2. r \notin left' => \A i \in 1..tried'[r] : Chain[i] # "stub"
      BY <1>0, <1>1, <1>4, <1>6
    <3>3. answer'[r] \notin {"timeout", "malformed"}
      BY <1>0, <1>6 DEF PipeInv, InOrder, Placed
    <3>. QED
      BY <3>1, <3>2, <3>3 DEF Failing
  <2>. QED
    BY <1>0, <2>1, <2>2, <2>3, OneRequest DEF InOrder, counters
<1>7. CASE o # "good" /\ Last(r, o) /\ Ends(r, Classify(o))
  <2>1. Classify(o) \in {"malformed", "timeout"} /\ Classify(o) \in Answers
    BY DEF Classify, Answers
  <2>2. /\ step' \in [Requests -> Steps] /\ step'[r] = "end"
        /\ answer' \in [Requests -> Answers]
        /\ answer'[r] \in {"malformed", "timeout", "accepted"}
        /\ \A q \in Requests \ {r} : step'[q] = step[q] /\ answer'[q] = answer[q]
    BY <1>0, <1>7, <2>1, EndsStep DEF PipeInv, InOrder, Placed
  <2>3. PipeTypes' /\ OnlyOf(r)
    BY <1>0, <1>1, <2>2 DEF PipeInv, PipeTypes, OnlyOf, counters
  <2>4. Charging(r)' /\ Placed(r)' /\ Judged(r)' /\ Flagged(r)' /\ Stored(r)'
    BY <1>0, <2>2 DEF PipeInv, InOrder, Charging, Placed, Judged, Flagged, Stored, Early, Late,
       counters
  <2>5. Failing(r)'
    <3>1. tried'[r] = Len(Chain)
      BY <1>1, <1>7 DEF Last
    <3>2. r \notin left' => \A i \in 1..Len(Chain) : Chain[i] # "stub"
      BY <1>0, <1>1, <1>4, <1>7, <3>1
    <3>. QED
      BY <2>2, <3>1, <3>2 DEF Failing
  <2>. QED
    BY <1>0, <2>3, <2>4, <2>5, OneRequest DEF InOrder, counters
<1>. QED
  BY <1>2, <1>5, <1>6, <1>7

\* The bytes are stored, or nothing is.
LEMMA PutInv == ASSUME PipeInv, NEW r \in Requests, Put(r) PROVE PipeInv'
<1>0. /\ UNCHANGED <<counters, kind, banned, left, tried, contacted, flags, rows, records, spoiled>>
      /\ step[r] = "put" /\ kind[r] \in Assets
  BY DEF Put, Goes, PipeInv, InOrder, Placed
<1>1. CASE Goes(r, "put", "create") /\ blobs' = blobs \cup {r} /\ answer' = answer
  <2>1. "create" \in Steps
    BY DEF Steps
  <2>2. PipeTypes' /\ OnlyOf(r) /\ step'[r] = "create"
    BY <1>0, <1>1, <2>1, GoesStep DEF PipeInv, PipeTypes, OnlyOf, counters
  <2>3. InOrder(r)'
    BY <1>0, <1>1, <2>2 DEF PipeInv, InOrder, Charging, Placed, Judged, Flagged, Stored, Failing,
       Early, Late, counters
  <2>. QED
    BY <1>0, <2>2, <2>3, OneRequest DEF counters
<1>2. CASE Ends(r, "internal") /\ blobs' = blobs
  <2>1. "internal" \in Answers
    BY DEF Answers
  <2>2. PipeTypes' /\ OnlyOf(r) /\ step'[r] = "end"
    BY <1>0, <1>2, <2>1, EndsStep DEF PipeInv, PipeTypes, OnlyOf, counters
  <2>3. answer'[r] \in {"internal", "accepted"}
    BY <1>0, <1>2, <2>1, EndsStep DEF PipeInv, InOrder, Placed
  <2>4. InOrder(r)'
    BY <1>0, <1>2, <2>2, <2>3 DEF PipeInv, InOrder, Charging, Placed, Judged, Flagged, Stored,
       Failing, Early, Late, counters
  <2>. QED
    BY <1>0, <2>2, <2>4, OneRequest DEF counters
<1>. QED
  BY <1>0, <1>1, <1>2 DEF Put

\* The row is stored behind its bytes; a row nobody was told of is spoiled.
LEMMA CreateInv == ASSUME PipeInv, NEW r \in Requests, CreateAsset(r) PROVE PipeInv'
<1>0. /\ UNCHANGED <<counters, kind, banned, left, tried, contacted, flags, blobs, records>>
      /\ step[r] = "create" /\ kind[r] \in Assets /\ r \in blobs
  BY DEF CreateAsset, Goes, PipeInv, InOrder, Placed, Stored
<1>1. CASE kind[r] = "upload" /\ Ends(r, "ok") /\ rows' = rows \cup {r} /\ spoiled' = spoiled
  <2>1. "ok" \in Answers
    BY DEF Answers
  <2>2. PipeTypes' /\ OnlyOf(r) /\ step'[r] = "end"
    BY <1>0, <1>1, <2>1, EndsStep DEF PipeInv, PipeTypes, OnlyOf, counters
  <2>3. answer'[r] \in {"ok", "accepted"}
    BY <1>0, <1>1, <2>1, EndsStep DEF PipeInv, InOrder, Placed
  <2>4. InOrder(r)'
    BY <1>0, <1>1, <2>2, <2>3 DEF PipeInv, InOrder, Charging, Placed, Judged, Flagged, Stored,
       Failing, Early, Late, counters
  <2>. QED
    BY <1>0, <2>2, <2>4, OneRequest DEF counters
<1>2. CASE kind[r] # "upload" /\ Goes(r, "create", "record") /\ rows' = rows \cup {r}
             /\ spoiled' = spoiled /\ answer' = answer
  <2>1. "record" \in Steps
    BY DEF Steps
  <2>2. PipeTypes' /\ OnlyOf(r) /\ step'[r] = "record"
    BY <1>0, <1>2, <2>1, GoesStep DEF PipeInv, PipeTypes, OnlyOf, counters
  <2>3. kind[r] \in Types
    BY <1>0, <1>2, KindsKnown DEF Assets
  <2>4. InOrder(r)'
    BY <1>0, <1>2, <2>2, <2>3 DEF PipeInv, InOrder, Charging, Placed, Judged, Flagged, Stored,
       Failing, Early, Late, counters
  <2>. QED
    BY <1>0, <2>2, <2>4, OneRequest DEF counters
<1>3. CASE /\ Goes(r, "create", "cleanup") /\ answer' = answer
           /\ \/ UNCHANGED <<rows, spoiled>>
              \/ rows' = rows \cup {r} /\ spoiled' = spoiled \cup {r}
  <2>1. "cleanup" \in Steps
    BY DEF Steps
  <2>2. PipeTypes' /\ OnlyOf(r) /\ step'[r] = "cleanup"
    BY <1>0, <1>3, <2>1, GoesStep DEF PipeInv, PipeTypes, OnlyOf, counters
  <2>3. InOrder(r)'
    BY <1>0, <1>3, <2>2 DEF PipeInv, InOrder, Charging, Placed, Judged, Flagged, Stored, Failing,
       Early, Late, counters
  <2>. QED
    BY <1>0, <2>2, <2>3, OneRequest DEF counters
<1>. QED
  BY <1>1, <1>2, <1>3 DEF CreateAsset

\* The bytes of a failed insert go, unless that fails as well.
LEMMA CleanupInv == ASSUME PipeInv, NEW r \in Requests, Cleanup(r) PROVE PipeInv'
<1>0. /\ UNCHANGED <<counters, kind, banned, left, tried, contacted, flags, rows, records>>
      /\ step[r] = "cleanup" /\ Ends(r, "internal")
      /\ \/ blobs' = blobs \ {r} /\ spoiled' = spoiled
         \/ spoiled' = spoiled \cup {r} /\ blobs' = blobs
  BY DEF Cleanup
<1>1. "internal" \in Answers
  BY DEF Answers
<1>2. PipeTypes' /\ OnlyOf(r) /\ step'[r] = "end"
  BY <1>0, <1>1, EndsStep DEF PipeInv, PipeTypes, OnlyOf, counters
<1>3. answer'[r] \in {"internal", "accepted"}
  BY <1>0, <1>1, EndsStep DEF PipeInv, InOrder, Placed
<1>4. InOrder(r)'
  BY <1>0, <1>2, <1>3 DEF PipeInv, InOrder, Charging, Placed, Judged, Flagged, Stored, Failing,
     Early, Late, counters
<1>. QED
  BY <1>0, <1>2, <1>4, OneRequest DEF counters

\* The record comes last, and the answer with it.
LEMMA RecordInv == ASSUME PipeInv, NEW r \in Requests, Record(r) PROVE PipeInv'
<1>0. /\ UNCHANGED <<counters, kind, banned, left, tried, contacted, flags, blobs, rows>>
      /\ step[r] = "record" /\ kind[r] \in Types /\ r \in contacted /\ Ends(r, "ok")
      /\ \/ records' = [records EXCEPT ![r] = tried[r]] /\ spoiled' = spoiled
         \/ spoiled' = spoiled \cup {r} /\ records' = records
  BY DEF Record, PipeInv, InOrder, Placed, Stored, Late
<1>1. "ok" \in Answers
  BY DEF Answers
<1>2. PipeTypes' /\ OnlyOf(r) /\ step'[r] = "end"
  BY <1>0, <1>1, EndsStep DEF PipeInv, PipeTypes, OnlyOf, counters
<1>3. answer'[r] \in {"ok", "accepted"}
  BY <1>0, <1>1, EndsStep DEF PipeInv, InOrder, Placed
<1>4. InOrder(r)'
  BY <1>0, <1>2, <1>3 DEF PipeInv, InOrder, Charging, Placed, Judged, Flagged, Stored, Failing,
     Early, Late, counters
<1>. QED
  BY <1>0, <1>2, <1>4, OneRequest DEF counters

-----------------------------------------------------------------------------
(* The steps that charge. *)

\* The charges are functions of the requests.
LEMMA ChargingTyped ==
  ASSUME Q!TypeOK
  PROVE  /\ charging \in [Requests -> Q!RequestState]
         /\ \A r \in Requests : charging[r].pc \in {"idle", "check"}
  BY DEF Q!TypeOK, Q!RequestState

\* A charge waits for its check.
LEMMA ChargeInv ==
  ASSUME PipeInv, Q!TypeOK, NEW r \in Requests, kind[r] \in Types, Charge(r) PROVE PipeInv'
<1>0. /\ step[r] = "enforce" /\ Cap[kind[r]] > 0 /\ day' = day /\ day = 0
      /\ charging' = [charging EXCEPT ![r] = [pc |-> "check", type |-> kind[r], day |-> day]]
      /\ UNCHANGED <<step, kind, banned, left, tried, answer, rest>>
  BY DEF Charge, Q!UpsertAndCheck, PipeInv
<1>1. /\ charging'[r].type = kind[r] /\ charging'[r].day = 0
      /\ \A q \in Requests \ {r} : charging'[q] = charging[q]
  BY <1>0, ChargingTyped
<1>2. PipeTypes' /\ OnlyOf(r)
  BY <1>0, <1>1 DEF PipeInv, PipeTypes, OnlyOf, rest
<1>3. InOrder(r)'
  BY <1>0, <1>1 DEF PipeInv, InOrder, Charging, Placed, Judged, Flagged, Stored, Failing, Early,
     Late, rest
<1>. QED
  BY <1>0, <1>2, <1>3, OneRequest

\* A request that is no longer charging goes to its verdict or ends.
LEMMA EnforcedInv ==
  ASSUME PipeInv, NEW r \in Requests, step[r] = "enforce",
         UNCHANGED <<day, kind, banned, left, tried, rest>>,
         \A q \in Requests \ {r} : charging'[q] = charging[q],
         charging'[r].pc # "check",
         \/ Goes(r, "enforce", "moderate") /\ UNCHANGED answer
         \/ \E a \in {"quota", "internal"} : Ends(r, a)
  PROVE  PipeInv'
<1>1. CASE Goes(r, "enforce", "moderate") /\ UNCHANGED answer
  <2>1. "moderate" \in Steps
    BY DEF Steps
  <2>2. PipeTypes' /\ OnlyOf(r) /\ step'[r] = "moderate"
    BY <1>1, <2>1, GoesStep DEF PipeInv, PipeTypes, OnlyOf, rest
  <2>3. InOrder(r)'
    BY <1>1, <2>2 DEF PipeInv, InOrder, Charging, Placed, Judged, Flagged, Stored, Failing, Early,
       Late, rest
  <2>. QED
    BY <2>2, <2>3, OneRequest
<1>2. ASSUME NEW a \in {"quota", "internal"}, Ends(r, a) PROVE PipeInv'
  <2>1. a \in Answers
    BY DEF Answers
  <2>2. PipeTypes' /\ OnlyOf(r) /\ step'[r] = "end"
    BY <1>2, <2>1, EndsStep DEF PipeInv, PipeTypes, OnlyOf, rest
  <2>3. answer'[r] = a
    BY <1>2, <2>1, EndsStep DEF PipeInv, InOrder, Placed, Early
  <2>4. InOrder(r)'
    BY <2>2, <2>3 DEF PipeInv, InOrder, Charging, Placed, Judged, Flagged, Stored, Failing, Early,
       Late, rest
  <2>. QED
    BY <2>2, <2>4, OneRequest
<1>. QED
  BY <1>1, <1>2

\* The check, or an error, ends the charge.
LEMMA ChargeEnds ==
  ASSUME Q!TypeOK, NEW r \in Requests, Q!Check(r) \/ Q!Abort(r)
  PROVE  /\ day' = day /\ charging[r].pc = "check" /\ charging'[r].pc # "check"
         /\ \A q \in Requests \ {r} : charging'[q] = charging[q]
<1>1. charging' = [charging EXCEPT ![r] = Q!Idle] /\ day' = day /\ charging[r].pc = "check"
  BY DEF Q!Check, Q!Abort
<1>. QED
  BY <1>1, ChargingTyped DEF Q!Idle

\* Enforce decides.
LEMMA EnforceInv ==
  ASSUME PipeInv, Q!TypeOK, NEW r \in Requests, Enforce(r) PROVE PipeInv'
<1>0. step[r] = "enforce" /\ UNCHANGED <<kind, banned, left, tried, rest>>
  BY DEF Enforce
<1>1. CASE Cap[kind[r]] <= 0 /\ UNCHANGED counters
           /\ Goes(r, "enforce", "moderate") /\ UNCHANGED answer
  <2>1. Cap[kind[r]] \in Int
    BY <1>0, QuotaAssumption DEF PipeInv, InOrder, Placed
  <2>2. charging[r].pc # "check"
    BY <1>1, <2>1 DEF PipeInv, InOrder, Charging
  <2>. QED
    BY <1>0, <1>1, <2>2, EnforcedInv DEF counters
<1>2. CASE Q!Check(r) /\ IF refused' = refused
                           THEN Goes(r, "enforce", "moderate") /\ UNCHANGED answer
                           ELSE Ends(r, "quota")
  BY <1>0, <1>2, ChargeEnds, EnforcedInv
<1>3. CASE charging[r].pc = "check" /\ Q!Abort(r) /\ Ends(r, "internal")
  BY <1>0, <1>3, ChargeEnds, EnforcedInv
<1>4. CASE charging[r].pc # "check" /\ UNCHANGED counters /\ Ends(r, "internal")
  BY <1>0, <1>4, EnforcedInv DEF counters
<1>. QED
  BY <1>1, <1>2, <1>3, <1>4 DEF Enforce

\* A request dies: whatever it had is spoiled.
LEMMA DiesInv ==
  ASSUME PipeInv, Q!TypeOK, NEW r \in Requests, Dies(r) PROVE PipeInv'
<1>0. /\ step[r] \notin {"idle", "end"} /\ Ends(r, "dropped") /\ spoiled' = spoiled \cup {r}
      /\ UNCHANGED <<kind, banned, left, tried, contacted, flags, blobs, rows, records>>
  BY DEF Dies
<1>1. /\ day' = day /\ charging'[r].pc # "check"
      /\ \A q \in Requests \ {r} : charging'[q] = charging[q]
  BY ChargeEnds DEF Dies, counters
<1>2. "dropped" \in Answers
  BY DEF Answers
<1>3. PipeTypes' /\ OnlyOf(r) /\ step'[r] = "end"
  BY <1>0, <1>1, <1>2, EndsStep DEF PipeInv, PipeTypes, OnlyOf
<1>4. answer'[r] \in {"dropped", "accepted"}
  BY <1>0, <1>2, EndsStep DEF PipeInv, InOrder, Placed
<1>5. InOrder(r)'
  BY <1>0, <1>1, <1>3, <1>4 DEF PipeInv, InOrder, Charging, Placed, Judged, Flagged, Stored,
     Failing, Early, Late
<1>. QED
  BY <1>1, <1>3, <1>5, OneRequest

-----------------------------------------------------------------------------
\* Nothing exists of a request nobody made.
LEMMA InitInv == Init => PipeInv
<1> SUFFICES ASSUME Init PROVE PipeInv
  OBVIOUS
<1>1. day = 0 /\ \A r \in Requests : charging[r].pc # "check"
  BY DEF Init, Q!Init, Q!Idle
<1>2. PipeTypes
  BY ChainLength DEF Init, PipeTypes, Steps, Answers
<1>3. ASSUME NEW r \in Requests PROVE InOrder(r)
  BY <1>1 DEF Init, InOrder, Charging, Placed, Judged, Flagged, Stored, Failing, Early, Late
<1>. QED
  BY <1>1, <1>2, <1>3 DEF PipeInv

\* What Gemini may answer.
LEMMA GeminiAnswers ==
  \A gemini \in {GeminiText, GeminiImage, GeminiVideo} :
    gemini \subseteq {"good", "ErrMalformedOutput", "PlainError"}
  BY DEF GeminiText, GeminiImage, GeminiVideo, Parsed

\* One turn of each of the chains.
LEMMA ChainInv ==
  ASSUME PipeInv, NEW r \in Requests, TextChain(r) \/ ImageChain(r) \/ VideoChain(r)
  PROVE  PipeInv'
<1>1. \E gemini \in {GeminiText, GeminiImage, GeminiVideo} : Attempt(r, gemini)
  BY DEF TextChain, ImageChain, VideoChain
<1>. QED
  BY <1>1, GeminiAnswers, AttemptInv

\* Every step keeps the invariant.
LEMMA StepInv == PipeInv /\ Q!TypeOK /\ [Next]_vars => PipeInv'
<1> SUFFICES ASSUME PipeInv, Q!TypeOK, [Next]_vars
             PROVE  PipeInv'
  OBVIOUS
<1>1. ASSUME NEW r \in Requests, Bind(r) \/ Receive(r) PROVE PipeInv'
  <2>1. CASE Bind(r)
    BY <2>1, KindsKnown, AskedInv DEF Bind
  <2>2. CASE Receive(r)
    BY <2>2, KindsKnown, AskedInv DEF Receive
  <2>. QED
    BY <1>1, <2>1, <2>2
<1>2. ASSUME NEW r \in Requests, ClientLeaves(r) PROVE PipeInv'
  BY <1>2, LeavesInv
<1>3. ASSUME NEW r \in Requests, Dies(r) PROVE PipeInv'
  BY <1>3, DiesInv
<1>4. ASSUME NEW r \in Requests, kind[r] \in Types, Checked(r) PROVE PipeInv'
  BY <1>4, ChargeInv, EnforceInv, ModerateInv, FlagInv DEF Checked
<1>5. ASSUME NEW r \in Requests, TextChain(r) \/ ImageChain(r) \/ VideoChain(r) PROVE PipeInv'
  BY <1>5, ChainInv
<1>6. ASSUME NEW r \in Requests, Persist(r) PROVE PipeInv'
  BY <1>6, PutInv, CreateInv, CleanupInv DEF Persist
<1>7. ASSUME NEW r \in Requests, Record(r) \/ Enqueue(r) PROVE PipeInv'
  BY <1>7, RecordInv, EnqueueInv
<1>8. ASSUME NEW r \in Requests, kind[r] = "upload", Harden(r) PROVE PipeInv'
  BY <1>8, HardenInv
<1>9. CASE UNCHANGED vars
  <2>1. PipeTypes' /\ day' = 0
    BY <1>9 DEF vars, rest, counters, PipeInv, PipeTypes
  <2>2. \A q \in Requests : InOrder(q)'
    BY <1>9, OthersInOrder DEF vars, rest, counters, PipeInv
  <2>. QED
    BY <2>1, <2>2 DEF PipeInv
<1>. QED
  BY <1>1, <1>2, <1>3, <1>4, <1>5, <1>6, <1>7, <1>8, <1>9, KindsKnown
     DEF Next, GenerateText, GenerateImage, GenerateVideo, ProcessVideo, Upload

\* The invariant holds.
LEMMA PipelineInOrder == Spec => []PipeInv
  BY InitInv, StepInv, QuotaHolds, PTL DEF Spec

-----------------------------------------------------------------------------
(* What the providers see. *)

Judging == {"moderate", "flag", "enqueue", "provide"}

\* The requests that were let through and may reach a provider, or did.
Spender(r) == r \in contacted \/ step[r] \in Judging
Spent(t)   == {r \in Requests : kind[r] = t /\ Spender(r)}

\* Every one of them was admitted by the quota.
Spending == \A t \in Types : Cap[t] > 0 => Cardinality(Spent(t)) <= admitted[0][t]

\* Only a check that passes lets a request through.
LEMMA NoNewSpender ==
  ASSUME PipeInv, Q!TypeOK, [Next]_vars, NEW q \in Requests, Spender(q)',
         ~\E r \in Requests : Enforce(r)
  PROVE  Spender(q) /\ kind'[q] = kind[q]
<1> USE DEF Spender, Judging
<1>1. ASSUME NEW r \in Requests, NEW k, NEW next \in {"enforce", "harden"}, Asked(r, k, next)
      PROVE  Spender(q) /\ kind'[q] = kind[q]
  <2>1. step[r] = "idle" /\ contacted' = contacted /\ r \notin contacted
    BY <1>1 DEF Asked, rest, PipeInv, InOrder, Placed, Early
  <2>2. step' \in [Requests -> Steps \cup {next, "end"}] /\ step'[r] \in {next, "end"}
        /\ \A p \in Requests \ {r} : step'[p] = step[p] /\ kind'[p] = kind[p]
    BY <1>1 DEF Asked, Ends, Goes, PipeInv, PipeTypes
  <2>. QED
    BY <2>1, <2>2
<1>2. ASSUME NEW r \in Requests, Bind(r) \/ Receive(r)
      PROVE  Spender(q) /\ kind'[q] = kind[q]
  BY <1>1, <1>2 DEF Bind, Receive
<1>3. ASSUME NEW r \in Requests, ClientLeaves(r) \/ Charge(r)
      PROVE  Spender(q) /\ kind'[q] = kind[q]
  BY <1>3 DEF ClientLeaves, Charge, rest
<1>4. ASSUME NEW r \in Requests, Dies(r) \/ Flag(r) \/ Cleanup(r) \/ Record(r)
      PROVE  Spender(q) /\ kind'[q] = kind[q]
  BY <1>4 DEF Dies, Flag, Cleanup, Record, Ends, PipeInv, PipeTypes
<1>5. ASSUME NEW r \in Requests, Moderate(r) \/ Enqueue(r)
      PROVE  Spender(q) /\ kind'[q] = kind[q]
  BY <1>5 DEF Moderate, Enqueue, Goes, Ends, rest, PipeInv, PipeTypes
<1>6. ASSUME NEW r \in Requests, NEW gemini, Attempt(r, gemini)
      PROVE  Spender(q) /\ kind'[q] = kind[q]
  <2>1. step[r] = "provide" /\ contacted' \subseteq contacted \cup {r} /\ kind' = kind
    BY <1>6 DEF Attempt
  <2>2. \A p \in Requests \ {r} : step'[p] = step[p]
    BY <1>6 DEF Attempt, Goes, Ends, PipeInv, PipeTypes
  <2>. QED
    BY <2>1, <2>2
<1>7. ASSUME NEW r \in Requests, Put(r) \/ CreateAsset(r) \/ Harden(r)
      PROVE  Spender(q) /\ kind'[q] = kind[q]
  BY <1>7 DEF Put, CreateAsset, Harden, Goes, Ends, rest, PipeInv, PipeTypes
<1>8. CASE UNCHANGED vars
  BY <1>8 DEF vars, rest
<1>. QED
  BY <1>2, <1>3, <1>4, <1>5, <1>6, <1>7, <1>8 DEF Next, GenerateText, GenerateImage,
     GenerateVideo, ProcessVideo, Upload, Checked, Persist, TextChain, ImageChain, VideoChain

\* And only a check changes what the quota admitted.
LEMMA NoNewAdmission ==
  ASSUME [Next]_vars, ~\E r \in Requests : Enforce(r)
  PROVE  admitted' = admitted
<1>1. ASSUME NEW r \in Requests, Charge(r) \/ Dies(r) PROVE admitted' = admitted
  BY <1>1 DEF Charge, Dies, Q!UpsertAndCheck, Q!Abort, counters
<1>2. ASSUME NEW r \in Requests,
             Moderate(r) \/ Flag(r) \/ Enqueue(r) \/ TextChain(r) \/ ImageChain(r) \/ VideoChain(r)
               \/ Record(r) \/ Persist(r) \/ Harden(r) \/ Bind(r) \/ Receive(r) \/ ClientLeaves(r)
      PROVE  admitted' = admitted
  BY <1>2 DEF Moderate, Flag, Enqueue, TextChain, ImageChain, VideoChain, Attempt, Record,
     Persist, Put, CreateAsset, Cleanup, Harden, Bind, Receive, Asked, ClientLeaves, counters
<1>3. CASE UNCHANGED vars
  BY <1>3 DEF vars, counters
<1>. QED
  BY <1>1, <1>2, <1>3
     DEF Next, GenerateText, GenerateImage, GenerateVideo, ProcessVideo, Upload, Checked

\* Finitely many requests, a finite number of them spenders.
LEMMA SpentFinite ==
  ASSUME NEW t PROVE IsFiniteSet(Spent(t)) /\ Cardinality(Spent(t)) \in Nat
<1>1. Spent(t) \subseteq Requests
  BY DEF Spent
<1>2. IsFiniteSet(Spent(t))
  BY <1>1, FS_Subset, QuotaAssumption
<1>. QED
  BY <1>2, FS_CardinalityType

\* The tallies are numbers, today's among them.
LEMMA TalliesTyped ==
  ASSUME Q!TypeOK
  PROVE  /\ 0 \in Q!Days /\ admitted \in Q!Tallies /\ refused \in Q!Tallies
         /\ \A t \in Types : admitted[0][t] \in Nat /\ refused[0][t] \in Nat
  BY QuotaAssumption DEF Q!TypeOK, Q!Tallies, Q!Days

\* No new spender on the same admissions.
LEMMA SpendShrinks ==
  ASSUME Spending, Q!TypeOK, admitted' = admitted,
         \A q \in Requests : Spender(q)' /\ Cap[kind'[q]] > 0 => Spender(q) /\ kind'[q] = kind[q]
  PROVE  Spending'
<1> SUFFICES ASSUME NEW t \in Types, Cap[t] > 0
             PROVE  Cardinality(Spent(t)') <= admitted[0][t]
  BY DEF Spending
<1>1. Spent(t)' \subseteq Spent(t)
  BY DEF Spent
<1>2. Cardinality(Spent(t)') <= Cardinality(Spent(t)) /\ Cardinality(Spent(t)') \in Nat
  BY <1>1, SpentFinite, FS_Subset, FS_CardinalityType
<1>3. Cardinality(Spent(t)) <= admitted[0][t] /\ Cardinality(Spent(t)) \in Nat
  BY SpentFinite DEF Spending
<1>. QED
  BY <1>2, <1>3, TalliesTyped

\* A check that lets a request through admits it; one that refuses does not.
LEMMA CheckAdmits ==
  ASSUME Q!TypeOK, NEW r \in Requests, Q!Check(r), day = 0, charging[r].day = 0,
         charging[r].type = kind[r], kind[r] \in Types
  PROVE  IF refused' = refused
         THEN /\ admitted'[0][kind[r]] = admitted[0][kind[r]] + 1
              /\ \A t \in Types \ {kind[r]} : admitted'[0][t] = admitted[0][t]
         ELSE admitted' = admitted
<1>1. CASE Q!Exceeds(count[day][kind[r]], kind[r])
  <2>1. refused' = [refused EXCEPT ![0][kind[r]] = @ + 1] /\ admitted' = admitted
    BY <1>1 DEF Q!Check, Q!Plus1
  <2>2. refused'[0][kind[r]] = refused[0][kind[r]] + 1
    BY <2>1, TalliesTyped DEF Q!Tallies
  <2>3. refused'[0][kind[r]] # refused[0][kind[r]]
    BY <2>2, TalliesTyped
  <2>. QED
    BY <2>1, <2>3
<1>2. CASE ~Q!Exceeds(count[day][kind[r]], kind[r])
  <2>1. refused' = refused /\ admitted' = [admitted EXCEPT ![0][kind[r]] = @ + 1]
    BY <1>2 DEF Q!Check, Q!Plus1
  <2>2. /\ admitted'[0][kind[r]] = admitted[0][kind[r]] + 1
        /\ \A t \in Types \ {kind[r]} : admitted'[0][t] = admitted[0][t]
    BY <2>1, TalliesTyped DEF Q!Tallies
  <2>. QED
    BY <2>1, <2>2
<1>. QED
  BY <1>1, <1>2

\* The request that Enforce lets through is one spender more, and admitted.
LEMMA EnforceSpends ==
  ASSUME PipeInv, Spending, Q!TypeOK, NEW r \in Requests, Enforce(r)
  PROVE  Spending'
<1>0. /\ step[r] = "enforce" /\ kind[r] \in Types /\ r \notin contacted
      /\ kind' = kind /\ contacted' = contacted /\ Cap[kind[r]] \in Int
  BY QuotaAssumption DEF Enforce, rest, PipeInv, InOrder, Placed, Early
<1>1. /\ \A q \in Requests \ {r} : step'[q] = step[q]
      /\ step'[r] \in {"moderate", "end"}
  BY DEF Enforce, Goes, Ends, PipeInv, PipeTypes
<1>2. \A q \in Requests \ {r} : Spender(q)' <=> Spender(q)
  BY <1>0, <1>1 DEF Spender
<1>3. CASE ~Spender(r)' /\ admitted' = admitted
  BY <1>0, <1>2, <1>3, SpendShrinks
<1>4. CASE Cap[kind[r]] <= 0 /\ admitted' = admitted
  BY <1>0, <1>2, <1>4, SpendShrinks
<1>5. CASE Q!Check(r) /\ refused' = refused /\ Goes(r, "enforce", "moderate")
  <2>1. step'[r] = "moderate"
    BY <1>5 DEF Goes, PipeInv, PipeTypes
  <2>2. ~Spender(r) /\ Spender(r)'
    BY <1>0, <2>1 DEF Spender, Judging
  <2>3. charging[r].pc = "check"
    BY <1>5 DEF Q!Check
  <2>4. day = 0 /\ charging[r].day = 0 /\ charging[r].type = kind[r]
    BY <2>3 DEF PipeInv, InOrder, Charging
  <2>5. /\ admitted'[0][kind[r]] = admitted[0][kind[r]] + 1
        /\ \A t \in Types \ {kind[r]} : admitted'[0][t] = admitted[0][t]
    BY <1>0, <1>5, <2>4, CheckAdmits
  <2>6. ASSUME NEW t \in Types, Cap[t] > 0
        PROVE  Cardinality(Spent(t)') <= admitted'[0][t]
    <3>1. CASE t = kind[r]
      <4>1. Spent(t)' = Spent(t) \cup {r} /\ r \notin Spent(t)
        BY <1>0, <1>2, <2>2, <3>1 DEF Spent
      <4>2. Cardinality(Spent(t)') = Cardinality(Spent(t)) + 1
        BY <4>1, SpentFinite, FS_AddElement
      <4>3. Cardinality(Spent(t)) <= admitted[0][t] /\ Cardinality(Spent(t)) \in Nat
        BY <2>6, SpentFinite DEF Spending
      <4>. QED
        BY <2>5, <3>1, <4>2, <4>3, TalliesTyped
    <3>2. CASE t # kind[r]
      <4>1. Spent(t)' = Spent(t)
        BY <1>0, <1>2, <3>2 DEF Spent
      <4>. QED
        BY <2>5, <2>6, <3>2, <4>1 DEF Spending
    <3>. QED
      BY <3>1, <3>2
  <2>. QED
    BY <2>6 DEF Spending
<1>6. CASE Q!Check(r) /\ refused' # refused /\ Ends(r, "quota")
  <2>1. charging[r].pc = "check"
    BY <1>6 DEF Q!Check
  <2>2. day = 0 /\ charging[r].day = 0 /\ charging[r].type = kind[r]
    BY <2>1 DEF PipeInv, InOrder, Charging
  <2>3. admitted' = admitted
    BY <1>0, <1>6, <2>2, CheckAdmits
  <2>4. ~Spender(r)'
    BY <1>0, <1>6 DEF Spender, Judging, Ends, PipeInv, PipeTypes
  <2>. QED
    BY <1>3, <2>3, <2>4
<1>7. CASE Ends(r, "internal") /\ (Q!Abort(r) \/ UNCHANGED counters)
  <2>1. admitted' = admitted
    BY <1>7 DEF Q!Abort, counters
  <2>2. ~Spender(r)'
    BY <1>0, <1>7 DEF Spender, Judging, Ends, PipeInv, PipeTypes
  <2>. QED
    BY <1>3, <2>1, <2>2
<1>. QED
  BY <1>4, <1>5, <1>6, <1>7 DEF Enforce, counters

\* Every step keeps to what was admitted.
LEMMA SpendStep == Spending /\ PipeInv /\ Q!TypeOK /\ [Next]_vars => Spending'
<1> SUFFICES ASSUME Spending, PipeInv, Q!TypeOK, [Next]_vars
             PROVE  Spending'
  OBVIOUS
<1>1. CASE \E r \in Requests : Enforce(r)
  BY <1>1, EnforceSpends
<1>2. CASE ~\E r \in Requests : Enforce(r)
  <2>1. \A q \in Requests : Spender(q)' => Spender(q) /\ kind'[q] = kind[q]
    BY <1>2, NoNewSpender
  <2>. QED
    BY <1>2, <2>1, NoNewAdmission, SpendShrinks
<1>. QED
  BY <1>1, <1>2

\* Nobody has spent anything at first.
LEMMA SpendInit == Init => Spending
<1> SUFFICES ASSUME Init, NEW t \in Types PROVE Cardinality(Spent(t)) <= admitted[0][t]
  BY DEF Spending
<1>1. Spent(t) = {}
  BY DEF Init, Spent, Spender, Judging
<1>2. Cardinality(Spent(t)) = 0
  BY <1>1, FS_EmptySet
<1>3. admitted[0][t] = 0
  BY QuotaAssumption DEF Init, Q!Init, Q!Zero, Q!Days
<1>. QED
  BY <1>2, <1>3

\* What reached a provider was let through, so charged before.
LEMMA SeenAdmitted ==
  ASSUME PipeInv, Spending, Q!TypeOK, NEW t \in Types, Cap[t] > 0
  PROVE  Cardinality(Seen(t)) <= admitted[0][t] /\ Cardinality(Seen(t)) \in Nat
<1>1. Cardinality(Seen(t)) <= Cardinality(Spent(t)) /\ Cardinality(Seen(t)) \in Nat
  <2>1. Seen(t) \subseteq Spent(t)
    BY DEF Seen, Spent, Spender, PipeInv, PipeTypes
  <2>. QED
    BY <2>1, SpentFinite, FS_Subset, FS_CardinalityType
<1>2. Cardinality(Spent(t)) <= admitted[0][t] /\ Cardinality(Spent(t)) \in Nat
  BY SpentFinite DEF Spending
<1>3. admitted[0][t] \in Nat
  BY TalliesTyped
<1>. QED
  BY <1>1, <1>2, <1>3

\* So the cap of the quota bounds what the providers see.
LEMMA SpendFollows == PipeInv /\ Spending /\ Q!TypeOK /\ Q!DailyCap => SpendCapped
<1> SUFFICES ASSUME PipeInv, Spending, Q!TypeOK, Q!DailyCap, NEW t \in Types, Cap[t] > 0
             PROVE  Cardinality(Seen(t)) <= Cap[t] + Q!Free(0, t)
  BY DEF SpendCapped
<1>1. Cardinality(Seen(t)) <= admitted[0][t] /\ Cardinality(Seen(t)) \in Nat
  BY SeenAdmitted
<1>3. admitted[0][t] <= Cap[t] + Q!Free(0, t)
  BY TalliesTyped DEF Q!DailyCap
<1>4. Cap[t] \in Int /\ Q!Free(0, t) \in Int /\ admitted[0][t] \in Nat
  BY QuotaAssumption, TalliesTyped DEF Q!Free
<1>. QED
  BY <1>1, <1>3, <1>4

-----------------------------------------------------------------------------
\* What the invariant says of the properties.
LEMMA TypesFollow == PipeInv /\ Q!TypeOK => TypeOK
  BY DEF PipeInv, PipeTypes, TypeOK

\* The same, of moderation and of the quota,
LEMMA VerdictsFollow == PipeInv /\ Spending /\ Q!TypeOK => VerdictsStand
<1> SUFFICES ASSUME PipeInv, Spending, Q!TypeOK PROVE VerdictsStand
  OBVIOUS
<1>1. ASSUME NEW r \in contacted
      PROVE  /\ r \in banned => Checker = "permissive"
             /\ charging[r].pc = "idle" /\ answer[r] \notin {"quota", "refused"}
  <2>1. r \in Requests
    BY DEF PipeInv, PipeTypes
  <2>2. charging[r].pc # "check"
    BY <2>1 DEF PipeInv, InOrder, Charging, Placed, Early
  <2>. QED
    BY <2>1, <2>2, ChargingTyped DEF PipeInv, InOrder, Judged
<1>2. RefusalsFlagged
  BY DEF PipeInv, InOrder, Flagged, RefusalsFlagged
<1>3. NothingUnpaidLeaves
  BY <1>1, SeenAdmitted DEF NothingUnpaidLeaves
<1>. QED
  BY <1>1, <1>2, <1>3 DEF VerdictsStand, NothingUncheckedLeaves

\* of what is stored,
LEMMA StoredFollows == PipeInv => AnswersAreBacked /\ NoOrphans
<1> SUFFICES ASSUME PipeInv PROVE AnswersAreBacked /\ NoOrphans
  OBVIOUS
<1>0. ASSUME NEW r \in Requests
      PROVE  /\ step[r] \in Steps /\ Placed(r) /\ Stored(r)
             /\ answer[r] = "ok" \/ records[r] # 0 => step[r] = "end"
  BY DEF PipeInv, PipeTypes, InOrder, Placed
<1>1. AnsweredIsDownloadable
  BY <1>0 DEF AnsweredIsDownloadable, Downloadable, Stored
<1>2. RecordsAreBacked
  BY <1>0 DEF RecordsAreBacked, Downloadable, Stored
<1>3. ASSUME NEW r \in Requests \ spoiled
      PROVE  /\ r \in blobs => r \in rows \/ step[r] \in {"create", "cleanup"}
             /\ r \in rows => r \in blobs
  BY <1>0 DEF Steps, Early, Placed, Stored
<1>. QED
  BY <1>1, <1>2, <1>3 DEF AnswersAreBacked, NoOrphans

\* and of the chain.
LEMMA FailoverFollows == PipeInv => FailoverIsComplete
<1> SUFFICES ASSUME PipeInv, NEW r \in Requests \ left,
                    answer[r] \in {"timeout", "malformed"}, NEW i \in 1..Len(Chain)
             PROVE  i <= tried[r] /\ Chain[i] # "stub"
  BY DEF FailoverIsComplete
<1>1. tried[r] = Len(Chain) /\ \A j \in 1..Len(Chain) : Chain[j] # "stub"
  BY DEF PipeInv, InOrder, Failing
<1>. QED
  BY <1>1, ChainLength

\* Every variable keeps its type, those of the quota included.
THEOREM TypeCorrect == Spec => []TypeOK
  BY PipelineInOrder, QuotaHolds, TypesFollow, PTL

\* Nothing that moderation refused reaches a provider, nothing of a capped type
\* that the quota has not charged and let through, and a refusal is flagged.
THEOREM NothingUnchecked == Spec => []VerdictsStand
  BY PipelineInOrder, QuotaHolds, SpendInit, SpendStep, VerdictsFollow, PTL DEF Spec

\* The providers see no more of a capped type than its cap and the one free call.
THEOREM SpendIsCapped == Spec => []SpendCapped
  BY PipelineInOrder, QuotaHolds, SpendInit, SpendStep, SpendFollows, PTL DEF Spec

\* What a client was told of, or a record names, can be downloaded.
THEOREM AnswersBacked == Spec => []AnswersAreBacked
  BY PipelineInOrder, StoredFollows, PTL

\* No bytes without a row and no row without bytes.
THEOREM NothingOrphaned == Spec => []NoOrphans
  BY PipelineInOrder, StoredFollows, PTL

\* A provider's failure is told only after all of them failed, and never with
\* the stub in the chain.
THEOREM FailoverComplete == Spec => []FailoverIsComplete
  BY PipelineInOrder, FailoverFollows, PTL
=============================================================================
