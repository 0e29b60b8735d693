----------------------------- MODULE Generation -----------------------------
(***************************************************************************)
(* The studio: text, image and video requests of one user, and uploads,    *)
(* from the handler to the asset a client can download.  A generation is   *)
(* charged (Quota), moderated, sent down a chain of providers, its bytes   *)
(* and its row are stored and a record is written.                         *)
(*                                                                         *)
(* A request stands for what it makes: its flag, its asset, its record.    *)
(* The bytes live in a BlobStore, the rows in Postgres, which refuses a    *)
(* statement whose context is done: when its client has left.              *)
(***************************************************************************)
EXTENDS Integers, Sequences, FiniteSets

CONSTANTS Requests, None,
          Types,       \* models.GenerationType: text, image, video
          Cap, CountsFirst, MaxDay, MaxCalls, \* of Quota
          Chain,       \* the providers, in order: "gemini" or "stub"
          Checker,     \* "openai", "stub" or "permissive"
          Asks         \* by request, what it may ask for

ASSUME ChainAssumption == Chain \in Seq({"gemini", "stub"}) /\ Chain # <<>>
ASSUME CheckerAssumption == Checker \in {"openai", "stub", "permissive"}
ASSUME KindsAssumption == /\ Types = {"text", "image", "video"}
                          /\ Asks \in [Requests -> SUBSET (Types \cup {"upload"})]

ASSUME QuotaAssumption ==
  /\ IsFiniteSet(Requests) /\ None \notin Types /\ Cap \in [Types -> Int]
  /\ CountsFirst \in BOOLEAN /\ MaxDay \in Nat /\ MaxCalls \in Nat

VARIABLES
  day, opener, count, charging, admitted, crossed, refused, lost, \* Quota
  step,      \* where the handler, and for a video then the worker, is
  kind,      \* what is asked for
  banned,    \* requests whose input moderation would refuse
  left,      \* requests whose client has gone
  tried,     \* providers tried so far
  answer,    \* what the client was told
  contacted, \* history: requests whose input was sent to a provider
  flags,     \* moderation_flags
  blobs,     \* requests whose bytes are in the store
  rows,      \* assets
  records,   \* generation_records, with the provider that succeeded
  spoiled    \* history: requests that died, or had a write fail or go unanswered

counters == <<day, opener, count, charging, admitted, crossed, refused, lost>>
rest     == <<contacted, flags, blobs, rows, records, spoiled>>
vars     == <<counters, step, kind, banned, left, tried, answer, rest>>

Q == INSTANCE Quota WITH req <- charging

Steps   == {"idle", "harden", "enforce", "moderate", "flag", "enqueue", "provide",
            "put", "create", "cleanup", "record", "end"}
Answers == {"none", "ok", "accepted", "invalid", "quota", "refused", "timeout",
            "malformed", "internal", "dropped"}
Kinds   == Types \cup {"upload"}
Assets  == {"image", "video", "upload"}

TypeOK ==
  /\ Q!TypeOK
  /\ step \in [Requests -> Steps]
  /\ kind \in [Requests -> Kinds \cup {None}]
  /\ banned \in SUBSET Requests /\ left \in SUBSET Requests
  /\ tried \in [Requests -> 0..Len(Chain)]
  /\ answer \in [Requests -> Answers]
  /\ contacted \in SUBSET Requests /\ flags \in SUBSET Requests
  /\ blobs \in SUBSET Requests /\ rows \in SUBSET Requests
  /\ records \in [Requests -> 0..Len(Chain)]
  /\ spoiled \in SUBSET Requests

Init ==
  /\ Q!Init
  /\ step = [r \in Requests |-> "idle"]
  /\ kind = [r \in Requests |-> None]
  /\ banned = {} /\ left = {}
  /\ tried = [r \in Requests |-> 0]
  /\ answer = [r \in Requests |-> "none"]
  /\ contacted = {} /\ flags = {} /\ blobs = {} /\ rows = {}
  /\ records = [r \in Requests |-> 0]
  /\ spoiled = {}

-----------------------------------------------------------------------------
Goes(r, from, to) == step[r] = from /\ step' = [step EXCEPT ![r] = to]

\* The handler returns; a video's worker has nobody to answer.
Ends(r, a) ==
  /\ step' = [step EXCEPT ![r] = "end"]
  /\ answer' = IF answer[r] = "none" THEN [answer EXCEPT ![r] = a] ELSE answer

Asked(r, k, next) ==
  /\ step[r] = "idle" /\ k \in Asks[r]
  /\ kind' = [kind EXCEPT ![r] = k]
  /\ \/ Ends(r, "invalid") /\ UNCHANGED banned
     \/ Goes(r, "idle", next) /\ UNCHANGED answer /\ banned' \in {banned, banned \cup {r}}
  /\ UNCHANGED <<counters, left, tried, rest>>

\* BindJSON, the guard of the aspect ratio and the caller.
Bind(r) == \E k \in Types : Asked(r, k, "enforce")

\* MaxBytesReader, FormFile, the declared size and the body of an upload.
Receive(r) == Asked(r, "upload", "harden")

ClientLeaves(r) ==
  /\ step[r] \notin {"idle", "end"} /\ answer[r] = "none" /\ r \notin left
  /\ left' = left \cup {r}
  /\ UNCHANGED <<counters, step, kind, banned, tried, answer, rest>>

\* Size, magic bytes, header, dimensions, decoding and re-encoding: the client's
\* fault, or the encoder's.
Harden(r) ==
  /\ \/ Goes(r, "harden", "put") /\ UNCHANGED answer
     \/ step[r] = "harden" /\ \E a \in {"invalid", "internal"} : Ends(r, a)
  /\ UNCHANGED <<counters, kind, banned, left, tried, rest>>

-----------------------------------------------------------------------------
(* Quota and moderation. *)

\* The charge of a type with a cap.
Charge(r) ==
  /\ step[r] = "enforce" /\ r \notin left
  /\ Q!UpsertAndCheck(r, kind[r])
  /\ UNCHANGED <<step, kind, banned, left, tried, answer, rest>>

\* Mutation: what Enforce returns is not looked at.
EnforceIgnored(r) ==
  /\ \/ Cap[kind[r]] <= 0 /\ UNCHANGED counters
     \/ Q!Check(r)
     \/ Q!Abort(r)
  /\ Goes(r, "enforce", "moderate") /\ UNCHANGED answer
  /\ UNCHANGED <<kind, banned, left, tried, rest>>

\* Mutation: the quota is not asked.
EnforceSkipped(r) ==
  /\ Goes(r, "enforce", "moderate")
  /\ UNCHANGED <<counters, answer, kind, banned, left, tried, rest>>

\* Mutation: a call that failed gives its charge back.
EnforceRefunds(r) ==
  /\ step[r] = "enforce" /\ charging[r].pc = "check"
  /\ count' = [count EXCEPT ![day][kind[r]] = @ - 1]
  /\ charging' = [charging EXCEPT ![r] = [pc |-> "idle", type |-> None, day |-> 0]]
  /\ Ends(r, "internal")
  /\ UNCHANGED <<day, opener, admitted, crossed, refused, lost, kind, banned, left, tried, rest>>

\* The rest of Enforce: let through, over the cap, or a statement failed.
Enforce(r) ==
  /\ step[r] = "enforce"
  /\ \/ /\ Cap[kind[r]] <= 0 /\ UNCHANGED counters
        /\ Goes(r, "enforce", "moderate") /\ UNCHANGED answer
     \/ /\ Q!Check(r) /\ r \notin left
        /\ IF refused' = refused
             THEN Goes(r, "enforce", "moderate") /\ UNCHANGED answer
             ELSE Ends(r, "quota")
     \/ /\ IF charging[r].pc = "check" THEN Q!Abort(r) ELSE Cap[kind[r]] > 0 /\ UNCHANGED counters
        /\ Ends(r, "internal")
  /\ UNCHANGED <<kind, banned, left, tried, rest>>

\* CheckText: anything but a well-formed answer that flags nothing refuses.
Verdicts(r) ==
  CASE Checker = "permissive" -> {"allow"}
    [] Checker = "stub" -> {"refuse"}
    [] OTHER -> {IF r \in banned \cup left THEN "refuse" ELSE "allow", "refuse"}

Moderate(r) ==
  /\ step[r] = "moderate"
  /\ \/ "allow" \in Verdicts(r)
        /\ Goes(r, "moderate", IF kind[r] = "video" THEN "enqueue" ELSE "provide")
     \/ "refuse" \in Verdicts(r) /\ Goes(r, "moderate", "flag")
  /\ UNCHANGED <<counters, kind, banned, left, tried, answer, rest>>

\* CreateModerationFlag; its error is logged.
Flag(r) ==
  /\ step[r] = "flag"
  /\ \/ r \notin left /\ flags' = flags \cup {r} /\ UNCHANGED spoiled
     \/ spoiled' = spoiled \cup {r} /\ UNCHANGED flags
  /\ Ends(r, "refused")
  /\ UNCHANGED <<counters, kind, banned, left, tried, contacted, blobs, rows, records>>

\* A video's handler answers 202; the worker goes on under its own context
\* (VideoJobs has the queue between them).
Enqueue(r) ==
  /\ \/ /\ Goes(r, "enqueue", "provide")
        /\ answer' = [answer EXCEPT ![r] = "accepted"]
        /\ left' = left \ {r}
     \/ step[r] = "enqueue" /\ Ends(r, "internal") /\ UNCHANGED left
  /\ UNCHANGED <<counters, kind, banned, tried, rest>>

-----------------------------------------------------------------------------
(* The chain of providers. *)

\* What an API may send back.
Reply == {"nothing", "status", "garbled", "error", "empty", "broken", "good"}

Parsed(x) ==
  CASE x = "good" -> "good"
    [] x \in {"empty", "broken"} -> "ErrMalformedOutput"
    [] OTHER -> "PlainError"

\* One call for a caption, and one for a video.
GeminiText  == {Parsed(x) : x \in Reply}
GeminiVideo == {Parsed(x) : x \in Reply}

\* The interactions API, then generateContent, whose answer decides.
GeminiImage == {IF Parsed(x) = "good" THEN "good" ELSE Parsed(y) : x \in Reply, y \in Reply}

\* The answer to the client: what is not malformed timed out.
Classify(o) == IF o = "ErrMalformedOutput" THEN "malformed" ELSE "timeout"

\* An adapter looks at its context before it does anything; the stub needs
\* nothing else.
Outcomes(r, gemini) ==
  IF r \in left THEN {"ContextCanceled"}
  ELSE IF Chain[tried[r] + 1] = "stub" THEN {"good"} ELSE gemini

\* Mutation: the chain gives up at output it cannot parse.
LastMalformed(r, o) == tried[r] + 1 = Len(Chain) \/ o = "ErrMalformedOutput"

\* Failover goes on until the last provider has failed.
Last(r, o) == tried[r] + 1 = Len(Chain)

\* One turn of the loop over the providers of a chain.
Attempt(r, gemini) ==
  /\ step[r] = "provide"
  /\ tried' = [tried EXCEPT ![r] = @ + 1]
  /\ contacted' = IF r \in left THEN contacted ELSE contacted \cup {r}
  /\ \E o \in Outcomes(r, gemini) :
       \/ /\ o = "good"
          /\ Goes(r, "provide", IF kind[r] = "text" THEN "record" ELSE "put")
          /\ UNCHANGED answer
       \/ o # "good" /\ ~Last(r, o) /\ UNCHANGED <<step, answer>>
       \/ o # "good" /\ Last(r, o) /\ Ends(r, Classify(o))
  /\ UNCHANGED <<counters, kind, banned, left, flags, blobs, rows, records, spoiled>>

TextChain(r)  == kind[r] = "text" /\ Attempt(r, GeminiText)
ImageChain(r) == kind[r] = "image" /\ Attempt(r, GeminiImage)
VideoChain(r) == kind[r] = "video" /\ Attempt(r, GeminiVideo)

-----------------------------------------------------------------------------
(* Bytes, row and record. *)

Put(r) ==
  /\ \/ Goes(r, "put", "create") /\ blobs' = blobs \cup {r} /\ UNCHANGED answer
     \/ step[r] = "put" /\ Ends(r, "internal") /\ UNCHANGED blobs
  /\ UNCHANGED <<counters, kind, banned, left, tried, contacted, flags, rows, records, spoiled>>

\* Mutation: the error of the insert is logged and the asset answered.
CreateAssetUnchecked(r) ==
  /\ \/ r \notin left /\ rows' = rows \cup {r}
     \/ UNCHANGED rows
  /\ IF kind[r] = "upload" THEN step[r] = "create" /\ Ends(r, "ok")
                           ELSE Goes(r, "create", "record") /\ UNCHANGED answer
  /\ UNCHANGED <<counters, kind, banned, left, tried, contacted, flags, blobs, records, spoiled>>

\* The row, stored or not; and stored with the answer lost on its way back.
CreateAsset(r) ==
  /\ \/ /\ r \notin left
        /\ rows' = rows \cup {r}
        /\ IF kind[r] = "upload" THEN step[r] = "create" /\ Ends(r, "ok")
                                 ELSE Goes(r, "create", "record") /\ UNCHANGED answer
        /\ UNCHANGED spoiled
     \/ /\ Goes(r, "create", "cleanup") /\ UNCHANGED answer
        /\ \/ UNCHANGED <<rows, spoiled>>
           \/ rows' = rows \cup {r} /\ spoiled' = spoiled \cup {r}
  /\ UNCHANGED <<counters, kind, banned, left, tried, contacted, flags, blobs, records>>

\* Mutation: the bytes of a failed insert are left where they are.
CleanupSkipped(r) ==
  /\ step[r] = "cleanup"
  /\ UNCHANGED <<blobs, spoiled>>
  /\ Ends(r, "internal")
  /\ UNCHANGED <<counters, kind, banned, left, tried, contacted, flags, rows, records>>

\* Store.Delete, best effort: it may fail itself.
Cleanup(r) ==
  /\ step[r] = "cleanup"
  /\ \/ blobs' = blobs \ {r} /\ UNCHANGED spoiled
     \/ spoiled' = spoiled \cup {r} /\ UNCHANGED blobs
  /\ Ends(r, "internal")
  /\ UNCHANGED <<counters, kind, banned, left, tried, contacted, flags, rows, records>>

\* CreateGenerationRecord; its error is logged.
Record(r) ==
  /\ step[r] = "record"
  /\ \/ r \notin left /\ records' = [records EXCEPT ![r] = tried[r]] /\ UNCHANGED spoiled
     \/ spoiled' = spoiled \cup {r} /\ UNCHANGED records
  /\ Ends(r, "ok")
  /\ UNCHANGED <<counters, kind, banned, left, tried, contacted, flags, blobs, rows>>

\* The process dies under the request, or its goroutine panics: a charge that
\* was not decided upon stays.
Dies(r) ==
  /\ step[r] \notin {"idle", "end"}
  /\ Ends(r, "dropped")
  /\ spoiled' = spoiled \cup {r}
  /\ IF charging[r].pc = "check" THEN Q!Abort(r) ELSE UNCHANGED counters
  /\ UNCHANGED <<kind, banned, left, tried, contacted, flags, blobs, rows, records>>

-----------------------------------------------------------------------------
Checked(r) == Charge(r) \/ Enforce(r) \/ Moderate(r) \/ Flag(r)

\* persistAsset.
Persist(r) == Put(r) \/ CreateAsset(r) \/ Cleanup(r)

GenerateText(r)  == kind[r] = "text" /\ (Checked(r) \/ TextChain(r) \/ Record(r))
GenerateImage(r) == kind[r] = "image" /\ (Checked(r) \/ ImageChain(r) \/ Persist(r) \/ Record(r))
GenerateVideo(r) == kind[r] = "video" /\ (Checked(r) \/ Enqueue(r))
ProcessVideo(r)  == kind[r] = "video" /\ (VideoChain(r) \/ Persist(r) \/ Record(r))
Upload(r)        == kind[r] = "upload" /\ (Harden(r) \/ Persist(r))

Next ==
  \E r \in Requests :
    \/ Bind(r) \/ Receive(r) \/ ClientLeaves(r) \/ Dies(r)
    \/ GenerateText(r) \/ GenerateImage(r) \/ GenerateVideo(r) \/ ProcessVideo(r)
    \/ Upload(r)

Spec == Init /\ [][Next]_vars

-----------------------------------------------------------------------------
\* GET /assets/{id} by its owner: the row, then the bytes.
Downloadable(r) == r \in rows /\ r \in blobs

Seen(t) == {r \in contacted : kind[r] = t}

\* "Run the moderation check ... BEFORE any outbound provider call": no input
\* that moderation refuses or could not judge reaches a provider, unless the
\* checker in use is the permissive one.
NothingUncheckedLeaves ==
  \A r \in contacted :
    /\ r \in banned => Checker = "permissive"
    /\ answer[r] \notin {"quota", "refused"}

\* "... and enforce quota": the inputs of a capped type that reached a provider
\* are no more than the calls of that type that the quota has charged and, on
\* reading the counters back, let through; none is on its way past it.
NothingUnpaidLeaves ==
  /\ \A r \in contacted : charging[r].pc = "idle"
  /\ \A t \in Types : Cap[t] > 0 => Cardinality(Seen(t)) <= admitted[0][t]

\* A refusal is there for an admin to review, unless writing it failed.
RefusalsFlagged ==
  \A r \in Requests \ spoiled : answer[r] = "refused" <=> r \in flags

VerdictsStand == NothingUncheckedLeaves /\ NothingUnpaidLeaves /\ RefusalsFlagged

\* However requests overlap, the providers see no more inputs of a capped type
\* in a day than its cap, and one for the row a Postgres call creates.
SpendCapped ==
  \A t \in Types : Cap[t] > 0 =>
    Cardinality(Seen(t)) <= Cap[t] + Q!Free(0, t)

\* An asset the client was told about is downloadable from then on, whoever
\* left, failed or died meanwhile.
AnsweredIsDownloadable ==
  \A r \in Requests : answer[r] = "ok" /\ kind[r] \in Assets => Downloadable(r)

\* A record says which provider made what: its asset is there.
RecordsAreBacked ==
  \A r \in Requests :
    records[r] # 0 => /\ kind[r] \in Assets => Downloadable(r)
                      /\ r \in contacted /\ answer[r] \in {"none", "ok", "accepted"}

AnswersAreBacked == AnsweredIsDownloadable /\ RecordsAreBacked

\* Bytes have a row or a request that is about to write one, and a row has
\* bytes, unless a clean-up failed, an insert went unanswered or the request
\* died.
NoOrphans ==
  \A r \in Requests \ spoiled :
    /\ r \in blobs => r \in rows \/ step[r] \in {"create", "cleanup"}
    /\ r \in rows => r \in blobs

\* Failover: a client that waits is told of a provider's failure only after
\* every provider of the chain had its turn, so never by a chain with the stub.
FailoverIsComplete ==
  \A r \in Requests \ left :
    answer[r] \in {"timeout", "malformed"} =>
      \A i \in 1..Len(Chain) : i <= tried[r] /\ Chain[i] # "stub"

\* The pipeline uses the quota as Quota specifies it.
UsesQuota == Q!Spec
=============================================================================
