---------------------------- MODULE AdminReview ----------------------------
(***************************************************************************)
(* The admin surface: review of moderation flags, daily caps of a user, the *)
(* audit row each of them writes, and the usage summary.  A use case reads *)
(* a row in one statement and changes it in a transaction of its own, with *)
(* the audit row; a commit may fail, or succeed and its answer be lost.    *)
(*                                                                         *)
(* An audit row holds the admin, the action and the target of the request  *)
(* that wrote it, and is named by that request.  It does not hold the caps  *)
(* that were set, and its time was taken before the transaction began: the *)
(* rows are in no order that the commits were in.                          *)
(***************************************************************************)
EXTENDS Naturals, Sequences, FiniteSets

CONSTANTS Tasks,     \* admin requests
          Admins,
          AdminOf,   \* by request, who makes it
          Flags,
          Owners,    \* users whose caps are set
          Bodies,    \* request bodies: a value, null or a negative one for each cap
          NoCap,     \* an override that is null
          Negative,  \* a cap below zero
          Nobody,
          MaxRecords \* bound on the generation records of a type

\* A target reference names its kind, so that flags and users do not meet.
ASSUME AdminAssumption ==
  /\ Nobody \notin Admins /\ AdminOf \in [Tasks -> Admins]
  /\ Flags \cap Owners = {} /\ IsFiniteSet(Flags) /\ IsFiniteSet(Owners)
  /\ MaxRecords \in Nat
  /\ \A b \in Bodies : b = [text |-> b.text, image |-> b.image]

VARIABLES
  raised,   \* flags that exist
  reviewer, \* by flag, reviewed_by_admin_id
  caps,     \* by user, the two overrides
  removed,  \* users soft-deleted
  audits,   \* admin_audit_logs: the requests that have a row
  task,     \* the step and the arguments of each request
  records,  \* by type, the generation records
  counts    \* what UsageSummary has counted so far

rows      == <<raised, reviewer, caps, removed, records>>
adminVars == <<rows, audits, task, counts>>

NoCaps  == [text |-> NoCap, image |-> NoCap]
Kinds   == {"text", "image", "video"}
NewTask == [pc |-> "new"]
Begun   == [pc: {"write", "done"}, kind: {"review", "caps"}, target: Flags \cup Owners,
            body: Bodies \cup {NoCaps},
            answer: {"none", "ok", "invalid", "not_found", "conflict", "internal"}]

AdminTypeOK ==
  /\ raised \subseteq Flags /\ removed \subseteq Owners
  /\ reviewer \in [Flags -> Admins \cup {Nobody}]
  /\ caps \in [Owners -> {b \in Bodies : Negative \notin {b.text, b.image}} \cup {NoCaps}]
  /\ audits \subseteq Tasks
  /\ task \in [Tasks -> {NewTask} \cup Begun]
  /\ records \in [Kinds -> 0..MaxRecords]
  /\ counts \in Seq(Nat)

AdminInit ==
  /\ raised = {} /\ removed = {}
  /\ reviewer = [f \in Flags |-> Nobody]
  /\ caps = [u \in Owners |-> NoCaps]
  /\ audits = {}
  /\ task = [t \in Tasks |-> NewTask]
  /\ records = [type \in Kinds |-> 0]
  /\ counts = <<>>

-----------------------------------------------------------------------------
(* Other features: moderation refuses, providers answer, a user leaves. *)

RaiseFlag(f) ==
  /\ raised' = raised \cup {f}
  /\ UNCHANGED <<reviewer, caps, removed, records, audits, task, counts>>

AddRecord(type) ==
  /\ records[type] < MaxRecords
  /\ records' = [records EXCEPT ![type] = @ + 1]
  /\ UNCHANGED <<raised, reviewer, caps, removed, audits, task, counts>>

RemoveOwner(u) ==
  /\ removed' = removed \cup {u}
  /\ UNCHANGED <<raised, reviewer, caps, records, audits, task, counts>>

-----------------------------------------------------------------------------
(* A use case up to its read: it is answered, or goes on to write. *)

Reads(t, kind, target, body, outcomes) ==
  /\ task[t] = NewTask
  /\ \E answer \in outcomes :
       task' = [task EXCEPT ![t] =
                  [pc |-> IF answer = "none" THEN "write" ELSE "done", kind |-> kind,
                   target |-> target, body |-> body, answer |-> answer]]
  /\ UNCHANGED <<rows, audits, counts>>

FindFlag(t, f) ==
  Reads(t, "review", f, NoCaps,
        {"internal", IF f \notin raised THEN "not_found"
                     ELSE IF reviewer[f] # Nobody THEN "conflict" ELSE "none"})

\* A negative cap is refused before the user is looked up.
FindOwner(t, u, body) ==
  Reads(t, "caps", u, body,
        IF Negative \in {body.text, body.image} THEN {"invalid"}
        ELSE {"internal", IF u \in removed THEN "not_found" ELSE "none"})

-----------------------------------------------------------------------------
(* The transaction. *)

Writes(t, kind) == task[t].pc = "write" /\ task[t].kind = kind
Answer(t, answer) == task' = [task EXCEPT ![t].pc = "done", ![t].answer = answer]

\* Mutation: an audit row that cannot be inserted does not undo the change.
CommittedUnlogged(t) ==
  /\ audits' \in {audits, audits \cup {t}}
  /\ \E answer \in {"ok", "internal"} : Answer(t, answer)

\* With the change, or not at all; the answer of the commit may be lost.
Committed(t) ==
  /\ audits' = audits \cup {t}
  /\ \E answer \in {"ok", "internal"} : Answer(t, answer)

\* The condition of the update is looked at when the row is locked.
ClaimFlag(t) ==
  LET f == task[t].target IN
  /\ Writes(t, "review")
  /\ IF reviewer[f] = Nobody
     THEN reviewer' = [reviewer EXCEPT ![f] = AdminOf[t]] /\ Committed(t)
     ELSE Answer(t, "conflict") /\ UNCHANGED <<reviewer, audits>>
  /\ UNCHANGED <<raised, caps, removed, records, counts>>

\* Mutation: a null override is skipped, as Updates does for a struct.
WriteCapsSkipsNull(t) ==
  LET u == task[t].target IN
  /\ Writes(t, "caps")
  /\ IF u \notin removed
     THEN /\ caps' = [caps EXCEPT ![u] =
                        [c \in {"text", "image"} |->
                           IF task[t].body[c] = NoCap THEN @[c] ELSE task[t].body[c]]]
          /\ Committed(t)
     ELSE Answer(t, "not_found") /\ UNCHANGED <<caps, audits>>
  /\ UNCHANGED <<raised, reviewer, removed, records, counts>>

\* Both overrides, null or not; a user removed since the read is not found.
WriteCaps(t) ==
  LET u == task[t].target IN
  /\ Writes(t, "caps")
  /\ IF u \notin removed
     THEN caps' = [caps EXCEPT ![u] = task[t].body] /\ Committed(t)
     ELSE Answer(t, "not_found") /\ UNCHANGED <<caps, audits>>
  /\ UNCHANGED <<raised, reviewer, removed, records, counts>>

\* The transaction is rolled back.
WriteFails(t) ==
  /\ task[t].pc = "write"
  /\ Answer(t, "internal")
  /\ UNCHANGED <<rows, audits, counts>>

-----------------------------------------------------------------------------
(* UsageSummary: one COUNT after another, not in a transaction. *)

Total == records["text"] + records["image"] + records["video"]

Counts ==
  <<Cardinality(Owners \ removed), Total, records["text"], records["image"],
    records["video"], Cardinality(raised), Cardinality({f \in raised : reviewer[f] = Nobody})>>

CountNext ==
  /\ Len(counts) < 7
  /\ counts' = Append(counts, Counts[Len(counts) + 1])
  /\ UNCHANGED <<rows, audits, task>>

-----------------------------------------------------------------------------
TaskStep(t) ==
  \/ \E f \in Flags : FindFlag(t, f)
  \/ \E u \in Owners, body \in Bodies : FindOwner(t, u, body)
  \/ ClaimFlag(t)
  \/ WriteCaps(t)
  \/ WriteFails(t)

AdminNext ==
  \/ \E t \in Tasks : TaskStep(t)
  \/ \E f \in Flags : RaiseFlag(f)
  \/ \E u \in Owners : RemoveOwner(u)
  \/ \E type \in Kinds : AddRecord(type)
  \/ CountNext

AdminSpec == AdminInit /\ [][AdminNext]_adminVars

-----------------------------------------------------------------------------
\* What the tables say of a flag or a user is vouched for by the audit log: a
\* reviewed flag has one row, by the admin it names, one that is not reviewed
\* has none, and the overrides of a user were sent, both of them, by one of the
\* requests with a row about him; without a row they are null.
About(t, target) == task[t].target = target

StateIsAudited ==
  /\ \A f \in Flags :
       IF reviewer[f] = Nobody THEN \A t \in audits : ~About(t, f)
       ELSE \E t \in audits :
              AdminOf[t] = reviewer[f] /\ \A s \in audits : About(s, f) <=> s = t
  /\ \A u \in Owners :
       \/ caps[u] = NoCaps /\ \A t \in audits : ~About(t, u)
       \/ \E t \in audits : About(t, u) /\ caps[u] = task[t].body

\* Generations that are recorded while the summary is counted never make its
\* total exceed what it says of the types.
SummaryCovers ==
  Len(counts) >= 5 => counts[2] <= counts[3] + counts[4] + counts[5]

\* The admin is told what the log says: success if and only if his change is in
\* it, except that a 500 may hide a commit, and a 409 only for a flag that
\* another request has reviewed; and a summary never misses a type.
AdminsToldTruth ==
  /\ \A t \in Tasks : task[t].pc = "done" =>
       /\ task[t].answer = "ok" => t \in audits
       /\ task[t].answer \notin {"ok", "internal"} => t \notin audits
       /\ task[t].answer = "conflict" => reviewer[task[t].target] # Nobody
  /\ SummaryCovers

\* Who adjudicated a flag first is never erased.
ReviewStands ==
  [][\A f \in Flags : reviewer[f] # Nobody => reviewer'[f] = reviewer[f]]_adminVars
=============================================================================
