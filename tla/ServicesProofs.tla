--------------------------- MODULE ServicesProofs ---------------------------
(***************************************************************************)
(* Proofs about the services of the backend that keep their own rows,      *)
(* files or configuration: the file store, moderation, verification, brand *)
(* kits, reminders, the rate limiters and the start. Each section states   *)
(* the invariant of one module, proves it step by step, and reads the      *)
(* properties off it. The last one puts them together as the run Backend   *)
(* does.                                                                   *)
(***************************************************************************)
EXTENDS MCBackend, QuotaProofs, FiniteSetTheorems, SequenceTheorems, TLAPS
LOCAL INSTANCE SequencesExt

-----------------------------------------------------------------------------
(***************************************************************************)
(* FileStore: the file store implements the atomic blob store for any      *)
(* number of goroutines, keys and contents, and no file is ever torn.  The *)
(* invariant follows a Put from step to step: what its temporary file      *)
(* holds, and that it holds it on the disk.                                *)
(***************************************************************************)

Calls == [pc: Steps, kind: {"Put", "Get", "Delete"}, key: Keys, data: Content]

\* A Put has the bytes it was called with, and its temporary file has them
\* once they are written; the other calls bring none.
ArgumentsKept ==
  \A c \in Callers :
    /\ call[c].data # Torn
    /\ call[c].pc \in {"write", "sync", "close", "rename", "cleanup"} => call[c].kind = "Put"
    /\ call[c].kind = "Put" => call[c].data \in Data \/ call[c].pc \in {"idle", "done"}
    /\ call[c].pc = "start" /\ call[c].kind # "Put" => call[c].data = NoBlob
    /\ call[c].pc \in {"sync", "close", "rename"} => temp[c] = call[c].data

\* A file takes its name only after it was synced.
SyncedFirst ==
  /\ volatile = {}
  /\ \A c \in Callers : call[c].pc \in {"close", "rename"} => c \notin unsynced

FileInv == FileTypeOK /\ NeverCorrupt /\ ArgumentsKept /\ SyncedFirst

-----------------------------------------------------------------------------
\* The initial states satisfy the invariant.
LEMMA FileInitInv == FileInit => FileInv
  BY ContentAssumption DEF FileInit, FileInv, FileTypeOK, NeverCorrupt, ArgumentsKept,
     SyncedFirst, Content, Steps

\* Every step keeps the invariant.
LEMMA FileStepInv == FileInv /\ [FileNext]_fsVars => FileInv'
<1> SUFFICES ASSUME FileInv, [FileNext]_fsVars
             PROVE  FileInv'
  OBVIOUS
<1> USE ContentAssumption DEF FileInv, FileTypeOK, NeverCorrupt, ArgumentsKept, SyncedFirst,
                              Content, Steps, Step, files
<1>1. ASSUME NEW c \in Callers, Invoke(c) PROVE FileInv'
  BY <1>1 DEF Invoke
<1>2. ASSUME NEW c \in Callers, CreateTemp(c) PROVE FileInv'
  BY <1>2 DEF CreateTemp
<1>3. ASSUME NEW c \in Callers, Write(c) PROVE FileInv'
  BY <1>3 DEF Write
<1>4. ASSUME NEW c \in Callers, Sync(c) PROVE FileInv'
  BY <1>4 DEF Sync
<1>5. ASSUME NEW c \in Callers, Close(c) PROVE FileInv'
  BY <1>5 DEF Close
<1>6. ASSUME NEW c \in Callers, Rename(c) PROVE FileInv'
  BY <1>6 DEF Rename
<1>7. ASSUME NEW c \in Callers, Get(c) PROVE FileInv'
  <2>1. entry[call[c].key] \in Content /\ entry[call[c].key] # Torn
    OBVIOUS
  <2>2. /\ call' \in [Callers -> Calls]
        /\ call'[c] = [pc |-> "done", kind |-> "Get", key |-> call[c].key,
                       data |-> entry[call[c].key]]
        /\ \A d \in Callers \ {c} : call'[d] = call[d]
    BY ZenonT(40), <1>7, <2>1 DEF Get, Calls
  <2>. QED
    BY <1>7, <2>1, <2>2 DEF Get, Calls
<1>8. ASSUME NEW c \in Callers, Delete(c) PROVE FileInv'
  BY <1>8 DEF Delete
<1>9. ASSUME NEW c \in Callers, Return(c) PROVE FileInv'
  BY <1>9 DEF Return
<1>10. ASSUME NEW c \in Callers, Fail(c) PROVE FileInv'
  BY <1>10 DEF Fail
<1>11. ASSUME NEW c \in Callers, RemoveTemp(c) PROVE FileInv'
  BY <1>11 DEF RemoveTemp
<1>12. ASSUME NEW k \in Keys, FlushEntry(k) PROVE FileInv'
  BY <1>12 DEF FlushEntry
<1>13. ASSUME Kill PROVE FileInv'
  BY <1>13 DEF Kill, Stopped
<1>14. ASSUME PowerLoss PROVE FileInv'
  BY <1>14 DEF PowerLoss, Stopped
<1>15. CASE UNCHANGED fsVars
  BY <1>15 DEF fsVars
<1>. QED
  BY <1>1, <1>2, <1>3, <1>4, <1>5, <1>6, <1>7, <1>8, <1>9, <1>10, <1>11, <1>12, <1>13, <1>14,
     <1>15 DEF FileNext, PutStep

\* Every variable keeps its type.
THEOREM FilesTyped == FileSpec => []FileTypeOK
<1>1. FileInv => FileTypeOK
  BY DEF FileInv
<1>. QED
  BY FileInitInv, FileStepInv, <1>1, PTL DEF FileSpec

\* No key ever names a file that is not there to its end, in the running system
\* or on the disk.
THEOREM NeverTorn == FileSpec => []NeverCorrupt
<1>1. FileInv => NeverCorrupt
  BY DEF FileInv
<1>. QED
  BY FileInitInv, FileStepInv, <1>1, PTL DEF FileSpec

-----------------------------------------------------------------------------
(* The refinement. *)

\* What the abstract store sees of a step.
Phase(pc) == IF pc \in {"idle", "done"} THEN pc ELSE "pending"

\* The abstract call of a goroutine, field by field.
Seen(x) == [pc |-> Phase(x.pc), kind |-> x.kind, key |-> x.key, data |-> x.data]

Ops == [c \in Callers |-> AbstractOp(c)]

\* The refinement mapping keeps the arguments and blurs the step.
LEMMA SeenCall ==
  ASSUME call \in [Callers -> Calls], NEW c \in Callers
  PROVE  AbstractOp(c) = Seen(call[c])
  BY DEF Calls, Steps, AbstractOp, Seen, Phase

\* The same in the next state.
LEMMA SeenCallNext ==
  ASSUME (call \in [Callers -> Calls])', NEW c \in Callers
  PROVE  AbstractOp(c)' = Seen(call'[c])
  BY DEF Calls, Steps, AbstractOp, Seen, Phase

\* The fields of what is seen.
LEMMA SeenFields ==
  ASSUME NEW x
  PROVE  /\ Seen(x).pc = Phase(x.pc) /\ Seen(x).kind = x.kind
         /\ Seen(x).key = x.key /\ Seen(x).data = x.data
  BY DEF Seen

\* The two fields a finished read sets.
LEMMA ReadDone ==
  ASSUME NEW result, NEW y, y = [pc |-> y.pc, kind |-> y.kind, key |-> y.key, data |-> y.data]
  PROVE  [y EXCEPT !.pc = "done", !.data = result] =
           [pc |-> "done", kind |-> y.kind, key |-> y.key, data |-> result]
<1> DEFINE z == [y EXCEPT !.pc = "done"]
<1>1. z = [pc |-> "done", kind |-> y.kind, key |-> y.key, data |-> y.data]
  OBVIOUS
<1> HIDE DEF z
<1>2. [z EXCEPT !.data = result] =
        [pc |-> "done", kind |-> y.kind, key |-> y.key, data |-> result]
  BY <1>1
<1>. QED
  BY <1>2, Zenon DEF z

\* The initial states are initial states of the abstract store.
LEMMA InitRefines == FileInit => Blobs!Init
<1> SUFFICES ASSUME FileInit PROVE Blobs!Init
  OBVIOUS
<1>1. PICK k \in Keys :
        call = [c \in Callers |-> [pc |-> "idle", kind |-> "Get", key |-> k, data |-> NoBlob]]
  BY DEF FileInit
<1>2. ASSUME NEW c \in Callers
      PROVE  AbstractOp(c) = [pc |-> "idle", kind |-> "Get", key |-> k, data |-> NoBlob]
  BY <1>1 DEF AbstractOp
<1>3. Ops = [c \in Callers |-> [pc |-> "idle", kind |-> "Get", key |-> k, data |-> NoBlob]]
  BY <1>2 DEF Ops
<1>. QED
  BY <1>3 DEF FileInit, Blobs!Init, Ops

\* A step that changes one call changes one abstract call.
LEMMA OneCall ==
  ASSUME call \in [Callers -> Calls], NEW c \in Callers, NEW x \in Calls,
         call' = [call EXCEPT ![c] = x]
  PROVE  Ops' = [Ops EXCEPT ![c] = Seen(x)]
<1>1. (call \in [Callers -> Calls])'
  OBVIOUS
<1>2. \A d \in Callers : AbstractOp(d)' = Seen(call'[d])
  BY <1>1, SeenCallNext
<1>3. \A d \in Callers : AbstractOp(d) = Seen(call[d])
  BY SeenCall
<1>4. Ops' = [d \in Callers |-> Seen(call'[d])]
  BY <1>2 DEF Ops
<1>5. Ops = [d \in Callers |-> Seen(call[d])]
  BY <1>3 DEF Ops
<1>. QED
  BY <1>4, <1>5

\* Moving a call to another step blurs to the phase of that step.
LEMMA OneStep ==
  ASSUME call \in [Callers -> Calls], NEW c \in Callers, NEW to \in Steps,
         call' = [call EXCEPT ![c].pc = to]
  PROVE  Ops' = [Ops EXCEPT ![c].pc = Phase(to)]
<1> DEFINE x == [pc |-> to, kind |-> call[c].kind, key |-> call[c].key, data |-> call[c].data]
<1>1. x \in Calls /\ [call[c] EXCEPT !.pc = to] = x
  BY DEF Calls
<1>2. call' = [call EXCEPT ![c] = x]
  BY <1>1
<1>3. Ops' = [Ops EXCEPT ![c] = Seen(x)]
  BY <1>1, <1>2, OneCall
<1>4. Ops[c] = Seen(call[c])
  BY SeenCall DEF Ops
<1>5. [Ops[c] EXCEPT !.pc = Phase(to)] = Seen(x)
  BY <1>4 DEF Seen
<1>. QED
  BY <1>3, <1>5

\* A step inside a call is not seen at all.
LEMMA HiddenStep ==
  ASSUME call \in [Callers -> Calls], NEW c \in Callers, NEW to \in Steps,
         call' = [call EXCEPT ![c].pc = to], Phase(to) = Phase(call[c].pc)
  PROVE  Ops' = Ops
<1>1. Ops' = [Ops EXCEPT ![c].pc = Phase(to)]
  BY OneStep
<1>2. Ops[c] = Seen(call[c])
  BY SeenCall DEF Ops
<1>3. [Ops[c] EXCEPT !.pc = Phase(to)] = Ops[c]
  BY <1>2 DEF Seen
<1>. QED
  BY <1>1, <1>3 DEF Ops

\* Every step is a step of the abstract store or none at all: a Put takes effect
\* when its file is renamed, and before that only a failure is seen of it.
LEMMA StepRefines == FileInv /\ [FileNext]_fsVars => [Blobs!Next]_(Blobs!vars)
<1> SUFFICES ASSUME FileInv, [FileNext]_fsVars
             PROVE  Blobs!Next \/ (entry' = entry /\ disk' = disk /\ Ops' = Ops)
  BY DEF Blobs!vars, Ops
<1> DEFINE Stutter == entry' = entry /\ disk' = disk /\ Ops' = Ops
<1>0. call \in [Callers -> Calls]
  BY DEF FileInv, FileTypeOK, Calls
<1>a. \A c \in Callers : Ops[c] = Seen(call[c])
  BY <1>0, SeenCall DEF Ops
<1>b. \A c \in Callers :
        /\ Ops[c].pc = Phase(call[c].pc) /\ Ops[c].kind = call[c].kind
        /\ Ops[c].key = call[c].key /\ Ops[c].data = call[c].data
  BY <1>a, SeenFields, Zenon
<1>h. ASSUME NEW c \in Callers, NEW from \in Steps, NEW to \in Steps, Step(c, from, to),
             Phase(from) = Phase(to), entry' = entry, disk' = disk
      PROVE  Stutter
  BY <1>0, <1>h, HiddenStep DEF Step
<1>1. ASSUME NEW c \in Callers, Invoke(c) PROVE Blobs!Invoke(c)
  <2>0. PICK kind \in {"Put", "Get", "Delete"}, k \in Keys :
          \E d \in IF kind = "Put" THEN Data ELSE {NoBlob} :
            call' = [call EXCEPT ![c] = [pc |-> "start", kind |-> kind, key |-> k, data |-> d]]
    BY <1>1 DEF Invoke
  <2>1. PICK d \in IF kind = "Put" THEN Data ELSE {NoBlob} :
          call' = [call EXCEPT ![c] = [pc |-> "start", kind |-> kind, key |-> k, data |-> d]]
    BY <2>0
  <2> DEFINE x == [pc |-> "start", kind |-> kind, key |-> k, data |-> d]
  <2>2. x \in Calls
    BY DEF Calls, Steps, Content
  <2>3. Ops' = [Ops EXCEPT ![c] = Seen(x)]
    BY <1>0, <2>1, <2>2, OneCall
  <2>4. Seen(x) = [pc |-> "pending", kind |-> kind, key |-> k, data |-> d]
    BY DEF Seen, Phase
  <2>5. Ops[c].pc = "idle"
    BY <1>1, <1>b DEF Invoke, Phase
  <2>6. Ops' = [Ops EXCEPT ![c] = [pc |-> "pending", kind |-> kind, key |-> k, data |-> d]]
    BY <2>3, <2>4
  <2>7. \E kk \in {"Put", "Get", "Delete"} : \E key \in Keys :
        \E dd \in IF kk = "Put" THEN Data ELSE {NoBlob} :
          Ops' = [Ops EXCEPT ![c] = [pc |-> "pending", kind |-> kk, key |-> key, data |-> dd]]
    BY <2>6
  <2>8. entry' = entry /\ disk' = disk
    BY <1>1 DEF Invoke, files
  <2>. QED
    BY <2>5, <2>7, <2>8, Zenon DEF Blobs!Invoke, Ops
<1>2. ASSUME NEW c \in Callers, CreateTemp(c) PROVE Stutter
  BY <1>2, <1>h DEF CreateTemp, Steps, Phase
<1>3. ASSUME NEW c \in Callers, Write(c) PROVE Stutter
  BY <1>3, <1>h DEF Write, Steps, Phase
<1>4. ASSUME NEW c \in Callers, Sync(c) PROVE Stutter
  BY <1>4, <1>h DEF Sync, Steps, Phase
<1>5. ASSUME NEW c \in Callers, Close(c) PROVE Stutter
  BY <1>5, <1>h DEF Close, files, Steps, Phase
<1>6. ASSUME NEW c \in Callers, Rename(c) PROVE Blobs!Commit(c)
  <2>1. /\ call' = [call EXCEPT ![c].pc = "done"] /\ call[c].pc = "rename"
        /\ entry' = [entry EXCEPT ![call[c].key] = temp[c]] /\ disk' = disk
    BY <1>6 DEF Rename, Step
  <2>2. call[c].kind = "Put" /\ temp[c] = call[c].data
    BY <2>1 DEF FileInv, ArgumentsKept
  <2>3. Ops' = [Ops EXCEPT ![c].pc = "done"]
    BY <1>0, <2>1, OneStep DEF Steps, Phase
  <2>4. Ops[c].pc = "pending" /\ Ops[c].kind = "Put" /\ Ops[c].key = call[c].key
        /\ Ops[c].data = temp[c]
    BY <1>b, <2>1, <2>2 DEF Phase
  <2>5. [Ops EXCEPT ![c].pc = "done"] = [Ops EXCEPT ![c].pc = "done", ![c].data = Ops[c].data]
    BY <1>a DEF Ops, Seen
  <2>. QED
    BY <2>1, <2>3, <2>4, <2>5 DEF Blobs!Commit, Ops
<1>7. ASSUME NEW c \in Callers, Get(c) PROVE Blobs!Commit(c)
  <2> DEFINE x == [pc |-> "done", kind |-> "Get", key |-> call[c].key,
                   data |-> entry[call[c].key]]
  <2>1. x \in Calls
    BY <1>0 DEF Calls, Steps, FileInv, FileTypeOK
  <2>2. call' = [call EXCEPT ![c] = x]
    <3>1. call' = [call EXCEPT ![c].pc = "done", ![c].data = entry[call[c].key]]
          /\ call[c].kind = "Get"
      BY <1>7 DEF Get
    <3>2. call[c] = [pc |-> call[c].pc, kind |-> call[c].kind, key |-> call[c].key,
                     data |-> call[c].data]
      BY <1>0 DEF Calls
    <3>3. [call[c] EXCEPT !.pc = "done", !.data = entry[call[c].key]] =
            [pc |-> "done", kind |-> call[c].kind, key |-> call[c].key,
             data |-> entry[call[c].key]]
      BY <3>2, ReadDone, Zenon
    <3>. QED
      BY <1>0, <3>1, <3>3
  <2>3. Ops' = [Ops EXCEPT ![c] = Seen(x)]
    BY <1>0, <2>1, <2>2, OneCall
  <2>4. Ops[c] = [pc |-> "pending", kind |-> "Get", key |-> call[c].key, data |-> call[c].data]
    BY <1>7, <1>a DEF Get, Seen, Phase
  <2>5. Seen(x) = x
    BY DEF Seen, Phase
  <2>a. Ops[c] = [pc |-> Ops[c].pc, kind |-> Ops[c].kind, key |-> Ops[c].key,
                  data |-> Ops[c].data]
    BY <2>4
  <2>b. [Ops[c] EXCEPT !.pc = "done", !.data = entry[call[c].key]] =
          [pc |-> "done", kind |-> Ops[c].kind, key |-> Ops[c].key, data |-> entry[call[c].key]]
    BY <2>a, ReadDone, Zenon
  <2>6. [Ops[c] EXCEPT !.pc = "done", !.data = entry[call[c].key]] = x
    BY <2>4, <2>b
  <2>7. Ops' = [Ops EXCEPT ![c].pc = "done", ![c].data = entry[call[c].key]]
    BY <2>3, <2>5, <2>6 DEF Ops
  <2>8. entry' = entry /\ disk' = disk
    BY <1>7 DEF Get, files
  <2>9. Ops[c].pc = "pending" /\ Ops[c].kind = "Get" /\ Ops[c].key = call[c].key
    BY <2>4
  <2>. QED
    BY <2>7, <2>8, <2>9 DEF Blobs!Commit, Ops
<1>8. ASSUME NEW c \in Callers, Delete(c) PROVE Blobs!Commit(c)
  <2>1. /\ call' = [call EXCEPT ![c].pc = "done"] /\ call[c].pc = "start"
        /\ call[c].kind = "Delete" /\ disk' = disk
        /\ entry' = [entry EXCEPT ![call[c].key] = NoBlob]
    BY <1>8 DEF Delete, Step
  <2>2. call[c].data = NoBlob
    BY <2>1 DEF FileInv, ArgumentsKept
  <2>3. Ops' = [Ops EXCEPT ![c].pc = "done"]
    BY <1>0, <2>1, OneStep DEF Steps, Phase
  <2>4. Ops[c].pc = "pending" /\ Ops[c].kind = "Delete" /\ Ops[c].key = call[c].key
        /\ Ops[c].data = NoBlob
    BY <1>b, <2>1, <2>2 DEF Phase
  <2>5. [Ops EXCEPT ![c].pc = "done"] = [Ops EXCEPT ![c].pc = "done", ![c].data = Ops[c].data]
    BY <1>a DEF Ops, Seen
  <2>. QED
    BY <2>1, <2>3, <2>4, <2>5 DEF Blobs!Commit, Ops
<1>9. ASSUME NEW c \in Callers, Return(c) PROVE Blobs!Return(c)
  <2>1. Ops' = [Ops EXCEPT ![c].pc = "idle"]
    BY <1>0, <1>9, OneStep DEF Return, Step, Steps, Phase
  <2>2. Ops[c].pc = "done"
    BY <1>9, <1>b DEF Return, Step, Phase
  <2>. QED
    BY <1>9, <2>1, <2>2 DEF Blobs!Return, Ops, Return, files
<1>10. ASSUME NEW c \in Callers, Fail(c) PROVE Blobs!Fail(c) \/ Stutter
  <2>1. CASE Step(c, "start", "idle")
    <3>1. Ops' = [Ops EXCEPT ![c].pc = "idle"]
      BY <1>0, <2>1, OneStep DEF Step, Steps, Phase
    <3>2. Ops[c].pc = "pending"
      BY <2>1, <1>b DEF Step, Phase
    <3>. QED
      BY <1>10, <3>1, <3>2 DEF Blobs!Fail, Ops, Fail, files
  <2>2. ASSUME NEW from \in {"write", "sync", "close", "rename"}, Step(c, from, "cleanup")
        PROVE  Stutter
    BY <1>10, <2>2, <1>h DEF Fail, files, Steps, Phase
  <2>. QED
    BY <1>10, <2>1, <2>2 DEF Fail
<1>11. ASSUME NEW c \in Callers, RemoveTemp(c) PROVE Blobs!Fail(c)
  <2>1. Ops' = [Ops EXCEPT ![c].pc = "idle"]
    BY <1>0, <1>11, OneStep DEF RemoveTemp, Step, Steps, Phase
  <2>2. Ops[c].pc = "pending"
    BY <1>11, <1>b DEF RemoveTemp, Step, Phase
  <2>. QED
    BY <1>11, <2>1, <2>2 DEF Blobs!Fail, Ops, RemoveTemp
<1>12. ASSUME NEW k \in Keys, FlushEntry(k) PROVE Blobs!Flush(k)
  <2>1. Ops' = Ops
    BY <1>12 DEF FlushEntry, Ops, AbstractOp
  <2>. QED
    BY <1>12, <2>1 DEF FlushEntry, Blobs!Flush, Ops, FileInv, SyncedFirst
<1>13. ASSUME call' = Stopped PROVE Ops' = Blobs!Dropped
  <2>1. (call \in [Callers -> Calls])'
    BY <1>0, <1>13 DEF Stopped, Calls, Steps
  <2>2. \A c \in Callers : AbstractOp(c)' = Seen(call'[c])
    BY <2>1, SeenCallNext
  <2>3. ASSUME NEW c \in Callers PROVE Seen(call'[c]) = [Ops[c] EXCEPT !.pc = "idle"]
    <3>1. call'[c] = [pc |-> "idle", kind |-> call[c].kind, key |-> call[c].key,
                      data |-> call[c].data]
      BY <1>0, <1>13 DEF Stopped, Calls
    <3>2. Seen(call'[c]) = [pc |-> "idle", kind |-> call[c].kind, key |-> call[c].key,
                            data |-> call[c].data]
      BY <3>1 DEF Seen, Phase
    <3>3. [Seen(call[c]) EXCEPT !.pc = "idle"] =
            [pc |-> "idle", kind |-> call[c].kind, key |-> call[c].key, data |-> call[c].data]
      BY DEF Seen
    <3>. QED
      BY <1>a, <3>2, <3>3
  <2>. QED
    BY <2>2, <2>3 DEF Ops, Blobs!Dropped
<1>14. CASE Kill
  BY <1>13, <1>14 DEF Kill, Blobs!Next, Blobs!Kill, Ops
<1>15. CASE PowerLoss
  BY <1>13, <1>15 DEF PowerLoss, Blobs!Next, Blobs!PowerLoss, Ops
<1>16. CASE UNCHANGED fsVars
  BY <1>16 DEF fsVars, files, Ops, AbstractOp
<1>. QED
  BY <1>1, <1>2, <1>3, <1>4, <1>5, <1>6, <1>7, <1>8, <1>9, <1>10, <1>11, <1>12, <1>14, <1>15,
     <1>16 DEF FileNext, PutStep, Blobs!Next

\* The file store is the atomic map its port promises, for any callers: a call
\* that has returned took effect at once and whole, one that failed not at all.
THEOREM ImplementsBlobStore == FileSpec => ActsAsBlobStore
  BY FileInitInv, FileStepInv, InitRefines, StepRefines, PTL DEF FileSpec, ActsAsBlobStore, Blobs!Spec

-----------------------------------------------------------------------------
(***************************************************************************)
(* AdminReview, for any requests, admins, flags and users: the audit log vouches *)
(* for the tables, the first review of a flag stands, and every admin is told *)
(* the truth.                                                              *)
(*                                                                         *)
(* The invariant follows a request to its end, when it can no longer change: *)
(* an audit row is of a request that has ended, so that what the row says of *)
(* its target cannot change any more either.                               *)
(***************************************************************************)

\* What a request that has begun knows, by its kind and its step.
TasksOK ==
  \A t \in Tasks : task[t].pc # "new" =>
    /\ task[t].kind = "review" => task[t].target \in Flags
    /\ task[t].kind = "caps" => task[t].target \in Owners
    /\ task[t].pc = "write" =>
         /\ task[t].answer = "none"
         /\ task[t].kind = "caps" =>
              task[t].body \in {b \in Bodies : Negative \notin {b.text, b.image}}
    /\ task[t].answer = "conflict" =>
         task[t].target \in Flags /\ reviewer[task[t].target] # Nobody

\* A request has ended when its row is there, and has a row when it succeeded.
RowsOK ==
  /\ \A t \in audits : task[t].pc = "done" /\ task[t].answer \in {"ok", "internal"}
  /\ \A t \in Tasks : task[t].pc = "done" /\ task[t].answer = "ok" => t \in audits

\* A total that was counted is covered by the types that were counted since and
\* those that are still to be.
NotYet(n, type) == IF Len(counts) >= n THEN counts[n] ELSE records[type]
Covering ==
  Len(counts) >= 2 =>
    counts[2] <= NotYet(3, "text") + NotYet(4, "image") + NotYet(5, "video")

AdminInv == AdminTypeOK /\ TasksOK /\ RowsOK /\ StateIsAudited /\ Covering

-----------------------------------------------------------------------------
\* The initial states satisfy the invariant.
LEMMA AdminInitInv == AdminInit => AdminInv
<1> SUFFICES ASSUME AdminInit PROVE AdminInv
  OBVIOUS
<1>1. AdminTypeOK
  BY AdminAssumption DEF AdminInit, AdminTypeOK, NewTask, Kinds
<1>2. TasksOK /\ RowsOK
  BY DEF AdminInit, TasksOK, RowsOK, NewTask
<1>3. StateIsAudited
  BY DEF AdminInit, StateIsAudited, About
<1>4. Covering
  BY DEF AdminInit, Covering
<1>. QED
  BY <1>1, <1>2, <1>3, <1>4 DEF AdminInv

\* Other requests may go on: what the log says is said by those that have ended.
LEMMA LogKept ==
  ASSUME AdminInv, UNCHANGED <<reviewer, caps, audits>>,
         \A t \in Tasks : task[t].pc = "done" => task'[t] = task[t]
  PROVE  StateIsAudited'
<1>1. \A t \in audits : task'[t] = task[t]
  BY DEF AdminInv, AdminTypeOK, RowsOK
<1>2. \A t \in audits : \A x : About(t, x)' <=> About(t, x)
  BY <1>1 DEF About
<1>. QED
  BY <1>1, <1>2 DEF AdminInv, StateIsAudited

\* A new row is about the target of its request, the older ones are as before.
LEMMA RowAdded ==
  ASSUME AdminInv, NEW t \in Tasks, task[t].pc = "write", audits' = audits \cup {t},
         task'[t].target = task[t].target, \A s \in Tasks \ {t} : task'[s] = task[s]
  PROVE  /\ t \notin audits
         /\ \A s \in audits : task'[s] = task[s]
         /\ \A s \in audits : \A x : About(s, x)' <=> About(s, x)
         /\ \A x : About(t, x)' <=> task[t].target = x
<1>1. t \notin audits /\ audits \subseteq Tasks
  BY DEF AdminInv, AdminTypeOK, RowsOK
<1>2. \A s \in audits : task'[s] = task[s]
  BY <1>1
<1>3. \A s \in audits : \A x : About(s, x)' <=> About(s, x)
  BY <1>2 DEF About
<1>4. \A x : About(t, x)' <=> task[t].target = x
  BY DEF About
<1>. QED
  BY <1>1, <1>2, <1>3, <1>4

-----------------------------------------------------------------------------
\* The parts of the invariant a step of the summary or of another feature, or a
\* request that writes nothing, leaves alone.
LEMMA ReadsInv ==
  ASSUME AdminInv, NEW t \in Tasks, task[t] = NewTask,
         NEW kind \in {"review", "caps"}, NEW target \in Flags \cup Owners,
         NEW body \in Bodies \cup {NoCaps}, NEW outcomes,
         outcomes \subseteq {"none", "invalid", "not_found", "conflict", "internal"},
         kind = "review" => target \in Flags, kind = "caps" => target \in Owners,
         kind = "caps" /\ "none" \in outcomes =>
           body \in {b \in Bodies : Negative \notin {b.text, b.image}},
         "conflict" \in outcomes => target \in Flags /\ reviewer[target] # Nobody,
         Reads(t, kind, target, body, outcomes)
  PROVE  AdminInv'
<1>1. PICK answer \in outcomes :
        task' = [task EXCEPT ![t] =
                  [pc |-> IF answer = "none" THEN "write" ELSE "done", kind |-> kind,
                   target |-> target, body |-> body, answer |-> answer]]
  BY DEF Reads
<1> DEFINE x == [pc |-> IF answer = "none" THEN "write" ELSE "done", kind |-> kind,
                 target |-> target, body |-> body, answer |-> answer]
<1>2. UNCHANGED <<raised, reviewer, caps, removed, records, audits, counts>>
  BY DEF Reads, rows
<1>3. x \in Begun
  BY DEF Begun
<1>4. task[t].pc = "new" /\ task \in [Tasks -> {NewTask} \cup Begun]
  BY DEF NewTask, AdminInv, AdminTypeOK
<1>5. task'[t] = x /\ \A s \in Tasks \ {t} : task'[s] = task[s]
  BY <1>1, <1>4
<1>6. AdminTypeOK'
  BY <1>1, <1>2, <1>3 DEF AdminInv, AdminTypeOK
<1>7. TasksOK'
  BY <1>2, <1>5 DEF AdminInv, TasksOK
<1>8. t \notin audits
  BY <1>4 DEF AdminInv, RowsOK, AdminTypeOK
<1>9. RowsOK'
  <2>1. audits' = audits /\ \A s \in Tasks \ {t} : task'[s] = task[s]
    BY <1>2, <1>5
  <2>2. task'[t].answer # "ok" /\ audits \subseteq Tasks \ {t}
    BY <1>5, <1>8 DEF AdminInv, AdminTypeOK
  <2>3. \A s \in audits : task'[s].pc = "done" /\ task'[s].answer \in {"ok", "internal"}
    BY <2>1, <2>2 DEF AdminInv, RowsOK
  <2>4. \A s \in Tasks : task'[s].pc = "done" /\ task'[s].answer = "ok" => s \in audits
    BY <2>1, <2>2 DEF AdminInv, RowsOK
  <2>. QED
    BY <2>1, <2>3, <2>4 DEF RowsOK
<1>10. StateIsAudited'
  BY <1>2, <1>4, <1>5, LogKept
<1>11. Covering'
  BY <1>2 DEF AdminInv, Covering, NotYet
<1>. QED
  BY <1>6, <1>7, <1>9, <1>10, <1>11 DEF AdminInv

\* A request that is answered without a row.
LEMMA AnswerInv ==
  ASSUME AdminInv, NEW t \in Tasks, task[t].pc = "write",
         NEW answer \in {"not_found", "conflict", "internal"}, Answer(t, answer),
         answer = "conflict" => task[t].target \in Flags /\ reviewer[task[t].target] # Nobody,
         UNCHANGED <<raised, reviewer, caps, removed, records, audits, counts>>
  PROVE  AdminInv'
<1>1. task[t] \in Begun /\ task \in [Tasks -> {NewTask} \cup Begun]
  BY DEF AdminInv, AdminTypeOK, NewTask
<1> DEFINE x == [pc |-> "done", kind |-> task[t].kind, target |-> task[t].target,
                 body |-> task[t].body, answer |-> answer]
<1>2. x \in Begun
  BY <1>1 DEF Begun
<1>3. task' = [task EXCEPT ![t] = x]
  <2>1. [task[t] EXCEPT !.pc = "done"] =
          [pc |-> "done", kind |-> task[t].kind, target |-> task[t].target,
           body |-> task[t].body, answer |-> task[t].answer]
    BY <1>1 DEF Begun
  <2> DEFINE y == [task[t] EXCEPT !.pc = "done"]
  <2>2. y = [pc |-> "done", kind |-> task[t].kind, target |-> task[t].target,
             body |-> task[t].body, answer |-> task[t].answer]
    BY <2>1
  <2> HIDE DEF y
  <2>3. [y EXCEPT !.answer = answer] = x
    BY <2>2
  <2>4. [task[t] EXCEPT !.pc = "done", !.answer = answer] = x
    BY <2>3, Zenon DEF y
  <2>. QED
    BY <1>1, <2>4 DEF Answer
<1>4. task'[t] = x /\ \A s \in Tasks \ {t} : task'[s] = task[s]
  BY <1>1, <1>3
<1>5. AdminTypeOK'
  BY <1>2, <1>3 DEF AdminInv, AdminTypeOK
<1>6. TasksOK'
  BY <1>1, <1>4 DEF AdminInv, TasksOK
<1>7. t \notin audits
  BY DEF AdminInv, RowsOK, AdminTypeOK
<1>8. RowsOK'
  <2>1. audits' = audits /\ \A s \in Tasks \ {t} : task'[s] = task[s]
    BY <1>4
  <2>2. task'[t].answer # "ok" /\ audits \subseteq Tasks \ {t}
    BY <1>4, <1>7 DEF AdminInv, AdminTypeOK
  <2>3. \A s \in audits : task'[s].pc = "done" /\ task'[s].answer \in {"ok", "internal"}
    BY <2>1, <2>2 DEF AdminInv, RowsOK
  <2>4. \A s \in Tasks : task'[s].pc = "done" /\ task'[s].answer = "ok" => s \in audits
    BY <2>1, <2>2 DEF AdminInv, RowsOK
  <2>. QED
    BY <2>1, <2>3, <2>4 DEF RowsOK
<1>9. StateIsAudited'
  BY <1>4, LogKept
<1>10. Covering'
  BY DEF AdminInv, Covering, NotYet
<1>. QED
  BY <1>5, <1>6, <1>8, <1>9, <1>10 DEF AdminInv

\* What a request knows once it has committed.
LEMMA CommittedTask ==
  ASSUME AdminInv, NEW t \in Tasks, task[t].pc = "write", Committed(t)
  PROVE  /\ audits' = audits \cup {t}
         /\ task' \in [Tasks -> {NewTask} \cup Begun]
         /\ \A s \in Tasks \ {t} : task'[s] = task[s]
         /\ task'[t].pc = "done" /\ task'[t].answer \in {"ok", "internal"}
         /\ task'[t].kind = task[t].kind /\ task'[t].target = task[t].target
         /\ task'[t].body = task[t].body
<1>1. PICK answer \in {"ok", "internal"} : Answer(t, answer)
  BY DEF Committed
<1>2. task[t] \in Begun /\ task \in [Tasks -> {NewTask} \cup Begun]
  BY DEF AdminInv, AdminTypeOK, NewTask
<1> DEFINE y == [task[t] EXCEPT !.pc = "done"]
<1>3. y \in Begun /\ y.pc = "done" /\ y.kind = task[t].kind /\ y.target = task[t].target
      /\ y.body = task[t].body
  BY <1>2 DEF Begun
<1>4. task' = [task EXCEPT ![t] = [y EXCEPT !.answer = answer]]
  BY <1>1, <1>2, Zenon DEF Answer
<1> HIDE DEF y
<1>5. [y EXCEPT !.answer = answer] \in Begun
  BY <1>3 DEF Begun
<1>6. /\ [y EXCEPT !.answer = answer].pc = "done"
      /\ [y EXCEPT !.answer = answer].kind = task[t].kind
      /\ [y EXCEPT !.answer = answer].target = task[t].target
      /\ [y EXCEPT !.answer = answer].body = task[t].body
      /\ [y EXCEPT !.answer = answer].answer = answer
  BY <1>3 DEF Begun
<1>7. task'[t] = [y EXCEPT !.answer = answer] /\ \A s \in Tasks \ {t} : task'[s] = task[s]
  BY <1>2, <1>4
<1>8. task' \in [Tasks -> {NewTask} \cup Begun]
  BY <1>2, <1>4, <1>5
<1>. QED
  BY <1>6, <1>7, <1>8 DEF Committed

\* The row of a change: the tasks and the rows stay in order.
LEMMA CommittedInv ==
  ASSUME AdminInv, NEW t \in Tasks, task[t].pc = "write", Committed(t),
         \A f \in Flags : reviewer[f] # Nobody => reviewer'[f] = reviewer[f]
  PROVE  TasksOK' /\ RowsOK' /\ audits' \subseteq Tasks
<1>1. /\ audits' = audits \cup {t}
      /\ \A s \in Tasks \ {t} : task'[s] = task[s]
      /\ task'[t].pc = "done" /\ task'[t].answer \in {"ok", "internal"}
      /\ task'[t].kind = task[t].kind /\ task'[t].target = task[t].target
  BY CommittedTask
<1>2. audits \subseteq Tasks /\ t \notin audits
  BY DEF AdminInv, AdminTypeOK, RowsOK
<1>3. TasksOK'
  BY <1>1 DEF AdminInv, TasksOK
<1>4. \A s \in audits' : task'[s].pc = "done" /\ task'[s].answer \in {"ok", "internal"}
  BY <1>1, <1>2 DEF AdminInv, RowsOK
<1>5. \A s \in Tasks : task'[s].pc = "done" /\ task'[s].answer = "ok" => s \in audits'
  BY <1>1 DEF AdminInv, RowsOK
<1>6. RowsOK'
  BY <1>4, <1>5 DEF RowsOK
<1>. QED
  BY <1>1, <1>2, <1>3, <1>6

\* A flag that is reviewed gets its one row, and the rows of the others stay.
LEMMA ClaimInv == ASSUME AdminInv, NEW t \in Tasks, ClaimFlag(t) PROVE AdminInv'
<1>a. PICK f \in Flags : f = task[t].target
  BY DEF ClaimFlag, Writes, AdminInv, TasksOK
<1>0. /\ task[t].pc = "write" /\ task[t].kind = "review" /\ f \in Flags /\ f = task[t].target
      /\ UNCHANGED <<raised, caps, removed, records, counts>>
  BY <1>a DEF ClaimFlag, Writes
<1>1. CASE reviewer[f] # Nobody
  BY <1>0, <1>1, AnswerInv DEF ClaimFlag
<1>2. CASE reviewer[f] = Nobody
  <2>1. Committed(t) /\ reviewer' = [reviewer EXCEPT ![f] = AdminOf[t]]
    BY <1>0, <1>2 DEF ClaimFlag
  <2>2. /\ audits' = audits \cup {t}
        /\ task' \in [Tasks -> {NewTask} \cup Begun]
        /\ \A s \in Tasks \ {t} : task'[s] = task[s]
        /\ task'[t].target = f
    BY <1>0, <2>1, CommittedTask
  <2>3. /\ t \notin audits
        /\ \A s \in audits : task'[s] = task[s]
        /\ \A s \in audits : \A x : About(s, x)' <=> About(s, x)
        /\ \A x : About(t, x)' <=> f = x
    BY <1>0, <2>2, RowAdded
  <2>4. reviewer \in [Flags -> Admins \cup {Nobody}] /\ AdminOf[t] \in Admins \ {Nobody}
    BY AdminAssumption DEF AdminInv, AdminTypeOK
  <2>5. /\ reviewer'[f] = AdminOf[t]
        /\ \A g \in Flags \ {f} : reviewer'[g] = reviewer[g]
        /\ reviewer' \in [Flags -> Admins \cup {Nobody}]
    BY <1>0, <2>1, <2>4
  <2>6. TasksOK' /\ RowsOK' /\ audits' \subseteq Tasks
    BY <1>0, <1>2, <2>1, <2>5, CommittedInv
  <2>7. AdminTypeOK'
    BY <1>0, <2>2, <2>5, <2>6 DEF AdminInv, AdminTypeOK
  <2>9. ASSUME NEW g \in Flags
        PROVE  IF reviewer'[g] = Nobody THEN \A s \in audits' : ~About(s, g)'
               ELSE \E s \in audits' :
                      AdminOf[s] = reviewer'[g] /\ \A r \in audits' : About(r, g)' <=> r = s
    <3>1. CASE g = f
      <4>1. \A s \in audits : ~About(s, f)
        BY <1>0, <1>2 DEF AdminInv, StateIsAudited
      <4>2. \A r \in audits' : About(r, f)' <=> r = t
        BY <2>2, <2>3, <4>1
      <4>. QED
        BY <2>2, <2>4, <2>5, <3>1, <4>2
    <3>2. CASE g # f /\ reviewer[g] = Nobody
      <4>1. \A s \in audits : ~About(s, g)
        BY <3>2 DEF AdminInv, StateIsAudited
      <4>. QED
        BY <2>2, <2>3, <2>5, <3>2, <4>1
    <3>3. CASE g # f /\ reviewer[g] # Nobody
      <4>1. PICK s \in audits : AdminOf[s] = reviewer[g] /\ \A r \in audits : About(r, g) <=> r = s
        BY <3>3 DEF AdminInv, StateIsAudited
      <4>2. \A r \in audits' : About(r, g)' <=> r = s
        BY <2>2, <2>3, <3>3, <4>1
      <4>. QED
        BY <2>2, <2>5, <3>3, <4>1, <4>2
    <3>. QED
      BY <3>1, <3>2, <3>3
  <2>10. ASSUME NEW u \in Owners
         PROVE  \/ caps'[u] = NoCaps /\ \A s \in audits' : ~About(s, u)'
                \/ \E s \in audits' : About(s, u)' /\ caps'[u] = task'[s].body
    <3>1. u # f /\ caps' = caps
      BY <1>0, AdminAssumption
    <3>. QED
      BY <2>2, <2>3, <3>1 DEF AdminInv, StateIsAudited
  <2>11. StateIsAudited'
    BY <2>9, <2>10 DEF StateIsAudited
  <2>12. Covering'
    BY <1>0 DEF AdminInv, Covering, NotYet
  <2>. QED
    BY <2>6, <2>7, <2>11, <2>12 DEF AdminInv
<1>. QED
  BY <1>1, <1>2

\* Caps that are set get the last row about their user.
LEMMA CapsInv == ASSUME AdminInv, NEW t \in Tasks, WriteCaps(t) PROVE AdminInv'
<1>a. PICK u \in Owners : u = task[t].target
  BY DEF WriteCaps, Writes, AdminInv, TasksOK
<1>0. /\ task[t].pc = "write" /\ task[t].kind = "caps" /\ u \in Owners /\ u = task[t].target
      /\ UNCHANGED <<raised, reviewer, removed, records, counts>>
  BY <1>a DEF WriteCaps, Writes
<1>1. CASE u \in removed
  BY <1>0, <1>1, AnswerInv DEF WriteCaps
<1>2. CASE u \notin removed
  <2>1. Committed(t) /\ caps' = [caps EXCEPT ![u] = task[t].body]
    BY <1>0, <1>2 DEF WriteCaps
  <2>2. /\ audits' = audits \cup {t}
        /\ task' \in [Tasks -> {NewTask} \cup Begun]
        /\ \A s \in Tasks \ {t} : task'[s] = task[s]
        /\ task'[t].target = u /\ task'[t].body = task[t].body
    BY <1>0, <2>1, CommittedTask
  <2>3. /\ t \notin audits
        /\ \A s \in audits : task'[s] = task[s]
        /\ \A s \in audits : \A x : About(s, x)' <=> About(s, x)
        /\ \A x : About(t, x)' <=> u = x
    BY <1>0, <2>2, RowAdded
  <2>4. task[t].body \in {b \in Bodies : Negative \notin {b.text, b.image}}
    BY <1>0 DEF AdminInv, TasksOK
  <2>5. /\ caps'[u] = task[t].body
        /\ \A v \in Owners \ {u} : caps'[v] = caps[v]
        /\ caps' \in [Owners -> {b \in Bodies : Negative \notin {b.text, b.image}} \cup {NoCaps}]
    BY <1>0, <2>1, <2>4 DEF AdminInv, AdminTypeOK
  <2>6. TasksOK' /\ RowsOK' /\ audits' \subseteq Tasks
    BY <1>0, <2>1, CommittedInv
  <2>7. AdminTypeOK'
    BY <1>0, <2>2, <2>5, <2>6 DEF AdminInv, AdminTypeOK
  <2>9. ASSUME NEW g \in Flags
        PROVE  IF reviewer'[g] = Nobody THEN \A s \in audits' : ~About(s, g)'
               ELSE \E s \in audits' :
                      AdminOf[s] = reviewer'[g] /\ \A r \in audits' : About(r, g)' <=> r = s
    <3>0. g # u /\ reviewer' = reviewer
      BY <1>0, AdminAssumption
    <3>1. CASE reviewer[g] = Nobody
      <4>1. \A s \in audits : ~About(s, g)
        BY <3>1 DEF AdminInv, StateIsAudited
      <4>. QED
        BY <2>2, <2>3, <3>0, <3>1, <4>1
    <3>2. CASE reviewer[g] # Nobody
      <4>1. PICK s \in audits : AdminOf[s] = reviewer[g] /\ \A r \in audits : About(r, g) <=> r = s
        BY <3>2 DEF AdminInv, StateIsAudited
      <4>2. \A r \in audits' : About(r, g)' <=> r = s
        BY <2>2, <2>3, <3>0, <4>1
      <4>. QED
        BY <2>2, <3>0, <3>2, <4>1, <4>2
    <3>. QED
      BY <3>1, <3>2
  <2>10. ASSUME NEW v \in Owners
         PROVE  \/ caps'[v] = NoCaps /\ \A s \in audits' : ~About(s, v)'
                \/ \E s \in audits' : About(s, v)' /\ caps'[v] = task'[s].body
    <3>1. CASE v = u
      BY <2>2, <2>3, <2>5, <3>1
    <3>2. CASE v # u
      BY <2>2, <2>3, <2>5, <3>2 DEF AdminInv, StateIsAudited
    <3>. QED
      BY <3>1, <3>2
  <2>11. StateIsAudited'
    BY <2>9, <2>10 DEF StateIsAudited
  <2>12. Covering'
    BY <1>0 DEF AdminInv, Covering, NotYet
  <2>. QED
    BY <2>6, <2>7, <2>11, <2>12 DEF AdminInv
<1>. QED
  BY <1>1, <1>2

-----------------------------------------------------------------------------
\* A count of the summary, over rows that only grow in number.
LEMMA CountInv == ASSUME AdminInv, CountNext PROVE AdminInv'
<1>0. UNCHANGED <<raised, reviewer, caps, removed, records, audits, task>>
  BY DEF CountNext, rows
<1>1. records["text"] \in Nat /\ records["image"] \in Nat /\ records["video"] \in Nat
  BY AdminAssumption DEF AdminInv, AdminTypeOK, Kinds
<1>2. Cardinality(Owners \ removed) \in Nat /\ Cardinality(raised) \in Nat
      /\ Cardinality({f \in raised : reviewer[f] = Nobody}) \in Nat
  <2>1. IsFiniteSet(Owners \ removed) /\ IsFiniteSet(raised)
        /\ IsFiniteSet({f \in raised : reviewer[f] = Nobody})
    BY AdminAssumption, FS_Subset DEF AdminInv, AdminTypeOK
  <2>. QED
    BY <2>1, FS_CardinalityType
<1>3. Counts \in [1..7 -> Nat]
  BY <1>1, <1>2 DEF Counts, Total
<1>4. /\ Counts[2] = records["text"] + records["image"] + records["video"]
      /\ Counts[3] = records["text"] /\ Counts[4] = records["image"]
      /\ Counts[5] = records["video"]
  BY DEF Counts, Total
<1>5. PICK n \in Nat : n = Len(counts)
  BY DEF AdminInv, AdminTypeOK
<1>6. /\ counts \in Seq(Nat) /\ n < 7 /\ counts' = Append(counts, Counts[n + 1])
      /\ Counts[n + 1] \in Nat
  <2>1. counts \in Seq(Nat) /\ n < 7 /\ counts' = Append(counts, Counts[n + 1])
    BY <1>5, Zenon DEF AdminInv, AdminTypeOK, CountNext
  <2>2. n + 1 \in 1..7
    BY <2>1
  <2>. QED
    BY <1>3, <2>1, <2>2
<1>7. /\ counts' \in Seq(Nat) /\ Len(counts') = n + 1 /\ counts'[n + 1] = Counts[n + 1]
      /\ \A i \in 1..n : counts'[i] = counts[i]
  BY <1>5, <1>6
<1>8. Covering'
  <2>0. \A type \in {"text", "image", "video"} : records'[type] = records[type]
    BY <1>0
  <2>1. CASE n = 0
    BY <1>7, <2>1 DEF Covering
  <2>2. CASE n = 1
    BY <1>0, <1>1, <1>4, <1>7, <2>2 DEF Covering, NotYet
  <2>3. CASE n = 2
    BY <1>0, <1>4, <1>5, <1>7, <2>3 DEF AdminInv, Covering, NotYet
  <2>4. CASE n = 3
    BY <1>0, <1>4, <1>5, <1>7, <2>4 DEF AdminInv, Covering, NotYet
  <2>5. CASE n = 4
    BY <1>0, <1>4, <1>5, <1>7, <2>5 DEF AdminInv, Covering, NotYet
  <2>6. CASE n = 5 \/ n = 6
    BY <1>0, <1>5, <1>7, <2>6 DEF AdminInv, Covering, NotYet
  <2>. QED
    BY <1>6, <2>1, <2>2, <2>3, <2>4, <2>5, <2>6
<1>9. AdminTypeOK' /\ TasksOK' /\ RowsOK'
  BY <1>0, <1>7 DEF AdminInv, AdminTypeOK, TasksOK, RowsOK
<1>10. StateIsAudited'
  BY <1>0, LogKept
<1>. QED
  BY <1>8, <1>9, <1>10 DEF AdminInv

\* Every step keeps the invariant.
LEMMA AdminStepInv == AdminInv /\ [AdminNext]_adminVars => AdminInv'
<1> SUFFICES ASSUME AdminInv, [AdminNext]_adminVars
             PROVE  AdminInv'
  OBVIOUS
<1>1. ASSUME NEW t \in Tasks, NEW f \in Flags, FindFlag(t, f) PROVE AdminInv'
  <2> DEFINE outcomes == {"internal", IF f \notin raised THEN "not_found"
                                      ELSE IF reviewer[f] # Nobody THEN "conflict" ELSE "none"}
  <2>1. Reads(t, "review", f, NoCaps, outcomes)
    BY <1>1 DEF FindFlag
  <2>2. task[t] = NewTask
    BY <2>1 DEF Reads
  <2>3. /\ outcomes \subseteq {"none", "invalid", "not_found", "conflict", "internal"}
        /\ "conflict" \in outcomes => reviewer[f] # Nobody
    OBVIOUS
  <2> HIDE DEF outcomes
  <2>. QED
    BY <2>1, <2>2, <2>3, ReadsInv
<1>2. ASSUME NEW t \in Tasks, NEW u \in Owners, NEW body \in Bodies, FindOwner(t, u, body)
      PROVE  AdminInv'
  <2> DEFINE outcomes == IF Negative \in {body.text, body.image} THEN {"invalid"}
                         ELSE {"internal", IF u \in removed THEN "not_found" ELSE "none"}
  <2>1. Reads(t, "caps", u, body, outcomes)
    BY <1>2 DEF FindOwner
  <2>2. task[t] = NewTask
    BY <2>1 DEF Reads
  <2>3. /\ outcomes \subseteq {"none", "invalid", "not_found", "conflict", "internal"}
        /\ "conflict" \notin outcomes
        /\ "none" \in outcomes => body \in {b \in Bodies : Negative \notin {b.text, b.image}}
    OBVIOUS
  <2> HIDE DEF outcomes
  <2>. QED
    BY <2>1, <2>2, <2>3, ReadsInv
<1>3. ASSUME NEW t \in Tasks, ClaimFlag(t) PROVE AdminInv'
  BY <1>3, ClaimInv
<1>4. ASSUME NEW t \in Tasks, WriteCaps(t) PROVE AdminInv'
  BY <1>4, CapsInv
<1>5. ASSUME NEW t \in Tasks, WriteFails(t) PROVE AdminInv'
  BY <1>5, AnswerInv DEF WriteFails, rows
<1>6. ASSUME NEW f \in Flags, RaiseFlag(f) PROVE AdminInv'
  <2>1. UNCHANGED <<reviewer, caps, removed, records, audits, task, counts>>
        /\ raised' = raised \cup {f}
    BY <1>6 DEF RaiseFlag
  <2>2. StateIsAudited'
    BY <2>1, LogKept
  <2>. QED
    BY <2>1, <2>2 DEF AdminInv, AdminTypeOK, TasksOK, RowsOK, Covering, NotYet
<1>7. ASSUME NEW u \in Owners, RemoveOwner(u) PROVE AdminInv'
  <2>1. UNCHANGED <<raised, reviewer, caps, records, audits, task, counts>>
        /\ removed' = removed \cup {u}
    BY <1>7 DEF RemoveOwner
  <2>2. StateIsAudited'
    BY <2>1, LogKept
  <2>. QED
    BY <2>1, <2>2 DEF AdminInv, AdminTypeOK, TasksOK, RowsOK, Covering, NotYet
<1>8. ASSUME NEW type \in Kinds, AddRecord(type) PROVE AdminInv'
  <2>1. UNCHANGED <<raised, reviewer, caps, removed, audits, task, counts>>
        /\ records' = [records EXCEPT ![type] = @ + 1] /\ records[type] < MaxRecords
    BY <1>8 DEF AddRecord
  <2>2. records \in [Kinds -> 0..MaxRecords] /\ MaxRecords \in Nat
    BY AdminAssumption DEF AdminInv, AdminTypeOK
  <2>3. records' \in [Kinds -> 0..MaxRecords]
    BY <2>1, <2>2
  <2>4. \A k \in Kinds : records[k] \in Nat /\ records'[k] \in Nat /\ records[k] <= records'[k]
    BY <2>1, <2>2
  <2>5. Covering'
    <3>1. \A i \in 1..Len(counts) : counts[i] \in Nat
      BY DEF AdminInv, AdminTypeOK
    <3>2. Len(counts) \in Nat
      BY DEF AdminInv, AdminTypeOK
    <3>3. ASSUME NEW k \in Kinds, NEW i \in {3, 4, 5}
          PROVE  /\ NotYet(i, k) \in Nat /\ NotYet(i, k)' \in Nat
                 /\ NotYet(i, k) <= NotYet(i, k)'
      BY <2>1, <2>4, <3>1, <3>2 DEF NotYet
    <3>4. "text" \in Kinds /\ "image" \in Kinds /\ "video" \in Kinds
      BY DEF Kinds
    <3>5. /\ NotYet(3, "text") \in Nat /\ NotYet(3, "text")' \in Nat
          /\ NotYet(3, "text") <= NotYet(3, "text")'
      BY <3>3, <3>4
    <3>6. /\ NotYet(4, "image") \in Nat /\ NotYet(4, "image")' \in Nat
          /\ NotYet(4, "image") <= NotYet(4, "image")'
      BY <3>3, <3>4
    <3>7. /\ NotYet(5, "video") \in Nat /\ NotYet(5, "video")' \in Nat
          /\ NotYet(5, "video") <= NotYet(5, "video")'
      BY <3>3, <3>4
    <3>8. Len(counts) >= 2 => counts[2] \in Nat
      BY <3>1, <3>2
    <3>. QED
      BY <2>1, <3>5, <3>6, <3>7, <3>8 DEF AdminInv, Covering
  <2>6. StateIsAudited'
    BY <2>1, LogKept
  <2>. QED
    BY <2>1, <2>3, <2>5, <2>6 DEF AdminInv, AdminTypeOK, TasksOK, RowsOK
<1>9. CASE CountNext
  BY <1>9, CountInv
<1>10. CASE UNCHANGED adminVars
  <2>1. StateIsAudited'
    BY <1>10, LogKept DEF adminVars, rows
  <2>. QED
    BY <1>10, <2>1 DEF adminVars, rows, AdminInv, AdminTypeOK, TasksOK, RowsOK, Covering,
       NotYet
<1>. QED
  BY <1>1, <1>2, <1>3, <1>4, <1>5, <1>6, <1>7, <1>8, <1>9, <1>10 DEF AdminNext, TaskStep

\* The answers and the summary follow.
LEMMA TruthFollows == AdminInv => AdminsToldTruth
<1> SUFFICES ASSUME AdminInv PROVE AdminsToldTruth
  OBVIOUS
<1>1. ASSUME NEW t \in Tasks, task[t].pc = "done"
      PROVE  /\ task[t].answer = "ok" => t \in audits
             /\ task[t].answer \notin {"ok", "internal"} => t \notin audits
             /\ task[t].answer = "conflict" => reviewer[task[t].target] # Nobody
  BY <1>1 DEF AdminInv, TasksOK, RowsOK
<1>2. SummaryCovers
  BY DEF AdminInv, AdminTypeOK, Covering, NotYet, SummaryCovers
<1>. QED
  BY <1>1, <1>2 DEF AdminsToldTruth

\* Only a flag without a reviewer gets one.
LEMMA StepStands ==
  AdminInv /\ [AdminNext]_adminVars =>
    [\A f \in Flags : reviewer[f] # Nobody => reviewer'[f] = reviewer[f]]_adminVars
<1> SUFFICES ASSUME AdminInv, AdminNext, NEW f \in Flags, reviewer[f] # Nobody
             PROVE  reviewer'[f] = reviewer[f]
  OBVIOUS
<1>1. ASSUME NEW t \in Tasks, ClaimFlag(t) PROVE reviewer'[f] = reviewer[f]
  BY <1>1 DEF ClaimFlag, AdminInv, AdminTypeOK
<1>2. ASSUME NEW t \in Tasks, TaskStep(t), ~ClaimFlag(t) PROVE reviewer' = reviewer
  BY <1>2 DEF TaskStep, FindFlag, FindOwner, Reads, WriteCaps, WriteFails, rows
<1>3. CASE ~\E t \in Tasks : TaskStep(t)
  BY <1>3 DEF AdminNext, RaiseFlag, RemoveOwner, AddRecord, CountNext, rows
<1>. QED
  BY <1>1, <1>2, <1>3

-----------------------------------------------------------------------------
\* Every variable keeps its type.
THEOREM AdminTyped == AdminSpec => []AdminTypeOK
<1>1. AdminInv => AdminTypeOK
  BY DEF AdminInv
<1>. QED
  BY AdminInitInv, AdminStepInv, <1>1, PTL DEF AdminSpec

\* A review, and the overrides of a user, are vouched for by a row of the audit log.
THEOREM LogTellsAll == AdminSpec => []StateIsAudited
<1>1. AdminInv => StateIsAudited
  BY DEF AdminInv
<1>. QED
  BY AdminInitInv, AdminStepInv, <1>1, PTL DEF AdminSpec

\* What an admin is told is what the log says, and a summary misses no type.
THEOREM ToldTruth == AdminSpec => []AdminsToldTruth
  BY AdminInitInv, AdminStepInv, TruthFollows, PTL DEF AdminSpec

\* The first reviewer of a flag is never replaced.
THEOREM FirstReviewStands == AdminSpec => ReviewStands
  BY AdminInitInv, AdminStepInv, StepStands, PTL DEF AdminSpec, ReviewStands

-----------------------------------------------------------------------------
(***************************************************************************)
(* Verification, for any accounts, admins and ids: the four kinds of tokens *)
(* cannot stand in for each other, the gates believe only what is true, and a *)
(* deleted account is out.                                                 *)
(*                                                                         *)
(* The invariant says of every token in circulation which of the four signing *)
(* functions made it, for an account that exists, and of a handler that is at *)
(* work that what it read of its account still holds.                      *)
(***************************************************************************)

\* Made by one of the four for an account, with a flag that is true.
Made(t) ==
  \/ \E flag \in BOOLEAN : t = GenerateAccess(t.uid, flag) /\ (flag => t.uid \in verified)
  \/ \E id \in Ids : t = GenerateRefresh(t.uid, id)
  \/ t = GenerateReset(t.uid)
  \/ t = GenerateVerify(t.uid)

Genuine(t) == t.uid \in registered /\ Made(t)

AllGenuine == \A t \in tokens : Genuine(t)

\* What a handler read of its account still holds when it signs.
RequestsHold ==
  \A h \in Handlers :
    serving[h] # NoRequest =>
      serving[h].uid \in registered /\ (serving[h].verified => serving[h].uid \in verified)

VerifyInv == VerifyTypeOK /\ AllGenuine /\ RequestsHold

-----------------------------------------------------------------------------
\* The signing functions make well-formed claims.
LEMMA Claimed ==
  ASSUME NEW a \in Accounts
  PROVE  /\ \A flag \in BOOLEAN : GenerateAccess(a, flag) \in Claims
         /\ \A id \in Ids : GenerateRefresh(a, id) \in Claims
         /\ GenerateReset(a) \in Claims
         /\ GenerateVerify(a) \in Claims
  BY DEF GenerateAccess, GenerateRefresh, GenerateReset, GenerateVerify, RefreshClaims, Claims

\* What is signed for an account, with a flag that is true, is genuine.
LEMMA SignedIsGenuine ==
  ASSUME NEW a \in registered
  PROVE  /\ \A flag \in BOOLEAN :
              (flag => a \in verified) => Genuine(GenerateAccess(a, flag))
         /\ \A id \in Ids : Genuine(GenerateRefresh(a, id))
         /\ Genuine(GenerateReset(a))
         /\ Genuine(GenerateVerify(a))
<1>1. /\ \A flag \in BOOLEAN : GenerateAccess(a, flag).uid = a
      /\ \A id \in Ids : GenerateRefresh(a, id).uid = a
      /\ GenerateReset(a).uid = a
      /\ GenerateVerify(a).uid = a
  BY DEF GenerateAccess, GenerateRefresh, GenerateReset, GenerateVerify, RefreshClaims
<1>. QED
  BY <1>1, Zenon DEF Genuine, Made

\* Accounts and verifications are not taken back.
Grows == registered \subseteq registered' /\ verified \subseteq verified'

\* So a token stays genuine.
LEMMA GenuineStays ==
  ASSUME NEW t, Genuine(t), Grows
  PROVE  Genuine(t)'
  BY DEF Grows, Genuine, Made, GenerateAccess, GenerateRefresh, GenerateReset, GenerateVerify,
         RefreshClaims

\* So genuine tokens do what they were signed for and nothing else.
LEMMA WordFollows == VerifyInv => TokensKeepTheirWord
<1> SUFFICES ASSUME VerifyInv, NEW t \in tokens
             PROVE  /\ ParseVerify(t) => t = GenerateVerify(t.uid)
                    /\ ParseReset(t) => t = GenerateReset(t.uid)
                    /\ ParseRefresh(t) => \E id \in Ids : t = GenerateRefresh(t.uid, id)
                    /\ ParseAccess(t) => t \in Signed(t.uid, BOOLEAN)
                    /\ EmailVerified(t) => t.uid \in verified
                    /\ AdminOnly(t) => t.uid \in Operators
  BY DEF TokensKeepTheirWord
<1>1. Made(t)
  BY DEF VerifyInv, AllGenuine, Genuine
<1>2. CASE \E flag \in BOOLEAN : t = GenerateAccess(t.uid, flag) /\ (flag => t.uid \in verified)
  <2>1. PICK flag \in BOOLEAN : t = GenerateAccess(t.uid, flag) /\ (flag => t.uid \in verified)
    BY <1>2
  <2>2. /\ ~ParseRefresh(t) /\ ~ParseReset(t) /\ ~ParseVerify(t)
        /\ t.verified = flag
        /\ t.role = "admin" => t.uid \in Operators
    <3>1. /\ ~ParseRefresh(GenerateAccess(t.uid, flag)) /\ ~ParseReset(GenerateAccess(t.uid, flag))
          /\ ~ParseVerify(GenerateAccess(t.uid, flag))
          /\ GenerateAccess(t.uid, flag).verified = flag
          /\ GenerateAccess(t.uid, flag).role = "admin" => t.uid \in Operators
      BY DEF GenerateAccess, ParseRefresh, ParseReset, ParseVerify
    <3>. QED
      BY <2>1, <3>1, Zenon
  <2>3. t \in Signed(t.uid, BOOLEAN)
    BY <2>1 DEF Signed
  <2>. QED
    BY <2>1, <2>2, <2>3 DEF EmailVerified, AdminOnly
<1>3. CASE \E id \in Ids : t = GenerateRefresh(t.uid, id)
  <2>1. PICK id \in Ids : t = GenerateRefresh(t.uid, id)
    BY <1>3
  <2>2. ~ParseAccess(t) /\ ~ParseReset(t) /\ ~ParseVerify(t)
    <3>1. /\ ~ParseAccess(GenerateRefresh(t.uid, id)) /\ ~ParseReset(GenerateRefresh(t.uid, id))
          /\ ~ParseVerify(GenerateRefresh(t.uid, id))
      BY DEF GenerateRefresh, RefreshClaims, ParseAccess, ParseReset, ParseVerify
    <3>. QED
      BY <2>1, <3>1, Zenon
  <2>. QED
    BY <2>1, <2>2 DEF EmailVerified, AdminOnly
<1>4. CASE t = GenerateReset(t.uid)
  <2>1. ~ParseAccess(t) /\ ~ParseRefresh(t) /\ ~ParseVerify(t)
    <3>1. /\ ~ParseAccess(GenerateReset(t.uid)) /\ ~ParseRefresh(GenerateReset(t.uid))
          /\ ~ParseVerify(GenerateReset(t.uid))
      BY DEF GenerateReset, RefreshClaims, ParseAccess, ParseRefresh, ParseVerify
    <3>. QED
      BY <1>4, <3>1, Zenon
  <2>. QED
    BY <1>4, <2>1 DEF EmailVerified, AdminOnly
<1>5. CASE t = GenerateVerify(t.uid)
  <2>1. ~ParseAccess(t) /\ ~ParseRefresh(t) /\ ~ParseReset(t)
    <3>1. /\ ~ParseAccess(GenerateVerify(t.uid)) /\ ~ParseRefresh(GenerateVerify(t.uid))
          /\ ~ParseReset(GenerateVerify(t.uid))
      BY DEF GenerateVerify, RefreshClaims, ParseAccess, ParseRefresh, ParseReset
    <3>. QED
      BY <1>5, <3>1, Zenon
  <2>. QED
    BY <1>5, <2>1 DEF EmailVerified, AdminOnly
<1>. QED
  BY <1>1, <1>2, <1>3, <1>4, <1>5 DEF Made

-----------------------------------------------------------------------------
\* The initial states satisfy the invariant.
LEMMA VerifyInitInv == VerifyInit => VerifyInv
  BY DEF VerifyInit, VerifyInv, VerifyTypeOK, AllGenuine, RequestsHold

\* New tokens that are genuine keep all of them so.
LEMMA TokensGrow ==
  ASSUME VerifyInv, Grows,
         NEW new \in SUBSET Claims, tokens' \subseteq tokens \cup new,
         \A t \in new : Genuine(t)'
  PROVE  AllGenuine' /\ tokens' \subseteq Claims
<1>1. \A t \in tokens : Genuine(t)'
  BY GenuineStays DEF VerifyInv, AllGenuine
<1>. QED
  BY <1>1 DEF AllGenuine, VerifyInv, VerifyTypeOK

\* What a handler works on.
LEMMA AtIs ==
  ASSUME VerifyInv, NEW h \in Handlers, NEW pcs, At(h, pcs)
  PROVE  /\ serving[h] \in Request /\ serving[h].uid \in Accounts /\ serving[h].uid \in registered
         /\ serving[h].verified \in BOOLEAN /\ (serving[h].verified => serving[h].uid \in verified)
         /\ serving[h].jti \in Ids \cup {NoId} /\ serving[h].pc \in pcs /\ serving[h] # NoRequest
  BY DEF VerifyInv, VerifyTypeOK, RequestsHold, At, Request

\* A handler that goes on keeps what it holds of its account.
LEMMA GoesOn ==
  ASSUME VerifyInv, NEW h \in Handlers, NEW pc \in Signing \cup Preparing, NEW a \in Accounts,
         NEW id \in Ids \cup {NoId}, NEW flag \in BOOLEAN, Goes(h, pc, a, id, flag), Grows,
         a \in registered', flag => a \in verified'
  PROVE  serving' \in [Handlers -> Request \cup {NoRequest}] /\ RequestsHold'
<1> DEFINE r == [pc |-> pc, uid |-> a, jti |-> id, verified |-> flag]
<1>1. r \in Request /\ r.uid = a /\ r.verified = flag
  BY DEF Request
<1>2. serving \in [Handlers -> Request \cup {NoRequest}] /\ serving' = [serving EXCEPT ![h] = r]
  BY DEF VerifyInv, VerifyTypeOK, Goes
<1> HIDE DEF r
<1>3. serving' \in [Handlers -> Request \cup {NoRequest}]
  BY <1>1, <1>2
<1>4. ASSUME NEW k \in Handlers, serving'[k] # NoRequest
      PROVE  /\ serving'[k].uid \in registered'
             /\ serving'[k].verified => serving'[k].uid \in verified'
  <2>1. CASE k = h
    BY <1>1, <1>2, <2>1
  <2>2. CASE k # h
    BY <1>2, <1>4, <2>2 DEF VerifyInv, RequestsHold, Grows
  <2>. QED
    BY <2>1, <2>2
<1>. QED
  BY <1>3, <1>4 DEF RequestsHold

\* One that ends holds nothing.
LEMMA EndsWell ==
  ASSUME VerifyInv, NEW h \in Handlers, Ends(h), Grows
  PROVE  serving' \in [Handlers -> Request \cup {NoRequest}] /\ RequestsHold'
<1>1. serving \in [Handlers -> Request \cup {NoRequest}] /\ serving' = [serving EXCEPT ![h] = NoRequest]
  BY DEF VerifyInv, VerifyTypeOK, Ends
<1>2. serving' \in [Handlers -> Request \cup {NoRequest}]
  BY <1>1
<1>3. ASSUME NEW k \in Handlers, serving'[k] # NoRequest
      PROVE  /\ serving'[k].uid \in registered'
             /\ serving'[k].verified => serving'[k].uid \in verified'
  BY <1>1, <1>3 DEF VerifyInv, RequestsHold, Grows
<1>. QED
  BY <1>2, <1>3 DEF RequestsHold

\* The pair of a session, if it is delivered.
LEMMA SessionTokens ==
  ASSUME VerifyInv, NEW h \in Handlers, IssueSession(h)
  PROVE  /\ AllGenuine' /\ tokens' \subseteq Claims
         /\ refreshes' \subseteq Ids \X Accounts /\ used' \subseteq Ids
<1> DEFINE a == serving[h].uid
<1> DEFINE flag == serving[h].verified
<1>1. PICK id \in Ids \ used :
        /\ used' = used \cup {id}
        /\ refreshes' = refreshes \cup {<<id, a>>}
        /\ \/ tokens' = tokens \cup {GenerateAccess(a, flag), GenerateRefresh(a, id)}
           \/ tokens' = tokens
  BY DEF IssueSession
<1>2. a \in Accounts /\ a \in registered /\ flag \in BOOLEAN /\ (flag => a \in verified)
  BY AtIs DEF IssueSession
<1> HIDE DEF a, flag
<1>3. Genuine(GenerateAccess(a, flag)) /\ Genuine(GenerateRefresh(a, id))
  BY <1>2, SignedIsGenuine
<1>4. UNCHANGED verifyAccounts /\ Grows
  BY DEF IssueSession, Grows, verifyAccounts
<1> DEFINE new == {GenerateAccess(a, flag), GenerateRefresh(a, id)}
<1>5. new \subseteq Claims
  BY <1>2, Claimed
<1>6. \A t \in new : Genuine(t)
  BY <1>3
<1>7. \A t \in new : Genuine(t)'
  BY <1>4, <1>6, GenuineStays
<1>8. tokens' \subseteq tokens \cup new
  BY <1>1
<1>9. AllGenuine' /\ tokens' \subseteq Claims
  BY <1>4, <1>5, <1>7, <1>8, TokensGrow
<1>10. refreshes' \subseteq Ids \X Accounts /\ used' \subseteq Ids
  BY <1>1, <1>2 DEF VerifyInv, VerifyTypeOK
<1>. QED
  BY <1>9, <1>10

\* Without new tokens there is nothing to check.
LEMMA TokensStay ==
  ASSUME VerifyInv, tokens' \subseteq tokens, Grows
  PROVE  AllGenuine' /\ tokens' \subseteq Claims
<1>1. \A t \in tokens : Genuine(t)'
  BY GenuineStays DEF VerifyInv, AllGenuine
<1>. QED
  BY <1>1 DEF AllGenuine, VerifyInv, VerifyTypeOK

\* A request begins, for an account that is there.
LEMMA BeginKeeps ==
  ASSUME VerifyInv, NEW h \in Handlers, NEW pc \in Signing \cup Preparing, NEW a \in Accounts,
         NEW id \in Ids \cup {NoId}, NEW flag \in BOOLEAN, Begins(h, pc, a, id, flag),
         a \in registered, flag => a \in verified, UNCHANGED <<verifyAccounts, refreshes, used, tokens>>
  PROVE  VerifyInv'
<1>1. Grows /\ Goes(h, pc, a, id, flag) /\ a \in registered' /\ (flag => a \in verified')
  BY DEF Begins, verifyAccounts, Grows
<1>2. serving' \in [Handlers -> Request \cup {NoRequest}] /\ RequestsHold'
  BY <1>1, GoesOn
<1>3. AllGenuine' /\ tokens' \subseteq Claims
  BY <1>1, TokensStay
<1>. QED
  BY <1>2, <1>3 DEF VerifyInv, VerifyTypeOK, verifyAccounts

\* Every step keeps the invariant.
LEMMA VerifyStepInv == VerifyInv /\ [VerifyNext]_verifyVars => VerifyInv'
<1> SUFFICES ASSUME VerifyInv, [VerifyNext]_verifyVars
             PROVE  VerifyInv'
  OBVIOUS
<1> DEFINE Tok == AllGenuine' /\ tokens' \subseteq Claims
<1> DEFINE Work == serving' \in [Handlers -> Request \cup {NoRequest}] /\ RequestsHold'
<1> DEFINE Rows == /\ registered' \subseteq Accounts /\ verified' \subseteq registered'
                   /\ deleted' \subseteq registered'
                   /\ refreshes' \subseteq Ids \X Accounts /\ used' \subseteq Ids
<1>0. Rows /\ Work /\ Tok => VerifyInv'
  BY DEF VerifyInv, VerifyTypeOK
<1>a. NoId \in Ids \cup {NoId} /\ FALSE \in BOOLEAN /\ registered \subseteq Accounts
  BY DEF VerifyInv, VerifyTypeOK
<1>b. \A t \in tokens : t.uid \in Accounts /\ t.uid \in registered /\ t.jti \in Ids \cup {NoId}
  BY DEF VerifyInv, VerifyTypeOK, AllGenuine, Genuine, Claims
<1>c. \A pc \in {"issue", "mailVerify", "mailReset", "revoke", "lookup", "sweep", "leave", "softdelete"} :
        pc \in Signing \cup Preparing
  BY DEF Signing, Preparing
<1>1. ASSUME NEW h \in Handlers, NEW a \in Accounts, Register(h, a) PROVE VerifyInv'
  <2>1. Rows /\ Grows /\ a \in registered' /\ Goes(h, "mailVerify", a, NoId, FALSE)
    BY <1>1 DEF Register, Grows, Begins, VerifyInv, VerifyTypeOK
  <2>2. Work
    BY <1>a, <1>c, <2>1, GoesOn
  <2>3. Tok
    BY <1>1, <2>1, TokensStay DEF Register
  <2>. QED
    BY <1>0, <2>1, <2>2, <2>3
<1>2. ASSUME NEW h \in Handlers, NEW a \in Accounts,
             ResendVerification(h, a) \/ RequestPasswordReset(h, a)
      PROVE  VerifyInv'
  <2>1. PICK pc \in {"mailVerify", "mailReset"} : Begins(h, pc, a, NoId, FALSE)
    BY <1>2 DEF ResendVerification, RequestPasswordReset
  <2>2. a \in registered /\ UNCHANGED <<verifyAccounts, refreshes, used, tokens>>
    BY <1>2 DEF ResendVerification, RequestPasswordReset, Alive
  <2>. QED
    BY <1>a, <1>c, <2>1, <2>2, BeginKeeps
<1>3. ASSUME NEW h \in Handlers, NEW a \in Accounts, Login(h, a) PROVE VerifyInv'
  <2>1. /\ Begins(h, "issue", a, NoId, a \in verified) /\ (a \in verified) \in BOOLEAN
        /\ a \in registered /\ UNCHANGED <<verifyAccounts, refreshes, used, tokens>>
    BY <1>3 DEF Login, Alive
  <2>2. PICK flag \in BOOLEAN : Begins(h, "issue", a, NoId, flag) /\ (flag => a \in verified)
    BY <2>1, Zenon
  <2>. QED
    BY <1>a, <1>c, <2>1, <2>2, BeginKeeps
<1>4. ASSUME NEW h \in Handlers, SendMail(h) PROVE VerifyInv'
  <2> DEFINE a == serving[h].uid
  <2>1. a \in Accounts /\ a \in registered
    BY <1>4, AtIs DEF SendMail
  <2>2. Ends(h) /\ UNCHANGED <<verifyAccounts, refreshes, used>>
        /\ \E t \in {GenerateReset(a), GenerateVerify(a)} : tokens' = tokens \cup {t}
    BY <1>4 DEF SendMail
  <2> HIDE DEF a
  <2>3. PICK t \in {GenerateReset(a), GenerateVerify(a)} : tokens' = tokens \cup {t}
    BY <2>2
  <2>4. {t} \subseteq Claims /\ Genuine(t)
    BY <2>1, Claimed, SignedIsGenuine
  <2>5. Grows
    BY <2>2 DEF Grows, verifyAccounts
  <2>6. \A u \in {t} : Genuine(u)'
    BY <2>4, <2>5, GenuineStays
  <2>7. Tok
    BY <2>3, <2>4, <2>5, <2>6, TokensGrow
  <2>8. Work
    BY <2>2, <2>5, EndsWell
  <2>9. Rows
    BY <2>2 DEF VerifyInv, VerifyTypeOK, verifyAccounts
  <2>. QED
    BY <1>0, <2>7, <2>8, <2>9
<1>5. ASSUME NEW h \in Handlers, IssueSession(h) PROVE VerifyInv'
  <2>1. Tok /\ refreshes' \subseteq Ids \X Accounts /\ used' \subseteq Ids
    BY <1>5, SessionTokens
  <2>2. Ends(h) /\ UNCHANGED verifyAccounts /\ Grows
    BY <1>5 DEF IssueSession, verifyAccounts, Grows
  <2>3. Work
    BY <2>2, EndsWell
  <2>4. Rows
    BY <2>1, <2>2 DEF VerifyInv, VerifyTypeOK, verifyAccounts
  <2>. QED
    BY <1>0, <2>1, <2>3, <2>4
<1>6. ASSUME NEW h \in Handlers, GivesUp(h) PROVE VerifyInv'
  <2>1. Ends(h) /\ UNCHANGED <<verifyAccounts, refreshes, used, tokens>> /\ Grows
    BY <1>6 DEF GivesUp, verifyAccounts, Grows
  <2>2. Work
    BY <2>1, EndsWell
  <2>3. Tok
    BY <2>1, TokensStay
  <2>4. Rows
    BY <2>1 DEF VerifyInv, VerifyTypeOK, verifyAccounts
  <2>. QED
    BY <1>0, <2>2, <2>3, <2>4
<1>7. ASSUME NEW t \in tokens, TokenExpires(t) PROVE VerifyInv'
  <2>1. UNCHANGED <<verifyAccounts, serving, refreshes, used>> /\ tokens' \subseteq tokens /\ Grows
    BY <1>7 DEF TokenExpires, verifyAccounts, Grows
  <2>2. Tok
    BY <2>1, TokensStay
  <2>3. Rows /\ Work
    BY <2>1 DEF VerifyInv, VerifyTypeOK, RequestsHold, verifyAccounts
  <2>. QED
    BY <1>0, <2>2, <2>3
<1>8. ASSUME NEW h \in Handlers, NEW t \in tokens,
             PresentRefresh(h, t) \/ ConfirmReset(h, t) \/ DeleteAccount(h, t)
      PROVE  VerifyInv'
  <2>1. PICK pc \in {"revoke", "sweep", "leave"}, id \in {t.jti, NoId} : Begins(h, pc, t.uid, id, FALSE)
    BY <1>8 DEF PresentRefresh, ConfirmReset, DeleteAccount
  <2>2. UNCHANGED <<verifyAccounts, refreshes, used, tokens>>
    BY <1>8 DEF PresentRefresh, ConfirmReset, DeleteAccount
  <2>3. t.uid \in Accounts /\ t.uid \in registered /\ id \in Ids \cup {NoId}
    BY <1>b
  <2>. QED
    BY <1>a, <1>c, <2>1, <2>2, <2>3, BeginKeeps
<1>9. ASSUME NEW h \in Handlers, RevokePresented(h) PROVE VerifyInv'
  <2>1. serving[h].uid \in Accounts /\ serving[h].uid \in registered
    BY <1>9, AtIs DEF RevokePresented
  <2>2. /\ Goes(h, "lookup", serving[h].uid, NoId, FALSE) /\ refreshes' \subseteq refreshes
        /\ UNCHANGED <<verifyAccounts, used, tokens>> /\ Grows
    BY <1>9 DEF RevokePresented, verifyAccounts, Grows
  <2>3. Work
    BY <1>a, <1>c, <2>1, <2>2, GoesOn DEF Grows
  <2>4. Tok
    BY <2>2, TokensStay
  <2>5. Rows
    BY <2>2 DEF VerifyInv, VerifyTypeOK, verifyAccounts
  <2>. QED
    BY <1>0, <2>3, <2>4, <2>5
<1>10. ASSUME NEW h \in Handlers, FindAccount(h) PROVE VerifyInv'
  <2>1. serving[h].uid \in Accounts /\ serving[h].uid \in registered
    BY <1>10, AtIs DEF FindAccount
  <2>2. UNCHANGED <<verifyAccounts, refreshes, used, tokens>> /\ Grows /\ UNCHANGED verified
    BY <1>10 DEF FindAccount, verifyAccounts, Grows
  <2>3. ASSUME Alive(serving[h].uid) PROVE Work
    <3>1. /\ Goes(h, "issue", serving[h].uid, NoId, serving[h].uid \in verified)
          /\ (serving[h].uid \in verified) \in BOOLEAN
      BY <1>10, <2>3 DEF FindAccount
    <3>2. PICK flag \in BOOLEAN :
            Goes(h, "issue", serving[h].uid, NoId, flag) /\ (flag => serving[h].uid \in verified)
      BY <3>1, Zenon
    <3>. QED
      BY <1>a, <1>c, <2>1, <2>2, <3>2, GoesOn DEF Grows
  <2>4. ASSUME ~Alive(serving[h].uid) PROVE Work
    BY <1>10, <2>2, <2>4, EndsWell DEF FindAccount
  <2>5. Work
    BY <2>3, <2>4
  <2>6. Tok
    BY <2>2, TokensStay
  <2>7. Rows
    BY <2>2 DEF VerifyInv, VerifyTypeOK, verifyAccounts
  <2>. QED
    BY <1>0, <2>5, <2>6, <2>7
<1>11. ASSUME NEW t \in tokens, VerifyEmail(t) PROVE VerifyInv'
  <2>1. Rows /\ Grows /\ UNCHANGED <<serving, tokens, registered>>
    BY <1>11 DEF VerifyEmail, Alive, Grows, VerifyInv, VerifyTypeOK
  <2>2. Work
    BY <2>1 DEF VerifyInv, VerifyTypeOK, RequestsHold, Grows
  <2>3. Tok
    BY <2>1, TokensStay
  <2>. QED
    BY <1>0, <2>1, <2>2, <2>3
<1>12. ASSUME NEW h \in Handlers, RevokeAllOf(h) PROVE VerifyInv'
  <2>1. serving[h].uid \in Accounts /\ serving[h].uid \in registered
    BY <1>12, AtIs DEF RevokeAllOf
  <2>2. refreshes' \subseteq refreshes /\ UNCHANGED <<verifyAccounts, used, tokens>> /\ Grows
        /\ serving[h].uid \in registered'
    BY <1>12, <2>1 DEF RevokeAllOf, verifyAccounts, Grows
  <2>3. ASSUME Ends(h) PROVE Work
    BY <2>2, <2>3, EndsWell
  <2>4. ASSUME Goes(h, "softdelete", serving[h].uid, NoId, FALSE) PROVE Work
    BY <1>a, <1>c, <2>1, <2>2, <2>4, GoesOn
  <2>5. Work
    BY <1>12, <2>3, <2>4 DEF RevokeAllOf
  <2>6. Tok
    BY <2>2, TokensStay
  <2>7. Rows
    BY <2>2 DEF VerifyInv, VerifyTypeOK, verifyAccounts
  <2>. QED
    BY <1>0, <2>5, <2>6, <2>7
<1>13. ASSUME NEW h \in Handlers, SoftDelete(h) PROVE VerifyInv'
  <2>1. serving[h].uid \in registered
    BY <1>13, AtIs DEF SoftDelete
  <2>2. Rows /\ Grows /\ Ends(h) /\ UNCHANGED tokens
    BY <1>13, <2>1 DEF SoftDelete, Grows, VerifyInv, VerifyTypeOK
  <2>3. Work
    BY <2>2, EndsWell
  <2>4. Tok
    BY <2>2, TokensStay
  <2>. QED
    BY <1>0, <2>2, <2>3, <2>4
<1>14. CASE UNCHANGED verifyVars
  <2>1. Rows /\ Work /\ Grows /\ UNCHANGED tokens
    BY <1>14 DEF verifyVars, verifyAccounts, Grows, VerifyInv, VerifyTypeOK, RequestsHold
  <2>2. Tok
    BY <2>1, TokensStay
  <2>. QED
    BY <1>0, <2>1, <2>2
<1>15. CASE VerifyStep
  BY <1>15, <1>1, <1>2, <1>3, <1>4, <1>5, <1>6, <1>7, <1>8, <1>9, <1>10, <1>11, <1>12, <1>13
     DEF VerifyStep
<1>. QED
  BY <1>14, <1>15 DEF VerifyNext

\* What no step does to a deleted account.
StaysOut ==
  \A a \in deleted :
    /\ a \in verified' => a \in verified
    /\ AboutToSign(a)' \subseteq AboutToSign(a)
    /\ (\E t \in tokens' \ tokens : t.uid = a) \/ (\E r \in refreshes' \ refreshes : r[2] = a)
         => AboutToSign(a)' # AboutToSign(a)

\* A handler that goes on from where it found its account does not join those
\* about to sign for another, and one that goes on to sign nothing joins none.
LEMMA SignersOf ==
  ASSUME VerifyInv, NEW a, NEW h \in Handlers,
         \/ Ends(h)
         \/ \E pc, b, id, flag : Goes(h, pc, b, id, flag) /\ (b # a \/ pc \notin Signing)
  PROVE  AboutToSign(a)' \subseteq AboutToSign(a) /\ h \notin AboutToSign(a)'
<1>1. serving \in [Handlers -> Request \cup {NoRequest}]
  BY DEF VerifyInv, VerifyTypeOK
<1>2. \A k \in Handlers : k # h => serving'[k] = serving[k]
  BY <1>1 DEF Ends, Goes
<1>3. h \notin AboutToSign(a)'
  <2>1. CASE Ends(h)
    BY <1>1, <2>1 DEF Ends, AboutToSign, At
  <2>2. CASE \E pc, b, id, flag : Goes(h, pc, b, id, flag) /\ (b # a \/ pc \notin Signing)
    <3>1. PICK pc, b, id, flag : Goes(h, pc, b, id, flag) /\ (b # a \/ pc \notin Signing)
      BY <2>2
    <3>2. serving'[h].pc = pc /\ serving'[h].uid = b
      BY <1>1, <3>1 DEF Goes
    <3>. QED
      BY <3>1, <3>2 DEF AboutToSign, At
  <2>. QED
    BY <2>1, <2>2
<1>4. \A k \in AboutToSign(a)' : k \in AboutToSign(a)
  BY <1>2, <1>3 DEF AboutToSign, At
<1>. QED
  BY <1>3, <1>4

\* Only an account that is alive gets a signer, and only a signer brings tokens.
LEMMA VerifyStepOut == VerifyInv /\ [VerifyNext]_verifyVars => [StaysOut]_verifyVars
<1> SUFFICES ASSUME VerifyInv, VerifyStep, NEW a \in deleted
             PROVE  /\ a \in verified' => a \in verified
                    /\ AboutToSign(a)' \subseteq AboutToSign(a)
                    /\ (\E t \in tokens' \ tokens : t.uid = a)
                         \/ (\E r \in refreshes' \ refreshes : r[2] = a)
                         => AboutToSign(a)' # AboutToSign(a)
  BY DEF StaysOut, VerifyNext
<1> DEFINE Quiet == a \in verified' => a \in verified
<1> DEFINE NoneJoins == AboutToSign(a)' \subseteq AboutToSign(a)
<1> DEFINE NothingNew == tokens' \subseteq tokens /\ refreshes' \subseteq refreshes
<1> DEFINE Goal == /\ Quiet /\ NoneJoins
                   /\ (\E t \in tokens' \ tokens : t.uid = a)
                        \/ (\E r \in refreshes' \ refreshes : r[2] = a)
                        => AboutToSign(a)' # AboutToSign(a)
<1>0. a \in registered /\ ~Alive(a)
  BY DEF VerifyInv, VerifyTypeOK, Alive
<1>a. Quiet /\ NoneJoins /\ NothingNew => Goal
  OBVIOUS
<1>1. ASSUME NEW h \in Handlers, NEW b \in Accounts,
             Register(h, b) \/ ResendVerification(h, b) \/ RequestPasswordReset(h, b) \/ Login(h, b)
      PROVE  Goal
  <2>1. b # a /\ verified' = verified /\ NothingNew
    BY <1>0, <1>1 DEF Register, ResendVerification, RequestPasswordReset, Login, verifyAccounts, Alive
  <2>2. \E pc, id, flag : Goes(h, pc, b, id, flag)
    BY <1>1, Zenon DEF Register, ResendVerification, RequestPasswordReset, Login, Begins
  <2>3. NoneJoins
    BY <2>1, <2>2, SignersOf
  <2>. QED
    BY <1>a, <2>1, <2>3
<1>2. ASSUME NEW h \in Handlers, NEW t \in tokens,
             PresentRefresh(h, t) \/ ConfirmReset(h, t) \/ DeleteAccount(h, t)
      PROVE  Goal
  <2>1. verified' = verified /\ NothingNew
    BY <1>2 DEF PresentRefresh, ConfirmReset, DeleteAccount, verifyAccounts
  <2>2. \E pc \in {"revoke", "sweep", "leave"} : \E id : Goes(h, pc, t.uid, id, FALSE)
    BY <1>2 DEF PresentRefresh, ConfirmReset, DeleteAccount, Begins
  <2>3. \A pc \in {"revoke", "sweep", "leave"} : pc \notin Signing
    BY DEF Signing
  <2>4. \E pc, b, id, flag : Goes(h, pc, b, id, flag) /\ (b # a \/ pc \notin Signing)
    BY <2>2, <2>3
  <2>5. NoneJoins
    BY <2>4, SignersOf
  <2>. QED
    BY <1>a, <2>1, <2>5
<1>3. ASSUME NEW h \in Handlers, SendMail(h) \/ IssueSession(h) PROVE Goal
  <2>1. verified' = verified /\ Ends(h) /\ At(h, Signing)
    BY <1>3 DEF SendMail, IssueSession, verifyAccounts, At, Signing
  <2>2. NoneJoins /\ h \notin AboutToSign(a)'
    BY <2>1, SignersOf
  <2>3. CASE serving[h].uid = a
    <3>1. h \in AboutToSign(a)
      BY <2>1, <2>3 DEF AboutToSign
    <3>. QED
      BY <2>1, <2>2, <3>1
  <2>4. CASE serving[h].uid # a
    <3> DEFINE b == serving[h].uid
    <3>1. \A r \in refreshes' \ refreshes : r[2] = b
      BY <1>3 DEF SendMail, IssueSession
    <3>2. \A t \in tokens' \ tokens : t.uid = b
      <4>1. CASE SendMail(h)
        <5>1. tokens' \subseteq tokens \cup {GenerateReset(b), GenerateVerify(b)}
          BY <4>1 DEF SendMail
        <5>2. GenerateReset(b).uid = b /\ GenerateVerify(b).uid = b
          BY DEF GenerateReset, GenerateVerify, RefreshClaims
        <5>. QED
          BY <5>1, <5>2
      <4>2. CASE IssueSession(h)
        <5>1. PICK id \in Ids : tokens' \subseteq tokens \cup {GenerateAccess(b, serving[h].verified),
                                                              GenerateRefresh(b, id)}
          BY <4>2 DEF IssueSession
        <5>2. GenerateAccess(b, serving[h].verified).uid = b /\ GenerateRefresh(b, id).uid = b
          BY DEF GenerateAccess, GenerateRefresh, RefreshClaims
        <5>. QED
          BY <5>1, <5>2
      <4>. QED
        BY <1>3, <4>1, <4>2
    <3>. QED
      BY <2>1, <2>2, <2>4, <3>1, <3>2
  <2>. QED
    BY <2>3, <2>4
<1>4. ASSUME NEW h \in Handlers, GivesUp(h) \/ SoftDelete(h) PROVE Goal
  <2>1. verified' = verified /\ Ends(h) /\ NothingNew
    BY <1>4 DEF GivesUp, SoftDelete, verifyAccounts
  <2>2. NoneJoins
    BY <2>1, SignersOf
  <2>. QED
    BY <1>a, <2>1, <2>2
<1>5. ASSUME NEW h \in Handlers, RevokePresented(h) \/ RevokeAllOf(h) PROVE Goal
  <2>1. verified' = verified /\ NothingNew
    BY <1>5 DEF RevokePresented, RevokeAllOf, verifyAccounts
  <2>2. Ends(h) \/ \E pc \in {"lookup", "softdelete"} : Goes(h, pc, serving[h].uid, NoId, FALSE)
    BY <1>5 DEF RevokePresented, RevokeAllOf
  <2>3. "lookup" \notin Signing /\ "softdelete" \notin Signing
    BY DEF Signing
  <2>4. NoneJoins
    BY <2>2, <2>3, SignersOf
  <2>. QED
    BY <1>a, <2>1, <2>4
<1>6. ASSUME NEW h \in Handlers, FindAccount(h) PROVE Goal
  <2>1. verified' = verified /\ NothingNew
    BY <1>6 DEF FindAccount, verifyAccounts
  <2>2. ASSUME Alive(serving[h].uid) PROVE NoneJoins
    <3>1. serving[h].uid # a /\ \E pc, id, flag : Goes(h, pc, serving[h].uid, id, flag)
      BY <1>0, <1>6, <2>2, Zenon DEF FindAccount
    <3>. QED
      BY <3>1, SignersOf
  <2>3. ASSUME ~Alive(serving[h].uid) PROVE NoneJoins
    BY <1>6, <2>3, SignersOf DEF FindAccount
  <2>. QED
    BY <1>a, <2>1, <2>2, <2>3
<1>7. ASSUME NEW t \in tokens, TokenExpires(t) \/ VerifyEmail(t) PROVE Goal
  <2>1. Quiet /\ NothingNew /\ UNCHANGED serving
    BY <1>0, <1>7 DEF TokenExpires, VerifyEmail, verifyAccounts
  <2>2. NoneJoins
    BY <2>1 DEF AboutToSign, At
  <2>. QED
    BY <1>a, <2>1, <2>2
<1>8. Goal
  BY <1>1, <1>2, <1>3, <1>4, <1>5, <1>6, <1>7 DEF VerifyStep
<1>. QED
  BY <1>8

-----------------------------------------------------------------------------
\* Every variable keeps its type.
THEOREM VerifyTyped == VerifySpec => []VerifyTypeOK
<1>1. VerifyInv => VerifyTypeOK
  BY DEF VerifyInv
<1>. QED
  BY VerifyInitInv, VerifyStepInv, <1>1, PTL DEF VerifySpec

\* A verification link, a reset link, a refresh token and an access token each
\* work only where they were meant to, and the claims the gates believe are true.
THEOREM WordKept == VerifySpec => []TokensKeepTheirWord
  BY VerifyInitInv, VerifyStepInv, WordFollows, PTL DEF VerifySpec

\* A deleted account is never verified, and gets a token only from the handlers
\* that had found it before, one each.
THEOREM OutForGood == VerifySpec => DeletedIsOut
<1>1. VerifySpec => [][StaysOut]_verifyVars
  BY VerifyInitInv, VerifyStepInv, VerifyStepOut, PTL DEF VerifySpec
<1>. QED
  BY <1>1 DEF DeletedIsOut, StaysOut

-----------------------------------------------------------------------------
(***************************************************************************)
(* BrandKits, for any requests that overlap: a kit is its owner's for ever, *)
(* and every client is told the truth.                                     *)
(*                                                                         *)
(* The invariant says of a request between its read and its write that the *)
(* kit it found is its sender's still, and of a row named by a request that *)
(* this request alone can have made it.                                    *)
(***************************************************************************)

\* What a request knows once it has looked for the kit, and when it is over: a
\* kit it found is its sender's and stays so; and the row that is named by a
\* request is written by that request alone.
PutsOK ==
  \A p \in Puts :
    /\ put[p].pc = "replace" => kits[put[p].id] # NoKit /\ kits[put[p].id].owner = put[p].owner
    /\ put[p].pc = "done" /\ put[p].answer = "not_found" => kits[put[p].id] # NoKit
    /\ kits[p] # NoKit => put[p].pc = "done"

KitInv == KitTypeOK /\ PutsOK /\ KitIsItsOwners /\ ClientsToldTruth

\* There are no kits and no requests at the start.
LEMMA KitInitInv == KitInit => KitInv
BY KitAssumption DEF KitInit, KitInv, KitTypeOK, PutsOK, KitIsItsOwners, ClientsToldTruth, Fresh

\* A kit is a kit.
LEMMA KitIsOne == \A k \in Kits : k # NoKit
BY KitAssumption DEF Kits

\* A look-up: what it found is still so when the request writes.
LEMMA StepFind ==
  ASSUME KitInv, NEW p \in Puts, NEW id \in KitIds, NEW says \in Inputs, FindKit(p, id, says)
  PROVE  KitInv'
<1>1. PICK q \in Sent : /\ put' = [put EXCEPT ![p] = q] /\ q.id = id /\ q.owner = Sender[p] /\ q.says = says
                        /\ q.pc \in {"replace", "insert", "done"}
                        /\ q.pc = "replace" => kits[id] # NoKit /\ kits[id].owner = Sender[p]
                        /\ q.answer = "none" <=> q.pc # "done"
                        /\ q.answer \in {"none", "internal", "not_found"}
                        /\ q.answer = "not_found" => kits[id] # NoKit /\ kits[id].owner # Sender[p]
  <2>1. PICK step \in {"done", IF kits[id] = NoKit THEN "insert" ELSE "replace"},
             answer \in {"none", "internal", "not_found"} :
          /\ answer = "none" <=> step # "done"
          /\ answer = "not_found" => kits[id] # NoKit /\ kits[id].owner # Sender[p]
          /\ step = "replace" => kits[id].owner = Sender[p]
          /\ put' = [put EXCEPT ![p] = [pc |-> step, id |-> id, owner |-> Sender[p],
                                       says |-> says, answer |-> answer]]
    BY DEF FindKit
  <2> DEFINE q == [pc |-> step, id |-> id, owner |-> Sender[p], says |-> says, answer |-> answer]
  <2>2. q \in Sent
    BY KitAssumption DEF Sent
  <2>. QED
    BY <2>1, <2>2
<1>2. /\ put' \in [Puts -> {Fresh} \cup Sent] /\ put'[p] = q
      /\ \A r \in Puts : r # p => put'[r] = put[r]
  BY <1>1 DEF KitInv, KitTypeOK
<1>3. kits' = kits /\ put[p] = Fresh
  BY DEF FindKit
<1>4. KitTypeOK'
  BY <1>2, <1>3 DEF KitInv, KitTypeOK
<1>5. PutsOK'
  BY <1>1, <1>2, <1>3 DEF KitInv, PutsOK, Fresh
<1>6. KitIsItsOwners'
  BY <1>1, <1>2, <1>3 DEF KitInv, KitIsItsOwners, Fresh, Row
<1>7. ClientsToldTruth'
  BY <1>1, <1>2, <1>3 DEF KitInv, ClientsToldTruth, Row
<1>. QED
  BY <1>4, <1>5, <1>6, <1>7 DEF KitInv

\* A request that ends changes itself alone.
LEMMA DoneIs ==
  ASSUME KitInv, NEW p \in Puts, NEW answer \in {"none", "ok", "not_found", "conflict", "internal"},
         put[p].pc \in {"replace", "insert"}, Done(p, answer)
  PROVE  /\ put' \in [Puts -> {Fresh} \cup Sent] /\ \A r \in Puts : r # p => put'[r] = put[r]
         /\ put[p] \in Sent /\ put'[p].pc = "done" /\ put'[p].answer = answer
         /\ put'[p].id = put[p].id /\ put'[p].owner = put[p].owner /\ put'[p].says = put[p].says
<1>1. put \in [Puts -> {Fresh} \cup Sent] /\ put[p] \in Sent
  BY DEF KitInv, KitTypeOK, Fresh
<1> DEFINE q == [put[p] EXCEPT !.pc = "done", !.answer = answer]
<1>2. q \in Sent /\ q.pc = "done" /\ q.answer = answer /\ q.id = put[p].id /\ q.owner = put[p].owner /\ q.says = put[p].says
  BY <1>1 DEF Sent
<1>3. put' = [put EXCEPT ![p] = q]
  BY <1>1 DEF Done
<1>. QED
  BY <1>1, <1>2, <1>3

\* A statement that fails leaves the rows as they are, and its client is told so.
LEMMA KitStepFails ==
  ASSUME KitInv, NEW p \in Puts, StatementFails(p)
  PROVE  KitInv'
<1>1. /\ put' \in [Puts -> {Fresh} \cup Sent] /\ \A r \in Puts : r # p => put'[r] = put[r]
      /\ put[p] \in Sent /\ put'[p].pc = "done" /\ put'[p].answer = "internal"
      /\ put'[p].id = put[p].id /\ put'[p].owner = put[p].owner /\ put'[p].says = put[p].says
      /\ kits' = kits /\ put[p].pc # "done"
  BY DoneIs DEF StatementFails
<1>2. KitTypeOK' /\ PutsOK'
  BY <1>1 DEF KitInv, KitTypeOK, PutsOK
<1>3. KitIsItsOwners'
  BY <1>1 DEF KitInv, KitIsItsOwners, Row
<1>4. ClientsToldTruth'
  BY <1>1 DEF KitInv, ClientsToldTruth, Row
<1>. QED
  BY <1>2, <1>3, <1>4 DEF KitInv

\* An update writes the row the request found, which is its sender's.
LEMMA StepReplace ==
  ASSUME KitInv, NEW p \in Puts, Replace(p)
  PROVE  KitInv'
<1>1. PICK answer \in {"ok", "internal"} : Done(p, answer)
  BY DEF Replace
<1>2. /\ put' \in [Puts -> {Fresh} \cup Sent] /\ \A r \in Puts : r # p => put'[r] = put[r]
      /\ put[p] \in Sent /\ put'[p].pc = "done" /\ put'[p].answer = answer
      /\ put'[p].id = put[p].id /\ put'[p].owner = put[p].owner /\ put'[p].says = put[p].says
      /\ put[p].pc = "replace"
  BY <1>1, DoneIs DEF Replace
<1> DEFINE id == put[p].id
<1>3. /\ id \in KitIds /\ kits[id] # NoKit /\ kits[id] \in Kits /\ kits[id].owner = put[p].owner /\ id # NilId
      /\ put[p].says \in Inputs
  BY <1>2 DEF KitInv, PutsOK, KitTypeOK, Sent
<1>4. /\ kits' \in [KitIds \cup Puts -> Kits \cup {NoKit}]
      /\ \A k \in KitIds \cup Puts : k # id => kits'[k] = kits[k]
      /\ kits'[id] \in Kits /\ kits'[id].owner = kits[id].owner /\ kits'[id].says = put[p].says
  <2> DEFINE k == [kits[id] EXCEPT !.says = put[p].says]
  <2>1. k \in Kits /\ k.owner = kits[id].owner /\ k.says = put[p].says
    BY <1>3 DEF Kits
  <2>2. kits' = [kits EXCEPT ![id] = k]
    BY DEF Replace
  <2>. QED
    BY <1>3, <2>1, <2>2 DEF KitInv, KitTypeOK
<1>5. kits'[id] # NoKit
  BY <1>4, KitIsOne
<1>6. KitTypeOK'
  BY <1>2, <1>3, <1>4 DEF KitInv, KitTypeOK
<1>7. PutsOK'
  BY <1>2, <1>3, <1>4, <1>5, KitAssumption DEF KitInv, PutsOK, KitTypeOK, Sent, Fresh
<1>8. KitIsItsOwners'
  BY <1>2, <1>3, <1>4, <1>5 DEF KitInv, KitTypeOK, KitIsItsOwners, Row
<1>9. ClientsToldTruth'
  <2> SUFFICES ASSUME NEW r \in Puts, put'[r].pc = "done"
               PROVE  /\ put'[r].answer = "ok" => kits'[Row(r)'] # NoKit /\ kits'[Row(r)'].owner = put'[r].owner
                      /\ put'[r].answer = "not_found" => kits'[put'[r].id].owner # put'[r].owner
                      /\ put'[r].answer = "conflict" => kits'[put'[r].id] # NoKit
    BY DEF ClientsToldTruth
  <2>1. CASE r = p
    BY <1>2, <1>3, <1>4, <1>5, <2>1 DEF Row
  <2>2. CASE r # p
    <3>1. put'[r] = put[r] /\ put[r] \in Sent
      BY <1>2, <2>2 DEF KitInv, KitTypeOK, Fresh
    <3>. QED
      BY <1>3, <1>4, <1>5, <3>1 DEF KitInv, ClientsToldTruth, Row, Sent
  <2>. QED
    BY <2>1, <2>2
<1>. QED
  BY <1>6, <1>7, <1>8, <1>9 DEF KitInv

\* An insert takes a new row, or meets the one that another request put there first.
LEMMA StepInsert ==
  ASSUME KitInv, NEW p \in Puts, Insert(p)
  PROVE  KitInv'
<1>1. PICK answer \in {"ok", "internal", "conflict"} :
         /\ Done(p, answer)
         /\ answer = "conflict" => kits[Row(p)] # NoKit /\ kits' = kits
         /\ answer # "conflict" =>
              kits[Row(p)] = NoKit
              /\ kits' = [kits EXCEPT ![Row(p)] = [owner |-> put[p].owner, says |-> put[p].says]]
  BY DEF Insert
<1>2. /\ put' \in [Puts -> {Fresh} \cup Sent] /\ \A r \in Puts : r # p => put'[r] = put[r]
      /\ put[p] \in Sent /\ put'[p].pc = "done" /\ put'[p].answer = answer
      /\ put'[p].id = put[p].id /\ put'[p].owner = put[p].owner /\ put'[p].says = put[p].says
      /\ put[p].pc = "insert"
  BY <1>1, DoneIs DEF Insert
<1> DEFINE id == Row(p)
           k  == [owner |-> put[p].owner, says |-> put[p].says]
<1>3. /\ id \in KitIds \cup Puts /\ id # NilId /\ k \in Kits /\ k # NoKit /\ put[p].id \in KitIds
      /\ id = put[p].id \/ (id = p /\ put[p].id = NilId)
      /\ Row(p)' = id
  BY <1>2, KitIsOne, KitAssumption DEF Row, Sent, Kits
<1>4. CASE answer = "conflict"
  <2>1. kits' = kits /\ id = put[p].id /\ kits[id] # NoKit
    BY <1>1, <1>2, <1>3, <1>4 DEF KitInv, PutsOK
  <2>2. KitTypeOK' /\ PutsOK'
    BY <1>2, <2>1, <1>4 DEF KitInv, KitTypeOK, PutsOK
  <2>3. KitIsItsOwners'
    BY <1>2, <2>1 DEF KitInv, KitIsItsOwners, Row
  <2>4. ClientsToldTruth'
    BY <1>2, <2>1, <1>4 DEF KitInv, ClientsToldTruth, Row
  <2>. QED
    BY <2>2, <2>3, <2>4 DEF KitInv
<1>5. CASE answer # "conflict"
  <2>1. /\ kits[id] = NoKit /\ kits' \in [KitIds \cup Puts -> Kits \cup {NoKit}] /\ kits'[id] = k
        /\ \A i \in KitIds \cup Puts : i # id => kits'[i] = kits[i]
    BY <1>1, <1>3, <1>5 DEF KitInv, KitTypeOK
  <2>2. KitTypeOK'
    BY <1>2, <1>3, <2>1 DEF KitInv, KitTypeOK
  <2>3. PutsOK'
    <3> SUFFICES ASSUME NEW r \in Puts
                 PROVE  /\ put'[r].pc = "replace" => kits'[put'[r].id] # NoKit /\ kits'[put'[r].id].owner = put'[r].owner
                        /\ put'[r].pc = "done" /\ put'[r].answer = "not_found" => kits'[put'[r].id] # NoKit
                        /\ kits'[r] # NoKit => put'[r].pc = "done"
      BY DEF PutsOK
    <3>1. CASE r = p
      BY <1>2, <1>5, <3>1
    <3>2. CASE r # p
      <4>1. put'[r] = put[r] /\ kits'[r] = kits[r]
        BY <1>2, <1>3, <2>1, <3>2, KitAssumption DEF KitInv, KitTypeOK, Fresh
      <4>2. put[r].pc \in {"replace", "done"} => put[r].id \in KitIds
        BY DEF KitInv, KitTypeOK, Fresh, Sent
      <4>. QED
        BY <1>3, <2>1, <4>1, <4>2 DEF KitInv, PutsOK
    <3>. QED
      BY <3>1, <3>2
  <2>4. KitIsItsOwners'
    <3> SUFFICES ASSUME NEW i \in KitIds \cup Puts, kits'[i] # NoKit
                 PROVE  \E q \in Puts : /\ put'[q].pc = "done" /\ Row(q)' = i
                                        /\ put'[q].owner = kits'[i].owner /\ put'[q].says = kits'[i].says
      BY <2>2 DEF KitIsItsOwners, KitTypeOK
    <3>1. CASE i = id
      BY <1>2, <1>3, <2>1, <3>1
    <3>2. CASE i # id
      BY <1>2, <2>1, <3>2 DEF KitInv, KitTypeOK, KitIsItsOwners, Row
    <3>. QED
      BY <3>1, <3>2
  <2>5. ClientsToldTruth'
    <3> SUFFICES ASSUME NEW r \in Puts, put'[r].pc = "done"
                 PROVE  /\ put'[r].answer = "ok" => kits'[Row(r)'] # NoKit /\ kits'[Row(r)'].owner = put'[r].owner
                        /\ put'[r].answer = "not_found" => kits'[put'[r].id].owner # put'[r].owner
                        /\ put'[r].answer = "conflict" => kits'[put'[r].id] # NoKit
      BY DEF ClientsToldTruth
    <3>1. CASE r = p
      BY <1>2, <1>3, <1>5, <2>1, <3>1
    <3>2. CASE r # p
      <4>1. put'[r] = put[r] /\ put[r] \in Sent /\ Row(r)' = Row(r)
        BY <1>2, <3>2 DEF KitInv, KitTypeOK, Fresh, Row
      <4>2. put[r].id \in KitIds /\ Row(r) \in KitIds \cup Puts
        BY <4>1 DEF Row, Sent
      <4>. QED
        BY <2>1, <4>1, <4>2 DEF KitInv, ClientsToldTruth, PutsOK
    <3>. QED
      BY <3>1, <3>2
  <2>. QED
    BY <2>2, <2>3, <2>4, <2>5 DEF KitInv
<1>. QED
  BY <1>4, <1>5

\* The invariant holds of every behaviour of the kit service.
THEOREM KitsKept == KitSpec => []KitInv
<1>1. KitInv /\ [KitNext]_kitVars => KitInv'
  <2> SUFFICES ASSUME KitInv, [KitNext]_kitVars PROVE KitInv'
    OBVIOUS
  <2>1. ASSUME KitNext PROVE KitInv'
    BY <2>1, StepFind, StepReplace, StepInsert, KitStepFails DEF KitNext
  <2>2. CASE UNCHANGED kitVars
    BY <2>2 DEF KitInv, KitTypeOK, PutsOK, KitIsItsOwners, ClientsToldTruth, Row, kitVars
  <2>. QED
    BY <2>1, <2>2
<1>. QED
  BY KitInitInv, <1>1, PTL DEF KitSpec

\* Every kit is its owner's, and a client told of success or of a conflict is told the truth
\* (KitsSafe), for any number of overlapping PUTs.
THEOREM KitsAreSafe == KitSpec => []KitsSafe
<1>1. KitInv => KitsSafe
  BY DEF KitInv, KitsSafe
<1>. QED
  BY KitsKept, <1>1, PTL

\* Rows are written, never taken away, and keep their owner, however the look-ups
\* and the writes of several requests overlap.
KitsStay ==
  \A id \in KitIds \cup Puts :
    kits[id] # NoKit => kits'[id] # NoKit /\ kits'[id].owner = kits[id].owner

\* A step that writes a row leaves its owner and every other row alone (KitsStay).
THEOREM OwnersStay == KitSpec => [][KitsStay]_kitVars
<1>1. ASSUME KitInv, KitNext PROVE KitsStay
  <2> SUFFICES ASSUME NEW p \in Puts, Replace(p) \/ Insert(p) PROVE KitsStay
    BY <1>1 DEF KitNext, FindKit, StatementFails, KitsStay
  <2>1. CASE Insert(p)
    BY <1>1, <2>1 DEF Insert, Done, KitInv, KitTypeOK, KitsStay
  <2>2. CASE Replace(p)
    <3> DEFINE id == put[p].id
               k  == [kits[id] EXCEPT !.says = put[p].says]
    <3>1. put[p] \in Sent /\ put[p].pc = "replace" /\ id \in KitIds /\ kits[id] \in Kits
      BY <1>1, <2>2 DEF Replace, KitInv, KitTypeOK, PutsOK, Fresh, Sent
    <3>2. k \in Kits /\ k.owner = kits[id].owner /\ k # NoKit
      BY <3>1, KitIsOne DEF Kits, Sent
    <3>3. kits' = [kits EXCEPT ![id] = k]
      BY <2>2 DEF Replace
    <3>. QED
      BY <1>1, <3>2, <3>3 DEF KitInv, KitTypeOK, KitsStay
  <2>. QED
    BY <2>1, <2>2
<1>. QED
  BY KitsKept, <1>1, PTL DEF KitSpec

-----------------------------------------------------------------------------
(***************************************************************************)
(* Reminders, for any posts, batches and restarts: nobody is notified twice. *)
(*                                                                         *)
(* The invariant says of what a sweep has still to go through that it is due, *)
(* told to nobody, and pending, but for the first once it is marked. That the *)
(* batch names no post twice is where the proof starts (BatchIs).          *)
(***************************************************************************)

\* What the sweep has still to go through is due, once, and not told; the one
\* whose user is about to be notified is marked already.
SweepOK ==
  /\ \A i, j \in 1..Len(sweep.due) : sweep.due[i] = sweep.due[j] => i = j
  /\ \A i \in 1..Len(sweep.due) :
       /\ reminder[sweep.due[i]].at <= clock
       /\ told[sweep.due[i]] = 0
       /\ reminder[sweep.due[i]].status = IF i = 1 /\ sweep.pc = "notify" THEN "fired" ELSE "pending"

ReminderInv == ReminderTypeOK /\ SweepOK /\ NotifiedOnce

\* There is nothing to remind anybody of at the start.
LEMMA ReminderInitInv == ReminderInit => ReminderInv
<1> SUFFICES ASSUME ReminderInit PROVE ReminderInv
  OBVIOUS
<1>1. sweep = [pc |-> "idle", due |-> <<>>] /\ Len(sweep.due) = 0 /\ sweep.due \in Seq(Posts)
  BY DEF ReminderInit, Resting
<1>2. ReminderTypeOK
  BY <1>1, ReminderAssumption DEF ReminderInit, ReminderTypeOK
<1>3. SweepOK
  BY <1>1 DEF SweepOK
<1>4. NotifiedOnce
  BY <1>1, ReminderAssumption DEF ReminderInit, NotifiedOnce
<1>. QED
  BY <1>2, <1>3, <1>4 DEF ReminderInv

\* A batch the sweep may find holds due reminders, none twice.
LEMMA BatchIs ==
  ASSUME NEW s \in Batches
  PROVE  /\ s \in Seq(Posts) /\ \A i \in 1..Len(s) : Due(s[i])
         /\ \A i, j \in 1..Len(s) : s[i] = s[j] => i = j
<1> DEFINE due == {p \in Posts : Due(p)}
<1>1. s \in SetToAllKPermutations(due)
  BY DEF Batches
<1>2. PICK t \in SUBSET due : s \in SetToSeqs(t)
  BY <1>1 DEF SetToAllKPermutations
<1>3. IsFiniteSet(t) /\ Cardinality(t) \in Nat
  BY <1>2, ReminderAssumption, FS_Subset, FS_CardinalityType
<1>4. s \in [1..Cardinality(t) -> t] /\ \A i, j \in 1..Cardinality(t) : i # j => s[i] # s[j]
  BY <1>2 DEF SetToSeqs
<1>5. s \in Seq(Posts) /\ Len(s) = Cardinality(t)
  BY <1>3, <1>4
<1>. QED
  BY <1>4, <1>5

\* The reminder at hand, and what the sweep has left after it.
LEMMA RestIs ==
  ASSUME ReminderInv, sweep.pc # "idle"
  PROVE  /\ sweep.due \in Seq(Posts) /\ Len(sweep.due) \in Nat \ {0} /\ Head(sweep.due) = sweep.due[1]
         /\ sweep.due[1] \in Posts
         /\ Rest \in [pc: {"idle", "mark"}, due: Seq(Posts)]
         /\ Rest.pc = "idle" <=> Rest.due = <<>>
         /\ Len(Rest.due) = Len(sweep.due) - 1
         /\ \A i \in 1..Len(Rest.due) : Rest.due[i] = sweep.due[i + 1]
<1>1. sweep.due \in Seq(Posts) /\ sweep.due # <<>>
  BY DEF ReminderInv, ReminderTypeOK
<1>2. Len(sweep.due) \in Nat \ {0} /\ Head(sweep.due) = sweep.due[1] /\ sweep.due[1] \in Posts
  BY <1>1
<1>3. CASE Len(sweep.due) = 1
  BY <1>1, <1>2, <1>3 DEF Rest, Resting
<1>4. CASE Len(sweep.due) # 1
  <2> DEFINE t == Tail(sweep.due)
  <2>1. t \in Seq(Posts) /\ Len(t) = Len(sweep.due) - 1 /\ \A i \in 1..Len(t) : t[i] = sweep.due[i + 1]
    BY <1>1
  <2>2. Len(t) # 0 /\ Len(<<>>) = 0
    BY <1>2, <1>4, <2>1
  <2>3. t # <<>>
    BY <2>2
  <2>. QED
    BY <1>1, <1>2, <1>4, <2>1, <2>3 DEF Rest
<1>. QED
  BY <1>1, <1>2, <1>3, <1>4

\* Marking the first reminder of the sweep.
LEMMA FiredIs ==
  ASSUME ReminderInv, sweep.pc = "mark", reminder' = Fired
  PROVE  /\ reminder' \in [Posts -> [status: {"absent", "pending", "fired"}, at: 0..MaxClock + Horizon]]
         /\ reminder'[sweep.due[1]].status = "fired" /\ reminder'[sweep.due[1]].at = reminder[sweep.due[1]].at
         /\ \A p \in Posts : p # sweep.due[1] => reminder'[p] = reminder[p]
<1> DEFINE h == sweep.due[1]
           r == [reminder[h] EXCEPT !.status = "fired"]
<1>1. h \in Posts /\ reminder' = [reminder EXCEPT ![h] = r]
  BY RestIs DEF Fired
<1>2. reminder[h] \in [status: {"absent", "pending", "fired"}, at: 0..MaxClock + Horizon]
  BY <1>1 DEF ReminderInv, ReminderTypeOK
<1>3. r \in [status: {"absent", "pending", "fired"}, at: 0..MaxClock + Horizon] /\ r.status = "fired" /\ r.at = reminder[h].at
  BY <1>2
<1>. QED
  BY <1>1, <1>3 DEF ReminderInv, ReminderTypeOK

\* The clock and new reminders change nothing the sweep holds.
LEMMA StepQuiet ==
  ASSUME ReminderInv, ClockTicks \/ \E p \in Posts : CreateReminder(p)
  PROVE  ReminderInv'
<1>1. CASE ClockTicks
  <2>1. ReminderTypeOK'
    BY <1>1, ReminderAssumption DEF ClockTicks, ReminderInv, ReminderTypeOK
  <2>2. SweepOK'
    <3>1. \A i \in 1..Len(sweep.due) : sweep.due[i] \in Posts /\ reminder[sweep.due[i]].at \in Nat
      BY ReminderAssumption DEF ReminderInv, ReminderTypeOK
    <3>. QED
      BY <1>1, <3>1, ReminderAssumption DEF ClockTicks, ReminderInv, ReminderTypeOK, SweepOK
  <2>3. NotifiedOnce'
    BY <1>1, ReminderAssumption DEF ClockTicks, ReminderInv, ReminderTypeOK, NotifiedOnce
  <2>. QED
    BY <2>1, <2>2, <2>3 DEF ReminderInv
<1>2. ASSUME NEW p \in Posts, CreateReminder(p) PROVE ReminderInv'
  <2>1. PICK at \in clock..clock + Horizon : reminder' = [reminder EXCEPT ![p] = [status |-> "pending", at |-> at]]
    BY <1>2 DEF CreateReminder
  <2>2. at \in 0..MaxClock + Horizon
    BY ReminderAssumption DEF ReminderInv, ReminderTypeOK
  <2>3. /\ reminder' \in [Posts -> [status: {"absent", "pending", "fired"}, at: 0..MaxClock + Horizon]]
        /\ \A q \in Posts : q # p => reminder'[q] = reminder[q]
        /\ reminder'[p].status = "pending" /\ reminder[p].status = "absent"
    BY <1>2, <2>1, <2>2 DEF CreateReminder, ReminderInv, ReminderTypeOK
  <2>4. ReminderTypeOK'
    BY <1>2, <2>3 DEF CreateReminder, ReminderInv, ReminderTypeOK
  <2>5. SweepOK'
    <3>1. \A i \in 1..Len(sweep.due) : sweep.due[i] \in Posts /\ sweep.due[i] # p
      BY <2>3 DEF ReminderInv, ReminderTypeOK, SweepOK
    <3>. QED
      BY <1>2, <2>3, <3>1 DEF CreateReminder, ReminderInv, SweepOK
  <2>6. NotifiedOnce'
    BY <1>2, <2>3 DEF CreateReminder, ReminderInv, ReminderTypeOK, NotifiedOnce
  <2>. QED
    BY <2>4, <2>5, <2>6 DEF ReminderInv
<1>. QED
  BY <1>1, <1>2

\* A sweep begins with due reminders that nobody was told of.
LEMMA StepFindDue ==
  ASSUME ReminderInv, FindDue
  PROVE  ReminderInv'
<1>1. PICK s \in Batches : s # <<>> /\ sweep' = [pc |-> "mark", due |-> s]
  BY DEF FindDue
<1>2. /\ s \in Seq(Posts) /\ \A i \in 1..Len(s) : s[i] \in Posts /\ Due(s[i])
      /\ \A i, j \in 1..Len(s) : s[i] = s[j] => i = j
  BY BatchIs
<1>3. sweep'.pc = "mark" /\ sweep'.due = s
  BY <1>1
<1>4. ReminderTypeOK'
  BY <1>1, <1>2 DEF FindDue, ReminderInv, ReminderTypeOK
<1>5. SweepOK'
  BY SMTT(20), <1>2, <1>3 DEF FindDue, ReminderInv, ReminderTypeOK, NotifiedOnce, SweepOK, Due, Pending
<1>6. NotifiedOnce'
  BY <1>3 DEF FindDue, ReminderInv, NotifiedOnce
<1>. QED
  BY <1>4, <1>5, <1>6 DEF ReminderInv

\* Marking goes before telling: the reminder at hand is marked.
LEMMA StepMark ==
  ASSUME ReminderInv, Mark
  PROVE  ReminderInv'
<1>1. sweep' = [sweep EXCEPT !.pc = "notify"] /\ sweep.pc = "mark" /\ reminder' = Fired /\ UNCHANGED <<clock, told, missed>>
  BY DEF Mark
<1>2. sweep' \in [pc: {"idle", "mark", "notify"}, due: Seq(Posts)] /\ sweep'.pc = "notify" /\ sweep'.due = sweep.due
  BY <1>1 DEF ReminderInv, ReminderTypeOK
<1> DEFINE h == sweep.due[1]
<1>3. /\ h \in Posts /\ Len(sweep.due) \in Nat \ {0} /\ Head(sweep.due) = h
      /\ \A i \in 1..Len(sweep.due) : sweep.due[i] \in Posts
  BY <1>1, RestIs
<1>4. ReminderTypeOK'
  BY <1>1, <1>2, FiredIs DEF ReminderInv, ReminderTypeOK
<1>5. SweepOK'
  <2>1. \A i \in 1..Len(sweep.due) : i # 1 => sweep.due[i] # h
    BY <1>3 DEF ReminderInv, SweepOK
  <2>2. /\ \A i \in 1..Len(sweep.due) : i # 1 => reminder'[sweep.due[i]] = reminder[sweep.due[i]]
        /\ reminder'[h].status = "fired" /\ reminder'[h].at = reminder[h].at
    BY <1>1, <1>3, <2>1, FiredIs
  <2>. QED
    BY <1>1, <1>2, <1>3, <2>2 DEF ReminderInv, SweepOK
<1>6. NotifiedOnce'
  <2>1. told[h] = 0
    BY <1>3 DEF ReminderInv, SweepOK
  <2>. QED
    BY <1>1, <1>2, <1>3, <2>1, FiredIs DEF ReminderInv, NotifiedOnce
<1>. QED
  BY <1>4, <1>5, <1>6 DEF ReminderInv

\* A reminder that could not be marked is left for a later sweep, untold.
LEMMA StepMarkErrs ==
  ASSUME ReminderInv, MarkErrs
  PROVE  ReminderInv'
<1>1. /\ sweep' = Rest /\ sweep.pc = "mark" /\ UNCHANGED <<clock, told>>
      /\ \/ UNCHANGED <<reminder, missed>>
         \/ reminder' = Fired /\ missed' = missed \cup {Head(sweep.due)}
  BY DEF MarkErrs
<1> DEFINE h == sweep.due[1]
<1>2. /\ h \in Posts /\ Len(sweep.due) \in Nat \ {0} /\ Head(sweep.due) = h
      /\ \A i \in 1..Len(sweep.due) : sweep.due[i] \in Posts
      /\ Rest \in [pc: {"idle", "mark"}, due: Seq(Posts)]
      /\ Rest.pc = "idle" <=> Rest.due = <<>>
      /\ Len(Rest.due) = Len(sweep.due) - 1
      /\ \A i \in 1..Len(Rest.due) : Rest.due[i] = sweep.due[i + 1]
  BY <1>1, RestIs
<1>3. /\ reminder' \in [Posts -> [status: {"absent", "pending", "fired"}, at: 0..MaxClock + Horizon]]
      /\ reminder'[h].at = reminder[h].at
      /\ \A p \in Posts : p # h => reminder'[p] = reminder[p]
      /\ reminder'[h].status = reminder[h].status \/ (reminder'[h].status = "fired" /\ h \in missed')
      /\ missed \subseteq missed' /\ missed' \in SUBSET Posts
  BY <1>1, <1>2, FiredIs DEF ReminderInv, ReminderTypeOK
<1>4. ReminderTypeOK'
  BY <1>1, <1>2, <1>3 DEF ReminderInv, ReminderTypeOK
<1>5. SweepOK'
  <2>1. \A i \in 1..Len(Rest.due) : i + 1 \in 1..Len(sweep.due) /\ Rest.due[i] # h /\ Rest.due[i] \in Posts
    BY <1>2 DEF ReminderInv, SweepOK
  <2>2. \A i \in 1..Len(Rest.due) :
          /\ reminder'[Rest.due[i]] = reminder[sweep.due[i + 1]]
          /\ told'[Rest.due[i]] = told[sweep.due[i + 1]]
    BY <1>1, <1>2, <1>3, <2>1
  <2>3. \A i \in 1..Len(Rest.due) : i + 1 # 1
    BY <1>2
  <2>4. \A i, j \in 1..Len(Rest.due) : Rest.due[i] = Rest.due[j] => i = j
    <3> SUFFICES ASSUME NEW i \in 1..Len(Rest.due), NEW j \in 1..Len(Rest.due), Rest.due[i] = Rest.due[j]
                 PROVE  i = j
      OBVIOUS
    <3>1. i + 1 \in 1..Len(sweep.due) /\ j + 1 \in 1..Len(sweep.due) /\ sweep.due[i + 1] = sweep.due[j + 1]
      BY <1>2, <2>1
    <3>2. i + 1 = j + 1
      BY <3>1 DEF ReminderInv, SweepOK
    <3>. QED
      BY <3>2
  <2>5. sweep'.due = Rest.due /\ sweep'.pc # "notify"
    BY <1>1, <1>2
  <2>. QED
    BY <1>1, <2>1, <2>2, <2>3, <2>4, <2>5 DEF ReminderInv, SweepOK
<1>6. NotifiedOnce'
  <2>1. told[h] = 0 /\ reminder[h].status = "pending"
    BY <1>1, <1>2 DEF ReminderInv, SweepOK
  <2>. QED
    BY <1>1, <1>2, <1>3, <2>1 DEF ReminderInv, NotifiedOnce
<1>. QED
  BY <1>4, <1>5, <1>6 DEF ReminderInv

\* The user of a marked reminder is told, and the sweep goes on without it.
LEMMA StepNotify ==
  ASSUME ReminderInv, Notify
  PROVE  ReminderInv'
<1>1. /\ sweep' = Rest /\ sweep.pc = "notify" /\ UNCHANGED <<clock, reminder, missed>>
      /\ told' = [told EXCEPT ![Head(sweep.due)] = @ + 1]
  BY DEF Notify
<1> DEFINE h == sweep.due[1]
<1>2. /\ h \in Posts /\ Len(sweep.due) \in Nat \ {0} /\ Head(sweep.due) = h
      /\ \A i \in 1..Len(sweep.due) : sweep.due[i] \in Posts
      /\ Rest \in [pc: {"idle", "mark"}, due: Seq(Posts)]
      /\ Rest.pc = "idle" <=> Rest.due = <<>>
      /\ Len(Rest.due) = Len(sweep.due) - 1
      /\ \A i \in 1..Len(Rest.due) : Rest.due[i] = sweep.due[i + 1]
  BY <1>1, RestIs
<1>3. told[h] = 0 /\ reminder[h].status = "fired" /\ reminder[h].at <= clock
  BY <1>1, <1>2 DEF ReminderInv, SweepOK
<1>4. told' \in [Posts -> Nat] /\ told'[h] = 1 /\ \A p \in Posts : p # h => told'[p] = told[p]
  BY <1>1, <1>2, <1>3 DEF ReminderInv, ReminderTypeOK
<1>5. ReminderTypeOK'
  BY <1>1, <1>2, <1>4 DEF ReminderInv, ReminderTypeOK
<1>6. SweepOK'
  <2>1. \A i \in 1..Len(Rest.due) : i + 1 \in 1..Len(sweep.due) /\ Rest.due[i] # h /\ Rest.due[i] \in Posts
    BY <1>2 DEF ReminderInv, SweepOK
  <2>. QED
    BY <1>1, <1>2, <1>4, <2>1 DEF ReminderInv, SweepOK
<1>7. NotifiedOnce'
  BY <1>1, <1>2, <1>3, <1>4 DEF ReminderInv, NotifiedOnce
<1>. QED
  BY <1>5, <1>6, <1>7 DEF ReminderInv

\* A restart forgets the sweep; a marked reminder is never found again.
LEMMA StepRestart ==
  ASSUME ReminderInv, Restart
  PROVE  ReminderInv'
<1>1. sweep' = [pc |-> "idle", due |-> <<>>] /\ Len(sweep'.due) = 0 /\ sweep'.due = <<>> /\ <<>> \in Seq(Posts)
  BY DEF Restart, Resting
<1>2. sweep.pc = "notify" => Head(sweep.due) \in Posts
  BY RestIs
<1>3. ReminderTypeOK'
  BY <1>1, <1>2 DEF Restart, ReminderInv, ReminderTypeOK
<1>4. SweepOK'
  BY <1>1 DEF SweepOK
<1>5. NotifiedOnce'
  BY DEF Restart, ReminderInv, NotifiedOnce
<1>. QED
  BY <1>3, <1>4, <1>5 DEF ReminderInv

\* The invariant holds of every behaviour of the sweep.
THEOREM RemindersHold == ReminderSpec => []ReminderInv
<1>1. ReminderInv /\ [ReminderNext]_reminderVars => ReminderInv'
  <2> SUFFICES ASSUME ReminderInv, [ReminderNext]_reminderVars PROVE ReminderInv'
    OBVIOUS
  <2>1. ASSUME ReminderNext PROVE ReminderInv'
    BY <2>1, StepQuiet, StepFindDue, StepMark, StepMarkErrs, StepNotify, StepRestart DEF ReminderNext
  <2>2. CASE UNCHANGED reminderVars
    BY <2>2 DEF ReminderInv, ReminderTypeOK, SweepOK, NotifiedOnce, reminderVars
  <2>. QED
    BY <2>1, <2>2
<1>. QED
  BY ReminderInitInv, <1>1, PTL DEF ReminderSpec

\* No user is notified twice of a reminder, and of none that is not marked (NotifiedOnce), for
\* any posts, batches and restarts.
THEOREM NobodyIsToldTwice == ReminderSpec => []NotifiedOnce
<1>1. ReminderInv => NotifiedOnce
  BY DEF ReminderInv
<1>. QED
  BY RemindersHold, <1>1, PTL

-----------------------------------------------------------------------------
(***************************************************************************)
(* RateLimit, for any visitors, rates and first requests that overlap: nobody *)
(* gets more past a limiter than its burst and the refills, and nobody is  *)
(* refused with something left in the bucket.                              *)
(*                                                                         *)
(* The invariant weighs each bucket: what is in it and what was taken from it *)
(* make up its burst and at most the refills. A request that holds a bucket *)
(* holds the one in the map, whoever made it.                              *)
(***************************************************************************)

\* A request holds the bucket that is in the map under its key.
VisitsOK ==
  \A v \in Visits :
    /\ visit[v].holds # NoBucket => visit[v].pc \in Limiters
    /\ \A l \in Limiters :
         visit[v].holds # NoBucket /\ visit[v].pc = l => bucket[l][Key(v, l)] = visit[v].holds
    /\ visit[v].pc = "user" => visit[v].user # Anonymous
    /\ visit[v].pc = "refused" /\ visit[v].by = "user" => visit[v].user # Anonymous

\* A bucket is under the key of its maker, so under no other; and what is in it
\* and what was taken from it make up its burst and at most the refills.
BucketsOK ==
  \A l \in Limiters, key \in AllKeys :
    LET b == bucket[l][key] IN
    IF b = NoBucket THEN Through(l, key) = {}
    ELSE /\ Key(b, l) = key /\ visit[b].pc # "new"
         /\ level[l][b] + Passed(l, key) \in Burst(l)..Burst(l) + ticks

RateInv == RateTypeOK /\ VisitsOK /\ BucketsOK /\ RefusedWhenSpent

VisitRecs == [pc: {"new", "ip", "user", "served", "refused"},
              ip: Addresses, user: Visitors \cup {Anonymous},
              holds: Visits \cup {NoBucket}, by: Limiters]

\* Every limiter lets something through at once.
LEMMA BurstIs == \A l \in Limiters : Burst(l) \in Nat \ {0}
BY RateAssumption DEF Burst, Limiters

\* Finitely many requests got past a limiter under a key.
LEMMA PassedIs == \A l, key : IsFiniteSet(Through(l, key)) /\ Passed(l, key) \in Nat
<1> SUFFICES ASSUME NEW l, NEW key PROVE IsFiniteSet(Through(l, key)) /\ Passed(l, key) \in Nat
  OBVIOUS
<1>1. Through(l, key) \subseteq Visits
  BY DEF Through
<1>. QED
  BY <1>1, RateAssumption, FS_Subset, FS_CardinalityType DEF Passed

\* The bound the property states follows.
LEMMA RateFollows == RateInv => RateKept
<1> SUFFICES ASSUME RateInv PROVE WithinRate
  BY DEF RateInv, RateKept
<1> SUFFICES ASSUME NEW l \in Limiters, NEW key \in AllKeys PROVE Passed(l, key) <= Burst(l) + ticks
  BY DEF WithinRate
<1>1. Passed(l, key) \in Nat /\ Burst(l) \in Nat /\ ticks \in Nat
  BY PassedIs, BurstIs, RateAssumption DEF RateInv, RateTypeOK
<1>2. CASE bucket[l][key] = NoBucket
  BY <1>1, <1>2, FS_EmptySet DEF RateInv, BucketsOK, Passed
<1>3. CASE bucket[l][key] # NoBucket
  <2>1. bucket[l][key] \in Visits
    BY <1>3 DEF RateInv, RateTypeOK
  <2>2. level[l][bucket[l][key]] \in Nat
    BY <2>1 DEF RateInv, RateTypeOK
  <2>. QED
    BY <1>1, <1>3, <2>2 DEF RateInv, BucketsOK
<1>. QED
  BY <1>2, <1>3

\* No buckets and no requests at the start.
LEMMA RateInitInv == RateInit => RateInv
<1> SUFFICES ASSUME RateInit PROVE RateInv
  OBVIOUS
<1>1. PICK a \in Addresses :
        visit = [v \in Visits |-> [pc |-> "new", ip |-> a, user |-> Anonymous, holds |-> NoBucket, by |-> "ip"]]
  BY DEF RateInit
<1>2. RateTypeOK
  BY <1>1, BurstIs, RateAssumption DEF RateInit, RateTypeOK, Limiters
<1>3. VisitsOK
  BY <1>1 DEF VisitsOK
<1>4. BucketsOK
  BY <1>1 DEF RateInit, BucketsOK, Through
<1>5. RefusedWhenSpent
  BY <1>1 DEF RefusedWhenSpent
<1>. QED
  BY <1>2, <1>3, <1>4, <1>5 DEF RateInv

\* A new request holds no bucket.
LEMMA StepArrive ==
  ASSUME RateInv, NEW v \in Visits, Arrive(v)
  PROVE  RateInv'
<1>1. PICK a \in Addresses, u \in Visitors \cup {Anonymous} :
         visit' = [visit EXCEPT ![v].pc = "ip", ![v].ip = a, ![v].user = u]
  BY DEF Arrive
<1>2. /\ visit \in [Visits -> VisitRecs] /\ visit[v].pc = "new" /\ UNCHANGED <<bucket, level, ticks>>
  BY DEF Arrive, RateInv, RateTypeOK, VisitRecs
<1> DEFINE q == [visit[v] EXCEPT !.pc = "ip", !.ip = a, !.user = u]
<1>3. q \in VisitRecs /\ q.pc = "ip" /\ q.holds = visit[v].holds
  BY <1>2 DEF VisitRecs
<1>4. visit' \in [Visits -> VisitRecs] /\ visit'[v] = q /\ \A w \in Visits : w # v => visit'[w] = visit[w]
  BY <1>1, <1>2, <1>3
<1>5. visit[v].holds = NoBucket
  BY <1>2 DEF RateInv, VisitsOK, Limiters
<1>6. \A l, key : Through(l, key)' = Through(l, key)
  BY <1>2, <1>3, <1>4 DEF Through, Key
<1>7. \A l, key : Passed(l, key)' = Passed(l, key)
  BY <1>6 DEF Passed
<1>8. RateTypeOK'
  BY <1>2, <1>4 DEF RateInv, RateTypeOK, VisitRecs, Burst
<1>9. VisitsOK'
  <2>1. \A w \in Visits : \A l : w # v => Key(w, l)' = Key(w, l)
    BY <1>4 DEF Key
  <2>2. \A w \in Visits, l \in Limiters :
          visit'[w].holds # NoBucket /\ visit'[w].pc = l => bucket'[l][Key(w, l)'] = visit'[w].holds
    <3> SUFFICES ASSUME NEW w \in Visits, NEW l \in Limiters, visit'[w].holds # NoBucket, visit'[w].pc = l
                 PROVE  bucket[l][Key(w, l)'] = visit'[w].holds
      BY <1>2
    <3>1. w # v /\ visit'[w] = visit[w] /\ Key(w, l)' = Key(w, l)
      BY <1>3, <1>4, <1>5, <2>1
    <3>. QED
      BY <3>1 DEF RateInv, VisitsOK
  <2>. QED
    BY <1>3, <1>4, <1>5, <2>2 DEF RateInv, VisitsOK
<1>10. BucketsOK'
  <2> SUFFICES ASSUME NEW l \in Limiters, NEW key \in AllKeys, NEW b, b = bucket[l][key]
               PROVE  IF b = NoBucket THEN Through(l, key)' = {}
                      ELSE /\ Key(b, l)' = key /\ visit'[b].pc # "new"
                           /\ level[l][b] + Passed(l, key)' \in Burst(l)..Burst(l) + ticks
    BY <1>2 DEF BucketsOK, Burst
  <2>1. IF b = NoBucket THEN Through(l, key) = {}
        ELSE /\ Key(b, l) = key /\ visit[b].pc # "new"
             /\ level[l][b] + Passed(l, key) \in Burst(l)..Burst(l) + ticks
    BY DEF RateInv, BucketsOK
  <2>2. b # NoBucket => b \in Visits /\ b # v
    BY <1>2, <2>1 DEF RateInv, RateTypeOK
  <2>. QED
    BY <1>4, <1>6, <1>7, <2>1, <2>2 DEF Key
<1>11. RefusedWhenSpent'
  BY <1>3, <1>4, <1>7 DEF RateInv, RefusedWhenSpent, Key, Burst
<1>. QED
  BY <1>8, <1>9, <1>10, <1>11 DEF RateInv

\* What a step of one request leaves of the others, and of the sets of those that
\* got through, when it is neither let through nor turned away.
LEMMA HoldsIs ==
  ASSUME RateInv, NEW v \in Visits, NEW b \in Visits, visit' = [visit EXCEPT ![v].holds = b]
  PROVE  /\ visit' \in [Visits -> VisitRecs] /\ visit'[v].holds = b
         /\ \A w \in Visits :
              /\ w # v => visit'[w] = visit[w]
              /\ visit'[w].pc = visit[w].pc /\ visit'[w].ip = visit[w].ip
              /\ visit'[w].user = visit[w].user /\ visit'[w].by = visit[w].by
         /\ \A w \in Visits : \A l : Key(w, l)' = Key(w, l)
         /\ \A l, key : Through(l, key)' = Through(l, key) /\ Passed(l, key)' = Passed(l, key)
<1> DEFINE q == [visit[v] EXCEPT !.holds = b]
<1>1. visit \in [Visits -> VisitRecs]
  BY DEF RateInv, RateTypeOK, VisitRecs
<1>2. /\ q \in VisitRecs /\ q.holds = b /\ q.pc = visit[v].pc /\ q.ip = visit[v].ip
      /\ q.user = visit[v].user /\ q.by = visit[v].by
  BY <1>1 DEF VisitRecs
<1>3. visit' \in [Visits -> VisitRecs] /\ visit'[v] = q /\ \A w \in Visits : w # v => visit'[w] = visit[w]
  BY <1>1, <1>2
<1>4. \A w \in Visits : /\ visit'[w].pc = visit[w].pc /\ visit'[w].ip = visit[w].ip
                        /\ visit'[w].user = visit[w].user /\ visit'[w].by = visit[w].by
  BY <1>2, <1>3
<1>5. \A w \in Visits : \A l : Key(w, l)' = Key(w, l)
  BY <1>4 DEF Key
<1>6. \A l, key : Through(l, key)' = Through(l, key)
  BY <1>4, <1>5 DEF Through
<1>. QED
  BY <1>2, <1>3, <1>4, <1>5, <1>6 DEF Passed

\* A request at a limiter has a key of it.
LEMMA KeyIs ==
  ASSUME RateInv, NEW v \in Visits, NEW l \in Limiters, visit[v].pc = l
  PROVE  Key(v, l) \in AllKeys
BY DEF RateInv, RateTypeOK, VisitsOK, Key, AllKeys, Limiters

\* Looking up takes the bucket in the map or puts one there; a bucket that lost the race is in
\* nobody's hands.
LEMMA StepLookUp ==
  ASSUME RateInv, NEW v \in Visits, NEW l \in Limiters, LookUp(v, l)
  PROVE  RateInv'
<1> DEFINE key  == Key(v, l)
           made == bucket[l][key]
<1>1. visit[v].pc = l /\ visit[v].holds = NoBucket /\ ticks' = ticks /\ key \in AllKeys
  BY KeyIs DEF LookUp
<1>2. CASE made # NoBucket
  <2>1. visit' = [visit EXCEPT ![v].holds = made] /\ UNCHANGED <<bucket, level>> /\ made \in Visits
    BY <1>1, <1>2 DEF LookUp, RateInv, RateTypeOK
  <2>2. /\ visit' \in [Visits -> VisitRecs] /\ visit'[v].holds = made
        /\ \A w \in Visits :
              /\ w # v => visit'[w] = visit[w]
              /\ visit'[w].pc = visit[w].pc /\ visit'[w].ip = visit[w].ip
              /\ visit'[w].user = visit[w].user /\ visit'[w].by = visit[w].by
        /\ \A w \in Visits : \A m : Key(w, m)' = Key(w, m)
        /\ \A m, k : Through(m, k)' = Through(m, k) /\ Passed(m, k)' = Passed(m, k)
    BY <2>1, HoldsIs
  <2>3. RateTypeOK'
    BY <1>1, <2>1, <2>2 DEF RateInv, RateTypeOK, VisitRecs, Burst
  <2>4. VisitsOK'
    BY <1>1, <2>1, <2>2 DEF RateInv, VisitsOK
  <2>5. BucketsOK'
    <3> SUFFICES ASSUME NEW m \in Limiters, NEW k \in AllKeys, NEW b, b = bucket[m][k]
                 PROVE  IF b = NoBucket THEN Through(m, k)' = {}
                        ELSE /\ Key(b, m)' = k /\ visit'[b].pc # "new"
                             /\ level[m][b] + Passed(m, k)' \in Burst(m)..Burst(m) + ticks
      BY <1>1, <2>1 DEF BucketsOK, Burst
    <3>1. b # NoBucket => b \in Visits
      BY DEF RateInv, RateTypeOK
    <3>. QED
      BY <2>2, <3>1 DEF RateInv, BucketsOK
  <2>6. RefusedWhenSpent'
    BY <2>2 DEF RateInv, RefusedWhenSpent, Burst
  <2>. QED
    BY <2>3, <2>4, <2>5, <2>6 DEF RateInv
<1>3. CASE made = NoBucket
  <2>1. /\ visit' = [visit EXCEPT ![v].holds = v]
        /\ bucket' = [bucket EXCEPT ![l][key] = v]
        /\ level' = [level EXCEPT ![l][v] = Burst(l)]
    BY <1>3 DEF LookUp
  <2>2. /\ visit' \in [Visits -> VisitRecs] /\ visit'[v].holds = v
        /\ \A w \in Visits :
              /\ w # v => visit'[w] = visit[w]
              /\ visit'[w].pc = visit[w].pc /\ visit'[w].ip = visit[w].ip
              /\ visit'[w].user = visit[w].user /\ visit'[w].by = visit[w].by
        /\ \A w \in Visits : \A m : Key(w, m)' = Key(w, m)
        /\ \A m, k : Through(m, k)' = Through(m, k) /\ Passed(m, k)' = Passed(m, k)
    BY <2>1, HoldsIs
  <2>3. /\ bucket' \in [Limiters -> [AllKeys -> Visits \cup {NoBucket}]]
        /\ bucket'[l][key] = v
        /\ \A m \in Limiters, k \in AllKeys : <<m, k>> # <<l, key>> => bucket'[m][k] = bucket[m][k]
    BY <1>1, <2>1 DEF RateInv, RateTypeOK
  <2>4. /\ level' \in [Limiters -> [Visits -> Nat]] /\ level'[l][v] = Burst(l)
        /\ \A m \in Limiters, w \in Visits : <<m, w>> # <<l, v>> => level'[m][w] = level[m][w]
    BY <1>1, <2>1, BurstIs DEF RateInv, RateTypeOK
  <2>5. RateTypeOK'
    <3>1. \A m \in Limiters, w \in Visits : level[m][w] <= Burst(m)
      BY DEF RateInv, RateTypeOK
    <3>2. \A m \in Limiters, w \in Visits : level'[m][w] <= Burst(m)
      <4> SUFFICES ASSUME NEW m \in Limiters, NEW w \in Visits PROVE level'[m][w] <= Burst(m)
        OBVIOUS
      <4>1. CASE <<m, w>> = <<l, v>>
        BY <2>4, <4>1, BurstIs
      <4>2. CASE <<m, w>> # <<l, v>>
        BY <2>4, <3>1, <4>2
      <4>. QED
        BY <4>1, <4>2
    <3>. QED
      BY <1>1, <2>2, <2>3, <2>4, <3>2 DEF RateInv, RateTypeOK, VisitRecs, Burst
  <2>6. VisitsOK'
    <3> SUFFICES ASSUME NEW w \in Visits
                 PROVE  /\ visit'[w].holds # NoBucket => visit'[w].pc \in Limiters
                        /\ \A m \in Limiters :
                             visit'[w].holds # NoBucket /\ visit'[w].pc = m =>
                               bucket'[m][Key(w, m)'] = visit'[w].holds
                        /\ visit'[w].pc = "user" => visit'[w].user # Anonymous
                        /\ visit'[w].pc = "refused" /\ visit'[w].by = "user" => visit'[w].user # Anonymous
      BY DEF VisitsOK
    <3>1. CASE w = v
      BY <1>1, <2>2, <2>3, <3>1 DEF RateInv, VisitsOK
    <3>2. CASE w # v
      <4>1. visit'[w] = visit[w]
        BY <2>2, <3>2
      <4>2. \A m \in Limiters : visit[w].holds # NoBucket /\ visit[w].pc = m =>
              Key(w, m) \in AllKeys /\ <<m, Key(w, m)>> # <<l, key>>
        BY <1>3, KeyIs, RateAssumption DEF RateInv, VisitsOK
      <4>. QED
        BY <2>2, <2>3, <4>1, <4>2 DEF RateInv, VisitsOK
    <3>. QED
      BY <3>1, <3>2
  <2>7. BucketsOK'
    <3> SUFFICES ASSUME NEW m \in Limiters, NEW k \in AllKeys, NEW b, b = bucket'[m][k]
                 PROVE  IF b = NoBucket THEN Through(m, k)' = {}
                        ELSE /\ Key(b, m)' = k /\ visit'[b].pc # "new"
                             /\ level'[m][b] + Passed(m, k)' \in Burst(m)..Burst(m) + ticks
      BY <1>1 DEF BucketsOK, Burst
    <3>1. CASE <<m, k>> = <<l, key>>
      <4>1. b = v /\ b # NoBucket
        BY <2>3, <3>1, RateAssumption
      <4>2. Passed(m, k)' = 0
        BY <1>1, <1>3, <2>2, <3>1, FS_EmptySet DEF RateInv, BucketsOK, Passed
      <4>3. Burst(m) \in Nat /\ ticks \in Nat
        BY BurstIs, RateAssumption DEF RateInv, RateTypeOK
      <4>4. Key(b, m)' = k /\ visit'[b].pc # "new"
        BY <1>1, <2>2, <3>1, <4>1 DEF Limiters
      <4>5. level'[m][b] = Burst(m)
        BY <2>4, <3>1, <4>1
      <4>6. level'[m][b] + Passed(m, k)' \in Burst(m)..Burst(m) + ticks
        <5>1. Burst(m) + 0 \in Burst(m)..Burst(m) + ticks
          BY <4>3
        <5>. QED
          BY <4>2, <4>5, <5>1
      <4>. QED
        BY <4>1, <4>4, <4>6
    <3>2. CASE <<m, k>> # <<l, key>>
      <4>1. b = bucket[m][k]
        BY <2>3, <3>2
      <4>2. CASE b = NoBucket
        <5>1. Through(m, k) = {}
          BY <4>1, <4>2 DEF RateInv, BucketsOK
        <5>. QED
          BY <2>2, <4>2, <5>1
      <4>3. CASE b # NoBucket
        <5>1. /\ b \in Visits /\ Key(b, m) = k /\ visit[b].pc # "new"
              /\ level[m][b] + Passed(m, k) \in Burst(m)..Burst(m) + ticks
          BY <4>1, <4>3 DEF RateInv, RateTypeOK, BucketsOK
        <5>2. <<m, b>> # <<l, v>>
          BY <3>2, <5>1
        <5>. QED
          BY <2>2, <2>4, <4>3, <5>1, <5>2
      <4>. QED
        BY <4>2, <4>3
    <3>. QED
      BY <3>1, <3>2
  <2>8. RefusedWhenSpent'
    BY <2>2 DEF RateInv, RefusedWhenSpent, Burst
  <2>. QED
    BY <2>5, <2>6, <2>7, <2>8 DEF RateInv
<1>. QED
  BY <1>2, <1>3

\* A refill adds one to every bucket that has room.
LEMMA StepRefill ==
  ASSUME RateInv, Refill
  PROVE  RateInv'
<1>1. ticks' = ticks + 1 /\ ticks < MaxTicks /\ UNCHANGED <<visit, bucket>>
  BY DEF Refill
<1>2. /\ level' \in [Limiters -> [Visits -> Nat]]
      /\ \A l \in Limiters, v \in Visits :
           level'[l][v] = IF level[l][v] < Burst(l) THEN level[l][v] + 1 ELSE level[l][v]
  BY DEF Refill, RateInv, RateTypeOK
<1>3. \A l, key : Passed(l, key)' = Passed(l, key) /\ Through(l, key)' = Through(l, key)
  BY <1>1 DEF Passed, Through, Key
<1>4. RateTypeOK'
  <2>1. \A l \in Limiters, v \in Visits : level'[l][v] <= Burst(l)
    BY <1>2, BurstIs DEF RateInv, RateTypeOK
  <2>. QED
    BY <1>1, <1>2, <2>1, RateAssumption DEF RateInv, RateTypeOK, Burst
<1>5. VisitsOK'
  BY <1>1 DEF RateInv, VisitsOK, Key
<1>6. BucketsOK'
  <2> SUFFICES ASSUME NEW l \in Limiters, NEW key \in AllKeys, NEW b, b = bucket[l][key]
               PROVE  IF b = NoBucket THEN Through(l, key) = {}
                      ELSE /\ Key(b, l) = key /\ visit[b].pc # "new"
                           /\ level'[l][b] + Passed(l, key) \in Burst(l)..Burst(l) + (ticks + 1)
    BY <1>1, <1>3 DEF BucketsOK, Burst, Key
  <2>1. IF b = NoBucket THEN Through(l, key) = {}
        ELSE /\ Key(b, l) = key /\ visit[b].pc # "new"
             /\ level[l][b] + Passed(l, key) \in Burst(l)..Burst(l) + ticks
    BY DEF RateInv, BucketsOK
  <2>2. CASE b # NoBucket
    <3>1. b \in Visits /\ level[l][b] \in Nat /\ level[l][b] <= Burst(l)
      BY <2>2 DEF RateInv, RateTypeOK
    <3>2. Passed(l, key) \in Nat /\ Burst(l) \in Nat /\ ticks \in Nat
      BY PassedIs, BurstIs, RateAssumption DEF RateInv, RateTypeOK
    <3>3. level'[l][b] = IF level[l][b] < Burst(l) THEN level[l][b] + 1 ELSE level[l][b]
      BY <1>2, <3>1
    <3>. QED
      BY <2>1, <2>2, <3>1, <3>2, <3>3
  <2>. QED
    BY <2>1, <2>2
<1>7. RefusedWhenSpent'
  BY <1>1, <1>3 DEF RateInv, RefusedWhenSpent, Burst, Key
<1>. QED
  BY <1>4, <1>5, <1>6, <1>7 DEF RateInv

\* The sets of those that got through, when a request is let through or turned away.
LEMMA TakeIs ==
  ASSUME RateInv, NEW v \in Visits, NEW l \in Limiters, visit[v].pc = l,
         NEW pc \in {"user", "served", "refused"}, NEW by \in Limiters,
         visit' = [visit EXCEPT ![v] = [visit[v] EXCEPT !.pc = pc, !.by = by, !.holds = NoBucket]]
  PROVE  /\ visit' \in [Visits -> VisitRecs]
         /\ visit'[v].pc = pc /\ visit'[v].by = by /\ visit'[v].holds = NoBucket
         /\ visit'[v].user = visit[v].user
         /\ \A w \in Visits : w # v => visit'[w] = visit[w]
         /\ \A w \in Visits : \A m : Key(w, m)' = Key(w, m)
<1> DEFINE q == [visit[v] EXCEPT !.pc = pc, !.by = by, !.holds = NoBucket]
<1>1. visit \in [Visits -> VisitRecs]
  BY DEF RateInv, RateTypeOK, VisitRecs
<1>2. /\ q \in VisitRecs /\ q.pc = pc /\ q.by = by /\ q.holds = NoBucket
      /\ q.ip = visit[v].ip /\ q.user = visit[v].user
  BY <1>1 DEF VisitRecs
<1>3. visit' \in [Visits -> VisitRecs] /\ visit'[v] = q /\ \A w \in Visits : w # v => visit'[w] = visit[w]
  BY <1>1, <1>2
<1>4. \A w \in Visits : \A m : Key(w, m)' = Key(w, m)
  BY <1>2, <1>3 DEF Key
<1>. QED
  BY <1>2, <1>3, <1>4

\* A request that takes a token is one more that got past, with one token less in the bucket.
LEMMA StepTake ==
  ASSUME RateInv, NEW v \in Visits, NEW l \in Limiters, Take(v, l)
  PROVE  RateInv'
<1>0. PICK key \in AllKeys : key = Key(v, l)
  BY KeyIs DEF Take
<1> DEFINE b == visit[v].holds
           allowed == level[l][b] > 0
           pc  == IF ~allowed THEN "refused"
                  ELSE IF l = "ip" /\ visit[v].user # Anonymous THEN "user" ELSE "served"
           by  == IF allowed THEN visit[v].by ELSE l
<1>1. /\ visit \in [Visits -> VisitRecs] /\ visit[v] \in VisitRecs /\ visit[v].pc = l /\ UNCHANGED <<bucket, ticks>>
      /\ b \in Visits /\ b # NoBucket /\ bucket[l][key] = b
  BY <1>0 DEF Take, RateInv, RateTypeOK, VisitsOK, VisitRecs
<1>2. level[l][b] \in Nat /\ ticks \in Nat /\ Burst(l) \in Nat /\ Passed(l, key) \in Nat
  BY <1>1, BurstIs, PassedIs, RateAssumption DEF RateInv, RateTypeOK
<1>3. pc \in {"user", "served", "refused"} /\ by \in Limiters
  BY <1>1 DEF VisitRecs
<1>4. visit' = [visit EXCEPT ![v] = [visit[v] EXCEPT !.pc = pc, !.by = by, !.holds = NoBucket]]
  <2>1. CASE allowed
    <3>1. visit' = [visit EXCEPT ![v].pc = pc, ![v].holds = NoBucket]
      BY <2>1 DEF Take
    <3>2. visit' = [visit EXCEPT ![v] = [visit[v] EXCEPT !.pc = pc, !.holds = NoBucket]]
      BY <1>1, <3>1
    <3>3. [visit[v] EXCEPT !.pc = pc, !.holds = NoBucket] = [visit[v] EXCEPT !.pc = pc, !.by = by, !.holds = NoBucket]
      BY <1>1, <2>1 DEF VisitRecs
    <3>. QED
      BY <3>2, <3>3
  <2>2. CASE ~allowed
    <3>1. visit' = [visit EXCEPT ![v].pc = pc, ![v].by = by, ![v].holds = NoBucket]
      BY <2>2 DEF Take
    <3>. QED
      BY <1>1, <3>1
  <2>. QED
    BY <2>1, <2>2
<1> HIDE DEF pc, by
<1>5. /\ visit' \in [Visits -> VisitRecs]
      /\ visit'[v].pc = pc /\ visit'[v].by = by /\ visit'[v].holds = NoBucket
      /\ visit'[v].user = visit[v].user
      /\ \A w \in Visits : w # v => visit'[w] = visit[w]
      /\ \A w \in Visits : \A m : Key(w, m)' = Key(w, m)
  BY <1>1, <1>3, <1>4, TakeIs
<1> USE DEF pc, by
<1>6. allowed => (l = "ip" /\ pc = "served" => visit[v].user = Anonymous)
  OBVIOUS
<1>7. ASSUME NEW m \in Limiters, NEW k \in AllKeys
      PROVE  Through(m, k)' = IF allowed /\ m = l /\ k = key THEN Through(m, k) \cup {v} ELSE Through(m, k)
  <2>1. \A w \in Visits : w # v => (w \in Through(m, k)' <=> w \in Through(m, k))
    BY <1>5 DEF Through
  <2>2. m = "user" /\ visit[v].user = Anonymous => v \notin Through(m, k)' /\ v \notin Through(m, k)
    BY <1>5, RateAssumption DEF Through, Key, AllKeys
  <2>3. v \in Through(m, k)' <=> v \in Through(m, k) \/ (allowed /\ m = l /\ k = key)
    BY <1>0, <1>1, <1>3, <1>5, <2>2 DEF Through, Limiters
  <2>4. Through(m, k) \subseteq Visits /\ Through(m, k)' \subseteq Visits
    BY DEF Through
  <2>. QED
    BY <2>1, <2>3, <2>4
<1>8. v \notin Through(l, key)
  BY <1>1 DEF Through, Limiters
<1>9. \A m \in Limiters, k \in AllKeys :
        Passed(m, k)' = IF allowed /\ m = l /\ k = key THEN Passed(m, k) + 1 ELSE Passed(m, k)
  BY <1>7, <1>8, PassedIs, FS_AddElement DEF Passed
<1>10. /\ level' \in [Limiters -> [Visits -> Nat]]
       /\ level'[l][b] = IF allowed THEN level[l][b] - 1 ELSE level[l][b]
       /\ \A m \in Limiters, w \in Visits : <<m, w>> # <<l, b>> => level'[m][w] = level[m][w]
  <2>1. CASE allowed
    <3>1. level' = [level EXCEPT ![l][b] = level[l][b] - 1] /\ level[l][b] - 1 \in Nat
      BY <1>2, <2>1 DEF Take
    <3>. QED
      BY <1>1, <2>1, <3>1 DEF RateInv, RateTypeOK
  <2>2. CASE ~allowed
    BY <2>2 DEF Take, RateInv, RateTypeOK
  <2>. QED
    BY <2>1, <2>2
<1>11. RateTypeOK'
  <2>1. \A m \in Limiters, w \in Visits : level'[m][w] <= Burst(m)
    <3> SUFFICES ASSUME NEW m \in Limiters, NEW w \in Visits PROVE level'[m][w] <= Burst(m)
      OBVIOUS
    <3>1. level[m][w] <= Burst(m) /\ level[m][w] \in Nat /\ Burst(m) \in Nat
      BY BurstIs DEF RateInv, RateTypeOK
    <3>2. level'[m][w] = level[m][w] \/ level'[m][w] = level[m][w] - 1
      BY <1>10
    <3>. QED
      BY <3>1, <3>2
  <2>. QED
    BY <1>1, <1>5, <1>10, <2>1 DEF RateInv, RateTypeOK, VisitRecs, Burst
<1>12. VisitsOK'
  <2>1. pc = "user" => visit[v].user # Anonymous
    OBVIOUS
  <2>2. pc = "refused" /\ by = "user" => visit[v].user # Anonymous
    BY <1>1 DEF RateInv, VisitsOK
  <2>. QED
    BY <1>1, <1>5, <2>1, <2>2 DEF RateInv, VisitsOK
<1>13. BucketsOK'
  <2> SUFFICES ASSUME NEW m \in Limiters, NEW k \in AllKeys, NEW c, c = bucket[m][k]
               PROVE  IF c = NoBucket THEN Through(m, k)' = {}
                      ELSE /\ Key(c, m)' = k /\ visit'[c].pc # "new"
                           /\ level'[m][c] + Passed(m, k)' \in Burst(m)..Burst(m) + ticks
    BY <1>1 DEF BucketsOK, Burst
  <2>1. IF c = NoBucket THEN Through(m, k) = {}
        ELSE /\ Key(c, m) = k /\ visit[c].pc # "new"
             /\ level[m][c] + Passed(m, k) \in Burst(m)..Burst(m) + ticks
    BY DEF RateInv, BucketsOK
  <2>2. CASE c = NoBucket
    <3>1. ~(m = l /\ k = key)
      BY <1>1, <2>2
    <3>. QED
      BY <1>7, <2>1, <2>2, <3>1
  <2>3. CASE c # NoBucket
    <3>1. c \in Visits /\ level[m][c] \in Nat /\ Passed(m, k) \in Nat
      BY <2>3, PassedIs DEF RateInv, RateTypeOK
    <3>2. Key(c, m)' = k /\ visit'[c].pc # "new"
      BY <1>3, <1>5, <2>1, <2>3, <3>1
    <3>3. c = b /\ m = l <=> m = l /\ k = key
      BY <1>1, <2>1, <2>3 DEF RateInv, BucketsOK
    <3>4. level'[m][c] + Passed(m, k)' = level[m][c] + Passed(m, k)
      <4>1. CASE m = l /\ k = key
        <5>1. Passed(m, k)' = IF allowed THEN Passed(m, k) + 1 ELSE Passed(m, k)
          BY <1>9, <4>1
        <5>2. level'[m][c] = IF allowed THEN level[m][c] - 1 ELSE level[m][c]
          BY <1>10, <3>3, <4>1
        <5>. QED
          BY <3>1, <5>1, <5>2
      <4>2. CASE ~(m = l /\ k = key)
        <5>1. Passed(m, k)' = Passed(m, k)
          BY <1>9, <4>2
        <5>2. level'[m][c] = level[m][c]
          BY <1>10, <3>1, <3>3, <4>2
        <5>. QED
          BY <5>1, <5>2
      <4>. QED
        BY <4>1, <4>2
    <3>. QED
      BY <2>1, <2>3, <3>2, <3>4
  <2>. QED
    BY <2>2, <2>3
<1>14. RefusedWhenSpent'
  <2> SUFFICES ASSUME NEW w \in Visits, NEW m \in Limiters, visit'[w].pc = "refused", visit'[w].by = m
               PROVE  Passed(m, Key(w, m))' >= Burst(m)
    BY DEF RefusedWhenSpent, Burst
  <2>0. PICK k : k = Key(w, m)
    OBVIOUS
  <2>1. Key(w, m)' = k
    BY <1>5, <2>0
  <2>2. Passed(m, Key(w, m))' = Passed(m, k)'
    BY <2>1 DEF Passed, Through
  <2>3. Burst(m) \in Nat /\ Passed(m, k) \in Nat
    BY BurstIs, PassedIs
  <2>4. CASE w = v
    <3>1. ~allowed /\ m = l /\ k = key
      BY <1>0, <1>1, <1>3, <1>5, <2>0, <2>4
    <3>2. level[l][b] = 0
      BY <1>2, <3>1
    <3>3. level[l][b] + Passed(l, key) >= Burst(l)
      BY <1>1, <1>2 DEF RateInv, BucketsOK
    <3>4. Passed(m, k)' = Passed(l, key)
      BY <1>1, <1>9, <3>1
    <3>. QED
      BY <1>2, <2>2, <3>1, <3>2, <3>3, <3>4
  <2>5. CASE w # v
    <3>1. visit'[w] = visit[w]
      BY <1>5, <2>5
    <3>2. k \in AllKeys /\ Passed(m, k) >= Burst(m)
      BY <2>0, <3>1 DEF RateInv, RateTypeOK, VisitsOK, RefusedWhenSpent, Key, AllKeys, Limiters
    <3>3. Passed(m, k)' \in {Passed(m, k), Passed(m, k) + 1}
      BY <1>9, <3>2
    <3>. QED
      BY <2>2, <2>3, <3>2, <3>3
  <2>. QED
    BY <2>4, <2>5
<1>. QED
  BY <1>11, <1>12, <1>13, <1>14 DEF RateInv

\* The invariant holds of every behaviour of the limiters.
THEOREM RateHolds == RateSpec => []RateInv
<1>1. RateInv /\ [RateNext]_rateVars => RateInv'
  <2> SUFFICES ASSUME RateInv, [RateNext]_rateVars PROVE RateInv'
    OBVIOUS
  <2>1. ASSUME RateNext PROVE RateInv'
    <3>1. CASE Refill
      BY <3>1, StepRefill
    <3>2. ASSUME NEW v \in Visits, Arrive(v) PROVE RateInv'
      BY <3>2, StepArrive
    <3>3. ASSUME NEW v \in Visits, NEW l \in Limiters, LookUp(v, l) PROVE RateInv'
      BY <3>3, StepLookUp
    <3>4. ASSUME NEW v \in Visits, NEW l \in Limiters, Take(v, l) PROVE RateInv'
      BY <3>4, StepTake
    <3>. QED
      BY <2>1, <3>1, <3>2, <3>3, <3>4 DEF RateNext
  <2>2. CASE UNCHANGED rateVars
    <3>1. UNCHANGED <<visit, bucket, level, ticks>>
      BY <2>2 DEF rateVars
    <3>2. \A v, l, k : Key(v, l)' = Key(v, l) /\ Through(l, k)' = Through(l, k) /\ Passed(l, k)' = Passed(l, k)
      BY <3>1 DEF Key, Through, Passed
    <3>3. RateTypeOK' /\ VisitsOK'
      BY <3>1 DEF RateInv, RateTypeOK, VisitsOK, Key, Burst
    <3>4. BucketsOK'
      <4> SUFFICES ASSUME NEW l \in Limiters, NEW k \in AllKeys, NEW b, b = bucket[l][k]
                   PROVE  IF b = NoBucket THEN Through(l, k)' = {}
                          ELSE /\ Key(b, l)' = k /\ visit[b].pc # "new"
                               /\ level[l][b] + Passed(l, k)' \in Burst(l)..Burst(l) + ticks
        BY <3>1 DEF BucketsOK, Burst
      <4>. QED
        BY <3>2 DEF RateInv, BucketsOK
    <3>5. RefusedWhenSpent'
      BY <3>1, <3>2 DEF RateInv, RefusedWhenSpent, Burst
    <3>. QED
      BY <3>3, <3>4, <3>5 DEF RateInv
  <2>. QED
    BY <2>1, <2>2
<1>. QED
  BY RateInitInv, <1>1, PTL DEF RateSpec

\* Nobody gets more past a limiter than its burst and the refills, and nobody is refused whose
\* bucket is not spent (RateKept), for any visitors, rates and overlapping first requests.
THEOREM TheRateIsKept == RateSpec => []RateKept
BY RateHolds, RateFollows, PTL

-----------------------------------------------------------------------------
(***************************************************************************)
(* Startup, for any set of environments: a server that serves is the one its *)
(* configuration asks for.                                                 *)
(*                                                                         *)
(* The invariant says of every step of the start what has been wired by then *)
(* and from which part of the configuration, so that at the end the whole of *)
(* ServesAsConfigured has been gathered.                                   *)
(***************************************************************************)

\* The steps after each step.
AfterQuota      == {"listen", "serving"}
AfterModeration == {"quota"} \cup AfterQuota
AfterChains     == {"moderation"} \cup AfterModeration
AfterFeatures   == {"chains"} \cup AfterChains
AfterRouter     == {"features"} \cup AfterFeatures
AfterMailer     == {"router"} \cup AfterRouter
AfterStore      == {"mailer"} \cup AfterMailer
AfterMigrate    == {"store"} \cup AfterStore
AfterConnect    == {"migrate"} \cup AfterMigrate

\* What the program and its configuration are, step by step.
ConfigOK ==
  /\ boot \in {"load", "connect", "serving", "working", "migrated", "failed", "stopped"} \cup AfterConnect
  /\ env \in Environments
  /\ boot # "load" => config = Load(env)
  /\ boot \in {"connect"} \cup AfterConnect => Validate(config) /\ env.program # "worker"
  /\ boot \in AfterConnect /\ config.mock => env.program = "api" /\ boot # "migrate"
  /\ boot \in AfterMigrate => env.program = "api" /\ (~config.mock /\ ~config.production => migrated)
  /\ migrated \in BOOLEAN
  /\ boot = "load" => ~migrated
  /\ migrated => env.program = "migrate" \/ ~config.production
  /\ boot = "migrated" => env.program = "migrate" /\ migrated

\* The checker a configuration gets.
CheckerOf(c) == IF c.mock \/ c.moderation \notin {"stub", "openai"} THEN "permissive" ELSE c.moderation

\* What has been wired by then.
WiredOK ==
  /\ DOMAIN wired \subseteq Parts /\ "db" \in DOMAIN wired
  /\ boot \in AfterConnect => wired["db"] \in BOOLEAN /\ (wired["db"] <=> ~config.mock)
  /\ boot \in AfterStore =>
       "store" \in DOMAIN wired /\ wired["store"] = IF config.mock THEN "memory" ELSE config.storage
  /\ boot \in AfterMailer =>
       "mailer" \in DOMAIN wired /\ wired["mailer"] = config.mail /\ wired["mailer"] \in {"log", "smtp"}
  /\ boot \in AfterRouter =>
       "docs" \in DOMAIN wired /\ wired["docs"] \in BOOLEAN /\ (wired["docs"] <=> ~config.production)
  /\ boot \in AfterFeatures =>
       /\ "repositories" \in DOMAIN wired
       /\ wired["repositories"] = [f \in Features |-> IF config.mock THEN "mock" ELSE "gorm"]
  /\ boot \in AfterChains =>
       "chain" \in DOMAIN wired /\ wired["chain"] = config.order /\ wired["chain"] \in {"gemini", "stub"}
  /\ boot \in AfterModeration =>
       /\ "checker" \in DOMAIN wired /\ wired["checker"] \in {"openai", "stub", "permissive"}
       /\ wired["checker"] = CheckerOf(config)
  /\ boot \in AfterQuota =>
       /\ "caps" \in DOMAIN wired
       /\ wired["caps"].text = Positive(config.textDaily, 50)
       /\ wired["caps"].image = Positive(config.imageDaily, 20)
       /\ wired["caps"].text \in Nat \ {0} /\ wired["caps"].image \in Nat \ {0}

StartInv == ConfigOK /\ WiredOK

\* What the configuration can be.
LEMMA LoadIs ==
  ASSUME NEW e \in Environments
  PROVE  /\ Load(e).production \in BOOLEAN /\ Load(e).mock \in BOOLEAN
         /\ Load(e).storage \in {"absolute", "relative"}
         /\ Load(e).textDaily \in Int /\ Load(e).imageDaily \in Int
         /\ Load(e).moderation = (IF e.MODERATION_PROVIDER = Unset THEN "stub" ELSE e.MODERATION_PROVIDER)
<1>1. /\ Load(e).mock = Resolve(e.USE_MOCK_DATA, FALSE)
      /\ Load(e).storage = Resolve(e.ASSET_STORAGE_DIR, "relative")
      /\ Load(e).textDaily = Resolve(e.QUOTA_TEXT_DAILY, 50)
      /\ Load(e).imageDaily = Resolve(e.QUOTA_IMAGE_DAILY, 20)
      /\ Load(e).moderation = Resolve(e.MODERATION_PROVIDER, "stub")
  BY SMT DEF Load
<1>2. Load(e).production \in BOOLEAN
  BY SMT DEF Load
<1>3. Resolve(e.USE_MOCK_DATA, FALSE) \in BOOLEAN
  <2>1. CASE e.USE_MOCK_DATA = Unset
    BY <2>1, SMT DEF Resolve
  <2>2. CASE e.USE_MOCK_DATA # Unset
    BY <2>2, EnvironmentAssumption, SMT DEF Resolve
  <2>. QED
    BY <2>1, <2>2
<1>4. /\ Resolve(e.ASSET_STORAGE_DIR, "relative") \in {"absolute", "relative"}
      /\ Resolve(e.QUOTA_TEXT_DAILY, 50) \in Int /\ Resolve(e.QUOTA_IMAGE_DAILY, 20) \in Int
  BY EnvironmentAssumption, SMT DEF Resolve
<1>5. Resolve(e.MODERATION_PROVIDER, "stub") = IF e.MODERATION_PROVIDER = Unset THEN "stub" ELSE e.MODERATION_PROVIDER
  BY SMT DEF Resolve
<1>6. Load(e).mock \in BOOLEAN
  BY <1>1, <1>3, Zenon
<1>7. /\ Load(e).storage \in {"absolute", "relative"}
      /\ Load(e).textDaily \in Int /\ Load(e).imageDaily \in Int
  BY <1>1, <1>4, SMT
<1>8. Load(e).moderation = (IF e.MODERATION_PROVIDER = Unset THEN "stub" ELSE e.MODERATION_PROVIDER)
  BY <1>1, <1>5, SMT
<1>. QED
  BY <1>2, <1>6, <1>7, <1>8, Zenon

\* What each part of the configuration is read from.
LEMMA LoadReads ==
  ASSUME NEW e \in Environments
  PROVE  /\ Load(e).mock = Resolve(e.USE_MOCK_DATA, FALSE)
         /\ Load(e).production = (Resolve(e.APP_ENV, "development") = "production")
         /\ Load(e).storage = Resolve(e.ASSET_STORAGE_DIR, "relative")
         /\ Load(e).mail = Resolve(e.EMAIL_PROVIDER, "log")
         /\ Load(e).order = Resolve(e.PROVIDER_ORDER, "stub")
         /\ Load(e).moderation = Resolve(e.MODERATION_PROVIDER, "stub")
         /\ Load(e).textDaily = Resolve(e.QUOTA_TEXT_DAILY, 50)
         /\ Load(e).imageDaily = Resolve(e.QUOTA_IMAGE_DAILY, 20)
BY SMT DEF Load

\* A server that serves has been through every step before it.
LEMMA StartFollows == StartInv => ServesAsConfigured /\ StartTypeOK
<1> SUFFICES ASSUME StartInv PROVE ServesAsConfigured /\ StartTypeOK
  OBVIOUS
<1> USE DEF AfterQuota, AfterModeration, AfterChains, AfterFeatures, AfterRouter, AfterMailer, AfterStore,
            AfterMigrate, AfterConnect
<1>1. InProduction
  BY LoadIs DEF StartInv, ConfigOK, WiredOK, Validate, InProduction
<1>2. ASSUME boot = "serving" PROVE AsAsked
  <2>1. env \in Environments /\ config = Load(env) /\ WiredOK
    BY <1>2 DEF StartInv, ConfigOK
  <2>2. /\ config.mock = Resolve(env.USE_MOCK_DATA, FALSE) /\ config.mock \in BOOLEAN
        /\ config.storage = Resolve(env.ASSET_STORAGE_DIR, "relative")
        /\ config.mail = Resolve(env.EMAIL_PROVIDER, "log")
        /\ config.production = (Resolve(env.APP_ENV, "development") = "production")
        /\ config.order = Resolve(env.PROVIDER_ORDER, "stub")
        /\ config.moderation = Resolve(env.MODERATION_PROVIDER, "stub")
        /\ config.textDaily = Resolve(env.QUOTA_TEXT_DAILY, 50)
        /\ config.imageDaily = Resolve(env.QUOTA_IMAGE_DAILY, 20)
    BY <2>1, LoadIs, LoadReads
  <2>3. /\ wired["db"] \in BOOLEAN /\ (wired["db"] <=> ~config.mock)
        /\ wired["docs"] \in BOOLEAN /\ (wired["docs"] <=> ~config.production)
        /\ config.production \in BOOLEAN
    BY <1>2, <2>1, LoadIs DEF WiredOK
  <2>4. /\ wired["store"] = IF config.mock THEN "memory" ELSE config.storage
        /\ \A f \in Features : wired["repositories"][f] = IF config.mock THEN "mock" ELSE "gorm"
        /\ wired["mailer"] = config.mail /\ wired["chain"] = config.order
    BY <1>2, <2>1 DEF WiredOK
  <2>5. /\ wired["checker"] = IF config.mock \/ config.moderation \notin {"stub", "openai"}
                               THEN "permissive" ELSE config.moderation
        /\ wired["caps"].text = Positive(config.textDaily, 50)
        /\ wired["caps"].image = Positive(config.imageDaily, 20)
    BY <1>2, <2>1 DEF WiredOK, CheckerOf
  <2>6. wired["db"] = ~config.mock /\ wired["docs"] = ~config.production
    BY <2>2, <2>3
  <2>. QED
    BY <2>2, <2>4, <2>5, <2>6 DEF AsAsked
<1>3. boot # "serving" => AsAsked
  BY DEF AsAsked
<1>4. SchemaAsAsked
  BY DEF StartInv, ConfigOK, WiredOK, SchemaAsAsked
<1>5. StartTypeOK
  <2>1. boot = "serving" => DOMAIN wired = Parts
    BY DEF StartInv, WiredOK, Parts
  <2>2. boot = "serving" => wired["repositories"] \in [Features -> {"mock", "gorm"}]
    BY DEF StartInv, WiredOK
  <2>3. boot = "serving" => wired["store"] \in {"memory", "absolute", "relative"}
    BY LoadIs DEF StartInv, WiredOK, ConfigOK
  <2>. QED
    BY <2>1, <2>2, <2>3 DEF StartInv, ConfigOK, WiredOK, StartTypeOK, BootSteps
<1>. QED
  BY <1>1, <1>2, <1>3, <1>4, <1>5 DEF ServesAsConfigured

\* A program starts with nothing but a database handle to come.
LEMMA StartInitInv == StartInit => StartInv
<1> SUFFICES ASSUME StartInit PROVE StartInv
  OBVIOUS
<1>1. DOMAIN wired = {"db"}
  BY DEF StartInit
<1>. QED
  BY <1>1 DEF StartInit, StartInv, ConfigOK, WiredOK, Parts, AfterQuota, AfterModeration, AfterChains,
             AfterFeatures, AfterRouter, AfterMailer, AfterStore, AfterMigrate, AfterConnect

\* A part is added; the parts made before stay.
LEMMA MakesIs ==
  ASSUME NEW step, NEW next, NEW part, NEW adapter, Makes(step, next, part, adapter)
  PROVE  /\ boot = step /\ boot' = next /\ UNCHANGED <<env, config, migrated>>
         /\ DOMAIN wired' = DOMAIN wired \cup {part} /\ wired'[part] = adapter
         /\ \A p \in DOMAIN wired : p # part => wired'[p] = wired[p]
BY DEF Makes

\* config.Load.
LEMMA StepLoad ==
  ASSUME StartInv, LoadConfig
  PROVE  StartInv'
<1>1. /\ boot = "load" /\ config' = Load(env) /\ UNCHANGED <<env, wired, migrated>>
      /\ boot' \in {"failed", "connect", "working"}
      /\ boot' = "connect" => Validate(Load(env)) /\ env.program # "worker"
  BY DEF LoadConfig
<1> USE DEF AfterQuota, AfterModeration, AfterChains, AfterFeatures, AfterRouter, AfterMailer, AfterStore,
            AfterMigrate, AfterConnect
<1>2. ConfigOK'
  <2>1. boot' = "connect" => Validate(config)'
    BY <1>1 DEF Validate
  <2>. QED
    BY <1>1, <2>1 DEF StartInv, ConfigOK
<1>3. WiredOK'
  BY <1>1 DEF StartInv, WiredOK
<1>. QED
  BY <1>2, <1>3 DEF StartInv

\* A step that ends the process, or lets it serve.
LEMMA StartStepOut ==
  ASSUME StartInv, UNCHANGED <<env, config, wired, migrated>>, boot # "load",
         \/ boot' \in {"failed", "stopped"}
         \/ boot = "listen" /\ boot' = "serving"
  PROVE  StartInv'
<1> USE DEF AfterQuota, AfterModeration, AfterChains, AfterFeatures, AfterRouter, AfterMailer, AfterStore,
            AfterMigrate, AfterConnect
<1>1. Validate(config)' = Validate(config)
  BY DEF Validate
<1>2. ConfigOK'
  BY <1>1 DEF StartInv, ConfigOK
<1>3. WiredOK'
  BY DEF StartInv, WiredOK
<1>. QED
  BY <1>2, <1>3 DEF StartInv

\* Nothing of what ConfigOK says changes as a part is made, unless the first.
LEMMA ConfigStays ==
  ASSUME StartInv, UNCHANGED <<env, config, migrated>>,
         \/ boot \in AfterMigrate /\ boot' \in AfterMigrate
         \/ /\ boot = "connect" /\ env.program \in {"api", "migrate"}
            /\ \/ boot' = "migrate" /\ ~config.mock
               \/ boot' = "store" /\ config.mock /\ env.program = "api"
  PROVE  ConfigOK'
<1>1. Validate(config)' = Validate(config)
  BY DEF Validate
<1>2. config.mock \in BOOLEAN /\ config.production \in BOOLEAN
  BY LoadIs DEF StartInv, ConfigOK, AfterQuota, AfterModeration, AfterChains, AfterFeatures, AfterRouter,
                AfterMailer, AfterStore, AfterMigrate, AfterConnect
<1>. QED
  BY <1>1, <1>2 DEF StartInv, ConfigOK, AfterQuota, AfterModeration, AfterChains, AfterFeatures, AfterRouter,
              AfterMailer, AfterStore, AfterMigrate, AfterConnect

\* db.Connect, or the mocks in its place.
LEMMA StepConnect ==
  ASSUME StartInv, boot = "connect", Connect
  PROVE  StartInv'
<1> USE DEF AfterQuota, AfterModeration, AfterChains, AfterFeatures, AfterRouter, AfterMailer, AfterStore,
            AfterMigrate, AfterConnect
<1>1. CASE Fails("connect")
  BY <1>1, StartStepOut DEF Fails
<1>2. CASE ~config.mock /\ Makes("connect", "migrate", "db", TRUE)
  <2>1. /\ boot' = "migrate" /\ UNCHANGED <<env, config, migrated>>
        /\ DOMAIN wired' = DOMAIN wired \cup {"db"} /\ wired'["db"] = TRUE
    BY <1>2, MakesIs
  <2>2. env.program \in {"api", "migrate"}
    BY EnvironmentAssumption DEF StartInv, ConfigOK
  <2>3. ConfigOK'
    BY <1>2, <2>1, <2>2, ConfigStays
  <2>4. WiredOK'
    BY <1>2, <2>1 DEF StartInv, WiredOK, Parts
  <2>. QED
    BY <2>3, <2>4 DEF StartInv
<1>3. CASE config.mock /\ env.program = "api" /\ Makes("connect", "store", "db", FALSE)
  <2>1. /\ boot' = "store" /\ UNCHANGED <<env, config, migrated>>
        /\ DOMAIN wired' = DOMAIN wired \cup {"db"} /\ wired'["db"] = FALSE
    BY <1>3, MakesIs
  <2>2. ConfigOK'
    BY <1>3, <2>1, ConfigStays
  <2>3. WiredOK'
    BY <1>3, <2>1 DEF StartInv, WiredOK, Parts
  <2>. QED
    BY <2>2, <2>3 DEF StartInv
<1>. QED
  BY <1>1, <1>2, <1>3 DEF Connect

\* AutoMigrate, outside production.
LEMMA StepMigrate ==
  ASSUME StartInv, AutoMigrate
  PROVE  StartInv'
<1> USE DEF AfterQuota, AfterModeration, AfterChains, AfterFeatures, AfterRouter, AfterMailer, AfterStore,
            AfterMigrate, AfterConnect
<1>1. CASE Fails("migrate")
  BY <1>1, StartStepOut DEF Fails
<1>2. CASE ~Fails("migrate")
  <2>1. /\ boot = "migrate" /\ UNCHANGED <<env, config, wired>>
        /\ migrated' = (env.program = "migrate" \/ ~config.production)
        /\ boot' = IF env.program = "migrate" THEN "migrated" ELSE "store"
    BY <1>2 DEF AutoMigrate
  <2>2. migrated' \in BOOLEAN /\ (migrated' <=> env.program = "migrate" \/ ~config.production)
    BY <2>1
  <2>3. env.program = "api" \/ env.program = "migrate"
    BY <2>1, EnvironmentAssumption DEF StartInv, ConfigOK
  <2>4. Validate(config)' = Validate(config)
    BY <2>1 DEF Validate
  <2>5. ConfigOK'
    BY <2>1, <2>2, <2>3, <2>4 DEF StartInv, ConfigOK
  <2>6. WiredOK'
    BY <2>1 DEF StartInv, WiredOK
  <2>. QED
    BY <2>5, <2>6 DEF StartInv
<1>. QED
  BY <1>1, <1>2

\* The store of assets.
LEMMA StepStore ==
  ASSUME StartInv, boot = "store", MakeStore
  PROVE  StartInv'
<1> USE DEF AfterQuota, AfterModeration, AfterChains, AfterFeatures, AfterRouter, AfterMailer, AfterStore,
            AfterMigrate, AfterConnect
<1>1. CASE Fails("store")
  BY <1>1, StartStepOut DEF Fails
<1>2. CASE ~Fails("store")
  <2> DEFINE store == IF config.mock THEN "memory" ELSE config.storage
  <2>1. Makes("store", "mailer", "store", store)
    BY <1>2 DEF MakeStore
  <2>2. /\ boot' = "mailer" /\ UNCHANGED <<env, config, migrated>>
        /\ DOMAIN wired' = DOMAIN wired \cup {"store"} /\ wired'["store"] = store
        /\ \A p \in DOMAIN wired : p # "store" => wired'[p] = wired[p]
    BY <2>1, MakesIs
  <2>3. ConfigOK'
    BY <2>2, ConfigStays
  <2>4. WiredOK'
    BY <2>2 DEF StartInv, WiredOK, Parts
  <2>. QED
    BY <2>3, <2>4 DEF StartInv
<1>. QED
  BY <1>1, <1>2

\* The sender of mails.
LEMMA StepSender ==
  ASSUME StartInv, boot = "mailer", NewSender
  PROVE  StartInv'
<1> USE DEF AfterQuota, AfterModeration, AfterChains, AfterFeatures, AfterRouter, AfterMailer, AfterStore,
            AfterMigrate, AfterConnect
<1>1. CASE Fails("mailer")
  BY <1>1, StartStepOut DEF Fails
<1>2. CASE ~Fails("mailer")
  <2>1. config.mail \in {"log", "smtp"} /\ Makes("mailer", "router", "mailer", config.mail)
    BY <1>2 DEF NewSender
  <2>2. /\ boot' = "router" /\ UNCHANGED <<env, config, migrated>>
        /\ DOMAIN wired' = DOMAIN wired \cup {"mailer"} /\ wired'["mailer"] = config.mail
        /\ \A p \in DOMAIN wired : p # "mailer" => wired'[p] = wired[p]
    BY <2>1, MakesIs
  <2>3. ConfigOK'
    BY <2>2, ConfigStays
  <2>4. WiredOK'
    BY <2>1, <2>2 DEF StartInv, WiredOK, Parts
  <2>. QED
    BY <2>3, <2>4 DEF StartInv
<1>. QED
  BY <1>1, <1>2

\* The router, with or without the pages of the API.
LEMMA StepRouter ==
  ASSUME StartInv, NewRouter
  PROVE  StartInv'
<1> USE DEF AfterQuota, AfterModeration, AfterChains, AfterFeatures, AfterRouter, AfterMailer, AfterStore,
            AfterMigrate, AfterConnect
<1>1. /\ boot = "router" /\ boot' = "features" /\ UNCHANGED <<env, config, migrated>>
      /\ DOMAIN wired' = DOMAIN wired \cup {"docs"} /\ wired'["docs"] = ~config.production
      /\ \A p \in DOMAIN wired : p # "docs" => wired'[p] = wired[p]
  BY MakesIs DEF NewRouter
<1>2. ConfigOK'
  BY <1>1, ConfigStays
<1>3. wired'["docs"] \in BOOLEAN /\ (wired'["docs"] <=> ~config.production)
  BY <1>1
<1>4. WiredOK'
  BY <1>1, <1>3 DEF StartInv, WiredOK, Parts
<1>. QED
  BY <1>2, <1>4 DEF StartInv

\* The repositories of the features.
LEMMA StepFeatures ==
  ASSUME StartInv, boot = "features", ComposeFeatures
  PROVE  StartInv'
<1> USE DEF AfterQuota, AfterModeration, AfterChains, AfterFeatures, AfterRouter, AfterMailer, AfterStore,
            AfterMigrate, AfterConnect
<1>1. /\ boot' = "chains" /\ UNCHANGED <<env, config, migrated>>
      /\ DOMAIN wired' = DOMAIN wired \cup {"repositories"}
      /\ wired'["repositories"] = [f \in Features |-> Repository(f)]
      /\ \A p \in DOMAIN wired : p # "repositories" => wired'[p] = wired[p]
  BY MakesIs DEF ComposeFeatures
<1>2. ConfigOK'
  BY <1>1, ConfigStays
<1>3. \A f \in Features : Repository(f) = IF config.mock THEN "mock" ELSE "gorm"
  BY DEF StartInv, WiredOK, Repository
<1>4. wired'["repositories"] = [f \in Features |-> IF config.mock THEN "mock" ELSE "gorm"]
  BY <1>1, <1>3
<1>5. WiredOK'
  BY <1>1, <1>4 DEF StartInv, WiredOK, Parts
<1>. QED
  BY <1>2, <1>5 DEF StartInv

\* The chain of providers.
LEMMA StepChain ==
  ASSUME StartInv, boot = "chains", BuildChain
  PROVE  StartInv'
<1> USE DEF AfterQuota, AfterModeration, AfterChains, AfterFeatures, AfterRouter, AfterMailer, AfterStore,
            AfterMigrate, AfterConnect
<1>1. CASE Fails("chains")
  BY <1>1, StartStepOut DEF Fails
<1>2. CASE ~Fails("chains")
  <2>1. PICK chain \in {"gemini", "stub"} :
          chain = config.order /\ Makes("chains", "moderation", "chain", chain)
    BY <1>2 DEF BuildChain
  <2>2. /\ boot' = "moderation" /\ UNCHANGED <<env, config, migrated>>
        /\ DOMAIN wired' = DOMAIN wired \cup {"chain"} /\ wired'["chain"] = chain
        /\ \A p \in DOMAIN wired : p # "chain" => wired'[p] = wired[p]
    BY <2>1, MakesIs
  <2>3. ConfigOK'
    BY <2>2, ConfigStays
  <2>4. WiredOK'
    BY <2>1, <2>2 DEF StartInv, WiredOK, Parts
  <2>. QED
    BY <2>3, <2>4 DEF StartInv
<1>. QED
  BY <1>1, <1>2

\* The moderation checker.
LEMMA StepChecker ==
  ASSUME StartInv, boot = "moderation", MakeChecker
  PROVE  StartInv'
<1> USE DEF AfterQuota, AfterModeration, AfterChains, AfterFeatures, AfterRouter, AfterMailer, AfterStore,
            AfterMigrate, AfterConnect
<1>1. CASE Fails("moderation")
  BY <1>1, StartStepOut DEF Fails
<1>2. CASE ~Fails("moderation")
  <2>1. PICK checker \in {"openai", "stub", "permissive"} :
          /\ Makes("moderation", "quota", "checker", checker)
          /\ checker = CheckerOf(config)
    BY <1>2 DEF MakeChecker, CheckerOf
  <2>2. /\ boot' = "quota" /\ UNCHANGED <<env, config, migrated>>
        /\ DOMAIN wired' = DOMAIN wired \cup {"checker"} /\ wired'["checker"] = checker
        /\ \A p \in DOMAIN wired : p # "checker" => wired'[p] = wired[p]
    BY <2>1, MakesIs
  <2>3. ConfigOK'
    BY <2>2, ConfigStays
  <2>4. WiredOK'
    BY <2>1, <2>2 DEF StartInv, WiredOK, Parts, CheckerOf
  <2>. QED
    BY <2>3, <2>4 DEF StartInv
<1>. QED
  BY <1>1, <1>2

\* The caps of the quota.
LEMMA StepQuota ==
  ASSUME StartInv, MakeQuota
  PROVE  StartInv'
<1> USE DEF AfterQuota, AfterModeration, AfterChains, AfterFeatures, AfterRouter, AfterMailer, AfterStore,
            AfterMigrate, AfterConnect
<1> DEFINE given == [text |-> Positive(config.textDaily, 50), image |-> Positive(config.imageDaily, 20)]
<1>1. /\ boot = "quota" /\ boot' = "listen" /\ UNCHANGED <<env, config, migrated>>
      /\ DOMAIN wired' = DOMAIN wired \cup {"caps"} /\ wired'["caps"] = given
      /\ \A p \in DOMAIN wired : p # "caps" => wired'[p] = wired[p]
  BY MakesIs DEF MakeQuota
<1>2. ConfigOK'
  BY <1>1, ConfigStays
<1>3. config.textDaily \in Int /\ config.imageDaily \in Int
  BY <1>1, LoadIs DEF StartInv, ConfigOK
<1>4. given.text \in Nat \ {0} /\ given.image \in Nat \ {0}
  BY <1>3 DEF Positive
<1>5. /\ config' = config /\ config.textDaily' = config.textDaily /\ config.imageDaily' = config.imageDaily
      /\ wired'["caps"].text = given.text /\ wired'["caps"].image = given.image
  BY <1>1
<1>6. WiredOK'
  BY <1>1, <1>4, <1>5 DEF StartInv, WiredOK, Parts, CheckerOf, Positive
<1>. QED
  BY <1>2, <1>6 DEF StartInv

\* The invariant holds of every start of every program, whatever its environment says.
THEOREM StartHolds == StartSpec => []StartInv
<1>1. StartInv /\ [StartNext]_startVars => StartInv'
  <2> SUFFICES ASSUME StartInv, [StartNext]_startVars PROVE StartInv'
    OBVIOUS
  <2>1. CASE Listen \/ Shutdown
    BY <2>1, StartStepOut DEF Listen, Shutdown
  <2>2. CASE UNCHANGED startVars
    <3>1. Validate(config)' = Validate(config)
      BY <2>2 DEF Validate, startVars
    <3>. QED
      BY <2>2, <3>1 DEF StartInv, ConfigOK, WiredOK, startVars
  <2>. QED
    BY <2>1, <2>2, StepLoad, StepConnect, StepMigrate, StepStore, StepSender, StepRouter, StepFeatures,
       StepChain, StepChecker, StepQuota DEF StartNext
<1>. QED
  BY StartInitInv, <1>1, PTL DEF StartSpec

\* A server that serves is the one its configuration asks for (ServesAsConfigured), for any
\* set of environments.
THEOREM ServerIsAsConfigured == StartSpec => []ServesAsConfigured
<1>1. StartInv => ServesAsConfigured
  BY StartFollows
<1>. QED
  BY StartHolds, <1>1, PTL

-----------------------------------------------------------------------------
(***************************************************************************)
(* The run Backend: each behaviour of it is a behaviour of every component, *)
(* so that what is proved of a component holds throughout the run.         *)
(***************************************************************************)

\* Every component starts as it does on its own.
LEMMA BackendStarts ==
  BackendInit => /\ Init /\ FileInit /\ TagInit /\ AdminInit /\ KitInit /\ ReminderInit
                 /\ RateInit /\ VerifyInit /\ StartInit
  BY DEF BackendInit

\* What reviews and summaries do are steps of the module they are in.
LEMMA FocusedAdminSteps == AdminStep \/ UsageStep => AdminNext
  BY DEF AdminStep, UsageStep, AdminNext

\* A step of the run is for each component one of its own, or leaves it alone.
LEMMA BackendSteps ==
  [BackendNext]_backendVars =>
    /\ [Next]_vars /\ [FileNext]_fsVars /\ [TagNext]_tagVars /\ [AdminNext]_adminVars
    /\ [KitNext]_kitVars /\ [ReminderNext]_reminderVars /\ [RateNext]_rateVars
    /\ [VerifyNext]_verifyVars /\ [StartNext]_startVars
<1>1. CASE UNCHANGED backendVars
  BY <1>1 DEF backendVars
<1>2. CASE BackendNext
  BY <1>2, FocusedAdminSteps DEF BackendNext
<1>. QED
  BY <1>1, <1>2

\* The run composes the components: each of them behaves as its own specification allows.
THEOREM BackendIsItsParts ==
  BackendSpec => /\ Spec /\ FileSpec /\ TagSpec /\ AdminSpec /\ KitSpec /\ ReminderSpec
                 /\ RateSpec /\ VerifySpec /\ StartSpec
  BY BackendStarts, BackendSteps, PTL
    DEF BackendSpec, Spec, FileSpec, TagSpec, AdminSpec, KitSpec, ReminderSpec, RateSpec, VerifySpec,
        StartSpec

\* Every variable of every component keeps its type throughout the run.
THEOREM BackendTyped == BackendSpec => []BackendTypeOK
<1>1. /\ KitInv => KitTypeOK
      /\ ReminderInv => ReminderTypeOK
      /\ RateInv => RateTypeOK
      /\ StartInv => StartTypeOK
  BY StartFollows DEF KitInv, ReminderInv, RateInv
<1>. QED
  BY BackendIsItsParts, TypeCorrect, FilesTyped, AdminTyped, VerifyTyped, KitsKept, RemindersHold,
     RateHolds, StartHolds, <1>1, PTL DEF BackendTypeOK
=============================================================================
