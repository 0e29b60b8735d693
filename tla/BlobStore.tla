----------------------------- MODULE BlobStore -----------------------------
(***************************************************************************)
(* What the Store and Reader ports promise (memory.go keeps it literally): *)
(* a map from keys to whole blobs on which every operation takes effect at *)
(* once, somewhere between its call and its return, or fails without any   *)
(* effect.                                                                 *)
(*                                                                         *)
(* A key holds a value until it is flushed to the disk; a loss of power    *)
(* brings back what was flushed, a kill of the process keeps everything.   *)
(***************************************************************************)
CONSTANTS Callers, \* goroutines that call the store
          Keys,    \* storage references
          Data,    \* the bytes of a blob
          NoBlob   \* no blob at the key

VARIABLES blob,    \* the map
          flushed, \* the part of it that survives a loss of power
          op       \* the call each goroutine is in

vars == <<blob, flushed, op>>

Blobs == [Keys -> Data \cup {NoBlob}]
Ops   == [pc: {"idle", "pending", "done"}, kind: {"Put", "Get", "Delete"},
          key: Keys, data: Data \cup {NoBlob}]

TypeOK ==
  /\ blob \in Blobs
  /\ flushed \in Blobs
  /\ op \in [Callers -> Ops]

Init ==
  /\ blob = [k \in Keys |-> NoBlob]
  /\ flushed = blob
  /\ \E k \in Keys :
       op = [c \in Callers |-> [pc |-> "idle", kind |-> "Get", key |-> k, data |-> NoBlob]]

Invoke(c) ==
  /\ op[c].pc = "idle"
  /\ \E kind \in {"Put", "Get", "Delete"} : \E k \in Keys :
     \E d \in IF kind = "Put" THEN Data ELSE {NoBlob} :
       op' = [op EXCEPT ![c] = [pc |-> "pending", kind |-> kind, key |-> k, data |-> d]]
  /\ UNCHANGED <<blob, flushed>>

\* Put, Get (a missing key is ErrNotFound) and Delete (a missing key is no error).
Commit(c) ==
  /\ op[c].pc = "pending"
  /\ blob' = IF op[c].kind = "Get" THEN blob ELSE [blob EXCEPT ![op[c].key] = op[c].data]
  /\ op' = [op EXCEPT ![c].pc = "done",
                      ![c].data = IF op[c].kind = "Get" THEN blob[op[c].key] ELSE @]
  /\ UNCHANGED flushed

Return(c) ==
  /\ op[c].pc = "done"
  /\ op' = [op EXCEPT ![c].pc = "idle"]
  /\ UNCHANGED <<blob, flushed>>

\* An error: nothing has happened.
Fail(c) ==
  /\ op[c].pc = "pending"
  /\ op' = [op EXCEPT ![c].pc = "idle"]
  /\ UNCHANGED <<blob, flushed>>

Flush(k) ==
  /\ flushed' = [flushed EXCEPT ![k] = blob[k]]
  /\ UNCHANGED <<blob, op>>

Dropped == [c \in Callers |-> [op[c] EXCEPT !.pc = "idle"]]

Kill ==
  /\ op' = Dropped
  /\ UNCHANGED <<blob, flushed>>

PowerLoss ==
  /\ blob' = flushed
  /\ op' = Dropped
  /\ UNCHANGED flushed

Next ==
  \/ \E c \in Callers : Invoke(c) \/ Commit(c) \/ Return(c) \/ Fail(c)
  \/ \E k \in Keys : Flush(k)
  \/ Kill
  \/ PowerLoss

Spec == Init /\ [][Next]_vars
=============================================================================
