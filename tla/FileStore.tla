----------------------------- MODULE FileStore -----------------------------
(***************************************************************************)
(* fsStore: blobs as files under a base directory.  Put writes a temporary *)
(* file next to its destination, syncs it and renames it into place; any   *)
(* step may fail, and the process or the machine may die between two.      *)
(*                                                                         *)
(* Nothing syncs the directory: an entry made by a rename or removed by a  *)
(* delete reaches the disk when the kernel gets to it.                     *)
(***************************************************************************)
CONSTANTS Callers, Keys, Data, NoBlob,
          Torn     \* the content of a file that was not written to its end

ASSUME ContentAssumption == NoBlob \notin Data /\ Torn \notin Data \cup {NoBlob}

VARIABLES
  entry,    \* by key, the file of that name as the running system shows it
  disk,     \* by key, the file of that name on the disk
  temp,     \* by caller, its temporary file
  unsynced, \* callers whose temporary file has bytes only in memory
  volatile, \* keys whose file has bytes only in memory
  call      \* the call each goroutine is in: its step and its arguments

files == <<entry, disk, temp, unsynced, volatile>>
fsVars == <<files, call>>

Content == Data \cup {NoBlob, Torn}
Steps   == {"idle", "start", "write", "sync", "close", "rename", "cleanup", "done"}

FileTypeOK ==
  /\ entry \in [Keys -> Content]
  /\ disk \in [Keys -> Content]
  /\ temp \in [Callers -> Content]
  /\ unsynced \in SUBSET Callers
  /\ volatile \in SUBSET Keys
  /\ call \in [Callers -> [pc: Steps, kind: {"Put", "Get", "Delete"}, key: Keys, data: Content]]
  /\ \A c \in Callers : temp[c] # NoBlob => call[c].pc \in {"write", "sync", "close", "rename", "cleanup"}

FileInit ==
  /\ entry = [k \in Keys |-> NoBlob]
  /\ disk = entry
  /\ temp = [c \in Callers |-> NoBlob]
  /\ unsynced = {} /\ volatile = {}
  /\ \E k \in Keys :
       call = [c \in Callers |-> [pc |-> "idle", kind |-> "Get", key |-> k, data |-> NoBlob]]

-----------------------------------------------------------------------------
Invoke(c) ==
  /\ call[c].pc = "idle"
  /\ \E kind \in {"Put", "Get", "Delete"} : \E k \in Keys :
     \E d \in IF kind = "Put" THEN Data ELSE {NoBlob} :
       call' = [call EXCEPT ![c] = [pc |-> "start", kind |-> kind, key |-> k, data |-> d]]
  /\ UNCHANGED files

Step(c, from, to) == call[c].pc = from /\ call' = [call EXCEPT ![c].pc = to]

\* The calls that may only succeed or return an error: the directory, the
\* temporary file, closing it and its mode.
CreateTemp(c) ==
  /\ call[c].kind = "Put" /\ Step(c, "start", "write")
  /\ temp' = [temp EXCEPT ![c] = Torn]
  /\ UNCHANGED <<entry, disk, unsynced, volatile>>

Write(c) ==
  /\ Step(c, "write", "sync")
  /\ temp' = [temp EXCEPT ![c] = call[c].data]
  /\ unsynced' = unsynced \cup {c}
  /\ UNCHANGED <<entry, disk, volatile>>

\* Mutation: the file is not synced.
SyncSkipped(c) ==
  /\ Step(c, "sync", "close")
  /\ UNCHANGED files

Sync(c) ==
  /\ Step(c, "sync", "close")
  /\ unsynced' = unsynced \ {c}
  /\ UNCHANGED <<entry, disk, temp, volatile>>

Close(c) ==
  /\ Step(c, "close", "rename")
  /\ UNCHANGED files

\* The file takes its name; what was there before is gone.
Rename(c) ==
  LET k == call[c].key IN
  /\ Step(c, "rename", "done")
  /\ entry' = [entry EXCEPT ![k] = temp[c]]
  /\ volatile' = IF c \in unsynced THEN volatile \cup {k} ELSE volatile \ {k}
  /\ temp' = [temp EXCEPT ![c] = NoBlob]
  /\ unsynced' = unsynced \ {c}
  /\ UNCHANGED disk

\* Any of the steps returns an error.
Fail(c) ==
  /\ \/ Step(c, "start", "idle")
     \/ \E from \in {"write", "sync", "close", "rename"} : Step(c, from, "cleanup")
  /\ UNCHANGED files

\* The deferred Remove of the temporary file, whose own error is ignored.
RemoveTemp(c) ==
  /\ Step(c, "cleanup", "idle")
  /\ temp' = [temp EXCEPT ![c] = NoBlob]
  /\ unsynced' = unsynced \ {c}
  /\ UNCHANGED <<entry, disk, volatile>>

Get(c) ==
  /\ call[c].kind = "Get" /\ call[c].pc = "start"
  /\ call' = [call EXCEPT ![c].pc = "done", ![c].data = entry[call[c].key]]
  /\ UNCHANGED files

Delete(c) ==
  /\ call[c].kind = "Delete" /\ Step(c, "start", "done")
  /\ entry' = [entry EXCEPT ![call[c].key] = NoBlob]
  /\ UNCHANGED <<disk, temp, unsynced, volatile>>

Return(c) ==
  /\ Step(c, "done", "idle")
  /\ UNCHANGED files

-----------------------------------------------------------------------------
(* The operating system. *)

FlushEntry(k) ==
  /\ disk' = [disk EXCEPT ![k] = IF k \in volatile /\ entry[k] # NoBlob THEN Torn ELSE entry[k]]
  /\ UNCHANGED <<entry, temp, unsynced, volatile, call>>

Stopped == [c \in Callers |-> [call[c] EXCEPT !.pc = "idle"]]

\* The process dies: files stay, temporary files as well, with nobody to
\* remove them.
Kill ==
  /\ call' = Stopped
  /\ temp' = [c \in Callers |-> NoBlob]
  /\ unsynced' = {}
  /\ UNCHANGED <<entry, disk, volatile>>

\* The machine dies: of a file that was not synced the end may be missing.
PowerLoss ==
  /\ entry' = disk
  /\ volatile' = {}
  /\ call' = Stopped
  /\ temp' = [c \in Callers |-> NoBlob]
  /\ unsynced' = {}
  /\ UNCHANGED disk

PutStep(c) == CreateTemp(c) \/ Write(c) \/ Sync(c) \/ Close(c) \/ Rename(c)

FileNext ==
  \/ \E c \in Callers : \/ Invoke(c) \/ PutStep(c) \/ Get(c) \/ Delete(c)
                        \/ Return(c) \/ Fail(c) \/ RemoveTemp(c)
  \/ \E k \in Keys : FlushEntry(k)
  \/ Kill
  \/ PowerLoss

FileSpec == FileInit /\ [][FileNext]_fsVars

-----------------------------------------------------------------------------
\* "A reader never sees a half-written blob", nor does the disk keep one.
NeverCorrupt == \A k \in Keys : entry[k] # Torn /\ disk[k] # Torn

\* A call that has returned has taken effect at once and whole, one that has
\* failed not at all, however calls on one key overlap and whenever the
\* process or the machine dies.
AbstractOp(c) ==
  [call[c] EXCEPT !.pc = CASE @ \in {"idle", "done"} -> @ [] OTHER -> "pending"]

Blobs == INSTANCE BlobStore WITH
  blob <- entry, flushed <- disk, op <- [c \in Callers |-> AbstractOp(c)]

ActsAsBlobStore == Blobs!Spec
=============================================================================
