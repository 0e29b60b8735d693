----------------------------- MODULE VideoJobs -----------------------------
(***************************************************************************)
(* Asynchronous video generation: POST handlers that create a job row and  *)
(* put the job on a bounded channel, the goroutine that consumes it, and   *)
(* the process both live in.  Rows and files survive the process; the      *)
(* channel, the handlers and the worker do not.                            *)
(*                                                                         *)
(* A job stands for the request that creates it and for the asset its      *)
(* worker produces.  A context is done when its client has gone (handler)  *)
(* or when the process was told to stop (worker).                          *)
(***************************************************************************)
EXTENDS Naturals, Sequences

CONSTANTS Jobs,       \* jobs that may be requested
          None,       \* no job
          Buffer,     \* capacity of the channel (Queue.VideoMaxAttempts)
          CtxChecked, \* the repository refuses a statement whose context is
                      \* done: Postgres does, the in-memory adapter does not
          Faults      \* statements and file operations may fail by themselves

ASSUME NoneAssumption == None \notin Jobs
ASSUME BufferAssumption == Buffer \in Nat \ {0}
ASSUME ModeAssumption == CtxChecked \in BOOLEAN /\ Faults \in BOOLEAN

VARIABLES
  process,   \* running, stopping (signal received) or down
  status,    \* jobs.status
  result,    \* jobs whose result_generation_record_id is set
  blobs,     \* jobs whose bytes are in the store
  assets,    \* jobs whose asset row exists
  handler,   \* the step of the job's POST handler
  cancelled, \* handlers whose request context is done
  channel,   \* InProc.ch
  worker,    \* the step of the consumer and its job
  undone,    \* history: jobs whose Enqueue failed, their handler returned
  abandoned, \* history: jobs whose last write was lost, or whose holder died
  unanswered \* history: jobs whose asset was inserted, the answer lost

stored  == <<status, result, blobs, assets>>
history == <<undone, abandoned, unanswered>>
vars    == <<process, stored, handler, cancelled, channel, worker, history>>

WorkerSteps == {"idle", "start", "generate", "put", "create", "cleanup",
                "finish", "fail", "gone"}

TypeOK ==
  /\ process \in {"running", "stopping", "down"}
  /\ status \in [Jobs -> {"absent", "queued", "running", "done", "failed"}]
  /\ result \in SUBSET Jobs
  /\ blobs \in SUBSET Jobs
  /\ assets \in SUBSET Jobs
  /\ handler \in [Jobs -> {"idle", "enqueue", "undo"}]
  /\ cancelled \in SUBSET Jobs
  /\ channel \in Seq(Jobs) /\ Len(channel) <= Buffer
  /\ worker \in [pc: WorkerSteps, job: Jobs \cup {None}]
  /\ undone \in SUBSET Jobs
  /\ abandoned \in SUBSET Jobs
  /\ unanswered \in SUBSET Jobs

Idle == [pc |-> "idle", job |-> None]

Init ==
  /\ process = "running"
  /\ status = [j \in Jobs |-> "absent"]
  /\ result = {} /\ blobs = {} /\ assets = {}
  /\ handler = [j \in Jobs |-> "idle"]
  /\ cancelled = {}
  /\ channel = <<>>
  /\ worker = Idle
  /\ undone = {} /\ abandoned = {} /\ unanswered = {}

-----------------------------------------------------------------------------
(* UpdateJobStatus, whose error every caller ignores. *)

Written(j, s, stopped) ==
  /\ ~(CtxChecked /\ stopped)
  /\ status' = [status EXCEPT ![j] = s]
  /\ result' = IF s = "done" THEN result \cup {j} ELSE result
  /\ UNCHANGED abandoned

NotWritten(j, stopped) ==
  /\ Faults \/ (CtxChecked /\ stopped)
  /\ abandoned' = abandoned \cup {j}
  /\ UNCHANGED <<status, result>>

UpdateJobStatus(j, s, stopped) == Written(j, s, stopped) \/ NotWritten(j, stopped)

-----------------------------------------------------------------------------
(* The POST handler. *)

Returns(j) ==
  /\ handler' = [handler EXCEPT ![j] = "idle"]
  /\ cancelled' = cancelled \ {j}

\* A statement may have been carried out although its caller is told it failed:
\* the connection broke, or the context ended, before the answer was back.
AnswerLost(stopped) == Faults \/ (CtxChecked /\ stopped)

\* Quota and moderation have let the request through; the job row is created,
\* and if nobody hears of it the handler ends and the job is never enqueued.
GenerateVideo(j) ==
  /\ process # "down"
  /\ status[j] = "absent"
  /\ status' = [status EXCEPT ![j] = "queued"]
  /\ \/ handler' = [handler EXCEPT ![j] = "enqueue"] /\ UNCHANGED abandoned
     \/ AnswerLost(TRUE) /\ abandoned' = abandoned \cup {j} /\ UNCHANGED handler
  /\ UNCHANGED <<process, result, blobs, assets, cancelled, channel, worker, undone, unanswered>>

ClientLeaves(j) ==
  /\ handler[j] # "idle" /\ j \notin cancelled
  /\ cancelled' = cancelled \cup {j}
  /\ UNCHANGED <<process, stored, handler, channel, worker, history>>

\* The select of Enqueue: with both ready, either is chosen.
Enqueue(j) ==
  /\ handler[j] = "enqueue"
  /\ Len(channel) < Buffer
  /\ channel' = Append(channel, j)
  /\ Returns(j)
  /\ UNCHANGED <<process, stored, worker, history>>

EnqueueCancelled(j) ==
  /\ handler[j] = "enqueue" /\ j \in cancelled
  /\ handler' = [handler EXCEPT ![j] = "undo"]
  /\ UNCHANGED <<process, stored, cancelled, channel, worker, history>>

\* Mutation: the job is not marked failed.
EnqueueFailedSkipped(j) ==
  /\ handler[j] = "undo"
  /\ undone' = undone \cup {j}
  /\ Returns(j)
  /\ UNCHANGED <<process, stored, channel, worker, abandoned, unanswered>>

\* The compensating write uses the context whose end made Enqueue fail.
EnqueueFailed(j) ==
  /\ handler[j] = "undo"
  /\ UpdateJobStatus(j, "failed", TRUE)
  /\ undone' = undone \cup {j}
  /\ Returns(j)
  /\ UNCHANGED <<process, blobs, assets, channel, worker, unanswered>>

-----------------------------------------------------------------------------
(* The consumer: Start, ProcessVideoJob and persistAsset. *)

Stopping == process # "running"
Work(step, next) ==
  /\ worker.pc = step
  /\ worker' = IF next = "idle" THEN Idle ELSE [worker EXCEPT !.pc = next]

Take ==
  /\ process # "down"
  /\ worker.pc = "idle" /\ channel # <<>>
  /\ worker' = [pc |-> "start", job |-> Head(channel)]
  /\ channel' = Tail(channel)
  /\ UNCHANGED <<process, stored, handler, cancelled, history>>

ConsumerReturns ==
  /\ process = "stopping"
  /\ Work("idle", "gone")
  /\ UNCHANGED <<process, stored, handler, cancelled, channel, history>>

MarkRunning ==
  /\ Work("start", "generate")
  /\ UpdateJobStatus(worker.job, "running", Stopping)
  /\ UNCHANGED <<process, blobs, assets, handler, cancelled, channel, undone, unanswered>>

\* The provider chain ends within its timeouts, with a video or without.
RunProviders ==
  /\ Work("generate", "put") \/ Work("generate", "fail")
  /\ UNCHANGED <<process, stored, handler, cancelled, channel, history>>

Put ==
  /\ \/ Work("put", "create") /\ blobs' = blobs \cup {worker.job}
     \/ Faults /\ Work("put", "fail") /\ UNCHANGED blobs
  /\ UNCHANGED <<process, status, result, assets, handler, cancelled, channel, history>>

\* Mutation: the job is marked done whether or not the asset was recorded.
CreateAssetUnchecked ==
  /\ \/ /\ ~(CtxChecked /\ Stopping)
        /\ assets' = assets \cup {worker.job}
     \/ /\ Faults \/ (CtxChecked /\ Stopping)
        /\ UNCHANGED assets
  /\ Work("create", "finish")
  /\ UNCHANGED <<process, status, result, blobs, handler, cancelled, channel, history>>

\* The row, stored or not; and stored with the answer lost on its way back,
\* after which the bytes are deleted all the same.
CreateAsset ==
  /\ \/ /\ ~(CtxChecked /\ Stopping)
        /\ Work("create", "finish")
        /\ assets' = assets \cup {worker.job}
        /\ UNCHANGED unanswered
     \/ /\ AnswerLost(Stopping)
        /\ Work("create", "cleanup")
        /\ \/ UNCHANGED <<assets, unanswered>>
           \/ /\ assets' = assets \cup {worker.job}
              /\ unanswered' = unanswered \cup {worker.job}
  /\ UNCHANGED <<process, status, result, blobs, handler, cancelled, channel, undone, abandoned>>

\* Store.Delete does not look at the context; its error is ignored.
DeleteBlob ==
  /\ Work("cleanup", "fail")
  /\ \/ blobs' = blobs \ {worker.job} /\ UNCHANGED abandoned
     \/ Faults /\ UNCHANGED blobs /\ abandoned' = abandoned \cup {worker.job}
  /\ UNCHANGED <<process, status, result, assets, handler, cancelled, channel, undone, unanswered>>

MarkDone ==
  /\ Work("finish", "idle")
  /\ UpdateJobStatus(worker.job, "done", Stopping)
  /\ UNCHANGED <<process, blobs, assets, handler, cancelled, channel, undone, unanswered>>

\* Mutation: an error ends the consumer's loop.
MarkFailedReturns ==
  /\ worker.pc = "fail"
  /\ worker' = [pc |-> "gone", job |-> None]
  /\ UpdateJobStatus(worker.job, "failed", Stopping)
  /\ UNCHANGED <<process, blobs, assets, handler, cancelled, channel, undone, unanswered>>

\* Mutation: a failed job is tried again.
MarkFailedRetries ==
  /\ Work("fail", "start")
  /\ UpdateJobStatus(worker.job, "failed", Stopping)
  /\ UNCHANGED <<process, blobs, assets, handler, cancelled, channel, undone, unanswered>>

\* The error is logged by Start, which goes on to the next job.
MarkFailed ==
  /\ Work("fail", "idle")
  /\ UpdateJobStatus(worker.job, "failed", Stopping)
  /\ UNCHANGED <<process, blobs, assets, handler, cancelled, channel, undone, unanswered>>

-----------------------------------------------------------------------------
(* The process. *)

\* A job in somebody's hands: its handler, the channel or the worker.
InChannel(j) == \E i \in 1..Len(channel) : channel[i] = j
Held(j) == handler[j] # "idle" \/ InChannel(j) \/ worker.job = j

Signal ==
  /\ process = "running"
  /\ process' = "stopping"
  /\ UNCHANGED <<stored, handler, cancelled, channel, worker, history>>

\* The process ends: killed at any time, or after a signal when the HTTP server
\* has shut down or its 15 seconds are over.  Nothing waits for the consumer.
Exit ==
  /\ process # "down"
  /\ process' = "down"
  /\ abandoned' = abandoned \cup {j \in Jobs : Held(j)}
  /\ handler' = [j \in Jobs |-> "idle"]
  /\ cancelled' = {}
  /\ channel' = <<>>
  /\ worker' = Idle
  /\ UNCHANGED <<stored, undone, unanswered>>

\* Nothing reads the jobs table at start-up.
Boot ==
  /\ process = "down"
  /\ process' = "running"
  /\ UNCHANGED <<stored, handler, cancelled, channel, worker, history>>

-----------------------------------------------------------------------------
HandlerStep(j) == Enqueue(j) \/ EnqueueCancelled(j) \/ EnqueueFailed(j)

WorkerStep ==
  \/ Take
  \/ MarkRunning
  \/ RunProviders
  \/ Put
  \/ CreateAsset
  \/ DeleteBlob
  \/ MarkDone
  \/ MarkFailed

Next ==
  \/ \E j \in Jobs : GenerateVideo(j) \/ ClientLeaves(j) \/ HandlerStep(j)
  \/ WorkerStep
  \/ ConsumerReturns
  \/ Signal
  \/ Exit
  \/ Boot

Spec == Init /\ [][Next]_vars

\* Goroutines that can run do run, and providers and statements return.
FairSpec ==
  /\ Spec
  /\ \A j \in Jobs : WF_vars(HandlerStep(j))
  /\ WF_vars(WorkerStep)

-----------------------------------------------------------------------------
\* A job marked done, and no other, links to an asset whose row and bytes are
\* both there, whatever fails and whenever the process dies: GET /jobs/{id} never
\* names an asset that cannot be downloaded.  A row may be left without bytes by
\* an insert that went unanswered, and by nothing else; no job links to it.
ResultsAreStored ==
  /\ \A j \in Jobs : status[j] = "done" <=> j \in result
  /\ result \subseteq assets \cap blobs
  /\ assets \ unanswered \subseteq blobs

\* A job that is waiting or running is in somebody's hands, and bytes without
\* a finished job are in the worker's, unless a write was lost or the process
\* died under them: only then does a row stay unfinished for ever.
NothingForgotten ==
  \A j \in Jobs \ abandoned :
    /\ status[j] \in {"queued", "running"} => Held(j)
    /\ j \in blobs => status[j] = "done" \/ worker.job = j

\* Done and failed are final: the handler that gives up on Enqueue and the
\* worker never both decide about a job.
FinalStands ==
  [][\A j \in Jobs : status[j] \in {"done", "failed"} => status'[j] = status[j]]_vars

\* GenerateVideo: "Update job to failed if enqueue fails."
EnqueueFailureRecorded == \A j \in undone : status[j] = "failed"

\* While the process runs and no write is lost, every job the service has
\* accepted ends, done or failed, however full the channel is, whichever client
\* leaves and whatever else fails.
Settled(j) == status[j] \in {"done", "failed"}
JobsSettle ==
  [](process = "running" /\ abandoned = {}) =>
    \A j \in Jobs : status[j] = "queued" ~> Settled(j)
=============================================================================
