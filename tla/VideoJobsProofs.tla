-------------------------- MODULE VideoJobsProofs --------------------------
(***************************************************************************)
(* Theorems about VideoJobs for any number of jobs, any channel capacity,  *)
(* either repository, and any pattern of faults, shutdowns and crashes.    *)
(***************************************************************************)
EXTENDS VideoJobs, TLAPS

Distinct == \A i, k \in 1..Len(channel) : channel[i] = channel[k] => i = k

\* A job is in one pair of hands at most, and has left no trace in the store
\* until the worker has it.
OneHolder ==
  /\ Distinct
  /\ \A j \in Jobs :
       /\ handler[j] # "idle" => ~InChannel(j) /\ worker.job # j
       /\ InChannel(j) => worker.job # j
       /\ handler[j] # "idle" \/ InChannel(j) => status[j] = "queued"
       /\ status[j] = "absent" \/ handler[j] # "idle" \/ InChannel(j) =>
            j \notin blobs /\ j \notin assets /\ worker.job # j

\* What the worker has stored of its job at each step.
WorkerKnows ==
  /\ worker.job = None <=> worker.pc \in {"idle", "gone"}
  /\ worker.job # None => status[worker.job] \in {"queued", "running"}
  /\ worker.pc \in {"start", "generate", "put"} => worker.job \notin blobs \cup assets
  /\ worker.pc = "create" => worker.job \in blobs \ assets
  /\ worker.pc = "cleanup" => worker.job \in blobs
  /\ worker.pc \in {"cleanup", "fail"} => (worker.job \in assets => worker.job \in unanswered)
  /\ worker.pc = "fail" => (worker.job \in blobs => worker.job \in abandoned)
  /\ worker.pc = "finish" => worker.job \in assets \cap blobs

IInv ==
  /\ TypeOK
  /\ OneHolder
  /\ WorkerKnows
  /\ ResultsAreStored
  /\ NothingForgotten

\* Sending on the channel.
LEMMA ChannelAppend ==
  ASSUME channel \in Seq(Jobs), NEW j \in Jobs, channel' = Append(channel, j)
  PROVE  /\ channel' \in Seq(Jobs) /\ Len(channel') = Len(channel) + 1
         /\ \A k \in Jobs : InChannel(k)' <=> InChannel(k) \/ k = j
         /\ Distinct /\ ~InChannel(j) => Distinct'
<1>1. /\ channel' \in Seq(Jobs) /\ Len(channel') = Len(channel) + 1 /\ Len(channel) \in Nat
      /\ \A i \in 1..Len(channel) : channel'[i] = channel[i]
      /\ channel'[Len(channel) + 1] = j
  OBVIOUS
<1>2. \A k \in Jobs : InChannel(k)' <=> InChannel(k) \/ k = j
  BY <1>1 DEF InChannel
<1>3. Distinct /\ ~InChannel(j) => Distinct'
  BY <1>1 DEF Distinct, InChannel
<1> QED
  BY <1>1, <1>2, <1>3

\* Receiving from it.
LEMMA ChannelTail ==
  ASSUME channel \in Seq(Jobs), channel # <<>>, channel' = Tail(channel),
         NEW h, h = Head(channel)
  PROVE  /\ channel' \in Seq(Jobs) /\ Len(channel') = Len(channel) - 1
         /\ h \in Jobs /\ InChannel(h)
         /\ \A k \in Jobs : InChannel(k)' => InChannel(k)
         /\ \A k \in Jobs : InChannel(k) => InChannel(k)' \/ k = h
         /\ Distinct => Distinct' /\ ~InChannel(h)'
<1>1. /\ channel' \in Seq(Jobs) /\ Len(channel') = Len(channel) - 1
      /\ Len(channel) \in Nat /\ Len(channel) >= 1
      /\ h = channel[1] /\ h \in Jobs
      /\ \A i \in 1..Len(channel') : channel'[i] = channel[i + 1]
  OBVIOUS
<1>2. InChannel(h) /\ \A k \in Jobs : InChannel(k)' => InChannel(k)
  BY <1>1 DEF InChannel
<1>3. ASSUME NEW k \in Jobs, InChannel(k) PROVE InChannel(k)' \/ k = h
  <2>1. PICK i \in 1..Len(channel) : channel[i] = k
    BY <1>3 DEF InChannel
  <2>2. CASE i = 1
    BY <1>1, <2>1, <2>2
  <2>3. CASE i # 1
    <3>1. i - 1 \in 1..Len(channel') /\ channel'[i - 1] = k
      BY <1>1, <2>1, <2>3
    <3> QED
      BY <3>1 DEF InChannel
  <2> QED
    BY <2>2, <2>3
<1>4. Distinct => Distinct' /\ ~InChannel(h)'
  <2> SUFFICES ASSUME Distinct PROVE Distinct' /\ ~InChannel(h)'
    OBVIOUS
  <2>1. \A i \in 1..Len(channel') : i + 1 \in 1..Len(channel) /\ i + 1 # 1
    BY <1>1
  <2>2. ASSUME NEW i \in 1..Len(channel'), NEW k \in 1..Len(channel'),
               channel'[i] = channel'[k]
        PROVE  i = k
    <3>1. i + 1 = k + 1
      BY <1>1, <2>1, <2>2 DEF Distinct
    <3> QED
      BY <3>1
  <2>3. ASSUME NEW i \in 1..Len(channel') PROVE channel'[i] # h
    <3>1. channel[i + 1] # channel[1]
      BY <1>1, <2>1 DEF Distinct
    <3> QED
      BY <1>1, <3>1
  <2>4. Distinct'
    BY <2>2 DEF Distinct
  <2>5. ~InChannel(h)'
    BY <2>3 DEF InChannel
  <2> QED
    BY <2>4, <2>5
<1> QED
  BY <1>1, <1>2, <1>3, <1>4

\* A job nobody holds was never requested or is finished.
LEMMA Initial == Init => IInv
<1> SUFFICES ASSUME Init PROVE IInv
  OBVIOUS
<1>0. Len(channel) = 0
  BY DEF Init
<1>1. \A j \in Jobs : ~InChannel(j)
  BY <1>0 DEF InChannel
<1>2. Distinct
  BY <1>0 DEF Distinct
<1>3. TypeOK
  BY BufferAssumption DEF Init, TypeOK, Idle, WorkerSteps
<1> QED
  BY <1>1, <1>2, <1>3, NoneAssumption
  DEF Init, IInv, OneHolder, WorkerKnows, ResultsAreStored, NothingForgotten, Idle

\* The steps of a POST handler.
LEMMA HandlerKeeps ==
  ASSUME IInv, NEW j \in Jobs, GenerateVideo(j) \/ ClientLeaves(j) \/ HandlerStep(j)
  PROVE  IInv'
<1> USE NoneAssumption DEF stored, history, IInv
<1>1. CASE GenerateVideo(j)
  <2>1. \A k \in Jobs : InChannel(k)' = InChannel(k)
    BY <1>1 DEF GenerateVideo, InChannel
  <2>2. Distinct'
    BY <1>1 DEF GenerateVideo, Distinct, OneHolder
  <2>3. TypeOK'
    BY <1>1 DEF GenerateVideo, TypeOK
  <2>4. OneHolder'
    <3>1. /\ status[j] = "absent" /\ status'[j] = "queued"
          /\ worker' = worker /\ blobs' = blobs /\ assets' = assets
      BY <1>1 DEF GenerateVideo, TypeOK
    <3>2. \A k \in Jobs : k # j => status'[k] = status[k] /\ handler'[k] = handler[k]
      BY <1>1 DEF GenerateVideo, TypeOK
    <3>3. ~InChannel(j) /\ worker.job # j /\ j \notin blobs /\ j \notin assets
      BY <3>1 DEF OneHolder
    <3>4. ASSUME NEW k \in Jobs
          PROVE  /\ handler'[k] # "idle" => ~InChannel(k) /\ worker.job # k
                 /\ InChannel(k) => worker.job # k
                 /\ handler'[k] # "idle" \/ InChannel(k) => status'[k] = "queued"
                 /\ status'[k] = "absent" \/ handler'[k] # "idle" \/ InChannel(k) =>
                      k \notin blobs /\ k \notin assets /\ worker.job # k
      <4>1. CASE k = j
        BY <3>1, <3>3, <4>1
      <4>2. CASE k # j
        BY <3>2, <4>2 DEF OneHolder
      <4> QED
        BY <4>1, <4>2
    <3> QED
      BY <2>1, <2>2, <3>1, <3>4 DEF OneHolder
  <2>5. WorkerKnows'
    <3>1. /\ worker.job # j /\ worker' = worker /\ blobs' = blobs /\ assets' = assets
          /\ unanswered' = unanswered /\ abandoned \subseteq abandoned'
      BY <1>1 DEF GenerateVideo, OneHolder
    <3>2. worker.job # None => worker.job \in Jobs /\ status'[worker.job] = status[worker.job]
      BY <1>1, <3>1 DEF GenerateVideo, TypeOK
    <3> QED
      BY <3>1, <3>2 DEF WorkerKnows
  <2>6. ResultsAreStored'
    BY <1>1 DEF GenerateVideo, ResultsAreStored, TypeOK
  <2>7. NothingForgotten'
    <3>1. ASSUME NEW k \in Jobs, k # j, k \notin abandoned'
          PROVE  /\ k \notin abandoned /\ status'[k] = status[k] /\ blobs' = blobs
                 /\ worker' = worker /\ (Held(k)' <=> Held(k))
      <4>1. /\ status'[k] = status[k] /\ handler'[k] = handler[k]
            /\ worker' = worker /\ blobs' = blobs /\ abandoned \subseteq abandoned'
        BY <1>1, <3>1 DEF GenerateVideo, TypeOK
      <4> QED
        BY <2>1, <3>1, <4>1 DEF Held
    <3>2. j \notin blobs'
      BY <1>1 DEF GenerateVideo, OneHolder
    <3>3. j \notin abandoned' => Held(j)'
      <4>1. j \in abandoned' \/ handler' = [handler EXCEPT ![j] = "enqueue"]
        BY <1>1 DEF GenerateVideo
      <4>2. handler \in [Jobs -> {"idle", "enqueue", "undo"}]
        BY DEF TypeOK
      <4>3. j \in abandoned' \/ handler'[j] # "idle"
        BY <4>1, <4>2
      <4> QED
        BY <4>3 DEF Held
    <3> QED
      BY <3>1, <3>2, <3>3 DEF NothingForgotten
  <2> QED
    BY <2>3, <2>4, <2>5, <2>6, <2>7
<1>2. CASE ClientLeaves(j)
  BY <1>2 DEF ClientLeaves, TypeOK, OneHolder, Distinct, InChannel, WorkerKnows,
              ResultsAreStored, NothingForgotten, Held
<1>3. CASE Enqueue(j)
  <2>0. channel \in Seq(Jobs) /\ channel' = Append(channel, j) /\ handler[j] = "enqueue"
    BY <1>3 DEF Enqueue, TypeOK
  <2>1. /\ channel' \in Seq(Jobs) /\ Len(channel') = Len(channel) + 1
        /\ \A k \in Jobs : InChannel(k)' <=> InChannel(k) \/ k = j
        /\ Distinct /\ ~InChannel(j) => Distinct'
    BY <2>0, ChannelAppend
  <2>2. Len(channel) \in Nat
    BY <2>0
  <2>3. TypeOK'
    BY <1>3, <2>1, <2>2, BufferAssumption DEF Enqueue, Returns, TypeOK
  <2>4. OneHolder'
    BY <1>3, <2>0, <2>1 DEF Enqueue, Returns, OneHolder, TypeOK
  <2>5. WorkerKnows' /\ ResultsAreStored'
    BY <1>3 DEF Enqueue, WorkerKnows, ResultsAreStored
  <2>6. NothingForgotten'
    BY <1>3, <2>1 DEF Enqueue, Returns, NothingForgotten, Held, TypeOK
  <2> QED
    BY <2>3, <2>4, <2>5, <2>6
<1>4. CASE EnqueueCancelled(j)
  <2>1. channel' = channel /\ handler[j] = "enqueue" /\ handler' = [handler EXCEPT ![j] = "undo"]
    BY <1>4 DEF EnqueueCancelled
  <2>2. \A k \in Jobs : InChannel(k)' = InChannel(k) /\ (handler'[k] # "idle" <=> handler[k] # "idle")
    BY <2>1 DEF InChannel, TypeOK
  <2>3. Distinct'
    BY <2>1 DEF Distinct, OneHolder
  <2> QED
    BY <1>4, <2>1, <2>2, <2>3
    DEF EnqueueCancelled, TypeOK, OneHolder, WorkerKnows, ResultsAreStored,
        NothingForgotten, Held
<1>5. CASE EnqueueFailed(j)
  <2> USE DEF EnqueueFailed, Returns, UpdateJobStatus, Written, NotWritten
  <2>0. handler[j] = "undo" /\ channel' = channel /\ worker' = worker
    BY <1>5
  <2>1. \A k \in Jobs : InChannel(k)' = InChannel(k)
    BY <2>0 DEF InChannel
  <2>2. Distinct'
    BY <2>0 DEF Distinct, OneHolder
  <2>3. TypeOK'
    BY <1>5 DEF TypeOK
  <2>4. \A k \in Jobs : k # j => status'[k] = status[k]
    BY <1>5 DEF TypeOK
  <2>5. OneHolder'
    BY <1>5, <2>0, <2>1, <2>2, <2>4 DEF OneHolder, TypeOK
  <2>6. WorkerKnows'
    BY <1>5, <2>0, <2>4 DEF OneHolder, WorkerKnows, TypeOK
  <2>7. ResultsAreStored'
    BY <1>5, <2>0 DEF OneHolder, ResultsAreStored, TypeOK
  <2>8. NothingForgotten'
    BY <1>5, <2>0, <2>1 DEF OneHolder, NothingForgotten, Held, TypeOK
  <2> QED
    BY <2>3, <2>5, <2>6, <2>7, <2>8
<1> QED
  BY <1>1, <1>2, <1>3, <1>4, <1>5 DEF HandlerStep

\* The steps of the consumer.
LEMMA WorkerKeeps ==
  ASSUME IInv, WorkerStep \/ ConsumerReturns
  PROVE  IInv'
<1> USE NoneAssumption DEF stored, history, IInv, Work
<1>0. /\ worker \in [pc: WorkerSteps, job: Jobs \cup {None}]
      /\ handler' = handler /\ process' = process /\ cancelled' = cancelled
      /\ undone' = undone
  BY DEF TypeOK, WorkerStep, ConsumerReturns, Take, MarkRunning, RunProviders, Put,
         CreateAsset, DeleteBlob, MarkDone, MarkFailed
<1>1. CASE Take
  <2>0. channel \in Seq(Jobs) /\ channel # <<>> /\ channel' = Tail(channel)
    BY <1>1 DEF Take, TypeOK
  <2>1. PICK h \in Jobs : h = Head(channel)
    BY <2>0
  <2>2. /\ channel' \in Seq(Jobs) /\ Len(channel') = Len(channel) - 1
        /\ InChannel(h)
        /\ \A k \in Jobs : InChannel(k)' => InChannel(k)
        /\ \A k \in Jobs : InChannel(k) => InChannel(k)' \/ k = h
        /\ Distinct => Distinct' /\ ~InChannel(h)'
    BY <2>0, <2>1, ChannelTail
  <2>3. worker' = [pc |-> "start", job |-> h]
    BY <1>1, <2>1 DEF Take
  <2>4. TypeOK'
    <3>1. Len(channel) \in Nat
      BY <2>0
    <3> QED
      BY <1>1, <2>2, <2>3, <3>1, BufferAssumption DEF Take, TypeOK, WorkerSteps
  <2>5. OneHolder'
    BY <1>0, <1>1, <2>2, <2>3 DEF Take, OneHolder
  <2>6. WorkerKnows'
    BY <1>1, <2>2, <2>3 DEF Take, OneHolder, WorkerKnows
  <2>7. ResultsAreStored' /\ NothingForgotten'
    BY <1>1, <2>2, <2>3 DEF Take, OneHolder, WorkerKnows, ResultsAreStored, NothingForgotten, Held
  <2> QED
    BY <2>4, <2>5, <2>6, <2>7
<1>2. CASE channel' = channel /\ ~Take
  <2>1. (\A k \in Jobs : InChannel(k)' = InChannel(k)) /\ Distinct'
    BY <1>2 DEF InChannel, OneHolder, Distinct
  <2>2. CASE ConsumerReturns
    BY <1>2, <2>1, <2>2 DEF ConsumerReturns, TypeOK, WorkerSteps, OneHolder, WorkerKnows,
       ResultsAreStored, NothingForgotten, Held
  <2>3. CASE RunProviders
    BY <1>2, <2>1, <2>3 DEF RunProviders, TypeOK, WorkerSteps, OneHolder, WorkerKnows,
       ResultsAreStored, NothingForgotten, Held
  <2>4. CASE Put
    <3>0. worker.job \in Jobs /\ worker'.job = worker.job
      BY <2>4 DEF Put, TypeOK, WorkerKnows
    <3>1. TypeOK'
      BY <1>2, <2>4, <3>0 DEF Put, TypeOK, WorkerSteps
    <3>6. OneHolder'
      BY <1>2, <2>1, <2>4, <3>0 DEF Put, TypeOK, OneHolder
    <3>7. WorkerKnows'
      BY <1>2, <2>4, <3>0 DEF Put, TypeOK, OneHolder, WorkerKnows
    <3>8. ResultsAreStored'
      BY <2>4, <3>0 DEF Put, TypeOK, WorkerKnows, ResultsAreStored
    <3>9. NothingForgotten'
      <4>1. /\ status' = status /\ abandoned' = abandoned /\ handler' = handler
            /\ \A k \in Jobs : k \in blobs' => k \in blobs \/ k = worker.job
            /\ \A k \in Jobs : Held(k)' <=> Held(k)
        BY <1>2, <2>1, <2>4, <3>0 DEF Put, Held
      <4> QED
        BY <3>0, <4>1 DEF NothingForgotten
    <3> QED
      BY <3>1, <3>6, <3>7, <3>8, <3>9
  <2>5. CASE CreateAsset
    <3>0. worker.job \in Jobs /\ worker'.job = worker.job
      BY <2>5 DEF CreateAsset, TypeOK, WorkerKnows
    <3>1. TypeOK'
      BY <1>2, <2>5, <3>0 DEF CreateAsset, TypeOK, WorkerSteps
    <3>6. OneHolder'
      BY <1>2, <2>1, <2>5, <3>0 DEF CreateAsset, TypeOK, OneHolder
    <3>7. WorkerKnows'
      BY <1>2, <2>5, <3>0 DEF CreateAsset, TypeOK, OneHolder, WorkerKnows
    <3>8. ResultsAreStored'
      BY <2>5, <3>0 DEF CreateAsset, TypeOK, WorkerKnows, ResultsAreStored
    <3>9. NothingForgotten'
      BY <1>2, <2>1, <2>5, <3>0 DEF CreateAsset, TypeOK, WorkerKnows, NothingForgotten, Held
    <3> QED
      BY <3>1, <3>6, <3>7, <3>8, <3>9
  <2>6. CASE DeleteBlob
    <3>0. worker.job \in Jobs /\ worker'.job = worker.job /\ worker'.pc = "fail"
      BY <2>6 DEF DeleteBlob, TypeOK, WorkerKnows
    <3>1. TypeOK'
      BY <1>2, <2>6, <3>0 DEF DeleteBlob, TypeOK, WorkerSteps
    <3>2. worker.job \notin result /\ (worker.job \in assets => worker.job \in unanswered)
      BY <2>6, <3>0 DEF DeleteBlob, WorkerKnows, ResultsAreStored
    <3>6. OneHolder'
      BY <1>2, <2>1, <2>6, <3>0, <3>2 DEF DeleteBlob, TypeOK, OneHolder
    <3>7. WorkerKnows'
      BY <1>2, <2>6, <3>0, <3>2 DEF DeleteBlob, TypeOK, OneHolder, WorkerKnows
    <3>8. ResultsAreStored'
      BY <2>6, <3>0, <3>2 DEF DeleteBlob, TypeOK, WorkerKnows, ResultsAreStored
    <3>9. NothingForgotten'
      BY <1>2, <2>1, <2>6, <3>0, <3>2 DEF DeleteBlob, TypeOK, WorkerKnows, NothingForgotten, Held
    <3> QED
      BY <3>1, <3>6, <3>7, <3>8, <3>9
  <2>7. CASE MarkRunning \/ MarkDone \/ MarkFailed
    <3> USE DEF MarkRunning, MarkDone, MarkFailed, UpdateJobStatus, Written, NotWritten
    <3>0. /\ worker.job \in Jobs /\ status[worker.job] \in {"queued", "running"}
          /\ handler[worker.job] = "idle" /\ ~InChannel(worker.job)
          /\ blobs' = blobs /\ assets' = assets /\ unanswered' = unanswered
          /\ worker.job \notin result
      BY <2>7 DEF TypeOK, WorkerKnows, OneHolder, ResultsAreStored
    <3>1. \A k \in Jobs : k # worker.job =>
            status'[k] = status[k] /\ (k \in result' <=> k \in result)
              /\ (k \in abandoned' <=> k \in abandoned)
      BY <2>7, <3>0 DEF TypeOK
    <3>2. TypeOK'
      BY <1>2, <2>7, <3>0 DEF TypeOK, WorkerSteps, Idle
    <3>3. CASE MarkRunning
      <4>1. worker'.job = worker.job /\ worker'.pc = "generate" /\ worker.pc = "start"
        BY <3>3, <1>0
      <4>2. status'[worker.job] \in {"queued", "running"} /\ result' = result
        BY <3>0, <3>3 DEF TypeOK
      <4>3. OneHolder'
        BY <1>0, <1>2, <2>1, <3>0, <3>1, <4>1, <4>2 DEF OneHolder
      <4>4. WorkerKnows'
        BY <1>0, <1>2, <3>0, <3>1, <4>1, <4>2 DEF WorkerKnows
      <4>5. ResultsAreStored'
        BY <1>0, <3>0, <3>1, <4>1, <4>2 DEF ResultsAreStored, WorkerKnows
      <4>6. NothingForgotten'
        BY <1>0, <2>1, <3>0, <3>1, <4>1, <4>2 DEF NothingForgotten, Held, WorkerKnows
      <4> QED
        BY <3>2, <4>3, <4>4, <4>5, <4>6
    <3>4. CASE MarkDone
      <4>1. worker' = Idle /\ worker.pc = "finish" /\ worker.job \in assets \cap blobs
        BY <3>4 DEF WorkerKnows
      <4>2. \/ status'[worker.job] = "done" /\ worker.job \in result' /\ result' = result \cup {worker.job}
            \/ worker.job \in abandoned' /\ status' = status /\ result' = result
        BY <3>0, <3>4 DEF TypeOK
      <4>3. OneHolder'
        BY <1>0, <1>2, <2>1, <3>0, <3>1, <4>1, <4>2 DEF OneHolder, Idle
      <4>4. WorkerKnows'
        BY <1>0, <1>2, <3>0, <3>1, <4>1, <4>2 DEF WorkerKnows, Idle
      <4>5. ResultsAreStored'
        BY <1>0, <3>0, <3>1, <4>1, <4>2 DEF ResultsAreStored, WorkerKnows
      <4>6. NothingForgotten'
        BY <1>0, <2>1, <3>0, <3>1, <4>1, <4>2 DEF NothingForgotten, Held, WorkerKnows, Idle
      <4> QED
        BY <3>2, <4>3, <4>4, <4>5, <4>6
    <3>5. CASE MarkFailed
      <4>1. /\ worker' = Idle /\ worker.pc = "fail"
            /\ worker.job \in blobs => worker.job \in abandoned
        BY <3>5 DEF WorkerKnows
      <4>2. /\ result' = result /\ abandoned \subseteq abandoned'
            /\ status'[worker.job] = "failed" \/ (worker.job \in abandoned' /\ status' = status)
        BY <3>0, <3>5 DEF TypeOK
      <4>3. OneHolder'
        BY <1>0, <1>2, <2>1, <3>0, <3>1, <4>1, <4>2 DEF OneHolder, Idle
      <4>4. WorkerKnows'
        BY <1>0, <1>2, <3>0, <3>1, <4>1, <4>2 DEF WorkerKnows, Idle
      <4>5. ResultsAreStored'
        BY <1>0, <3>0, <3>1, <4>1, <4>2 DEF ResultsAreStored, WorkerKnows
      <4>6. NothingForgotten'
        BY <1>0, <2>1, <3>0, <3>1, <4>1, <4>2 DEF NothingForgotten, Held, WorkerKnows, Idle
      <4> QED
        BY <3>2, <4>3, <4>4, <4>5, <4>6
    <3> QED
      BY <2>7, <3>3, <3>4, <3>5
  <2> QED
    BY <1>2, <2>2, <2>3, <2>4, <2>5, <2>6, <2>7 DEF WorkerStep
<1> QED
  BY <1>1, <1>2 DEF WorkerStep, ConsumerReturns, MarkRunning, RunProviders, Put,
     CreateAsset, DeleteBlob, MarkDone, MarkFailed

\* The steps of the process, and stuttering.
LEMMA ProcessKeeps ==
  ASSUME IInv, Signal \/ Exit \/ Boot \/ UNCHANGED vars
  PROVE  IInv'
<1> USE NoneAssumption DEF stored, history, IInv
<1>1. CASE Exit
  <2>0. Len(channel') = 0 /\ channel' \in Seq(Jobs)
    BY <1>1 DEF Exit
  <2>1. (\A k \in Jobs : ~InChannel(k)') /\ Distinct'
    BY <2>0 DEF InChannel, Distinct
  <2>2. TypeOK'
    BY <1>1, <2>0, BufferAssumption DEF Exit, TypeOK, Idle, WorkerSteps
  <2>3. OneHolder' /\ WorkerKnows'
    BY <1>1, <2>1 DEF Exit, OneHolder, WorkerKnows, Idle
  <2>4. ResultsAreStored'
    BY <1>1 DEF Exit, ResultsAreStored
  <2>5. NothingForgotten'
    BY <1>1 DEF Exit, NothingForgotten, Held
  <2> QED
    BY <2>2, <2>3, <2>4, <2>5
<1>2. CASE Signal \/ Boot \/ UNCHANGED vars
  BY <1>2 DEF Signal, Boot, vars, TypeOK, OneHolder, Distinct, InChannel, WorkerKnows,
     ResultsAreStored, NothingForgotten, Held
<1> QED
  BY <1>1, <1>2

\* The inductive invariant.
LEMMA Inductive == Spec => []IInv
<1>1. IInv /\ [Next]_vars => IInv'
  BY HandlerKeeps, WorkerKeeps, ProcessKeeps DEF Next
<1> QED
  BY <1>1, Initial, PTL DEF Spec

\* Every row, file and goroutine keeps its type, and the channel its capacity.
THEOREM TypeCorrect == Spec => []TypeOK
<1>1. IInv => TypeOK
  BY DEF IInv
<1> QED
  BY <1>1, Inductive, PTL

\* A finished job always names an asset whose row and bytes are stored, through
\* any crash, fault or shutdown; only an insert that went unanswered leaves a row
\* without bytes, and its job is not finished.
THEOREM FinishedIsStored == Spec => []ResultsAreStored
<1>1. IInv => ResultsAreStored
  BY DEF IInv
<1> QED
  BY <1>1, Inductive, PTL

\* Only a lost write or the end of the process leaves a job or a blob behind.
THEOREM NothingIsForgotten == Spec => []NothingForgotten
<1>1. IInv => NothingForgotten
  BY DEF IInv
<1> QED
  BY <1>1, Inductive, PTL

\* A job is decided once.
THEOREM DecidedOnce == Spec => FinalStands
<1> DEFINE Stands == \A j \in Jobs : status[j] \in {"done", "failed"} => status'[j] = status[j]
<1>1. IInv /\ [Next]_vars => Stands
  <2> SUFFICES ASSUME IInv, [Next]_vars, NEW j \in Jobs, status[j] \in {"done", "failed"}
               PROVE  status'[j] = status[j]
    OBVIOUS
  <2> USE DEF stored, UpdateJobStatus, Written, NotWritten
  <2>0. TypeOK /\ handler[j] = "idle" /\ worker.job # j
    BY NoneAssumption DEF IInv, TypeOK, OneHolder, WorkerKnows
  <2>1. ASSUME NEW k \in Jobs, GenerateVideo(k) PROVE status'[j] = status[j]
    BY <2>0, <2>1 DEF GenerateVideo, TypeOK
  <2>2. ASSUME NEW k \in Jobs, EnqueueFailed(k) PROVE status'[j] = status[j]
    BY <2>0, <2>2 DEF EnqueueFailed, TypeOK
  <2>3. CASE MarkRunning \/ MarkDone \/ MarkFailed
    BY <2>0, <2>3 DEF MarkRunning, MarkDone, MarkFailed, TypeOK
  <2>4. CASE UNCHANGED status
    BY <2>4
  <2> QED
    BY <2>1, <2>2, <2>3, <2>4
    DEF Next, vars, HandlerStep, WorkerStep, ClientLeaves, Enqueue, EnqueueCancelled,
        Take, ConsumerReturns, RunProviders, Put, CreateAsset, DeleteBlob, Signal, Exit, Boot
<1> QED
  BY <1>1, Inductive, PTL DEF Spec, FinalStands
=============================================================================
