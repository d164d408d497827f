---------------------------- MODULE VideoDecoder ----------------------------
(***************************************************************************)
(* TizenVideoDecodeAccelerator                                             *)
(* (src/impl/content/common/gpu/media/tizen/                               *)
(* tizen_video_decode_accelerator.cc): the client's thread posts bitstream *)
(* buffers to gst_thread_, which pushes them into a GStreamer pipeline     *)
(* (external) that frees them on threads of its own. The destructor of a   *)
(* buffer tells the client that it may use the buffer again.               *)
(***************************************************************************)
EXTENDS Naturals, Sequences

CONSTANT InputBuffers   \* the client's bitstream buffers

Start == "start"   \* the task that starts the pipeline
ASSUME BufferAssumption == Start \notin InputBuffers

VARIABLES
  phase,     \* "new", "starting" (Initialize has posted StartDecoder and not
             \* yet set impl_->pipeline_), "running", "failed", "stopping",
             \* "destroyed"
  appsrc,    \* impl_->appsrc_: "none", "live" or "freed"
  canFeed,   \* can_feed_
  tasks,     \* FIFO of gst_thread_
  playing,   \* StartDecoder brought the pipeline to PLAYING
  broken,    \* the pipeline reported an error
  bufferAt,  \* per buffer: "client", "task", "pipe", "freed" or "refused"
  loop,      \* FIFO of NotifyEndOfBitstreamBuffer on the client's thread
  decAborted \* a freed object was used

decoderVars == <<phase, appsrc, canFeed, tasks, playing, broken, bufferAt, loop,
                 decAborted>>
----------------------------------------------------------------------------
DecoderInit ==
  /\ phase = "new" /\ appsrc = "none" /\ canFeed = TRUE
  /\ tasks = <<>> /\ playing = FALSE /\ broken = FALSE
  /\ bufferAt = [b \in InputBuffers |-> "client"]
  /\ loop = <<>> /\ decAborted = FALSE

DecoderTypeOK ==
  /\ phase \in {"new", "starting", "running", "failed", "stopping", "destroyed"}
  /\ appsrc \in {"none", "live", "freed"}
  /\ canFeed \in BOOLEAN /\ playing \in BOOLEAN
  /\ broken \in BOOLEAN /\ decAborted \in BOOLEAN
  /\ tasks \in Seq(InputBuffers \cup {Start})
  /\ bufferAt \in [InputBuffers ->
                    {"client", "task", "pipe", "freed", "refused"}]
  /\ loop \in Seq(InputBuffers)

\* ~BitstreamBufferRef of b.
\* (mutant) the client is not told
DestructSilent(b) ==
  /\ bufferAt' = [bufferAt EXCEPT ![b] = "freed"]
  /\ UNCHANGED loop

Destruct(b) ==
  /\ bufferAt' = [bufferAt EXCEPT ![b] = "freed"]
  /\ loop' = Append(loop, b)
----------------------------------------------------------------------------
\* Initialize: a step that fails leaves impl_, and frees the pipeline with
\* the appsrc in it, if that was made already. The last steps are to post
\* StartDecoder to gst_thread_, which runs by then, and to set pipeline_.
InitializeDecoder ==
  /\ phase = "new"
  /\ \/ phase' = "starting" /\ appsrc' = "live" /\ tasks' = <<Start>>
     \/ phase' = "failed" /\ appsrc' \in {"none", "freed"} /\ UNCHANGED tasks
  /\ UNCHANGED <<canFeed, playing, broken, bufferAt, loop, decAborted>>

PipelineSet ==
  /\ phase = "starting" /\ phase' = "running"
  /\ UNCHANGED <<appsrc, canFeed, tasks, playing, broken, bufferAt, loop,
                 decAborted>>

\* Decode: an unreadable buffer is an error, a full decoder drops it.
Decode(b) ==
  /\ phase = "running" /\ bufferAt[b] = "client" /\ ~decAborted
  /\ \/ /\ bufferAt' = [bufferAt EXCEPT ![b] = "refused"]
        /\ UNCHANGED <<tasks, loop>>
     \/ /\ canFeed /\ tasks' = Append(tasks, b)
        /\ bufferAt' = [bufferAt EXCEPT ![b] = "task"] /\ UNCHANGED loop
     \/ ~canFeed /\ Destruct(b) /\ UNCHANGED tasks
  /\ UNCHANGED <<phase, appsrc, canFeed, playing, broken, decAborted>>

\* NotifyEndOfBitstreamBuffer, through a WeakPtr that Destroy invalidates.
NotifyEnd ==
  /\ phase = "running" /\ loop # <<>> /\ ~decAborted
  /\ bufferAt' = [bufferAt EXCEPT ![Head(loop)] = "client"]
  /\ loop' = Tail(loop)
  /\ UNCHANGED <<phase, appsrc, canFeed, tasks, playing, broken, decAborted>>

\* pipeline_ may still be NULL, and its change of state may fail: nobody looks
\* at the result, and the decoder never plays.
StartDecoder ==
  /\ tasks # <<>> /\ Head(tasks) = Start
  /\ tasks' = Tail(tasks)
  /\ playing' \in (IF phase = "starting" THEN {FALSE} ELSE BOOLEAN)
  /\ UNCHANGED <<phase, appsrc, canFeed, broken, bufferAt, loop, decAborted>>

\* OnDecode: no GstBuffer; pushed; or refused by the appsrc of a pipeline that
\* does not play or had an error. The appsrc frees what it refuses, and the
\* scoped_ptr frees it once more.
OnDecode ==
  /\ tasks # <<>> /\ Head(tasks) # Start /\ ~decAborted
  /\ tasks' = Tail(tasks)
  /\ LET b == Head(tasks) IN
     \/ Destruct(b) /\ UNCHANGED decAborted
     \/ /\ playing /\ bufferAt' = [bufferAt EXCEPT ![b] = "pipe"]
        /\ UNCHANGED <<loop, decAborted>>
     \/ /\ ~playing \/ broken
        /\ decAborted' = TRUE /\ UNCHANGED <<bufferAt, loop>>
  /\ UNCHANGED <<phase, appsrc, canFeed, playing, broken>>
----------------------------------------------------------------------------
\* The pipeline (external). StartFeed and StopFeed come when its queue drains
\* below its threshold or is full; an error is only logged by OnBusMessage.
PipelineRunning ==
  playing /\ ~broken /\ phase \in {"running", "stopping"} /\ ~decAborted

PipelineFrees(b) ==
  /\ PipelineRunning /\ bufferAt[b] = "pipe" /\ Destruct(b)
  /\ UNCHANGED <<phase, appsrc, canFeed, tasks, playing, broken, decAborted>>

StartFeed ==
  /\ PipelineRunning /\ ~canFeed /\ canFeed' = TRUE
  /\ UNCHANGED <<phase, appsrc, tasks, playing, broken, bufferAt, loop,
                 decAborted>>

StopFeed ==
  /\ PipelineRunning /\ canFeed /\ \E b \in InputBuffers : bufferAt[b] = "pipe"
  /\ canFeed' = FALSE
  /\ UNCHANGED <<phase, appsrc, tasks, playing, broken, bufferAt, loop,
                 decAborted>>

OnBusMessage ==
  /\ PipelineRunning /\ broken' = TRUE
  /\ UNCHANGED <<phase, appsrc, canFeed, tasks, playing, bufferAt, loop,
                 decAborted>>
----------------------------------------------------------------------------
\* Destroy, of a decoder that runs or whose Initialize failed. Stopping
\* gst_thread_ waits for its tasks.
DestroyDecoder ==
  /\ phase \in {"running", "failed"} /\ ~decAborted
  /\ phase' = "stopping"
  /\ UNCHANGED <<appsrc, canFeed, tasks, playing, broken, bufferAt, loop,
                 decAborted>>

\* The rest of Destroy: end of stream to the appsrc, the pipeline is stopped
\* and frees its buffers, impl_ is deleted.
DestroyDecoderEnds ==
  /\ phase = "stopping" /\ tasks = <<>> /\ ~decAborted
  /\ IF appsrc = "freed"
     THEN decAborted' = TRUE /\ UNCHANGED <<phase, bufferAt>>
     ELSE /\ phase' = "destroyed" /\ UNCHANGED decAborted
          /\ bufferAt' = [b \in InputBuffers |->
               IF bufferAt[b] = "pipe" THEN "freed" ELSE bufferAt[b]]
  /\ UNCHANGED <<appsrc, canFeed, tasks, playing, broken, loop>>
----------------------------------------------------------------------------
DecoderTask == StartDecoder \/ OnDecode

DecoderNext ==
  \/ InitializeDecoder \/ PipelineSet \/ NotifyEnd \/ DecoderTask
  \/ StartFeed \/ StopFeed \/ OnBusMessage
  \/ DestroyDecoder \/ DestroyDecoderEnds
  \/ \E b \in InputBuffers : Decode(b) \/ PipelineFrees(b)

\* The threads run their tasks, and the pipeline consumes what it holds.
DecoderFairness ==
  /\ WF_decoderVars(DecoderTask) /\ WF_decoderVars(NotifyEnd)
  /\ WF_decoderVars(DestroyDecoderEnds)
  /\ \A b \in InputBuffers : WF_decoderVars(PipelineFrees(b))

DecoderSpec == DecoderInit /\ [][DecoderNext]_decoderVars /\ DecoderFairness
----------------------------------------------------------------------------
(***************************************************************************)
(* A buffer handed to Decode comes back to the client, decoded or dropped, *)
(* however decoding, draining and Destroy interleave. It does not from     *)
(* inside a pipeline that had an error, nor after a push that was refused, *)
(* which frees its buffer twice: the client is told of neither.            *)
(***************************************************************************)
BuffersReturn ==
  \A b \in InputBuffers : bufferAt[b] \in {"task", "pipe", "freed"} ~>
    \/ bufferAt[b] \in {"client", "refused"} \/ phase = "destroyed"
    \/ broken /\ bufferAt[b] = "pipe"
    \/ decAborted
=============================================================================
