---------------------------- MODULE VideoEncoder ----------------------------
(***************************************************************************)
(* TizenVideoEncodeAccelerator                                             *)
(* (src/impl/content/common/gpu/media/tizen/                               *)
(* tizen_video_encode_accelerator.cc): the client's thread, gst_thread_    *)
(* and the streaming thread of the pipeline (external), which encodes.     *)
(*                                                                         *)
(* An encoded frame needs an output buffer of the client. Without one it   *)
(* is dropped, and so are the frames that depend on it, until a key frame, *)
(* which the next frame to be encoded is asked to be.                      *)
(***************************************************************************)
EXTENDS Naturals, Sequences

CONSTANTS
  OutputBuffers, \* the client's output buffers
  MaxFrames,     \* bound: frames encoded
  MaxInput       \* bound: frames on their way to the encoder

ASSUME EncoderAssumption == {MaxFrames, MaxInput} \subseteq Nat

Frames == 1..MaxFrames

VARIABLES
  encPhase,     \* "new", "running", "stopping", "stopped", "destroyed"
  encCanFeed,   \* can_feed_
  encTasks,     \* FIFO of gst_thread_: OnEncode, OnUse..., DeliverVideoFrame
  input,        \* frames pushed into the pipeline, not encoded yet
  forceKey,     \* the encoder's "force-i-frame"
  drop,         \* enable_framedrop_
  outputQueue,  \* encoder_output_queue_
  readyBuffers, \* FIFO of BitstreamBufferReady on the client's thread
  outputAt,     \* per buffer: "client", "given", "ready" or "lost"
  made,         \* frames encoded so far, numbered in the encoder's order
  keys,         \* the key frames among them
  delivered,    \* frames given to the client
  lost,         \* frames lost with their buffer, or encoded without data
  encAborted    \* gst_thread_ was used after it had stopped

encoderVars == <<encPhase, encCanFeed, encTasks, input, forceKey, drop,
                 outputQueue, readyBuffers, outputAt, made, keys, delivered,
                 lost, encAborted>>
----------------------------------------------------------------------------
Task == [op : {"encode"}, force : BOOLEAN]
        \cup [op : {"use"}, b : OutputBuffers]
        \cup [op : {"deliver"}, n : Frames]

EncoderInit ==
  /\ encPhase = "new" /\ encCanFeed = FALSE
  /\ encTasks = <<>> /\ input = 0 /\ forceKey = FALSE /\ drop = FALSE
  /\ outputQueue = <<>> /\ readyBuffers = <<>>
  /\ outputAt = [b \in OutputBuffers |-> "client"]
  /\ made = 0 /\ keys = {} /\ delivered = {} /\ lost = {}
  /\ encAborted = FALSE

EncoderTypeOK ==
  /\ encPhase \in {"new", "running", "stopping", "stopped", "destroyed"}
  /\ encCanFeed \in BOOLEAN /\ forceKey \in BOOLEAN
  /\ drop \in BOOLEAN /\ encAborted \in BOOLEAN
  /\ encTasks \in Seq(Task) /\ input \in Nat
  /\ outputQueue \in Seq(OutputBuffers) /\ readyBuffers \in Seq(OutputBuffers)
  /\ outputAt \in [OutputBuffers -> {"client", "given", "ready", "lost"}]
  /\ made \in 0..MaxFrames
  /\ {keys, delivered, lost} \subseteq SUBSET Frames

Post(t) == encTasks' = Append(encTasks, t)
Run(op) ==
  /\ encTasks # <<>> /\ Head(encTasks).op = op /\ encTasks' = Tail(encTasks)
  /\ encPhase \in {"running", "stopping"} /\ ~encAborted
----------------------------------------------------------------------------
\* The client's thread. A failed Initialize leaves nothing behind.
InitializeEncoder ==
  /\ encPhase = "new" /\ encPhase' = "running"
  /\ UNCHANGED <<encCanFeed, encTasks, input, forceKey, drop, outputQueue,
                 readyBuffers, outputAt, made, keys, delivered, lost,
                 encAborted>>

\* Encode; a frame that comes while can_feed_ is FALSE is dropped.
Encode(force) ==
  /\ encPhase = "running" /\ encCanFeed /\ ~encAborted
  /\ made + input < MaxFrames /\ input < MaxInput /\ Len(encTasks) < MaxInput
  /\ Post([op |-> "encode", force |-> force])
  /\ UNCHANGED <<encPhase, encCanFeed, input, forceKey, drop, outputQueue,
                 readyBuffers, outputAt, made, keys, delivered, lost,
                 encAborted>>

UseOutputBitstreamBuffer(b) ==
  /\ encPhase = "running" /\ outputAt[b] = "client" /\ ~encAborted
  /\ Post([op |-> "use", b |-> b])
  /\ outputAt' = [outputAt EXCEPT ![b] = "given"]
  /\ UNCHANGED <<encPhase, encCanFeed, input, forceKey, drop, outputQueue,
                 readyBuffers, made, keys, delivered, lost, encAborted>>

\* BitstreamBufferReady: the client has the frame and its buffer back.
BitstreamBufferReady ==
  /\ encPhase = "running" /\ readyBuffers # <<>> /\ ~encAborted
  /\ readyBuffers' = Tail(readyBuffers)
  /\ outputAt' = [outputAt EXCEPT ![Head(readyBuffers)] = "client"]
  /\ UNCHANGED <<encPhase, encCanFeed, encTasks, input, forceKey, drop,
                 outputQueue, made, keys, delivered, lost, encAborted>>

\* Destroy, up to stopping gst_thread_, which runs the tasks posted before;
\* then, with the thread gone, stopping the pipeline and deleting impl_.
DestroyEncoder ==
  /\ encPhase = "running" /\ encPhase' = "stopping" /\ ~encAborted
  /\ UNCHANGED <<encCanFeed, encTasks, input, forceKey, drop, outputQueue,
                 readyBuffers, outputAt, made, keys, delivered, lost,
                 encAborted>>

ThreadStopped ==
  /\ encPhase = "stopping" /\ encTasks = <<>> /\ ~encAborted
  /\ encPhase' = "stopped"
  /\ UNCHANGED <<encCanFeed, encTasks, input, forceKey, drop, outputQueue,
                 readyBuffers, outputAt, made, keys, delivered, lost,
                 encAborted>>

DestroyEncoderEnds ==
  /\ encPhase = "stopped" /\ encPhase' = "destroyed" /\ ~encAborted
  /\ input' = 0 /\ outputQueue' = <<>> /\ readyBuffers' = <<>>
  /\ UNCHANGED <<encCanFeed, encTasks, forceKey, drop, outputAt, made, keys,
                 delivered, lost, encAborted>>
----------------------------------------------------------------------------
\* gst_thread_.
OnEncode ==
  /\ Run("encode")
  /\ forceKey' = (Head(encTasks).force \/ drop)
  /\ input' \in {input, input + 1}    \* the push may fail
  /\ UNCHANGED <<encPhase, encCanFeed, drop, outputQueue, readyBuffers,
                 outputAt, made, keys, delivered, lost, encAborted>>

OnUseOutputBitstreamBuffer ==
  /\ Run("use")
  /\ outputQueue' = Append(outputQueue, Head(encTasks).b)
  /\ UNCHANGED <<encPhase, encCanFeed, input, forceKey, drop, readyBuffers,
                 outputAt, made, keys, delivered, lost, encAborted>>

\* DeliverVideoFrame of frame n: dropped with the frames it depends on, for
\* want of an output buffer; or put into the last buffer given; or lost with
\* a buffer that cannot be mapped or is too small.
\* (mutant) only that frame is dropped
DropFrameAlone(n) ==
  \/ /\ drop /\ n \notin keys /\ UNCHANGED drop
  \/ /\ ~drop \/ n \in keys
     /\ outputQueue = <<>> /\ UNCHANGED drop

DropFrame(n) ==
  \/ /\ drop /\ n \notin keys /\ UNCHANGED drop
  \/ /\ ~drop \/ n \in keys
     /\ outputQueue = <<>> /\ drop' = TRUE

FillBuffer(n) ==
  /\ ~drop \/ n \in keys
  /\ outputQueue # <<>> /\ drop' = FALSE
  /\ outputQueue' = SubSeq(outputQueue, 1, Len(outputQueue) - 1)

DeliverVideoFrame ==
  /\ Run("deliver")
  /\ LET n == Head(encTasks).n
         b == outputQueue[Len(outputQueue)] IN
     \/ DropFrame(n) /\ UNCHANGED <<outputQueue, readyBuffers, outputAt,
                                    delivered, lost>>
     \/ /\ FillBuffer(n)
        /\ \/ /\ delivered' = delivered \cup {n} /\ UNCHANGED lost
              /\ readyBuffers' = Append(readyBuffers, b)
              /\ outputAt' = [outputAt EXCEPT ![b] = "ready"]
           \/ /\ lost' = lost \cup {n}
              /\ outputAt' = [outputAt EXCEPT ![b] = "lost"]
              /\ UNCHANGED <<delivered, readyBuffers>>
  /\ UNCHANGED <<encPhase, encCanFeed, input, forceKey, made, keys, encAborted>>
----------------------------------------------------------------------------
\* The pipeline encodes a frame, and OnEncoded posts it on the streaming
\* thread: behind the task that ends gst_thread_ it does not run, and once
\* the thread has stopped there is no message loop to post it to.
PipelineUp == encPhase \in {"running", "stopping", "stopped"} /\ ~encAborted

OnEncoded(key) ==
  /\ PipelineUp /\ input > 0 /\ made < MaxFrames /\ (forceKey => key)
  /\ input' = input - 1 /\ made' = made + 1
  /\ keys' = IF key THEN keys \cup {made + 1} ELSE keys
  /\ \/ lost' = lost \cup {made + 1}    \* no data
        /\ UNCHANGED <<encTasks, encAborted>>
     \/ encPhase = "running" /\ Post([op |-> "deliver", n |-> made + 1])
        /\ UNCHANGED <<lost, encAborted>>
     \/ encPhase = "stopping" /\ UNCHANGED <<lost, encTasks, encAborted>>
     \/ /\ encPhase = "stopped" /\ encAborted' = TRUE
        /\ UNCHANGED <<lost, encTasks>>
  /\ UNCHANGED <<encPhase, encCanFeed, forceKey, drop, outputQueue,
                 readyBuffers, outputAt, delivered>>

\* StartFeed and StopFeed.
SetCanFeed ==
  /\ PipelineUp /\ encCanFeed' = ~encCanFeed
  /\ UNCHANGED <<encPhase, encTasks, input, forceKey, drop, outputQueue,
                 readyBuffers, outputAt, made, keys, delivered, lost,
                 encAborted>>
----------------------------------------------------------------------------
EncoderTask == OnEncode \/ OnUseOutputBitstreamBuffer \/ DeliverVideoFrame

EncoderNext ==
  \/ InitializeEncoder \/ BitstreamBufferReady \/ EncoderTask \/ SetCanFeed
  \/ DestroyEncoder \/ ThreadStopped \/ DestroyEncoderEnds
  \/ \E force \in BOOLEAN : Encode(force)
  \/ \E b \in OutputBuffers : UseOutputBitstreamBuffer(b)
  \/ \E key \in BOOLEAN : OnEncoded(key)

EncoderSpec == EncoderInit /\ [][EncoderNext]_encoderVars
----------------------------------------------------------------------------
(***************************************************************************)
(* The client can decode what it is given: a frame that is not a key frame *)
(* is delivered only if the frame before it was, or that one was lost with *)
(* its buffer, which does not start the dropping.                          *)
(***************************************************************************)
Decodable ==
  \A n \in delivered \ keys : n > 1 => n - 1 \in delivered \cup lost
=============================================================================
