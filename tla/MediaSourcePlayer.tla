------------------------- MODULE MediaSourcePlayer -------------------------
(***************************************************************************)
(* The browser-side player of a Media Source element                       *)
(* (src/impl/media/base/tizen/media_source_player_gstreamer.cc), as run by *)
(* BrowserMediaPlayerManagerTizen and BrowserDemuxerTizen.                 *)
(*                                                                         *)
(* Three kinds of actors touch one player:                                 *)
(*   - the UI thread, which takes one piece of work at a time off its      *)
(*     message loop: messages from the renderer and the tasks the player   *)
(*     posts to itself with base::Unretained;                              *)
(*   - the GStreamer streaming threads, whose callbacks test               *)
(*     IsPlayerDestructing() and then run without a lock;                  *)
(*   - the renderer process, which answers the player's requests for data  *)
(*     and for seeks and sends it the page's commands.                     *)
(* A handler of the UI thread is one action, except Destroy, which blocks  *)
(* in gst_element_set_state(NULL) until the streaming threads are idle.    *)
(***************************************************************************)
EXTENDS Naturals, Sequences, FiniteSets

CONSTANTS
  Types,      \* streams of the media: HasAudio(), HasVideo()
  Threads,    \* GStreamer streaming threads
  Rates,      \* playback rates the page asks for; 0 is "stopped"
  Events,     \* pipeline events the streaming threads raise besides need-data
  AppsrcCap,  \* buffers an appsrc holds before it emits enough-data
  MaxLoop,    \* bound: work items in the UI thread's message loop
  MaxBuffers, \* bound: buffers the demuxer delivers per stream and segment
  MaxReads,   \* bound: read requests of one stream in flight to the renderer
  MaxSegments, \* bound: seeks the demuxer completes
  MaxCmds,    \* bound: play, pause and rate commands the page sends
  MaxEarly    \* bound: buffers of a segment that precede the seek position

Media == {"audio", "video"}
PipelineEvents == {"asyncDone", "buffering", "eos", "error", "state"}

ASSUME TypesAssumption == Types \subseteq Media
ASSUME EventsAssumption == Events \subseteq PipelineEvents
ASSUME RatesAssumption == Rates \subseteq Nat
ASSUME BoundsAssumption ==
  /\ AppsrcCap \in Nat /\ MaxLoop \in Nat /\ MaxBuffers \in Nat
  /\ MaxReads \in Nat \ {0} /\ MaxSegments \in Nat /\ MaxCmds \in Nat /\ MaxEarly \in Nat

VARIABLES
  \* ---- the player object
  alive,        \* FALSE once the "delete" task ran
  destructing,  \* destructing_
  main,         \* "idle", or blocked in Release: "joining", "joiningLast"
  pipeline,     \* pipeline_ # NULL
  error,        \* error_occured_
  ctl,          \* playback control, see Control
  buffered,     \* per stream: the last GST_MESSAGE_BUFFERING said 100
  isSeeking,    \* is_seeking_
  demuxerSeeking, \* is_demuxer_seeking_
  iframe,       \* is_seeking_iframe_
  feed,         \* per stream: what the player holds and gave, see Feed
  seekOffset,   \* per stream: buffers of the segment before the seek position
  \* ---- the pipeline and its threads
  flush,        \* asynchronous change under way: "none", "preroll", "seek"
  cb,           \* per thread: the callback past its destructing test
  \* ---- the UI thread and the rest of the browser
  loop,         \* FIFO of work for the UI thread
  managerAlive, \* the BrowserMediaPlayerManagerTizen exists
  \* ---- the renderer
  reads,        \* per stream: read requests not yet answered
  seekReqs,     \* DemuxerSeekRequests not yet answered
  intSeek,      \* a SeekRequest (OnRequestSeek) not yet acted upon
  rSeeking,     \* the demuxer waits for a seek: reads are ignored
  wmpSeeking,   \* WebMediaPlayerTizen::is_seeking_
  segment,      \* seeks the demuxer completed
  next,         \* per stream: number of the last buffer read in this segment
  wanted,       \* the page's last command: "play" or "pause"
  cmds          \* commands the page sent

objVars == <<alive, destructing, main, pipeline, error, managerAlive>>
seekVars == <<isSeeking, demuxerSeeking, iframe, seekOffset>>
rendVars == <<rSeeking, segment, next>>
pageVars == <<wanted, cmds>>
vars == <<alive, destructing, main, pipeline, error, ctl, buffered, isSeeking,
          demuxerSeeking, iframe, feed, seekOffset, flush, cb, loop,
          managerAlive, reads, seekReqs, intSeek, rSeeking, wmpSeeking,
          segment, next, wanted, cmds>>
----------------------------------------------------------------------------
(***************************************************************************)
(* State                                                                   *)
(***************************************************************************)
Control == [gst : {"NULL", "PAUSED", "PLAYING"}, playing : BOOLEAN,
            rate : Nat, timer : BOOLEAN, underflow : BOOLEAN]

Buffer == [seg : Nat, no : Nat]
\* should: should_feed_*_; saved: *_buffer_queue_; pushed: everything given to
\* the appsrc since the last flush; level: how much of it is still queued there;
\* waiting: the appsrc emitted need-data and waits; eos: end_of_stream was sent
Feed == [should : BOOLEAN, saved : Seq(Buffer), pushed : Seq(Buffer),
         level : Nat, waiting : BOOLEAN, eos : BOOLEAN]

Tasks == {"read", "play", "seekFalse", "timeChanged", "buffering", "complete",
          "states", "delete"}
Commands == {"cmdPlay", "cmdPause", "cmdRate", "cmdSeek", "cmdDestroy"}
Demuxer == {"configs", "data", "aborted", "endOfStream", "seekDone"}
Kinds == Tasks \cup Commands \cup Demuxer

\* One piece of work: a posted task or a message of the renderer. "arg" is the
\* rate of cmdRate; "buf" the buffer of data, or the segment of seekDone.
Work == [kind : Kinds, type : Media, arg : Nat, buf : Buffer]

NoBuffer == [seg |-> 0, no |-> 0]
Item(k) == [kind |-> k, type |-> "audio", arg |-> 0, buf |-> NoBuffer]
ItemOf(k, t) == [Item(k) EXCEPT !.type = t]

Callback == [kind : {"idle", "need"} \cup Events, type : Media, full : BOOLEAN]
Idle == [kind |-> "idle", type |-> "audio", full |-> FALSE]

Usable == pipeline /\ ~error
InLoop(k) == \E i \in DOMAIN loop : loop[i].kind = k
----------------------------------------------------------------------------
(***************************************************************************)
(* Calls one handler makes to another, as functions on the control state   *)
(* and on one stream's feed.                                               *)
(***************************************************************************)
\* (mutant) playback starts but stays marked as paused by underflow
PlayKeepsUnderflow(c) ==
  IF ~Usable THEN c
  ELSE IF c.rate = 0 THEN [c EXCEPT !.playing = TRUE]
  ELSE [c EXCEPT !.gst = "PLAYING", !.timer = TRUE, !.playing = TRUE]

Play(c) ==
  IF ~Usable THEN c
  ELSE IF c.rate = 0 THEN [c EXCEPT !.playing = TRUE]
  ELSE [c EXCEPT !.gst = "PLAYING", !.timer = TRUE, !.playing = TRUE,
                 !.underflow = FALSE]

\* Pause(true): the pipeline stops but the page still wants playback
PauseMedia(c) ==
  IF ~Usable THEN c ELSE [c EXCEPT !.gst = "PAUSED", !.timer = FALSE]

\* Pause(false): the page's own pause
PausePage(c) ==
  IF ~Usable THEN c
  ELSE [c EXCEPT !.gst = "PAUSED", !.timer = FALSE, !.underflow = FALSE,
                 !.playing = FALSE]

\* A seek pauses the pipeline if gst_element_get_state, which waits 250 ns,
\* finds it PLAYING; while a change is under way it may report an older state
PausedForSeek(c) ==
  (IF flush # "none" THEN {c} ELSE {}) \cup
  {IF c.gst = "PLAYING" THEN PauseMedia(c) ELSE c}

\* gst_app_src_push_buffer: refused after end_of_stream; a push into a full
\* appsrc first emits enough-data, which clears should_feed_*_
Push(f, b) ==
  IF f.eos THEN f
  ELSE [f EXCEPT !.pushed = Append(@, b), !.level = @ + 1, !.waiting = FALSE,
                 !.should = @ /\ f.level < AppsrcCap]

\* (mutant) the buffer is dropped
DropDecoderBuffer(f, b) == f

\* A buffer arrives while the appsrc wants none: it is kept for later
SaveDecoderBuffer(f, b) == [f EXCEPT !.saved = Append(@, b)]

\* (mutant) saved buffers are left for later
LeaveQueue(f) == f

\* ReadFromQueueIfAny: push saved buffers, oldest first, until there is none or
\* enough-data stops the feed; a refused push loses its buffer and stops
ReadFromQueueIfAny(f) ==
  LET room == IF f.level > AppsrcCap THEN 1 ELSE AppsrcCap + 1 - f.level
      k == IF room < Len(f.saved) THEN room ELSE Len(f.saved)
  IN  IF ~Usable \/ ~f.should \/ f.saved = <<>> THEN f
      ELSE IF f.eos THEN [f EXCEPT !.saved = Tail(@)]
      ELSE [f EXCEPT !.pushed = @ \o SubSeq(f.saved, 1, k),
                     !.saved = SubSeq(@, k + 1, Len(f.saved)),
                     !.level = @ + k, !.waiting = FALSE,
                     !.should = f.level + k <= AppsrcCap]

EmptyFeed(should) ==
  [should |-> should, saved |-> <<>>, pushed |-> <<>>, level |-> 0,
   waiting |-> FALSE, eos |-> FALSE]

\* (mutant) the buffers saved before a seek survive it
KeepSaved(f) == [EmptyFeed(f.should) EXCEPT !.saved = f.saved]

\* What a flushing seek leaves of a stream's feed
Flushed(f) == EmptyFeed(f.should)

\* RequestDemuxerData: MediaPlayerGstMsg_ReadFromDemuxer to the renderer
RequestData(t) ==
  reads' = [reads EXCEPT ![t] = IF @ < MaxReads THEN @ + 1 ELSE @]

\* RequestPlayerSeek: at most one demuxer seek is asked for at a time. c is the
\* control state at the call
RequestPlayerSeek(c) ==
  IF demuxerSeeking
  THEN ctl' = c /\ UNCHANGED <<demuxerSeeking, intSeek>>
  ELSE ctl' \in PausedForSeek(c) /\ demuxerSeeking' = TRUE /\ intSeek' = TRUE
----------------------------------------------------------------------------
Init ==
  /\ alive = TRUE /\ destructing = FALSE /\ main = "idle"
  /\ pipeline = FALSE /\ error = FALSE /\ managerAlive = TRUE
  /\ ctl = [gst |-> "NULL", playing |-> FALSE, rate |-> 1, timer |-> FALSE,
            underflow |-> FALSE]
  /\ buffered = [t \in Media |-> FALSE]
  /\ isSeeking = FALSE /\ demuxerSeeking = FALSE /\ iframe = FALSE
  /\ feed = [t \in Types |-> EmptyFeed(t = "audio")]
  /\ seekOffset = [t \in Types |-> 0]
  /\ flush = "none"
  /\ cb = [th \in Threads |-> Idle]
  /\ loop = <<>>
  /\ reads = [t \in Types |-> 0] /\ seekReqs = 0 /\ intSeek = FALSE
  /\ rSeeking = FALSE /\ wmpSeeking = FALSE
  /\ segment = 0 /\ next = [t \in Types |-> 0]
  /\ wanted = "pause" /\ cmds = 0
----------------------------------------------------------------------------
(***************************************************************************)
(* The UI thread                                                           *)
(***************************************************************************)
\* The UI thread is free and the first work item of its loop is of kind k
Runs(k) == alive /\ main = "idle" /\ loop # <<>> /\ Head(loop).kind = k

\* It takes the item off the loop; the handler may post one more
Take(k) == Runs(k) /\ loop' = Tail(loop)
Post(work) == loop' = Append(Tail(loop), work)
Done == loop' = Tail(loop)

\* BrowserMediaPlayerManagerTizen no longer finds a player it destroyed
DropCommand ==
  /\ destructing
  /\ \E k \in Commands : Take(k)
  /\ UNCHANGED <<objVars, ctl, buffered, seekVars, feed, flush, cb, reads,
                 seekReqs, intSeek, rendVars, wmpSeeking, pageVars>>

OnPlay ==
  /\ ~destructing /\ Take("cmdPlay")
  /\ ctl' = Play(ctl)
  /\ wanted' = "play"
  /\ UNCHANGED <<objVars, buffered, seekVars, feed, flush, cb, reads, seekReqs,
                 intSeek, rendVars, wmpSeeking, cmds>>

OnPause ==
  /\ ~destructing /\ Take("cmdPause")
  /\ ctl' = PausePage(ctl)
  /\ wanted' = "pause"
  /\ UNCHANGED <<objVars, buffered, seekVars, feed, flush, cb, reads, seekReqs,
                 intSeek, rendVars, wmpSeeking, cmds>>

\* SetRate: stopping only pauses; another rate is applied by an internal seek.
\* Leaving rate 0 calls Play() before play_rate_ changes and starts the timer
SetRate ==
  /\ ~destructing /\ Take("cmdRate")
  /\ LET rate == Head(loop).arg
         c == IF ctl.rate = 0 THEN [Play(ctl) EXCEPT !.timer = TRUE] ELSE ctl
     IN \/ /\ rate = ctl.rate
           /\ UNCHANGED <<ctl, demuxerSeeking, intSeek>>
        \/ /\ rate # ctl.rate /\ rate = 0
           /\ ctl' = PauseMedia([ctl EXCEPT !.rate = 0])
           /\ UNCHANGED <<demuxerSeeking, intSeek>>
        \/ /\ rate # ctl.rate /\ rate # 0
           /\ RequestPlayerSeek([c EXCEPT !.rate = rate])
  /\ UNCHANGED <<objVars, buffered, isSeeking, iframe, seekOffset, feed, flush,
                 cb, reads, seekReqs, rendVars, wmpSeeking, pageVars>>

Seek ==
  /\ ~destructing /\ Take("cmdSeek")
  /\ iframe' = FALSE
  /\ demuxerSeeking' = TRUE
  /\ ctl' \in PausedForSeek(ctl)
  /\ seekReqs' = seekReqs + 1
  /\ UNCHANGED <<objVars, buffered, isSeeking, seekOffset, feed, flush, cb,
                 reads, intSeek, rendVars, wmpSeeking, pageVars>>

\* Destroy, first half: everything Release does before the pipeline stops. The
\* streaming threads may still be inside a callback
BeginDestroy(nextMain) ==
  /\ destructing' = TRUE
  /\ main' = nextMain
  /\ ctl' = [ctl EXCEPT !.playing = FALSE, !.timer = FALSE]
  /\ feed' = [t \in Types |-> [feed[t] EXCEPT !.saved = <<>>]]
  /\ UNCHANGED <<alive, pipeline, error, managerAlive, buffered, seekVars,
                 flush, cb, reads, seekReqs, intSeek, rendVars, wmpSeeking,
                 pageVars>>

OnDestroy ==
  ~destructing /\ Take("cmdDestroy") /\ BeginDestroy("joining")

\* ~BrowserMediaPlayerManagerTizen destroys the players it still has
DestroyManager ==
  /\ alive /\ main = "idle" /\ managerAlive
  /\ UNCHANGED loop
  /\ IF destructing
     THEN /\ managerAlive' = FALSE
          /\ UNCHANGED <<alive, destructing, main, pipeline, error, ctl,
                         buffered, seekVars, feed, flush, cb, reads, seekReqs,
                         intSeek, rendVars, wmpSeeking, pageVars>>
     ELSE BeginDestroy("joiningLast")

\* (mutant) the deletion is posted while streaming threads still run
FinishDestroyEarly ==
  /\ main # "idle"
  /\ pipeline' = FALSE
  /\ ctl' = [ctl EXCEPT !.gst = "NULL"]
  /\ flush' = "none"
  /\ loop' = Append(loop, Item("delete"))
  /\ managerAlive' = (managerAlive /\ main # "joiningLast")
  /\ main' = "idle"
  /\ UNCHANGED <<alive, destructing, error, buffered, seekVars, feed, cb,
                 reads, seekReqs, intSeek, rendVars, wmpSeeking, pageVars>>

\* (mutant) DeleteSoon is forgotten
FinishDestroyKeeps ==
  /\ main # "idle"
  /\ pipeline => \A th \in Threads : cb[th] = Idle
  /\ pipeline' = FALSE
  /\ ctl' = [ctl EXCEPT !.gst = "NULL"]
  /\ flush' = "none"
  /\ managerAlive' = (managerAlive /\ main # "joiningLast")
  /\ main' = "idle"
  /\ UNCHANGED <<alive, destructing, error, buffered, seekVars, feed, cb, loop,
                 reads, seekReqs, intSeek, rendVars, wmpSeeking, pageVars>>

\* Destroy, second half: gst_element_set_state(NULL) returned, no streaming
\* thread is inside a callback any more; the player posts its own deletion
FinishDestroy ==
  /\ main # "idle"
  /\ pipeline => \A th \in Threads : cb[th] = Idle
  /\ pipeline' = FALSE
  /\ ctl' = [ctl EXCEPT !.gst = "NULL"]
  /\ flush' = "none"
  /\ loop' = Append(loop, Item("delete"))
  /\ managerAlive' = (managerAlive /\ main # "joiningLast")
  /\ main' = "idle"
  /\ UNCHANGED <<alive, destructing, error, buffered, seekVars, feed, cb,
                 reads, seekReqs, intSeek, rendVars, wmpSeeking, pageVars>>

DeletePlayer ==
  /\ Take("delete")
  /\ alive' = FALSE
  /\ UNCHANGED <<destructing, main, pipeline, error, managerAlive, ctl,
                 buffered, seekVars, feed, flush, cb, reads, seekReqs, intSeek,
                 rendVars, wmpSeeking, pageVars>>
----------------------------------------------------------------------------
(***************************************************************************)
(* The UI thread: what the demuxer sends                                   *)
(***************************************************************************)
\* The first supported configuration builds the pipeline and prerolls it; an
\* unsupported one, or an element that cannot be created, is an error
OnDemuxerConfigsAvailable ==
  /\ Take("configs")
  /\ \/ /\ destructing \/ pipeline
        /\ UNCHANGED <<pipeline, error, ctl, flush>>
     \/ /\ ~destructing /\ ~pipeline
        /\ pipeline' = TRUE
        /\ ctl' = [ctl EXCEPT !.gst = "PAUSED"]
        /\ flush' = "preroll"
        /\ UNCHANGED error
     \/ /\ ~destructing /\ "error" \in Events
        /\ error' = TRUE
        /\ pipeline' \in {pipeline, TRUE}
        /\ UNCHANGED <<ctl, flush>>
  /\ UNCHANGED <<alive, destructing, main, managerAlive, buffered, seekVars,
                 feed, cb, reads, seekReqs, intSeek, rendVars, wmpSeeking,
                 pageVars>>

\* While the pipeline seeks and no I-frame was seen yet, data before the seek
\* position is not fed: video asks for another seek, audio is dropped
Early(t, b) == isSeeking /\ ~iframe /\ b.no <= seekOffset[t]

OnDemuxerDataAvailable ==
  /\ Runs("data")
  /\ LET t == Head(loop).type
         b == Head(loop).buf
         f == ReadFromQueueIfAny(feed[t])
     IN \/ /\ ~Usable
           /\ Done
           /\ UNCHANGED <<feed, iframe, ctl, demuxerSeeking, intSeek>>
        \/ /\ Usable /\ Early(t, b)
           /\ Done
           /\ UNCHANGED feed
           /\ IF t = "video"
              THEN iframe' = TRUE /\ RequestPlayerSeek(ctl)
              ELSE UNCHANGED <<iframe, ctl, demuxerSeeking, intSeek>>
        \/ /\ Usable /\ ~Early(t, b)
           /\ iframe' = (iframe \/ (isSeeking /\ t = "video"))
           /\ feed' = [feed EXCEPT ![t] =
                IF f.should THEN Push(f, b)
                ELSE SaveDecoderBuffer(f, b)]
           /\ IF f.should /\ ~f.eos /\ feed'[t].should
              THEN Post(ItemOf("read", t)) ELSE Done
           /\ UNCHANGED <<ctl, demuxerSeeking, intSeek>>
  /\ UNCHANGED <<objVars, buffered, isSeeking, seekOffset, flush, cb, reads,
                 seekReqs, rendVars, wmpSeeking, pageVars>>

\* (mutant) an aborted read is not repeated
OnReadAbortedForgets ==
  /\ Take("aborted")
  /\ UNCHANGED <<objVars, ctl, buffered, seekVars, feed, flush, cb, reads,
                 seekReqs, intSeek, rendVars, wmpSeeking, pageVars>>

\* OnBufferMetaDataAvailable, kAborted or kConfigChanged: ask again
OnReadAborted ==
  /\ Runs("aborted")
  /\ LET t == Head(loop).type
     IN IF Usable /\ feed[t].should THEN Post(ItemOf("read", t)) ELSE Done
  /\ UNCHANGED <<objVars, ctl, buffered, seekVars, feed, flush, cb, reads,
                 seekReqs, intSeek, rendVars, wmpSeeking, pageVars>>

\* OnBufferMetaDataAvailable, kOk with end_of_stream
OnEndOfStream ==
  /\ Take("endOfStream")
  /\ LET t == Head(loop).type
         f == ReadFromQueueIfAny(feed[t])
     IN IF Usable
        THEN /\ feed' = [feed EXCEPT ![t] = [f EXCEPT !.eos = TRUE]]
             /\ ctl' = IF ctl.playing THEN Play(ctl) ELSE ctl
        ELSE UNCHANGED <<feed, ctl>>
  /\ UNCHANGED <<objVars, buffered, seekVars, flush, cb, reads, seekReqs,
                 intSeek, rendVars, wmpSeeking, pageVars>>

\* SeekInternal: the demuxer is at the new position; flush the queues and the
\* pipeline. appsrc reports the position (seek-data) on this thread
OnDemuxerSeekDone ==
  /\ Take("seekDone")
  /\ \/ /\ ~Usable
        /\ UNCHANGED <<isSeeking, demuxerSeeking, seekOffset, feed, flush,
                       wmpSeeking, error>>
     \/ /\ Usable
        /\ demuxerSeeking' = FALSE
        /\ isSeeking' = TRUE
        /\ wmpSeeking' = TRUE
        /\ \/ /\ feed' = [t \in Types |-> Flushed(feed[t])]
              /\ \E o \in [Types -> 0 .. MaxEarly] : seekOffset' = o
              /\ flush' = "seek"
              /\ UNCHANGED error
           \/ /\ "error" \in Events      \* gst_element_seek failed
              /\ error' = TRUE
              /\ feed' = [t \in Types |-> [feed[t] EXCEPT !.saved = <<>>]]
              /\ UNCHANGED <<seekOffset, flush>>
  /\ UNCHANGED <<alive, destructing, main, pipeline, managerAlive, ctl,
                 buffered, iframe, cb, reads, seekReqs, intSeek, rendVars,
                 pageVars>>
----------------------------------------------------------------------------
(***************************************************************************)
(* The UI thread: the tasks the player posted to itself                    *)
(***************************************************************************)
ReadDemuxedData ==
  /\ Take("read")
  /\ LET t == Head(loop).type
     IN IF destructing THEN UNCHANGED <<feed, reads>>
        ELSE /\ feed' = [feed EXCEPT ![t].should = TRUE]
             /\ RequestData(t)
  /\ UNCHANGED <<objVars, ctl, buffered, seekVars, flush, cb, seekReqs,
                 intSeek, rendVars, wmpSeeking, pageVars>>

PostedPlay ==
  /\ Take("play")
  /\ ctl' = Play(ctl)
  /\ UNCHANGED <<objVars, buffered, seekVars, feed, flush, cb, reads, seekReqs,
                 intSeek, rendVars, wmpSeeking, pageVars>>

\* UpdateSeekState(false)
SeekStateFalse ==
  /\ Take("seekFalse")
  /\ isSeeking' = FALSE
  /\ wmpSeeking' = FALSE
  /\ UNCHANGED <<objVars, ctl, buffered, demuxerSeeking, iframe, seekOffset,
                 feed, flush, cb, reads, seekReqs, intSeek, rendVars, pageVars>>

OnTimeChanged ==
  /\ Take("timeChanged")
  /\ wmpSeeking' = FALSE
  /\ UNCHANGED <<objVars, ctl, buffered, seekVars, feed, flush, cb, reads,
                 seekReqs, intSeek, rendVars, pageVars>>

OnPlaybackComplete ==
  /\ Take("complete")
  /\ ctl' = [ctl EXCEPT !.timer = FALSE]
  /\ wmpSeeking' = FALSE
  /\ UNCHANGED <<objVars, buffered, seekVars, feed, flush, cb, reads, seekReqs,
                 intSeek, rendVars, pageVars>>

BufferLow == \E t \in Media : ~buffered[t]
BuffersFull == \A t \in Types : buffered[t]

HandleBufferingMessage ==
  /\ Take("buffering")
  /\ \/ /\ ~destructing /\ ~ctl.underflow /\ BufferLow
        /\ ctl' = PauseMedia([ctl EXCEPT !.underflow = TRUE])
     \/ /\ ~destructing /\ ctl.underflow /\ BuffersFull
        /\ ctl' = Play([ctl EXCEPT !.underflow = FALSE])
     \/ /\ \/ destructing
           \/ ~ctl.underflow /\ ~BufferLow
           \/ ctl.underflow /\ ~BuffersFull
        /\ UNCHANGED ctl
  /\ UNCHANGED <<objVars, buffered, seekVars, feed, flush, cb, reads, seekReqs,
                 intSeek, rendVars, wmpSeeking, pageVars>>

\* A state change that failed is an error
OnUpdateStates ==
  /\ Take("states")
  /\ \/ UNCHANGED error
     \/ ~destructing /\ Usable /\ "error" \in Events /\ error' = TRUE
  /\ UNCHANGED <<alive, destructing, main, pipeline, managerAlive, ctl,
                 buffered, seekVars, feed, flush, cb, reads, seekReqs, intSeek,
                 rendVars, wmpSeeking, pageVars>>
----------------------------------------------------------------------------
(***************************************************************************)
(* The streaming threads                                                   *)
(***************************************************************************)
\* A buffer leaves the appsrc
Consume(t) ==
  /\ pipeline /\ feed[t].level > 0
  /\ feed' = [feed EXCEPT ![t].level = @ - 1]
  /\ UNCHANGED <<objVars, ctl, buffered, seekVars, flush, cb, loop, reads,
                 seekReqs, intSeek, rendVars, wmpSeeking, pageVars>>

\* A callback starts: it finds IsPlayerDestructing() false and goes on
Enter(th, c) ==
  /\ pipeline /\ ctl.gst # "NULL" /\ ~destructing /\ alive
  /\ cb[th] = Idle /\ Len(loop) < MaxLoop
  /\ cb' = [cb EXCEPT ![th] = c]
  /\ UNCHANGED <<objVars, ctl, buffered, seekVars, loop, reads, seekReqs,
                 intSeek, rendVars, wmpSeeking, pageVars>>

\* An empty appsrc emits need-data once and waits for a push
EnterNeedData(th, t) ==
  /\ feed[t].level = 0 /\ ~feed[t].waiting /\ ~feed[t].eos
  /\ feed' = [feed EXCEPT ![t].waiting = TRUE]
  /\ Enter(th, [kind |-> "need", type |-> t, full |-> FALSE])
  /\ UNCHANGED flush

\* ASYNC_DONE: the preroll or the flushing seek under way completed
EnterAsyncDone(th) ==
  /\ "asyncDone" \in Events /\ flush # "none"
  /\ flush' = "none"
  /\ Enter(th, [Idle EXCEPT !.kind = "asyncDone"])
  /\ UNCHANGED feed

\* The other messages of the bus
EnterMessage(th) ==
  /\ \/ /\ "buffering" \in Events
        /\ \E t \in Types, full \in BOOLEAN :
             Enter(th, [kind |-> "buffering", type |-> t, full |-> full])
     \/ /\ "eos" \in Events
        /\ \A t \in Types : feed[t].eos /\ feed[t].level = 0
        /\ Enter(th, [Idle EXCEPT !.kind = "eos"])
     \/ \E e \in Events \cap {"error", "state"} :
          Enter(th, [Idle EXCEPT !.kind = e])
  /\ UNCHANGED <<feed, flush>>

\* OnReadDemuxedData
NeedData(th) ==
  /\ cb[th].kind = "need"
  /\ loop' = IF destructing THEN loop
             ELSE Append(loop, ItemOf("read", cb[th].type))
  /\ cb' = [cb EXCEPT ![th] = Idle]
  /\ UNCHANGED <<objVars, ctl, buffered, seekVars, feed, flush, reads,
                 seekReqs, intSeek, rendVars, wmpSeeking, pageVars>>

\* (mutant) the end of a seek does not resume playback
AsyncDoneNoPlay(th) ==
  /\ cb[th].kind = "asyncDone"
  /\ IF Usable /\ isSeeking
     THEN /\ iframe' = FALSE
          /\ loop' = loop \o <<Item("seekFalse"), Item("timeChanged")>>
     ELSE UNCHANGED <<iframe, loop>>
  /\ cb' = [cb EXCEPT ![th] = Idle]
  /\ UNCHANGED <<objVars, ctl, buffered, isSeeking, demuxerSeeking, seekOffset,
                 feed, flush, reads, seekReqs, intSeek, rendVars, wmpSeeking,
                 pageVars>>

\* HandleMessage, GST_MESSAGE_ASYNC_DONE: the seek is over; play again if the
\* page wants playback
AsyncDone(th) ==
  /\ cb[th].kind = "asyncDone"
  /\ IF Usable /\ isSeeking
     THEN /\ iframe' = FALSE
          /\ loop' = loop \o <<Item("seekFalse")>>
                          \o (IF ctl.playing THEN <<Item("play")>> ELSE <<>>)
                          \o <<Item("timeChanged")>>
     ELSE UNCHANGED <<iframe, loop>>
  /\ cb' = [cb EXCEPT ![th] = Idle]
  /\ UNCHANGED <<objVars, ctl, buffered, isSeeking, demuxerSeeking, seekOffset,
                 feed, flush, reads, seekReqs, intSeek, rendVars, wmpSeeking,
                 pageVars>>

\* HandleMessage, GST_MESSAGE_BUFFERING
Buffering(th) ==
  /\ cb[th].kind = "buffering"
  /\ IF Usable
     THEN /\ buffered' = [buffered EXCEPT ![cb[th].type] = cb[th].full]
          /\ LET low == \E t \in Media : ~buffered'[t]
                 full == \A t \in Types : buffered'[t]
             IN loop' = IF ctl.playing /\ (IF ctl.underflow THEN full ELSE low)
                        THEN Append(loop, Item("buffering")) ELSE loop
     ELSE UNCHANGED <<buffered, loop>>
  /\ cb' = [cb EXCEPT ![th] = Idle]
  /\ UNCHANGED <<objVars, ctl, seekVars, feed, flush, reads, seekReqs, intSeek,
                 rendVars, wmpSeeking, pageVars>>

\* HandleMessage, GST_MESSAGE_EOS and GST_MESSAGE_STATE_CHANGED
PostFromMessage(th) ==
  /\ \/ cb[th].kind = "eos" /\ loop' = IF Usable THEN Append(loop, Item("complete")) ELSE loop
     \/ cb[th].kind = "state" /\ loop' = IF Usable THEN Append(loop, Item("states")) ELSE loop
  /\ cb' = [cb EXCEPT ![th] = Idle]
  /\ UNCHANGED <<objVars, ctl, buffered, seekVars, feed, flush, reads,
                 seekReqs, intSeek, rendVars, wmpSeeking, pageVars>>

\* HandleMessage, GST_MESSAGE_ERROR: HandleError on the streaming thread
PipelineError(th) ==
  /\ cb[th].kind = "error"
  /\ error' = (error \/ pipeline)
  /\ cb' = [cb EXCEPT ![th] = Idle]
  /\ UNCHANGED <<alive, destructing, main, pipeline, managerAlive, ctl,
                 buffered, seekVars, feed, flush, loop, reads, seekReqs,
                 intSeek, rendVars, wmpSeeking, pageVars>>
----------------------------------------------------------------------------
(***************************************************************************)
(* The renderer, as far as the player can tell                             *)
(***************************************************************************)
\* A message of the renderer joins the UI thread's loop
Deliver(work) == alive /\ Len(loop) < MaxLoop /\ loop' = Append(loop, work)

\* DemuxerReady, once the media's streams are known
RendererReady ==
  /\ ~pipeline /\ ~error /\ ~destructing /\ ~InLoop("configs")
  /\ Deliver(Item("configs"))
  /\ UNCHANGED <<objVars, ctl, buffered, seekVars, feed, flush, cb, reads,
                 seekReqs, intSeek, rendVars, wmpSeeking, pageVars>>

\* A read completes with a buffer, or with the end of the stream
RendererAnswer(t) ==
  /\ reads[t] > 0 /\ ~rSeeking
  /\ reads' = [reads EXCEPT ![t] = @ - 1]
  /\ \/ /\ next[t] < MaxBuffers
        /\ next' = [next EXCEPT ![t] = @ + 1]
        /\ Deliver([ItemOf("data", t) EXCEPT
                      !.buf = [seg |-> segment, no |-> next[t] + 1]])
     \/ /\ next[t] = MaxBuffers
        /\ Deliver(ItemOf("endOfStream", t))
        /\ UNCHANGED next
  /\ UNCHANGED <<objVars, ctl, buffered, seekVars, feed, flush, cb, seekReqs,
                 intSeek, rSeeking, segment, wmpSeeking, pageVars>>

\* A read is answered kAborted (a seek starts) or kConfigChanged
RendererAbort(t) ==
  /\ reads[t] > 0
  /\ reads' = [reads EXCEPT ![t] = @ - 1]
  /\ Deliver(ItemOf("aborted", t))
  /\ UNCHANGED <<objVars, ctl, buffered, seekVars, feed, flush, cb, seekReqs,
                 intSeek, rendVars, wmpSeeking, pageVars>>

\* (mutant) a read is ignored that was never asked for
RendererIgnoreTwice(t) ==
  /\ rSeeking \/ reads[t] > 1
  /\ reads' = [reads EXCEPT ![t] = @ - 1]
  /\ UNCHANGED <<objVars, ctl, buffered, seekVars, feed, flush, cb, loop,
                 seekReqs, intSeek, rendVars, wmpSeeking, pageVars>>

\* A read is ignored: the demuxer waits for a seek, or the stream already reads
RendererIgnore(t) ==
  /\ reads[t] > 0 /\ (rSeeking \/ reads[t] > 1)
  /\ reads' = [reads EXCEPT ![t] = @ - 1]
  /\ UNCHANGED <<objVars, ctl, buffered, seekVars, feed, flush, cb, loop,
                 seekReqs, intSeek, rendVars, wmpSeeking, pageVars>>

\* Bound: seeks completed, requested or on their way to the player
MoreSeeks ==
  segment + seekReqs + Cardinality({i \in DOMAIN loop : loop[i].kind = "cmdSeek"})
    < MaxSegments

\* WebMediaPlayerTizen::seek, for the page or for a SeekRequest
RendererSeek ==
  /\ pipeline /\ ~destructing /\ ~wmpSeeking
  /\ MoreSeeks
  /\ intSeek' = FALSE
  /\ rSeeking' = TRUE /\ wmpSeeking' = TRUE
  /\ Deliver(Item("cmdSeek"))
  /\ UNCHANGED <<objVars, ctl, buffered, seekVars, feed, flush, cb, reads,
                 seekReqs, segment, next, wanted, cmds>>

\* The same while WebMediaPlayerTizen already seeks: CancelPendingSeek. If the
\* demuxer is done with its seek it seeks again by itself
RendererSeekAgain ==
  /\ pipeline /\ ~destructing /\ wmpSeeking
  /\ MoreSeeks
  /\ intSeek' = FALSE
  /\ IF rSeeking THEN intSeek /\ UNCHANGED <<loop, segment, next>>
     ELSE /\ segment' = segment + 1
          /\ next' = [t \in Types |-> 0]
          /\ Deliver([Item("seekDone") EXCEPT !.buf.seg = segment + 1])
  /\ UNCHANGED <<objVars, ctl, buffered, seekVars, feed, flush, cb, reads,
                 seekReqs, rSeeking, wmpSeeking, wanted, cmds>>

\* The demuxer completed the seek the player asked for
RendererSeekDone ==
  /\ seekReqs > 0
  /\ seekReqs' = seekReqs - 1
  /\ rSeeking' = FALSE
  /\ segment' = segment + 1
  /\ next' = [t \in Types |-> 0]
  /\ Deliver([Item("seekDone") EXCEPT !.buf.seg = segment + 1])
  /\ UNCHANGED <<objVars, ctl, buffered, seekVars, feed, flush, cb, reads,
                 intSeek, wmpSeeking, pageVars>>

\* The page's other commands
PageCommand ==
  /\ pipeline /\ ~destructing /\ cmds < MaxCmds
  /\ cmds' = cmds + 1
  /\ \/ Deliver(Item("cmdPlay"))
     \/ Deliver(Item("cmdPause"))
     \/ \E r \in Rates : Deliver([Item("cmdRate") EXCEPT !.arg = r])
  /\ UNCHANGED <<objVars, ctl, buffered, seekVars, feed, flush, cb, reads,
                 seekReqs, intSeek, rendVars, wmpSeeking, wanted>>

PageDestroy ==
  /\ ~destructing /\ ~InLoop("cmdDestroy")
  /\ Deliver(Item("cmdDestroy"))
  /\ UNCHANGED <<objVars, ctl, buffered, seekVars, feed, flush, cb, reads,
                 seekReqs, intSeek, rendVars, wmpSeeking, pageVars>>
----------------------------------------------------------------------------
UIThread ==
  \/ DropCommand \/ OnPlay \/ OnPause \/ SetRate \/ Seek \/ OnDestroy
  \/ FinishDestroy \/ DeletePlayer
  \/ OnDemuxerConfigsAvailable \/ OnDemuxerDataAvailable \/ OnReadAborted
  \/ OnEndOfStream \/ OnDemuxerSeekDone
  \/ ReadDemuxedData \/ PostedPlay \/ SeekStateFalse \/ OnTimeChanged
  \/ OnPlaybackComplete \/ HandleBufferingMessage \/ OnUpdateStates

\* The body of the callback a streaming thread is in
RunCallback(th) ==
  NeedData(th) \/ AsyncDone(th) \/ Buffering(th) \/ PostFromMessage(th)
  \/ PipelineError(th)

Streaming ==
  \/ \E t \in Types : Consume(t)
  \/ \E th \in Threads : \/ \E t \in Types : EnterNeedData(th, t)
                         \/ EnterAsyncDone(th) \/ EnterMessage(th)
                         \/ RunCallback(th)

Renderer ==
  \/ RendererReady
  \/ \E t \in Types : RendererAnswer(t) \/ RendererAbort(t) \/ RendererIgnore(t)
  \/ RendererSeek \/ RendererSeekAgain \/ RendererSeekDone
  \/ PageCommand \/ PageDestroy

Next == UIThread \/ DestroyManager \/ Streaming \/ Renderer

Spec == Init /\ [][Next]_vars

\* The UI thread serves its loop, and a streaming thread inside a callback gets
\* to its end: none of the callbacks waits for anything
Fairness ==
  /\ WF_vars(UIThread)
  /\ \A th \in Threads : WF_vars(RunCallback(th))

FairSpec == Spec /\ Fairness

----------------------------------------------------------------------------
(***************************************************************************)
(* Properties                                                              *)
(***************************************************************************)
TypeOK ==
  /\ alive \in BOOLEAN /\ destructing \in BOOLEAN /\ managerAlive \in BOOLEAN
  /\ main \in {"idle", "joining", "joiningLast"}
  /\ pipeline \in BOOLEAN /\ error \in BOOLEAN
  /\ ctl \in Control
  /\ buffered \in [Media -> BOOLEAN]
  /\ isSeeking \in BOOLEAN /\ demuxerSeeking \in BOOLEAN /\ iframe \in BOOLEAN
  /\ feed \in [Types -> Feed] /\ seekOffset \in [Types -> Nat]
  /\ flush \in {"none", "preroll", "seek"}
  /\ cb \in [Threads -> Callback]
  /\ loop \in Seq(Work)
  /\ reads \in [Types -> Nat] /\ seekReqs \in Nat /\ intSeek \in BOOLEAN
  /\ rSeeking \in BOOLEAN /\ wmpSeeking \in BOOLEAN
  /\ segment \in Nat /\ next \in [Types -> Nat]
  /\ wanted \in {"play", "pause"} /\ cmds \in Nat

NoTasks(l) == \A i \in DOMAIN l : l[i].kind \notin Tasks

\* Every task the player posts holds a raw pointer to it (base::Unretained),
\* and so does every callback of a streaming thread (user_data). None of them is
\* left when the player is deleted: Release joins the streaming threads before
\* DeleteSoon, and nothing is posted after it.
NoUseAfterDelete ==
  ~alive => /\ NoTasks(loop)
            /\ \A th \in Threads : cb[th] = Idle

\* A destroyed player is deleted: the UI thread never waits for ever in Release.
Deleted == destructing ~> ~alive

\* Buffers reach an appsrc in the order in which the demuxer produced them,
\* whether they were saved in between or not.
InOrder ==
  \A t \in Types :
    LET all == feed[t].pushed \o feed[t].saved
    IN \A i \in 1 .. Len(all) - 1 : all[i].no < all[i + 1].no

\* From the seek position on no buffer of a segment is lost before the end of the
\* stream, however enough-data, I-frames found early and the answers still under
\* way interleave: none is missing before one that is held or was fed.
NoGap ==
  \A t \in Types : ~feed[t].eos =>
    LET all == feed[t].pushed \o feed[t].saved
    IN \A i \in DOMAIN all : \A n \in seekOffset[t] + 1 .. all[i].no :
         \E j \in DOMAIN all : all[j].no = n

\* After a flushing seek only data of one segment is held or fed: neither a
\* saved buffer nor an answer sent before the seek gets past it.
OneSegment ==
  \A t \in Types :
    LET all == feed[t].pushed \o feed[t].saved
    IN \A i, j \in DOMAIN all : all[i].seg = all[j].seg

\* No need-data is lost: as long as an appsrc waits for data, a read of its
\* stream, an answer to one, or a seek that will flush the appsrc is under way.
\* (Audio that precedes the seek position is the exception: it is dropped and no
\* more is asked for.)
FeedPending ==
  \A t \in Types :
    feed[t].waiting /\ Usable /\ ~destructing /\ ~feed[t].eos
      /\ (t = "video" \/ seekOffset[t] = 0)
      => \/ \E th \in Threads : cb[th].kind = "need" /\ cb[th].type = t
         \/ \E i \in DOMAIN loop :
              /\ loop[i].type = t
              /\ loop[i].kind \in {"read", "data", "aborted", "endOfStream"}
         \/ InLoop("cmdSeek") \/ InLoop("seekDone")
         \/ reads[t] > 0
         \/ demuxerSeeking \/ rSeeking

\* Playback that is under way is not marked as waiting for data, or the next
\* BUFFERING message at 100 would be needed to report a shortage.
UnderflowMeansPaused == ctl.underflow /\ Usable => ctl.gst # "PLAYING"

\* Playback the page wants is paused, and nothing is left that would resume it
Stuck ==
  /\ Usable /\ ~destructing
  /\ ctl.playing /\ ctl.rate # 0 /\ ctl.gst = "PAUSED"
  /\ ~ctl.underflow /\ ~demuxerSeeking /\ ~isSeeking /\ ~InLoop("play")

\* The media's first seek resumes playback: if the page wants playback and the
\* pipeline is paused, then for lack of data, or a seek is under way, or Play is
\* already posted, in whatever order ASYNC_DONE, buffering messages, page
\* commands and the tasks posted for them run. (Of a second seek this is not true:
\* UpdateSeekState(false), posted for the first, may clear its is_seeking_.)
FirstSeekResumes == segment <= 1 => ~Stuck

\* (violated) The page's pause holds until the page plays again: the header of
\* MediaPlayerTizen reserves Pause(false) for HTMLMediaElement. A Play posted by
\* ASYNC_DONE "for internal seeks" before the pause runs after it.
UserPauseHolds == wanted = "pause" /\ Usable => ctl.gst # "PLAYING"

\* (violated) The end of the stream is announced behind the last buffer: the
\* comments promise that saved buffers are used before new ones are read.
EosLast == \A t \in Types : feed[t].eos => feed[t].saved = <<>>

\* (violated) "manager must outlive the lifetime of this object": no task that
\* reports to the manager is left once the manager is gone.
ManagerOutlives ==
  ~managerAlive =>
    \A i \in DOMAIN loop :
      loop[i].kind \notin {"seekFalse", "timeChanged", "complete"}

=============================================================================
