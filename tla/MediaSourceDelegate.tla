------------------------ MODULE MediaSourceDelegate ------------------------
(***************************************************************************)
(* The renderer's half of a Media Source element: WebMediaPlayerTizen and  *)
(* MediaSourceDelegateTizen                                                *)
(* (src/impl/content/renderer/media/tizen/media_source_delegate_tizen.cc), *)
(* between Chromium's ChunkDemuxer and the player in the browser process.  *)
(*                                                                         *)
(* The delegate lives on two threads. The main thread runs the element's   *)
(* seeks and the destruction; the media thread runs the player's requests  *)
(* and the demuxer's callbacks. Their flags are plain booleans without a   *)
(* lock, so a handler that tests one flag and writes others is split at    *)
(* the points where the other thread can come between.                     *)
(*                                                                         *)
(* ChunkDemuxer and the browser's player are external: the first is        *)
(* modelled by its Seek/StartWaitingForSeek/CancelPendingSeek contract     *)
(* (every call under its own lock, every callback posted to the thread     *)
(* that made the call), the second answers in the order it is asked, as    *)
(* module MediaSourcePlayer shows it in detail.                            *)
(***************************************************************************)
EXTENDS Naturals, Sequences, FiniteSets

CONSTANTS
  Types,       \* streams of the media
  Times,       \* positions the element seeks to
  MaxSeeks,    \* bound: seeks of the element
  MaxReads,    \* bound: read requests of the player
  MaxCompletes \* bound: times playback reaches the end

Media == {"audio", "video"}
Start == 0     \* the position before any seek

ASSUME TypesAssumption == Types \subseteq Media
ASSUME TimesAssumption == Times \subseteq Nat \ {Start}
ASSUME BoundsAssumption ==
  MaxSeeks \in Nat /\ MaxReads \in Nat /\ MaxCompletes \in Nat

VARIABLES
  \* ---- WebMediaPlayerTizen
  wmp,         \* is_seeking_, seek_time_ and pending_seek_, see Element
  latest,      \* the last position the page asked for
  \* ---- MediaSourceDelegateTizen
  life,        \* "alive", "destroying", "stopped", "deleted"
  ready,       \* is_demuxer_ready_, audio_stream_ and video_stream_ are set
  isSeeking,   \* is_seeking_
  pending,     \* pending_seek_ and pending_seek_time_
  seekingPending, \* seeking_pending_seek_
  seekDone,    \* is_demuxer_seek_done_
  seekTime,    \* seek_time_
  readFired,   \* is_audio_read_fired_, is_video_read_fired_
  pc,          \* per thread: where it is inside a handler
  tasks,       \* per thread: FIFO of posted work
  \* ---- ChunkDemuxer
  demuxer,     \* see Demuxer
  \* ---- the player in the browser process
  player,      \* Seek commands on their way to it, and through it
  answers,     \* DemuxerSeekDone messages on their way to it
  gstSeeks,    \* DemuxerSeekDones it has acted on, its pipeline still seeks
  \* ---- bounds
  seeks, readsSent, completes

flagVars == <<isSeeking, pending, seekingPending, seekDone, seekTime>>
playerVars == <<player, answers, gstSeeks>>
boundVars == <<seeks, readsSent, completes>>
vars == <<wmp, latest, life, ready, isSeeking, pending, seekingPending,
          seekDone, seekTime, readFired, pc, tasks, demuxer, player, answers,
          gstSeeks, seeks, readsSent, completes>>
----------------------------------------------------------------------------
Threads == {"main", "media"}
Positions == Times \cup {Start}
Element == [seeking : BOOLEAN, time : Positions, pending : BOOLEAN]
\* a pending seek has a time
Pending == [set : BOOLEAN, time : Times] \cup [set : {FALSE}, time : {Start}]

\* initialize .. stop run on the media thread, delete and the element's
\* notifications on the main thread, seekDone where its Seek was called
Kinds == {"initialize", "initDone", "read", "playerSeek", "buffer", "stop",
          "seekDone", "seekTrue", "seekFalse", "timeChanged", "delete"}
Statuses == {"ok", "endOfStream", "aborted", "error"}
Task == [kind : Kinds, type : Media, status : Statuses, time : Positions]
TaskOf(k) == [kind |-> k, type |-> "audio", status |-> "ok", time |-> Start]

\* at: where its streams are; seekCb: the thread a Seek waits to call back;
\* aborting: the streams answer reads with kAborted until the next Seek
Demuxer == [state : {"new", "initializing", "initialized", "shutdown", "gone"},
            seekCb : Threads \cup {"none"}, cancelNext : BOOLEAN,
            aborting : BOOLEAN, at : Positions, reading : [Media -> BOOLEAN]]

\* A DemuxerSeekDone message, with where the streams were when it was sent
Answer == [time : Positions, at : Positions]

Post(ts, th, task) == [ts EXCEPT ![th] = Append(@, task)]
Popped(th) == [tasks EXCEPT ![th] = Tail(@)]
Runs(th, k) ==
  pc[th] = "idle" /\ tasks[th] # <<>> /\ Head(tasks[th]).kind = k
----------------------------------------------------------------------------
(***************************************************************************)
(* ChunkDemuxer (external). Each operator gives the demuxer and the posted *)
(* tasks after the call, from their values d and ts before it.             *)
(***************************************************************************)
\* The reads under way are answered with the given status
AnswerReads(d, ts, status) ==
  LET one(t) == IF d.reading[t]
                THEN <<[TaskOf("buffer") EXCEPT !.type = t, !.status = status]>>
                ELSE <<>>
  IN [ts EXCEPT !["media"] = @ \o one("audio") \o one("video")]

NoReads == [t \in Media |-> FALSE]

SeekCallback(status) == [TaskOf("seekDone") EXCEPT !.status = status]

\* Seek(time, cb), called on thread th: refused after Shutdown, answered at once
\* if it was cancelled in advance or if the data is there, else it waits
DemuxerSeek(d, ts, th, t) ==
  \/ /\ d.state # "initialized"
     /\ tasks' = Post(ts, th, SeekCallback("error")) /\ demuxer' = d
  \/ /\ d.state = "initialized" /\ d.cancelNext
     /\ tasks' = Post(ts, th, SeekCallback("ok"))
     /\ demuxer' = [d EXCEPT !.cancelNext = FALSE, !.seekCb = "none"]
  \/ /\ d.state = "initialized" /\ ~d.cancelNext
     /\ \/ /\ tasks' = Post(ts, th, SeekCallback("ok"))
           /\ demuxer' = [d EXCEPT !.at = t, !.aborting = FALSE, !.seekCb = "none"]
        \/ /\ tasks' = ts
           /\ demuxer' = [d EXCEPT !.at = t, !.aborting = FALSE, !.seekCb = th]

\* StartWaitingForSeek(t): the streams go to t, and their reads are aborted until
\* the Seek that is to come
Waiting(d, t) ==
  [d EXCEPT !.cancelNext = FALSE, !.at = t, !.aborting = TRUE,
            !.reading = NoReads]

\* CancelPendingSeek(t): the streams go to t with their reads aborted, and the
\* Seek under way ends, or the next one will at once: it aborts no less
DemuxerCancel(d, ts, t) ==
  IF d.cancelNext THEN demuxer' = d /\ tasks' = ts
  ELSE LET aborted == AnswerReads(d, ts, "aborted")
       IN /\ tasks' = IF d.seekCb = "none" THEN aborted
                      ELSE Post(aborted, d.seekCb, SeekCallback("ok"))
          /\ demuxer' = [d EXCEPT !.at = t, !.aborting = TRUE,
                                  !.reading = NoReads, !.seekCb = "none",
                                  !.cancelNext = (d.seekCb = "none")]
----------------------------------------------------------------------------
Init ==
  /\ wmp = [seeking |-> FALSE, time |-> Start, pending |-> FALSE]
  /\ latest = Start
  /\ life = "alive" /\ ready = FALSE
  /\ isSeeking = FALSE /\ seekingPending = FALSE /\ seekDone = FALSE
  /\ pending = [set |-> FALSE, time |-> Start] /\ seekTime = Start
  /\ readFired = NoReads
  /\ pc = [th \in Threads |-> "idle"]
  /\ tasks = [main |-> <<>>, media |-> <<TaskOf("initialize")>>]
  /\ demuxer = [state |-> "new", seekCb |-> "none", cancelNext |-> FALSE,
                aborting |-> FALSE, at |-> Start, reading |-> NoReads]
  /\ player = <<>> /\ answers = <<>> /\ gstSeeks = 0
  /\ seeks = 0 /\ readsSent = 0 /\ completes = 0
----------------------------------------------------------------------------
(***************************************************************************)
(* Seeking                                                                 *)
(***************************************************************************)
\* (mutant) the demuxer is sent to the position sought before
StartSeekStale(d, ts, th, t, own) ==
  /\ isSeeking' = TRUE
  /\ seekDone' = FALSE
  /\ seekingPending' = (seekingPending \/ own)
  /\ IF seekingPending /\ ~own
     THEN demuxer' = d /\ tasks' = ts /\ UNCHANGED seekTime
     ELSE seekTime' = t /\ DemuxerSeek(d, ts, th, seekTime)

\* (mutant) the player's request is ignored during every seek
StartSeekIgnored(d, ts, th, t, own) ==
  /\ isSeeking' = TRUE
  /\ seekDone' = FALSE
  /\ seekingPending' = (seekingPending \/ own)
  /\ IF isSeeking /\ ~own
     THEN demuxer' = d /\ tasks' = ts /\ UNCHANGED seekTime
     ELSE seekTime' = t /\ DemuxerSeek(d, ts, th, t)

\* MediaSourceDelegateTizen::StartSeek on thread th. The player's request is
\* ignored while the delegate itself seeks to a later position
StartSeek(d, ts, th, t, own) ==
  /\ isSeeking' = TRUE
  /\ seekDone' = FALSE
  /\ seekingPending' = (seekingPending \/ own)
  /\ IF seekingPending /\ ~own
     THEN demuxer' = d /\ tasks' = ts /\ UNCHANGED seekTime
     ELSE seekTime' = t /\ DemuxerSeek(d, ts, th, t)

\* WebMediaPlayerTizen::seek while nothing is being sought: StartWaitingForSeek,
\* and the command to the player
SeekFirst(t) ==
  /\ life = "alive" /\ ready /\ pc["main"] = "idle" /\ seeks < MaxSeeks
  /\ ~wmp.seeking
  /\ wmp' = [wmp EXCEPT !.seeking = TRUE, !.time = t]
  /\ latest' = t /\ seeks' = seeks + 1
  /\ seekDone' = FALSE /\ seekingPending' = FALSE /\ isSeeking' = TRUE
  /\ demuxer' = Waiting(demuxer, t)
  /\ tasks' = AnswerReads(demuxer, tasks, "aborted")
  /\ player' = Append(player, t)
  /\ UNCHANGED <<life, ready, pending, seekTime, readFired, pc, answers,
                 gstSeeks, readsSent, completes>>

\* (mutant) pending_seek_time_ is not set
SeekAgainUntimed(t) ==
  /\ life = "alive" /\ ready /\ pc["main"] = "idle" /\ seeks < MaxSeeks
  /\ wmp.seeking /\ (t # wmp.time \/ wmp.pending)
  /\ wmp' = [wmp EXCEPT !.pending = TRUE]
  /\ latest' = t /\ seeks' = seeks + 1
  /\ isSeeking' = TRUE
  /\ pending' = [pending EXCEPT !.set = TRUE]
  /\ pc' = [pc EXCEPT !["main"] = "cancelling"]
  /\ UNCHANGED <<life, ready, seekingPending, seekDone, seekTime, readFired,
                 tasks, demuxer, playerVars, readsSent, completes>>

\* WebMediaPlayerTizen::seek while it seeks: CancelPendingSeek, up to its test
\* of is_demuxer_seek_done_. A repeated position is not sought again
SeekAgain(t) ==
  /\ life = "alive" /\ ready /\ pc["main"] = "idle" /\ seeks < MaxSeeks
  /\ wmp.seeking /\ (t # wmp.time \/ wmp.pending)
  /\ wmp' = [wmp EXCEPT !.pending = TRUE]
  /\ latest' = t /\ seeks' = seeks + 1
  /\ isSeeking' = TRUE
  /\ pending' = [set |-> TRUE, time |-> t]
  /\ pc' = [pc EXCEPT !["main"] = "cancelling"]
  /\ UNCHANGED <<life, ready, seekingPending, seekDone, seekTime, readFired,
                 tasks, demuxer, playerVars, readsSent, completes>>

\* The rest of CancelPendingSeek: the demuxer is done and the pipeline seeks, so
\* seek once more; or cancel the demuxer's seek
CancelPendingSeek ==
  /\ pc["main"] = "cancelling"
  /\ pc' = [pc EXCEPT !["main"] = "idle"]
  /\ \/ /\ seekDone
        /\ pending' = [pending EXCEPT !.set = FALSE]
        /\ StartSeek(Waiting(demuxer, pending.time),
                     AnswerReads(demuxer, tasks, "aborted"),
                     "main", pending.time, TRUE)
     \/ /\ ~seekDone
        /\ DemuxerCancel(demuxer, tasks, pending.time)
        /\ UNCHANGED flagVars
  /\ UNCHANGED <<wmp, latest, life, ready, readFired, playerVars, boundVars>>

\* The player's DemuxerSeekRequest
OnDemuxerSeekRequest ==
  /\ Runs("media", "playerSeek")
  /\ IF life \in {"stopped", "deleted"}
     THEN tasks' = Popped("media") /\ UNCHANGED <<demuxer, flagVars>>
     ELSE /\ StartSeek(demuxer, Popped("media"), "media",
                       Head(tasks["media"]).time, FALSE)
          /\ UNCHANGED pending
  /\ UNCHANGED <<wmp, latest, life, ready, readFired, pc, playerVars, boundVars>>

\* OnDemuxerSeekDone up to its test of pending_seek_; an error ends it
OnDemuxerSeekDone(th) ==
  /\ Runs(th, "seekDone")
  /\ tasks' = Popped(th)
  /\ pc' = IF life \in {"alive", "destroying"} /\ Head(tasks[th]).status = "ok"
           THEN [pc EXCEPT ![th] = IF pending.set THEN "again" ELSE "done"]
           ELSE pc
  /\ UNCHANGED <<wmp, latest, life, ready, flagVars, readFired, demuxer,
                 playerVars, boundVars>>

\* It found a pending seek
SeekPending(th) ==
  /\ pc[th] = "again"
  /\ pc' = [pc EXCEPT ![th] = "idle"]
  /\ pending' = [pending EXCEPT !.set = FALSE]
  /\ StartSeek(demuxer, tasks, th, pending.time, TRUE)
  /\ UNCHANGED <<wmp, latest, life, ready, readFired, playerVars, boundVars>>

\* (mutant) reads stay disallowed
AllowReadsNot(th) ==
  /\ pc[th] = "done"
  /\ pc' = [pc EXCEPT ![th] = "answer"]
  /\ seekingPending' = FALSE
  /\ UNCHANGED <<wmp, latest, life, ready, isSeeking, pending, seekDone,
                 seekTime, readFired, tasks, demuxer, playerVars, boundVars>>

\* It found none: reads are allowed again
AllowReads(th) ==
  /\ pc[th] = "done"
  /\ pc' = [pc EXCEPT ![th] = "answer"]
  /\ seekingPending' = FALSE /\ isSeeking' = FALSE
  /\ UNCHANGED <<wmp, latest, life, ready, pending, seekDone, seekTime,
                 readFired, tasks, demuxer, playerVars, boundVars>>

\* and the player is told
AnswerSeek(th) ==
  /\ pc[th] = "answer"
  /\ pc' = [pc EXCEPT ![th] = "idle"]
  /\ seekDone' = TRUE
  /\ answers' = Append(answers, [time |-> seekTime, at |-> demuxer.at])
  /\ UNCHANGED <<wmp, latest, life, ready, isSeeking, pending, seekingPending,
                 seekTime, readFired, tasks, demuxer, player, gstSeeks,
                 boundVars>>
----------------------------------------------------------------------------
(***************************************************************************)
(* Reading                                                                 *)
(***************************************************************************)
\* (mutant) a second read is sent while one is under way
ReadTwice(t) == ~isSeeking

\* A read request is honoured outside of seeks, one at a time per stream
MayRead(t) == ~isSeeking /\ ~readFired[t]

OnReadFromDemuxer ==
  /\ Runs("media", "read")
  /\ LET t == Head(tasks["media"]).type
     IN IF life \in {"alive", "destroying"} /\ ready /\ MayRead(t)
        THEN /\ readFired' = [readFired EXCEPT ![t] = TRUE]
             /\ \/ /\ demuxer.state = "initialized" /\ ~demuxer.aborting
                   /\ demuxer' = [demuxer EXCEPT !.reading[t] = TRUE]
                   /\ tasks' = Popped("media")
                \/ /\ demuxer.state # "initialized" \/ demuxer.aborting
                   /\ tasks' = Post(Popped("media"), "media",
                        [TaskOf("buffer") EXCEPT !.type = t,
                           !.status = IF demuxer.state = "shutdown"
                                      THEN "endOfStream" ELSE "aborted"])
                   /\ UNCHANGED demuxer
        ELSE tasks' = Popped("media") /\ UNCHANGED <<readFired, demuxer>>
  /\ UNCHANGED <<wmp, latest, life, ready, flagVars, pc, playerVars, boundVars>>

\* OnBufferReady: the buffer, its end or kAborted goes to the player
OnBufferReady ==
  /\ Runs("media", "buffer")
  /\ tasks' = Popped("media")
  /\ readFired' = IF life \in {"alive", "destroying"}
                  THEN [readFired EXCEPT ![Head(tasks["media"]).type] = FALSE]
                  ELSE readFired
  /\ UNCHANGED <<wmp, latest, life, ready, flagVars, pc, demuxer, playerVars,
                 boundVars>>
----------------------------------------------------------------------------
(***************************************************************************)
(* Life                                                                    *)
(***************************************************************************)
InitializeDemuxer ==
  /\ Runs("media", "initialize")
  /\ IF demuxer.state = "shutdown"
     THEN /\ tasks' = Post(Popped("media"), "media",
                           [TaskOf("initDone") EXCEPT !.status = "error"])
          /\ UNCHANGED demuxer
     ELSE /\ tasks' = Popped("media")
          /\ demuxer' = [demuxer EXCEPT !.state = "initializing"]
  /\ UNCHANGED <<wmp, latest, life, ready, flagVars, readFired, pc, playerVars,
                 boundVars>>

OnDemuxerInitDone ==
  /\ Runs("media", "initDone")
  /\ tasks' = Popped("media")
  /\ ready' = (ready \/ /\ life \in {"alive", "destroying"}
                        /\ Head(tasks["media"]).status = "ok")
  /\ UNCHANGED <<wmp, latest, life, flagVars, readFired, pc, demuxer,
                 playerVars, boundVars>>

\* (mutant) the deletion is posted at once, not behind StopDemuxer
DestroyDeletes ==
  /\ life = "alive" /\ pc["main"] = "idle"
  /\ life' = "destroying"
  /\ tasks' = Post(Post(tasks, "media", TaskOf("stop")), "main", TaskOf("delete"))
  /\ demuxer' = [demuxer EXCEPT !.state = "shutdown", !.seekCb = "none",
                                !.reading = NoReads]
  /\ UNCHANGED <<wmp, latest, ready, flagVars, readFired, pc, playerVars,
                 boundVars>>

\* Destroy: the demuxer answers what is under way, and is stopped on the media
\* thread; the element is gone
Destroy ==
  /\ life = "alive" /\ pc["main"] = "idle"
  /\ life' = "destroying"
  /\ LET answered == AnswerReads(demuxer, tasks, "endOfStream")
         ended == IF demuxer.seekCb = "none" THEN answered
                  ELSE Post(answered, demuxer.seekCb, SeekCallback("error"))
     IN tasks' = Post(ended, "media", TaskOf("stop"))
  /\ demuxer' = [demuxer EXCEPT !.state = "shutdown", !.seekCb = "none",
                                !.reading = NoReads]
  /\ UNCHANGED <<wmp, latest, ready, flagVars, readFired, pc, playerVars,
                 boundVars>>

\* (mutant) DeleteSelf is not posted
StopDemuxerKeeps ==
  /\ Runs("media", "stop")
  /\ life' = "stopped" /\ ready' = FALSE
  /\ demuxer' = [demuxer EXCEPT !.state = "gone"]
  /\ tasks' = Popped("media")
  /\ UNCHANGED <<wmp, latest, flagVars, readFired, pc, playerVars, boundVars>>

\* StopDemuxer: RendererDemuxerTizen forgets the delegate, its weak pointers die
StopDemuxer ==
  /\ Runs("media", "stop")
  /\ life' = "stopped" /\ ready' = FALSE
  /\ demuxer' = [demuxer EXCEPT !.state = "gone"]
  /\ tasks' = Post(Popped("media"), "main", TaskOf("delete"))
  /\ UNCHANGED <<wmp, latest, flagVars, readFired, pc, playerVars, boundVars>>

DeleteSelf ==
  /\ Runs("main", "delete")
  /\ life' = "deleted"
  /\ tasks' = Popped("main")
  /\ UNCHANGED <<wmp, latest, ready, flagVars, readFired, pc, demuxer,
                 playerVars, boundVars>>

\* WebMediaPlayerTizen::OnSeekStateChange and OnTimeChanged, while it exists
OnSeekStateChange ==
  /\ \E k \in {"seekTrue", "seekFalse", "timeChanged"} : Runs("main", k)
  /\ tasks' = Popped("main")
  /\ wmp' = IF life = "alive"
            THEN [wmp EXCEPT !.seeking = (Head(tasks["main"]).kind = "seekTrue")]
            ELSE wmp
  /\ UNCHANGED <<latest, life, ready, flagVars, readFired, pc, demuxer,
                 playerVars, boundVars>>
----------------------------------------------------------------------------
(***************************************************************************)
(* External: the page's data, and the player in the browser process        *)
(***************************************************************************)
\* The first initialization segment, or one that cannot be played
DemuxerInitialized ==
  /\ demuxer.state = "initializing"
  /\ \E s \in {"ok", "error"} :
       tasks' = Post(tasks, "media", [TaskOf("initDone") EXCEPT !.status = s])
  /\ demuxer' = [demuxer EXCEPT !.state = "initialized"]
  /\ UNCHANGED <<wmp, latest, life, ready, flagVars, readFired, pc, playerVars,
                 boundVars>>

\* Data for the position sought arrived
DemuxerSought ==
  /\ demuxer.seekCb # "none"
  /\ tasks' = Post(tasks, demuxer.seekCb, SeekCallback("ok"))
  /\ demuxer' = [demuxer EXCEPT !.seekCb = "none"]
  /\ UNCHANGED <<wmp, latest, life, ready, flagVars, readFired, pc, playerVars,
                 boundVars>>

\* A read has its data, or the end of the stream
DemuxerRead(t) ==
  /\ demuxer.reading[t]
  /\ \E s \in {"ok", "endOfStream"} :
       tasks' = Post(tasks, "media",
                     [TaskOf("buffer") EXCEPT !.type = t, !.status = s])
  /\ demuxer' = [demuxer EXCEPT !.reading[t] = FALSE]
  /\ UNCHANGED <<wmp, latest, life, ready, flagVars, readFired, pc, playerVars,
                 boundVars>>

\* MediaSourcePlayerGstreamer::Seek asks the demuxer to seek
PlayerSeek ==
  /\ player # <<>>
  /\ player' = Tail(player)
  /\ tasks' = Post(tasks, "media",
                   [TaskOf("playerSeek") EXCEPT !.time = Head(player)])
  /\ UNCHANGED <<wmp, latest, life, ready, flagVars, readFired, pc, demuxer,
                 answers, gstSeeks, boundVars>>

\* Its SeekInternal: the pipeline seeks, the element is told
PlayerSeekDone ==
  /\ answers # <<>>
  /\ answers' = Tail(answers)
  /\ gstSeeks' = 1
  /\ tasks' = Post(tasks, "main", TaskOf("seekTrue"))
  /\ UNCHANGED <<wmp, latest, life, ready, flagVars, readFired, pc, demuxer,
                 player, boundVars>>

\* The pipeline's ASYNC_DONE: UpdateSeekState(false), then OnTimeChanged
PlayerAsyncDone ==
  /\ gstSeeks > 0
  /\ gstSeeks' = 0
  /\ tasks' = Post(Post(tasks, "main", TaskOf("seekFalse")), "main", TaskOf("timeChanged"))
  /\ UNCHANGED <<wmp, latest, life, ready, flagVars, readFired, pc, demuxer,
                 player, answers, boundVars>>

\* OnPlaybackComplete: OnTimeChanged without a seek
PlayerComplete ==
  /\ ready /\ completes < MaxCompletes
  /\ completes' = completes + 1
  /\ tasks' = Post(tasks, "main", TaskOf("timeChanged"))
  /\ UNCHANGED <<wmp, latest, life, ready, flagVars, readFired, pc, demuxer,
                 playerVars, seeks, readsSent>>

PlayerRead(t) ==
  /\ ready /\ readsSent < MaxReads
  /\ readsSent' = readsSent + 1
  /\ tasks' = Post(tasks, "media", [TaskOf("read") EXCEPT !.type = t])
  /\ UNCHANGED <<wmp, latest, life, ready, flagVars, readFired, pc, demuxer,
                 playerVars, seeks, completes>>
----------------------------------------------------------------------------
Main ==
  \/ CancelPendingSeek \/ DeleteSelf \/ OnSeekStateChange
  \/ OnDemuxerSeekDone("main") \/ SeekPending("main")
  \/ AllowReads("main") \/ AnswerSeek("main")

MediaThread ==
  \/ OnDemuxerSeekRequest \/ OnReadFromDemuxer \/ OnBufferReady
  \/ InitializeDemuxer \/ OnDemuxerInitDone \/ StopDemuxer
  \/ OnDemuxerSeekDone("media") \/ SeekPending("media")
  \/ AllowReads("media") \/ AnswerSeek("media")

Page == Destroy \/ \E t \in Times : SeekFirst(t) \/ SeekAgain(t)

Environment ==
  \/ DemuxerInitialized \/ DemuxerSought \/ \E t \in Types : DemuxerRead(t)
  \/ PlayerSeek \/ PlayerSeekDone \/ PlayerAsyncDone \/ PlayerComplete
  \/ \E t \in Types : PlayerRead(t)

Next == Main \/ MediaThread \/ Page \/ Environment

Spec == Init /\ [][Next]_vars

\* Both threads serve their loops; the player passes seeks on, and the page
\* provides the data the demuxer waits for
Fairness ==
  /\ WF_vars(Main) /\ WF_vars(MediaThread)
  /\ WF_vars(DemuxerSought) /\ WF_vars(PlayerSeek)

FairSpec == Spec /\ Fairness
----------------------------------------------------------------------------
(***************************************************************************)
(* Properties                                                              *)
(***************************************************************************)
TypeOK ==
  /\ wmp \in Element /\ latest \in Positions
  /\ life \in {"alive", "destroying", "stopped", "deleted"}
  /\ ready \in BOOLEAN /\ isSeeking \in BOOLEAN /\ pending \in Pending
  /\ seekingPending \in BOOLEAN /\ seekDone \in BOOLEAN
  /\ seekTime \in Positions /\ readFired \in [Media -> BOOLEAN]
  /\ pc \in [Threads -> {"idle", "cancelling", "again", "done", "answer"}]
  /\ tasks \in [Threads -> Seq(Task)]
  /\ demuxer \in Demuxer
  /\ player \in Seq(Times) /\ answers \in Seq(Answer) /\ gstSeeks \in {0, 1}
  /\ seeks \in Nat /\ readsSent \in Nat /\ completes \in Nat

\* What the delegate has asked the demuxer to read and not yet been given
Outstanding(t) ==
  (IF demuxer.reading[t] THEN 1 ELSE 0)
  + Cardinality({i \in DOMAIN tasks["media"] :
                   /\ tasks["media"][i].kind = "buffer"
                   /\ tasks["media"][i].type = t})

\* The read-fired flags tell the truth as long as the delegate is in business:
\* a stream has at most one read under way, and an aborted, cancelled or late
\* answer never leaves a flag set, which would end reading for good.
OneRead ==
  life \in {"alive", "destroying"} =>
    \A t \in Types : Outstanding(t) = IF readFired[t] THEN 1 ELSE 0

\* StopDemuxer and DeleteSelf hold a raw pointer, the flags are written by both
\* threads: when the delegate is deleted no thread is inside it and nothing that
\* would touch it is posted.
DeletedLast ==
  life = "deleted" =>
    /\ \A th \in Threads : pc[th] = "idle"
    /\ \A th \in Threads : \A i \in DOMAIN tasks[th] :
         tasks[th][i].kind \notin {"initialize", "stop", "delete"}

\* A destroyed delegate gets deleted.
DelegateDeleted == life = "destroying" ~> life = "deleted"

\* Nothing is left to happen for a seek
Settled ==
  /\ life = "alive" /\ ~wmp.seeking
  /\ \A th \in Threads : pc[th] = "idle" /\ tasks[th] = <<>>
  /\ demuxer.seekCb = "none" /\ player = <<>> /\ answers = <<>> /\ gstSeeks = 0

Holds(q, k) == \E i \in 1..Len(q) : q[i].kind = k

\* A seek has yet to be answered: at the player, at the demuxer or between them
UnderWay ==
  \/ player # <<>> \/ demuxer.seekCb # "none"
  \/ \E th \in Threads :
       \/ pc[th] \in {"again", "done", "answer"}
       \/ Holds(tasks[th], "playerSeek") \/ Holds(tasks[th], "seekDone")

\* As long as the page never seeks while the element seeks (pending_seek_ of the
\* element says so), the last position the player is told of is where the streams
\* are. One before it need not be: OnTimeChanged may end the element's seek too
\* early, and the next StartWaitingForSeek moves the streams while the seek under
\* way is answered. Then another answer is always on its way behind it.
AnswerTrue ==
  life = "alive" /\ ~wmp.pending =>
    \A i \in 1..Len(answers) :
      answers[i].time = answers[i].at \/ i < Len(answers) \/ UnderWay

\* And in the end player and streams are where the page wants them, reads are
\* accepted and the demuxer no longer aborts them.
SerialSeeks ==
  ~wmp.pending /\ Settled =>
    /\ seekTime = latest /\ demuxer.at = latest
    /\ ~isSeeking /\ ~demuxer.aborting

\* And each such seek does end, if the page provides the data it waits for.
SeekSettles == isSeeking ~> ~isSeeking \/ wmp.pending \/ life # "alive"

\* (violated) "Always one should seek to latest time and ignore previous seeks."
\* A CancelPendingSeek that comes between OnDemuxerSeekDone's test of pending_seek_
\* and its is_demuxer_seek_done_ = true finds no seek to repeat: the player is told
\* the earlier position and seeks there.
LatestWins == Settled => seekTime = latest
=============================================================================
