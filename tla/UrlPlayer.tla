----------------------------- MODULE UrlPlayer -----------------------------
(***************************************************************************)
(* A media element that plays a URL: WebMediaPlayerTizen in the renderer,  *)
(* MediaPlayerBridgeGstreamer (src/impl/media/base/tizen/                  *)
(* media_player_bridge_gstreamer.cc) on the UI thread of the browser, and  *)
(* its pipeline (external) with the thread that delivers its messages.     *)
(*                                                                         *)
(* The page's seek ends when the bridge changed that the time has changed. *)
(* It learns so from ASYNC_DONE, if is_seeking_ is set by then, or from    *)
(* the pipeline that plays again.                                          *)
(***************************************************************************)
EXTENDS Naturals, Sequences

CONSTANTS
  MaxUrlEvents  \* bound: seeks and commands of the page, and messages of the
                \* pipeline that stand for a fault, a missing plugin, the end
                \* of the media, or a buffer that is not full any more

ASSUME UrlPlayerAssumption == MaxUrlEvents \in Nat

Positions == {"start", "end"}   \* "end" is duration_
Rates == {0, 1}
Nowhere == "none"

VARIABLES
  element,   \* WebMediaPlayerTizen: seeking, seek_time_, pending_seek_time_ or
             \* Nowhere, and the position the page asked for last
  toBridge,  \* FIFO of commands on their way to the bridge
  changed,   \* number of TimeChanged messages on their way to the element
  bridge,    \* its members, named below
  life,      \* "alive", "releasing", "released" or "deleted"
  accepted,  \* where the pipeline seeks to, before Seek notes it
  urlTasks,  \* FIFO of the tasks the bridge posts to the UI thread
  pipe,      \* state, target, async (not prerolled), thread, installing
  events     \* such events so far

urlVars == <<element, toBridge, changed, bridge, life, accepted, urlTasks,
             pipe, events>>
----------------------------------------------------------------------------
Command == [op : {"play", "pause", "destroy"}]
           \cup [op : {"rate"}, r : Rates]
           \cup [op : {"seek"}, p : Positions]

\* The page may have called play.
UrlInit ==
  /\ element = [seeking |-> FALSE, time |-> "start", pending |-> Nowhere,
                asked |-> "start"]
  /\ toBridge \in {<<>>, <<[op |-> "play"]>>}
  /\ changed = 0 /\ life = "alive"
  /\ \E file \in BOOLEAN :
       bridge = [paused |-> TRUE, seeking |-> FALSE, ended |-> FALSE,
                 error |-> FALSE, rate |-> 1, full |-> FALSE, file |-> file]
  /\ accepted = Nowhere /\ urlTasks = <<>>
  /\ pipe = [state |-> "ready", target |-> "ready", async |-> FALSE,
             thread |-> "idle", installing |-> FALSE]
  /\ events = 0

UrlTypeOK ==
  /\ element \in [seeking : BOOLEAN, time : Positions,
                  pending : Positions \cup {Nowhere}, asked : Positions]
  /\ toBridge \in Seq(Command) /\ changed \in Nat
  /\ bridge \in [paused : BOOLEAN, seeking : BOOLEAN, ended : BOOLEAN,
                 error : BOOLEAN, rate : Rates, full : BOOLEAN, file : BOOLEAN]
  /\ life \in {"alive", "releasing", "released", "deleted"}
  /\ accepted \in Positions \cup {Nowhere}
  /\ urlTasks \in Seq({"states", "timeChanged", "complete", "delete"})
  /\ pipe \in [state : {"ready", "paused", "playing", "failed"},
               target : {"ready", "paused", "playing"}, async : BOOLEAN,
               thread : {"idle", "asyncDone", "clear", "error"},
               installing : BOOLEAN]
  /\ events \in 0..MaxUrlEvents

\* A repeated OnUpdateStates in the loop is one: it reads what is then so.
WithTask(q, t) ==
  IF t = "states" /\ \E i \in 1..Len(q) : q[i] = t THEN q ELSE Append(q, t)
PostTask(t) == urlTasks' = WithTask(urlTasks, t)
Event == events < MaxUrlEvents /\ events' = events + 1
----------------------------------------------------------------------------
(***************************************************************************)
(* The element. A seek during another one is kept; the same one again      *)
(* takes back what was kept.                                               *)
(***************************************************************************)
SendCommand(c) == toBridge' = Append(toBridge, c)

StartSeek(p) == SendCommand([op |-> "seek", p |-> p])

ElementSeek(p) ==
  /\ life = "alive" /\ Event
  /\ \/ /\ ~element.seeking /\ StartSeek(p)
        /\ element' = [seeking |-> TRUE, time |-> p, pending |-> Nowhere,
                       asked |-> p]
     \/ /\ element.seeking /\ UNCHANGED toBridge
        /\ element' = [element EXCEPT !.asked = p,
                          !.pending = IF p = element.time THEN Nowhere ELSE p]
  /\ UNCHANGED <<changed, bridge, life, accepted, urlTasks, pipe>>

\* (mutant) it seeks whether or not one is pending
ElementOnTimeChangedBlind ==
  /\ changed > 0 /\ changed' = changed - 1
  /\ StartSeek(element.pending)
  /\ element' = [element EXCEPT !.seeking = TRUE, !.pending = Nowhere,
                                !.time = element.pending]
  /\ UNCHANGED <<bridge, life, accepted, urlTasks, pipe, events>>

\* A pending seek is started, or the element's seek is over.
ElementOnTimeChanged ==
  /\ changed > 0 /\ changed' = changed - 1
  /\ \/ /\ element.pending = Nowhere /\ UNCHANGED toBridge
        /\ element' = [element EXCEPT !.seeking = FALSE]
     \/ /\ element.pending # Nowhere /\ StartSeek(element.pending)
        /\ element' = [element EXCEPT !.seeking = TRUE, !.pending = Nowhere,
                                      !.time = element.pending]
  /\ UNCHANGED <<bridge, life, accepted, urlTasks, pipe, events>>

ElementCommand(c) ==
  /\ life = "alive" /\ Event /\ SendCommand(c)
  /\ UNCHANGED <<element, changed, bridge, life, accepted, urlTasks, pipe>>
----------------------------------------------------------------------------
(***************************************************************************)
(* What the bridge does to the pipeline. Between paused and playing the    *)
(* change is immediate and reported at once; a pipeline that has to        *)
(* preroll changes later.                                                  *)
(***************************************************************************)
StateSet(q, s) ==
  IF q.async \/ q.state = "ready" THEN [q EXCEPT !.target = s, !.async = TRUE]
  ELSE [q EXCEPT !.target = s, !.state = s]

SetState(s) ==
  /\ pipe' = StateSet(pipe, s)
  /\ IF pipe'.state # pipe.state THEN PostTask("states")
     ELSE UNCHANGED urlTasks

\* A flushing seek: what was prerolled is lost.
Flush ==
  /\ pipe.state \in {"paused", "playing"}
  /\ pipe' = [pipe EXCEPT !.state = "paused", !.async = TRUE]
  /\ PostTask("states")

HandleError == bridge' = [bridge EXCEPT !.error = TRUE]

\* The UI thread is free, and the manager still knows the player.
Idle == accepted = Nowhere /\ life # "releasing"
ReceiveCommand(op) ==
  /\ Idle /\ life = "alive" /\ toBridge # <<>> /\ Head(toBridge).op = op
  /\ toBridge' = Tail(toBridge)

DoPause ==
  IF pipe.state = "failed" THEN UNCHANGED <<bridge, pipe, urlTasks>>
  ELSE SetState("paused") /\ bridge' = [bridge EXCEPT !.paused = TRUE]

PlayUrl ==
  /\ ReceiveCommand("play")
  /\ \/ /\ bridge.error \/ bridge.ended
        /\ UNCHANGED <<bridge, pipe, urlTasks>>
     \/ /\ ~bridge.error /\ ~bridge.ended /\ bridge.rate = 0
        /\ bridge' = [bridge EXCEPT !.paused = FALSE]
        /\ UNCHANGED <<pipe, urlTasks>>
     \/ /\ ~bridge.error /\ ~bridge.ended /\ bridge.rate # 0
        /\ IF pipe.state = "failed" THEN UNCHANGED <<bridge, pipe, urlTasks>>
           ELSE /\ SetState("playing")
                /\ bridge' = [bridge EXCEPT !.paused = FALSE]
  /\ UNCHANGED <<element, changed, life, accepted, events>>

PauseUrl ==
  /\ ReceiveCommand("pause")
  /\ IF bridge.error THEN UNCHANGED <<bridge, pipe, urlTasks>> ELSE DoPause
  /\ UNCHANGED <<element, changed, life, accepted, events>>

\* Rates are set by a flushing seek, to where playback is.
MayRate(r) ==
  /\ ~bridge.error /\ bridge.rate # r
  /\ pipe.state \in {"paused", "playing"}
  /\ ~(pipe.async /\ pipe.target = "paused")

SetRate ==
  /\ ReceiveCommand("rate")
  /\ LET r == Head(toBridge).r IN
     \/ ~MayRate(r) /\ UNCHANGED <<bridge, pipe, urlTasks>>
     \/ /\ MayRate(r) /\ r = 0
        /\ SetState("paused")
        /\ bridge' = [bridge EXCEPT !.rate = 0, !.paused = TRUE]
     \/ /\ MayRate(r) /\ r # 0
        /\ LET resumed == bridge.rate = 0 /\ ~bridge.ended
               paused == bridge.paused /\ ~resumed IN
           \/ /\ Flush
              /\ bridge' = [bridge EXCEPT !.rate = r, !.paused = paused]
           \/ /\ bridge' = [bridge EXCEPT !.error = TRUE, !.paused = paused]
              /\ UNCHANGED <<pipe, urlTasks>>
  /\ UNCHANGED <<element, changed, life, accepted, events>>

\* Seek, up to the seek of the pipeline. With an error, or where playback is
\* already, a task answers; a failed pipeline is given no answer.
Seek ==
  /\ ReceiveCommand("seek")
  /\ \/ /\ PostTask("timeChanged")
        /\ UNCHANGED <<changed, accepted, pipe>>
     \/ /\ ~bridge.error /\ pipe.state = "failed"
        /\ UNCHANGED <<changed, accepted, pipe, urlTasks>>
     \/ /\ ~bridge.error /\ pipe.state # "failed" /\ changed' = changed + 1
        /\ UNCHANGED <<accepted, pipe, urlTasks>>
     \/ /\ ~bridge.error /\ Flush /\ accepted' = Head(toBridge).p
        /\ UNCHANGED changed
  /\ UNCHANGED <<element, bridge, life, events>>

\* The rest of Seek, after the pipeline has begun.
SeekAccepted ==
  /\ accepted # Nowhere /\ accepted' = Nowhere
  /\ bridge' = [bridge EXCEPT !.seeking = TRUE, !.ended = (accepted = "end")]
  /\ UNCHANGED <<element, toBridge, changed, life, urlTasks, pipe, events>>

\* The pipeline's threads have ended when it has no state any more.
Destroy ==
  /\ ReceiveCommand("destroy") /\ life' = "releasing"
  /\ UNCHANGED <<element, changed, bridge, accepted, urlTasks, pipe, events>>

Release ==
  /\ life = "releasing" /\ pipe.thread = "idle" /\ life' = "released"
  /\ PostTask("delete")
  /\ UNCHANGED <<element, toBridge, changed, bridge, accepted, pipe, events>>
----------------------------------------------------------------------------
(***************************************************************************)
(* Tasks of the UI thread.                                                 *)
(***************************************************************************)
Runs(t) == Idle /\ urlTasks # <<>> /\ Head(urlTasks) = t

Enough == bridge.full \/ bridge.file

\* A pipeline that plays ends the seek too.
\* (mutant) it does not
PlaysAgainBlind(q) == urlTasks' = q /\ UNCHANGED bridge

PlaysAgain(q) ==
  /\ bridge' = [bridge EXCEPT !.seeking = FALSE]
  /\ urlTasks' = IF bridge.seeking THEN Append(q, "timeChanged") ELSE q

UpdateStates ==
  LET q == Tail(urlTasks) IN
  \/ /\ life # "alive" \/ bridge.error
     /\ urlTasks' = q /\ UNCHANGED <<bridge, pipe>>
  \/ /\ life = "alive" /\ ~bridge.error /\ pipe.state = "failed"
     /\ HandleError /\ urlTasks' = q /\ UNCHANGED pipe
  \/ /\ life = "alive" /\ ~bridge.error
     /\ pipe.async \/ pipe.state = "ready"
     /\ urlTasks' = q /\ UNCHANGED <<bridge, pipe>>
  \/ /\ life = "alive" /\ ~bridge.error /\ ~pipe.async
     /\ \/ /\ pipe.state = "paused" /\ Enough /\ ~bridge.paused
           /\ pipe' = StateSet(pipe, "playing")
           /\ urlTasks' = WithTask(q, "states") /\ UNCHANGED bridge
        \/ /\ pipe.state = "paused" /\ (~Enough \/ bridge.paused)
           /\ urlTasks' = q /\ UNCHANGED <<bridge, pipe>>
        \/ /\ pipe.state = "playing" /\ Enough
           /\ PlaysAgain(q) /\ UNCHANGED pipe
        \/ /\ pipe.state = "playing" /\ ~Enough
           /\ pipe' = StateSet(pipe, "paused")
           /\ urlTasks' = WithTask(q, "states") /\ UNCHANGED bridge

OnUpdateStates ==
  /\ Runs("states") /\ UpdateStates
  /\ UNCHANGED <<element, toBridge, changed, life, accepted, events>>

OnTimeChanged ==
  /\ Runs("timeChanged") /\ urlTasks' = Tail(urlTasks)
  /\ changed' = changed + 1
  /\ UNCHANGED <<element, toBridge, bridge, life, accepted, pipe, events>>

OnPlaybackComplete ==
  /\ Runs("complete") /\ urlTasks' = Tail(urlTasks)
  /\ changed' = changed + 1
  /\ bridge' = [bridge EXCEPT !.ended = TRUE]
  /\ UNCHANGED <<element, toBridge, life, accepted, pipe, events>>

DeleteBridge ==
  /\ Runs("delete") /\ life' = "deleted" /\ urlTasks' = Tail(urlTasks)
  /\ UNCHANGED <<element, toBridge, changed, bridge, accepted, pipe, events>>

\* The installer's result, for an object that may have been deleted: what
\* happens then is undefined, and not modelled.
HandlePluginInstallerResult ==
  /\ Idle /\ life # "deleted" /\ pipe.installing
  /\ \/ /\ pipe' = IF life = "alive"
                   THEN [pipe EXCEPT !.installing = FALSE, !.state = "ready",
                                     !.target = "paused", !.async = TRUE]
                   ELSE [pipe EXCEPT !.installing = FALSE]
        /\ UNCHANGED bridge
     \/ pipe' = [pipe EXCEPT !.installing = FALSE] /\ HandleError
  /\ UNCHANGED <<element, toBridge, changed, life, accepted, urlTasks, events>>
----------------------------------------------------------------------------
(***************************************************************************)
(* The pipeline. HandleMessage handles its messages where they occur,      *)
(* unless the bridge is being destroyed.                                   *)
(***************************************************************************)
Piped == life \in {"alive", "releasing"} /\ pipe.thread = "idle"
PostMessage(t) == IF life = "alive" THEN PostTask(t) ELSE UNCHANGED urlTasks

Preroll ==
  /\ Piped /\ pipe.async /\ pipe.state # "failed"
  /\ pipe' = [pipe EXCEPT !.async = FALSE, !.state = "paused",
                !.thread = IF life = "alive" THEN "asyncDone" ELSE "idle"]
  /\ PostMessage("states")
  /\ UNCHANGED <<element, toBridge, changed, bridge, life, accepted, events>>

\* ASYNC_DONE: the test of is_seeking_, and what follows it.
AsyncDone ==
  /\ pipe.thread = "asyncDone"
  /\ pipe' = [pipe EXCEPT !.thread = IF bridge.seeking THEN "clear"
                                     ELSE "idle"]
  /\ UNCHANGED <<element, toBridge, changed, bridge, life, accepted, urlTasks,
                 events>>

AsyncDoneEndsSeek ==
  /\ pipe.thread = "clear" /\ pipe' = [pipe EXCEPT !.thread = "idle"]
  /\ bridge' = [bridge EXCEPT !.seeking = FALSE] /\ PostTask("timeChanged")
  /\ UNCHANGED <<element, toBridge, changed, life, accepted, events>>

Continue ==
  /\ Piped /\ ~pipe.async /\ pipe.state = "paused" /\ pipe.target = "playing"
  /\ pipe' = [pipe EXCEPT !.state = "playing"] /\ PostMessage("states")
  /\ UNCHANGED <<element, toBridge, changed, bridge, life, accepted, events>>

EndOfStream ==
  /\ Piped /\ ~pipe.async /\ pipe.state = "playing" /\ Event
  /\ PostMessage("complete")
  /\ UNCHANGED <<element, toBridge, changed, bridge, life, accepted, pipe>>

\* ProcessBufferingStats; the network always fills the buffer again.
Buffering ==
  /\ Piped /\ ~bridge.file /\ pipe.state \in {"paused", "playing"}
  /\ \/ bridge.full /\ Event
     \/ ~bridge.full /\ UNCHANGED events
  /\ IF life = "alive"
     THEN bridge' = [bridge EXCEPT !.full = ~@] /\ PostTask("states")
     ELSE UNCHANGED <<bridge, urlTasks>>
  /\ UNCHANGED <<element, toBridge, changed, life, accepted, pipe>>

MissingPlugin ==
  /\ Piped /\ life = "alive" /\ pipe.async /\ Event
  /\ pipe' = [pipe EXCEPT !.installing = TRUE]
  /\ UNCHANGED <<element, toBridge, changed, bridge, life, accepted, urlTasks>>

Failure ==
  /\ Piped /\ pipe.state # "failed" /\ Event
  /\ pipe' = [pipe EXCEPT !.state = "failed", !.async = FALSE,
                !.thread = IF life = "alive" THEN "error" ELSE "idle"]
  /\ UNCHANGED <<element, toBridge, changed, bridge, life, accepted, urlTasks>>

\* While plugins are installed an error is not one yet.
ErrorMessage ==
  /\ pipe.thread = "error" /\ pipe' = [pipe EXCEPT !.thread = "idle"]
  /\ IF pipe.installing THEN UNCHANGED bridge ELSE HandleError
  /\ UNCHANGED <<element, toBridge, changed, life, accepted, urlTasks, events>>
----------------------------------------------------------------------------
UrlTask ==
  \/ PlayUrl \/ PauseUrl \/ SetRate \/ Seek \/ SeekAccepted
  \/ Destroy \/ Release \/ OnUpdateStates \/ OnTimeChanged
  \/ OnPlaybackComplete \/ DeleteBridge

PipelineStep == Preroll \/ AsyncDone \/ AsyncDoneEndsSeek \/ Continue
                \/ ErrorMessage

UrlNext ==
  \/ UrlTask \/ PipelineStep \/ HandlePluginInstallerResult
  \/ ElementOnTimeChanged \/ Buffering
  \/ EndOfStream \/ MissingPlugin \/ Failure
  \/ \E p \in Positions : ElementSeek(p)
  \/ \E c \in {d \in Command : d.op # "seek"} : ElementCommand(c)

\* The threads run, the network fills the buffer.
UrlFairness ==
  /\ WF_urlVars(UrlTask) /\ WF_urlVars(PipelineStep)
  /\ WF_urlVars(ElementOnTimeChanged)
  /\ WF_urlVars(Buffering /\ ~bridge.full)

UrlSpec == UrlInit /\ [][UrlNext]_urlVars /\ UrlFairness
----------------------------------------------------------------------------
(***************************************************************************)
(* A seek of the page, whatever it asks for meanwhile, ends at the         *)
(* position it asked for last, as long as it lets the media play: also     *)
(* when ASYNC_DONE was handled before Seek had noted the seek. Not so if   *)
(* the pipeline fails: a seek that finds it so is never answered.          *)
(***************************************************************************)
Sound == pipe.state # "failed" /\ ~bridge.error
Held == bridge.paused \/ bridge.rate = 0 \/ life # "alive"
Arrived == ~element.seeking /\ element.time = element.asked

SeekArrives == []Sound => (element.seeking ~> (Arrived \/ Held))
=============================================================================
