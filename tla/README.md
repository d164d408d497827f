# chromium-efl: models and proofs of its asynchronous core

chromium-efl embeds Chromium's content layer in EFL applications on Tizen. Most
of its own logic is glue that crosses threads and processes: an object of the
browser answers the renderer, a platform library calls back on threads of its
own, an application decides something now or later. This directory models the
parts where that crossing decides whether the program is correct, checks the
models with TLC and proves what it can with TLAPS.

    tlc -workers 2 -config player_feed.cfg MediaSourcePlayer.tla
    tlapm MediaSourcePlayer_proofs.tla

`PROJECT.json` maps every definition to the source lines it stands for, lists
the runs, the seeded bugs that show that each property can fail, and the
hazards of the code, each at its line.

## 1. The system

Processes: the *browser* (UI, IO, database and file threads), one or more
*renderers* (main and media thread) and a *GPU* process. The browser links the
application: `ewk` (C API) over `tizen_webview` (C++ API) over `src/impl`.

### Components with a protocol of their own

| Component | State | Operations | Talks to | What is hard | What makes it correct |
|---|---|---|---|---|---|
| Media Source player (`media_source_player_gstreamer`) | pipeline, `should_feed_*_`, `*_buffer_queue_`, `playing_`, `play_rate_`, `is_paused_due_underflow_`, `is_seeking_`, `is_demuxer_seeking_`, `is_seeking_iframe_`, `error_occured_`, `destructing_` | commands of the page, data and seek answers of the renderer, GStreamer callbacks, tasks it posts to itself | renderer (IPC), GStreamer threads, manager | callbacks without a lock, tasks with raw pointers, data against seeks | order and completeness of the data, no lost request, playback resumes, no use after deletion |
| Media player manager (`browser_media_player_manager_tizen`) | `players_` | create, look up, forward, destroy, notify | players, renderer | its own destruction | players do not use it afterwards |
| Media Source delegate (`media_source_delegate_tizen`, `renderer_demuxer_tizen`) | seek and read flags, streams, life | seek, read, initialise, destroy | ChunkDemuxer, player, element | flags of two threads without a lock | one read per stream, the latest seek wins, deletion comes last |
| Element's player (`webmediaplayer_tizen`) | `is_seeking_`, `seek_time_`, `pending_seek_` | seek, notifications | delegate, manager | notifications of an earlier seek | a seek ends where the page asked |
| Policy decisions (`policy_response_delegate_efl`, `resource_throttle_efl`, `ewk_policy_decision_private`, `navigation_policy_handler_efl`) | throttle pointer, decided, suspended, owner | ask, use, ignore, download, suspend, cancel | IO thread's request, UI thread's application | answers and cancellation cross, late and repeated decisions | first answer, once, for ever |
| Authentication (`login_delegate_efl`) | `request_`, one challenge per view | proceed, cancel, request cancelled | IO and UI thread | the same crossing | one answer, and always one |
| Permission requests (geolocation, user media, notification, certificate) | decided, suspended, `requests_queue_` | ask, decide, suspend | application, renderer | default answers against suspended ones; who frees the object | the first decision is the answer, the object is freed once |
| JavaScript dialogs | current dialog, closed callback | run, reply, close, cancel | application, popups | a second dialog, an application that answers twice | a waiting page can be answered |
| Browsing data remover | cache state machine, counters, waiting flags | clear cache, remove data, callbacks | UI and IO thread, storage services | self-deletion, synchronous answers | deleted once, after the last callback |
| Cookie manager | callback queue, policy | list, delete, block for a value | UI and IO thread, cookie store | blocking wait, matching by order, a policy that changes during a check | every caller gets its own answer, without what it deleted |
| URL players (`media_player_bridge_gstreamer`, `_capi`) | `is_paused_`, `is_seeking_`, `is_end_reached_`, `error_occured_`, `playback_rate_`, `buffered_` | commands of the page, GStreamer messages, tasks it posts to itself | element, GStreamer, C API | the seek is noted after it began; state updates posted and late | a seek of the page ends, where it asked last |
| Hardware video codecs (`tizen_video_decode_accelerator`, `tizen_video_encode_accelerator`) | phase, `can_feed_`, `enable_framedrop_`, `encoder_output_queue_` | decode, encode, use a buffer, destroy | client, codec thread, GStreamer | buffers with one of four owners; a frame without an output buffer | every buffer comes back; every frame can be decoded |
| Password form manager, favicon service | pending forms; downloads, commands | save, answer; fetch, store | application; database thread | late answers | nothing is lost or saved twice |
| Input method (`im_context_efl`, `render_widget_host_view_efl`) | `commit_queue_`, `preedit_queue_`, `keyupev_queue_`, `keydownev_queue_`, `is_modifier_key_` | keys, texts, cancel, the page's answer to a key | IMF, Evas, page | texts, presses and releases wait for answers to other keys | a key is pressed before it is released, and released |
| View, selection | focus, handles, magnifier | events, renderer updates | Evas, renderer | updates of an older state | the two sides agree |
| Message pump | timers, nesting | schedule, run, quit | Ecore | nested loops | scheduled work runs |

### The rest

Presentation (pickers, popups, context menu, snapshots, theme, motion),
configuration (content clients, command line, paths), conversions (events,
cursors), platform services (audio, capture, sensors, vibration, battery,
location), the two API layers, the sample application, tests and build files
hold little state of their own; `PROJECT.json` lists each of them with the
reason why it is not modelled. Text to speech is one of them: no build file names it,
nothing creates its message filter (content_browser_client_efl.cc:231) and the renderer
is given no dispatcher (content_renderer_client_efl.cc:235).

## 2. Modules

### MediaSourcePlayer

One player as run by the manager and fed by `BrowserDemuxerTizen`.

* *UI thread.* `loop` is its message loop: messages of the renderer
  (`cmd*`, `configs`, `data`, `aborted`, `endOfStream`, `seekDone`) and the tasks
  the player posts with `base::Unretained` (`read`, `play`, `seekFalse`,
  `timeChanged`, `buffering`, `complete`, `states`, `delete`). Each handler is one
  action named after it. Only `Destroy` is two, `BeginDestroy` and
  `FinishDestroy`, because it blocks in `gst_element_set_state(NULL)` until the
  streaming threads have left their callbacks.
* *Streaming threads.* A callback tests `IsPlayerDestructing()` (`Enter...`) and
  runs its body later (`NeedData`, `AsyncDone`, `Buffering`, `PostFromMessage`,
  `PipelineError`): the UI thread may come between.
* *State.* `ctl` holds the members that control playback, `feed[t]` those of one
  stream: `should_feed_*_`, the saved buffers, and the external appsrc (what was
  pushed since the last flush, how much of it is queued, whether it waits for
  data, whether it got the end of the stream). A buffer is its segment and number.
* *Renderer.* `reads`, `seekReqs`, `rSeeking`, `wmpSeeking` abstract the delegate
  to what the player can tell: it answers a read with data, aborts it or ignores
  it, and answers seeks in order.

`Enter` allows a callback that passed its test before a flushing seek to run
after it; GStreamer excludes some of these overlaps, so the model allows more
than the program does. `seekOffset[t]` is how many buffers of a stream the demuxer
gives before the position of the seek, at most `MaxEarly`. `NoGap` begins behind them.
`FeedPending` is claimed of video, and of audio with none of them: audio before the
seek position is dropped without a new request
(media_source_player_gstreamer.cc:922), and its appsrc then waits.

### MediaSourceDelegate

The renderer's half with the element. Both threads have a FIFO of tasks. A
handler that tests a flag the other thread writes is split there: `SeekAgain` /
`CancelPendingSeek` on the main thread, `OnDemuxerSeekDone` / `SeekPending` or
`AllowReads` / `AnswerSeek` on the thread its callback was posted to. ChunkDemuxer
is Chromium's and not part of this repository; it is modelled by its contract as
used here (`DemuxerSeek`, `Waiting`, `DemuxerCancel`: under its own lock, answers
posted to the caller's thread, a cancel without a seek cancels the next one). It is told
the position three times: before a seek, by a cancel and by the seek itself, and each
moves its streams at once (`demuxer.at`). So an answer to the player can name a position
the streams have left (`answers` records both), and `AnswerTrue` claims only that another
seek or answer follows then. The player is reduced to what it sends: it passes seeks on
in order and reports the end of its own.

### PolicyDecision

Responses are deferred on the IO thread (`WillProcessResponse`), decided on the
UI thread (`HandlePolicyResponse` .. `ResponseAsked`), and answered back on the IO
thread (`AnswerOnIOThread`), while the request may end (`ThrottleDestroyed`).
Navigations and windows are decided synchronously. `owner` says who owns the
decision object: the delegate, the view (one at a time), or nobody any more. The
application may act on a decision inside its callback or later, as long as the
object exists; calls on freed objects are undefined and not modelled, and neither
are nested main loops inside the callback.

### BrowsingDataRemover and Removal

One remover, as `EWebContext` creates it for one request, on the UI and the IO
thread. `DoClearCache` is a loop over `cacheState`: while `clearing` is "running" the
IO thread does nothing else, and each call to a cache is answered at once or
later (`CreateBackend` / `BackendReady`, `DoomEntries` / `Doomed`). Quota managed data
are listed for three types (`asked`) and deleted origin by origin (`deleting`); an
origin may be answered inside the call. `typesLeft` and `originsLeft` are the code's
counters. `Removed` lets every service fail. `data` is what is stored and `failed`
what could not be removed, so that the model can say what the request achieved. Local storage
is different: once the usage is known, a deletion is posted for each origin
(`localDeletes`), the flag is cleared at once, and the deletions (`DeleteLocalStorage`)
report to nobody; they may come after the remover's own, or never.
The range of times is unbounded, as in every call of the program; data that a page
stores while it is being removed are not modelled. `Masks` may combine what
`RemoveImpl` accepts, except application caches with anything that deletes the
remover: nothing waits for them, as the code says itself
(browsing_data_remover_efl.cc:248), and a remover asked for them alone is never
deleted.

`Removal` is what the remover promises whatever its threads do: asked once, it removes,
gives up or hands on what it was asked for, leaves the rest alone, and is gone only
when nothing is left. What it hands on (`handed`) is the work of a service that does not
report, which may still be done later. `ImplementsRemoval` maps it: `left` is the selected
data neither removed, failed nor handed on, `handed` the local storage in
`localDeletes`, `kept` the rest.

### ViewQuestions

Five kinds of question, one life cycle: a handler on the UI thread (`Ask...`, from
`ui`) creates the object and runs the application's callback (`asking`), the
application decides, suspends or does neither, inside the callback or later
(`Decide...`, `Suspend`), and the callback returns (`...Returns`), where each kind has
its own rule for an undecided object: refuse, cancel, forget, or wait. `holder` is
who frees the object: the frame of the handler, the view (one authentication
challenge at a time), or the application through a posted deletion. Proceeding and
cancelling an authentication cross to the IO thread (`io`), where the request may
be gone. User media answers go to the front of `requests_queue_`, whichever
request was decided; that two requests may thus exchange their answers is what
`questions_media` shows (`MediaOwnAnswer`). `answers[q]` is all the requester of `q` heard.
`OneAnswer` claims no more than the code keeps: a geolocation request decided inside its callback is
refused once more when the callback returns.

### JavaScriptDialogs

The page of a dialog waits in a synchronous call. The manager keeps one closed
callback (`closed`) and one popup object (`popup`), but the popups of earlier dialogs
may still be on the screen (`window`) with a pointer to the object that made them,
which is why a click can use a freed object (`dialogsAborted`). `owed` is what the
application took and has not replied to; a reply answers the dialog opened last.

### CookieManager and CookiePolicy

`CookieManager` has the calls of the UI thread, their tasks on the IO thread
(`cookieTasks`) and the cookie store, which is Chromium's and modelled by how it is
used: it keeps the order of deletions and listings, holds them back (`held`) until it has
loaded its file, and answers about a host as soon as that host is loaded. A new
storage path brings a new store while the old one completes what it holds, so two
listings may answer in another order than they were asked; callbacks are taken from
the front of `callbacks`.

A cookie belongs to a host and is sent to that host alone or to its domain. A deletion
selects cookies (`Selected`): all of them for an empty URL, the host cookies for a URL,
and for what is no valid URL the task returns (`DeleteNothing`). The bare host name
that ewk_cookie_manager.h:134-140 asks for is of this last kind, and domain cookies stay in
any case; a listing has the names of cookies (cookie_manager.cc:62), though its callback is
documented to get host names. `OwnListing` therefore speaks of the cookies a deletion selects.

`CookiePolicy` is the accept policy, which any thread reads twice in one check
(`GetGlobalAllowAccess`, `ShouldBlockThirdPartyCookies`) while the application sets it.
`PolicyInForce` is about cookies that are let through. A first-party cookie may be refused
between two policies that both allow it; that is not claimed otherwise.

### VideoDecoder and VideoEncoder

Each has the client's thread, the codec's own thread (`tasks`, `encTasks`) and the
pipeline, which is GStreamer's. The decoder posts the start of its pipeline to its
thread before it stores the pipeline (`InitializeDecoder`, `PipelineSet`), so that `StartDecoder`
may find none, and nobody looks whether the change of state succeeds; such a decoder never
plays, and its appsrc refuses every buffer. `bufferAt` follows an input buffer of the decoder
from the client through the task and the pipeline to the report that it may be
used again. The encoder numbers its frames in the order the pipeline encoded them;
a frame is `delivered`, `lost` with its buffer, or dropped because there was no output
buffer, and from then on `drop` holds until a key frame comes.

### UrlPlayer

A media element that plays a URL: the element (`element`, in the renderer), the
bridge (`bridge`, UI thread, with the tasks it posts to itself in `urlTasks`) and the
pipeline (`pipe`) with the thread that delivers its messages. `Seek` is two steps,
because the pipeline's thread may handle the end of the seek before `Seek` has set
`is_seeking_`; so is ASYNC_DONE, between its test and what follows. Changes between
paused and playing are immediate, a flushing seek makes the pipeline preroll again
(`async`). Equal posted `OnUpdateStates` are one entry of `urlTasks`: the handler
reads the state when it runs and does nothing the second time. An installer's
result for a player that is deleted already is undefined and not modelled.

### InputMethod

The keys of one view. The input method looks at every key and may commit or compose
text meanwhile (`HandleKeyDown`, with two `Says`), or speak on its own, when the page gets
a fake key (`OnText`). `queues` is everything that waits for the page, and what it was
sent: the texts by batches (an empty text ends one), the releases (`keyUps`), the
presses held back (`keyDowns`), the presses without an answer. `Round` is the work of one
answer. Keys are numbered. Their codes and the texts are not told apart, and so it is not
seen that a release passes its code through a `char`
(render_widget_host_view_efl.cc:1693, 1711). The page
answers in order (Chromium's `RenderWidgetHostImpl`); a view without an input method has
no queues. The panel and the text around the cursor are not modelled.

`KeysComeUp` is the promise that no key stays down, with the code's two exceptions. The
releases that `ClearQueues` drops, when a composition is cancelled, are never sent
(`lost`). And a press may be held back when no answer is to come: with Shift held, the
first letter is answered after Shift and pays for it; the second, if it composes text,
is taken for a modifier again, its answer sends nothing
(render_widget_host_view_efl.cc:1275), and the third is held back behind a composition
and a release that wait for an answer. Nothing moves until Return, a change of focus or
the input method clears or feeds the queues, and the key is down meanwhile. This is the
one state, with `isModifier` set, in which the property asks nothing of what waits. No
property claims that a text is committed: behind an empty composition it waits for the
answer to the next key, because an empty text ends the first batch.

### WebViewServices and ContextServices

The hosts of the smaller modules for TLC: eight services of a view in the first, the
policy decisions and the browsing data remover in the second. They share no variable and
no message, so an interleaving of two of them shows nothing that each alone does not:
`working` picks the one that moves, and `TypeOK` and the fairness are those of the
modules.

## 3. Runs

All runs turn deadlock checking off: every one of these systems stops when its
object is deleted, its view is closed or its bounds are used up.

| Run | Shows | Bounds, and why they suffice |
|---|---|---|
| `player_feed` | data in order, no gap, one segment, no lost need-data | one video stream, appsrc of one buffer, four buffers and two reads per segment, two seeks, up to two early buffers (`MaxEarly`): enough for a saved buffer, a full appsrc, an answer from before a seek, and early data |
| `player_control` | underflow ends with Play; the first seek resumes playback | one stream, rates 0 and 1, three commands, three items in the loop: play, pause and rate changes around one seek with buffering messages |
| `player_lifetime` | nothing uses a deleted player; it is deleted | two streaming threads, errors and state messages, one seek |
| `player_pause` | a posted Play overrides the page's pause (violated) | |
| `player_eos` | saved buffers behind the end of the stream (violated) | |
| `player_manager` | tasks outlive the manager (violated) | |
| `delegate_seek` | reads, answers, serial seeks, deletion | two positions, two seeks, two reads, one end of playback: an overlapping seek and one over an unfinished one |
| `delegate_latest` | the second of two seeks is never repeated, and the player is told the first position (violated) | |
| `policy_suspend` | a suspended decision is freed (violated) | |
| `context_services` | of the decisions: valid throttle, first answer, once, no response waits for ever; of the remover: flags and counters mean work, deletion comes last and comes, the abstract `Removal` is implemented | two responses so that one replaces the other in the view, a navigation, a window, three calls: decide twice, or suspend and decide; two origins, every set of stored data (both caches hold some), every kind of request alone, and local storage with quota managed data so that two chains end in either order |
| `web_view_services` | first decision answers, objects freed once, questions settle (`ViewQuestions`); waiting pages can be answered (`JavaScriptDialogs`); own listing without deleted cookies, calls end (`CookieManager`); policy in force (`CookiePolicy`); buffers return (`VideoDecoder`); frames can be decoded (`VideoEncoder`); seeks arrive (`UrlPlayer`); a press comes before its release, and keys come up (`InputMethod`) | two questions of any kinds, two decisions each: decide twice, suspend and decide, a second challenge over the first; three dialogs: two popups behind the last; one host with both kinds of cookies, two listings, one change of path, two other calls of which the first may delete; two checks and four changes of policy, so that it changes between the reads and back; two input buffers; one output buffer and two frames, so that a frame is dropped; three seeks, commands or faults after the page has called play: a seek kept behind another, or a pause and a buffer that runs empty around one; three keys, so that two are held back behind one |
| `questions_media` | two user media requests get each other's answers (violated) | |

The violated properties quote a comment or a documented promise; `PROJECT.json`
("findings") has the quotations and the schedules.

### Fairness

* `MediaSourcePlayer!Fairness`: the UI thread serves its loop, and a callback that
  has begun ends; no callback of this code waits for anything. Nothing is assumed
  of the renderer or the page.
* `MediaSourceDelegate!Fairness`: both threads serve their loops; the player passes
  seeks on; the page provides the data ChunkDemuxer waits for (without it a seek
  of a Media Source element is meant to hang).
* `PolicyDecision!DecisionsFairness`: UI and IO thread serve their loops and the
  application's callbacks return. The application need not decide.
* `BrowsingDataRemover!RemoverFairness`: both threads serve their queues and the storage
  services answer, at least with a failure. No fairness for application caches and the
  deletions of local storage, on which nothing waits.
* `ViewQuestions!QuestionsFairness`: both threads run their tasks, the application's
  callbacks return, and a question the application keeps by suspending it is decided
  in the end. `Settles` names what the code leaves without an answer (`Unanswered`): among
  others an authentication whose request is gone.
* `CookieManager!CookiesFairness`: the tasks run, and a store loads its file and then
  works on what it held back.
* `VideoDecoder!DecoderFairness`: the threads run, and a pipeline that plays consumes
  each buffer it was given. `BuffersReturn` excuses what a broken pipeline holds and a
  push that is refused, which frees its buffer twice.
* `UrlPlayer!UrlFairness`: UI thread, renderer and pipeline run, and the network
  fills the buffer again. `SeekArrives` is claimed of pipelines that do not fail:
  a failed pipeline leaves a seek unanswered (media_player_bridge_gstreamer.cc:406).

## 4. Proofs

| Theorem | States | Argument |
|---|---|---|
| `MediaSourcePlayer_proofs!TypeCorrect` | `[]TypeOK` | one step per action, with typing lemmas for the operators on control state and feeds |
| `MediaSourcePlayer_proofs!NoTaskOutlivesPlayer` | `[]NoUseAfterDelete` | `LifeInv`, below |
| `MediaSourcePlayer_proofs!UnderflowIsPaused` | `[]UnderflowMeansPaused` | inductive with the types: every handler that starts playback clears the flag |
| `MediaSourcePlayer_proofs!FirstSeekIsOver` | `[]FirstSeekResumes` | `ResumeInv`, below |
| `MediaSourcePlayer_proofs!FedInOrder` | `[]InOrder` | with the next two, from `FeedInv`, below |
| `MediaSourcePlayer_proofs!FedWithoutGap` | `[]NoGap` | `FeedInv`, below |
| `MediaSourcePlayer_proofs!FedOfOneSegment` | `[]OneSegment` | `FeedInv`, below |
| `MediaSourcePlayer_proofs!NeedDataIsPending` | `[]FeedPending` | `PendInv`, below |
| `MediaSourceDelegate_proofs!DelegateTypes` | `[]TypeOK` | one step per action |
| `MediaSourceDelegate_proofs!DeletedIsLast` | `[]DeletedLast` | `LifeInv` of that module, below |
| `MediaSourceDelegate_proofs!ReadsOnce` | `[]OneRead` | `ReadInv`, below |
| `MediaSourceDelegate_proofs!AnswersAreTrue` | `[]AnswerTrue` | with the next one, from `SeekInv`, below |
| `MediaSourceDelegate_proofs!SerialSeeksEnd` | `[]SerialSeeks` | `SeekInv`, below |
| `PolicyDecision_proofs!PolicyTypes` | `[]DecisionsTypeOK`, with one decision per view | one step per action |
| `PolicyDecision_proofs!ThrottleUsedWhileValid` | `[]ThrottleValid` | inductive with the types |
| `PolicyDecision_proofs!AnsweredOnce` | `OneAnswer`, an action property | from `ThrottleValid`: only a deferred response has a throttle attached |
| `PolicyDecision_proofs!FirstAnswerHolds` | `[]FirstAnswerCounts` | `FirstInv`, below |
| `BrowsingDataRemover_proofs!RemoverTypes` | `[]RemoverTypeOK` | with the next two, from `RemoverInv` |
| `BrowsingDataRemover_proofs!FlagsTrackWork` | `[]WaitingMeansWork` | `RemoverInv`, below |
| `BrowsingDataRemover_proofs!DeletedOnceAndLast` | `[]NothingAfterDelete` | `RemoverInv`, below |
| `BrowsingDataRemover_proofs!RemoverKeepsPromise` | `ImplementsRemoval` | every step is a step of `Removal` or stutters, under `Progress`, below |
| `ViewQuestions_proofs!QuestionsTypes` | `[]QuestionsTypeOK` | with the next two, from `QuestionsInv` |
| `ViewQuestions_proofs!FreedOnlyOnce` | `[]FreedOnce` | `QuestionsInv`, below |
| `ViewQuestions_proofs!AnsweredAsDecided` | `[]OneAnswer` | `QuestionsInv`, below |
| `WebViewServices_proofs!PolicyTypeCorrect` | `[]PolicyTypeOK` | one step per action |
| `WebViewServices_proofs!PolicyInForceHolds` | `[]PolicyInForce` | `seen` records every policy in force since a check began, and a check between its reads saw one that was not "always" |
| `WebViewServices_proofs!DialogsTypeCorrect` | `[]DialogsTypeOK` | one step per action |
| `WebViewServices_proofs!AnswerableHolds` | `[]Answerable` | at most one page waits, and the callback kept is its own |
| `WebViewServices_proofs!CookiesTypeCorrect` | `[]CookiesTypeOK` | `Ranked`, below: a change of path under way has a store to change to |
| `WebViewServices_proofs!ListingsAreOwn` | `[]OwnListing` | `OrderInv` and `Hidden`, below |
| `WebViewServices_proofs!ServicesTypes` | `[]TypeOK` | the types of the eight services, with `ServicesCompose` |
| `WebViewServices_proofs!ServicesKeepPromises` | all safety properties of the services, of their composition | `ServicesCompose`, below |
| `InputMethod_proofs!InputTypes` | `[]InputTypeOK` | with the next two, from `InputInv` |
| `InputMethod_proofs!PressesComeFirst` | `[]PressedFirst` | `InputInv`, below |
| `InputMethod_proofs!NoKeyStaysDown` | `[]KeysComeUp` | `InputInv`, below |
| `VideoEncoder_proofs!EncoderTypeCorrect` | `[]EncoderTypeOK` | one step per action |
| `VideoEncoder_proofs!DecodableHolds` | `[]Decodable` | `EncoderInv`, below |

They hold for all sets of streams, threads, rates, events, responses, navigations,
windows, origins, positions, dialogs, checks, keys and buffers and for all bounds, from
the named assumptions of the modules (`TypesAssumption`, `BoundsAssumption`, ...), which TLC evaluates in the runs.

`NoUseAfterDelete` alone is not inductive: nothing in it says why the loop holds no
task when `delete` runs. `LifeInv` adds what the code arranges: while a `delete` is in
the loop the player is destructing, its pipeline is gone, no thread is in a
callback, and `delete` is behind every other task; when nothing is destructing no
`delete` is posted. Joining the threads before `DeleteSoon` is the step on which it
rests, and the seeded bug that swaps the two breaks it.

`FirstSeekResumes` is about what a pipeline may lack, and a player without one has
nothing under way at all (`Fresh`). `ResumeInv` follows the first seek: until the
demuxer has completed it, `demuxerSeeking` is set and no task was posted that would
clear `is_seeking_`; then `is_seeking_` is set and only ASYNC_DONE posts that task,
together with one that plays. A pipeline that is stopped though the page wants playback is
therefore in front of one of them. It holds until the second seek, whose `is_seeking_` the
first one's task may clear.

`InOrder`, `NoGap` and `OneSegment` say what the player holds of a stream (`Sound`).
Whether it stays so depends on what comes: `FeedInv` adds, for the segment of the
player, `Chain`. What is under way in the loop is first of that segment, then, behind
`seekDone`, of the next (`Segs`); in each, the buffers of a stream come in order and
without a gap behind those that the player holds, up to the one the demuxer gives next
(`Flow`). Buffers that a handler drops are early ones, or of a pipeline that has failed.

`PendInv` says of an appsrc that waits that it has asked (a callback or a `read` in the
loop), that a read was sent or answered, or that a seek comes, which will flush it. It
has to say more of one that was told to stop feeding: it asked after that, so that
clearing `should_feed_*_` loses nothing.

The delegate's deletion crosses to the media thread and back. Its `LifeInv` says where
the tasks of the delegate's life can be and which thread may still be inside it. The
media thread's queue never holds the `delete`; it holds the `initialize` only at its
head, before the delegate has stopped, and at most one `stop`, only while the delegate
is being destroyed. The main thread's queue never holds the `initialize` or the
`stop`, and at most one `delete`, only once the delegate has stopped. From then on the
media thread is not inside the delegate, and after the deletion the main thread is
not either. A step that begins or ends no life keeps all of this (`Quiet`), because
it only posts other tasks behind what is queued (`Grew`).

`OneRead` counts the reads of a stream, in the demuxer and in the queue, by a fold.
`ReadInv` says the same without counting (`Books`): with the flag set either the
demuxer reads and no buffer is due in the queue, or exactly one is due; with the flag
clear there is neither. `OneDue` and `NoneDue` are kept by taking from and adding to a
queue.

`SeekInv` is the delegate's protocol with one seek at a time. Whatever the page does,
the demuxer is initialised before a seek reaches it (`Up`). While the page has never
sought over a seek (`Serial`), no seek is pending or cancelled, and the delegate knows
where the streams are unless they were moved for a seek that is on its way to it
(`Calm`); aborted or disallowed reads have a seek under way that will end
them (`Ends`); the last seek under way, or the demuxer if there is none, is where the
page wants to be (`Route`); and the last answer given to the player is true, unless
another seek is under way (`Told`). An earlier answer may be untrue: the element may take
a notification of playback for the end of its seek and start the next, whose position the
streams get while the first is being answered.

`NothingAfterDelete` says nothing of why the flags are right. `RemoverInv` adds
`WaitingMeansWork` (a flag is set exactly while a task, a callback or a posted completion
will clear it, and the counters are the cardinalities of what is owed) and `Bookkeeping`
(which work a request can cause, and that a type still being listed has no deletion under
way, without which counting the new deletions would be wrong). The deletion is posted when
the last flag is cleared, and then no chain is left. For the refinement `Progress` adds what
each chain is for: every selected item that is neither removed, failed nor handed to the DOM
storage is `Owed` by work still under way, a cache that has not been emptied, a type being
listed, the usage being asked or an origin being deleted; and before the usage is known
nothing was handed over (`NotHandedYet`). When the remover deletes itself no work is left,
so nothing is owed; requests map to `Start`, the deletion to `Finish`, `DeleteLocalStorage`
to `RemoveLater`, everything between them to `Remove`.

`FirstAnswerCounts` speaks of answers that arrived. `FirstInv` follows them on their way:
while the delegate holds a throttle none of its answers has left the queue, and
the first one for it in the queue is the first that was given (`LedBy`); and only
a response that was deferred is ever asked about (`Begun`).

The questions of a view do not depend on each other but for the queue and the slot of the
view, so `QuestionsInv` is, beside the types and that no task is queued twice, one
statement of each question by itself (`Good`): which tasks of it may be queued in each
stage of its life (`TasksOf`), who owns its object then (`OwnerOf`), and what its
requester has heard (`AnswersOf`). A task that frees or answers is queued only in the
one stage in which nothing else will.

A listing of cookies is matched with its callback by its place. `OrderInv` says where each
listing is (`Placed`): with the task that asks, held back by the store it was asked of, or
made and in the `Line` of those to be received; and one stands in the line before an earlier one
only if they asked different stores (`Overtakes`). If no two stores were asked, the
listing received `n`-th must be the `n`-th, because the ones before it fill all smaller
places. `Hidden` says of a cookie that was deleted before the listing was asked that the
store no longer has it, or that a deletion which selects it is still ahead of the listing in
the same queue; a change of path leaves both behind. `Ranked` numbers the changes of path
under way.

`Decodable` speaks of frames that were delivered; whether the next one may be
follows from those still on their way. `Ordered` says that the frames in the
codec thread's queue come in the order they were encoded, behind everything the
client has; `Unbroken` that the frame before each of them, unless the dropping has
begun, is delivered, lost or itself in the queue in front of it (`Passed`). Both hold
until the encoder is being destroyed, when frames may be forgotten but no later one
is delivered.

A release could overtake its press only if the press is held back when its turn comes.
`InputInv` has it that a press is held back only behind releases that wait, so it stands
nearer to the head of its queue than its release does to the head of the other
(`Behind`); an answer takes one of each, first the release (`Level`), then the press, and
restores that. For `KeysComeUp` it adds that a key that is pressed or held back has its release
waiting, sent or lost (`Accounted`), and that each waiting release has an answer to come
that will send it, or the round kept for a modifier (`Coming`): an answer takes at most one
release, and a press that is held back brings an answer of its own (`ToCome`).

`WebViewServices` moves one service at a time and leaves the variables of the others
alone. `StepOfOne` shows that each of its steps is a step of one service and a stutter of
the others, so that a behaviour of the composition is one of each service
(`ServicesCompose`), and what was proved of a service alone holds in it
(`ServicesKeepPromises`). The proofs of the smaller services (dialogs, cookies, policy,
and the types of the URL player and the decoder) are in that module for this reason.

Every invariant that a passing run checks is proved, and so are its safety properties of
steps; those of `ContextServices` are proved of its two parts, each by itself. Model-checked
only is liveness under fairness, which TLAPS cannot do: `Deleted`, `DelegateDeleted`,
`SeekSettles`, `Answered`, `EventuallyDeleted`, `Settles`, `CallsEnd`, `BuffersReturn`,
`SeekArrives`. The properties of the violated runs are refuted by TLC and have no theorem.
That the repository behaves as the models say is not proved anywhere: it rests on the
reading of the code that `PROJECT.json` records.

## 5. Plan

Done: the player, its counterpart in the renderer, the policy decisions and the
browsing data remover; the questions to the application; dialogs and cookies;
the URL player's GStreamer bridge, the codecs and the input method. Next, in this order:

1. The composition of player and delegate over IPC, with the failures of shared
   memory and of internal seeks.
2. The selection controller: handles, magnifier and scrolling against answers of the
   renderer that come late; the password form manager; decoding for web audio.
3. Proofs: what a seek promises the element, as an abstract specification that player
   and delegate implement together, once they are composed; the questions as one
   abstract question each.

## 6. Not modelled

Of the components modelled: frames on their way to the screen, volume, power and audio
session management, duration and network state; live streams and the timers of
playback time; the descriptive fields of decisions, and the showing of notifications;
`GetAcceptPolicyAsync`; the construction of the codecs'
pipelines and their bit rate; the C API twin of the URL player's bridge, which has the
same commands over another library; and memory that is never freed.

Most lines of this repository carry no protocol that a model could tell apart: the two API
layers and their headers forward calls one to one, and much of what is left is presentation
(pickers, popups, menus, themes), conversion of events and values, configuration, a sample
browser in C and tests. The map therefore covers a small share of the lines;
`PROJECT.json` gives the reason for each component it leaves out.
