---------------------- MODULE MediaSourcePlayer_proofs ----------------------
(***************************************************************************)
(* Proofs about MediaSourcePlayer for any streams, threads and bounds.     *)
(***************************************************************************)
EXTENDS MediaSourcePlayer, SequenceTheorems, TLAPS

(***************************************************************************)
(* What the calls from handler to handler return                           *)
(***************************************************************************)
LEMMA PlayType == ASSUME NEW c \in Control PROVE Play(c) \in Control
  BY DEF Play, Control

LEMMA PauseType ==
  ASSUME NEW c \in Control
  PROVE  PauseMedia(c) \in Control /\ PausePage(c) \in Control
  BY DEF PauseMedia, PausePage, Control

LEMMA PausedForSeekType ==
  ASSUME NEW c \in Control PROVE PausedForSeek(c) \subseteq Control
  BY PauseType DEF PausedForSeek

LEMMA EmptyFeedType == ASSUME NEW b \in BOOLEAN PROVE EmptyFeed(b) \in Feed
  BY DEF EmptyFeed, Feed

LEMMA PushType ==
  ASSUME NEW f \in Feed, NEW b \in Buffer
  PROVE  Push(f, b) \in Feed /\ SaveDecoderBuffer(f, b) \in Feed
<1> DEFINE should == f.should /\ f.level < AppsrcCap
<1>1. f.level + 1 \in Nat /\ Append(f.pushed, b) \in Seq(Buffer)
      /\ Append(f.saved, b) \in Seq(Buffer)
  BY DEF Feed
<1>2. should \in BOOLEAN
  OBVIOUS
<1> HIDE DEF should
<1>3. [f EXCEPT !.pushed = Append(@, b), !.level = @ + 1, !.waiting = FALSE,
                !.should = should] \in Feed
  BY <1>1, <1>2 DEF Feed
<1>4. Push(f, b) \in Feed
  BY <1>3 DEF Push, should
<1>5. SaveDecoderBuffer(f, b) \in Feed
  BY <1>1 DEF SaveDecoderBuffer, Feed
<1> QED
  BY <1>4, <1>5

LEMMA ReadFromQueueType ==
  ASSUME NEW f \in Feed PROVE ReadFromQueueIfAny(f) \in Feed
<1> DEFINE room == IF f.level > AppsrcCap THEN 1 ELSE AppsrcCap + 1 - f.level
           k == IF room < Len(f.saved) THEN room ELSE Len(f.saved)
<1>1. f.level \in Nat /\ f.saved \in Seq(Buffer) /\ f.pushed \in Seq(Buffer)
      /\ f.should \in BOOLEAN /\ AppsrcCap \in Nat
  BY BoundsAssumption DEF Feed
<1>2. k \in Nat /\ k <= Len(f.saved)
  BY <1>1
<1>3. SubSeq(f.saved, 1, k) \in Seq(Buffer)
      /\ SubSeq(f.saved, k + 1, Len(f.saved)) \in Seq(Buffer)
  BY <1>1, <1>2
<1>4. f.saved # <<>> => Tail(f.saved) \in Seq(Buffer)
  BY <1>1
<1>5. f.level + k \in Nat /\ f.pushed \o SubSeq(f.saved, 1, k) \in Seq(Buffer)
  BY <1>1, <1>2, <1>3
<1> DEFINE more == f.level + k <= AppsrcCap
<1>6. more \in BOOLEAN
  OBVIOUS
<1> DEFINE fed == [f EXCEPT !.pushed = @ \o SubSeq(f.saved, 1, k),
                            !.saved = SubSeq(@, k + 1, Len(f.saved)),
                            !.level = @ + k, !.waiting = FALSE,
                            !.should = more]
<1>7. ReadFromQueueIfAny(f) =
        IF ~Usable \/ ~f.should \/ f.saved = <<>> THEN f
        ELSE IF f.eos THEN [f EXCEPT !.saved = Tail(@)] ELSE fed
  BY DEF ReadFromQueueIfAny
<1> HIDE DEF k, more
<1>8. fed \in Feed
  BY <1>3, <1>5, <1>6 DEF Feed
<1>9. f.saved # <<>> => [f EXCEPT !.saved = Tail(@)] \in Feed
  BY <1>4 DEF Feed
<1> HIDE DEF fed
<1> QED
  BY <1>7, <1>8, <1>9

\* Single fields a handler sets
LEMMA ChangedFeedType ==
  ASSUME NEW f \in Feed, NEW b \in BOOLEAN, NEW n \in Nat
  PROVE  /\ [f EXCEPT !.saved = <<>>] \in Feed
         /\ [f EXCEPT !.should = b] \in Feed
         /\ [f EXCEPT !.waiting = b] \in Feed
         /\ [f EXCEPT !.eos = b] \in Feed
         /\ [f EXCEPT !.level = n] \in Feed
<1>1. [f EXCEPT !.saved = <<>>] \in Feed
  <2>1. <<>> \in Seq(Buffer)
    OBVIOUS
  <2> QED
    BY <2>1 DEF Feed
<1>2. [f EXCEPT !.should = b] \in Feed /\ [f EXCEPT !.waiting = b] \in Feed
      /\ [f EXCEPT !.eos = b] \in Feed
  BY DEF Feed
<1>3. [f EXCEPT !.level = n] \in Feed
  BY DEF Feed
<1> QED
  BY <1>1, <1>2, <1>3

LEMMA ItemType ==
  ASSUME NEW k \in Kinds, NEW t \in Media
  PROVE  Item(k) \in Work /\ ItemOf(k, t) \in Work
  BY DEF Item, ItemOf, Work, Buffer, NoBuffer, Media

\* What Runs, Take, Post and Done do to the message loop
LEMMA LoopType ==
  ASSUME TypeOK, NEW k, Runs(k)
  PROVE  /\ Head(loop) \in Work /\ Tail(loop) \in Seq(Work)
         /\ \A w \in Work : Append(Tail(loop), w) \in Seq(Work)
  BY DEF TypeOK, Runs

(***************************************************************************)
(* Type correctness                                                        *)
(***************************************************************************)
LEMMA InitType == Init => TypeOK
<1> SUFFICES ASSUME Init PROVE TypeOK
  OBVIOUS
<1>1. feed \in [Types -> Feed]
  BY EmptyFeedType DEF Init
<1>2. cb \in [Threads -> Callback]
  BY DEF Init, Idle, Callback, Media
<1>3. ctl \in Control
  BY DEF Init, Control
<1>4. loop \in Seq(Work)
  BY DEF Init
<1> QED
  BY <1>1, <1>2, <1>3, <1>4 DEF Init, TypeOK

LEMMA CommandType ==
  ASSUME TypeOK, DropCommand \/ OnPlay \/ OnPause \/ SetRate \/ Seek
  PROVE  TypeOK'
<1> USE DEF objVars, seekVars, rendVars, pageVars, Take
<1>1. CASE DropCommand
  BY <1>1, LoopType DEF DropCommand, TypeOK
<1>2. CASE OnPlay
  BY <1>2, LoopType, PlayType DEF OnPlay, TypeOK
<1>3. CASE OnPause
  BY <1>3, LoopType, PauseType DEF OnPause, TypeOK
<1>4. CASE SetRate
  <2>1. ctl \in Control /\ Head(loop) \in Work /\ Tail(loop) \in Seq(Work)
    BY <1>4, LoopType DEF SetRate, TypeOK
  <2>2. Head(loop).arg \in Nat
    BY <2>1 DEF Work
  <2>3. ctl' \in Control /\ demuxerSeeking' \in BOOLEAN /\ intSeek' \in BOOLEAN
    <3> DEFINE rate == Head(loop).arg
               c == IF ctl.rate = 0 THEN [Play(ctl) EXCEPT !.timer = TRUE] ELSE ctl
    <3>1. c \in Control
      BY <2>1, PlayType DEF Control
    <3>2. [c EXCEPT !.rate = rate] \in Control /\ [ctl EXCEPT !.rate = 0] \in Control
      BY <2>1, <2>2, <3>1 DEF Control
    <3>3. CASE rate = ctl.rate
      BY <1>4, <3>3 DEF SetRate, TypeOK
    <3>4. CASE rate # ctl.rate /\ rate = 0
      BY <1>4, <3>4, <3>2, PauseType DEF SetRate, TypeOK
    <3>5. CASE rate # ctl.rate /\ rate # 0
      <4>1. RequestPlayerSeek([c EXCEPT !.rate = rate])
        BY <1>4, <3>5 DEF SetRate
      <4> HIDE DEF c, rate
      <4> QED
        BY <4>1, <3>2, PausedForSeekType DEF RequestPlayerSeek, TypeOK
    <3> QED
      BY <3>3, <3>4, <3>5
  <2> QED
    BY <1>4, <2>1, <2>3 DEF SetRate, TypeOK
<1>5. CASE Seek
  <2>1. ctl' \in Control
    BY <1>5, PausedForSeekType DEF Seek, TypeOK
  <2>2. seekReqs' \in Nat /\ loop' \in Seq(Work)
    BY <1>5, LoopType DEF Seek, TypeOK
  <2>3. iframe' \in BOOLEAN /\ demuxerSeeking' \in BOOLEAN
    BY <1>5 DEF Seek
  <2>4. UNCHANGED <<objVars, buffered, isSeeking, seekOffset, feed, flush, cb,
                    reads, intSeek, rendVars, wmpSeeking, pageVars>>
    BY <1>5 DEF Seek
  <2> QED
    BY <2>1, <2>2, <2>3, <2>4 DEF TypeOK
<1> QED
  BY <1>1, <1>2, <1>3, <1>4, <1>5

LEMMA LifetimeType ==
  ASSUME TypeOK,
         OnDestroy \/ DestroyManager \/ FinishDestroy \/ DeletePlayer
  PROVE  TypeOK'
<1> USE DEF objVars, seekVars, rendVars, pageVars, Take
<1>1. ASSUME NEW m \in {"idle", "joining", "joiningLast"}, BeginDestroy(m),
             loop' \in Seq(Work)
      PROVE  TypeOK'
  <2>1. ctl' \in Control
    BY <1>1 DEF BeginDestroy, Control, TypeOK
  <2>2. feed' \in [Types -> Feed]
    BY <1>1, ChangedFeedType DEF BeginDestroy, TypeOK
  <2> QED
    BY <1>1, <2>1, <2>2 DEF BeginDestroy, TypeOK
<1>2. CASE OnDestroy
  BY <1>1, <1>2, LoopType DEF OnDestroy
<1>3. CASE DestroyManager
  <2>1. CASE destructing
    BY <1>3, <2>1 DEF DestroyManager, TypeOK
  <2>2. CASE ~destructing
    BY <1>1, <1>3, <2>2 DEF DestroyManager, TypeOK
  <2> QED
    BY <2>1, <2>2
<1>4. CASE FinishDestroy
  <2>1. ctl' \in Control
    BY <1>4 DEF FinishDestroy, Control, TypeOK
  <2>2. loop' \in Seq(Work)
    BY <1>4, ItemType DEF FinishDestroy, TypeOK, Kinds, Tasks, Media
  <2> QED
    BY <1>4, <2>1, <2>2 DEF FinishDestroy, TypeOK
<1>5. CASE DeletePlayer
  <2>1. loop' \in Seq(Work)
    BY <1>5, LoopType DEF DeletePlayer
  <2>2. alive' \in BOOLEAN
    BY <1>5 DEF DeletePlayer
  <2>3. UNCHANGED <<destructing, main, pipeline, error, managerAlive, ctl,
                    buffered, seekVars, feed, flush, cb, reads, seekReqs,
                    intSeek, rendVars, wmpSeeking, pageVars>>
    BY <1>5 DEF DeletePlayer
  <2> QED
    BY <2>1, <2>2, <2>3 DEF TypeOK
<1> QED
  BY <1>2, <1>3, <1>4, <1>5

\* The tasks the player posted to itself
LEMMA TaskType ==
  ASSUME TypeOK,
         ReadDemuxedData \/ PostedPlay \/ SeekStateFalse \/ OnTimeChanged
           \/ OnPlaybackComplete \/ HandleBufferingMessage \/ OnUpdateStates
  PROVE  TypeOK'
<1> USE DEF objVars, seekVars, rendVars, pageVars, Take
<1>1. CASE ReadDemuxedData
  <2>1. loop' \in Seq(Work)
    BY <1>1, LoopType DEF ReadDemuxedData
  <2>2. \A t \in Types : [feed[t] EXCEPT !.should = TRUE] \in Feed
    BY ChangedFeedType DEF TypeOK
  <2>3. \/ UNCHANGED <<feed, reads>>
        \/ \E t \in Media :
             /\ feed' = [feed EXCEPT ![t].should = TRUE]
             /\ RequestData(t)
    BY <1>1, LoopType DEF ReadDemuxedData, Work
  <2>4. feed' \in [Types -> Feed]
    <3>1. feed \in [Types -> Feed]
      BY DEF TypeOK
    <3>2. CASE UNCHANGED <<feed, reads>>
      BY <3>1, <3>2
    <3>3. ASSUME NEW t \in Media,
                 feed' = [feed EXCEPT ![t].should = TRUE]
          PROVE  feed' \in [Types -> Feed]
      <4>1. feed' = [feed EXCEPT ![t] = [feed[t] EXCEPT !.should = TRUE]]
        BY <3>3
      <4> QED
        BY <2>2, <3>1, <4>1
    <3> QED
      BY <2>3, <3>2, <3>3
  <2>5. reads' \in [Types -> Nat]
    BY <2>3 DEF RequestData, TypeOK
  <2>6. UNCHANGED <<objVars, ctl, buffered, seekVars, flush, cb, seekReqs,
                    intSeek, rendVars, wmpSeeking, pageVars>>
    BY <1>1 DEF ReadDemuxedData
  <2> QED
    BY <2>1, <2>4, <2>5, <2>6 DEF TypeOK
<1>2. CASE PostedPlay
  BY <1>2, LoopType, PlayType DEF PostedPlay, TypeOK
<1>3. CASE SeekStateFalse
  <2>1. loop' \in Seq(Work)
    BY <1>3, LoopType DEF SeekStateFalse
  <2>2. isSeeking' \in BOOLEAN /\ wmpSeeking' \in BOOLEAN
    BY <1>3 DEF SeekStateFalse
  <2>3. UNCHANGED <<objVars, ctl, buffered, demuxerSeeking, iframe, seekOffset,
                    feed, flush, cb, reads, seekReqs, intSeek, rendVars, pageVars>>
    BY <1>3 DEF SeekStateFalse
  <2> QED
    BY <2>1, <2>2, <2>3 DEF TypeOK
<1>4. CASE OnTimeChanged
  <2>1. loop' \in Seq(Work)
    BY <1>4, LoopType DEF OnTimeChanged
  <2>2. wmpSeeking' \in BOOLEAN
    BY <1>4 DEF OnTimeChanged
  <2>3. UNCHANGED <<objVars, ctl, buffered, seekVars, feed, flush, cb, reads,
                    seekReqs, intSeek, rendVars, pageVars>>
    BY <1>4 DEF OnTimeChanged
  <2> QED
    BY <2>1, <2>2, <2>3 DEF TypeOK
<1>5. CASE OnPlaybackComplete
  <2>1. ctl' \in Control
    BY <1>5 DEF OnPlaybackComplete, Control, TypeOK
  <2>2. loop' \in Seq(Work)
    BY <1>5, LoopType DEF OnPlaybackComplete
  <2>3. wmpSeeking' \in BOOLEAN
    BY <1>5 DEF OnPlaybackComplete
  <2>4. UNCHANGED <<objVars, buffered, seekVars, feed, flush, cb, reads,
                    seekReqs, intSeek, rendVars, pageVars>>
    BY <1>5 DEF OnPlaybackComplete
  <2> QED
    BY <2>1, <2>2, <2>3, <2>4 DEF TypeOK
<1>6. CASE HandleBufferingMessage
  <2>1. [ctl EXCEPT !.underflow = TRUE] \in Control
        /\ [ctl EXCEPT !.underflow = FALSE] \in Control
    BY DEF Control, TypeOK
  <2>2. ctl' \in Control
    BY <1>6, <2>1, PlayType, PauseType DEF HandleBufferingMessage, TypeOK
  <2> QED
    BY <1>6, <2>2, LoopType DEF HandleBufferingMessage, TypeOK
<1>7. CASE OnUpdateStates
  <2>1. loop' \in Seq(Work)
    BY <1>7, LoopType DEF OnUpdateStates
  <2>2. error' \in BOOLEAN
    BY <1>7, Zenon DEF OnUpdateStates, TypeOK
  <2>3. UNCHANGED <<alive, destructing, main, pipeline, managerAlive, ctl,
                    buffered, seekVars, feed, flush, cb, reads, seekReqs,
                    intSeek, rendVars, wmpSeeking, pageVars>>
    BY <1>7 DEF OnUpdateStates
  <2> QED
    BY <2>1, <2>2, <2>3 DEF TypeOK
<1> QED
  BY <1>1, <1>2, <1>3, <1>4, <1>5, <1>6, <1>7

\* What the demuxer sends
LEMMA DemuxerType ==
  ASSUME TypeOK,
         OnDemuxerConfigsAvailable \/ OnDemuxerDataAvailable \/ OnReadAborted
           \/ OnEndOfStream \/ OnDemuxerSeekDone
  PROVE  TypeOK'
<1> USE DEF objVars, seekVars, rendVars, pageVars, Take
<1>1. CASE OnDemuxerConfigsAvailable
  <2>1. loop' \in Seq(Work)
    BY <1>1, LoopType DEF OnDemuxerConfigsAvailable
  <2>2. ctl' \in Control /\ flush' \in {"none", "preroll", "seek"}
    BY <1>1 DEF OnDemuxerConfigsAvailable, Control, TypeOK
  <2>3. pipeline' \in BOOLEAN /\ error' \in BOOLEAN
    BY <1>1, Zenon DEF OnDemuxerConfigsAvailable, TypeOK
  <2>4. UNCHANGED <<alive, destructing, main, managerAlive, buffered, seekVars,
                    feed, cb, reads, seekReqs, intSeek, rendVars, wmpSeeking,
                    pageVars>>
    BY <1>1 DEF OnDemuxerConfigsAvailable
  <2> QED
    BY <2>1, <2>2, <2>3, <2>4 DEF TypeOK
<1>2. CASE OnDemuxerDataAvailable
  <2> DEFINE t == Head(loop).type
             b == Head(loop).buf
             f == ReadFromQueueIfAny(feed[t])
             g == IF f.should THEN Push(f, b) ELSE SaveDecoderBuffer(f, b)
  <2>1. Head(loop) \in Work /\ Tail(loop) \in Seq(Work)
        /\ \A w \in Work : Append(Tail(loop), w) \in Seq(Work)
    BY <1>2, LoopType DEF OnDemuxerDataAvailable
  <2>2. t \in Media /\ b \in Buffer
    BY <2>1 DEF Work
  <2>3. t \in Types => g \in Feed
    BY <2>2, ReadFromQueueType, PushType DEF TypeOK
  <2>4. feed' = feed \/ feed' = [feed EXCEPT ![t] = g]
    BY <1>2 DEF OnDemuxerDataAvailable
  <2>5. feed' \in [Types -> Feed]
    <3> HIDE DEF g, t
    <3> QED
      BY <2>3, <2>4 DEF TypeOK
  <2>6. loop' \in Seq(Work)
    <3>1. ItemOf("read", t) \in Work
      BY <2>2, ItemType DEF Kinds, Tasks
    <3>2. loop' = Tail(loop) \/ loop' = Append(Tail(loop), ItemOf("read", t))
      BY <1>2 DEF OnDemuxerDataAvailable, Post, Done
    <3> QED
      BY <2>1, <3>1, <3>2
  <2>7. iframe' \in BOOLEAN
    BY <1>2, Zenon DEF OnDemuxerDataAvailable, TypeOK
  <2>8. (ctl' = ctl /\ demuxerSeeking' = demuxerSeeking /\ intSeek' = intSeek)
        \/ RequestPlayerSeek(ctl)
    BY <1>2 DEF OnDemuxerDataAvailable
  <2>9. ctl' \in Control /\ demuxerSeeking' \in BOOLEAN /\ intSeek' \in BOOLEAN
    BY <2>8, PausedForSeekType DEF RequestPlayerSeek, TypeOK
  <2>10. UNCHANGED <<objVars, buffered, isSeeking, seekOffset, flush, cb, reads,
                     seekReqs, rendVars, wmpSeeking, pageVars>>
    BY <1>2 DEF OnDemuxerDataAvailable
  <2> QED
    BY <2>5, <2>6, <2>7, <2>9, <2>10 DEF TypeOK
<1>3. CASE OnReadAborted
  <2>1. Head(loop) \in Work /\ Tail(loop) \in Seq(Work)
        /\ \A w \in Work : Append(Tail(loop), w) \in Seq(Work)
    BY <1>3, LoopType DEF OnReadAborted
  <2>2. ItemOf("read", Head(loop).type) \in Work
    BY <2>1, ItemType DEF Work, Kinds, Tasks
  <2>3. loop' \in Seq(Work)
    BY <1>3, <2>1, <2>2 DEF OnReadAborted, Post, Done
  <2> QED
    BY <1>3, <2>3 DEF OnReadAborted, TypeOK
<1>4. CASE OnEndOfStream
  <2> DEFINE t == Head(loop).type
             g == [ReadFromQueueIfAny(feed[t]) EXCEPT !.eos = TRUE]
  <2>1. loop' \in Seq(Work)
    BY <1>4, LoopType DEF OnEndOfStream
  <2>2. t \in Types => g \in Feed
    BY ReadFromQueueType, ChangedFeedType DEF TypeOK
  <2>3. feed' = feed \/ feed' = [feed EXCEPT ![t] = g]
    BY <1>4 DEF OnEndOfStream
  <2>4. feed' \in [Types -> Feed]
    <3> HIDE DEF g, t
    <3> QED
      BY <2>2, <2>3 DEF TypeOK
  <2>5. ctl' \in Control
    BY <1>4, PlayType DEF OnEndOfStream, TypeOK
  <2>6. UNCHANGED <<objVars, buffered, seekVars, flush, cb, reads, seekReqs,
                    intSeek, rendVars, wmpSeeking, pageVars>>
    BY <1>4 DEF OnEndOfStream
  <2> QED
    BY <2>1, <2>4, <2>5, <2>6 DEF TypeOK
<1>5. CASE OnDemuxerSeekDone
  <2>1. loop' \in Seq(Work)
    BY <1>5, LoopType DEF OnDemuxerSeekDone
  <2>2. \A t \in Types : Flushed(feed[t]) \in Feed
                         /\ [feed[t] EXCEPT !.saved = <<>>] \in Feed
    <3>1. \A f \in Feed : f.should \in BOOLEAN
      BY DEF Feed
    <3> QED
      BY <3>1, EmptyFeedType, ChangedFeedType DEF Flushed, TypeOK
  <2>3. feed' = feed \/ feed' = [t \in Types |-> Flushed(feed[t])]
        \/ feed' = [t \in Types |-> [feed[t] EXCEPT !.saved = <<>>]]
    BY <1>5 DEF OnDemuxerSeekDone
  <2>4. feed' \in [Types -> Feed]
    BY <2>2, <2>3 DEF TypeOK
  <2>5. seekOffset' \in [Types -> Nat]
    <3>1. \A o \in [Types -> 0 .. MaxEarly] : o \in [Types -> Nat]
      BY BoundsAssumption
    <3>2. seekOffset' = seekOffset \/ seekOffset' \in [Types -> 0 .. MaxEarly]
      BY <1>5 DEF OnDemuxerSeekDone
    <3> QED
      BY <3>1, <3>2 DEF TypeOK
  <2>6. flush' \in {"none", "preroll", "seek"}
    BY <1>5 DEF OnDemuxerSeekDone, TypeOK
  <2>7. isSeeking' \in BOOLEAN /\ demuxerSeeking' \in BOOLEAN
        /\ wmpSeeking' \in BOOLEAN /\ error' \in BOOLEAN
    BY <1>5, Zenon DEF OnDemuxerSeekDone, TypeOK
  <2>8. UNCHANGED <<alive, destructing, main, pipeline, managerAlive, ctl,
                    buffered, iframe, cb, reads, seekReqs, intSeek, rendVars,
                    pageVars>>
    BY <1>5 DEF OnDemuxerSeekDone
  <2> QED
    BY <2>1, <2>4, <2>5, <2>6, <2>7, <2>8 DEF TypeOK
<1> QED
  BY <1>1, <1>2, <1>3, <1>4, <1>5

\* The streaming threads
LEMMA CallbackType ==
  ASSUME NEW k \in {"need"} \cup Events, NEW t \in Media, NEW full \in BOOLEAN
  PROVE  /\ [kind |-> k, type |-> t, full |-> full] \in Callback
         /\ [Idle EXCEPT !.kind = k] \in Callback
         /\ Idle \in Callback
  BY DEF Callback, Idle, Media

LEMMA EnterType ==
  ASSUME TypeOK, NEW th \in Threads,
         (\E t \in Types : EnterNeedData(th, t)) \/ EnterAsyncDone(th)
           \/ EnterMessage(th)
  PROVE  TypeOK'
<1> USE DEF objVars, seekVars, rendVars, pageVars
<1>1. ASSUME NEW c \in Callback, Enter(th, c),
             feed' \in [Types -> Feed], flush' \in {"none", "preroll", "seek"}
      PROVE  TypeOK'
  <2>1. cb' \in [Threads -> Callback]
    BY <1>1 DEF Enter, TypeOK
  <2>2. UNCHANGED <<objVars, ctl, buffered, seekVars, loop, reads, seekReqs,
                    intSeek, rendVars, wmpSeeking, pageVars>>
    BY <1>1 DEF Enter
  <2> QED
    BY <1>1, <2>1, <2>2 DEF TypeOK
<1>2. ASSUME NEW t \in Types, EnterNeedData(th, t) PROVE TypeOK'
  <2>1. [kind |-> "need", type |-> t, full |-> FALSE] \in Callback
    BY CallbackType, TypesAssumption
  <2>2. [feed[t] EXCEPT !.waiting = TRUE] \in Feed
    BY ChangedFeedType DEF TypeOK
  <2>3. feed' \in [Types -> Feed] /\ flush' \in {"none", "preroll", "seek"}
    BY <1>2, <2>2 DEF EnterNeedData, TypeOK
  <2> QED
    BY <1>1, <1>2, <2>1, <2>3 DEF EnterNeedData
<1>3. CASE EnterAsyncDone(th)
  <2>1. [Idle EXCEPT !.kind = "asyncDone"] \in Callback
    BY <1>3, CallbackType DEF EnterAsyncDone, Media
  <2>2. feed' \in [Types -> Feed] /\ flush' \in {"none", "preroll", "seek"}
    BY <1>3 DEF EnterAsyncDone, TypeOK
  <2> QED
    BY <1>1, <1>3, <2>1, <2>2 DEF EnterAsyncDone
<1>4. CASE EnterMessage(th)
  <2>1. feed' \in [Types -> Feed] /\ flush' \in {"none", "preroll", "seek"}
    BY <1>4 DEF EnterMessage, TypeOK
  <2>2. ASSUME "buffering" \in Events, NEW t \in Types, NEW full \in BOOLEAN,
               Enter(th, [kind |-> "buffering", type |-> t, full |-> full])
        PROVE  TypeOK'
    <3>1. [kind |-> "buffering", type |-> t, full |-> full] \in Callback
      BY <2>2, CallbackType, TypesAssumption
    <3> QED
      BY <1>1, <2>1, <2>2, <3>1
  <2>3. ASSUME NEW e \in Events, Enter(th, [Idle EXCEPT !.kind = e])
        PROVE  TypeOK'
    <3>1. [Idle EXCEPT !.kind = e] \in Callback
      BY <2>3, CallbackType DEF Media
    <3> QED
      BY <1>1, <2>1, <2>3, <3>1
  <2> QED
    BY <1>4, <2>2, <2>3 DEF EnterMessage
<1> QED
  BY <1>2, <1>3, <1>4

LEMMA StreamingType ==
  ASSUME TypeOK, Streaming
  PROVE  TypeOK'
<1> USE DEF objVars, seekVars, rendVars, pageVars
<1>1. ASSUME NEW t \in Types, Consume(t) PROVE TypeOK'
  <2>1. feed[t] \in Feed /\ feed[t].level - 1 \in Nat
    BY <1>1 DEF Consume, TypeOK, Feed
  <2>2. [feed[t] EXCEPT !.level = @ - 1] \in Feed
    BY <2>1, ChangedFeedType
  <2>3. feed' \in [Types -> Feed]
    BY <1>1, <2>2 DEF Consume, TypeOK
  <2>4. UNCHANGED <<objVars, ctl, buffered, seekVars, flush, cb, loop, reads,
                    seekReqs, intSeek, rendVars, wmpSeeking, pageVars>>
    BY <1>1 DEF Consume
  <2> QED
    BY <2>3, <2>4 DEF TypeOK
<1>2. ASSUME NEW th \in Threads, RunCallback(th) PROVE TypeOK'
  <2>1. cb[th] \in Callback /\ cb[th].type \in Media
        /\ cb[th].full \in BOOLEAN
    BY DEF TypeOK, Callback
  <2>2. [cb EXCEPT ![th] = Idle] \in [Threads -> Callback]
    BY DEF TypeOK, Idle, Callback, Media
  <2>3. /\ Item("seekFalse") \in Work /\ Item("play") \in Work
        /\ Item("timeChanged") \in Work /\ Item("buffering") \in Work
        /\ Item("complete") \in Work /\ Item("states") \in Work
        /\ ItemOf("read", cb[th].type) \in Work
    BY <2>1, ItemType DEF Kinds, Tasks, Media
  <2>4. \A w \in Work : Append(loop, w) \in Seq(Work)
    BY DEF TypeOK
  <2>5. CASE NeedData(th)
    <3>1. loop' \in Seq(Work)
      BY <2>3, <2>4, <2>5 DEF NeedData, TypeOK
    <3>2. cb' \in [Threads -> Callback]
      BY <2>2, <2>5 DEF NeedData
    <3> QED
      BY <2>5, <3>1, <3>2 DEF NeedData, TypeOK
  <2>6. CASE AsyncDone(th)
    <3>1. loop' \in Seq(Work)
      <4> DEFINE x == <<Item("seekFalse")>>
                 y == IF ctl.playing THEN <<Item("play")>> ELSE <<>>
                 z == <<Item("timeChanged")>>
      <4>1. loop' = loop \/ loop' = loop \o x \o y \o z
        BY <2>6 DEF AsyncDone
      <4>2. x \in Seq(Work) /\ y \in Seq(Work) /\ z \in Seq(Work)
        BY <2>3
      <4>3. loop \in Seq(Work)
        BY DEF TypeOK
      <4> HIDE DEF x, y, z
      <4>4. loop \o x \in Seq(Work)
        BY <4>2, <4>3
      <4>5. (loop \o x) \o y \in Seq(Work)
        BY <4>2, <4>4
      <4>6. ((loop \o x) \o y) \o z \in Seq(Work)
        BY <4>2, <4>5
      <4> QED
        BY <4>1, <4>3, <4>6
    <3>2. cb' \in [Threads -> Callback]
      BY <2>2, <2>6 DEF AsyncDone
    <3>3. iframe' \in BOOLEAN
      BY <2>6, Zenon DEF AsyncDone, TypeOK
    <3>4. UNCHANGED <<objVars, ctl, buffered, isSeeking, demuxerSeeking,
                      seekOffset, feed, flush, reads, seekReqs, intSeek,
                      rendVars, wmpSeeking, pageVars>>
      BY <2>6 DEF AsyncDone
    <3> QED
      BY <3>1, <3>2, <3>3, <3>4 DEF TypeOK
  <2>7. CASE Buffering(th)
    <3>1. loop' \in Seq(Work)
      BY <2>3, <2>4, <2>7 DEF Buffering, TypeOK
    <3>2. cb' \in [Threads -> Callback]
      BY <2>2, <2>7 DEF Buffering
    <3>3. buffered' \in [Media -> BOOLEAN]
      BY <2>1, <2>7 DEF Buffering, TypeOK
    <3>4. UNCHANGED <<objVars, ctl, seekVars, feed, flush, reads, seekReqs,
                      intSeek, rendVars, wmpSeeking, pageVars>>
      BY <2>7 DEF Buffering
    <3> QED
      BY <3>1, <3>2, <3>3, <3>4 DEF TypeOK
  <2>8. CASE PostFromMessage(th)
    <3>1. loop' \in Seq(Work)
      BY <2>3, <2>4, <2>8 DEF PostFromMessage, TypeOK
    <3>2. cb' \in [Threads -> Callback]
      BY <2>2, <2>8 DEF PostFromMessage
    <3>3. UNCHANGED <<objVars, ctl, buffered, seekVars, feed, flush, reads,
                      seekReqs, intSeek, rendVars, wmpSeeking, pageVars>>
      BY <2>8 DEF PostFromMessage
    <3> QED
      BY <3>1, <3>2, <3>3 DEF TypeOK
  <2>9. CASE PipelineError(th)
    <3>1. error' \in BOOLEAN
      BY <2>9, Zenon DEF PipelineError, TypeOK
    <3>2. cb' \in [Threads -> Callback]
      BY <2>2, <2>9 DEF PipelineError
    <3>3. UNCHANGED <<alive, destructing, main, pipeline, managerAlive, ctl,
                      buffered, seekVars, feed, flush, loop, reads, seekReqs,
                      intSeek, rendVars, wmpSeeking, pageVars>>
      BY <2>9 DEF PipelineError
    <3> QED
      BY <3>1, <3>2, <3>3 DEF TypeOK
  <2> QED
    BY <1>2, <2>5, <2>6, <2>7, <2>8, <2>9 DEF RunCallback
<1> QED
  BY <1>1, <1>2, EnterType DEF Streaming

\* The renderer
LEMMA RendererType ==
  ASSUME TypeOK, Renderer
  PROVE  TypeOK'
<1> USE DEF objVars, seekVars, rendVars, pageVars
<1>1. \A w \in Work : Deliver(w) => loop' \in Seq(Work)
  BY DEF Deliver, TypeOK
<1>2. \A t \in Types : t \in Media
  BY TypesAssumption
<1>3. segment + 1 \in Nat /\ [Item("seekDone") EXCEPT !.buf.seg = segment + 1] \in Work
  <2>1. segment + 1 \in Nat
    BY DEF TypeOK
  <2>2. \A n \in Nat : [Item("seekDone") EXCEPT !.buf.seg = n]
          = [kind |-> "seekDone", type |-> "audio", arg |-> 0,
             buf |-> [seg |-> n, no |-> 0]]
    BY DEF Item, NoBuffer
  <2>3. \A n \in Nat : [kind |-> "seekDone", type |-> "audio", arg |-> 0,
                        buf |-> [seg |-> n, no |-> 0]] \in Work
    BY DEF Work, Buffer, Kinds, Demuxer, Media
  <2> QED
    BY <2>1, <2>2, <2>3
<1>4. CASE RendererReady
  <2>1. Item("configs") \in Work
    BY ItemType DEF Kinds, Demuxer, Media
  <2> QED
    BY <1>1, <1>4, <2>1 DEF RendererReady, TypeOK
<1>5. ASSUME NEW t \in Types, RendererAnswer(t) PROVE TypeOK'
  <2>1. reads' \in [Types -> Nat] /\ next' \in [Types -> Nat]
    BY <1>5 DEF RendererAnswer, TypeOK
  <2>2. /\ ItemOf("endOfStream", t) \in Work
        /\ [ItemOf("data", t) EXCEPT
               !.buf = [seg |-> segment, no |-> next[t] + 1]] \in Work
    <3>1. ItemOf("endOfStream", t) \in Work /\ ItemOf("data", t) \in Work
      BY <1>2, ItemType DEF Kinds, Demuxer
    <3>2. [seg |-> segment, no |-> next[t] + 1] \in Buffer
      BY DEF TypeOK, Buffer
    <3>3. \A w \in Work, b \in Buffer : [w EXCEPT !.buf = b] \in Work
      BY DEF Work
    <3> QED
      BY <3>1, <3>2, <3>3
  <2>3. loop' \in Seq(Work)
    BY <1>1, <1>5, <2>2 DEF RendererAnswer
  <2>4. UNCHANGED <<objVars, ctl, buffered, seekVars, feed, flush, cb,
                    seekReqs, intSeek, rSeeking, segment, wmpSeeking, pageVars>>
    BY <1>5 DEF RendererAnswer
  <2> QED
    BY <2>1, <2>3, <2>4 DEF TypeOK
<1>6. ASSUME NEW t \in Types, RendererAbort(t) PROVE TypeOK'
  <2>1. ItemOf("aborted", t) \in Work
    BY <1>2, ItemType DEF Kinds, Demuxer
  <2>2. loop' \in Seq(Work) /\ reads' \in [Types -> Nat]
    BY <1>1, <1>6, <2>1 DEF RendererAbort, TypeOK
  <2> QED
    BY <1>6, <2>2 DEF RendererAbort, TypeOK
<1>7. ASSUME NEW t \in Types, RendererIgnore(t) PROVE TypeOK'
  <2>1. reads' \in [Types -> Nat]
    BY <1>7 DEF RendererIgnore, TypeOK
  <2> QED
    BY <1>7, <2>1 DEF RendererIgnore, TypeOK
<1>8. CASE RendererSeek
  <2>1. Item("cmdSeek") \in Work
    BY ItemType DEF Kinds, Commands, Media
  <2>2. loop' \in Seq(Work)
    BY <1>1, <1>8, <2>1 DEF RendererSeek
  <2>3. intSeek' \in BOOLEAN /\ rSeeking' \in BOOLEAN /\ wmpSeeking' \in BOOLEAN
    BY <1>8 DEF RendererSeek
  <2>4. UNCHANGED <<objVars, ctl, buffered, seekVars, feed, flush, cb, reads,
                    seekReqs, segment, next, wanted, cmds>>
    BY <1>8 DEF RendererSeek
  <2> QED
    BY <2>2, <2>3, <2>4 DEF TypeOK
<1>9. CASE RendererSeekAgain
  <2>1. loop' \in Seq(Work) /\ segment' \in Nat /\ next' \in [Types -> Nat]
    BY <1>1, <1>3, <1>9 DEF RendererSeekAgain, TypeOK
  <2>2. intSeek' \in BOOLEAN
    BY <1>9 DEF RendererSeekAgain
  <2>3. UNCHANGED <<objVars, ctl, buffered, seekVars, feed, flush, cb, reads,
                    seekReqs, rSeeking, wmpSeeking, wanted, cmds>>
    BY <1>9 DEF RendererSeekAgain
  <2> QED
    BY <2>1, <2>2, <2>3 DEF TypeOK
<1>10. CASE RendererSeekDone
  <2>1. loop' \in Seq(Work) /\ segment' \in Nat /\ next' \in [Types -> Nat]
        /\ seekReqs' \in Nat
    BY <1>1, <1>3, <1>10 DEF RendererSeekDone, TypeOK
  <2>2. rSeeking' \in BOOLEAN
    BY <1>10 DEF RendererSeekDone
  <2>3. UNCHANGED <<objVars, ctl, buffered, seekVars, feed, flush, cb, reads,
                    intSeek, wmpSeeking, pageVars>>
    BY <1>10 DEF RendererSeekDone
  <2> QED
    BY <2>1, <2>2, <2>3 DEF TypeOK
<1>11. CASE PageCommand
  <2>1. /\ Item("cmdPlay") \in Work /\ Item("cmdPause") \in Work
        /\ Item("cmdRate") \in Work
    BY ItemType DEF Kinds, Commands, Media
  <2>2. \A r \in Rates : [Item("cmdRate") EXCEPT !.arg = r] \in Work
    BY <2>1, RatesAssumption DEF Work
  <2>3. loop' \in Seq(Work)
    BY <1>1, <1>11, <2>1, <2>2 DEF PageCommand
  <2> QED
    BY <1>11, <2>3 DEF PageCommand, TypeOK
<1>12. CASE PageDestroy
  <2>1. Item("cmdDestroy") \in Work
    BY ItemType DEF Kinds, Commands, Media
  <2> QED
    BY <1>1, <1>12, <2>1 DEF PageDestroy, TypeOK
<1> QED
  BY <1>4, <1>5, <1>6, <1>7, <1>8, <1>9, <1>10, <1>11, <1>12 DEF Renderer

LEMMA TypeStep == TypeOK /\ [Next]_vars => TypeOK'
<1> SUFFICES ASSUME TypeOK, [Next]_vars PROVE TypeOK'
  OBVIOUS
<1>1. CASE UIThread
  BY <1>1, CommandType, LifetimeType, TaskType, DemuxerType DEF UIThread
<1>2. CASE UNCHANGED vars
  BY <1>2 DEF vars, TypeOK
<1> QED
  BY <1>1, <1>2, LifetimeType, StreamingType, RendererType DEF Next

\* The state is what the declarations of the player and its environment say, in
\* every reachable state, for any streams, threads, rates and bounds.
THEOREM TypeCorrect == Spec => []TypeOK
<1>1. Init => TypeOK
  BY InitType
<1>2. TypeOK /\ [Next]_vars => TypeOK'
  BY TypeStep
<1> QED
  BY <1>1, <1>2, PTL DEF Spec

(***************************************************************************)
(* No use after deletion                                                   *)
(***************************************************************************)
NoDelete(l) == \A i \in DOMAIN l : l[i].kind # "delete"
Clean(l) == \A i, j \in DOMAIN l :
              l[i].kind = "delete" /\ i < j => l[j].kind \notin Tasks

\* NoUseAfterDelete is not inductive: it must be known that Release ran and took
\* the pipeline away before "delete" was posted, that a callback runs only while
\* there is a pipeline, and that no task follows "delete" in the loop
LifeInv ==
  /\ ~alive => destructing /\ main = "idle" /\ NoTasks(loop)
  /\ main # "idle" => destructing /\ alive
  /\ destructing /\ main = "idle" => ~pipeline
  /\ \A th \in Threads : cb[th] # Idle => pipeline
  /\ alive /\ ~(destructing /\ main = "idle") => NoDelete(loop)
  /\ Clean(loop)

LEMMA TailClean ==
  ASSUME NEW l \in Seq(Work), l # <<>>
  PROVE  /\ Clean(l) => Clean(Tail(l))
         /\ Clean(l) /\ Head(l).kind = "delete" => NoTasks(Tail(l))
         /\ NoTasks(l) => NoTasks(Tail(l))
         /\ NoDelete(l) => NoDelete(Tail(l))
<1>1. /\ Len(l) \in Nat /\ Len(l) > 0 /\ Len(Tail(l)) = Len(l) - 1
      /\ DOMAIN l = 1 .. Len(l) /\ DOMAIN Tail(l) = 1 .. Len(l) - 1
      /\ Head(l) = l[1]
  OBVIOUS
<1>2. \A i \in DOMAIN Tail(l) : i + 1 \in DOMAIN l /\ Tail(l)[i] = l[i + 1]
  BY <1>1
<1>3. Clean(l) => Clean(Tail(l))
  <2>1. \A i, j \in DOMAIN Tail(l) : i < j => i + 1 < j + 1
    BY <1>1
  <2> QED
    BY <1>2, <2>1 DEF Clean
<1>4. Clean(l) /\ Head(l).kind = "delete" => NoTasks(Tail(l))
  <2>1. 1 \in DOMAIN l /\ \A i \in DOMAIN Tail(l) : 1 < i + 1
    BY <1>1
  <2> QED
    BY <1>1, <1>2, <2>1 DEF Clean, NoTasks
<1>5. NoTasks(l) => NoTasks(Tail(l))
  BY <1>2 DEF NoTasks
<1>6. NoDelete(l) => NoDelete(Tail(l))
  BY <1>2 DEF NoDelete
<1> QED
  BY <1>3, <1>4, <1>5, <1>6

LEMMA AppendClean ==
  ASSUME NEW l \in Seq(Work), NEW w \in Work
  PROVE  /\ Clean(l) /\ (w.kind \notin Tasks \/ NoDelete(l)) => Clean(Append(l, w))
         /\ NoTasks(l) /\ w.kind \notin Tasks => NoTasks(Append(l, w))
         /\ NoDelete(l) /\ w.kind # "delete" => NoDelete(Append(l, w))
<1> DEFINE m == Append(l, w)
<1>1. /\ Len(l) \in Nat /\ DOMAIN l = 1 .. Len(l) /\ DOMAIN m = 1 .. Len(l) + 1
      /\ m[Len(l) + 1] = w /\ \A i \in 1 .. Len(l) : m[i] = l[i]
  OBVIOUS
<1> HIDE DEF m
<1>2. \A i \in DOMAIN m : (i \in DOMAIN l /\ m[i] = l[i])
                          \/ (i = Len(l) + 1 /\ m[i] = w)
  BY <1>1
<1>3. \A i, j \in DOMAIN m : i < j => i \in DOMAIN l /\ m[i] = l[i]
  BY <1>1, <1>2
<1>4. Clean(l) /\ (w.kind \notin Tasks \/ NoDelete(l)) => Clean(m)
  BY <1>2, <1>3 DEF Clean, NoDelete
<1>5. NoTasks(l) /\ w.kind \notin Tasks => NoTasks(m)
  BY <1>2 DEF NoTasks
<1>6. NoDelete(l) /\ w.kind # "delete" => NoDelete(m)
  BY <1>2 DEF NoDelete
<1> QED
  BY <1>4, <1>5, <1>6 DEF m

LEMMA NoDeleteClean == ASSUME NEW l, NoDelete(l) PROVE Clean(l)
  BY DEF NoDelete, Clean

\* A step of the UI thread or of the renderer that leaves the object alone: it
\* takes an item off the loop, perhaps posts a task while there is a pipeline, or
\* a message of the renderer arrives
LEMMA LifeFrame ==
  ASSUME TypeOK, LifeInv, UNCHANGED <<alive, destructing, main, pipeline, cb>>,
         \/ loop' = loop
         \/ loop # <<>> /\ loop' = Tail(loop)
         \/ \E w \in Work : w.kind \notin Tasks /\ loop' = Append(loop, w)
         \/ /\ loop # <<>> /\ alive /\ main = "idle" /\ pipeline
            /\ \E w \in Work : w.kind # "delete" /\ loop' = Append(Tail(loop), w)
  PROVE  LifeInv'
<1>0. loop \in Seq(Work)
  BY DEF TypeOK
<1>1. CASE loop' = loop
  BY <1>1 DEF LifeInv
<1>2. CASE loop # <<>> /\ loop' = Tail(loop)
  BY <1>0, <1>2, TailClean DEF LifeInv
<1>3. CASE \E w \in Work : w.kind \notin Tasks /\ loop' = Append(loop, w)
  <2>1. \A w \in Work : w.kind \notin Tasks => w.kind # "delete"
    BY DEF Tasks
  <2> QED
    BY <1>0, <1>3, <2>1, AppendClean DEF LifeInv
<1>4. CASE /\ loop # <<>> /\ alive /\ main = "idle" /\ pipeline
           /\ \E w \in Work : w.kind # "delete" /\ loop' = Append(Tail(loop), w)
  <2>1. NoDelete(loop)
    BY <1>4 DEF LifeInv
  <2>2. Tail(loop) \in Seq(Work) /\ NoDelete(Tail(loop))
    BY <1>0, <1>4, <2>1, TailClean
  <2>3. NoDelete(loop')
    BY <1>4, <2>2, AppendClean
  <2> QED
    BY <1>4, <2>3, NoDeleteClean DEF LifeInv
<1> QED
  BY <1>1, <1>2, <1>3, <1>4

\* A step of a streaming thread that ends its callback and posts tasks
LEMMA LifeCallback ==
  ASSUME TypeOK, LifeInv, UNCHANGED <<alive, destructing, main, pipeline>>,
         NEW th \in Threads, cb[th] # Idle, cb' = [cb EXCEPT ![th] = Idle],
         loop' = loop \/ NoDelete(loop')
  PROVE  LifeInv'
<1>1. pipeline /\ alive /\ ~(destructing /\ main = "idle") /\ NoDelete(loop)
  BY DEF LifeInv
<1>2. NoDelete(loop') /\ Clean(loop')
  BY <1>1, NoDeleteClean
<1> QED
  BY <1>1, <1>2 DEF LifeInv, TypeOK

LEMMA LifeInit == Init => LifeInv
  BY DEF Init, LifeInv, Clean, NoDelete, Idle

LEMMA LifeUIThread ==
  ASSUME TypeOK, LifeInv, UIThread PROVE LifeInv'
<1> USE DEF objVars, Take
<1>0. \A k : Runs(k) => loop # <<>> /\ alive /\ main = "idle" /\ Head(loop).kind = k
  BY DEF Runs
<1>1. CASE DropCommand \/ OnPlay \/ OnPause \/ SetRate \/ Seek
  BY <1>0, <1>1, LifeFrame DEF DropCommand, OnPlay, OnPause, SetRate, Seek
<1>2. CASE OnEndOfStream \/ ReadDemuxedData \/ PostedPlay \/ SeekStateFalse
           \/ OnTimeChanged \/ OnPlaybackComplete \/ HandleBufferingMessage
           \/ OnUpdateStates \/ OnDemuxerSeekDone
  BY <1>0, <1>2, LifeFrame
     DEF OnEndOfStream, ReadDemuxedData, PostedPlay, SeekStateFalse,
         OnTimeChanged, OnPlaybackComplete, HandleBufferingMessage,
         OnUpdateStates, OnDemuxerSeekDone
<1>3. CASE OnDemuxerDataAvailable \/ OnReadAborted
  <2>1. /\ loop # <<>> /\ alive /\ main = "idle"
        /\ UNCHANGED <<alive, destructing, main, pipeline, cb>>
    BY <1>0, <1>3 DEF OnDemuxerDataAvailable, OnReadAborted
  <2>2. ItemOf("read", Head(loop).type) \in Work
        /\ ItemOf("read", Head(loop).type).kind # "delete"
    <3>1. Head(loop) \in Work
      BY <2>1 DEF TypeOK
    <3> QED
      BY <3>1, ItemType DEF Work, Kinds, Tasks, ItemOf, Item
  <2>3. \/ loop' = Tail(loop)
        \/ pipeline /\ loop' = Append(Tail(loop), ItemOf("read", Head(loop).type))
    BY <1>3 DEF OnDemuxerDataAvailable, OnReadAborted, Usable, Post, Done
  <2> QED
    BY <2>1, <2>2, <2>3, LifeFrame
<1>4. CASE OnDemuxerConfigsAvailable
  <2>1. /\ loop # <<>> /\ alive /\ main = "idle" /\ loop' = Tail(loop)
        /\ UNCHANGED <<alive, destructing, main, cb>>
    BY <1>0, <1>4 DEF OnDemuxerConfigsAvailable
  <2>2. Clean(loop') /\ (NoDelete(loop) => NoDelete(loop'))
    BY <2>1, TailClean DEF TypeOK, LifeInv
  <2>3. destructing => pipeline' = pipeline
    BY <1>4, Zenon DEF OnDemuxerConfigsAvailable
  <2>4. pipeline => pipeline'
    BY <1>4, Zenon DEF OnDemuxerConfigsAvailable
  <2> QED
    BY <2>1, <2>2, <2>3, <2>4 DEF LifeInv
<1>5. CASE OnDestroy
  <2>1. loop # <<>> /\ alive /\ main = "idle" /\ loop' = Tail(loop) /\ ~destructing
        /\ destructing' = TRUE /\ main' = "joining"
        /\ UNCHANGED <<alive, pipeline, cb>>
    BY <1>0, <1>5 DEF OnDestroy, BeginDestroy
  <2>2. NoDelete(loop')
    BY <2>1, TailClean DEF TypeOK, LifeInv
  <2> QED
    BY <2>1, <2>2, NoDeleteClean DEF LifeInv
<1>6. CASE FinishDestroy
  <2>1. main # "idle" /\ destructing /\ alive /\ NoDelete(loop)
        /\ \A th \in Threads : cb[th] = Idle
    BY <1>6 DEF FinishDestroy, LifeInv
  <2>2. Item("delete") \in Work
    BY ItemType DEF Kinds, Tasks, Media
  <2>3. Clean(loop')
    BY <1>6, <2>1, <2>2, NoDeleteClean, AppendClean DEF FinishDestroy, TypeOK
  <2>4. pipeline' = FALSE /\ main' = "idle" /\ UNCHANGED <<alive, destructing, cb>>
    BY <1>6 DEF FinishDestroy
  <2> QED
    BY <2>1, <2>3, <2>4 DEF LifeInv
<1>7. CASE DeletePlayer
  <2>1. loop # <<>> /\ alive /\ main = "idle" /\ Head(loop).kind = "delete"
        /\ loop' = Tail(loop) /\ alive' = FALSE
        /\ UNCHANGED <<destructing, main, pipeline, cb>>
    BY <1>0, <1>7 DEF DeletePlayer
  <2>2. destructing
    <3>1. 1 \in DOMAIN loop /\ Head(loop) = loop[1]
      BY <2>1 DEF TypeOK
    <3> QED
      BY <2>1, <3>1 DEF LifeInv, NoDelete
  <2>3. NoTasks(loop') /\ Clean(loop')
    BY <2>1, TailClean DEF TypeOK, LifeInv
  <2> QED
    BY <2>1, <2>2, <2>3 DEF LifeInv
<1> QED
  BY <1>1, <1>2, <1>3, <1>4, <1>5, <1>6, <1>7 DEF UIThread

LEMMA LifeStreaming ==
  ASSUME TypeOK, LifeInv, Streaming PROVE LifeInv'
<1> USE DEF objVars
<1>1. ASSUME NEW t \in Types, Consume(t) PROVE LifeInv'
  BY <1>1, LifeFrame DEF Consume
<1>2. ASSUME NEW th \in Threads, NEW c, Enter(th, c) PROVE LifeInv'
  <2>1. pipeline /\ alive /\ ~destructing
        /\ UNCHANGED <<alive, destructing, main, pipeline, loop>>
    BY <1>2 DEF Enter
  <2> QED
    BY <2>1 DEF LifeInv
<1>3. ASSUME NEW th \in Threads, RunCallback(th) PROVE LifeInv'
  <2>1. /\ cb[th] # Idle /\ cb' = [cb EXCEPT ![th] = Idle]
        /\ UNCHANGED <<alive, destructing, main, pipeline>>
    BY <1>3 DEF RunCallback, NeedData, AsyncDone, Buffering, PostFromMessage,
                PipelineError, Idle
  <2>2. NoDelete(loop) /\ loop \in Seq(Work)
    BY <2>1 DEF LifeInv, TypeOK
  <2>3. \A w \in Work : w.kind # "delete" => NoDelete(Append(loop, w))
    BY <2>2, AppendClean
  <2>4. cb[th].type \in Media
    BY DEF TypeOK, Callback
  <2>5. \A k \in {"seekFalse", "play", "timeChanged", "buffering", "complete",
                  "states"} : Item(k) \in Work /\ Item(k).kind # "delete"
    BY ItemType DEF Kinds, Tasks, Media, Item
  <2>6. ItemOf("read", cb[th].type) \in Work
        /\ ItemOf("read", cb[th].type).kind # "delete"
    BY <2>4, ItemType DEF Kinds, Tasks, Item, ItemOf
  <2>7. loop' = loop \/ NoDelete(loop')
    <3>1. CASE NeedData(th)
      BY <2>3, <2>6, <3>1 DEF NeedData
    <3>2. CASE AsyncDone(th)
      <4> DEFINE y == IF ctl.playing THEN <<Item("play")>> ELSE <<>>
                 x == <<Item("seekFalse")>>
                 z == <<Item("timeChanged")>>
      <4>1. \A l, m \in Seq(Work) :
              NoDelete(l) /\ NoDelete(m) => NoDelete(l \o m) /\ l \o m \in Seq(Work)
        <5> SUFFICES ASSUME NEW l \in Seq(Work), NEW m \in Seq(Work),
                            NoDelete(l), NoDelete(m)
                     PROVE  NoDelete(l \o m)
          OBVIOUS
        <5>1. \A i \in DOMAIN (l \o m) :
                \/ i \in DOMAIN l /\ (l \o m)[i] = l[i]
                \/ i - Len(l) \in DOMAIN m /\ (l \o m)[i] = m[i - Len(l)]
          OBVIOUS
        <5> QED
          BY <5>1 DEF NoDelete
      <4>2. x \in Seq(Work) /\ y \in Seq(Work) /\ z \in Seq(Work)
        BY <2>5
      <4>3. NoDelete(x) /\ NoDelete(y) /\ NoDelete(z)
        BY <2>5 DEF NoDelete
      <4>4. loop' = loop \/ loop' = loop \o x \o y \o z
        BY <3>2 DEF AsyncDone
      <4> HIDE DEF x, y, z
      <4>5. NoDelete(loop \o x) /\ loop \o x \in Seq(Work)
        BY <2>2, <4>1, <4>2, <4>3
      <4>6. NoDelete((loop \o x) \o y) /\ (loop \o x) \o y \in Seq(Work)
        BY <4>1, <4>2, <4>3, <4>5
      <4>7. NoDelete(((loop \o x) \o y) \o z)
        BY <4>1, <4>2, <4>3, <4>6
      <4> QED
        BY <4>4, <4>7
    <3>3. CASE Buffering(th)
      BY <2>3, <2>5, <3>3 DEF Buffering
    <3>4. CASE PostFromMessage(th)
      BY <2>3, <2>5, <3>4 DEF PostFromMessage
    <3>5. CASE PipelineError(th)
      BY <3>5 DEF PipelineError
    <3> QED
      BY <1>3, <3>1, <3>2, <3>3, <3>4, <3>5 DEF RunCallback
  <2> QED
    BY <2>1, <2>7, LifeCallback
<1> QED
  BY <1>1, <1>2, <1>3
     DEF Streaming, EnterNeedData, EnterAsyncDone, EnterMessage

LEMMA LifeRenderer ==
  ASSUME TypeOK, LifeInv, Renderer PROVE LifeInv'
<1> USE DEF objVars
<1>1. UNCHANGED <<alive, destructing, main, pipeline, cb>>
  BY DEF Renderer, RendererReady, RendererAnswer, RendererAbort, RendererIgnore,
         RendererSeek, RendererSeekAgain, RendererSeekDone, PageCommand,
         PageDestroy
<1>2. loop' = loop \/ \E w : w.kind \notin Tasks /\ loop' = Append(loop, w)
  BY DEF Renderer, RendererReady, RendererAnswer, RendererAbort, RendererIgnore,
         RendererSeek, RendererSeekAgain, RendererSeekDone, PageCommand,
         PageDestroy, Deliver, Item, ItemOf, Tasks
<1>3. \A w : loop' = Append(loop, w) => w \in Work
  <2>1. loop' \in Seq(Work) /\ loop \in Seq(Work)
    BY RendererType DEF TypeOK
  <2>2. \A w : Append(loop, w)[Len(loop) + 1] = w
    BY <2>1
  <2>3. \A w : Len(loop) + 1 \in DOMAIN Append(loop, w)
    BY <2>1
  <2> QED
    BY <2>1, <2>2, <2>3
<1> QED
  BY <1>1, <1>2, <1>3, LifeFrame

LEMMA LifeStep == TypeOK /\ LifeInv /\ [Next]_vars => LifeInv'
<1> SUFFICES ASSUME TypeOK, LifeInv, [Next]_vars PROVE LifeInv'
  OBVIOUS
<1>1. CASE DestroyManager
  <2>1. /\ alive /\ main = "idle" /\ loop' = loop
        /\ UNCHANGED <<alive, pipeline, cb>>
        /\ \/ UNCHANGED <<destructing, main>>
           \/ ~destructing /\ destructing' = TRUE /\ main' = "joiningLast"
    BY <1>1 DEF DestroyManager, BeginDestroy
  <2> QED
    BY <2>1 DEF LifeInv
<1>2. CASE UNCHANGED vars
  BY <1>2 DEF vars, LifeInv
<1> QED
  BY <1>1, <1>2, LifeUIThread, LifeStreaming, LifeRenderer DEF Next

\* No task bound to the player with base::Unretained and no callback of a
\* streaming thread is left when the player is deleted, however Destroy, the
\* manager's end, callbacks and the tasks they post interleave.
THEOREM NoTaskOutlivesPlayer == Spec => []NoUseAfterDelete
<1>1. Init => TypeOK /\ LifeInv
  BY InitType, LifeInit
<1>2. TypeOK /\ LifeInv /\ [Next]_vars => (TypeOK /\ LifeInv)'
  BY TypeStep, LifeStep
<1>3. LifeInv => NoUseAfterDelete
  BY DEF LifeInv, NoUseAfterDelete
<1> QED
  BY <1>1, <1>2, <1>3, PTL DEF Spec

(***************************************************************************)
(* Playback under way is never marked as waiting for data                  *)
(***************************************************************************)
Marked(c) == c.underflow /\ c.gst = "PLAYING"

\* The calls that change the control state do not mark running playback
LEMMA ControlMarks ==
  ASSUME NEW c \in Control
  PROVE  /\ ~Marked(c) => ~Marked(Play(c))
         /\ Usable => ~Marked(PauseMedia(c)) /\ ~Marked(PausePage(c))
         /\ ~Marked(c) => ~Marked(PauseMedia(c)) /\ ~Marked(PausePage(c))
         /\ ~Marked(c) => \A d \in PausedForSeek(c) : ~Marked(d)
<1>1. ~Marked(c) => ~Marked(Play(c))
  BY DEF Control, Marked, Play
<1>2. Usable => ~Marked(PauseMedia(c)) /\ ~Marked(PausePage(c))
  BY DEF Control, Marked, PauseMedia, PausePage
<1>3. ~Marked(c) => ~Marked(PauseMedia(c)) /\ ~Marked(PausePage(c))
  BY DEF Control, Marked, PauseMedia, PausePage
<1>4. ~Marked(c) => \A d \in PausedForSeek(c) : ~Marked(d)
  BY <1>3 DEF PausedForSeek
<1> QED
  BY <1>1, <1>2, <1>3, <1>4

\* Steps that leave ctl alone do not make the pipeline usable, and the one that
\* builds the pipeline leaves it paused
LEMMA UnderflowFrame ==
  ASSUME UnderflowMeansPaused, ctl' = ctl, pipeline' => pipeline, error => error'
  PROVE  UnderflowMeansPaused'
  BY DEF UnderflowMeansPaused, Usable

LEMMA UnderflowStep == TypeOK /\ UnderflowMeansPaused /\ [Next]_vars
                         => UnderflowMeansPaused'
<1> SUFFICES ASSUME TypeOK, UnderflowMeansPaused, [Next]_vars
             PROVE  UnderflowMeansPaused'
  OBVIOUS
<1> USE DEF objVars
<1>1. ctl \in Control
  BY DEF TypeOK
<1>2. Usable => ~Marked(ctl)
  BY DEF UnderflowMeansPaused, Marked
<1>3. ASSUME UNCHANGED <<pipeline, error>>, Usable => ~Marked(ctl')
      PROVE  UnderflowMeansPaused'
  BY <1>3 DEF UnderflowMeansPaused, Usable, Marked
<1>4. CASE OnPlay \/ OnPause \/ PostedPlay \/ OnEndOfStream
  BY <1>1, <1>2, <1>3, <1>4, ControlMarks
     DEF OnPlay, OnPause, PostedPlay, OnEndOfStream
<1>5. CASE SetRate
  <2> DEFINE rate == Head(loop).arg
             c == IF ctl.rate = 0 THEN [Play(ctl) EXCEPT !.timer = TRUE] ELSE ctl
  <2>1. rate \in Nat
    <3>1. Head(loop) \in Work
      BY <1>5, LoopType DEF SetRate, Take
    <3> QED
      BY <3>1 DEF Work
  <2>2. c \in Control /\ (Usable => ~Marked(c))
    BY <1>1, <1>2, PlayType, ControlMarks DEF Control, Marked
  <2>3. \A d \in Control : [d EXCEPT !.rate = rate] \in Control
                           /\ (Marked([d EXCEPT !.rate = rate]) => Marked(d))
    BY <2>1 DEF Control, Marked
  <2>4. CASE rate = ctl.rate
    BY <1>2, <1>3, <1>5, <2>4 DEF SetRate
  <2>5. CASE rate # ctl.rate /\ rate = 0
    BY <1>1, <1>2, <1>3, <1>5, <2>3, <2>5, ControlMarks DEF SetRate
  <2>6. CASE rate # ctl.rate /\ rate # 0
    <3>1. /\ RequestPlayerSeek([c EXCEPT !.rate = rate])
          /\ UNCHANGED <<pipeline, error>>
      BY <1>5, <2>6 DEF SetRate
    <3> HIDE DEF c, rate
    <3> QED
      BY <1>3, <2>2, <2>3, <3>1, ControlMarks DEF RequestPlayerSeek
  <2> QED
    BY <2>4, <2>5, <2>6
<1>6. CASE Seek
  BY <1>1, <1>2, <1>3, <1>6, ControlMarks DEF Seek
<1>7. CASE OnDemuxerDataAvailable
  <2>1. ctl' = ctl \/ RequestPlayerSeek(ctl)
    BY <1>7 DEF OnDemuxerDataAvailable
  <2>2. UNCHANGED <<pipeline, error>>
    BY <1>7 DEF OnDemuxerDataAvailable
  <2> QED
    BY <1>1, <1>2, <1>3, <2>1, <2>2, ControlMarks DEF RequestPlayerSeek
<1>8. CASE HandleBufferingMessage
  <2>1. /\ [ctl EXCEPT !.underflow = TRUE] \in Control
        /\ [ctl EXCEPT !.underflow = FALSE] \in Control
        /\ ~Marked([ctl EXCEPT !.underflow = FALSE])
    BY <1>1 DEF Control, Marked
  <2> QED
    BY <1>2, <1>3, <1>8, <2>1, ControlMarks DEF HandleBufferingMessage
<1>9. CASE OnPlaybackComplete
  <2>1. Marked([ctl EXCEPT !.timer = FALSE]) => Marked(ctl)
    BY <1>1 DEF Control, Marked
  <2> QED
    BY <1>2, <1>3, <1>9, <2>1 DEF OnPlaybackComplete
<1>10. CASE OnDestroy \/ DestroyManager
  <2>1. Marked([ctl EXCEPT !.playing = FALSE, !.timer = FALSE]) => Marked(ctl)
    BY <1>1 DEF Control, Marked
  <2> QED
    BY <1>2, <1>3, <1>10, <2>1 DEF OnDestroy, DestroyManager, BeginDestroy
<1>11. CASE FinishDestroy
  BY <1>11 DEF FinishDestroy, UnderflowMeansPaused, Usable
<1>12. CASE OnDemuxerConfigsAvailable
  <2>1. \/ ctl' = ctl /\ UNCHANGED <<pipeline, error>>
        \/ ctl' = [ctl EXCEPT !.gst = "PAUSED"]
        \/ error'
    BY <1>12 DEF OnDemuxerConfigsAvailable
  <2>2. [ctl EXCEPT !.gst = "PAUSED"].gst = "PAUSED"
    BY <1>1 DEF Control
  <2> QED
    BY <2>1, <2>2 DEF UnderflowMeansPaused, Usable
<1>13. CASE OnDemuxerSeekDone \/ OnUpdateStates
            \/ \E th \in Threads : PipelineError(th)
  <2>1. ctl' = ctl /\ pipeline' = pipeline
    BY <1>13 DEF OnDemuxerSeekDone, OnUpdateStates, PipelineError
  <2>2. error => error'
    BY <1>13, Zenon DEF OnDemuxerSeekDone, OnUpdateStates, PipelineError
  <2> QED
    BY <2>1, <2>2, UnderflowFrame
<1>14. CASE \/ DropCommand \/ DeletePlayer \/ OnReadAborted \/ ReadDemuxedData
            \/ SeekStateFalse \/ OnTimeChanged
  BY <1>14, UnderflowFrame
     DEF DropCommand, DeletePlayer, OnReadAborted, ReadDemuxedData,
         SeekStateFalse, OnTimeChanged
<1>15. CASE Renderer
  <2>1. UNCHANGED <<pipeline, error, ctl>>
    BY <1>15 DEF Renderer, RendererReady, RendererAnswer, RendererAbort,
                 RendererIgnore, RendererSeek, RendererSeekAgain,
                 RendererSeekDone, PageCommand, PageDestroy
  <2> QED
    BY <2>1, UnderflowFrame
<1>16. CASE \/ \E t \in Types : Consume(t)
            \/ \E th \in Threads : \/ \E t \in Types : EnterNeedData(th, t)
                                   \/ EnterAsyncDone(th) \/ EnterMessage(th)
                                   \/ NeedData(th) \/ AsyncDone(th)
                                   \/ Buffering(th) \/ PostFromMessage(th)
  BY <1>16, UnderflowFrame
     DEF Consume, EnterNeedData, EnterAsyncDone, EnterMessage, Enter, NeedData,
         AsyncDone, Buffering, PostFromMessage
<1>17. CASE UNCHANGED vars
  BY <1>17, UnderflowFrame DEF vars
<1> QED
  BY <1>4, <1>5, <1>6, <1>7, <1>8, <1>9, <1>10, <1>11, <1>12, <1>13, <1>14,
     <1>15, <1>16, <1>17
     DEF Next, UIThread, Streaming, RunCallback

\* A pipeline that plays is never marked as paused by underflow, so that the next
\* shortage of data is always noticed, whatever the order of page commands,
\* seeks, ASYNC_DONE, buffering messages and the tasks posted for them.
THEOREM UnderflowIsPaused == Spec => []UnderflowMeansPaused
<1>1. Init => TypeOK /\ UnderflowMeansPaused
  <2>1. Init => ~Usable
    BY Zenon DEF Init, Usable
  <2> QED
    BY <2>1, InitType DEF UnderflowMeansPaused
<1>2. TypeOK /\ UnderflowMeansPaused /\ [Next]_vars
        => (TypeOK /\ UnderflowMeansPaused)'
  BY TypeStep, UnderflowStep
<1> QED
  BY <1>1, <1>2, PTL DEF Spec

(***************************************************************************)
(* Before there is a pipeline nothing was asked for and nothing was fed    *)
(***************************************************************************)
Live == ~error /\ ~destructing

Fresh ==
  ~pipeline /\ Live =>
    /\ \A i \in DOMAIN loop : loop[i].kind \in {"configs", "cmdDestroy"}
    /\ \A t \in Types : /\ reads[t] = 0 /\ ~feed[t].waiting
                        /\ feed[t].pushed = <<>> /\ feed[t].saved = <<>>
    /\ seekReqs = 0 /\ ~ctl.playing

LEMMA FreshInit == Init => Fresh
  BY DEF Init, Fresh, EmptyFeed

\* A player that failed, is destroyed or lost its pipeline stays so
LEMMA Monotone ==
  ASSUME TypeOK, LifeInv, [Next]_vars
  PROVE  /\ destructing => destructing'
         /\ error => error'
         /\ Live' /\ pipeline => pipeline'
<1> USE DEF objVars
<1>1. CASE DestroyManager
  BY <1>1 DEF DestroyManager, BeginDestroy, Live
<1>2. CASE UIThread
  <2>1. CASE OnDemuxerConfigsAvailable \/ OnDemuxerSeekDone \/ OnUpdateStates
    <3>1. destructing' = destructing
      BY <2>1 DEF OnDemuxerConfigsAvailable, OnDemuxerSeekDone, OnUpdateStates
    <3>2. error => error'
      <4>1. OnDemuxerConfigsAvailable => (error => error')
        BY Zenon DEF OnDemuxerConfigsAvailable
      <4>2. OnDemuxerSeekDone => (error => error')
        BY Zenon DEF OnDemuxerSeekDone
      <4>3. OnUpdateStates => (error => error')
        BY Zenon DEF OnUpdateStates
      <4> QED
        BY <2>1, <4>1, <4>2, <4>3
    <3>3. pipeline => pipeline'
      <4>1. OnDemuxerConfigsAvailable => (pipeline => pipeline')
        BY Zenon DEF OnDemuxerConfigsAvailable
      <4>2. OnDemuxerSeekDone \/ OnUpdateStates => (pipeline => pipeline')
        BY Zenon DEF OnDemuxerSeekDone, OnUpdateStates
      <4> QED
        BY <2>1, <4>1, <4>2
    <3> QED
      BY <3>1, <3>2, <3>3
  <2>2. CASE OnDestroy
    BY <2>2 DEF OnDestroy, BeginDestroy
  <2>3. CASE FinishDestroy
    BY <2>3 DEF FinishDestroy, LifeInv, Live
  <2>4. CASE \/ DropCommand \/ OnPlay \/ OnPause \/ SetRate \/ Seek
             \/ DeletePlayer \/ OnDemuxerDataAvailable \/ OnReadAborted
             \/ OnEndOfStream
    BY <2>4 DEF DropCommand, OnPlay, OnPause, SetRate, Seek, DeletePlayer,
                OnDemuxerDataAvailable, OnReadAborted, OnEndOfStream
  <2>5. CASE \/ ReadDemuxedData \/ PostedPlay \/ SeekStateFalse
             \/ OnTimeChanged \/ OnPlaybackComplete \/ HandleBufferingMessage
    BY <2>5 DEF ReadDemuxedData, PostedPlay, SeekStateFalse, OnTimeChanged,
                OnPlaybackComplete, HandleBufferingMessage
  <2> QED
    BY <1>2, <2>1, <2>2, <2>3, <2>4, <2>5 DEF UIThread
<1>3. CASE Streaming
  <2>1. ASSUME NEW th \in Threads, PipelineError(th)
        PROVE  UNCHANGED <<pipeline, destructing>> /\ (error => error')
    BY <2>1, Zenon DEF PipelineError
  <2>2. ASSUME NEW th \in Threads,
               \/ \E t \in Types : EnterNeedData(th, t)
               \/ EnterAsyncDone(th) \/ EnterMessage(th)
        PROVE  UNCHANGED <<pipeline, destructing, error>>
    BY <2>2 DEF EnterNeedData, EnterAsyncDone, EnterMessage, Enter
  <2>3. ASSUME NEW th \in Threads,
               \/ NeedData(th) \/ AsyncDone(th) \/ Buffering(th)
               \/ PostFromMessage(th)
        PROVE  UNCHANGED <<pipeline, destructing, error>>
    BY <2>3 DEF NeedData, AsyncDone, Buffering, PostFromMessage
  <2>4. ASSUME NEW t \in Types, Consume(t)
        PROVE  UNCHANGED <<pipeline, destructing, error>>
    BY <2>4 DEF Consume
  <2> QED
    BY <1>3, <2>1, <2>2, <2>3, <2>4 DEF Streaming, RunCallback
<1>4. CASE Renderer
  <2>1. UNCHANGED <<pipeline, destructing, error>>
    BY <1>4 DEF Renderer, RendererReady, RendererAnswer, RendererAbort,
              RendererIgnore, RendererSeek, RendererSeekAgain,
              RendererSeekDone, PageCommand, PageDestroy
  <2> QED
    BY <2>1
<1>5. CASE UNCHANGED vars
  BY <1>5 DEF vars
<1> QED
  BY <1>1, <1>2, <1>3, <1>4, <1>5 DEF Next

LEMMA FreshStep == TypeOK /\ LifeInv /\ Fresh /\ [Next]_vars => Fresh'
<1> SUFFICES ASSUME TypeOK, LifeInv, Fresh, [Next]_vars, ~pipeline', Live'
             PROVE  Fresh'
  BY DEF Fresh
<1> USE DEF objVars
<1>1. ~pipeline /\ Live
  BY Monotone DEF Live
<1>2. \A th \in Threads : cb[th] = Idle
  BY <1>1 DEF LifeInv
<1>3. loop # <<>> => Head(loop).kind \in {"configs", "cmdDestroy"}
  <2>1. loop # <<>> => 1 \in DOMAIN loop /\ Head(loop) = loop[1]
    BY DEF TypeOK
  <2> QED
    BY <1>1, <2>1 DEF Fresh
<1>4. ~UIThread /\ ~DestroyManager
  <2>1. \A k : Runs(k) => k \in {"configs", "cmdDestroy"}
    BY <1>3 DEF Runs
  <2>2. \A k \in {"configs", "cmdDestroy"} : \A j : Runs(k) /\ Runs(j) => k = j
    BY DEF Runs
  <2>3. ~OnDemuxerConfigsAvailable
    BY <1>1 DEF OnDemuxerConfigsAvailable, Live
  <2>4. ~OnDestroy /\ ~DestroyManager
    BY <1>1 DEF OnDestroy, DestroyManager, BeginDestroy, Live
  <2>5. ~DropCommand /\ ~FinishDestroy
    BY <1>1 DEF DropCommand, FinishDestroy, LifeInv, Live
  <2>6. /\ ~OnPlay /\ ~OnPause /\ ~SetRate /\ ~Seek /\ ~DeletePlayer
        /\ ~OnDemuxerDataAvailable /\ ~OnReadAborted /\ ~OnEndOfStream
        /\ ~OnDemuxerSeekDone
    BY <2>1 DEF OnPlay, OnPause, SetRate, Seek, DeletePlayer, Take,
                OnDemuxerDataAvailable, OnReadAborted, OnEndOfStream,
                OnDemuxerSeekDone
  <2>7. /\ ~ReadDemuxedData /\ ~PostedPlay /\ ~SeekStateFalse /\ ~OnTimeChanged
        /\ ~OnPlaybackComplete /\ ~HandleBufferingMessage /\ ~OnUpdateStates
    BY <2>1 DEF ReadDemuxedData, PostedPlay, SeekStateFalse, OnTimeChanged, Take,
                OnPlaybackComplete, HandleBufferingMessage, OnUpdateStates
  <2> QED
    BY <2>3, <2>4, <2>5, <2>6, <2>7 DEF UIThread
<1>5. ~Streaming
  <2>1. \A th \in Threads : ~RunCallback(th)
    BY <1>2 DEF RunCallback, NeedData, AsyncDone, Buffering, PostFromMessage,
                PipelineError, Idle
  <2> QED
    BY <1>1, <2>1 DEF Streaming, Consume, EnterNeedData, EnterAsyncDone,
                      EnterMessage, Enter
<1>6. CASE Renderer
  <2>1. \A t \in Types : reads[t] = 0
    BY <1>1 DEF Fresh
  <2>2. seekReqs = 0
    BY <1>1 DEF Fresh
  <2>3. RendererReady \/ PageDestroy
    <3>1. \A t \in Types :
            ~RendererAnswer(t) /\ ~RendererAbort(t) /\ ~RendererIgnore(t)
      BY <2>1 DEF RendererAnswer, RendererAbort, RendererIgnore
    <3>2. ~RendererSeek /\ ~RendererSeekAgain /\ ~RendererSeekDone /\ ~PageCommand
      BY <1>1, <2>2
         DEF RendererSeek, RendererSeekAgain, RendererSeekDone, PageCommand
    <3> QED
      BY <1>6, <3>1, <3>2 DEF Renderer
  <2>4. UNCHANGED <<ctl, feed, reads, seekReqs>>
    BY <2>3 DEF RendererReady, PageDestroy
  <2>5. \E k \in {"configs", "cmdDestroy"} : loop' = Append(loop, Item(k))
    BY <2>3 DEF RendererReady, PageDestroy, Deliver
  <2>6. \A i \in DOMAIN loop' : loop'[i].kind \in {"configs", "cmdDestroy"}
    <3>1. PICK k \in {"configs", "cmdDestroy"} : loop' = Append(loop, Item(k))
      BY <2>5
    <3>2. Item(k).kind = k
      BY DEF Item
    <3>3. loop \in Seq(Work)
      BY DEF TypeOK
    <3>4. \A i \in DOMAIN Append(loop, Item(k)) :
            \/ i \in DOMAIN loop /\ Append(loop, Item(k))[i] = loop[i]
            \/ Append(loop, Item(k))[i] = Item(k)
      BY <3>3
    <3> QED
      BY <1>1, <3>1, <3>2, <3>4 DEF Fresh
  <2> QED
    BY <1>1, <2>4, <2>6 DEF Fresh
<1>7. CASE UNCHANGED vars
  BY <1>1, <1>7 DEF vars, Fresh
<1> QED
  BY <1>4, <1>5, <1>6, <1>7 DEF Next

(***************************************************************************)
(* The media's first seek resumes playback                                 *)
(***************************************************************************)
In(l, k) == \E i \in DOMAIN l : l[i].kind = k
Once(l, k) == \A i, j \in DOMAIN l : l[i].kind = k /\ l[j].kind = k => i = j

LEMMA TailIn ==
  ASSUME NEW l \in Seq(Work), l # <<>>
  PROVE  /\ \A k : In(Tail(l), k) => In(l, k)
         /\ \A k : In(l, k) /\ Head(l).kind # k => In(Tail(l), k)
         /\ In(l, Head(l).kind)
         /\ \A k : Once(l, k) => Once(Tail(l), k)
         /\ Once(l, Head(l).kind) => ~In(Tail(l), Head(l).kind)
<1>1. /\ Len(l) \in Nat /\ Len(l) > 0
      /\ DOMAIN l = 1 .. Len(l) /\ DOMAIN Tail(l) = 1 .. Len(l) - 1
      /\ Head(l) = l[1] /\ 1 \in DOMAIN l
  OBVIOUS
<1>2. \A i \in DOMAIN Tail(l) : i + 1 \in DOMAIN l /\ Tail(l)[i] = l[i + 1]
                                /\ i + 1 # 1
  BY <1>1
<1>3. \A i \in DOMAIN l : i = 1 \/ (i - 1 \in DOMAIN Tail(l) /\ Tail(l)[i - 1] = l[i])
  BY <1>1
<1>4. \A k : Once(l, k) => Once(Tail(l), k)
  <2>1. \A i, j \in DOMAIN Tail(l) : i + 1 = j + 1 => i = j
    BY <1>1
  <2> QED
    BY <1>2, <2>1 DEF Once
<1>5. \A k : In(Tail(l), k) => In(l, k)
  BY <1>2 DEF In
<1>6. \A k : In(l, k) /\ Head(l).kind # k => In(Tail(l), k)
  BY <1>1, <1>3 DEF In
<1>7. In(l, Head(l).kind)
  BY <1>1 DEF In
<1>8. Once(l, Head(l).kind) => ~In(Tail(l), Head(l).kind)
  <2>1. \A i \in DOMAIN l : 1 = i => i \notin {j + 1 : j \in DOMAIN Tail(l)}
    BY <1>1
  <2> QED
    BY <1>1, <1>2, <2>1 DEF In, Once
<1> QED
  BY <1>4, <1>5, <1>6, <1>7, <1>8

LEMMA AppendIn ==
  ASSUME NEW l \in Seq(Work), NEW w \in Work
  PROVE  /\ \A k : In(Append(l, w), k) <=> In(l, k) \/ w.kind = k
         /\ \A k : Once(l, k) /\ (w.kind = k => ~In(l, k)) => Once(Append(l, w), k)
<1> DEFINE m == Append(l, w)
<1>1. /\ Len(l) + 1 \in DOMAIN m /\ m[Len(l) + 1] = w
      /\ \A i \in DOMAIN l : i \in DOMAIN m /\ m[i] = l[i]
  OBVIOUS
<1>2. \A i \in DOMAIN m : \/ i \in DOMAIN l /\ m[i] = l[i]
                          \/ i = Len(l) + 1 /\ m[i] = w
  OBVIOUS
<1> HIDE DEF m
<1>3. \A k : In(m, k) <=> In(l, k) \/ w.kind = k
  BY <1>1, <1>2 DEF In
<1>4. \A k : Once(l, k) /\ (w.kind = k => ~In(l, k)) => Once(m, k)
  BY <1>2 DEF In, Once
<1> QED
  BY <1>3, <1>4 DEF m

\* The pipeline is paused although the page wants playback, not for lack of data
Stopped ==
  ctl.playing /\ ctl.rate # 0 /\ ctl.gst = "PAUSED" /\ ~ctl.underflow

\* Stuck is excluded by what a first seek goes through: until the demuxer
\* completes it nothing was posted to end a seek; then is_seeking_ is set, until
\* ASYNC_DONE posts the task that clears it together with one that plays
ResumeInv ==
  Live /\ segment <= 1 =>
    /\ Once(loop, "seekDone")
    /\ segment = 0 => ~In(loop, "seekDone")
    /\ segment = 0 \/ In(loop, "seekDone") => ~isSeeking /\ ~In(loop, "seekFalse")
    /\ Stopped => \/ demuxerSeeking \/ In(loop, "play")
                  \/ isSeeking /\ ~In(loop, "seekFalse")

LEMMA ResumeInit == Init => ResumeInv
  BY DEF Init, ResumeInv, Stopped, In, Once

LEMMA ResumeFrame ==
  ASSUME ResumeInv, Live' => Live, UNCHANGED <<segment, isSeeking>>,
         demuxerSeeking => demuxerSeeking',
         \A k \in {"seekDone", "seekFalse"} : In(loop', k) => In(loop, k),
         Once(loop, "seekDone") => Once(loop', "seekDone"),
         Live' /\ Stopped' => \/ Stopped /\ (In(loop, "play") => In(loop', "play"))
                              \/ demuxerSeeking'
  PROVE  ResumeInv'
  BY DEF ResumeInv

LEMMA ResumeStep ==
  TypeOK /\ LifeInv /\ Fresh /\ ResumeInv /\ [Next]_vars => ResumeInv'
<1> SUFFICES ASSUME TypeOK, LifeInv, Fresh, ResumeInv, [Next]_vars
             PROVE  ResumeInv'
  OBVIOUS
<1> USE DEF objVars, seekVars, rendVars, pageVars, Take
<1>0. /\ loop \in Seq(Work) /\ ctl \in Control
      /\ (Live' => Live)
      /\ (Live' /\ ~pipeline => ~ctl.playing /\ ~In(loop, "play"))
  <2>1. Live' => Live
    BY Monotone DEF Live
  <2>2. Live /\ ~pipeline => ~ctl.playing /\ ~In(loop, "play")
    BY DEF Fresh, In
  <2> QED
    BY <2>1, <2>2 DEF TypeOK
<1>a. \A k : Runs(k) => /\ loop # <<>> /\ Head(loop).kind = k
                        /\ Tail(loop) \in Seq(Work) /\ Head(loop) \in Work
  BY LoopType DEF Runs
<1>b. ASSUME NEW k, Runs(k),
             \/ loop' = Tail(loop)
             \/ \E w \in Work : w.kind = "read" /\ loop' = Append(Tail(loop), w)
      PROVE  /\ \A j \in {"seekDone", "seekFalse"} : In(loop', j) => In(loop, j)
             /\ Once(loop, "seekDone") => Once(loop', "seekDone")
             /\ k # "play" => (In(loop, "play") => In(loop', "play"))
  <2>1. /\ \A j : In(Tail(loop), j) => In(loop, j)
        /\ Once(loop, "seekDone") => Once(Tail(loop), "seekDone")
        /\ k # "play" => (In(loop, "play") => In(Tail(loop), "play"))
    <3>1. loop # <<>> /\ Head(loop).kind = k
      BY <1>a, <1>b
    <3> QED
      BY <1>0, <3>1, TailIn
  <2>2. CASE loop' = Tail(loop)
    BY <2>1, <2>2
  <2>3. CASE \E w \in Work : w.kind = "read" /\ loop' = Append(Tail(loop), w)
    <3>1. PICK w \in Work : w.kind = "read" /\ loop' = Append(Tail(loop), w)
      BY <2>3
    <3>2. Tail(loop) \in Seq(Work)
      BY <1>a, <1>b
    <3>3. /\ \A j : In(loop', j) <=> In(Tail(loop), j) \/ j = "read"
          /\ Once(Tail(loop), "seekDone") => Once(loop', "seekDone")
      BY <3>1, <3>2, AppendIn
    <3> QED
      BY <2>1, <3>3
  <2> QED
    BY <1>b, <2>2, <2>3
<1>c. ASSUME NEW w \in Work, loop' = Append(loop, w),
             w.kind \notin {"seekDone", "seekFalse"}
      PROVE  /\ \A j \in {"seekDone", "seekFalse"} : In(loop', j) => In(loop, j)
             /\ Once(loop, "seekDone") => Once(loop', "seekDone")
             /\ In(loop, "play") => In(loop', "play")
  BY <1>0, <1>c, AppendIn
<1>1. CASE OnPlay \/ PostedPlay
  <2>1. (Runs("cmdPlay") \/ Runs("play")) /\ loop' = Tail(loop) /\ ctl' = Play(ctl)
        /\ UNCHANGED <<segment, isSeeking, demuxerSeeking, error, pipeline, destructing>>
    BY <1>1 DEF OnPlay, PostedPlay
  <2>2. Usable => ~Stopped'
    BY <1>0, <2>1 DEF Play, Stopped, Control
  <2>3. Live' /\ ~Usable => ~Stopped'
    BY <1>0, <2>1 DEF Play, Stopped, Usable, Live
  <2> QED
    BY <1>0, <1>b, <2>1, <2>2, <2>3, ResumeFrame
<1>2. CASE OnPause \/ OnPlaybackComplete
  <2>1. Runs("cmdPause") \/ Runs("complete")
    BY <1>2 DEF OnPause, OnPlaybackComplete
  <2>2. loop' = Tail(loop) /\ UNCHANGED <<segment, isSeeking, demuxerSeeking>>
    BY <1>2 DEF OnPause, OnPlaybackComplete
  <2>3. Stopped' => Stopped
    BY <1>0, <1>2 DEF OnPause, OnPlaybackComplete, PausePage, Stopped, Control
  <2> QED
    BY <1>0, <1>b, <2>1, <2>2, <2>3, ResumeFrame
<1>3. CASE SetRate
  <2>1. Runs("cmdRate") /\ loop' = Tail(loop) /\ UNCHANGED <<segment, isSeeking>>
    BY <1>3 DEF SetRate
  <2>2. \/ UNCHANGED <<ctl, demuxerSeeking>>
        \/ ctl' = PauseMedia([ctl EXCEPT !.rate = 0]) /\ UNCHANGED demuxerSeeking
        \/ demuxerSeeking'
    BY <1>3 DEF SetRate, RequestPlayerSeek
  <2>3. Stopped' => Stopped \/ demuxerSeeking'
    BY <1>0, <2>2 DEF PauseMedia, Stopped, Control
  <2> QED
    BY <1>0, <1>b, <2>1, <2>2, <2>3, ResumeFrame
<1>4. CASE Seek
  <2>1. Runs("cmdSeek") /\ loop' = Tail(loop) /\ demuxerSeeking'
        /\ UNCHANGED <<segment, isSeeking>>
    BY <1>4 DEF Seek
  <2> QED
    BY <1>0, <1>b, <2>1, ResumeFrame
<1>5. CASE OnDestroy \/ DestroyManager \/ FinishDestroy \/ DropCommand \/ DeletePlayer
  <2>1. destructing'
    <3>1. CASE OnDestroy
      BY <3>1 DEF OnDestroy, BeginDestroy
    <3>2. CASE DestroyManager
      BY <3>2 DEF DestroyManager, BeginDestroy
    <3>3. CASE FinishDestroy \/ DropCommand
      BY <3>3 DEF FinishDestroy, DropCommand, LifeInv
    <3>4. CASE DeletePlayer
      <4>1. ~NoDelete(loop)
        <5>1. 1 \in DOMAIN loop /\ loop[1].kind = "delete"
          BY <1>0, <1>a, <3>4 DEF DeletePlayer
        <5> QED
          BY <5>1 DEF NoDelete
      <4> QED
        BY <3>4, <4>1 DEF DeletePlayer, LifeInv, Runs
    <3> QED
      BY <1>5, <3>1, <3>2, <3>3, <3>4
  <2> QED
    BY <2>1 DEF ResumeInv, Live
<1>6. CASE OnDemuxerConfigsAvailable
  <2>1. Runs("configs") /\ loop' = Tail(loop)
        /\ UNCHANGED <<segment, isSeeking, demuxerSeeking>>
    BY <1>6 DEF OnDemuxerConfigsAvailable
  <2>2. \/ ctl' = ctl
        \/ ~pipeline /\ ctl' = [ctl EXCEPT !.gst = "PAUSED"]
    BY <1>6 DEF OnDemuxerConfigsAvailable
  <2>3. Live' /\ Stopped' => Stopped
    BY <1>0, <2>2 DEF Stopped, Control
  <2> QED
    BY <1>0, <1>b, <2>1, <2>3, ResumeFrame
<1>7. CASE OnDemuxerDataAvailable
  <2>1. Runs("data") /\ UNCHANGED <<segment, isSeeking>>
        /\ \/ loop' = Tail(loop)
           \/ loop' = Append(Tail(loop), ItemOf("read", Head(loop).type))
    BY <1>7 DEF OnDemuxerDataAvailable, Post, Done
  <2>2. ItemOf("read", Head(loop).type) \in Work
        /\ ItemOf("read", Head(loop).type).kind = "read"
    BY <1>a, <2>1, ItemType DEF Work, Kinds, Tasks, ItemOf, Item
  <2>3. UNCHANGED <<ctl, demuxerSeeking>> \/ RequestPlayerSeek(ctl)
    BY <1>7 DEF OnDemuxerDataAvailable
  <2>4. UNCHANGED <<ctl, demuxerSeeking>> \/ demuxerSeeking'
    BY <2>3 DEF RequestPlayerSeek
  <2>5. Stopped' => Stopped \/ demuxerSeeking'
    BY <2>4 DEF Stopped
  <2>6. demuxerSeeking => demuxerSeeking'
    BY <2>4
  <2> QED
    BY <1>0, <1>b, <2>1, <2>2, <2>5, <2>6, ResumeFrame
<1>8. CASE OnReadAborted
  <2>1. Runs("aborted") /\ UNCHANGED <<segment, isSeeking, demuxerSeeking, ctl>>
        /\ \/ loop' = Tail(loop)
           \/ loop' = Append(Tail(loop), ItemOf("read", Head(loop).type))
    BY <1>8 DEF OnReadAborted, Post, Done
  <2>2. ItemOf("read", Head(loop).type) \in Work
        /\ ItemOf("read", Head(loop).type).kind = "read"
    BY <1>a, <2>1, ItemType DEF Work, Kinds, Tasks, ItemOf, Item
  <2>3. Stopped' => Stopped
    BY <2>1 DEF Stopped
  <2> QED
    BY <1>0, <1>b, <2>1, <2>2, <2>3, ResumeFrame
<1>9. CASE OnEndOfStream
  <2>1. Runs("endOfStream") /\ loop' = Tail(loop)
        /\ UNCHANGED <<segment, isSeeking, demuxerSeeking>>
        /\ ctl' \in {ctl, Play(ctl)}
    BY <1>9 DEF OnEndOfStream
  <2>2. Stopped' => Stopped
    BY <1>0, <2>1 DEF Stopped, Play, Control
  <2> QED
    BY <1>0, <1>b, <2>1, <2>2, ResumeFrame
<1>10. CASE OnDemuxerSeekDone
  <2>1. Runs("seekDone") /\ loop' = Tail(loop)
        /\ UNCHANGED <<segment, ctl>>
    BY <1>10 DEF OnDemuxerSeekDone
  <2>2. In(loop, "seekDone") /\ (Once(loop, "seekDone") => ~In(loop', "seekDone"))
        /\ (In(loop', "seekFalse") => In(loop, "seekFalse"))
        /\ (Once(loop, "seekDone") => Once(loop', "seekDone"))
    BY <1>0, <1>a, <2>1, TailIn
  <2>3. Live' => isSeeking'
    <3>1. Live' => Usable
      BY <1>0, <2>2 DEF Fresh, Live, Usable, In
    <3> QED
      BY <1>10, <3>1 DEF OnDemuxerSeekDone
  <2> QED
    BY <1>0, <2>1, <2>2, <2>3 DEF ResumeInv
<1>11. CASE SeekStateFalse
  <2>1. Runs("seekFalse") /\ loop' = Tail(loop) /\ ~isSeeking'
        /\ UNCHANGED <<segment, demuxerSeeking, ctl>>
    BY <1>11 DEF SeekStateFalse
  <2>2. /\ In(loop, "seekFalse")
        /\ \A k : In(loop', k) => In(loop, k)
        /\ In(loop, "play") => In(loop', "play")
        /\ Once(loop, "seekDone") => Once(loop', "seekDone")
    BY <1>0, <1>a, <2>1, TailIn
  <2>3. Stopped' => Stopped
    BY <2>1 DEF Stopped
  <2> QED
    BY <1>0, <2>1, <2>2, <2>3 DEF ResumeInv
<1>12. CASE ReadDemuxedData \/ OnTimeChanged \/ OnUpdateStates
  <2>1. /\ Runs("read") \/ Runs("timeChanged") \/ Runs("states")
        /\ loop' = Tail(loop) /\ UNCHANGED <<segment, isSeeking, demuxerSeeking, ctl>>
    BY <1>12 DEF ReadDemuxedData, OnTimeChanged, OnUpdateStates
  <2>2. Stopped' => Stopped
    BY <2>1 DEF Stopped
  <2> QED
    BY <1>0, <1>b, <2>1, <2>2, ResumeFrame
<1>13. CASE HandleBufferingMessage
  <2>1. Runs("buffering") /\ loop' = Tail(loop)
        /\ UNCHANGED <<segment, isSeeking, demuxerSeeking, pipeline, error, destructing>>
        /\ ctl' \in {ctl, PauseMedia([ctl EXCEPT !.underflow = TRUE]),
                     Play([ctl EXCEPT !.underflow = FALSE])}
    BY <1>13 DEF HandleBufferingMessage
  <2>2. Live' /\ Stopped' => Stopped
    BY <1>0, <2>1 DEF Stopped, Play, PauseMedia, Control, Usable, Live
  <2> QED
    BY <1>0, <1>b, <2>1, <2>2, ResumeFrame
<1>14. ASSUME NEW th \in Threads, AsyncDone(th) PROVE ResumeInv'
  <2>1. UNCHANGED <<segment, isSeeking, demuxerSeeking, ctl>>
        /\ \/ UNCHANGED loop
           \/ /\ isSeeking
              /\ loop' = loop \o <<Item("seekFalse")>>
                          \o (IF ctl.playing THEN <<Item("play")>> ELSE <<>>)
                          \o <<Item("timeChanged")>>
    BY <1>14 DEF AsyncDone
  <2>2. /\ \A k \in {"seekFalse", "play", "timeChanged"} :
             Item(k) \in Work /\ Item(k).kind = k
        /\ \A l \in Seq(Work), w \in Work : l \o <<w>> = Append(l, w)
                                            /\ Append(l, w) \in Seq(Work)
        /\ \A l \in Seq(Work) : l \o <<>> = l
    BY ItemType DEF Kinds, Tasks, Media, Item
  <2>3. CASE UNCHANGED loop
    <3>1. Stopped' => Stopped
      BY <2>1 DEF Stopped
    <3> QED
      BY <1>0, <2>1, <2>3, <3>1, ResumeFrame
  <2>4. CASE loop' # loop
    <3> DEFINE a == Append(loop, Item("seekFalse"))
               b == IF ctl.playing THEN Append(a, Item("play")) ELSE a
    <3>1. loop' = Append(b, Item("timeChanged"))
      BY <1>0, <2>1, <2>2, <2>4
    <3>2. a \in Seq(Work) /\ b \in Seq(Work)
      BY <1>0, <2>2
    <3>3. /\ In(a, "seekDone") => In(loop, "seekDone")
          /\ Once(loop, "seekDone") => Once(a, "seekDone")
      BY <1>0, <2>2, AppendIn
    <3>4. /\ In(b, "seekDone") => In(a, "seekDone")
          /\ Once(a, "seekDone") => Once(b, "seekDone")
          /\ ctl.playing => In(b, "play")
      <4>1. CASE ctl.playing
        <5> HIDE DEF a
        <5> QED
          BY <2>2, <3>2, <4>1, AppendIn
      <4>2. CASE ~ctl.playing
        BY <4>2
      <4> QED
        BY <4>1, <4>2
    <3>5. /\ In(loop', "seekDone") => In(b, "seekDone")
          /\ Once(b, "seekDone") => Once(loop', "seekDone")
          /\ In(b, "play") => In(loop', "play")
      <4> HIDE DEF b
      <4> QED
        BY <2>2, <3>1, <3>2, AppendIn
    <3>6. isSeeking /\ (Stopped' => ctl.playing)
      BY <2>1, <2>4 DEF Stopped
    <3> HIDE DEF a, b
    <3> QED
      BY <1>0, <2>1, <3>3, <3>4, <3>5, <3>6 DEF ResumeInv
  <2> QED
    BY <2>3, <2>4
<1>15. CASE \/ \E t \in Types : Consume(t)
            \/ \E th \in Threads : \/ \E t \in Types : EnterNeedData(th, t)
                                   \/ EnterAsyncDone(th) \/ EnterMessage(th)
                                   \/ PipelineError(th)
  <2>1. UNCHANGED <<loop, segment, isSeeking, demuxerSeeking, ctl>>
    BY <1>15 DEF Consume, EnterNeedData, EnterAsyncDone, EnterMessage, Enter,
                 PipelineError
  <2>2. Stopped' => Stopped
    BY <2>1 DEF Stopped
  <2> QED
    BY <1>0, <2>1, <2>2, ResumeFrame
<1>16. ASSUME NEW th \in Threads, NeedData(th) \/ Buffering(th) \/ PostFromMessage(th)
       PROVE ResumeInv'
  <2>1. UNCHANGED <<segment, isSeeking, demuxerSeeking, ctl>>
    BY <1>16 DEF NeedData, Buffering, PostFromMessage
  <2>2. cb[th].type \in Media
    BY DEF TypeOK, Callback
  <2>3. /\ \A k \in {"buffering", "complete", "states"} :
             Item(k) \in Work /\ Item(k).kind = k
        /\ ItemOf("read", cb[th].type) \in Work
        /\ ItemOf("read", cb[th].type).kind = "read"
    BY <2>2, ItemType DEF Kinds, Tasks, Media, Item, ItemOf
  <2>4. \/ UNCHANGED loop
        \/ \E w \in {Item("buffering"), Item("complete"), Item("states"),
                     ItemOf("read", cb[th].type)} : loop' = Append(loop, w)
    BY <1>16 DEF NeedData, Buffering, PostFromMessage
  <2>5. Stopped' => Stopped
    BY <2>1 DEF Stopped
  <2> QED
    BY <1>0, <1>c, <2>1, <2>3, <2>4, <2>5, ResumeFrame
<1>17. CASE RendererSeekDone \/ RendererSeekAgain
  <2>1. UNCHANGED <<isSeeking, demuxerSeeking, ctl>>
    BY <1>17 DEF RendererSeekDone, RendererSeekAgain
  <2>2. CASE UNCHANGED <<loop, segment>>
    <3>1. Stopped' => Stopped
      BY <2>1 DEF Stopped
    <3> QED
      BY <1>0, <2>1, <2>2, <3>1, ResumeFrame
  <2>3. CASE /\ segment' = segment + 1
             /\ loop' = Append(loop, [Item("seekDone") EXCEPT !.buf.seg = segment + 1])
    <3> DEFINE w == [Item("seekDone") EXCEPT !.buf.seg = segment + 1]
    <3>1. w.kind = "seekDone"
      BY DEF Item
    <3>2. w \in Work
      BY DEF Item, NoBuffer, Work, Buffer, Kinds, Demuxer, Media, TypeOK
    <3> HIDE DEF w
    <3>3. /\ \A k : In(loop', k) <=> In(loop, k) \/ w.kind = k
          /\ Once(loop, "seekDone") /\ ~In(loop, "seekDone") => Once(loop', "seekDone")
      BY <1>0, <2>3, <3>2, AppendIn DEF w
    <3>4. segment \in Nat /\ (segment' <= 1 => segment = 0 /\ segment' # 0)
      BY <2>3 DEF TypeOK
    <3>5. Stopped' => Stopped
      BY <2>1 DEF Stopped
    <3> QED
      BY <1>0, <2>1, <3>1, <3>3, <3>4, <3>5 DEF ResumeInv
  <2> QED
    BY <1>17, <2>2, <2>3 DEF RendererSeekDone, RendererSeekAgain, Deliver
<1>18. CASE \/ RendererReady \/ RendererSeek \/ PageCommand \/ PageDestroy
            \/ \E t \in Types : \/ RendererAnswer(t) \/ RendererAbort(t)
                                \/ RendererIgnore(t)
  <2>1. UNCHANGED <<segment, isSeeking, demuxerSeeking, ctl>>
    BY <1>18 DEF RendererReady, RendererSeek, PageCommand, PageDestroy,
                 RendererAnswer, RendererAbort, RendererIgnore
  <2>2. \/ UNCHANGED loop
        \/ \E w : w.kind \notin {"seekDone", "seekFalse"} /\ loop' = Append(loop, w)
    BY <1>18 DEF RendererReady, RendererSeek, PageCommand, PageDestroy,
                 RendererAnswer, RendererAbort, RendererIgnore, Deliver, Item, ItemOf
  <2>3. \A w : loop' = Append(loop, w) => w \in Work
    <3>1. loop' \in Seq(Work)
      BY <1>18, RendererType DEF TypeOK, Renderer
    <3>2. \A w : Len(loop) + 1 \in DOMAIN Append(loop, w)
                 /\ Append(loop, w)[Len(loop) + 1] = w
      BY <1>0
    <3> QED
      BY <1>0, <3>1, <3>2
  <2>4. Stopped' => Stopped
    BY <2>1 DEF Stopped
  <2> QED
    BY <1>0, <1>c, <2>1, <2>2, <2>3, <2>4, ResumeFrame
<1>19. CASE UNCHANGED vars
  <2>1. Stopped' => Stopped
    BY <1>19 DEF vars, Stopped
  <2> QED
    BY <1>0, <1>19, <2>1, ResumeFrame DEF vars
<1> QED
  BY <1>1, <1>2, <1>3, <1>4, <1>5, <1>6, <1>7, <1>8, <1>9, <1>10, <1>11, <1>12,
     <1>13, <1>14, <1>15, <1>16, <1>17, <1>18, <1>19
     DEF Next, UIThread, Streaming, Renderer, RunCallback

\* The media's first seek resumes playback, whatever the order of ASYNC_DONE,
\* buffering messages, page commands and the tasks posted for them, for any
\* streams, rates and number of commands.
THEOREM FirstSeekIsOver == Spec => []FirstSeekResumes
<1> DEFINE Inv == TypeOK /\ LifeInv /\ Fresh /\ ResumeInv
<1>1. Init => Inv
  BY InitType, LifeInit, FreshInit, ResumeInit
<1>2. Inv /\ [Next]_vars => Inv'
  BY TypeStep, LifeStep, FreshStep, ResumeStep
<1>3. Inv => FirstSeekResumes
  BY DEF ResumeInv, FirstSeekResumes, Stuck, Stopped, Usable, Live, InLoop, In
<1> QED
  BY <1>1, <1>2, <1>3, PTL DEF Spec

(***************************************************************************)
(* Buffers on their way from the demuxer to an appsrc                      *)
(***************************************************************************)
Held(f) == f.pushed \o f.saved
Elems(q) == {q[i] : i \in DOMAIN q}
Increasing(q) == \A i, j \in DOMAIN q : i < j => q[i].no < q[j].no

IsData(w, t) == w.kind = "data" /\ w.type = t
IsDone(w) == w.kind = "seekDone"
InFlow(w) == w.kind \in {"data", "seekDone"}

\* The segments of what the loop l holds: c is the player's, s the demuxer's. No
\* buffer is of an earlier segment than c, each seek from c to s is announced
\* once and in order, and behind an announcement no buffer precedes its seek
Segs(c, l, s) ==
  /\ c \in Nat /\ c <= s
  /\ \A i \in DOMAIN l :
       /\ l[i].kind = "data" => c <= l[i].buf.seg /\ l[i].buf.seg <= s
       /\ IsDone(l[i]) => c < l[i].buf.seg /\ l[i].buf.seg <= s
  /\ \A i, j \in DOMAIN l : i < j =>
       /\ InFlow(l[i]) /\ IsDone(l[j]) => l[i].buf.seg < l[j].buf.seg
       /\ IsDone(l[i]) /\ l[j].kind = "data" => l[i].buf.seg <= l[j].buf.seg
  /\ \A n \in c + 1 .. s : \E i \in DOMAIN l : IsDone(l[i]) /\ l[i].buf.seg = n

\* The buffers of stream t are in order in the loop and behind what the player
\* holds of them, the set R; nx is the last the demuxer read of segment s
Numbers(t, c, l, R, nx, s) ==
  /\ \A i \in DOMAIN l : IsData(l[i], t) => 0 < l[i].buf.no
  /\ \A i, j \in DOMAIN l :
       /\ i < j /\ IsData(l[i], t) /\ IsData(l[j], t)
       /\ l[i].buf.seg = l[j].buf.seg
       => l[i].buf.no < l[j].buf.no
  /\ \A x \in R : \A i \in DOMAIN l :
       IsData(l[i], t) /\ l[i].buf.seg = c => x.no < l[i].buf.no
  /\ \A i \in DOMAIN l : IsData(l[i], t) /\ l[i].buf.seg = s => l[i].buf.no <= nx
  /\ c = s => \A x \in R : x.no <= nx

\* Buffer b belongs behind all of R
Behind(R, b) == \A x \in R : x.seg = b.seg /\ x.no < b.no

\* The player has buffer n, or may lack it: the stream ended (e), or it lies
\* before the seek position o
Has(R, e, o, n) == e \/ n <= o \/ \E x \in R : x.no = n

\* Buffer n of segment m is under way, or the player has it
Got(t, c, l, R, e, o, m, n) ==
  \/ \E i \in DOMAIN l : IsData(l[i], t) /\ l[i].buf.seg = m /\ l[i].buf.no = n
  \/ m = c /\ Has(R, e, o, n)

Covered(t, c, l, R, e, o, nx, s) ==
  /\ \A i \in DOMAIN l : IsData(l[i], t) =>
       \A n \in 1 .. l[i].buf.no : Got(t, c, l, R, e, o, l[i].buf.seg, n)
  /\ \A n \in 1 .. nx : Got(t, c, l, R, e, o, s, n)

Flow(t, c, l, R, e, o, nx, s) ==
  /\ \A x \in R : x.seg = c
  /\ Numbers(t, c, l, R, nx, s)
  /\ Covered(t, c, l, R, e, o, nx, s)

\* m is l but for items that are not part of the flow, or of t's
Shifted(l, m, d) ==
  /\ \A j \in DOMAIN m : InFlow(m[j]) => j + d \in DOMAIN l /\ l[j + d] = m[j]
  /\ \A i \in DOMAIN l : InFlow(l[i]) => i - d \in DOMAIN m /\ m[i - d] = l[i]
ShiftedData(t, l, m, d) ==
  /\ \A j \in DOMAIN m : IsData(m[j], t) => j + d \in DOMAIN l /\ l[j + d] = m[j]
  /\ \A i \in DOMAIN l : IsData(l[i], t) => i - d \in DOMAIN m /\ m[i - d] = l[i]

LEMMA WorkData ==
  ASSUME NEW l \in Seq(Work), NEW i \in DOMAIN l
  PROVE  i \in Nat /\ l[i].buf.seg \in Nat /\ l[i].buf.no \in Nat /\ l[i].type \in Media
<1>1. l[i] \in Work /\ i \in Nat
  OBVIOUS
<1> QED
  BY <1>1 DEF Work, Buffer

LEMMA TailIndex ==
  ASSUME NEW l \in Seq(Work), l # <<>>
  PROVE  /\ Tail(l) \in Seq(Work) /\ 1 \in DOMAIN l /\ Head(l) = l[1]
         /\ \A i \in DOMAIN Tail(l) :
              i \in Nat /\ 0 < i /\ i + 1 \in DOMAIN l /\ Tail(l)[i] = l[i + 1]
         /\ \A i \in DOMAIN l :
              i # 1 => 1 < i /\ i - 1 \in DOMAIN Tail(l) /\ Tail(l)[i - 1] = l[i]
  OBVIOUS

LEMMA AppendIndex ==
  ASSUME NEW l \in Seq(Work), NEW w \in Work
  PROVE  /\ Append(l, w) \in Seq(Work)
         /\ Len(l) + 1 \in DOMAIN Append(l, w) /\ Append(l, w)[Len(l) + 1] = w
         /\ \A i \in DOMAIN l :
              /\ i \in Nat /\ i < Len(l) + 1
              /\ i \in DOMAIN Append(l, w) /\ Append(l, w)[i] = l[i]
         /\ \A i \in DOMAIN Append(l, w) :
              \/ i \in DOMAIN l
              \/ i = Len(l) + 1
  OBVIOUS

LEMMA ShiftedTail ==
  ASSUME NEW l \in Seq(Work), l # <<>>
  PROVE  /\ ~InFlow(Head(l)) => Shifted(l, Tail(l), 1)
         /\ \A t : ~IsData(Head(l), t) => ShiftedData(t, l, Tail(l), 1)
<1>1. ~InFlow(Head(l)) => Shifted(l, Tail(l), 1)
  BY TailIndex DEF Shifted
<1>2. ASSUME NEW t, ~IsData(Head(l), t) PROVE ShiftedData(t, l, Tail(l), 1)
  BY <1>2, TailIndex DEF ShiftedData
<1> QED
  BY <1>1, <1>2

LEMMA ShiftedAppend ==
  ASSUME NEW l \in Seq(Work), NEW w \in Work
  PROVE  /\ ~InFlow(w) => Shifted(l, Append(l, w), 0)
         /\ \A t : ~IsData(w, t) => ShiftedData(t, l, Append(l, w), 0)
<1> DEFINE m == Append(l, w)
<1>1. /\ m[Len(l) + 1] = w
      /\ \A i \in DOMAIN l : i + 0 = i /\ i - 0 = i /\ i \in DOMAIN m /\ m[i] = l[i]
      /\ \A i \in DOMAIN m : i + 0 = i /\ (i \in DOMAIN l \/ i = Len(l) + 1)
  OBVIOUS
<1> HIDE DEF m
<1>2. ~InFlow(w) => Shifted(l, m, 0)
  BY <1>1 DEF Shifted
<1>3. ASSUME NEW t, ~IsData(w, t) PROVE ShiftedData(t, l, m, 0)
  BY <1>1, <1>3 DEF ShiftedData
<1> QED
  BY <1>2, <1>3 DEF m

LEMMA ShiftedFlow ==
  ASSUME NEW l, NEW m, NEW d, Shifted(l, m, d), NEW t
  PROVE  ShiftedData(t, l, m, d)
  BY DEF Shifted, ShiftedData, InFlow, IsData

LEMMA SegsShift ==
  ASSUME NEW l \in Seq(Work), NEW m \in Seq(Work), NEW d \in {0, 1},
         Shifted(l, m, d), NEW c, NEW s \in Nat, Segs(c, l, s)
  PROVE  Segs(c, m, s)
<1>1. c \in Nat /\ c <= s
  BY DEF Segs
<1>2. \A i \in DOMAIN m :
        /\ m[i].kind = "data" => c <= m[i].buf.seg /\ m[i].buf.seg <= s
        /\ IsDone(m[i]) => c < m[i].buf.seg /\ m[i].buf.seg <= s
  BY DEF Segs, Shifted, InFlow, IsDone
<1>3. ASSUME NEW i \in DOMAIN m, NEW j \in DOMAIN m, i < j
      PROVE  /\ InFlow(m[i]) /\ IsDone(m[j]) => m[i].buf.seg < m[j].buf.seg
             /\ IsDone(m[i]) /\ m[j].kind = "data" => m[i].buf.seg <= m[j].buf.seg
  <2>1. i + d < j + d
    BY <1>3
  <2>2. /\ InFlow(m[i]) => i + d \in DOMAIN l /\ l[i + d] = m[i]
        /\ InFlow(m[j]) => j + d \in DOMAIN l /\ l[j + d] = m[j]
    BY DEF Shifted
  <2> QED
    BY <2>1, <2>2 DEF Segs, InFlow, IsDone
<1>4. \A n \in c + 1 .. s : \E i \in DOMAIN m : IsDone(m[i]) /\ m[i].buf.seg = n
  <2> SUFFICES ASSUME NEW n \in c + 1 .. s
               PROVE  \E i \in DOMAIN m : IsDone(m[i]) /\ m[i].buf.seg = n
    OBVIOUS
  <2>1. PICK i \in DOMAIN l : IsDone(l[i]) /\ l[i].buf.seg = n
    BY DEF Segs
  <2> QED
    BY <2>1 DEF Shifted, InFlow, IsDone
<1> QED
  BY <1>1, <1>2, <1>3, <1>4 DEF Segs

LEMMA FlowShift ==
  ASSUME NEW l \in Seq(Work), NEW m \in Seq(Work), NEW d \in {0, 1}, NEW t,
         ShiftedData(t, l, m, d),
         NEW c, NEW R, NEW e, NEW o, NEW nx, NEW s, Flow(t, c, l, R, e, o, nx, s)
  PROVE  Flow(t, c, m, R, e, o, nx, s)
<1>1. Numbers(t, c, m, R, nx, s)
  <2>1. \A i \in DOMAIN m : IsData(m[i], t) => 0 < m[i].buf.no
    BY DEF Flow, Numbers, ShiftedData
  <2>2. ASSUME NEW i \in DOMAIN m, NEW j \in DOMAIN m, i < j,
               IsData(m[i], t), IsData(m[j], t), m[i].buf.seg = m[j].buf.seg
        PROVE  m[i].buf.no < m[j].buf.no
    <3>1. i + d < j + d
      BY <2>2
    <3>2. /\ i + d \in DOMAIN l /\ l[i + d] = m[i]
          /\ j + d \in DOMAIN l /\ l[j + d] = m[j]
      BY <2>2 DEF ShiftedData
    <3> QED
      BY <2>2, <3>1, <3>2 DEF Flow, Numbers
  <2>3. \A x \in R : \A i \in DOMAIN m :
          IsData(m[i], t) /\ m[i].buf.seg = c => x.no < m[i].buf.no
    BY DEF Flow, Numbers, ShiftedData
  <2>4. \A i \in DOMAIN m : IsData(m[i], t) /\ m[i].buf.seg = s => m[i].buf.no <= nx
    BY DEF Flow, Numbers, ShiftedData
  <2>5. c = s => \A x \in R : x.no <= nx
    BY DEF Flow, Numbers
  <2> QED
    BY <2>1, <2>2, <2>3, <2>4, <2>5 DEF Numbers
<1>2. \A k, n : Got(t, c, l, R, e, o, k, n) => Got(t, c, m, R, e, o, k, n)
  BY DEF Got, ShiftedData
<1>3. Covered(t, c, m, R, e, o, nx, s)
  <2>1. ASSUME NEW i \in DOMAIN m, IsData(m[i], t), NEW n \in 1 .. m[i].buf.no
        PROVE  Got(t, c, m, R, e, o, m[i].buf.seg, n)
    <3>1. i + d \in DOMAIN l /\ l[i + d] = m[i]
      BY <2>1 DEF ShiftedData
    <3> QED
      BY <1>2, <2>1, <3>1 DEF Flow, Covered
  <2>2. \A n \in 1 .. nx : Got(t, c, m, R, e, o, s, n)
    BY <1>2 DEF Flow, Covered
  <2> QED
    BY <2>1, <2>2 DEF Covered
<1> QED
  BY <1>1, <1>3 DEF Flow

\* The UI thread takes a buffer off the loop: it is of the player's segment, and
\* the next one of its stream
LEMMA TakeDataSegs ==
  ASSUME NEW l \in Seq(Work), l # <<>>, Head(l).kind = "data",
         NEW c, NEW s \in Nat, Segs(c, l, s)
  PROVE  Head(l).buf.seg = c /\ Segs(c, Tail(l), s)
<1>1. Head(l) = l[1] /\ 1 \in DOMAIN l /\ c \in Nat /\ l[1].buf.seg \in Nat
  BY TailIndex, WorkData DEF Segs
<1>2. c <= l[1].buf.seg /\ l[1].buf.seg <= s
  BY <1>1 DEF Segs
<1>3. ~(c + 1 <= l[1].buf.seg)
  <2> SUFFICES ASSUME c + 1 <= l[1].buf.seg PROVE FALSE
    OBVIOUS
  <2>1. c + 1 \in c + 1 .. s
    BY <1>1, <1>2
  <2>2. PICK i \in DOMAIN l : IsDone(l[i]) /\ l[i].buf.seg = c + 1
    BY <2>1 DEF Segs
  <2>3. 1 < i
    BY <1>1, <2>2, TailIndex DEF IsDone
  <2>4. l[1].buf.seg < l[i].buf.seg
    BY <1>1, <2>2, <2>3 DEF Segs, InFlow
  <2> QED
    BY <1>1, <2>2, <2>4
<1>4. Head(l).buf.seg = c
  BY <1>1, <1>2, <1>3
<1>5. Segs(c, Tail(l), s)
  <2> DEFINE m == Tail(l)
  <2>1. \A i \in DOMAIN m : i \in Nat /\ i + 1 \in DOMAIN l /\ m[i] = l[i + 1]
    BY TailIndex
  <2>2. \A i \in DOMAIN m :
          /\ m[i].kind = "data" => c <= m[i].buf.seg /\ m[i].buf.seg <= s
          /\ IsDone(m[i]) => c < m[i].buf.seg /\ m[i].buf.seg <= s
    BY <2>1 DEF Segs
  <2>3. ASSUME NEW i \in DOMAIN m, NEW j \in DOMAIN m, i < j
        PROVE  /\ InFlow(m[i]) /\ IsDone(m[j]) => m[i].buf.seg < m[j].buf.seg
               /\ IsDone(m[i]) /\ m[j].kind = "data" => m[i].buf.seg <= m[j].buf.seg
    <3>1. i + 1 < j + 1 /\ i + 1 \in DOMAIN l /\ j + 1 \in DOMAIN l
          /\ m[i] = l[i + 1] /\ m[j] = l[j + 1]
      BY <2>1, <2>3
    <3> QED
      BY <3>1 DEF Segs
  <2>4. ASSUME NEW n \in c + 1 .. s
        PROVE  \E i \in DOMAIN m : IsDone(m[i]) /\ m[i].buf.seg = n
    <3>1. PICK i \in DOMAIN l : IsDone(l[i]) /\ l[i].buf.seg = n
      BY DEF Segs
    <3>2. i # 1
      BY <1>1, <3>1 DEF IsDone
    <3> QED
      BY <3>1, <3>2, TailIndex
  <2> HIDE DEF m
  <2>5. Segs(c, m, s)
    BY <1>1, <2>2, <2>3, <2>4 DEF Segs
  <2> QED
    BY <2>5 DEF m
<1> QED
  BY <1>4, <1>5

LEMMA TakeDataNext ==
  ASSUME NEW l \in Seq(Work), l # <<>>, NEW t, IsData(Head(l), t),
         NEW c, Head(l).buf.seg = c,
         NEW R, NEW e, NEW o, NEW nx, NEW s, Flow(t, c, l, R, e, o, nx, s)
  PROVE  /\ 0 < Head(l).buf.no
         /\ Behind(R, Head(l).buf)
         /\ \A n \in 1 .. Head(l).buf.no :
              n # Head(l).buf.no => Has(R, e, o, n)
<1> DEFINE b == Head(l).buf
<1>1. Head(l) = l[1] /\ 1 \in DOMAIN l /\ b.no \in Nat
  BY TailIndex, WorkData
<1>2. 0 < b.no
  BY <1>1 DEF Flow, Numbers
<1>3. Behind(R, b)
  BY <1>1 DEF Flow, Numbers, Behind
<1>4. ASSUME NEW n \in 1 .. b.no, n # b.no
      PROVE  Has(R, e, o, n)
  <2>1. Got(t, c, l, R, e, o, c, n)
    BY <1>1, <1>4 DEF Flow, Covered
  <2>2. ASSUME NEW i \in DOMAIN l, IsData(l[i], t), l[i].buf.seg = c, l[i].buf.no = n
        PROVE  FALSE
    <3>1. i = 1 \/ 1 < i
      BY TailIndex
    <3>2. 1 < i => b.no < n
      BY <1>1, <2>2 DEF Flow, Numbers
    <3> QED
      BY <1>1, <1>4, <2>2, <3>1, <3>2
  <2> QED
    BY <2>1, <2>2 DEF Got, Has
<1> QED
  BY <1>2, <1>3, <1>4

\* What becomes of the flow: R2 is what the player then holds of the stream
LEMMA TakeDataFlow ==
  ASSUME NEW l \in Seq(Work), l # <<>>, NEW t, IsData(Head(l), t),
         NEW c, Head(l).buf.seg = c,
         NEW R, NEW e, NEW o \in Nat, NEW nx, NEW s, Flow(t, c, l, R, e, o, nx, s),
         NEW R2, R2 \subseteq R \cup {Head(l).buf}, e \/ R \subseteq R2,
         e \/ Head(l).buf.no <= o \/ Head(l).buf \in R2
  PROVE  Flow(t, c, Tail(l), R2, e, o, nx, s)
<1> DEFINE b == Head(l).buf
           m == Tail(l)
<1>1. Head(l) = l[1] /\ 1 \in DOMAIN l /\ b.no \in Nat
  BY TailIndex, WorkData
<1>2. \A i \in DOMAIN m : i \in Nat /\ 1 < i + 1 /\ i + 1 \in DOMAIN l /\ m[i] = l[i + 1]
  BY TailIndex
<1>3. \A i \in DOMAIN l : i = 1 \/ (i - 1 \in DOMAIN m /\ m[i - 1] = l[i])
  BY TailIndex
<1>4. \A x \in R : x.seg = c
  BY DEF Flow
<1> HIDE DEF m
<1>5. \A x \in R2 : x.seg = c
  BY <1>4
<1>6. Numbers(t, c, m, R2, nx, s)
  <2>1. \A i \in DOMAIN m : IsData(m[i], t) => 0 < m[i].buf.no
    BY <1>2 DEF Flow, Numbers
  <2>2. ASSUME NEW i \in DOMAIN m, NEW j \in DOMAIN m, i < j,
               IsData(m[i], t), IsData(m[j], t), m[i].buf.seg = m[j].buf.seg
        PROVE  m[i].buf.no < m[j].buf.no
    <3>1. i + 1 < j + 1 /\ i + 1 \in DOMAIN l /\ j + 1 \in DOMAIN l
          /\ m[i] = l[i + 1] /\ m[j] = l[j + 1]
      BY <1>2, <2>2
    <3> QED
      BY <2>2, <3>1 DEF Flow, Numbers
  <2>3. ASSUME NEW x \in R2, NEW i \in DOMAIN m, IsData(m[i], t), m[i].buf.seg = c
        PROVE  x.no < m[i].buf.no
    <3>1. x \in R => x.no < m[i].buf.no
      BY <1>2, <2>3 DEF Flow, Numbers
    <3>2. b.no < m[i].buf.no
      BY <1>1, <1>2, <2>3 DEF Flow, Numbers
    <3> QED
      BY <3>1, <3>2
  <2>4. \A i \in DOMAIN m : IsData(m[i], t) /\ m[i].buf.seg = s => m[i].buf.no <= nx
    BY <1>2 DEF Flow, Numbers
  <2>5. c = s => \A x \in R2 : x.no <= nx
    BY <1>1 DEF Flow, Numbers
  <2> QED
    BY <2>1, <2>2, <2>3, <2>4, <2>5 DEF Numbers
<1>7. ASSUME NEW k, NEW n, Got(t, c, l, R, e, o, k, n) PROVE Got(t, c, m, R2, e, o, k, n)
  <2>1. CASE \E i \in DOMAIN l : IsData(l[i], t) /\ l[i].buf.seg = k /\ l[i].buf.no = n
    <3>1. PICK i \in DOMAIN l : IsData(l[i], t) /\ l[i].buf.seg = k /\ l[i].buf.no = n
      BY <2>1
    <3>2. CASE i = 1
      BY <1>1, <3>1, <3>2 DEF Got, Has
    <3>3. CASE i # 1
      BY <1>3, <3>1, <3>3 DEF Got, Has
    <3> QED
      BY <3>2, <3>3
  <2>2. CASE k = c /\ (e \/ n <= o \/ \E x \in R : x.no = n)
    BY <2>2 DEF Got, Has
  <2> QED
    BY <1>7, <2>1, <2>2 DEF Got, Has
<1>8. Covered(t, c, m, R2, e, o, nx, s)
  <2>1. ASSUME NEW i \in DOMAIN m, IsData(m[i], t), NEW n \in 1 .. m[i].buf.no
        PROVE  Got(t, c, m, R2, e, o, m[i].buf.seg, n)
    BY <1>2, <1>7, <2>1 DEF Flow, Covered
  <2>2. \A n \in 1 .. nx : Got(t, c, m, R2, e, o, s, n)
    BY <1>7 DEF Flow, Covered
  <2> QED
    BY <2>1, <2>2 DEF Covered
<1> QED
  BY <1>5, <1>6, <1>8 DEF Flow, m

\* The stream ends in the player: nothing is owed any more
LEMMA EndFlow ==
  ASSUME NEW l, NEW t, NEW c, NEW R, NEW e, NEW o, NEW nx, NEW s,
         Flow(t, c, l, R, e, o, nx, s), NEW R2, R2 \subseteq R
  PROVE  Flow(t, c, l, R2, TRUE, o, nx, s)
<1>1. Numbers(t, c, l, R2, nx, s)
  BY DEF Flow, Numbers
<1>2. \A k, n : Got(t, c, l, R, e, o, k, n) => Got(t, c, l, R2, TRUE, o, k, n)
  BY DEF Got, Has
<1>3. Covered(t, c, l, R2, TRUE, o, nx, s)
  BY <1>2 DEF Flow, Covered
<1> QED
  BY <1>1, <1>3 DEF Flow

\* The UI thread learns that the demuxer completed a seek: the next segment
\* begins, and nothing is left of those before
LEMMA TakeDoneSegs ==
  ASSUME NEW l \in Seq(Work), l # <<>>, IsDone(Head(l)),
         NEW c, NEW s \in Nat, Segs(c, l, s)
  PROVE  Head(l).buf.seg = c + 1 /\ Segs(c + 1, Tail(l), s)
<1> DEFINE m == Tail(l)
<1>1. Head(l) = l[1] /\ 1 \in DOMAIN l /\ c \in Nat /\ l[1].buf.seg \in Nat
  BY TailIndex, WorkData DEF Segs
<1>2. c < l[1].buf.seg /\ l[1].buf.seg <= s
  BY <1>1 DEF Segs
<1>3. l[1].buf.seg = c + 1
  <2>1. c + 1 \in c + 1 .. s
    BY <1>1, <1>2
  <2>2. PICK i \in DOMAIN l : IsDone(l[i]) /\ l[i].buf.seg = c + 1
    BY <2>1 DEF Segs
  <2>3. 1 < i => l[1].buf.seg < c + 1
    BY <1>1, <2>2 DEF Segs, InFlow, IsDone
  <2> QED
    BY <1>1, <1>2, <2>2, <2>3, TailIndex
<1>4. \A i \in DOMAIN m : i \in Nat /\ 1 < i + 1 /\ i + 1 \in DOMAIN l /\ m[i] = l[i + 1]
                          /\ m[i].buf.seg \in Nat
  BY TailIndex, WorkData
<1> HIDE DEF m
<1>5. \A i \in DOMAIN m :
        /\ m[i].kind = "data" => c + 1 <= m[i].buf.seg /\ m[i].buf.seg <= s
        /\ IsDone(m[i]) => c + 1 < m[i].buf.seg /\ m[i].buf.seg <= s
  BY <1>1, <1>3, <1>4 DEF Segs, IsDone, InFlow
<1>6. ASSUME NEW i \in DOMAIN m, NEW j \in DOMAIN m, i < j
      PROVE  /\ InFlow(m[i]) /\ IsDone(m[j]) => m[i].buf.seg < m[j].buf.seg
             /\ IsDone(m[i]) /\ m[j].kind = "data" => m[i].buf.seg <= m[j].buf.seg
  <2>1. i + 1 < j + 1 /\ i + 1 \in DOMAIN l /\ j + 1 \in DOMAIN l
        /\ m[i] = l[i + 1] /\ m[j] = l[j + 1]
    BY <1>4, <1>6
  <2> QED
    BY <2>1 DEF Segs
<1>7. ASSUME NEW n \in (c + 1) + 1 .. s
      PROVE  \E i \in DOMAIN m : IsDone(m[i]) /\ m[i].buf.seg = n
  <2>1. n \in c + 1 .. s /\ n # c + 1
    BY <1>1
  <2>2. PICK i \in DOMAIN l : IsDone(l[i]) /\ l[i].buf.seg = n
    BY <2>1 DEF Segs
  <2>3. i # 1
    BY <1>3, <2>1, <2>2
  <2> QED
    BY <2>2, <2>3, TailIndex DEF m
<1>8. Segs(c + 1, m, s)
  <2>1. c + 1 \in Nat /\ c + 1 <= s
    BY <1>1, <1>2
  <2> QED
    BY <1>5, <1>6, <1>7, <2>1 DEF Segs
<1> QED
  BY <1>1, <1>3, <1>8 DEF m

LEMMA TakeDoneFlow ==
  ASSUME NEW l \in Seq(Work), l # <<>>, IsDone(Head(l)),
         NEW c \in Nat, NEW s \in Nat, c < s, NEW t,
         NEW R, NEW e, NEW o, NEW nx, Flow(t, c, l, R, e, o, nx, s), NEW o2,
         \A i \in DOMAIN Tail(l) :
           Tail(l)[i].kind = "data" => c + 1 <= Tail(l)[i].buf.seg
  PROVE  Flow(t, c + 1, Tail(l), {}, FALSE, o2, nx, s)
<1> DEFINE m == Tail(l)
<1>1. ~IsData(Head(l), t)
  BY DEF IsData, IsDone
<1>2. Flow(t, c, m, R, e, o, nx, s)
  BY <1>1, ShiftedTail, FlowShift, TailIndex
<1>3. m \in Seq(Work)
  BY TailIndex
<1> HIDE DEF m
<1>4. Numbers(t, c + 1, m, {}, nx, s)
  BY <1>2 DEF Flow, Numbers
<1>5. \A k, n : k # c /\ Got(t, c, m, R, e, o, k, n)
                  => Got(t, c + 1, m, {}, FALSE, o2, k, n)
  BY DEF Got, Has
<1>6. Covered(t, c + 1, m, {}, FALSE, o2, nx, s)
  <2>1. ASSUME NEW i \in DOMAIN m, IsData(m[i], t), NEW n \in 1 .. m[i].buf.no
        PROVE  Got(t, c + 1, m, {}, FALSE, o2, m[i].buf.seg, n)
    <3>1. m[i].buf.seg # c
      <4>1. c + 1 <= m[i].buf.seg /\ m[i].buf.seg \in Nat
        BY <1>3, <2>1, WorkData DEF IsData, m
      <4> QED
        BY <4>1
    <3> QED
      BY <1>2, <1>5, <2>1, <3>1 DEF Flow, Covered
  <2>2. \A n \in 1 .. nx : Got(t, c + 1, m, {}, FALSE, o2, s, n)
    <3>1. s # c
      OBVIOUS
    <3>2. \A n \in 1 .. nx : Got(t, c, m, R, e, o, s, n)
      BY <1>2 DEF Flow, Covered
    <3> QED
      BY <1>5, <3>1, <3>2
  <2> QED
    BY <2>1, <2>2 DEF Covered
<1> QED
  BY <1>4, <1>6 DEF Flow, m

\* The demuxer answers a read with the next buffer of its segment
LEMMA AnswerFlow ==
  ASSUME NEW l \in Seq(Work), NEW w \in Work, NEW t, IsData(w, t),
         NEW c, NEW R, NEW e, NEW o, NEW nx \in Nat, NEW s \in Nat,
         Segs(c, l, s), Flow(t, c, l, R, e, o, nx, s),
         w.buf = [seg |-> s, no |-> nx + 1], \A x \in R : x.no \in Nat
  PROVE  Flow(t, c, Append(l, w), R, e, o, nx + 1, s)
<1> DEFINE m == Append(l, w)
           z == Len(l) + 1
<1>1. z \in DOMAIN m /\ m[z] = w /\ w.buf.seg = s /\ w.buf.no = nx + 1
  BY AppendIndex
<1>2. \A i \in DOMAIN l : i \in Nat /\ i < z /\ i \in DOMAIN m /\ m[i] = l[i]
                          /\ l[i].buf.no \in Nat
  BY AppendIndex, WorkData
<1>3. \A i \in DOMAIN m : i \in DOMAIN l \/ i = z
  BY AppendIndex
<1>4. \A i \in DOMAIN l : IsData(l[i], t) /\ l[i].buf.seg = s => l[i].buf.no < nx + 1
  BY <1>2 DEF Flow, Numbers
<1>5. z \in Nat
  OBVIOUS
<1> HIDE DEF m, z
<1>6. Numbers(t, c, m, R, nx + 1, s)
  <2>1. \A i \in DOMAIN m : IsData(m[i], t) => 0 < m[i].buf.no
    BY <1>1, <1>2, <1>3 DEF Flow, Numbers
  <2>2. ASSUME NEW i \in DOMAIN m, NEW j \in DOMAIN m, i < j,
               IsData(m[i], t), IsData(m[j], t), m[i].buf.seg = m[j].buf.seg
        PROVE  m[i].buf.no < m[j].buf.no
    <3>1. i \in DOMAIN l
      BY <1>2, <1>3, <1>5, <2>2
    <3>2. CASE j = z
      BY <1>1, <1>2, <1>4, <2>2, <3>1, <3>2
    <3>3. CASE j \in DOMAIN l
      BY <1>2, <2>2, <3>1, <3>3 DEF Flow, Numbers
    <3> QED
      BY <1>3, <3>2, <3>3
  <2>3. ASSUME NEW x \in R, NEW i \in DOMAIN m, IsData(m[i], t), m[i].buf.seg = c
        PROVE  x.no < m[i].buf.no
    <3>1. CASE i = z
      <4>1. x.no <= nx /\ x.no \in Nat
        BY <1>1, <2>3, <3>1 DEF Flow, Numbers
      <4> QED
        BY <1>1, <3>1, <4>1
    <3>2. CASE i \in DOMAIN l
      BY <1>2, <2>3, <3>2 DEF Flow, Numbers
    <3> QED
      BY <1>3, <3>1, <3>2
  <2>4. \A i \in DOMAIN m : IsData(m[i], t) /\ m[i].buf.seg = s => m[i].buf.no <= nx + 1
    BY <1>1, <1>2, <1>3, <1>4
  <2>5. c = s => \A x \in R : x.no <= nx + 1
    BY DEF Flow, Numbers
  <2> QED
    BY <2>1, <2>2, <2>3, <2>4, <2>5 DEF Numbers
<1>7. \A k, n : Got(t, c, l, R, e, o, k, n) => Got(t, c, m, R, e, o, k, n)
  BY <1>2 DEF Got, Has
<1>8. Got(t, c, m, R, e, o, s, nx + 1)
  BY <1>1 DEF Got, Has
<1>9. \A n \in 1 .. nx + 1 : Got(t, c, m, R, e, o, s, n)
  <2>1. \A n \in 1 .. nx + 1 : n = nx + 1 \/ n \in 1 .. nx
    OBVIOUS
  <2> QED
    BY <1>7, <1>8, <2>1 DEF Flow, Covered
<1>10. Covered(t, c, m, R, e, o, nx + 1, s)
  <2>1. ASSUME NEW i \in DOMAIN m, IsData(m[i], t), NEW n \in 1 .. m[i].buf.no
        PROVE  Got(t, c, m, R, e, o, m[i].buf.seg, n)
    <3>1. CASE i = z
      BY <1>1, <1>9, <2>1, <3>1
    <3>2. CASE i \in DOMAIN l
      BY <1>2, <1>7, <2>1, <3>2 DEF Flow, Covered
    <3> QED
      BY <1>3, <3>1, <3>2
  <2> QED
    BY <1>9, <2>1 DEF Covered
<1> QED
  BY <1>6, <1>10 DEF Flow, m

LEMMA AnswerSegs ==
  ASSUME NEW l \in Seq(Work), NEW w \in Work, w.kind = "data",
         NEW c, NEW s \in Nat, Segs(c, l, s), w.buf.seg = s
  PROVE  Segs(c, Append(l, w), s)
<1> DEFINE m == Append(l, w)
           z == Len(l) + 1
<1>1. z \in DOMAIN m /\ m[z] = w /\ z \in Nat
  BY AppendIndex
<1>2. \A i \in DOMAIN l : i \in Nat /\ i < z /\ i \in DOMAIN m /\ m[i] = l[i]
  BY AppendIndex
<1>3. \A i \in DOMAIN m : i \in DOMAIN l \/ i = z
  BY AppendIndex
<1> HIDE DEF m, z
<1>4. c \in Nat /\ c <= s
  BY DEF Segs
<1>5. \A i \in DOMAIN m :
        /\ m[i].kind = "data" => c <= m[i].buf.seg /\ m[i].buf.seg <= s
        /\ IsDone(m[i]) => c < m[i].buf.seg /\ m[i].buf.seg <= s
  BY <1>1, <1>2, <1>3, <1>4 DEF Segs, IsDone
<1>6. ASSUME NEW i \in DOMAIN m, NEW j \in DOMAIN m, i < j
      PROVE  /\ InFlow(m[i]) /\ IsDone(m[j]) => m[i].buf.seg < m[j].buf.seg
             /\ IsDone(m[i]) /\ m[j].kind = "data" => m[i].buf.seg <= m[j].buf.seg
  <2>1. i \in DOMAIN l
    BY <1>1, <1>2, <1>3, <1>6
  <2>2. CASE j = z
    BY <1>1, <1>2, <2>1, <2>2 DEF Segs, IsDone
  <2>3. CASE j \in DOMAIN l
    BY <1>2, <1>6, <2>1, <2>3 DEF Segs
  <2> QED
    BY <1>3, <2>2, <2>3
<1>7. \A n \in c + 1 .. s : \E i \in DOMAIN m : IsDone(m[i]) /\ m[i].buf.seg = n
  BY <1>2 DEF Segs
<1> QED
  BY <1>4, <1>5, <1>6, <1>7 DEF Segs, m

\* The demuxer completes a seek
LEMMA SoughtSegs ==
  ASSUME NEW l \in Seq(Work), NEW w \in Work, IsDone(w),
         NEW c, NEW s \in Nat, Segs(c, l, s), w.buf.seg = s + 1
  PROVE  Segs(c, Append(l, w), s + 1)
<1> DEFINE m == Append(l, w)
           z == Len(l) + 1
<1>1. z \in DOMAIN m /\ m[z] = w /\ z \in Nat
  BY AppendIndex
<1>2. \A i \in DOMAIN l : i \in Nat /\ i < z /\ i \in DOMAIN m /\ m[i] = l[i]
                          /\ l[i].buf.seg \in Nat
  BY AppendIndex, WorkData
<1>3. \A i \in DOMAIN m : i \in DOMAIN l \/ i = z
  BY AppendIndex
<1> HIDE DEF m, z
<1>4. c \in Nat /\ c <= s
  BY DEF Segs
<1>5. \A i \in DOMAIN m :
        /\ m[i].kind = "data" => c <= m[i].buf.seg /\ m[i].buf.seg <= s + 1
        /\ IsDone(m[i]) => c < m[i].buf.seg /\ m[i].buf.seg <= s + 1
  <2>1. \A i \in DOMAIN l :
          /\ l[i].kind = "data" => c <= l[i].buf.seg /\ l[i].buf.seg <= s + 1
          /\ IsDone(l[i]) => c < l[i].buf.seg /\ l[i].buf.seg <= s + 1
    BY <1>2 DEF Segs
  <2> QED
    BY <1>1, <1>2, <1>3, <1>4, <2>1 DEF IsDone
<1>6. ASSUME NEW i \in DOMAIN m, NEW j \in DOMAIN m, i < j
      PROVE  /\ InFlow(m[i]) /\ IsDone(m[j]) => m[i].buf.seg < m[j].buf.seg
             /\ IsDone(m[i]) /\ m[j].kind = "data" => m[i].buf.seg <= m[j].buf.seg
  <2>1. i \in DOMAIN l
    BY <1>1, <1>2, <1>3, <1>6
  <2>2. CASE j = z
    <3>1. InFlow(l[i]) => l[i].buf.seg <= s
      BY <2>1 DEF Segs, InFlow, IsDone
    <3> QED
      BY <1>1, <1>2, <2>1, <2>2, <3>1 DEF IsDone
  <2>3. CASE j \in DOMAIN l
    BY <1>2, <1>6, <2>1, <2>3 DEF Segs
  <2> QED
    BY <1>3, <2>2, <2>3
<1>7. \A n \in c + 1 .. s + 1 : \E i \in DOMAIN m : IsDone(m[i]) /\ m[i].buf.seg = n
  <2>1. \A n \in c + 1 .. s + 1 : n = s + 1 \/ n \in c + 1 .. s
    BY <1>4
  <2> QED
    BY <1>1, <1>2, <2>1 DEF Segs
<1> QED
  BY <1>4, <1>5, <1>6, <1>7 DEF Segs, m

LEMMA SoughtFlow ==
  ASSUME NEW l \in Seq(Work), NEW w \in Work, IsDone(w), NEW t,
         NEW c, NEW R, NEW e, NEW o, NEW nx \in Nat, NEW s \in Nat,
         Segs(c, l, s), Flow(t, c, l, R, e, o, nx, s)
  PROVE  Flow(t, c, Append(l, w), R, e, o, 0, s + 1)
<1> DEFINE m == Append(l, w)
<1>1. Flow(t, c, m, R, e, o, nx, s)
  BY ShiftedAppend, FlowShift, AppendIndex DEF IsData, IsDone
<1>2. c \in Nat /\ c # s + 1
  BY DEF Segs
<1>3. \A i \in DOMAIN m : IsData(m[i], t) => m[i].buf.seg # s + 1
  <2>1. \A i \in DOMAIN l : IsData(l[i], t) => l[i].buf.seg # s + 1
    BY WorkData DEF Segs, IsData
  <2>2. \A i \in DOMAIN m : \/ i \in DOMAIN l /\ m[i] = l[i]
                            \/ m[i] = w
    BY AppendIndex
  <2> QED
    BY <2>1, <2>2 DEF IsData, IsDone
<1> HIDE DEF m
<1>4. Numbers(t, c, m, R, 0, s + 1)
  BY <1>1, <1>2, <1>3 DEF Flow, Numbers
<1>5. Covered(t, c, m, R, e, o, 0, s + 1)
  BY <1>1 DEF Flow, Covered
<1> QED
  BY <1>1, <1>4, <1>5 DEF Flow, m

\* q is p with some of its elements taken out
Thinned(q, p) ==
  \E f \in [DOMAIN q -> DOMAIN p] :
    /\ \A i \in DOMAIN q : q[i] = p[f[i]]
    /\ \A i, j \in DOMAIN q : i < j => f[i] < f[j]

LEMMA ThinnedOrder ==
  ASSUME NEW p, NEW q, Thinned(q, p)
  PROVE  /\ Increasing(p) => Increasing(q)
         /\ Elems(q) \subseteq Elems(p)
<1> PICK f \in [DOMAIN q -> DOMAIN p] :
      /\ \A i \in DOMAIN q : q[i] = p[f[i]]
      /\ \A i, j \in DOMAIN q : i < j => f[i] < f[j]
  BY DEF Thinned
<1>1. Increasing(p) => Increasing(q)
  BY DEF Increasing
<1>2. Elems(q) \subseteq Elems(p)
  BY DEF Elems
<1> QED
  BY <1>1, <1>2

LEMMA ThinnedTail ==
  ASSUME NEW p \in Seq(Buffer), NEW q \in Seq(Buffer), NEW r \in Seq(Buffer),
         \/ r = q
         \/ q # <<>> /\ r = Tail(q)
         \/ r = <<>>
  PROVE  Thinned(p \o r, p \o q)
<1> DEFINE d == IF r = q THEN 0 ELSE 1
           f == [i \in DOMAIN (p \o r) |-> IF i <= Len(p) THEN i ELSE i + d]
<1>1. /\ Len(p) \in Nat /\ Len(q) \in Nat /\ Len(r) \in Nat
      /\ DOMAIN (p \o r) = 1 .. Len(p) + Len(r)
      /\ DOMAIN (p \o q) = 1 .. Len(p) + Len(q)
  OBVIOUS
<1>2. r # <<>> => Len(r) + d = Len(q)
  OBVIOUS
<1>3. f \in [DOMAIN (p \o r) -> DOMAIN (p \o q)]
  <2>1. r = <<>> => Len(r) = 0
    OBVIOUS
  <2> HIDE DEF d
  <2>2. d \in {0, 1}
    BY DEF d
  <2>3. \A i \in 1 .. Len(p) + Len(r) : (IF i <= Len(p) THEN i ELSE i + d) \in 1 .. Len(p) + Len(q)
    BY <1>1, <1>2, <2>1, <2>2
  <2> QED
    BY <1>1, <2>3
<1>4. \A i \in DOMAIN (p \o r) : (p \o r)[i] = (p \o q)[f[i]]
  <2> SUFFICES ASSUME NEW i \in DOMAIN (p \o r) PROVE (p \o r)[i] = (p \o q)[f[i]]
    OBVIOUS
  <2>1. CASE i <= Len(p)
    BY <1>1, <2>1
  <2>2. CASE ~(i <= Len(p))
    <3>1. i - Len(p) \in DOMAIN r /\ (p \o r)[i] = r[i - Len(p)] /\ r # <<>>
      BY <1>1, <2>2
    <3>2. f[i] = i + d /\ i + d \in 1 .. Len(p) + Len(q)
      BY <1>1, <1>2, <2>2, <3>1
    <3>3. (p \o q)[i + d] = q[i + d - Len(p)]
      BY <1>1, <2>2, <3>2
    <3>4. r[i - Len(p)] = q[(i - Len(p)) + d]
      BY <1>1, <3>1
    <3>5. (i - Len(p)) + d = i + d - Len(p)
      BY <1>1
    <3> QED
      BY <3>1, <3>2, <3>3, <3>4, <3>5
  <2> QED
    BY <2>1, <2>2
<1>5. \A i, j \in DOMAIN (p \o r) : i < j => f[i] < f[j]
  BY <1>1
<1> HIDE DEF f
<1> QED
  BY <1>3, <1>4, <1>5 DEF Thinned

LEMMA AppendOrder ==
  ASSUME NEW q \in Seq(Buffer), NEW b \in Buffer
  PROVE  /\ Elems(Append(q, b)) = Elems(q) \cup {b}
         /\ Increasing(q) /\ (\A x \in Elems(q) : x.no < b.no)
              => Increasing(Append(q, b))
<1> DEFINE m == Append(q, b)
           z == Len(q) + 1
<1>1. z \in DOMAIN m /\ m[z] = b /\ z \in Nat
  OBVIOUS
<1>2. \A i \in DOMAIN q : i \in Nat /\ i < z /\ i \in DOMAIN m /\ m[i] = q[i]
  OBVIOUS
<1>3. \A i \in DOMAIN m : i \in DOMAIN q \/ i = z
  OBVIOUS
<1> HIDE DEF m, z
<1>4. Elems(m) = Elems(q) \cup {b}
  <2>1. Elems(m) \subseteq Elems(q) \cup {b}
    BY <1>1, <1>2, <1>3 DEF Elems
  <2>2. Elems(q) \subseteq Elems(m) /\ b \in Elems(m)
    BY <1>1, <1>2 DEF Elems
  <2> QED
    BY <2>1, <2>2
<1>5. ASSUME Increasing(q), \A x \in Elems(q) : x.no < b.no PROVE Increasing(m)
  <2> SUFFICES ASSUME NEW i \in DOMAIN m, NEW j \in DOMAIN m, i < j
               PROVE  m[i].no < m[j].no
    BY DEF Increasing
  <2>1. i \in DOMAIN q
    BY <1>1, <1>2, <1>3
  <2>2. CASE j = z
    BY <1>1, <1>2, <1>5, <2>1, <2>2 DEF Elems
  <2>3. CASE j \in DOMAIN q
    BY <1>2, <1>5, <2>1, <2>3 DEF Increasing
  <2> QED
    BY <1>3, <2>2, <2>3
<1> QED
  BY <1>4, <1>5 DEF m

LEMMA ConcatAppend ==
  ASSUME NEW p \in Seq(Buffer), NEW q \in Seq(Buffer), NEW b \in Buffer
  PROVE  p \o Append(q, b) = Append(p \o q, b)
<1>1. <<b>> \in Seq(Buffer) /\ p \o q \in Seq(Buffer)
  OBVIOUS
<1>2. \A r \in Seq(Buffer) : Append(r, b) = r \o <<b>>
  OBVIOUS
<1>3. (p \o q) \o <<b>> = p \o (q \o <<b>>)
  BY <1>1, ConcatAssociative
<1> QED
  BY <1>1, <1>2, <1>3

LEMMA HeldType ==
  ASSUME NEW f \in Feed
  PROVE  /\ f.pushed \in Seq(Buffer) /\ f.saved \in Seq(Buffer)
         /\ Held(f) \in Seq(Buffer)
         /\ \A x \in Elems(Held(f)) : x \in Buffer /\ x.seg \in Nat /\ x.no \in Nat
<1>1. f.pushed \in Seq(Buffer) /\ f.saved \in Seq(Buffer)
  BY DEF Feed
<1>2. Held(f) \in Seq(Buffer)
  BY <1>1 DEF Held
<1>3. \A x \in Elems(Held(f)) : x \in Buffer
  BY <1>2 DEF Elems
<1> QED
  BY <1>1, <1>2, <1>3 DEF Buffer

\* Draining the queue moves buffers and keeps their order; it stops a feed or
\* empties the queue. After end_of_stream it loses one buffer
LEMMA ReadFromQueueHeld ==
  ASSUME NEW f \in Feed, Usable
  PROVE  LET g == ReadFromQueueIfAny(f)
         IN  /\ g.eos = f.eos /\ (g.should => f.should)
             /\ (g.waiting => f.waiting)
             /\ ~f.eos => /\ Held(g) = Held(f)
                          /\ g.should => g.saved = <<>>
                          /\ ~g.should => ~f.should \/ ~g.waiting
             /\ f.eos => /\ g.pushed = f.pushed
                         /\ \/ g.saved = f.saved
                            \/ f.should /\ f.saved # <<>> /\ g.saved = Tail(f.saved)
             /\ ~f.should => g = f
<1> DEFINE room == IF f.level > AppsrcCap THEN 1 ELSE AppsrcCap + 1 - f.level
           k == IF room < Len(f.saved) THEN room ELSE Len(f.saved)
           more == f.level + k <= AppsrcCap
           fed == [f EXCEPT !.pushed = @ \o SubSeq(f.saved, 1, k),
                            !.saved = SubSeq(@, k + 1, Len(f.saved)),
                            !.level = @ + k, !.waiting = FALSE,
                            !.should = more]
           lost == [f EXCEPT !.saved = Tail(@)]
           g == ReadFromQueueIfAny(f)
<1>1. f.level \in Nat /\ f.saved \in Seq(Buffer) /\ f.pushed \in Seq(Buffer)
      /\ f.should \in BOOLEAN /\ AppsrcCap \in Nat
  BY BoundsAssumption DEF Feed
<1>2. g = IF ~f.should \/ f.saved = <<>> THEN f
          ELSE IF f.eos THEN lost ELSE fed
  BY DEF ReadFromQueueIfAny
<1>3. k \in Nat /\ k <= Len(f.saved) /\ (more => k = Len(f.saved))
  BY <1>1
<1>4. f.saved = SubSeq(f.saved, 1, k) \o SubSeq(f.saved, k + 1, Len(f.saved))
  <2> HIDE DEF k
  <2>1. /\ 1 \in 1 .. Len(f.saved) + 1 /\ k \in 1 - 1 .. Len(f.saved)
        /\ Len(f.saved) \in k .. Len(f.saved)
    BY <1>1, <1>3
  <2>2. SubSeq(f.saved, 1, k) \o SubSeq(f.saved, k + 1, Len(f.saved))
          = SubSeq(f.saved, 1, Len(f.saved))
    BY <1>1, <2>1, ConcatAdjacentSubSeq
  <2> QED
    BY <1>1, <2>2, SubSeqFull
<1>5. /\ SubSeq(f.saved, 1, k) \in Seq(Buffer)
      /\ SubSeq(f.saved, k + 1, Len(f.saved)) \in Seq(Buffer)
      /\ (more => SubSeq(f.saved, k + 1, Len(f.saved)) = <<>>)
  <2> HIDE DEF k, more
  <2> QED
    BY <1>1, <1>3
<1>6. /\ lost.eos = f.eos /\ lost.should = f.should /\ lost.waiting = f.waiting
      /\ lost.pushed = f.pushed /\ lost.saved = Tail(f.saved)
  BY DEF Feed
<1>7. /\ fed.eos = f.eos /\ fed.should = more /\ fed.waiting = FALSE
      /\ fed.pushed = f.pushed \o SubSeq(f.saved, 1, k)
      /\ fed.saved = SubSeq(f.saved, k + 1, Len(f.saved))
  <2> HIDE DEF k, more
  <2> QED
    BY DEF Feed
<1>8. Held(fed) = Held(f)
  <2> DEFINE a == SubSeq(f.saved, 1, k)
             b == SubSeq(f.saved, k + 1, Len(f.saved))
  <2>1. Held(fed) = (f.pushed \o a) \o b
    BY <1>7 DEF Held
  <2>2. a \in Seq(Buffer) /\ b \in Seq(Buffer) /\ f.saved = a \o b
    BY <1>4, <1>5
  <2> HIDE DEF a, b, fed
  <2>3. (f.pushed \o a) \o b = f.pushed \o (a \o b)
    <3>1. \A x, y, z \in Seq(Buffer) : (x \o y) \o z = x \o (y \o z)
      BY ConcatAssociative
    <3> QED
      BY <1>1, <2>2, <3>1, Zenon
  <2> QED
    BY <2>1, <2>2, <2>3 DEF Held
<1>9. more \in BOOLEAN
  OBVIOUS
<1> HIDE DEF fed, lost, more, k
<1>10. CASE ~f.should \/ f.saved = <<>>
  BY <1>1, <1>2, <1>10
<1>11. CASE f.should /\ f.saved # <<>> /\ f.eos
  BY <1>2, <1>6, <1>11
<1>12. CASE f.should /\ f.saved # <<>> /\ ~f.eos
  BY <1>2, <1>5, <1>7, <1>8, <1>12
<1> QED
  BY <1>10, <1>11, <1>12

\* A buffer that arrives is the last the player holds of its stream, pushed or
\* saved; after end_of_stream it may be lost
Received(f, b) ==
  LET g == ReadFromQueueIfAny(f)
  IN IF g.should THEN Push(g, b) ELSE SaveDecoderBuffer(g, b)

LEMMA ReceivedHeld ==
  ASSUME NEW f \in Feed, NEW b \in Buffer, Usable
  PROVE  LET h == Received(f, b)
         IN  /\ h.eos = f.eos
             /\ ~f.eos => Held(h) = Append(Held(f), b)
             /\ f.eos => Thinned(Held(h), Append(Held(f), b))
             /\ ~f.eos /\ ~h.should /\ f.should => ~h.waiting
             /\ h.waiting => (f.waiting /\ ~h.should) \/ f.eos
<1> DEFINE g == ReadFromQueueIfAny(f)
           h == Received(f, b)
<1>1. g \in Feed
  BY ReadFromQueueType
<1>2. /\ g.eos = f.eos /\ (g.should => f.should) /\ (g.waiting => f.waiting)
      /\ ~f.eos => /\ Held(g) = Held(f)
                   /\ g.should => g.saved = <<>>
                   /\ ~g.should => ~f.should \/ ~g.waiting
      /\ f.eos => /\ g.pushed = f.pushed
                  /\ \/ g.saved = f.saved
                     \/ f.should /\ f.saved # <<>> /\ g.saved = Tail(f.saved)
      /\ ~f.should => g = f
  BY ReadFromQueueHeld
<1>3. h = IF g.should THEN Push(g, b) ELSE SaveDecoderBuffer(g, b)
  BY DEF Received
<1> HIDE DEF g, h
<1>4. g.pushed \in Seq(Buffer) /\ g.saved \in Seq(Buffer)
      /\ f.pushed \in Seq(Buffer) /\ f.saved \in Seq(Buffer)
  BY <1>1, HeldType
<1>5. CASE ~f.eos
  <2>1. CASE g.should
    <3>1. h.eos = g.eos /\ h.pushed = Append(g.pushed, b) /\ h.saved = g.saved
          /\ h.waiting = FALSE
      BY <1>1, <1>2, <1>3, <1>5, <2>1 DEF Push, Feed
    <3>2. Held(h) = Append(Held(g), b)
      <4>1. g.saved = <<>>
        BY <1>2, <1>5, <2>1
      <4>2. Append(g.pushed, b) \o <<>> = Append(g.pushed \o <<>>, b)
        BY <1>4
      <4> QED
        BY <3>1, <4>1, <4>2 DEF Held
    <3> QED
      BY <1>2, <1>5, <3>1, <3>2 DEF h
  <2>2. CASE ~g.should
    <3>1. h.eos = g.eos /\ h.pushed = g.pushed /\ h.saved = Append(g.saved, b)
          /\ h.waiting = g.waiting /\ h.should = g.should
      BY <1>1, <1>3, <2>2 DEF SaveDecoderBuffer, Feed
    <3>2. g.pushed \o Append(g.saved, b) = Append(g.pushed \o g.saved, b)
      BY <1>4, ConcatAppend
    <3>3. Held(h) = Append(Held(g), b)
      BY <3>1, <3>2 DEF Held
    <3> QED
      BY <1>2, <1>5, <2>2, <3>1, <3>3 DEF h
  <2> QED
    BY <2>1, <2>2
<1>6. CASE f.eos
  <2>1. h.eos = f.eos /\ h.pushed = f.pushed
    BY <1>1, <1>2, <1>3, <1>6 DEF Push, SaveDecoderBuffer, Feed
  <2>2. f.should => g.should
    <3>1. ReadFromQueueIfAny(f).should = f.should
      BY <1>6 DEF ReadFromQueueIfAny, Feed
    <3> QED
      BY <3>1 DEF g
  <2>3. \/ h.saved = f.saved /\ f.should /\ f.saved = <<>>
        \/ f.saved # <<>> /\ h.saved = Tail(f.saved)
        \/ h.saved = Append(f.saved, b)
    <3>1. CASE g.should
      <4>1. h = g
        BY <1>2, <1>3, <1>6, <3>1 DEF Push
      <4>2. f.saved # <<>> => g.saved = Tail(f.saved)
        <5>1. f.should /\ f.saved # <<>> =>
                ReadFromQueueIfAny(f).saved = Tail(f.saved)
          BY <1>6 DEF ReadFromQueueIfAny, Feed
        <5> QED
          BY <1>2, <3>1, <5>1 DEF g
      <4> QED
        BY <1>2, <1>6, <3>1, <4>1, <4>2
    <3>2. CASE ~g.should
      <4>1. g = f
        BY <1>2, <2>2, <3>2
      <4> QED
        BY <1>3, <3>2, <4>1 DEF SaveDecoderBuffer, Feed
    <3> QED
      BY <3>1, <3>2
  <2>4. /\ Append(f.pushed \o f.saved, b) = f.pushed \o Append(f.saved, b)
        /\ Append(f.saved, b) \in Seq(Buffer)
        /\ f.saved # <<>> => Tail(f.saved) \in Seq(Buffer)
    <3>1. Append(f.pushed \o f.saved, b) = f.pushed \o Append(f.saved, b)
      BY <1>4, ConcatAppend
    <3>2. Append(f.saved, b) \in Seq(Buffer)
          /\ (f.saved # <<>> => Tail(f.saved) \in Seq(Buffer))
      BY <1>4
    <3> QED
      BY <3>1, <3>2
  <2>5. h.saved \in Seq(Buffer)
    BY <1>4, <2>3, <2>4, Zenon
  <2>6. Thinned(Held(h), Append(Held(f), b))
    <3>1. CASE h.saved = <<>> \/ h.saved = Append(f.saved, b)
      <4>1. Thinned(f.pushed \o h.saved, f.pushed \o Append(f.saved, b))
        BY <1>4, <2>4, <2>5, <3>1, ThinnedTail
      <4> QED
        BY <2>1, <2>4, <4>1 DEF Held
    <3>2. CASE f.saved # <<>> /\ h.saved = Tail(f.saved)
      <4> DEFINE q == f.pushed \o h.saved
                 p == f.pushed \o f.saved
      <4>1. Thinned(q, p) /\ p \in Seq(Buffer)
        <5>1. Thinned(q, p)
          BY <1>4, <2>5, <3>2, ThinnedTail
        <5> QED
          BY <1>4, <5>1
      <4>2. Thinned(q, Append(p, b))
        <5> HIDE DEF p, q
        <5>1. PICK k \in [DOMAIN q -> DOMAIN p] :
                /\ \A i \in DOMAIN q : q[i] = p[k[i]]
                /\ \A i, j \in DOMAIN q : i < j => k[i] < k[j]
          BY <4>1 DEF Thinned
        <5>2. \A i \in DOMAIN p : i \in DOMAIN Append(p, b) /\ Append(p, b)[i] = p[i]
          BY <4>1
        <5>3. k \in [DOMAIN q -> DOMAIN Append(p, b)]
          BY <5>1, <5>2
        <5> QED
          BY <5>1, <5>2, <5>3 DEF Thinned
      <4> QED
        BY <2>1, <4>2 DEF Held
    <3> QED
      BY <2>3, <3>1, <3>2
  <2> QED
    BY <1>6, <2>1, <2>6 DEF h
<1> QED
  BY <1>5, <1>6

\* What the player holds of a stream: in order, of one segment, and without a gap
\* between the seek position o and the last buffer unless the stream ended (e)
Sound(q, e, o) ==
  /\ Increasing(q)
  /\ \A x, y \in Elems(q) : x.seg = y.seg
  /\ e \/ \A x \in Elems(q) : \A n \in o + 1 .. x.no : \E y \in Elems(q) : y.no = n

LEMMA SoundReceived ==
  ASSUME NEW q \in Seq(Buffer), NEW r, NEW e \in BOOLEAN, NEW o \in Nat,
         Sound(q, e, o), NEW b \in Buffer, Behind(Elems(q), b),
         \A n \in 1 .. b.no : n # b.no => Has(Elems(q), e, o, n),
         IF e THEN Thinned(r, Append(q, b)) ELSE r = Append(q, b)
  PROVE  Sound(r, e, o)
<1> DEFINE m == Append(q, b)
<1>1. Increasing(m) /\ Elems(m) = Elems(q) \cup {b}
  BY AppendOrder DEF Sound, Behind
<1>2. \A x, y \in Elems(m) : x.seg = y.seg
  BY <1>1 DEF Behind
<1>3. CASE e
  BY <1>1, <1>2, <1>3, ThinnedOrder DEF Sound
<1>4. CASE ~e
  <2>1. ASSUME NEW x \in Elems(m), NEW n \in o + 1 .. x.no
        PROVE  \E y \in Elems(m) : y.no = n
    <3>0. b.no \in Nat
      BY DEF Buffer
    <3>1. CASE x = b
      <4>1. n \in 1 .. b.no /\ ~(n <= o)
        BY <2>1, <3>0, <3>1
      <4> QED
        BY <1>1, <1>4, <4>1 DEF Has
    <3>2. CASE x \in Elems(q)
      BY <1>1, <1>4, <2>1, <3>2 DEF Sound
    <3> QED
      BY <1>1, <3>1, <3>2
  <2> QED
    BY <1>1, <1>2, <1>4, <2>1 DEF Sound
<1> QED
  BY <1>3, <1>4

LEMMA SoundEnded ==
  ASSUME NEW q, NEW r, NEW e, NEW o, Sound(q, e, o), Thinned(r, q)
  PROVE  Sound(r, TRUE, o)
<1>1. Increasing(r) /\ Elems(r) \subseteq Elems(q)
  BY ThinnedOrder DEF Sound
<1> QED
  BY <1>1 DEF Sound

\* Dropping the saved buffers leaves no gap
LEMMA SoundDropped ==
  ASSUME NEW p \in Seq(Buffer), NEW q \in Seq(Buffer), NEW e \in BOOLEAN,
         NEW o \in Nat, Sound(p \o q, e, o)
  PROVE  Sound(p, e, o)
<1> DEFINE l == p \o q
<1>1. \A i \in DOMAIN p : i \in DOMAIN l /\ l[i] = p[i] /\ l[i].no \in Nat
  <2>1. \A i \in DOMAIN p : i \in DOMAIN l /\ l[i] = p[i]
    OBVIOUS
  <2>2. \A i \in DOMAIN p : p[i] \in Buffer
    OBVIOUS
  <2> QED
    BY <2>1, <2>2 DEF Buffer
<1>2. \A i \in DOMAIN l, j \in DOMAIN p : i \in DOMAIN p \/ j < i
  OBVIOUS
<1>3. \A i \in DOMAIN l : l[i].no \in Nat
  <2>1. l \in Seq(Buffer)
    OBVIOUS
  <2>2. \A i \in DOMAIN l : l[i] \in Buffer
    BY <2>1
  <2> QED
    BY <2>2 DEF Buffer
<1> HIDE DEF l
<1>4. Increasing(p) /\ Elems(p) \subseteq Elems(l)
  BY <1>1 DEF Sound, Increasing, Elems, l
<1>5. ASSUME ~e, NEW x \in Elems(p), NEW n \in o + 1 .. x.no
      PROVE  \E y \in Elems(p) : y.no = n
  <2>1. PICK k \in DOMAIN p : x = p[k]
    BY DEF Elems
  <2>2. \E y \in Elems(l) : y.no = n
    BY <1>4, <1>5 DEF Sound, l
  <2>3. PICK j \in DOMAIN l : l[j].no = n
    BY <2>2 DEF Elems
  <2>4. CASE j \in DOMAIN p
    BY <1>1, <2>3, <2>4 DEF Elems
  <2>5. CASE k < j
    <3>1. l[k].no < l[j].no /\ l[k].no \in Nat /\ n <= l[k].no
      BY <1>1, <1>5, <2>1, <2>5 DEF Sound, Increasing, l
    <3> QED
      BY <2>3, <3>1
  <2> QED
    BY <1>2, <2>4, <2>5
<1> QED
  BY <1>4, <1>5 DEF Sound, l

Chain(c) ==
  /\ Segs(c, loop, segment)
  /\ \A t \in Types : Flow(t, c, loop, Elems(Held(feed[t])), feed[t].eos,
                           seekOffset[t], next[t], segment)

\* InOrder, NoGap and OneSegment say what the player holds; that it stays so
\* depends on what is under way to it. c is the player's segment
FeedInv ==
  /\ \A t \in Types : Sound(Held(feed[t]), feed[t].eos, seekOffset[t])
  /\ Live => \E c \in Nat : Chain(c)

LEMMA EmptyHeld ==
  \A b \in BOOLEAN : /\ Held(EmptyFeed(b)) = <<>> /\ ~EmptyFeed(b).eos
                     /\ Elems(Held(EmptyFeed(b))) = {}
                     /\ \A o : Sound(Held(EmptyFeed(b)), FALSE, o)
<1>1. \A b : Held(EmptyFeed(b)) = <<>> /\ ~EmptyFeed(b).eos
  BY DEF Held, EmptyFeed
<1>2. DOMAIN <<>> = {}
  OBVIOUS
<1>3. Elems(<<>>) = {}
  BY <1>2 DEF Elems
<1>4. \A o : Sound(<<>>, FALSE, o)
  BY <1>2, <1>3 DEF Sound, Increasing
<1> QED
  BY <1>1, <1>3, <1>4

LEMMA FeedInit == Init => FeedInv
<1> SUFFICES ASSUME Init PROVE FeedInv
  OBVIOUS
<1>1. \A t \in Types : /\ Held(feed[t]) = <<>> /\ feed[t].eos = FALSE
                       /\ Elems(Held(feed[t])) = {}
                       /\ Sound(Held(feed[t]), feed[t].eos, seekOffset[t])
  <2>1. \A t \in Types : feed[t] = EmptyFeed(t = "audio") /\ (t = "audio") \in BOOLEAN
    BY DEF Init
  <2>2. \A b \in BOOLEAN : EmptyFeed(b).eos = FALSE
    BY DEF EmptyFeed
  <2> QED
    BY <2>1, <2>2, EmptyHeld
<1>2. loop = <<>> /\ DOMAIN loop = {} /\ segment = 0 /\ \A t \in Types : next[t] = 0
  BY DEF Init
<1>3. Segs(0, loop, segment)
  BY <1>2 DEF Segs
<1>4. \A t \in Types : \A o : Flow(t, 0, loop, {}, FALSE, o, 0, 0)
  BY <1>2 DEF Flow, Numbers, Covered
<1>5. Chain(0)
  BY <1>1, <1>2, <1>3, <1>4 DEF Chain
<1> QED
  BY <1>1, <1>5 DEF FeedInv

LEMMA ShiftedTrans ==
  ASSUME NEW l, NEW m \in Seq(Work), NEW n, NEW d \in {0, 1},
         Shifted(l, m, d), Shifted(m, n, 0)
  PROVE  Shifted(l, n, d)
<1>1. \A j \in DOMAIN n : InFlow(n[j]) => j + d \in DOMAIN l /\ l[j + d] = n[j]
  <2> SUFFICES ASSUME NEW j \in DOMAIN n, InFlow(n[j])
               PROVE  j + d \in DOMAIN l /\ l[j + d] = n[j]
    OBVIOUS
  <2>1. j + 0 \in DOMAIN m /\ m[j + 0] = n[j]
    BY DEF Shifted
  <2>2. (j + 0) + d \in DOMAIN l /\ l[(j + 0) + d] = n[j]
    BY <2>1 DEF Shifted
  <2>3. j + 0 = j
    OBVIOUS
  <2> QED
    BY <2>2, <2>3
<1>2. \A i \in DOMAIN l : InFlow(l[i]) => i - d \in DOMAIN n /\ n[i - d] = l[i]
  <2> SUFFICES ASSUME NEW i \in DOMAIN l, InFlow(l[i])
               PROVE  i - d \in DOMAIN n /\ n[i - d] = l[i]
    OBVIOUS
  <2>1. i - d \in DOMAIN m /\ m[i - d] = l[i]
    BY DEF Shifted
  <2>2. (i - d) - 0 \in DOMAIN n /\ n[(i - d) - 0] = l[i]
    BY <2>1 DEF Shifted
  <2>3. (i - d) - 0 = i - d
    BY <2>1
  <2> QED
    BY <2>2, <2>3
<1> QED
  BY <1>1, <1>2 DEF Shifted

\* A step that neither takes part in the flow nor changes what the player holds
LEMMA FeedFrame ==
  ASSUME TypeOK, TypeOK', FeedInv, Live' => Live,
         UNCHANGED <<seekOffset, segment, next>>,
         \A t \in Types : /\ Held(feed'[t]) = Held(feed[t])
                          /\ feed'[t].eos = feed[t].eos,
         \E d \in {0, 1} : Shifted(loop, loop', d)
  PROVE  FeedInv'
<1>1. PICK d \in {0, 1} : Shifted(loop, loop', d)
  OBVIOUS
<1>2. loop \in Seq(Work) /\ loop' \in Seq(Work) /\ segment \in Nat
  BY DEF TypeOK
<1>3. \A t \in Types : Sound(Held(feed[t]), feed[t].eos, seekOffset[t])'
  BY DEF FeedInv
<1>4. ASSUME NEW c \in Nat, Chain(c) PROVE Chain(c)'
  <2>1. Segs(c, loop', segment)
    BY <1>1, <1>2, <1>4, SegsShift DEF Chain
  <2>2. ASSUME NEW t \in Types
        PROVE  Flow(t, c, loop', Elems(Held(feed[t])), feed[t].eos,
                    seekOffset[t], next[t], segment)
    BY <1>1, <1>2, <1>4, ShiftedFlow, FlowShift DEF Chain
  <2>3. \A t \in Types : Flow(t, c, loop', Elems(Held(feed'[t])), feed'[t].eos,
                              seekOffset'[t], next'[t], segment')
    BY <2>2
  <2> QED
    BY <2>1, <2>3 DEF Chain
<1> QED
  BY <1>3, <1>4 DEF FeedInv

LEMMA ShiftedSame == ASSUME NEW l \in Seq(Work) PROVE Shifted(l, l, 0)
<1>1. \A i \in DOMAIN l : i + 0 = i /\ i - 0 = i
  OBVIOUS
<1> QED
  BY <1>1 DEF Shifted

\* The same when a task outside the flow is taken, and one perhaps posted
LEMMA ShiftedTake ==
  ASSUME NEW l \in Seq(Work), NEW m, l # <<>>, ~InFlow(Head(l)),
         \/ m = Tail(l)
         \/ \E w \in Work : ~InFlow(w) /\ m = Append(Tail(l), w)
  PROVE  Shifted(l, m, 1)
<1>1. Shifted(l, Tail(l), 1) /\ Tail(l) \in Seq(Work)
  BY ShiftedTail
<1>2. CASE m = Tail(l)
  BY <1>1, <1>2
<1>3. ASSUME NEW w \in Work, ~InFlow(w), m = Append(Tail(l), w)
      PROVE  Shifted(l, m, 1)
  BY <1>1, <1>3, ShiftedAppend, ShiftedTrans
<1> QED
  BY <1>2, <1>3

\* Feeds changed only in what says whether, not what, to feed
LEMMA FeedField ==
  ASSUME NEW t, NEW s \in Types, NEW b, feed \in [Types -> Feed],
         \/ feed' = [feed EXCEPT ![t].should = b]
         \/ feed' = [feed EXCEPT ![t].waiting = b]
         \/ feed' = [feed EXCEPT ![t].level = b]
  PROVE  Held(feed'[s]) = Held(feed[s]) /\ feed'[s].eos = feed[s].eos
<1>1. feed[s] \in Feed
  OBVIOUS
<1>2. feed'[s] \in {feed[s], [feed[s] EXCEPT !.should = b],
                    [feed[s] EXCEPT !.waiting = b], [feed[s] EXCEPT !.level = b]}
  BY Zenon
<1>3. feed'[s].pushed = feed[s].pushed /\ feed'[s].saved = feed[s].saved
      /\ feed'[s].eos = feed[s].eos
  BY <1>1, <1>2 DEF Feed
<1> QED
  BY <1>3 DEF Held

\* The tasks of the UI thread that take no part in the flow
LEMMA FeedTask ==
  ASSUME TypeOK, TypeOK', LifeInv, FeedInv, Live' => Live,
         \/ DropCommand \/ OnPlay \/ OnPause \/ SetRate \/ Seek
         \/ DeletePlayer \/ FinishDestroy
         \/ OnDemuxerConfigsAvailable \/ OnReadAborted
         \/ ReadDemuxedData \/ PostedPlay \/ SeekStateFalse \/ OnTimeChanged
         \/ OnPlaybackComplete \/ HandleBufferingMessage \/ OnUpdateStates
  PROVE  FeedInv'
<1> USE DEF objVars, seekVars, rendVars, pageVars, Take
<1>1. loop \in Seq(Work) /\ feed \in [Types -> Feed]
  BY DEF TypeOK
<1>2. UNCHANGED <<seekOffset, segment, next>>
  BY DEF DropCommand, OnPlay, OnPause, SetRate, Seek, DeletePlayer,
         FinishDestroy, OnDemuxerConfigsAvailable, OnReadAborted,
         ReadDemuxedData, PostedPlay, SeekStateFalse, OnTimeChanged,
         OnPlaybackComplete, HandleBufferingMessage, OnUpdateStates
<1>3. feed' = feed \/ \E t : feed' = [feed EXCEPT ![t].should = TRUE]
  BY DEF DropCommand, OnPlay, OnPause, SetRate, Seek, DeletePlayer,
         FinishDestroy, OnDemuxerConfigsAvailable, OnReadAborted,
         ReadDemuxedData, PostedPlay, SeekStateFalse, OnTimeChanged,
         OnPlaybackComplete, HandleBufferingMessage, OnUpdateStates
<1>4. \A t \in Types : /\ Held(feed'[t]) = Held(feed[t])
                       /\ feed'[t].eos = feed[t].eos
  BY <1>1, <1>3, FeedField
<1>5. CASE FinishDestroy
  <2>1. Item("delete") \in Work /\ ~InFlow(Item("delete"))
    BY ItemType DEF Kinds, Tasks, Media, InFlow, Item
  <2>2. Shifted(loop, loop', 0)
    BY <1>1, <1>5, <2>1, ShiftedAppend DEF FinishDestroy
  <2> QED
    BY <1>2, <1>4, <2>2, FeedFrame
<1>6. CASE ~FinishDestroy
  <2> DEFINE back == ItemOf("read", Head(loop).type)
  <2>1. loop # <<>> /\ Head(loop).kind \notin {"data", "seekDone"}
    <3>1. CASE DropCommand
      BY <3>1 DEF DropCommand, Commands, Runs
    <3>2. CASE ~DropCommand
      BY <1>6, <3>2
         DEF OnPlay, OnPause, SetRate, Seek, DeletePlayer,
             OnDemuxerConfigsAvailable, OnReadAborted, ReadDemuxedData,
             PostedPlay, SeekStateFalse, OnTimeChanged, OnPlaybackComplete,
             HandleBufferingMessage, OnUpdateStates, Runs
    <3> QED
      BY <3>1, <3>2
  <2>2. loop # <<>> /\ ~InFlow(Head(loop)) /\ Head(loop) \in Work
    <3>1. Head(loop) \in Work
      BY <1>1, <2>1
    <3> QED
      BY <2>1, <3>1 DEF InFlow
  <2>3. loop' = Tail(loop) \/ loop' = Append(Tail(loop), back)
    BY <1>6
       DEF DropCommand, OnPlay, OnPause, SetRate, Seek, DeletePlayer,
           OnDemuxerConfigsAvailable, OnReadAborted, ReadDemuxedData,
           PostedPlay, SeekStateFalse, OnTimeChanged, OnPlaybackComplete,
           HandleBufferingMessage, OnUpdateStates, Post, Done
  <2>4. back \in Work /\ ~InFlow(back)
    BY <2>2, ItemType DEF Work, Kinds, Tasks, InFlow, ItemOf, Item
  <2>5. Shifted(loop, loop', 1)
    <3> HIDE DEF back
    <3> QED
      BY <1>1, <2>2, <2>3, <2>4, ShiftedTake
  <2> QED
    BY <1>2, <1>4, <2>5, FeedFrame
<1> QED
  BY <1>5, <1>6

LEMMA FeedStreaming ==
  ASSUME TypeOK, TypeOK', FeedInv, Live' => Live, Streaming PROVE FeedInv'
<1> USE DEF objVars, seekVars, rendVars, pageVars
<1>1. loop \in Seq(Work) /\ feed \in [Types -> Feed]
  BY DEF TypeOK
<1>2. ASSUME NEW t \in Types, Consume(t) PROVE FeedInv'
  <2>1. UNCHANGED <<loop, seekOffset, segment, next>>
        /\ feed' = [feed EXCEPT ![t].level = @ - 1]
    BY <1>2 DEF Consume
  <2>2. feed' = [feed EXCEPT ![t].level = feed[t].level - 1]
    BY <2>1
  <2>3. \A s \in Types : Held(feed'[s]) = Held(feed[s]) /\ feed'[s].eos = feed[s].eos
    BY <1>1, <2>2, FeedField
  <2> QED
    BY <1>1, <2>1, <2>3, ShiftedSame, FeedFrame
<1>3. ASSUME NEW th \in Threads,
             \/ \E t \in Types : EnterNeedData(th, t)
             \/ EnterAsyncDone(th) \/ EnterMessage(th)
      PROVE  FeedInv'
  <2>1. UNCHANGED <<loop, seekOffset, segment, next>>
    BY <1>3 DEF EnterNeedData, EnterAsyncDone, EnterMessage, Enter
  <2>2. feed' = feed \/ \E t : feed' = [feed EXCEPT ![t].waiting = TRUE]
    BY <1>3 DEF EnterNeedData, EnterAsyncDone, EnterMessage
  <2>3. \A s \in Types : Held(feed'[s]) = Held(feed[s]) /\ feed'[s].eos = feed[s].eos
    BY <1>1, <2>2, FeedField
  <2> QED
    BY <1>1, <2>1, <2>3, ShiftedSame, FeedFrame
<1>4. ASSUME NEW th \in Threads, RunCallback(th) PROVE FeedInv'
  <2>1. UNCHANGED <<feed, seekOffset, segment, next>>
    BY <1>4 DEF RunCallback, NeedData, AsyncDone, Buffering, PostFromMessage,
                PipelineError
  <2>2. cb[th].type \in Media
    BY DEF TypeOK, Callback
  <2>3. /\ \A k \in {"seekFalse", "play", "timeChanged", "buffering", "complete",
                     "states"} : Item(k) \in Work /\ ~InFlow(Item(k))
        /\ ItemOf("read", cb[th].type) \in Work
        /\ ~InFlow(ItemOf("read", cb[th].type))
    BY <2>2, ItemType DEF Kinds, Tasks, Media, Item, ItemOf, InFlow
  <2>4. \A w \in Work : ~InFlow(w) => Shifted(loop, Append(loop, w), 0)
    BY <1>1, ShiftedAppend
  <2>5. Shifted(loop, loop', 0)
    <3>1. CASE NeedData(th) \/ Buffering(th) \/ PostFromMessage(th) \/ PipelineError(th)
      BY <1>1, <2>3, <2>4, <3>1, ShiftedSame
         DEF NeedData, Buffering, PostFromMessage, PipelineError
    <3>2. CASE AsyncDone(th)
      <4> DEFINE a == Append(loop, Item("seekFalse"))
                 b == IF ctl.playing THEN Append(a, Item("play")) ELSE a
      <4>1. \/ UNCHANGED loop
            \/ loop' = loop \o <<Item("seekFalse")>>
                          \o (IF ctl.playing THEN <<Item("play")>> ELSE <<>>)
                          \o <<Item("timeChanged")>>
        BY <3>2 DEF AsyncDone
      <4>2. /\ \A l \in Seq(Work), w \in Work : l \o <<w>> = Append(l, w)
                                                /\ Append(l, w) \in Seq(Work)
            /\ \A l \in Seq(Work) : l \o <<>> = l
        OBVIOUS
      <4>3. UNCHANGED loop \/ loop' = Append(b, Item("timeChanged"))
        BY <1>1, <2>3, <4>1, <4>2
      <4>4. a \in Seq(Work) /\ b \in Seq(Work)
        BY <1>1, <2>3, <4>2
      <4>5. Shifted(loop, a, 0)
        BY <2>3, <2>4
      <4>6. Shifted(loop, b, 0)
        <5>1. CASE ctl.playing
          <6> HIDE DEF a
          <6>1. Shifted(a, Append(a, Item("play")), 0)
            BY <2>3, <4>4, ShiftedAppend
          <6> QED
            BY <4>4, <4>5, <5>1, <6>1, ShiftedTrans
        <5>2. CASE ~ctl.playing
          BY <4>5, <5>2
        <5> QED
          BY <5>1, <5>2
      <4>7. Shifted(loop, Append(b, Item("timeChanged")), 0)
        <5> HIDE DEF b
        <5>1. Shifted(b, Append(b, Item("timeChanged")), 0)
          BY <2>3, <4>4, ShiftedAppend
        <5> QED
          BY <4>4, <4>6, <5>1, ShiftedTrans
      <4> QED
        BY <1>1, <4>3, <4>7, ShiftedSame
    <3> QED
      BY <1>4, <3>1, <3>2 DEF RunCallback
  <2> QED
    BY <2>1, <2>5, FeedFrame
<1> QED
  BY <1>2, <1>3, <1>4 DEF Streaming

\* The demuxer's answers, and what else the renderer sends
LEMMA FeedRenderer ==
  ASSUME TypeOK, TypeOK', FeedInv, Live' => Live, Renderer PROVE FeedInv'
<1> USE DEF objVars, seekVars, rendVars, pageVars
<1>1. /\ loop \in Seq(Work) /\ loop' \in Seq(Work) /\ segment \in Nat
      /\ next \in [Types -> Nat] /\ feed \in [Types -> Feed]
  BY DEF TypeOK
<1>2. UNCHANGED <<feed, seekOffset>>
  BY DEF Renderer, RendererReady, RendererAnswer, RendererAbort, RendererIgnore,
         RendererSeek, RendererSeekAgain, RendererSeekDone, PageCommand, PageDestroy
<1>3. \A t \in Types : Sound(Held(feed[t]), feed[t].eos, seekOffset[t])'
  BY <1>2 DEF FeedInv
<1>4. \A w : loop' = Append(loop, w) => w \in Work
  <2>1. \A w : Len(loop) + 1 \in DOMAIN Append(loop, w)
               /\ Append(loop, w)[Len(loop) + 1] = w
    BY <1>1
  <2> QED
    BY <1>1, <2>1
<1>5. ASSUME UNCHANGED <<segment, next>>,
             UNCHANGED loop \/ \E w : ~InFlow(w) /\ loop' = Append(loop, w)
      PROVE  FeedInv'
  <2>1. Shifted(loop, loop', 0)
    BY <1>1, <1>4, <1>5, ShiftedSame, ShiftedAppend
  <2> QED
    BY <1>2, <1>5, <2>1, FeedFrame
<1>6. CASE \/ RendererReady \/ RendererSeek \/ PageCommand \/ PageDestroy
           \/ \E t \in Types : RendererAbort(t) \/ RendererIgnore(t)
  <2>1. UNCHANGED <<segment, next>>
    BY <1>6 DEF RendererReady, RendererSeek, PageCommand, PageDestroy,
                RendererAbort, RendererIgnore
  <2>2. UNCHANGED loop \/ \E w : ~InFlow(w) /\ loop' = Append(loop, w)
    BY <1>6 DEF RendererReady, RendererSeek, PageCommand, PageDestroy,
                RendererAbort, RendererIgnore, Deliver, Item, ItemOf, InFlow
  <2> QED
    BY <1>5, <2>1, <2>2
<1>7. ASSUME NEW t \in Types, RendererAnswer(t) PROVE FeedInv'
  <2> DEFINE w == [ItemOf("data", t) EXCEPT
                     !.buf = [seg |-> segment, no |-> next[t] + 1]]
  <2>1. CASE UNCHANGED next
    <3>1. UNCHANGED segment /\ ~InFlow(ItemOf("endOfStream", t))
      BY <1>7 DEF RendererAnswer, InFlow, ItemOf, Item
    <3>2. loop' = Append(loop, ItemOf("endOfStream", t))
      <4>1. next[t] + 1 # next[t]
        BY <1>1
      <4>2. next' = [next EXCEPT ![t] = next[t] + 1] => next'[t] = next[t] + 1
        BY <1>1
      <4> QED
        BY <1>7, <2>1, <4>1, <4>2 DEF RendererAnswer, Deliver
    <3> QED
      BY <1>5, <2>1, <3>1, <3>2
  <2>2. CASE /\ next' = [next EXCEPT ![t] = @ + 1]
             /\ loop' = Append(loop, w) /\ UNCHANGED segment
    <3>1. /\ IsData(w, t) /\ w.buf = [seg |-> segment, no |-> next[t] + 1]
          /\ w.kind = "data" /\ w.type = t
      BY DEF IsData, ItemOf, Item
    <3>2. w \in Work /\ next[t] \in Nat
      BY <1>1, <1>4, <2>2
    <3>a. w.buf.seg = segment
      BY <3>1
    <3> HIDE DEF w
    <3>3. ASSUME NEW c \in Nat, Chain(c) PROVE Chain(c)'
      <4>1. Segs(c, loop', segment)
        BY <1>1, <2>2, <3>1, <3>2, <3>3, <3>a, AnswerSegs DEF Chain
      <4>2. ASSUME NEW s \in Types
            PROVE  Flow(s, c, loop', Elems(Held(feed[s])), feed[s].eos,
                        seekOffset[s], next'[s], segment)
        <5> DEFINE R == Elems(Held(feed[s]))
        <5>0. /\ Segs(c, loop, segment)
              /\ Flow(s, c, loop, R, feed[s].eos, seekOffset[s], next[s], segment)
          BY <3>3 DEF Chain
        <5>1. CASE s = t
          <6>1. \A x \in R : x.no \in Nat
            BY <1>1, HeldType
          <6>2. Flow(t, c, Append(loop, w), R, feed[s].eos, seekOffset[s],
                     next[t] + 1, segment)
            <7> HIDE DEF R
            <7> QED
              BY <1>1, <3>1, <3>2, <5>0, <5>1, <6>1, AnswerFlow
          <6>3. next'[t] = next[t] + 1
            BY <1>1, <2>2
          <6> QED
            BY <2>2, <5>1, <6>2, <6>3
        <5>2. CASE s # t
          <6>1. ~IsData(w, s)
            BY <3>1, <5>2 DEF IsData
          <6>2. ShiftedData(s, loop, loop', 0)
            BY <1>1, <2>2, <3>2, <6>1, ShiftedAppend
          <6>3. next'[s] = next[s]
            BY <1>1, <2>2, <5>2
          <6> HIDE DEF R
          <6>4. Flow(s, c, loop', R, feed[s].eos, seekOffset[s], next[s], segment)
            BY <1>1, <5>0, <6>2, FlowShift
          <6> QED
            BY <6>3, <6>4 DEF R
        <5> QED
          BY <5>1, <5>2
      <4>3. \A s \in Types : Flow(s, c, loop', Elems(Held(feed'[s])), feed'[s].eos,
                                  seekOffset'[s], next'[s], segment')
        BY <1>2, <2>2, <4>2
      <4> QED
        BY <2>2, <4>1, <4>3 DEF Chain
    <3> QED
      BY <1>3, <3>3 DEF FeedInv
  <2> QED
    BY <1>7, <2>1, <2>2 DEF RendererAnswer, Deliver
<1>8. CASE RendererSeekAgain \/ RendererSeekDone
  <2> DEFINE w == [Item("seekDone") EXCEPT !.buf.seg = segment + 1]
  <2>1. CASE UNCHANGED <<loop, segment, next>>
    BY <1>5, <2>1
  <2>2. CASE /\ segment' = segment + 1 /\ loop' = Append(loop, w)
             /\ next' = [t \in Types |-> 0]
    <3>1. IsDone(w) /\ w.buf.seg = segment + 1
      BY DEF IsDone, Item, NoBuffer
    <3>2. w \in Work
      BY <1>4, <2>2
    <3> HIDE DEF w
    <3>3. ASSUME NEW c \in Nat, Chain(c) PROVE Chain(c)'
      <4>1. Segs(c, loop', segment')
        BY <1>1, <2>2, <3>1, <3>2, <3>3, SoughtSegs DEF Chain
      <4>2. ASSUME NEW s \in Types
            PROVE  Flow(s, c, loop', Elems(Held(feed[s])), feed[s].eos,
                        seekOffset[s], 0, segment + 1)
        <5> DEFINE R == Elems(Held(feed[s]))
        <5>0. /\ Segs(c, loop, segment) /\ next[s] \in Nat
              /\ Flow(s, c, loop, R, feed[s].eos, seekOffset[s], next[s], segment)
          BY <1>1, <3>3 DEF Chain
        <5> HIDE DEF R
        <5>1. Flow(s, c, Append(loop, w), R, feed[s].eos, seekOffset[s], 0,
                   segment + 1)
          BY <1>1, <3>1, <3>2, <5>0, SoughtFlow
        <5> QED
          BY <2>2, <5>1 DEF R
      <4>3. \A s \in Types : Flow(s, c, loop', Elems(Held(feed'[s])), feed'[s].eos,
                                  seekOffset'[s], next'[s], segment')
        BY <1>2, <2>2, <4>2
      <4> QED
        BY <4>1, <4>3 DEF Chain
    <3> QED
      BY <1>3, <3>3 DEF FeedInv
  <2> QED
    BY <1>8, <2>1, <2>2 DEF RendererSeekAgain, RendererSeekDone, Deliver
<1> QED
  BY <1>6, <1>7, <1>8 DEF Renderer

\* An item of the demuxer's is served by a player that is live, or it stays dead
LEMMA UsableLive ==
  ASSUME TypeOK, LifeInv, Fresh, NEW k, Runs(k), k \notin {"configs", "cmdDestroy"}
  PROVE  Usable <=> Live
<1>1. 1 \in DOMAIN loop /\ loop[1].kind = k
  BY TailIndex DEF Runs, TypeOK
<1>2. Live => pipeline
  BY <1>1 DEF Fresh
<1>3. Usable => Live
  BY DEF Usable, Live, LifeInv, Runs
<1> QED
  BY <1>2, <1>3 DEF Usable, Live

LEMMA FeedData ==
  ASSUME TypeOK, TypeOK', LifeInv, Fresh, FeedInv, OnDemuxerDataAvailable
  PROVE  FeedInv'
<1> USE DEF objVars, seekVars, rendVars, pageVars
<1> DEFINE t == Head(loop).type
           b == Head(loop).buf
           R(s) == Elems(Held(feed[s]))
           back == ItemOf("read", t)
<1>1. /\ loop \in Seq(Work) /\ loop' \in Seq(Work) /\ segment \in Nat
      /\ feed \in [Types -> Feed] /\ seekOffset \in [Types -> Nat]
  BY DEF TypeOK
<1>2. /\ Runs("data") /\ loop # <<>> /\ Head(loop).kind = "data"
      /\ UNCHANGED <<seekOffset, segment, next, destructing, error>>
  BY DEF OnDemuxerDataAvailable, Runs
<1>3. Head(loop) \in Work /\ t \in Media /\ b \in Buffer
  <2>1. Head(loop) \in Work
    BY <1>1, <1>2
  <2> QED
    BY <2>1 DEF Work
<1>4. CASE ~Usable
  <2>1. UNCHANGED feed /\ ~Live
    BY <1>2, <1>4, UsableLive DEF OnDemuxerDataAvailable
  <2> QED
    BY <1>2, <2>1 DEF FeedInv, Live
<1>5. CASE Usable
  <2>1. Live
    BY <1>2, <1>5, UsableLive
  <2>2. PICK c \in Nat : Chain(c)
    BY <2>1 DEF FeedInv
  <2>3. b.seg = c /\ Segs(c, Tail(loop), segment)
    BY <1>1, <1>2, <2>2, TakeDataSegs DEF Chain
  <2>4. Tail(loop) \in Seq(Work)
    BY <1>1, <1>2
  <2>5. back \in Work /\ ~InFlow(back)
    BY <1>3, ItemType DEF Kinds, Tasks, InFlow, ItemOf, Item
  <2>6. Shifted(Tail(loop), loop', 0)
    <3>1. loop' = Tail(loop) \/ loop' = Append(Tail(loop), back)
      BY <1>5 DEF OnDemuxerDataAvailable, Post, Done
    <3> HIDE DEF back
    <3> QED
      BY <2>4, <2>5, <3>1, ShiftedSame, ShiftedAppend
  <2>7. Segs(c, loop', segment)
    BY <1>1, <2>3, <2>4, <2>6, SegsShift
  <2>8. IsData(Head(loop), t)
    BY <1>2 DEF IsData
  <2>9. ASSUME NEW s \in Types
        PROVE  Flow(s, c, loop, R(s), feed[s].eos, seekOffset[s], next[s], segment)
    BY <2>2 DEF Chain
  <2>10. /\ \A s \in Types : s # t => feed'[s] = feed[s]
         /\ \/ b.no <= seekOffset[t] /\ UNCHANGED feed
            \/ t \in Types => feed'[t] = Received(feed[t], b)
    BY <1>1, <1>5 DEF OnDemuxerDataAvailable, Early, Received
  <2>11. ASSUME NEW s \in Types, s # t
         PROVE  /\ Sound(Held(feed'[s]), feed'[s].eos, seekOffset'[s])
                /\ Flow(s, c, Tail(loop), Elems(Held(feed'[s])), feed'[s].eos,
                        seekOffset'[s], next'[s], segment')
    <3>1. ShiftedData(s, loop, Tail(loop), 1)
      BY <1>1, <1>2, <2>8, <2>11, ShiftedTail DEF IsData
    <3>2. Flow(s, c, Tail(loop), R(s), feed[s].eos, seekOffset[s], next[s], segment)
      <4> HIDE DEF R
      <4> QED
        BY <1>1, <2>4, <2>9, <3>1, FlowShift
    <3> QED
      BY <1>2, <2>10, <2>11, <3>2 DEF FeedInv
  <2>12. ASSUME t \in Types
         PROVE  /\ Sound(Held(feed'[t]), feed'[t].eos, seekOffset'[t])
                /\ Flow(t, c, Tail(loop), Elems(Held(feed'[t])), feed'[t].eos,
                        seekOffset'[t], next'[t], segment')
    <3> DEFINE f == feed[t]
               q == Held(f)
               o == seekOffset[t]
               R2 == Elems(Held(feed'[t]))
    <3>1. f \in Feed /\ f.eos \in BOOLEAN /\ q \in Seq(Buffer) /\ o \in Nat
      <4>1. f \in Feed /\ o \in Nat
        BY <1>1, <2>12
      <4> QED
        BY <4>1, HeldType DEF Feed
    <3>2. /\ Sound(q, f.eos, o)
          /\ Flow(t, c, loop, R(t), f.eos, o, next[t], segment)
      BY <2>9, <2>12 DEF FeedInv
    <3>3. /\ Behind(R(t), b)
          /\ \A n \in 1 .. b.no : n # b.no => Has(R(t), f.eos, o, n)
      <4> DEFINE Q == R(t)
                 e == f.eos
      <4>1. Flow(t, c, loop, Q, e, o, next[t], segment)
        BY <3>2
      <4> HIDE DEF Q, e, o, f
      <4>2. /\ Behind(Q, b)
            /\ \A n \in 1 .. b.no : n # b.no => Has(Q, e, o, n)
        <5> DEFINE nx == next[t]
        <5> HIDE DEF nx
        <5>1. Flow(t, c, loop, Q, e, o, nx, segment) /\ Head(loop).buf.seg = c
              /\ IsData(Head(loop), t)
          BY <2>3, <2>8, <4>1 DEF nx
        <5> HIDE DEF t
        <5> QED
          BY <1>1, <1>2, <5>1, TakeDataNext
      <4> QED
        BY <4>2 DEF Q, e
    <3>4. /\ feed'[t].eos = f.eos /\ Sound(Held(feed'[t]), f.eos, o)
          /\ R2 \subseteq R(t) \cup {b} /\ (f.eos \/ R(t) \subseteq R2)
          /\ f.eos \/ b.no <= o \/ b \in R2
      <4>1. CASE b.no <= o /\ UNCHANGED feed
        BY <3>2, <4>1
      <4>2. CASE feed'[t] = Received(f, b)
        <5> DEFINE h == Received(f, b)
        <5>1. h.eos = f.eos
              /\ (IF f.eos THEN Thinned(Held(h), Append(q, b))
                           ELSE Held(h) = Append(q, b))
          BY <1>3, <1>5, <3>1, ReceivedHeld
        <5>2. Elems(Append(q, b)) = R(t) \cup {b}
          BY <1>3, <3>1, AppendOrder
        <5> HIDE DEF h, q
        <5>3. Sound(Held(h), f.eos, o)
          <6> DEFINE e == f.eos
                     r == Held(h)
          <6>1. /\ Behind(Elems(q), b)
                /\ \A n \in 1 .. b.no : n # b.no => Has(Elems(q), e, o, n)
            BY <3>3 DEF q
          <6>2. /\ Sound(q, e, o) /\ e \in BOOLEAN /\ q \in Seq(Buffer) /\ o \in Nat
                /\ IF e THEN Thinned(r, Append(q, b)) ELSE r = Append(q, b)
            BY <3>1, <3>2, <5>1
          <6> HIDE DEF e, o, r, b
          <6>3. Sound(r, e, o)
            BY Zenon, <1>3, <2>3, <6>1, <6>2, SoundReceived
          <6> QED
            BY <6>3 DEF e, r
        <5>4. /\ Elems(Held(h)) \subseteq R(t) \cup {b}
              /\ ~f.eos => Elems(Held(h)) = R(t) \cup {b}
          <6> HIDE DEF R
          <6> QED
            BY <5>1, <5>2, ThinnedOrder
        <5> QED
          BY <4>2, <5>1, <5>3, <5>4 DEF h
      <4> QED
        BY <2>10, <2>12, <4>1, <4>2
    <3>5. Flow(t, c, Tail(loop), R2, f.eos, o, next[t], segment)
      <4> HIDE DEF R, R2, f, o, q
      <4> QED
        BY <1>1, <1>2, <2>3, <2>8, <3>1, <3>2, <3>4, TakeDataFlow
    <3> QED
      BY <1>2, <3>4, <3>5
  <2>13. ASSUME NEW s \in Types
         PROVE  /\ Sound(Held(feed'[s]), feed'[s].eos, seekOffset'[s])
                /\ Flow(s, c, loop', Elems(Held(feed'[s])), feed'[s].eos,
                        seekOffset'[s], next'[s], segment')
    <3>1. /\ Sound(Held(feed'[s]), feed'[s].eos, seekOffset'[s])
          /\ Flow(s, c, Tail(loop), Elems(Held(feed'[s])), feed'[s].eos,
                  seekOffset'[s], next'[s], segment')
      BY <2>11, <2>12
    <3>2. ShiftedData(s, Tail(loop), loop', 0)
      BY <2>6, ShiftedFlow
    <3> DEFINE R2 == Elems(Held(feed'[s]))
               e2 == feed'[s].eos
    <3> HIDE DEF R2, e2
    <3>3. Flow(s, c, Tail(loop), R2, e2, seekOffset'[s], next'[s], segment')
      BY <3>1 DEF R2, e2
    <3>4. Flow(s, c, loop', R2, e2, seekOffset'[s], next'[s], segment')
      BY <1>1, <2>4, <3>2, <3>3, FlowShift
    <3> QED
      BY <3>1, <3>4 DEF R2, e2
  <2>14. Chain(c)'
    BY <1>2, <2>7, <2>13 DEF Chain
  <2> QED
    BY <2>13, <2>14 DEF FeedInv
<1> QED
  BY <1>4, <1>5

LEMMA FeedEnd ==
  ASSUME TypeOK, TypeOK', LifeInv, Fresh, FeedInv, OnEndOfStream
  PROVE  FeedInv'
<1> USE DEF objVars, seekVars, rendVars, pageVars
<1> DEFINE t == Head(loop).type
           f == ReadFromQueueIfAny(feed[t])
<1>1. /\ loop \in Seq(Work) /\ loop' \in Seq(Work) /\ segment \in Nat
      /\ feed \in [Types -> Feed]
  BY DEF TypeOK
<1>2. /\ Runs("endOfStream") /\ loop # <<>> /\ Head(loop).kind = "endOfStream"
      /\ loop' = Tail(loop)
      /\ UNCHANGED <<seekOffset, segment, next, destructing, error>>
  BY DEF OnEndOfStream, Runs, Take
<1>3. CASE ~Usable
  <2>1. UNCHANGED feed /\ ~Live
    BY <1>2, <1>3, UsableLive DEF OnEndOfStream
  <2> QED
    BY <1>2, <2>1 DEF FeedInv, Live
<1>4. CASE Usable
  <2>1. Live
    BY <1>2, <1>4, UsableLive
  <2>2. PICK c \in Nat : Chain(c)
    BY <2>1 DEF FeedInv
  <2>3. Shifted(loop, loop', 1)
    BY <1>1, <1>2, ShiftedTail DEF InFlow
  <2>4. Segs(c, loop', segment)
    BY <1>1, <2>2, <2>3, SegsShift DEF Chain
  <2>5. feed' = [feed EXCEPT ![t] = [f EXCEPT !.eos = TRUE]]
    BY <1>4 DEF OnEndOfStream
  <2>6. ASSUME NEW s \in Types
        PROVE  /\ Sound(Held(feed'[s]), feed'[s].eos, seekOffset'[s])
               /\ Flow(s, c, loop', Elems(Held(feed'[s])), feed'[s].eos,
                       seekOffset'[s], next'[s], segment')
    <3> DEFINE R == Elems(Held(feed[s]))
               e == feed[s].eos
               q == Held(feed[s])
    <3>1. Sound(q, e, seekOffset[s])
      BY DEF FeedInv
    <3>2. Flow(s, c, loop, R, e, seekOffset[s], next[s], segment)
      BY <2>2 DEF Chain
    <3>3. ShiftedData(s, loop, loop', 1)
      BY <2>3, ShiftedFlow
    <3>4. Flow(s, c, loop', R, e, seekOffset[s], next[s], segment)
      <4> HIDE DEF R, e
      <4> QED
        BY <1>1, <3>2, <3>3, FlowShift
    <3>5. CASE s # t
      <4>1. feed'[s] = feed[s]
        BY <1>1, <2>5, <3>5
      <4> QED
        BY <1>2, <3>1, <3>4, <4>1
    <3>6. CASE s = t
      <4>1. feed[s] \in Feed /\ f \in Feed
        BY <1>1, <3>6, ReadFromQueueType
      <4>2. feed'[s].eos = TRUE /\ feed'[s].pushed = f.pushed /\ feed'[s].saved = f.saved
        <5>1. feed'[s] = [f EXCEPT !.eos = TRUE]
          BY <1>1, <2>5, <3>6
        <5> HIDE DEF f
        <5> QED
          BY <4>1, <5>1 DEF Feed
      <4>3. Held(feed'[s]) = Held(f)
        BY <4>2 DEF Held
      <4>4. Thinned(Held(f), q)
        <5>1. /\ feed[s].pushed \in Seq(Buffer) /\ feed[s].saved \in Seq(Buffer)
              /\ f.saved \in Seq(Buffer)
          BY <4>1, HeldType
        <5>2. CASE e
          <6>1. /\ f.pushed = feed[s].pushed
                /\ \/ f.saved = feed[s].saved
                   \/ feed[s].saved # <<>> /\ f.saved = Tail(feed[s].saved)
            BY <1>4, <3>6, <4>1, <5>2, ReadFromQueueHeld
          <6> QED
            BY <5>1, <6>1, ThinnedTail DEF Held
        <5>3. CASE ~e
          <6>1. Held(f) = Held(feed[s])
            <7>1. e = (feed[t].eos = TRUE) \/ e \in BOOLEAN
              BY <4>1 DEF Feed
            <7> QED
              BY <1>4, <3>6, <4>1, <5>3, ReadFromQueueHeld
          <6>2. Thinned(q, q)
            BY <5>1, ThinnedTail DEF Held
          <6> QED
            BY <6>1, <6>2
        <5> QED
          BY <5>2, <5>3
      <4>5. Sound(Held(f), TRUE, seekOffset[s])
        <5> HIDE DEF f, q, e
        <5> QED
          BY <3>1, <4>4, SoundEnded
      <4>6. Elems(Held(f)) \subseteq R
        <5>1. ASSUME NEW p, NEW r, Thinned(r, p) PROVE Elems(r) \subseteq Elems(p)
          BY <5>1, ThinnedOrder
        <5> QED
          BY <4>4, <5>1
      <4>7. Flow(s, c, loop', Elems(Held(f)), TRUE, seekOffset[s], next[s], segment)
        <5> HIDE DEF R, e, f
        <5> QED
          BY <3>4, <4>6, EndFlow
      <4> QED
        BY <1>2, <4>2, <4>3, <4>5, <4>7
    <3> QED
      BY <3>5, <3>6
  <2>7. Chain(c)'
    BY <1>2, <2>4, <2>6 DEF Chain
  <2> QED
    BY <2>6, <2>7 DEF FeedInv
<1> QED
  BY <1>3, <1>4

\* What the player keeps is sound when it drops what it saved
LEMMA FeedDropped ==
  ASSUME TypeOK, FeedInv, UNCHANGED seekOffset,
         feed' = [t \in Types |-> [feed[t] EXCEPT !.saved = <<>>]]
  PROVE  \A t \in Types : Sound(Held(feed[t]), feed[t].eos, seekOffset[t])'
<1> SUFFICES ASSUME NEW t \in Types
             PROVE  Sound(Held(feed'[t]), feed'[t].eos, seekOffset[t])
  OBVIOUS
<1>1. feed[t] \in Feed /\ seekOffset[t] \in Nat
  BY DEF TypeOK
<1>2. feed[t].pushed \in Seq(Buffer) /\ feed[t].saved \in Seq(Buffer)
      /\ feed[t].eos \in BOOLEAN
  BY <1>1 DEF Feed
<1>3. /\ feed'[t].pushed = feed[t].pushed /\ feed'[t].saved = <<>>
      /\ feed'[t].eos = feed[t].eos
  BY <1>1 DEF Feed
<1>4. Held(feed'[t]) = feed[t].pushed
  <2>1. \A p \in Seq(Buffer) : p \o <<>> = p
    OBVIOUS
  <2> QED
    BY <1>2, <1>3, <2>1 DEF Held
<1>5. Sound(feed[t].pushed \o feed[t].saved, feed[t].eos, seekOffset[t])
  BY DEF FeedInv, Held
<1> QED
  BY <1>1, <1>2, <1>3, <1>4, <1>5, SoundDropped

LEMMA FeedDone ==
  ASSUME TypeOK, TypeOK', LifeInv, Fresh, FeedInv, OnDemuxerSeekDone
  PROVE  FeedInv'
<1> USE DEF objVars, seekVars, rendVars, pageVars
<1>1. /\ loop \in Seq(Work) /\ loop' \in Seq(Work) /\ segment \in Nat
      /\ feed \in [Types -> Feed]
  BY DEF TypeOK
<1>2. /\ Runs("seekDone") /\ loop # <<>> /\ IsDone(Head(loop))
      /\ loop' = Tail(loop)
      /\ UNCHANGED <<segment, next, destructing>>
  BY DEF OnDemuxerSeekDone, Runs, Take, IsDone
<1>3. CASE ~Usable
  <2>1. UNCHANGED <<feed, seekOffset, error>> /\ ~Live
    BY <1>2, <1>3, UsableLive DEF OnDemuxerSeekDone
  <2> QED
    BY <1>2, <2>1 DEF FeedInv, Live
<1>4. CASE /\ Usable /\ error' = TRUE /\ UNCHANGED seekOffset
           /\ feed' = [t \in Types |-> [feed[t] EXCEPT !.saved = <<>>]]
  BY <1>4, FeedDropped DEF FeedInv, Live
<1>5. CASE Usable /\ feed' = [t \in Types |-> Flushed(feed[t])] /\ UNCHANGED error
  <2>1. Live
    BY <1>2, <1>5, UsableLive
  <2>2. PICK c \in Nat : Chain(c)
    BY <2>1 DEF FeedInv
  <2>3. Head(loop).buf.seg = c + 1 /\ Segs(c + 1, loop', segment)
    BY <1>1, <1>2, <2>2, TakeDoneSegs DEF Chain
  <2>4. c < segment /\ \A i \in DOMAIN loop' :
                          loop'[i].kind = "data" => c + 1 <= loop'[i].buf.seg
    BY <1>1, <2>3 DEF Segs
  <2>5. \A t \in Types : /\ Held(feed'[t]) = <<>> /\ feed'[t].eos = FALSE
                         /\ Elems(Held(feed'[t])) = {}
                         /\ \A o : Sound(Held(feed'[t]), feed'[t].eos, o)
    <3>1. \A t \in Types : /\ feed'[t] = EmptyFeed(feed[t].should)
                           /\ feed[t].should \in BOOLEAN
      BY <1>1, <1>5 DEF Flushed, Feed
    <3>2. \A d \in BOOLEAN : EmptyFeed(d).eos = FALSE
      BY DEF EmptyFeed
    <3> QED
      BY <3>1, <3>2, EmptyHeld
  <2>6. ASSUME NEW t \in Types
        PROVE  Flow(t, c + 1, loop', {}, FALSE, seekOffset'[t], next[t], segment)
    <3> DEFINE R == Elems(Held(feed[t]))
               e == feed[t].eos
    <3>1. Flow(t, c, loop, R, e, seekOffset[t], next[t], segment)
      BY <2>2 DEF Chain
    <3> HIDE DEF R, e
    <3> QED
      BY <1>1, <1>2, <2>4, <3>1, TakeDoneFlow
  <2>7. Chain(c + 1)'
    BY <1>2, <2>3, <2>5, <2>6 DEF Chain
  <2>8. c + 1 \in Nat
    OBVIOUS
  <2> QED
    BY <2>5, <2>7, <2>8 DEF FeedInv
<1> QED
  BY <1>3, <1>4, <1>5 DEF OnDemuxerSeekDone

LEMMA FeedDestroy ==
  ASSUME TypeOK, TypeOK', FeedInv, Live' => Live, OnDestroy \/ DestroyManager
  PROVE  FeedInv'
<1> USE DEF objVars, seekVars, rendVars, pageVars
<1>1. CASE DestroyManager /\ destructing
  <2>1. UNCHANGED <<loop, feed, seekOffset, segment, next>>
    BY <1>1 DEF DestroyManager
  <2>2. Shifted(loop, loop', 0)
    BY <2>1, ShiftedSame DEF TypeOK
  <2> QED
    BY <2>1, <2>2, FeedFrame
<1>2. ASSUME NEW m, BeginDestroy(m) PROVE FeedInv'
  <2>1. /\ destructing' = TRUE /\ UNCHANGED seekOffset
        /\ feed' = [t \in Types |-> [feed[t] EXCEPT !.saved = <<>>]]
    BY <1>2 DEF BeginDestroy
  <2> QED
    BY <2>1, FeedDropped DEF FeedInv, Live
<1> QED
  BY <1>1, <1>2 DEF OnDestroy, DestroyManager

LEMMA FeedStep ==
  TypeOK /\ LifeInv /\ Fresh /\ FeedInv /\ [Next]_vars => FeedInv'
<1> SUFFICES ASSUME TypeOK, LifeInv, Fresh, FeedInv, [Next]_vars PROVE FeedInv'
  OBVIOUS
<1>1. TypeOK' /\ (Live' => Live)
  BY TypeStep, Monotone DEF Live
<1>2. CASE UNCHANGED vars
  <2>1. UNCHANGED <<loop, feed, seekOffset, segment, next>>
    BY <1>2 DEF vars
  <2>2. Shifted(loop, loop', 0)
    BY <2>1, ShiftedSame DEF TypeOK
  <2> QED
    BY <1>1, <2>1, <2>2, FeedFrame
<1>3. CASE UIThread
  BY <1>1, <1>3, FeedTask, FeedData, FeedEnd, FeedDone, FeedDestroy DEF UIThread
<1> QED
  BY <1>1, <1>2, <1>3, FeedDestroy, FeedStreaming, FeedRenderer DEF Next

LEMMA FeedSound == Spec => [](TypeOK /\ LifeInv /\ Fresh /\ FeedInv)
<1>1. Init => TypeOK /\ LifeInv /\ Fresh /\ FeedInv
  BY InitType, LifeInit, FreshInit, FeedInit
<1>2. TypeOK /\ LifeInv /\ Fresh /\ FeedInv /\ [Next]_vars
        => (TypeOK /\ LifeInv /\ Fresh /\ FeedInv)'
  BY TypeStep, LifeStep, FreshStep, FeedStep
<1> QED
  BY <1>1, <1>2, PTL DEF Spec

\* What FeedInv says, in the words of the run's properties
LEMMA FeedIndex ==
  ASSUME TypeOK, FeedInv, NEW t \in Types
  PROVE  LET all == feed[t].pushed \o feed[t].saved
         IN  /\ \A i \in 1 .. Len(all) - 1 : all[i].no < all[i + 1].no
             /\ \A i, j \in DOMAIN all : all[i].seg = all[j].seg
             /\ ~feed[t].eos =>
                  \A i \in DOMAIN all : \A n \in seekOffset[t] + 1 .. all[i].no :
                    \E j \in DOMAIN all : all[j].no = n
<1> DEFINE all == Held(feed[t])
<1>0. feed[t] \in Feed
  BY DEF TypeOK
<1>1. all \in Seq(Buffer)
  BY <1>0, HeldType
<1>a. all = feed[t].pushed \o feed[t].saved
  BY DEF Held
<1>2. Sound(all, feed[t].eos, seekOffset[t])
  BY DEF FeedInv
<1> HIDE DEF all
<1>3. \A i \in 1 .. Len(all) - 1 :
        i \in DOMAIN all /\ i + 1 \in DOMAIN all /\ i < i + 1
  <2>1. Len(all) \in Nat /\ DOMAIN all = 1 .. Len(all)
    BY <1>1
  <2> QED
    BY <2>1
<1>4. \A i \in 1 .. Len(all) - 1 : all[i].no < all[i + 1].no
  BY <1>2, <1>3 DEF Sound, Increasing
<1>5. \A i, j \in DOMAIN all : all[i].seg = all[j].seg
  BY <1>2 DEF Sound, Elems
<1>6. ~feed[t].eos =>
        \A i \in DOMAIN all : \A n \in seekOffset[t] + 1 .. all[i].no :
          \E j \in DOMAIN all : all[j].no = n
  BY <1>2 DEF Sound, Elems
<1> QED
  BY <1>a, <1>4, <1>5, <1>6

\* Whatever is saved, pushed back or refused, the buffers of a stream are fed in
\* the order in which the demuxer read them.
THEOREM FedInOrder == Spec => []InOrder
<1>1. TypeOK /\ FeedInv => InOrder
  BY FeedIndex DEF InOrder
<1> QED
  BY <1>1, FeedSound, PTL

\* However enough-data, need-data and the answers under way interleave, no buffer
\* from the seek position on is missing before one that is held or was fed.
THEOREM FedWithoutGap == Spec => []NoGap
<1>1. TypeOK /\ FeedInv => NoGap
  BY FeedIndex DEF NoGap
<1> QED
  BY <1>1, FeedSound, PTL

\* Nothing of an earlier segment gets past a flushing seek: an answer sent before
\* the seek is served before its end is.
THEOREM FedOfOneSegment == Spec => []OneSegment
<1>1. TypeOK /\ FeedInv => OneSegment
  BY FeedIndex DEF OneSegment
<1> QED
  BY <1>1, FeedSound, PTL

(***************************************************************************)
(* No need-data is lost                                                    *)
(***************************************************************************)
Reading == {"read", "data", "aborted", "endOfStream", "cmdSeek", "seekDone"}

Asked(t) ==
  \/ \E th \in Threads : cb[th].kind = "need" /\ cb[th].type = t
  \/ \E i \in DOMAIN loop : loop[i].type = t /\ loop[i].kind = "read"
Answered(t) ==
  \/ reads[t] > 0
  \/ \E i \in DOMAIN loop :
       loop[i].type = t /\ loop[i].kind \in {"data", "aborted", "endOfStream"}
SeekComes ==
  demuxerSeeking \/ rSeeking \/ InLoop("cmdSeek") \/ InLoop("seekDone")

\* An appsrc that waits while it was told to stop feeding asked after that
PendInv ==
  \A t \in Types : feed[t].waiting /\ Live /\ ~feed[t].eos =>
    /\ ~feed[t].should => Asked(t)
    /\ t = "video" \/ seekOffset[t] = 0 => Asked(t) \/ Answered(t) \/ SeekComes

\* What is in l is still in m, but for its head
KeepsRest(l, m) == \A i \in DOMAIN l : i # 1 => \E j \in DOMAIN m : m[j] = l[i]
\* What reads or seeks is still in m
Keeps(l, m) ==
  \A i \in DOMAIN l : l[i].kind \in Reading => \E j \in DOMAIN m : m[j] = l[i]

LEMMA RestKept ==
  ASSUME NEW l \in Seq(Work), NEW m, NEW w \in Work
  PROVE  /\ l # <<>> /\ (m = Tail(l) \/ m = Append(Tail(l), w)) => KeepsRest(l, m)
         /\ l # <<>> /\ m = Append(Tail(l), w) => \E j \in DOMAIN m : m[j] = w
         /\ m = l \/ m = Append(l, w) => Keeps(l, m)
         /\ m = Append(l, w) => \E j \in DOMAIN m : m[j] = w
<1>1. ASSUME l # <<>>, m = Tail(l) PROVE KeepsRest(l, m)
  BY <1>1, TailIndex DEF KeepsRest
<1>2. ASSUME l # <<>>, m = Append(Tail(l), w)
      PROVE  KeepsRest(l, m) /\ \E j \in DOMAIN m : m[j] = w
  <2> DEFINE k == Tail(l)
  <2>1. k \in Seq(Work) /\ KeepsRest(l, k)
    BY <1>2, TailIndex DEF KeepsRest
  <2> HIDE DEF k
  <2>2. \A i \in DOMAIN k : i \in DOMAIN Append(k, w) /\ Append(k, w)[i] = k[i]
    BY <2>1, AppendIndex
  <2>3. Len(k) + 1 \in DOMAIN Append(k, w) /\ Append(k, w)[Len(k) + 1] = w
    BY <2>1, AppendIndex
  <2>4. m = Append(k, w)
    BY <1>2 DEF k
  <2>5. KeepsRest(l, Append(k, w))
    BY <2>1, <2>2 DEF KeepsRest
  <2> QED
    BY <2>3, <2>4, <2>5
<1>3. m = l => Keeps(l, m)
  BY DEF Keeps
<1>4. ASSUME m = Append(l, w) PROVE Keeps(l, m) /\ \E j \in DOMAIN m : m[j] = w
  <2>1. \A i \in DOMAIN l : i \in DOMAIN Append(l, w) /\ Append(l, w)[i] = l[i]
    BY AppendIndex
  <2>2. Len(l) + 1 \in DOMAIN Append(l, w) /\ Append(l, w)[Len(l) + 1] = w
    BY AppendIndex
  <2> QED
    BY <1>4, <2>1, <2>2 DEF Keeps
<1> QED
  BY <1>1, <1>2, <1>3, <1>4

LEMMA HeadKept ==
  ASSUME NEW l \in Seq(Work), l # <<>>, Head(l).kind \notin Reading,
         NEW m, KeepsRest(l, m)
  PROVE  Keeps(l, m)
  BY TailIndex DEF Keeps, KeepsRest

LEMMA PendInit == Init => PendInv
<1> SUFFICES ASSUME Init, NEW t \in Types PROVE ~feed[t].waiting
  BY DEF PendInv
<1> QED
  BY DEF Init, EmptyFeed

\* Nothing that reads or seeks is taken away
LEMMA PendFrame ==
  ASSUME TypeOK, PendInv, Live' => Live, UNCHANGED seekOffset,
         \A t \in Types : /\ feed'[t].eos = feed[t].eos
                          /\ feed'[t].waiting => feed[t].waiting
                          /\ feed[t].should => feed'[t].should
                          /\ reads'[t] = reads[t],
         \A th \in Threads : cb[th].kind = "need" => cb'[th] = cb[th],
         demuxerSeeking => demuxerSeeking', rSeeking => rSeeking',
         Keeps(loop, loop')
  PROVE  PendInv'
<1> SUFFICES ASSUME NEW t \in Types, feed'[t].waiting, Live', ~feed'[t].eos
             PROVE  /\ ~feed'[t].should => Asked(t)'
                    /\ t = "video" \/ seekOffset'[t] = 0
                         => Asked(t)' \/ Answered(t)' \/ SeekComes'
  BY DEF PendInv
<1>1. Asked(t) => Asked(t)'
  BY DEF Asked, Keeps, Reading
<1>2. Answered(t) => Answered(t)'
  BY DEF Answered, Keeps, Reading
<1>3. SeekComes => SeekComes'
  BY DEF SeekComes, InLoop, Keeps, Reading
<1> QED
  BY <1>1, <1>2, <1>3 DEF PendInv

LEMMA PendTask ==
  ASSUME TypeOK, PendInv, Live' => Live,
         \/ OnPlay \/ OnPause \/ SetRate \/ DeletePlayer
         \/ PostedPlay \/ SeekStateFalse \/ OnTimeChanged
         \/ OnPlaybackComplete \/ HandleBufferingMessage \/ OnUpdateStates
  PROVE  PendInv'
<1> USE DEF objVars, seekVars, rendVars, pageVars, Take
<1>1. loop \in Seq(Work)
  BY DEF TypeOK
<1>2. /\ loop # <<>> /\ Head(loop).kind \notin Reading /\ loop' = Tail(loop)
      /\ UNCHANGED <<feed, cb, reads, seekOffset, rSeeking>>
  BY DEF OnPlay, OnPause, SetRate, DeletePlayer, PostedPlay, SeekStateFalse,
         OnTimeChanged, OnPlaybackComplete, HandleBufferingMessage,
         OnUpdateStates, Runs, Reading
<1>3. demuxerSeeking => demuxerSeeking'
  <2>1. CASE SetRate
    BY <2>1 DEF SetRate, RequestPlayerSeek
  <2>2. CASE ~SetRate
    BY <2>2 DEF OnPlay, OnPause, DeletePlayer, PostedPlay, SeekStateFalse,
                OnTimeChanged, OnPlaybackComplete, HandleBufferingMessage,
                OnUpdateStates
  <2> QED
    BY <2>1, <2>2
<1>4. Item("read") \in Work
  BY ItemType DEF Kinds, Tasks, Media
<1>5. Keeps(loop, loop')
  BY <1>1, <1>2, <1>4, RestKept, HeadKept
<1> QED
  BY <1>2, <1>3, <1>5, PendFrame

\* A player that is being destroyed asks for nothing
LEMMA PendDead ==
  ASSUME ~Live' PROVE PendInv'
  BY DEF PendInv

LEMMA PendDestroy ==
  ASSUME TypeOK, LifeInv, PendInv, Live' => Live,
         \/ DropCommand \/ OnDestroy \/ FinishDestroy \/ DestroyManager
  PROVE  PendInv'
<1> USE DEF objVars, seekVars, rendVars, pageVars, Take
<1>1. destructing'
  <2>1. CASE DropCommand
    BY <2>1 DEF DropCommand
  <2>2. CASE OnDestroy
    BY <2>2 DEF OnDestroy, BeginDestroy
  <2>3. CASE FinishDestroy
    BY <2>3 DEF FinishDestroy, LifeInv
  <2>4. CASE DestroyManager
    BY <2>4 DEF DestroyManager, BeginDestroy
  <2> QED
    BY <2>1, <2>2, <2>3, <2>4
<1> QED
  BY <1>1, PendDead DEF Live

LEMMA PendConfigs ==
  ASSUME TypeOK, Fresh, PendInv, Live' => Live, OnDemuxerConfigsAvailable
  PROVE  PendInv'
<1> USE DEF objVars, seekVars, rendVars, pageVars, Take
<1>1. /\ UNCHANGED <<feed, cb, reads, seekOffset, rSeeking, demuxerSeeking>>
      /\ loop # <<>> /\ Head(loop).kind = "configs" /\ loop' = Tail(loop)
  BY DEF OnDemuxerConfigsAvailable, Runs
<1>2. loop \in Seq(Work) /\ Item("read") \in Work
  BY ItemType DEF Kinds, Tasks, Media, TypeOK
<1>3. Keeps(loop, loop')
  BY <1>1, <1>2, RestKept, HeadKept DEF Reading
<1> QED
  BY <1>1, <1>3, PendFrame

LEMMA PendSeek ==
  ASSUME TypeOK, PendInv, Live' => Live, Seek PROVE PendInv'
<1> USE DEF objVars, seekVars, rendVars, pageVars, Take
<1>1. /\ UNCHANGED <<feed, cb, seekOffset>> /\ demuxerSeeking' = TRUE
      /\ loop # <<>> /\ Head(loop).kind = "cmdSeek" /\ loop' = Tail(loop)
  BY DEF Seek, Runs
<1>2. loop \in Seq(Work) /\ Item("read") \in Work
  BY ItemType DEF Kinds, Tasks, Media, TypeOK
<1>3. KeepsRest(loop, loop')
  BY <1>1, <1>2, RestKept
<1>4. \A t \in Types : Asked(t) => Asked(t)'
  BY <1>1, <1>2, <1>3, TailIndex DEF Asked, KeepsRest
<1> QED
  BY <1>1, <1>4 DEF PendInv, SeekComes

LEMMA PendAborted ==
  ASSUME TypeOK, LifeInv, Fresh, PendInv, OnReadAborted PROVE PendInv'
<1> USE DEF objVars, seekVars, rendVars, pageVars
<1> DEFINE back == ItemOf("read", Head(loop).type)
<1>1. /\ UNCHANGED <<feed, cb, reads, seekOffset, rSeeking, demuxerSeeking,
                     error, destructing>>
      /\ Runs("aborted") /\ loop # <<>> /\ Head(loop).kind = "aborted"
  BY DEF OnReadAborted, Runs
<1>2. loop \in Seq(Work)
  BY DEF TypeOK
<1>3. Head(loop) \in Work
  BY <1>1, <1>2
<1>4. back \in Work /\ back.kind = "read" /\ back.type = Head(loop).type
  BY <1>3, ItemType DEF Work, Kinds, Tasks, ItemOf, Item
<1>5. loop' = Tail(loop) \/ loop' = Append(Tail(loop), back)
  BY DEF OnReadAborted, Post, Done
<1> HIDE DEF back
<1>6. KeepsRest(loop, loop')
  BY <1>1, <1>2, <1>4, <1>5, RestKept
<1> SUFFICES ASSUME NEW t \in Types, feed'[t].waiting, Live', ~feed'[t].eos
             PROVE  /\ ~feed'[t].should => Asked(t)'
                    /\ t = "video" \/ seekOffset'[t] = 0
                         => Asked(t)' \/ Answered(t)' \/ SeekComes'
  BY DEF PendInv
<1>7. Live /\ Usable
  BY <1>1, UsableLive DEF Live
<1>8. Asked(t) => Asked(t)'
  BY <1>1, <1>2, <1>6, TailIndex DEF Asked, KeepsRest
<1>9. SeekComes => SeekComes'
  BY <1>1, <1>2, <1>6, TailIndex DEF SeekComes, InLoop, KeepsRest
<1>10. CASE t # Head(loop).type
  <2>1. Answered(t) => Answered(t)'
    BY <1>1, <1>2, <1>6, <1>10, TailIndex DEF Answered, KeepsRest
  <2> QED
    BY <1>1, <1>7, <1>8, <1>9, <2>1 DEF PendInv
<1>11. CASE t = Head(loop).type /\ feed[t].should
  <2>1. loop' = Append(Tail(loop), back)
    BY <1>7, <1>11 DEF OnReadAborted, Post, Done, back
  <2>2. Asked(t)'
    BY <1>1, <1>2, <1>4, <1>11, <2>1, RestKept DEF Asked
  <2> QED
    BY <2>2
<1>12. CASE t = Head(loop).type /\ ~feed[t].should
  BY <1>1, <1>7, <1>8, <1>12 DEF PendInv
<1> QED
  BY <1>10, <1>11, <1>12

LEMMA PendRead ==
  ASSUME TypeOK, PendInv, Live' => Live, ReadDemuxedData PROVE PendInv'
<1> USE DEF objVars, seekVars, rendVars, pageVars, Take
<1> DEFINE h == Head(loop).type
<1>1. /\ UNCHANGED <<cb, seekOffset, rSeeking, demuxerSeeking, destructing>>
      /\ loop # <<>> /\ Head(loop).kind = "read" /\ loop' = Tail(loop)
  BY DEF ReadDemuxedData, Runs
<1>2. loop \in Seq(Work) /\ Item("read") \in Work
      /\ feed \in [Types -> Feed] /\ reads \in [Types -> Nat]
  BY ItemType DEF Kinds, Tasks, Media, TypeOK
<1>3. KeepsRest(loop, loop')
  BY <1>1, <1>2, RestKept
<1> SUFFICES ASSUME NEW t \in Types, feed'[t].waiting, Live', ~feed'[t].eos
             PROVE  /\ ~feed'[t].should => Asked(t)'
                    /\ t = "video" \/ seekOffset'[t] = 0
                         => Asked(t)' \/ Answered(t)' \/ SeekComes'
  BY DEF PendInv
<1>4. /\ feed' = [feed EXCEPT ![h].should = TRUE]
      /\ reads' = [reads EXCEPT ![h] =
                     IF reads[h] < MaxReads THEN reads[h] + 1 ELSE reads[h]]
  BY <1>1 DEF ReadDemuxedData, RequestData, Live
<1>5. CASE t = h
  <2>1. feed[t] \in Feed /\ feed'[t] = [feed[t] EXCEPT !.should = TRUE]
    BY <1>2, <1>4, <1>5
  <2>2. feed'[t].should = TRUE
    BY <2>1 DEF Feed
  <2>3. reads[t] \in Nat /\ MaxReads \in Nat \ {0}
    BY <1>2, BoundsAssumption
  <2>4. reads'[t] > 0
    <3>1. reads'[t] = IF reads[t] < MaxReads THEN reads[t] + 1 ELSE reads[t]
      BY <1>2, <1>4, <1>5
    <3> QED
      BY <2>3, <3>1
  <2> QED
    BY <2>2, <2>4 DEF Answered
<1>6. CASE t # h
  <2>1. feed'[t] = feed[t] /\ reads'[t] = reads[t]
    BY <1>2, <1>4, <1>6
  <2>2. Asked(t) => Asked(t)'
    BY <1>1, <1>2, <1>3, <1>6, TailIndex DEF Asked, KeepsRest
  <2>3. Answered(t) => Answered(t)'
    <3>1. reads[t] > 0 => reads'[t] > 0
      BY <2>1
    <3>2. ASSUME NEW i \in DOMAIN loop, loop[i].type = t,
                 loop[i].kind \in {"data", "aborted", "endOfStream"}
          PROVE  Answered(t)'
      <4>1. i # 1
        BY <1>1, <1>2, <3>2, TailIndex
      <4> QED
        BY <1>3, <3>2, <4>1 DEF Answered, KeepsRest
    <3> QED
      BY <3>1, <3>2 DEF Answered
  <2>4. SeekComes => SeekComes'
    <3>1. \A i \in DOMAIN loop :
            loop[i].kind # "read" => \E j \in DOMAIN loop' : loop'[j] = loop[i]
      BY <1>1, <1>2, <1>3, TailIndex DEF KeepsRest
    <3> QED
      BY <1>1, <3>1 DEF SeekComes, InLoop
  <2> QED
    BY <1>1, <2>1, <2>2, <2>3, <2>4 DEF PendInv
<1> QED
  BY <1>5, <1>6

\* The first buffer on its way has a number above 0
LEMMA FirstNumber ==
  ASSUME TypeOK, FeedInv, Live, loop # <<>>, Head(loop).kind = "data",
         Head(loop).type \in Types
  PROVE  0 < Head(loop).buf.no
<1>1. PICK c \in Nat : Chain(c)
  BY DEF FeedInv
<1>2. 1 \in DOMAIN loop /\ loop[1] = Head(loop)
  BY TailIndex DEF TypeOK
<1>3. IsData(loop[1], Head(loop).type)
  BY <1>2 DEF IsData
<1>4. \A t \in Types : \A i \in DOMAIN loop : IsData(loop[i], t) => 0 < loop[i].buf.no
  BY <1>1 DEF Chain, Flow, Numbers
<1> QED
  BY <1>2, <1>3, <1>4

LEMMA PendData ==
  ASSUME TypeOK, LifeInv, Fresh, FeedInv, PendInv, OnDemuxerDataAvailable
  PROVE  PendInv'
<1> USE DEF objVars, seekVars, rendVars, pageVars
<1> DEFINE h == Head(loop).type
           b == Head(loop).buf
           back == ItemOf("read", h)
<1>1. /\ UNCHANGED <<cb, reads, seekOffset, rSeeking, error, destructing>>
      /\ Runs("data") /\ loop # <<>> /\ Head(loop).kind = "data"
  BY DEF OnDemuxerDataAvailable, Runs
<1>2. loop \in Seq(Work) /\ feed \in [Types -> Feed] /\ seekOffset \in [Types -> Nat]
  BY DEF TypeOK
<1>3. Head(loop) \in Work
  BY <1>1, <1>2
<1>4. back \in Work /\ b \in Buffer
  BY <1>3, ItemType DEF Work, Kinds, Tasks
<1>5. loop' = Tail(loop) \/ loop' = Append(Tail(loop), back)
  BY DEF OnDemuxerDataAvailable, Post, Done
<1> HIDE DEF back
<1>6. KeepsRest(loop, loop')
  BY <1>1, <1>2, <1>4, <1>5, RestKept
<1> SUFFICES ASSUME NEW t \in Types, feed'[t].waiting, Live', ~feed'[t].eos
             PROVE  /\ ~feed'[t].should => Asked(t)'
                    /\ t = "video" \/ seekOffset'[t] = 0
                         => Asked(t)' \/ Answered(t)' \/ SeekComes'
  BY DEF PendInv
<1>7. Live /\ Usable
  BY <1>1, UsableLive DEF Live
<1>8. Asked(t) => Asked(t)'
  BY <1>1, <1>2, <1>6, TailIndex DEF Asked, KeepsRest
<1>9. SeekComes => SeekComes'
  <2>1. demuxerSeeking => demuxerSeeking'
    BY DEF OnDemuxerDataAvailable, RequestPlayerSeek
  <2> QED
    BY <1>1, <1>2, <1>6, <2>1, TailIndex DEF SeekComes, InLoop, KeepsRest
<1>10. CASE t # h
  <2>1. Answered(t) => Answered(t)'
    BY <1>1, <1>2, <1>6, <1>10, TailIndex DEF Answered, KeepsRest
  <2>2. feed'[t] = feed[t]
    BY <1>2, <1>10 DEF OnDemuxerDataAvailable
  <2> QED
    BY <1>1, <1>7, <1>8, <1>9, <2>1, <2>2 DEF PendInv
<1>11. CASE t = h /\ Early(h, b)
  <2>1. UNCHANGED feed
    BY <1>7, <1>11 DEF OnDemuxerDataAvailable
  <2>2. t = "video" => demuxerSeeking'
    BY <1>7, <1>11 DEF OnDemuxerDataAvailable, RequestPlayerSeek
  <2>3. seekOffset[t] # 0
    <3>1. 0 < b.no
      BY <1>1, <1>7, <1>11, FirstNumber
    <3>2. b.no \in Nat /\ seekOffset[t] \in Nat
      BY <1>2, <1>4 DEF Buffer
    <3> QED
      BY <1>11, <3>1, <3>2 DEF Early
  <2> QED
    BY <1>1, <1>7, <1>8, <2>1, <2>2, <2>3 DEF PendInv, SeekComes
<1>12. CASE t = h /\ ~Early(h, b)
  <2> DEFINE f == feed[t]
             r == Received(f, b)
  <2>1. feed'[t] = r /\ f \in Feed
    BY <1>2, <1>7, <1>12 DEF OnDemuxerDataAvailable, Received
  <2>2. /\ r.eos = f.eos
        /\ ~f.eos /\ ~r.should /\ f.should => ~r.waiting
        /\ r.waiting => (f.waiting /\ ~r.should) \/ f.eos
    BY <1>4, <1>7, <2>1, ReceivedHeld
  <2> HIDE DEF r
  <2>3. f.waiting /\ ~f.eos /\ ~f.should
    BY <2>1, <2>2
  <2> QED
    BY <1>7, <1>8, <2>3 DEF PendInv
<1> QED
  BY <1>10, <1>11, <1>12

LEMMA PendEnd ==
  ASSUME TypeOK, LifeInv, Fresh, PendInv, OnEndOfStream PROVE PendInv'
<1> USE DEF objVars, seekVars, rendVars, pageVars, Take
<1> DEFINE h == Head(loop).type
           f == ReadFromQueueIfAny(feed[h])
<1>1. /\ UNCHANGED <<cb, reads, seekOffset, rSeeking, demuxerSeeking, error,
                     destructing>>
      /\ Runs("endOfStream") /\ loop # <<>> /\ Head(loop).kind = "endOfStream"
      /\ loop' = Tail(loop)
  BY DEF OnEndOfStream, Runs
<1>2. loop \in Seq(Work) /\ Item("read") \in Work /\ feed \in [Types -> Feed]
  BY ItemType DEF Kinds, Tasks, Media, TypeOK
<1>3. KeepsRest(loop, loop')
  BY <1>1, <1>2, RestKept
<1> SUFFICES ASSUME NEW t \in Types, feed'[t].waiting, Live', ~feed'[t].eos
             PROVE  /\ ~feed'[t].should => Asked(t)'
                    /\ t = "video" \/ seekOffset'[t] = 0
                         => Asked(t)' \/ Answered(t)' \/ SeekComes'
  BY DEF PendInv
<1>4. Live /\ Usable
  BY <1>1, UsableLive DEF Live
<1>5. feed' = [feed EXCEPT ![h] = [f EXCEPT !.eos = TRUE]]
  BY <1>4 DEF OnEndOfStream
<1>6. t # h
  <2> SUFFICES ASSUME t = h PROVE feed'[t].eos
    OBVIOUS
  <2>1. f \in Feed
    BY <1>2, ReadFromQueueType
  <2>2. feed'[t] = [f EXCEPT !.eos = TRUE]
    BY <1>2, <1>5
  <2> HIDE DEF f
  <2> QED
    BY <2>1, <2>2 DEF Feed
<1>7. feed'[t] = feed[t]
  BY <1>2, <1>5, <1>6
<1>8. Asked(t) => Asked(t)'
  BY <1>1, <1>2, <1>3, TailIndex DEF Asked, KeepsRest
<1>9. Answered(t) => Answered(t)'
  BY <1>1, <1>2, <1>3, <1>6, TailIndex DEF Answered, KeepsRest
<1>10. SeekComes => SeekComes'
  BY <1>1, <1>2, <1>3, TailIndex DEF SeekComes, InLoop, KeepsRest
<1> QED
  BY <1>1, <1>4, <1>7, <1>8, <1>9, <1>10 DEF PendInv

LEMMA PendDone ==
  ASSUME TypeOK, LifeInv, Fresh, PendInv, OnDemuxerSeekDone PROVE PendInv'
<1> USE DEF objVars, seekVars, rendVars, pageVars, Take
<1>1. CASE ~Usable
  <2>1. Runs("seekDone") /\ UNCHANGED <<error, destructing>>
    BY <1>1 DEF OnDemuxerSeekDone
  <2>2. ~Live'
    BY <1>1, <2>1, UsableLive DEF Live
  <2> QED
    BY <2>2, PendDead
<1>2. CASE error'
  BY <1>2, PendDead DEF Live
<1>3. CASE Usable /\ feed' = [t \in Types |-> Flushed(feed[t])]
  BY <1>3 DEF PendInv, Flushed, EmptyFeed
<1> QED
  BY <1>1, <1>2, <1>3 DEF OnDemuxerSeekDone

LEMMA PendStreaming ==
  ASSUME TypeOK, PendInv, Live' => Live, Streaming PROVE PendInv'
<1> USE DEF objVars, seekVars, rendVars, pageVars
<1>1. /\ loop \in Seq(Work) /\ feed \in [Types -> Feed]
      /\ cb \in [Threads -> Callback]
  BY DEF TypeOK
<1>2. UNCHANGED <<reads, seekOffset, rSeeking, demuxerSeeking>>
  BY DEF Streaming, Consume, EnterNeedData, EnterAsyncDone, EnterMessage, Enter,
         RunCallback, NeedData, AsyncDone, Buffering, PostFromMessage,
         PipelineError
<1>3. Item("read") \in Work
  BY ItemType DEF Kinds, Tasks, Media
<1>4. UNCHANGED loop => Keeps(loop, loop')
  BY <1>1, <1>3, RestKept
<1>5. ASSUME NEW t \in Types, Consume(t) PROVE PendInv'
  <2>1. UNCHANGED <<loop, cb>> /\ feed' = [feed EXCEPT ![t].level = @ - 1]
    BY <1>5 DEF Consume
  <2>2. \A s \in Types : /\ feed'[s].eos = feed[s].eos
                         /\ feed'[s].waiting = feed[s].waiting
                         /\ feed'[s].should = feed[s].should
    BY <1>1, <2>1 DEF Feed
  <2> QED
    BY <1>2, <1>4, <2>1, <2>2, PendFrame
<1>6. ASSUME NEW th \in Threads, NEW t \in Types, EnterNeedData(th, t)
      PROVE  PendInv'
  <2>1. /\ UNCHANGED loop /\ feed' = [feed EXCEPT ![t].waiting = TRUE]
        /\ cb[th] = Idle
        /\ cb' = [cb EXCEPT ![th] = [kind |-> "need", type |-> t, full |-> FALSE]]
    BY <1>6 DEF EnterNeedData, Enter
  <2>2. \A x \in Threads : cb[x].kind = "need" => cb'[x] = cb[x]
    BY <1>1, <2>1 DEF Idle
  <2>3. cb'[th].kind = "need" /\ cb'[th].type = t
    BY <1>1, <2>1
  <2>4. Asked(t)'
    BY <2>3 DEF Asked
  <2>5. ASSUME NEW s \in Types, s # t, feed'[s].waiting, Live', ~feed'[s].eos
        PROVE  /\ ~feed'[s].should => Asked(s)'
               /\ s = "video" \/ seekOffset'[s] = 0
                         => Asked(s)' \/ Answered(s)' \/ SeekComes'
    <3>1. feed'[s] = feed[s]
      BY <1>1, <2>1, <2>5
    <3>2. Asked(s) => Asked(s)'
      BY <2>1, <2>2 DEF Asked
    <3>3. (Answered(s) => Answered(s)') /\ (SeekComes => SeekComes')
      BY <1>2, <2>1 DEF Answered, SeekComes, InLoop
    <3> QED
      BY <1>2, <2>5, <3>1, <3>2, <3>3 DEF PendInv
  <2> QED
    BY <2>4, <2>5 DEF PendInv
<1>7. ASSUME NEW th \in Threads, EnterAsyncDone(th) \/ EnterMessage(th)
      PROVE  PendInv'
  <2>1. /\ UNCHANGED <<loop, feed>> /\ cb[th] = Idle
        /\ \E c : cb' = [cb EXCEPT ![th] = c]
    BY <1>7 DEF EnterAsyncDone, EnterMessage, Enter
  <2>2. \A x \in Threads : cb[x].kind = "need" => cb'[x] = cb[x]
    BY <1>1, <2>1 DEF Idle
  <2> QED
    BY <1>2, <1>4, <2>1, <2>2, PendFrame
<1>8. ASSUME NEW th \in Threads, RunCallback(th), cb[th].kind # "need"
      PROVE  PendInv'
  <2>1. UNCHANGED feed /\ cb' = [cb EXCEPT ![th] = Idle]
    BY <1>8 DEF RunCallback, NeedData, AsyncDone, Buffering, PostFromMessage,
                PipelineError
  <2>2. \A x \in Threads : cb[x].kind = "need" => cb'[x] = cb[x]
    BY <1>1, <1>8, <2>1
  <2>3. \A k \in {"seekFalse", "play", "timeChanged", "buffering", "complete",
                  "states"} : Item(k) \in Work
    BY ItemType DEF Kinds, Tasks, Media
  <2>4. Keeps(loop, loop')
    <3>1. CASE Buffering(th) \/ PostFromMessage(th) \/ PipelineError(th)
      BY <1>1, <1>4, <2>3, <3>1, RestKept
         DEF Buffering, PostFromMessage, PipelineError
    <3>2. CASE AsyncDone(th)
      <4> DEFINE l == <<Item("seekFalse")>>
                        \o (IF ctl.playing THEN <<Item("play")>> ELSE <<>>)
                        \o <<Item("timeChanged")>>
      <4>1. l \in Seq(Work)
        BY <2>3
      <4>2. loop' = loop \/ loop' = loop \o l
        <5>1. \/ UNCHANGED loop
              \/ loop' = loop \o <<Item("seekFalse")>>
                            \o (IF ctl.playing THEN <<Item("play")>> ELSE <<>>)
                            \o <<Item("timeChanged")>>
          BY <3>2 DEF AsyncDone
        <5> DEFINE x == <<Item("seekFalse")>>
                   y == IF ctl.playing THEN <<Item("play")>> ELSE <<>>
                   z == <<Item("timeChanged")>>
        <5>2. x \in Seq(Work) /\ y \in Seq(Work) /\ z \in Seq(Work)
              /\ loop \o x \in Seq(Work) /\ x \o y \in Seq(Work)
          BY <1>1, <2>3
        <5> HIDE DEF x, y, z
        <5>3. \A p, q, r \in Seq(Work) : (p \o q) \o r = p \o (q \o r)
          BY ConcatAssociative
        <5>4. ((loop \o x) \o y) \o z = loop \o ((x \o y) \o z)
          <6>1. (loop \o x) \o y = loop \o (x \o y)
            BY <1>1, <5>2, <5>3
          <6> QED
            BY <1>1, <5>2, <5>3, <6>1
        <5> QED
          BY <5>1, <5>4 DEF x, y, z
      <4> HIDE DEF l
      <4>3. \A i \in DOMAIN loop : /\ i \in DOMAIN (loop \o l)
                                   /\ (loop \o l)[i] = loop[i]
        BY <1>1, <4>1
      <4> QED
        BY <1>4, <4>2, <4>3 DEF Keeps
    <3> QED
      BY <1>8, <3>1, <3>2 DEF RunCallback, NeedData
  <2> QED
    BY <1>2, <2>1, <2>2, <2>4, PendFrame
<1>9. ASSUME NEW th \in Threads, NeedData(th) PROVE PendInv'
  <2> DEFINE w == ItemOf("read", cb[th].type)
  <2>1. CASE destructing
    BY <1>9, <2>1, PendDead DEF NeedData, Live
  <2>2. CASE ~destructing
    <3>1. /\ UNCHANGED feed /\ cb' = [cb EXCEPT ![th] = Idle]
          /\ loop' = Append(loop, w)
      BY <1>9, <2>2 DEF NeedData
    <3>2. cb[th].type \in Media
      BY <1>1 DEF Callback
    <3>3. w \in Work /\ w.kind = "read" /\ w.type = cb[th].type
      BY <3>2, ItemType DEF Kinds, Tasks, ItemOf, Item
    <3>4. \E j \in DOMAIN loop' : loop'[j] = w
      <4> HIDE DEF w
      <4> QED
        BY <1>1, <3>1, <3>3, RestKept
    <3>5. Keeps(loop, loop')
      <4> HIDE DEF w
      <4> QED
        BY <1>1, <3>1, <3>3, RestKept
    <3>6. ASSUME NEW s \in Types
          PROVE  /\ Asked(s) => Asked(s)'
                 /\ Answered(s) => Answered(s)'
                 /\ SeekComes => SeekComes'
      <4>1. Asked(s) => Asked(s)'
        <5>1. ASSUME NEW x \in Threads, cb[x].kind = "need", cb[x].type = s
              PROVE  Asked(s)'
          <6>1. CASE x = th
            BY <3>3, <3>4, <5>1, <6>1 DEF Asked
          <6>2. CASE x # th
            BY <1>1, <3>1, <5>1, <6>2 DEF Asked
          <6> QED
            BY <6>1, <6>2
        <5> QED
          BY <3>5, <5>1 DEF Asked, Keeps, Reading
      <4>2. Answered(s) => Answered(s)'
        BY <1>2, <3>5 DEF Answered, Keeps, Reading
      <4>3. SeekComes => SeekComes'
        BY <1>2, <3>5 DEF SeekComes, InLoop, Keeps, Reading
      <4> QED
        BY <4>1, <4>2, <4>3
    <3> QED
      BY <1>2, <3>1, <3>6 DEF PendInv
  <2> QED
    BY <2>1, <2>2
<1> QED
  BY <1>5, <1>6, <1>7, <1>8, <1>9
     DEF Streaming, RunCallback, AsyncDone, Buffering, PostFromMessage, PipelineError

LEMMA PendRenderer ==
  ASSUME TypeOK, TypeOK', PendInv, Live' => Live, Renderer PROVE PendInv'
<1> USE DEF objVars, seekVars, rendVars, pageVars
<1>1. loop \in Seq(Work) /\ loop' \in Seq(Work) /\ reads \in [Types -> Nat]
  BY DEF TypeOK
<1>2. UNCHANGED <<feed, cb, seekOffset, demuxerSeeking>>
  BY DEF Renderer, RendererReady, RendererAnswer, RendererAbort, RendererIgnore,
         RendererSeek, RendererSeekAgain, RendererSeekDone, PageCommand, PageDestroy
<1>3. ASSUME NEW w, loop' = Append(loop, w)
      PROVE  Keeps(loop, loop') /\ \E j \in DOMAIN loop' : loop'[j] = w
  <2>1. /\ Len(loop) + 1 \in DOMAIN Append(loop, w)
        /\ Append(loop, w)[Len(loop) + 1] = w
    BY <1>1
  <2>2. w \in Work
    BY <1>1, <1>3, <2>1
  <2> QED
    BY <1>1, <1>3, <2>2, RestKept
<1>4. UNCHANGED loop => Keeps(loop, loop')
  BY DEF Keeps
<1>5. Keeps(loop, loop')
  <2>1. UNCHANGED loop \/ \E w : loop' = Append(loop, w)
    BY DEF Renderer, RendererReady, RendererAnswer, RendererAbort,
           RendererIgnore, RendererSeek, RendererSeekAgain, RendererSeekDone,
           PageCommand, PageDestroy, Deliver
  <2> QED
    BY <1>3, <1>4, <2>1
<1>6. ASSUME NEW s \in Types PROVE Asked(s) => Asked(s)'
  BY <1>2, <1>5 DEF Asked, Keeps, Reading
<1>7. ASSUME NEW s \in Types, reads'[s] = reads[s]
      PROVE  Answered(s) => Answered(s)'
  <2>1. reads[s] > 0 => reads'[s] > 0
    BY <1>7
  <2>2. ASSUME NEW i \in DOMAIN loop, loop[i].type = s,
               loop[i].kind \in {"data", "aborted", "endOfStream"}
        PROVE  Answered(s)'
    BY <1>5, <2>2 DEF Answered, Keeps, Reading
  <2> QED
    BY <2>1, <2>2 DEF Answered
<1>8. (rSeeking => rSeeking') => (SeekComes => SeekComes')
  BY <1>2, <1>5 DEF SeekComes, InLoop, Keeps, Reading
<1>9. ASSUME NEW t \in Types, RendererAnswer(t) \/ RendererAbort(t) \/ RendererIgnore(t)
      PROVE  PendInv'
  <2>1. UNCHANGED rSeeking /\ reads' = [reads EXCEPT ![t] = reads[t] - 1]
        /\ reads[t] > 0
    BY <1>9 DEF RendererAnswer, RendererAbort, RendererIgnore
  <2>2. \A s \in Types : s # t => reads'[s] = reads[s]
    BY <1>1, <2>1
  <2>3. Answered(t)' \/ SeekComes'
    <3>1. CASE RendererIgnore(t)
      <4>1. rSeeking => SeekComes'
        BY <2>1 DEF SeekComes
      <4>2. reads[t] > 1 => reads'[t] > 0
        <5>1. reads'[t] = reads[t] - 1 /\ reads[t] \in Nat
          BY <1>1, <2>1
        <5> QED
          BY <5>1
      <4>3. rSeeking \/ reads[t] > 1
        BY <3>1 DEF RendererIgnore
      <4> QED
        BY <4>1, <4>2, <4>3 DEF Answered
    <3>2. CASE RendererAnswer(t) \/ RendererAbort(t)
      <4>1. \E w : /\ loop' = Append(loop, w) /\ w.type = t
                   /\ w.kind \in {"data", "aborted", "endOfStream"}
        <5>1. CASE RendererAbort(t)
          <6>1. /\ loop' = Append(loop, ItemOf("aborted", t))
                /\ ItemOf("aborted", t).type = t
                /\ ItemOf("aborted", t).kind = "aborted"
            BY <5>1 DEF RendererAbort, Deliver, ItemOf, Item
          <6> QED
            BY <6>1
        <5>2. CASE RendererAnswer(t)
          <6> DEFINE d == [ItemOf("data", t) EXCEPT
                             !.buf = [seg |-> segment, no |-> next[t] + 1]]
          <6>1. /\ d.type = t /\ d.kind = "data"
                /\ ItemOf("endOfStream", t).type = t
                /\ ItemOf("endOfStream", t).kind = "endOfStream"
            BY DEF ItemOf, Item
          <6>2. loop' = Append(loop, d) \/ loop' = Append(loop, ItemOf("endOfStream", t))
            BY <5>2 DEF RendererAnswer, Deliver
          <6> HIDE DEF d
          <6> QED
            BY <6>1, <6>2
        <5> QED
          BY <3>2, <5>1, <5>2
      <4> QED
        BY <1>3, <4>1 DEF Answered
    <3> QED
      BY <1>9, <3>1, <3>2
  <2>4. ASSUME NEW s \in Types, feed'[s].waiting, Live', ~feed'[s].eos
        PROVE  /\ ~feed'[s].should => Asked(s)'
               /\ s = "video" \/ seekOffset'[s] = 0
                    => Asked(s)' \/ Answered(s)' \/ SeekComes'
    <3>1. ~feed[s].should => Asked(s)'
      BY <1>2, <1>6, <2>4 DEF PendInv
    <3>2. CASE s = t
      BY <1>2, <2>3, <3>1, <3>2
    <3>3. CASE s # t
      BY <1>2, <1>6, <1>7, <1>8, <2>1, <2>2, <2>4, <3>3 DEF PendInv
    <3> QED
      BY <3>2, <3>3
  <2> QED
    BY <2>4 DEF PendInv
<1>10. CASE RendererSeekDone
  <2>1. reads' = reads
    BY <1>10 DEF RendererSeekDone
  <2>2. SeekComes'
    <3> DEFINE d == [Item("seekDone") EXCEPT !.buf.seg = segment + 1]
    <3>1. loop' = Append(loop, d) /\ d.kind = "seekDone"
      BY <1>10 DEF RendererSeekDone, Deliver, Item
    <3> HIDE DEF d
    <3>2. \E j \in DOMAIN loop' : loop'[j].kind = "seekDone"
      BY <1>3, <3>1
    <3> QED
      BY <3>2 DEF SeekComes, InLoop
  <2> QED
    BY <1>2, <1>6, <2>2 DEF PendInv
<1>11. CASE RendererReady \/ RendererSeek \/ RendererSeekAgain \/ PageCommand
            \/ PageDestroy
  <2>1. reads' = reads /\ (rSeeking => rSeeking')
    BY <1>11 DEF RendererReady, RendererSeek, RendererSeekAgain, PageCommand,
                 PageDestroy
  <2> QED
    BY <1>2, <1>5, <2>1, PendFrame
<1> QED
  BY <1>9, <1>10, <1>11 DEF Renderer

LEMMA PendStep ==
  TypeOK /\ LifeInv /\ Fresh /\ FeedInv /\ PendInv /\ [Next]_vars => PendInv'
<1> SUFFICES ASSUME TypeOK, LifeInv, Fresh, FeedInv, PendInv, [Next]_vars
             PROVE  PendInv'
  OBVIOUS
<1>1. TypeOK' /\ (Live' => Live)
  BY TypeStep, Monotone DEF Live
<1>2. CASE UNCHANGED vars
  BY <1>2 DEF vars, PendInv, Live, Asked, Answered, SeekComes, InLoop
<1>3. CASE UIThread
  BY <1>1, <1>3, PendDestroy, PendTask, PendConfigs, PendSeek, PendAborted,
     PendRead, PendData, PendEnd, PendDone DEF UIThread
<1> QED
  BY <1>1, <1>2, <1>3, PendDestroy, PendStreaming, PendRenderer DEF Next

\* An appsrc that waits for data is not forgotten: a read of its stream, an answer
\* to one, or a seek that will flush the appsrc is under way, in whatever order
\* need-data, answers, aborted reads and seeks are served.
THEOREM NeedDataIsPending == Spec => []FeedPending
<1>1. Init => PendInv
  BY PendInit
<1>2. TypeOK /\ LifeInv /\ Fresh /\ FeedInv /\ PendInv /\ [Next]_vars => PendInv'
  BY PendStep
<1>3. PendInv => FeedPending
  BY DEF PendInv, FeedPending, Asked, Answered, SeekComes, Live, Usable
<1> QED
  BY <1>1, <1>2, <1>3, FeedSound, PTL DEF Spec

=============================================================================
