--------------------- MODULE MediaSourceDelegate_proofs ---------------------
(***************************************************************************)
(* Proofs about MediaSourceDelegate for any positions and any number of    *)
(* seeks, reads and ends of playback: its types and its deletion (LifeInv),*)
(* its reads (ReadInv) and the seeks that do not overlap (SeekInv).        *)
(***************************************************************************)
EXTENDS MediaSourceDelegate, FiniteSetTheorems, TLAPS

Queues == [Threads -> Seq(Task)]

\* The tasks that begin and end the delegate's life.
LifeKinds == {"initialize", "stop", "delete"}

(***************************************************************************)
(* us is ts with other tasks posted behind.                                *)
(***************************************************************************)
Grew(ts, us) ==
  /\ us \in Queues
  /\ \A th \in Threads :
       /\ Len(ts[th]) <= Len(us[th])
       /\ \A i \in 1..Len(ts[th]) : us[th][i] = ts[th][i]
       /\ \A i \in 1..Len(us[th]) :
            i > Len(ts[th]) => us[th][i].kind \notin LifeKinds

LEMMA TaskType ==
  ASSUME NEW k \in Kinds, NEW t \in Media, NEW s \in Statuses,
         NEW p \in Positions
  PROVE  /\ TaskOf(k) \in Task /\ TaskOf(k).kind = k
         /\ [TaskOf(k) EXCEPT !.status = s] \in Task
         /\ [TaskOf(k) EXCEPT !.status = s].kind = k
         /\ [TaskOf(k) EXCEPT !.type = t] \in Task
         /\ [TaskOf(k) EXCEPT !.type = t].kind = k
         /\ [TaskOf(k) EXCEPT !.time = p] \in Task
         /\ [TaskOf(k) EXCEPT !.time = p].kind = k
         /\ [TaskOf(k) EXCEPT !.type = t, !.status = s] \in Task
         /\ [TaskOf(k) EXCEPT !.type = t, !.status = s].kind = k
BY DEF TaskOf, Task, Media, Statuses, Positions

LEMMA GrewSame == ASSUME NEW ts \in Queues PROVE Grew(ts, ts)
<1>1. \A th \in Threads : Len(ts[th]) \in Nat
  BY DEF Queues
<1> QED
  BY <1>1 DEF Grew

LEMMA GrewTwice ==
  ASSUME NEW ts \in Queues, NEW us \in Queues, NEW vs,
         Grew(ts, us), Grew(us, vs)
  PROVE  Grew(ts, vs)
<1>1. \A th \in Threads : /\ Len(ts[th]) \in Nat /\ Len(us[th]) \in Nat
                          /\ Len(vs[th]) \in Nat
  BY DEF Queues, Grew
<1> SUFFICES ASSUME NEW th \in Threads
             PROVE  /\ Len(ts[th]) <= Len(vs[th])
                    /\ \A i \in 1..Len(ts[th]) : vs[th][i] = ts[th][i]
                    /\ \A i \in 1..Len(vs[th]) :
                         i > Len(ts[th]) => vs[th][i].kind \notin LifeKinds
  BY DEF Grew
<1>2. /\ Len(ts[th]) <= Len(us[th]) /\ Len(us[th]) <= Len(vs[th])
      /\ \A i \in 1..Len(ts[th]) : us[th][i] = ts[th][i]
      /\ \A i \in 1..Len(us[th]) : vs[th][i] = us[th][i]
      /\ \A i \in 1..Len(us[th]) :
           i > Len(ts[th]) => us[th][i].kind \notin LifeKinds
      /\ \A i \in 1..Len(vs[th]) :
           i > Len(us[th]) => vs[th][i].kind \notin LifeKinds
  BY DEF Grew
<1> QED
  BY <1>1, <1>2

LEMMA GrewPost ==
  ASSUME NEW ts \in Queues, NEW th \in Threads, NEW t \in Task,
         t.kind \notin LifeKinds
  PROVE  /\ Post(ts, th, t) \in Queues /\ Grew(ts, Post(ts, th, t))
<1> DEFINE us == Post(ts, th, t)
<1>1. us = [ts EXCEPT ![th] = Append(ts[th], t)]
  BY DEF Post
<1>2. us \in Queues
  BY <1>1 DEF Queues
<1>3. /\ Len(ts[th]) \in Nat /\ Len(us[th]) = Len(ts[th]) + 1
      /\ us[th][Len(ts[th]) + 1] = t
      /\ \A i \in 1..Len(ts[th]) : us[th][i] = ts[th][i]
  BY <1>1 DEF Queues
<1>4. \A o \in Threads : o # th => us[o] = ts[o] /\ Len(ts[o]) \in Nat
  BY <1>1 DEF Queues
<1> HIDE DEF us
<1>5. Grew(ts, us)
  BY <1>2, <1>3, <1>4 DEF Grew
<1> QED
  BY <1>2, <1>5 DEF us

LEMMA GrewAnswers ==
  ASSUME NEW d \in Demuxer, NEW ts \in Queues, NEW s \in Statuses
  PROVE  /\ AnswerReads(d, ts, s) \in Queues
         /\ Grew(ts, AnswerReads(d, ts, s))
<1> DEFINE one(t) == IF d.reading[t]
                     THEN <<[TaskOf("buffer") EXCEPT !.type = t, !.status = s]>>
                     ELSE <<>>
           us == [ts EXCEPT !["media"] = @ \o one("audio") \o one("video")]
<1>1. AnswerReads(d, ts, s) = us
  BY DEF AnswerReads
<1>2. ASSUME NEW t \in Media
      PROVE  /\ one(t) \in Seq(Task)
             /\ \A i \in 1..Len(one(t)) : one(t)[i].kind = "buffer"
  <2> DEFINE e == [TaskOf("buffer") EXCEPT !.type = t, !.status = s]
  <2>1. e \in Task /\ e.kind = "buffer"
    BY DEF TaskOf, Task, Kinds, Media, Statuses, Positions
  <2> HIDE DEF e
  <2>2. <<e>> \in Seq(Task) /\ Len(<<e>>) = 1 /\ <<e>>[1] = e
    BY <2>1
  <2>3. <<>> \in Seq(Task) /\ Len(<<>>) = 0
    OBVIOUS
  <2>4. one(t) = IF d.reading[t] THEN <<e>> ELSE <<>>
    BY DEF e
  <2> QED
    BY <2>1, <2>2, <2>3, <2>4
<1>3. "audio" \in Media /\ "video" \in Media /\ "media" \in Threads
  BY DEF Media, Threads
<1> HIDE DEF one
<1>4. \A q, a, b \in Seq(Task) :
        /\ q \o a \o b \in Seq(Task) /\ Len(q) \in Nat
        /\ Len(q) <= Len(q \o a \o b)
        /\ \A i \in 1..Len(q) : (q \o a \o b)[i] = q[i]
        /\ \A i \in 1..Len(q \o a \o b) : i > Len(q) =>
             \/ \E j \in 1..Len(a) : (q \o a \o b)[i] = a[j]
             \/ \E j \in 1..Len(b) : (q \o a \o b)[i] = b[j]
  <2> SUFFICES ASSUME NEW q \in Seq(Task), NEW a \in Seq(Task),
                      NEW b \in Seq(Task)
               PROVE  /\ q \o a \o b \in Seq(Task) /\ Len(q) \in Nat
                      /\ Len(q) <= Len(q \o a \o b)
                      /\ \A i \in 1..Len(q) : (q \o a \o b)[i] = q[i]
                      /\ \A i \in 1..Len(q \o a \o b) : i > Len(q) =>
                           \/ \E j \in 1..Len(a) : (q \o a \o b)[i] = a[j]
                           \/ \E j \in 1..Len(b) : (q \o a \o b)[i] = b[j]
    OBVIOUS
  <2> DEFINE c == q \o a
             e == c \o b
  <2>1. /\ c \in Seq(Task) /\ Len(c) = Len(q) + Len(a)
        /\ Len(q) \in Nat /\ Len(a) \in Nat /\ Len(b) \in Nat
        /\ \A i \in 1..Len(c) : c[i] = IF i <= Len(q) THEN q[i]
                                       ELSE a[i - Len(q)]
    OBVIOUS
  <2> HIDE DEF c
  <2>0. c \in Seq(Task)
    BY <2>1
  <2>2. /\ e \in Seq(Task) /\ Len(e) = Len(c) + Len(b)
        /\ \A i \in 1..Len(e) : e[i] = IF i <= Len(c) THEN c[i]
                                       ELSE b[i - Len(c)]
    BY <2>0
  <2> HIDE DEF e
  <2>3. \A i \in 1..Len(q) : e[i] = q[i]
    BY <2>1, <2>2
  <2>4. ASSUME NEW i \in 1..Len(e), i > Len(q)
        PROVE  \/ \E j \in 1..Len(a) : e[i] = a[j]
               \/ \E j \in 1..Len(b) : e[i] = b[j]
    <3>1. CASE i <= Len(c)
      <4>1. i \in 1..Len(c) /\ Len(q) < i
        BY <2>1, <2>2, <2>4, <3>1
      <4>2. e[i] = c[i]
        BY <2>2, <3>1
      <4>3. c[i] = a[i - Len(q)]
        BY <2>1, <4>1
      <4>4. i - Len(q) \in 1..Len(a)
        BY <2>1, <4>1
      <4> QED
        BY <4>2, <4>3, <4>4
    <3>2. CASE i > Len(c)
      <4>1. i - Len(c) \in 1..Len(b) /\ e[i] = b[i - Len(c)]
        BY <2>1, <2>2, <3>2
      <4> QED
        BY <4>1
    <3> QED
      BY <2>1, <3>1, <3>2
  <2>5. Len(q) <= Len(e)
    BY <2>1, <2>2
  <2> QED
    BY <2>1, <2>2, <2>3, <2>4, <2>5 DEF c, e
<1> DEFINE x == ts["media"] \o one("audio") \o one("video")
<1>5. ts["media"] \in Seq(Task)
  BY <1>3 DEF Queues
<1>6. one("audio") \in Seq(Task) /\ one("video") \in Seq(Task)
  BY <1>2, <1>3
<1>7. /\ x \in Seq(Task) /\ Len(ts["media"]) \in Nat
      /\ Len(ts["media"]) <= Len(x)
      /\ \A i \in 1..Len(ts["media"]) : x[i] = ts["media"][i]
      /\ \A i \in 1..Len(x) : i > Len(ts["media"]) =>
           \/ \E j \in 1..Len(one("audio")) : x[i] = one("audio")[j]
           \/ \E j \in 1..Len(one("video")) : x[i] = one("video")[j]
  BY <1>4, <1>5, <1>6
<1> HIDE DEF x
<1>8. \A i \in 1..Len(x) : i > Len(ts["media"]) => x[i].kind = "buffer"
  BY <1>2, <1>3, <1>7
<1>9. us = [ts EXCEPT !["media"] = x]
  BY DEF x
<1> HIDE DEF us
<1>10. /\ us \in Queues /\ us["media"] = x
       /\ \A o \in Threads : o # "media" => us[o] = ts[o] /\ Len(ts[o]) \in Nat
  BY <1>3, <1>7, <1>9 DEF Queues
<1>11. Grew(ts, us)
  BY <1>7, <1>8, <1>10 DEF Grew, LifeKinds
<1> QED
  BY <1>1, <1>10, <1>11

(***************************************************************************)
(* The calls into ChunkDemuxer leave the demuxer and the queues in their   *)
(* types, and post behind what is queued.                                  *)
(***************************************************************************)
LEMMA CallbackTask ==
  ASSUME NEW s \in Statuses
  PROVE  /\ SeekCallback(s) \in Task /\ SeekCallback(s).kind \notin LifeKinds
BY DEF SeekCallback, TaskOf, Task, Kinds, Media, Statuses, Positions, LifeKinds

LEMMA DemuxerEdits ==
  ASSUME NEW d \in Demuxer, NEW th \in Threads \cup {"none"},
         NEW p \in Positions, NEW b \in BOOLEAN, NEW c \in BOOLEAN
  PROVE  /\ [d EXCEPT !.cancelNext = b, !.seekCb = th] \in Demuxer
         /\ [d EXCEPT !.at = p, !.aborting = b, !.seekCb = th] \in Demuxer
         /\ [d EXCEPT !.at = p, !.aborting = b, !.reading = NoReads,
                      !.seekCb = th, !.cancelNext = c] \in Demuxer
BY DEF Demuxer, NoReads

LEMMA WaitingCall ==
  ASSUME NEW d \in Demuxer, NEW t \in Positions
  PROVE  /\ Waiting(d, t) \in Demuxer /\ Waiting(d, t).reading = NoReads
         /\ Waiting(d, t).state = d.state /\ Waiting(d, t).seekCb = d.seekCb
         /\ Waiting(d, t).cancelNext = FALSE
BY DEF Waiting, Demuxer, NoReads

LEMMA SeekCall ==
  ASSUME NEW d \in Demuxer, NEW ts \in Queues, NEW th \in Threads,
         NEW p \in Positions, DemuxerSeek(d, ts, th, p)
  PROVE  demuxer' \in Demuxer /\ tasks' \in Queues /\ Grew(ts, tasks')
<1>1. demuxer' \in Demuxer
  <2>1. /\ [d EXCEPT !.cancelNext = FALSE, !.seekCb = "none"] \in Demuxer
        /\ [d EXCEPT !.at = p, !.aborting = FALSE, !.seekCb = "none"] \in Demuxer
        /\ [d EXCEPT !.at = p, !.aborting = FALSE, !.seekCb = th] \in Demuxer
    BY DemuxerEdits, Zenon
  <2>2. \/ demuxer' = d
        \/ demuxer' = [d EXCEPT !.cancelNext = FALSE, !.seekCb = "none"]
        \/ demuxer' = [d EXCEPT !.at = p, !.aborting = FALSE, !.seekCb = "none"]
        \/ demuxer' = [d EXCEPT !.at = p, !.aborting = FALSE, !.seekCb = th]
    BY DEF DemuxerSeek
  <2> QED
    BY <2>1, <2>2, Zenon
<1>2. \/ tasks' = ts
      \/ \E s \in Statuses : tasks' = Post(ts, th, SeekCallback(s))
  BY DEF DemuxerSeek, Statuses
<1> QED
  BY <1>1, <1>2, GrewSame, GrewPost, CallbackTask

LEMMA CancelCall ==
  ASSUME NEW d \in Demuxer, NEW ts \in Queues, NEW t \in Positions,
         DemuxerCancel(d, ts, t)
  PROVE  demuxer' \in Demuxer /\ tasks' \in Queues /\ Grew(ts, tasks')
<1>1. CASE d.cancelNext
  BY <1>1, GrewSame DEF DemuxerCancel
<1>2. CASE ~d.cancelNext
  <2> DEFINE as == AnswerReads(d, ts, "aborted")
  <2>1. as \in Queues /\ Grew(ts, as)
    BY GrewAnswers DEF Statuses
  <2>2. /\ tasks' = IF d.seekCb = "none" THEN as
                    ELSE Post(as, d.seekCb, SeekCallback("ok"))
        /\ demuxer' = [d EXCEPT !.at = t, !.aborting = TRUE,
                                !.reading = NoReads, !.seekCb = "none",
                                !.cancelNext = (d.seekCb = "none")]
    BY <1>2 DEF DemuxerCancel
  <2>3. d.seekCb \in Threads \cup {"none"} /\ (d.seekCb = "none") \in BOOLEAN
    BY DEF Demuxer
  <2>4. demuxer' \in Demuxer
    <3>2. \A c \in BOOLEAN :
            [d EXCEPT !.at = t, !.aborting = TRUE, !.reading = NoReads,
                      !.seekCb = "none", !.cancelNext = c] \in Demuxer
      BY DemuxerEdits, Zenon
    <3> QED
      BY <2>2, <2>3, <3>2, Zenon
  <2> HIDE DEF as
  <2>5. CASE d.seekCb = "none"
    BY <2>1, <2>2, <2>4, <2>5
  <2>6. CASE d.seekCb # "none"
    <3> DEFINE us == Post(as, d.seekCb, SeekCallback("ok"))
    <3>1. us \in Queues /\ Grew(as, us)
      BY <2>1, <2>3, <2>6, GrewPost, CallbackTask DEF Statuses
    <3>2. tasks' = us
      BY <2>2, <2>6
    <3> QED
      BY <2>1, <2>4, <3>1, <3>2, GrewTwice
  <2> QED
    BY <2>5, <2>6
<1> QED
  BY <1>1, <1>2

(***************************************************************************)
(* The tasks of the delegate's life, and where they can be while it is in  *)
(* state l.                                                                *)
(***************************************************************************)
LifeTasks(ts, l) ==
  /\ \A i \in 1..Len(ts["media"]) :
       /\ ts["media"][i].kind # "delete"
       /\ ts["media"][i].kind = "initialize" =>
            i = 1 /\ l \in {"alive", "destroying"}
       /\ ts["media"][i].kind = "stop" => l = "destroying"
       /\ \A j \in 1..Len(ts["media"]) :
            ts["media"][i].kind = "stop" /\ ts["media"][j].kind = "stop" => i = j
  /\ \A i \in 1..Len(ts["main"]) :
       /\ ts["main"][i].kind \notin {"initialize", "stop"}
       /\ ts["main"][i].kind = "delete" => l = "stopped"
       /\ \A j \in 1..Len(ts["main"]) :
            ts["main"][i].kind = "delete" /\ ts["main"][j].kind = "delete" => i = j

LEMMA LifeGrew ==
  ASSUME NEW ts \in Queues, NEW us, NEW l, LifeTasks(ts, l), Grew(ts, us)
  PROVE  LifeTasks(us, l)
<1>1. us \in Queues /\ "media" \in Threads /\ "main" \in Threads
  BY DEF Grew, Threads
<1>2. ASSUME NEW th \in Threads
      PROVE  /\ Len(ts[th]) \in Nat /\ Len(us[th]) \in Nat
             /\ Len(ts[th]) <= Len(us[th])
             /\ \A i \in 1..Len(us[th]) :
                  us[th][i].kind \in LifeKinds =>
                    i \in 1..Len(ts[th]) /\ us[th][i] = ts[th][i]
  BY <1>1 DEF Grew, Queues
<1>3. \A i \in 1..Len(us["media"]) :
        us["media"][i].kind \in LifeKinds =>
          i \in 1..Len(ts["media"]) /\ us["media"][i] = ts["media"][i]
  BY <1>1, <1>2
<1>4. \A i \in 1..Len(us["main"]) :
        us["main"][i].kind \in LifeKinds =>
          i \in 1..Len(ts["main"]) /\ us["main"][i] = ts["main"][i]
  BY <1>1, <1>2
<1> QED
  BY <1>3, <1>4 DEF LifeTasks, LifeKinds

LEMMA Pop ==
  ASSUME NEW ts \in Queues, NEW th \in Threads, ts[th] # <<>>
  PROVE  LET us == [ts EXCEPT ![th] = Tail(ts[th])]
         IN  /\ us \in Queues
             /\ Len(ts[th]) \in Nat \ {0} /\ Len(us[th]) = Len(ts[th]) - 1
             /\ \A i \in 1..Len(us[th]) :
                  i + 1 \in 1..Len(ts[th]) /\ us[th][i] = ts[th][i + 1]
             /\ Head(ts[th]) = ts[th][1] /\ Head(ts[th]) \in Task
             /\ \A o \in Threads : o # th => us[o] = ts[o]
<1> DEFINE q == ts[th]
           us == [ts EXCEPT ![th] = Tail(q)]
<1>1. q \in Seq(Task) /\ q # <<>>
  BY DEF Queues
<1>2. us[th] = Tail(q) /\ \A o \in Threads : o # th => us[o] = ts[o]
  BY DEF Queues
<1> HIDE DEF q
<1>3. /\ Tail(q) \in Seq(Task) /\ Len(q) \in Nat \ {0}
      /\ Len(Tail(q)) = Len(q) - 1 /\ Head(q) = q[1] /\ Head(q) \in Task
      /\ \A i \in 1..Len(Tail(q)) : i + 1 \in 1..Len(q) /\ Tail(q)[i] = q[i + 1]
  BY <1>1
<1>4. us \in Queues
  BY <1>3 DEF Queues
<1> HIDE DEF us
<1> QED
  BY <1>2, <1>3, <1>4 DEF q, us

LEMMA LifePopped ==
  ASSUME NEW ts \in Queues, NEW th \in Threads, NEW l, ts[th] # <<>>,
         LifeTasks(ts, l)
  PROVE  LifeTasks([ts EXCEPT ![th] = Tail(ts[th])], l)
<1> DEFINE us == [ts EXCEPT ![th] = Tail(ts[th])]
<1>1. /\ us \in Queues
      /\ \A i \in 1..Len(us[th]) :
           i + 1 \in 1..Len(ts[th]) /\ us[th][i] = ts[th][i + 1]
      /\ \A o \in Threads : o # th => us[o] = ts[o]
  BY Pop
<1>2. th \in {"main", "media"}
  BY DEF Threads
<1> HIDE DEF us
<1>5. \A i \in 1..Len(us[th]) : i \in Nat
  BY <1>1 DEF Queues
<1>3. CASE th = "media"
  <2>1. us["main"] = ts["main"]
    BY <1>1, <1>3 DEF Threads
  <2>2. ASSUME NEW i \in 1..Len(us["media"])
        PROVE  /\ us["media"][i].kind # "delete"
               /\ us["media"][i].kind # "initialize"
               /\ us["media"][i].kind = "stop" => l = "destroying"
    <3>1. i \in Nat \ {0} /\ i + 1 \in 1..Len(ts["media"])
          /\ us["media"][i] = ts["media"][i + 1]
      BY <1>1, <1>3, <1>5
    <3>2. i + 1 # 1
      BY <3>1
    <3> QED
      BY <3>1, <3>2 DEF LifeTasks
  <2>3. ASSUME NEW i \in 1..Len(us["media"]), NEW j \in 1..Len(us["media"]),
               us["media"][i].kind = "stop", us["media"][j].kind = "stop"
        PROVE  i = j
    <3>2. \A m, o \in 1..Len(ts["media"]) :
            ts["media"][m].kind = "stop" /\ ts["media"][o].kind = "stop" => m = o
      BY DEF LifeTasks
    <3>3. /\ i + 1 \in 1..Len(ts["media"]) /\ us["media"][i] = ts["media"][i + 1]
          /\ j + 1 \in 1..Len(ts["media"]) /\ us["media"][j] = ts["media"][j + 1]
      BY <1>1, <1>3
    <3>1. i + 1 = j + 1
      BY <2>3, <3>2, <3>3
    <3> QED
      BY <1>3, <1>5, <3>1
  <2> QED
    BY <2>1, <2>2, <2>3 DEF LifeTasks
<1>4. CASE th = "main"
  <2>1. us["media"] = ts["media"]
    BY <1>1, <1>4 DEF Threads
  <2>2. ASSUME NEW i \in 1..Len(us["main"])
        PROVE  /\ us["main"][i].kind \notin {"initialize", "stop"}
               /\ us["main"][i].kind = "delete" => l = "stopped"
    BY <1>1, <1>4, <2>2 DEF LifeTasks
  <2>3. ASSUME NEW i \in 1..Len(us["main"]), NEW j \in 1..Len(us["main"]),
               us["main"][i].kind = "delete", us["main"][j].kind = "delete"
        PROVE  i = j
    <3>2. \A m, o \in 1..Len(ts["main"]) :
            ts["main"][m].kind = "delete" /\ ts["main"][o].kind = "delete" => m = o
      BY DEF LifeTasks
    <3>3. /\ i + 1 \in 1..Len(ts["main"]) /\ us["main"][i] = ts["main"][i + 1]
          /\ j + 1 \in 1..Len(ts["main"]) /\ us["main"][j] = ts["main"][j + 1]
      BY <1>1, <1>4
    <3>1. i + 1 = j + 1
      BY <2>3, <3>2, <3>3
    <3> QED
      BY <1>4, <1>5, <3>1
  <2> QED
    BY <2>1, <2>2, <2>3 DEF LifeTasks
<1> QED
  BY <1>2, <1>3, <1>4 DEF us

(***************************************************************************)
(* What makes DeletedLast inductive: where the tasks of the delegate's     *)
(* life are, and which thread may be inside it.                            *)
(***************************************************************************)
LifeInv ==
  /\ TypeOK
  /\ LifeTasks(tasks, life)
  /\ life \in {"stopped", "deleted"} => pc["media"] = "idle"
  /\ life = "deleted" => pc["main"] = "idle"

LEMMA Served ==
  ASSUME LifeInv, NEW th \in Threads, NEW k, Runs(th, k)
  PROVE  /\ Popped(th) \in Queues /\ LifeTasks(Popped(th), life)
         /\ Head(tasks[th]) \in Task /\ Head(tasks[th]).kind = k
         /\ pc[th] = "idle"
<1>1. tasks \in Queues /\ tasks[th] # <<>>
  BY DEF LifeInv, TypeOK, Queues, Runs
<1>2. Popped(th) = [tasks EXCEPT ![th] = Tail(tasks[th])]
  BY DEF Popped
<1>3. [tasks EXCEPT ![th] = Tail(tasks[th])] \in Queues
      /\ Head(tasks[th]) \in Task
  BY <1>1, Pop
<1>4. LifeTasks([tasks EXCEPT ![th] = Tail(tasks[th])], life)
  BY <1>1, LifePopped DEF LifeInv
<1> QED
  BY <1>2, <1>3, <1>4 DEF Runs

\* A step that begins or ends no life
LEMMA Quiet ==
  ASSUME LifeInv, TypeOK', UNCHANGED life,
         NEW ts \in Queues, LifeTasks(ts, life), Grew(ts, tasks'),
         life \in {"stopped", "deleted"} => pc'["media"] = "idle",
         life = "deleted" => pc'["main"] = "idle"
  PROVE  LifeInv'
<1>1. LifeTasks(tasks', life)
  BY LifeGrew
<1>2. LifeTasks(tasks, life)'
  BY <1>1 DEF LifeTasks
<1> QED
  BY <1>2 DEF LifeInv

LEMMA InitLife == Init => LifeInv
<1> SUFFICES ASSUME Init PROVE LifeInv
  OBVIOUS
<1>1. TaskOf("initialize") \in Task /\ TaskOf("initialize").kind = "initialize"
  BY DEF TaskOf, Task, Kinds, Media, Statuses, Positions
<1>2. tasks \in Queues
  <2>1. <<TaskOf("initialize")>> \in Seq(Task) /\ <<>> \in Seq(Task)
    BY <1>1
  <2>2. tasks = [main |-> <<>>, media |-> <<TaskOf("initialize")>>]
    BY DEF Init
  <2> HIDE DEF TaskOf
  <2>3. /\ DOMAIN tasks = Threads /\ tasks = [th \in Threads |-> tasks[th]]
        /\ tasks["main"] = <<>> /\ tasks["media"] = <<TaskOf("initialize")>>
    BY <2>2 DEF Threads
  <2>4. \A th \in Threads : tasks[th] \in Seq(Task)
    BY <2>1, <2>3 DEF Threads
  <2> QED
    BY <2>3, <2>4 DEF Queues
<1>3. Start \in Positions
  BY DEF Positions
<1>4. TypeOK
  <2>1. /\ wmp \in Element /\ latest \in Positions /\ pending \in Pending
        /\ demuxer \in Demuxer /\ seekTime \in Positions
    BY <1>3 DEF Init, Element, Pending, Demuxer, NoReads
  <2>2. /\ readFired \in [Media -> BOOLEAN]
        /\ pc \in [Threads -> {"idle", "cancelling", "again", "done", "answer"}]
    BY DEF Init, NoReads
  <2>3. player \in Seq(Times) /\ answers \in Seq(Answer)
    BY DEF Init
  <2> QED
    BY <1>2, <2>1, <2>2, <2>3 DEF Init, TypeOK, Queues
<1>5. Len(tasks["main"]) = 0 /\ Len(tasks["media"]) = 1
      /\ tasks["media"][1].kind = "initialize"
  <2>1. tasks["main"] = <<>> /\ tasks["media"] = <<TaskOf("initialize")>>
    BY DEF Init
  <2> QED
    BY <1>1, <2>1
<1>6. LifeTasks(tasks, life)
  BY <1>5 DEF LifeTasks, Init
<1> QED
  BY <1>4, <1>6 DEF LifeInv, Init

LEMMA StartSeekCall ==
  ASSUME TypeOK, NEW d \in Demuxer, NEW ts \in Queues, NEW th \in Threads,
         NEW p \in Positions, NEW own \in BOOLEAN, StartSeek(d, ts, th, p, own)
  PROVE  /\ demuxer' \in Demuxer /\ tasks' \in Queues /\ Grew(ts, tasks')
         /\ isSeeking' \in BOOLEAN /\ seekDone' \in BOOLEAN
         /\ seekingPending' \in BOOLEAN /\ seekTime' \in Positions
<1>1. /\ isSeeking' \in BOOLEAN /\ seekDone' \in BOOLEAN
      /\ seekingPending' \in BOOLEAN /\ seekTime' \in Positions
  BY DEF StartSeek, TypeOK
<1>2. \/ demuxer' = d /\ tasks' = ts
      \/ DemuxerSeek(d, ts, th, p)
  BY DEF StartSeek
<1> QED
  BY <1>1, <1>2, SeekCall, GrewSame

\* The members that a seek of the element or of the delegate changes
SeekTypes ==
  /\ isSeeking \in BOOLEAN /\ seekDone \in BOOLEAN
  /\ seekingPending \in BOOLEAN /\ seekTime \in Positions
  /\ pending \in Pending /\ demuxer \in Demuxer

LEMMA SeekFirstKeeps ==
  ASSUME LifeInv, NEW t \in Times, SeekFirst(t) PROVE LifeInv'
<1> DEFINE as == AnswerReads(demuxer, tasks, "aborted")
<1>1. TypeOK /\ demuxer \in Demuxer /\ tasks \in Queues
  BY DEF LifeInv, TypeOK, Queues
<1>2. as \in Queues /\ Grew(tasks, as)
  BY <1>1, GrewAnswers DEF Statuses
<1>3. tasks' = as
  BY DEF SeekFirst
<1> HIDE DEF as
<1>4. demuxer' \in Demuxer
  BY <1>1, WaitingCall DEF SeekFirst, Positions
<1>5. wmp' \in Element /\ latest' \in Positions
  BY <1>1 DEF SeekFirst, TypeOK, Element, Positions
<1>7. player' \in Seq(Times)
  <2>1. player \in Seq(Times) /\ player' = Append(player, t)
    BY <1>1 DEF SeekFirst, TypeOK
  <2> QED
    BY <2>1
<1>8. tasks' \in [Threads -> Seq(Task)]
  BY <1>2, <1>3 DEF Queues
<1>6. TypeOK'
  <2>1. /\ UNCHANGED <<life, ready, pending, seekTime, readFired, pc, answers,
                       gstSeeks, readsSent, completes>>
        /\ seeks' = seeks + 1
        /\ seekDone' = FALSE /\ seekingPending' = FALSE /\ isSeeking' = TRUE
    BY DEF SeekFirst
  <2>2. seeks' \in Nat
    BY <1>1, <2>1 DEF TypeOK
  <2>3. /\ isSeeking' \in BOOLEAN /\ seekDone' \in BOOLEAN
        /\ seekingPending' \in BOOLEAN
    BY <2>1
  <2>4. /\ life' \in {"alive", "destroying", "stopped", "deleted"}
        /\ ready' \in BOOLEAN /\ pending' \in Pending
        /\ seekTime' \in Positions /\ readFired' \in [Media -> BOOLEAN]
        /\ pc' \in [Threads -> {"idle", "cancelling", "again", "done", "answer"}]
        /\ answers' \in Seq(Answer) /\ gstSeeks' \in {0, 1}
        /\ readsSent' \in Nat /\ completes' \in Nat
    BY <1>1, <2>1 DEF TypeOK
  <2> QED
    BY <1>4, <1>5, <1>7, <1>8, <2>2, <2>3, <2>4 DEF TypeOK
<1>9. UNCHANGED <<life, pc>>
  BY DEF SeekFirst
<1>10. Grew(tasks, tasks')
  BY <1>2, <1>3
<1> QED
  BY <1>1, <1>6, <1>9, <1>10, Quiet DEF LifeInv

LEMMA SeekAgainKeeps ==
  ASSUME LifeInv, NEW t \in Times, SeekAgain(t) PROVE LifeInv'
<1>1. TypeOK /\ tasks \in Queues /\ Grew(tasks, tasks)
  BY GrewSame DEF LifeInv, TypeOK, Queues
<1>2. /\ wmp' \in Element /\ latest' \in Positions /\ pending' \in Pending
      /\ pc' \in [Threads -> {"idle", "cancelling", "again", "done", "answer"}]
  BY <1>1 DEF SeekAgain, TypeOK, Element, Positions, Pending
<1>3. TypeOK'
  BY <1>1, <1>2 DEF SeekAgain, TypeOK, playerVars
<1> QED
  BY <1>1, <1>3, Quiet DEF SeekAgain, LifeInv

LEMMA CancelPendingSeekKeeps == ASSUME LifeInv, CancelPendingSeek PROVE LifeInv'
<1> DEFINE as == AnswerReads(demuxer, tasks, "aborted")
<1>1. TypeOK /\ demuxer \in Demuxer /\ tasks \in Queues
  BY DEF LifeInv, TypeOK, Queues
<1>2. as \in Queues /\ Grew(tasks, as)
  BY <1>1, GrewAnswers DEF Statuses
<1>3. /\ "main" \in Threads /\ TRUE \in BOOLEAN
      /\ pending.time \in Positions
      /\ [pending EXCEPT !.set = FALSE] \in Pending
      /\ Waiting(demuxer, pending.time) \in Demuxer
  BY <1>1, WaitingCall DEF Threads, TypeOK, Pending, Positions
<1>4. SeekTypes' /\ tasks' \in Queues /\ Grew(tasks, tasks')
  <2>1. CASE seekDone
    <3>1. /\ pending' = [pending EXCEPT !.set = FALSE]
          /\ StartSeek(Waiting(demuxer, pending.time), as, "main", pending.time, TRUE)
      BY <2>1 DEF CancelPendingSeek
    <3> HIDE DEF as
    <3>2. /\ demuxer' \in Demuxer /\ tasks' \in Queues /\ Grew(as, tasks')
          /\ isSeeking' \in BOOLEAN /\ seekDone' \in BOOLEAN
          /\ seekingPending' \in BOOLEAN /\ seekTime' \in Positions
      BY <1>1, <1>2, <1>3, <3>1, StartSeekCall
    <3> QED
      BY <1>1, <1>2, <1>3, <3>1, <3>2, GrewTwice DEF SeekTypes
  <2>2. CASE ~seekDone
    <3>1. DemuxerCancel(demuxer, tasks, pending.time) /\ UNCHANGED flagVars
      BY <2>2 DEF CancelPendingSeek
    <3> QED
      BY <1>1, <1>3, <3>1, CancelCall DEF SeekTypes, flagVars, TypeOK
  <2> QED
    BY <2>1, <2>2
<1>5. pc' \in [Threads -> {"idle", "cancelling", "again", "done", "answer"}]
  BY <1>1 DEF CancelPendingSeek, TypeOK
<1>6. TypeOK'
  BY <1>1, <1>4, <1>5
     DEF CancelPendingSeek, SeekTypes, TypeOK, Queues, playerVars, boundVars
<1> QED
  BY <1>1, <1>4, <1>6, Quiet DEF CancelPendingSeek, LifeInv, TypeOK, Threads

LEMMA OnDemuxerSeekRequestKeeps ==
  ASSUME LifeInv, OnDemuxerSeekRequest PROVE LifeInv'
<1> DEFINE ts == Popped("media")
<1>1. /\ TypeOK /\ demuxer \in Demuxer /\ "media" \in Threads
      /\ FALSE \in BOOLEAN
  BY DEF LifeInv, TypeOK, Threads
<1>2. /\ ts \in Queues /\ LifeTasks(ts, life)
      /\ Head(tasks["media"]).time \in Positions
  BY <1>1, Served DEF OnDemuxerSeekRequest, Task
<1>3. \/ tasks' = ts /\ UNCHANGED <<demuxer, flagVars>>
      \/ /\ StartSeek(demuxer, ts, "media", Head(tasks["media"]).time, FALSE)
         /\ UNCHANGED pending
  BY DEF OnDemuxerSeekRequest
<1> HIDE DEF ts
<1>4. SeekTypes' /\ tasks' \in Queues /\ Grew(ts, tasks')
  <2>1. CASE tasks' = ts /\ UNCHANGED <<demuxer, flagVars>>
    BY <1>1, <1>2, <2>1, GrewSame DEF SeekTypes, TypeOK, flagVars
  <2>2. CASE /\ StartSeek(demuxer, ts, "media", Head(tasks["media"]).time, FALSE)
             /\ UNCHANGED pending
    BY <1>1, <1>2, <2>2, StartSeekCall DEF SeekTypes, TypeOK
  <2> QED
    BY <1>3, <2>1, <2>2
<1>5. TypeOK'
  BY <1>1, <1>4
     DEF OnDemuxerSeekRequest, SeekTypes, TypeOK, Queues, playerVars, boundVars
<1> QED
  BY <1>2, <1>4, <1>5, Quiet DEF OnDemuxerSeekRequest, LifeInv

LEMMA OnDemuxerSeekDoneKeeps ==
  ASSUME LifeInv, NEW th \in Threads, OnDemuxerSeekDone(th) PROVE LifeInv'
<1>1. TypeOK /\ Popped(th) \in Queues /\ LifeTasks(Popped(th), life)
  BY Served DEF OnDemuxerSeekDone, LifeInv
<1>2. Grew(Popped(th), tasks')
  BY <1>1, GrewSame DEF OnDemuxerSeekDone
<1>3. pc' \in [Threads -> {"idle", "cancelling", "again", "done", "answer"}]
  BY <1>1 DEF OnDemuxerSeekDone, TypeOK
<1>4. TypeOK'
  BY <1>1, <1>3 DEF OnDemuxerSeekDone, TypeOK, Queues, flagVars, playerVars,
                    boundVars
<1>5. life \in {"stopped", "deleted"} => pc' = pc
  BY DEF OnDemuxerSeekDone
<1> QED
  BY <1>1, <1>2, <1>4, <1>5, Quiet DEF OnDemuxerSeekDone, LifeInv

LEMMA SeekPendingKeeps ==
  ASSUME LifeInv, NEW th \in Threads, SeekPending(th) PROVE LifeInv'
<1>1. /\ TypeOK /\ demuxer \in Demuxer /\ tasks \in Queues
      /\ LifeTasks(tasks, life) /\ TRUE \in BOOLEAN
  BY DEF LifeInv, TypeOK, Queues
<1>2. pending.time \in Positions /\ [pending EXCEPT !.set = FALSE] \in Pending
  BY <1>1 DEF TypeOK, Pending, Positions
<1>3. /\ demuxer' \in Demuxer /\ tasks' \in Queues /\ Grew(tasks, tasks')
      /\ isSeeking' \in BOOLEAN /\ seekDone' \in BOOLEAN
      /\ seekingPending' \in BOOLEAN /\ seekTime' \in Positions
  BY <1>1, <1>2, StartSeekCall DEF SeekPending
<1>4. pc' \in [Threads -> {"idle", "cancelling", "again", "done", "answer"}]
  BY <1>1 DEF SeekPending, TypeOK
<1>5. TypeOK'
  BY <1>1, <1>2, <1>3, <1>4
     DEF SeekPending, TypeOK, Queues, playerVars, boundVars
<1>6. \A o \in Threads : pc[o] = "idle" => pc'[o] = "idle"
  BY <1>1 DEF SeekPending, TypeOK
<1> QED
  BY <1>1, <1>3, <1>5, <1>6, Quiet DEF SeekPending, LifeInv, Threads

LEMMA SeekEndKeeps ==
  ASSUME LifeInv, NEW th \in Threads, AllowReads(th) \/ AnswerSeek(th)
  PROVE  LifeInv'
<1>1. /\ TypeOK /\ tasks \in Queues /\ LifeTasks(tasks, life)
      /\ Grew(tasks, tasks) /\ UNCHANGED <<tasks, life>>
  BY GrewSame DEF LifeInv, TypeOK, Queues, AllowReads, AnswerSeek
<1>2. pc' \in [Threads -> {"idle", "cancelling", "again", "done", "answer"}]
  BY <1>1 DEF AllowReads, AnswerSeek, TypeOK
<1>3. answers' \in Seq(Answer)
  <2>1. [time |-> seekTime, at |-> demuxer.at] \in Answer
    BY <1>1 DEF TypeOK, Answer, Demuxer
  <2>2. answers \in Seq(Answer)
    BY <1>1 DEF TypeOK
  <2>3. \/ answers' = answers
        \/ answers' = Append(answers, [time |-> seekTime, at |-> demuxer.at])
    BY DEF AllowReads, AnswerSeek, playerVars
  <2> QED
    BY <2>1, <2>2, <2>3
<1>4. TypeOK'
  BY <1>1, <1>2, <1>3 DEF AllowReads, AnswerSeek, TypeOK, playerVars, boundVars
<1>5. \A o \in Threads : pc[o] = "idle" => pc'[o] = "idle"
  BY <1>1 DEF AllowReads, AnswerSeek, TypeOK
<1> QED
  BY <1>1, <1>4, <1>5, Quiet DEF LifeInv, Threads

LEMMA OnReadFromDemuxerKeeps ==
  ASSUME LifeInv, OnReadFromDemuxer PROVE LifeInv'
<1> DEFINE ts == Popped("media")
           t == Head(tasks["media"]).type
<1>1. /\ TypeOK /\ demuxer \in Demuxer /\ "media" \in Threads
  BY DEF LifeInv, TypeOK, Threads
<1>2. ts \in Queues /\ LifeTasks(ts, life) /\ t \in Media
  BY <1>1, Served DEF OnReadFromDemuxer, Task
<1>3. /\ readFired' = [readFired EXCEPT ![t] = TRUE] \/ readFired' = readFired
      /\ demuxer' = [demuxer EXCEPT !.reading[t] = TRUE] \/ demuxer' = demuxer
      /\ \/ tasks' = ts
         \/ \E s \in Statuses : tasks' =
              Post(ts, "media", [TaskOf("buffer") EXCEPT !.type = t, !.status = s])
  BY DEF OnReadFromDemuxer, Statuses
<1> HIDE DEF ts, t
<1>4. demuxer' \in Demuxer /\ readFired' \in [Media -> BOOLEAN]
  BY <1>1, <1>2, <1>3 DEF Demuxer, TypeOK
<1>5. tasks' \in Queues /\ Grew(ts, tasks')
  <2>1. ASSUME NEW s \in Statuses
        PROVE  LET e == [TaskOf("buffer") EXCEPT !.type = t, !.status = s]
               IN  e \in Task /\ e.kind \notin LifeKinds
    BY <1>2 DEF TaskOf, Task, Kinds, Media, Statuses, Positions, LifeKinds
  <2> QED
    BY <1>1, <1>2, <1>3, <2>1, GrewSame, GrewPost
<1>6. TypeOK'
  BY <1>1, <1>4, <1>5
     DEF OnReadFromDemuxer, TypeOK, Queues, flagVars, playerVars, boundVars
<1> QED
  BY <1>2, <1>5, <1>6, Quiet DEF OnReadFromDemuxer, LifeInv

LEMMA OnBufferReadyKeeps == ASSUME LifeInv, OnBufferReady PROVE LifeInv'
<1>1. /\ TypeOK /\ Popped("media") \in Queues
      /\ LifeTasks(Popped("media"), life) /\ Head(tasks["media"]) \in Task
  BY Served DEF OnBufferReady, LifeInv, Threads
<1>2. Grew(Popped("media"), tasks')
  BY <1>1, GrewSame DEF OnBufferReady
<1>3. readFired' \in [Media -> BOOLEAN]
  BY <1>1 DEF OnBufferReady, TypeOK, Task
<1>4. TypeOK'
  BY <1>1, <1>3
     DEF OnBufferReady, TypeOK, Queues, flagVars, playerVars, boundVars
<1> QED
  BY <1>1, <1>2, <1>4, Quiet DEF OnBufferReady, LifeInv

LEMMA DemuxerLifeKeeps ==
  ASSUME LifeInv, InitializeDemuxer \/ OnDemuxerInitDone PROVE LifeInv'
<1> DEFINE ts == Popped("media")
           e == [TaskOf("initDone") EXCEPT !.status = "error"]
<1>1. /\ TypeOK /\ "media" \in Threads
      /\ ts \in Queues /\ LifeTasks(ts, life)
  BY Served DEF InitializeDemuxer, OnDemuxerInitDone, LifeInv, Threads
<1>2. e \in Task /\ e.kind \notin LifeKinds
  BY DEF TaskOf, Task, Kinds, Media, Statuses, Positions, LifeKinds
<1>3. tasks' = ts \/ tasks' = Post(ts, "media", e)
  BY DEF InitializeDemuxer, OnDemuxerInitDone
<1> HIDE DEF ts, e
<1>4. tasks' \in Queues /\ Grew(ts, tasks')
  BY <1>1, <1>2, <1>3, GrewSame, GrewPost
<1>5. demuxer' \in Demuxer /\ ready' \in BOOLEAN
  BY <1>1 DEF InitializeDemuxer, OnDemuxerInitDone, TypeOK, Demuxer
<1>6. TypeOK'
  BY <1>1, <1>4, <1>5 DEF InitializeDemuxer, OnDemuxerInitDone, TypeOK, Queues,
                          flagVars, playerVars, boundVars
<1>7. UNCHANGED <<life, pc>>
  BY DEF InitializeDemuxer, OnDemuxerInitDone
<1> QED
  BY <1>1, <1>4, <1>6, <1>7, Quiet DEF LifeInv

LEMMA OnSeekStateChangeKeeps ==
  ASSUME LifeInv, OnSeekStateChange PROVE LifeInv'
<1>1. /\ TypeOK /\ Popped("main") \in Queues
      /\ LifeTasks(Popped("main"), life)
  BY Served DEF OnSeekStateChange, LifeInv, Threads
<1>2. Grew(Popped("main"), tasks')
  BY <1>1, GrewSame DEF OnSeekStateChange
<1>3. wmp' \in Element
  BY <1>1 DEF OnSeekStateChange, TypeOK, Element
<1>4. TypeOK'
  BY <1>1, <1>3
     DEF OnSeekStateChange, TypeOK, Queues, flagVars, playerVars, boundVars
<1> QED
  BY <1>1, <1>2, <1>4, Quiet DEF OnSeekStateChange, LifeInv

LEMMA DestroyKeeps == ASSUME LifeInv, Destroy PROVE LifeInv'
<1> DEFINE as == AnswerReads(demuxer, tasks, "endOfStream")
           ended == IF demuxer.seekCb = "none" THEN as
                    ELSE Post(as, demuxer.seekCb, SeekCallback("error"))
           m == ended["media"]
<1>1. /\ TypeOK /\ demuxer \in Demuxer /\ tasks \in Queues
      /\ LifeTasks(tasks, life) /\ life = "alive"
      /\ demuxer.seekCb \in Threads \cup {"none"}
      /\ "media" \in Threads /\ "main" \in Threads
  BY DEF LifeInv, TypeOK, Queues, Destroy, Demuxer, Threads
<1>2. as \in Queues /\ Grew(tasks, as)
  BY <1>1, GrewAnswers DEF Statuses
<1> HIDE DEF as
<1>3. ended \in Queues /\ Grew(tasks, ended)
  <2>1. CASE demuxer.seekCb = "none"
    BY <1>2, <2>1
  <2>2. CASE demuxer.seekCb # "none"
    <3> DEFINE us == Post(as, demuxer.seekCb, SeekCallback("error"))
    <3>1. us \in Queues /\ Grew(as, us)
      BY <1>1, <1>2, <2>2, GrewPost, CallbackTask DEF Statuses
    <3>2. ended = us
      BY <2>2
    <3> QED
      BY <1>1, <1>2, <3>1, <3>2, GrewTwice
  <2> QED
    BY <2>1, <2>2
<1>4. /\ tasks' = Post(ended, "media", TaskOf("stop")) /\ life' = "destroying"
      /\ UNCHANGED pc
  BY DEF Destroy, as
<1> HIDE DEF ended
<1>5. LifeTasks(ended, "alive")
  BY <1>1, <1>3, LifeGrew
<1>6. TaskOf("stop") \in Task /\ TaskOf("stop").kind = "stop"
  BY DEF TaskOf, Task, Kinds, Media, Statuses, Positions
<1>7. /\ m \in Seq(Task) /\ Len(m) \in Nat
      /\ tasks'["media"] = Append(m, TaskOf("stop"))
      /\ tasks'["main"] = ended["main"]
      /\ tasks' \in Queues
  BY <1>1, <1>3, <1>4, <1>6 DEF Post, Queues
<1> HIDE DEF m
<1>8. /\ Len(tasks'["media"]) = Len(m) + 1
      /\ tasks'["media"][Len(m) + 1] = TaskOf("stop")
      /\ \A i \in 1..Len(m) : tasks'["media"][i] = m[i]
  BY <1>6, <1>7
<1>9. \A i \in 1..Len(m) :
        /\ m[i].kind \notin {"delete", "stop"}
        /\ m[i].kind = "initialize" => i = 1
  BY <1>5 DEF LifeTasks, m
<1>10. \A i \in 1..Len(tasks'["media"]) :
         \/ i \in 1..Len(m) /\ tasks'["media"][i] = m[i]
         \/ i = Len(m) + 1 /\ tasks'["media"][i] = TaskOf("stop")
  BY <1>7, <1>8
<1>11. LifeTasks(tasks', "destroying")
  <2>1. \A i \in 1..Len(tasks'["media"]) :
          /\ tasks'["media"][i].kind # "delete"
          /\ tasks'["media"][i].kind = "initialize" => i = 1
          /\ tasks'["media"][i].kind = "stop" => i = Len(m) + 1
    BY <1>6, <1>9, <1>10
  <2>2. \A i \in 1..Len(tasks'["main"]) :
          tasks'["main"][i].kind \notin LifeKinds
    BY <1>5, <1>7 DEF LifeTasks, LifeKinds
  <2> QED
    BY <2>1, <2>2 DEF LifeTasks, LifeKinds
<1>12. demuxer' \in Demuxer
  BY <1>1 DEF Destroy, Demuxer, NoReads
<1>13. TypeOK'
  BY <1>1, <1>4, <1>7, <1>12
     DEF Destroy, TypeOK, Queues, flagVars, playerVars, boundVars
<1>14. LifeTasks(tasks, life)'
  BY <1>4, <1>11 DEF LifeTasks
<1> QED
  BY <1>4, <1>13, <1>14 DEF LifeInv

LEMMA StopDemuxerKeepsLife == ASSUME LifeInv, StopDemuxer PROVE LifeInv'
<1> DEFINE ts == Popped("media")
           n == ts["main"]
<1>1. /\ TypeOK /\ demuxer \in Demuxer /\ tasks \in Queues
      /\ LifeTasks(tasks, life) /\ tasks["media"] # <<>>
      /\ "media" \in Threads /\ "main" \in Threads
      /\ Head(tasks["media"]).kind = "stop" /\ pc["media"] = "idle"
  BY DEF LifeInv, TypeOK, Queues, StopDemuxer, Threads, Runs
<1>2. /\ ts \in Queues /\ n = tasks["main"]
      /\ Len(tasks["media"]) \in Nat \ {0} /\ Len(ts["media"]) \in Nat
      /\ Head(tasks["media"]) = tasks["media"][1]
      /\ \A i \in 1..Len(ts["media"]) :
           i + 1 \in 1..Len(tasks["media"]) /\ ts["media"][i] = tasks["media"][i + 1]
  <2>1. ts = [tasks EXCEPT !["media"] = Tail(tasks["media"])] /\ "main" # "media"
    BY DEF Popped
  <2> HIDE DEF ts
  <2> QED
    BY <1>1, <2>1, Pop DEF Queues
<1>3. /\ tasks["media"][1].kind = "stop" /\ 1 \in 1..Len(tasks["media"])
  BY <1>1, <1>2
<1>4. life = "destroying"
  BY <1>1, <1>3 DEF LifeTasks
<1>5. \A i \in 1..Len(ts["media"]) : ts["media"][i].kind \notin LifeKinds
  <2> SUFFICES ASSUME NEW i \in 1..Len(ts["media"])
               PROVE  ts["media"][i].kind \notin LifeKinds
    OBVIOUS
  <2>1. /\ i + 1 \in 1..Len(tasks["media"])
        /\ ts["media"][i] = tasks["media"][i + 1]
        /\ i + 1 # 1
    BY <1>2
  <2>2. \A k \in 1..Len(tasks["media"]) :
          k # 1 => tasks["media"][k].kind \notin LifeKinds
    BY <1>1, <1>3 DEF LifeTasks, LifeKinds
  <2> HIDE DEF ts
  <2> QED
    BY <2>1, <2>2
<1>6. \A i \in 1..Len(n) : n[i].kind \notin LifeKinds
  BY <1>1, <1>2, <1>4 DEF LifeTasks, LifeKinds
<1>7. TaskOf("delete") \in Task /\ TaskOf("delete").kind = "delete"
  BY DEF TaskOf, Task, Kinds, Media, Statuses, Positions
<1>8. tasks' = Post(ts, "main", TaskOf("delete")) /\ life' = "stopped"
      /\ UNCHANGED pc
  BY DEF StopDemuxer
<1> HIDE DEF ts
<1>9. /\ n \in Seq(Task) /\ Len(n) \in Nat
      /\ tasks'["main"] = Append(n, TaskOf("delete"))
      /\ tasks'["media"] = ts["media"]
      /\ tasks' \in Queues
  BY <1>1, <1>2, <1>7, <1>8 DEF Post, Queues
<1> HIDE DEF n
<1>10. \A i \in 1..Len(tasks'["main"]) :
         \/ i \in 1..Len(n) /\ tasks'["main"][i] = n[i]
         \/ i = Len(n) + 1 /\ tasks'["main"][i] = TaskOf("delete")
  BY <1>7, <1>9
<1>11. LifeTasks(tasks', "stopped")
  <2>1. \A i \in 1..Len(tasks'["main"]) :
          /\ tasks'["main"][i].kind \notin {"initialize", "stop"}
          /\ tasks'["main"][i].kind = "delete" => i = Len(n) + 1
    BY <1>6, <1>7, <1>10 DEF LifeKinds
  <2>2. \A i \in 1..Len(tasks'["media"]) :
          tasks'["media"][i].kind \notin LifeKinds
    BY <1>5, <1>9
  <2> QED
    BY <2>1, <2>2 DEF LifeTasks, LifeKinds
<1>12. demuxer' \in Demuxer
  BY <1>1 DEF StopDemuxer, Demuxer
<1>13. TypeOK'
  BY <1>1, <1>9, <1>12
     DEF StopDemuxer, TypeOK, Queues, flagVars, playerVars, boundVars
<1>14. LifeTasks(tasks, life)'
  BY <1>8, <1>11 DEF LifeTasks
<1> QED
  BY <1>1, <1>8, <1>13, <1>14 DEF LifeInv

LEMMA DeleteSelfKeeps == ASSUME LifeInv, DeleteSelf PROVE LifeInv'
<1> DEFINE ts == Popped("main")
<1>1. /\ TypeOK /\ tasks \in Queues
      /\ LifeTasks(tasks, life) /\ tasks["main"] # <<>>
      /\ "media" \in Threads /\ "main" \in Threads
      /\ Head(tasks["main"]).kind = "delete" /\ pc["main"] = "idle"
  BY DEF LifeInv, TypeOK, Queues, DeleteSelf, Threads, Runs
<1>2. /\ ts \in Queues /\ ts["media"] = tasks["media"]
      /\ Len(tasks["main"]) \in Nat \ {0} /\ Len(ts["main"]) \in Nat
      /\ Head(tasks["main"]) = tasks["main"][1]
      /\ \A i \in 1..Len(ts["main"]) :
           i + 1 \in 1..Len(tasks["main"]) /\ ts["main"][i] = tasks["main"][i + 1]
  <2>1. ts = [tasks EXCEPT !["main"] = Tail(tasks["main"])] /\ "main" # "media"
    BY DEF Popped
  <2> HIDE DEF ts
  <2> QED
    BY <1>1, <2>1, Pop DEF Queues
<1>3. /\ tasks["main"][1].kind = "delete" /\ 1 \in 1..Len(tasks["main"])
  BY <1>1, <1>2
<1>4. life = "stopped"
  BY <1>1, <1>3 DEF LifeTasks
<1>5. \A i \in 1..Len(ts["main"]) : ts["main"][i].kind \notin LifeKinds
  <2> SUFFICES ASSUME NEW i \in 1..Len(ts["main"])
               PROVE  ts["main"][i].kind \notin LifeKinds
    OBVIOUS
  <2>1. /\ i + 1 \in 1..Len(tasks["main"])
        /\ ts["main"][i] = tasks["main"][i + 1]
        /\ i + 1 # 1
    BY <1>2
  <2>2. \A k \in 1..Len(tasks["main"]) :
          k # 1 => tasks["main"][k].kind \notin LifeKinds
    BY <1>1, <1>3 DEF LifeTasks, LifeKinds
  <2> HIDE DEF ts
  <2> QED
    BY <2>1, <2>2
<1>6. \A i \in 1..Len(ts["media"]) : ts["media"][i].kind \notin LifeKinds
  BY <1>1, <1>2, <1>4 DEF LifeTasks, LifeKinds
<1>7. tasks' = ts /\ life' = "deleted" /\ UNCHANGED pc
  BY DEF DeleteSelf
<1> HIDE DEF ts
<1>8. LifeTasks(tasks, life)'
  BY <1>5, <1>6, <1>7 DEF LifeTasks, LifeKinds
<1>9. TypeOK'
  BY <1>1, <1>2, <1>7
     DEF DeleteSelf, TypeOK, Queues, flagVars, playerVars, boundVars
<1> QED
  BY <1>1, <1>4, <1>7, <1>8, <1>9 DEF LifeInv

\* The demuxer, the player and the page only post work behind what is queued
LEMMA EnvironmentKeeps == ASSUME LifeInv, Environment PROVE LifeInv'
<1>1. /\ TypeOK /\ demuxer \in Demuxer /\ tasks \in Queues
      /\ LifeTasks(tasks, life)
      /\ "media" \in Threads /\ "main" \in Threads
  BY DEF LifeInv, TypeOK, Queues, Threads
<1>2. UNCHANGED <<wmp, latest, life, flagVars, readFired, pc, ready, seeks>>
  BY DEF Environment, DemuxerInitialized, DemuxerSought, DemuxerRead, PlayerSeek,
         PlayerSeekDone, PlayerAsyncDone, PlayerComplete, PlayerRead, boundVars,
         playerVars
<1>3. demuxer' \in Demuxer
  <2>1. \/ demuxer' = demuxer
        \/ demuxer' = [demuxer EXCEPT !.state = "initialized"]
        \/ demuxer' = [demuxer EXCEPT !.seekCb = "none"]
        \/ \E t \in Types : demuxer' = [demuxer EXCEPT !.reading[t] = FALSE]
    BY DEF Environment, DemuxerInitialized, DemuxerSought, DemuxerRead,
           PlayerSeek, PlayerSeekDone, PlayerAsyncDone, PlayerComplete, PlayerRead
  <2>2. /\ [demuxer EXCEPT !.state = "initialized"] \in Demuxer
        /\ [demuxer EXCEPT !.seekCb = "none"] \in Demuxer
        /\ \A t \in Types : [demuxer EXCEPT !.reading[t] = FALSE] \in Demuxer
    BY <1>1, TypesAssumption DEF Demuxer
  <2> QED
    BY <1>1, <2>1, <2>2
<1>4. readsSent' \in Nat /\ completes' \in Nat /\ gstSeeks' \in {0, 1}
  <2>1. /\ readsSent' = readsSent \/ readsSent' = readsSent + 1
        /\ completes' = completes \/ completes' = completes + 1
        /\ gstSeeks' = gstSeeks \/ gstSeeks' = 0 \/ gstSeeks' = 1
    BY DEF Environment, DemuxerInitialized, DemuxerSought, DemuxerRead,
           PlayerSeek, PlayerSeekDone, PlayerAsyncDone, PlayerComplete,
           PlayerRead, boundVars, playerVars
  <2> QED
    BY <1>1, <2>1 DEF TypeOK
<1>5. player' \in Seq(Times) /\ answers' \in Seq(Answer)
  <2>1. player \in Seq(Times) /\ answers \in Seq(Answer)
    BY <1>1 DEF TypeOK
  <2>2. /\ \/ player' = player
           \/ player # <<>> /\ player' = Tail(player)
        /\ \/ answers' = answers
           \/ answers # <<>> /\ answers' = Tail(answers)
    BY DEF Environment, DemuxerInitialized, DemuxerSought, DemuxerRead,
           PlayerSeek, PlayerSeekDone, PlayerAsyncDone, PlayerComplete,
           PlayerRead, boundVars, playerVars
  <2>3. player # <<>> => Tail(player) \in Seq(Times)
    BY <2>1
  <2>4. answers # <<>> => Tail(answers) \in Seq(Answer)
    BY <2>1
  <2> QED
    BY <2>1, <2>2, <2>3, <2>4
<1>6. tasks' \in Queues /\ Grew(tasks, tasks')
  <2>1. ASSUME NEW t \in Media, NEW s \in Statuses, NEW p \in Positions
        PROVE  /\ [TaskOf("initDone") EXCEPT !.status = s] \in Task
               /\ [TaskOf("initDone") EXCEPT !.status = s].kind \notin LifeKinds
               /\ [TaskOf("buffer") EXCEPT !.type = t, !.status = s] \in Task
               /\ [TaskOf("buffer") EXCEPT !.type = t, !.status = s].kind
                    \notin LifeKinds
               /\ [TaskOf("playerSeek") EXCEPT !.time = p] \in Task
               /\ [TaskOf("playerSeek") EXCEPT !.time = p].kind \notin LifeKinds
               /\ [TaskOf("read") EXCEPT !.type = t] \in Task
               /\ [TaskOf("read") EXCEPT !.type = t].kind \notin LifeKinds
    BY DEF TaskOf, Task, Kinds, Media, Statuses, Positions, LifeKinds
  <2>2. \A k \in {"seekTrue", "seekFalse", "timeChanged"} :
          TaskOf(k) \in Task /\ TaskOf(k).kind \notin LifeKinds
    BY DEF TaskOf, Task, Kinds, Media, Statuses, Positions, LifeKinds
  <2>3. "ok" \in Statuses /\ "error" \in Statuses /\ "endOfStream" \in Statuses
        /\ "audio" \in Media /\ Start \in Positions /\ Types \subseteq Media
    BY TypesAssumption DEF Statuses, Media, Positions
  <2>4. CASE DemuxerInitialized
    <3>1. PICK s \in Statuses : tasks' =
            Post(tasks, "media", [TaskOf("initDone") EXCEPT !.status = s])
      BY <2>3, <2>4 DEF DemuxerInitialized
    <3>2. /\ [TaskOf("initDone") EXCEPT !.status = s] \in Task
          /\ [TaskOf("initDone") EXCEPT !.status = s].kind \notin LifeKinds
      BY <2>1, <2>3, Zenon
    <3> QED
      BY <1>1, <3>1, <3>2, GrewPost
  <2>5. CASE DemuxerSought
    <3>1. demuxer.seekCb \in Threads
      BY <1>1, <2>5 DEF DemuxerSought, Demuxer
    <3> QED
      BY <1>1, <2>3, <2>5, <3>1, GrewPost, CallbackTask DEF DemuxerSought
  <2>6. CASE \E t \in Types : DemuxerRead(t)
    <3>1. PICK t \in Media, s \in Statuses : tasks' =
            Post(tasks, "media",
                 [TaskOf("buffer") EXCEPT !.type = t, !.status = s])
      BY <2>3, <2>6 DEF DemuxerRead
    <3>2. /\ [TaskOf("buffer") EXCEPT !.type = t, !.status = s] \in Task
          /\ [TaskOf("buffer") EXCEPT !.type = t, !.status = s].kind
               \notin LifeKinds
      BY <2>1, <2>3, Zenon
    <3> QED
      BY <1>1, <3>1, <3>2, GrewPost
  <2>7. CASE PlayerSeek
    <3>1. /\ tasks' = Post(tasks, "media",
                           [TaskOf("playerSeek") EXCEPT !.time = Head(player)])
          /\ Head(player) \in Times
      BY <1>1, <2>7 DEF PlayerSeek, TypeOK
    <3>2. Head(player) \in Positions
      BY <3>1 DEF Positions
    <3>3. /\ [TaskOf("playerSeek") EXCEPT !.time = Head(player)] \in Task
          /\ [TaskOf("playerSeek") EXCEPT !.time = Head(player)].kind
               \notin LifeKinds
      BY <2>1, <2>3, <3>2, Zenon
    <3> QED
      BY <1>1, <3>1, <3>3, GrewPost
  <2>8. CASE PlayerSeekDone \/ PlayerComplete
    <3>1. PICK k \in {"seekTrue", "timeChanged"} :
            tasks' = Post(tasks, "main", TaskOf(k))
      BY <2>8 DEF PlayerSeekDone, PlayerComplete
    <3> QED
      BY <1>1, <2>2, <3>1, GrewPost
  <2>9. CASE PlayerAsyncDone
    <3> DEFINE us == Post(tasks, "main", TaskOf("seekFalse"))
               vs == Post(us, "main", TaskOf("timeChanged"))
    <3>1. us \in Queues /\ Grew(tasks, us)
      BY <1>1, <2>2, GrewPost
    <3>2. tasks' = vs
      BY <2>9 DEF PlayerAsyncDone
    <3> HIDE DEF us
    <3>3. vs \in Queues /\ Grew(us, vs)
      BY <1>1, <2>2, <3>1, GrewPost
    <3> HIDE DEF vs
    <3> QED
      BY <1>1, <3>1, <3>2, <3>3, GrewTwice
  <2>10. CASE \E t \in Types : PlayerRead(t)
    <3>1. PICK t \in Media :
            tasks' = Post(tasks, "media", [TaskOf("read") EXCEPT !.type = t])
      BY <2>3, <2>10 DEF PlayerRead
    <3>2. /\ [TaskOf("read") EXCEPT !.type = t] \in Task
          /\ [TaskOf("read") EXCEPT !.type = t].kind \notin LifeKinds
      BY <2>1, <2>3, Zenon
    <3> QED
      BY <1>1, <3>1, <3>2, GrewPost
  <2> QED
    BY <2>4, <2>5, <2>6, <2>7, <2>8, <2>9, <2>10 DEF Environment
<1>7. TypeOK'
  BY <1>1, <1>2, <1>3, <1>4, <1>5, <1>6 DEF TypeOK, Queues, flagVars
<1> QED
  BY <1>1, <1>2, <1>6, <1>7, Quiet DEF LifeInv

LEMMA NextLife == LifeInv /\ [Next]_vars => LifeInv'
<1> SUFFICES ASSUME LifeInv, [Next]_vars PROVE LifeInv'
  OBVIOUS
<1>1. CASE UNCHANGED vars
  <2>1. TypeOK' /\ UNCHANGED <<life, pc>>
    BY <1>1 DEF LifeInv, TypeOK, vars
  <2>2. /\ tasks \in Queues /\ Grew(tasks, tasks') /\ LifeTasks(tasks, life)
    BY <1>1, GrewSame DEF LifeInv, TypeOK, Queues, vars
  <2> QED
    BY <2>1, <2>2, Quiet DEF LifeInv
<1>2. "main" \in Threads /\ "media" \in Threads
  BY DEF Threads
<1>3. CASE Main
  BY <1>2, <1>3, CancelPendingSeekKeeps, DeleteSelfKeeps, OnSeekStateChangeKeeps,
     OnDemuxerSeekDoneKeeps, SeekPendingKeeps, SeekEndKeeps DEF Main
<1>4. CASE MediaThread
  BY <1>2, <1>4, OnDemuxerSeekRequestKeeps, OnReadFromDemuxerKeeps,
     OnBufferReadyKeeps, DemuxerLifeKeeps, StopDemuxerKeepsLife,
     OnDemuxerSeekDoneKeeps, SeekPendingKeeps, SeekEndKeeps DEF MediaThread
<1>5. CASE Page
  BY <1>5, DestroyKeeps, SeekFirstKeeps, SeekAgainKeeps DEF Page
<1>6. CASE Environment
  BY <1>6, EnvironmentKeeps
<1> QED
  BY <1>1, <1>3, <1>4, <1>5, <1>6 DEF Next

\* The members of the element and the delegate, the tasks and the calls between
\* the two threads stay in their types whatever overlaps.
THEOREM DelegateTypes == Spec => []TypeOK
<1>1. LifeInv => TypeOK
  BY DEF LifeInv
<1> QED
  BY <1>1, InitLife, NextLife, PTL DEF Spec

\* The delegate is deleted last: no thread is inside it then, and no posted task
\* would still start, stop or delete it.
THEOREM DeletedIsLast == Spec => []DeletedLast
<1>1. LifeInv => DeletedLast
  <2> SUFFICES ASSUME LifeInv, life = "deleted",
                      NEW th \in Threads, NEW i \in DOMAIN tasks[th]
               PROVE  tasks[th][i].kind \notin {"initialize", "stop", "delete"}
                      /\ pc["main"] = "idle" /\ pc["media"] = "idle"
    BY DEF DeletedLast, LifeInv, Threads
  <2>1. i \in 1..Len(tasks[th])
    BY DEF LifeInv, TypeOK
  <2>2. th = "main" \/ th = "media"
    BY DEF Threads
  <2> QED
    BY <2>1, <2>2 DEF LifeInv, LifeTasks
<1> QED
  BY <1>1, InitLife, NextLife, PTL DEF Spec

(***************************************************************************)
(* Reading                                                                 *)
(***************************************************************************)
\* The answers of stream t in queue q: none, or exactly one.
Buffer(w, t) == w.kind = "buffer" /\ w.type = t

NoneDue(q, t) == \A i \in 1..Len(q) : ~Buffer(q[i], t)

OneDue(q, t) == \E i \in 1..Len(q) : \A j \in 1..Len(q) : Buffer(q[j], t) <=> j = i

\* With reading r of the demuxer and read-fired flag f, a stream either reads, or
\* has its one answer queued, or neither.
Booked(r, q, f, t) ==
  IF f THEN (r /\ NoneDue(q, t)) \/ (~r /\ OneDue(q, t))
  ELSE ~r /\ NoneDue(q, t)

Books(reads, ts, fired) ==
  \A t \in Media : Booked(reads[t], ts["media"], fired[t], t)

ReadInv ==
  life \in {"alive", "destroying"} => Books(demuxer.reading, tasks, readFired)

LEMMA DueAppended ==
  ASSUME NEW q \in Seq(Task), NEW w \in Task, NEW t \in Media
  PROVE  /\ ~Buffer(w, t) /\ NoneDue(q, t) => NoneDue(Append(q, w), t)
         /\ ~Buffer(w, t) /\ OneDue(q, t) => OneDue(Append(q, w), t)
         /\ Buffer(w, t) /\ NoneDue(q, t) => OneDue(Append(q, w), t)
<1> DEFINE r == Append(q, w)
<1>1. /\ Len(q) \in Nat /\ Len(r) = Len(q) + 1 /\ r[Len(q) + 1] = w
      /\ \A i \in 1..Len(q) : r[i] = q[i]
  OBVIOUS
<1> HIDE DEF r
<1>2. \A i \in 1..Len(r) : i \in 1..Len(q) \/ i = Len(q) + 1
  BY <1>1
<1>3. ~Buffer(w, t) /\ NoneDue(q, t) => NoneDue(r, t)
  BY <1>1, <1>2 DEF NoneDue
<1>4. ASSUME ~Buffer(w, t), OneDue(q, t) PROVE OneDue(r, t)
  <2>1. PICK i \in 1..Len(q) : \A j \in 1..Len(q) : Buffer(q[j], t) <=> j = i
    BY <1>4 DEF OneDue
  <2>2. i \in 1..Len(r) /\ i # Len(q) + 1
    BY <1>1
  <2>3. \A j \in 1..Len(r) : Buffer(r[j], t) <=> j = i
    BY <1>1, <1>2, <1>4, <2>1, <2>2
  <2> QED
    BY <2>2, <2>3 DEF OneDue
<1>5. ASSUME Buffer(w, t), NoneDue(q, t) PROVE OneDue(r, t)
  <2>1. Len(q) + 1 \in 1..Len(r) /\ Len(q) + 1 \notin 1..Len(q)
    BY <1>1
  <2>2. \A j \in 1..Len(r) : Buffer(r[j], t) <=> j = Len(q) + 1
    BY <1>1, <1>2, <1>5, <2>1 DEF NoneDue
  <2> QED
    BY <2>1, <2>2 DEF OneDue
<1> QED
  BY <1>3, <1>4, <1>5 DEF r

LEMMA DueServed ==
  ASSUME NEW q \in Seq(Task), q # <<>>, NEW t \in Media
  PROVE  /\ NoneDue(q, t) => NoneDue(Tail(q), t)
         /\ ~Buffer(Head(q), t) /\ OneDue(q, t) => OneDue(Tail(q), t)
         /\ Buffer(Head(q), t) /\ OneDue(q, t) => NoneDue(Tail(q), t)
<1> DEFINE r == Tail(q)
<1>1. /\ Len(q) \in Nat \ {0} /\ Len(r) = Len(q) - 1 /\ Head(q) = q[1]
      /\ \A i \in 1..Len(r) : i + 1 \in 1..Len(q) /\ r[i] = q[i + 1]
  OBVIOUS
<1> HIDE DEF r
<1>2. 1 \in 1..Len(q) /\ \A i \in 1..Len(r) : i \in Nat /\ i + 1 # 1
  BY <1>1
<1>3. NoneDue(q, t) => NoneDue(r, t)
  BY <1>1 DEF NoneDue
<1>4. ASSUME ~Buffer(Head(q), t), OneDue(q, t) PROVE OneDue(r, t)
  <2>1. PICK i \in 1..Len(q) : \A j \in 1..Len(q) : Buffer(q[j], t) <=> j = i
    BY <1>4 DEF OneDue
  <2>2. i # 1
    BY <1>1, <1>4, <2>1
  <2>3. i - 1 \in 1..Len(r) /\ i \in Nat
    BY <1>1, <2>1, <2>2
  <2>4. \A j \in 1..Len(r) : Buffer(r[j], t) <=> j + 1 = i
    BY <1>1, <2>1
  <2>5. \A j \in 1..Len(r) : Buffer(r[j], t) <=> j = i - 1
    BY <1>2, <2>3, <2>4
  <2> QED
    BY <2>3, <2>5 DEF OneDue
<1>5. ASSUME Buffer(Head(q), t), OneDue(q, t) PROVE NoneDue(r, t)
  <2>1. PICK i \in 1..Len(q) : \A j \in 1..Len(q) : Buffer(q[j], t) <=> j = i
    BY <1>5 DEF OneDue
  <2>2. i = 1
    BY <1>1, <1>2, <1>5, <2>1
  <2> QED
    BY <1>1, <1>2, <2>1, <2>2 DEF NoneDue
<1> QED
  BY <1>3, <1>4, <1>5 DEF r

\* Other work posted or served, and an answer posted for a read.
LEMMA BooksPosted ==
  ASSUME NEW ts \in Queues, NEW th \in Threads, NEW w \in Task,
         w.kind # "buffer", NEW reads, NEW fired, Books(reads, ts, fired)
  PROVE  Books(reads, Post(ts, th, w), fired)
<1> DEFINE us == Post(ts, th, w)
<1>1. us["media"] = IF th = "media" THEN Append(ts["media"], w) ELSE ts["media"]
  BY DEF Post, Queues, Threads
<1> HIDE DEF us
<1>2. ts["media"] \in Seq(Task)
  BY DEF Queues, Threads
<1> SUFFICES ASSUME NEW t \in Media
             PROVE  Booked(reads[t], us["media"], fired[t], t)
  BY DEF Books, us
<1>3. Booked(reads[t], ts["media"], fired[t], t) /\ ~Buffer(w, t)
  BY DEF Books, Buffer
<1> QED
  BY <1>1, <1>2, <1>3, DueAppended DEF Booked

LEMMA BooksServed ==
  ASSUME NEW ts \in Queues, NEW th \in Threads, ts[th] # <<>>,
         th = "media" => Head(ts[th]).kind # "buffer",
         NEW reads, NEW fired, Books(reads, ts, fired)
  PROVE  Books(reads, [ts EXCEPT ![th] = Tail(ts[th])], fired)
<1> DEFINE us == [ts EXCEPT ![th] = Tail(ts[th])]
<1>1. us["media"] = IF th = "media" THEN Tail(ts["media"]) ELSE ts["media"]
  BY DEF Queues, Threads
<1> HIDE DEF us
<1>2. ts["media"] \in Seq(Task)
  BY DEF Queues, Threads
<1> SUFFICES ASSUME NEW t \in Media
             PROVE  Booked(reads[t], us["media"], fired[t], t)
  BY DEF Books, us
<1>3. Booked(reads[t], ts["media"], fired[t], t)
  BY DEF Books
<1>4. th = "media" => ~Buffer(Head(ts["media"]), t)
  BY DEF Buffer
<1> QED
  BY <1>1, <1>2, <1>3, <1>4, DueServed DEF Booked

LEMMA BooksAnswered ==
  ASSUME NEW ts \in Queues, NEW u \in Media, NEW w \in Task, Buffer(w, u),
         NEW reads \in [Media -> BOOLEAN], NEW fired, reads[u],
         Books(reads, ts, fired)
  PROVE  Books([reads EXCEPT ![u] = FALSE], Post(ts, "media", w), fired)
<1> DEFINE us == Post(ts, "media", w)
           rs == [reads EXCEPT ![u] = FALSE]
<1>1. /\ us["media"] = Append(ts["media"], w) /\ rs[u] = FALSE
      /\ \A t \in Media : t # u => rs[t] = reads[t]
  BY DEF Post, Queues, Threads
<1> HIDE DEF us, rs
<1>2. ts["media"] \in Seq(Task)
  BY DEF Queues, Threads
<1> SUFFICES ASSUME NEW t \in Media
             PROVE  Booked(rs[t], us["media"], fired[t], t)
  BY DEF Books, us, rs
<1>3. Booked(reads[t], ts["media"], fired[t], t)
  BY DEF Books
<1>4. CASE t = u
  <2>1. fired[t] /\ NoneDue(ts["media"], t)
    BY <1>3, <1>4 DEF Booked
  <2> QED
    BY <1>1, <1>2, <1>4, <2>1, DueAppended DEF Booked
<1>5. CASE t # u
  <2>1. ~Buffer(w, t)
    BY <1>5 DEF Buffer
  <2> QED
    BY <1>1, <1>2, <1>3, <1>5, <2>1, DueAppended DEF Booked
<1> QED
  BY <1>4, <1>5

\* AnswerReads posts one answer for each stream that reads.
LEMMA AnswersPosted ==
  ASSUME NEW d, NEW ts \in Queues, NEW s \in Statuses
  PROVE  LET w(t) == [TaskOf("buffer") EXCEPT !.type = t, !.status = s]
             as == IF d.reading["audio"] THEN Post(ts, "media", w("audio")) ELSE ts
         IN  /\ as \in Queues
             /\ AnswerReads(d, ts, s) =
                  IF d.reading["video"] THEN Post(as, "media", w("video")) ELSE as
<1> DEFINE w(t) == [TaskOf("buffer") EXCEPT !.type = t, !.status = s]
           as == IF d.reading["audio"] THEN Post(ts, "media", w("audio")) ELSE ts
           us == IF d.reading["video"] THEN Post(as, "media", w("video")) ELSE as
           one(t) == IF d.reading[t] THEN <<w(t)>> ELSE <<>>
           q == ts["media"]
<1>1. \A t \in Media : w(t) \in Task
  BY DEF TaskOf, Task, Kinds, Media, Statuses, Positions
<1>2. q \in Seq(Task) /\ ts \in [Threads -> Seq(Task)] /\ "media" \in Threads
  BY DEF Queues, Threads
<1>3. AnswerReads(d, ts, s) = [ts EXCEPT !["media"] = q \o one("audio") \o one("video")]
  BY DEF AnswerReads
<1> HIDE DEF w
<1>4. as = [ts EXCEPT !["media"] = q \o one("audio")]
  <2>1. d.reading["audio"] => q \o one("audio") = Append(q, w("audio"))
    BY <1>1, <1>2 DEF Media
  <2>2. ~d.reading["audio"] => q \o one("audio") = q
    BY <1>2
  <2>3. ts = [ts EXCEPT !["media"] = q]
    BY <1>2
  <2> HIDE DEF q, one
  <2> QED
    BY <2>1, <2>2, <2>3 DEF Post, q
<1>5. q \o one("audio") \in Seq(Task)
  BY <1>1, <1>2 DEF Media
<1>6. as \in Queues /\ as["media"] = q \o one("audio")
  BY <1>2, <1>4, <1>5 DEF Queues
<1> DEFINE r == q \o one("audio")
<1>7. r \in Seq(Task) /\ as["media"] = r /\ as = [ts EXCEPT !["media"] = r]
  BY <1>4, <1>5, <1>6
<1> HIDE DEF as, q, r
<1>8. us = [ts EXCEPT !["media"] = r \o one("video")]
  <2>1. d.reading["video"] => r \o one("video") = Append(r, w("video"))
    BY <1>1, <1>7 DEF Media
  <2>2. ~d.reading["video"] => r \o one("video") = r
    BY <1>7
  <2> HIDE DEF one
  <2>3. \A x : [as EXCEPT !["media"] = x] = [ts EXCEPT !["media"] = x]
    BY <1>2, <1>7
  <2> QED
    BY <1>7, <2>1, <2>2, <2>3 DEF Post
<1> QED
  BY <1>3, <1>6, <1>8 DEF as, r, w

LEMMA BooksAllAnswered ==
  ASSUME NEW ts \in Queues, NEW d \in Demuxer, NEW s \in Statuses, NEW fired,
         Books(d.reading, ts, fired)
  PROVE  Books(NoReads, AnswerReads(d, ts, s), fired)
<1> DEFINE w(t) == [TaskOf("buffer") EXCEPT !.type = t, !.status = s]
           as == IF d.reading["audio"] THEN Post(ts, "media", w("audio")) ELSE ts
           us == IF d.reading["video"] THEN Post(as, "media", w("video")) ELSE as
           ra == [d.reading EXCEPT !["audio"] = FALSE]
<1>1. as \in Queues /\ AnswerReads(d, ts, s) = us
  BY AnswersPosted
<1>2. \A t \in Media : w(t) \in Task /\ Buffer(w(t), t)
  BY DEF TaskOf, Task, Kinds, Media, Statuses, Positions, Buffer
<1>3. d.reading \in [Media -> BOOLEAN] /\ "audio" \in Media /\ "video" \in Media
  BY DEF Demuxer, Media
<1> HIDE DEF w
<1>4. Books(ra, as, fired)
  <2>1. CASE d.reading["audio"]
    BY <1>2, <1>3, <2>1, BooksAnswered
  <2>2. CASE ~d.reading["audio"]
    <3>1. ra = d.reading
      BY <1>3, <2>2
    <3> QED
      BY <2>2, <3>1
  <2> QED
    BY <2>1, <2>2
<1>5. ra \in [Media -> BOOLEAN] /\ ra["video"] = d.reading["video"]
  BY <1>3 DEF Media
<1>6. NoReads = [ra EXCEPT !["video"] = FALSE]
  BY <1>3 DEF NoReads, Media
<1> HIDE DEF as, ra
<1>7. Books(NoReads, us, fired)
  <2>1. CASE d.reading["video"]
    BY <1>1, <1>2, <1>3, <1>4, <1>5, <1>6, <2>1, BooksAnswered
  <2>2. CASE ~d.reading["video"]
    <3>1. NoReads = ra
      BY <1>5, <1>6, <2>2
    <3> QED
      BY <1>4, <2>2, <3>1
  <2> QED
    BY <2>1, <2>2
<1> QED
  BY <1>1, <1>7

Working == life \in {"alive", "destroying"}

\* A seek of the demuxer posts at most one notification of its end.
LEMMA SeekCallPosts ==
  ASSUME NEW d, NEW ts, NEW th, NEW p, DemuxerSeek(d, ts, th, p)
  PROVE  \/ tasks' = ts
         \/ \E s \in Statuses : tasks' = Post(ts, th, SeekCallback(s))
BY DEF DemuxerSeek, Statuses

LEMMA CallbackIsNoBuffer ==
  ASSUME NEW s \in Statuses
  PROVE  SeekCallback(s) \in Task /\ SeekCallback(s).kind = "seekDone"
BY DEF SeekCallback, TaskOf, Task, Kinds, Media, Statuses, Positions

LEMMA BooksSought ==
  ASSUME NEW d \in Demuxer, NEW ts \in Queues, NEW th \in Threads, NEW p,
         NEW own, StartSeek(d, ts, th, p, own), NEW fired,
         Books(d.reading, ts, fired)
  PROVE  Books(demuxer'.reading, tasks', fired)
<1>1. \/ demuxer' = d /\ tasks' = ts
      \/ DemuxerSeek(d, ts, th, p)
  BY DEF StartSeek
<1>2. CASE DemuxerSeek(d, ts, th, p)
  <2>1. demuxer'.reading = d.reading
    BY <1>2 DEF DemuxerSeek, Demuxer
  <2>2. CASE tasks' = ts
    BY <2>1, <2>2
  <2>3. CASE \E s \in Statuses : tasks' = Post(ts, th, SeekCallback(s))
    <3>1. PICK s \in Statuses : tasks' = Post(ts, th, SeekCallback(s))
      BY <2>3
    <3>2. SeekCallback(s) \in Task /\ SeekCallback(s).kind # "buffer"
      BY CallbackIsNoBuffer
    <3> QED
      BY <2>1, <3>1, <3>2, BooksPosted
  <2> QED
    BY <1>2, <2>2, <2>3, SeekCallPosts
<1> QED
  BY <1>1, <1>2

LEMMA CancelBooks ==
  ASSUME TypeOK, Working, ReadInv, CancelPendingSeek PROVE ReadInv'
<1> DEFINE as == AnswerReads(demuxer, tasks, "aborted")
<1>1. /\ demuxer \in Demuxer /\ tasks \in Queues /\ "main" \in Threads
      /\ Books(demuxer.reading, tasks, readFired)
      /\ demuxer.seekCb \in Threads \cup {"none"}
  BY DEF TypeOK, Queues, Threads, ReadInv, Working, Demuxer
<1>2. Books(NoReads, as, readFired) /\ as \in Queues
  BY <1>1, BooksAllAnswered, GrewAnswers DEF Statuses
<1>3. /\ Waiting(demuxer, pending.time).reading = NoReads
      /\ Waiting(demuxer, pending.time) \in Demuxer
  BY <1>1, WaitingCall DEF TypeOK, Pending, Positions
<1>4. UNCHANGED <<life, readFired>>
  BY DEF CancelPendingSeek
<1>5. CASE seekDone
  <2>1. StartSeek(Waiting(demuxer, pending.time), as, "main", pending.time, TRUE)
    BY <1>5 DEF CancelPendingSeek
  <2> HIDE DEF as
  <2>2. Books(demuxer'.reading, tasks', readFired)
    BY <1>1, <1>2, <1>3, <2>1, BooksSought
  <2> QED
    BY <1>4, <2>2 DEF ReadInv
<1>6. CASE ~seekDone
  <2>1. DemuxerCancel(demuxer, tasks, pending.time)
    BY <1>6 DEF CancelPendingSeek
  <2>2. CASE demuxer.cancelNext
    BY <1>1, <1>4, <2>1, <2>2 DEF DemuxerCancel, ReadInv
  <2>3. CASE ~demuxer.cancelNext
    <3>1. /\ demuxer'.reading = NoReads
          /\ tasks' = IF demuxer.seekCb = "none" THEN as
                      ELSE Post(as, demuxer.seekCb, SeekCallback("ok"))
      BY <1>1, <2>1, <2>3 DEF DemuxerCancel, Demuxer
    <3>2. SeekCallback("ok") \in Task /\ SeekCallback("ok").kind # "buffer"
      BY CallbackIsNoBuffer DEF Statuses
    <3> HIDE DEF as
    <3>3. demuxer.seekCb # "none" =>
            Books(NoReads, Post(as, demuxer.seekCb, SeekCallback("ok")), readFired)
      BY <1>1, <1>2, <3>2, BooksPosted
    <3>4. Books(NoReads, tasks', readFired)
      BY <1>2, <3>1, <3>3
    <3> QED
      BY <1>4, <3>1, <3>4 DEF ReadInv
  <2> QED
    BY <2>2, <2>3
<1> QED
  BY <1>5, <1>6

LEMMA DestroyBooks == ASSUME TypeOK, ReadInv, Destroy PROVE ReadInv'
<1> DEFINE as == AnswerReads(demuxer, tasks, "endOfStream")
           ended == IF demuxer.seekCb = "none" THEN as
                    ELSE Post(as, demuxer.seekCb, SeekCallback("error"))
<1>1. /\ demuxer \in Demuxer /\ tasks \in Queues /\ "media" \in Threads
      /\ demuxer.seekCb \in Threads \cup {"none"} /\ life = "alive"
  BY DEF TypeOK, Queues, Threads, Demuxer, Destroy
<1>2. Books(demuxer.reading, tasks, readFired)
  BY <1>1 DEF ReadInv
<1>3. Books(NoReads, as, readFired) /\ as \in Queues
  BY <1>1, <1>2, BooksAllAnswered, GrewAnswers DEF Statuses
<1>4. SeekCallback("error") \in Task /\ SeekCallback("error").kind # "buffer"
      /\ SeekCallback("error").kind \notin LifeKinds
  BY CallbackIsNoBuffer DEF Statuses, LifeKinds
<1>5. tasks' = Post(ended, "media", TaskOf("stop"))
  BY DEF Destroy
<1> HIDE DEF as
<1>6. Books(NoReads, ended, readFired) /\ ended \in Queues
  <2>1. CASE demuxer.seekCb = "none"
    BY <1>3, <2>1
  <2>2. CASE demuxer.seekCb # "none"
    <3>1. demuxer.seekCb \in Threads
      BY <1>1, <2>2
    <3> QED
      BY <1>3, <1>4, <2>2, <3>1, BooksPosted, GrewPost
  <2> QED
    BY <2>1, <2>2
<1>7. TaskOf("stop") \in Task /\ TaskOf("stop").kind # "buffer"
  BY DEF TaskOf, Task, Kinds, Media, Statuses, Positions
<1> HIDE DEF ended
<1>8. Books(NoReads, tasks', readFired)
  BY <1>1, <1>5, <1>6, <1>7, BooksPosted
<1>9. demuxer'.reading = NoReads /\ readFired' = readFired
  BY <1>1 DEF Destroy, Demuxer
<1> QED
  BY <1>8, <1>9 DEF ReadInv

LEMMA ReadBooks == ASSUME TypeOK, Working, ReadInv, OnReadFromDemuxer PROVE ReadInv'
<1> DEFINE ts == Popped("media")
           t == Head(tasks["media"]).type
<1>1. /\ demuxer \in Demuxer /\ tasks \in Queues /\ "media" \in Threads
      /\ Books(demuxer.reading, tasks, readFired)
      /\ tasks["media"] # <<>> /\ Head(tasks["media"]).kind = "read"
      /\ readFired \in [Media -> BOOLEAN]
      /\ demuxer.reading \in [Media -> BOOLEAN]
  BY DEF TypeOK, Queues, Threads, ReadInv, Working, OnReadFromDemuxer, Runs,
         Demuxer
<1>2. ts = [tasks EXCEPT !["media"] = Tail(tasks["media"])]
  BY DEF Popped
<1>3. ts \in Queues /\ Head(tasks["media"]) \in Task
  BY <1>1, <1>2, Pop
<1>4. t \in Media
  BY <1>3 DEF Task
<1>5. Books(demuxer.reading, ts, readFired)
  BY <1>1, <1>2, BooksServed
<1>6. life' = life
  BY DEF OnReadFromDemuxer
<1>7. CASE tasks' = ts /\ UNCHANGED <<readFired, demuxer>>
  BY <1>5, <1>7 DEF ReadInv
<1>8. ASSUME ~readFired[t], readFired' = [readFired EXCEPT ![t] = TRUE],
             demuxer' = [demuxer EXCEPT !.reading[t] = TRUE], tasks' = ts
      PROVE  ReadInv'
  <2>1. demuxer'.reading = [demuxer.reading EXCEPT ![t] = TRUE]
    BY <1>1, <1>8 DEF Demuxer
  <2> HIDE DEF ts, t
  <2>2. ASSUME NEW u \in Media
        PROVE  Booked(demuxer'.reading[u], ts["media"], readFired'[u], u)
    <3>1. Booked(demuxer.reading[u], ts["media"], readFired[u], u)
      BY <1>5 DEF Books
    <3>2. CASE u = t
      BY <1>1, <1>4, <1>8, <2>1, <3>1, <3>2 DEF Booked
    <3>3. CASE u # t
      BY <1>1, <1>4, <1>8, <2>1, <3>1, <3>3
    <3> QED
      BY <3>2, <3>3
  <2>3. Books(demuxer'.reading, tasks', readFired')
    BY <1>8, <2>2 DEF Books
  <2> QED
    BY <2>3 DEF ReadInv
<1>9. ASSUME ~readFired[t], readFired' = [readFired EXCEPT ![t] = TRUE],
             demuxer' = demuxer, NEW w \in Task, Buffer(w, t),
             tasks' = Post(ts, "media", w)
      PROVE  ReadInv'
  <2>1. tasks'["media"] = Append(ts["media"], w) /\ ts["media"] \in Seq(Task)
    BY <1>1, <1>3, <1>9 DEF Post, Queues
  <2> HIDE DEF ts, t
  <2>2. ASSUME NEW u \in Media
        PROVE  Booked(demuxer.reading[u], tasks'["media"], readFired'[u], u)
    <3>1. Booked(demuxer.reading[u], ts["media"], readFired[u], u)
      BY <1>5 DEF Books
    <3>2. CASE u = t
      BY <1>1, <1>4, <1>9, <2>1, <3>1, <3>2, DueAppended DEF Booked
    <3>3. CASE u # t
      <4>1. ~Buffer(w, u) /\ readFired'[u] = readFired[u]
        BY <1>1, <1>4, <1>9, <3>3 DEF Buffer
      <4> QED
        BY <2>1, <3>1, <4>1, DueAppended DEF Booked
    <3> QED
      BY <3>2, <3>3
  <2>3. Books(demuxer.reading, tasks', readFired')
    BY <2>2 DEF Books
  <2>4. Books(demuxer'.reading, tasks', readFired')
    BY <1>9, <2>3
  <2> QED
    BY <2>4 DEF ReadInv
<1>10. \A s \in Statuses :
         LET w == [TaskOf("buffer") EXCEPT !.type = t, !.status = s]
         IN  w \in Task /\ Buffer(w, t)
  BY <1>4 DEF TaskOf, Task, Kinds, Media, Statuses, Positions, Buffer
<1>11. \/ tasks' = ts /\ UNCHANGED <<readFired, demuxer>>
       \/ /\ ~readFired[t] /\ readFired' = [readFired EXCEPT ![t] = TRUE]
          /\ \/ demuxer' = [demuxer EXCEPT !.reading[t] = TRUE] /\ tasks' = ts
             \/ /\ demuxer' = demuxer
                /\ \E s \in Statuses : tasks' = Post(ts, "media",
                     [TaskOf("buffer") EXCEPT !.type = t, !.status = s])
  BY DEF OnReadFromDemuxer, MayRead, Statuses
<1> HIDE DEF ts, t
<1> QED
  BY <1>7, <1>8, <1>9, <1>10, <1>11

LEMMA BufferBooks == ASSUME TypeOK, Working, ReadInv, OnBufferReady PROVE ReadInv'
<1> DEFINE t == Head(tasks["media"]).type
           q == tasks["media"]
<1>1. /\ tasks \in Queues /\ Books(demuxer.reading, tasks, readFired)
      /\ q \in Seq(Task) /\ q # <<>> /\ Head(q).kind = "buffer"
      /\ readFired \in [Media -> BOOLEAN]
  BY DEF TypeOK, Queues, Threads, ReadInv, Working, OnBufferReady, Runs
<1>2. /\ tasks'["media"] = Tail(q) /\ demuxer' = demuxer
      /\ readFired' = [readFired EXCEPT ![t] = FALSE]
  BY <1>1 DEF OnBufferReady, Popped, Working, Queues, Threads
<1>3. Head(q) \in Task /\ t = Head(q).type
  BY <1>1
<1> HIDE DEF q, t
<1>4. t \in Media
  BY <1>3 DEF Task
<1>5. ASSUME NEW u \in Media
      PROVE  Booked(demuxer.reading[u], tasks'["media"], readFired'[u], u)
  <2>1. Booked(demuxer.reading[u], q, readFired[u], u)
    BY <1>1 DEF Books, q
  <2>2. CASE u = t
    <3>1. Buffer(Head(q), u)
      BY <1>1, <1>3, <2>2 DEF Buffer
    <3>2. ~NoneDue(q, u)
      <4>1. 1 \in 1..Len(q) /\ Head(q) = q[1]
        BY <1>1
      <4> QED
        BY <3>1, <4>1 DEF NoneDue
    <3>3. ~demuxer.reading[u] /\ OneDue(q, u)
      BY <2>1, <3>2 DEF Booked
    <3> QED
      BY <1>1, <1>2, <1>4, <2>2, <3>1, <3>3, DueServed DEF Booked
  <2>3. CASE u # t
    <3>1. ~Buffer(Head(q), u) /\ readFired'[u] = readFired[u]
      BY <1>1, <1>2, <1>3, <1>4, <2>3 DEF Buffer
    <3> QED
      BY <1>1, <1>2, <2>1, <3>1, DueServed DEF Booked
  <2> QED
    BY <2>2, <2>3
<1>6. Books(demuxer.reading, tasks', readFired')
  BY <1>5 DEF Books
<1>7. Books(demuxer'.reading, tasks', readFired')
  BY <1>2, <1>6
<1> QED
  BY <1>7 DEF ReadInv

LEMMA SeekBooks ==
  ASSUME TypeOK, Working, ReadInv,
         OnDemuxerSeekRequest \/ \E th \in Threads : SeekPending(th)
  PROVE  ReadInv'
<1>1. /\ demuxer \in Demuxer /\ tasks \in Queues /\ "media" \in Threads
      /\ Books(demuxer.reading, tasks, readFired)
  BY DEF TypeOK, Queues, Threads, ReadInv, Working
<1>2. CASE OnDemuxerSeekRequest
  <2>1. tasks["media"] # <<>> /\ Head(tasks["media"]).kind # "buffer"
    BY <1>2 DEF OnDemuxerSeekRequest, Runs
  <2>2. Popped("media") = [tasks EXCEPT !["media"] = Tail(tasks["media"])]
    BY DEF Popped
  <2>3. Popped("media") \in Queues /\ Books(demuxer.reading, Popped("media"), readFired)
    BY <1>1, <2>1, <2>2, BooksServed, Pop
  <2>4. /\ UNCHANGED <<life, readFired>>
        /\ \/ tasks' = Popped("media") /\ UNCHANGED demuxer
           \/ StartSeek(demuxer, Popped("media"), "media",
                        Head(tasks["media"]).time, FALSE)
    BY <1>2 DEF OnDemuxerSeekRequest
  <2>5. Books(demuxer'.reading, tasks', readFired)
    BY <1>1, <2>3, <2>4, BooksSought
  <2> QED
    BY <2>4, <2>5 DEF ReadInv
<1>3. CASE \E th \in Threads : SeekPending(th)
  <2>1. PICK th \in Threads : SeekPending(th)
    BY <1>3
  <2>2. UNCHANGED <<life, readFired>> /\ StartSeek(demuxer, tasks, th, pending.time, TRUE)
    BY <2>1 DEF SeekPending
  <2>3. Books(demuxer'.reading, tasks', readFired)
    BY <1>1, <2>2, BooksSought
  <2> QED
    BY <2>2, <2>3 DEF ReadInv
<1> QED
  BY <1>2, <1>3

LEMMA SeekFirstBooks ==
  ASSUME TypeOK, Working, ReadInv, NEW t \in Times, SeekFirst(t) PROVE ReadInv'
<1>1. /\ demuxer \in Demuxer /\ tasks \in Queues
      /\ Books(demuxer.reading, tasks, readFired)
  BY DEF TypeOK, Queues, Threads, ReadInv, Working
<1>2. Books(NoReads, AnswerReads(demuxer, tasks, "aborted"), readFired)
  BY <1>1, BooksAllAnswered DEF Statuses
<1>3. /\ tasks' = AnswerReads(demuxer, tasks, "aborted") /\ readFired' = readFired
      /\ demuxer' = Waiting(demuxer, t)
  BY DEF SeekFirst
<1>4. demuxer'.reading = NoReads
  BY <1>1, <1>3 DEF Waiting, Demuxer
<1> QED
  BY <1>2, <1>3, <1>4 DEF ReadInv

\* Handlers that serve other work and read nothing.
LEMMA ServedBooks ==
  ASSUME TypeOK, Working, ReadInv, NEW th \in Threads, tasks[th] # <<>>,
         Head(tasks[th]).kind # "buffer", tasks' = Popped(th),
         demuxer'.reading = demuxer.reading, UNCHANGED readFired
  PROVE  ReadInv'
<1>1. tasks \in Queues /\ Books(demuxer.reading, tasks, readFired)
  BY DEF TypeOK, Queues, ReadInv, Working
<1>2. Popped(th) = [tasks EXCEPT ![th] = Tail(tasks[th])]
  BY DEF Popped
<1>3. Books(demuxer.reading, Popped(th), readFired)
  BY <1>1, <1>2, BooksServed
<1> QED
  BY <1>3 DEF ReadInv

LEMMA ThreadBooks ==
  ASSUME TypeOK, Working, ReadInv, Main \/ MediaThread PROVE ReadInv'
<1>1. "main" \in Threads /\ "media" \in Threads /\ demuxer \in Demuxer
      /\ tasks \in Queues /\ Books(demuxer.reading, tasks, readFired)
  BY DEF TypeOK, Threads, Queues, ReadInv, Working
<1>2. ASSUME NEW th \in Threads, OnDemuxerSeekDone(th) PROVE ReadInv'
  BY <1>2, ServedBooks DEF OnDemuxerSeekDone, Runs
<1>3. ASSUME NEW th \in Threads, AllowReads(th) \/ AnswerSeek(th) PROVE ReadInv'
  BY <1>3 DEF AllowReads, AnswerSeek, ReadInv
<1>4. CASE OnSeekStateChange
  <2>1. tasks["main"] # <<>> /\ Head(tasks["main"]).kind # "buffer"
        /\ tasks' = Popped("main") /\ UNCHANGED <<demuxer, readFired>>
    BY <1>4 DEF OnSeekStateChange, Runs
  <2> QED
    BY <1>1, <2>1, ServedBooks
<1>5. CASE OnDemuxerInitDone
  BY <1>1, <1>5, ServedBooks DEF OnDemuxerInitDone, Runs
<1>6. CASE InitializeDemuxer
  <2>1. tasks["media"] # <<>> /\ Head(tasks["media"]).kind # "buffer"
        /\ UNCHANGED <<readFired, life>> /\ demuxer'.reading = demuxer.reading
    BY <1>1, <1>6 DEF InitializeDemuxer, Runs, Demuxer
  <2>2. CASE tasks' = Popped("media")
    BY <1>1, <2>1, <2>2, ServedBooks
  <2>3. CASE tasks' = Post(Popped("media"), "media",
                           [TaskOf("initDone") EXCEPT !.status = "error"])
    <3>1. /\ [TaskOf("initDone") EXCEPT !.status = "error"] \in Task
          /\ [TaskOf("initDone") EXCEPT !.status = "error"].kind # "buffer"
      BY DEF TaskOf, Task, Kinds, Media, Statuses, Positions
    <3>2. Popped("media") = [tasks EXCEPT !["media"] = Tail(tasks["media"])]
      BY DEF Popped
    <3>3. Popped("media") \in Queues
          /\ Books(demuxer.reading, Popped("media"), readFired)
      BY <1>1, <2>1, <3>2, BooksServed, Pop
    <3>4. Books(demuxer.reading, tasks', readFired)
      BY <1>1, <2>3, <3>1, <3>3, BooksPosted
    <3> QED
      BY <2>1, <3>4 DEF ReadInv
  <2> QED
    BY <1>6, <2>2, <2>3 DEF InitializeDemuxer
<1>7. CASE StopDemuxer \/ DeleteSelf
  BY <1>7 DEF StopDemuxer, DeleteSelf, ReadInv
<1>8. CASE \E th \in Threads : SeekPending(th)
  BY <1>8, SeekBooks
<1> QED
  BY <1>1, <1>2, <1>3, <1>4, <1>5, <1>6, <1>7, <1>8, SeekBooks, CancelBooks,
     ReadBooks, BufferBooks DEF Main, MediaThread

LEMMA EnvironmentBooks ==
  ASSUME TypeOK, Working, ReadInv, Environment PROVE ReadInv'
<1>1. /\ "main" \in Threads /\ "media" \in Threads /\ demuxer \in Demuxer
      /\ tasks \in Queues /\ Books(demuxer.reading, tasks, readFired)
      /\ demuxer.reading \in [Media -> BOOLEAN]
  BY DEF TypeOK, Threads, Queues, ReadInv, Working, Demuxer
<1>2. UNCHANGED <<life, readFired>>
  BY DEF Environment, DemuxerInitialized, DemuxerSought, DemuxerRead, PlayerSeek,
         PlayerSeekDone, PlayerAsyncDone, PlayerComplete, PlayerRead
<1>3. ASSUME NEW th \in Threads, NEW w \in Task, w.kind # "buffer",
             tasks' = Post(tasks, th, w), demuxer'.reading = demuxer.reading
      PROVE  ReadInv'
  <2>1. Books(demuxer.reading, tasks', readFired)
    BY <1>1, <1>3, BooksPosted
  <2> QED
    BY <1>2, <1>3, <2>1 DEF ReadInv
<1>4. ASSUME NEW k \in Kinds \ {"buffer"}, NEW t \in Media, NEW s \in Statuses,
             NEW p \in Positions
      PROVE  /\ TaskOf(k) \in Task /\ TaskOf(k).kind # "buffer"
             /\ [TaskOf(k) EXCEPT !.status = s] \in Task
             /\ [TaskOf(k) EXCEPT !.status = s].kind # "buffer"
             /\ [TaskOf(k) EXCEPT !.type = t] \in Task
             /\ [TaskOf(k) EXCEPT !.type = t].kind # "buffer"
             /\ [TaskOf(k) EXCEPT !.time = p] \in Task
             /\ [TaskOf(k) EXCEPT !.time = p].kind # "buffer"
  BY DEF TaskOf, Task, Media, Statuses, Positions
<1>5. /\ "ok" \in Statuses /\ "error" \in Statuses /\ "endOfStream" \in Statuses
      /\ "audio" \in Media /\ Start \in Positions
      /\ {"initDone", "seekDone", "playerSeek", "seekTrue", "seekFalse",
          "timeChanged", "read"} \subseteq Kinds \ {"buffer"}
      /\ Types \subseteq Media
  BY TypesAssumption DEF Statuses, Media, Positions, Kinds
<1>6. CASE DemuxerInitialized
  <2>1. PICK s \in Statuses :
          tasks' = Post(tasks, "media", [TaskOf("initDone") EXCEPT !.status = s])
    BY <1>5, <1>6 DEF DemuxerInitialized
  <2>2. /\ [TaskOf("initDone") EXCEPT !.status = s] \in Task
        /\ [TaskOf("initDone") EXCEPT !.status = s].kind # "buffer"
    BY <1>4, <1>5, Zenon
  <2>3. demuxer'.reading = demuxer.reading
    BY <1>1, <1>6 DEF DemuxerInitialized, Demuxer
  <2> QED
    BY <1>1, <1>3, <2>1, <2>2, <2>3
<1>7. CASE DemuxerSought
  <2>1. demuxer.seekCb \in Threads /\ demuxer'.reading = demuxer.reading
        /\ tasks' = Post(tasks, demuxer.seekCb, SeekCallback("ok"))
    BY <1>1, <1>7 DEF DemuxerSought, Demuxer
  <2>2. SeekCallback("ok") \in Task /\ SeekCallback("ok").kind # "buffer"
    BY <1>5, CallbackIsNoBuffer
  <2> QED
    BY <1>3, <2>1, <2>2
<1>8. CASE \E t \in Types : DemuxerRead(t)
  <2>1. PICK t \in Types : DemuxerRead(t)
    BY <1>8
  <2>2. PICK s \in Statuses : tasks' =
          Post(tasks, "media", [TaskOf("buffer") EXCEPT !.type = t, !.status = s])
    BY <1>5, <2>1 DEF DemuxerRead
  <2> DEFINE w == [TaskOf("buffer") EXCEPT !.type = t, !.status = s]
  <2>3. t \in Media
    BY <1>5
  <2>4. w \in Task /\ Buffer(w, t) /\ tasks' = Post(tasks, "media", w)
    BY <2>2, <2>3 DEF TaskOf, Task, Kinds, Media, Statuses, Positions, Buffer
  <2> HIDE DEF w
  <2>5. /\ demuxer.reading[t]
        /\ demuxer'.reading = [demuxer.reading EXCEPT ![t] = FALSE]
    BY <1>1, <2>1 DEF DemuxerRead, Demuxer
  <2>6. Books([demuxer.reading EXCEPT ![t] = FALSE], Post(tasks, "media", w), readFired)
    BY <1>1, <2>3, <2>4, <2>5, BooksAnswered
  <2> QED
    BY <1>2, <2>4, <2>5, <2>6 DEF ReadInv
<1>9. CASE PlayerSeek
  <2>1. /\ tasks' = Post(tasks, "media",
                         [TaskOf("playerSeek") EXCEPT !.time = Head(player)])
        /\ Head(player) \in Times /\ demuxer' = demuxer
    BY <1>9 DEF PlayerSeek, TypeOK
  <2>2. Head(player) \in Positions
    BY <2>1 DEF Positions
  <2>3. /\ [TaskOf("playerSeek") EXCEPT !.time = Head(player)] \in Task
        /\ [TaskOf("playerSeek") EXCEPT !.time = Head(player)].kind # "buffer"
    BY <1>4, <1>5, <2>2, Zenon
  <2> QED
    BY <1>1, <1>3, <2>1, <2>3
<1>10. CASE PlayerSeekDone \/ PlayerComplete
  <2>1. PICK k \in {"seekTrue", "timeChanged"} :
          tasks' = Post(tasks, "main", TaskOf(k)) /\ demuxer' = demuxer
    BY <1>10 DEF PlayerSeekDone, PlayerComplete
  <2>2. TaskOf(k) \in Task /\ TaskOf(k).kind # "buffer"
    BY <1>4, <1>5, Zenon
  <2> QED
    BY <1>1, <1>3, <2>1, <2>2
<1>11. CASE PlayerAsyncDone
  <2> DEFINE us == Post(tasks, "main", TaskOf("seekFalse"))
  <2>1. /\ TaskOf("seekFalse") \in Task /\ TaskOf("seekFalse").kind # "buffer"
        /\ TaskOf("timeChanged") \in Task /\ TaskOf("timeChanged").kind # "buffer"
        /\ TaskOf("seekFalse").kind \notin LifeKinds
    BY DEF TaskOf, Task, Kinds, Media, Statuses, Positions, LifeKinds
  <2>2. us \in Queues /\ Books(demuxer.reading, us, readFired)
    BY <1>1, <2>1, BooksPosted, GrewPost
  <2>3. tasks' = Post(us, "main", TaskOf("timeChanged")) /\ demuxer' = demuxer
    BY <1>11 DEF PlayerAsyncDone
  <2> HIDE DEF us
  <2>4. Books(demuxer.reading, tasks', readFired)
    BY <1>1, <2>1, <2>2, <2>3, BooksPosted
  <2> QED
    BY <1>2, <2>3, <2>4 DEF ReadInv
<1>12. CASE \E t \in Types : PlayerRead(t)
  <2>1. PICK t \in Media :
          tasks' = Post(tasks, "media", [TaskOf("read") EXCEPT !.type = t])
          /\ demuxer' = demuxer
    BY <1>5, <1>12 DEF PlayerRead
  <2>2. /\ [TaskOf("read") EXCEPT !.type = t] \in Task
        /\ [TaskOf("read") EXCEPT !.type = t].kind # "buffer"
    BY <1>4, <1>5, Zenon
  <2> QED
    BY <1>1, <1>3, <2>1, <2>2
<1> QED
  BY <1>6, <1>7, <1>8, <1>9, <1>10, <1>11, <1>12 DEF Environment

LEMMA NextBooks == TypeOK /\ ReadInv /\ [Next]_vars => ReadInv'
<1> SUFFICES ASSUME TypeOK, ReadInv, [Next]_vars PROVE ReadInv'
  OBVIOUS
<1>1. CASE UNCHANGED vars
  BY <1>1 DEF vars, ReadInv
<1>2. CASE ~Working
  <2>1. Main => life' = life \/ life' = "deleted"
    BY DEF Main, CancelPendingSeek, DeleteSelf, OnSeekStateChange,
           OnDemuxerSeekDone, SeekPending, AllowReads, AnswerSeek
  <2>2. MediaThread => life' = life \/ life' = "stopped"
    BY DEF MediaThread, OnDemuxerSeekRequest, OnReadFromDemuxer, OnBufferReady,
           InitializeDemuxer, OnDemuxerInitDone, StopDemuxer, OnDemuxerSeekDone,
           SeekPending, AllowReads, AnswerSeek
  <2>3. Page => life = "alive"
    BY DEF Page, Destroy, SeekFirst, SeekAgain
  <2>4. Environment => life' = life
    BY DEF Environment, DemuxerInitialized, DemuxerSought, DemuxerRead,
           PlayerSeek, PlayerSeekDone, PlayerAsyncDone, PlayerComplete, PlayerRead
  <2>5. life' = life \/ life' = "deleted" \/ life' = "stopped"
    BY <1>2, <2>1, <2>2, <2>3, <2>4 DEF Next, Working, vars
  <2> QED
    BY <1>2, <2>5 DEF Working, ReadInv
<1>3. CASE Working /\ Next
  <2>1. CASE Destroy
    BY <2>1, DestroyBooks
  <2>2. ASSUME NEW t \in Times, SeekAgain(t) PROVE ReadInv'
    BY <2>2 DEF SeekAgain, ReadInv
  <2>3. CASE Page
    BY <1>3, <2>1, <2>2, <2>3, SeekFirstBooks DEF Page
  <2> QED
    BY <1>3, <2>3, ThreadBooks, EnvironmentBooks DEF Next
<1> QED
  BY <1>1, <1>2, <1>3

\* Until it is stopped, the delegate has asked the demuxer for at most one sample
\* of each stream and not yet been given it, and its flag says so.
THEOREM ReadsOnce == Spec => []OneRead
<1>1. Init => ReadInv
  <2> SUFFICES ASSUME Init PROVE Books(demuxer.reading, tasks, readFired)
    BY DEF ReadInv
  <2>1. /\ \A t \in Media : ~demuxer.reading[t] /\ ~readFired[t]
        /\ tasks["media"] = <<TaskOf("initialize")>>
    BY DEF Init, NoReads
  <2>2. \A t \in Media : NoneDue(tasks["media"], t)
    BY <2>1 DEF NoneDue, Buffer, TaskOf
  <2> QED
    BY <2>1, <2>2 DEF Books, Booked
<1>2. LifeInv => TypeOK
  BY DEF LifeInv
<1>3. TypeOK /\ ReadInv => OneRead
  <2> SUFFICES ASSUME TypeOK, Books(demuxer.reading, tasks, readFired), NEW t \in Types
               PROVE  Outstanding(t) = IF readFired[t] THEN 1 ELSE 0
    BY DEF OneRead, ReadInv
  <2> DEFINE S == {i \in DOMAIN tasks["media"] :
                     /\ tasks["media"][i].kind = "buffer"
                     /\ tasks["media"][i].type = t}
  <2>1. Booked(demuxer.reading[t], tasks["media"], readFired[t], t)
    BY TypesAssumption DEF Books
  <2>2. DOMAIN tasks["media"] = 1..Len(tasks["media"])
    <3>1. tasks["media"] \in Seq(Task)
      BY DEF TypeOK, Threads
    <3> QED
      BY <3>1
  <2>3. NoneDue(tasks["media"], t) => Cardinality(S) = 0
    <3>1. NoneDue(tasks["media"], t) => S = {}
      BY <2>2 DEF NoneDue, Buffer
    <3> QED
      BY <3>1, FS_EmptySet
  <2>4. OneDue(tasks["media"], t) => Cardinality(S) = 1
    <3> SUFFICES ASSUME OneDue(tasks["media"], t) PROVE Cardinality(S) = 1
      OBVIOUS
    <3>1. PICK i \in 1..Len(tasks["media"]) : \A j \in 1..Len(tasks["media"]) :
            Buffer(tasks["media"][j], t) <=> j = i
      BY DEF OneDue
    <3>2. S = {i}
      BY <2>2, <3>1 DEF Buffer
    <3> QED
      BY <3>2, FS_Singleton
  <2>5. Outstanding(t) = (IF demuxer.reading[t] THEN 1 ELSE 0) + Cardinality(S)
    BY DEF Outstanding
  <2> HIDE DEF S
  <2> QED
    BY <2>1, <2>3, <2>4, <2>5 DEF Booked
<1> QED
  BY <1>1, <1>2, <1>3, InitLife, NextLife, NextBooks, PTL DEF Spec

(***************************************************************************)
(* Seeks that the element makes one after the other                        *)
(***************************************************************************)
\* The seekDone tasks of queue q report success; p is the position of its last
\* playerSeek task.
OkEnds(q) == \A i \in 1..Len(q) : q[i].kind = "seekDone" => q[i].status = "ok"

LastSeek(q, p) ==
  \E i \in 1..Len(q) :
    /\ q[i].kind = "playerSeek" /\ q[i].time = p
    /\ \A j \in 1..Len(q) : i < j => q[j].kind # "playerSeek"

\* Until the delegate is destroyed, the demuxer is past its initialization when a
\* seek reaches it.
Up ==
  life = "alive" =>
    /\ demuxer.state \in {"new", "initializing", "initialized"}
    /\ Holds(tasks["media"], "initialize") => demuxer.state = "new"
    /\ \/ ready \/ player # <<>>
       \/ Holds(tasks["media"], "initDone") \/ Holds(tasks["media"], "playerSeek")
       => demuxer.state = "initialized"

\* The page never sought while the element sought
Serial == life = "alive" /\ ~wmp.pending

\* A seek is on its way to the demuxer
OnItsWay == player # <<>> \/ Holds(tasks["media"], "playerSeek")

\* Then no seek is pending or cancelled, and the delegate knows where the streams
\* are, unless they were moved for a seek that is on its way to it.
Calm ==
  /\ ~pending.set /\ ~seekingPending /\ ~demuxer.cancelNext
  /\ \A th \in Threads :
       pc[th] \notin {"cancelling", "again"} /\ OkEnds(tasks[th])
  /\ OnItsWay \/ seekTime = demuxer.at

\* Aborted reads and disallowed reads have a seek to end them.
Ends ==
  /\ demuxer.aborting => OnItsWay
  /\ isSeeking =>
       \/ OnItsWay \/ demuxer.seekCb # "none"
       \/ \E th \in Threads : Holds(tasks[th], "seekDone") \/ pc[th] = "done"

\* The last seek under way, or else the demuxer, is where the page wants to be.
Route ==
  IF player # <<>> THEN latest = player[Len(player)]
  ELSE IF Holds(tasks["media"], "playerSeek") THEN LastSeek(tasks["media"], latest)
  ELSE demuxer.at = latest

\* The last answer the player gets is true.
Told ==
  \A i \in 1..Len(answers) :
    answers[i].time = answers[i].at \/ i < Len(answers) \/ UnderWay

SeekInv == Up /\ (Serial => Calm /\ Ends /\ Route /\ Told)

\* While a seek is under way nothing is claimed of the answers, and a step that
\* leaves the seeks alone leaves it under way.
LEMMA ToldLater == UnderWay' => Told'
BY DEF Told

LEMMA AnswersShift ==
  ASSUME answers \in Seq(Answer), answers # <<>>, answers' = Tail(answers),
         \A i \in 1..Len(answers) :
           answers[i].time = answers[i].at \/ i < Len(answers)
  PROVE  \A i \in 1..Len(answers') :
           answers'[i].time = answers'[i].at \/ i < Len(answers')
<1>1. Len(answers') = Len(answers) - 1 /\ Len(answers) \in Nat
  OBVIOUS
<1>2. \A i \in 1..Len(answers') :
        i + 1 \in 1..Len(answers) /\ answers'[i] = answers[i + 1]
  OBVIOUS
<1> QED
  BY <1>1, <1>2

LEMMA ToldKept ==
  ASSUME answers \in Seq(Answer),
         \A th \in Threads : \A k \in {"playerSeek", "seekDone"} :
           Holds(tasks'[th], k) <=> Holds(tasks[th], k),
         UNCHANGED <<player, pc>>, demuxer'.seekCb = demuxer.seekCb,
         answers' = answers \/ (answers # <<>> /\ answers' = Tail(answers))
  PROVE  Told => Told'
<1>1. UnderWay' <=> UnderWay
  BY DEF UnderWay
<1>2. CASE UnderWay
  BY <1>1, <1>2, ToldLater
<1>3. ASSUME ~UnderWay, Told PROVE Told'
  <2>1. \A i \in 1..Len(answers) :
          answers[i].time = answers[i].at \/ i < Len(answers)
    BY <1>3 DEF Told
  <2>2. \A i \in 1..Len(answers') :
          answers'[i].time = answers'[i].at \/ i < Len(answers')
    BY <2>1, AnswersShift
  <2> QED
    BY <2>2 DEF Told
<1> QED
  BY <1>2, <1>3

LEMMA MarksAppended ==
  ASSUME NEW q \in Seq(Task), NEW w \in Task
  PROVE  /\ \A k : Holds(Append(q, w), k) <=> Holds(q, k) \/ w.kind = k
         /\ OkEnds(q) /\ (w.kind = "seekDone" => w.status = "ok")
              => OkEnds(Append(q, w))
         /\ \A p : w.kind # "playerSeek" /\ LastSeek(q, p) => LastSeek(Append(q, w), p)
         /\ w.kind = "playerSeek" => LastSeek(Append(q, w), w.time)
<1> DEFINE r == Append(q, w)
<1>1. /\ Len(q) \in Nat /\ Len(r) = Len(q) + 1 /\ r[Len(q) + 1] = w
      /\ \A i \in 1..Len(q) : r[i] = q[i]
  OBVIOUS
<1> HIDE DEF r
<1>2. /\ \A i \in 1..Len(r) : i \in 1..Len(q) \/ i = Len(q) + 1
      /\ Len(q) + 1 \in 1..Len(r) /\ \A i \in 1..Len(q) : i \in 1..Len(r)
      /\ \A i \in 1..Len(r) : ~(Len(q) + 1 < i)
  BY <1>1
<1>3. ASSUME NEW k PROVE Holds(r, k) <=> Holds(q, k) \/ w.kind = k
  BY <1>1, <1>2 DEF Holds
<1>4. OkEnds(q) /\ (w.kind = "seekDone" => w.status = "ok") => OkEnds(r)
  BY <1>1, <1>2 DEF OkEnds
<1>5. ASSUME NEW p, w.kind # "playerSeek", LastSeek(q, p) PROVE LastSeek(r, p)
  <2>1. PICK i \in 1..Len(q) :
          /\ q[i].kind = "playerSeek" /\ q[i].time = p
          /\ \A j \in 1..Len(q) : i < j => q[j].kind # "playerSeek"
    BY <1>5 DEF LastSeek
  <2>2. \A j \in 1..Len(r) : i < j => r[j].kind # "playerSeek"
    BY <1>1, <1>2, <1>5, <2>1
  <2>3. i \in 1..Len(r) /\ r[i] = q[i]
    BY <1>1, <1>2
  <2> QED
    BY <2>1, <2>2, <2>3 DEF LastSeek
<1>6. w.kind = "playerSeek" => LastSeek(r, w.time)
  BY <1>1, <1>2 DEF LastSeek
<1> QED
  BY <1>3, <1>4, <1>5, <1>6 DEF r

LEMMA MarksServed ==
  ASSUME NEW q \in Seq(Task), q # <<>>
  PROVE  /\ Holds(q, Head(q).kind)
         /\ \A k : Holds(Tail(q), k) => Holds(q, k)
         /\ \A k : Head(q).kind # k /\ Holds(q, k) => Holds(Tail(q), k)
         /\ OkEnds(q) => OkEnds(Tail(q))
         /\ OkEnds(q) /\ Head(q).kind = "seekDone" => Head(q).status = "ok"
         /\ \A p : LastSeek(q, p) =>
              LastSeek(Tail(q), p) \/ Head(q).kind = "playerSeek"
         /\ \A p : LastSeek(q, p) /\ Head(q).kind = "playerSeek" =>
              IF Holds(Tail(q), "playerSeek") THEN LastSeek(Tail(q), p)
              ELSE p = Head(q).time
<1> DEFINE r == Tail(q)
<1>1. /\ Len(q) \in Nat \ {0} /\ Len(r) = Len(q) - 1 /\ Head(q) = q[1]
      /\ \A i \in 1..Len(r) : i + 1 \in 1..Len(q) /\ r[i] = q[i + 1]
  OBVIOUS
<1> HIDE DEF r
<1>2. /\ 1 \in 1..Len(q) /\ \A i \in 1..Len(r) : i \in Nat /\ i + 1 # 1
      /\ \A i \in 1..Len(q) : i # 1 => i - 1 \in 1..Len(r) /\ r[i - 1] = q[i]
  <2>1. 1 \in 1..Len(q) /\ \A i \in 1..Len(r) : i \in Nat /\ i + 1 # 1
    BY <1>1
  <2>2. ASSUME NEW i \in 1..Len(q), i # 1
        PROVE  i - 1 \in 1..Len(r) /\ r[i - 1] = q[i]
    <3>1. i - 1 \in 1..Len(r) /\ (i - 1) + 1 = i
      BY <1>1, <2>2
    <3> QED
      BY <1>1, <3>1
  <2> QED
    BY <2>1, <2>2
<1>3. Holds(q, Head(q).kind)
  BY <1>1, <1>2 DEF Holds
<1>4. ASSUME NEW k PROVE (Holds(r, k) => Holds(q, k))
                         /\ (Head(q).kind # k /\ Holds(q, k) => Holds(r, k))
  BY <1>1, <1>2 DEF Holds
<1>5. OkEnds(q) => OkEnds(r)
  BY <1>1 DEF OkEnds
<1>6. OkEnds(q) /\ Head(q).kind = "seekDone" => Head(q).status = "ok"
  BY <1>1, <1>2 DEF OkEnds
<1>7. ASSUME NEW p, LastSeek(q, p)
      PROVE  \/ LastSeek(r, p)
             \/ /\ Head(q).kind = "playerSeek" /\ p = Head(q).time
                /\ ~Holds(r, "playerSeek")
  <2>1. PICK i \in 1..Len(q) :
          /\ q[i].kind = "playerSeek" /\ q[i].time = p
          /\ \A j \in 1..Len(q) : i < j => q[j].kind # "playerSeek"
    BY <1>7 DEF LastSeek
  <2>2. CASE i = 1
    <3>1. \A j \in 1..Len(r) : r[j].kind # "playerSeek"
      <4> SUFFICES ASSUME NEW j \in 1..Len(r) PROVE r[j].kind # "playerSeek"
        OBVIOUS
      <4>1. j + 1 \in 1..Len(q) /\ r[j] = q[j + 1] /\ 1 < j + 1
        BY <1>1, <1>2
      <4> QED
        BY <2>1, <2>2, <4>1
    <3> QED
      BY <1>1, <2>1, <2>2, <3>1 DEF Holds
  <2>3. CASE i # 1
    <3>1. i - 1 \in 1..Len(r) /\ r[i - 1] = q[i]
      BY <1>2, <2>3
    <3>2. ASSUME NEW j \in 1..Len(r), i - 1 < j PROVE r[j].kind # "playerSeek"
      <4>1. j + 1 \in 1..Len(q) /\ r[j] = q[j + 1] /\ i < j + 1
        BY <1>1, <3>2
      <4> QED
        BY <2>1, <4>1
    <3> QED
      BY <2>1, <3>1, <3>2 DEF LastSeek
  <2> QED
    BY <2>2, <2>3
<1>8. \A p : LastSeek(r, p) => Holds(r, "playerSeek")
  BY DEF LastSeek, Holds
<1> QED
  BY <1>3, <1>4, <1>5, <1>6, <1>7, <1>8 DEF r

(***************************************************************************)
(* Queues that differ in tasks that no seek needs                          *)
(***************************************************************************)
Marks == {"initialize", "initDone", "playerSeek", "seekDone"}

AlikeQueue(q, r) ==
  /\ \A k \in Marks : Holds(r, k) <=> Holds(q, k)
  /\ OkEnds(q) => OkEnds(r)
  /\ \A p : LastSeek(q, p) => LastSeek(r, p)

Alike(ts, us) == \A th \in Threads : AlikeQueue(ts[th], us[th])

LEMMA AlikeSame == ASSUME NEW ts PROVE Alike(ts, ts)
BY DEF Alike, AlikeQueue

LEMMA AlikeTwice ==
  ASSUME NEW ts, NEW us, NEW vs, Alike(ts, us), Alike(us, vs) PROVE Alike(ts, vs)
BY DEF Alike, AlikeQueue

LEMMA AlikePosted ==
  ASSUME NEW ts \in Queues, NEW th \in Threads, NEW w \in Task, w.kind \notin Marks
  PROVE  Alike(ts, Post(ts, th, w))
<1>1. \A o \in Threads : ts[o] \in Seq(Task)
  BY DEF Queues
<1>2. AlikeQueue(ts[th], Append(ts[th], w))
  <2>1. w.kind # "playerSeek" /\ w.kind # "seekDone"
    BY DEF Marks
  <2> QED
    BY <1>1, <2>1, MarksAppended DEF AlikeQueue
<1>3. \A o \in Threads :
        Post(ts, th, w)[o] = IF o = th THEN Append(ts[th], w) ELSE ts[o]
  BY DEF Post, Queues
<1>4. \A q : AlikeQueue(q, q)
  BY DEF AlikeQueue
<1> QED
  BY <1>2, <1>3, <1>4 DEF Alike

LEMMA AlikeServed ==
  ASSUME NEW ts \in Queues, NEW th \in Threads, ts[th] # <<>>,
         Head(ts[th]).kind \notin Marks
  PROVE  Alike(ts, [ts EXCEPT ![th] = Tail(ts[th])])
<1> DEFINE us == [ts EXCEPT ![th] = Tail(ts[th])]
<1>1. \A o \in Threads : ts[o] \in Seq(Task)
  BY DEF Queues
<1>2. AlikeQueue(ts[th], Tail(ts[th]))
  <2>1. /\ \A k : Holds(Tail(ts[th]), k) => Holds(ts[th], k)
        /\ \A k : Head(ts[th]).kind # k /\ Holds(ts[th], k) => Holds(Tail(ts[th]), k)
        /\ OkEnds(ts[th]) => OkEnds(Tail(ts[th]))
        /\ \A p : LastSeek(ts[th], p) =>
              LastSeek(Tail(ts[th]), p) \/ Head(ts[th]).kind = "playerSeek"
    BY <1>1, MarksServed
  <2>2. Head(ts[th]).kind # "playerSeek"
    BY DEF Marks
  <2> QED
    BY <2>1, <2>2 DEF AlikeQueue
<1>3. \A o \in Threads : us[o] = IF o = th THEN Tail(ts[th]) ELSE ts[o]
  BY DEF Queues
<1>4. \A q : AlikeQueue(q, q)
  BY DEF AlikeQueue
<1> QED
  BY <1>2, <1>3, <1>4 DEF Alike

LEMMA AlikeAnswered ==
  ASSUME NEW ts \in Queues, NEW d, NEW s \in Statuses
  PROVE  Alike(ts, AnswerReads(d, ts, s)) /\ AnswerReads(d, ts, s) \in Queues
<1> DEFINE w(t) == [TaskOf("buffer") EXCEPT !.type = t, !.status = s]
           as == IF d.reading["audio"] THEN Post(ts, "media", w("audio")) ELSE ts
           us == IF d.reading["video"] THEN Post(as, "media", w("video")) ELSE as
<1>1. as \in Queues /\ AnswerReads(d, ts, s) = us
  BY AnswersPosted
<1>2. \A t \in Media : w(t) \in Task /\ w(t).kind \notin Marks
                       /\ w(t).kind \notin LifeKinds
  BY DEF TaskOf, Task, Kinds, Media, Statuses, Positions, Marks, LifeKinds
<1>3. "audio" \in Media /\ "video" \in Media /\ "media" \in Threads
  BY DEF Media, Threads
<1> HIDE DEF w
<1>4. Alike(ts, as)
  BY <1>2, <1>3, AlikePosted, AlikeSame
<1> HIDE DEF as
<1>5. Alike(as, us) /\ us \in Queues
  BY <1>1, <1>2, <1>3, AlikePosted, AlikeSame, GrewPost
<1> HIDE DEF us
<1> QED
  BY <1>1, <1>4, <1>5, AlikeTwice

SeekTyped ==
  /\ demuxer \in Demuxer /\ tasks \in Queues /\ player \in Seq(Times)
  /\ answers \in Seq(Answer) /\ "main" \in Threads /\ "media" \in Threads
  /\ pc \in [Threads -> {"idle", "cancelling", "again", "done", "answer"}]

LEMMA SeekTypedHolds == ASSUME TypeOK PROVE SeekTyped
BY DEF SeekTyped, TypeOK, Queues, Threads

\* Neither the demuxer's initialization nor what waits for it moves.
LEMMA UpKept ==
  ASSUME Up, life' = "alive" => life = "alive",
         demuxer'.state = demuxer.state, ready' = ready,
         player' # <<>> => player # <<>>,
         \A k \in {"initialize", "initDone", "playerSeek"} :
           Holds(tasks'["media"], k) => Holds(tasks["media"], k)
  PROVE  Up'
<1>1. CASE life' # "alive"
  BY <1>1 DEF Up
<1>2. CASE life' = "alive"
  <2>1. life = "alive"
    BY <1>2
  <2> QED
    BY <2>1 DEF Up
<1> QED
  BY <1>1, <1>2

AlikeSeeks(q, r) ==
  /\ Holds(r, "playerSeek") <=> Holds(q, "playerSeek")
  /\ Holds(r, "seekDone") <=> Holds(q, "seekDone")
  /\ OkEnds(q) => OkEnds(r)
  /\ \A p : LastSeek(q, p) => LastSeek(r, p)

\* A step that neither starts nor ends a seek keeps what serial seeks rest on.
LEMMA SerialKept ==
  ASSUME SeekTyped, SeekInv, \A th \in Threads : AlikeSeeks(tasks[th], tasks'[th]),
         life' = "alive" => life = "alive", ~wmp'.pending => ~wmp.pending,
         UNCHANGED <<latest, pending, seekingPending, seekTime, player>>,
         demuxer'.cancelNext = demuxer.cancelNext,
         demuxer'.aborting = demuxer.aborting, demuxer'.at = demuxer.at,
         demuxer'.seekCb = demuxer.seekCb, isSeeking' => isSeeking,
         \A th \in Threads :
           /\ pc'[th] \in {"cancelling", "again"} => pc'[th] = pc[th]
           /\ pc[th] = "done" => pc'[th] = "done" \/ ~isSeeking',
         Told /\ (OnItsWay \/ seekTime = demuxer.at) => Told',
         Serial'
  PROVE  Calm' /\ Ends' /\ Route' /\ Told'
<1>1. Calm /\ Ends /\ Route /\ Told
  BY DEF SeekInv, Serial
<1>2. Calm'
  <2>1. \A th \in Threads : pc'[th] \notin {"cancelling", "again"}
    BY <1>1 DEF Calm
  <2>2. \A th \in Threads : OkEnds(tasks'[th])
    BY <1>1 DEF Calm, AlikeSeeks
  <2>3. OnItsWay' <=> OnItsWay
    BY DEF OnItsWay, AlikeSeeks, SeekTyped
  <2> QED
    BY <1>1, <2>1, <2>2, <2>3 DEF Calm
<1>3. /\ Holds(tasks'["media"], "playerSeek") <=> Holds(tasks["media"], "playerSeek")
      /\ \A p : LastSeek(tasks["media"], p) => LastSeek(tasks'["media"], p)
  BY DEF AlikeSeeks, SeekTyped
<1>4. \A th \in Threads : Holds(tasks'[th], "seekDone") <=> Holds(tasks[th], "seekDone")
  BY DEF AlikeSeeks
<1>5. Ends'
  BY <1>1, <1>3, <1>4 DEF Ends, OnItsWay
<1>6. Route'
  <2>1. CASE player # <<>>
    BY <1>1, <2>1 DEF Route
  <2>2. CASE player = <<>> /\ Holds(tasks["media"], "playerSeek")
    BY <1>1, <1>3, <2>2 DEF Route
  <2>3. CASE player = <<>> /\ ~Holds(tasks["media"], "playerSeek")
    BY <1>1, <1>3, <2>3 DEF Route
  <2> QED
    BY <2>1, <2>2, <2>3
<1>7. Told'
  BY <1>1 DEF Calm
<1> QED
  BY <1>2, <1>5, <1>6, <1>7

LEMMA SeekKept ==
  ASSUME SeekTyped, SeekInv, Alike(tasks, tasks'),
         life' = "alive" => life = "alive", ~wmp'.pending => ~wmp.pending,
         UNCHANGED <<latest, ready, pending, seekingPending, seekTime, player>>,
         demuxer'.state = demuxer.state, demuxer'.cancelNext = demuxer.cancelNext,
         demuxer'.aborting = demuxer.aborting, demuxer'.at = demuxer.at,
         demuxer'.seekCb = demuxer.seekCb, isSeeking' => isSeeking,
         \A th \in Threads :
           /\ pc'[th] \in {"cancelling", "again"} => pc'[th] = pc[th]
           /\ pc[th] = "done" => pc'[th] = "done" \/ ~isSeeking',
         Told /\ (OnItsWay \/ seekTime = demuxer.at) => Told'
  PROVE  SeekInv'
<1>1. \A th \in Threads : AlikeQueue(tasks[th], tasks'[th])
  BY DEF Alike
<1>2. \A th \in Threads : AlikeSeeks(tasks[th], tasks'[th])
  BY <1>1 DEF AlikeQueue, AlikeSeeks, Marks
<1>3. Up'
  <2>1. \A k \in {"initialize", "initDone", "playerSeek"} :
           Holds(tasks'["media"], k) => Holds(tasks["media"], k)
    BY <1>1 DEF AlikeQueue, Marks, SeekTyped
  <2> QED
    BY <2>1, UpKept DEF SeekInv
<1>4. Serial' => Calm' /\ Ends' /\ Route' /\ Told'
  BY <1>2, SerialKept
<1> QED
  BY <1>3, <1>4 DEF SeekInv

LEMMA PoppedIs ==
  ASSUME NEW th \in Threads PROVE Popped(th) = [tasks EXCEPT ![th] = Tail(tasks[th])]
BY DEF Popped

\* Once the element has sought while seeking, it is no longer serial.
LEMMA UpOnly == ASSUME Up', ~Serial' PROVE SeekInv'
BY DEF SeekInv

LEMMA SeekFirstRoute ==
  ASSUME TypeOK, SeekInv, NEW t \in Times, SeekFirst(t) PROVE SeekInv'
<1>1. SeekTyped /\ life = "alive" /\ ready
  BY SeekTypedHolds DEF SeekFirst
<1>2. Alike(tasks, tasks')
  BY <1>1, AlikeAnswered DEF SeekFirst, SeekTyped, Statuses
<1>3. \A th \in Threads : AlikeQueue(tasks[th], tasks'[th])
  BY <1>2 DEF Alike
<1>4. /\ player' # <<>> /\ Len(player') \in Nat /\ player'[Len(player')] = t
  BY <1>1 DEF SeekFirst, SeekTyped
<1>5. /\ demuxer'.state = demuxer.state /\ demuxer'.cancelNext = FALSE
      /\ demuxer'.seekCb = demuxer.seekCb
  BY <1>1, WaitingCall DEF SeekFirst, SeekTyped, Positions
<1>6. Up'
  <2>1. demuxer.state = "initialized" /\ (Holds(tasks["media"], "initialize") =>
          demuxer.state = "new")
    BY <1>1 DEF SeekInv, Up
  <2>2. ~Holds(tasks'["media"], "initialize")
    BY <1>1, <1>3, <2>1 DEF AlikeQueue, Marks, SeekTyped
  <2> QED
    BY <1>5, <2>1, <2>2 DEF Up
<1>7. ASSUME Serial' PROVE Calm' /\ Ends' /\ Route' /\ Told'
  <2>1. Calm /\ Ends /\ Route
    BY <1>1, <1>7 DEF SeekInv, Serial, SeekFirst
  <2>2. UNCHANGED <<pc, pending, seekTime, answers>> /\ seekingPending' = FALSE
        /\ latest' = t
    BY DEF SeekFirst
  <2>3. \A th \in Threads : OkEnds(tasks'[th])
    BY <1>3, <2>1 DEF Calm, AlikeQueue
  <2>4. Calm'
    BY <1>4, <1>5, <2>1, <2>2, <2>3 DEF Calm, OnItsWay
  <2>5. Ends'
    BY <1>4 DEF Ends, OnItsWay
  <2>6. Route'
    BY <1>4, <2>2 DEF Route
  <2>7. Told'
    BY <1>4, ToldLater DEF UnderWay
  <2> QED
    BY <2>4, <2>5, <2>6, <2>7
<1> QED
  BY <1>6, <1>7 DEF SeekInv

LEMMA SeekAgainRoute ==
  ASSUME TypeOK, SeekInv, NEW t \in Times, SeekAgain(t) PROVE SeekInv'
<1>1. Up'
  <2>1. UNCHANGED <<life, demuxer, ready, player, tasks>>
    BY DEF SeekAgain, playerVars
  <2> QED
    BY <2>1, UpKept DEF SeekInv
<1>2. wmp'.pending
  BY DEF SeekAgain, TypeOK, Element
<1> QED
  BY <1>1, <1>2, UpOnly DEF Serial

\* What a call of Seek posts
LEMMA SeekMarks ==
  ASSUME NEW d \in Demuxer, NEW ts \in Queues, NEW th \in Threads, NEW p,
         NEW own, StartSeek(d, ts, th, p, own)
  PROVE  /\ demuxer'.state = d.state
         /\ \A k \in {"initialize", "initDone", "playerSeek"} :
              Holds(tasks'["media"], k) => Holds(ts["media"], k)
<1>1. \/ demuxer' = d /\ tasks' = ts
      \/ DemuxerSeek(d, ts, th, p)
  BY DEF StartSeek
<1>2. demuxer'.state = d.state
  BY <1>1 DEF DemuxerSeek, Demuxer
<1>3. ASSUME NEW s \in Statuses, tasks' = Post(ts, th, SeekCallback(s)),
             NEW k \in {"initialize", "initDone", "playerSeek"},
             Holds(tasks'["media"], k)
      PROVE  Holds(ts["media"], k)
  <2>1. SeekCallback(s) \in Task /\ SeekCallback(s).kind = "seekDone"
    BY CallbackIsNoBuffer
  <2>2. /\ ts["media"] \in Seq(Task)
        /\ \/ tasks'["media"] = ts["media"]
           \/ tasks'["media"] = Append(ts["media"], SeekCallback(s))
    BY <1>3 DEF Post, Queues, Threads
  <2>3. Holds(Append(ts["media"], SeekCallback(s)), k) <=>
          Holds(ts["media"], k) \/ SeekCallback(s).kind = k
    BY <2>1, <2>2, MarksAppended
  <2> QED
    BY <1>3, <2>1, <2>2, <2>3
<1> QED
  BY <1>1, <1>2, <1>3, SeekCallPosts

LEMMA CancelRoute ==
  ASSUME TypeOK, SeekInv, CancelPendingSeek PROVE SeekInv'
<1> DEFINE as == AnswerReads(demuxer, tasks, "aborted")
<1>1. SeekTyped /\ UNCHANGED <<life, ready, player, wmp>>
  BY SeekTypedHolds DEF CancelPendingSeek, playerVars
<1>2. ~Serial'
  <2>1. ~Serial
    BY <1>1 DEF CancelPendingSeek, SeekInv, Calm, SeekTyped
  <2> QED
    BY <1>1, <2>1 DEF Serial
<1>3. Alike(tasks, as) /\ as \in Queues
  BY <1>1, AlikeAnswered DEF SeekTyped, Statuses
<1>4. \A k \in {"initialize", "initDone", "playerSeek"} :
        Holds(as["media"], k) => Holds(tasks["media"], k)
  BY <1>1, <1>3 DEF Alike, AlikeQueue, Marks, SeekTyped
<1>5. /\ Waiting(demuxer, pending.time).state = demuxer.state
      /\ Waiting(demuxer, pending.time) \in Demuxer
  BY <1>1, WaitingCall DEF SeekTyped, TypeOK, Pending, Positions
<1>6. /\ demuxer'.state = demuxer.state
      /\ \A k \in {"initialize", "initDone", "playerSeek"} :
           Holds(tasks'["media"], k) => Holds(tasks["media"], k)
  <2>1. CASE seekDone
    <3>1. StartSeek(Waiting(demuxer, pending.time), as, "main", pending.time, TRUE)
      BY <2>1 DEF CancelPendingSeek
    <3> HIDE DEF as
    <3> QED
      BY <1>1, <1>3, <1>4, <1>5, <3>1, SeekMarks DEF SeekTyped
  <2>2. CASE ~seekDone
    <3>1. DemuxerCancel(demuxer, tasks, pending.time)
      BY <2>2 DEF CancelPendingSeek
    <3>2. CASE demuxer.cancelNext
      BY <3>1, <3>2 DEF DemuxerCancel
    <3>3. CASE ~demuxer.cancelNext
      <4>1. /\ demuxer'.state = demuxer.state
            /\ tasks' = IF demuxer.seekCb = "none" THEN as
                        ELSE Post(as, demuxer.seekCb, SeekCallback("ok"))
        BY <1>1, <3>1, <3>3 DEF DemuxerCancel, Demuxer, SeekTyped
      <4>2. /\ SeekCallback("ok") \in Task
            /\ SeekCallback("ok").kind = "seekDone"
        BY CallbackIsNoBuffer DEF Statuses
      <4> HIDE DEF as
      <4>3. /\ as["media"] \in Seq(Task)
            /\ \/ tasks'["media"] = as["media"]
               \/ tasks'["media"] = Append(as["media"], SeekCallback("ok"))
        BY <1>1, <1>3, <4>1 DEF Post, Queues, SeekTyped
      <4>4. \A k : Holds(Append(as["media"], SeekCallback("ok")), k) <=>
              Holds(as["media"], k) \/ SeekCallback("ok").kind = k
        BY <4>2, <4>3, MarksAppended
      <4>5. ASSUME NEW k \in {"initialize", "initDone", "playerSeek"},
                   Holds(tasks'["media"], k)
            PROVE  Holds(as["media"], k)
        BY <4>2, <4>3, <4>4, <4>5
      <4> QED
        BY <1>4, <4>1, <4>5
    <3> QED
      BY <3>2, <3>3
  <2> QED
    BY <2>1, <2>2
<1>7. Up'
  BY <1>1, <1>6, UpKept DEF SeekInv
<1> QED
  BY <1>2, <1>7, UpOnly

LEMMA SeekPendingRoute ==
  ASSUME TypeOK, SeekInv, NEW th \in Threads, SeekPending(th) PROVE SeekInv'
<1>1. SeekTyped /\ UNCHANGED <<life, ready, player, wmp>>
  BY SeekTypedHolds DEF SeekPending, playerVars
<1>2. ~Serial'
  <2>1. ~Serial
    BY <1>1 DEF SeekPending, SeekInv, Calm, SeekTyped
  <2> QED
    BY <1>1, <2>1 DEF Serial
<1>3. /\ demuxer'.state = demuxer.state
      /\ \A k \in {"initialize", "initDone", "playerSeek"} :
           Holds(tasks'["media"], k) => Holds(tasks["media"], k)
  BY <1>1, SeekMarks DEF SeekPending, SeekTyped
<1>4. Up'
  BY <1>1, <1>3, UpKept DEF SeekInv
<1> QED
  BY <1>2, <1>4, UpOnly

\* The player's request reaches the demuxer: its seek waits, or has ended.
LEMMA SeekRequestRoute ==
  ASSUME TypeOK, SeekInv, OnDemuxerSeekRequest PROVE SeekInv'
<1> DEFINE ts == Popped("media")
           w == Head(tasks["media"])
           q == tasks["media"]
<1>1. /\ SeekTyped /\ q \in Seq(Task) /\ q # <<>> /\ w.kind = "playerSeek"
      /\ w \in Task
      /\ UNCHANGED <<life, ready, player, wmp, latest, pc, answers>>
  <2>1. SeekTyped
    BY SeekTypedHolds
  <2> QED
    BY <2>1 DEF OnDemuxerSeekRequest, Runs, playerVars, SeekTyped, Queues
<1>2. ts \in Queues /\ ts["media"] = Tail(q) /\ ts["main"] = tasks["main"]
  <2>1. ts = [tasks EXCEPT !["media"] = Tail(tasks["media"])]
    BY DEF Popped
  <2>2. ts \in Queues
    BY <1>1, <2>1, Pop DEF SeekTyped
  <2> QED
    BY <1>1, <2>1, <2>2 DEF SeekTyped, Queues
<1>3. /\ Holds(q, "playerSeek")
      /\ \A k : Holds(Tail(q), k) => Holds(q, k)
      /\ OkEnds(q) => OkEnds(Tail(q))
      /\ \A p : LastSeek(q, p) =>
           IF Holds(Tail(q), "playerSeek") THEN LastSeek(Tail(q), p) ELSE p = w.time
  BY <1>1, MarksServed
<1>4. \/ tasks' = ts /\ UNCHANGED <<demuxer, flagVars>> /\ life # "alive"
      \/ /\ StartSeek(demuxer, ts, "media", w.time, FALSE)
         /\ UNCHANGED pending
  BY DEF OnDemuxerSeekRequest
<1>5. Up'
  <2> HIDE DEF ts, q, w
  <2>1. CASE life # "alive"
    BY <1>1, <2>1 DEF Up
  <2>2. CASE life = "alive"
    <3>1. /\ demuxer'.state = demuxer.state
          /\ \A k \in {"initialize", "initDone", "playerSeek"} :
               Holds(tasks'["media"], k) => Holds(ts["media"], k)
      BY <1>1, <1>2, <1>4, <2>2, SeekMarks DEF SeekTyped
    <3>2. \A k \in {"initialize", "initDone", "playerSeek"} :
               Holds(tasks'["media"], k) => Holds(q, k)
      BY <1>2, <1>3, <3>1
    <3> QED
      BY <1>1, <3>1, <3>2, UpKept DEF SeekInv, q
  <2> QED
    BY <2>1, <2>2
<1>6. ASSUME Serial' PROVE Calm' /\ Ends' /\ Route' /\ Told'
  <2>1. Calm /\ Ends /\ Route /\ life = "alive"
    BY <1>1, <1>6 DEF SeekInv, Serial
  <2>2. demuxer.state = "initialized" /\ ~demuxer.cancelNext /\ ~seekingPending
    BY <1>3, <2>1 DEF SeekInv, Up, Calm
  <2>3. /\ StartSeek(demuxer, ts, "media", w.time, FALSE) /\ UNCHANGED pending
        /\ seekTime' = w.time /\ seekingPending' = FALSE
    <3>1. StartSeek(demuxer, ts, "media", w.time, FALSE) /\ UNCHANGED pending
      BY <1>4, <2>1
    <3>2. seekingPending = FALSE
      BY <2>2 DEF TypeOK
    <3> QED
      BY <2>2, <3>1, <3>2 DEF StartSeek
  <2>4. /\ demuxer' \in Demuxer /\ demuxer'.at = w.time /\ ~demuxer'.aborting
        /\ ~demuxer'.cancelNext
        /\ \/ tasks' = Post(ts, "media", SeekCallback("ok"))
           \/ tasks' = ts /\ demuxer'.seekCb = "media"
    <3>1. DemuxerSeek(demuxer, ts, "media", w.time)
      BY <2>2, <2>3 DEF StartSeek
    <3> HIDE DEF ts, w
    <3>2. demuxer \in Demuxer /\ "media" \in Threads /\ w.time \in Positions
      BY <1>1 DEF SeekTyped, Task
    <3>3. demuxer' \in Demuxer
      BY <1>2, <3>1, <3>2, SeekCall
    <3> QED
      BY <2>2, <3>1, <3>2, <3>3 DEF DemuxerSeek, Demuxer
  <2>5. SeekCallback("ok") \in Task /\ SeekCallback("ok").kind = "seekDone"
        /\ SeekCallback("ok").status = "ok"
    BY DEF SeekCallback, TaskOf, Task, Kinds, Media, Statuses, Positions
  <2> HIDE DEF q, w
  <2>6. Tail(q) \in Seq(Task)
    BY <1>1
  <2>0. LET r == Append(Tail(q), SeekCallback("ok"))
        IN  /\ Holds(r, "seekDone")
            /\ Holds(r, "playerSeek") <=> Holds(Tail(q), "playerSeek")
            /\ OkEnds(Tail(q)) => OkEnds(r)
            /\ \A p : LastSeek(Tail(q), p) => LastSeek(r, p)
    BY <2>5, <2>6, MarksAppended
  <2>7. /\ tasks'["main"] = tasks["main"]
        /\ \/ tasks'["media"] = Append(Tail(q), SeekCallback("ok"))
           \/ tasks'["media"] = Tail(q) /\ demuxer'.seekCb = "media"
    BY <1>1, <1>2, <2>4 DEF Post, Queues, SeekTyped
  <2>8. OkEnds(tasks'["media"]) /\ (Holds(tasks'["media"], "seekDone")
                                    \/ demuxer'.seekCb # "none")
    <3>1. OkEnds(q)
      BY <1>1, <2>1 DEF Calm, SeekTyped, q
    <3> QED
      BY <1>3, <2>0, <2>7, <3>1
  <2>9. /\ Holds(tasks'["media"], "playerSeek") <=> Holds(Tail(q), "playerSeek")
        /\ \A p : LastSeek(Tail(q), p) => LastSeek(tasks'["media"], p)
    BY <2>0, <2>7
  <2>10. Calm'
    <3>1. \A th \in Threads : OkEnds(tasks'[th])
      BY <1>1, <2>1, <2>7, <2>8 DEF Calm, Threads
    <3> QED
      BY <1>1, <2>1, <2>3, <2>4, <3>1 DEF Calm
  <2>11. Ends'
    BY <1>1, <2>4, <2>8 DEF Ends, SeekTyped
  <2>13. Told'
    BY <1>1, <2>8, ToldLater DEF UnderWay, SeekTyped
  <2>12. Route'
    <3>1. CASE player # <<>>
      BY <1>1, <2>1, <3>1 DEF Route
    <3>2. CASE player = <<>>
      <4>1. Holds(tasks["media"], "playerSeek")
        BY <1>3 DEF q
      <4>2. LastSeek(tasks["media"], latest)
        BY <2>1, <3>2, <4>1 DEF Route
      <4>3. LastSeek(q, latest)
        BY <4>2 DEF q
      <4>4. CASE Holds(Tail(q), "playerSeek")
        <5>1. LastSeek(tasks'["media"], latest)
          BY <1>3, <2>9, <4>3, <4>4
        <5>2. Holds(tasks'["media"], "playerSeek") /\ latest' = latest
              /\ player' = <<>>
          BY <1>1, <2>9, <3>2, <4>4
        <5> QED
          BY <5>1, <5>2 DEF Route
      <4>5. CASE ~Holds(Tail(q), "playerSeek")
        <5>1. latest = w.time
          BY <1>3, <4>3, <4>5
        <5>2. ~Holds(tasks'["media"], "playerSeek") /\ latest' = latest
              /\ player' = <<>>
          BY <1>1, <2>9, <3>2, <4>5
        <5> QED
          BY <2>4, <5>1, <5>2 DEF Route
      <4> QED
        BY <4>4, <4>5
    <3> QED
      BY <3>1, <3>2
  <2> QED
    BY <2>10, <2>11, <2>12, <2>13
<1> QED
  BY <1>5, <1>6 DEF SeekInv

\* A notification of the demuxer's end of a seek, taken from its queue
LEMMA SeekDoneRoute ==
  ASSUME TypeOK, SeekInv, NEW th \in Threads, OnDemuxerSeekDone(th) PROVE SeekInv'
<1> DEFINE q == tasks[th]
<1>1. /\ SeekTyped /\ q \in Seq(Task) /\ q # <<>> /\ Head(q).kind = "seekDone"
      /\ pc[th] = "idle"
      /\ UNCHANGED <<wmp, latest, life, ready, flagVars, demuxer, player, answers>>
  <2>1. SeekTyped
    BY SeekTypedHolds
  <2> QED
    BY <2>1 DEF OnDemuxerSeekDone, Runs, playerVars, SeekTyped, Queues
<1>2. /\ tasks'[th] = Tail(q) /\ \A o \in Threads : o # th => tasks'[o] = tasks[o]
  <2>1. tasks' = [tasks EXCEPT ![th] = Tail(tasks[th])]
    BY DEF OnDemuxerSeekDone, Popped
  <2> QED
    BY <1>1, <2>1 DEF SeekTyped, Queues
<1>3. /\ \A k : Holds(Tail(q), k) => Holds(q, k)
      /\ \A k : Head(q).kind # k /\ Holds(q, k) => Holds(Tail(q), k)
      /\ OkEnds(q) => OkEnds(Tail(q))
      /\ OkEnds(q) => Head(q).status = "ok"
      /\ \A p : LastSeek(q, p) => LastSeek(Tail(q), p)
  <2>1. Head(q).kind # "playerSeek"
    BY <1>1
  <2> QED
    BY <1>1, <2>1, MarksServed
<1> HIDE DEF q
<1>4. \A o \in Threads : /\ \A k : Holds(tasks'[o], k) => Holds(tasks[o], k)
                         /\ Holds(tasks[o], "playerSeek") => Holds(tasks'[o], "playerSeek")
                         /\ OkEnds(tasks[o]) => OkEnds(tasks'[o])
                         /\ \A p : LastSeek(tasks[o], p) => LastSeek(tasks'[o], p)
                         /\ o # th => (Holds(tasks[o], "seekDone") =>
                                         Holds(tasks'[o], "seekDone"))
  <2> SUFFICES ASSUME NEW o \in Threads
               PROVE  /\ \A k : Holds(tasks'[o], k) => Holds(tasks[o], k)
                      /\ Holds(tasks[o], "playerSeek") => Holds(tasks'[o], "playerSeek")
                      /\ OkEnds(tasks[o]) => OkEnds(tasks'[o])
                      /\ \A p : LastSeek(tasks[o], p) => LastSeek(tasks'[o], p)
                      /\ o # th => (Holds(tasks[o], "seekDone") =>
                                         Holds(tasks'[o], "seekDone"))
    OBVIOUS
  <2>1. CASE o # th
    BY <1>2, <2>1
  <2>2. CASE o = th
    <3>1. tasks[o] = q /\ tasks'[o] = Tail(q) /\ Head(q).kind # "playerSeek"
      BY <1>1, <1>2, <2>2 DEF q
    <3> QED
      BY <1>3, <2>2, <3>1
  <2> QED
    BY <2>1, <2>2
<1>5. Up'
  BY <1>1, <1>4, UpKept DEF SeekInv, SeekTyped
<1>6. ASSUME Serial' PROVE Calm' /\ Ends' /\ Route' /\ Told'
  <2>1. Calm /\ Ends /\ Route /\ life = "alive"
    BY <1>1, <1>6 DEF SeekInv, Serial
  <2>2. OkEnds(q)
    BY <2>1 DEF Calm, q
  <2>3. /\ pc'[th] = "done" /\ \A o \in Threads : o # th => pc'[o] = pc[o]
    <3>1. Head(tasks[th]).status = "ok" /\ ~pending.set
      BY <1>3, <2>1, <2>2 DEF q, Calm
    <3> QED
      BY <1>1, <2>1, <3>1 DEF OnDemuxerSeekDone, SeekTyped
  <2>4. Calm'
    <3>1. UNCHANGED <<pending, seekingPending, seekTime, demuxer, answers>>
      BY <1>1 DEF flagVars
    <3>2. \A o \in Threads : pc'[o] \notin {"cancelling", "again"}
      BY <2>1, <2>3 DEF Calm
    <3>3. \A o \in Threads : OkEnds(tasks'[o])
      BY <1>4, <2>1 DEF Calm
    <3>4. OnItsWay => OnItsWay'
      BY <1>1, <1>4 DEF OnItsWay, SeekTyped
    <3> QED
      BY <2>1, <3>1, <3>2, <3>3, <3>4 DEF Calm
  <2>5. Ends'
    <3>1. OnItsWay => OnItsWay'
      BY <1>1, <1>4 DEF OnItsWay, SeekTyped
    <3> QED
      BY <1>1, <2>1, <2>3, <3>1 DEF Ends
  <2>6. Route'
    <3>1. UNCHANGED <<player, latest, demuxer>>
      BY <1>1
    <3>2. Holds(tasks'["media"], "playerSeek") <=> Holds(tasks["media"], "playerSeek")
      BY <1>1, <1>4 DEF SeekTyped
    <3>3. \A p : LastSeek(tasks["media"], p) => LastSeek(tasks'["media"], p)
      BY <1>1, <1>4 DEF SeekTyped
    <3>4. CASE player # <<>>
      BY <2>1, <3>1, <3>4 DEF Route
    <3>5. CASE player = <<>> /\ Holds(tasks["media"], "playerSeek")
      BY <2>1, <3>1, <3>2, <3>3, <3>5 DEF Route
    <3>6. CASE player = <<>> /\ ~Holds(tasks["media"], "playerSeek")
      BY <2>1, <3>1, <3>2, <3>6 DEF Route
    <3> QED
      BY <3>4, <3>5, <3>6
  <2>7. Told'
    BY <2>3, ToldLater DEF UnderWay
  <2> QED
    BY <2>4, <2>5, <2>6, <2>7
<1> QED
  BY <1>5, <1>6 DEF SeekInv

\* The demuxer's own end of a seek
LEMMA SoughtRoute == ASSUME TypeOK, SeekInv, DemuxerSought PROVE SeekInv'
<1> DEFINE th == demuxer.seekCb
           w == SeekCallback("ok")
<1>1. /\ SeekTyped /\ th \in Threads /\ tasks[th] \in Seq(Task)
      /\ UNCHANGED <<wmp, latest, life, ready, flagVars, pc, player, answers>>
  <2>1. SeekTyped
    BY SeekTypedHolds
  <2> QED
    BY <2>1 DEF DemuxerSought, playerVars, SeekTyped, Demuxer, Queues
<1>2. w \in Task /\ w.kind = "seekDone" /\ w.status = "ok"
  BY DEF SeekCallback, TaskOf, Task, Kinds, Media, Statuses, Positions
<1>3. /\ demuxer'.state = demuxer.state /\ demuxer'.cancelNext = demuxer.cancelNext
      /\ demuxer'.aborting = demuxer.aborting /\ demuxer'.at = demuxer.at
      /\ demuxer'.seekCb = "none"
  BY <1>1 DEF DemuxerSought, SeekTyped, Demuxer
<1> HIDE DEF w
<1>4. \A o \in Threads :
        tasks'[o] = IF o = th THEN Append(tasks[th], w) ELSE tasks[o]
  BY <1>1 DEF DemuxerSought, Post, SeekTyped, Queues, w
<1> HIDE DEF th
<1>5. LET r == Append(tasks[th], w)
      IN  /\ Holds(r, "seekDone")
          /\ \A k : Holds(r, k) => Holds(tasks[th], k) \/ k = "seekDone"
          /\ \A k : Holds(tasks[th], k) => Holds(r, k)
          /\ OkEnds(tasks[th]) => OkEnds(r)
          /\ \A p : LastSeek(tasks[th], p) => LastSeek(r, p)
  BY <1>1, <1>2, MarksAppended
<1>6. /\ Holds(tasks'[th], "seekDone")
      /\ \A o \in Threads :
           /\ \A k : k # "seekDone" => (Holds(tasks'[o], k) <=> Holds(tasks[o], k))
           /\ OkEnds(tasks[o]) => OkEnds(tasks'[o])
           /\ \A p : LastSeek(tasks[o], p) => LastSeek(tasks'[o], p)
  <2>1. Holds(tasks'[th], "seekDone")
    BY <1>1, <1>4, <1>5
  <2>2. ASSUME NEW o \in Threads
        PROVE  /\ \A k : k # "seekDone" => (Holds(tasks'[o], k) <=> Holds(tasks[o], k))
               /\ OkEnds(tasks[o]) => OkEnds(tasks'[o])
               /\ \A p : LastSeek(tasks[o], p) => LastSeek(tasks'[o], p)
    <3>1. CASE o = th
      BY <1>4, <1>5, <3>1
    <3>2. CASE o # th
      BY <1>4, <3>2
    <3> QED
      BY <3>1, <3>2
  <2> QED
    BY <2>1, <2>2
<1>7. Up'
  BY <1>1, <1>3, <1>6, UpKept DEF SeekInv, SeekTyped
<1>8. ASSUME Serial' PROVE Calm' /\ Ends' /\ Route' /\ Told'
  <2>1. Calm /\ Ends /\ Route
    BY <1>1, <1>8 DEF SeekInv, Serial
  <2>2. Calm'
    <3>1. UNCHANGED <<pending, seekingPending, seekTime, pc, answers>>
      BY <1>1 DEF flagVars
    <3>2. \A o \in Threads : OkEnds(tasks'[o])
      BY <1>6, <2>1 DEF Calm
    <3>3. OnItsWay => OnItsWay'
      BY <1>1, <1>6 DEF OnItsWay, SeekTyped
    <3> QED
      BY <1>3, <2>1, <3>1, <3>2, <3>3 DEF Calm
  <2>3. Ends'
    <3>1. OnItsWay => OnItsWay'
      BY <1>1, <1>6 DEF OnItsWay, SeekTyped
    <3>2. demuxer'.aborting => OnItsWay'
      BY <1>3, <2>1, <3>1 DEF Ends
    <3>3. \E o \in Threads : Holds(tasks'[o], "seekDone") \/ pc'[o] = "done"
      BY <1>1, <1>6
    <3> QED
      BY <3>2, <3>3 DEF Ends
  <2>4. Route'
    <3>1. UNCHANGED <<player, latest>>
      BY <1>1
    <3>2. /\ Holds(tasks'["media"], "playerSeek") <=> Holds(tasks["media"], "playerSeek")
          /\ \A p : LastSeek(tasks["media"], p) => LastSeek(tasks'["media"], p)
      BY <1>1, <1>6 DEF SeekTyped
    <3>4. CASE player # <<>>
      BY <2>1, <3>1, <3>4 DEF Route
    <3>5. CASE player = <<>> /\ Holds(tasks["media"], "playerSeek")
      BY <2>1, <3>1, <3>2, <3>5 DEF Route
    <3>6. CASE player = <<>> /\ ~Holds(tasks["media"], "playerSeek")
      BY <1>3, <2>1, <3>1, <3>2, <3>6 DEF Route
    <3> QED
      BY <3>4, <3>5, <3>6
  <2>5. Told'
    BY <1>1, <1>6, ToldLater DEF UnderWay
  <2> QED
    BY <2>2, <2>3, <2>4, <2>5
<1> QED
  BY <1>7, <1>8 DEF SeekInv

\* The player passes a seek on
LEMMA PlayerSeekRoute == ASSUME TypeOK, SeekInv, PlayerSeek PROVE SeekInv'
<1> DEFINE w == [TaskOf("playerSeek") EXCEPT !.time = Head(player)]
           q == tasks["media"]
<1>1. /\ SeekTyped /\ q \in Seq(Task) /\ player # <<>>
      /\ UNCHANGED <<wmp, latest, life, ready, flagVars, pc, demuxer, answers>>
      /\ player' = Tail(player)
  <2>1. SeekTyped
    BY SeekTypedHolds
  <2> QED
    BY <2>1 DEF PlayerSeek, SeekTyped, Queues
<1>2. /\ Head(player) \in Times /\ Len(player) \in Nat \ {0}
      /\ Head(player) = player[1] /\ Len(player') = Len(player) - 1
      /\ \A i \in 1..Len(player') : player'[i] = player[i + 1]
      /\ player' = <<>> <=> Len(player) = 1
  <2>1. player \in Seq(Times) /\ player # <<>> /\ player' = Tail(player)
    BY <1>1 DEF SeekTyped
  <2>2. \A p \in Seq(Times) : p # <<>> =>
          /\ Head(p) \in Times /\ Len(p) \in Nat \ {0} /\ Head(p) = p[1]
          /\ Tail(p) \in Seq(Times) /\ Len(Tail(p)) = Len(p) - 1
          /\ \A i \in 1..Len(Tail(p)) : Tail(p)[i] = p[i + 1]
    OBVIOUS
  <2>3. \A p \in Seq(Times) : p = <<>> <=> Len(p) = 0
    OBVIOUS
  <2>4. /\ Head(player) \in Times /\ Len(player) \in Nat \ {0}
        /\ Head(player) = player[1] /\ Len(player') = Len(player) - 1
        /\ \A i \in 1..Len(player') : player'[i] = player[i + 1]
        /\ player' \in Seq(Times)
    BY <2>1, <2>2
  <2>5. player' = <<>> <=> Len(player) = 1
    BY <2>3, <2>4
  <2> QED
    BY <2>4, <2>5
<1>3. w \in Task /\ w.kind = "playerSeek" /\ w.time = Head(player)
  BY <1>2 DEF TaskOf, Task, Kinds, Media, Statuses, Positions
<1>4. tasks'["media"] = Append(q, w) /\ tasks'["main"] = tasks["main"]
  BY <1>1 DEF PlayerSeek, Post, SeekTyped, Queues
<1> HIDE DEF w, q
<1>5. /\ Holds(tasks'["media"], "playerSeek")
      /\ \A k : Holds(tasks'["media"], k) => Holds(q, k) \/ k = "playerSeek"
      /\ OkEnds(q) => OkEnds(tasks'["media"])
      /\ LastSeek(tasks'["media"], Head(player))
      /\ Holds(q, "seekDone") => Holds(tasks'["media"], "seekDone")
  <2> DEFINE r == Append(q, w)
  <2>1. /\ \A k : Holds(r, k) <=> Holds(q, k) \/ w.kind = k
        /\ OkEnds(q) /\ (w.kind = "seekDone" => w.status = "ok") => OkEnds(r)
        /\ w.kind = "playerSeek" => LastSeek(r, w.time)
    BY <1>1, <1>3, MarksAppended
  <2>2. r = tasks'["media"]
    BY <1>4
  <2> HIDE DEF r
  <2> QED
    BY <1>3, <2>1, <2>2
<1>6. Up'
  <2>1. life = "alive" =>
          demuxer.state = "initialized" /\ ~Holds(q, "initialize")
    BY <1>1 DEF SeekInv, Up, q
  <2> QED
    BY <1>1, <1>5, <2>1 DEF Up
<1>7. ASSUME Serial' PROVE Calm' /\ Ends' /\ Route' /\ Told'
  <2>1. Calm /\ Ends /\ Route
    BY <1>1, <1>7 DEF SeekInv, Serial
  <2>2. Calm'
    <3>1. UNCHANGED <<pending, seekingPending, seekTime, demuxer, pc, answers>>
      BY <1>1 DEF flagVars
    <3>2. \A o \in Threads : OkEnds(tasks'[o])
      BY <1>1, <1>4, <1>5, <2>1 DEF Calm, Threads, q
    <3>3. OnItsWay'
      BY <1>5 DEF OnItsWay
    <3> QED
      BY <2>1, <3>1, <3>2, <3>3 DEF Calm
  <2>3. Ends'
    BY <1>5 DEF Ends, OnItsWay
  <2>4. Route'
    <3>1. latest = player[Len(player)] /\ latest' = latest
      BY <1>1, <2>1 DEF Route
    <3>2. CASE player' # <<>>
      <4>1. Len(player') \in 1..Len(player') /\ Len(player') + 1 = Len(player)
        BY <1>2, <3>2
      <4>2. player'[Len(player')] = latest'
        BY <1>2, <3>1, <4>1
      <4> QED
        BY <3>2, <4>2 DEF Route
    <3>3. CASE player' = <<>>
      BY <1>2, <1>5, <3>1, <3>3 DEF Route
    <3> QED
      BY <3>2, <3>3
  <2>5. Told'
    BY <1>1, <1>5, ToldLater DEF UnderWay, SeekTyped
  <2> QED
    BY <2>2, <2>3, <2>4, <2>5
<1> QED
  BY <1>6, <1>7 DEF SeekInv

\* The demuxer's initialization: its start, the first initialization segment, and
\* the notification of it
LEMMA InitializeRoute ==
  ASSUME LifeInv, SeekInv,
         InitializeDemuxer \/ OnDemuxerInitDone \/ DemuxerInitialized
  PROVE  SeekInv'
<1> DEFINE q == tasks["media"]
<1>1. /\ SeekTyped /\ q \in Seq(Task) /\ LifeTasks(tasks, life)
      /\ UNCHANGED <<wmp, latest, life, flagVars, pc, player, answers>>
  <2>1. SeekTyped /\ LifeTasks(tasks, life)
    BY SeekTypedHolds DEF LifeInv
  <2> QED
    BY <2>1 DEF InitializeDemuxer, OnDemuxerInitDone, DemuxerInitialized,
                playerVars, SeekTyped, Queues
<1>2. /\ demuxer'.cancelNext = demuxer.cancelNext /\ demuxer'.at = demuxer.at
      /\ demuxer'.aborting = demuxer.aborting /\ demuxer'.seekCb = demuxer.seekCb
  BY <1>1 DEF InitializeDemuxer, OnDemuxerInitDone, DemuxerInitialized,
              SeekTyped, Demuxer
<1>3. /\ Popped("media") \in [Threads -> Seq(Task)] \/ DemuxerInitialized
      /\ Popped("media")["media"] = Tail(q)
      /\ Popped("media")["main"] = tasks["main"]
  BY <1>1 DEF Popped, SeekTyped, Queues, InitializeDemuxer, OnDemuxerInitDone, Runs
<1> HIDE DEF q
<1>4. ASSUME life = "alive"
      PROVE  /\ Up'
             /\ \A th \in Threads : AlikeSeeks(tasks[th], tasks'[th])
  <2>1. /\ demuxer.state \in {"new", "initializing", "initialized"}
        /\ Holds(q, "initialize") => demuxer.state = "new"
        /\ \/ ready \/ player # <<>>
           \/ Holds(q, "initDone") \/ Holds(q, "playerSeek")
           => demuxer.state = "initialized"
    BY <1>4 DEF SeekInv, Up, q
  <2>2. \A r : AlikeSeeks(r, r)
    BY DEF AlikeSeeks
  <2>3. q # <<>> /\ Head(q).kind \notin {"playerSeek", "seekDone"} =>
          AlikeSeeks(q, Tail(q))
    BY <1>1, MarksServed DEF AlikeSeeks
  <2>4. CASE InitializeDemuxer
    <3>1. /\ q # <<>> /\ Head(q).kind = "initialize"
      BY <2>4 DEF InitializeDemuxer, Runs, q
    <3>2. demuxer.state = "new"
      <4>1. Holds(q, Head(q).kind)
        BY <1>1, <3>1, MarksServed
      <4> QED
        BY <2>1, <3>1, <4>1
    <3>3. /\ tasks' = Popped("media") /\ demuxer'.state = "initializing"
          /\ ready' = ready
      BY <1>1, <2>4, <3>2 DEF InitializeDemuxer, SeekTyped, Demuxer
    <3>4. ~Holds(Tail(q), "initialize")
      <4>1. ASSUME NEW i \in 1..Len(Tail(q)) PROVE Tail(q)[i].kind # "initialize"
        <5>1. i + 1 \in 1..Len(q) /\ Tail(q)[i] = q[i + 1] /\ i + 1 # 1
          BY <1>1, <3>1
        <5>2. \A j \in 1..Len(q) : q[j].kind = "initialize" => j = 1
          BY <1>1 DEF LifeTasks, q
        <5> QED
          BY <5>1, <5>2
      <4> QED
        BY <4>1 DEF Holds
    <3>5. \A k : Holds(Tail(q), k) => Holds(q, k)
      BY <1>1, <3>1, MarksServed
    <3>6. Up'
      BY <1>1, <1>3, <2>1, <3>2, <3>3, <3>4, <3>5 DEF Up
    <3> QED
      BY <1>3, <2>2, <2>3, <3>1, <3>3, <3>6 DEF Threads, q
  <2>5. CASE OnDemuxerInitDone
    <3>1. /\ q # <<>> /\ Head(q).kind = "initDone" /\ tasks' = Popped("media")
          /\ demuxer' = demuxer
      BY <2>5 DEF OnDemuxerInitDone, Runs, q
    <3>2. demuxer.state = "initialized" /\ ~Holds(q, "initialize")
      <4>1. Holds(q, Head(q).kind)
        BY <1>1, <3>1, MarksServed
      <4> QED
        BY <2>1, <3>1, <4>1
    <3>3. \A k : Holds(Tail(q), k) => Holds(q, k)
      BY <1>1, <3>1, MarksServed
    <3>4. Up'
      BY <1>1, <1>3, <3>1, <3>2, <3>3 DEF Up
    <3> QED
      BY <1>3, <2>2, <2>3, <3>1, <3>4 DEF Threads, q
  <2>6. CASE DemuxerInitialized
    <3>1. PICK s \in Statuses :
            tasks' = Post(tasks, "media", [TaskOf("initDone") EXCEPT !.status = s])
      BY <2>6 DEF DemuxerInitialized, Statuses
    <3> DEFINE w == [TaskOf("initDone") EXCEPT !.status = s]
    <3>2. w \in Task /\ w.kind = "initDone"
      BY DEF TaskOf, Task, Kinds, Media, Statuses, Positions
    <3>3. tasks'["media"] = Append(q, w) /\ tasks'["main"] = tasks["main"]
      BY <1>1, <3>1 DEF Post, SeekTyped, Queues, q
    <3> HIDE DEF w
    <3>4. /\ \A k : Holds(Append(q, w), k) <=> Holds(q, k) \/ w.kind = k
          /\ AlikeSeeks(q, Append(q, w))
      BY <1>1, <3>2, MarksAppended DEF AlikeSeeks
    <3>5. demuxer.state = "initializing" /\ demuxer'.state = "initialized"
      BY <1>1, <2>6 DEF DemuxerInitialized, SeekTyped, Demuxer
    <3>6. Up'
      BY <2>1, <3>2, <3>3, <3>4, <3>5 DEF Up
    <3> QED
      BY <2>2, <3>3, <3>4, <3>6 DEF Threads, q
  <2> QED
    BY <2>4, <2>5, <2>6
<1>5. ASSUME life = "alive"
      PROVE  Serial' => Calm' /\ Ends' /\ Route' /\ Told'
  <2>1. Told => Told'
    BY <1>1, <1>2, <1>4, <1>5, ToldKept DEF AlikeSeeks, SeekTyped
  <2> QED
    BY <1>1, <1>2, <1>4, <1>5, <2>1, SerialKept DEF flagVars
<1>6. life # "alive" => Up' /\ ~Serial'
  BY <1>1 DEF Up, Serial
<1> QED
  BY <1>4, <1>5, <1>6 DEF SeekInv

\* The handlers and events that do not move a seek
LEMMA ThreadRoute == ASSUME LifeInv, SeekInv, Main \/ MediaThread PROVE SeekInv'
<1>1. TypeOK /\ SeekTyped /\ tasks \in Queues
  BY SeekTypedHolds DEF LifeInv, SeekTyped
<1>2. CASE StopDemuxer \/ DeleteSelf
  BY <1>2 DEF StopDemuxer, DeleteSelf, SeekInv, Up, Serial
<1>3. ASSUME NEW th \in Threads, AllowReads(th) PROVE SeekInv'
  <2>1. Alike(tasks, tasks') /\ ~isSeeking'
    BY <1>3, AlikeSame DEF AllowReads
  <2>2. \A o \in Threads : pc'[o] = IF o = th THEN "answer" ELSE pc[o]
    BY <1>1, <1>3 DEF AllowReads, SeekTyped
  <2>3. UNCHANGED <<wmp, latest, life, ready, pending, seekTime, demuxer, player, answers>>
        /\ seekingPending' = FALSE
    BY <1>3 DEF AllowReads, playerVars
  <2>4. CASE seekingPending = FALSE
    <3>1. Told'
      BY <2>2, ToldLater DEF UnderWay
    <3> QED
      BY <1>1, <2>1, <2>2, <2>3, <2>4, <3>1, SeekKept
  <2>5. CASE seekingPending # FALSE
    <3>1. seekingPending
      BY <1>1, <2>5 DEF TypeOK
    <3>2. ~Serial'
      BY <2>3, <3>1 DEF SeekInv, Calm, Serial
    <3>3. Up'
      BY <1>3, <2>3, UpKept DEF SeekInv, AllowReads
    <3> QED
      BY <3>2, <3>3, UpOnly
  <2> QED
    BY <2>4, <2>5
<1>4. ASSUME NEW th \in Threads, AnswerSeek(th) PROVE SeekInv'
  <2> DEFINE a == [time |-> seekTime, at |-> demuxer.at]
  <2>1. Alike(tasks, tasks')
    BY <1>4, AlikeSame DEF AnswerSeek
  <2>2. \A o \in Threads : pc'[o] = IF o = th THEN "idle" ELSE pc[o]
    BY <1>1, <1>4 DEF AnswerSeek, SeekTyped
  <2>3. UNCHANGED <<wmp, latest, life, ready, pending, seekTime, seekingPending,
                    isSeeking, demuxer, player>>
    BY <1>4 DEF AnswerSeek
  <2>4. pc[th] = "answer"
    BY <1>4 DEF AnswerSeek
  <2>5. seekTime = demuxer.at => a.time = a.at
    OBVIOUS
  <2>6. a \in Answer /\ answers \in Seq(Answer) /\ answers' = Append(answers, a)
    BY <1>1, <1>4 DEF AnswerSeek, TypeOK, Answer, Demuxer
  <2> HIDE DEF a
  <2>7. \A i \in 1..Len(answers') : i < Len(answers') \/ answers'[i] = a
    BY <2>6
  <2>8. OnItsWay \/ seekTime = demuxer.at => Told'
    <3>1. OnItsWay => UnderWay'
      BY <1>1, <2>1, <2>3 DEF OnItsWay, UnderWay, Alike, AlikeQueue, Marks, SeekTyped
    <3>2. ASSUME seekTime = demuxer.at PROVE Told'
      BY <2>5, <2>7, <3>2 DEF Told
    <3> QED
      BY <3>1, <3>2, ToldLater
  <2> QED
    BY <1>1, <2>1, <2>2, <2>3, <2>4, <2>8, SeekKept
<1>5. ASSUME NEW th \in Threads, tasks[th] # <<>>, Head(tasks[th]).kind \notin Marks
      PROVE  Alike(tasks, Popped(th)) /\ Popped(th) \in Queues
  BY <1>1, <1>5, AlikeServed, Pop, PoppedIs
<1>9. ASSUME Alike(tasks, tasks'), UNCHANGED <<player, pc, answers>>,
             demuxer'.seekCb = demuxer.seekCb
      PROVE  Told => Told'
  BY <1>1, <1>9, ToldKept DEF Alike, AlikeQueue, Marks, SeekTyped
<1>6. CASE OnSeekStateChange
  <2>1. Alike(tasks, tasks')
    BY <1>1, <1>5, <1>6 DEF OnSeekStateChange, Runs, Marks, SeekTyped
  <2>2. UNCHANGED <<latest, life, ready, flagVars, pc, demuxer, playerVars>>
    BY <1>6 DEF OnSeekStateChange
  <2>3. wmp'.pending = wmp.pending
    BY <1>1, <1>6 DEF OnSeekStateChange, TypeOK, Element
  <2> QED
    BY <1>1, <1>9, <2>1, <2>2, <2>3, SeekKept DEF flagVars, playerVars
<1>7. CASE OnBufferReady
  <2>1. Alike(tasks, tasks')
    BY <1>1, <1>5, <1>7 DEF OnBufferReady, Runs, Marks, SeekTyped
  <2>2. UNCHANGED <<wmp, latest, life, ready, flagVars, pc, demuxer, playerVars>>
    BY <1>7 DEF OnBufferReady
  <2> QED
    BY <1>1, <1>9, <2>1, <2>2, SeekKept DEF flagVars, playerVars
<1>8. CASE OnReadFromDemuxer
  <2> DEFINE ts == Popped("media")
             t == Head(tasks["media"]).type
  <2>1. Alike(tasks, ts) /\ ts \in Queues
    BY <1>1, <1>5, <1>8 DEF OnReadFromDemuxer, Runs, Marks, SeekTyped
  <2>2. t \in Media
    <3>1. Head(tasks["media"]) \in Task
      BY <1>1, <1>8, Pop DEF OnReadFromDemuxer, Runs, SeekTyped
    <3> QED
      BY <3>1 DEF Task
  <2>3. \/ tasks' = ts
        \/ \E s \in Statuses : tasks' =
             Post(ts, "media", [TaskOf("buffer") EXCEPT !.type = t, !.status = s])
    BY <1>8 DEF OnReadFromDemuxer, Statuses
  <2> HIDE DEF ts, t
  <2>4. \A s \in Statuses :
          LET w == [TaskOf("buffer") EXCEPT !.type = t, !.status = s]
          IN  w \in Task /\ w.kind \notin Marks
    BY <2>2 DEF TaskOf, Task, Kinds, Media, Statuses, Positions, Marks
  <2>5. Alike(tasks, tasks')
    <3>1. CASE tasks' = ts
      BY <2>1, <3>1
    <3>2. ASSUME NEW s \in Statuses, tasks' =
             Post(ts, "media", [TaskOf("buffer") EXCEPT !.type = t, !.status = s])
          PROVE  Alike(tasks, tasks')
      <4> DEFINE w == [TaskOf("buffer") EXCEPT !.type = t, !.status = s]
      <4>1. w \in Task /\ w.kind \notin Marks /\ tasks' = Post(ts, "media", w)
        BY <2>4, <3>2, Zenon
      <4> HIDE DEF w
      <4>2. Alike(ts, tasks')
        BY <1>1, <2>1, <4>1, AlikePosted DEF SeekTyped
      <4> QED
        BY <2>1, <4>2, AlikeTwice
    <3> QED
      BY <2>3, <3>1, <3>2
  <2>6. UNCHANGED <<wmp, latest, life, ready, flagVars, pc, playerVars>>
    BY <1>8 DEF OnReadFromDemuxer
  <2>7. /\ demuxer'.state = demuxer.state /\ demuxer'.cancelNext = demuxer.cancelNext
        /\ demuxer'.aborting = demuxer.aborting /\ demuxer'.at = demuxer.at
        /\ demuxer'.seekCb = demuxer.seekCb
    BY <1>1, <1>8 DEF OnReadFromDemuxer, SeekTyped, Demuxer
  <2> QED
    BY <1>1, <1>9, <2>5, <2>6, <2>7, SeekKept DEF flagVars, playerVars
<1> QED
  BY <1>1, <1>2, <1>3, <1>4, <1>6, <1>7, <1>8, CancelRoute, SeekDoneRoute,
     SeekPendingRoute, SeekRequestRoute, InitializeRoute
     DEF Main, MediaThread, SeekTyped

LEMMA EnvironmentRoute == ASSUME LifeInv, SeekInv, Environment PROVE SeekInv'
<1>1. TypeOK /\ SeekTyped
  BY SeekTypedHolds DEF LifeInv
<1>2. ASSUME NEW th \in Threads, NEW w \in Task, w.kind \notin Marks,
             tasks' = Post(tasks, th, w)
      PROVE  Alike(tasks, tasks')
  BY <1>1, <1>2, AlikePosted DEF SeekTyped
<1>3. ASSUME Alike(tasks, tasks'),
             UNCHANGED <<wmp, latest, life, ready, flagVars, pc, player>>,
             demuxer'.state = demuxer.state,
             demuxer'.cancelNext = demuxer.cancelNext,
             demuxer'.aborting = demuxer.aborting, demuxer'.at = demuxer.at,
             demuxer'.seekCb = demuxer.seekCb,
             \/ answers' = answers
             \/ answers # <<>> /\ answers' = Tail(answers)
      PROVE  SeekInv'
  <2>1. Told => Told'
    BY <1>1, <1>3, ToldKept DEF Alike, AlikeQueue, Marks, SeekTyped
  <2> QED
    BY <1>1, <1>3, <2>1, SeekKept DEF flagVars
<1>4. CASE \E t \in Types : DemuxerRead(t)
  <2>1. PICK t \in Types : DemuxerRead(t)
    BY <1>4
  <2>2. PICK s \in Statuses : tasks' =
          Post(tasks, "media", [TaskOf("buffer") EXCEPT !.type = t, !.status = s])
    BY <2>1 DEF DemuxerRead, Statuses
  <2> DEFINE w == [TaskOf("buffer") EXCEPT !.type = t, !.status = s]
  <2>3. w \in Task /\ w.kind \notin Marks
    BY TypesAssumption DEF TaskOf, Task, Kinds, Media, Statuses, Positions, Marks
  <2>4. tasks' = Post(tasks, "media", w)
    BY <2>2
  <2> HIDE DEF w
  <2>5. Alike(tasks, tasks')
    BY <1>1, <1>2, <2>3, <2>4 DEF SeekTyped
  <2>6. UNCHANGED <<wmp, latest, life, ready, flagVars, pc, playerVars>>
    BY <2>1 DEF DemuxerRead
  <2>7. /\ demuxer'.state = demuxer.state /\ demuxer'.cancelNext = demuxer.cancelNext
        /\ demuxer'.aborting = demuxer.aborting /\ demuxer'.at = demuxer.at
        /\ demuxer'.seekCb = demuxer.seekCb
    BY <1>1, <2>1 DEF DemuxerRead, SeekTyped, Demuxer
  <2> QED
    BY <1>3, <2>5, <2>6, <2>7 DEF playerVars
<1>5. \A k \in {"seekTrue", "seekFalse", "timeChanged"} :
        TaskOf(k) \in Task /\ TaskOf(k).kind \notin Marks
        /\ TaskOf(k).kind \notin LifeKinds
  BY DEF TaskOf, Task, Kinds, Media, Statuses, Positions, Marks, LifeKinds
<1>6. CASE PlayerSeekDone \/ PlayerComplete
  <2>1. PICK k \in {"seekTrue", "timeChanged"} :
          tasks' = Post(tasks, "main", TaskOf(k))
    BY <1>6 DEF PlayerSeekDone, PlayerComplete
  <2>2. Alike(tasks, tasks')
    BY <1>1, <1>2, <1>5, <2>1 DEF SeekTyped
  <2>3. /\ UNCHANGED <<wmp, latest, life, ready, flagVars, pc, demuxer, player>>
        /\ \/ answers' = answers
           \/ answers # <<>> /\ answers' = Tail(answers)
    BY <1>6 DEF PlayerSeekDone, PlayerComplete, playerVars
  <2> QED
    BY <1>3, <2>2, <2>3
<1>7. CASE PlayerAsyncDone
  <2> DEFINE us == Post(tasks, "main", TaskOf("seekFalse"))
  <2>1. us \in Queues /\ Alike(tasks, us)
    BY <1>1, <1>5, AlikePosted, GrewPost DEF SeekTyped
  <2>2. tasks' = Post(us, "main", TaskOf("timeChanged"))
        /\ UNCHANGED <<wmp, latest, life, ready, flagVars, pc, demuxer, player, answers>>
    BY <1>7 DEF PlayerAsyncDone
  <2> HIDE DEF us
  <2>3. Alike(us, tasks')
    BY <1>1, <1>5, <2>1, <2>2, AlikePosted DEF SeekTyped
  <2>4. Alike(tasks, tasks')
    BY <2>1, <2>3, AlikeTwice
  <2> QED
    BY <1>3, <2>2, <2>4
<1>8. CASE \E t \in Types : PlayerRead(t)
  <2>1. PICK t \in Types : PlayerRead(t)
    BY <1>8
  <2> DEFINE w == [TaskOf("read") EXCEPT !.type = t]
  <2>2. w \in Task /\ w.kind \notin Marks
    BY TypesAssumption DEF TaskOf, Task, Kinds, Media, Statuses, Positions, Marks
  <2>3. tasks' = Post(tasks, "media", w)
        /\ UNCHANGED <<wmp, latest, life, ready, flagVars, pc, demuxer, playerVars>>
    BY <2>1 DEF PlayerRead
  <2> HIDE DEF w
  <2>4. Alike(tasks, tasks')
    BY <1>1, <1>2, <2>2, <2>3 DEF SeekTyped
  <2> QED
    BY <1>3, <2>3, <2>4 DEF playerVars
<1> QED
  BY <1>1, <1>4, <1>6, <1>7, <1>8, InitializeRoute, SoughtRoute, PlayerSeekRoute
     DEF Environment

LEMMA NextRoute == LifeInv /\ SeekInv /\ [Next]_vars => SeekInv'
<1> SUFFICES ASSUME LifeInv, SeekInv, [Next]_vars PROVE SeekInv'
  OBVIOUS
<1>1. CASE UNCHANGED vars
  BY <1>1 DEF vars, SeekInv, Up, Serial, Calm, Ends, Route, OnItsWay, Told, UnderWay
<1>2. TypeOK
  BY DEF LifeInv
<1>3. CASE Page
  <2>1. Destroy => SeekInv'
    BY DEF Destroy, SeekInv, Up, Serial
  <2> QED
    BY <1>2, <1>3, <2>1, SeekFirstRoute, SeekAgainRoute DEF Page
<1> QED
  BY <1>1, <1>3, ThreadRoute, EnvironmentRoute DEF Next

LEMMA InitRoute == Init => SeekInv
<1> SUFFICES ASSUME Init PROVE SeekInv
  OBVIOUS
<1>1. /\ tasks["media"] = <<TaskOf("initialize")>> /\ tasks["main"] = <<>>
      /\ \A th \in Threads : pc[th] = "idle"
      /\ TaskOf("initialize").kind = "initialize"
  BY DEF Init, TaskOf
<1>2. \A k : Holds(tasks["media"], k) => k = "initialize"
  BY <1>1 DEF Holds
<1>3. \A th \in Threads : OkEnds(tasks[th])
  BY <1>1 DEF OkEnds, Threads
<1>4. /\ player = <<>> /\ answers = <<>> /\ ~ready /\ demuxer.state = "new"
      /\ ~pending.set /\ ~seekingPending /\ ~demuxer.cancelNext /\ ~isSeeking
      /\ seekTime = Start /\ demuxer.at = Start /\ latest = Start
      /\ ~demuxer.aborting
  BY DEF Init
<1>5. Up
  BY <1>2, <1>4 DEF Up
<1>6. Calm
  BY <1>1, <1>3, <1>4 DEF Calm
<1>7. Ends
  BY <1>4 DEF Ends
<1>8. Route
  BY <1>2, <1>4 DEF Route
<1>9. Told
  BY <1>4 DEF Told
<1> QED
  BY <1>5, <1>6, <1>7, <1>8, <1>9 DEF SeekInv

\* As long as the page never seeks while the element seeks, the last position the
\* player is told of is where the demuxer's streams are, although the sources move
\* while an earlier seek is answered.
THEOREM AnswersAreTrue == Spec => []AnswerTrue
<1>1. LifeInv /\ SeekInv => AnswerTrue
  BY DEF AnswerTrue, SeekInv, Serial, Told
<1> QED
  BY <1>1, InitLife, NextLife, InitRoute, NextRoute, PTL DEF Spec

\* And when nothing is left to happen for such seeks, player and streams are where
\* the page wants them, reads are accepted and the demuxer no longer aborts them.
THEOREM SerialSeeksEnd == Spec => []SerialSeeks
<1>1. LifeInv /\ SeekInv => SerialSeeks
  <2> SUFFICES ASSUME LifeInv, SeekInv, ~wmp.pending, Settled
               PROVE  /\ seekTime = latest /\ demuxer.at = latest
                      /\ ~isSeeking /\ ~demuxer.aborting
    BY DEF SerialSeeks
  <2>1. /\ life = "alive" /\ player = <<>> /\ demuxer.seekCb = "none"
        /\ \A th \in Threads : pc[th] = "idle" /\ tasks[th] = <<>>
    BY DEF Settled
  <2>2. Calm /\ Ends /\ Route
    BY <2>1 DEF SeekInv, Serial
  <2>3. \A k : \A th \in Threads : ~Holds(tasks[th], k)
    <3>1. Len(<<>>) = 0
      OBVIOUS
    <3> QED
      BY <2>1, <3>1 DEF Holds
  <2>4. ~Holds(tasks["media"], "playerSeek")
    BY <2>3 DEF Threads
  <2>5. demuxer.at = latest
    BY <2>1, <2>2, <2>4 DEF Route
  <2>8. seekTime = demuxer.at
    BY <2>1, <2>2, <2>4 DEF Calm, OnItsWay
  <2>6. ~demuxer.aborting
    BY <2>1, <2>2, <2>4 DEF Ends, OnItsWay
  <2>7. ~isSeeking
    BY <2>1, <2>2, <2>3, <2>4 DEF Ends, OnItsWay
  <2> QED
    BY <2>5, <2>6, <2>7, <2>8
<1> QED
  BY <1>1, InitLife, NextLife, InitRoute, NextRoute, PTL DEF Spec
=============================================================================
