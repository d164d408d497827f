------------------------ MODULE VideoEncoder_proofs ------------------------
(***************************************************************************)
(* Proofs about VideoEncoder for any number of buffers and frames.         *)
(***************************************************************************)
EXTENDS VideoEncoder, TLAPS

LEMMA EncoderInitType == EncoderInit => EncoderTypeOK
<1> SUFFICES ASSUME EncoderInit PROVE EncoderTypeOK
  OBVIOUS
<1>1. made \in 0..MaxFrames /\ input \in Nat
  BY EncoderAssumption DEF EncoderInit
<1>2. encTasks \in Seq(Task)
  BY DEF EncoderInit
<1>3. outputQueue \in Seq(OutputBuffers) /\ readyBuffers \in Seq(OutputBuffers)
  BY DEF EncoderInit
<1>4. /\ encCanFeed \in BOOLEAN /\ forceKey \in BOOLEAN
      /\ drop \in BOOLEAN /\ encAborted \in BOOLEAN
  BY Zenon DEF EncoderInit
<1>5. {keys, delivered, lost} \subseteq SUBSET Frames
  BY DEF EncoderInit
<1>6. outputAt \in [OutputBuffers -> {"client", "given", "ready", "lost"}]
  BY DEF EncoderInit
<1>7. encPhase \in {"new", "running", "stopping", "stopped", "destroyed"}
  BY DEF EncoderInit
<1> QED
  BY <1>1, <1>2, <1>3, <1>4, <1>5, <1>6, <1>7, Zenon DEF EncoderTypeOK

\* A task that is posted or run leaves the queue a queue of tasks.
LEMMA PostType ==
  ASSUME encTasks \in Seq(Task), NEW t \in Task, Post(t)
  PROVE  encTasks' \in Seq(Task)
BY DEF Post

LEMMA RunType ==
  ASSUME encTasks \in Seq(Task), NEW op, Run(op)
  PROVE  encTasks' \in Seq(Task) /\ Head(encTasks) \in Task
                                 /\ Head(encTasks).op = op
BY DEF Run

LEMMA TaskFields ==
  ASSUME NEW t \in Task
  PROVE  /\ t.op = "use" => t.b \in OutputBuffers
         /\ t.op = "deliver" => t.n \in Frames
BY DEF Task

LEMMA EncoderNextType ==
  ASSUME EncoderTypeOK, [EncoderNext]_encoderVars
  PROVE  EncoderTypeOK'
<1>1. CASE InitializeEncoder \/ DestroyEncoder \/ ThreadStopped
  BY <1>1 DEF InitializeEncoder, DestroyEncoder, ThreadStopped, EncoderTypeOK
<1>2. ASSUME NEW force \in BOOLEAN, Encode(force) PROVE EncoderTypeOK'
  <2>1. [op |-> "encode", force |-> force] \in Task
    BY <1>2, Zenon DEF Task
  <2>2. encTasks' \in Seq(Task)
    BY <2>1, <1>2, PostType DEF Encode, EncoderTypeOK
  <2>3. UNCHANGED <<encPhase, encCanFeed, input, forceKey, drop, outputQueue,
                    readyBuffers, outputAt, made, keys, delivered, lost,
                    encAborted>>
    BY <1>2 DEF Encode
  <2> QED
    BY <2>2, <2>3 DEF EncoderTypeOK
<1>3. ASSUME NEW b \in OutputBuffers, UseOutputBitstreamBuffer(b)
      PROVE  EncoderTypeOK'
  <2>1. [op |-> "use", b |-> b] \in Task
    BY <1>3, Zenon DEF Task
  <2>2. encTasks' \in Seq(Task)
    BY <2>1, <1>3, PostType DEF UseOutputBitstreamBuffer, EncoderTypeOK
  <2>3. outputAt' \in [OutputBuffers -> {"client", "given", "ready", "lost"}]
    BY <1>3 DEF UseOutputBitstreamBuffer, EncoderTypeOK
  <2>4. UNCHANGED <<encPhase, encCanFeed, input, forceKey, drop, outputQueue,
                    readyBuffers, made, keys, delivered, lost, encAborted>>
    BY <1>3 DEF UseOutputBitstreamBuffer
  <2> QED
    BY <2>2, <2>3, <2>4 DEF EncoderTypeOK
<1>4. CASE BitstreamBufferReady
  <2>1. readyBuffers' \in Seq(OutputBuffers)
    BY <1>4 DEF BitstreamBufferReady, EncoderTypeOK
  <2>2. outputAt' \in [OutputBuffers -> {"client", "given", "ready", "lost"}]
    BY <1>4 DEF BitstreamBufferReady, EncoderTypeOK
  <2>3. UNCHANGED <<encPhase, encCanFeed, encTasks, input, forceKey, drop,
                    outputQueue, made, keys, delivered, lost, encAborted>>
    BY <1>4 DEF BitstreamBufferReady
  <2> QED
    BY <2>1, <2>2, <2>3 DEF EncoderTypeOK
<1>5. CASE DestroyEncoderEnds
  BY <1>5 DEF DestroyEncoderEnds, EncoderTypeOK
<1>6. CASE OnEncode
  <2>1. encTasks' \in Seq(Task) /\ input' \in Nat
    BY <1>6, RunType DEF OnEncode, EncoderTypeOK
  <2>2. forceKey' \in BOOLEAN
    BY <1>6, Zenon DEF OnEncode
  <2>3. UNCHANGED <<encPhase, encCanFeed, drop, outputQueue, readyBuffers,
                    outputAt, made, keys, delivered, lost, encAborted>>
    BY <1>6 DEF OnEncode
  <2> QED
    BY <2>1, <2>2, <2>3 DEF EncoderTypeOK
<1>7. CASE OnUseOutputBitstreamBuffer
  <2>1. encTasks' \in Seq(Task) /\ Head(encTasks).b \in OutputBuffers
    BY <1>7, RunType, TaskFields DEF OnUseOutputBitstreamBuffer, EncoderTypeOK
  <2>2. outputQueue' \in Seq(OutputBuffers)
    BY <1>7, <2>1 DEF OnUseOutputBitstreamBuffer, EncoderTypeOK
  <2>3. UNCHANGED <<encPhase, encCanFeed, input, forceKey, drop, readyBuffers,
                    outputAt, made, keys, delivered, lost, encAborted>>
    BY <1>7 DEF OnUseOutputBitstreamBuffer
  <2> QED
    BY <2>1, <2>2, <2>3 DEF EncoderTypeOK
<1>8. CASE DeliverVideoFrame
  <2> DEFINE n == Head(encTasks).n
             b == outputQueue[Len(outputQueue)]
  <2>1. encTasks' \in Seq(Task) /\ n \in Frames
    BY <1>8, RunType, TaskFields DEF DeliverVideoFrame, EncoderTypeOK
  <2>2. UNCHANGED <<encPhase, encCanFeed, input, forceKey, made, keys,
                    encAborted>>
    BY <1>8 DEF DeliverVideoFrame
  <2>3. CASE /\ DropFrame(n)
             /\ UNCHANGED <<outputQueue, readyBuffers, outputAt, delivered,
                            lost>>
    <3>1. drop' \in BOOLEAN
      BY <2>3, Zenon DEF DropFrame, EncoderTypeOK
    <3> QED
      BY <2>1, <2>2, <2>3, <3>1 DEF EncoderTypeOK
  <2>4. ASSUME FillBuffer(n)
        PROVE  /\ b \in OutputBuffers /\ drop' \in BOOLEAN
               /\ outputQueue' \in Seq(OutputBuffers)
    <3>1. outputQueue \in Seq(OutputBuffers) /\ outputQueue # <<>>
      BY <2>4 DEF FillBuffer, EncoderTypeOK
    <3>2. drop' \in BOOLEAN
      BY <2>4, Zenon DEF FillBuffer
    <3>3. Len(outputQueue) \in 1..Len(outputQueue)
      BY <3>1
    <3>4. outputQueue' \in Seq(OutputBuffers)
      BY <2>4, <3>1, <3>3 DEF FillBuffer
    <3> QED
      BY <3>1, <3>2, <3>3, <3>4
  <2>5. CASE /\ FillBuffer(n)
             /\ delivered' = delivered \cup {n} /\ UNCHANGED lost
             /\ readyBuffers' = Append(readyBuffers, b)
             /\ outputAt' = [outputAt EXCEPT ![b] = "ready"]
    BY <2>1, <2>2, <2>4, <2>5 DEF EncoderTypeOK
  <2>6. CASE /\ FillBuffer(n) /\ lost' = lost \cup {n}
             /\ outputAt' = [outputAt EXCEPT ![b] = "lost"]
             /\ UNCHANGED <<delivered, readyBuffers>>
    BY <2>1, <2>2, <2>4, <2>6 DEF EncoderTypeOK
  <2> QED
    BY <1>8, <2>3, <2>5, <2>6 DEF DeliverVideoFrame
<1>9. ASSUME NEW key \in BOOLEAN, OnEncoded(key) PROVE EncoderTypeOK'
  <2>1. made + 1 \in Frames /\ made' \in 0..MaxFrames /\ input' \in Nat
    BY <1>9, EncoderAssumption DEF OnEncoded, EncoderTypeOK, Frames
  <2>2. keys' \in SUBSET Frames /\ lost' \in SUBSET Frames
    BY <1>9, <2>1 DEF OnEncoded, EncoderTypeOK
  <2>3. [op |-> "deliver", n |-> made + 1] \in Task
    BY <2>1, Zenon DEF Task
  <2>4. encTasks' \in Seq(Task)
    BY <1>9, <2>3, PostType DEF OnEncoded, EncoderTypeOK
  <2>5. encAborted' \in BOOLEAN
    BY <1>9, Zenon DEF OnEncoded, EncoderTypeOK
  <2>6. UNCHANGED <<encPhase, encCanFeed, forceKey, drop, outputQueue,
                    readyBuffers, outputAt, delivered>>
    BY <1>9 DEF OnEncoded
  <2> QED
    BY <2>1, <2>2, <2>4, <2>5, <2>6 DEF EncoderTypeOK
<1>10. CASE SetCanFeed
  <2>1. encCanFeed' \in BOOLEAN
    BY <1>10, Zenon DEF SetCanFeed
  <2>2. UNCHANGED <<encPhase, encTasks, input, forceKey, drop, outputQueue,
                    readyBuffers, outputAt, made, keys, delivered, lost,
                    encAborted>>
    BY <1>10 DEF SetCanFeed
  <2> QED
    BY <2>1, <2>2 DEF EncoderTypeOK
<1>11. CASE UNCHANGED encoderVars
  BY <1>11 DEF encoderVars, EncoderTypeOK
<1> QED
  BY <1>1, <1>2, <1>3, <1>4, <1>5, <1>6, <1>7, <1>8, <1>9, <1>10, <1>11
     DEF EncoderNext, EncoderTask

(***************************************************************************)
(* Every reachable state of the encoder is well typed.                     *)
(***************************************************************************)
THEOREM EncoderTypeCorrect == EncoderSpec => []EncoderTypeOK
<1>1. EncoderTypeOK /\ [EncoderNext]_encoderVars => EncoderTypeOK'
  BY EncoderNextType
<1> QED
  BY <1>1, EncoderInitType, PTL DEF EncoderSpec
----------------------------------------------------------------------------
(***************************************************************************)
(* Frames are delivered in the encoder's order. Of a frame n, with the     *)
(* first k tasks of q before it: it was delivered or lost (it is in g), or *)
(* it is among those tasks, or it was dropped and nothing is delivered     *)
(* since (d is enable_framedrop_). So it is of the predecessor of each     *)
(* frame in the queue, and of the last frame made, m, as long as more are  *)
(* posted (o).                                                             *)
(***************************************************************************)
Delivers(q, i) == q[i].op = "deliver"

Passed(q, g, d, n, k) ==
  \/ n \in g
  \/ \E j \in 1..k : Delivers(q, j) /\ q[j].n = n
  \/ d /\ \A j \in 1..k : ~Delivers(q, j)

Ordered(q, m) ==
  /\ \A i \in 1..Len(q) : Delivers(q, i) => q[i].n \in 1..m
  /\ \A i, j \in 1..Len(q) :
       i < j /\ Delivers(q, i) /\ Delivers(q, j) => q[i].n < q[j].n

Unbroken(q, g, d, m, o) ==
  /\ \A i \in 1..Len(q) :
       Delivers(q, i) /\ q[i].n > 1 => Passed(q, g, d, q[i].n - 1, i - 1)
  /\ o /\ m > 0 => Passed(q, g, d, m, Len(q))

EncoderInv ==
  /\ EncoderTypeOK /\ Decodable
  /\ Ordered(encTasks, made)
  /\ Unbroken(encTasks, delivered \cup lost, drop, made,
              encPhase \in {"new", "running"})
  /\ encPhase = "new" => made = 0

LEMMA AppendFacts ==
  ASSUME NEW q \in Seq(Task), NEW t \in Task, NEW r, r = Append(q, t)
  PROVE  /\ r \in Seq(Task) /\ Len(q) \in Nat /\ Len(r) = Len(q) + 1
         /\ \A i \in 1..Len(q) : r[i] = q[i]
         /\ r[Len(q) + 1] = t
OBVIOUS

LEMMA TailFacts ==
  ASSUME NEW q \in Seq(Task), q # <<>>, NEW r, r = Tail(q)
  PROVE  /\ r \in Seq(Task) /\ Len(r) \in Nat /\ Len(q) = Len(r) + 1
         /\ \A i \in 1..Len(r) : r[i] = q[i + 1]
         /\ q[1] = Head(q)
OBVIOUS

\* What was passed stays so when a task is posted behind.
LEMMA PassedAppend ==
  ASSUME NEW q \in Seq(Task), NEW t \in Task, NEW r, r = Append(q, t),
         NEW g, NEW d \in BOOLEAN, NEW n \in Nat, NEW k \in 0..Len(q),
         Passed(q, g, d, n, k)
  PROVE  /\ Passed(r, g, d, n, k)
         /\ k = Len(q) /\ t.op # "deliver" => Passed(r, g, d, n, Len(r))
<1>1. /\ Len(q) \in Nat /\ Len(r) = Len(q) + 1 /\ r[Len(q) + 1] = t
      /\ \A i \in 1..Len(q) : r[i] = q[i]
  BY AppendFacts
<1>2. \A j \in 1..k : r[j] = q[j] /\ Delivers(r, j) = Delivers(q, j)
  BY <1>1 DEF Delivers
<1>3. Passed(r, g, d, n, k)
  BY <1>2 DEF Passed
<1>4. ASSUME k = Len(q), t.op # "deliver" PROVE Passed(r, g, d, n, Len(r))
  <2>1. 1..Len(r) = 1..k \cup {Len(r)} /\ ~Delivers(r, Len(r))
    BY <1>1, <1>4 DEF Delivers
  <2> QED
    BY <1>3, <2>1 DEF Passed
<1> QED
  BY <1>3, <1>4

\* A task that delivers no frame is posted.
LEMMA OtherPosted ==
  ASSUME NEW q \in Seq(Task), NEW t \in Task, t.op # "deliver",
         NEW g, NEW d \in BOOLEAN, NEW m \in Nat, NEW o \in BOOLEAN,
         Ordered(q, m), Unbroken(q, g, d, m, o)
  PROVE  Ordered(Append(q, t), m) /\ Unbroken(Append(q, t), g, d, m, o)
<1> DEFINE r == Append(q, t)
<1>1. /\ Len(q) \in Nat /\ Len(r) = Len(q) + 1 /\ r[Len(q) + 1] = t
      /\ \A i \in 1..Len(q) : r[i] = q[i]
  BY AppendFacts
<1>2. \A i \in 1..Len(r) : Delivers(r, i)
        => i \in 1..Len(q) /\ r[i] = q[i] /\ Delivers(q, i)
  BY <1>1 DEF Delivers
<1> HIDE DEF r
<1>3. Ordered(r, m)
  BY <1>2 DEF Ordered
<1>4. ASSUME NEW i \in 1..Len(r), Delivers(r, i), r[i].n > 1
      PROVE  Passed(r, g, d, r[i].n - 1, i - 1)
  <2>1. i \in 1..Len(q) /\ r[i] = q[i] /\ Delivers(q, i)
    BY <1>4, <1>2
  <2>2. Passed(q, g, d, q[i].n - 1, i - 1) /\ q[i].n \in 1..m
    BY <2>1, <1>4 DEF Unbroken, Ordered
  <2>3. q[i].n - 1 \in Nat /\ i - 1 \in 0..Len(q)
    BY <2>1, <2>2, <1>1
  <2> QED
    BY <2>1, <2>2, <2>3, PassedAppend DEF r
<1>5. ASSUME o, m > 0 PROVE Passed(r, g, d, m, Len(r))
  <2>1. Passed(q, g, d, m, Len(q)) /\ Len(q) \in 0..Len(q)
    BY <1>5, <1>1 DEF Unbroken
  <2> QED
    BY <2>1, PassedAppend DEF r
<1> QED
  BY <1>3, <1>4, <1>5 DEF Unbroken, r

\* The next frame made is posted.
LEMMA FramePosted ==
  ASSUME NEW q \in Seq(Task), NEW t \in Task, NEW m \in Nat,
         t.op = "deliver", t.n = m + 1, NEW g, NEW d \in BOOLEAN,
         Ordered(q, m), Unbroken(q, g, d, m, TRUE)
  PROVE  /\ Ordered(Append(q, t), m + 1)
         /\ Unbroken(Append(q, t), g, d, m + 1, TRUE)
<1> DEFINE r == Append(q, t)
<1>1. /\ Len(q) \in Nat /\ Len(r) = Len(q) + 1 /\ r[Len(q) + 1] = t
      /\ \A i \in 1..Len(q) : r[i] = q[i]
  BY AppendFacts
<1> HIDE DEF r
<1>2. \A i \in 1..Len(r) : i = Len(r) \/ i \in 1..Len(q)
  BY <1>1
<1>3. \A i \in 1..Len(q) : r[i] = q[i] /\ Delivers(r, i) = Delivers(q, i)
  BY <1>1 DEF Delivers
<1>4. Ordered(r, m + 1)
  <2>1. ASSUME NEW i \in 1..Len(r), Delivers(r, i) PROVE r[i].n \in 1..(m + 1)
    BY <2>1, <1>1, <1>2, <1>3 DEF Ordered
  <2>2. ASSUME NEW i \in 1..Len(r), NEW j \in 1..Len(r), i < j,
               Delivers(r, i), Delivers(r, j)
        PROVE  r[i].n < r[j].n
    <3>1. i \in 1..Len(q) /\ r[i] = q[i] /\ Delivers(q, i) /\ q[i].n \in 1..m
      BY <2>2, <1>1, <1>3 DEF Ordered
    <3>2. CASE j = Len(r)
      BY <3>1, <3>2, <1>1
    <3>3. CASE j \in 1..Len(q)
      BY <3>1, <3>3, <2>2, <1>3 DEF Ordered
    <3> QED
      BY <3>2, <3>3, <1>2
  <2> QED
    BY <2>1, <2>2 DEF Ordered
<1>5. ASSUME NEW i \in 1..Len(r), Delivers(r, i), r[i].n > 1
      PROVE  Passed(r, g, d, r[i].n - 1, i - 1)
  <2>1. CASE i \in 1..Len(q)
    <3>1. r[i] = q[i] /\ Delivers(q, i)
      BY <2>1, <1>3, <1>5
    <3>2. Passed(q, g, d, q[i].n - 1, i - 1) /\ q[i].n \in 1..m
      BY <3>1, <2>1, <1>5 DEF Unbroken, Ordered
    <3>3. q[i].n - 1 \in Nat /\ i - 1 \in 0..Len(q)
      BY <2>1, <3>2, <1>1
    <3> QED
      BY <3>1, <3>2, <3>3, PassedAppend DEF r
  <2>2. CASE i = Len(r)
    <3>1. r[i].n - 1 = m /\ i - 1 = Len(q) /\ m > 0
      BY <2>2, <1>1, <1>5
    <3>2. Passed(q, g, d, m, Len(q)) /\ Len(q) \in 0..Len(q)
      BY <3>1, <1>1 DEF Unbroken
    <3>3. Passed(r, g, d, m, Len(q))
      BY <3>2, PassedAppend DEF r
    <3> QED
      BY <3>1, <3>3
  <2> QED
    BY <2>1, <2>2, <1>2
<1>6. Passed(r, g, d, m + 1, Len(r))
  <2>1. Len(r) \in 1..Len(r) /\ Delivers(r, Len(r)) /\ r[Len(r)].n = m + 1
    BY <1>1 DEF Delivers
  <2> QED
    BY <2>1 DEF Passed
<1> QED
  BY <1>4, <1>5, <1>6 DEF Unbroken, r

\* The next frame made is lost before it is posted.
LEMMA FrameLost ==
  ASSUME NEW q \in Seq(Task), NEW m \in Nat, NEW g, NEW d \in BOOLEAN,
         NEW o \in BOOLEAN, Ordered(q, m), Unbroken(q, g, d, m, o)
  PROVE  /\ Ordered(q, m + 1)
         /\ Unbroken(q, g \cup {m + 1}, d, m + 1, o)
<1>1. \A n, k : Passed(q, g, d, n, k) => Passed(q, g \cup {m + 1}, d, n, k)
  BY DEF Passed
<1>2. Passed(q, g \cup {m + 1}, d, m + 1, Len(q))
  BY DEF Passed
<1>3. Ordered(q, m + 1)
  BY DEF Ordered
<1> QED
  BY <1>1, <1>2, <1>3 DEF Unbroken

\* Nothing is posted any more.
LEMMA FrameForgotten ==
  ASSUME NEW q \in Seq(Task), NEW m \in Nat, NEW g, NEW d \in BOOLEAN,
         NEW o \in BOOLEAN, Ordered(q, m), Unbroken(q, g, d, m, o)
  PROVE  /\ Ordered(q, m + 1) /\ Unbroken(q, g, d, m + 1, FALSE)
         /\ Unbroken(q, g, d, m, FALSE)
BY DEF Ordered, Unbroken

\* The first task leaves, and with it what it delivers is delivered or lost
\* (in h), or dropped (e).
LEMMA TaskRuns ==
  ASSUME NEW q \in Seq(Task), q # <<>>, NEW m \in Nat, NEW g, NEW h,
         NEW d \in BOOLEAN, NEW e \in BOOLEAN, NEW o \in BOOLEAN,
         Ordered(q, m), Unbroken(q, g, d, m, o), g \subseteq h,
         \/ Head(q).op # "deliver" /\ e = d
         \/ Head(q).op = "deliver" /\ (e \/ Head(q).n \in h)
  PROVE  Ordered(Tail(q), m) /\ Unbroken(Tail(q), h, e, m, o)
<1> DEFINE r == Tail(q)
<1>1. /\ Len(r) \in Nat /\ Len(q) = Len(r) + 1 /\ q[1] = Head(q)
      /\ \A i \in 1..Len(r) : r[i] = q[i + 1]
  BY TailFacts
<1> HIDE DEF r
<1>2. \A i \in 1..Len(r) : i + 1 \in 1..Len(q) /\ Delivers(r, i)
                           = Delivers(q, i + 1)
  BY <1>1 DEF Delivers
<1>3. Ordered(r, m)
  <2>1. ASSUME NEW i \in 1..Len(r), Delivers(r, i) PROVE r[i].n \in 1..m
    BY <2>1, <1>1, <1>2 DEF Ordered
  <2>2. ASSUME NEW i \in 1..Len(r), NEW j \in 1..Len(r), i < j,
               Delivers(r, i), Delivers(r, j)
        PROVE  r[i].n < r[j].n
    <3>1. i + 1 \in 1..Len(q) /\ j + 1 \in 1..Len(q) /\ i + 1 < j + 1
          /\ Delivers(q, i + 1) /\ Delivers(q, j + 1)
      BY <2>2, <1>2
    <3>2. q[i + 1].n < q[j + 1].n
      BY <3>1 DEF Ordered
    <3> QED
      BY <3>2, <1>1
  <2> QED
    BY <2>1, <2>2 DEF Ordered
<1>4. ASSUME NEW k \in 0..Len(r), NEW n \in 1..m, Passed(q, g, d, n, k + 1),
             \A j \in 2..(k + 1) : Delivers(q, j) => q[j].n <= n
      PROVE  Passed(r, h, e, n, k)
  <2>1. CASE n \in g
    BY <2>1 DEF Passed
  <2>2. CASE \E j \in 1..(k + 1) : Delivers(q, j) /\ q[j].n = n
    <3>1. PICK j \in 1..(k + 1) : Delivers(q, j) /\ q[j].n = n
      BY <2>2
    <3>2. CASE j > 1
      <4>1. j - 1 \in 1..k /\ j - 1 \in 1..Len(r)
        BY <3>1, <3>2, <1>1
      <4>2. r[j - 1] = q[j] /\ Delivers(r, j - 1)
        BY <4>1, <3>1, <1>1 DEF Delivers
      <4> QED
        BY <4>1, <4>2, <3>1 DEF Passed
    <3>3. CASE j = 1
      <4>1. Head(q).op = "deliver" /\ Head(q).n = n /\ Delivers(q, 1)
        BY <3>1, <3>3, <1>1 DEF Delivers
      <4>2. CASE n \in h
        BY <4>2 DEF Passed
      <4>3. CASE e
        <5>1. ASSUME NEW i \in 1..k, Delivers(r, i) PROVE FALSE
          <6>1. /\ i + 1 \in 1..Len(q) /\ Delivers(q, i + 1)
                /\ 1 \in 1..Len(q) /\ 1 < i + 1 /\ i + 1 \in 2..(k + 1)
            BY <5>1, <1>1, <1>2
          <6>2. q[1].n < q[i + 1].n /\ q[i + 1].n \in 1..m
            BY <6>1, <4>1 DEF Ordered
          <6>3. q[i + 1].n <= n
            BY <6>1, <1>4
          <6> QED
            BY <6>2, <6>3, <4>1, <1>1
        <5> QED
          BY <5>1, <4>3 DEF Passed
      <4> QED
        BY <4>1, <4>2, <4>3
    <3> QED
      BY <3>2, <3>3
  <2>3. CASE d /\ \A j \in 1..(k + 1) : ~Delivers(q, j)
    <3>1. ~Delivers(q, 1)
      BY <2>3, <1>4
    <3>2. Head(q).op # "deliver"
      BY <3>1, <1>1 DEF Delivers
    <3>3. e
      BY <3>2, <2>3, Zenon
    <3>4. ASSUME NEW i \in 1..k PROVE ~Delivers(r, i)
      <4>1. i \in 1..Len(r) /\ i + 1 \in 1..(k + 1)
        BY <3>4, <1>1
      <4> QED
        BY <4>1, <1>2, <2>3
    <3> QED
      BY <3>3, <3>4 DEF Passed
  <2> QED
    BY <1>4, <2>1, <2>2, <2>3 DEF Passed
<1>5. ASSUME NEW i \in 1..Len(r), Delivers(r, i), r[i].n > 1
      PROVE  Passed(r, h, e, r[i].n - 1, i - 1)
  <2>1. /\ i + 1 \in 1..Len(q) /\ Delivers(q, i + 1) /\ r[i] = q[i + 1]
        /\ q[i + 1].n > 1 /\ q[i + 1].n \in 1..m
    BY <1>5, <1>1, <1>2 DEF Ordered
  <2>2. Passed(q, g, d, q[i + 1].n - 1, (i + 1) - 1)
    BY <2>1 DEF Unbroken
  <2>3. ASSUME NEW j \in 2..i, Delivers(q, j) PROVE q[j].n <= q[i + 1].n - 1
    <3>1. j \in 1..Len(q) /\ j < i + 1
      BY <2>1, <2>3
    <3>2. q[j].n < q[i + 1].n /\ q[j].n \in 1..m
      BY <3>1, <2>1, <2>3 DEF Ordered
    <3> QED
      BY <3>2, <2>1
  <2>4. /\ i - 1 \in 0..Len(r) /\ (i - 1) + 1 = i /\ (i + 1) - 1 = i
        /\ q[i + 1].n - 1 \in 1..m
    BY <2>1, <1>1
  <2> QED
    BY <2>1, <2>2, <2>3, <2>4, <1>4
<1>6. ASSUME o, m > 0 PROVE Passed(r, h, e, m, Len(r))
  <2>1. Passed(q, g, d, m, Len(r) + 1) /\ Len(r) \in 0..Len(r) /\ m \in 1..m
    BY <1>6, <1>1 DEF Unbroken
  <2>2. \A j \in 2..(Len(r) + 1) : Delivers(q, j) => q[j].n <= m
    BY <1>1 DEF Ordered
  <2> QED
    BY <2>1, <2>2, <1>4
<1> QED
  BY <1>3, <1>5, <1>6 DEF Unbroken, r
----------------------------------------------------------------------------
LEMMA EncoderInvInit == EncoderInit => EncoderInv
<1> SUFFICES ASSUME EncoderInit PROVE EncoderInv
  OBVIOUS
<1>1. Len(encTasks) = 0 /\ made = 0 /\ delivered = {}
  BY DEF EncoderInit
<1> QED
  BY <1>1, EncoderInitType DEF EncoderInv, Ordered, Unbroken, Decodable

\* The frames and the queue are left alone, and the encoder does not start.
LEMMA QueueUntouched ==
  ASSUME EncoderInv, EncoderTypeOK',
         UNCHANGED <<encTasks, drop, made, keys, delivered, lost>>,
         encPhase' \in {"new", "running"} => encPhase \in {"new", "running"},
         encPhase' = "new" => encPhase = "new"
  PROVE  EncoderInv'
<1>1. Decodable' /\ Ordered(encTasks', made') /\ (encPhase' = "new" => made' = 0)
  BY DEF EncoderInv, Decodable
<1>2. Unbroken(encTasks', delivered' \cup lost', drop', made',
               encPhase' \in {"new", "running"})
  BY DEF EncoderInv, Unbroken
<1> QED
  BY <1>1, <1>2 DEF EncoderInv

LEMMA EncoderInvNext ==
  ASSUME EncoderInv, [EncoderNext]_encoderVars
  PROVE  EncoderInv'
<1> DEFINE gone == delivered \cup lost
           open == encPhase \in {"new", "running"}
<1>1. EncoderTypeOK /\ EncoderTypeOK'
  BY EncoderNextType DEF EncoderInv
<1>2. /\ encTasks \in Seq(Task) /\ made \in Nat /\ drop \in BOOLEAN
      /\ open \in BOOLEAN /\ made' \in Nat /\ drop' \in BOOLEAN
  BY <1>1 DEF EncoderTypeOK
<1>3. /\ Ordered(encTasks, made)
      /\ Unbroken(encTasks, gone, drop, made, open)
      /\ Decodable
  BY DEF EncoderInv
<1>4. CASE InitializeEncoder \/ DestroyEncoder \/ ThreadStopped
           \/ DestroyEncoderEnds \/ SetCanFeed \/ BitstreamBufferReady
           \/ UNCHANGED encoderVars
  BY <1>1, <1>4, QueueUntouched
     DEF InitializeEncoder, DestroyEncoder, ThreadStopped, DestroyEncoderEnds,
         SetCanFeed, BitstreamBufferReady, encoderVars
<1>5. ASSUME NEW t \in Task, t.op # "deliver", Post(t), encPhase = "running",
             UNCHANGED <<encPhase, drop, made, keys, delivered, lost>>
      PROVE  EncoderInv'
  <2>1. /\ Ordered(encTasks', made)
        /\ Unbroken(encTasks', gone, drop, made, open)
    BY <1>5, <1>2, <1>3, OtherPosted DEF Post
  <2>2. Decodable'
    BY <1>3, <1>5 DEF Decodable
  <2> QED
    BY <1>1, <1>5, <2>1, <2>2 DEF EncoderInv
<1>6. ASSUME NEW force \in BOOLEAN, Encode(force) PROVE EncoderInv'
  <2>1. [op |-> "encode", force |-> force] \in Task
    BY <1>6, Zenon DEF Task
  <2> QED
    BY <2>1, <1>5, <1>6 DEF Encode
<1>7. ASSUME NEW b \in OutputBuffers, UseOutputBitstreamBuffer(b)
      PROVE  EncoderInv'
  <2>1. [op |-> "use", b |-> b] \in Task
    BY <1>7, Zenon DEF Task
  <2> QED
    BY <2>1, <1>5, <1>7 DEF UseOutputBitstreamBuffer
<1>8. CASE OnEncode \/ OnUseOutputBitstreamBuffer
  <2>1. /\ encTasks # <<>> /\ Head(encTasks).op # "deliver"
        /\ encTasks' = Tail(encTasks) /\ encPhase \in {"running", "stopping"}
        /\ UNCHANGED <<encPhase, drop, made, keys, delivered, lost>>
    BY <1>8 DEF OnEncode, OnUseOutputBitstreamBuffer, Run
  <2>2. /\ Ordered(encTasks', made)
        /\ Unbroken(encTasks', gone, drop, made, open)
    BY <2>1, <1>2, <1>3, TaskRuns
  <2>3. Decodable'
    BY <2>1, <1>3 DEF Decodable
  <2> QED
    BY <1>1, <2>1, <2>2, <2>3 DEF EncoderInv
<1>9. CASE DeliverVideoFrame
  <2> DEFINE n == Head(encTasks).n
             goneNow == delivered' \cup lost'
  <2>1. /\ encTasks # <<>> /\ Head(encTasks).op = "deliver"
        /\ encTasks' = Tail(encTasks) /\ encPhase \in {"running", "stopping"}
        /\ UNCHANGED <<encPhase, made, keys>>
    BY <1>9 DEF DeliverVideoFrame, Run
  <2>2. /\ gone \subseteq goneNow /\ (drop' \/ n \in goneNow)
        /\ \/ delivered' = delivered /\ lost \subseteq lost'
           \/ /\ delivered' = delivered \cup {n} /\ lost' = lost
              /\ ~drop \/ n \in keys
    <3>1. CASE DropFrame(n) /\ UNCHANGED <<delivered, lost>>
      <4>1. drop' = TRUE
        BY <3>1, <1>2, SMT DEF DropFrame
      <4>2. drop'
        BY <4>1
      <4> QED
        BY <3>1, <4>2
    <3>2. CASE FillBuffer(n) /\ delivered' = delivered \cup {n}
               /\ UNCHANGED lost
      <4>1. ~drop \/ n \in keys
        BY <3>2, Zenon DEF FillBuffer
      <4> QED
        BY <3>2, <4>1
    <3>3. CASE FillBuffer(n) /\ lost' = lost \cup {n} /\ UNCHANGED delivered
      BY <3>3
    <3> QED
      BY <1>9, <3>1, <3>2, <3>3 DEF DeliverVideoFrame
  <2>3. /\ Ordered(encTasks', made)
        /\ Unbroken(encTasks', goneNow, drop', made, open)
    BY <2>1, <2>2, <1>2, <1>3, TaskRuns
  <2>4. ASSUME n \notin keys, ~drop, n > 1 PROVE n - 1 \in gone
    <3>1. /\ 1 \in 1..Len(encTasks) /\ Delivers(encTasks, 1)
          /\ encTasks[1].n = n
      BY <2>1, <1>2 DEF Delivers
    <3>2. \A i \in 1..Len(encTasks) :
             Delivers(encTasks, i) /\ encTasks[i].n > 1
             => Passed(encTasks, gone, drop, encTasks[i].n - 1, i - 1)
      BY <1>3, Zenon DEF Unbroken
    <3>3. Passed(encTasks, gone, drop, encTasks[1].n - 1, 1 - 1)
      BY <3>1, <3>2, <2>4, Zenon
    <3>4. 1..(1 - 1) = {}
      OBVIOUS
    <3> QED
      BY <3>1, <3>3, <3>4, <2>4, Zenon DEF Passed
  <2>5. Decodable'
    <3>1. CASE delivered' = delivered /\ lost \subseteq lost'
      BY <3>1, <2>1, <1>3 DEF Decodable
    <3>2. CASE /\ delivered' = delivered \cup {n} /\ lost' = lost
               /\ ~drop \/ n \in keys
      BY <3>2, <2>1, <2>4, <1>3 DEF Decodable
    <3> QED
      BY <2>2, <3>1, <3>2
  <2> QED
    BY <1>1, <2>1, <2>3, <2>5 DEF EncoderInv
<1>10. ASSUME NEW key \in BOOLEAN, OnEncoded(key) PROVE EncoderInv'
  <2>1. /\ encPhase \in {"running", "stopping", "stopped"}
        /\ made' = made + 1 /\ keys \subseteq keys'
        /\ UNCHANGED <<encPhase, drop, delivered>>
    BY <1>10 DEF OnEncoded, PipelineUp
  <2>2. Decodable' /\ (encPhase' = "new" => made' = 0)
    BY <1>10, <2>1, <1>3 DEF OnEncoded, Decodable
  <2>3. CASE lost' = lost \cup {made + 1} /\ UNCHANGED encTasks
    <3>1. delivered' \cup lost' = gone \cup {made + 1}
      BY <2>1, <2>3
    <3>2. /\ Ordered(encTasks', made')
          /\ Unbroken(encTasks', delivered' \cup lost', drop', made', open)
      BY <2>1, <2>3, <3>1, <1>2, <1>3, FrameLost
    <3> QED
      BY <1>1, <2>1, <2>2, <3>2 DEF EncoderInv
  <2>4. CASE encPhase = "running" /\ Post([op |-> "deliver", n |-> made + 1])
             /\ UNCHANGED lost
    <3> DEFINE t == [op |-> "deliver", n |-> made + 1]
    <3>1. made + 1 \in Frames
      BY <1>10, <1>2, EncoderAssumption DEF OnEncoded, Frames
    <3>2. t \in Task /\ t.op = "deliver" /\ t.n = made + 1
      BY <3>1, Zenon DEF Task
    <3>3. open
      BY <2>4
    <3>4. Unbroken(encTasks, gone, drop, made, TRUE)
      BY <3>3, <1>3 DEF Unbroken
    <3>5. /\ Ordered(encTasks', made')
          /\ Unbroken(encTasks', gone, drop, made', TRUE)
      BY <2>1, <2>4, <3>2, <3>4, <1>2, <1>3, FramePosted DEF Post
    <3> QED
      BY <1>1, <2>1, <2>2, <2>4, <3>5 DEF EncoderInv, Unbroken
  <2>5. CASE encPhase # "running" /\ UNCHANGED <<lost, encTasks>>
    <3>1. /\ Ordered(encTasks', made')
          /\ Unbroken(encTasks', gone, drop', made', FALSE)
      BY <2>1, <2>5, <1>2, <1>3, FrameForgotten
    <3> QED
      BY <1>1, <2>1, <2>2, <2>5, <3>1 DEF EncoderInv, Unbroken
  <2> QED
    BY <1>10, <2>3, <2>4, <2>5 DEF OnEncoded
<1> QED
  BY <1>4, <1>6, <1>7, <1>8, <1>9, <1>10 DEF EncoderNext, EncoderTask

(***************************************************************************)
(* For any number of output buffers and frames, the client is given no     *)
(* frame it cannot decode.                                                 *)
(***************************************************************************)
THEOREM DecodableHolds == EncoderSpec => []Decodable
<1>1. EncoderInv /\ [EncoderNext]_encoderVars => EncoderInv'
  BY EncoderInvNext
<1>2. EncoderInv => Decodable
  BY DEF EncoderInv
<1> QED
  BY <1>1, <1>2, EncoderInvInit, PTL DEF EncoderSpec
=============================================================================
