------------------------ MODULE ViewQuestions_proofs ------------------------
(***************************************************************************)
(* Proofs about ViewQuestions for any number of questions, decisions and   *)
(* settings: each requester hears the first decision, once, and an object  *)
(* is freed once.                                                          *)
(***************************************************************************)
EXTENDS ViewQuestions, SequenceTheorems, TLAPS

\* The questions whose callback runs on an object the view passes it
Framed == {"geolocation", "certificate", "notification"}

\* Queues: what waits in u, and once; what was sent for q, and first
Queued(u, t) == \E i \in DOMAIN u : u[i] = t
NoTwins(u) == \A i, j \in DOMAIN u : u[i] = u[j] => i = j
Sent(s, q) == \E i \in DOMAIN s : s[i].q = q
Leads(s, q, a) ==
  \E i \in DOMAIN s : /\ s[i].q = q /\ s[i].answer = a
                      /\ \A j \in DOMAIN s : s[j].q = q => i <= j

\* q waits to be opened, or has not been asked
Fresh(q) ==
  /\ holder[q] = "none" /\ ~decided[q] /\ answers[q] = <<>> /\ ~Sent(io, q)

\* What the queues hold for q: a question not asked yet, or about to be put,
\* is untouched, and a task that deletes an object finds it decided and held
TasksOf(q) ==
  /\ ~asked[q] => Fresh(q) /\ ~request[q]
  /\ Queued(ui, Ask(q)) =>
       Fresh(q) /\ asked[q] /\ kind[q] \in {"auth", "geolocation"}
  /\ Queued(requestsQueue, q) => asked[q] /\ kind[q] = "media"
  /\ Queued(ui, Delete(q)) =>
       /\ asked[q] /\ kind[q] \in Framed /\ decided[q] /\ suspended[q]
       /\ holder[q] = "app" \/ (holder[q] = "frame" /\ asking = q)

\* Who may free the object of q
OwnerOf(q) ==
  /\ holder[q] = "frame" => asking = q /\ kind[q] \in Framed
  /\ holder[q] = "view" => kind[q] = "auth"
  /\ holder[q] = "app" => kind[q] \in Framed \cup {"media"}
  /\ decided[q] <=> verdict[q] # "none"
  /\ asking = q => kind[q] = "media" \/ holder[q] \notin {"none", "freed"}

\* The answers that OneAnswer allows
Heard(q) ==
  /\ verdict[q] # "none" => answers[q][1] = verdict[q]
  /\ \/ Len(answers[q]) = 1
     \/ /\ kind[q] = "geolocation" /\ decided[q] /\ ~suspended[q]
        /\ Len(answers[q]) = 2 /\ answers[q][2] = "no"

\* What q's requester has heard, and what is on the way to it: the answer to an
\* authentication request travels through io, and the others are given at once
AnswersOf(q) ==
  /\ kind[q] # "media" /\ answers[q] # <<>> => Heard(q)
  /\ Sent(io, q) => kind[q] = "auth"
  /\ kind[q] = "auth" =>
       /\ answers[q] # <<>> => ~request[q]
       /\ ~decided[q] /\ (Sent(io, q) \/ answers[q] # <<>>) =>
            holder[q] = "none"
       /\ decided[q] /\ request[q] => Leads(io, q, verdict[q])
  /\ kind[q] \in Framed /\ holder[q] \in {"frame", "app"} =>
       answers[q] = IF decided[q] THEN <<verdict[q]>> ELSE <<>>

(***************************************************************************)
(* The inductive invariant: types, no task queued twice, and what holds of *)
(* each question by itself.                                                *)
(***************************************************************************)
Good(q) == TasksOf(q) /\ OwnerOf(q) /\ AnswersOf(q)
QuestionsInv == QuestionsTypeOK /\ NoTwins(ui) /\ \A q \in Questions : Good(q)

----------------------------------------------------------------------------
\* What putting a task in a queue and taking one from it do
LEMMA QueuePut ==
  ASSUME NEW T, NEW u \in Seq(T), NEW t \in T
  PROVE  /\ Append(u, t) \in Seq(T)
         /\ \A s : Queued(Append(u, t), s) <=> Queued(u, s) \/ s = t
         /\ NoTwins(u) /\ ~Queued(u, t) => NoTwins(Append(u, t))
<1> DEFINE v == Append(u, t)
<1>1. /\ v \in Seq(T) /\ Len(u) \in Nat /\ Len(v) = Len(u) + 1
      /\ DOMAIN u = 1 .. Len(u) /\ DOMAIN v = 1 .. Len(u) + 1
      /\ \A i \in 1 .. Len(u) : v[i] = u[i]
      /\ v[Len(u) + 1] = t
  OBVIOUS
<1> HIDE DEF v
<1>2. \A s : Queued(v, s) <=> Queued(u, s) \/ s = t
  BY <1>1 DEF Queued
<1>3. NoTwins(u) /\ ~Queued(u, t) => NoTwins(v)
  BY <1>1 DEF Queued, NoTwins
<1> QED
  BY <1>1, <1>2, <1>3 DEF v

LEMMA QueueTake ==
  ASSUME NEW T, NEW u \in Seq(T), u # <<>>
  PROVE  /\ Tail(u) \in Seq(T) /\ Head(u) \in T
         /\ Queued(u, Head(u))
         /\ \A s : Queued(Tail(u), s) => Queued(u, s)
         /\ NoTwins(u) => NoTwins(Tail(u)) /\ ~Queued(Tail(u), Head(u))
<1> DEFINE v == Tail(u)
<1>1. /\ v \in Seq(T) /\ Len(u) \in Nat /\ Len(u) > 0 /\ Len(v) = Len(u) - 1
      /\ DOMAIN u = 1 .. Len(u) /\ DOMAIN v = 1 .. Len(u) - 1
      /\ \A i \in 1 .. Len(u) - 1 : v[i] = u[i + 1]
      /\ Head(u) = u[1] /\ Head(u) \in T
  OBVIOUS
<1> HIDE DEF v
<1>2. Queued(u, Head(u))
  BY <1>1 DEF Queued
<1>3. \A s : Queued(v, s) => Queued(u, s)
  BY <1>1 DEF Queued
<1>4. NoTwins(u) => NoTwins(v) /\ ~Queued(v, Head(u))
  <2>1. ASSUME NoTwins(u) PROVE NoTwins(v)
    BY <1>1, <2>1 DEF NoTwins
  <2>2. ASSUME NoTwins(u) PROVE ~Queued(v, Head(u))
    BY <1>1, <2>2 DEF NoTwins, Queued
  <2> QED
    BY <2>1, <2>2
<1> QED
  BY <1>1, <1>2, <1>3, <1>4 DEF v

Message == [q : Questions, answer : YesNo]

\* The same of the answers sent to the IO thread
LEMMA SentPut ==
  ASSUME NEW s \in Seq(Message), NEW m \in Message
  PROVE  /\ Append(s, m) \in Seq(Message)
         /\ \A q : Sent(Append(s, m), q) <=> Sent(s, q) \/ q = m.q
         /\ \A q, a : Leads(s, q, a) => Leads(Append(s, m), q, a)
         /\ ~Sent(s, m.q) => Leads(Append(s, m), m.q, m.answer)
<1> DEFINE v == Append(s, m)
<1>1. /\ v \in Seq(Message) /\ Len(s) \in Nat /\ Len(v) = Len(s) + 1
      /\ DOMAIN s = 1 .. Len(s) /\ DOMAIN v = 1 .. Len(s) + 1
      /\ \A i \in 1 .. Len(s) : v[i] = s[i]
      /\ v[Len(s) + 1] = m
  OBVIOUS
<1> HIDE DEF v
<1>2. \A q : Sent(v, q) <=> Sent(s, q) \/ q = m.q
  BY <1>1 DEF Sent
<1>3. \A q, a : Leads(s, q, a) => Leads(v, q, a)
  BY <1>1 DEF Leads
<1>4. ~Sent(s, m.q) => Leads(v, m.q, m.answer)
  BY <1>1 DEF Leads, Sent
<1> QED
  BY <1>1, <1>2, <1>3, <1>4 DEF v

LEMMA SentTake ==
  ASSUME NEW s \in Seq(Message), s # <<>>
  PROVE  /\ Tail(s) \in Seq(Message) /\ Head(s) \in Message
         /\ Sent(s, Head(s).q)
         /\ \A q : Sent(Tail(s), q) => Sent(s, q)
         /\ \A q, a : Leads(s, q, a) =>
              IF q = Head(s).q THEN a = Head(s).answer ELSE Leads(Tail(s), q, a)
<1> DEFINE v == Tail(s)
<1>1. /\ v \in Seq(Message) /\ Len(s) \in Nat /\ Len(s) > 0
           /\ Len(v) = Len(s) - 1
      /\ DOMAIN s = 1 .. Len(s) /\ DOMAIN v = 1 .. Len(s) - 1
      /\ \A i \in 1 .. Len(s) - 1 : v[i] = s[i + 1]
      /\ Head(s) = s[1] /\ Head(s) \in Message
  OBVIOUS
<1> HIDE DEF v
<1>2. Sent(s, Head(s).q)
  BY <1>1 DEF Sent
<1>3. \A q : Sent(v, q) => Sent(s, q)
  BY <1>1 DEF Sent
<1>4. ASSUME NEW q, NEW a, Leads(s, q, a)
      PROVE  IF q = Head(s).q THEN a = Head(s).answer ELSE Leads(v, q, a)
  <2>1. PICK i \in DOMAIN s : /\ s[i].q = q /\ s[i].answer = a
                             /\ \A j \in DOMAIN s : s[j].q = q => i <= j
    BY <1>4 DEF Leads
  <2>2. CASE q = Head(s).q
    <3>1. i <= 1
      BY <1>1, <2>1, <2>2
    <3>2. i = 1
      BY <1>1, <3>1
    <3> QED
      BY <1>1, <2>1, <2>2, <3>2
  <2>3. CASE q # Head(s).q
    <3>1. i - 1 \in DOMAIN v /\ v[i - 1] = s[i]
      BY <1>1, <2>1, <2>3
    <3>2. \A j \in DOMAIN v : v[j].q = q => i - 1 <= j
      BY <1>1, <2>1
    <3> QED
      BY <2>1, <2>3, <3>1, <3>2 DEF Leads
  <2> QED
    BY <2>2, <2>3
<1> QED
  BY <1>1, <1>2, <1>3, <1>4 DEF v

----------------------------------------------------------------------------
\* Each step keeps the types
ViewTask == [op : {"ask", "delete"}, q : Questions]

LEMMA GiveType ==
  ASSUME QuestionsTypeOK, NEW q \in Questions, NEW a \in YesNo
  PROVE  [answers EXCEPT ![q] = Append(@, a)] \in [Questions -> Seq(YesNo)]
<1>1. Append(answers[q], a) \in Seq(YesNo)
  BY DEF QuestionsTypeOK
<1> QED
  BY <1>1 DEF QuestionsTypeOK

LEMMA LeaveType ==
  ASSUME QuestionsTypeOK, NEW q \in Questions, LeaveFrame(q)
  PROVE  holder' \in [Questions -> {"none", "frame", "view", "app", "freed"}]
  BY DEF QuestionsTypeOK, LeaveFrame

LEMMA TypeLoginDelegateCreated ==
  ASSUME QuestionsTypeOK, NEW q \in Questions, LoginDelegateCreated(q)
  PROVE  QuestionsTypeOK'
  BY QuestionAssumption, DecisionAssumption
     DEF QuestionsTypeOK, LoginDelegateCreated, Put, objects, Ask, YesNo

LEMMA TypeHandleAuth ==
  ASSUME QuestionsTypeOK, NEW q \in Questions, HandleAuth(q)
  PROVE  QuestionsTypeOK'
<1>1. ui' \in Seq(ViewTask)
  BY QueueTake DEF HandleAuth, Handle, QuestionsTypeOK, ViewTask
<1>2. io' \in Seq([q : Questions, answer : YesNo])
  <2>1. Append(io, [q |-> q, answer |-> "no"]) \in Seq([q : Questions, answer :
          YesNo])
    BY DEF QuestionsTypeOK, YesNo
  <2> QED
    BY <2>1 DEF HandleAuth, QuestionsTypeOK
<1>3. holder' \in [Questions -> {"none", "frame", "view", "app", "freed"}]
  BY DEF HandleAuth, QuestionsTypeOK
<1>4. aborted' \in BOOLEAN /\ asking' \in Questions \cup {Nobody}
  BY DEF HandleAuth, QuestionsTypeOK
<1> QED
  BY <1>1, <1>2, <1>3, <1>4 DEF HandleAuth, QuestionsTypeOK, ViewTask

LEMMA TypeOnRequestCancelled ==
  ASSUME QuestionsTypeOK, NEW q \in Questions, OnRequestCancelled(q)
  PROVE  QuestionsTypeOK'
  BY QuestionAssumption, DecisionAssumption
     DEF QuestionsTypeOK, OnRequestCancelled, objects, YesNo

LEMMA TypeRequestGeolocation ==
  ASSUME QuestionsTypeOK, NEW q \in Questions, RequestGeolocation(q)
  PROVE  QuestionsTypeOK'
  BY QuestionAssumption, DecisionAssumption
     DEF QuestionsTypeOK, RequestGeolocation, Put, objects, Ask, YesNo

LEMMA TypeHandleGeolocation ==
  ASSUME QuestionsTypeOK, NEW q \in Questions, HandleGeolocation(q)
  PROVE  QuestionsTypeOK'
<1>1. answers' \in [Questions -> Seq(YesNo)]
  BY GiveType DEF HandleGeolocation, Give, YesNo, QuestionsTypeOK
<1>2. /\ holder' \in [Questions -> {"none", "frame", "view", "app", "freed"}]
      /\ asking' \in Questions \cup {Nobody}
  BY DEF HandleGeolocation, Open, QuestionsTypeOK
<1>3. ui' \in Seq(ViewTask)
  BY QueueTake DEF HandleGeolocation, Handle, QuestionsTypeOK, ViewTask
<1> QED
  BY <1>1, <1>2, <1>3 DEF HandleGeolocation, QuestionsTypeOK, ViewTask

LEMMA TypeRequestCertificateConfirm ==
  ASSUME QuestionsTypeOK, NEW q \in Questions, RequestCertificateConfirm(q)
  PROVE  QuestionsTypeOK'
<1>1. answers' \in [Questions -> Seq(YesNo)]
  BY GiveType DEF RequestCertificateConfirm, Give, YesNo, QuestionsTypeOK
<1>2. /\ holder' \in [Questions -> {"none", "frame", "view", "app", "freed"}]
      /\ asking' \in Questions \cup {Nobody}
  BY DEF RequestCertificateConfirm, Open, QuestionsTypeOK
<1>3. asked' \in [Questions -> BOOLEAN]
  BY DEF RequestCertificateConfirm, Put, QuestionsTypeOK
<1> QED
  BY <1>1, <1>2, <1>3 DEF RequestCertificateConfirm, QuestionsTypeOK

LEMMA TypeRequestNotification ==
  ASSUME QuestionsTypeOK, NEW q \in Questions, RequestNotification(q)
  PROVE  QuestionsTypeOK'
<1>1. permission # "default" => permission \in YesNo
  BY DEF QuestionsTypeOK
<1>2. answers' \in [Questions -> Seq(YesNo)]
  <2>1. "no" \in YesNo /\ answers \in [Questions -> Seq(YesNo)]
    BY DEF YesNo, QuestionsTypeOK
  <2>2. \/ answers' = answers
        \/ answers' = [answers EXCEPT ![q] = Append(@, "no")]
        \/ permission # "default"
             /\ answers' = [answers EXCEPT ![q] = Append(@, permission)]
    BY DEF RequestNotification, Give
  <2>3. [answers EXCEPT ![q] = Append(@, "no")] \in [Questions -> Seq(YesNo)]
    BY <2>1, GiveType
  <2>4. permission # "default" =>
          [answers EXCEPT ![q] = Append(@, permission)] \in [Questions -> Seq(YesNo)]
    BY <1>1, GiveType
  <2> QED
    BY <2>1, <2>2, <2>3, <2>4
<1>3. /\ holder' \in [Questions -> {"none", "frame", "view", "app", "freed"}]
      /\ asking' \in Questions \cup {Nobody}
  BY DEF RequestNotification, Open, QuestionsTypeOK
<1>4. asked' \in [Questions -> BOOLEAN]
  BY DEF RequestNotification, Put, QuestionsTypeOK
<1> QED
  BY <1>2, <1>3, <1>4 DEF RequestNotification, QuestionsTypeOK

LEMMA TypeRequestMediaAccess ==
  ASSUME QuestionsTypeOK, NEW q \in Questions, RequestMediaAccess(q)
  PROVE  QuestionsTypeOK'
  BY QuestionAssumption, DecisionAssumption
     DEF QuestionsTypeOK, RequestMediaAccess, Put, Open, YesNo

LEMMA TypeSuspend ==
  ASSUME QuestionsTypeOK, NEW q \in Questions, Suspend(q)
  PROVE  QuestionsTypeOK'
  BY QuestionAssumption, DecisionAssumption DEF QuestionsTypeOK, Suspend, YesNo

LEMMA TypeAuthReturns ==
  ASSUME QuestionsTypeOK, NEW q \in Questions, AuthReturns(q)
  PROVE  QuestionsTypeOK'
<1>1. io' \in Seq([q : Questions, answer : YesNo])
  <2>1. Append(io, [q |-> q, answer |-> "no"]) \in Seq([q : Questions, answer :
          YesNo])
    BY DEF QuestionsTypeOK, YesNo
  <2> QED
    BY <2>1 DEF AuthReturns, QuestionsTypeOK
<1>2. decided' \in [Questions -> BOOLEAN]
        /\ verdict' \in [Questions -> YesNo \cup {"none"}]
  BY DEF AuthReturns, QuestionsTypeOK, YesNo
<1> QED
  BY <1>1, <1>2 DEF AuthReturns, QuestionsTypeOK, Returned

LEMMA TypeGeolocationReturns ==
  ASSUME QuestionsTypeOK, NEW q \in Questions, GeolocationReturns(q)
  PROVE  QuestionsTypeOK'
<1>1. answers' \in [Questions -> Seq(YesNo)]
  BY GiveType DEF GeolocationReturns, Give, YesNo, QuestionsTypeOK
<1> QED
  BY <1>1, LeaveType DEF GeolocationReturns, QuestionsTypeOK, Returned

LEMMA TypeCertificateReturns ==
  ASSUME QuestionsTypeOK, NEW q \in Questions, CertificateReturns(q)
  PROVE  QuestionsTypeOK'
<1>1. answers' \in [Questions -> Seq(YesNo)]
  BY GiveType DEF CertificateReturns, Give, YesNo, QuestionsTypeOK
<1>2. decided' \in [Questions -> BOOLEAN]
        /\ verdict' \in [Questions -> YesNo \cup {"none"}]
  BY DEF CertificateReturns, QuestionsTypeOK, YesNo
<1> QED
  BY <1>1, <1>2, LeaveType DEF CertificateReturns, QuestionsTypeOK, Returned

LEMMA TypeNotificationReturns ==
  ASSUME QuestionsTypeOK, NEW q \in Questions, NotificationReturns(q)
  PROVE  QuestionsTypeOK'
  BY QuestionAssumption, DecisionAssumption
     DEF QuestionsTypeOK, NotificationReturns, Returned, LeaveFrame, YesNo

LEMMA TypeMediaReturns ==
  ASSUME QuestionsTypeOK, NEW q \in Questions, MediaReturns(q)
  PROVE  QuestionsTypeOK'
  BY QuestionAssumption, DecisionAssumption
     DEF QuestionsTypeOK, MediaReturns, Returned, objects, YesNo

LEMMA TypeUseOrCancelCredential ==
  ASSUME QuestionsTypeOK, NEW q \in Questions,
         NEW a \in YesNo, UseOrCancelCredential(q, a)
  PROVE  QuestionsTypeOK'
  BY QuestionAssumption, DecisionAssumption
     DEF QuestionsTypeOK, UseOrCancelCredential, Decides, MayCall, YesNo

LEMMA TypeSetDecision ==
  ASSUME QuestionsTypeOK, NEW q \in Questions,
         NEW a \in YesNo, SetDecision(q, a)
  PROVE  QuestionsTypeOK'
<1>1. answers' \in [Questions -> Seq(YesNo)]
  BY GiveType DEF SetDecision, Give
<1>2. ui' \in Seq(ViewTask)
  <2>1. Delete(q) \in ViewTask /\ ui \in Seq(ViewTask)
    BY DEF Delete, ViewTask, QuestionsTypeOK
  <2>2. Append(ui, Delete(q)) \in Seq(ViewTask)
    BY <2>1, QueuePut
  <2> QED
    BY <2>1, <2>2 DEF SetDecision
<1>3. /\ decisions' \in [Questions -> 0 .. MaxDecisions]
      /\ decided' \in [Questions -> BOOLEAN]
      /\ verdict' \in [Questions -> YesNo \cup {"none"}]
  BY DecisionAssumption DEF SetDecision, Decides, MayCall, QuestionsTypeOK
<1>4. permission' \in YesNo \cup {"default"}
  BY DEF SetDecision, QuestionsTypeOK
<1> QED
  BY <1>1, <1>2, <1>3, <1>4 DEF SetDecision, QuestionsTypeOK, ViewTask

LEMMA TypeSetUserMedia ==
  ASSUME QuestionsTypeOK, NEW q \in Questions,
         NEW a \in YesNo, SetUserMedia(q, a)
  PROVE  QuestionsTypeOK'
<1>1. answers' \in [Questions -> Seq(YesNo)]
        /\ requestsQueue' \in Seq(Questions)
  <2>1. requestsQueue # <<>> => Head(requestsQueue) \in Questions
                               /\ Tail(requestsQueue) \in Seq(Questions)
    BY QueueTake DEF QuestionsTypeOK
  <2>2. CASE requestsQueue = <<>>
    BY <2>2 DEF SetUserMedia, AnswerFront, QuestionsTypeOK
  <2>3. CASE requestsQueue # <<>>
    BY <2>1, <2>3, GiveType DEF SetUserMedia, AnswerFront, Give
  <2> QED
    BY <2>2, <2>3
<1>2. /\ decisions' \in [Questions -> 0 .. MaxDecisions]
      /\ decided' \in [Questions -> BOOLEAN]
      /\ verdict' \in [Questions -> YesNo \cup {"none"}]
  BY DecisionAssumption DEF SetUserMedia, Decides, MayCall, QuestionsTypeOK
<1>3. holder' \in [Questions -> {"none", "frame", "view", "app", "freed"}]
  BY DEF SetUserMedia, QuestionsTypeOK
<1> QED
  BY <1>1, <1>2, <1>3 DEF SetUserMedia, QuestionsTypeOK

LEMMA TypeAnswerOnIOThread ==
  ASSUME QuestionsTypeOK, AnswerOnIOThread
  PROVE  QuestionsTypeOK'
<1> DEFINE m == Head(io)
<1>1. io' \in Seq(Message) /\ m \in Message
  BY SentTake DEF AnswerOnIOThread, QuestionsTypeOK, Message
<1>2. m.q \in Questions /\ m.answer \in YesNo
  BY <1>1 DEF Message
<1>3. answers' \in [Questions -> Seq(YesNo)]
  <2>1. CASE request[m.q]
    <3>1. answers' = [answers EXCEPT ![m.q] = Append(@, m.answer)]
      BY <2>1 DEF AnswerOnIOThread, Give
    <3> HIDE DEF m
    <3> QED
      BY <1>2, <3>1, GiveType
  <2>2. CASE ~request[m.q]
    BY <2>2 DEF AnswerOnIOThread, QuestionsTypeOK
  <2> QED
    BY <2>1, <2>2
<1>4. request' \in [Questions -> BOOLEAN]
  BY <1>2 DEF AnswerOnIOThread, QuestionsTypeOK
<1> QED
  BY <1>1, <1>3, <1>4 DEF AnswerOnIOThread, QuestionsTypeOK, objects, Message

LEMMA TypeDeleteObject ==
  ASSUME QuestionsTypeOK, DeleteObject
  PROVE  QuestionsTypeOK'
<1>1. ui' \in Seq(ViewTask) /\ Head(ui) \in ViewTask
  BY QueueTake DEF DeleteObject, QuestionsTypeOK, ViewTask
<1>2. holder' \in [Questions -> {"none", "frame", "view", "app", "freed"}]
  BY <1>1 DEF DeleteObject, QuestionsTypeOK, ViewTask
<1> QED
  BY <1>1, <1>2 DEF DeleteObject, QuestionsTypeOK, ViewTask

LEMMA TypeCloseView ==
  ASSUME QuestionsTypeOK, CloseView
  PROVE  QuestionsTypeOK'
  BY QuestionAssumption, DecisionAssumption
     DEF QuestionsTypeOK, CloseView, YesNo

LEMMA TypeSetPermissions ==
  ASSUME QuestionsTypeOK, NEW p \in YesNo \cup {"default"}, SetPermissions(p)
  PROVE  QuestionsTypeOK'
  BY QuestionAssumption, DecisionAssumption
     DEF QuestionsTypeOK, SetPermissions, objects, YesNo

----------------------------------------------------------------------------
\* Each step keeps what holds of each question
LEMMA TaskNames ==
  \A p, q : Ask(p) # Delete(q) /\ (Ask(p) = Ask(q) => p = q)
            /\ (Delete(p) = Delete(q) => p = q)
  BY DEF Ask, Delete

\* A step that is not about p
Undisturbed(p) ==
  /\ kind'[p] = kind[p] /\ asked'[p] = asked[p] /\ holder'[p] = holder[p]
  /\ decided'[p] = decided[p] /\ suspended'[p] = suspended[p]
  /\ verdict'[p] = verdict[p] /\ answers'[p] = answers[p]
  /\ (request'[p] => request[p]) /\ (asking' = p <=> asking = p)
  /\ Queued(ui', Ask(p)) => Queued(ui, Ask(p))
  /\ Queued(ui', Delete(p)) => Queued(ui, Delete(p))
  /\ Queued(requestsQueue', p) => Queued(requestsQueue, p)
  /\ Sent(io', p) => Sent(io, p)
  /\ request'[p] => \A a : Leads(io, p, a) => Leads(io', p, a)

\* What a step is not about stays good
LEMMA UndisturbedGood ==
  ASSUME NEW p \in Questions, Good(p), Undisturbed(p), request \in [Questions -> BOOLEAN],
         request' \in [Questions -> BOOLEAN]
  PROVE  Good(p)'
<1>1. TasksOf(p)'
  BY DEF Good, Undisturbed, TasksOf, Fresh
<1>2. OwnerOf(p)'
  BY DEF Good, Undisturbed, OwnerOf
<1>3. AnswersOf(p)'
  BY DEF Good, Undisturbed, AnswersOf, Heard
<1> QED
  BY <1>1, <1>2, <1>3 DEF Good

LEMMA Given ==
  ASSUME QuestionsTypeOK, NEW q \in Questions, NEW a \in YesNo, Give(q, a)
  PROVE  /\ \A p \in Questions : p # q => answers'[p] = answers[p]
         /\ answers[q] = <<>> => answers'[q] = <<a>>
         /\ \A v \in YesNo : answers[q] = <<v>> => answers'[q] = <<v, a>>
<1>1. /\ \A p \in Questions : p # q => answers'[p] = answers[p]
      /\ answers'[q] = Append(answers[q], a)
  BY DEF QuestionsTypeOK, Give
<1>2. Append(<<>>, a) = <<a>>
  OBVIOUS
<1>3. ASSUME NEW v \in YesNo PROVE Append(<<v>>, a) = <<v, a>>
  <2>1. /\ <<v, a>> \in Seq(YesNo) /\ Append(<<v>>, a) \in Seq(YesNo)
        /\ Len(Append(<<v>>, a)) = 2 /\ Len(<<v, a>>) = 2
        /\ \A i \in 1 .. 2 : Append(<<v>>, a)[i] = <<v, a>>[i]
    OBVIOUS
  <2> QED
    BY <2>1, SeqEqual
<1> QED
  BY <1>1, <1>2, <1>3

\* One and two answers
LEMMA ShortSequences ==
  \A v, w : /\ <<v>> # <<>> /\ Len(<<v>>) = 1 /\ <<v>>[1] = v
            /\ <<v, w>> # <<>> /\ Len(<<v, w>>) = 2
            /\ <<v, w>>[1] = v /\ <<v, w>>[2] = w
  OBVIOUS

\* A closing view frees what only it holds
LEMMA FreedGood ==
  ASSUME NEW p \in Questions, Good(p), holder[p] = "view",
         holder'[p] = "freed",
         kind'[p] = kind[p], asked'[p] = asked[p], decided'[p] = decided[p],
         suspended'[p] = suspended[p], verdict'[p] = verdict[p],
         answers'[p] = answers[p], request'[p] = request[p], asking' # p,
         Queued(ui', Ask(p)) => Queued(ui, Ask(p)),
         Queued(ui', Delete(p)) => Queued(ui, Delete(p)),
         Queued(requestsQueue', p) => Queued(requestsQueue, p),
         Sent(io', p) => Sent(io, p),
         \A a : Leads(io, p, a) => Leads(io', p, a)
  PROVE  Good(p)'
<1>1. TasksOf(p)'
  BY DEF Good, TasksOf, OwnerOf, Fresh, Framed
<1>2. OwnerOf(p)'
  BY DEF Good, OwnerOf
<1>3. AnswersOf(p)'
  BY DEF Good, OwnerOf, AnswersOf, Heard, Framed
<1> QED
  BY <1>1, <1>2, <1>3 DEF Good

LEMMA StepLoginDelegateCreated ==
  ASSUME QuestionsInv, NEW q \in Questions, LoginDelegateCreated(q)
  PROVE  NoTwins(ui') /\ \A p \in Questions : Good(p)'
<1>1. QuestionsTypeOK /\ NoTwins(ui) /\ \A p \in Questions : Good(p)
  BY DEF QuestionsInv
<1>2. QuestionsTypeOK'
  BY <1>1, TypeLoginDelegateCreated
<1>3. ~Queued(ui, Ask(q))
  BY <1>1 DEF LoginDelegateCreated, Put, Good, TasksOf
<1>4. ui \in Seq(ViewTask) /\ Ask(q) \in ViewTask
  BY <1>1 DEF QuestionsTypeOK, ViewTask, Ask
<1>5. NoTwins(ui') /\ \A s : Queued(ui', s) <=> Queued(ui, s) \/ s = Ask(q)
  BY <1>1, <1>3, <1>4, QueuePut DEF LoginDelegateCreated
<1>6. io' = io
  BY DEF LoginDelegateCreated, objects
<1>7. ASSUME NEW p \in Questions, p # q PROVE Undisturbed(p)
  BY <1>1, <1>3, <1>5, <1>6, <1>7, TaskNames, QuestionAssumption
     DEF LoginDelegateCreated, Put, objects, Undisturbed, QuestionsTypeOK
<1>8. ASSUME NEW p \in Questions, p # q PROVE Good(p)'
  BY <1>1, <1>2, <1>7, <1>8, UndisturbedGood DEF QuestionsTypeOK
<1>9. TasksOf(q)'
  BY <1>1, <1>3, <1>5, <1>6, TaskNames, QuestionAssumption
     DEF LoginDelegateCreated, Put, objects, Good, TasksOf, OwnerOf,
         AnswersOf, Fresh, Framed, QuestionsTypeOK, YesNo
<1>10. OwnerOf(q)'
  BY <1>1, <1>3, <1>5, <1>6, TaskNames, QuestionAssumption
     DEF LoginDelegateCreated, Put, objects, Good, TasksOf, OwnerOf,
         AnswersOf, Fresh, Framed, QuestionsTypeOK, YesNo
<1>11. AnswersOf(q)'
  BY <1>1, <1>3, <1>5, <1>6, TaskNames, QuestionAssumption
     DEF LoginDelegateCreated, Put, objects, Good, TasksOf, OwnerOf,
         AnswersOf, Heard, Fresh, Framed, QuestionsTypeOK, YesNo
<1> QED
  BY <1>5, <1>1, <1>3, <1>5, <1>6, <1>8, <1>9, <1>10, <1>11 DEF Good

LEMMA StepHandleAuth ==
  ASSUME QuestionsInv, NEW q \in Questions, HandleAuth(q)
  PROVE  NoTwins(ui') /\ \A p \in Questions : Good(p)'
<1>1. QuestionsTypeOK /\ NoTwins(ui) /\ \A p \in Questions : Good(p)
  BY DEF QuestionsInv
<1>2. QuestionsTypeOK'
  BY <1>1, TypeHandleAuth
<1>3. ui \in Seq(ViewTask)
  BY <1>1 DEF QuestionsTypeOK, ViewTask
<1>4. ui # <<>> /\ Head(ui) = Ask(q) /\ ui' = Tail(ui)
  BY DEF HandleAuth, Handle
<1>5. /\ NoTwins(ui') /\ Queued(ui, Head(ui)) /\ Head(ui) \in ViewTask
      /\ \A s : Queued(ui', s) => Queued(ui, s)
      /\ ~Queued(ui', Head(ui))
  BY <1>1, <1>3, <1>4, QueueTake
<1>6. io \in Seq(Message) /\ [q |-> q, answer |-> "no"] \in Message
  BY <1>1 DEF QuestionsTypeOK, Message, YesNo
<1>7. /\ \A p : Sent(Append(io, [q |-> q, answer |-> "no"]), p) <=>
           Sent(io, p) \/ p = q
      /\ \A p, b : Leads(io, p, b) =>
           Leads(Append(io, [q |-> q, answer |-> "no"]), p, b)
      /\ ~Sent(io, q) => Leads(Append(io, [q |-> q, answer |-> "no"]), q, "no")
  BY <1>6, SentPut
<1>8. /\ Fresh(q) /\ asked[q] /\ kind[q] = "auth" /\ ~decided[q]
           /\ verdict[q] = "none"
      /\ ~Queued(ui', Ask(q)) /\ asking = Nobody
  BY <1>1, <1>4, <1>5
     DEF HandleAuth, Handle, UiFree, Good, TasksOf, OwnerOf, Fresh
<1>9. /\ kind' = kind /\ asked' = asked /\ decided' = decided
      /\ suspended' = suspended /\ verdict' = verdict /\ answers' = answers
      /\ request' = request /\ requestsQueue' = requestsQueue
  BY DEF HandleAuth
<1>10. \A p \in Questions : /\ Queued(ui', Ask(p)) => Queued(ui, Ask(p))
                           /\ Queued(ui', Delete(p)) => Queued(ui, Delete(p))
  BY <1>5
<1>11. ~Queued(ui, Delete(q)) /\ ~Queued(requestsQueue, q)
  BY <1>1, <1>8 DEF Good, TasksOf, Framed
<1>12. CASE ~view \/ ~request[q]
  <2>1. /\ holder' = holder /\ asking' = asking
        /\ io' = io \/ io' = Append(io, [q |-> q, answer |-> "no"])
    BY <1>12 DEF HandleAuth
  <2>2. ASSUME NEW p \in Questions, p # q PROVE Good(p)'
    <3>1. /\ Sent(io', p) => Sent(io, p)
          /\ \A a : Leads(io, p, a) => Leads(io', p, a)
      BY <1>7, <2>1, <2>2
    <3>2. /\ kind'[p] = kind[p] /\ asked'[p] = asked[p]
               /\ holder'[p] = holder[p]
          /\ decided'[p] = decided[p] /\ suspended'[p] = suspended[p]
          /\ verdict'[p] = verdict[p] /\ answers'[p] = answers[p]
          /\ (request'[p] => request[p]) /\ (asking' = p <=> asking = p)
          /\ Queued(requestsQueue', p) => Queued(requestsQueue, p)
      BY <1>9, <2>1
    <3>3. Undisturbed(p)
      BY <1>5, <3>1, <3>2 DEF Undisturbed
    <3> QED
      BY <1>1, <1>2, <3>3, UndisturbedGood DEF QuestionsTypeOK
  <2>3. TasksOf(q)'
    BY <1>8, <1>9, <1>10, <1>11, <2>1, QuestionAssumption DEF TasksOf
  <2>4. OwnerOf(q)'
    BY <1>1, <1>8, <1>9, <2>1, QuestionAssumption DEF Good, OwnerOf
  <2>5. AnswersOf(q)'
    BY <1>8, <1>9, <2>1 DEF AnswersOf, Fresh, Framed
  <2> QED
    BY <1>5, <2>2, <2>3, <2>4, <2>5 DEF Good
<1>13. CASE view /\ request[q]
  <2>1. /\ asking' = q /\ io' = io
        /\ holder' = [p \in Questions |-> IF p = q THEN "view"
                       ELSE IF holder[p] = "view" THEN "freed" ELSE holder[p]]
    BY <1>13 DEF HandleAuth
  <2>2. ASSUME NEW p \in Questions, p # q PROVE Good(p)'
    <3>1. CASE holder[p] = "view"
      <4>1. holder'[p] = "freed" /\ asking' # p
        BY <2>1, <2>2, <3>1
      <4>2. /\ kind'[p] = kind[p] /\ asked'[p] = asked[p]
            /\ decided'[p] = decided[p] /\ suspended'[p] = suspended[p]
            /\ verdict'[p] = verdict[p] /\ answers'[p] = answers[p]
            /\ request'[p] = request[p]
            /\ Queued(requestsQueue', p) => Queued(requestsQueue, p)
            /\ Sent(io', p) => Sent(io, p)
            /\ \A a : Leads(io, p, a) => Leads(io', p, a)
        BY <1>9, <2>1
      <4> QED
        BY <1>1, <1>5, <3>1, <4>1, <4>2, FreedGood
    <3>2. CASE holder[p] # "view"
      <4>1. /\ kind'[p] = kind[p] /\ asked'[p] = asked[p]
                 /\ holder'[p] = holder[p]
            /\ decided'[p] = decided[p] /\ suspended'[p] = suspended[p]
            /\ verdict'[p] = verdict[p] /\ answers'[p] = answers[p]
            /\ request'[p] = request[p] /\ asking # p /\ asking' # p
        BY <1>8, <1>9, <2>1, <2>2, <3>2, QuestionAssumption
      <4>2. Undisturbed(p)
        BY <1>9, <1>5, <2>1, <4>1 DEF Undisturbed
      <4> QED
        BY <1>1, <1>2, <4>2, UndisturbedGood DEF QuestionsTypeOK
    <3> QED
      BY <3>1, <3>2
  <2>3. holder'[q] = "view"
    BY <2>1
  <2>4. TasksOf(q)'
    BY <1>8, <1>9, <1>10, <1>11, <2>1 DEF TasksOf
  <2>5. OwnerOf(q)'
    BY <1>8, <1>9, <2>1, <2>3 DEF OwnerOf
  <2>6. AnswersOf(q)'
    BY <1>8, <1>9, <2>1 DEF AnswersOf, Fresh, Framed
  <2> QED
    BY <1>5, <2>2, <2>4, <2>5, <2>6 DEF Good
<1> QED
  BY <1>12, <1>13

LEMMA StepOnRequestCancelled ==
  ASSUME QuestionsInv, NEW q \in Questions, OnRequestCancelled(q)
  PROVE  NoTwins(ui') /\ \A p \in Questions : Good(p)'
<1>1. QuestionsTypeOK /\ NoTwins(ui) /\ \A p \in Questions : Good(p)
  BY DEF QuestionsInv
<1>2. QuestionsTypeOK'
  BY <1>1, TypeOnRequestCancelled
<1>3. NoTwins(ui') /\ ui' = ui
  BY <1>1 DEF OnRequestCancelled, objects
<1>4. io' = io
  BY DEF OnRequestCancelled, objects
<1>5. ASSUME NEW p \in Questions, p # q PROVE Undisturbed(p)
  BY <1>1, <1>3, <1>4, <1>5, TaskNames, QuestionAssumption
     DEF OnRequestCancelled, objects, Undisturbed, QuestionsTypeOK
<1>6. ASSUME NEW p \in Questions, p # q PROVE Good(p)'
  BY <1>1, <1>2, <1>5, <1>6, UndisturbedGood DEF QuestionsTypeOK
<1>7. TasksOf(q)'
  BY <1>1, <1>3, <1>4, TaskNames, QuestionAssumption
     DEF OnRequestCancelled, objects, Good, TasksOf, OwnerOf, AnswersOf,
         Fresh, Framed, QuestionsTypeOK, YesNo
<1>8. OwnerOf(q)'
  BY <1>1, <1>3, <1>4, TaskNames, QuestionAssumption
     DEF OnRequestCancelled, objects, Good, TasksOf, OwnerOf, AnswersOf,
         Fresh, Framed, QuestionsTypeOK, YesNo
<1>9. AnswersOf(q)'
  BY <1>1, <1>3, <1>4, TaskNames, QuestionAssumption
     DEF OnRequestCancelled, objects, Good, TasksOf, OwnerOf, AnswersOf,
         Heard, Fresh, Framed, QuestionsTypeOK, YesNo
<1> QED
  BY <1>3, <1>1, <1>3, <1>4, <1>6, <1>7, <1>8, <1>9 DEF Good

LEMMA StepRequestGeolocation ==
  ASSUME QuestionsInv, NEW q \in Questions, RequestGeolocation(q)
  PROVE  NoTwins(ui') /\ \A p \in Questions : Good(p)'
<1>1. QuestionsTypeOK /\ NoTwins(ui) /\ \A p \in Questions : Good(p)
  BY DEF QuestionsInv
<1>2. QuestionsTypeOK'
  BY <1>1, TypeRequestGeolocation
<1>3. ~Queued(ui, Ask(q))
  BY <1>1 DEF RequestGeolocation, Put, Good, TasksOf
<1>4. ui \in Seq(ViewTask) /\ Ask(q) \in ViewTask
  BY <1>1 DEF QuestionsTypeOK, ViewTask, Ask
<1>5. NoTwins(ui') /\ \A s : Queued(ui', s) <=> Queued(ui, s) \/ s = Ask(q)
  BY <1>1, <1>3, <1>4, QueuePut DEF RequestGeolocation
<1>6. io' = io
  BY DEF RequestGeolocation, objects
<1>7. ASSUME NEW p \in Questions, p # q PROVE Undisturbed(p)
  BY <1>1, <1>3, <1>5, <1>6, <1>7, TaskNames, QuestionAssumption
     DEF RequestGeolocation, Put, objects, Undisturbed, QuestionsTypeOK
<1>8. ASSUME NEW p \in Questions, p # q PROVE Good(p)'
  BY <1>1, <1>2, <1>7, <1>8, UndisturbedGood DEF QuestionsTypeOK
<1>9. TasksOf(q)'
  BY <1>1, <1>3, <1>5, <1>6, TaskNames, QuestionAssumption
     DEF RequestGeolocation, Put, objects, Good, TasksOf, OwnerOf, AnswersOf,
         Fresh, Framed, QuestionsTypeOK, YesNo
<1>10. OwnerOf(q)'
  BY <1>1, <1>3, <1>5, <1>6, TaskNames, QuestionAssumption
     DEF RequestGeolocation, Put, objects, Good, TasksOf, OwnerOf, AnswersOf,
         Fresh, Framed, QuestionsTypeOK, YesNo
<1>11. AnswersOf(q)'
  BY <1>1, <1>3, <1>5, <1>6, TaskNames, QuestionAssumption
     DEF RequestGeolocation, Put, objects, Good, TasksOf, OwnerOf, AnswersOf,
         Heard, Fresh, Framed, QuestionsTypeOK, YesNo
<1> QED
  BY <1>5, <1>1, <1>3, <1>5, <1>6, <1>8, <1>9, <1>10, <1>11 DEF Good

LEMMA StepHandleGeolocation ==
  ASSUME QuestionsInv, NEW q \in Questions, HandleGeolocation(q)
  PROVE  NoTwins(ui') /\ \A p \in Questions : Good(p)'
<1>1. QuestionsTypeOK /\ NoTwins(ui) /\ \A p \in Questions : Good(p)
  BY DEF QuestionsInv
<1>2. QuestionsTypeOK'
  BY <1>1, TypeHandleGeolocation
<1>3. ui \in Seq(ViewTask)
  BY <1>1 DEF QuestionsTypeOK, ViewTask
<1>4. ui # <<>> /\ Head(ui) = Ask(q) /\ ui' = Tail(ui)
  BY DEF HandleGeolocation, Handle
<1>5. /\ NoTwins(ui') /\ Queued(ui, Head(ui)) /\ Head(ui) \in ViewTask
      /\ \A s : Queued(ui', s) => Queued(ui, s)
      /\ ~Queued(ui', Head(ui))
  BY <1>1, <1>3, <1>4, QueueTake
<1>6. io' = io
  BY DEF HandleGeolocation
<1>7. ASSUME NEW p \in Questions, p # q PROVE Undisturbed(p)
  BY <1>1, <1>4, <1>5, <1>6, <1>7, TaskNames, QuestionAssumption
     DEF HandleGeolocation, Handle, UiFree, Open, Give, Undisturbed,
         QuestionsTypeOK
<1>8. ASSUME NEW p \in Questions, p # q PROVE Good(p)'
  BY <1>1, <1>2, <1>7, <1>8, UndisturbedGood DEF QuestionsTypeOK
<1>9. TasksOf(q)'
  BY <1>1, <1>4, <1>5, <1>6, TaskNames, QuestionAssumption
     DEF HandleGeolocation, Handle, UiFree, Open, Give, Good, TasksOf,
         OwnerOf, AnswersOf, Fresh, Framed, QuestionsTypeOK, YesNo
<1>10. OwnerOf(q)'
  BY <1>1, <1>4, <1>5, <1>6, TaskNames, QuestionAssumption
     DEF HandleGeolocation, Handle, UiFree, Open, Give, Good, TasksOf,
         OwnerOf, AnswersOf, Fresh, Framed, QuestionsTypeOK, YesNo
<1>11. AnswersOf(q)'
  <2>1. /\ answers[q] = <<>> /\ ~decided'[q] /\ verdict'[q] = "none"
        /\ ~Sent(io', q) /\ kind'[q] = "geolocation" /\ suspended' = suspended
    BY <1>1, <1>4, <1>5, <1>6
       DEF HandleGeolocation, Handle, Good, TasksOf, OwnerOf, Fresh
  <2>2. \/ answers' = answers
        \/ Give(q, "no") /\ holder'[q] = "none"
    BY <1>1, <1>4, <1>5 DEF HandleGeolocation, Good, TasksOf, Fresh
  <2>3. answers'[q] = <<>> \/ (answers'[q] = <<"no">> /\ holder'[q] = "none")
    BY <1>1, <2>1, <2>2, Given DEF YesNo
  <2> QED
    BY <2>1, <2>3, ShortSequences DEF AnswersOf, Heard, Framed
<1> QED
  BY <1>5, <1>1, <1>4, <1>5, <1>6, <1>8, <1>9, <1>10, <1>11 DEF Good

LEMMA StepRequestCertificateConfirm ==
  ASSUME QuestionsInv, NEW q \in Questions, RequestCertificateConfirm(q)
  PROVE  NoTwins(ui') /\ \A p \in Questions : Good(p)'
<1>1. QuestionsTypeOK /\ NoTwins(ui) /\ \A p \in Questions : Good(p)
  BY DEF QuestionsInv
<1>2. QuestionsTypeOK'
  BY <1>1, TypeRequestCertificateConfirm
<1>3. NoTwins(ui') /\ ui' = ui
  BY <1>1 DEF RequestCertificateConfirm
<1>4. io' = io
  BY DEF RequestCertificateConfirm
<1>5. ASSUME NEW p \in Questions, p # q PROVE Undisturbed(p)
  BY <1>1, <1>3, <1>4, <1>5, TaskNames, QuestionAssumption
     DEF RequestCertificateConfirm, UiFree, Put, Open, Give, Undisturbed,
         QuestionsTypeOK
<1>6. ASSUME NEW p \in Questions, p # q PROVE Good(p)'
  BY <1>1, <1>2, <1>5, <1>6, UndisturbedGood DEF QuestionsTypeOK
<1>7. TasksOf(q)'
  BY <1>1, <1>3, <1>4, TaskNames, QuestionAssumption
     DEF RequestCertificateConfirm, UiFree, Put, Open, Give, Good, TasksOf,
         OwnerOf, AnswersOf, Fresh, Framed, QuestionsTypeOK, YesNo
<1>8. OwnerOf(q)'
  BY <1>1, <1>3, <1>4, TaskNames, QuestionAssumption
     DEF RequestCertificateConfirm, UiFree, Put, Open, Give, Good, TasksOf,
         OwnerOf, AnswersOf, Fresh, Framed, QuestionsTypeOK, YesNo
<1>9. AnswersOf(q)'
  <2>1. /\ answers[q] = <<>> /\ ~decided'[q] /\ verdict'[q] = "none"
        /\ ~Sent(io', q) /\ kind'[q] = "certificate" /\ holder[q] = "none"
    BY <1>1, <1>3, <1>4
       DEF RequestCertificateConfirm, Put, Good, TasksOf, OwnerOf, Fresh
  <2>2. \/ answers' = answers
        \/ "no" \in YesNo /\ Give(q, "no") /\ holder'[q] = "none"
    BY <1>1, <2>1 DEF RequestCertificateConfirm, YesNo, QuestionsTypeOK
  <2>3. answers'[q] = <<>>
          \/ ((\E a : answers'[q] = <<a>>) /\ holder'[q] = "none")
    BY <1>1, <2>1, <2>2, Given
  <2> QED
    BY <2>1, <2>3, ShortSequences DEF AnswersOf, Heard, Framed
<1> QED
  BY <1>3, <1>1, <1>3, <1>4, <1>6, <1>7, <1>8, <1>9 DEF Good

LEMMA StepRequestNotification ==
  ASSUME QuestionsInv, NEW q \in Questions, RequestNotification(q)
  PROVE  NoTwins(ui') /\ \A p \in Questions : Good(p)'
<1>1. QuestionsTypeOK /\ NoTwins(ui) /\ \A p \in Questions : Good(p)
  BY DEF QuestionsInv
<1>2. QuestionsTypeOK'
  BY <1>1, TypeRequestNotification
<1>3. NoTwins(ui') /\ ui' = ui
  BY <1>1 DEF RequestNotification
<1>4. io' = io
  BY DEF RequestNotification
<1>5. ASSUME NEW p \in Questions, p # q PROVE Undisturbed(p)
  BY <1>1, <1>3, <1>4, <1>5, TaskNames, QuestionAssumption
     DEF RequestNotification, UiFree, Put, Open, Give, Undisturbed,
         QuestionsTypeOK
<1>6. ASSUME NEW p \in Questions, p # q PROVE Good(p)'
  BY <1>1, <1>2, <1>5, <1>6, UndisturbedGood DEF QuestionsTypeOK
<1>7. TasksOf(q)'
  BY <1>1, <1>3, <1>4, TaskNames, QuestionAssumption
     DEF RequestNotification, UiFree, Put, Open, Give, Good, TasksOf, OwnerOf,
         AnswersOf, Fresh, Framed, QuestionsTypeOK, YesNo
<1>8. OwnerOf(q)'
  BY <1>1, <1>3, <1>4, TaskNames, QuestionAssumption
     DEF RequestNotification, UiFree, Put, Open, Give, Good, TasksOf, OwnerOf,
         AnswersOf, Fresh, Framed, QuestionsTypeOK, YesNo
<1>9. AnswersOf(q)'
  <2>1. /\ answers[q] = <<>> /\ ~decided'[q] /\ verdict'[q] = "none"
        /\ ~Sent(io', q) /\ kind'[q] = "notification" /\ holder[q] = "none"
    BY <1>1, <1>3, <1>4
       DEF RequestNotification, Put, Good, TasksOf, OwnerOf, Fresh
  <2>2. \/ answers' = answers
        \/ "no" \in YesNo /\ Give(q, "no") /\ holder'[q] = "none"
        \/ permission \in YesNo /\ Give(q, permission) /\ holder'[q] = "none"
    BY <1>1, <2>1 DEF RequestNotification, YesNo, QuestionsTypeOK
  <2>3. answers'[q] = <<>>
          \/ ((\E a : answers'[q] = <<a>>) /\ holder'[q] = "none")
    BY <1>1, <2>1, <2>2, Given
  <2> QED
    BY <2>1, <2>3, ShortSequences DEF AnswersOf, Heard, Framed
<1> QED
  BY <1>3, <1>1, <1>3, <1>4, <1>6, <1>7, <1>8, <1>9 DEF Good

LEMMA StepRequestMediaAccess ==
  ASSUME QuestionsInv, NEW q \in Questions, RequestMediaAccess(q)
  PROVE  NoTwins(ui') /\ \A p \in Questions : Good(p)'
<1>1. QuestionsTypeOK /\ NoTwins(ui) /\ \A p \in Questions : Good(p)
  BY DEF QuestionsInv
<1>2. QuestionsTypeOK'
  BY <1>1, TypeRequestMediaAccess
<1>3. NoTwins(ui') /\ ui' = ui
  BY <1>1 DEF RequestMediaAccess
<1>4. io' = io
  BY DEF RequestMediaAccess
<1>5. \A p : Queued(requestsQueue', p) => Queued(requestsQueue, p) \/ p = q
  <2>1. requestsQueue \in Seq(Questions)
          /\ requestsQueue' = Append(requestsQueue, q)
    BY <1>1 DEF QuestionsTypeOK, RequestMediaAccess
  <2> QED
    BY <2>1, QueuePut
<1>6. ASSUME NEW p \in Questions, p # q PROVE Undisturbed(p)
  BY <1>1, <1>3, <1>4, <1>5, <1>6, TaskNames, QuestionAssumption
     DEF RequestMediaAccess, UiFree, Put, Open, Undisturbed, QuestionsTypeOK
<1>7. ASSUME NEW p \in Questions, p # q PROVE Good(p)'
  BY <1>1, <1>2, <1>6, <1>7, UndisturbedGood DEF QuestionsTypeOK
<1>8. TasksOf(q)'
  BY <1>1, <1>3, <1>4, TaskNames, QuestionAssumption
     DEF RequestMediaAccess, UiFree, Put, Open, Good, TasksOf, OwnerOf,
         AnswersOf, Fresh, Framed, QuestionsTypeOK, YesNo
<1>9. OwnerOf(q)'
  BY <1>1, <1>3, <1>4, TaskNames, QuestionAssumption
     DEF RequestMediaAccess, UiFree, Put, Open, Good, TasksOf, OwnerOf,
         AnswersOf, Fresh, Framed, QuestionsTypeOK, YesNo
<1>10. AnswersOf(q)'
  BY <1>1, <1>3, <1>4, TaskNames, QuestionAssumption
     DEF RequestMediaAccess, UiFree, Put, Open, Good, TasksOf, OwnerOf,
         AnswersOf, Heard, Fresh, Framed, QuestionsTypeOK, YesNo
<1> QED
  BY <1>3, <1>1, <1>3, <1>4, <1>7, <1>8, <1>9, <1>10 DEF Good

LEMMA StepSuspend ==
  ASSUME QuestionsInv, NEW q \in Questions, Suspend(q)
  PROVE  NoTwins(ui') /\ \A p \in Questions : Good(p)'
<1>1. QuestionsTypeOK /\ NoTwins(ui) /\ \A p \in Questions : Good(p)
  BY DEF QuestionsInv
<1>2. QuestionsTypeOK'
  BY <1>1, TypeSuspend
<1>3. NoTwins(ui') /\ ui' = ui
  BY <1>1 DEF Suspend
<1>4. io' = io
  BY DEF Suspend
<1>5. ASSUME NEW p \in Questions, p # q PROVE Undisturbed(p)
  BY <1>1, <1>3, <1>4, <1>5, TaskNames, QuestionAssumption
     DEF Suspend, Undisturbed, QuestionsTypeOK
<1>6. ASSUME NEW p \in Questions, p # q PROVE Good(p)'
  BY <1>1, <1>2, <1>5, <1>6, UndisturbedGood DEF QuestionsTypeOK
<1>7. TasksOf(q)'
  BY <1>1, <1>3, <1>4, TaskNames, QuestionAssumption
     DEF Suspend, Good, TasksOf, OwnerOf, AnswersOf, Fresh, Framed,
         QuestionsTypeOK, YesNo
<1>8. OwnerOf(q)'
  BY <1>1, <1>3, <1>4, TaskNames, QuestionAssumption
     DEF Suspend, Good, TasksOf, OwnerOf, AnswersOf, Fresh, Framed,
         QuestionsTypeOK, YesNo
<1>9. AnswersOf(q)'
  BY <1>1, <1>3, <1>4, TaskNames, QuestionAssumption
     DEF Suspend, Good, TasksOf, OwnerOf, AnswersOf, Heard, Fresh, Framed,
         QuestionsTypeOK, YesNo
<1> QED
  BY <1>3, <1>1, <1>3, <1>4, <1>6, <1>7, <1>8, <1>9 DEF Good

LEMMA StepAuthReturns ==
  ASSUME QuestionsInv, NEW q \in Questions, AuthReturns(q)
  PROVE  NoTwins(ui') /\ \A p \in Questions : Good(p)'
<1>1. QuestionsTypeOK /\ NoTwins(ui) /\ \A p \in Questions : Good(p)
  BY DEF QuestionsInv
<1>2. QuestionsTypeOK'
  BY <1>1, TypeAuthReturns
<1>3. NoTwins(ui') /\ ui' = ui
  BY <1>1 DEF AuthReturns
<1>4. io \in Seq(Message) /\ [q |-> q, answer |-> "no"] \in Message
  BY <1>1 DEF QuestionsTypeOK, Message, YesNo
<1>5. /\ \A p : Sent(Append(io, [q |-> q, answer |-> "no"]), p) <=>
           Sent(io, p) \/ p = q
      /\ \A p, b : Leads(io, p, b) =>
           Leads(Append(io, [q |-> q, answer |-> "no"]), p, b)
      /\ ~Sent(io, q) => Leads(Append(io, [q |-> q, answer |-> "no"]), q, "no")
  BY <1>4, SentPut
<1>6. ASSUME NEW p \in Questions, p # q PROVE Undisturbed(p)
  <2>1. /\ kind'[p] = kind[p] /\ asked'[p] = asked[p] /\ holder'[p] = holder[p]
        /\ decided'[p] = decided[p] /\ suspended'[p] = suspended[p]
        /\ verdict'[p] = verdict[p] /\ answers'[p] = answers[p]
        /\ requestsQueue' = requestsQueue /\ request'[p] = request[p]
             /\ asking # p /\ asking' # p
    BY <1>1, <1>6, QuestionAssumption
       DEF AuthReturns, Returned, QuestionsTypeOK
  <2>2. io' = io \/ io' = Append(io, [q |-> q, answer |-> "no"])
    BY DEF AuthReturns
  <2>3. Sent(io', p) => Sent(io, p)
    BY <1>5, <1>6, <2>2
  <2>4. \A a : Leads(io, p, a) => Leads(io', p, a)
    BY <1>5, <2>2
  <2> QED
    BY <1>3, <2>1, <2>3, <2>4 DEF Undisturbed
<1>7. ASSUME NEW p \in Questions, p # q PROVE Good(p)'
  BY <1>1, <1>2, <1>6, <1>7, UndisturbedGood DEF QuestionsTypeOK
<1>8. TasksOf(q)'
  BY <1>1, <1>3, <1>5, TaskNames, QuestionAssumption
     DEF AuthReturns, Returned, Good, TasksOf, OwnerOf, AnswersOf, Fresh,
         Framed, QuestionsTypeOK, YesNo
<1>9. OwnerOf(q)'
  BY <1>1, <1>3, <1>5, TaskNames, QuestionAssumption
     DEF AuthReturns, Returned, Good, TasksOf, OwnerOf, AnswersOf, Fresh,
         Framed, QuestionsTypeOK, YesNo
<1>10. AnswersOf(q)'
  <2>1. /\ kind[q] = "auth" /\ kind' = kind /\ holder' = holder
        /\ holder[q] \notin {"none", "freed"} /\ answers' = answers
        /\ request' = request
    BY <1>1 DEF AuthReturns, Returned, Good, OwnerOf
  <2>2. CASE decided[q] \/ suspended[q]
    <3>1. io' = io /\ decided' = decided /\ verdict' = verdict
            /\ suspended' = suspended
      BY <2>2 DEF AuthReturns
    <3> QED
      BY <1>1, <2>1, <3>1 DEF Good, AnswersOf, Heard, Framed
  <2>3. CASE ~(decided[q] \/ suspended[q])
    <3>1. /\ io' = Append(io, [q |-> q, answer |-> "no"])
          /\ decided'[q] /\ verdict'[q] = "no"
      BY <1>1, <2>3 DEF AuthReturns, QuestionsTypeOK
    <3>2. ~Sent(io, q) /\ answers[q] = <<>>
      BY <1>1, <2>1, <2>3 DEF Good, AnswersOf
    <3>3. Leads(io', q, verdict'[q])
      BY <1>5, <3>1, <3>2
    <3> QED
      BY <2>1, <3>1, <3>2, <3>3 DEF AnswersOf, Framed
  <2> QED
    BY <2>2, <2>3
<1> QED
  BY <1>3, <1>1, <1>3, <1>5, <1>7, <1>8, <1>9, <1>10 DEF Good

LEMMA StepGeolocationReturns ==
  ASSUME QuestionsInv, NEW q \in Questions, GeolocationReturns(q)
  PROVE  NoTwins(ui') /\ \A p \in Questions : Good(p)'
<1>1. QuestionsTypeOK /\ NoTwins(ui) /\ \A p \in Questions : Good(p)
  BY DEF QuestionsInv
<1>2. QuestionsTypeOK'
  BY <1>1, TypeGeolocationReturns
<1>3. NoTwins(ui') /\ ui' = ui
  BY <1>1 DEF GeolocationReturns
<1>4. io' = io
  BY DEF GeolocationReturns
<1>5. ASSUME NEW p \in Questions, p # q PROVE Undisturbed(p)
  BY <1>1, <1>3, <1>4, <1>5, TaskNames, QuestionAssumption
     DEF GeolocationReturns, Returned, LeaveFrame, Give, Undisturbed,
         QuestionsTypeOK
<1>6. ASSUME NEW p \in Questions, p # q PROVE Good(p)'
  BY <1>1, <1>2, <1>5, <1>6, UndisturbedGood DEF QuestionsTypeOK
<1>7. TasksOf(q)'
  BY <1>1, <1>3, <1>4, TaskNames, QuestionAssumption
     DEF GeolocationReturns, Returned, LeaveFrame, Give, Good, TasksOf,
         OwnerOf, AnswersOf, Fresh, Framed, QuestionsTypeOK, YesNo
<1>8. OwnerOf(q)'
  BY <1>1, <1>3, <1>4, TaskNames, QuestionAssumption
     DEF GeolocationReturns, Returned, LeaveFrame, Give, Good, TasksOf,
         OwnerOf, AnswersOf, Fresh, Framed, QuestionsTypeOK, YesNo
<1>9. AnswersOf(q)'
  <2>1. /\ kind[q] = "geolocation" /\ kind' = kind /\ decided' = decided
        /\ verdict' = verdict /\ suspended' = suspended /\ io' = io
        /\ holder[q] \in {"frame", "app", "view"} /\ holder[q] # "view"
    BY <1>1 DEF GeolocationReturns, Returned, QuestionsTypeOK, Good, OwnerOf
  <2>2. /\ answers[q] = IF decided[q] THEN <<verdict[q]>> ELSE <<>>
        /\ decided[q] => verdict[q] \in YesNo
        /\ decided[q] <=> verdict[q] # "none"
        /\ ~Sent(io, q)
    BY <1>1, <2>1 DEF Good, OwnerOf, AnswersOf, Framed, QuestionsTypeOK
  <2>3. CASE suspended[q]
    <3>1. answers' = answers
      BY <2>3 DEF GeolocationReturns
    <3> QED
      BY <2>1, <2>2, <3>1, ShortSequences DEF AnswersOf, Heard, Framed
  <2>4. CASE ~suspended[q]
    <3>1. Give(q, "no") /\ "no" \in YesNo /\ holder'[q] = "freed"
      BY <1>1, <2>4 DEF GeolocationReturns, LeaveFrame, YesNo, QuestionsTypeOK
    <3>2. answers'[q] = IF decided[q] THEN <<verdict[q], "no">> ELSE <<"no">>
      BY <1>1, <2>2, <3>1, Given
    <3> QED
      BY <2>1, <2>2, <2>4, <3>1, <3>2, ShortSequences
         DEF AnswersOf, Heard, Framed
  <2> QED
    BY <2>3, <2>4
<1> QED
  BY <1>3, <1>1, <1>3, <1>4, <1>6, <1>7, <1>8, <1>9 DEF Good

LEMMA StepCertificateReturns ==
  ASSUME QuestionsInv, NEW q \in Questions, CertificateReturns(q)
  PROVE  NoTwins(ui') /\ \A p \in Questions : Good(p)'
<1>1. QuestionsTypeOK /\ NoTwins(ui) /\ \A p \in Questions : Good(p)
  BY DEF QuestionsInv
<1>2. QuestionsTypeOK'
  BY <1>1, TypeCertificateReturns
<1>3. NoTwins(ui') /\ ui' = ui
  BY <1>1 DEF CertificateReturns
<1>4. io' = io
  BY DEF CertificateReturns
<1>5. ASSUME NEW p \in Questions, p # q PROVE Undisturbed(p)
  BY <1>1, <1>3, <1>4, <1>5, TaskNames, QuestionAssumption
     DEF CertificateReturns, Returned, LeaveFrame, Give, Undisturbed,
         QuestionsTypeOK
<1>6. ASSUME NEW p \in Questions, p # q PROVE Good(p)'
  BY <1>1, <1>2, <1>5, <1>6, UndisturbedGood DEF QuestionsTypeOK
<1>7. TasksOf(q)'
  BY <1>1, <1>3, <1>4, TaskNames, QuestionAssumption
     DEF CertificateReturns, Returned, LeaveFrame, Give, Good, TasksOf,
         OwnerOf, AnswersOf, Fresh, Framed, QuestionsTypeOK, YesNo
<1>8. OwnerOf(q)'
  BY <1>1, <1>3, <1>4, TaskNames, QuestionAssumption
     DEF CertificateReturns, Returned, LeaveFrame, Give, Good, TasksOf,
         OwnerOf, AnswersOf, Fresh, Framed, QuestionsTypeOK, YesNo
<1>9. AnswersOf(q)'
  <2>1. /\ kind[q] = "certificate" /\ kind' = kind /\ io' = io
        /\ holder[q] \in {"frame", "app", "view"} /\ holder[q] # "view"
    BY <1>1 DEF CertificateReturns, Returned, QuestionsTypeOK, Good, OwnerOf
  <2>2. /\ answers[q] = IF decided[q] THEN <<verdict[q]>> ELSE <<>>
        /\ decided[q] <=> verdict[q] # "none"
        /\ ~Sent(io, q)
    BY <1>1, <2>1 DEF Good, OwnerOf, AnswersOf, Framed, QuestionsTypeOK
  <2>3. CASE suspended[q] \/ decided[q]
    <3>1. answers' = answers /\ decided' = decided /\ verdict' = verdict
      BY <2>3 DEF CertificateReturns
    <3> QED
      BY <2>1, <2>2, <3>1, ShortSequences DEF AnswersOf, Heard, Framed
  <2>4. CASE ~(suspended[q] \/ decided[q])
    <3>1. Give(q, "yes") /\ "yes" \in YesNo /\ decided'[q]
            /\ verdict'[q] = "yes"
      BY <1>1, <2>4 DEF CertificateReturns, YesNo, QuestionsTypeOK
    <3>2. answers'[q] = <<"yes">>
      BY <1>1, <2>2, <2>4, <3>1, Given
    <3> QED
      BY <2>1, <2>2, <3>1, <3>2, ShortSequences DEF AnswersOf, Heard, Framed
  <2> QED
    BY <2>3, <2>4
<1> QED
  BY <1>3, <1>1, <1>3, <1>4, <1>6, <1>7, <1>8, <1>9 DEF Good

LEMMA StepNotificationReturns ==
  ASSUME QuestionsInv, NEW q \in Questions, NotificationReturns(q)
  PROVE  NoTwins(ui') /\ \A p \in Questions : Good(p)'
<1>1. QuestionsTypeOK /\ NoTwins(ui) /\ \A p \in Questions : Good(p)
  BY DEF QuestionsInv
<1>2. QuestionsTypeOK'
  BY <1>1, TypeNotificationReturns
<1>3. NoTwins(ui') /\ ui' = ui
  BY <1>1 DEF NotificationReturns
<1>4. io' = io
  BY DEF NotificationReturns
<1>5. ASSUME NEW p \in Questions, p # q PROVE Undisturbed(p)
  BY <1>1, <1>3, <1>4, <1>5, TaskNames, QuestionAssumption
     DEF NotificationReturns, Returned, LeaveFrame, Undisturbed,
         QuestionsTypeOK
<1>6. ASSUME NEW p \in Questions, p # q PROVE Good(p)'
  BY <1>1, <1>2, <1>5, <1>6, UndisturbedGood DEF QuestionsTypeOK
<1>7. TasksOf(q)'
  BY <1>1, <1>3, <1>4, TaskNames, QuestionAssumption
     DEF NotificationReturns, Returned, LeaveFrame, Good, TasksOf, OwnerOf,
         AnswersOf, Fresh, Framed, QuestionsTypeOK, YesNo
<1>8. OwnerOf(q)'
  BY <1>1, <1>3, <1>4, TaskNames, QuestionAssumption
     DEF NotificationReturns, Returned, LeaveFrame, Good, TasksOf, OwnerOf,
         AnswersOf, Fresh, Framed, QuestionsTypeOK, YesNo
<1>9. AnswersOf(q)'
  BY <1>1, <1>3, <1>4, TaskNames, QuestionAssumption
     DEF NotificationReturns, Returned, LeaveFrame, Good, TasksOf, OwnerOf,
         AnswersOf, Heard, Fresh, Framed, QuestionsTypeOK, YesNo
<1> QED
  BY <1>3, <1>1, <1>3, <1>4, <1>6, <1>7, <1>8, <1>9 DEF Good

LEMMA StepMediaReturns ==
  ASSUME QuestionsInv, NEW q \in Questions, MediaReturns(q)
  PROVE  NoTwins(ui') /\ \A p \in Questions : Good(p)'
<1>1. QuestionsTypeOK /\ NoTwins(ui) /\ \A p \in Questions : Good(p)
  BY DEF QuestionsInv
<1>2. QuestionsTypeOK'
  BY <1>1, TypeMediaReturns
<1>3. NoTwins(ui') /\ ui' = ui
  BY <1>1 DEF MediaReturns, objects
<1>4. io' = io
  BY DEF MediaReturns, objects
<1>5. ASSUME NEW p \in Questions, p # q PROVE Undisturbed(p)
  BY <1>1, <1>3, <1>4, <1>5, TaskNames, QuestionAssumption
     DEF MediaReturns, Returned, objects, Undisturbed, QuestionsTypeOK
<1>6. ASSUME NEW p \in Questions, p # q PROVE Good(p)'
  BY <1>1, <1>2, <1>5, <1>6, UndisturbedGood DEF QuestionsTypeOK
<1>7. TasksOf(q)'
  BY <1>1, <1>3, <1>4, TaskNames, QuestionAssumption
     DEF MediaReturns, Returned, objects, Good, TasksOf, OwnerOf, AnswersOf,
         Fresh, Framed, QuestionsTypeOK, YesNo
<1>8. OwnerOf(q)'
  BY <1>1, <1>3, <1>4, TaskNames, QuestionAssumption
     DEF MediaReturns, Returned, objects, Good, TasksOf, OwnerOf, AnswersOf,
         Fresh, Framed, QuestionsTypeOK, YesNo
<1>9. AnswersOf(q)'
  BY <1>1, <1>3, <1>4, TaskNames, QuestionAssumption
     DEF MediaReturns, Returned, objects, Good, TasksOf, OwnerOf, AnswersOf,
         Heard, Fresh, Framed, QuestionsTypeOK, YesNo
<1> QED
  BY <1>3, <1>1, <1>3, <1>4, <1>6, <1>7, <1>8, <1>9 DEF Good

LEMMA StepUseOrCancelCredential ==
  ASSUME QuestionsInv, NEW q \in Questions,
         NEW a \in YesNo, UseOrCancelCredential(q, a)
  PROVE  NoTwins(ui') /\ \A p \in Questions : Good(p)'
<1>1. QuestionsTypeOK /\ NoTwins(ui) /\ \A p \in Questions : Good(p)
  BY DEF QuestionsInv
<1>2. QuestionsTypeOK'
  BY <1>1, TypeUseOrCancelCredential
<1>3. NoTwins(ui') /\ ui' = ui
  BY <1>1 DEF UseOrCancelCredential
<1>4. io \in Seq(Message) /\ [q |-> q, answer |-> a] \in Message
  BY <1>1 DEF QuestionsTypeOK, Message, YesNo
<1>5. /\ \A p : Sent(Append(io, [q |-> q, answer |-> a]), p) <=>
           Sent(io, p) \/ p = q
      /\ \A p, b : Leads(io, p, b) =>
           Leads(Append(io, [q |-> q, answer |-> a]), p, b)
      /\ ~Sent(io, q) => Leads(Append(io, [q |-> q, answer |-> a]), q, a)
  BY <1>4, SentPut
<1>6. ASSUME NEW p \in Questions, p # q PROVE Undisturbed(p)
  BY <1>1, <1>3, <1>5, <1>6, TaskNames, QuestionAssumption
     DEF UseOrCancelCredential, Decides, MayCall, Undisturbed, QuestionsTypeOK
<1>7. ASSUME NEW p \in Questions, p # q PROVE Good(p)'
  BY <1>1, <1>2, <1>6, <1>7, UndisturbedGood DEF QuestionsTypeOK
<1>8. TasksOf(q)'
  BY <1>1, <1>3, <1>5, TaskNames, QuestionAssumption
     DEF UseOrCancelCredential, Decides, MayCall, Good, TasksOf, OwnerOf,
         AnswersOf, Fresh, Framed, QuestionsTypeOK, YesNo
<1>9. OwnerOf(q)'
  BY <1>1, <1>3, <1>5, TaskNames, QuestionAssumption
     DEF UseOrCancelCredential, Decides, MayCall, Good, TasksOf, OwnerOf,
         AnswersOf, Fresh, Framed, QuestionsTypeOK, YesNo
<1>10. AnswersOf(q)'
  BY <1>1, <1>3, <1>5, TaskNames, QuestionAssumption
     DEF UseOrCancelCredential, Decides, MayCall, Good, TasksOf, OwnerOf,
         AnswersOf, Heard, Fresh, Framed, QuestionsTypeOK, YesNo
<1> QED
  BY <1>3, <1>1, <1>3, <1>5, <1>7, <1>8, <1>9, <1>10 DEF Good

LEMMA StepSetDecision ==
  ASSUME QuestionsInv, NEW q \in Questions, NEW a \in YesNo, SetDecision(q, a)
  PROVE  NoTwins(ui') /\ \A p \in Questions : Good(p)'
<1>1. QuestionsTypeOK /\ NoTwins(ui) /\ \A p \in Questions : Good(p)
  BY DEF QuestionsInv
<1>2. QuestionsTypeOK'
  BY <1>1, TypeSetDecision
<1>3. ~decided[q] /\ ~Queued(ui, Delete(q))
  BY <1>1 DEF SetDecision, Good, TasksOf
<1>4. ui \in Seq(ViewTask) /\ Delete(q) \in ViewTask
  BY <1>1 DEF QuestionsTypeOK, ViewTask, Delete
<1>5. /\ NoTwins(ui') 
      /\ \A s : Queued(ui', s) =>
           Queued(ui, s) \/ (suspended[q] /\ s = Delete(q))
  BY <1>1, <1>3, <1>4, QueuePut DEF SetDecision
<1>6. io' = io
  BY DEF SetDecision
<1>7. ASSUME NEW p \in Questions, p # q PROVE Undisturbed(p)
  <2>1. /\ kind'[p] = kind[p] /\ asked'[p] = asked[p] /\ holder'[p] = holder[p]
        /\ decided'[p] = decided[p] /\ suspended'[p] = suspended[p]
        /\ verdict'[p] = verdict[p] /\ answers'[p] = answers[p]
        /\ requestsQueue' = requestsQueue /\ request'[p] = request[p]
             /\ asking' = asking
    BY <1>1, <1>7 DEF SetDecision, Decides, Give, QuestionsTypeOK
  <2>2. /\ Queued(ui', Ask(p)) => Queued(ui, Ask(p))
        /\ Queued(ui', Delete(p)) => Queued(ui, Delete(p))
    BY <1>5, <1>7, TaskNames
  <2> QED
    BY <1>6, <2>1, <2>2 DEF Undisturbed
<1>8. ASSUME NEW p \in Questions, p # q PROVE Good(p)'
  BY <1>1, <1>2, <1>7, <1>8, UndisturbedGood DEF QuestionsTypeOK
<1>9. TasksOf(q)'
  BY <1>1, <1>3, <1>5, <1>6, TaskNames, QuestionAssumption
     DEF SetDecision, Decides, MayCall, Give, Good, TasksOf, OwnerOf,
         AnswersOf, Fresh, Framed, QuestionsTypeOK, YesNo
<1>10. OwnerOf(q)'
  BY <1>1, <1>3, <1>5, <1>6, TaskNames, QuestionAssumption
     DEF SetDecision, Decides, MayCall, Give, Good, TasksOf, OwnerOf,
         AnswersOf, Fresh, Framed, QuestionsTypeOK, YesNo
<1>11. AnswersOf(q)'
  <2>1. /\ kind[q] \in Framed /\ kind' = kind /\ io' = io /\ holder' = holder
        /\ decided'[q] /\ verdict[q] = "none" /\ verdict'[q] = a /\ a # "none"
        /\ holder[q] \in {"frame", "app"} /\ Give(q, a)
    BY <1>1
       DEF SetDecision, Decides, MayCall, QuestionsTypeOK, Good, OwnerOf,
           Framed, YesNo
  <2>2. answers[q] = <<>> /\ ~Sent(io, q)
    BY <1>1, <1>3, <2>1 DEF Good, AnswersOf, Framed
  <2>3. answers'[q] = <<a>>
    BY <1>1, <2>1, <2>2, Given
  <2> QED
    BY <2>1, <2>2, <2>3, ShortSequences DEF AnswersOf, Heard, Framed
<1> QED
  BY <1>5, <1>1, <1>3, <1>5, <1>6, <1>8, <1>9, <1>10, <1>11 DEF Good

LEMMA StepSetUserMedia ==
  ASSUME QuestionsInv, NEW q \in Questions, NEW a \in YesNo, SetUserMedia(q, a)
  PROVE  NoTwins(ui') /\ \A p \in Questions : Good(p)'
<1>1. QuestionsTypeOK /\ NoTwins(ui) /\ \A p \in Questions : Good(p)
  BY DEF QuestionsInv
<1>2. QuestionsTypeOK'
  BY <1>1, TypeSetUserMedia
<1>3. NoTwins(ui') /\ ui' = ui
  BY <1>1 DEF SetUserMedia
<1>4. io' = io
  BY DEF SetUserMedia
<1>5. /\ kind' = kind /\ asked' = asked /\ request' = request
           /\ asking' = asking
      /\ suspended' = suspended /\ kind[q] = "media" /\ asked[q]
  BY <1>1 DEF SetUserMedia, MayCall, Good, TasksOf, Fresh
<1>6. /\ \A p : Queued(requestsQueue', p) => Queued(requestsQueue, p)
      /\ \A p \in Questions : answers'[p] = answers[p]
           \/ Queued(requestsQueue, p)
  <2>1. CASE requestsQueue = <<>>
    BY <2>1 DEF SetUserMedia, AnswerFront
  <2>2. CASE requestsQueue # <<>>
    <3>1. requestsQueue' = Tail(requestsQueue) /\ Give(Head(requestsQueue), a)
      BY <2>2 DEF SetUserMedia, AnswerFront
    <3>2. /\ Queued(requestsQueue, Head(requestsQueue))
          /\ \A p : Queued(requestsQueue', p) => Queued(requestsQueue, p)
      BY <1>1, <2>2, <3>1, QueueTake DEF QuestionsTypeOK
    <3> QED
      BY <1>1, <3>1, <3>2 DEF Give, QuestionsTypeOK
  <2> QED
    BY <2>1, <2>2
<1>7. ASSUME NEW p \in Questions, p # q PROVE Good(p)'
  <2>1. /\ holder'[p] = holder[p] /\ decided'[p] = decided[p]
        /\ verdict'[p] = verdict[p]
    BY <1>1, <1>7 DEF SetUserMedia, Decides, QuestionsTypeOK
  <2>2. CASE answers'[p] = answers[p]
    <3>1. Undisturbed(p)
      BY <1>3, <1>4, <1>5, <1>6, <2>1, <2>2 DEF Undisturbed
    <3> QED
      BY <1>1, <1>2, <3>1, UndisturbedGood DEF QuestionsTypeOK
  <2>3. CASE Queued(requestsQueue, p)
    <3>1. asked[p] /\ kind[p] = "media"
      BY <1>1, <2>3 DEF Good, TasksOf
    <3>2. TasksOf(p)'
      BY <1>1, <1>3, <1>5, <1>6, <2>1, <3>1 DEF Good, TasksOf, Framed
    <3>3. OwnerOf(p)'
      BY <1>1, <1>5, <2>1 DEF Good, OwnerOf
    <3>4. AnswersOf(p)'
      BY <1>1, <1>4, <1>5, <3>1 DEF Good, AnswersOf, Framed
    <3> QED
      BY <3>2, <3>3, <3>4 DEF Good
  <2> QED
    BY <1>6, <2>2, <2>3
<1>8. holder'[q] = "freed" /\ decided'[q] /\ verdict'[q] # "none"
  BY <1>1 DEF SetUserMedia, Decides, QuestionsTypeOK, YesNo
<1>9. TasksOf(q)'
  BY <1>1, <1>3, <1>5, <1>6 DEF Good, TasksOf, Framed
<1>10. OwnerOf(q)'
  BY <1>5, <1>8 DEF OwnerOf
<1>11. AnswersOf(q)'
  BY <1>1, <1>4, <1>5 DEF Good, AnswersOf, Framed
<1> QED
  BY <1>3, <1>7, <1>9, <1>10, <1>11 DEF Good

LEMMA StepAnswerOnIOThread ==
  ASSUME QuestionsInv, AnswerOnIOThread
  PROVE  NoTwins(ui') /\ \A p \in Questions : Good(p)'
<1>1. QuestionsTypeOK /\ NoTwins(ui) /\ \A p \in Questions : Good(p)
  BY DEF QuestionsInv
<1>2. QuestionsTypeOK'
  BY <1>1, TypeAnswerOnIOThread
<1>3. NoTwins(ui') /\ ui' = ui
  BY <1>1 DEF AnswerOnIOThread, objects
<1>4. io \in Seq(Message) /\ io # <<>> /\ io' = Tail(io)
  BY <1>1 DEF QuestionsTypeOK, Message, AnswerOnIOThread
<1>5. /\ Head(io) \in Message /\ Sent(io, Head(io).q)
      /\ \A p : Sent(io', p) => Sent(io, p)
      /\ \A p, b : Leads(io, p, b) =>
           IF p = Head(io).q THEN b = Head(io).answer ELSE Leads(io', p, b)
  BY <1>4, SentTake
<1>6. PICK q \in Questions : q = Head(io).q
  BY <1>1, <1>3, <1>5 DEF Message
<1>7. ASSUME NEW p \in Questions, p # q PROVE Undisturbed(p)
  BY <1>1, <1>3, <1>5, <1>6, <1>7, TaskNames, QuestionAssumption
     DEF AnswerOnIOThread, Give, objects, Undisturbed, QuestionsTypeOK
<1>8. ASSUME NEW p \in Questions, p # q PROVE Good(p)'
  BY <1>1, <1>2, <1>7, <1>8, UndisturbedGood DEF QuestionsTypeOK
<1>9. TasksOf(q)'
  BY <1>1, <1>3, <1>5, <1>6, TaskNames, QuestionAssumption
     DEF AnswerOnIOThread, Give, objects, Good, TasksOf, OwnerOf, AnswersOf,
         Fresh, Framed, QuestionsTypeOK, YesNo, Message
<1>10. OwnerOf(q)'
  BY <1>1, <1>3, <1>5, <1>6, TaskNames, QuestionAssumption
     DEF AnswerOnIOThread, Give, objects, Good, TasksOf, OwnerOf, AnswersOf,
         Fresh, Framed, QuestionsTypeOK, YesNo, Message
<1>11. AnswersOf(q)'
  <2>1. /\ kind[q] = "auth" /\ kind' = kind /\ holder' = holder
        /\ decided' = decided /\ verdict' = verdict
    BY <1>1, <1>5, <1>6 DEF AnswerOnIOThread, objects, Good, AnswersOf
  <2>2. CASE request[q]
    <3>1. Give(q, Head(io).answer) /\ Head(io).answer \in YesNo /\ ~request'[q]
      BY <1>1, <1>5, <1>6, <2>2 DEF AnswerOnIOThread, Message, QuestionsTypeOK
    <3>2. answers[q] = <<>> /\ (decided[q] => verdict[q] = Head(io).answer)
      BY <1>1, <1>5, <1>6, <2>1, <2>2 DEF Good, AnswersOf
    <3>3. answers'[q] = <<Head(io).answer>>
      BY <1>1, <3>1, <3>2, Given
    <3>4. (decided[q] <=> verdict[q] # "none")
            /\ (~decided[q] => holder[q] = "none")
      BY <1>1, <1>5, <1>6, <2>1 DEF Good, OwnerOf, AnswersOf
    <3> QED
      BY <2>1, <3>1, <3>2, <3>3, <3>4, ShortSequences
         DEF AnswersOf, Heard, Framed
  <2>3. CASE ~request[q]
    <3>1. request' = request /\ answers' = answers /\ suspended' = suspended
      BY <1>6, <2>3 DEF AnswerOnIOThread, objects
    <3> QED
      BY <1>1, <1>5, <2>1, <2>3, <3>1 DEF Good, AnswersOf, Heard, Framed
  <2> QED
    BY <2>2, <2>3
<1> QED
  BY <1>5, <1>1, <1>3, <1>5, <1>6, <1>8, <1>9, <1>10, <1>11 DEF Good

LEMMA StepDeleteObject ==
  ASSUME QuestionsInv, DeleteObject
  PROVE  NoTwins(ui') /\ \A p \in Questions : Good(p)'
<1>1. QuestionsTypeOK /\ NoTwins(ui) /\ \A p \in Questions : Good(p)
  BY DEF QuestionsInv
<1>2. QuestionsTypeOK'
  BY <1>1, TypeDeleteObject
<1>3. ui \in Seq(ViewTask)
  BY <1>1 DEF QuestionsTypeOK, ViewTask
<1>4. ui # <<>> /\ Head(ui).op = "delete" /\ ui' = Tail(ui)
  BY DEF DeleteObject
<1>5. /\ NoTwins(ui') /\ Queued(ui, Head(ui)) /\ Head(ui) \in ViewTask
      /\ \A s : Queued(ui', s) => Queued(ui, s)
      /\ ~Queued(ui', Head(ui))
  BY <1>1, <1>3, <1>4, QueueTake
<1>6. io' = io
  BY DEF DeleteObject
<1>7. PICK q \in Questions : Head(ui) = Delete(q)
  BY <1>1, <1>4, <1>5, <1>6 DEF ViewTask, Delete
<1>8. ASSUME NEW p \in Questions, p # q PROVE Undisturbed(p)
  <2>1. /\ kind'[p] = kind[p] /\ asked'[p] = asked[p] /\ holder'[p] = holder[p]
        /\ decided'[p] = decided[p] /\ suspended'[p] = suspended[p]
        /\ verdict'[p] = verdict[p] /\ answers'[p] = answers[p]
        /\ requestsQueue' = requestsQueue /\ request'[p] = request[p]
             /\ asking' = asking
    <3>1. holder' = [holder EXCEPT ![Head(ui).q] = "freed"] /\ Head(ui).q = q
      BY <1>7 DEF DeleteObject, Delete
    <3>2. holder'[p] = holder[p]
      BY <1>1, <1>8, <3>1 DEF QuestionsTypeOK
    <3> QED
      BY <3>2 DEF DeleteObject
  <2> QED
    BY <1>5, <1>6, <2>1 DEF Undisturbed
<1>9. ASSUME NEW p \in Questions, p # q PROVE Good(p)'
  BY <1>1, <1>2, <1>8, <1>9, UndisturbedGood DEF QuestionsTypeOK
<1>10. TasksOf(q)'
  BY <1>1, <1>4, <1>5, <1>6, <1>7, TaskNames, QuestionAssumption
     DEF DeleteObject, UiFree, Good, TasksOf, OwnerOf, AnswersOf, Fresh,
         Framed, QuestionsTypeOK, YesNo
<1>11. OwnerOf(q)'
  BY <1>1, <1>4, <1>5, <1>6, <1>7, TaskNames, QuestionAssumption
     DEF DeleteObject, UiFree, Good, TasksOf, OwnerOf, AnswersOf, Fresh,
         Framed, QuestionsTypeOK, YesNo
<1>12. AnswersOf(q)'
  BY <1>1, <1>4, <1>5, <1>6, <1>7, TaskNames, QuestionAssumption
     DEF DeleteObject, UiFree, Good, TasksOf, OwnerOf, AnswersOf, Heard,
         Fresh, Framed, QuestionsTypeOK, YesNo
<1> QED
  BY <1>6, <1>1, <1>4, <1>5, <1>6, <1>7, <1>9, <1>10, <1>11, <1>12 DEF Good

LEMMA StepCloseView ==
  ASSUME QuestionsInv, CloseView
  PROVE  NoTwins(ui') /\ \A p \in Questions : Good(p)'
<1>1. QuestionsTypeOK /\ NoTwins(ui) /\ \A p \in Questions : Good(p)
  BY DEF QuestionsInv
<1>2. QuestionsTypeOK'
  BY <1>1, TypeCloseView
<1>3. NoTwins(ui') /\ ui' = ui
  BY <1>1 DEF CloseView
<1>4. io' = io
  BY DEF CloseView
<1>5. ASSUME NEW p \in Questions PROVE Good(p)'
  <2>1. /\ kind'[p] = kind[p] /\ asked'[p] = asked[p]
        /\ decided'[p] = decided[p] /\ suspended'[p] = suspended[p]
        /\ verdict'[p] = verdict[p] /\ answers'[p] = answers[p]
        /\ requestsQueue' = requestsQueue /\ request'[p] = request[p]
             /\ asking' = asking /\ asking # p
        /\ holder'[p] = IF holder[p] = "view" THEN "freed" ELSE holder[p]
    BY QuestionAssumption DEF CloseView, UiFree
  <2>2. CASE holder[p] # "view"
    <3>1. Undisturbed(p)
      BY <1>3, <1>4, <2>1, <2>2 DEF Undisturbed
    <3> QED
      BY <1>1, <1>2, <3>1, UndisturbedGood DEF QuestionsTypeOK
  <2>3. CASE holder[p] = "view"
    BY <1>1, <1>3, <1>4, <2>1, <2>3, FreedGood
  <2> QED
    BY <2>2, <2>3
<1> QED
  BY <1>3, <1>5

LEMMA StepSetPermissions ==
  ASSUME QuestionsInv, NEW s \in YesNo \cup {"default"}, SetPermissions(s)
  PROVE  NoTwins(ui') /\ \A p \in Questions : Good(p)'
<1>1. QuestionsTypeOK /\ NoTwins(ui) /\ \A p \in Questions : Good(p)
  BY DEF QuestionsInv
<1>2. QuestionsTypeOK'
  BY <1>1, TypeSetPermissions
<1>3. NoTwins(ui') /\ ui' = ui
  BY <1>1 DEF SetPermissions, objects
<1>4. io' = io
  BY DEF SetPermissions, objects
<1>5. ASSUME NEW p \in Questions PROVE Good(p)'
  <2>1. CASE Undisturbed(p)
    BY <1>1, <1>2, <2>1, UndisturbedGood DEF QuestionsTypeOK
  <2> QED
    BY <1>1, <1>3, <1>4, <2>1
       DEF SetPermissions, objects, Undisturbed, QuestionsTypeOK
<1> QED
  BY <1>3, <1>5

----------------------------------------------------------------------------
LEMMA QuestionsInitInv == QuestionsInit => QuestionsInv
<1> SUFFICES ASSUME QuestionsInit PROVE QuestionsInv
  OBVIOUS
<1>1. QuestionsTypeOK
  <2>1. 0 \in 0 .. MaxDecisions
    BY DecisionAssumption
  <2>2. /\ ui \in Seq([op : {"ask", "delete"}, q : Questions])
        /\ io \in Seq([q : Questions, answer : YesNo])
        /\ requestsQueue \in Seq(Questions)
        /\ answers \in [Questions -> Seq(YesNo)]
    BY DEF QuestionsInit
  <2> QED
    BY <2>1, <2>2 DEF QuestionsInit, QuestionsTypeOK
<1>2. DOMAIN ui = {} /\ DOMAIN io = {} /\ DOMAIN requestsQueue = {}
  BY DEF QuestionsInit
<1>3. NoTwins(ui)
        /\ (\A t : ~Queued(ui, t) /\ ~Queued(requestsQueue, t) /\ ~Sent(io, t))
  BY <1>2 DEF NoTwins, Queued, Sent
<1>4. ASSUME NEW q \in Questions PROVE Good(q)
  <2>1. TasksOf(q)
    BY <1>3 DEF QuestionsInit, TasksOf, Fresh
  <2>2. OwnerOf(q)
    BY QuestionAssumption DEF QuestionsInit, OwnerOf
  <2>3. AnswersOf(q)
    BY <1>3 DEF QuestionsInit, AnswersOf
  <2> QED
    BY <2>1, <2>2, <2>3 DEF Good
<1> QED
  BY <1>1, <1>3, <1>4 DEF QuestionsInv

LEMMA QuestionsNextInv ==
  ASSUME QuestionsInv, [QuestionsNext]_questionsVars
  PROVE  QuestionsInv'
<1>1. QuestionsTypeOK
  BY DEF QuestionsInv
<1>2. ASSUME NEW q \in Questions, LoginDelegateCreated(q) PROVE QuestionsInv'
  BY <1>1, <1>2, TypeLoginDelegateCreated, StepLoginDelegateCreated
     DEF QuestionsInv
<1>3. ASSUME NEW q \in Questions, HandleAuth(q) PROVE QuestionsInv'
  BY <1>1, <1>3, TypeHandleAuth, StepHandleAuth DEF QuestionsInv
<1>4. ASSUME NEW q \in Questions, OnRequestCancelled(q) PROVE QuestionsInv'
  BY <1>1, <1>4, TypeOnRequestCancelled, StepOnRequestCancelled
     DEF QuestionsInv
<1>5. ASSUME NEW q \in Questions, RequestGeolocation(q) PROVE QuestionsInv'
  BY <1>1, <1>5, TypeRequestGeolocation, StepRequestGeolocation
     DEF QuestionsInv
<1>6. ASSUME NEW q \in Questions, HandleGeolocation(q) PROVE QuestionsInv'
  BY <1>1, <1>6, TypeHandleGeolocation, StepHandleGeolocation DEF QuestionsInv
<1>7. ASSUME NEW q \in Questions, RequestCertificateConfirm(q)
      PROVE  QuestionsInv'
  BY <1>1, <1>7, TypeRequestCertificateConfirm, StepRequestCertificateConfirm
     DEF QuestionsInv
<1>8. ASSUME NEW q \in Questions, RequestNotification(q) PROVE QuestionsInv'
  BY <1>1, <1>8, TypeRequestNotification, StepRequestNotification
     DEF QuestionsInv
<1>9. ASSUME NEW q \in Questions, RequestMediaAccess(q) PROVE QuestionsInv'
  BY <1>1, <1>9, TypeRequestMediaAccess, StepRequestMediaAccess
     DEF QuestionsInv
<1>10. ASSUME NEW q \in Questions, Suspend(q) PROVE QuestionsInv'
  BY <1>1, <1>10, TypeSuspend, StepSuspend DEF QuestionsInv
<1>11. ASSUME NEW q \in Questions, AuthReturns(q) PROVE QuestionsInv'
  BY <1>1, <1>11, TypeAuthReturns, StepAuthReturns DEF QuestionsInv
<1>12. ASSUME NEW q \in Questions, GeolocationReturns(q) PROVE QuestionsInv'
  BY <1>1, <1>12, TypeGeolocationReturns, StepGeolocationReturns
     DEF QuestionsInv
<1>13. ASSUME NEW q \in Questions, CertificateReturns(q) PROVE QuestionsInv'
  BY <1>1, <1>13, TypeCertificateReturns, StepCertificateReturns
     DEF QuestionsInv
<1>14. ASSUME NEW q \in Questions, NotificationReturns(q) PROVE QuestionsInv'
  BY <1>1, <1>14, TypeNotificationReturns, StepNotificationReturns
     DEF QuestionsInv
<1>15. ASSUME NEW q \in Questions, MediaReturns(q) PROVE QuestionsInv'
  BY <1>1, <1>15, TypeMediaReturns, StepMediaReturns DEF QuestionsInv
<1>16. ASSUME NEW q \in Questions, NEW a \in YesNo, UseOrCancelCredential(q, a)
       PROVE  QuestionsInv'
  BY <1>1, <1>16, TypeUseOrCancelCredential, StepUseOrCancelCredential
     DEF QuestionsInv
<1>17. ASSUME NEW q \in Questions, NEW a \in YesNo, SetDecision(q, a)
       PROVE  QuestionsInv'
  BY <1>1, <1>17, TypeSetDecision, StepSetDecision DEF QuestionsInv
<1>18. ASSUME NEW q \in Questions, NEW a \in YesNo, SetUserMedia(q, a)
       PROVE  QuestionsInv'
  BY <1>1, <1>18, TypeSetUserMedia, StepSetUserMedia DEF QuestionsInv
<1>19. ASSUME AnswerOnIOThread PROVE QuestionsInv'
  BY <1>1, <1>19, TypeAnswerOnIOThread, StepAnswerOnIOThread DEF QuestionsInv
<1>20. ASSUME DeleteObject PROVE QuestionsInv'
  BY <1>1, <1>20, TypeDeleteObject, StepDeleteObject DEF QuestionsInv
<1>21. ASSUME CloseView PROVE QuestionsInv'
  BY <1>1, <1>21, TypeCloseView, StepCloseView DEF QuestionsInv
<1>22. ASSUME NEW s \in YesNo \cup {"default"}, SetPermissions(s)
       PROVE  QuestionsInv'
  BY <1>1, <1>22, TypeSetPermissions, StepSetPermissions DEF QuestionsInv
<1>23. ASSUME UNCHANGED questionsVars PROVE QuestionsInv'
  <2>1. QuestionsTypeOK'
    BY <1>1, <1>23 DEF questionsVars, objects, QuestionsTypeOK
  <2>2. ASSUME NEW p \in Questions PROVE Good(p)'
    <3>1. Good(p) /\ Undisturbed(p)
      BY <1>23 DEF QuestionsInv, Undisturbed, questionsVars, objects
    <3> QED
      BY <1>1, <2>1, <3>1, UndisturbedGood DEF QuestionsTypeOK
  <2>3. NoTwins(ui')
    BY <1>23 DEF QuestionsInv, questionsVars
  <2> QED
    BY <2>1, <2>2, <2>3 DEF QuestionsInv
<1>24. ASSUME NEW q \in Questions, NewQuestion(q) PROVE QuestionsInv'
  BY <1>24, <1>2, <1>5, <1>7, <1>8, <1>9 DEF NewQuestion
<1>25. ASSUME NEW q \in Questions, Decide(q) PROVE QuestionsInv'
  BY <1>25, <1>16, <1>17, <1>18 DEF Decide
<1>26. ASSUME NEW q \in Questions, CallbackReturns(q) PROVE QuestionsInv'
  BY <1>26, <1>11, <1>12, <1>13, <1>14, <1>15 DEF CallbackReturns
<1>27. ASSUME UiTask PROVE QuestionsInv'
  BY <1>27, <1>3, <1>6, <1>20 DEF UiTask
<1> QED
  BY <1>4, <1>10, <1>19, <1>21, <1>22, <1>23, <1>24, <1>25, <1>26, <1>27
     DEF QuestionsNext

LEMMA QuestionsInvHolds == QuestionsSpec => []QuestionsInv
  BY QuestionsInitInv, QuestionsNextInv, PTL DEF QuestionsSpec

\* Type correctness: every queue, object and answer of the questions keeps the
\* values its field in the code can hold.
THEOREM QuestionsTypes == QuestionsSpec => []QuestionsTypeOK
<1>1. QuestionsInv => QuestionsTypeOK
  BY DEF QuestionsInv
<1> QED
  BY <1>1, QuestionsInvHolds, PTL

\* No object of a question is freed twice or used when freed: one task at most
\* deletes it, after the application decided on it and while it holds it.
THEOREM FreedOnlyOnce == QuestionsSpec => []FreedOnce
<1>1. QuestionsInv => FreedOnce
  <2> SUFFICES ASSUME QuestionsInv PROVE FreedOnce
    OBVIOUS
  <2>1. QuestionsTypeOK /\ NoTwins(ui) /\ \A q \in Questions : Good(q)
    BY DEF QuestionsInv
  <2>2. ASSUME NEW i \in DOMAIN ui, ui[i].op = "delete"
        PROVE  LET q == ui[i].q
               IN  /\ decided[q] /\ suspended[q]
                   /\ holder[q] = "app" \/ (holder[q] = "frame" /\ asking = q)
                   /\ \A j \in DOMAIN ui : ui[j] = ui[i] => i = j
    <3>1. ui[i].q \in Questions /\ ui[i] = Delete(ui[i].q)
      <4>1. ui[i] \in [op : {"ask", "delete"}, q : Questions]
        <5>1. ui \in Seq([op : {"ask", "delete"}, q : Questions])
                /\ i \in DOMAIN ui
          BY <2>1, <2>2 DEF QuestionsTypeOK
        <5>2. i \in 1 .. Len(ui)
          BY <5>1
        <5> QED
          BY <5>1, <5>2, ElementOfSeq
      <4> QED
        BY <2>2, <4>1 DEF Delete
    <3>2. Queued(ui, Delete(ui[i].q))
      BY <3>1 DEF Queued
    <3>3. \A j \in DOMAIN ui : ui[j] = ui[i] => i = j
      BY <2>1 DEF NoTwins
    <3> QED
      BY <2>1, <3>1, <3>2, <3>3 DEF Good, TasksOf
  <2>3. asking # Nobody =>
          holder[asking] \notin {"none", "freed"} \/ kind[asking] = "media"
    BY <2>1 DEF Good, OwnerOf, QuestionsTypeOK
  <2> QED
    BY <2>2, <2>3 DEF FreedOnce
<1> QED
  BY <1>1, QuestionsInvHolds, PTL

\* Each requester hears the first decision on its question, and nothing after
\* it but the refusal a geolocation decided inside its callback is given.
THEOREM AnsweredAsDecided == QuestionsSpec => []OneAnswer
<1>1. QuestionsInv => OneAnswer
  BY DEF QuestionsInv, Good, AnswersOf, Heard, OneAnswer
<1> QED
  BY <1>1, QuestionsInvHolds, PTL
=============================================================================
