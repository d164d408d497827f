--------------------------- MODULE ViewQuestions ---------------------------
(***************************************************************************)
(* The questions a web view asks its application: HTTP authentication      *)
(* (LoginDelegateEfl and _Ewk_Auth_Challenge), geolocation                 *)
(* (GeolocationPermissionContextEfl), a bad certificate                    *)
(* (Ewk_Suspendable_Object), notifications (NotificationControllerEfl) and *)
(* user media (WebContentsDelegateEfl::requests_queue_).                   *)
(*                                                                         *)
(* Every kind hands the application an object it may decide at once, keep  *)
(* by suspending it, or leave alone. The kinds differ in who frees the     *)
(* object, in what happens when the application leaves it alone, and in    *)
(* the threads the question and its answer cross.                          *)
(***************************************************************************)
EXTENDS Naturals, Sequences

CONSTANTS
  Questions,   \* the questions asked in a behaviour, of any kind
  MaxDecisions \* bound: decisions the application makes on one question

Kinds == {"auth", "geolocation", "certificate", "notification", "media"}
Nobody == "nobody"

ASSUME QuestionAssumption == Nobody \notin Questions
ASSUME DecisionAssumption == MaxDecisions \in Nat

VARIABLES
  kind,          \* per question: its kind
  asked,         \* per question: it was put to this code
  ui,            \* FIFO of the UI thread: handlers and DeleteSoon ("delete")
  io,            \* FIFO of the IO thread: Proceed- and CancelOnIOThread
  asking,        \* the question the application's callback is running for
  holder,        \* who frees it: "none", "frame", "view", "app", "freed"
  decided,       \* is_decided, isDecided_ or decided_
  suspended,     \* is_suspended, isSuspended_ or suspended_
  verdict,       \* history: the first decision, "none" before it
  decisions,     \* decisions the application made on the question
  request,       \* LoginDelegateEfl::request_ # NULL
  requestsQueue, \* requests_queue_
  permission,    \* permissions_map_ of the origin: "default", "yes" or "no"
  answers,       \* per question: the answers its requester was given
  view,          \* the EWebView exists
  aborted        \* a NULL pointer was followed

objects == <<holder, decided, suspended, verdict>>
questionsVars == <<kind, asked, ui, io, asking, holder, decided, suspended,
                   verdict, decisions, request, requestsQueue, permission,
                   answers, view, aborted>>
----------------------------------------------------------------------------
YesNo == {"yes", "no"}
Ask(q) == [op |-> "ask", q |-> q]
Delete(q) == [op |-> "delete", q |-> q]

QuestionsInit ==
  /\ kind \in [Questions -> Kinds]
  /\ asked = [q \in Questions |-> FALSE]
  /\ ui = <<>> /\ io = <<>> /\ asking = Nobody
  /\ holder = [q \in Questions |-> "none"]
  /\ decided = [q \in Questions |-> FALSE]
  /\ suspended = [q \in Questions |-> FALSE]
  /\ verdict = [q \in Questions |-> "none"]
  /\ decisions = [q \in Questions |-> 0]
  /\ request = [q \in Questions |-> FALSE]
  /\ requestsQueue = <<>> /\ permission = "default"
  /\ answers = [q \in Questions |-> <<>>]
  /\ view = TRUE /\ aborted = FALSE

QuestionsTypeOK ==
  /\ kind \in [Questions -> Kinds]
  /\ asked \in [Questions -> BOOLEAN]
  /\ ui \in Seq([op : {"ask", "delete"}, q : Questions])
  /\ io \in Seq([q : Questions, answer : YesNo])
  /\ asking \in Questions \cup {Nobody}
  /\ holder \in [Questions -> {"none", "frame", "view", "app", "freed"}]
  /\ decided \in [Questions -> BOOLEAN]
  /\ suspended \in [Questions -> BOOLEAN]
  /\ verdict \in [Questions -> YesNo \cup {"none"}]
  /\ decisions \in [Questions -> 0..MaxDecisions]
  /\ request \in [Questions -> BOOLEAN]
  /\ requestsQueue \in Seq(Questions)
  /\ permission \in YesNo \cup {"default"}
  /\ answers \in [Questions -> Seq(YesNo)]
  /\ view \in BOOLEAN /\ aborted \in BOOLEAN
----------------------------------------------------------------------------
\* What the kinds share.
UiFree == asking = Nobody /\ ~aborted

Give(q, a) == answers' = [answers EXCEPT ![q] = Append(@, a)]

\* The application's callback starts, with an object h will free.
Open(q, h) ==
  /\ asking' = q
  /\ holder' = [holder EXCEPT ![q] = h]

\* A question is put to this code for the first time.
Put(q, k) ==
  /\ kind[q] = k /\ ~asked[q] /\ ~aborted
  /\ asked' = [asked EXCEPT ![q] = TRUE]

\* The next task of the UI thread is the handler of a question of kind k.
Handle(q, k) ==
  /\ UiFree /\ ui # <<>> /\ Head(ui) = Ask(q) /\ kind[q] = k
  /\ ui' = Tail(ui)
----------------------------------------------------------------------------
\* HTTP authentication. The challenge comes on the IO thread.
LoginDelegateCreated(q) ==
  /\ Put(q, "auth")
  /\ request' = [request EXCEPT ![q] = TRUE]
  /\ ui' = Append(ui, Ask(q))
  /\ UNCHANGED <<objects, kind, io, asking, decisions, requestsQueue,
                 permission, answers, view, aborted>>

\* HandleHttpAuthRequestOnUIThread: the IO thread owns request_, and the
\* view's handler follows it on the UI thread. A new challenge of the view
\* frees the one before it, suspended or not.
HandleAuth(q) ==
  /\ Handle(q, "auth")
  /\ \/ /\ ~view
        /\ io' = Append(io, [q |-> q, answer |-> "no"])
        /\ UNCHANGED <<asking, holder, aborted>>
     \/ /\ view /\ ~request[q]
        /\ aborted' = TRUE
        /\ UNCHANGED <<io, asking, holder>>
     \/ /\ view /\ request[q]
        /\ asking' = q
        /\ holder' = [p \in Questions |-> IF p = q THEN "view"
                       ELSE IF holder[p] = "view" THEN "freed" ELSE holder[p]]
        /\ UNCHANGED <<io, aborted>>
  /\ UNCHANGED <<kind, asked, decided, suspended, verdict, decisions, request,
                 requestsQueue, permission, answers, view>>

\* ProceedOnIOThread and CancelOnIOThread.
AnswerOnIOThread ==
  /\ io # <<>> /\ ~aborted
  /\ io' = Tail(io)
  /\ LET m == Head(io)
     IN IF request[m.q]
        THEN Give(m.q, m.answer) /\ request' = [request EXCEPT ![m.q] = FALSE]
        ELSE UNCHANGED <<answers, request>>
  /\ UNCHANGED <<objects, kind, asked, ui, asking, decisions, requestsQueue,
                 permission, view, aborted>>

\* The loader gives the request up.
OnRequestCancelled(q) ==
  /\ request[q] /\ ~aborted
  /\ request' = [request EXCEPT ![q] = FALSE]
  /\ UNCHANGED <<objects, kind, asked, ui, io, asking, decisions, requestsQueue,
                 permission, answers, view, aborted>>
----------------------------------------------------------------------------
\* Geolocation. RequestPermission only posts the handler.
RequestGeolocation(q) ==
  /\ Put(q, "geolocation")
  /\ ui' = Append(ui, Ask(q))
  /\ UNCHANGED <<objects, kind, io, asking, decisions, request, requestsQueue,
                 permission, answers, view, aborted>>

\* RequestPermissionOnUIThread up to the callback: no answer without a view,
\* a refusal when "geolocation,valid" says so.
HandleGeolocation(q) ==
  /\ Handle(q, "geolocation")
  /\ \/ ~view /\ UNCHANGED <<asking, holder, answers>>
     \/ view /\ Give(q, "no") /\ UNCHANGED <<asking, holder>>
     \/ view /\ Open(q, "frame") /\ UNCHANGED answers
  /\ UNCHANGED <<kind, asked, io, decided, suspended, verdict, decisions,
                 request, requestsQueue, permission, view, aborted>>

\* RequestCertificateConfirm, up to the callback; a certificate that cannot
\* be encoded cancels the request through |result|.
RequestCertificateConfirm(q) ==
  /\ UiFree /\ view /\ Put(q, "certificate")
  /\ \/ Give(q, "no") /\ UNCHANGED <<asking, holder>>
     \/ Open(q, "frame") /\ UNCHANGED answers
  /\ UNCHANGED <<kind, ui, io, decided, suspended, verdict, decisions, request,
                 requestsQueue, permission, view, aborted>>

\* NotificationControllerEfl::RequestPermission: refused without a callback
\* of the application, answered from the permissions it stored, else asked.
RequestNotification(q) ==
  /\ UiFree /\ view /\ Put(q, "notification")
  /\ \/ Give(q, "no") /\ UNCHANGED <<asking, holder>>
     \/ /\ permission # "default" /\ Give(q, permission)
        /\ UNCHANGED <<asking, holder>>
     \/ permission = "default" /\ Open(q, "frame") /\ UNCHANGED answers
  /\ UNCHANGED <<kind, ui, io, decided, suspended, verdict, decisions, request,
                 requestsQueue, permission, view, aborted>>

\* AddPermission, SetPermissions, RemovePermissions, ClearPermissions. Only a
\* notification reads them.
SetPermissions(p) ==
  /\ UiFree /\ permission # p /\ permission' = p
  /\ \E q \in Questions : kind[q] = "notification"
  /\ UNCHANGED <<objects, kind, asked, ui, io, asking, decisions, request,
                 requestsQueue, answers, view, aborted>>

\* RequestMediaAccessPermission: the application owns the object.
RequestMediaAccess(q) ==
  /\ UiFree /\ view /\ Put(q, "media")
  /\ requestsQueue' = Append(requestsQueue, q)
  /\ Open(q, "app")
  /\ UNCHANGED <<kind, ui, io, decided, suspended, verdict, decisions, request,
                 permission, answers, view, aborted>>
----------------------------------------------------------------------------
\* The application calls on an object inside the callback it was handed to,
\* or later when it kept it by suspending it, until the object may be gone.
\* A user media request is the application's until it answers it.
MayCall(q) ==
  /\ ~aborted /\ decisions[q] < MaxDecisions
  /\ \/ holder[q] = "frame" /\ asking = q
     \/ holder[q] = "view" /\ (asking = q \/ suspended[q])
     \/ /\ holder[q] = "app" /\ ~decided[q]
        /\ kind[q] = "media" => view

Decides(q, a) ==
  /\ decisions' = [decisions EXCEPT ![q] = @ + 1]
  /\ decided' = [decided EXCEPT ![q] = TRUE]
  /\ verdict' = [verdict EXCEPT ![q] = IF @ = "none" THEN a ELSE @]

\* ewk_auth_challenge_credential_use and _cancel: is_decided is not read.
UseOrCancelCredential(q, a) ==
  /\ kind[q] = "auth" /\ MayCall(q) /\ Decides(q, a)
  /\ io' = Append(io, [q |-> q, answer |-> a])
  /\ UNCHANGED <<kind, asked, ui, asking, holder, suspended, request,
                 requestsQueue, permission, answers, view, aborted>>

\* _Ewk_Geolocation_Permission_Request::SetDecision, setDecision of a
\* certificate's Ewk_Suspendable_Object, NotificationPermissionRequest::Reply.
SetDecision(q, a) ==
  /\ kind[q] \in {"geolocation", "certificate", "notification"}
  /\ MayCall(q) /\ ~decided[q] /\ Decides(q, a)
  /\ Give(q, a)
  /\ ui' = IF suspended[q] THEN Append(ui, Delete(q)) ELSE ui
  /\ permission' = IF kind[q] = "notification" /\ view THEN a ELSE permission
  /\ UNCHANGED <<kind, asked, io, asking, holder, suspended, request,
                 requestsQueue, view, aborted>>

\* OnAccessRequestResponse: the front request is answered and popped.
AnswerFront(a) ==
  IF requestsQueue = <<>> THEN UNCHANGED <<requestsQueue, answers>>
  ELSE Give(Head(requestsQueue), a) /\ requestsQueue' = Tail(requestsQueue)

\* ewk_user_media_permission_request_set and OnAccessRequestResponse: the
\* answer goes to the front of the queue, whichever request was decided.
SetUserMedia(q, a) ==
  /\ kind[q] = "media" /\ MayCall(q) /\ Decides(q, a)
  /\ AnswerFront(a)
  /\ holder' = [holder EXCEPT ![q] = "freed"]
  /\ UNCHANGED <<kind, asked, ui, io, asking, suspended, request, permission,
                 view, aborted>>

\* Only a geolocation request refuses to be suspended once decided.
Suspend(q) ==
  /\ asking = q /\ holder[q] \in {"frame", "view"} /\ ~suspended[q] /\ ~aborted
  /\ kind[q] = "geolocation" => ~decided[q]
  /\ suspended' = [suspended EXCEPT ![q] = TRUE]
  /\ UNCHANGED <<kind, asked, ui, io, asking, holder, decided, verdict,
                 decisions, request, requestsQueue, permission, answers, view,
                 aborted>>
----------------------------------------------------------------------------
\* What follows the callback, by kind.
Returned(q, k) == asking = q /\ kind[q] = k /\ asking' = Nobody

\* The scoped_ptr of the frame goes; a suspended object was released from it.
\* (mutant) it is not released
LeaveFrameFreed(q) == holder' = [holder EXCEPT ![q] = "freed"]

LeaveFrame(q) ==
  holder' = [holder EXCEPT ![q] = IF suspended[q] THEN "app" ELSE "freed"]

\* The end of InvokeAuthCallback: an ignored challenge is cancelled.
\* (mutant) it is left alone
AuthReturnsSilent(q) ==
  /\ Returned(q, "auth")
  /\ UNCHANGED <<objects, kind, asked, ui, io, decisions, request,
                 requestsQueue, permission, answers, view, aborted>>

AuthReturns(q) ==
  /\ Returned(q, "auth")
  /\ IF ~decided[q] /\ ~suspended[q]
     THEN /\ decided' = [decided EXCEPT ![q] = TRUE]
          /\ verdict' = [verdict EXCEPT ![q] = "no"]
          /\ io' = Append(io, [q |-> q, answer |-> "no"])
     ELSE UNCHANGED <<decided, verdict, io>>
  /\ UNCHANGED <<kind, asked, ui, holder, suspended, decisions, request,
                 requestsQueue, permission, answers, view, aborted>>

\* The end of RequestPermissionOnUIThread: a request that is not suspended is
\* refused, decided or not.
\* (mutant) so is one that is suspended
GeolocationReturnsRefused(q) ==
  /\ Returned(q, "geolocation") /\ LeaveFrame(q) /\ Give(q, "no")
  /\ UNCHANGED <<kind, asked, ui, io, decided, suspended, verdict, decisions,
                 request, requestsQueue, permission, view, aborted>>

GeolocationReturns(q) ==
  /\ Returned(q, "geolocation") /\ LeaveFrame(q)
  /\ IF suspended[q] THEN UNCHANGED answers ELSE Give(q, "no")
  /\ UNCHANGED <<kind, asked, ui, io, decided, suspended, verdict, decisions,
                 request, requestsQueue, permission, view, aborted>>

\* The end of RequestCertificateConfirm: an ignored certificate is accepted.
CertificateReturns(q) ==
  /\ Returned(q, "certificate") /\ LeaveFrame(q)
  /\ IF ~suspended[q] /\ ~decided[q]
     THEN /\ Give(q, "yes")
          /\ decided' = [decided EXCEPT ![q] = TRUE]
          /\ verdict' = [verdict EXCEPT ![q] = "yes"]
     ELSE UNCHANGED <<answers, decided, verdict>>
  /\ UNCHANGED <<kind, asked, ui, io, suspended, decisions, request,
                 requestsQueue, permission, view, aborted>>

\* The end of RequestPermission: an ignored notification is not answered.
NotificationReturns(q) ==
  /\ Returned(q, "notification") /\ LeaveFrame(q)
  /\ UNCHANGED <<kind, asked, ui, io, decided, suspended, verdict, decisions,
                 request, requestsQueue, permission, answers, view, aborted>>

MediaReturns(q) ==
  /\ Returned(q, "media")
  /\ UNCHANGED <<objects, kind, asked, ui, io, decisions, request,
                 requestsQueue, permission, answers, view, aborted>>

\* A DeleteSoon task runs.
DeleteObject ==
  /\ UiFree /\ ui # <<>> /\ Head(ui).op = "delete"
  /\ holder' = [holder EXCEPT ![Head(ui).q] = "freed"]
  /\ ui' = Tail(ui)
  /\ UNCHANGED <<kind, asked, io, asking, decided, suspended, verdict,
                 decisions, request, requestsQueue, permission, answers, view,
                 aborted>>

\* The view goes, and auth_challenge_ with it.
CloseView ==
  /\ UiFree /\ view /\ view' = FALSE
  /\ holder' = [q \in Questions |->
                 IF holder[q] = "view" THEN "freed" ELSE holder[q]]
  /\ UNCHANGED <<kind, asked, ui, io, asking, decided, suspended, verdict,
                 decisions, request, requestsQueue, permission, answers,
                 aborted>>
----------------------------------------------------------------------------
NewQuestion(q) ==
  \/ LoginDelegateCreated(q) \/ RequestGeolocation(q)
  \/ RequestCertificateConfirm(q) \/ RequestNotification(q)
  \/ RequestMediaAccess(q)

Decide(q) == \E a \in YesNo : UseOrCancelCredential(q, a) \/ SetDecision(q, a)
                              \/ SetUserMedia(q, a)

CallbackReturns(q) ==
  \/ AuthReturns(q) \/ GeolocationReturns(q) \/ CertificateReturns(q)
  \/ NotificationReturns(q) \/ MediaReturns(q)

UiTask ==
  DeleteObject \/ \E q \in Questions : HandleAuth(q) \/ HandleGeolocation(q)

QuestionsNext ==
  \/ \E q \in Questions : NewQuestion(q) \/ Decide(q) \/ Suspend(q)
                          \/ CallbackReturns(q) \/ OnRequestCancelled(q)
  \/ UiTask \/ AnswerOnIOThread \/ CloseView
  \/ \E p \in YesNo \cup {"default"} : SetPermissions(p)

\* The application does decide what it kept.
KeptDecided(q) == asking = Nobody /\ ~decided[q] /\ Decide(q)

\* The threads run their tasks, and callbacks return.
QuestionsFairness ==
  /\ WF_questionsVars(UiTask) /\ WF_questionsVars(AnswerOnIOThread)
  /\ \A q \in Questions : /\ WF_questionsVars(CallbackReturns(q))
                          /\ WF_questionsVars(KeptDecided(q))

QuestionsSpec ==
  QuestionsInit /\ [][QuestionsNext]_questionsVars /\ QuestionsFairness
----------------------------------------------------------------------------
(***************************************************************************)
(* The requester of a question hears the first decision taken on it, once. *)
(* The exception is the code's: a geolocation request decided inside the   *)
(* callback is answered a second time, and that answer is a refusal.       *)
(***************************************************************************)
OneAnswer ==
  \A q \in Questions : kind[q] # "media" /\ answers[q] # <<>> =>
    /\ verdict[q] # "none" => answers[q][1] = verdict[q]
    /\ \/ Len(answers[q]) = 1
       \/ /\ kind[q] = "geolocation" /\ decided[q] /\ ~suspended[q]
          /\ Len(answers[q]) = 2 /\ answers[q][2] = "no"

(***************************************************************************)
(* An object is deleted by a task only when nobody else will free it: at   *)
(* most one task deletes it, the application holds it by then, and the     *)
(* callback never runs on a freed object.                                  *)
(***************************************************************************)
FreedOnce ==
  /\ \A i \in DOMAIN ui : ui[i].op = "delete" =>
       LET q == ui[i].q IN
       /\ decided[q] /\ suspended[q]
       /\ holder[q] = "app" \/ (holder[q] = "frame" /\ asking = q)
       /\ \A j \in DOMAIN ui : ui[j] = ui[i] => i = j
  /\ asking # Nobody => \/ holder[asking] \notin {"none", "freed"}
                        \/ kind[asking] = "media"

(***************************************************************************)
(* (violated) "Sets the permission to access local media, @param request   *)
(* object for userMedia permission, @param allowed decided permission      *)
(* value": a user media request that was decided and has been answered     *)
(* was answered as it was decided. The answers are handed out in the order *)
(* of the requests instead, not in that of the decisions.                  *)
(***************************************************************************)
MediaOwnAnswer ==
  \A q \in Questions :
    kind[q] = "media" /\ answers[q] # <<>> /\ verdict[q] # "none" =>
      answers[q][1] = verdict[q]

(***************************************************************************)
(* Every question is settled. Left without an answer are, by the code: an  *)
(* authentication whose request is gone or whose challenge the view freed  *)
(* before it was decided, a geolocation request handled after its view     *)
(* went, a user media request of a closed view, and a notification the     *)
(* application neither decided nor suspended.                              *)
(***************************************************************************)
Unanswered(q) ==
  \/ kind[q] = "auth" /\ (~request[q] \/ (holder[q] = "freed" /\ ~decided[q]))
  \/ kind[q] = "geolocation" /\ holder[q] = "none" /\ ~view
  \/ kind[q] = "media" /\ ~view
  \/ kind[q] = "notification" /\ holder[q] = "freed" /\ ~decided[q]
Settles == \A q \in Questions :
  asked[q] ~> (answers[q] # <<>> \/ Unanswered(q) \/ aborted)
============================================================================
