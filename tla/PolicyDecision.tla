--------------------------- MODULE PolicyDecision ---------------------------
(***************************************************************************)
(* How the application decides what happens to a response, a navigation or *)
(* a new window: ResourceThrottleEfl and PolicyResponseDelegateEfl         *)
(* (src/impl/browser), _Ewk_Policy_Decision (src/impl/API) and the policy  *)
(* callbacks of EWebView and WebContentsDelegateEfl.                       *)
(*                                                                         *)
(* A response is deferred on the IO thread, the application is asked on    *)
(* the UI thread, and its answer travels back to the IO thread; meanwhile  *)
(* the request may be cancelled and the view closed. Navigations and new   *)
(* windows are asked about synchronously. The view owns one decision, the  *)
(* last one it asked about.                                                *)
(***************************************************************************)
EXTENDS Naturals, Sequences

CONSTANTS
  Responses, Navigations, Windows, \* decisions to be taken, by type_
  MaxCalls   \* bound: calls the application makes on decisions

Decisions == Responses \cup Navigations \cup Windows
Nobody == "nobody"

ASSUME TypesAssumption ==
  /\ Responses \cap (Navigations \cup Windows) = {}
  /\ Navigations \cap Windows = {} /\ Nobody \notin Decisions
ASSUME BoundAssumption == MaxCalls \in Nat

VARIABLES
  \* ---- IO thread
  throttle,  \* per response: "none", "deferred", "resumed", "ignored", "gone"
  attached,  \* per response: PolicyResponseDelegateEfl::throttle_ # NULL
  io,        \* FIFO of UseResponseOnIOThread and IgnoreResponseOnIOThread
  \* ---- UI thread
  ui,        \* FIFO of HandlePolicyResponseOnUIThread
  asking,    \* the decision the application's callback is running for
  owner,     \* per decision: "none", "delegate", "view" or "freed"
  decided,   \* per decision: isDecided_
  suspended, \* per decision: isSuspended_
  handler,   \* per navigation: NavigationPolicyHandlerEfl::decision_
  newWindow, \* should_open_new_window_
  reply,     \* per navigation and window: what the renderer was told
  view,      \* the WebContents and its EWebView exist
  aborted,   \* a CHECK failed
  calls,     \* calls of the application so far
  first      \* per response: the first answer given for it

ioVars == <<throttle, attached>>
syncVars == <<handler, newWindow, reply>>
decisionsVars ==
  <<throttle, attached, io, ui, asking, owner, decided, suspended, handler,
    newWindow, reply, view, aborted, calls, first>>
----------------------------------------------------------------------------
Answer == [response : Responses, use : BOOLEAN]

DecisionsInit ==
  /\ throttle = [r \in Responses |-> "none"]
  /\ attached = [r \in Responses |-> FALSE]
  /\ io = <<>> /\ ui = <<>> /\ asking = Nobody
  /\ owner = [d \in Decisions |-> "none"]
  /\ decided = [d \in Decisions |-> FALSE]
  /\ suspended = [d \in Decisions |-> FALSE]
  /\ handler = [n \in Navigations |-> "undecided"]
  /\ newWindow = TRUE
  /\ reply = [d \in Navigations \cup Windows |-> "none"]
  /\ view = TRUE /\ aborted = FALSE /\ calls = 0
  /\ first = [r \in Responses |-> "none"]
----------------------------------------------------------------------------
(***************************************************************************)
(* IO thread                                                               *)
(***************************************************************************)
\* ResourceThrottleEfl::WillProcessResponse: defer, and have the UI thread ask
WillProcessResponse(r) ==
  /\ ~aborted /\ throttle[r] = "none"
  /\ throttle' = [throttle EXCEPT ![r] = "deferred"]
  /\ attached' = [attached EXCEPT ![r] = TRUE]
  /\ owner' = [owner EXCEPT ![r] = "delegate"]
  /\ ui' = Append(ui, r)
  /\ UNCHANGED <<io, asking, decided, suspended, syncVars, view, aborted,
                 calls, first>>

\* (mutant) the delegate keeps its pointer to the throttle
ThrottleDestroyedKeeps(r) ==
  /\ ~aborted /\ throttle[r] \in {"deferred", "resumed", "ignored"}
  /\ throttle' = [throttle EXCEPT ![r] = "gone"]
  /\ UNCHANGED <<attached, io, ui, asking, owner, decided, suspended, syncVars,
                 view, aborted, calls, first>>

\* ~ResourceThrottleEfl: the request ended or was cancelled
ThrottleDestroyed(r) ==
  /\ ~aborted /\ throttle[r] \in {"deferred", "resumed", "ignored"}
  /\ throttle' = [throttle EXCEPT ![r] = "gone"]
  /\ attached' = [attached EXCEPT ![r] = FALSE]
  /\ UNCHANGED <<io, ui, asking, owner, decided, suspended, syncVars, view,
                 aborted, calls, first>>

\* (mutant) the throttle is not let go after the first answer
AnswerOnIOThreadAgain ==
  /\ ~aborted /\ io # <<>>
  /\ io' = Tail(io)
  /\ LET r == Head(io).response
     IN throttle' = IF attached[r]
                    THEN [throttle EXCEPT ![r] =
                            IF Head(io).use THEN "resumed" ELSE "ignored"]
                    ELSE throttle
  /\ UNCHANGED <<attached, ui, asking, owner, decided, suspended, syncVars,
                 view, aborted, calls, first>>

\* UseResponseOnIOThread and IgnoreResponseOnIOThread: the first one counts
AnswerOnIOThread ==
  /\ ~aborted /\ io # <<>>
  /\ io' = Tail(io)
  /\ LET r == Head(io).response
     IN IF attached[r]
        THEN /\ throttle' = [throttle EXCEPT ![r] =
                               IF Head(io).use THEN "resumed" ELSE "ignored"]
             /\ attached' = [attached EXCEPT ![r] = FALSE]
        ELSE UNCHANGED ioVars
  /\ UNCHANGED <<ui, asking, owner, decided, suspended, syncVars, view, aborted,
                 calls, first>>
----------------------------------------------------------------------------
(***************************************************************************)
(* Decisions, called by the application or by default                      *)
(***************************************************************************)
\* (mutant) the answer overtakes those posted before it
PostUrgent(r, use) ==
  /\ io' = <<[response |-> r, use |-> use]>> \o io
  /\ first' = [first EXCEPT ![r] =
                 IF @ # "none" THEN @ ELSE IF use THEN "use" ELSE "ignore"]

\* PolicyResponseDelegateEfl::UseResponse and IgnoreResponse
PostAnswer(r, use) ==
  /\ io' = Append(io, [response |-> r, use |-> use])
  /\ first' = [first EXCEPT ![r] =
                 IF @ # "none" THEN @ ELSE IF use THEN "use" ELSE "ignore"]

\* NavigationPolicyHandlerEfl::SetDecision: only the first one counts
SetDecision(n, d) ==
  handler' = [handler EXCEPT ![n] = IF @ = "undecided" THEN d ELSE @]

\* _Ewk_Policy_Decision::Use
Use(d) ==
  /\ decided' = [decided EXCEPT ![d] = TRUE]
  /\ \/ d \in Responses /\ PostAnswer(d, TRUE) /\ UNCHANGED <<handler, newWindow>>
     \/ /\ d \in Navigations /\ SetDecision(d, "unhandled")
        /\ UNCHANGED <<io, first, newWindow>>
     \/ d \in Windows /\ newWindow' = TRUE /\ UNCHANGED <<io, first, handler>>

\* _Ewk_Policy_Decision::Ignore
Ignore(d) ==
  /\ decided' = [decided EXCEPT ![d] = TRUE]
  /\ \/ d \in Responses /\ PostAnswer(d, FALSE) /\ UNCHANGED <<handler, newWindow>>
     \/ /\ d \in Navigations /\ SetDecision(d, "handled")
        /\ UNCHANGED <<io, first, newWindow>>
     \/ d \in Windows /\ newWindow' = FALSE /\ UNCHANGED <<io, first, handler>>

\* _Ewk_Policy_Decision::Download: a response is used, the rest is prevented
Download(d) == IF d \in Responses THEN Use(d) ELSE Ignore(d)
----------------------------------------------------------------------------
(***************************************************************************)
(* UI thread                                                               *)
(***************************************************************************)
Idle == asking = Nobody /\ ~aborted

\* (mutant) the decision the view had is not freed
HoldBoth(d) == owner' = [owner EXCEPT ![d] = "view"]

\* EWebView::set_policy_decision: the view frees the decision it had
Hold(d) ==
  owner' = [x \in Decisions |->
              IF x = d THEN "view"
              ELSE IF owner[x] = "view" THEN "freed" ELSE owner[x]]

\* The application's callback for d starts
Ask(d) == Hold(d) /\ asking' = d

\* HandlePolicyResponseOnUIThread: without a view the response is used, and the
\* decision stays with the delegate it refers to
HandlePolicyResponse ==
  /\ Idle /\ ui # <<>>
  /\ ui' = Tail(ui)
  /\ \/ view /\ Ask(Head(ui)) /\ UNCHANGED <<io, first>>
     \/ ~view /\ PostAnswer(Head(ui), TRUE) /\ UNCHANGED <<owner, asking>>
  /\ UNCHANGED <<ioVars, decided, suspended, syncVars, view, aborted, calls>>

\* InvokePolicyNavigationCallback, ShouldCreateWebContents
AskNow(d) ==
  /\ Idle /\ view /\ d \in Navigations \cup Windows /\ owner[d] = "none"
  /\ Ask(d)
  /\ UNCHANGED <<ioVars, io, ui, decided, suspended, syncVars, view, aborted,
                 calls, first>>

\* The application acts on a decision: on the one it is asked about, or, when no
\* callback runs, on the one the view still owns
MayCall(d) ==
  /\ ~aborted /\ calls < MaxCalls /\ owner[d] = "view"
  /\ asking \in {d, Nobody}
  /\ calls' = calls + 1
  /\ UNCHANGED <<ioVars, ui, asking, owner, reply, view, aborted>>

AppDecides(d) ==
  /\ MayCall(d)
  /\ Use(d) \/ Ignore(d) \/ Download(d)
  /\ UNCHANGED suspended

AppSuspends(d) ==
  /\ MayCall(d)
  /\ suspended' = [suspended EXCEPT ![d] = TRUE]
  /\ UNCHANGED <<io, decided, handler, newWindow, first>>

\* (mutant) a callback that did nothing decides nothing
ResponseAskedNoDefault ==
  /\ asking \in Responses
  /\ asking' = Nobody
  /\ UNCHANGED <<ioVars, io, ui, owner, decided, suspended, syncVars, view,
                 aborted, calls, first>>

\* The callback for a response returns: InvokePolicyResponseCallback accepts
\* what was neither decided nor suspended
ResponseAsked ==
  /\ asking \in Responses
  /\ asking' = Nobody
  /\ IF decided[asking] \/ suspended[asking]
     THEN UNCHANGED <<decided, io, first, handler, newWindow>>
     ELSE Use(asking)
  /\ UNCHANGED <<ioVars, ui, owner, suspended, reply, view, aborted, calls>>

\* The callback for a navigation returns: the renderer is answered at once
NavigationAsked ==
  /\ asking \in Navigations
  /\ asking' = Nobody
  /\ IF decided[asking] \/ suspended[asking]
     THEN UNCHANGED <<decided, io, first, handler, newWindow>>
     ELSE Use(asking)
  /\ reply' = [reply EXCEPT ![asking] =
                 IF handler'[asking] = "handled" THEN "prevented" ELSE "allowed"]
  /\ UNCHANGED <<ioVars, ui, owner, suspended, view, aborted, calls>>

\* The callback for a new window returns: a suspended decision fails a CHECK, an
\* undecided one prevents the window
WindowAsked ==
  /\ asking \in Windows
  /\ asking' = Nobody
  /\ aborted' = suspended[asking]
  /\ reply' = IF suspended[asking] THEN reply
              ELSE [reply EXCEPT ![asking] =
                      IF decided[asking] /\ newWindow THEN "allowed" ELSE "prevented"]
  /\ UNCHANGED <<ioVars, io, ui, owner, decided, suspended, handler, newWindow,
                 view, calls, first>>

\* The view and its WebContents go away
CloseView ==
  /\ Idle /\ view
  /\ view' = FALSE
  /\ owner' = [d \in Decisions |-> IF owner[d] = "view" THEN "freed" ELSE owner[d]]
  /\ UNCHANGED <<ioVars, io, ui, asking, decided, suspended, syncVars, aborted,
                 calls, first>>
----------------------------------------------------------------------------
IOThread == AnswerOnIOThread

UIThread ==
  \/ HandlePolicyResponse \/ ResponseAsked \/ NavigationAsked \/ WindowAsked

DecisionsNext ==
  \/ UIThread \/ IOThread \/ CloseView
  \/ \E r \in Responses : WillProcessResponse(r) \/ ThrottleDestroyed(r)
  \/ \E d \in Decisions : AskNow(d) \/ AppDecides(d) \/ AppSuspends(d)

DecisionsSpec == DecisionsInit /\ [][DecisionsNext]_decisionsVars

\* Both threads serve their loops, and the application's callbacks return
DecisionsFairness == WF_decisionsVars(UIThread) /\ WF_decisionsVars(IOThread)
----------------------------------------------------------------------------
(***************************************************************************)
(* Properties                                                              *)
(***************************************************************************)
DecisionsTypeOK ==
  /\ throttle \in [Responses -> {"none", "deferred", "resumed", "ignored", "gone"}]
  /\ attached \in [Responses -> BOOLEAN]
  /\ io \in Seq(Answer) /\ ui \in Seq(Responses)
  /\ asking \in Decisions \cup {Nobody}
  /\ owner \in [Decisions -> {"none", "delegate", "view", "freed"}]
  /\ \A d, e \in Decisions : owner[d] = "view" /\ owner[e] = "view" => d = e
  /\ decided \in [Decisions -> BOOLEAN] /\ suspended \in [Decisions -> BOOLEAN]
  /\ handler \in [Navigations -> {"undecided", "handled", "unhandled"}]
  /\ newWindow \in BOOLEAN
  /\ reply \in [Navigations \cup Windows -> {"none", "allowed", "prevented"}]
  /\ view \in BOOLEAN /\ aborted \in BOOLEAN /\ calls \in Nat
  /\ first \in [Responses -> {"none", "use", "ignore"}]

\* The delegate's raw pointer to the throttle is valid, and the response it leads
\* to is still waiting, whenever a cancelled request and an answer cross.
ThrottleValid == \A r \in Responses : attached[r] => throttle[r] = "deferred"

\* A response is resumed or ignored at most once, however often the application
\* decides.
OneAnswer ==
  [][\A r \in Responses : throttle[r] \in {"resumed", "ignored", "gone"}
       => throttle'[r] \in {throttle[r], "gone"}]_decisionsVars

\* What happens to a response is what was decided first, by the application or by
\* default: later answers never overtake it between the threads.
FirstAnswerCounts ==
  \A r \in Responses : /\ throttle[r] = "resumed" => first[r] = "use"
                       /\ throttle[r] = "ignored" => first[r] = "ignore"

\* No response waits for ever, unless the application suspended its decision:
\* also if the view closes or the callback does nothing.
Answered ==
  \A r \in Responses :
    throttle[r] = "deferred" ~> throttle[r] # "deferred" \/ suspended[r] \/ aborted

\* (violated) "This suspends the operation for policy decision ... very useful to
\* decide the policy from the additional UI operation": a suspended decision is
\* still there to be taken as long as its response waits. The view keeps only the
\* last decision it asked about.
SuspendedKept ==
  \A r \in Responses :
    suspended[r] /\ ~decided[r] /\ throttle[r] = "deferred" /\ view
      => owner[r] = "view"
=============================================================================
