----------------------- MODULE PolicyDecision_proofs -----------------------
(***************************************************************************)
(* Proofs about PolicyDecision for any responses, navigations, windows and *)
(* any number of calls.                                                    *)
(***************************************************************************)
EXTENDS PolicyDecision, TLAPS

LEMMA InitType == DecisionsInit => DecisionsTypeOK
<1> SUFFICES ASSUME DecisionsInit PROVE DecisionsTypeOK
  OBVIOUS
<1>1. throttle \in [Responses -> {"none", "deferred", "resumed", "ignored", "gone"}]
  BY DEF DecisionsInit
<1>2. attached \in [Responses -> BOOLEAN]
  BY DEF DecisionsInit
<1>3. io \in Seq(Answer) /\ ui \in Seq(Responses)
  BY DEF DecisionsInit
<1>4. owner \in [Decisions -> {"none", "delegate", "view", "freed"}]
  BY DEF DecisionsInit
<1>5. \A d, e \in Decisions : owner[d] = "view" /\ owner[e] = "view" => d = e
  BY DEF DecisionsInit
<1>6. decided \in [Decisions -> BOOLEAN] /\ suspended \in [Decisions -> BOOLEAN]
  BY DEF DecisionsInit
<1>7. handler \in [Navigations -> {"undecided", "handled", "unhandled"}]
  BY DEF DecisionsInit
<1>8. reply \in [Navigations \cup Windows -> {"none", "allowed", "prevented"}]
  BY DEF DecisionsInit
<1>9. first \in [Responses -> {"none", "use", "ignore"}]
  BY DEF DecisionsInit
<1>10. /\ asking \in Decisions \cup {Nobody} /\ newWindow \in BOOLEAN
       /\ view \in BOOLEAN /\ aborted \in BOOLEAN /\ calls \in Nat
  BY DEF DecisionsInit
<1> QED
  BY <1>1, <1>2, <1>3, <1>4, <1>5, <1>6, <1>7, <1>8, <1>9, <1>10 DEF DecisionsTypeOK

(***************************************************************************)
(* Types                                                                   *)
(***************************************************************************)
LEMMA PostType ==
  ASSUME DecisionsTypeOK, NEW r \in Responses, NEW use \in BOOLEAN, PostAnswer(r, use)
  PROVE  io' \in Seq(Answer) /\ first' \in [Responses -> {"none", "use", "ignore"}]
<1>1. [response |-> r, use |-> use] \in Answer
  BY DEF Answer
<1> QED
  BY <1>1 DEF PostAnswer, DecisionsTypeOK

\* What a decision changes keeps its type
DecisionType ==
  /\ io' \in Seq(Answer) /\ first' \in [Responses -> {"none", "use", "ignore"}]
  /\ decided' \in [Decisions -> BOOLEAN] /\ newWindow' \in BOOLEAN
  /\ handler' \in [Navigations -> {"undecided", "handled", "unhandled"}]

LEMMA UseType ==
  ASSUME DecisionsTypeOK, NEW d \in Decisions, Use(d) \/ Ignore(d) \/ Download(d)
  PROVE  DecisionType
<1>1. ASSUME Use(d) PROVE DecisionType
  <2>1. CASE d \in Responses /\ PostAnswer(d, TRUE) /\ UNCHANGED <<handler, newWindow>>
    BY <1>1, <2>1, PostType DEF Use, DecisionsTypeOK, DecisionType
  <2>2. CASE d \in Navigations /\ SetDecision(d, "unhandled") /\ UNCHANGED <<io, first, newWindow>>
    BY <1>1, <2>2 DEF Use, SetDecision, DecisionsTypeOK, DecisionType
  <2>3. CASE d \in Windows /\ newWindow' = TRUE /\ UNCHANGED <<io, first, handler>>
    BY <1>1, <2>3 DEF Use, DecisionsTypeOK, DecisionType
  <2> QED
    BY <1>1, <2>1, <2>2, <2>3 DEF Use
<1>2. ASSUME Ignore(d) PROVE DecisionType
  <2>1. CASE d \in Responses /\ PostAnswer(d, FALSE) /\ UNCHANGED <<handler, newWindow>>
    BY <1>2, <2>1, PostType DEF Ignore, DecisionsTypeOK, DecisionType
  <2>2. CASE d \in Navigations /\ SetDecision(d, "handled") /\ UNCHANGED <<io, first, newWindow>>
    BY <1>2, <2>2 DEF Ignore, SetDecision, DecisionsTypeOK, DecisionType
  <2>3. CASE d \in Windows /\ newWindow' = FALSE /\ UNCHANGED <<io, first, handler>>
    BY <1>2, <2>3 DEF Ignore, DecisionsTypeOK, DecisionType
  <2> QED
    BY <1>2, <2>1, <2>2, <2>3 DEF Ignore
<1> QED
  BY <1>1, <1>2 DEF Download

LEMMA IOType ==
  ASSUME DecisionsTypeOK, IOThread \/ \E r \in Responses : WillProcessResponse(r) \/ ThrottleDestroyed(r)
  PROVE  DecisionsTypeOK'
<1>1. ASSUME NEW r \in Responses, WillProcessResponse(r) PROVE DecisionsTypeOK'
  BY <1>1 DEF WillProcessResponse, DecisionsTypeOK, Decisions, syncVars
<1>2. ASSUME NEW r \in Responses, ThrottleDestroyed(r) PROVE DecisionsTypeOK'
  BY <1>2 DEF ThrottleDestroyed, DecisionsTypeOK, syncVars
<1>3. ASSUME AnswerOnIOThread PROVE DecisionsTypeOK'
  <2>1. Head(io) \in Answer /\ io' \in Seq(Answer)
    BY <1>3 DEF AnswerOnIOThread, DecisionsTypeOK
  <2>2. Head(io).response \in Responses
    BY <2>1 DEF Answer
  <2>3. throttle' \in [Responses -> {"none", "deferred", "resumed", "ignored", "gone"}]
        /\ attached' \in [Responses -> BOOLEAN]
    BY <1>3, <2>2 DEF AnswerOnIOThread, DecisionsTypeOK, ioVars
  <2> QED
    BY <1>3, <2>1, <2>3 DEF AnswerOnIOThread, DecisionsTypeOK, syncVars
<1> QED
  BY <1>1, <1>2, <1>3 DEF IOThread

LEMMA HoldType ==
  ASSUME DecisionsTypeOK, NEW d \in Decisions, Hold(d)
  PROVE  /\ owner' \in [Decisions -> {"none", "delegate", "view", "freed"}]
         /\ \A x, y \in Decisions : owner'[x] = "view" /\ owner'[y] = "view" => x = y
  BY DEF Hold, DecisionsTypeOK

LEMMA UIType ==
  ASSUME DecisionsTypeOK, UIThread \/ CloseView PROVE DecisionsTypeOK'
<1>1. ASSUME HandlePolicyResponse PROVE DecisionsTypeOK'
  <2>1. Head(ui) \in Responses /\ ui' \in Seq(Responses) /\ Head(ui) \in Decisions
    BY <1>1 DEF HandlePolicyResponse, DecisionsTypeOK, Decisions
  <2>2. UNCHANGED <<throttle, attached, decided, suspended, handler, newWindow,
                    reply, view, aborted, calls>>
    BY <1>1 DEF HandlePolicyResponse, ioVars, syncVars
  <2>3. CASE Ask(Head(ui)) /\ UNCHANGED <<io, first>>
    BY <2>1, <2>2, <2>3, HoldType DEF Ask, DecisionsTypeOK
  <2>4. CASE PostAnswer(Head(ui), TRUE) /\ UNCHANGED <<owner, asking>>
    BY <2>1, <2>2, <2>4, PostType DEF DecisionsTypeOK
  <2> QED
    BY <1>1, <2>3, <2>4 DEF HandlePolicyResponse
<1>2. ASSUME ResponseAsked PROVE DecisionsTypeOK'
  <2>1. asking \in Decisions
    BY <1>2 DEF ResponseAsked, Decisions
  <2>2. DecisionType
    BY <1>2, <2>1, UseType DEF ResponseAsked, DecisionType, DecisionsTypeOK
  <2> QED
    BY <1>2, <2>2 DEF ResponseAsked, DecisionType, DecisionsTypeOK, ioVars
<1>3. ASSUME NavigationAsked PROVE DecisionsTypeOK'
  <2>1. asking \in Decisions
    BY <1>3 DEF NavigationAsked, Decisions
  <2>2. DecisionType
    BY <1>3, <2>1, UseType DEF NavigationAsked, DecisionType, DecisionsTypeOK
  <2>3. reply' \in [Navigations \cup Windows -> {"none", "allowed", "prevented"}]
    BY <1>3 DEF NavigationAsked, DecisionsTypeOK
  <2> QED
    BY <1>3, <2>2, <2>3 DEF NavigationAsked, DecisionType, DecisionsTypeOK, ioVars
<1>4. ASSUME WindowAsked PROVE DecisionsTypeOK'
  <2>1. asking \in Windows /\ suspended[asking] \in BOOLEAN
    BY <1>4 DEF WindowAsked, DecisionsTypeOK, Decisions
  <2>2. reply' \in [Navigations \cup Windows -> {"none", "allowed", "prevented"}]
    BY <1>4 DEF WindowAsked, DecisionsTypeOK
  <2>3. aborted' \in BOOLEAN
    BY <1>4, <2>1, Zenon DEF WindowAsked
  <2>4. asking' = Nobody
        /\ UNCHANGED <<throttle, attached, io, ui, owner, decided, suspended,
                       handler, newWindow, view, calls, first>>
    BY <1>4 DEF WindowAsked, ioVars
  <2> QED
    BY <2>2, <2>3, <2>4 DEF DecisionsTypeOK
<1>5. ASSUME CloseView PROVE DecisionsTypeOK'
  <2>1. /\ owner' \in [Decisions -> {"none", "delegate", "view", "freed"}]
        /\ \A x, y \in Decisions : owner'[x] = "view" /\ owner'[y] = "view" => x = y
    BY <1>5 DEF CloseView, DecisionsTypeOK
  <2> QED
    BY <1>5, <2>1 DEF CloseView, DecisionsTypeOK, ioVars, syncVars
<1> QED
  BY <1>1, <1>2, <1>3, <1>4, <1>5 DEF UIThread

LEMMA AppType ==
  ASSUME DecisionsTypeOK, NEW d \in Decisions, AskNow(d) \/ AppDecides(d) \/ AppSuspends(d)
  PROVE  DecisionsTypeOK'
<1>1. ASSUME AskNow(d) PROVE DecisionsTypeOK'
  BY <1>1, HoldType DEF AskNow, Ask, DecisionsTypeOK, ioVars, syncVars
<1>2. ASSUME MayCall(d)
      PROVE  /\ calls' \in Nat
             /\ UNCHANGED <<throttle, attached, ui, asking, owner, reply, view, aborted>>
  BY <1>2, BoundAssumption DEF MayCall, DecisionsTypeOK, ioVars
<1>3. ASSUME AppDecides(d) PROVE DecisionsTypeOK'
  <2>1. DecisionType
    BY <1>3, UseType DEF AppDecides
  <2> QED
    BY <1>2, <1>3, <2>1 DEF AppDecides, DecisionType, DecisionsTypeOK
<1>4. ASSUME AppSuspends(d) PROVE DecisionsTypeOK'
  BY <1>2, <1>4 DEF AppSuspends, DecisionsTypeOK
<1> QED
  BY <1>1, <1>3, <1>4

LEMMA TypeStep == DecisionsTypeOK /\ [DecisionsNext]_decisionsVars => DecisionsTypeOK'
<1>1. ASSUME DecisionsTypeOK, UNCHANGED decisionsVars PROVE DecisionsTypeOK'
  BY <1>1 DEF DecisionsTypeOK, decisionsVars
<1> QED
  BY <1>1, IOType, UIType, AppType DEF DecisionsNext

\* The types of the policy decisions' state, and that the view owns one decision
\* at a time, hold for any number of requests and calls.
THEOREM PolicyTypes == DecisionsSpec => []DecisionsTypeOK
<1> QED
  BY InitType, TypeStep, PTL DEF DecisionsSpec
----------------------------------------------------------------------------
(***************************************************************************)
(* The raw pointer to the throttle                                         *)
(***************************************************************************)
LEMMA ThrottleFrame == ThrottleValid /\ UNCHANGED ioVars => ThrottleValid'
  BY DEF ThrottleValid, ioVars

\* Only three steps touch a throttle
LEMMA ThrottleSteps ==
  ASSUME [DecisionsNext]_decisionsVars
  PROVE  \/ AnswerOnIOThread
         \/ \E r \in Responses : WillProcessResponse(r) \/ ThrottleDestroyed(r)
         \/ UNCHANGED ioVars
<1>1. UIThread => UNCHANGED ioVars
  BY DEF UIThread, HandlePolicyResponse, ResponseAsked, NavigationAsked, WindowAsked
<1>2. CloseView => UNCHANGED ioVars
  BY DEF CloseView
<1>3. \A d \in Decisions : AskNow(d) \/ AppDecides(d) \/ AppSuspends(d) => UNCHANGED ioVars
  BY DEF AskNow, AppDecides, AppSuspends, MayCall
<1>4. UNCHANGED decisionsVars => UNCHANGED ioVars
  BY DEF decisionsVars, ioVars
<1> QED
  BY <1>1, <1>2, <1>3, <1>4 DEF DecisionsNext, IOThread

LEMMA ThrottleStep == DecisionsTypeOK /\ ThrottleValid /\ [DecisionsNext]_decisionsVars => ThrottleValid'
<1> SUFFICES ASSUME DecisionsTypeOK, ThrottleValid, [DecisionsNext]_decisionsVars PROVE ThrottleValid'
  OBVIOUS
<1>1. ASSUME AnswerOnIOThread PROVE ThrottleValid'
  <2>1. Head(io) \in Answer
    BY <1>1 DEF AnswerOnIOThread, DecisionsTypeOK
  <2>2. Head(io).response \in Responses
    BY <2>1 DEF Answer
  <2> QED
    BY <1>1, <2>2 DEF AnswerOnIOThread, ThrottleValid, DecisionsTypeOK, ioVars
<1>2. ASSUME NEW r \in Responses, WillProcessResponse(r) PROVE ThrottleValid'
  BY <1>2 DEF WillProcessResponse, ThrottleValid, DecisionsTypeOK
<1>3. ASSUME NEW r \in Responses, ThrottleDestroyed(r) PROVE ThrottleValid'
  BY <1>3 DEF ThrottleDestroyed, ThrottleValid, DecisionsTypeOK
<1> QED
  BY <1>1, <1>2, <1>3, ThrottleSteps, ThrottleFrame

\* The delegate never uses its pointer to a throttle that was destroyed, or that
\* already has its answer.
THEOREM ThrottleUsedWhileValid == DecisionsSpec => []ThrottleValid
<1>1. DecisionsInit => ThrottleValid
  BY DEF DecisionsInit, ThrottleValid
<1> QED
  BY <1>1, InitType, TypeStep, ThrottleStep, PTL DEF DecisionsSpec

AnswerKept ==
  \A r \in Responses : throttle[r] \in {"resumed", "ignored", "gone"}
    => throttle'[r] \in {throttle[r], "gone"}

LEMMA AnswerStep == DecisionsTypeOK /\ ThrottleValid /\ [DecisionsNext]_decisionsVars => AnswerKept
<1> SUFFICES ASSUME DecisionsTypeOK, ThrottleValid, [DecisionsNext]_decisionsVars PROVE AnswerKept
  OBVIOUS
<1>1. ASSUME AnswerOnIOThread PROVE AnswerKept
  <2>1. Head(io) \in Answer
    BY <1>1 DEF AnswerOnIOThread, DecisionsTypeOK
  <2>2. Head(io).response \in Responses
    BY <2>1 DEF Answer
  <2>3. CASE ~attached[Head(io).response]
    BY <1>1, <2>3 DEF AnswerOnIOThread, AnswerKept, ioVars
  <2>4. CASE attached[Head(io).response]
    BY <1>1, <2>2, <2>4 DEF AnswerOnIOThread, AnswerKept, ThrottleValid, DecisionsTypeOK
  <2> QED
    BY <2>3, <2>4
<1>2. ASSUME NEW r \in Responses, WillProcessResponse(r) PROVE AnswerKept
  BY <1>2 DEF WillProcessResponse, AnswerKept, DecisionsTypeOK
<1>3. ASSUME NEW r \in Responses, ThrottleDestroyed(r) PROVE AnswerKept
  BY <1>3 DEF ThrottleDestroyed, AnswerKept, DecisionsTypeOK
<1>4. UNCHANGED ioVars => AnswerKept
  BY DEF ioVars, AnswerKept
<1> QED
  BY <1>1, <1>2, <1>3, <1>4, ThrottleSteps

\* A response is resumed or ignored at most once, whatever the application calls
\* and whichever thread comes first.
THEOREM AnsweredOnce == DecisionsSpec => OneAnswer
<1>1. DecisionsTypeOK /\ ThrottleValid /\ [DecisionsNext]_decisionsVars =>
        [\A r \in Responses : throttle[r] \in {"resumed", "ignored", "gone"}
          => throttle'[r] \in {throttle[r], "gone"}]_decisionsVars
  BY AnswerStep DEF AnswerKept
<1> QED
  BY <1>1, PolicyTypes, ThrottleUsedWhileValid, PTL DEF DecisionsSpec, OneAnswer
----------------------------------------------------------------------------
(***************************************************************************)
(* The first answer                                                        *)
(*                                                                         *)
(* While the delegate holds the throttle of r, no answer for r has left    *)
(* the queue: the first one for r in it is the first that was given.       *)
(***************************************************************************)
Said(a) == IF a.use THEN "use" ELSE "ignore"

Has(q, r) == \E i \in 1..Len(q) : q[i].response = r

LedBy(q, r, f) ==
  \A i \in 1..Len(q) :
    q[i].response = r /\ (\A j \in 1..Len(q) : j < i => q[j].response # r)
      => Said(q[i]) = f

FirstOf(r) ==
  /\ throttle[r] = "none" => first[r] = "none"
  /\ Has(io, r) => first[r] # "none"
  /\ attached[r] /\ first[r] # "none" => Has(io, r)
  /\ attached[r] => LedBy(io, r, first[r])
  /\ throttle[r] = "resumed" => first[r] = "use"
  /\ throttle[r] = "ignored" => first[r] = "ignore"

\* Only a response that was deferred is asked about.
Begun ==
  /\ \A i \in 1..Len(ui) : throttle[ui[i]] # "none"
  /\ \A r \in Responses : owner[r] = "view" => throttle[r] # "none"
  /\ asking \in Responses => throttle[asking] # "none"

FirstInv == DecisionsTypeOK /\ Begun /\ \A r \in Responses : FirstOf(r)

LEMMA AppendQueue ==
  ASSUME NEW q \in Seq(Answer), NEW a \in Answer, NEW r \in Responses, NEW f
  PROVE  /\ Has(Append(q, a), r) <=> Has(q, r) \/ a.response = r
         /\ LedBy(q, r, f) /\ (Has(q, r) \/ a.response # r)
              => LedBy(Append(q, a), r, f)
         /\ ~Has(q, r) => LedBy(Append(q, a), r, Said(a))
<1> DEFINE p == Append(q, a)
<1>1. /\ Len(q) \in Nat /\ Len(p) = Len(q) + 1 /\ p[Len(q) + 1] = a
      /\ \A i \in 1..Len(q) : p[i] = q[i]
  OBVIOUS
<1> HIDE DEF p
<1>2. Has(p, r) <=> Has(q, r) \/ a.response = r
  BY <1>1 DEF Has
<1>3. LedBy(q, r, f) /\ (Has(q, r) \/ a.response # r) => LedBy(p, r, f)
  BY <1>1 DEF Has, LedBy
<1>4. ~Has(q, r) => LedBy(p, r, Said(a))
  BY <1>1 DEF Has, LedBy
<1> QED
  BY <1>2, <1>3, <1>4 DEF p

LEMMA TailQueue ==
  ASSUME NEW q \in Seq(Answer), q # <<>>, NEW r \in Responses, NEW f
  PROVE  /\ Has(Tail(q), r) => Has(q, r)
         /\ Head(q).response # r /\ Has(q, r) => Has(Tail(q), r)
         /\ Head(q).response # r /\ LedBy(q, r, f) => LedBy(Tail(q), r, f)
         /\ Head(q).response = r => Has(q, r)
         /\ Head(q).response = r /\ LedBy(q, r, f) => Said(Head(q)) = f
<1> DEFINE p == Tail(q)
           h == Head(q)
<1>1. /\ Len(q) \in Nat \ {0} /\ Len(p) = Len(q) - 1 /\ h = q[1]
      /\ \A i \in 1..Len(p) : p[i] = q[i + 1]
  OBVIOUS
<1> HIDE DEF p, h
<1>2. Has(p, r) => Has(q, r)
  BY <1>1 DEF Has
<1>3. ASSUME h.response # r, Has(q, r) PROVE Has(p, r)
  <2>1. PICK i \in 1..Len(q) : q[i].response = r
    BY <1>3 DEF Has
  <2>2. i - 1 \in 1..Len(p) /\ p[i - 1] = q[i]
    BY <1>1, <1>3, <2>1
  <2> QED
    BY <2>1, <2>2 DEF Has
<1>4. ASSUME h.response # r, LedBy(q, r, f) PROVE LedBy(p, r, f)
  <2> SUFFICES ASSUME NEW i \in 1..Len(p), p[i].response = r,
                      \A j \in 1..Len(p) : j < i => p[j].response # r
               PROVE  Said(p[i]) = f
    BY DEF LedBy
  <2>1. i + 1 \in 1..Len(q) /\ q[i + 1] = p[i]
    BY <1>1
  <2>2. ASSUME NEW j \in 1..Len(q), j < i + 1 PROVE q[j].response # r
    <3>1. CASE j = 1
      BY <1>1, <1>4, <3>1
    <3>2. CASE j # 1
      <4>1. j - 1 \in 1..Len(p) /\ j - 1 < i /\ p[j - 1] = q[j]
        BY <1>1, <2>2, <3>2
      <4> QED
        BY <4>1
    <3> QED
      BY <3>1, <3>2
  <2> QED
    BY <1>4, <2>1, <2>2 DEF LedBy
<1>5. h.response = r => Has(q, r) /\ (LedBy(q, r, f) => Said(h) = f)
  BY <1>1 DEF Has, LedBy
<1> QED
  BY <1>2, <1>3, <1>4, <1>5 DEF p, h

LEMMA PostFirst ==
  ASSUME FirstInv, NEW d \in Responses, NEW use \in BOOLEAN,
         PostAnswer(d, use), throttle[d] # "none", UNCHANGED ioVars
  PROVE  \A r \in Responses : FirstOf(r)'
<1> DEFINE a == [response |-> d, use |-> use]
<1>1. a \in Answer /\ a.response = d /\ a.use = use
  BY DEF Answer
<1>2. /\ io \in Seq(Answer) /\ io' = Append(io, a)
      /\ first \in [Responses -> {"none", "use", "ignore"}]
      /\ first' = [first EXCEPT ![d] = IF @ # "none" THEN @ ELSE Said(a)]
  BY DEF PostAnswer, FirstInv, DecisionsTypeOK, Said
<1>3. UNCHANGED <<throttle, attached>>
  BY DEF ioVars
<1> HIDE DEF a
<1>4. Said(a) \in {"use", "ignore"}
  BY DEF Said
<1> SUFFICES ASSUME NEW r \in Responses PROVE FirstOf(r)'
  OBVIOUS
<1>5. FirstOf(r)
  BY DEF FirstInv
<1>6. CASE r # d
  <2>1. first'[r] = first[r] /\ a.response # r
    BY <1>1, <1>2, <1>6
  <2>2. Has(io', r) <=> Has(io, r)
    BY <1>1, <1>2, <2>1, AppendQueue
  <2>3. LedBy(io, r, first[r]) => LedBy(io', r, first'[r])
    BY <1>1, <1>2, <2>1, AppendQueue
  <2> QED
    BY <1>3, <1>5, <2>1, <2>2, <2>3 DEF FirstOf
<1>7. CASE r = d /\ first[r] # "none"
  <2>1. first'[r] = first[r]
    BY <1>2, <1>7
  <2>2. Has(io', r)
    BY <1>1, <1>2, <1>7, AppendQueue
  <2>3. attached[r] => LedBy(io', r, first'[r])
    BY <1>1, <1>2, <1>5, <1>7, <2>1, AppendQueue DEF FirstOf
  <2> QED
    BY <1>3, <1>5, <1>7, <2>1, <2>2, <2>3 DEF FirstOf
<1>8. CASE r = d /\ first[r] = "none"
  <2>1. first'[r] = Said(a)
    BY <1>2, <1>8
  <2>2. Has(io', r) /\ ~Has(io, r)
    BY <1>1, <1>2, <1>5, <1>8, AppendQueue DEF FirstOf
  <2>3. LedBy(io', r, first'[r])
    BY <1>1, <1>2, <2>1, <2>2, AppendQueue
  <2>4. throttle[r] \notin {"resumed", "ignored"}
    BY <1>5, <1>8 DEF FirstOf
  <2> QED
    BY <1>3, <1>4, <1>8, <2>1, <2>2, <2>3, <2>4 DEF FirstOf
<1> QED
  BY <1>6, <1>7, <1>8

LEMMA DecideFirst ==
  ASSUME FirstInv, NEW d \in Decisions, Use(d) \/ Ignore(d) \/ Download(d),
         d \in Responses => throttle[d] # "none", UNCHANGED ioVars
  PROVE  \A r \in Responses : FirstOf(r)'
<1>1. ASSUME d \in Responses, NEW use \in BOOLEAN, PostAnswer(d, use)
      PROVE  \A r \in Responses : FirstOf(r)'
  BY <1>1, PostFirst
<1>2. ASSUME UNCHANGED <<io, first>> PROVE \A r \in Responses : FirstOf(r)'
  BY <1>2 DEF FirstInv, FirstOf, ioVars
<1>3. \/ d \in Responses /\ \E use \in BOOLEAN : PostAnswer(d, use)
      \/ UNCHANGED <<io, first>>
  BY DEF Use, Ignore, Download
<1> QED
  BY <1>1, <1>2, <1>3

LEMMA FirstIO ==
  ASSUME FirstInv, IOThread \/ \E r \in Responses : WillProcessResponse(r) \/ ThrottleDestroyed(r)
  PROVE  Begun' /\ \A r \in Responses : FirstOf(r)'
<1>1. ASSUME NEW d \in Responses, WillProcessResponse(d)
      PROVE  Begun' /\ \A r \in Responses : FirstOf(r)'
  <2>1. /\ throttle[d] = "none" /\ ui' = Append(ui, d) /\ ui \in Seq(Responses)
        /\ throttle' = [throttle EXCEPT ![d] = "deferred"]
        /\ attached' = [attached EXCEPT ![d] = TRUE]
        /\ owner' = [owner EXCEPT ![d] = "delegate"]
        /\ UNCHANGED <<io, asking, first>>
    BY <1>1 DEF WillProcessResponse, FirstInv, DecisionsTypeOK
  <2>2. \A r \in Responses : throttle[r] # "none" => throttle'[r] # "none"
    BY <2>1 DEF FirstInv, DecisionsTypeOK
  <2>3. \A i \in 1..Len(ui') : throttle'[ui'[i]] # "none"
    <3>1. /\ Len(ui') = Len(ui) + 1 /\ ui'[Len(ui) + 1] = d
          /\ \A i \in 1..Len(ui) : ui'[i] = ui[i] /\ ui[i] \in Responses
          /\ Len(ui) \in Nat
      BY <2>1
    <3>2. throttle'[d] # "none"
      BY <2>1 DEF FirstInv, DecisionsTypeOK
    <3>3. \A i \in 1..Len(ui) : throttle'[ui'[i]] # "none"
      BY <2>2, <3>1 DEF FirstInv, Begun
    <3> QED
      BY <3>1, <3>2, <3>3
  <2>4. \A r \in Responses : owner'[r] = "view" => throttle'[r] # "none"
    BY <2>1, <2>2 DEF FirstInv, Begun, DecisionsTypeOK, Decisions
  <2>5. asking' \in Responses => throttle'[asking'] # "none"
    BY <2>1, <2>2 DEF FirstInv, Begun
  <2>6. ASSUME NEW r \in Responses PROVE FirstOf(r)'
    <3>1. FirstOf(r)
      BY DEF FirstInv
    <3>2. CASE r # d
      BY <2>1, <3>1, <3>2 DEF FirstOf, FirstInv, DecisionsTypeOK
    <3>3. CASE r = d
      <4>1. first[r] = "none" /\ ~Has(io, r)
        BY <2>1, <3>1, <3>3 DEF FirstOf
      <4>2. LedBy(io, r, first[r])
        BY <4>1 DEF Has, LedBy
      <4> QED
        BY <2>1, <3>3, <4>1, <4>2 DEF FirstOf, FirstInv, DecisionsTypeOK
    <3> QED
      BY <3>2, <3>3
  <2> QED
    BY <2>3, <2>4, <2>5, <2>6 DEF Begun
<1>2. ASSUME NEW d \in Responses, ThrottleDestroyed(d)
      PROVE  Begun' /\ \A r \in Responses : FirstOf(r)'
  <2>1. /\ throttle[d] # "none"
        /\ throttle' = [throttle EXCEPT ![d] = "gone"]
        /\ attached' = [attached EXCEPT ![d] = FALSE]
        /\ UNCHANGED <<io, ui, owner, asking, first>>
    BY <1>2 DEF ThrottleDestroyed
  <2>2. \A r \in Responses : throttle[r] # "none" => throttle'[r] # "none"
    BY <2>1 DEF FirstInv, DecisionsTypeOK
  <2>3. \A i \in 1..Len(ui) : ui[i] \in Responses
    BY DEF FirstInv, DecisionsTypeOK
  <2>4. Begun'
    BY <2>1, <2>2, <2>3 DEF FirstInv, Begun
  <2>5. ASSUME NEW r \in Responses PROVE FirstOf(r)'
    <3>1. FirstOf(r)
      BY DEF FirstInv
    <3> QED
      BY <2>1, <3>1 DEF FirstOf, FirstInv, DecisionsTypeOK
  <2> QED
    BY <2>4, <2>5
<1>3. ASSUME AnswerOnIOThread
      PROVE  Begun' /\ \A r \in Responses : FirstOf(r)'
  <2> DEFINE d == Head(io).response
  <2>1. /\ io # <<>> /\ io \in Seq(Answer) /\ io' = Tail(io)
        /\ UNCHANGED <<ui, owner, asking, first>>
    BY <1>3 DEF AnswerOnIOThread, FirstInv, DecisionsTypeOK
  <2>2. Head(io) \in Answer
    BY <2>1
  <2>3. d \in Responses
    BY <2>2 DEF Answer
  <2>4. \/ ~attached[d] /\ UNCHANGED ioVars
        \/ /\ attached[d]
           /\ throttle' = [throttle EXCEPT ![d] =
                             IF Said(Head(io)) = "use" THEN "resumed"
                             ELSE "ignored"]
           /\ attached' = [attached EXCEPT ![d] = FALSE]
    BY <1>3 DEF AnswerOnIOThread, Said
  <2> HIDE DEF d
  <2>5. \A r \in Responses : throttle[r] # "none" => throttle'[r] # "none"
    BY <2>3, <2>4 DEF FirstInv, DecisionsTypeOK, ioVars
  <2>6. \A i \in 1..Len(ui) : ui[i] \in Responses
    BY DEF FirstInv, DecisionsTypeOK
  <2>7. Begun'
    BY <2>1, <2>5, <2>6 DEF FirstInv, Begun
  <2>8. ASSUME NEW r \in Responses PROVE FirstOf(r)'
    <3>1. FirstOf(r) /\ first[r] \in {"none", "use", "ignore"}
      BY DEF FirstInv, DecisionsTypeOK
    <3>2. Has(io', r) => Has(io, r)
      BY <2>1, TailQueue
    <3>3. CASE r # d
      <4>1. throttle'[r] = throttle[r] /\ attached'[r] = attached[r]
        BY <2>3, <2>4, <3>3 DEF FirstInv, DecisionsTypeOK, ioVars
      <4>2. Has(io, r) => Has(io', r)
        BY <2>1, <3>3, TailQueue DEF d
      <4>3. LedBy(io, r, first[r]) => LedBy(io', r, first'[r])
        BY <2>1, <3>3, TailQueue DEF d
      <4> QED
        BY <2>1, <3>1, <3>2, <4>1, <4>2, <4>3 DEF FirstOf
    <3>4. CASE r = d /\ ~attached[d]
      BY <2>1, <2>4, <3>1, <3>2, <3>4 DEF FirstOf, ioVars
    <3>5. CASE r = d /\ attached[d]
      <4>1. Has(io, r) /\ Said(Head(io)) = first[r]
        BY <2>1, <3>1, <3>5, TailQueue DEF FirstOf, d
      <4>2. first[r] # "none"
        BY <3>1, <4>1 DEF FirstOf
      <4>3. /\ ~attached'[r]
            /\ throttle'[r] = IF first[r] = "use" THEN "resumed" ELSE "ignored"
        BY <2>3, <2>4, <3>5, <4>1 DEF FirstInv, DecisionsTypeOK
      <4> QED
        BY <2>1, <3>1, <4>2, <4>3 DEF FirstOf
    <3> QED
      BY <3>3, <3>4, <3>5
  <2> QED
    BY <2>7, <2>8
<1> QED
  BY <1>1, <1>2, <1>3 DEF IOThread

LEMMA FirstUI ==
  ASSUME FirstInv, UIThread \/ CloseView
  PROVE  Begun' /\ \A r \in Responses : FirstOf(r)'
<1> DEFINE Goal == Begun' /\ \A r \in Responses : FirstOf(r)'
<1>1. UNCHANGED <<throttle, attached, io, first>>
        => \A r \in Responses : FirstOf(r)'
  BY DEF FirstInv, FirstOf
<1>2. ASSUME UNCHANGED <<throttle, ui, owner>>, asking' = Nobody PROVE Begun'
  <2>1. asking' \notin Responses
    BY <1>2, TypesAssumption DEF Decisions
  <2> QED
    BY <1>2, <2>1 DEF FirstInv, Begun
<1>3. ASSUME HandlePolicyResponse PROVE Goal
  <2>1. /\ ui # <<>> /\ ui \in Seq(Responses) /\ ui' = Tail(ui)
        /\ UNCHANGED <<throttle, attached>> /\ UNCHANGED ioVars
    BY <1>3 DEF HandlePolicyResponse, FirstInv, DecisionsTypeOK, ioVars
  <2>2. /\ Head(ui) \in Responses /\ throttle[Head(ui)] # "none"
        /\ \A i \in 1..Len(ui') : throttle'[ui'[i]] # "none"
    <3>1. /\ Len(ui) \in Nat \ {0} /\ Head(ui) = ui[1] /\ ui[1] \in Responses
          /\ Len(ui') = Len(ui) - 1
          /\ \A i \in 1..Len(ui') : ui'[i] = ui[i + 1]
      BY <2>1
    <3>2. \A i \in 1..Len(ui) : throttle[ui[i]] # "none"
      BY DEF FirstInv, Begun
    <3> QED
      BY <2>1, <3>1, <3>2
  <2>3. CASE Ask(Head(ui)) /\ UNCHANGED <<io, first>>
    <3>1. /\ asking' = Head(ui)
          /\ \A r \in Responses : owner'[r] = "view" =>
               r = Head(ui) \/ owner[r] = "view"
      BY <2>2, <2>3 DEF Ask, Hold, Decisions
    <3> QED
      BY <1>1, <2>1, <2>2, <2>3, <3>1 DEF FirstInv, Begun
  <2>4. CASE PostAnswer(Head(ui), TRUE) /\ UNCHANGED <<owner, asking>>
    <3>1. \A r \in Responses : FirstOf(r)'
      BY <2>1, <2>2, <2>4, PostFirst
    <3> QED
      BY <2>1, <2>2, <2>4, <3>1 DEF FirstInv, Begun
  <2> QED
    BY <1>3, <2>3, <2>4 DEF HandlePolicyResponse
<1>4. ASSUME ResponseAsked \/ NavigationAsked PROVE Goal
  <2>1. /\ asking \in Decisions /\ asking' = Nobody
        /\ UNCHANGED <<throttle, ui, owner>> /\ UNCHANGED ioVars
        /\ Use(asking) \/ UNCHANGED <<io, first>>
    BY <1>4 DEF ResponseAsked, NavigationAsked, Decisions, ioVars
  <2>2. asking \in Responses => throttle[asking] # "none"
    BY DEF FirstInv, Begun
  <2>3. \A r \in Responses : FirstOf(r)'
    BY <1>1, <2>1, <2>2, DecideFirst DEF ioVars
  <2> QED
    BY <1>2, <2>1, <2>3
<1>5. ASSUME WindowAsked PROVE Goal
  BY <1>1, <1>2, <1>5 DEF WindowAsked, ioVars
<1>6. ASSUME CloseView PROVE Goal
  <2>1. /\ UNCHANGED <<throttle, attached, io, first, ui, asking>>
        /\ \A r \in Responses : owner'[r] # "view"
    BY <1>6 DEF CloseView, ioVars, Decisions
  <2> QED
    BY <1>1, <2>1 DEF FirstInv, Begun
<1> QED
  BY <1>3, <1>4, <1>5, <1>6 DEF UIThread

LEMMA FirstApp ==
  ASSUME FirstInv, NEW d \in Decisions, AskNow(d) \/ AppDecides(d) \/ AppSuspends(d)
  PROVE  Begun' /\ \A r \in Responses : FirstOf(r)'
<1>1. UNCHANGED <<throttle, attached, io, first>>
        => \A r \in Responses : FirstOf(r)'
  BY DEF FirstInv, FirstOf
<1>2. UNCHANGED <<throttle, ui, owner, asking>> => Begun'
  BY DEF FirstInv, Begun
<1>3. ASSUME AskNow(d) PROVE Begun' /\ \A r \in Responses : FirstOf(r)'
  <2>1. /\ d \notin Responses /\ asking' = d
        /\ UNCHANGED <<throttle, attached, io, first, ui>>
    BY <1>3, TypesAssumption DEF AskNow, Ask, ioVars
  <2>2. \A r \in Responses : owner'[r] = "view" => owner[r] = "view"
    BY <1>3, <2>1 DEF AskNow, Ask, Hold, Decisions
  <2> QED
    BY <1>1, <2>1, <2>2 DEF FirstInv, Begun
<1>4. ASSUME AppDecides(d) PROVE Begun' /\ \A r \in Responses : FirstOf(r)'
  <2>1. /\ owner[d] = "view" /\ UNCHANGED <<throttle, ui, owner, asking>>
        /\ UNCHANGED ioVars
        /\ Use(d) \/ Ignore(d) \/ Download(d)
    BY <1>4 DEF AppDecides, MayCall, ioVars
  <2>2. d \in Responses => throttle[d] # "none"
    BY <2>1 DEF FirstInv, Begun
  <2> QED
    BY <1>2, <2>1, <2>2, DecideFirst
<1>5. ASSUME AppSuspends(d) PROVE Begun' /\ \A r \in Responses : FirstOf(r)'
  BY <1>1, <1>2, <1>5 DEF AppSuspends, MayCall, ioVars
<1> QED
  BY <1>3, <1>4, <1>5

LEMMA FirstInit == DecisionsInit => FirstInv
<1> SUFFICES ASSUME DecisionsInit PROVE FirstInv
  OBVIOUS
<1>1. io = <<>> /\ ui = <<>> /\ asking = Nobody
  BY DEF DecisionsInit
<1>2. Begun
  BY <1>1, TypesAssumption DEF Begun, DecisionsInit, Decisions
<1>3. \A r \in Responses : FirstOf(r)
  <2> SUFFICES ASSUME NEW r \in Responses PROVE FirstOf(r)
    OBVIOUS
  <2>1. throttle[r] = "none" /\ ~attached[r] /\ first[r] = "none"
    BY DEF DecisionsInit
  <2>2. ~Has(io, r)
    BY <1>1 DEF Has
  <2> QED
    BY <2>1, <2>2 DEF FirstOf
<1> QED
  BY <1>2, <1>3, InitType DEF FirstInv

LEMMA FirstStep == FirstInv /\ [DecisionsNext]_decisionsVars => FirstInv'
<1> SUFFICES ASSUME FirstInv, [DecisionsNext]_decisionsVars PROVE FirstInv'
  OBVIOUS
<1>1. DecisionsTypeOK'
  BY TypeStep DEF FirstInv
<1>2. UNCHANGED decisionsVars => Begun' /\ \A r \in Responses : FirstOf(r)'
  BY DEF decisionsVars, FirstInv, Begun, FirstOf
<1> QED
  BY <1>1, <1>2, FirstIO, FirstUI, FirstApp DEF DecisionsNext, FirstInv

(***************************************************************************)
(* What happens to a response is what was decided first, whatever is       *)
(* decided later, by whomever, and however the threads interleave.         *)
(***************************************************************************)
THEOREM FirstAnswerHolds == DecisionsSpec => []FirstAnswerCounts
<1>1. FirstInv => FirstAnswerCounts
  BY DEF FirstInv, FirstOf, FirstAnswerCounts
<1> QED
  BY <1>1, FirstInit, FirstStep, PTL DEF DecisionsSpec
=============================================================================
