-------------------------- MODULE WebViewServices --------------------------
(***************************************************************************)
(* The services around a web view, for model checking: the questions it    *)
(* asks its application, its JavaScript dialogs, the cookies of its        *)
(* context and their policy, its media elements that play a URL, its keys  *)
(* and their input method, and the video codecs of the GPU process.        *)
(*                                                                         *)
(* They share no state: an interleaving of the steps of two of them shows  *)
(* nothing that the steps of each alone do not. One of them works in a     *)
(* behaviour, and the others stay where they start.                        *)
(***************************************************************************)
EXTENDS ViewQuestions, JavaScriptDialogs, CookieManager, CookiePolicy,
        VideoDecoder, VideoEncoder, UrlPlayer, InputMethod

VARIABLE working   \* the service that works

Services == {"questions", "dialogs", "cookies", "policy", "decoder", "encoder",
             "url", "input"}

vars == <<working, questionsVars, dialogsVars, cookiesVars, policyVars,
          decoderVars, encoderVars, urlVars, inputVars>>

\* The initial states that only the service at work tells apart.
Init ==
  /\ working \in Services
  /\ QuestionsInit /\ DialogsInit /\ CookiesInit /\ PolicyInit
  /\ DecoderInit /\ EncoderInit /\ UrlInit /\ InputInit
  /\ working # "questions" => kind = [q \in Questions |-> "auth"]
  /\ working # "dialogs" => hook
  /\ working # "policy" => third = [c \in Checks |-> FALSE]
  /\ working # "url" => bridge.file
  /\ working = "url" <=> toBridge # <<>>   \* the page has called play

\* A service at rest is where its own initial states are.
TypeOK ==
  /\ working \in Services
  /\ working = "questions" => QuestionsTypeOK
  /\ working = "dialogs" => DialogsTypeOK
  /\ working = "cookies" => CookiesTypeOK
  /\ working = "policy" => PolicyTypeOK
  /\ working = "decoder" => DecoderTypeOK
  /\ working = "encoder" => EncoderTypeOK
  /\ working = "url" => UrlTypeOK
  /\ working = "input" => InputTypeOK
----------------------------------------------------------------------------
QuestionsWork ==
  /\ working = "questions" /\ QuestionsNext
  /\ UNCHANGED <<working, dialogsVars, cookiesVars, policyVars,
                 decoderVars, encoderVars, urlVars, inputVars>>

DialogsWork ==
  /\ working = "dialogs" /\ DialogsNext
  /\ UNCHANGED <<working, questionsVars, cookiesVars, policyVars,
                 decoderVars, encoderVars, urlVars, inputVars>>

CookiesWork ==
  /\ working = "cookies" /\ CookiesNext
  /\ UNCHANGED <<working, questionsVars, dialogsVars, policyVars,
                 decoderVars, encoderVars, urlVars, inputVars>>

PolicyWorks ==
  /\ working = "policy" /\ PolicyNext
  /\ UNCHANGED <<working, questionsVars, dialogsVars, cookiesVars,
                 decoderVars, encoderVars, urlVars, inputVars>>

DecoderWorks ==
  /\ working = "decoder" /\ DecoderNext
  /\ UNCHANGED <<working, questionsVars, dialogsVars, cookiesVars,
                 policyVars, encoderVars, urlVars, inputVars>>

EncoderWorks ==
  /\ working = "encoder" /\ EncoderNext
  /\ UNCHANGED <<working, questionsVars, dialogsVars, cookiesVars,
                 policyVars, decoderVars, urlVars, inputVars>>

UrlPlayerWorks ==
  /\ working = "url" /\ UrlNext
  /\ UNCHANGED <<working, questionsVars, dialogsVars, cookiesVars,
                 policyVars, decoderVars, encoderVars, inputVars>>

InputWorks ==
  /\ working = "input" /\ InputNext
  /\ UNCHANGED <<working, questionsVars, dialogsVars, cookiesVars,
                 policyVars, decoderVars, encoderVars, urlVars>>

Next ==
  \/ QuestionsWork \/ DialogsWork \/ CookiesWork \/ PolicyWorks
  \/ DecoderWorks \/ EncoderWorks \/ UrlPlayerWorks \/ InputWorks

\* Each service's own fairness: at rest, a service has no task to run.
Spec ==
  /\ Init /\ [][Next]_vars
  /\ QuestionsFairness /\ CookiesFairness /\ DecoderFairness /\ UrlFairness
============================================================================
