--------------------------- MODULE ContextServices ---------------------------
(***************************************************************************)
(* For model checking: the decisions of a view's loads and the removal of  *)
(* its context's browsing data.                                            *)
(*                                                                         *)
(* They share no state, so one of them works in a behaviour and the other  *)
(* stays where it starts, as in WebViewServices.                           *)
(***************************************************************************)
EXTENDS PolicyDecision, BrowsingDataRemover

VARIABLE working   \* "decisions" or "remover"

vars == <<working, decisionsVars, removerVars>>

\* What is stored only tells initial states apart when the remover works.
Init ==
  /\ working \in {"decisions", "remover"}
  /\ DecisionsInit /\ RemoverInit
  /\ working = "decisions" => data = CacheItems

TypeOK ==
  /\ working \in {"decisions", "remover"}
  /\ working = "decisions" => DecisionsTypeOK
  /\ working = "remover" => RemoverTypeOK

DecisionsWork ==
  working = "decisions" /\ DecisionsNext /\ UNCHANGED <<working, removerVars>>

RemoverWorks ==
  working = "remover" /\ RemoverNext /\ UNCHANGED <<working, decisionsVars>>

Next == DecisionsWork \/ RemoverWorks

\* Each one's own fairness: at rest, it has no task to run.
Spec == Init /\ [][Next]_vars /\ DecisionsFairness /\ RemoverFairness
=============================================================================
