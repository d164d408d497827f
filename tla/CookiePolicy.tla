---------------------------- MODULE CookiePolicy ----------------------------
(***************************************************************************)
(* The cookie accept policy of CookieManager                               *)
(* (src/impl/cookie_manager.cc): set on the UI thread, read by             *)
(* AllowCookies for the network delegate and for the renderers. lock_      *)
(* protects each read, not the two reads of one check.                     *)
(***************************************************************************)
EXTENDS Naturals

CONSTANTS
  Checks,    \* checks under way at once
  MaxChanges \* bound: calls of SetCookiePolicy

ASSUME ChangeAssumption == MaxChanges \in Nat

VARIABLES
  policy,  \* cookie_policy_
  changes, \* calls of SetCookiePolicy so far
  step,    \* per check: "idle", "block" (between the two reads), "done"
  third,   \* per check: the cookie is a third party's
  allowed, \* per check: what AllowCookies returned
  seen     \* history, per check: the policies in force during it

policyVars == <<policy, changes, step, third, allowed, seen>>

Policies == {"always", "never", "noThirdParty"}
----------------------------------------------------------------------------
PolicyInit ==
  /\ policy = "always" /\ changes = 0
  /\ step = [c \in Checks |-> "idle"]
  /\ third \in [Checks -> BOOLEAN]
  /\ allowed = [c \in Checks |-> FALSE]
  /\ seen = [c \in Checks |-> {}]

PolicyTypeOK ==
  /\ policy \in Policies /\ changes \in 0..MaxChanges
  /\ step \in [Checks -> {"idle", "block", "done"}]
  /\ third \in [Checks -> BOOLEAN] /\ allowed \in [Checks -> BOOLEAN]
  /\ seen \in [Checks -> SUBSET Policies]

SetCookiePolicy(p) ==
  /\ changes < MaxChanges /\ p # policy
  /\ policy' = p /\ changes' = changes + 1
  /\ seen' = [c \in Checks |->
               IF step[c] = "block" THEN seen[c] \cup {p} ELSE seen[c]]
  /\ UNCHANGED <<step, third, allowed>>

\* AllowCookies up to and including GetGlobalAllowAccess.
\* (mutant) whatever is not refused is allowed
GetGlobalAllowAccessLax(c) ==
  /\ step[c] = "idle"
  /\ seen' = [seen EXCEPT ![c] = {policy}]
  /\ allowed' = [allowed EXCEPT ![c] = (policy # "never")]
  /\ step' = [step EXCEPT ![c] = IF policy # "never" THEN "done" ELSE "block"]
  /\ UNCHANGED <<policy, changes, third>>

GetGlobalAllowAccess(c) ==
  /\ step[c] = "idle"
  /\ seen' = [seen EXCEPT ![c] = {policy}]
  /\ allowed' = [allowed EXCEPT ![c] = (policy = "always")]
  /\ step' = [step EXCEPT ![c] = IF policy = "always" THEN "done" ELSE "block"]
  /\ UNCHANGED <<policy, changes, third>>

\* ShouldBlockThirdPartyCookies and the rest of AllowCookies.
ShouldBlockThirdPartyCookies(c) ==
  /\ step[c] = "block"
  /\ allowed' = [allowed EXCEPT ![c] = (policy = "noThirdParty" /\ ~third[c])]
  /\ step' = [step EXCEPT ![c] = "done"]
  /\ UNCHANGED <<policy, changes, third, seen>>

PolicyNext ==
  \/ \E p \in Policies : SetCookiePolicy(p)
  \/ \E c \in Checks :
       GetGlobalAllowAccess(c) \/ ShouldBlockThirdPartyCookies(c)

PolicySpec == PolicyInit /\ [][PolicyNext]_policyVars
----------------------------------------------------------------------------
Permits(p, foreign) == p = "always" \/ (p = "noThirdParty" /\ ~foreign)

(***************************************************************************)
(* A cookie is allowed only if a policy in force at some moment of its     *)
(* check permits it. It is refused only if one forbids it, or the policy   *)
(* went from "no third party" to "always" between the two reads: then a    *)
(* cookie that both policies permit is refused.                            *)
(***************************************************************************)
PolicyInForce ==
  \A c \in Checks : step[c] = "done" =>
    IF allowed[c] THEN \E p \in seen[c] : Permits(p, third[c])
    ELSE \/ \E p \in seen[c] : ~Permits(p, third[c])
         \/ {"always", "noThirdParty"} \subseteq seen[c]
=============================================================================
