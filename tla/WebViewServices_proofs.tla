----------------------- MODULE WebViewServices_proofs -----------------------
(***************************************************************************)
(* Proofs about the services around a web view, for any number of dialogs, *)
(* cookies, checks and buffers: the JavaScript dialogs, the cookie manager *)
(* and its policy, each by itself; the types of the URL player and of the  *)
(* decoder; and all the services together.                                 *)
(***************************************************************************)
EXTENDS WebViewServices, ViewQuestions_proofs, VideoEncoder_proofs,
        InputMethod_proofs, SequenceTheorems, FiniteSetTheorems, TLAPS

(***************************************************************************)
(* JavaScript dialogs.                                                     *)
(***************************************************************************)
LEMMA DialogsInitType == DialogsInit => DialogsTypeOK
<1> SUFFICES ASSUME DialogsInit PROVE DialogsTypeOK
  OBVIOUS
<1>1. page \in [Dialogs -> {"idle", "waiting", "resumed", "gone"}]
  BY DEF DialogsInit
<1>2. {closed, popup, inside} \subseteq Dialogs \cup {NoDialog}
  BY DEF DialogsInit
<1>3. window \in [Dialogs -> BOOLEAN]
  BY Zenon DEF DialogsInit
<1>4. /\ hook \in BOOLEAN /\ replied \in BOOLEAN /\ manager \in BOOLEAN
      /\ dialogsAborted \in BOOLEAN
  BY Zenon DEF DialogsInit
<1>5. owed \in SUBSET Dialogs
  BY DEF DialogsInit
<1> QED
  BY <1>1, <1>2, <1>3, <1>4, <1>5, Zenon DEF DialogsTypeOK

LEMMA RunCallbackType ==
  ASSUME DialogsTypeOK, NEW d \in Dialogs \cup {NoDialog}, RunCallback(d)
  PROVE  page' \in [Dialogs -> {"idle", "waiting", "resumed", "gone"}]
BY DEF RunCallback, DialogsTypeOK

LEMMA ShowDialogType ==
  ASSUME DialogsTypeOK, NEW d \in Dialogs, NEW w \in [Dialogs -> BOOLEAN],
         ShowDialog(d, w)
  PROVE  popup' \in Dialogs \cup {NoDialog} /\ window' \in [Dialogs -> BOOLEAN]
BY DEF ShowDialog, DialogsTypeOK

LEMMA CloseWindowType == CloseWindow \in [Dialogs -> BOOLEAN]
BY Zenon DEF CloseWindow

LEMMA OpensType ==
  ASSUME DialogsTypeOK, NEW d \in Dialogs, Opens(d)
  PROVE  /\ page' \in [Dialogs -> {"idle", "waiting", "resumed", "gone"}]
         /\ closed' \in Dialogs
BY DEF Opens, DialogsTypeOK

LEMMA DialogsNextType ==
  ASSUME DialogsTypeOK, [DialogsNext]_dialogsVars
  PROVE  DialogsTypeOK'
<1>1. ASSUME NEW d \in Dialogs, RunBeforeUnloadDialog(d) PROVE DialogsTypeOK'
  <2>1. window \in [Dialogs -> BOOLEAN] /\ ShowDialog(d, window) /\ Opens(d)
    BY <1>1 DEF RunBeforeUnloadDialog, DialogsTypeOK
  <2>2. UNCHANGED <<hook, inside, replied, owed, manager, dialogsAborted>>
    BY <1>1 DEF RunBeforeUnloadDialog
  <2> QED
    BY <2>1, <2>2, ShowDialogType, OpensType DEF DialogsTypeOK
<1>2. ASSUME NEW d \in Dialogs, RunJavaScriptDialog(d) PROVE DialogsTypeOK'
  <2>1. Opens(d) /\ inside' = d /\ replied' = FALSE
    BY <1>2 DEF RunJavaScriptDialog
  <2>2. UNCHANGED <<hook, popup, window, owed, manager, dialogsAborted>>
    BY <1>2 DEF RunJavaScriptDialog
  <2> QED
    BY <2>1, <2>2, OpensType DEF DialogsTypeOK
<1>3. ASSUME NEW d \in Dialogs, CallbackTook(d) PROVE DialogsTypeOK'
  <2>1. /\ window \in [Dialogs -> BOOLEAN] /\ ShowDialog(d, window)
        /\ inside' = NoDialog
    BY <1>3 DEF CallbackTook, DialogsTypeOK
  <2>2. owed' \in SUBSET Dialogs
    BY <1>3 DEF CallbackTook, DialogsTypeOK
  <2>3. UNCHANGED <<hook, page, closed, replied, manager, dialogsAborted>>
    BY <1>3 DEF CallbackTook
  <2> QED
    BY <2>1, <2>2, <2>3, ShowDialogType DEF DialogsTypeOK
<1>4. ASSUME NEW d \in Dialogs, CallbackRefused(d) PROVE DialogsTypeOK'
  <2>1. ShowDialog(d, CloseWindow) /\ RunCallback(closed) /\ inside' = NoDialog
    BY <1>4 DEF CallbackRefused
  <2>2. closed \in Dialogs \cup {NoDialog}
    BY DEF DialogsTypeOK
  <2>3. UNCHANGED <<hook, closed, replied, owed, manager, dialogsAborted>>
    BY <1>4 DEF CallbackRefused
  <2> QED
    BY <2>1, <2>2, <2>3, ShowDialogType, RunCallbackType, CloseWindowType
       DEF DialogsTypeOK
<1>5. ASSUME ReplyInside PROVE DialogsTypeOK'
  <2>1. RunCallback(closed) /\ window' = CloseWindow /\ replied' = TRUE
    BY <1>5 DEF ReplyInside
  <2>2. closed \in Dialogs \cup {NoDialog}
    BY DEF DialogsTypeOK
  <2>3. UNCHANGED <<hook, closed, popup, inside, owed, manager, dialogsAborted>>
    BY <1>5 DEF ReplyInside
  <2> QED
    BY <2>1, <2>2, <2>3, RunCallbackType, CloseWindowType DEF DialogsTypeOK
<1>6. ASSUME NEW d \in Dialogs, Reply(d) PROVE DialogsTypeOK'
  <2>1. RunCallback(closed) /\ window' = CloseWindow /\ owed' = owed \ {d}
    BY <1>6 DEF Reply
  <2>2. closed \in Dialogs \cup {NoDialog} /\ owed' \in SUBSET Dialogs
    BY <2>1 DEF DialogsTypeOK
  <2>3. UNCHANGED <<hook, closed, popup, inside, replied, manager,
                    dialogsAborted>>
    BY <1>6 DEF Reply
  <2> QED
    BY <2>1, <2>2, <2>3, RunCallbackType, CloseWindowType DEF DialogsTypeOK
<1>7. ASSUME NEW d \in Dialogs, Click(d) PROVE DialogsTypeOK'
  <2>1. UNCHANGED <<hook, closed, popup, inside, replied, owed, manager>>
    BY <1>7 DEF Click
  <2>2. CASE popup = d
    <3>1. RunCallback(d) /\ window' = CloseWindow /\ UNCHANGED dialogsAborted
      BY <1>7, <2>2 DEF Click
    <3> QED
      BY <2>1, <3>1, RunCallbackType, CloseWindowType DEF DialogsTypeOK
  <2>3. CASE popup # d
    <3>1. dialogsAborted' = TRUE /\ UNCHANGED <<page, window>>
      BY <1>7, <2>3 DEF Click
    <3> QED
      BY <2>1, <3>1 DEF DialogsTypeOK
  <2> QED
    BY <2>2, <2>3
<1>8. ASSUME NEW d \in Dialogs, PageGone(d) PROVE DialogsTypeOK'
  BY <1>8 DEF PageGone, DialogsTypeOK
<1>9. ASSUME DeleteManager PROVE DialogsTypeOK'
  BY <1>9 DEF DeleteManager, DialogsTypeOK
<1>10. CASE UNCHANGED dialogsVars
  BY <1>10 DEF dialogsVars, DialogsTypeOK
<1> QED
  BY <1>1, <1>2, <1>3, <1>4, <1>5, <1>6, <1>7, <1>8, <1>9, <1>10
     DEF DialogsNext

(***************************************************************************)
(* Every state of the dialogs is well typed.                               *)
(***************************************************************************)
THEOREM DialogsTypeCorrect == DialogsSpec => []DialogsTypeOK
<1> QED
  BY DialogsInitType, DialogsNextType, PTL DEF DialogsSpec
----------------------------------------------------------------------------
(***************************************************************************)
(* The strengthening: the callback kept is the waiting page's and the one  *)
(* of the dialog the application is asked about, whose page goes on as     *)
(* soon as the application replied.                                        *)
(***************************************************************************)
Kept ==
  /\ \A d \in Dialogs : page[d] = "waiting" => closed = d
  /\ inside # NoDialog => closed = inside
  /\ inside # NoDialog /\ replied => page[inside] # "waiting"

Reachable(d) == (window[d] /\ popup = d) \/ d \in owed \/ popup = NoDialog

DialogsInv ==
  DialogsTypeOK /\ Kept /\ \A d \in Dialogs : Waiting(d) => Reachable(d)

\* Once the callback that is kept has run, no page waits.
LEMMA NobodyWaits ==
  ASSUME DialogsInv, RunCallback(closed)
  PROVE  \A d \in Dialogs : page'[d] # "waiting"
<1> SUFFICES ASSUME NEW d \in Dialogs PROVE page'[d] # "waiting"
  OBVIOUS
<1>1. page' = [page EXCEPT ![closed] = IF @ = "waiting" THEN "resumed" ELSE @]
  BY DEF RunCallback
<1>2. page[d] = "waiting" => closed = d
  BY DEF DialogsInv, Kept
<1> QED
  BY <1>1, <1>2 DEF DialogsInv, DialogsTypeOK

LEMMA OpenedOnly ==
  ASSUME DialogsInv, NEW d \in Dialogs, Opens(d)
  PROVE  /\ \A e \in Dialogs : page'[e] = "waiting" <=> e = d
         /\ closed' = d /\ inside = NoDialog
BY DEF Opens, Ready, DialogsInv, DialogsTypeOK

LEMMA DialogsNextInv ==
  ASSUME DialogsInv, [DialogsNext]_dialogsVars
  PROVE  DialogsInv'
<1>1. DialogsTypeOK'
  BY DialogsNextType DEF DialogsInv
<1> DEFINE Still == \A d \in Dialogs : Waiting(d)' => Reachable(d)'
<1>2. ASSUME NEW d \in Dialogs, RunBeforeUnloadDialog(d) PROVE Kept' /\ Still
  <2>1. /\ \A e \in Dialogs : page'[e] = "waiting" <=> e = d
        /\ closed' = d /\ inside' = NoDialog
    BY <1>2, OpenedOnly DEF RunBeforeUnloadDialog
  <2>2. (popup' = d /\ window'[d]) \/ popup' = NoDialog
    BY <1>2 DEF RunBeforeUnloadDialog, ShowDialog, DialogsInv, DialogsTypeOK
  <2> QED
    BY <2>1, <2>2 DEF Kept, Waiting, Reachable
<1>3. ASSUME NEW d \in Dialogs, RunJavaScriptDialog(d) PROVE Kept' /\ Still
  <2>1. /\ \A e \in Dialogs : page'[e] = "waiting" <=> e = d
        /\ closed' = d /\ inside' = d /\ replied' = FALSE
    BY <1>3, OpenedOnly DEF RunJavaScriptDialog
  <2> QED
    BY <2>1 DEF Kept, Waiting
<1>4. ASSUME NEW d \in Dialogs, CallbackTook(d) PROVE Kept' /\ Still
  <2>1. inside = d /\ inside' = NoDialog /\ UNCHANGED <<page, closed, replied>>
    BY <1>4 DEF CallbackTook
  <2>2. Kept'
    BY <2>1 DEF DialogsInv, Kept
  <2>3. ASSUME NEW e \in Dialogs, page'[e] = "waiting" PROVE Reachable(e)'
    <3>1. e = d /\ ~replied
      BY <2>1, <2>3, DialogAssumption DEF DialogsInv, Kept
    <3>2. d \in owed'
      BY <1>4, <3>1 DEF CallbackTook
    <3> QED
      BY <3>1, <3>2 DEF Reachable
  <2> QED
    BY <2>2, <2>3 DEF Waiting
<1>5. ASSUME NEW d \in Dialogs, CallbackRefused(d) PROVE Kept' /\ Still
  <2>1. inside' = NoDialog /\ \A e \in Dialogs : page'[e] # "waiting"
    BY <1>5, NobodyWaits DEF CallbackRefused
  <2> QED
    BY <2>1 DEF Kept, Waiting
<1>6. ASSUME ReplyInside PROVE Kept' /\ Still
  <2>1. /\ UNCHANGED <<inside, closed>> /\ inside # NoDialog
        /\ \A e \in Dialogs : page'[e] # "waiting"
    BY <1>6, NobodyWaits DEF ReplyInside
  <2>2. inside \in Dialogs /\ closed = inside
    BY <2>1 DEF DialogsInv, DialogsTypeOK, Kept
  <2> QED
    BY <2>1, <2>2 DEF Kept, Waiting
<1>7. ASSUME NEW d \in Dialogs, Reply(d) PROVE Kept' /\ Still
  <2>1. inside' = NoDialog /\ \A e \in Dialogs : page'[e] # "waiting"
    BY <1>7, NobodyWaits DEF Reply, Ready
  <2> QED
    BY <2>1 DEF Kept, Waiting
<1>8. ASSUME NEW d \in Dialogs, Click(d) PROVE Kept' /\ Still
  <2>1. UNCHANGED <<closed, popup, inside, replied, owed>> /\ inside = NoDialog
    BY <1>8 DEF Click
  <2>2. CASE popup = d
    <3>1. page' = [page EXCEPT ![d] = IF @ = "waiting" THEN "resumed" ELSE @]
      BY <1>8, <2>2 DEF Click, RunCallback
    <3>2. \A e \in Dialogs : page'[e] = "waiting" =>
            page[e] = "waiting" /\ e # d
      BY <3>1 DEF DialogsInv, DialogsTypeOK
    <3>3. Kept'
      BY <2>1, <3>2 DEF DialogsInv, Kept
    <3>4. UNCHANGED dialogsAborted
      BY <1>8, <2>2 DEF Click
    <3>5. ASSUME NEW e \in Dialogs, Waiting(e)' PROVE Reachable(e)'
      <4>1. page[e] = "waiting" /\ e # d /\ Waiting(e)
        BY <2>1, <3>2, <3>4, <3>5 DEF Waiting
      <4>2. e \in owed
        BY <2>2, <4>1, DialogAssumption DEF DialogsInv, Reachable
      <4> QED
        BY <2>1, <4>2 DEF Reachable
    <3> QED
      BY <3>3, <3>5
  <2>3. CASE popup # d
    <3>1. dialogsAborted' = TRUE /\ UNCHANGED page
      BY <1>8, <2>3 DEF Click
    <3> QED
      BY <2>1, <3>1 DEF DialogsInv, Kept, Waiting
  <2> QED
    BY <2>2, <2>3
<1>9. ASSUME NEW d \in Dialogs, PageGone(d) PROVE Kept' /\ Still
  <2>1. /\ UNCHANGED <<closed, popup, window, inside, replied, owed,
                       dialogsAborted>>
        /\ inside = NoDialog
    BY <1>9 DEF PageGone
  <2>2. \A e \in Dialogs : page'[e] = "waiting" => page[e] = "waiting"
    BY <1>9 DEF PageGone, DialogsInv, DialogsTypeOK
  <2> QED
    BY <2>1, <2>2 DEF DialogsInv, Kept, Waiting, Reachable
<1>10. ASSUME DeleteManager PROVE Kept' /\ Still
  <2>1. inside' = NoDialog /\ \A e \in Dialogs : page'[e] # "waiting"
    BY <1>10 DEF DeleteManager, Ready
  <2> QED
    BY <2>1 DEF Kept, Waiting
<1>11. ASSUME UNCHANGED dialogsVars PROVE Kept' /\ Still
  BY <1>11 DEF dialogsVars, DialogsInv, Kept, Waiting, Reachable
<1>12. Kept' /\ Still
  BY <1>2, <1>3, <1>4, <1>5, <1>6, <1>7, <1>8, <1>9, <1>10, <1>11
     DEF DialogsNext
<1> QED
  BY <1>1, <1>12 DEF DialogsInv

(***************************************************************************)
(* A page that waits for its dialog can be answered, by the user or by the *)
(* application, whatever the application replies, late, twice or not at    *)
(* all, unless its popup could not be created.                             *)
(***************************************************************************)
THEOREM AnswerableHolds == DialogsSpec => []Answerable
<1>1. DialogsInit => DialogsInv
  BY DialogsInitType DEF DialogsInit, DialogsInv, Kept, Waiting
<1>2. DialogsInv /\ [DialogsNext]_dialogsVars => DialogsInv'
  BY DialogsNextInv
<1>3. DialogsInv => Answerable
  BY DEF DialogsInv, Kept, Answerable, Waiting, Reachable
<1> QED
  BY <1>1, <1>2, <1>3, PTL DEF DialogsSpec

-----------------------------------------------------------------------------
(***************************************************************************)
(* The cookie policy.                                                      *)
(***************************************************************************)
LEMMA PolicyInitType == PolicyInit => PolicyTypeOK
BY ChangeAssumption DEF PolicyInit, PolicyTypeOK, Policies

LEMMA PolicyNextType ==
  ASSUME PolicyTypeOK, [PolicyNext]_policyVars
  PROVE  PolicyTypeOK'
<1>1. ASSUME NEW p \in Policies, SetCookiePolicy(p) PROVE PolicyTypeOK'
  BY <1>1, ChangeAssumption DEF SetCookiePolicy, PolicyTypeOK
<1>2. ASSUME NEW c \in Checks, GetGlobalAllowAccess(c) PROVE PolicyTypeOK'
  BY <1>2 DEF GetGlobalAllowAccess, PolicyTypeOK
<1>3. ASSUME NEW c \in Checks, ShouldBlockThirdPartyCookies(c)
      PROVE  PolicyTypeOK'
  BY <1>3 DEF ShouldBlockThirdPartyCookies, PolicyTypeOK
<1>4. CASE UNCHANGED policyVars
  BY <1>4 DEF policyVars, PolicyTypeOK
<1> QED
  BY <1>1, <1>2, <1>3, <1>4 DEF PolicyNext

(***************************************************************************)
(* Every state of the policy is well typed.                                *)
(***************************************************************************)
THEOREM PolicyTypeCorrect == PolicySpec => []PolicyTypeOK
<1> QED
  BY PolicyInitType, PolicyNextType, PTL DEF PolicySpec
----------------------------------------------------------------------------
(***************************************************************************)
(* The strengthening: between its two reads a check has seen the policy    *)
(* that is in force, and one that does not allow everything.               *)
(***************************************************************************)
Between(c) ==
  step[c] = "block" => policy \in seen[c] /\ \E p \in seen[c] : p # "always"

Justified(c) ==
  step[c] = "done" =>
    IF allowed[c] THEN \E p \in seen[c] : Permits(p, third[c])
    ELSE \/ \E p \in seen[c] : ~Permits(p, third[c])
         \/ {"always", "noThirdParty"} \subseteq seen[c]

PolicyInv == PolicyTypeOK /\ \A c \in Checks : Between(c) /\ Justified(c)

LEMMA JustifiedIsPolicyInForce ==
  PolicyInForce <=> \A c \in Checks : Justified(c)
BY DEF PolicyInForce, Justified

LEMMA PolicyNextInv ==
  ASSUME PolicyInv, [PolicyNext]_policyVars
  PROVE  PolicyInv'
<1>1. PolicyTypeOK'
  BY PolicyNextType DEF PolicyInv
<1>2. ASSUME NEW p \in Policies, SetCookiePolicy(p), NEW c \in Checks
      PROVE  (Between(c) /\ Justified(c))'
  <2>1. seen'[c] = IF step[c] = "block" THEN seen[c] \cup {p} ELSE seen[c]
    BY <1>2 DEF SetCookiePolicy
  <2>2. policy' = p /\ UNCHANGED <<step, third, allowed>>
    BY <1>2 DEF SetCookiePolicy
  <2>3. Between(c)'
    BY <2>1, <2>2 DEF PolicyInv, Between
  <2>4. Justified(c)'
    BY <2>1, <2>2 DEF PolicyInv, Justified
  <2> QED
    BY <2>3, <2>4
<1>3. ASSUME NEW d \in Checks, GetGlobalAllowAccess(d), NEW c \in Checks
      PROVE  (Between(c) /\ Justified(c))'
  <2>1. CASE c # d
    <3>1. /\ seen'[c] = seen[c] /\ allowed'[c] = allowed[c]
          /\ step'[c] = step[c] /\ third'[c] = third[c] /\ policy' = policy
      BY <1>3, <2>1 DEF GetGlobalAllowAccess, PolicyInv, PolicyTypeOK
    <3> QED
      BY <3>1 DEF PolicyInv, Between, Justified
  <2>2. CASE c = d
    <3>1. /\ seen'[c] = {policy} /\ policy' = policy
          /\ step'[c] = IF policy = "always" THEN "done" ELSE "block"
          /\ allowed'[c] = (policy = "always")
      BY <1>3, <2>2 DEF GetGlobalAllowAccess, PolicyInv, PolicyTypeOK
    <3>2. Between(c)'
      BY <3>1 DEF Between
    <3>3. Justified(c)'
      BY <3>1 DEF Justified, Permits
    <3> QED
      BY <3>2, <3>3
  <2> QED
    BY <2>1, <2>2
<1>4. ASSUME NEW d \in Checks, ShouldBlockThirdPartyCookies(d),
             NEW c \in Checks
      PROVE  (Between(c) /\ Justified(c))'
  <2>1. CASE c # d
    <3>1. /\ seen'[c] = seen[c] /\ allowed'[c] = allowed[c]
          /\ step'[c] = step[c] /\ third'[c] = third[c] /\ policy' = policy
      BY <1>4, <2>1 DEF ShouldBlockThirdPartyCookies, PolicyInv, PolicyTypeOK
    <3> QED
      BY <3>1 DEF PolicyInv, Between, Justified
  <2>2. CASE c = d
    <3>1. /\ step[c] = "block" /\ step'[c] = "done"
          /\ seen'[c] = seen[c] /\ third'[c] = third[c] /\ policy' = policy
          /\ allowed'[c] = (policy = "noThirdParty" /\ ~third[c])
      BY <1>4, <2>2 DEF ShouldBlockThirdPartyCookies, PolicyInv, PolicyTypeOK
    <3>2. policy \in seen[c] /\ \E p \in seen[c] : p # "always"
      BY <3>1 DEF PolicyInv, Between
    <3>3. PICK p \in seen[c] : p # "always"
      BY <3>2
    <3>4. p \in {"never", "noThirdParty"} /\ policy \in Policies
      BY <3>3 DEF PolicyInv, PolicyTypeOK, Policies
    <3>5. CASE allowed'[c]
      BY <3>1, <3>2, <3>5 DEF Justified, Between, Permits
    <3>6. CASE ~allowed'[c]
      <4>1. CASE policy = "always"
        BY <3>1, <3>2, <3>3, <3>4, <3>6, <4>1 DEF Justified, Between, Permits
      <4>2. CASE policy = "never"
        BY <3>1, <3>2, <3>6, <4>2 DEF Justified, Between, Permits
      <4>3. CASE policy = "noThirdParty"
        BY <3>1, <3>2, <3>6, <4>3 DEF Justified, Between, Permits
      <4> QED
        BY <3>4, <4>1, <4>2, <4>3 DEF Policies
    <3> QED
      BY <3>5, <3>6
  <2> QED
    BY <2>1, <2>2
<1>5. ASSUME UNCHANGED policyVars, NEW c \in Checks
      PROVE  (Between(c) /\ Justified(c))'
  BY <1>5 DEF policyVars, PolicyInv, Between, Justified
<1> QED
  BY <1>1, <1>2, <1>3, <1>4, <1>5 DEF PolicyNext, PolicyInv

(***************************************************************************)
(* AllowCookies returns an answer that a policy in force during the check  *)
(* gives, or refuses between "no third party" and "always", for any number *)
(* of checks and changes.                                                  *)
(***************************************************************************)
THEOREM PolicyInForceHolds == PolicySpec => []PolicyInForce
<1>1. PolicyInit => PolicyInv
  BY PolicyInitType DEF PolicyInit, PolicyInv, Between, Justified
<1>2. PolicyInv /\ [PolicyNext]_policyVars => PolicyInv'
  BY PolicyNextInv
<1>3. PolicyInv => PolicyInForce
  BY JustifiedIsPolicyInForce DEF PolicyInv
<1> QED
  BY <1>1, <1>2, <1>3, PTL DEF PolicySpec

-----------------------------------------------------------------------------
(***************************************************************************)
(* The cookie manager.                                                     *)
(***************************************************************************)
CookieTask == Operation \cup [op : {"path"}]

\* What an operation does
Asks(o, f) == o.op = "fetch" /\ o.f = f
Wipes(o, h) == o.op = "delete" /\ h \in Selected(o.url)

\* What a queue of operations holds
Fetching(q, f) == \E i \in DOMAIN q : Asks(q[i], f)
Deleting(q, h) == \E i \in DOMAIN q : Wipes(q[i], h)
NoPath(q) == \A i \in DOMAIN q : q[i].op # "path"

\* Its listings are in the order they were asked
Ascending(q) ==
  \A i, j \in DOMAIN q : i < j /\ q[i].op = "fetch" /\ q[j].op = "fetch" =>
      q[i].f < q[j].f

\* h is deleted before the listing f, of the same store
WipedFirst(q, f, h) ==
  \E i, j \in DOMAIN q : /\ j < i /\ Wipes(q[j], h) /\ Asks(q[i], f)
                         /\ \A l \in j .. i : q[l].op # "path"

\* f asks the store in use
FirstLeg(q, f) ==
  \E i \in DOMAIN q : Asks(q[i], f) /\ \A l \in 1 .. i : q[l].op # "path"

\* h is deleted in the store the last operation asks
DeletesLast(q, h) ==
  \E j \in DOMAIN q : Wipes(q[j], h) /\ \A l \in DOMAIN q : l > j =>
      q[l].op # "path"

\* What putting a task in a queue, taking one and dropping a question do
LEMMA OperationParts ==
  \A o \in Operation : /\ o.op \in {"delete", "fetch", "value"} /\ o \in CookieTask
                       /\ o.op = "fetch" => o.f \in Fetches
                       /\ o.op = "delete" => Selected(o.url) \in SUBSET Cookies
  BY DEF Operation, CookieTask, Selected

LEMMA TaskPut ==
  ASSUME NEW u \in Seq(CookieTask), NEW o \in CookieTask
  PROVE  LET v == Append(u, o) IN
         /\ v \in Seq(CookieTask)
         /\ \A f : Fetching(v, f) <=> Fetching(u, f) \/ Asks(o, f)
         /\ \A h : Deleting(v, h) <=> Deleting(u, h) \/ Wipes(o, h)
         /\ NoPath(v) <=> NoPath(u) /\ o.op # "path"
         /\ Ascending(u) /\ (\A f, e : Asks(o, f) /\ Fetching(u, e) =>
              e < f) => Ascending(v)
         /\ \A f, h : WipedFirst(u, f, h) => WipedFirst(v, f, h)
         /\ \A f : FirstLeg(u, f) => FirstLeg(v, f)
         /\ \A h : DeletesLast(u, h) /\ o.op # "path" => DeletesLast(v, h)
         /\ \A h : Wipes(o, h) => DeletesLast(v, h)
         /\ \A f, h : Asks(o, f) /\ DeletesLast(u, h) => WipedFirst(v, f, h)
         /\ \A f, h : Asks(o, f) /\ NoPath(u) => FirstLeg(v, f)
         /\ \A f, h : Asks(o, f) /\ NoPath(u) /\ Deleting(u, h) =>
              WipedFirst(v, f, h)
<1> DEFINE v == Append(u, o)
<1>1. /\ v \in Seq(CookieTask) /\ Len(u) \in Nat /\ Len(v) = Len(u) + 1
      /\ DOMAIN u = 1 .. Len(u) /\ DOMAIN v = 1 .. Len(u) + 1
      /\ \A i \in 1 .. Len(u) : v[i] = u[i]
      /\ v[Len(u) + 1] = o
  OBVIOUS
<1> HIDE DEF v
<1>2. \A f : Fetching(v, f) <=> Fetching(u, f) \/ Asks(o, f)
  BY <1>1 DEF Fetching
<1>3. \A h : Deleting(v, h) <=> Deleting(u, h) \/ Wipes(o, h)
  BY <1>1 DEF Deleting
<1>4. NoPath(v) <=> NoPath(u) /\ o.op # "path"
  BY <1>1 DEF NoPath
<1>5. ASSUME Ascending(u), \A f, e : Asks(o, f) /\ Fetching(u, e) => e < f
      PROVE  Ascending(v)
  <2> SUFFICES ASSUME NEW i \in DOMAIN v, NEW j \in DOMAIN v, i < j,
                      v[i].op = "fetch", v[j].op = "fetch"
               PROVE  v[i].f < v[j].f
    BY DEF Ascending
  <2>1. CASE j \in DOMAIN u
    BY <1>1, <1>5, <2>1 DEF Ascending
  <2>2. CASE j \notin DOMAIN u
    <3>1. v[j] = o /\ i \in DOMAIN u /\ v[i] = u[i]
      BY <1>1, <2>2
    <3>2. Asks(o, v[j].f) /\ Fetching(u, v[i].f)
      BY <3>1 DEF Asks, Fetching
    <3> QED
      BY <1>5, <3>2
  <2> QED
    BY <2>1, <2>2
<1>6. \A f, h : WipedFirst(u, f, h) => WipedFirst(v, f, h)
  BY <1>1 DEF WipedFirst
<1>7. \A f : FirstLeg(u, f) => FirstLeg(v, f)
  BY <1>1 DEF FirstLeg
<1>8. \A h : DeletesLast(u, h) /\ o.op # "path" => DeletesLast(v, h)
  BY <1>1 DEF DeletesLast
<1>9. \A h : Wipes(o, h) => DeletesLast(v, h)
  BY <1>1 DEF DeletesLast
<1>10. ASSUME NEW f, NEW h, Asks(o, f), DeletesLast(u, h)
       PROVE  WipedFirst(v, f, h)
  <2>1. PICK j \in DOMAIN u : Wipes(u[j], h) /\ \A l \in DOMAIN u : l > j =>
          u[l].op # "path"
    BY <1>10 DEF DeletesLast
  <2>2. \A l \in j .. Len(u) + 1 : v[l].op # "path"
    BY <1>1, <1>10, <2>1 DEF Wipes, Asks
  <2>3. Len(u) + 1 \in DOMAIN v /\ j \in DOMAIN v /\ j < Len(u) + 1
          /\ v[j] = u[j]
    BY <1>1
  <2> QED
    BY <1>1, <1>10, <2>1, <2>2, <2>3 DEF WipedFirst
<1>11. ASSUME NEW f, Asks(o, f), NoPath(u)
       PROVE  FirstLeg(v, f)
  <2>1. \A l \in 1 .. Len(u) + 1 : v[l].op # "path"
    BY <1>1, <1>11 DEF NoPath, Asks
  <2> QED
    BY <1>1, <1>11, <2>1 DEF FirstLeg
<1>12. ASSUME NEW h, NoPath(u), Deleting(u, h)
       PROVE  DeletesLast(u, h)
  BY <1>12 DEF NoPath, Deleting, DeletesLast
<1> QED
  BY <1>1, <1>2, <1>3, <1>4, <1>5, <1>6, <1>7, <1>8, <1>9, <1>10, <1>11, <1>12
     DEF v

LEMMA TaskTake ==
  ASSUME NEW u \in Seq(CookieTask), u # <<>>
  PROVE  LET v == Tail(u)
             o == Head(u) IN
         /\ v \in Seq(CookieTask) /\ o \in CookieTask
         /\ \A f : Fetching(u, f) <=> Fetching(v, f) \/ Asks(o, f)
         /\ \A h : Deleting(u, h) => Deleting(v, h) \/ Wipes(o, h)
         /\ NoPath(u) <=> NoPath(v) /\ o.op # "path"
         /\ Ascending(u) =>
              Ascending(v) /\ \A f, e : Asks(o, f) /\ Fetching(v, e) => f < e
         /\ \A f, h : WipedFirst(u, f, h) =>
              WipedFirst(v, f, h) \/ (Wipes(o, h) /\ FirstLeg(v, f))
         /\ \A f : FirstLeg(u, f) =>
              o.op # "path" /\ (FirstLeg(v, f) \/ Asks(o, f))
         /\ \A h : DeletesLast(u, h) =>
              DeletesLast(v, h) \/ (Wipes(o, h) /\ NoPath(v))
         /\ \A f, h : WipedFirst(u, f, h) => Fetching(v, f)
<1> DEFINE v == Tail(u)
           o == Head(u)
<1>1. /\ v \in Seq(CookieTask) /\ Len(u) \in Nat /\ Len(u) > 0
           /\ Len(v) = Len(u) - 1
      /\ DOMAIN u = 1 .. Len(u) /\ DOMAIN v = 1 .. Len(u) - 1
      /\ \A i \in 1 .. Len(u) - 1 : v[i] = u[i + 1]
      /\ o = u[1] /\ o \in CookieTask
  OBVIOUS
<1> HIDE DEF v, o
<1>2. \A i \in DOMAIN v : i + 1 \in DOMAIN u /\ v[i] = u[i + 1]
  BY <1>1
<1>3. \A i \in DOMAIN u : i = 1 \/ (i - 1 \in DOMAIN v /\ v[i - 1] = u[i])
  BY <1>1
<1>4. 1 \in DOMAIN u /\ o = u[1]
  BY <1>1
<1>5. \A f : Fetching(u, f) <=> Fetching(v, f) \/ Asks(o, f)
  BY <1>2, <1>3, <1>4 DEF Fetching
<1>6. \A h : Deleting(u, h) => Deleting(v, h) \/ Wipes(o, h)
  BY <1>3, <1>4 DEF Deleting
<1>7. NoPath(u) <=> NoPath(v) /\ o.op # "path"
  BY <1>2, <1>3, <1>4 DEF NoPath
<1>8. ASSUME Ascending(u)
      PROVE  Ascending(v) /\ \A f, e : Asks(o, f) /\ Fetching(v, e) => f < e
  <2>1. Ascending(v)
    <3> SUFFICES ASSUME NEW i \in DOMAIN v, NEW j \in DOMAIN v, i < j,
                        v[i].op = "fetch", v[j].op = "fetch"
                 PROVE  v[i].f < v[j].f
      BY DEF Ascending
    <3>1. i + 1 < j + 1
      BY <1>1
    <3> QED
      BY <1>2, <1>8, <3>1 DEF Ascending
  <2>2. ASSUME NEW f, NEW e, Asks(o, f), Fetching(v, e) PROVE f < e
    <3>1. PICK i \in DOMAIN v : Asks(v[i], e)
      BY <2>2 DEF Fetching
    <3>2. i + 1 \in DOMAIN u /\ 1 < i + 1 /\ u[i + 1] = v[i]
      BY <1>1, <1>2
    <3> QED
      BY <1>4, <1>8, <2>2, <3>1, <3>2 DEF Ascending, Asks
  <2> QED
    BY <2>1, <2>2
<1>9. ASSUME NEW f, NEW h, WipedFirst(u, f, h)
      PROVE  /\ WipedFirst(v, f, h) \/ (Wipes(o, h) /\ FirstLeg(v, f))
             /\ Fetching(v, f)
  <2>1. PICK i \in DOMAIN u, j \in DOMAIN u :
             /\ j < i /\ Wipes(u[j], h) /\ Asks(u[i], f)
             /\ \A l \in j .. i : u[l].op # "path"
    BY <1>9 DEF WipedFirst
  <2>2. i - 1 \in DOMAIN v /\ v[i - 1] = u[i]
    BY <1>1, <2>1
  <2>3. \A l \in DOMAIN v : v[l] = u[l + 1] /\ l + 1 \in Nat /\ l \in Nat
    BY <1>1
  <2>4. CASE j = 1
    <3>1. \A l \in 1 .. i - 1 : v[l].op # "path"
      <4> SUFFICES ASSUME NEW l \in 1 .. i - 1 PROVE v[l].op # "path"
        OBVIOUS
      <4>1. l \in DOMAIN v /\ l + 1 \in j .. i
        BY <1>1, <2>1, <2>4
      <4> QED
        BY <2>1, <2>3, <4>1
    <3> QED
      BY <1>4, <2>1, <2>2, <2>4, <3>1 DEF FirstLeg, Fetching
  <2>5. CASE j # 1
    <3>1. j - 1 \in DOMAIN v /\ v[j - 1] = u[j] /\ j - 1 < i - 1
      BY <1>1, <2>1, <2>5
    <3>2. \A l \in j - 1 .. i - 1 : v[l].op # "path"
      <4> SUFFICES ASSUME NEW l \in j - 1 .. i - 1 PROVE v[l].op # "path"
        OBVIOUS
      <4>1. l \in DOMAIN v /\ l + 1 \in j .. i
        BY <1>1, <2>1, <2>5
      <4> QED
        BY <2>1, <2>3, <4>1
    <3> QED
      BY <2>1, <2>2, <3>1, <3>2 DEF WipedFirst, Fetching
  <2> QED
    BY <2>4, <2>5
<1>10. ASSUME NEW f, FirstLeg(u, f)
       PROVE  o.op # "path" /\ (FirstLeg(v, f) \/ Asks(o, f))
  <2>1. PICK i \in DOMAIN u : Asks(u[i], f)
          /\ \A l \in 1 .. i : u[l].op # "path"
    BY <1>10 DEF FirstLeg
  <2>2. o.op # "path"
    BY <1>1, <2>1
  <2>3. CASE i # 1
    <3>1. i - 1 \in DOMAIN v /\ v[i - 1] = u[i]
      BY <1>3, <2>3
    <3>2. \A l \in 1 .. i - 1 : v[l].op # "path"
      <4> SUFFICES ASSUME NEW l \in 1 .. i - 1 PROVE v[l].op # "path"
        OBVIOUS
      <4>1. l \in DOMAIN v /\ l + 1 \in 1 .. i
        BY <1>1, <2>1
      <4> QED
        BY <1>2, <2>1, <4>1
    <3> QED
      BY <2>1, <2>2, <3>1, <3>2 DEF FirstLeg
  <2> QED
    BY <1>4, <2>1, <2>2, <2>3
<1>11. ASSUME NEW h, DeletesLast(u, h)
       PROVE  DeletesLast(v, h) \/ (Wipes(o, h) /\ NoPath(v))
  <2>1. PICK j \in DOMAIN u : Wipes(u[j], h) /\ \A l \in DOMAIN u : l > j =>
          u[l].op # "path"
    BY <1>11 DEF DeletesLast
  <2>2. \A l \in DOMAIN v : l + 1 > j => v[l].op # "path"
    BY <1>2, <2>1
  <2>3. CASE j = 1
    BY <1>1, <1>4, <2>1, <2>2, <2>3 DEF NoPath
  <2>4. CASE j # 1
    <3>1. j - 1 \in DOMAIN v /\ v[j - 1] = u[j]
      BY <1>3, <2>4
    <3>2. \A l \in DOMAIN v : l > j - 1 => v[l].op # "path"
      BY <1>1, <2>2
    <3> QED
      BY <2>1, <3>1, <3>2 DEF DeletesLast
  <2> QED
    BY <2>3, <2>4
<1> QED
  BY <1>1, <1>5, <1>6, <1>7, <1>8, <1>9, <1>10, <1>11 DEF v, o

LEMMA TaskDrop ==
  ASSUME NEW u \in Seq(Operation), NEW k \in DOMAIN u, u[k].op = "value"
  PROVE  LET v == SubSeq(u, 1, k - 1) \o SubSeq(u, k + 1, Len(u)) IN
         /\ v \in Seq(Operation) /\ u # <<>>
         /\ \A f : Fetching(v, f) <=> Fetching(u, f)
         /\ \A h : Deleting(u, h) => Deleting(v, h)
         /\ Ascending(u) => Ascending(v)
         /\ \A f, h : WipedFirst(u, f, h) => WipedFirst(v, f, h)
<1> DEFINE v == SubSeq(u, 1, k - 1) \o SubSeq(u, k + 1, Len(u))
<1>1. Len(u) \in Nat /\ DOMAIN u = 1 .. Len(u) /\ u # <<>>
        /\ \A i \in 1 .. Len(u) : u[i] \in Operation
  BY ElementOfSeq
<1>2. /\ v \in Seq(Operation) /\ Len(v) = Len(u) - 1
      /\ \A i \in 1 .. Len(v) : v[i] = IF i < k THEN u[i] ELSE u[i + 1]
  <2> DEFINE a == SubSeq(u, 1, k - 1)
             b == SubSeq(u, k + 1, Len(u))
  <2>1. /\ a \in Seq(Operation) /\ Len(a) = k - 1
             /\ \A i \in 1 .. k - 1 : a[i] = u[i]
    BY <1>1, SubSeqProperties
  <2>2. /\ b \in Seq(Operation) /\ Len(b) = Len(u) - k
        /\ \A i \in 1 .. Len(u) - k : b[i] = u[k + i]
    BY <1>1, SubSeqProperties
  <2> HIDE DEF a, b
  <2>3. /\ a \o b \in Seq(Operation) /\ Len(a \o b) = Len(u) - 1
        /\ \A i \in 1 .. Len(a) + Len(b) :
             (a \o b)[i] = IF i <= Len(a) THEN a[i] ELSE b[i - Len(a)]
    <3>1. /\ a \o b \in Seq(Operation) /\ Len(a \o b) = Len(a) + Len(b)
          /\ \A i \in 1 .. Len(a) + Len(b) :
               (a \o b)[i] = IF i <= Len(a) THEN a[i] ELSE b[i - Len(a)]
      BY <2>1, <2>2, ConcatProperties
    <3>2. Len(a) + Len(b) = Len(u) - 1
      BY <1>1, <2>1, <2>2
    <3> QED
      BY <3>1, <3>2
  <2>4. \A i \in 1 .. Len(u) - 1 :
          (a \o b)[i] = IF i < k THEN u[i] ELSE u[i + 1]
    <3> SUFFICES ASSUME NEW i \in 1 .. Len(u) - 1
                 PROVE  (a \o b)[i] = IF i < k THEN u[i] ELSE u[i + 1]
      OBVIOUS
    <3>1. CASE i < k
      BY <1>1, <2>1, <2>2, <2>3, <3>1
    <3>2. CASE ~(i < k)
      <4>1. i - (k - 1) \in 1 .. Len(u) - k /\ k + (i - (k - 1)) = i + 1
        BY <1>1, <3>2
      <4>2. i \in 1 .. Len(a) + Len(b) /\ ~(i <= Len(a))
              /\ i - Len(a) = i - (k - 1)
        BY <1>1, <2>1, <2>2, <3>2
      <4>3. (a \o b)[i] = b[i - (k - 1)]
        BY <2>3, <4>2
      <4> QED
        BY <2>2, <3>2, <4>1, <4>3
    <3> QED
      BY <3>1, <3>2
  <2> QED
    BY <1>1, <2>3, <2>4 DEF a, b
<1> HIDE DEF v
<1>3. DOMAIN v = 1 .. Len(u) - 1
  BY <1>1, <1>2
<1>4. PICK fore : fore = [i \in DOMAIN v |-> IF i < k THEN i ELSE i + 1]
  OBVIOUS
<1>5. PICK back : back = [i \in DOMAIN u |-> IF i < k THEN i ELSE i - 1]
  OBVIOUS
<1>6. /\ \A i \in DOMAIN v : fore[i] \in DOMAIN u /\ fore[i] \in Int
           /\ v[i] = u[fore[i]]
      /\ \A i, j \in DOMAIN v : i < j => fore[i] < fore[j]
  BY <1>1, <1>2, <1>3, <1>4
<1>7. /\ \A i \in DOMAIN u : i # k =>
           back[i] \in DOMAIN v /\ back[i] \in Int /\ v[back[i]] = u[i]
      /\ \A i, j \in DOMAIN u : i # k /\ j # k /\ i < j => back[i] < back[j]
  BY <1>1, <1>2, <1>3, <1>5
<1>8. \A f, h : ~Asks(u[k], f) /\ ~Wipes(u[k], h)
  BY DEF Asks, Wipes
<1>9. \A f : Fetching(v, f) <=> Fetching(u, f)
  BY <1>6, <1>7, <1>8 DEF Fetching
<1>10. \A h : Deleting(u, h) => Deleting(v, h)
  BY <1>7, <1>8 DEF Deleting
<1>11. Ascending(u) => Ascending(v)
  BY <1>6 DEF Ascending
<1>12. ASSUME NEW f, NEW h, WipedFirst(u, f, h) PROVE WipedFirst(v, f, h)
  <2>1. PICK i \in DOMAIN u, j \in DOMAIN u : j < i /\ Wipes(u[j], h)
          /\ Asks(u[i], f)
    BY <1>12 DEF WipedFirst
  <2>2. i # k /\ j # k
    BY <1>8, <2>1
  <2>3. back[i] \in DOMAIN v /\ back[j] \in DOMAIN v /\ back[j] < back[i]
          /\ Wipes(v[back[j]], h) /\ Asks(v[back[i]], f)
    BY <1>7, <2>1, <2>2
  <2>4. \A l \in DOMAIN v : v[l].op # "path"
    BY <1>1, <1>6, OperationParts
  <2>5. \A l \in back[j] .. back[i] : v[l].op # "path"
    BY <1>3, <2>3, <2>4
  <2> QED
    BY <2>3, <2>5 DEF WipedFirst
<1> QED
  BY <1>1, <1>2, <1>9, <1>10, <1>11, <1>12 DEF v

-----------------------------------------------------------------------------
\* The changes of path under way fit in the stores there are
Ranked ==
  /\ store <= paths
  /\ \E r : \A i \in DOMAIN cookieTasks : cookieTasks[i].op = "path" =>
        /\ r[i] \in store + 1 .. paths
        /\ \A j \in DOMAIN cookieTasks : j < i /\ cookieTasks[j].op = "path" =>
             r[j] < r[i]

\* Each step keeps the types, and the stores their numbers
LEMMA CookieNumbers ==
  /\ MaxFetches \in Nat /\ MaxPaths \in Nat /\ MaxCookieCalls \in Nat
  /\ Fetches \subseteq Nat /\ Stores \subseteq Nat /\ 0 \notin Fetches
       /\ 0 \in Stores
  BY CookieAssumption DEF Fetches, Stores

LEMMA CookieTypes ==
  ASSUME CookiesTypeOK
  PROVE  /\ cookieTasks \in Seq(CookieTask) /\ listings \in Seq(Fetches)
              /\ callbacks \in Seq(Fetches)
         /\ \A s \in Stores : held[s] \in Seq(Operation)
              /\ held[s] \in Seq(CookieTask)
         /\ fetches \in Nat /\ store \in Stores /\ store \in Nat
              /\ paths \in Nat
<1>1. /\ cookieTasks \in Seq(CookieTask) /\ listings \in Seq(Fetches)
           /\ callbacks \in Seq(Fetches)
      /\ \A s \in Stores : held[s] \in Seq(Operation)
      /\ fetches \in Nat /\ store \in Stores /\ store \in Nat /\ paths \in Nat
  BY CookieNumbers DEF CookiesTypeOK, CookieTask
<1>2. \A q \in Seq(Operation) : q \in Seq(CookieTask)
  BY DEF CookieTask
<1> QED
  BY <1>1, <1>2

LEMMA CookiesInitType == CookiesInit => CookiesTypeOK /\ Ranked
<1> SUFFICES ASSUME CookiesInit PROVE CookiesTypeOK /\ Ranked
  OBVIOUS
<1>1. \A S : <<>> \in Seq(S)
  OBVIOUS
<1>2. [s \in Stores |-> s = 0] \in [Stores -> BOOLEAN]
  <2>1. \A s \in Stores : (s = 0) \in BOOLEAN
    OBVIOUS
  <2> QED
    BY <2>1
<1>3. CookiesTypeOK
  <2>1. /\ calls \in 0..MaxCookieCalls /\ fetches \in 0..MaxFetches
             /\ paths \in 0..MaxPaths
        /\ store \in Stores /\ 0 \in 0..MaxFetches
    BY CookieNumbers DEF CookiesInit
  <2> QED
    BY <1>1, <1>2, <2>1, CookieNumbers DEF CookiesInit, CookiesTypeOK
<1>4. DOMAIN cookieTasks = {}
  BY DEF CookiesInit
<1>5. Ranked
  BY <1>4 DEF Ranked, CookiesInit
<1> QED
  BY <1>3, <1>5

LEMMA TaskAppendType ==
  ASSUME CookiesTypeOK, NEW o \in CookieTask
  PROVE  Append(cookieTasks, o) \in Seq(Operation \cup [op : {"path"}])
  BY TaskPut, CookieTypes DEF CookieTask

LEMMA ExecuteType ==
  ASSUME CookiesTypeOK, NEW s \in Stores, NEW o \in Operation, Execute(s, o)
  PROVE  /\ jar' \in [Stores -> SUBSET Cookies] /\ listings' \in Seq(Fetches)
         /\ result' \in [Fetches -> SUBSET Cookies] /\ waiting' \in BOOLEAN
<1>1. /\ jar \in [Stores -> SUBSET Cookies]
           /\ result \in [Fetches -> SUBSET Cookies]
      /\ listings \in Seq(Fetches)
  BY DEF CookiesTypeOK
<1>2. jar' \in [Stores -> SUBSET Cookies]
  BY <1>1 DEF Execute
<1>3. result' \in [Fetches -> SUBSET Cookies]
  BY <1>1 DEF Execute
<1>4. listings' \in Seq(Fetches)
  <2>1. o.op = "fetch" => Append(listings, o.f) \in Seq(Fetches)
    BY <1>1, OperationParts
  <2> QED
    BY <1>1, <2>1 DEF Execute
<1>5. waiting' \in BOOLEAN
  BY DEF Execute
<1> QED
  BY <1>2, <1>3, <1>4, <1>5

LEMMA CookiesNextType ==
  ASSUME CookiesTypeOK, Ranked, [CookiesNext]_cookiesVars
  PROVE  CookiesTypeOK'
<1> USE CookieTypes
<1>1. ASSUME NEW url \in Urls, DeleteCookies(url) PROVE CookiesTypeOK'
  <2>1. [op |-> "delete", url |-> url] \in CookieTask
    BY DEF CookieTask, Operation
  <2>2. cookieTasks' \in Seq(Operation \cup [op : {"path"}])
    BY <1>1, <2>1, TaskAppendType DEF DeleteCookies
  <2>3. calls' \in 0..MaxCookieCalls
    BY <1>1, CookieNumbers DEF DeleteCookies, AppCalls, CookiesTypeOK
  <2> QED
    BY <1>1, <2>2, <2>3 DEF DeleteCookies, CookiesTypeOK, stores, Selected
<1>2. CASE GetHostNamesWithCookies
  <2>1. fetches + 1 \in Fetches /\ fetches + 1 \in 0..MaxFetches
    BY <1>2, CookieNumbers DEF GetHostNamesWithCookies, CookiesTypeOK, Fetches
  <2>2. [op |-> "fetch", f |-> fetches + 1] \in CookieTask
    BY <2>1 DEF CookieTask, Operation
  <2>3. cookieTasks' \in Seq(Operation \cup [op : {"path"}])
    BY <1>2, <2>2, TaskAppendType DEF GetHostNamesWithCookies
  <2>4. callbacks' \in Seq(Fetches)
    BY <1>2, <2>1 DEF GetHostNamesWithCookies
  <2>5. absent' \in [Fetches -> SUBSET Cookies]
    BY <1>2 DEF GetHostNamesWithCookies, CookiesTypeOK
  <2> QED
    BY <1>2, <2>1, <2>3, <2>4, <2>5
       DEF GetHostNamesWithCookies, CookiesTypeOK, stores
<1>3. CASE SetStoragePath
  <2>1. [op |-> "path"] \in CookieTask
    BY DEF CookieTask
  <2>2. cookieTasks' \in Seq(Operation \cup [op : {"path"}])
    BY <1>3, <2>1, TaskAppendType DEF SetStoragePath
  <2>3. paths' \in 0..MaxPaths
    BY <1>3, CookieNumbers DEF SetStoragePath, CookiesTypeOK
  <2> QED
    BY <1>3, <2>2, <2>3 DEF SetStoragePath, CookiesTypeOK, stores
<1>4. CASE GetCookiesForURL
  <2>1. [op |-> "value"] \in CookieTask
    BY DEF CookieTask, Operation
  <2>2. cookieTasks' \in Seq(Operation \cup [op : {"path"}])
    BY <1>4, <2>1, TaskAppendType DEF GetCookiesForURL
  <2>3. calls' \in 0..MaxCookieCalls
    BY <1>4, CookieNumbers DEF GetCookiesForURL, AppCalls, CookiesTypeOK
  <2> QED
    BY <1>4, <2>2, <2>3 DEF GetCookiesForURL, CookiesTypeOK, stores, history
<1>5. CASE OnFetchComplete
  <2>1. listings # <<>> /\ Tail(listings) \in Seq(Fetches)
          /\ Head(listings) \in Fetches
    BY <1>5 DEF OnFetchComplete
  <2>2. Head(listings) \in 0..MaxFetches
    BY <2>1, CookieNumbers DEF Fetches
  <2>3. callbacks # <<>> => Tail(callbacks) \in Seq(Fetches)
    OBVIOUS
  <2>4. callbacks' \in Seq(Fetches) /\ got' \in [Fetches -> 0..MaxFetches]
    BY <1>5, <2>2, <2>3 DEF OnFetchComplete, CookiesTypeOK
  <2> QED
    BY <1>5, <2>1, <2>4 DEF OnFetchComplete, CookiesTypeOK, stores
<1>6. CASE AskStore
  <2>1. /\ cookieTasks # <<>> /\ Head(cookieTasks) \in CookieTask
             /\ Head(cookieTasks).op # "path"
        /\ Tail(cookieTasks) \in Seq(CookieTask)
    BY <1>6, TaskTake DEF AskStore
  <2>2. PICK o \in Operation : o = Head(cookieTasks)
    BY <2>1 DEF CookieTask
  <2>3. usedStore' \in [Fetches -> Stores]
    BY <1>6, <2>2 DEF AskStore, CookiesTypeOK
  <2>4. /\ jar' \in [Stores -> SUBSET Cookies] /\ listings' \in Seq(Fetches)
        /\ result' \in [Fetches -> SUBSET Cookies] /\ waiting' \in BOOLEAN
        /\ held' \in [Stores -> Seq(Operation)]
    <3>1. CASE loaded[store] /\ held[store] = <<>>
      BY <1>6, <2>2, <3>1, ExecuteType DEF AskStore, CookiesTypeOK
    <3>2. CASE ~(loaded[store] /\ held[store] = <<>>)
      <4>1. Append(held[store], o) \in Seq(Operation)
        BY <2>2
      <4> QED
        BY <1>6, <2>2, <3>2, <4>1 DEF AskStore, CookiesTypeOK
    <3> QED
      BY <3>1, <3>2
  <2> QED
    BY <1>6, <2>1, <2>3, <2>4 DEF AskStore, CookiesTypeOK, CookieTask
<1>7. CASE ChangeStore
  <2>1. /\ cookieTasks # <<>> /\ Tail(cookieTasks) \in Seq(CookieTask)
        /\ Head(cookieTasks).op = "path"
    BY <1>7, TaskTake DEF ChangeStore
  <2>2. store + 1 \in Stores
    <3>1. 1 \in DOMAIN cookieTasks /\ cookieTasks[1].op = "path"
      BY <2>1
    <3>2. PICK r : r[1] \in store + 1 .. paths
      BY <3>1 DEF Ranked
    <3> QED
      BY <3>2, CookieNumbers DEF CookiesTypeOK, Stores
  <2>3. jar' \in [Stores -> SUBSET Cookies] /\ store' \in Stores
    <3>1. CASE store' = store /\ jar' = jar
      BY <3>1 DEF CookiesTypeOK
    <3>2. CASE store' = store + 1 /\ \E C \in SUBSET Cookies :
                 jar' = [jar EXCEPT ![store + 1] = C]
      <4>1. PICK C \in SUBSET Cookies : jar' = [jar EXCEPT ![store + 1] = C]
        BY <3>2
      <4> QED
        BY <2>2, <3>2, <4>1 DEF CookiesTypeOK
    <3> QED
      BY <1>7, <3>1, <3>2 DEF ChangeStore
  <2> QED
    BY <1>7, <2>1, <2>3 DEF ChangeStore, CookiesTypeOK, CookieTask, history
<1>8. ASSUME NEW s \in Stores, StoreLoads(s) PROVE CookiesTypeOK'
  BY <1>8 DEF StoreLoads, CookiesTypeOK, history
<1>9. ASSUME NEW s \in Stores, RunHeld(s) PROVE CookiesTypeOK'
  <2>1. Head(held[s]) \in Operation /\ Tail(held[s]) \in Seq(Operation)
    BY <1>9 DEF RunHeld
  <2>2. /\ jar' \in [Stores -> SUBSET Cookies] /\ listings' \in Seq(Fetches)
        /\ result' \in [Fetches -> SUBSET Cookies] /\ waiting' \in BOOLEAN
    BY <1>9, <2>1, ExecuteType DEF RunHeld
  <2>3. held' \in [Stores -> Seq(Operation)]
    BY <1>9, <2>1 DEF RunHeld, CookiesTypeOK
  <2> QED
    BY <1>9, <2>2, <2>3 DEF RunHeld, CookiesTypeOK
<1>10. ASSUME NEW s \in Stores, HostLoads(s) PROVE CookiesTypeOK'
  <2>1. PICK i \in DOMAIN held[s] :
          /\ held[s][i].op = "value"
          /\ held' = [held EXCEPT ![s] = SubSeq(@, 1, i - 1) \o SubSeq(@, i + 1, Len(@))]
    BY <1>10 DEF HostLoads
  <2>2. SubSeq(held[s], 1, i - 1) \o SubSeq(held[s], i + 1, Len(held[s])) \in Seq(Operation)
    BY <2>1, TaskDrop
  <2>3. held' \in [Stores -> Seq(Operation)]
    BY <2>1, <2>2 DEF CookiesTypeOK
  <2> QED
    BY <1>10, <2>3 DEF HostLoads, CookiesTypeOK, history
<1>11. ASSUME NEW c \in Cookies, CookieSet(c) PROVE CookiesTypeOK'
  <2>1. jar' \in [Stores -> SUBSET Cookies]
          /\ absent' \in [Fetches -> SUBSET Cookies] /\ deleted' \in SUBSET Cookies
    BY <1>11 DEF CookieSet, CookiesTypeOK
  <2> QED
    BY <1>11, <2>1 DEF CookieSet, CookiesTypeOK
<1>12. CASE UNCHANGED cookiesVars
  BY <1>12 DEF cookiesVars, stores, history, CookiesTypeOK
<1>13. CASE DeleteNothing
  <2>1. Tail(cookieTasks) \in Seq(CookieTask)
    BY <1>13, TaskTake DEF DeleteNothing
  <2> QED
    BY <1>13, <2>1 DEF DeleteNothing, CookiesTypeOK, CookieTask, stores, history
<1> QED
  BY <1>1, <1>2, <1>3, <1>4, <1>5, <1>6, <1>7, <1>8, <1>9, <1>10, <1>11,
     <1>12, <1>13
     DEF CookiesNext, UiCall, IoTask, StoreTask

LEMMA CookiesNextRanked ==
  ASSUME CookiesTypeOK, Ranked, [CookiesNext]_cookiesVars
  PROVE  Ranked'
<1> USE CookieTypes
<1>1. PICK r : \A i \in DOMAIN cookieTasks : cookieTasks[i].op = "path" =>
           /\ r[i] \in store + 1 .. paths
           /\ \A j \in DOMAIN cookieTasks : j < i
                /\ cookieTasks[j].op = "path" => r[j] < r[i]
  BY DEF Ranked
<1>2. /\ Len(cookieTasks) \in Nat /\ DOMAIN cookieTasks = 1 .. Len(cookieTasks)
      /\ \A o \in CookieTask : /\ DOMAIN Append(cookieTasks, o) = 1 .. Len(cookieTasks) + 1
                         /\ \A i \in 1 .. Len(cookieTasks) :
                              Append(cookieTasks, o)[i] = cookieTasks[i]
                         /\ Append(cookieTasks, o)[Len(cookieTasks) + 1] = o
  OBVIOUS
<1>3. ASSUME NEW o \in CookieTask, o.op # "path",
             cookieTasks' = Append(cookieTasks, o),
             store' = store, paths' = paths
      PROVE  Ranked'
  <2>1. \A i \in DOMAIN cookieTasks' : cookieTasks'[i].op = "path" =>
           /\ r[i] \in store' + 1 .. paths'
           /\ \A j \in DOMAIN cookieTasks' : j < i
                /\ cookieTasks'[j].op = "path" => r[j] < r[i]
    BY <1>1, <1>2, <1>3
  <2> QED
    BY <1>3, <2>1 DEF Ranked
<1>4. ASSUME cookieTasks # <<>>, cookieTasks' = Tail(cookieTasks),
             paths' = paths,
             \/ store' = store
             \/ store' = store + 1 /\ Head(cookieTasks).op = "path"
      PROVE  Ranked'
  <2>1. /\ DOMAIN cookieTasks' = 1 .. Len(cookieTasks) - 1
        /\ \A i \in DOMAIN cookieTasks' : cookieTasks'[i] = cookieTasks[i + 1]
             /\ i + 1 \in DOMAIN cookieTasks
        /\ 1 \in DOMAIN cookieTasks /\ Head(cookieTasks) = cookieTasks[1]
    BY <1>4
  <2>2. PICK p : p = [i \in DOMAIN cookieTasks' |-> r[i + 1]]
    OBVIOUS
  <2>3. ASSUME NEW i \in DOMAIN cookieTasks', cookieTasks'[i].op = "path"
        PROVE  /\ p[i] \in store' + 1 .. paths'
               /\ \A j \in DOMAIN cookieTasks' : j < i
                    /\ cookieTasks'[j].op = "path" => p[j] < p[i]
    <3>1. p[i] = r[i + 1] /\ cookieTasks[i + 1].op = "path"
            /\ i + 1 \in DOMAIN cookieTasks /\ i \in Nat /\ 1 < i + 1
      BY <2>1, <2>2, <2>3
    <3>2. p[i] \in store + 1 .. paths
      BY <1>1, <3>1
    <3>3. store' = store + 1 => r[1] \in store + 1 .. paths /\ r[1] < p[i]
      BY <1>1, <1>4, <2>1, <3>1
    <3>4. p[i] \in store' + 1 .. paths'
      BY <1>4, <3>2, <3>3
    <3>5. ASSUME NEW j \in DOMAIN cookieTasks', j < i,
                 cookieTasks'[j].op = "path"
          PROVE  p[j] < p[i]
      <4>1. j + 1 \in DOMAIN cookieTasks /\ j + 1 < i + 1
              /\ cookieTasks[j + 1].op = "path" /\ p[j] = r[j + 1]
        BY <2>1, <2>2, <3>5
      <4> QED
        BY <1>1, <3>1, <4>1
    <3> QED
      BY <3>4, <3>5
  <2>4. store' <= paths'
    <3>1. Head(cookieTasks).op = "path" => r[1] \in store + 1 .. paths
      BY <1>1, <2>1
    <3> QED
      BY <1>4, <3>1 DEF Ranked
  <2> QED
    BY <2>3, <2>4 DEF Ranked
<1>5. ASSUME NEW url \in Urls, DeleteCookies(url) PROVE Ranked'
  <2>1. PICK o : o = [op |-> "delete", url |-> url]
    OBVIOUS
  <2>2. o \in CookieTask /\ o.op # "path"
    BY <2>1 DEF CookieTask, Operation
  <2> QED
    BY <1>3, <1>5, <2>1, <2>2 DEF DeleteCookies, stores
<1>6. CASE GetHostNamesWithCookies
  <2>1. PICK o : o = [op |-> "fetch", f |-> fetches + 1]
    OBVIOUS
  <2>2. fetches + 1 \in Fetches
    BY <1>6, CookieNumbers DEF GetHostNamesWithCookies, CookiesTypeOK, Fetches
  <2>3. o \in CookieTask /\ o.op # "path"
    BY <2>1, <2>2 DEF CookieTask, Operation
  <2> QED
    BY <1>3, <1>6, <2>1, <2>3 DEF GetHostNamesWithCookies, stores
<1>7. CASE GetCookiesForURL
  <2>1. PICK o : o = [op |-> "value"]
    OBVIOUS
  <2>2. o \in CookieTask /\ o.op # "path"
    BY <2>1 DEF CookieTask, Operation
  <2> QED
    BY <1>3, <1>7, <2>1, <2>2 DEF GetCookiesForURL, stores
<1>8. CASE SetStoragePath
  <2>1. PICK o : o = [op |-> "path"]
    OBVIOUS
  <2>2. o \in CookieTask /\ paths' = paths + 1 /\ store' = store
          /\ cookieTasks' = Append(cookieTasks, o)
    BY <1>8, <2>1 DEF CookieTask, SetStoragePath, stores
  <2>3. PICK p : p = [i \in 1 .. Len(cookieTasks) + 1 |->
                        IF i = Len(cookieTasks) + 1 THEN paths + 1 ELSE r[i]]
    OBVIOUS
  <2>4. ASSUME NEW i \in DOMAIN cookieTasks', cookieTasks'[i].op = "path"
        PROVE  /\ p[i] \in store' + 1 .. paths'
               /\ \A j \in DOMAIN cookieTasks' : j < i
                    /\ cookieTasks'[j].op = "path" => p[j] < p[i]
    <3>1. CASE i \in DOMAIN cookieTasks
      <4>1. p[i] = r[i] /\ cookieTasks[i].op = "path"
              /\ \A j \in DOMAIN cookieTasks' : j < i =>
              j \in DOMAIN cookieTasks /\ p[j] = r[j]
                  /\ cookieTasks'[j] = cookieTasks[j]
        BY <1>2, <2>2, <2>3, <2>4, <3>1
      <4>2. r[i] \in store + 1 .. paths
        BY <1>1, <3>1, <4>1
      <4> QED
        BY <1>1, <2>2, <3>1, <4>1, <4>2
    <3>2. CASE i \notin DOMAIN cookieTasks
      <4>1. i = Len(cookieTasks) + 1 /\ p[i] = paths + 1
        BY <1>2, <2>2, <2>3, <3>2
      <4>2. p[i] \in store' + 1 .. paths'
        BY <2>2, <4>1 DEF Ranked
      <4>3. ASSUME NEW j \in DOMAIN cookieTasks', j < i,
                   cookieTasks'[j].op = "path"
            PROVE  p[j] < p[i]
        <5>1. j \in DOMAIN cookieTasks /\ p[j] = r[j]
                /\ cookieTasks[j].op = "path"
          BY <1>2, <2>2, <2>3, <4>1, <4>3
        <5>2. r[j] \in store + 1 .. paths
          BY <1>1, <5>1
        <5> QED
          BY <4>1, <5>1, <5>2
      <4> QED
        BY <4>2, <4>3
    <3> QED
      BY <3>1, <3>2
  <2>5. store' <= paths'
    BY <2>2 DEF Ranked
  <2> QED
    BY <2>4, <2>5 DEF Ranked
<1>9. CASE AskStore
  BY <1>4, <1>9 DEF AskStore
<1>10. CASE ChangeStore
  BY <1>4, <1>10 DEF ChangeStore
<1>11. CASE \/ OnFetchComplete \/ UNCHANGED cookiesVars
            \/ \E s \in Stores : StoreTask(s)
            \/ \E c \in Cookies : CookieSet(c)
  <2>1. cookieTasks' = cookieTasks /\ store' = store /\ paths' = paths
    BY <1>11
       DEF OnFetchComplete, cookiesVars, StoreTask, StoreLoads, RunHeld,
           HostLoads, CookieSet, stores
  <2> QED
    BY <2>1 DEF Ranked
<1>12. CASE DeleteNothing
  BY <1>4, <1>12 DEF DeleteNothing, stores
<1> QED
  BY <1>5, <1>6, <1>7, <1>8, <1>9, <1>10, <1>11, <1>12
     DEF CookiesNext, UiCall, IoTask

-----------------------------------------------------------------------------
\* The listings in the order they were made: those their callbacks received,
\* then those that wait on the UI thread
Answered == fetches - Len(callbacks)
Line ==
  [n \in 1 .. Answered + Len(listings) |-> IF n <= Answered THEN got[n] ELSE listings[n - Answered]]
Listed(f) == \E i \in DOMAIN Line : Line[i] = f

\* The callbacks are called in the order of their calls
Callbacks ==
  /\ Len(callbacks) <= fetches
  /\ \A i \in DOMAIN callbacks : callbacks[i] = Answered + i
  /\ \A f \in Fetches : got[f] # 0 <=> f <= Answered

\* Where the listing f is: it is in one place, and in the store it asked
Placed(f) ==
  /\ Fetching(cookieTasks, f) => f <= fetches /\ ~Listed(f)
  /\ \A s \in Stores : Fetching(held[s], f) =>
       f <= fetches /\ usedStore[f] = s /\ ~Listed(f)
           /\ ~Fetching(cookieTasks, f)
  /\ Listed(f) => f <= fetches
  /\ f <= fetches => \/ Fetching(cookieTasks, f) \/ Listed(f)
                     \/ \E s \in Stores : Fetching(held[s], f)

\* A listing overtakes only those of other stores
Overtakes ==
  \A n \in DOMAIN Line : \A e \in Fetches :
     e < Line[n] /\ (\A m \in DOMAIN Line : m < n => Line[m] # e) =>
         usedStore[e] # usedStore[Line[n]]

InLine ==
  /\ \A i, j \in DOMAIN Line : Line[i] = Line[j] => i = j
  /\ Overtakes
  /\ \A e, f \in Fetches : Fetching(cookieTasks, f) /\ e <= fetches
       /\ ~Fetching(cookieTasks, e) => e < f

InQueues ==
  /\ Ascending(cookieTasks)
  /\ \A s \in Stores : Ascending(held[s]) /\ (held[s] # <<>> => s <= store)

(***************************************************************************)
(* The first inductive invariant: callbacks are called in the order of     *)
(* their calls, each listing is in one place, and one is made before an    *)
(* earlier one only when they asked different stores.                      *)
(***************************************************************************)
OrderInv == CookiesTypeOK /\ Callbacks /\ InLine /\ InQueues
    /\ \A f \in Fetches : Placed(f)

\* What Line is, and what it becomes when a listing is posted
LEMMA LineType ==
  ASSUME CookiesTypeOK, Callbacks
  PROVE  /\ Answered \in Nat /\ Answered <= fetches
         /\ Line \in [1 .. Answered + Len(listings) -> Fetches]
<1>1. Len(callbacks) \in Nat /\ fetches \in Nat /\ fetches <= MaxFetches
        /\ Len(listings) \in Nat
  BY CookieTypes, CookieNumbers DEF CookiesTypeOK
<1>2. Answered \in Nat /\ Answered <= fetches
  BY <1>1 DEF Callbacks, Answered
<1>3. ASSUME NEW n \in 1 .. Answered + Len(listings)
      PROVE  (IF n <= Answered THEN got[n] ELSE listings[n - Answered]) \in Fetches
  <2>1. CASE n <= Answered
    <3>1. n \in Fetches
      BY <1>1, <1>2, <1>3, <2>1, CookieNumbers DEF Fetches
    <3>2. got[n] \in 0 .. MaxFetches /\ got[n] # 0
      BY <2>1, <3>1 DEF CookiesTypeOK, Callbacks
    <3> QED
      BY <2>1, <3>2, CookieNumbers DEF Fetches
  <2>2. CASE ~(n <= Answered)
    <3>1. n - Answered \in 1 .. Len(listings)
      BY <1>1, <1>2, <1>3, <2>2
    <3> QED
      BY <2>2, <3>1, CookieTypes, ElementOfSeq
  <2> QED
    BY <2>1, <2>2
<1> QED
  BY <1>2, <1>3 DEF Line

LEMMA LineSame ==
  ASSUME Answered' = Answered, listings' = listings, got' = got
  PROVE  Line' = Line
  BY DEF Line

LEMMA LineExtended ==
  ASSUME CookiesTypeOK, Callbacks, Answered' = Answered, got' = got,
         NEW f \in Fetches,
         listings' = Append(listings, f)
  PROVE  \E L \in Nat :
           /\ DOMAIN Line = 1 .. L /\ DOMAIN Line' = 1 .. L + 1
           /\ \A i \in 1 .. L : Line'[i] = Line[i]
           /\ Line'[L + 1] = f
<1>1. Answered \in Nat /\ listings \in Seq(Fetches)
  BY LineType, CookieTypes
<1>2. PICK L \in Nat : L = Answered + Len(listings)
  BY <1>1
<1>3. /\ Len(listings) \in Nat /\ Len(listings') = Len(listings) + 1
      /\ \A i \in 1 .. Len(listings) : listings'[i] = listings[i]
      /\ listings'[Len(listings) + 1] = f
  BY <1>1
<1>4. DOMAIN Line = 1 .. L /\ DOMAIN Line' = 1 .. L + 1
  BY <1>1, <1>2, <1>3 DEF Line
<1>5. ASSUME NEW i \in 1 .. L PROVE Line'[i] = Line[i]
  <2>1. /\ Line[i] = IF i <= Answered THEN got[i] ELSE listings[i - Answered]
        /\ Line'[i] = IF i <= Answered THEN got[i] ELSE listings'[i - Answered]
    BY <1>2, <1>3, <1>1 DEF Line
  <2>2. ~(i <= Answered) => i - Answered \in 1 .. Len(listings)
    BY <1>1, <1>2
  <2> QED
    BY <1>3, <2>1, <2>2
<1>6. Line'[L + 1] = f
  <2>1. Line'[L + 1] = IF L + 1 <= Answered THEN got[L + 1] ELSE listings'[L + 1 - Answered]
    BY <1>2, <1>3, <1>1 DEF Line
  <2>2. ~(L + 1 <= Answered) /\ L + 1 - Answered = Len(listings) + 1
    BY <1>1, <1>2, <1>3
  <2> QED
    BY <1>3, <2>1, <2>2
<1> QED
  BY <1>4, <1>5, <1>6

\* No more listings are made than were asked
LEMMA LineShort ==
  ASSUME OrderInv
  PROVE  Answered + Len(listings) <= fetches
<1>1. /\ Answered \in Nat
           /\ Line \in [1 .. Answered + Len(listings) -> Fetches]
      /\ Len(listings) \in Nat /\ fetches \in Nat
  BY LineType, CookieTypes DEF OrderInv
<1>2. SUFFICES ASSUME fetches < Answered + Len(listings) PROVE FALSE
  BY <1>1
<1> DEFINE S == 1 .. Answered + Len(listings)
           T == 1 .. fetches
<1>3. Line \in [S -> T]
  <2>1. \A i \in S : Line[i] \in T
    <3> SUFFICES ASSUME NEW i \in S PROVE Line[i] \in T
      OBVIOUS
    <3>1. Line[i] \in Fetches /\ Listed(Line[i])
      BY <1>1 DEF Listed
    <3> QED
      BY <3>1, CookieNumbers, <1>1 DEF OrderInv, Placed, Fetches
  <2> QED
    BY <1>1, <2>1
<1>4. /\ IsFiniteSet(S) /\ Cardinality(S) = Answered + Len(listings)
      /\ IsFiniteSet(T) /\ Cardinality(T) = fetches
  <2>1. IsFiniteSet(S) /\ Cardinality(S) = Answered + Len(listings)
    BY <1>1, FS_Interval
  <2>2. IsFiniteSet(T) /\ Cardinality(T) = fetches
    <3>1. /\ IsFiniteSet(1 .. fetches)
          /\ Cardinality(1 .. fetches) = IF 1 > fetches THEN 0 ELSE fetches - 1 + 1
      <4>1. 1 \in Int /\ fetches \in Int
        BY <1>1
      <4> QED
        BY <4>1, FS_Interval
    <3> QED
      BY <1>1, <3>1
  <2> QED
    BY <2>1, <2>2
<1>5. \E i, j \in S : i # j /\ Line[i] = Line[j]
  <2>1. Cardinality(T) < Cardinality(S)
    BY <1>2, <1>4
  <2> HIDE DEF S, T
  <2> QED
    BY <1>3, <1>4, <2>1, FS_PigeonHole
<1>6. DOMAIN Line = S
  BY <1>1
<1> QED
  BY <1>5, <1>6 DEF OrderInv, InLine

-----------------------------------------------------------------------------
\* What a step that moves no listing leaves as it is
LEMMA PlacedKept ==
  ASSUME OrderInv, Line' = Line, fetches' = fetches, usedStore' = usedStore,
         \A f : Fetching(cookieTasks', f) <=> Fetching(cookieTasks, f),
         \A s \in Stores : \A f : Fetching(held'[s], f) <=>
             Fetching(held[s], f)
  PROVE  InLine' /\ \A f \in Fetches : Placed(f)'
<1>1. ASSUME NEW f \in Fetches PROVE Placed(f)'
  BY DEF OrderInv, Placed, Listed
<1>2. InLine'
  BY DEF OrderInv, InLine, Overtakes
<1> QED
  BY <1>1, <1>2

LEMMA CallbacksKept ==
  ASSUME Callbacks, callbacks' = callbacks, fetches' = fetches, got' = got
  PROVE  Callbacks' /\ Answered' = Answered
  BY DEF Callbacks, Answered

\* The calls of the application, and the callbacks
LEMMA OrderOfPut ==
  ASSUME OrderInv, NEW o \in CookieTask, o.op # "fetch",
         cookieTasks' = Append(cookieTasks, o),
         UNCHANGED <<listings, callbacks, fetches, store, held, usedStore, got>>
  PROVE  Callbacks' /\ InLine' /\ InQueues' /\ \A f \in Fetches : Placed(f)'
<1>1. Callbacks' /\ Answered' = Answered
  BY CallbacksKept DEF OrderInv
<1>2. Line' = Line
  BY <1>1, LineSame
<1>3. \A f : ~Asks(o, f)
  BY DEF Asks
<1>4. \A f : Fetching(cookieTasks', f) <=> Fetching(cookieTasks, f)
  BY <1>3, TaskPut, CookieTypes DEF OrderInv
<1>5. InLine' /\ \A f \in Fetches : Placed(f)'
  BY <1>2, <1>4, PlacedKept
<1>6. Ascending(cookieTasks')
  BY <1>3, TaskPut, CookieTypes DEF OrderInv, InQueues
<1> QED
  BY <1>1, <1>5, <1>6 DEF OrderInv, InQueues

LEMMA OrderOfAsking ==
  ASSUME OrderInv, GetHostNamesWithCookies
  PROVE  Callbacks' /\ InLine' /\ InQueues' /\ \A f \in Fetches : Placed(f)'
<1>1. /\ fetches' = fetches + 1 /\ callbacks' = Append(callbacks, fetches + 1)
           /\ got' = got
      /\ listings' = listings /\ held' = held /\ usedStore' = usedStore
           /\ store' = store
      /\ fetches < MaxFetches
  BY DEF GetHostNamesWithCookies, stores
<1>2. /\ fetches \in Nat /\ callbacks \in Seq(Fetches)
           /\ fetches + 1 \in Fetches
      /\ Len(callbacks) \in Nat /\ CookiesTypeOK
  <2>1. fetches \in Nat /\ callbacks \in Seq(Fetches)
    BY CookieTypes DEF OrderInv
  <2> QED
    BY <1>1, <2>1, CookieNumbers DEF OrderInv, Fetches
<1>3. Answered' = Answered /\ Answered \in Nat /\ Answered <= fetches
  BY <1>1, <1>2, LineType DEF Answered, OrderInv
<1>4. Callbacks'
  <2>1. /\ Len(callbacks') = Len(callbacks) + 1
             /\ DOMAIN callbacks' = 1 .. Len(callbacks) + 1
        /\ DOMAIN callbacks = 1 .. Len(callbacks)
        /\ \A i \in 1 .. Len(callbacks) : callbacks'[i] = callbacks[i]
        /\ callbacks'[Len(callbacks) + 1] = fetches + 1
    BY <1>1, <1>2
  <2>2. \A i \in DOMAIN callbacks' : callbacks'[i] = Answered' + i
    <3> SUFFICES ASSUME NEW i \in DOMAIN callbacks'
                 PROVE  callbacks'[i] = Answered' + i
      OBVIOUS
    <3>1. CASE i \in DOMAIN callbacks
      BY <1>3, <2>1, <3>1 DEF OrderInv, Callbacks
    <3>2. CASE i = Len(callbacks) + 1
      BY <1>2, <1>3, <2>1, <3>2 DEF Answered
    <3> QED
      BY <2>1, <3>1, <3>2
  <2>3. Len(callbacks') <= fetches'
    BY <1>1, <1>2, <2>1 DEF OrderInv, Callbacks
  <2>4. \A f \in Fetches : got'[f] # 0 <=> f <= Answered'
    BY <1>1, <1>3 DEF OrderInv, Callbacks
  <2> QED
    BY <2>2, <2>3, <2>4 DEF Callbacks
<1>5. Line' = Line
  BY <1>1, <1>3, LineSame
<1>6. PICK o : o = [op |-> "fetch", f |-> fetches + 1]
  OBVIOUS
<1>7. o \in CookieTask /\ cookieTasks' = Append(cookieTasks, o)
        /\ \A f : Asks(o, f) <=> f = fetches + 1
  BY <1>2, <1>6 DEF CookieTask, Operation, GetHostNamesWithCookies, Asks
<1>8. \A f : Fetching(cookieTasks', f) <=>
        Fetching(cookieTasks, f) \/ f = fetches + 1
  BY <1>2, <1>7, TaskPut, CookieTypes
<1>9. \A f \in Fetches : Fetching(cookieTasks, f) \/ Listed(f)
        \/ (\E s \in Stores : Fetching(held[s], f)) => f <= fetches
  BY DEF OrderInv, Placed
<1>10. \A f \in Fetches : f \in Nat
  BY CookieNumbers
<1>11. InQueues'
  <2>1. ASSUME NEW e, Fetching(cookieTasks, e) PROVE e \in Fetches
    <3>1. PICK i \in DOMAIN cookieTasks : Asks(cookieTasks[i], e)
      BY <2>1 DEF Fetching
    <3>2. cookieTasks[i] \in CookieTask
      BY <1>2, CookieTypes, ElementOfSeq
    <3> QED
      BY <3>1, <3>2, OperationParts DEF CookieTask, Asks
  <2>2. \A f, e : Asks(o, f) /\ Fetching(cookieTasks, e) => e < f
    <3> SUFFICES ASSUME NEW f, NEW e, Asks(o, f), Fetching(cookieTasks, e)
                 PROVE  e < f
      OBVIOUS
    <3>1. e \in Fetches /\ e <= fetches /\ f = fetches + 1
      BY <1>7, <1>9, <2>1
    <3> QED
      BY <1>2, <1>10, <3>1
  <2>3. Ascending(cookieTasks')
    BY <1>2, <1>7, <2>2, TaskPut, CookieTypes DEF OrderInv, InQueues
  <2> QED
    BY <1>1, <2>3 DEF OrderInv, InQueues
<1>12. ASSUME NEW f \in Fetches PROVE Placed(f)'
  <2>1. CASE f = fetches + 1
    <3>1. ~(f <= fetches) /\ f <= fetches'
      BY <1>1, <1>2, <2>1
    <3>2. ~Listed(f) /\ (\A s \in Stores : ~Fetching(held[s], f))
            /\ Listed(f)' = Listed(f)
      BY <1>5, <1>9, <3>1 DEF Listed
    <3> QED
      BY <1>1, <1>8, <2>1, <3>1, <3>2 DEF Placed
  <2>2. CASE f # fetches + 1
    <3>1. f <= fetches' <=> f <= fetches
      BY <1>1, <1>2, <1>10, <2>2
    <3>2. Listed(f)' = Listed(f)
            /\ (Fetching(cookieTasks', f) <=> Fetching(cookieTasks, f))
      BY <1>5, <1>8, <2>2 DEF Listed
    <3> QED
      BY <1>1, <3>1, <3>2 DEF Placed, OrderInv
  <2> QED
    BY <2>1, <2>2
<1>13. InLine'
  <2>1. \A e, f \in Fetches : Fetching(cookieTasks', f) /\ e <= fetches'
          /\ ~Fetching(cookieTasks', e) => e < f
    <3> SUFFICES ASSUME NEW e \in Fetches,
                        NEW f \in Fetches, Fetching(cookieTasks', f),
                        e <= fetches', ~Fetching(cookieTasks', e)
                 PROVE  e < f
      OBVIOUS
    <3>1. e <= fetches /\ ~Fetching(cookieTasks, e)
            /\ (Fetching(cookieTasks, f) \/ f = fetches + 1)
      BY <1>1, <1>2, <1>8, <1>10
    <3> QED
      BY <1>2, <1>10, <3>1 DEF OrderInv, InLine
  <2> QED
    BY <1>1, <1>5, <2>1 DEF OrderInv, InLine, Overtakes
<1> QED
  BY <1>4, <1>11, <1>12, <1>13

LEMMA OrderOfComplete ==
  ASSUME OrderInv, OnFetchComplete
  PROVE  Callbacks' /\ InLine' /\ InQueues' /\ \A f \in Fetches : Placed(f)'
<1>1. /\ listings # <<>> /\ listings' = Tail(listings)
           /\ cookieTasks' = cookieTasks /\ fetches' = fetches
      /\ held' = held /\ store' = store /\ usedStore' = usedStore
  BY DEF OnFetchComplete, stores
<1>2. /\ fetches \in Nat /\ callbacks \in Seq(Fetches)
           /\ listings \in Seq(Fetches)
      /\ Len(callbacks) \in Nat /\ Len(listings) \in Nat /\ CookiesTypeOK
      /\ Answered \in Nat /\ Answered <= fetches
  BY CookieTypes, LineType DEF OrderInv
<1>3. Len(listings) > 0
  BY <1>1, <1>2
<1>4. Len(callbacks) > 0 /\ callbacks # <<>>
  <2>1. Answered + Len(listings) <= fetches
    BY LineShort
  <2>2. Len(callbacks) > 0
    BY <1>2, <1>3, <2>1 DEF Answered
  <2> QED
    BY <1>2, <2>2
<1>5. /\ Head(callbacks) = Answered + 1 /\ Answered + 1 \in Fetches
      /\ got' = [got EXCEPT ![Answered + 1] = Head(listings)]
           /\ callbacks' = Tail(callbacks)
  <2>1. 1 \in DOMAIN callbacks /\ Head(callbacks) = callbacks[1]
    BY <1>2, <1>4
  <2>2. Head(callbacks) = Answered + 1
    BY <2>1 DEF OrderInv, Callbacks
  <2>3. Head(callbacks) \in Fetches
    BY <1>2, <1>4
  <2> QED
    BY <1>4, <2>2, <2>3 DEF OnFetchComplete
<1>6. Answered' = Answered + 1
  <2>1. Len(callbacks') = Len(callbacks) - 1
    BY <1>2, <1>4, <1>5
  <2> QED
    BY <1>1, <1>2, <2>1 DEF Answered
<1>7. got \in [Fetches -> 0 .. MaxFetches] /\ Head(listings) \in Fetches
        /\ Head(listings) # 0
  BY <1>1, <1>2, CookieNumbers DEF CookiesTypeOK
<1>8. /\ got'[Answered + 1] = Head(listings)
      /\ \A f \in Fetches : f # Answered + 1 => got'[f] = got[f]
  BY <1>5, <1>7
<1>9. Callbacks'
  <2>1. \A i \in DOMAIN callbacks' : callbacks'[i] = Answered' + i
    <3>1. /\ DOMAIN callbacks' = 1 .. Len(callbacks) - 1
          /\ \A i \in 1 .. Len(callbacks) - 1 :
               callbacks'[i] = callbacks[i + 1] /\ i + 1 \in DOMAIN callbacks
      BY <1>2, <1>4, <1>5
    <3> SUFFICES ASSUME NEW i \in 1 .. Len(callbacks) - 1
                 PROVE  callbacks'[i] = Answered' + i
      BY <3>1
    <3>2. callbacks[i + 1] = Answered + (i + 1)
      BY <3>1 DEF OrderInv, Callbacks
    <3> QED
      BY <1>2, <1>6, <3>1, <3>2
  <2>2. \A f \in Fetches : got'[f] # 0 <=> f <= Answered'
    <3> SUFFICES ASSUME NEW f \in Fetches PROVE got'[f] # 0 <=> f <= Answered'
      OBVIOUS
    <3>1. f \in Nat
      BY CookieNumbers
    <3>2. got[f] # 0 <=> f <= Answered
      BY DEF OrderInv, Callbacks
    <3> QED
      BY <1>2, <1>6, <1>7, <1>8, <3>1, <3>2
  <2>3. Len(callbacks') <= fetches'
    BY <1>1, <1>2, <1>4, <1>5 DEF OrderInv, Callbacks
  <2> QED
    BY <2>1, <2>2, <2>3 DEF Callbacks
<1>10. Line' = Line
  <2>1. /\ Len(listings') = Len(listings) - 1 /\ Head(listings) = listings[1]
        /\ \A i \in 1 .. Len(listings) - 1 : listings'[i] = listings[i + 1]
    BY <1>1, <1>2
  <2>2. Answered' + Len(listings') = Answered + Len(listings)
    BY <1>2, <1>6, <2>1
  <2>3. ASSUME NEW n \in 1 .. Answered + Len(listings)
        PROVE  (IF n <= Answered' THEN got'[n] ELSE listings'[n - Answered'])
               = (IF n <= Answered THEN got[n] ELSE listings[n - Answered])
    <3>1. CASE n <= Answered
      <4>1. n \in Fetches /\ n # Answered + 1 /\ n <= Answered'
        BY <1>2, <1>6, <2>3, <3>1, CookieNumbers DEF Fetches, CookiesTypeOK
      <4> QED
        BY <1>8, <3>1, <4>1
    <3>2. CASE n = Answered + 1
      <4>1. n <= Answered' /\ ~(n <= Answered) /\ n - Answered = 1
        BY <1>2, <1>6, <3>2
      <4> QED
        BY <1>8, <2>1, <3>2, <4>1
    <3>3. CASE n > Answered + 1
      <4>1. ~(n <= Answered') /\ ~(n <= Answered)
              /\ n - Answered' \in 1 .. Len(listings) - 1
            /\ n - Answered' + 1 = n - Answered
        BY <1>2, <1>6, <2>3, <3>3
      <4> QED
        BY <2>1, <4>1
    <3> QED
      BY <1>2, <3>1, <3>2, <3>3
  <2> QED
    BY <2>2, <2>3 DEF Line
<1>11. InLine' /\ \A f \in Fetches : Placed(f)'
  BY <1>1, <1>10, PlacedKept
<1>12. InQueues'
  BY <1>1 DEF OrderInv, InQueues
<1> QED
  BY <1>9, <1>11, <1>12

\* A listing is made: the stores of the earlier ones still asked are others
LEMMA LineGrows ==
  ASSUME OrderInv, NEW f \in Fetches, ~Listed(f),
         Answered' = Answered, got' = got, listings' = Append(listings, f),
         \A e \in Fetches : e # f => usedStore'[e] = usedStore[e],
         usedStore'[f] = usedStore[f] \/ \A e \in Fetches : Listed(e) => e < f,
         \A e \in Fetches : e < f /\ ~Listed(e) => usedStore[e] # usedStore'[f]
  PROVE  /\ \A e : Listed(e)' <=> Listed(e) \/ e = f
         /\ \A i, j \in DOMAIN Line' : Line'[i] = Line'[j] => i = j
         /\ Overtakes'
<1>1. PICK L \in Nat : /\ DOMAIN Line = 1 .. L /\ DOMAIN Line' = 1 .. L + 1
                       /\ \A i \in 1 .. L : Line'[i] = Line[i]
                       /\ Line'[L + 1] = f
  BY LineExtended DEF OrderInv
<1>2. \A e : Listed(e)' <=> Listed(e) \/ e = f
  BY <1>1 DEF Listed
<1>3. \A i, j \in DOMAIN Line' : Line'[i] = Line'[j] => i = j
  <2> SUFFICES ASSUME NEW i \in DOMAIN Line', NEW j \in DOMAIN Line',
                      Line'[i] = Line'[j]
               PROVE  i = j
    OBVIOUS
  <2>1. (i = L + 1 \/ i \in 1 .. L) /\ (j = L + 1 \/ j \in 1 .. L)
    BY <1>1
  <2>2. \A k \in 1 .. L : Line[k] # f
    BY <1>1 DEF Listed
  <2> QED
    BY <1>1, <2>1, <2>2 DEF OrderInv, InLine
<1>4. ASSUME NEW n \in DOMAIN Line', NEW e \in Fetches, e < Line'[n],
             \A m \in DOMAIN Line' : m < n => Line'[m] # e
      PROVE  usedStore'[e] # usedStore'[Line'[n]]
  <2>1. CASE n = L + 1
    <3>1. e # f /\ e < f
      <4>1. e \in Nat /\ f \in Nat
        BY CookieNumbers
      <4> QED
        BY <1>1, <1>4, <2>1, <4>1
    <3>2. ~Listed(e)
      BY <1>1, <1>4, <2>1 DEF Listed
    <3> QED
      BY <1>1, <2>1, <3>1, <3>2
  <2>2. CASE n \in 1 .. L
    <3>1. n \in DOMAIN Line /\ Line'[n] = Line[n] /\ Listed(Line[n])
      BY <1>1, <2>2 DEF Listed
    <3>2. Line[n] \in Fetches /\ Line[n] # f
      BY <3>1, LineType DEF OrderInv
    <3>3. \A m \in DOMAIN Line : m < n => Line[m] # e
      BY <1>1, <1>4
    <3>4. usedStore[e] # usedStore[Line[n]]
      BY <1>4, <3>1, <3>3 DEF OrderInv, InLine, Overtakes
    <3>5. e = f => usedStore'[f] = usedStore[f]
      <4> SUFFICES ASSUME e = f, Line[n] < f PROVE FALSE
        BY <3>1, <3>2
      <4>1. e \in Nat /\ Line[n] \in Nat
        BY <3>2, CookieNumbers
      <4> QED
        BY <1>4, <3>1, <4>1
    <3> QED
      BY <3>1, <3>2, <3>4, <3>5
  <2> QED
    BY <1>1, <2>1, <2>2
<1> QED
  BY <1>2, <1>3, <1>4 DEF Overtakes

\* An operation on cookies is executed or held back, and moves no listing
LEMMA OrderOfOthers ==
  ASSUME OrderInv, listings' = listings,
         UNCHANGED <<callbacks, fetches, usedStore, got>>, store <= store',
         store' \in Nat,
         \/ cookieTasks' = cookieTasks
         \/ cookieTasks # <<>> /\ cookieTasks' = Tail(cookieTasks)
              /\ Head(cookieTasks).op # "fetch",
         \A s \in Stores : /\ \A f : Fetching(held'[s], f) <=> Fetching(held[s], f)
                           /\ Ascending(held'[s])
                           /\ held'[s] # <<>> => s <= store'
  PROVE  Callbacks' /\ InLine' /\ InQueues' /\ \A f \in Fetches : Placed(f)'
<1>1. Callbacks' /\ Answered' = Answered
  BY CallbacksKept DEF OrderInv
<1>2. Line' = Line
  BY <1>1, LineSame
<1>3. (\A f : Fetching(cookieTasks', f) <=> Fetching(cookieTasks, f))
        /\ Ascending(cookieTasks')
  <2>1. CASE cookieTasks' = cookieTasks
    BY <2>1 DEF OrderInv, InQueues
  <2>2. CASE cookieTasks # <<>> /\ cookieTasks' = Tail(cookieTasks)
               /\ Head(cookieTasks).op # "fetch"
    <3>1. \A f : ~Asks(Head(cookieTasks), f)
      BY <2>2 DEF Asks
    <3> QED
      BY <2>2, <3>1, TaskTake, CookieTypes DEF OrderInv, InQueues
  <2> QED
    BY <2>1, <2>2
<1>4. InLine' /\ \A f \in Fetches : Placed(f)'
  BY <1>2, <1>3, PlacedKept
<1> QED
  BY <1>1, <1>3, <1>4 DEF InQueues

LEMMA EmptyAscends == Ascending(<<>>) /\ \A f : ~Fetching(<<>>, f)
  BY DEF Ascending, Fetching

\* A store holds an operation back
LEMMA HeldPut ==
  ASSUME CookiesTypeOK, NEW o \in Operation,
         held' = [held EXCEPT ![store] = Append(@, o)]
  PROVE  /\ \A f : Fetching(held'[store], f) <=>
              Fetching(held[store], f) \/ Asks(o, f)
         /\ \A s \in Stores : s # store => held'[s] = held[s]
         /\ Ascending(held[store])
              /\ (\A f, e : Asks(o, f) /\ Fetching(held[store], e) => e < f)
              => Ascending(held'[store])
         /\ held'[store] = Append(held[store], o)
<1>1. store \in Stores /\ held \in [Stores -> Seq(Operation)]
        /\ held[store] \in Seq(CookieTask) /\ o \in CookieTask
  BY CookieTypes, OperationParts DEF CookiesTypeOK
<1>2. held'[store] = Append(held[store], o) /\ \A s \in Stores : s # store =>
        held'[s] = held[s]
  BY <1>1
<1> QED
  BY <1>1, <1>2, TaskPut

\* The store is asked: it answers at once, or holds the operation back
LEMMA OrderOfAskStore ==
  ASSUME OrderInv, AskStore
  PROVE  Callbacks' /\ InLine' /\ InQueues' /\ \A f \in Fetches : Placed(f)'
<1>1. /\ CookiesTypeOK /\ cookieTasks \in Seq(CookieTask) /\ store \in Stores
           /\ store \in Nat
      /\ cookieTasks # <<>> /\ cookieTasks' = Tail(cookieTasks)
      /\ callbacks' = callbacks /\ fetches' = fetches /\ got' = got
           /\ store' = store
  BY CookieTypes DEF OrderInv, AskStore
<1>2. PICK o \in Operation : o = Head(cookieTasks)
  BY <1>1, TaskTake DEF AskStore, CookieTask
<1>3. /\ usedStore' = IF o.op = "fetch" THEN [usedStore EXCEPT ![o.f] = store] ELSE usedStore
      /\ \/ held[store] = <<>> /\ Execute(store, o) /\ held' = held
         \/ held' = [held EXCEPT ![store] = Append(@, o)]
              /\ listings' = listings
  BY <1>2 DEF AskStore
<1>4. Callbacks' /\ Answered' = Answered
  BY <1>1, CallbacksKept DEF OrderInv
<1>5. CASE o.op # "fetch"
  <2>1. \A f : ~Asks(o, f)
    BY <1>5 DEF Asks
  <2>2. listings' = listings /\ usedStore' = usedStore
    BY <1>3, <1>5 DEF Execute
  <2>3. ASSUME NEW s \in Stores
        PROVE  /\ \A f : Fetching(held'[s], f) <=> Fetching(held[s], f)
               /\ Ascending(held'[s])
               /\ held'[s] # <<>> => s <= store'
    <3>1. CASE held' = held
      BY <1>1, <3>1 DEF OrderInv, InQueues
    <3>2. CASE held' = [held EXCEPT ![store] = Append(@, o)]
      <4>1. CASE s = store
        <5>1. \A f : Fetching(held'[store], f) <=> Fetching(held[store], f)
          BY <1>1, <2>1, <3>2, HeldPut
        <5>2. Ascending(held[store]) /\ \A f, e : Asks(o, f)
                /\ Fetching(held[store], e) => e < f
          BY <1>1, <2>1 DEF OrderInv, InQueues
        <5>3. Ascending(held'[store])
          BY <1>1, <3>2, <5>2, HeldPut
        <5> QED
          BY <1>1, <4>1, <5>1, <5>3
      <4>2. CASE s # store
        BY <1>1, <3>2, <4>2, HeldPut DEF OrderInv, InQueues
      <4> QED
        BY <4>1, <4>2
    <3> QED
      BY <1>3, <3>1, <3>2
  <2>4. store <= store' /\ store' \in Nat /\ Head(cookieTasks).op # "fetch"
    BY <1>1, <1>2, <1>5
  <2>5. UNCHANGED <<callbacks, fetches, usedStore, got>>
    BY <1>1, <2>2
  <2> QED
    BY <1>1, <2>2, <2>3, <2>4, <2>5, OrderOfOthers
<1>6. CASE o.op = "fetch"
  <2>1. PICK f \in Fetches : f = o.f
    BY <1>6, OperationParts
  <2>2. Asks(o, f) /\ \A e : Asks(o, e) => e = f
    BY <1>6, <2>1 DEF Asks
  <2>3. /\ Ascending(cookieTasks') /\ ~Fetching(cookieTasks', f)
             /\ Fetching(cookieTasks, f)
        /\ \A e : Fetching(cookieTasks', e) <=>
             Fetching(cookieTasks, e) /\ e # f
        /\ \A e : Fetching(cookieTasks', e) => f < e
    <3>1. /\ Ascending(cookieTasks')
          /\ \A e : Fetching(cookieTasks', e) => f < e
          /\ \A e : Fetching(cookieTasks, e) <=>
               Fetching(cookieTasks', e) \/ Asks(o, e)
      BY <1>1, <1>2, <2>2, TaskTake DEF OrderInv, InQueues
    <3>2. ~Fetching(cookieTasks', f)
      BY <3>1, CookieNumbers
    <3> QED
      BY <2>2, <3>1, <3>2
  <2>4. /\ usedStore'[f] = store /\ \A e \in Fetches : e # f =>
             usedStore'[e] = usedStore[e]
    BY <1>1, <1>3, <1>6, <2>1 DEF CookiesTypeOK
  <2>5. /\ f <= fetches /\ ~Listed(f)
             /\ \A s \in Stores : ~Fetching(held[s], f)
    BY <2>3 DEF OrderInv, Placed
  <2>6. \A e \in Fetches : e <= fetches /\ ~Fetching(cookieTasks, e) => e < f
    BY <2>3 DEF OrderInv, InLine
  <2>7. \A e \in Fetches : e < f => e <= fetches /\ ~Fetching(cookieTasks, e)
    <3> SUFFICES ASSUME NEW e \in Fetches, e < f
                 PROVE  e <= fetches /\ ~Fetching(cookieTasks, e)
      OBVIOUS
    <3>1. e \in Nat /\ f \in Nat /\ fetches \in Nat
      BY <1>1, CookieNumbers, CookieTypes
    <3>2. ~Fetching(cookieTasks', e) /\ e # f
      BY <2>3, <3>1
    <3> QED
      BY <2>3, <2>5, <3>1, <3>2
  <2>8. \A e, g \in Fetches : Fetching(cookieTasks', g) /\ e <= fetches
          /\ ~Fetching(cookieTasks', e) => e < g
    <3> SUFFICES ASSUME NEW e \in Fetches,
                        NEW g \in Fetches, Fetching(cookieTasks', g),
                        e <= fetches, ~Fetching(cookieTasks', e)
                 PROVE  e < g
      OBVIOUS
    <3>1. e = f \/ ~Fetching(cookieTasks, e)
      BY <2>3
    <3> QED
      BY <2>3, <3>1 DEF OrderInv, InLine
  <2>9. CASE held' = [held EXCEPT ![store] = Append(@, o)]
               /\ listings' = listings
    <3>1. Line' = Line
      BY <1>1, <1>4, <2>9, LineSame
    <3>2. /\ \A e : Fetching(held'[store], e) <=>
               Fetching(held[store], e) \/ e = f
          /\ \A s \in Stores : s # store => held'[s] = held[s]
      BY <1>1, <2>2, <2>9, HeldPut
    <3>3. InQueues'
      <4>1. \A e : Fetching(held[store], e) => e < f
        <5> SUFFICES ASSUME NEW e, Fetching(held[store], e) PROVE e < f
          OBVIOUS
        <5>1. e \in Fetches
          <6>1. PICK i \in DOMAIN held[store] : Asks(held[store][i], e)
            BY DEF Fetching
          <6>2. held[store][i] \in Operation
            BY <1>1, CookieTypes, ElementOfSeq
          <6> QED
            BY <6>1, <6>2, OperationParts DEF Asks
        <5>2. e <= fetches /\ ~Fetching(cookieTasks, e)
          BY <1>1, <5>1 DEF OrderInv, Placed
        <5> QED
          BY <2>6, <5>1, <5>2
      <4>2. Ascending(held'[store])
        BY <1>1, <2>2, <2>9, <4>1, HeldPut DEF OrderInv, InQueues
      <4> QED
        BY <1>1, <2>3, <3>2, <4>2 DEF OrderInv, InQueues
    <3>4. ASSUME NEW e \in Fetches PROVE Placed(e)'
      <4>1. Listed(e)' <=> Listed(e)
        BY <3>1 DEF Listed
      <4>2. CASE e = f
        BY <1>1, <2>3, <2>4, <2>5, <3>2, <4>1, <4>2 DEF Placed, OrderInv
      <4>3. CASE e # f
        <5>1. \A s \in Stores : Fetching(held'[s], e) <=> Fetching(held[s], e)
          BY <3>2, <4>3
        <5> QED
          BY <1>1, <2>3, <2>4, <4>1, <4>3, <5>1 DEF Placed, OrderInv
      <4> QED
        BY <4>2, <4>3
    <3>5. InLine'
      <4>1. Overtakes'
        <5> SUFFICES ASSUME NEW n \in DOMAIN Line,
                            NEW e \in Fetches, e < Line[n],
                            \A m \in DOMAIN Line : m < n => Line[m] # e
                     PROVE  usedStore'[e] # usedStore'[Line[n]]
          BY <3>1 DEF Overtakes
        <5>1. usedStore[e] # usedStore[Line[n]]
          BY DEF OrderInv, InLine, Overtakes
        <5>2. Listed(Line[n]) /\ Line[n] \in Fetches
          BY LineType DEF Listed, OrderInv
        <5>3. Line[n] <= fetches /\ Line[n] # f
                /\ ~Fetching(cookieTasks, Line[n])
          BY <2>5, <5>2 DEF OrderInv, Placed
        <5>4. Line[n] < f
          BY <2>6, <5>2, <5>3
        <5>5. e # f
          <6>1. e \in Nat /\ f \in Nat /\ Line[n] \in Nat
            BY <5>2, CookieNumbers
          <6> QED
            BY <5>4, <6>1
        <5> QED
          BY <2>4, <5>1, <5>2, <5>3, <5>5
      <4> QED
        BY <1>1, <2>8, <3>1, <4>1 DEF OrderInv, InLine
    <3> QED
      BY <1>4, <3>3, <3>4, <3>5
  <2>10. CASE held[store] = <<>> /\ Execute(store, o) /\ held' = held
    <3>1. listings' = Append(listings, f)
      BY <1>6, <2>1, <2>10 DEF Execute
    <3>2. \A e \in Fetches : Listed(e) => e < f
      BY <2>6 DEF OrderInv, Placed
    <3>3. \A e \in Fetches : e < f /\ ~Listed(e) =>
            usedStore[e] # usedStore'[f]
      <4> SUFFICES ASSUME NEW e \in Fetches, e < f, ~Listed(e)
                   PROVE  usedStore[e] # store
        BY <2>4
      <4>1. PICK s \in Stores : Fetching(held[s], e)
        BY <2>7 DEF OrderInv, Placed
      <4>2. usedStore[e] = s
        BY <4>1 DEF OrderInv, Placed
      <4> QED
        BY <2>10, <4>1, <4>2, EmptyAscends
    <3>4. /\ \A e : Listed(e)' <=> Listed(e) \/ e = f
          /\ \A i, j \in DOMAIN Line' : Line'[i] = Line'[j] => i = j
          /\ Overtakes'
      BY <1>1, <1>4, <2>4, <2>5, <3>1, <3>2, <3>3, LineGrows
    <3>5. ASSUME NEW e \in Fetches PROVE Placed(e)'
      <4>1. CASE e = f
        BY <1>1, <2>3, <2>5, <2>10, <3>4, <4>1 DEF Placed
      <4>2. CASE e # f
        BY <1>1, <2>3, <2>4, <2>10, <3>4, <4>2 DEF Placed, OrderInv
      <4> QED
        BY <4>1, <4>2
    <3>6. InQueues'
      BY <1>1, <2>3, <2>10 DEF OrderInv, InQueues
    <3>7. InLine'
      BY <1>1, <2>8, <3>4 DEF InLine
    <3> QED
      BY <1>4, <3>5, <3>6, <3>7
  <2> QED
    BY <1>3, <2>9, <2>10
<1> QED
  BY <1>5, <1>6

\* A store runs the first operation it holds back
LEMMA HeldTake ==
  ASSUME CookiesTypeOK, NEW s \in Stores, held[s] # <<>>,
         held' = [held EXCEPT ![s] = Tail(@)]
  PROVE  /\ Head(held[s]) \in Operation /\ held'[s] = Tail(held[s])
         /\ \A f : Fetching(held[s], f) <=>
              Fetching(held'[s], f) \/ Asks(Head(held[s]), f)
         /\ \A x \in Stores : x # s => held'[x] = held[x]
         /\ Ascending(held[s]) => /\ Ascending(held'[s])
                                  /\ \A f, e : Asks(Head(held[s]), f)
                                       /\ Fetching(held'[s], e) => f < e
<1>1. held \in [Stores -> Seq(Operation)] /\ held[s] \in Seq(CookieTask)
        /\ held[s] \in Seq(Operation)
  BY CookieTypes DEF CookiesTypeOK
<1>2. held'[s] = Tail(held[s]) /\ \A x \in Stores : x # s => held'[x] = held[x]
  BY <1>1
<1>3. Head(held[s]) \in Operation
  BY <1>1
<1> QED
  BY <1>1, <1>2, <1>3, TaskTake

LEMMA OrderOfRunHeld ==
  ASSUME OrderInv, NEW s \in Stores, RunHeld(s)
  PROVE  Callbacks' /\ InLine' /\ InQueues' /\ \A f \in Fetches : Placed(f)'
<1>1. /\ CookiesTypeOK /\ store \in Nat /\ held[s] # <<>>
           /\ held' = [held EXCEPT ![s] = Tail(@)]
      /\ callbacks' = callbacks /\ fetches' = fetches /\ got' = got
           /\ store' = store
      /\ usedStore' = usedStore /\ cookieTasks' = cookieTasks
  BY CookieTypes DEF OrderInv, RunHeld
<1>2. PICK o \in Operation : o = Head(held[s]) /\ Execute(s, o)
  BY <1>1, HeldTake DEF RunHeld
<1>3. Callbacks' /\ Answered' = Answered
  BY <1>1, CallbacksKept DEF OrderInv
<1>4. /\ \A f : Fetching(held[s], f) <=> Fetching(held'[s], f) \/ Asks(o, f)
      /\ \A x \in Stores : x # s => held'[x] = held[x]
      /\ Ascending(held'[s]) /\ \A f, e : Asks(o, f)
           /\ Fetching(held'[s], e) => f < e
  BY <1>1, <1>2, HeldTake DEF OrderInv, InQueues
<1>5. \A x \in Stores : Ascending(held'[x]) /\ (held'[x] # <<>> => x <= store)
  BY <1>1, <1>4 DEF OrderInv, InQueues
<1>6. CASE o.op # "fetch"
  <2>1. \A f : ~Asks(o, f)
    BY <1>6 DEF Asks
  <2>2. listings' = listings
    BY <1>2, <1>6 DEF Execute
  <2>3. \A x \in Stores : \A f : Fetching(held'[x], f) <=> Fetching(held[x], f)
    BY <1>4, <2>1
  <2>4. UNCHANGED <<callbacks, fetches, usedStore, got>> /\ store <= store'
          /\ store' \in Nat
    BY <1>1
  <2> QED
    BY <1>1, <1>5, <2>2, <2>3, <2>4, OrderOfOthers
<1>7. CASE o.op = "fetch"
  <2>1. PICK f \in Fetches : f = o.f
    BY <1>7, OperationParts
  <2>2. Asks(o, f) /\ \A e : Asks(o, e) => e = f
    BY <1>7, <2>1 DEF Asks
  <2>3. /\ Fetching(held[s], f) /\ ~Fetching(held'[s], f)
        /\ \A e : Fetching(held'[s], e) <=> Fetching(held[s], e) /\ e # f
        /\ \A e : Fetching(held'[s], e) => f < e
    <3>1. \A e : Fetching(held'[s], e) => f < e
      BY <1>4, <2>2
    <3>2. ~Fetching(held'[s], f)
      BY <3>1, CookieNumbers
    <3> QED
      BY <1>4, <2>2, <3>1, <3>2
  <2>4. f <= fetches /\ usedStore[f] = s /\ ~Listed(f)
          /\ ~Fetching(cookieTasks, f)
    BY <2>3 DEF OrderInv, Placed
  <2>5. listings' = Append(listings, f)
    BY <1>2, <1>7, <2>1 DEF Execute
  <2>6. \A e \in Fetches : e < f /\ ~Listed(e) => usedStore[e] # usedStore[f]
    <3> SUFFICES ASSUME NEW e \in Fetches, e < f, ~Listed(e), usedStore[e] = s
                 PROVE  FALSE
      BY <2>4
    <3>1. e \in Nat /\ f \in Nat /\ fetches \in Nat
      BY <1>1, CookieNumbers, CookieTypes
    <3>2. ~Fetching(cookieTasks, e)
      <4> SUFFICES ASSUME Fetching(cookieTasks, e) PROVE FALSE
        OBVIOUS
      <4>1. f < e
        BY <2>4 DEF OrderInv, InLine
      <4> QED
        BY <3>1, <4>1
    <3>3. e <= fetches
      BY <2>4, <3>1
    <3>4. Fetching(held[s], e)
      BY <3>2, <3>3 DEF OrderInv, Placed
    <3>5. f < e
      BY <2>3, <3>1, <3>4
    <3> QED
      BY <3>1, <3>5
  <2>7. /\ \A e : Listed(e)' <=> Listed(e) \/ e = f
        /\ \A i, j \in DOMAIN Line' : Line'[i] = Line'[j] => i = j
        /\ Overtakes'
    <3>1. /\ \A e \in Fetches : e # f => usedStore'[e] = usedStore[e]
          /\ usedStore'[f] = usedStore[f]
      BY <1>1
    <3> QED
      BY <1>1, <1>3, <2>4, <2>5, <2>6, <3>1, LineGrows
  <2>8. ASSUME NEW e \in Fetches PROVE Placed(e)'
    <3>1. \A x \in Stores : Fetching(held'[x], e) <=>
            Fetching(held[x], e) /\ ~(x = s /\ e = f)
      BY <1>4, <2>3
    <3>2. CASE e = f
      <4>1. \A x \in Stores : ~Fetching(held'[x], e)
        BY <2>4, <3>1, <3>2 DEF OrderInv, Placed
      <4> QED
        BY <1>1, <2>4, <2>7, <3>2, <4>1 DEF Placed
    <3>3. CASE e # f
      BY <1>1, <2>7, <3>1, <3>3 DEF Placed, OrderInv
    <3> QED
      BY <3>2, <3>3
  <2>9. InLine' /\ InQueues'
    BY <1>1, <1>5, <2>7 DEF InLine, InQueues, OrderInv
  <2> QED
    BY <1>3, <2>8, <2>9
<1> QED
  BY <1>6, <1>7

\* What the stores do by themselves
LEMMA OrderOfStores ==
  ASSUME OrderInv,
         \/ ChangeStore \/ DeleteNothing
         \/ \E s \in Stores : StoreLoads(s) \/ HostLoads(s)
         \/ \E c \in Cookies : CookieSet(c)
         \/ UNCHANGED cookiesVars
  PROVE  Callbacks' /\ InLine' /\ InQueues' /\ \A f \in Fetches : Placed(f)'
<1>1. /\ CookiesTypeOK /\ store \in Nat /\ held \in [Stores -> Seq(Operation)]
      /\ listings' = listings
           /\ UNCHANGED <<callbacks, fetches, usedStore, got>>
  BY CookieTypes
     DEF OrderInv, CookiesTypeOK, ChangeStore, DeleteNothing, StoreLoads,
         HostLoads, CookieSet, cookiesVars, stores, history
<1>2. CASE ChangeStore
  <2>1. /\ cookieTasks # <<>> /\ cookieTasks' = Tail(cookieTasks)
             /\ Head(cookieTasks).op # "fetch"
        /\ held' = held /\ (store' = store \/ store' = store + 1)
    BY <1>2 DEF ChangeStore
  <2>2. \A s \in Stores : Ascending(held[s]) /\ (held[s] # <<>> => s <= store')
    BY <1>1, <2>1, CookieNumbers DEF OrderInv, InQueues
  <2>3. store <= store' /\ store' \in Nat
    BY <1>1, <2>1
  <2> QED
    BY <1>1, <2>1, <2>2, <2>3, OrderOfOthers
<1>3. CASE \/ \E s \in Stores : StoreLoads(s)
           \/ \E c \in Cookies : CookieSet(c)
           \/ UNCHANGED cookiesVars
  <2>1. cookieTasks' = cookieTasks /\ held' = held /\ store' = store
    BY <1>3 DEF StoreLoads, CookieSet, cookiesVars, stores
  <2>2. \A s \in Stores : Ascending(held[s]) /\ (held[s] # <<>> => s <= store)
    BY DEF OrderInv, InQueues
  <2>3. store <= store' /\ store' \in Nat
    BY <1>1, <2>1
  <2> QED
    BY <1>1, <2>1, <2>2, <2>3, OrderOfOthers
<1>4. ASSUME NEW s \in Stores, HostLoads(s)
      PROVE  Callbacks' /\ InLine' /\ InQueues'
               /\ \A f \in Fetches : Placed(f)'
  <2>1. PICK i \in DOMAIN held[s] :
          /\ held[s][i].op = "value"
          /\ held' = [held EXCEPT ![s] = SubSeq(@, 1, i - 1) \o SubSeq(@, i + 1, Len(@))]
    BY <1>4 DEF HostLoads
  <2>2. /\ held'[s] = SubSeq(held[s], 1, i - 1) \o SubSeq(held[s], i + 1, Len(held[s]))
        /\ \A x \in Stores : x # s => held'[x] = held[x]
    BY <1>1, <2>1
  <2>3. /\ held[s] # <<>> /\ \A f : Fetching(held'[s], f) <=>
             Fetching(held[s], f)
        /\ Ascending(held[s]) => Ascending(held'[s])
    BY <1>1, <2>1, <2>2, TaskDrop
  <2>4. cookieTasks' = cookieTasks /\ store' = store
    BY <1>4 DEF HostLoads
  <2>5. ASSUME NEW x \in Stores
        PROVE  /\ \A f : Fetching(held'[x], f) <=> Fetching(held[x], f)
               /\ Ascending(held'[x])
               /\ held'[x] # <<>> => x <= store'
    <3>1. CASE x = s
      BY <2>3, <2>4, <3>1 DEF OrderInv, InQueues
    <3>2. CASE x # s
      BY <2>2, <2>4, <3>2 DEF OrderInv, InQueues
    <3> QED
      BY <3>1, <3>2
  <2>6. store <= store' /\ store' \in Nat
    BY <1>1, <2>4
  <2> QED
    BY <1>1, <2>4, <2>5, <2>6, OrderOfOthers
<1>5. CASE DeleteNothing
  <2>1. /\ cookieTasks # <<>> /\ cookieTasks' = Tail(cookieTasks)
             /\ Head(cookieTasks).op # "fetch"
        /\ held' = held /\ store' = store
    BY <1>5 DEF DeleteNothing, NoUrl, stores
  <2>2. \A s \in Stores : Ascending(held[s]) /\ (held[s] # <<>> => s <= store)
    BY DEF OrderInv, InQueues
  <2>3. store <= store' /\ store' \in Nat
    BY <1>1, <2>1
  <2> QED
    BY <1>1, <2>1, <2>2, <2>3, OrderOfOthers
<1> QED
  BY <1>2, <1>3, <1>4, <1>5

LEMMA OrderInitInv == CookiesInit => OrderInv
<1> SUFFICES ASSUME CookiesInit PROVE OrderInv
  OBVIOUS
<1>1. CookiesTypeOK
  BY CookiesInitType
<1>2. /\ Answered = 0 /\ Len(callbacks) = 0 /\ Len(listings) = 0 /\ fetches = 0
           /\ DOMAIN callbacks = {}
      /\ cookieTasks = <<>> /\ \A s \in Stores : held[s] = <<>>
  <2>1. callbacks = <<>> /\ listings = <<>> /\ fetches = 0
          /\ cookieTasks = <<>>
    BY DEF CookiesInit
  <2>2. \A s \in Stores : held[s] = <<>>
    BY DEF CookiesInit
  <2>3. Len(callbacks) = 0 /\ Len(listings) = 0 /\ DOMAIN callbacks = {}
    BY <2>1
  <2>4. Answered = 0
    <3>1. fetches = 0 /\ Len(callbacks) = 0
      BY <2>1, <2>3
    <3> QED
      BY <3>1 DEF Answered
  <2> QED
    BY <2>1, <2>2, <2>3, <2>4
<1>3. DOMAIN Line = {}
  BY <1>2 DEF Line
<1>4. Callbacks
  BY <1>2, CookieNumbers DEF CookiesInit, Callbacks, Fetches
<1>5. InLine
  BY <1>2, <1>3, EmptyAscends DEF InLine, Overtakes
<1>6. InQueues
  BY <1>2, EmptyAscends DEF InQueues
<1>7. \A f \in Fetches : Placed(f)
  <2> SUFFICES ASSUME NEW f \in Fetches PROVE Placed(f)
    OBVIOUS
  <2>1. ~(f <= fetches)
    BY <1>2, CookieNumbers DEF Fetches
  <2>2. ~Listed(f)
    BY <1>3 DEF Listed
  <2>3. ~Fetching(cookieTasks, f) /\ \A s \in Stores : ~Fetching(held[s], f)
    BY <1>2, EmptyAscends
  <2> QED
    BY <2>1, <2>2, <2>3 DEF Placed
<1> QED
  BY <1>1, <1>4, <1>5, <1>6, <1>7 DEF OrderInv

LEMMA OrderNextInv ==
  ASSUME OrderInv, Ranked, [CookiesNext]_cookiesVars
  PROVE  OrderInv'
<1>1. CookiesTypeOK'
  BY CookiesNextType DEF OrderInv
<1>2. ASSUME NEW url \in Urls, DeleteCookies(url)
      PROVE  Callbacks' /\ InLine' /\ InQueues'
               /\ \A f \in Fetches : Placed(f)'
  <2>1. PICK o : o = [op |-> "delete", url |-> url]
    OBVIOUS
  <2>2. o \in CookieTask /\ o.op # "fetch"
          /\ cookieTasks' = Append(cookieTasks, o)
    BY <1>2, <2>1 DEF CookieTask, Operation, DeleteCookies
  <2> QED
    BY <1>2, <2>2, OrderOfPut DEF DeleteCookies, stores
<1>3. ASSUME SetStoragePath
      PROVE  Callbacks' /\ InLine' /\ InQueues'
               /\ \A f \in Fetches : Placed(f)'
  <2>1. PICK o : o = [op |-> "path"]
    OBVIOUS
  <2>2. o \in CookieTask /\ o.op # "fetch"
          /\ cookieTasks' = Append(cookieTasks, o)
    BY <1>3, <2>1 DEF CookieTask, SetStoragePath
  <2>3. UNCHANGED <<listings, callbacks, fetches, store, held, usedStore, got>>
    BY <1>3 DEF SetStoragePath, stores, history
  <2> QED
    BY <2>2, <2>3, OrderOfPut
<1>4. ASSUME GetCookiesForURL
      PROVE  Callbacks' /\ InLine' /\ InQueues'
               /\ \A f \in Fetches : Placed(f)'
  <2>1. PICK o : o = [op |-> "value"]
    OBVIOUS
  <2>2. o \in CookieTask /\ o.op # "fetch"
          /\ cookieTasks' = Append(cookieTasks, o)
    BY <1>4, <2>1 DEF CookieTask, Operation, GetCookiesForURL
  <2>3. UNCHANGED <<listings, callbacks, fetches, store, held, usedStore, got>>
    BY <1>4 DEF GetCookiesForURL, stores, history
  <2> QED
    BY <2>2, <2>3, OrderOfPut
<1>5. Callbacks' /\ InLine' /\ InQueues' /\ \A f \in Fetches : Placed(f)'
  <2>1. CASE UiCall
    <3>1. CASE \E url \in Urls : DeleteCookies(url)
      BY <1>2, <3>1
    <3>2. CASE GetHostNamesWithCookies
      BY <3>2, OrderOfAsking
    <3> QED
      BY <1>3, <1>4, <2>1, <3>1, <3>2 DEF UiCall
  <2>2. CASE OnFetchComplete
    BY <2>2, OrderOfComplete
  <2>3. CASE IoTask
    BY <2>3, OrderOfAskStore, OrderOfStores DEF IoTask
  <2>4. CASE \E s \in Stores : StoreTask(s)
    BY <2>4, OrderOfRunHeld, OrderOfStores DEF StoreTask
  <2>5. CASE \E c \in Cookies : CookieSet(c)
    BY <2>5, OrderOfStores
  <2>6. CASE UNCHANGED cookiesVars
    BY <2>6, OrderOfStores
  <2> QED
    BY <2>1, <2>2, <2>3, <2>4, <2>5, <2>6 DEF CookiesNext
<1> QED
  BY <1>1, <1>5 DEF OrderInv

\* The first half of OwnListing: were no two listings in the wrong order, those
\* before the f-th would be as many as the fetches before the one it listed
LEMMA ListingsInOrder ==
  ASSUME OrderInv, NEW f \in Fetches, got[f] \notin {0, f}
  PROVE  \E e, g \in Fetches : e < g /\ usedStore[e] # usedStore[g]
           /\ {e, g} \cap {f, got[f]} # {}
<1>1. /\ Answered \in Nat
           /\ Line \in [1 .. Answered + Len(listings) -> Fetches]
      /\ Len(listings) \in Nat /\ f \in Nat /\ \A e \in Fetches : e \in Nat
           /\ e > 0
  <2>1. \A e \in Fetches : e \in Nat /\ e > 0
    BY CookieNumbers DEF Fetches
  <2> QED
    BY <2>1, LineType, CookieTypes DEF OrderInv
<1>2. f <= Answered
  BY DEF OrderInv, Callbacks
<1>3. \A n \in 1 .. f : n \in DOMAIN Line /\ Line[n] = got[n]
  BY <1>1, <1>2 DEF Line
<1>4. PICK g \in Fetches : g = got[f] /\ g = Line[f] /\ g # f
        /\ f \in DOMAIN Line
  <2>1. f \in 1 .. f
    BY <1>1
  <2>2. f \in DOMAIN Line /\ Line[f] = got[f]
    BY <1>3, <2>1
  <2>3. Line[f] \in Fetches
    BY <1>1, <2>2
  <2> QED
    BY <2>2, <2>3
<1>5. CASE \E e \in Fetches : e < g /\ \A m \in DOMAIN Line : m < f =>
             Line[m] # e
  <2>1. PICK e \in Fetches : e < g /\ \A m \in DOMAIN Line : m < f =>
          Line[m] # e
    BY <1>5
  <2>2. usedStore[e] # usedStore[g]
    BY <1>4, <2>1 DEF OrderInv, InLine, Overtakes
  <2> QED
    BY <1>4, <2>1, <2>2
<1>6. CASE \E i \in DOMAIN Line : i < f /\ g < Line[i]
  <2>1. PICK i \in DOMAIN Line : i < f /\ g < Line[i]
    BY <1>6
  <2>2. ASSUME NEW m \in DOMAIN Line, m < i PROVE Line[m] # g
    <3>1. m < f
      BY <1>1, <2>1, <2>2
    <3> QED
      BY <1>1, <1>4, <3>1 DEF OrderInv, InLine
  <2>3. usedStore[g] # usedStore[Line[i]] /\ Line[i] \in Fetches
    BY <1>1, <2>1, <2>2 DEF OrderInv, InLine, Overtakes
  <2> QED
    BY <1>4, <2>1, <2>3
<1>7. CASE /\ \A e \in Fetches : e < g =>
                \E m \in DOMAIN Line : m < f /\ Line[m] = e
           /\ \A i \in DOMAIN Line : i < f => ~(g < Line[i])
  <2>1. \A i \in 1 .. f - 1 : /\ i \in DOMAIN Line /\ Line[i] \in 1 .. g - 1
                              /\ \A j \in 1 .. f - 1 : Line[i] = Line[j] =>
                                   i = j
    <3> SUFFICES ASSUME NEW i \in 1 .. f - 1
                 PROVE  /\ i \in DOMAIN Line /\ Line[i] \in 1 .. g - 1
                        /\ \A j \in 1 .. f - 1 : Line[i] = Line[j] => i = j
      OBVIOUS
    <3>1. i \in DOMAIN Line /\ i < f /\ \A j \in 1 .. f - 1 : j \in DOMAIN Line
      BY <1>1, <1>3
    <3>2. Line[i] \in Fetches /\ Line[i] # g /\ ~(g < Line[i])
      BY <1>1, <1>4, <1>7, <3>1 DEF OrderInv, InLine
    <3>3. Line[i] \in 1 .. g - 1
      <4>1. Line[i] \in Nat /\ Line[i] > 0 /\ g \in Nat /\ Line[i] <= g - 1
        <5>1. Line[i] \in Nat /\ Line[i] > 0 /\ g \in Nat
          BY <1>1, <3>2
        <5> QED
          BY <3>2, <5>1
      <4> QED
        BY <4>1
    <3> QED
      BY <3>1, <3>3 DEF OrderInv, InLine
  <2>2. \A e \in 1 .. g - 1 : \E m \in 1 .. f - 1 : Line[m] = e
    <3> SUFFICES ASSUME NEW e \in 1 .. g - 1
                 PROVE  \E m \in 1 .. f - 1 : Line[m] = e
      OBVIOUS
    <3>1. e \in Fetches /\ e < g
      <4>1. g \in Nat /\ g <= MaxFetches /\ MaxFetches \in Nat
        BY CookieNumbers DEF Fetches
      <4> QED
        BY <4>1 DEF Fetches
    <3>2. PICK m \in DOMAIN Line : m < f /\ Line[m] = e
      BY <1>7, <3>1
    <3> QED
      BY <1>1, <3>2
  <2>3. /\ IsFiniteSet(1 .. f - 1) /\ Cardinality(1 .. f - 1) = f - 1
        /\ IsFiniteSet(1 .. g - 1) /\ Cardinality(1 .. g - 1) = g - 1
    <3>1. \A k \in Nat : k > 0 =>
            IsFiniteSet(1 .. k - 1) /\ Cardinality(1 .. k - 1) = k - 1
      <4> SUFFICES ASSUME NEW k \in Nat, k > 0
                   PROVE  IsFiniteSet(1 .. k - 1)
                            /\ Cardinality(1 .. k - 1) = k - 1
        OBVIOUS
      <4>1. 1 \in Int /\ k - 1 \in Int
        OBVIOUS
      <4>2. /\ IsFiniteSet(1 .. k - 1)
            /\ Cardinality(1 .. k - 1) = IF 1 > k - 1 THEN 0 ELSE (k - 1) - 1 + 1
        BY <4>1, FS_Interval
      <4> QED
        BY <4>2
    <3> QED
      BY <1>1, <3>1
  <2>4. CASE f - 1 > g - 1
    <3>1. PICK F : F = [i \in 1 .. f - 1 |-> Line[i]]
      OBVIOUS
    <3>2. F \in [1 .. f - 1 -> 1 .. g - 1]
            /\ \A i \in 1 .. f - 1 : F[i] = Line[i]
      BY <2>1, <3>1
    <3>3. Cardinality(1 .. g - 1) < Cardinality(1 .. f - 1)
      BY <1>1, <2>3, <2>4
    <3>4. \E i, j \in 1 .. f - 1 : i # j /\ F[i] = F[j]
      <4>1. PICK S, T : S = 1 .. f - 1 /\ T = 1 .. g - 1
        OBVIOUS
      <4>2. /\ IsFiniteSet(S) /\ IsFiniteSet(T) /\ F \in [S -> T]
            /\ Cardinality(T) < Cardinality(S)
        BY <2>3, <3>2, <3>3, <4>1
      <4>3. \E i, j \in S : i # j /\ F[i] = F[j]
        BY <4>2, FS_PigeonHole
      <4> QED
        BY <4>1, <4>3
    <3> QED
      BY <2>1, <3>2, <3>4
  <2>5. CASE g - 1 > f - 1
    <3>1. PICK F :
            F = [e \in 1 .. g - 1 |-> CHOOSE m \in 1 .. f - 1 : Line[m] = e]
      OBVIOUS
    <3>2. \A e \in 1 .. g - 1 : F[e] \in 1 .. f - 1 /\ Line[F[e]] = e
      BY <2>2, <3>1
    <3>3. F \in [1 .. g - 1 -> 1 .. f - 1]
      BY <3>1, <3>2
    <3>4. Cardinality(1 .. f - 1) < Cardinality(1 .. g - 1)
      BY <1>1, <2>3, <2>5
    <3>5. \E i, j \in 1 .. g - 1 : i # j /\ F[i] = F[j]
      <4>1. PICK S, T : S = 1 .. g - 1 /\ T = 1 .. f - 1
        OBVIOUS
      <4>2. /\ IsFiniteSet(S) /\ IsFiniteSet(T) /\ F \in [S -> T]
            /\ Cardinality(T) < Cardinality(S)
        BY <2>3, <3>3, <3>4, <4>1
      <4>3. \E i, j \in S : i # j /\ F[i] = F[j]
        BY <4>2, FS_PigeonHole
      <4> QED
        BY <4>1, <4>3
    <3> QED
      BY <3>2, <3>5
  <2> QED
    BY <1>1, <1>4, <2>4, <2>5
<1> QED
  BY <1>5, <1>6, <1>7

-----------------------------------------------------------------------------
\* h is not in the store s, or is deleted before what that store is asked next
Wiped(s, h) == h \notin jar[s] \/ Deleting(held[s], h)

\* The next listing asked will not name h
Gone(h) == DeletesLast(cookieTasks, h)
    \/ (NoPath(cookieTasks) /\ Wiped(store, h))

\* The listing f, under way, will not name h
Hides(f, h) ==
  /\ Fetching(cookieTasks, f) =>
       WipedFirst(cookieTasks, f, h)
           \/ (FirstLeg(cookieTasks, f) /\ Wiped(store, h))
  /\ \A s \in Stores : Fetching(held[s], f) =>
       h \notin jar[s] \/ WipedFirst(held[s], f, h)

(***************************************************************************)
(* The second inductive invariant: a cookie the application deleted before *)
(* it asked for a listing is not in the store when the listing is made, or *)
(* a deletion of it is still ahead of the listing in the same queue.       *)
(***************************************************************************)
Hidden ==
  /\ \A h \in deleted : Gone(h)
  /\ \A f \in Fetches : /\ f > fetches => result[f] = {}
                        /\ result[f] \cap absent[f] = {}
                        /\ \A h \in absent[f] : Hides(f, h)

\* The application asks for an operation on the store, or changes it
LEMMA HiddenOfPut ==
  ASSUME CookiesTypeOK, Hidden, NEW o \in CookieTask, o.op # "fetch",
         cookieTasks' = Append(cookieTasks, o),
         UNCHANGED <<fetches, store, held, jar, result, absent>>,
         \A h \in deleted' : Wipes(o, h) \/ (h \in deleted /\ o.op # "path")
  PROVE  Hidden'
<1>1. \A f : ~Asks(o, f)
  BY DEF Asks
<1>2. /\ \A f : Fetching(cookieTasks', f) <=> Fetching(cookieTasks, f)
      /\ \A f, h : WipedFirst(cookieTasks, f, h) =>
           WipedFirst(cookieTasks', f, h)
      /\ \A f : FirstLeg(cookieTasks, f) => FirstLeg(cookieTasks', f)
      /\ o.op # "path" => /\ NoPath(cookieTasks) => NoPath(cookieTasks')
                          /\ \A h : DeletesLast(cookieTasks, h) =>
                               DeletesLast(cookieTasks', h)
      /\ \A h : Wipes(o, h) => DeletesLast(cookieTasks', h)
  BY <1>1, TaskPut, CookieTypes
<1>3. \A h : Wiped(store, h)' <=> Wiped(store, h)
  BY DEF Wiped
<1>4. ASSUME NEW h \in deleted' PROVE Gone(h)'
  BY <1>2, <1>3 DEF Hidden, Gone
<1>5. ASSUME NEW f \in Fetches, NEW h \in absent[f] PROVE Hides(f, h)'
  <2>1. Hides(f, h)
    BY DEF Hidden
  <2> QED
    BY <1>2, <1>3, <2>1 DEF Hides
<1> QED
  BY <1>4, <1>5 DEF Hidden

LEMMA HiddenOfAsking ==
  ASSUME OrderInv, Hidden, GetHostNamesWithCookies
  PROVE  Hidden'
<1>1. /\ CookiesTypeOK /\ fetches' = fetches + 1 /\ fetches < MaxFetches
      /\ absent' = [absent EXCEPT ![fetches + 1] = deleted]
      /\ UNCHANGED <<store, held, jar, result, deleted>>
  BY DEF OrderInv, GetHostNamesWithCookies, stores
<1>2. PICK g \in Fetches : g = fetches + 1 /\ g \in Nat /\ g > fetches
  BY <1>1, CookieNumbers, CookieTypes DEF Fetches
<1>3. absent'[g] = deleted /\ \A f \in Fetches : f # g =>
        absent'[f] = absent[f]
  BY <1>1, <1>2 DEF CookiesTypeOK
<1>4. PICK o : o = [op |-> "fetch", f |-> g]
  OBVIOUS
<1>5. /\ o \in CookieTask /\ cookieTasks' = Append(cookieTasks, o)
           /\ Asks(o, g)
      /\ \A f : Asks(o, f) => f = g
  BY <1>2, <1>4 DEF GetHostNamesWithCookies, CookieTask, Operation, Asks
<1>6. o.op # "path"
  BY <1>4
<1>7. /\ \A f : f # g =>
           (Fetching(cookieTasks', f) <=> Fetching(cookieTasks, f))
      /\ \A f, h : WipedFirst(cookieTasks, f, h) =>
           WipedFirst(cookieTasks', f, h)
      /\ \A f : FirstLeg(cookieTasks, f) => FirstLeg(cookieTasks', f)
      /\ NoPath(cookieTasks) =>
           NoPath(cookieTasks') /\ FirstLeg(cookieTasks', g)
      /\ \A h : DeletesLast(cookieTasks, h) =>
                  DeletesLast(cookieTasks', h)
                      /\ WipedFirst(cookieTasks', g, h)
  <2>1. cookieTasks \in Seq(CookieTask)
    BY <1>1, CookieTypes
  <2> QED
    BY <1>5, <1>6, <2>1, TaskPut
<1>8. \A h : Wiped(store, h)' <=> Wiped(store, h)
  BY <1>1 DEF Wiped
<1>9. ASSUME NEW h \in deleted' PROVE Gone(h)'
  BY <1>1, <1>7, <1>8 DEF Hidden, Gone
<1>10. ASSUME NEW f \in Fetches, NEW h \in absent'[f] PROVE Hides(f, h)'
  <2>1. CASE f = g
    <3>1. h \in deleted /\ Gone(h)
      BY <1>3, <2>1 DEF Hidden
    <3>2. \A s \in Stores : ~Fetching(held[s], g)
      BY <1>2, CookieTypes, <1>1 DEF OrderInv, Placed
    <3>3. WipedFirst(cookieTasks', g, h)
            \/ (FirstLeg(cookieTasks', g) /\ Wiped(store, h)')
      BY <1>7, <1>8, <3>1 DEF Gone
    <3> QED
      BY <1>1, <2>1, <3>2, <3>3 DEF Hides
  <2>2. CASE f # g
    <3>1. Hides(f, h)
      BY <1>3, <2>2 DEF Hidden
    <3> QED
      BY <1>1, <1>7, <1>8, <2>2, <3>1 DEF Hides
  <2> QED
    BY <2>1, <2>2
<1>11. ASSUME NEW f \in Fetches
       PROVE  (f > fetches' => result'[f] = {})
                /\ result'[f] \cap absent'[f] = {}
  <2>1. f \in Nat /\ fetches \in Nat /\ result'[f] = result[f]
    BY <1>1, CookieNumbers, CookieTypes
  <2>2. f > fetches' => f > fetches
    BY <1>1, <2>1
  <2>3. f = g => result[f] = {}
    BY <1>2 DEF Hidden
  <2>4. f # g => result[f] \cap absent'[f] = {}
    BY <1>3 DEF Hidden
  <2> QED
    BY <2>1, <2>2, <2>3, <2>4 DEF Hidden
<1> QED
  BY <1>9, <1>10, <1>11 DEF Hidden

\* What executing an operation does to the store and to its listing
LEMMA Executed ==
  ASSUME CookiesTypeOK, NEW s \in Stores, NEW o \in Operation, Execute(s, o)
  PROVE  /\ \A h : \A x \in Stores : h \notin jar[x] => h \notin jar'[x]
         /\ \A h : Wipes(o, h) => h \notin jar'[s]
         /\ \A f \in Fetches : result'[f] = result[f]
              \/ (Asks(o, f) /\ result'[f] = jar[s])
<1>1. jar \in [Stores -> SUBSET Cookies] /\ result \in [Fetches -> SUBSET Cookies]
  BY DEF CookiesTypeOK
<1>2. o.op = "delete" => jar' = [jar EXCEPT ![s] = jar[s] \ Selected(o.url)]
  BY DEF Execute
<1>3. o.op # "delete" => jar' = jar
  BY DEF Execute
<1>4. \A h : \A x \in Stores : h \notin jar[x] => h \notin jar'[x]
  BY <1>1, <1>2, <1>3
<1>5. \A h : Wipes(o, h) => h \notin jar'[s]
  BY <1>1, <1>2 DEF Wipes
<1>6. ASSUME NEW f \in Fetches
      PROVE  result'[f] = result[f] \/ (Asks(o, f) /\ result'[f] = jar[s])
  BY <1>1 DEF Execute, Asks
<1> QED
  BY <1>4, <1>5, <1>6

LEMMA HiddenOfAskStore ==
  ASSUME OrderInv, Hidden, AskStore
  PROVE  Hidden'
<1>1. /\ CookiesTypeOK /\ cookieTasks \in Seq(CookieTask) /\ store \in Stores
      /\ cookieTasks # <<>> /\ cookieTasks' = Tail(cookieTasks)
      /\ UNCHANGED <<fetches, store, deleted, absent>>
  BY CookieTypes DEF OrderInv, AskStore
<1>2. PICK o \in Operation : o = Head(cookieTasks)
  BY <1>1, TaskTake DEF AskStore, CookieTask
<1>3. \/ held[store] = <<>> /\ Execute(store, o) /\ held' = held
      \/ held' = [held EXCEPT ![store] = Append(@, o)] /\ jar' = jar
           /\ result' = result
  BY <1>2 DEF AskStore
<1>4. /\ \A f : Fetching(cookieTasks, f) <=>
           Fetching(cookieTasks', f) \/ Asks(o, f)
      /\ NoPath(cookieTasks) => NoPath(cookieTasks')
      /\ \A f, h : WipedFirst(cookieTasks, f, h) =>
                     /\ WipedFirst(cookieTasks', f, h)
                          \/ (Wipes(o, h) /\ FirstLeg(cookieTasks', f))
                     /\ Fetching(cookieTasks', f)
      /\ \A f : FirstLeg(cookieTasks, f) =>
           FirstLeg(cookieTasks', f) \/ Asks(o, f)
      /\ \A h : DeletesLast(cookieTasks, h) =>
                  DeletesLast(cookieTasks', h)
                      \/ (Wipes(o, h) /\ NoPath(cookieTasks'))
  BY <1>1, <1>2, TaskTake
<1>5. \A f \in Fetches : Asks(o, f) => ~Fetching(cookieTasks', f)
  <2>1. \A f, e : Asks(o, f) /\ Fetching(cookieTasks', e) => f < e
    BY <1>1, <1>2, TaskTake DEF OrderInv, InQueues
  <2> QED
    BY <2>1, CookieNumbers
<1>6. ASSUME NEW h PROVE (Wiped(store, h) \/ Wipes(o, h)) => Wiped(store, h)'
  <2>1. CASE held[store] = <<>> /\ Execute(store, o) /\ held' = held
    <3>1. ~Deleting(held[store], h)
      BY <2>1 DEF Deleting
    <3> QED
      BY <1>1, <2>1, <3>1, Executed DEF Wiped
  <2>2. CASE held' = [held EXCEPT ![store] = Append(@, o)] /\ jar' = jar
    <3>1. held'[store] = Append(held[store], o)
            /\ held[store] \in Seq(CookieTask) /\ o \in CookieTask
      BY <1>1, <2>2, HeldPut, CookieTypes, OperationParts
    <3>2. Deleting(held[store], h) \/ Wipes(o, h) => Deleting(held'[store], h)
      BY <3>1, TaskPut
    <3> QED
      BY <1>1, <2>2, <3>2 DEF Wiped
  <2> QED
    BY <1>3, <2>1, <2>2
<1>7. ASSUME NEW h \in deleted' PROVE Gone(h)'
  BY <1>1, <1>4, <1>6 DEF Hidden, Gone
<1>8. ASSUME NEW f \in Fetches, Asks(o, f), NEW h \in absent[f]
      PROVE  Wiped(store, h)
  <2>1. Hides(f, h) /\ Fetching(cookieTasks, f)
          /\ ~WipedFirst(cookieTasks, f, h)
    BY <1>4, <1>5, <1>8 DEF Hidden
  <2> QED
    BY <2>1 DEF Hides
<1>9. ASSUME NEW f \in Fetches, NEW h \in absent'[f] PROVE Hides(f, h)'
  <2>1. h \in absent[f] /\ Hides(f, h)
    BY <1>1 DEF Hidden
  <2>2. Fetching(cookieTasks', f) =>
          WipedFirst(cookieTasks', f, h)
              \/ (FirstLeg(cookieTasks', f) /\ Wiped(store, h)')
    BY <1>4, <1>5, <1>6, <2>1 DEF Hides
  <2>3. ASSUME NEW s \in Stores, Fetching(held'[s], f)
        PROVE  h \notin jar'[s] \/ WipedFirst(held'[s], f, h)
    <3>1. CASE held[store] = <<>> /\ Execute(store, o) /\ held' = held
      <4>1. h \notin jar[s] \/ WipedFirst(held[s], f, h)
        BY <2>1, <2>3, <3>1 DEF Hides
      <4> QED
        BY <1>1, <3>1, <4>1, Executed
    <3>2. CASE held' = [held EXCEPT ![store] = Append(@, o)] /\ jar' = jar
      <4>1. /\ held'[store] = Append(held[store], o)
                 /\ held[store] \in Seq(CookieTask) /\ o \in CookieTask
            /\ \A x \in Stores : x # store => held'[x] = held[x]
        BY <1>1, <3>2, HeldPut, CookieTypes, OperationParts
      <4>2. CASE s # store
        BY <2>1, <2>3, <3>2, <4>1, <4>2 DEF Hides
      <4>3. CASE s = store /\ Asks(o, f)
        <5>1. NoPath(held[store])
          <6>1. held[store] \in Seq(Operation)
            BY <1>1, CookieTypes
          <6> QED
            BY <6>1, ElementOfSeq, OperationParts DEF NoPath
        <5>2. Wiped(store, h)
          BY <1>8, <2>1, <4>3
        <5>3. Deleting(held[store], h) => WipedFirst(held'[store], f, h)
          BY <4>1, <4>3, <5>1, TaskPut
        <5> QED
          BY <3>2, <4>3, <5>2, <5>3 DEF Wiped
      <4>4. CASE s = store /\ ~Asks(o, f)
        <5>1. Fetching(held[s], f)
          BY <2>3, <4>1, <4>4, TaskPut
        <5>2. WipedFirst(held[s], f, h) => WipedFirst(held'[s], f, h)
          BY <4>1, <4>4, TaskPut
        <5> QED
          BY <2>1, <3>2, <5>1, <5>2 DEF Hides
      <4> QED
        BY <4>2, <4>3, <4>4
    <3> QED
      BY <1>3, <3>1, <3>2
  <2> QED
    BY <2>2, <2>3 DEF Hides
<1>10. ASSUME NEW f \in Fetches
       PROVE  (f > fetches' => result'[f] = {})
                /\ result'[f] \cap absent'[f] = {}
  <2>1. CASE result'[f] = result[f]
    BY <1>1, <2>1 DEF Hidden
  <2>2. CASE held[store] = <<>> /\ Asks(o, f) /\ result'[f] = jar[store]
    <3>1. \A h : ~Deleting(held[store], h)
      BY <2>2 DEF Deleting
    <3>2. \A h \in absent[f] : h \notin jar[store]
      BY <1>8, <2>2, <3>1 DEF Wiped
    <3>3. f <= fetches /\ f \in Nat /\ fetches \in Nat
      BY <1>1, <1>4, <2>2, CookieNumbers, CookieTypes DEF OrderInv, Placed
    <3> QED
      BY <1>1, <2>2, <3>2, <3>3
  <2> QED
    BY <1>1, <1>3, <2>1, <2>2, Executed
<1> QED
  BY <1>7, <1>9, <1>10 DEF Hidden

\* Nothing is deleted: the task asks, deletes and moves nothing
LEMMA HiddenOfNothing ==
  ASSUME OrderInv, Hidden, DeleteNothing
  PROVE  Hidden'
<1>1. /\ cookieTasks \in Seq(CookieTask) /\ cookieTasks # <<>>
      /\ cookieTasks' = Tail(cookieTasks) /\ NoUrl(Head(cookieTasks))
      /\ UNCHANGED <<fetches, store, held, jar, result, deleted, absent>>
  BY CookieTypes DEF OrderInv, DeleteNothing, stores, history
<1>2. \A f, h : ~Wipes(Head(cookieTasks), h) /\ ~Asks(Head(cookieTasks), f)
  BY <1>1 DEF Wipes, Asks, NoUrl, Selected, Cookies
<1>3. /\ \A f : Fetching(cookieTasks', f) <=> Fetching(cookieTasks, f)
      /\ NoPath(cookieTasks) => NoPath(cookieTasks')
      /\ \A f : FirstLeg(cookieTasks, f) => FirstLeg(cookieTasks', f)
      /\ \A f, h : WipedFirst(cookieTasks, f, h) =>
           WipedFirst(cookieTasks', f, h)
      /\ \A h : DeletesLast(cookieTasks, h) => DeletesLast(cookieTasks', h)
  BY <1>1, <1>2, TaskTake
<1>4. \A h : Wiped(store, h)' <=> Wiped(store, h)
  BY <1>1 DEF Wiped
<1>5. ASSUME NEW h \in deleted' PROVE Gone(h)'
  BY <1>1, <1>3, <1>4 DEF Hidden, Gone
<1>6. ASSUME NEW f \in Fetches, NEW h \in absent[f] PROVE Hides(f, h)'
  <2>1. Hides(f, h)
    BY DEF Hidden
  <2> QED
    BY <1>1, <1>3, <1>4, <2>1 DEF Hides
<1> QED
  BY <1>1, <1>5, <1>6 DEF Hidden

LEMMA HiddenOfChangeStore ==
  ASSUME OrderInv, Hidden, ChangeStore
  PROVE  Hidden'
<1>1. /\ CookiesTypeOK /\ cookieTasks \in Seq(CookieTask) /\ cookieTasks # <<>>
      /\ cookieTasks' = Tail(cookieTasks) /\ Head(cookieTasks).op = "path"
      /\ UNCHANGED <<fetches, held, result, deleted, absent>>
  BY CookieTypes DEF OrderInv, ChangeStore, history
<1>2. \A h : ~Wipes(Head(cookieTasks), h)
  BY <1>1 DEF Wipes
<1>3. /\ \A f : Fetching(cookieTasks', f) => Fetching(cookieTasks, f)
      /\ ~NoPath(cookieTasks) /\ \A f : ~FirstLeg(cookieTasks, f)
      /\ \A f, h : WipedFirst(cookieTasks, f, h) =>
           WipedFirst(cookieTasks', f, h)
      /\ \A h : DeletesLast(cookieTasks, h) => DeletesLast(cookieTasks', h)
  BY <1>1, <1>2, TaskTake
<1>4. ASSUME NEW s \in Stores, held[s] # <<>> PROVE jar'[s] = jar[s]
  <2>1. s <= store /\ s \in Nat /\ store \in Nat
          /\ jar \in [Stores -> SUBSET Cookies]
    BY <1>1, <1>4, CookieTypes, CookieNumbers
       DEF OrderInv, InQueues, CookiesTypeOK
  <2>2. s # store + 1
    BY <2>1
  <2> QED
    BY <2>1, <2>2 DEF ChangeStore
<1>5. ASSUME NEW h \in deleted' PROVE Gone(h)'
  BY <1>1, <1>3 DEF Hidden, Gone
<1>6. ASSUME NEW f \in Fetches, NEW h \in absent[f] PROVE Hides(f, h)'
  <2>1. Hides(f, h)
    BY DEF Hidden
  <2>2. ASSUME NEW s \in Stores, Fetching(held[s], f)
        PROVE  h \notin jar'[s] \/ WipedFirst(held[s], f, h)
    <3>1. held[s] # <<>>
      BY <2>2, EmptyAscends
    <3> QED
      BY <1>4, <2>1, <2>2, <3>1 DEF Hides
  <2>3. Fetching(cookieTasks', f) => WipedFirst(cookieTasks', f, h)
    BY <1>3, <2>1 DEF Hides
  <2> QED
    BY <1>1, <2>2, <2>3 DEF Hides
<1> QED
  BY <1>1, <1>5, <1>6 DEF Hidden

\* Steps that only take from the stores' contents and queues
LEMMA HiddenOfLess ==
  ASSUME Hidden,
         UNCHANGED <<cookieTasks, fetches, store, deleted, absent>>, store \in Stores,
         \A h : \A s \in Stores : Wiped(s, h) => Wiped(s, h)',
         \A s \in Stores : \A f, h :
           /\ Fetching(held'[s], f) => Fetching(held[s], f)
           /\ h \notin jar[s] => h \notin jar'[s]
           /\ Fetching(held'[s], f) /\ WipedFirst(held[s], f, h) =>
                h \notin jar'[s] \/ WipedFirst(held'[s], f, h),
         \A f \in Fetches : result'[f] = result[f]
                            \/ (f <= fetches
                                 /\ result'[f] \cap absent[f] = {}),
         fetches \in Nat, Fetches \subseteq Nat
  PROVE  Hidden'
<1>1. \A h : Wiped(store, h) => Wiped(store, h)'
  OBVIOUS
<1>2. ASSUME NEW h \in deleted' PROVE Gone(h)'
  BY <1>1 DEF Hidden, Gone
<1>3. ASSUME NEW f \in Fetches, NEW h \in absent[f] PROVE Hides(f, h)'
  <2>1. Hides(f, h)
    BY DEF Hidden
  <2>2. ASSUME NEW s \in Stores, Fetching(held'[s], f)
        PROVE  h \notin jar'[s] \/ WipedFirst(held'[s], f, h)
    BY <2>1, <2>2 DEF Hides
  <2>3. Fetching(cookieTasks', f) =>
          WipedFirst(cookieTasks', f, h)
              \/ (FirstLeg(cookieTasks', f) /\ Wiped(store, h)')
    BY <1>1, <2>1 DEF Hides
  <2> QED
    BY <2>2, <2>3 DEF Hides
<1>4. ASSUME NEW f \in Fetches
      PROVE  (f > fetches' => result'[f] = {})
               /\ result'[f] \cap absent'[f] = {}
  <2>1. CASE result'[f] = result[f]
    BY <2>1 DEF Hidden
  <2>2. CASE f <= fetches /\ result'[f] \cap absent[f] = {}
    <3>1. f \in Nat /\ ~(f > fetches)
      BY <2>2
    <3> QED
      BY <2>2, <3>1
  <2> QED
    BY <2>1, <2>2
<1> QED
  BY <1>2, <1>3, <1>4 DEF Hidden

LEMMA HiddenOfRunHeld ==
  ASSUME OrderInv, Hidden, NEW s \in Stores, RunHeld(s)
  PROVE  Hidden'
<1>1. /\ CookiesTypeOK /\ store \in Stores /\ fetches \in Nat
           /\ Fetches \subseteq Nat
      /\ held[s] # <<>> /\ held' = [held EXCEPT ![s] = Tail(@)]
           /\ held[s] \in Seq(CookieTask)
      /\ UNCHANGED <<cookieTasks, fetches, store, deleted, absent>>
  BY CookieTypes, CookieNumbers DEF OrderInv, RunHeld
<1>2. PICK o \in Operation : o = Head(held[s]) /\ Execute(s, o)
  BY <1>1, HeldTake DEF RunHeld
<1>3. /\ \A f : Fetching(held[s], f) <=> Fetching(held'[s], f) \/ Asks(o, f)
      /\ \A x \in Stores : x # s => held'[x] = held[x]
      /\ \A f, e : Asks(o, f) /\ Fetching(held'[s], e) => f < e
      /\ held'[s] = Tail(held[s])
  BY <1>1, <1>2, HeldTake DEF OrderInv, InQueues
<1>4. /\ \A h : Deleting(held[s], h) => Deleting(held'[s], h) \/ Wipes(o, h)
      /\ \A f, h : WipedFirst(held[s], f, h) =>
                     (WipedFirst(held'[s], f, h) \/ Wipes(o, h))
                         /\ Fetching(held'[s], f)
  BY <1>1, <1>2, <1>3, TaskTake
<1>5. /\ \A h : \A x \in Stores : h \notin jar[x] => h \notin jar'[x]
      /\ \A h : Wipes(o, h) => h \notin jar'[s]
      /\ \A f \in Fetches : result'[f] = result[f]
           \/ (Asks(o, f) /\ result'[f] = jar[s])
  BY <1>1, <1>2, Executed
<1>6. ASSUME NEW h, NEW x \in Stores, Wiped(x, h) PROVE Wiped(x, h)'
  BY <1>3, <1>4, <1>5, <1>6 DEF Wiped
<1>7. ASSUME NEW x \in Stores, NEW f, NEW h
      PROVE  /\ Fetching(held'[x], f) => Fetching(held[x], f)
             /\ h \notin jar[x] => h \notin jar'[x]
             /\ Fetching(held'[x], f) /\ WipedFirst(held[x], f, h) =>
                  h \notin jar'[x] \/ WipedFirst(held'[x], f, h)
  BY <1>3, <1>4, <1>5
<1>8. ASSUME NEW f \in Fetches, Asks(o, f)
      PROVE  f <= fetches /\ jar[s] \cap absent[f] = {}
  <2>1. Fetching(held[s], f) /\ f \in Nat
    BY <1>1, <1>3, <1>8
  <2>2. f <= fetches
    BY <2>1 DEF OrderInv, Placed
  <2>3. ASSUME NEW h \in absent[f] PROVE h \notin jar[s]
    <3>1. Hides(f, h)
      BY DEF Hidden
    <3>2. ~Fetching(held'[s], f)
      BY <1>3, <1>8, <2>1
    <3> QED
      BY <1>4, <2>1, <3>1, <3>2 DEF Hides
  <2> QED
    BY <2>2, <2>3
<1>9. \A f \in Fetches : result'[f] = result[f]
                         \/ (f <= fetches /\ result'[f] \cap absent[f] = {})
  BY <1>5, <1>8
<1> QED
  BY <1>1, <1>6, <1>7, <1>9, HiddenOfLess

LEMMA HiddenOfHostLoads ==
  ASSUME OrderInv, Hidden, NEW s \in Stores, HostLoads(s)
  PROVE  Hidden'
<1>1. /\ CookiesTypeOK /\ store \in Stores /\ fetches \in Nat
           /\ Fetches \subseteq Nat
      /\ held \in [Stores -> Seq(Operation)]
      /\ UNCHANGED <<cookieTasks, fetches, store, deleted, absent, jar, result>>
  BY CookieTypes, CookieNumbers DEF OrderInv, CookiesTypeOK, HostLoads, history
<1>2. PICK i \in DOMAIN held[s] :
        /\ held[s][i].op = "value"
        /\ held' = [held EXCEPT ![s] = SubSeq(@, 1, i - 1) \o SubSeq(@, i + 1, Len(@))]
  BY DEF HostLoads
<1>3. /\ held'[s] = SubSeq(held[s], 1, i - 1) \o SubSeq(held[s], i + 1, Len(held[s]))
      /\ \A x \in Stores : x # s => held'[x] = held[x]
  BY <1>1, <1>2
<1>4. /\ \A f : Fetching(held'[s], f) <=> Fetching(held[s], f)
      /\ \A h : Deleting(held[s], h) => Deleting(held'[s], h)
      /\ \A f, h : WipedFirst(held[s], f, h) => WipedFirst(held'[s], f, h)
  BY <1>1, <1>2, <1>3, TaskDrop
<1>5. ASSUME NEW h, NEW x \in Stores, Wiped(x, h) PROVE Wiped(x, h)'
  BY <1>1, <1>3, <1>4, <1>5 DEF Wiped
<1>6. ASSUME NEW x \in Stores, NEW f, NEW h
      PROVE  /\ Fetching(held'[x], f) => Fetching(held[x], f)
             /\ h \notin jar[x] => h \notin jar'[x]
             /\ Fetching(held'[x], f) /\ WipedFirst(held[x], f, h) =>
                  h \notin jar'[x] \/ WipedFirst(held'[x], f, h)
  BY <1>1, <1>3, <1>4
<1> QED
  BY <1>1, <1>5, <1>6, HiddenOfLess

LEMMA HiddenOfCookieSet ==
  ASSUME CookiesTypeOK, Hidden, NEW g \in Cookies, CookieSet(g)
  PROVE  Hidden'
<1>1. /\ UNCHANGED <<cookieTasks, fetches, store, held, result>>
      /\ jar' = [jar EXCEPT ![store] = @ \cup {g}]
           /\ jar \in [Stores -> SUBSET Cookies]
      /\ deleted' = deleted \ {g}
           /\ absent' = [f \in Fetches |-> absent[f] \ {g}]
  BY DEF CookieSet, CookiesTypeOK
<1>2. \A h : \A s \in Stores : h # g => (h \in jar'[s] <=> h \in jar[s])
  BY <1>1
<1>3. store \in Stores
  BY CookieTypes
<1>4. \A h : h # g => (Wiped(store, h)' <=> Wiped(store, h))
  BY <1>1, <1>2, <1>3 DEF Wiped
<1>5. ASSUME NEW h \in deleted' PROVE Gone(h)'
  <2>1. h \in deleted /\ h # g
    BY <1>1
  <2> QED
    BY <1>1, <1>4, <2>1 DEF Hidden, Gone
<1>6. ASSUME NEW f \in Fetches, NEW h \in absent'[f] PROVE Hides(f, h)'
  <2>1. h \in absent[f] /\ h # g
    BY <1>1
  <2>2. Hides(f, h)
    BY <2>1 DEF Hidden
  <2>3. ASSUME NEW s \in Stores, Fetching(held'[s], f)
        PROVE  h \notin jar'[s] \/ WipedFirst(held'[s], f, h)
    BY <1>1, <1>2, <2>1, <2>2, <2>3 DEF Hides
  <2>4. Fetching(cookieTasks', f) =>
          WipedFirst(cookieTasks', f, h)
              \/ (FirstLeg(cookieTasks', f) /\ Wiped(store, h)')
    BY <1>1, <1>4, <2>1, <2>2 DEF Hides
  <2> QED
    BY <2>3, <2>4 DEF Hides
<1>7. \A f \in Fetches : (f > fetches' => result'[f] = {})
        /\ result'[f] \cap absent'[f] = {}
  BY <1>1 DEF Hidden
<1> QED
  BY <1>5, <1>6, <1>7 DEF Hidden

LEMMA HiddenSame ==
  ASSUME Hidden, UNCHANGED <<cookieTasks, fetches, store, held, jar, result, deleted, absent>>
  PROVE  Hidden'
  BY DEF Hidden, Gone, Hides, Wiped

LEMMA HiddenNext ==
  ASSUME OrderInv, Hidden, [CookiesNext]_cookiesVars
  PROVE  Hidden'
<1>1. CookiesTypeOK
  BY DEF OrderInv
<1>2. ASSUME NEW url \in Urls, DeleteCookies(url)
      PROVE  Hidden'
  <2>1. PICK o : o = [op |-> "delete", url |-> url]
    OBVIOUS
  <2>2. /\ o \in CookieTask /\ o.op # "fetch" /\ o.op # "path"
             /\ cookieTasks' = Append(cookieTasks, o)
        /\ \A h \in deleted' : Wipes(o, h) \/ h \in deleted
    BY <1>2, <2>1 DEF CookieTask, Operation, DeleteCookies, Wipes
  <2>3. UNCHANGED <<fetches, store, held, jar, result, absent>>
    BY <1>2 DEF DeleteCookies, stores
  <2> QED
    BY <1>1, <2>2, <2>3, HiddenOfPut
<1>3. ASSUME SetStoragePath
      PROVE  Hidden'
  <2>1. PICK o : o = [op |-> "path"]
    OBVIOUS
  <2>2. o \in CookieTask /\ o.op # "fetch"
          /\ cookieTasks' = Append(cookieTasks, o) /\ deleted' = {}
    BY <1>3, <2>1 DEF CookieTask, SetStoragePath
  <2>3. UNCHANGED <<fetches, store, held, jar, result, absent>>
    BY <1>3 DEF SetStoragePath, stores
  <2> QED
    BY <1>1, <2>2, <2>3, HiddenOfPut
<1>4. ASSUME GetCookiesForURL
      PROVE  Hidden'
  <2>1. PICK o : o = [op |-> "value"]
    OBVIOUS
  <2>2. /\ o \in CookieTask /\ o.op # "fetch" /\ o.op # "path"
             /\ cookieTasks' = Append(cookieTasks, o)
        /\ deleted' = deleted
    BY <1>4, <2>1 DEF CookieTask, Operation, GetCookiesForURL, history
  <2>3. UNCHANGED <<fetches, store, held, jar, result, absent>>
    BY <1>4 DEF GetCookiesForURL, stores, history
  <2> QED
    BY <1>1, <2>2, <2>3, HiddenOfPut
<1>5. CASE UiCall
  <2>1. CASE \E url \in Urls : DeleteCookies(url)
    BY <1>2, <2>1
  <2> QED
    BY <1>3, <1>4, <1>5, <2>1, HiddenOfAsking DEF UiCall
<1>6. CASE IoTask
  BY <1>6, HiddenOfAskStore, HiddenOfNothing, HiddenOfChangeStore DEF IoTask
<1>7. ASSUME NEW s \in Stores, StoreTask(s) PROVE Hidden'
  <2>1. CASE StoreLoads(s)
    BY <2>1, HiddenSame DEF StoreLoads, history
  <2> QED
    BY <1>7, <2>1, HiddenOfRunHeld, HiddenOfHostLoads DEF StoreTask
<1>8. CASE OnFetchComplete
  <2>1. UNCHANGED <<cookieTasks, fetches, store, held, jar, result, deleted, absent>>
    BY <1>8 DEF OnFetchComplete, stores
  <2> QED
    BY <2>1, HiddenSame
<1>9. CASE UNCHANGED cookiesVars
  BY <1>9, HiddenSame DEF cookiesVars, stores, history
<1> QED
  BY <1>1, <1>5, <1>6, <1>7, <1>8, <1>9, HiddenOfCookieSet DEF CookiesNext

CookiesInv == OrderInv /\ Ranked /\ Hidden

LEMMA CookiesInvHolds == CookiesSpec => []CookiesInv
<1>1. ASSUME CookiesInit PROVE CookiesInv
  <2>1. OrderInv /\ Ranked
    BY <1>1, OrderInitInv, CookiesInitType
  <2>2. Hidden
    BY <1>1 DEF CookiesInit, Hidden
  <2> QED
    BY <2>1, <2>2 DEF CookiesInv
<1>2. ASSUME CookiesInv, [CookiesNext]_cookiesVars PROVE CookiesInv'
  BY <1>2, OrderNextInv, CookiesNextRanked, HiddenNext DEF CookiesInv, OrderInv
<1> QED
  BY <1>1, <1>2, PTL DEF CookiesSpec

\* Type correctness: the tasks, callbacks and stores of the cookie manager keep
\* the values the code can give them, however many calls are under way.
THEOREM CookiesTypeCorrect == CookiesSpec => []CookiesTypeOK
<1>1. CookiesInv => CookiesTypeOK
  BY DEF CookiesInv, OrderInv
<1> QED
  BY <1>1, CookiesInvHolds, PTL

\* OnFetchComplete gives each callback of GetHostNamesWithCookiesAsync its own
\* listing unless two were asked of different stores, and no listing names a
\* cookie that DeleteCookiesOnIOThread selects in a deletion asked before it
\* and that was not set again.
THEOREM ListingsAreOwn == CookiesSpec => []OwnListing
<1>1. ASSUME CookiesInv PROVE OwnListing
  <2> SUFFICES ASSUME NEW f \in Fetches
               PROVE  /\ got[f] \notin {0, f} =>
                           \E e, g \in Fetches : e < g
                               /\ usedStore[e] # usedStore[g]
                                                 /\ {e, g} \cap {f, got[f]} # {}
                      /\ result[f] \cap absent[f] = {}
    BY DEF OwnListing
  <2> QED
    BY <1>1, ListingsInOrder DEF CookiesInv, Hidden
<1> QED
  BY <1>1, CookiesInvHolds, PTL

-----------------------------------------------------------------------------
(***************************************************************************)
(* The player of URLs and the decoder: their types.                        *)
(***************************************************************************)
\* The values of the element, the bridge, its pipeline and its tasks
Bridges == [paused : BOOLEAN, seeking : BOOLEAN, ended : BOOLEAN,
            error : BOOLEAN, rate : Rates, full : BOOLEAN, file : BOOLEAN]
Pipes == [state : {"ready", "paused", "playing", "failed"},
          target : {"ready", "paused", "playing"}, async : BOOLEAN,
          thread : {"idle", "asyncDone", "clear", "error"}, installing :
              BOOLEAN]
Elements == [seeking : BOOLEAN, time : Positions,
             pending : Positions \cup {Nowhere}, asked : Positions]
UrlTasks == {"states", "timeChanged", "complete", "delete"}

LEMMA UrlInitType == UrlInit => UrlTypeOK
<1> SUFFICES ASSUME UrlInit PROVE UrlTypeOK
  OBVIOUS
<1>1. element \in Elements
  BY DEF UrlInit, Positions, Elements
<1>2. toBridge \in Seq(Command)
  <2>1. [op |-> "play"] \in Command
    BY DEF Command
  <2>2. <<>> \in Seq(Command) /\ <<[op |-> "play"]>> \in Seq(Command)
    BY <2>1
  <2> QED
    BY <2>2 DEF UrlInit
<1>3. bridge \in Bridges
  BY DEF UrlInit, Bridges, Rates
<1>4. pipe \in Pipes
  BY DEF UrlInit, Pipes
<1> QED
  BY <1>1, <1>2, <1>3, <1>4, UrlPlayerAssumption
     DEF UrlInit, UrlTypeOK, Bridges, Pipes, Elements

LEMMA WithTaskType ==
  ASSUME NEW q \in Seq(UrlTasks), NEW t \in UrlTasks
  PROVE  WithTask(q, t) \in Seq(UrlTasks)
  BY DEF WithTask

LEMMA StateSetType ==
  ASSUME NEW q \in Pipes, NEW s \in {"paused", "playing"}
  PROVE  StateSet(q, s) \in Pipes
  BY DEF StateSet, Pipes

LEMMA UrlNextType ==
  ASSUME UrlTypeOK, [UrlNext]_urlVars
  PROVE  UrlTypeOK'
<1>1. /\ bridge \in Bridges /\ pipe \in Pipes /\ urlTasks \in Seq(UrlTasks)
      /\ toBridge \in Seq(Command) /\ changed \in Nat /\ MaxUrlEvents \in Nat
      /\ events \in 0 .. MaxUrlEvents
      /\ accepted \in Positions \cup {Nowhere}
      /\ element \in Elements
      /\ life \in {"alive", "releasing", "released", "deleted"}
  BY UrlPlayerAssumption DEF UrlTypeOK, Bridges, Pipes, Elements, UrlTasks
<1> DEFINE Typed == /\ bridge \in Bridges /\ pipe \in Pipes /\ urlTasks \in Seq(UrlTasks)
                    /\ toBridge \in Seq(Command) /\ changed \in Nat
                    /\ events \in 0 .. MaxUrlEvents
                    /\ accepted \in Positions \cup {Nowhere}
                    /\ element \in Elements
                    /\ life \in {"alive", "releasing", "released", "deleted"}
<1>2. SUFFICES Typed'
  BY DEF UrlTypeOK, Bridges, Pipes, Elements, UrlTasks
<1>3. \A p \in Positions : [op |-> "seek", p |-> p] \in Command
  BY DEF Command
<1>4. \A c \in Command : Append(toBridge, c) \in Seq(Command)
  BY <1>1
<1>5. ASSUME Event PROVE events' \in 0 .. MaxUrlEvents
  BY <1>1, <1>5 DEF Event
<1>6. /\ Tail(urlTasks) \in Seq(UrlTasks) \/ urlTasks = <<>>
      /\ Tail(toBridge) \in Seq(Command) \/ toBridge = <<>>
      /\ Head(toBridge) \in Command \/ toBridge = <<>>
  BY <1>1
<1>7. \A t \in UrlTasks : /\ PostTask(t) => urlTasks' \in Seq(UrlTasks)
                          /\ PostMessage(t) => urlTasks' \in Seq(UrlTasks)
  BY <1>1, WithTaskType DEF PostTask, PostMessage
<1>8. \A s \in {"paused", "playing"} :
        SetState(s) => pipe' \in Pipes /\ urlTasks' \in Seq(UrlTasks)
  BY <1>1, <1>7, StateSetType DEF SetState, UrlTasks
<1>9. Flush => pipe' \in Pipes /\ urlTasks' \in Seq(UrlTasks)
  BY <1>1, <1>7 DEF Flush, Pipes, UrlTasks
<1>10. ASSUME NEW p \in Positions, ElementSeek(p) PROVE Typed'
  <2>1. element' \in Elements
    <3>1. [seeking |-> TRUE, time |-> p, pending |-> Nowhere, asked |-> p] \in Elements
      BY DEF Elements
    <3>2. \A v \in Positions \cup {Nowhere} :
            [element EXCEPT !.asked = p, !.pending = v] \in Elements
      BY <1>1 DEF Elements
    <3>3. (IF p = element.time THEN Nowhere ELSE p) \in Positions \cup {Nowhere}
      OBVIOUS
    <3> QED
      BY <1>10, <3>1, <3>2, <3>3 DEF ElementSeek
  <2>2. toBridge' \in Seq(Command)
    BY <1>1, <1>3, <1>4, <1>10 DEF ElementSeek, StartSeek, SendCommand
  <2> QED
    BY <1>1, <1>5, <1>10, <2>1, <2>2 DEF ElementSeek
<1>11. CASE ElementOnTimeChanged
  <2>1. element.pending \in Positions \cup {Nowhere}
    BY <1>1 DEF Elements
  <2>2. element' \in Elements
    BY <1>1, <1>11, <2>1 DEF ElementOnTimeChanged, Elements
  <2>3. toBridge' \in Seq(Command)
    BY <1>1, <1>3, <1>4, <1>11, <2>1
       DEF ElementOnTimeChanged, StartSeek, SendCommand
  <2> QED
    BY <1>1, <1>11, <2>2, <2>3 DEF ElementOnTimeChanged
<1>12. ASSUME NEW c \in Command, ElementCommand(c) PROVE Typed'
  BY <1>1, <1>4, <1>5, <1>12 DEF ElementCommand, SendCommand
<1>13. CASE PlayUrl
  <2>1. bridge' \in Bridges /\ pipe' \in Pipes /\ urlTasks' \in Seq(UrlTasks)
    BY <1>1, <1>8, <1>13 DEF PlayUrl, Bridges
  <2> QED
    BY <1>1, <1>6, <1>13, <2>1 DEF PlayUrl, ReceiveCommand
<1>14. CASE PauseUrl
  <2>1. bridge' \in Bridges /\ pipe' \in Pipes /\ urlTasks' \in Seq(UrlTasks)
    BY <1>1, <1>8, <1>14 DEF PauseUrl, DoPause, Bridges
  <2> QED
    BY <1>1, <1>6, <1>14, <2>1 DEF PauseUrl, ReceiveCommand
<1>15. CASE SetRate
  <2>1. Head(toBridge).r \in Rates
    <3>1. Head(toBridge) \in Command /\ Head(toBridge).op = "rate"
      BY <1>6, <1>15 DEF SetRate, ReceiveCommand
    <3> QED
      BY <3>1 DEF Command
  <2>2. bridge' \in Bridges /\ pipe' \in Pipes /\ urlTasks' \in Seq(UrlTasks)
    BY <1>1, <1>8, <1>9, <1>15, <2>1 DEF SetRate, Bridges, Rates
  <2> QED
    BY <1>1, <1>6, <1>15, <2>2 DEF SetRate, ReceiveCommand
<1>16. CASE Seek
  <2>1. Head(toBridge).p \in Positions
    <3>1. Head(toBridge) \in Command /\ Head(toBridge).op = "seek"
      BY <1>6, <1>16 DEF Seek, ReceiveCommand
    <3> QED
      BY <3>1 DEF Command
  <2>2. /\ pipe' \in Pipes /\ urlTasks' \in Seq(UrlTasks) /\ changed' \in Nat
        /\ accepted' \in Positions \cup {Nowhere}
    BY <1>1, <1>7, <1>9, <1>16, <2>1 DEF Seek, UrlTasks
  <2> QED
    BY <1>1, <1>6, <1>16, <2>2 DEF Seek, ReceiveCommand
<1>17. CASE SeekAccepted \/ Destroy \/ Release
  <2>1. CASE SeekAccepted
    BY <1>1, <2>1 DEF SeekAccepted, Bridges
  <2>2. CASE Destroy
    BY <1>1, <1>6, <2>2 DEF Destroy, ReceiveCommand
  <2>3. CASE Release
    BY <1>1, <1>7, <2>3 DEF Release, UrlTasks
  <2> QED
    BY <1>17, <2>1, <2>2, <2>3
<1>18. CASE OnUpdateStates
  <2>1. PICK q \in Seq(UrlTasks) : q = Tail(urlTasks)
    BY <1>6, <1>18 DEF OnUpdateStates, Runs
  <2>2. "states" \in UrlTasks /\ Append(q, "timeChanged") \in Seq(UrlTasks)
    BY DEF UrlTasks
  <2>3. bridge' \in Bridges
    BY <1>1, <1>18
       DEF OnUpdateStates, UpdateStates, PlaysAgain, HandleError, Bridges
  <2>4. pipe' \in Pipes
    BY <1>1, <1>18, StateSetType DEF OnUpdateStates, UpdateStates
  <2>5. urlTasks' \in Seq(UrlTasks)
    BY <1>18, <2>1, <2>2, WithTaskType
       DEF OnUpdateStates, UpdateStates, PlaysAgain
  <2> QED
    BY <1>1, <1>18, <2>3, <2>4, <2>5 DEF OnUpdateStates
<1>19. CASE OnTimeChanged \/ OnPlaybackComplete \/ DeleteBridge
  <2>1. CASE OnTimeChanged
    BY <1>1, <1>6, <2>1 DEF OnTimeChanged, Runs
  <2>2. CASE OnPlaybackComplete
    <3>1. bridge' \in Bridges
      BY <1>1, <2>2 DEF OnPlaybackComplete, Bridges
    <3> QED
      BY <1>1, <1>6, <2>2, <3>1 DEF OnPlaybackComplete, Runs
  <2>3. CASE DeleteBridge
    BY <1>1, <1>6, <2>3 DEF DeleteBridge, Runs
  <2> QED
    BY <1>19, <2>1, <2>2, <2>3
<1>20. CASE HandlePluginInstallerResult
  BY <1>1, <1>20 DEF HandlePluginInstallerResult, HandleError, Bridges, Pipes
<1>21. CASE PipelineStep
  <2>1. CASE Preroll
    BY <1>1, <1>7, <2>1 DEF Preroll, Pipes, UrlTasks
  <2>2. CASE AsyncDone
    BY <1>1, <2>2 DEF AsyncDone, Pipes
  <2>3. CASE AsyncDoneEndsSeek
    <3>1. bridge' \in Bridges /\ pipe' \in Pipes
      BY <1>1, <2>3 DEF AsyncDoneEndsSeek, Pipes, Bridges
    <3> QED
      BY <1>1, <1>7, <2>3, <3>1 DEF AsyncDoneEndsSeek, UrlTasks
  <2>4. CASE Continue
    BY <1>1, <1>7, <2>4 DEF Continue, Pipes, UrlTasks
  <2>5. CASE ErrorMessage
    BY <1>1, <2>5 DEF ErrorMessage, HandleError, Pipes, Bridges
  <2> QED
    BY <1>21, <2>1, <2>2, <2>3, <2>4, <2>5 DEF PipelineStep
<1>22. CASE EndOfStream
  BY <1>1, <1>5, <1>7, <1>22 DEF EndOfStream, UrlTasks
<1>23. CASE Buffering
  <2>1. bridge' \in Bridges
    BY <1>1, <1>23 DEF Buffering, Bridges
  <2> QED
    BY <1>1, <1>5, <1>7, <1>23, <2>1 DEF Buffering, UrlTasks
<1>24. CASE MissingPlugin \/ Failure
  BY <1>1, <1>5, <1>24 DEF MissingPlugin, Failure, Pipes
<1>25. CASE UNCHANGED urlVars
  BY <1>1, <1>25 DEF urlVars
<1> QED
  BY <1>10, <1>11, <1>12, <1>13, <1>14, <1>15, <1>16, <1>17, <1>18, <1>19,
     <1>20, <1>21, <1>22, <1>23, <1>24, <1>25
     DEF UrlNext, UrlTask

\* Type correctness of the player of URLs: the bridge, the pipeline and the
\* messages between them and the element keep their types.
THEOREM UrlTypeCorrect == UrlSpec => []UrlTypeOK
  BY UrlInitType, UrlNextType, PTL DEF UrlSpec
-----------------------------------------------------------------------------
LEMMA DecoderInitType == DecoderInit => DecoderTypeOK
<1> SUFFICES ASSUME DecoderInit PROVE DecoderTypeOK
  OBVIOUS
<1>1. bufferAt \in [InputBuffers -> {"client", "task", "pipe", "freed", "refused"}]
  BY DEF DecoderInit
<1>2. tasks \in Seq(InputBuffers \cup {Start}) /\ loop \in Seq(InputBuffers)
  BY DEF DecoderInit
<1>3. /\ canFeed \in BOOLEAN /\ playing \in BOOLEAN
      /\ broken \in BOOLEAN /\ decAborted \in BOOLEAN
  BY Zenon DEF DecoderInit
<1>4. phase = "new" /\ appsrc = "none"
  BY DEF DecoderInit
<1> QED
  BY <1>1, <1>2, <1>3, <1>4 DEF DecoderTypeOK

LEMMA DestructType ==
  ASSUME DecoderTypeOK, NEW b \in InputBuffers, Destruct(b)
  PROVE  /\ bufferAt' \in [InputBuffers -> {"client", "task", "pipe", "freed", "refused"}]
         /\ loop' \in Seq(InputBuffers)
  BY DEF Destruct, DecoderTypeOK

LEMMA DecoderNextType ==
  ASSUME DecoderTypeOK, [DecoderNext]_decoderVars
  PROVE  DecoderTypeOK'
<1>1. CASE InitializeDecoder
  <2>1. <<Start>> \in Seq(InputBuffers \cup {Start})
    OBVIOUS
  <2> QED
    BY <1>1, <2>1 DEF InitializeDecoder, DecoderTypeOK
<1>2. CASE NotifyEnd
  BY <1>2 DEF NotifyEnd, DecoderTypeOK
<1>3. CASE StartDecoder
  <2>1. tasks \in Seq(InputBuffers \cup {Start}) /\ tasks # <<>>
        /\ tasks' = Tail(tasks)
    BY <1>3 DEF StartDecoder, DecoderTypeOK
  <2>2. tasks' \in Seq(InputBuffers \cup {Start})
    BY <2>1
  <2>3. playing' \in BOOLEAN
    <3>1. CASE phase = "starting"
      BY <1>3, <3>1 DEF StartDecoder
    <3>2. CASE phase # "starting"
      BY <1>3, <3>2 DEF StartDecoder
    <3> QED
      BY <3>1, <3>2
  <2> QED
    BY <1>3, <2>2, <2>3 DEF StartDecoder, DecoderTypeOK
<1>4. CASE OnDecode
  <2>1. PICK b \in InputBuffers : b = Head(tasks)
          /\ Tail(tasks) \in Seq(InputBuffers \cup {Start})
    BY <1>4 DEF OnDecode, DecoderTypeOK
  <2>2. /\ bufferAt' \in [InputBuffers -> {"client", "task", "pipe", "freed", "refused"}]
        /\ loop' \in Seq(InputBuffers) /\ decAborted' \in BOOLEAN
    BY <1>4, <2>1, DestructType DEF OnDecode, DecoderTypeOK
  <2> QED
    BY <1>4, <2>1, <2>2 DEF OnDecode, DecoderTypeOK
<1>5. CASE StartFeed \/ StopFeed \/ OnBusMessage
  BY <1>5 DEF StartFeed, StopFeed, OnBusMessage, DecoderTypeOK
<1>6. CASE DestroyDecoder
  BY <1>6 DEF DestroyDecoder, DecoderTypeOK
<1>7. CASE DestroyDecoderEnds
  BY <1>7 DEF DestroyDecoderEnds, DecoderTypeOK
<1>8. ASSUME NEW b \in InputBuffers, Decode(b) PROVE DecoderTypeOK'
  <2>1. Append(tasks, b) \in Seq(InputBuffers \cup {Start})
    BY DEF DecoderTypeOK
  <2>2. /\ bufferAt' \in [InputBuffers -> {"client", "task", "pipe", "freed", "refused"}]
        /\ loop' \in Seq(InputBuffers)
    BY <1>8, DestructType DEF Decode, DecoderTypeOK
  <2> QED
    BY <1>8, <2>1, <2>2 DEF Decode, DecoderTypeOK
<1>9. ASSUME NEW b \in InputBuffers, PipelineFrees(b) PROVE DecoderTypeOK'
  BY <1>9, DestructType DEF PipelineFrees, DecoderTypeOK
<1>10. CASE PipelineSet
  BY <1>10 DEF PipelineSet, DecoderTypeOK
<1>11. CASE UNCHANGED decoderVars
  BY <1>11 DEF decoderVars, DecoderTypeOK
<1> QED
  BY <1>1, <1>2, <1>3, <1>4, <1>5, <1>6, <1>7, <1>8, <1>9, <1>10, <1>11
     DEF DecoderNext, DecoderTask

\* Type correctness of the decoder: every buffer is in one of its places, and
\* the queues of both threads hold buffers.
THEOREM DecoderTypeCorrect == DecoderSpec => []DecoderTypeOK
  BY DecoderInitType, DecoderNextType, PTL DEF DecoderSpec

-----------------------------------------------------------------------------
(***************************************************************************)
(* All services.                                                           *)
(***************************************************************************)
(***************************************************************************)
(* A behaviour of the services together is one of each of them: a step of  *)
(* one is a step of its own, and a stutter of the others.                  *)
(***************************************************************************)
LEMMA StepOfOne ==
  ASSUME [Next]_vars
  PROVE  /\ [QuestionsNext]_questionsVars
         /\ [DialogsNext]_dialogsVars
         /\ [CookiesNext]_cookiesVars
         /\ [PolicyNext]_policyVars
         /\ [DecoderNext]_decoderVars
         /\ [EncoderNext]_encoderVars
         /\ [UrlNext]_urlVars
         /\ [InputNext]_inputVars
<1>1. CASE QuestionsWork
  BY <1>1 DEF QuestionsWork
<1>2. CASE DialogsWork
  BY <1>2 DEF DialogsWork
<1>3. CASE CookiesWork
  BY <1>3 DEF CookiesWork
<1>4. CASE PolicyWorks
  BY <1>4 DEF PolicyWorks
<1>5. CASE DecoderWorks
  BY <1>5 DEF DecoderWorks
<1>6. CASE EncoderWorks
  BY <1>6 DEF EncoderWorks
<1>7. CASE UrlPlayerWorks
  BY <1>7 DEF UrlPlayerWorks
<1>8. CASE InputWorks
  BY <1>8 DEF InputWorks
<1>9. CASE UNCHANGED vars
  BY <1>9 DEF vars
<1> QED
  BY <1>1, <1>2, <1>3, <1>4, <1>5, <1>6, <1>7, <1>8, <1>9 DEF Next

LEMMA ServicesCompose ==
  Spec => /\ QuestionsSpec /\ DialogsSpec /\ CookiesSpec /\ PolicySpec
          /\ DecoderSpec /\ EncoderSpec /\ UrlSpec /\ InputSpec
<1>1. Init => /\ QuestionsInit /\ DialogsInit /\ CookiesInit /\ PolicyInit
              /\ DecoderInit /\ EncoderInit /\ UrlInit /\ InputInit
  BY DEF Init
<1> QED
  BY <1>1, StepOfOne, PTL
     DEF Spec, QuestionsSpec, DialogsSpec, CookiesSpec, PolicySpec,
         DecoderSpec, EncoderSpec, UrlSpec, InputSpec

\* The service that works is chosen once.
OneAtWork == working \in Services

LEMMA OneWorks == Spec => []OneAtWork
<1>1. Init => OneAtWork
  BY DEF Init, OneAtWork
<1>2. ASSUME OneAtWork, [Next]_vars PROVE OneAtWork'
  <2>1. CASE QuestionsWork
    BY <1>2, <2>1 DEF QuestionsWork, OneAtWork
  <2>2. CASE DialogsWork
    BY <1>2, <2>2 DEF DialogsWork, OneAtWork
  <2>3. CASE CookiesWork
    BY <1>2, <2>3 DEF CookiesWork, OneAtWork
  <2>4. CASE PolicyWorks
    BY <1>2, <2>4 DEF PolicyWorks, OneAtWork
  <2>5. CASE DecoderWorks
    BY <1>2, <2>5 DEF DecoderWorks, OneAtWork
  <2>6. CASE EncoderWorks
    BY <1>2, <2>6 DEF EncoderWorks, OneAtWork
  <2>7. CASE UrlPlayerWorks
    BY <1>2, <2>7 DEF UrlPlayerWorks, OneAtWork
  <2>8. CASE InputWorks
    BY <1>2, <2>8 DEF InputWorks, OneAtWork
  <2>9. CASE UNCHANGED vars
    BY <1>2, <2>9 DEF vars, OneAtWork
  <2> QED
    BY <1>2, <2>1, <2>2, <2>3, <2>4, <2>5, <2>6, <2>7, <2>8, <2>9 DEF Next
<1> QED
  BY <1>1, <1>2, PTL DEF Spec

\* Type correctness of the services around a web view: whichever works, its
\* state keeps its types.
THEOREM ServicesTypes == Spec => []TypeOK
<1>1. /\ OneAtWork
      /\ QuestionsTypeOK /\ DialogsTypeOK /\ CookiesTypeOK /\ PolicyTypeOK
      /\ DecoderTypeOK /\ EncoderTypeOK /\ UrlTypeOK /\ InputTypeOK
      => TypeOK
  BY DEF TypeOK, OneAtWork
<1> QED
  BY <1>1, OneWorks, ServicesCompose, QuestionsTypes, DialogsTypeCorrect,
     CookiesTypeCorrect, PolicyTypeCorrect,
     DecoderTypeCorrect, EncoderTypeCorrect, UrlTypeCorrect, InputTypes, PTL

\* What each service promises its callers holds of them together.
THEOREM ServicesKeepPromises ==
  Spec => [](/\ OneAnswer /\ FreedOnce                  \* questions
             /\ Answerable /\ OwnListing /\ PolicyInForce  \* dialogs, cookies
             /\ Decodable /\ PressedFirst /\ KeysComeUp)  \* encoder, input
  BY ServicesCompose, AnsweredAsDecided, FreedOnlyOnce,
     AnswerableHolds, ListingsAreOwn, PolicyInForceHolds,
     DecodableHolds, PressesComeFirst, NoKeyStaysDown, PTL
=============================================================================
