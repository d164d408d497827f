----------------------------- MODULE InputMethod -----------------------------
(***************************************************************************)
(* Keys and the input method of one view: IMContextEfl and the queues of   *)
(* RenderWidgetHostViewEfl.                                                *)
(*                                                                         *)
(* A key goes through the input method (IMF), which may commit text or     *)
(* change the text being composed while it looks at the key, or at any     *)
(* time later; in the latter case the view sends the page a fake key.      *)
(* Texts wait until the page has answered a key, since the page may        *)
(* prevent them, and so do the keys' releases, which the view sends        *)
(* itself.  Keys are numbered as they are pressed; the page answers the    *)
(* presses it gets in their order.  Key codes, which a release loses above *)
(* 127 (SendCompositionKeyUpEvent takes a char), are not modelled.         *)
(***************************************************************************)
EXTENDS Naturals, Sequences

CONSTANT MaxKeys   \* bound: key presses, of the keyboard and fake ones

ASSUME KeysAssumption == MaxKeys \in Nat

VARIABLES
  presses,      \* the number of key presses so far
  queues,       \* what waits for the page, and what was sent to it
  isModifier    \* is_modifier_key_

inputVars == <<presses, queues, isModifier>>

Keys == 1..MaxKeys
Presses == [key : Keys, mods : BOOLEAN]   \* a key event and its modifiers

\* An empty text in commit_queue_ ends a batch: "ended" batches wait, and
\* "texts" texts behind them.  Of preedit_queue_ the length counts.
\* keyupev_queue_ holds releases to be sent, keydownev_queue_ presses held back.
\* The page has not answered the presses in "unanswered"; it was told of the
\* keys in "pressed" and "released", too early of those in "early"; a cancelled
\* composition took the releases of the keys in "lost" with it.
Queues ==
  [ended : Nat, texts : Nat, preedits : Nat,
   keyUps : Seq(Keys), keyDowns : Seq(Presses),
   unanswered : Seq(Presses), pressed : SUBSET Keys, released : SUBSET Keys,
   early : SUBSET Keys, lost : SUBSET Keys]

InputInit ==
  /\ presses = 0
  /\ queues = [ended |-> 0, texts |-> 0, preedits |-> 0, keyUps |-> <<>>,
               keyDowns |-> <<>>, unanswered |-> <<>>, pressed |-> {},
               released |-> {}, early |-> {}, lost |-> {}]
  /\ isModifier = FALSE

\* The type invariant.
InputTypeOK ==
  /\ presses \in 0..MaxKeys
  /\ queues \in Queues
  /\ isModifier \in BOOLEAN
----------------------------------------------------------------------------
(***************************************************************************)
(* The input method speaks, while it looks at a key or on its own.         *)
(***************************************************************************)
Says == {"nothing", "commit", "preedit", "clear"}

\* OnCommit and OnPreeditChanged, up to the fake key.
Spoken(q, says) ==
  CASE says = "nothing" -> q
    [] says = "commit" -> [q EXCEPT !.texts = @ + 1]
    [] says = "clear" -> [q EXCEPT !.ended = @ + 1, !.texts = 0]
    [] says = "preedit" -> [q EXCEPT !.ended = @ + 1, !.texts = 0,
                                     !.preedits = @ + 1]

\* In one go it may both commit and compose.
SpokenTwice(q, first, second) == Spoken(Spoken(q, first), second)

\* ForwardKeyboardEvent.
Forward(q, press) ==
  [q EXCEPT !.unanswered = Append(@, press), !.pressed = @ \union {press.key}]

\* The press is sent now and its release later.
SendNow(q, press) == [Forward(q, press) EXCEPT !.keyUps = Append(@, press.key)]

\* keydownev_queue_.push, in place of the first.
Hold(q, press) ==
  [q EXCEPT !.keyDowns = Append(@, press), !.keyUps = Append(@, press.key)]

NextPress(mods) == [key |-> presses + 1, mods |-> mods]

\* The input method commits or composes text of its own accord, and the page
\* gets a fake key without modifiers (SendFakeCompositionKeyEvent).
OnText(says) ==
  /\ presses < MaxKeys
  /\ presses' = presses + 1
  /\ queues' = SendNow(Spoken(queues, says), NextPress(FALSE))
  /\ UNCHANGED isModifier

\* It ends the composition, and the page gets no key.  MaxKeys bounds this too.
OnPreeditEmpty ==
  /\ queues.ended < MaxKeys
  /\ queues' = Spoken(queues, "clear")
  /\ UNCHANGED <<presses, isModifier>>
----------------------------------------------------------------------------
(***************************************************************************)
(* Keys of the keyboard.                                                   *)
(***************************************************************************)
\* (mutant) whether a key is being handled is not looked at
HoldBlindly(q) == q.preedits > 0

\* A press is held back while a fake key is being handled.
MustHold(q) == q.preedits > 0 /\ q.keyUps # <<>>

\* The releases that wait to be sent.
Owed(q) == {q.keyUps[i] : i \in DOMAIN q.keyUps}

\* CancelComposition: ClearQueues of both objects.
Cleared(q) ==
  [q EXCEPT !.ended = 0, !.texts = 0, !.preedits = 0,
            !.keyUps = <<>>, !.keyDowns = <<>>, !.lost = @ \union Owed(q)]

Down(q, press) == IF MustHold(q) THEN Hold(q, press) ELSE SendNow(q, press)

\* HandleEvasEvent: Return cancels the composition first, and the input method
\* looks at every key.
HandleKeyDown(return, mods, first, second) ==
  /\ presses < MaxKeys
  /\ presses' = presses + 1
  /\ LET q == IF return THEN Cleared(queues) ELSE queues
     IN queues' = Down(SpokenTwice(q, first, second), NextPress(mods))
  /\ UNCHANGED isModifier

\* When the view gains or loses the focus, when the page asks for it, and when
\* the keyboard's language changes while text is being composed.
CancelComposition ==
  /\ queues' = Cleared(queues)
  /\ UNCHANGED <<presses, isModifier>>
----------------------------------------------------------------------------
(***************************************************************************)
(* The page's answer to a press.                                           *)
(***************************************************************************)
LessOne(n) == IF n = 0 THEN 0 ELSE n - 1

\* HandleCommitQueue takes the first batch, or what there is if none has
\* ended, and HandlePreeditQueue one composition.
HandleTextQueues(q) ==
  [q EXCEPT !.texts = IF q.ended = 0 THEN 0 ELSE @, !.ended = LessOne(@),
            !.preedits = LessOne(@)]

\* One release is sent.
HandleKeyUpQueue(q) ==
  IF q.keyUps = <<>> THEN q
  ELSE [q EXCEPT !.keyUps = Tail(@), !.released = @ \union {Head(q.keyUps)},
                 !.early = @ \union ({Head(q.keyUps)} \ q.pressed)]

\* One press that was held back is sent.
HandleKeyDownQueue(q) ==
  IF q.keyDowns = <<>> THEN q
  ELSE [Forward(q, Head(q.keyDowns)) EXCEPT !.keyDowns = Tail(@)]

Round(q) == HandleKeyDownQueue(HandleKeyUpQueue(HandleTextQueues(q)))

\* (mutant) the modifier's own work is not made up for
OnDidHandleKeyEventOnce ==
  /\ queues.unanswered # <<>>
  /\ LET mods == Head(queues.unanswered).mods
         q == [queues EXCEPT !.unanswered = Tail(@)]
     IN \/ /\ mods /\ ~isModifier
           /\ isModifier' = TRUE /\ queues' = q
        \/ /\ ~mods \/ isModifier
           /\ isModifier' = FALSE /\ queues' = Round(q)
  /\ UNCHANGED presses

\* OnDidHandleKeyEvent: the first press with modifiers is taken for the
\* modifier's own, and the next answer does the work of both.
OnDidHandleKeyEvent ==
  /\ queues.unanswered # <<>>
  /\ LET mods == Head(queues.unanswered).mods
         q == [queues EXCEPT !.unanswered = Tail(@)]
     IN \/ /\ mods /\ ~isModifier
           /\ isModifier' = TRUE /\ queues' = q
        \/ /\ isModifier
           /\ isModifier' = FALSE /\ queues' = Round(Round(q))
        \/ /\ ~mods /\ ~isModifier
           /\ queues' = Round(q) /\ UNCHANGED isModifier
  /\ UNCHANGED presses

InputNext ==
  \/ \E says \in {"commit", "preedit"} : OnText(says)
  \/ OnPreeditEmpty
  \/ \E return, mods \in BOOLEAN, first, second \in Says :
       HandleKeyDown(return, mods, first, second)
  \/ CancelComposition \/ OnDidHandleKeyEvent

InputSpec == InputInit /\ [][InputNext]_inputVars
----------------------------------------------------------------------------
(***************************************************************************)
(* Properties                                                              *)
(***************************************************************************)
\* A key is never released at the page before it was pressed there, although
\* presses are held back and releases are sent one per answer, whichever
\* press the answer is for (render_widget_host_view_efl.cc:1213, 1686).
PressedFirst == queues.early = {}

\* A key that is down at the page has its release waiting, unless a cancelled
\* composition took it; and when the page has answered all that it was sent,
\* nothing waits: no release and no press held back.  So no key stays down,
\* with the code's two exceptions: the releases that ClearQueues drops, and
\* the round OnDidHandleKeyEvent keeps for a modifier, behind which keys may
\* wait with no answer to come.
KeysComeUp ==
  /\ queues.pressed \ queues.released \subseteq Owed(queues) \union queues.lost
  /\ queues.unanswered = <<>> /\ ~isModifier =>
       queues.keyUps = <<>> /\ queues.keyDowns = <<>>
============================================================================
