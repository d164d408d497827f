------------------------- MODULE JavaScriptDialogs -------------------------
(***************************************************************************)
(* alert, confirm, prompt and beforeunload: JavaScriptDialogManagerEfl and *)
(* JavaScriptModalDialogEfl of one web view (src/impl/browser).            *)
(*                                                                         *)
(* The page waits in a synchronous call until its dialog's closed callback *)
(* runs. The manager keeps the callback of the last dialog and a popup;    *)
(* the callback is run by the manager for the application's reply, and by  *)
(* the popup's buttons for the user.                                       *)
(***************************************************************************)

CONSTANT Dialogs   \* the dialogs opened in a behaviour

NoDialog == "nobody"
ASSUME DialogAssumption == NoDialog \notin Dialogs

VARIABLES
  hook,          \* the application set its alert, confirm and prompt callbacks
  page,          \* per dialog, its page: "idle", "waiting", "resumed", "gone"
  closed,        \* dialog_closed_callback_: whose callback it is
  popup,         \* dialog_: whose JavaScriptModalDialogEfl it is
  window,        \* per dialog: its popup is on the screen
  inside,        \* the dialog the application's callback is running for
  replied,       \* the application replied inside that callback
  owed,          \* dialogs the application took and has not replied to
  manager,       \* the web view and its manager exist
  dialogsAborted \* a freed or empty object was used

dialogsVars == <<hook, page, closed, popup, window, inside, replied, owed,
                 manager, dialogsAborted>>
----------------------------------------------------------------------------
DialogsInit ==
  /\ hook \in BOOLEAN
  /\ page = [d \in Dialogs |-> "idle"]
  /\ closed = NoDialog /\ popup = NoDialog /\ inside = NoDialog
  /\ window = [d \in Dialogs |-> FALSE]
  /\ replied = FALSE /\ owed = {}
  /\ manager = TRUE /\ dialogsAborted = FALSE

DialogsTypeOK ==
  /\ hook \in BOOLEAN
  /\ page \in [Dialogs -> {"idle", "waiting", "resumed", "gone"}]
  /\ {closed, popup, inside} \subseteq Dialogs \cup {NoDialog}
  /\ window \in [Dialogs -> BOOLEAN]
  /\ replied \in BOOLEAN /\ owed \in SUBSET Dialogs
  /\ manager \in BOOLEAN /\ dialogsAborted \in BOOLEAN

Ready == inside = NoDialog /\ manager /\ ~dialogsAborted

\* callback_.Run of dialog d: the page of d goes on.
RunCallback(d) ==
  page' = [page EXCEPT ![d] = IF @ = "waiting" THEN "resumed" ELSE @]

\* JavaScriptModalDialogEfl::close of the manager's popup, if there is one.
CloseWindow == [d \in Dialogs |-> window[d] /\ d # popup]

\* dialog_.reset(CreateDialog(...)): the previous object is freed, and its
\* window, in w, is left as it is. Without a popup there is no object.
ShowDialog(d, w) ==
  \/ popup' = d /\ window' = [w EXCEPT ![d] = TRUE]
  \/ popup' = NoDialog /\ window' = w

\* The page of d opens its dialog. Another may still be on the screen, but
\* no other page of the view waits.
\* (mutant) a callback that is kept already is not replaced
OpensBehind(d) ==
  /\ Ready /\ page[d] = "idle" /\ \A e \in Dialogs : page[e] # "waiting"
  /\ page' = [page EXCEPT ![d] = "waiting"]
  /\ closed' = IF closed = NoDialog THEN d ELSE closed

Opens(d) ==
  /\ Ready /\ page[d] = "idle" /\ \A e \in Dialogs : page[e] # "waiting"
  /\ page' = [page EXCEPT ![d] = "waiting"]
  /\ closed' = d
----------------------------------------------------------------------------
\* RunBeforeUnloadDialog, which asks no callback, and RunJavaScriptDialog of
\* a type whose callback is not set.
RunBeforeUnloadDialog(d) ==
  /\ Opens(d) /\ ShowDialog(d, window)
  /\ UNCHANGED <<hook, inside, replied, owed, manager, dialogsAborted>>

\* RunJavaScriptDialog, up to the application's callback.
RunJavaScriptDialog(d) ==
  /\ Opens(d) /\ hook
  /\ inside' = d /\ replied' = FALSE
  /\ UNCHANGED <<hook, popup, window, owed, manager, dialogsAborted>>

\* The callback returned TRUE, and the popup is shown nevertheless.
CallbackTook(d) ==
  /\ inside = d /\ inside' = NoDialog
  /\ owed' = IF replied THEN owed ELSE owed \cup {d}
  /\ ShowDialog(d, window)
  /\ UNCHANGED <<hook, page, closed, replied, manager, dialogsAborted>>

\* The callback returned FALSE: ExecuteDialogClosedCallBack closes the popup
\* before this one, and the new popup is shown nevertheless.
CallbackRefused(d) ==
  /\ inside = d /\ ~replied /\ inside' = NoDialog
  /\ RunCallback(closed)
  /\ ShowDialog(d, CloseWindow)
  /\ UNCHANGED <<hook, closed, replied, owed, manager, dialogsAborted>>

\* JavaScriptAlertReply, JavaScriptConfirmReply, JavaScriptPromptReply: the
\* reply goes to the last dialog opened, whichever dialog it is meant for.
ReplyInside ==
  /\ inside # NoDialog /\ ~replied /\ replied' = TRUE
  /\ RunCallback(closed) /\ window' = CloseWindow
  /\ UNCHANGED <<hook, closed, popup, inside, owed, manager, dialogsAborted>>

Reply(d) ==
  /\ Ready /\ d \in owed /\ owed' = owed \ {d}
  /\ RunCallback(closed) /\ window' = CloseWindow
  /\ UNCHANGED <<hook, closed, popup, inside, replied, manager, dialogsAborted>>

\* OkButtonHandlerFor..., CancelButtonHandlerFor...: the window holds a
\* pointer to the object that made it.
Click(d) ==
  /\ inside = NoDialog /\ ~dialogsAborted /\ window[d]
  /\ IF popup = d
     THEN RunCallback(d) /\ window' = CloseWindow /\ UNCHANGED dialogsAborted
     ELSE dialogsAborted' = TRUE /\ UNCHANGED <<page, window>>
  /\ UNCHANGED <<hook, closed, popup, inside, replied, owed, manager>>

\* The waiting page's process ends: CancelActiveAndPendingDialogs is empty.
PageGone(d) ==
  /\ page[d] = "waiting" /\ inside = NoDialog /\ ~dialogsAborted
  /\ page' = [page EXCEPT ![d] = "gone"]
  /\ UNCHANGED <<hook, closed, popup, window, inside, replied, owed,
                 manager, dialogsAborted>>

\* The view is deleted: dialog_ is freed, its window is not closed.
DeleteManager ==
  /\ Ready /\ manager' = FALSE /\ popup' = NoDialog /\ owed' = {}
  /\ page' = [d \in Dialogs |-> IF page[d] = "waiting" THEN "gone" ELSE page[d]]
  /\ UNCHANGED <<hook, closed, window, inside, replied, dialogsAborted>>

DialogsNext ==
  \/ \E d \in Dialogs : RunBeforeUnloadDialog(d) \/ RunJavaScriptDialog(d)
       \/ CallbackTook(d) \/ CallbackRefused(d) \/ Reply(d) \/ Click(d)
       \/ PageGone(d)
  \/ ReplyInside \/ DeleteManager

DialogsSpec == DialogsInit /\ [][DialogsNext]_dialogsVars
----------------------------------------------------------------------------
(***************************************************************************)
(* A waiting page can be answered: its popup is on the screen with its     *)
(* object alive, or the application owes the reply and the manager still   *)
(* keeps this dialog's callback. The exception is a popup that could not   *)
(* be created for a dialog the application did not take.                   *)
(***************************************************************************)
Waiting(d) == page[d] = "waiting" /\ inside # d /\ ~dialogsAborted
Answerable ==
  \A d \in Dialogs : Waiting(d) =>
    /\ closed = d
    /\ (window[d] /\ popup = d) \/ d \in owed \/ popup = NoDialog
============================================================================
