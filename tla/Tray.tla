-------------------------------- MODULE Tray --------------------------------
(***************************************************************************)
(* The credential window of the tray application (cmd/tpm-fido-tray),      *)
(* which shows snapshots of the store and deletes credentials through the  *)
(* control socket while hosts manage and register credentials (CredMgmt).  *)
(*                                                                         *)
(* GTK runs one handler at a time, and a handler that opens a dialog lets  *)
(* others run before it goes on: the modal dialog keeps the window's       *)
(* buttons and rows away, but "Open" in the tray's menu refreshes the      *)
(* window behind it.  Any call to the daemon may fail, and a deletion may  *)
(* be carried out although its answer is lost or reports a failed save.    *)
(* The rows of a list and the slice behind it always change together, so a *)
(* row is the entry it shows.                                              *)
(***************************************************************************)
EXTENDS CredMgmt

VARIABLE tray

trayVars == <<mgmtVars, tray>>

NoRP == "none"
NoCred == 0

(* What refreshRPs leaves of the window.                                   *)
Window(rows) == [rows |-> rows, rp |-> NoRP, list |-> {}, cred |-> NoCred, button |-> FALSE]

(* dialog: the dialog on top, or "reload" when a deletion has succeeded    *)
(* and the sites are still to be listed again.  asked is what the user is  *)
(* asked to confirm: the site in the text, the credential in the list.     *)
TrayInit ==
    /\ MgmtInit
    /\ tray = [window |-> Window({}), dialog |-> "none", asked |-> <<NoRP, NoCred>>]

AtWindow == tray.dialog = "none"

Show(w) == tray' = [tray EXCEPT !.window = w]

(* refresh, from the button or from "Open"; one that fails changes nothing *)
Refresh ==
    /\ tray.dialog # "reload"
    /\ Show(Window(Occupied))
    /\ UNCHANGED mgmtVars

(* Mutant: the selected credential survives a new list.                    *)
ListKeepsSelection(rp) ==
    [tray.window EXCEPT !.rp = rp, !.list = ToSet(IdsOf(creds[rp]))]

ListOf(rp) ==
    [tray.window EXCEPT !.rp = rp, !.list = ToSet(IdsOf(creds[rp])),
                        !.cred = NoCred, !.button = FALSE]

(* onRPSelected and refreshCreds: if the daemon does not answer, the new   *)
(* site is selected but the old list and its selection stay.               *)
SelectRP(rp) ==
    /\ AtWindow
    /\ rp \in tray.window.rows
    /\ \/ Show(ListOf(rp))
       \/ tray' = [tray EXCEPT !.window.rp = rp, !.dialog = "error"]
    /\ UNCHANGED mgmtVars

SelectCred(id) ==
    /\ AtWindow
    /\ id \in tray.window.list
    /\ Show([tray.window EXCEPT !.cred = id, !.button = TRUE])
    /\ UNCHANGED mgmtVars

ClickDelete ==
    /\ AtWindow
    /\ tray.window.button
    /\ tray.window.rp # NoRP /\ tray.window.cred # NoCred
    /\ tray' = [tray EXCEPT !.dialog = "confirm", !.asked = <<tray.window.rp, tray.window.cred>>]
    /\ UNCHANGED mgmtVars

(* A handler is over, or goes on with d.                                   *)
CloseDialog(d) == tray' = [tray EXCEPT !.dialog = d, !.asked = <<NoRP, NoCred>>]

(* Mutant: the daemon looks the credential up by its id alone.             *)
DeleteCredById(rp, id) == \E any \in Occupied : Delete(any, id, TRUE)

(* The daemon deletes what the request names, if it is there.              *)
DeleteCred(rp, id) == rp # NoRP /\ Delete(rp, id, TRUE)

(* onDeleteClicked after Yes, with the selection as it is by now.          *)
ConfirmDelete ==
    /\ tray.dialog = "confirm"
    /\ \/ /\ DeleteCred(tray.window.rp, tray.window.cred)
          /\ CloseDialog("reload") \/ CloseDialog("error")
          /\ UNCHANGED <<issued, cursor, fetched, seen>>
       \/ CloseDialog("error") /\ UNCHANGED mgmtVars

(* refreshRPs after a deletion; if it fails the window stays as it was.    *)
Reload ==
    /\ tray.dialog = "reload"
    /\ \E w \in {tray.window, Window(Occupied)} :
        tray' = [tray EXCEPT !.dialog = "none", !.window = w]
    /\ UNCHANGED mgmtVars

Dismiss ==
    /\ tray.dialog \in {"confirm", "error"}
    /\ CloseDialog("none")
    /\ UNCHANGED mgmtVars

TrayNext ==
    \/ MgmtNext /\ UNCHANGED tray
    \/ Refresh \/ ClickDelete \/ ConfirmDelete \/ Reload \/ Dismiss
    \/ \E rp \in RPs : SelectRP(rp)
    \/ \E id \in Ids : SelectCred(id)

TraySpec == TrayInit /\ [][TrayNext]_trayVars
-----------------------------------------------------------------------------
TrayTypeOK ==
    /\ MgmtTypeOK
    /\ tray.window \in [rows: SUBSET RPs, rp: RPs \cup {NoRP}, list: SUBSET Ids,
                        cred: Ids \cup {NoCred}, button: BOOLEAN]
    /\ tray.dialog \in {"none", "confirm", "error", "reload"}

(* The delete button stands for a row that is on the screen, whatever was  *)
(* refreshed, selected and refused in between.                             *)
ButtonHasARow == tray.window.button => tray.window.cred \in tray.window.list

Vanished(rp) == ToSet(IdsOf(creds[rp])) \ ToSet(IdsOf(creds[rp]'))

(* A credential vanishes only if its user registered again, if a host      *)
(* deleted it by its id, or if the user confirmed the dialog that named    *)
(* this site, with this credential selected: a selection that outlived its *)
(* list, or went while the dialog was open, deletes nothing else.          *)
OnlyConfirmedVanish ==
    [][\A rp \in RPs : \A id \in Vanished(rp) :
         \/ Register(rp, creds[rp][PositionOf(rp, id)].user)
         \/ HostDelete(id) /\ UNCHANGED tray
         \/ tray.dialog = "confirm" /\ tray.asked = <<rp, id>>]_trayVars
=============================================================================
