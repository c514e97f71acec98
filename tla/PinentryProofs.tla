---------------------------- MODULE PinentryProofs ----------------------------
(***************************************************************************)
(* The safety of Pinentry, for any number of calls and any parameters.     *)
(* PeInv is inductive.  Consent by itself is not: that a result sent to a  *)
(* waiter is the answer of the dialog the waiter's caller joined needs     *)
(* Known (the waiters of a dialog joined it), that the dialog shows its    *)
(* parameters needs Attached, and that no second answer contradicts the    *)
(* first needs Undecided.                                                  *)
(*                                                                         *)
(* The two promises that Pinentry breaks hold when the one order of steps  *)
(* that breaks each is excluded: CancelIsSet for CanceledDialogIsKilled,   *)
(* NobodyJoinsTheDoomed for CancelSparesSiblings.                          *)
(***************************************************************************)
EXTENDS Pinentry, TLAPS

(* A caller that has not called owns no dialog, channel or watcher. *)
Fresh ==
    \A c \in Callers : caller[c].at = "idle" =>
        dialog[c].stage = "none" /\ caller[c].chan = "empty" /\ watcher[c] = "none"

(* A caller with a channel or a watcher joined a dialog that exists, and   *)
(* waits for one that shows its parameters.                                *)
Attached ==
    \A c \in Callers :
        /\ Waiting(c) \/ watcher[c] \in {"watching", "kill", "spare"} =>
             caller[c].joined \in Callers /\ dialog[caller[c].joined].stage # "none"
        /\ Waiting(c) => dialog[caller[c].joined].params = caller[c].params

Known ==
    \A d, c \in Callers : c \in dialog[d].waiters =>
        caller[c].joined = d /\ caller[c].at # "idle"

(* A dialog has an answer from its result on, and not before.              *)
Undecided ==
    \A d \in Callers :
        dialog[d].answer = "none" <=> dialog[d].stage \in Unanswered \cup {"none"}

(* A result is in a channel only while its caller waits. *)
Unread == \A c \in Callers : caller[c].chan # "empty" => Waiting(c)

(* A dialog shows what its first caller asked.                             *)
Shown ==
    \A d \in Callers : dialog[d].stage # "none" => dialog[d].params = caller[d].params

PeInv ==
    /\ PeTypeOK /\ OneDialog /\ Consent /\ PINIsNotShared /\ NobodyForgotten
    /\ Fresh /\ Shown /\ Attached /\ Known /\ Undecided /\ Unread

(* None, which is no request, is no caller.                                *)
LEMMA NoneIsNoCaller == None \notin Callers
  BY PinentryAssumption DEF None, Callers

(* The invariant holds before anybody called.                              *)
LEMMA PeInitInv == PeInit => PeInv
  BY NoneIsNoCaller
  DEF PeInit, PeInv, PeTypeOK, DialogStates, CallerStates, OneDialog, Consent, PINIsNotShared, NobodyForgotten,
      Fresh, Shown, Attached, Known, Undecided, Unread, Waiting, NoDialog,
      Unanswered, Finishing, Stages
-----------------------------------------------------------------------------
(* Calls. *)
LEMMA AwaitState ==
  ASSUME PeTypeOK, NEW c \in Callers, NEW d \in Callers,
         NEW p \in Params \cup {PINParams}, Await(c, d, p)
  PROVE  caller' \in [Callers -> CallerStates]
<1> DEFINE r == [caller[c] EXCEPT !.at = "waiting", !.params = p, !.joined = d]
<1>1. caller[c] \in CallerStates
  BY DEF PeTypeOK
<1>2. r \in CallerStates
  BY <1>1 DEF CallerStates
<1>3. caller' = [caller EXCEPT ![c] = r]
  BY DEF Await, PeTypeOK
<1> HIDE DEF r
<1> QED
  BY <1>2, <1>3 DEF PeTypeOK

(* A caller that opens a dialog keeps the invariant.                       *)
LEMMA OpenKeeps ==
  ASSUME PeInv, NEW c \in Callers, caller[c].at = "idle",
         NEW p \in Params \cup {PINParams}, Open(c, p)
  PROVE  PeInv'
<1> USE NoneIsNoCaller DEF PeInv, Unanswered, Finishing, Waiting
<1> DEFINE new == [NoDialog EXCEPT !.stage = "new", !.params = p, !.waiters = {c}]
<1>1. /\ new \in DialogStates
      /\ new.stage = "new" /\ new.params = p /\ new.waiters = {c} /\ new.answer = "none"
  BY DEF NoDialog, DialogStates, Stages
<1>2. active = None /\ active' = c /\ dialog' = [dialog EXCEPT ![c] = new]
  BY DEF Open
<1>3. /\ caller' = [caller EXCEPT ![c].at = "waiting", ![c].params = p, ![c].joined = c]
      /\ watcher' = [watcher EXCEPT ![c] = "watching"]
  BY DEF Open, Await
<1> HIDE DEF new
<1>4. PeTypeOK'
  <2>1. dialog' \in [Callers -> DialogStates]
    BY <1>1, <1>2 DEF PeTypeOK
  <2>2. caller' \in [Callers -> CallerStates]
    BY AwaitState DEF Open
  <2> QED
    BY <1>2, <1>3, <2>1, <2>2 DEF PeTypeOK
<1>5. OneDialog'
  BY <1>1, <1>2 DEF OneDialog, PeTypeOK
<1>6. dialog[c].stage = "none" /\ caller[c].chan = "empty"
  BY DEF Fresh
<1>7. \A e \in Callers : Waiting(e) => caller[e].joined # c /\ e # c
  BY <1>6 DEF Attached
<1>8. Consent'
  BY <1>1, <1>2, <1>3, <1>6, <1>7 DEF Consent, PeTypeOK, Unread, Attached
<1>9. PINIsNotShared' /\ NobodyForgotten'
  BY <1>1, <1>2, <1>3, <1>7 DEF PINIsNotShared, NobodyForgotten, PeTypeOK, Attached
<1>10. Fresh' /\ Shown' /\ Undecided' /\ Unread'
  BY <1>1, <1>2, <1>3, <1>6 DEF Fresh, Shown, Undecided, Unread, PeTypeOK
<1>11. Attached'
  BY <1>1, <1>2, <1>3, <1>6, <1>7 DEF Attached, PeTypeOK
<1>12. Known'
  BY <1>1, <1>2, <1>3, <1>6 DEF Known, PeTypeOK
<1> QED
  BY <1>4, <1>5, <1>8, <1>9, <1>10, <1>11, <1>12

(* A caller that joins a dialog (ConfirmPresence) keeps the invariant.     *)
LEMMA JoinKeeps ==
  ASSUME PeInv, NEW c \in Callers, caller[c].at = "idle", NEW p \in Params, Join(c, p)
  PROVE  PeInv'
<1> USE NoneIsNoCaller, PinentryAssumption DEF PeInv, Unanswered, Finishing, Waiting
<1>1. active \in Callers /\ dialog[active].params = p /\ UNCHANGED active
  BY DEF Join, MayJoin, PeTypeOK
<1>2. dialog' = [dialog EXCEPT ![active].waiters = @ \cup {c}]
  BY DEF Join
<1>3. /\ caller' = [caller EXCEPT ![c].at = "waiting", ![c].params = p, ![c].joined = active]
      /\ watcher' = [watcher EXCEPT ![c] = "watching"]
  BY DEF Join, Await
<1>4. dialog[active].stage # "none" /\ caller[c].chan = "empty" /\ active # c
  BY <1>1 DEF OneDialog, Fresh
<1>5. PeTypeOK'
  <2>1. dialog' \in [Callers -> DialogStates]
    BY <1>1, <1>2 DEF PeTypeOK, DialogStates
  <2>2. caller' \in [Callers -> CallerStates]
    BY <1>1, AwaitState DEF Join
  <2> QED
    BY <1>1, <1>3, <2>1, <2>2 DEF PeTypeOK
<1>6. OneDialog' /\ Undecided'
  BY <1>1, <1>2 DEF OneDialog, Undecided, PeTypeOK
<1>7. Consent'
  BY <1>1, <1>2, <1>3, <1>4 DEF Consent, PeTypeOK, Unread, Attached
<1>8. PINIsNotShared' /\ NobodyForgotten'
  BY <1>1, <1>2, <1>3 DEF PINIsNotShared, NobodyForgotten, PeTypeOK, Attached
<1>9. Fresh' /\ Shown' /\ Unread'
  BY <1>1, <1>2, <1>3, <1>4 DEF Fresh, Shown, Unread, PeTypeOK
<1>10. Attached'
  BY <1>1, <1>2, <1>3, <1>4 DEF Attached, PeTypeOK
<1>11. Known'
  BY <1>1, <1>2, <1>3 DEF Known, PeTypeOK
<1> QED
  BY <1>5, <1>6, <1>7, <1>8, <1>9, <1>10, <1>11

(* A caller that is refused keeps the invariant.                           *)
LEMMA RefuseKeeps ==
  ASSUME PeInv, NEW c \in Callers, caller[c].at = "idle", Refuse(c)
  PROVE  PeInv'
<1> USE DEF PeInv, PeTypeOK, CallerStates, Refuse, Waiting
<1>1. PeTypeOK' /\ OneDialog' /\ Undecided'
  BY DEF OneDialog, Undecided
<1>2. caller[c].chan = "empty" /\ watcher[c] = "none"
  BY DEF Fresh
<1>3. Consent' /\ PINIsNotShared' /\ NobodyForgotten'
  BY <1>2 DEF Consent, PINIsNotShared, NobodyForgotten
<1>4. Fresh' /\ Shown' /\ Attached' /\ Known' /\ Unread'
  BY <1>2 DEF Fresh, Shown, Attached, Known, Unread
<1> QED
  BY <1>1, <1>3, <1>4

(* A call, and a step of any goroutine: Pinentry numbers the calls in the  *)
(* order they are made, which nothing below depends on.                    *)
Asks(c) == CollectPIN(c) \/ \E p \in Params : ConfirmPresence(c, p)

DialogStep ==
    \E c \in Callers : Asks(c) \/ CancelContext(c) \/ Prompt(c) \/ Watch(c) \/ Wait(c)

(* ConfirmPresence and CollectPIN keep the invariant.                      *)
LEMMA CallKeeps ==
  ASSUME PeInv, NEW c \in Callers, Asks(c)
  PROVE  PeInv'
<1>1. CASE CollectPIN(c)
  BY <1>1, OpenKeeps, RefuseKeeps DEF CollectPIN
<1>2. ASSUME NEW p \in Params, ConfirmPresence(c, p) PROVE PeInv'
  BY <1>2, OpenKeeps, JoinKeeps, RefuseKeeps DEF ConfirmPresence
<1> QED
  BY <1>1, <1>2 DEF Asks
-----------------------------------------------------------------------------
(* The goroutine of the dialog.  Launching, opening and closing done move  *)
(* a dialog on and change nothing that a caller can see.                   *)
LEMMA StageKeeps ==
  ASSUME PeInv, NEW d \in Callers, NEW s \in Stages,
         dialog' = [dialog EXCEPT ![d].stage = s],
         UNCHANGED <<active, caller, watcher>>,
         \/ dialog[d].stage \in Unanswered /\ s \in Unanswered
         \/ dialog[d].stage \in Finishing /\ s \in Finishing
  PROVE  PeInv'
<1> USE DEF PeInv, Unanswered, Finishing, Waiting
<1>1. PeTypeOK'
  <2> DEFINE e == [dialog[d] EXCEPT !.stage = s]
  <2>1. e \in DialogStates
    BY DEF PeTypeOK, DialogStates, Stages
  <2>2. dialog' = [dialog EXCEPT ![d] = e]
    OBVIOUS
  <2> HIDE DEF e
  <2> QED
    BY <2>1, <2>2 DEF PeTypeOK
<1>2. OneDialog' /\ Undecided'
  BY DEF OneDialog, Undecided, PeTypeOK
<1>3. Consent' /\ PINIsNotShared' /\ NobodyForgotten'
  BY DEF Consent, PINIsNotShared, NobodyForgotten, PeTypeOK
<1>4. Fresh' /\ Shown' /\ Attached' /\ Known' /\ Unread'
  BY DEF Fresh, Shown, Attached, Known, Unread, PeTypeOK
<1> QED
  BY <1>1, <1>2, <1>3, <1>4

(* The end of a dialog, activeRequest set to nil, keeps the invariant.     *)
LEMMA ReleaseKeeps ==
  ASSUME PeInv, NEW d \in Callers, Release(d)
  PROVE  PeInv'
<1> USE NoneIsNoCaller DEF PeInv, Unanswered, Finishing, Waiting
<1>1. /\ dialog[d].stage = "closed"
      /\ dialog' = [dialog EXCEPT ![d].stage = "released"]
      /\ active' = None /\ UNCHANGED <<caller, watcher>>
  BY DEF Release, ResetActive
<1>2. active = d
  BY <1>1 DEF OneDialog
<1>3. PeTypeOK'
  <2>1. dialog' \in [Callers -> DialogStates]
    BY <1>1 DEF PeTypeOK, DialogStates, Stages
  <2> QED
    BY <1>1, <2>1 DEF PeTypeOK
<1>4. OneDialog' /\ Undecided'
  BY <1>1, <1>2 DEF OneDialog, Undecided, PeTypeOK
<1>5. Consent' /\ PINIsNotShared' /\ NobodyForgotten'
  BY <1>1 DEF Consent, PINIsNotShared, NobodyForgotten, PeTypeOK
<1>6. Fresh' /\ Shown' /\ Attached' /\ Known' /\ Unread'
  BY <1>1 DEF Fresh, Shown, Attached, Known, Unread, PeTypeOK
<1> QED
  BY <1>3, <1>4, <1>5, <1>6

(* A send reaches a caller that waits, and changes nothing but its channel *)
LEMMA PutState ==
  ASSUME PeTypeOK, NEW c \in Callers, NEW r \in {"ok", "denied"}
  PROVE  /\ Put(c, r) \in CallerStates
         /\ Put(c, r).at = caller[c].at
         /\ Put(c, r).params = caller[c].params
         /\ Put(c, r).joined = caller[c].joined
         /\ Put(c, r).ctx = caller[c].ctx
         /\ Put(c, r).chan \in {r, caller[c].chan}
         /\ Put(c, r).chan # caller[c].chan => Waiting(c)
  BY DEF Put, PeTypeOK, CallerStates, Waiting

(* The result of a dialog, sent to its waiters, keeps the invariant.       *)
LEMMA SettleKeeps ==
  ASSUME PeInv, NEW d \in Callers, NEW r \in {"ok", "denied"},
         dialog[d].stage \in Unanswered, Settle(d, r)
  PROVE  PeInv'
<1> USE DEF PeInv, Unanswered, Finishing
<1> DEFINE new == [NoDialog EXCEPT !.stage = "settled", !.answer = r,
                                   !.params = dialog[d].params]
<1>1. /\ new \in DialogStates
      /\ new.stage = "settled" /\ new.waiters = {} /\ new.answer = r
      /\ new.params = dialog[d].params
  BY DEF NoDialog, DialogStates, Stages, PeTypeOK
<1>2. dialog' = [dialog EXCEPT ![d] = new] /\ UNCHANGED <<active, watcher>>
  BY DEF Settle
<1> HIDE DEF new
<1>3. \A c \in Callers :
        /\ caller'[c] \in CallerStates
        /\ caller'[c].at = caller[c].at
        /\ caller'[c].params = caller[c].params
        /\ caller'[c].joined = caller[c].joined
        /\ caller'[c].ctx = caller[c].ctx
        /\ caller'[c].chan # caller[c].chan =>
             Waiting(c) /\ caller'[c].chan = r /\ caller[c].joined = d
  BY PutState DEF Settle, Known, PeTypeOK
<1>4. caller' \in [Callers -> CallerStates]
  BY <1>3 DEF Settle
<1>5. PeTypeOK'
  <2>1. dialog' \in [Callers -> DialogStates]
    BY <1>1, <1>2 DEF PeTypeOK
  <2> QED
    BY <1>2, <1>4, <2>1 DEF PeTypeOK
<1>6. OneDialog' /\ Undecided'
  BY <1>1, <1>2 DEF OneDialog, Undecided, PeTypeOK
<1>7. Consent'
  <2> SUFFICES ASSUME NEW c \in Callers, caller'[c].chan = "ok"
               PROVE  LET e == dialog'[caller'[c].joined]
                      IN  e.answer = "ok" /\ e.params = caller'[c].params
    BY DEF Consent
  <2>1. Waiting(c)
    BY <1>3 DEF Unread
  <2>2. CASE caller[c].joined # d
    BY <1>1, <1>2, <1>3, <2>1, <2>2 DEF Consent, Attached, PeTypeOK
  <2>3. CASE caller[c].joined = d
    <3>1. caller[c].chan # "ok"
      BY <2>3 DEF Consent, Undecided
    <3> QED
      BY <1>1, <1>2, <1>3, <2>1, <2>3, <3>1 DEF Attached, PeTypeOK
  <2> QED
    BY <2>2, <2>3
<1>8. PINIsNotShared' /\ NobodyForgotten'
  BY <1>1, <1>2, <1>3 DEF PINIsNotShared, NobodyForgotten, PeTypeOK, Waiting
<1>9. Fresh' /\ Shown' /\ Attached' /\ Known' /\ Unread'
  <2>1. Fresh' /\ Shown' /\ Attached'
    BY <1>1, <1>2, <1>3 DEF Fresh, Shown, Attached, PeTypeOK, Waiting
  <2>2. Known' /\ Unread'
    BY <1>1, <1>2, <1>3 DEF Known, Unread, PeTypeOK, Waiting
  <2> QED BY <2>1, <2>2
<1> QED
  BY <1>5, <1>6, <1>7, <1>8, <1>9

(* Every step of the goroutine of a dialog keeps the invariant.            *)
LEMMA PromptKeeps ==
  ASSUME PeInv, NEW d \in Callers, Prompt(d)
  PROVE  PeInv'
<1> USE DEF Unanswered, Finishing, Stages
<1>1. CASE SetCancel(d) \/ Launch(d) \/ CloseDone(d)
  BY <1>1, StageKeeps DEF SetCancel, Launch, CloseDone
<1>2. CASE LaunchFails(d) \/ Answer(d) \/ DialogTimeout(d)
  BY <1>2, SettleKeeps DEF LaunchFails, Answer, DialogTimeout
<1>3. CASE Release(d)
  BY <1>3, ReleaseKeeps
<1> QED
  BY <1>1, <1>2, <1>3 DEF Prompt
-----------------------------------------------------------------------------
(* The callers and their watchCancel goroutines.                           *)
LEMMA CancelContextKeeps ==
  ASSUME PeInv, NEW c \in Callers, CancelContext(c)
  PROVE  PeInv'
<1> USE DEF PeInv, CancelContext, Waiting
<1>1. PeTypeOK'
  BY DEF PeTypeOK, CallerStates
<1>2. OneDialog' /\ Undecided' /\ Consent' /\ PINIsNotShared' /\ NobodyForgotten'
  BY DEF OneDialog, Undecided, Consent, PINIsNotShared, NobodyForgotten, PeTypeOK
<1>3. Fresh' /\ Shown' /\ Attached' /\ Known' /\ Unread'
  BY DEF Fresh, Shown, Attached, Known, Unread, PeTypeOK
<1> QED
  BY <1>1, <1>2, <1>3

(* watchCancel taking the caller off the waiters keeps the invariant.      *)
LEMMA WatchRemoveKeeps ==
  ASSUME PeInv, NEW c \in Callers, WatchRemove(c)
  PROVE  PeInv'
<1> USE DEF PeInv, Waiting
<1> DEFINE d == caller[c].joined
           left == Remaining(c)
<1>1. /\ watcher[c] = "watching" /\ caller[c].ctx = "canceled"
      /\ dialog' = [dialog EXCEPT ![d].waiters = left]
      /\ UNCHANGED <<active, caller>>
  BY DEF WatchRemove
<1>2. \E w \in {"kill", "spare"} : watcher' = [watcher EXCEPT ![c] = w]
  BY DEF WatchRemove
<1>3. d \in Callers /\ left = dialog[d].waiters \ {c} /\ dialog[d].stage # "none"
  BY <1>1 DEF Attached, Remaining
<1> HIDE DEF left
<1>4. PeTypeOK'
  <2> DEFINE e == [dialog[d] EXCEPT !.waiters = left]
  <2>1. e \in DialogStates
    BY <1>3 DEF PeTypeOK, DialogStates
  <2>2. dialog' = [dialog EXCEPT ![d] = e]
    BY <1>1
  <2> HIDE DEF e
  <2>3. dialog' \in [Callers -> DialogStates]
    BY <2>1, <2>2 DEF PeTypeOK
  <2> QED
    BY <1>1, <1>2, <2>3 DEF PeTypeOK
<1>5. OneDialog' /\ Undecided'
  BY <1>1, <1>3 DEF OneDialog, Undecided, PeTypeOK
<1>6. Consent' /\ PINIsNotShared'
  BY <1>1, <1>3 DEF Consent, PINIsNotShared, PeTypeOK
<1>7. NobodyForgotten'
  BY <1>1, <1>3 DEF NobodyForgotten, PeTypeOK
<1>8. Fresh' /\ Shown' /\ Known' /\ Unread'
  BY <1>1, <1>2, <1>3 DEF Fresh, Shown, Known, Unread, PeTypeOK
<1>9. Attached'
  BY <1>1, <1>2, <1>3 DEF Attached, PeTypeOK
<1> QED
  BY <1>4, <1>5, <1>6, <1>7, <1>8, <1>9

(* watchCancel answering its caller, and killing, keeps the invariant.     *)
LEMMA WatchResolveKeeps ==
  ASSUME PeInv, NEW c \in Callers, WatchResolve(c)
  PROVE  PeInv'
<1> USE DEF PeInv
<1> DEFINE d == caller[c].joined
           killed == dialog[d].killed
                       \/ (watcher[c] = "kill" /\ dialog[d].stage \in Unanswered)
           new == Put(c, "denied")
<1>1. /\ watcher[c] \in {"kill", "spare"}
      /\ dialog' = [dialog EXCEPT ![d].killed = killed]
      /\ caller' = [caller EXCEPT ![c] = new]
      /\ watcher' = [watcher EXCEPT ![c] = "done"]
      /\ UNCHANGED active
  BY DEF WatchResolve
<1>2. d \in Callers /\ dialog[d].stage # "none"
  BY <1>1 DEF Attached
<1>3. killed \in BOOLEAN
  BY <1>2 DEF PeTypeOK, DialogStates
<1>4. /\ new \in CallerStates /\ new.at = caller[c].at /\ new.params = caller[c].params
      /\ new.joined = d /\ new.ctx = caller[c].ctx
      /\ new.chan \in {"denied", caller[c].chan}
      /\ new.chan # caller[c].chan => Waiting(c)
  BY PutState
<1> HIDE DEF killed, new
<1>5. PeTypeOK'
  <2> DEFINE e == [dialog[d] EXCEPT !.killed = killed]
  <2>a. e \in DialogStates
    BY <1>2, <1>3, SMTT(20) DEF PeTypeOK, DialogStates
  <2>b. dialog' = [dialog EXCEPT ![d] = e]
    BY <1>1
  <2> HIDE DEF e
  <2>1. dialog' \in [Callers -> DialogStates]
    BY <2>a, <2>b DEF PeTypeOK
  <2>2. caller' \in [Callers -> CallerStates]
    BY <1>1, <1>4 DEF PeTypeOK
  <2> QED
    BY <1>1, <2>1, <2>2 DEF PeTypeOK
<1>6. \A e \in Callers : /\ dialog'[e].stage = dialog[e].stage
                         /\ dialog'[e].params = dialog[e].params
                         /\ dialog'[e].waiters = dialog[e].waiters
                         /\ dialog'[e].answer = dialog[e].answer
  BY <1>1, <1>2 DEF PeTypeOK
<1>7. OneDialog' /\ Undecided'
  BY <1>1, <1>6 DEF OneDialog, Undecided
<1>8. \A e \in Callers : /\ caller'[e].at = caller[e].at
                         /\ caller'[e].params = caller[e].params
                         /\ caller'[e].joined = caller[e].joined
                         /\ caller'[e].ctx = caller[e].ctx
                         /\ caller'[e].chan \in {"denied", caller[e].chan}
                         /\ caller'[e].chan # caller[e].chan => Waiting(e)
  BY <1>1, <1>4 DEF PeTypeOK
<1>9. \A e \in Callers : Waiting(e) => caller[e].joined \in Callers
  BY DEF Attached
<1>10. Consent'
  <2> SUFFICES ASSUME NEW e \in Callers, caller'[e].chan = "ok"
               PROVE  LET f == dialog'[caller'[e].joined]
                      IN  f.answer = "ok" /\ f.params = caller'[e].params
    BY DEF Consent
  <2>1. caller[e].chan = "ok" /\ caller[e].joined \in Callers
    BY <1>8, <1>9 DEF Unread
  <2> QED
    BY <1>6, <1>8, <2>1 DEF Consent
<1>11. PINIsNotShared' /\ NobodyForgotten'
  BY <1>6, <1>8, <1>9 DEF PINIsNotShared, NobodyForgotten, Waiting
<1>12. Fresh' /\ Shown' /\ Known' /\ Unread'
  BY <1>1, <1>6, <1>8 DEF Fresh, Shown, Known, Unread, Waiting, PeTypeOK
<1>13. Attached'
  BY <1>1, <1>6, <1>8, <1>9 DEF Attached, Waiting, PeTypeOK
<1> QED
  BY <1>5, <1>7, <1>10, <1>11, <1>12, <1>13

(* A watchCancel that ends with its dialog keeps the invariant.            *)
LEMMA WatchDoneKeeps ==
  ASSUME PeInv, NEW c \in Callers, WatchDone(c)
  PROVE  PeInv'
<1> USE DEF PeInv, WatchDone
<1>1. PeTypeOK'
  BY DEF PeTypeOK
<1>2. OneDialog' /\ Undecided' /\ Consent' /\ PINIsNotShared' /\ NobodyForgotten'
  BY DEF OneDialog, Undecided, Consent, PINIsNotShared, NobodyForgotten, Waiting
<1>3. Fresh' /\ Shown' /\ Attached' /\ Known' /\ Unread'
  BY DEF Fresh, Shown, Attached, Known, Unread, Waiting, PeTypeOK
<1> QED
  BY <1>1, <1>2, <1>3

(* A caller that leaves, with or without a result, keeps the invariant.    *)
LEMMA LeaveKeeps ==
  ASSUME PeInv, NEW c \in Callers, Leave(c)
  PROVE  PeInv'
<1> USE DEF PeInv, Leave, Waiting
<1>1. PeTypeOK'
  <2> DEFINE gone == [caller[c] EXCEPT !.at = "left", !.chan = "empty"]
  <2>1. gone \in CallerStates
    BY DEF PeTypeOK, CallerStates
  <2>2. caller' = [caller EXCEPT ![c] = gone] /\ UNCHANGED <<active, dialog, watcher>>
    OBVIOUS
  <2> HIDE DEF gone
  <2>3. caller' \in [Callers -> CallerStates]
    BY <2>1, <2>2 DEF PeTypeOK
  <2> QED BY <2>2, <2>3 DEF PeTypeOK
<1>2. OneDialog' /\ Undecided' /\ Consent' /\ PINIsNotShared' /\ NobodyForgotten'
  BY DEF OneDialog, Undecided, Consent, PINIsNotShared, NobodyForgotten, PeTypeOK
<1>3. Fresh' /\ Shown' /\ Attached' /\ Known' /\ Unread'
  BY DEF Fresh, Shown, Attached, Known, Unread, PeTypeOK
<1> QED
  BY <1>1, <1>2, <1>3

(* Every step of every goroutine keeps the invariant.                      *)
LEMMA PeStep == PeInv /\ [DialogStep]_vars => PeInv'
<1> SUFFICES ASSUME PeInv, [DialogStep]_vars PROVE PeInv'
  OBVIOUS
<1>1. ASSUME NEW c \in Callers, Watch(c) PROVE PeInv'
  BY <1>1, WatchRemoveKeeps, WatchResolveKeeps, WatchDoneKeeps DEF Watch
<1>2. ASSUME NEW c \in Callers, Wait(c) PROVE PeInv'
  BY <1>2, LeaveKeeps DEF Wait, Receive, SeeCancel, GiveUp
<1>3. CASE UNCHANGED vars
  BY <1>3
  DEF vars, PeInv, PeTypeOK, OneDialog, Consent, PINIsNotShared, NobodyForgotten,
      Fresh, Shown, Attached, Known, Undecided, Unread, Waiting
<1> QED
  BY <1>1, <1>2, <1>3, CallKeeps, CancelContextKeeps, PromptKeeps DEF DialogStep

(* The steps of Pinentry are such steps.                                   *)
LEMMA PeSteps == [PeNext]_vars => [DialogStep]_vars
  BY DEF PeNext, DialogStep, Call, Asks

(* The invariant holds in every behaviour.                                 *)
LEMMA PeInvariant == PeSpec => []PeInv
  BY PeInitInv, PeSteps, PeStep, PTL DEF PeSpec
-----------------------------------------------------------------------------
(* The dialogs keep their types, for any number of calls. *)
THEOREM PeTypeCorrect == PeSpec => []PeTypeOK
<1>1. PeInv => PeTypeOK
  BY DEF PeInv
<1> QED
  BY <1>1, PeInvariant, PTL

(* A request struct is Pinentry.activeRequest from its creation until its  *)
(* result is out, for any number of callers: dialogs exclude each other.   *)
THEOREM DialogsExclude == PeSpec => []OneDialog
<1>1. PeInv => OneDialog
  BY DEF PeInv
<1> QED
  BY <1>1, PeInvariant, PTL

(* No caller is told OK for parameters the user did not confirm, whatever  *)
(* joins, cancellations, kills and timeouts come together.                 *)
THEOREM ConsentIsGenuine == PeSpec => []Consent
<1>1. PeInv => Consent
  BY DEF PeInv
<1> QED
  BY <1>1, PeInvariant, PTL

(* CollectPIN never coalesces: no caller waits for another one's PIN.      *)
THEOREM PINDialogsAreNotShared == PeSpec => []PINIsNotShared
<1>1. PeInv => PINIsNotShared
  BY DEF PeInv
<1> QED
  BY <1>1, PeInvariant, PTL

(* A live caller of an unanswered dialog is among its waiters, whoever     *)
(* else was canceled.                                                      *)
THEOREM LiveCallersStayKnown == PeSpec => []NobodyForgotten
<1>1. PeInv => NobodyForgotten
  BY DEF PeInv
<1> QED
  BY <1>1, PeInvariant, PTL
-----------------------------------------------------------------------------
(* Pinentry implements UserConsent.  Most steps of the goroutines are      *)
(* invisible to it: the lemmas below are about those that are not.         *)
StatusMap == [c \in Callers |-> Status(c)]

(* A step that changes no answer and nothing a caller was told.            *)
LEMMA InvisibleSteps ==
  ASSUME UNCHANGED <<active, caller>>,
         \A d \in Callers : dialog'[d].answer = dialog[d].answer
  PROVE  UNCHANGED UC!consentVars
<1>1. \A c \in Callers : Status(c)' = Status(c)
  BY DEF Status, Waiting
<1> QED
  BY <1>1 DEF UC!consentVars

(* Calling is asking, sharing a question, or being turned away.            *)
LEMMA CallImplements ==
  ASSUME PeInv, NEW c \in Callers, Asks(c)
  PROVE  UC!ConsentNext
<1> USE NoneIsNoCaller DEF PeInv
<1>1. caller[c].at = "idle" /\ Status(c) = "idle" /\ caller[c].chan = "empty"
  BY DEF Asks, CollectPIN, ConfirmPresence, Status, Fresh, Waiting
<1>2. ASSUME NEW d \in Callers, NEW p \in Params \cup {PINParams}, Await(c, d, p),
             \A e \in Callers : dialog'[e].answer = dialog[e].answer
      PROVE  UC!WaitFor(c, d, p)
  <2> DEFINE r == [caller[c] EXCEPT !.at = "waiting", !.params = p, !.joined = d]
  <2>1. r.at = "waiting" /\ r.params = p /\ r.joined = d /\ r.chan = "empty"
    BY <1>1 DEF PeTypeOK, CallerStates
  <2>2. caller' = [caller EXCEPT ![c] = r]
    BY <1>2 DEF Await, PeTypeOK
  <2> HIDE DEF r
  <2>3. \A b \in Callers : caller'[b] = IF b = c THEN r ELSE caller[b]
    BY <2>2 DEF PeTypeOK
  <2>4. \A b \in Callers : Status(b)' = IF b = c THEN "waiting" ELSE Status(b)
    <3>1. Status(c)' = "waiting"
      BY <2>1, <2>3 DEF Status, Waiting
    <3>2. \A b \in Callers \ {c} : Status(b)' = Status(b)
      BY <2>3 DEF Status, Waiting
    <3> QED
      BY <3>1, <3>2
  <2>5. StatusMap' = [StatusMap EXCEPT ![c] = "waiting"]
    BY <2>4 DEF StatusMap
  <2>6. /\ [b \in Callers |-> caller[b].params]' =
             [[b \in Callers |-> caller[b].params] EXCEPT ![c] = p]
        /\ [b \in Callers |-> caller[b].joined]' =
             [[b \in Callers |-> caller[b].joined] EXCEPT ![c] = d]
    BY <2>1, <2>3
  <2> QED
    BY <1>1, <1>2, <2>5, <2>6 DEF UC!WaitFor, StatusMap
<1>3. ASSUME NEW p \in Params \cup {PINParams}, Open(c, p) PROVE UC!Ask(c, p)
  <2>1. \A d \in Callers : dialog'[d].answer = dialog[d].answer
    BY <1>1, <1>3 DEF Open, Fresh, Undecided, NoDialog, PeTypeOK
  <2>2. UC!WaitFor(c, c, p)
    BY <1>2, <1>3, <2>1 DEF Open
  <2> QED
    BY <1>3, <2>2 DEF Open, UC!Ask
<1>4. ASSUME NEW p \in Params, Join(c, p) PROVE UC!Share(c, p)
  <2>1. active \in Callers /\ dialog[active].params = p /\ Await(c, active, p)
    BY <1>4 DEF Join, MayJoin, PeTypeOK
  <2>2. \A d \in Callers : dialog'[d].answer = dialog[d].answer
    BY <1>4, <2>1 DEF Join, PeTypeOK, DialogStates
  <2>3. caller[active].params = p
    BY <2>1 DEF OneDialog, Shown, Unanswered, Finishing
  <2>4. active # None /\ active' = active
    BY <1>4, <2>1 DEF Join
  <2>5. UC!WaitFor(c, active, p)
    BY <1>2, <2>1, <2>2
  <2> QED
    BY <2>1, <2>3, <2>4, <2>5 DEF UC!Share
<1>5. ASSUME active # None, Refuse(c) PROVE UC!TurnAway(c)
  <2>1. /\ caller'[c].at = "left" /\ caller'[c].params = caller[c].params
        /\ caller'[c].joined = caller[c].joined
        /\ \A b \in Callers \ {c} : caller'[b] = caller[b]
    BY <1>5 DEF Refuse, PeTypeOK, CallerStates
  <2>2. \A b \in Callers : Status(b)' = IF b = c THEN "gone" ELSE Status(b)
    <3>1. Status(c)' = "gone"
      BY <2>1 DEF Status, Waiting
    <3>2. \A b \in Callers \ {c} : Status(b)' = Status(b)
      BY <2>1 DEF Status, Waiting
    <3> QED
      BY <3>1, <3>2
  <2>3. StatusMap' = [StatusMap EXCEPT ![c] = "gone"]
    BY <2>2 DEF StatusMap
  <2>4. /\ [b \in Callers |-> caller[b].params]' = [b \in Callers |-> caller[b].params]
        /\ [b \in Callers |-> caller[b].joined]' = [b \in Callers |-> caller[b].joined]
    BY <2>1
  <2> QED
    BY <1>1, <1>5, <2>3, <2>4 DEF Refuse, UC!TurnAway, StatusMap
<1> QED
  BY <1>1, <1>3, <1>4, <1>5 DEF Asks, CollectPIN, ConfirmPresence, UC!ConsentNext

(* A result is the verdict on the question.                                *)
LEMMA SettleImplements ==
  ASSUME PeInv, NEW d \in Callers, NEW r \in {"ok", "denied"},
         dialog[d].stage \in Unanswered, Settle(d, r)
  PROVE  UC!Decide(r)
<1> USE NoneIsNoCaller DEF PeInv
<1>1. active = d /\ dialog[d].answer = "none" /\ active' = active
  BY DEF OneDialog, Undecided, Settle
<1>2. \A e \in Callers :
        dialog'[e].answer = IF e = d THEN r ELSE dialog[e].answer
  BY DEF Settle, NoDialog, PeTypeOK
<1> DEFINE told == {c \in dialog[d].waiters : caller'[c] # caller[c]}
<1>3. \A c \in Callers :
        caller'[c] = IF c \in dialog[d].waiters THEN Put(c, r) ELSE caller[c]
  BY DEF Settle
<1>4. ASSUME NEW c \in Callers
      PROVE  /\ caller'[c].params = caller[c].params
             /\ caller'[c].joined = caller[c].joined
             /\ c \in told => Status(c) = "waiting" /\ caller[c].joined = d
             /\ Status(c)' = IF c \in told THEN r ELSE Status(c)
  <2>1. caller[c] \in CallerStates
    BY DEF PeTypeOK
  <2>2. CASE c \in dialog[d].waiters /\ Waiting(c) /\ caller[c].chan = "empty"
    <3>1. caller'[c] = [caller[c] EXCEPT !.chan = r] /\ caller[c].joined = d
      BY <1>3, <2>2 DEF Put, Known
    <3> QED
      BY <2>1, <2>2, <3>1 DEF Status, Waiting, CallerStates
  <2>3. CASE ~(c \in dialog[d].waiters /\ Waiting(c) /\ caller[c].chan = "empty")
    <3>1. caller'[c] = caller[c]
      BY <1>3, <2>3 DEF Put
    <3> QED
      BY <3>1 DEF Status, Waiting
  <2> QED
    BY <2>2, <2>3
<1>5. told \in SUBSET {c \in Callers : StatusMap[c] = "waiting"
                           /\ [b \in Callers |-> caller[b].joined][c] = d}
  <2>1. told \subseteq Callers
    BY DEF PeTypeOK, DialogStates
  <2>2. \A c \in told : StatusMap[c] = "waiting" /\ caller[c].joined = d
    BY <1>4, <2>1 DEF StatusMap
  <2> HIDE DEF told
  <2> QED BY <2>1, <2>2
<1>6. StatusMap' = [c \in Callers |-> IF c \in told THEN r ELSE StatusMap[c]]
  BY <1>4 DEF StatusMap
<1> HIDE DEF told
<1> QED
  BY <1>1, <1>2, <1>4, <1>5, <1>6, ZenonT(30) DEF UC!Decide, UC!AskersOf, StatusMap, PeTypeOK

(* The goroutine of a dialog decides, finishes, or is not seen.            *)
LEMMA PromptImplements ==
  ASSUME PeInv, NEW d \in Callers, Prompt(d)
  PROVE  UC!ConsentNext \/ UNCHANGED UC!consentVars
<1> USE NoneIsNoCaller DEF PeInv
<1>1. CASE SetCancel(d) \/ Launch(d) \/ CloseDone(d)
  <2>1. UNCHANGED <<active, caller>>
        /\ \A e \in Callers : dialog'[e].answer = dialog[e].answer
    BY <1>1 DEF SetCancel, Launch, CloseDone, PeTypeOK, DialogStates
  <2> QED
    BY <2>1, InvisibleSteps
<1>2. CASE LaunchFails(d) \/ Answer(d) \/ DialogTimeout(d)
  BY <1>2, SettleImplements DEF LaunchFails, Answer, DialogTimeout, Unanswered, UC!ConsentNext
<1>3. CASE Release(d)
  <2>1. active = d /\ dialog[d].answer # "none" /\ active' = None /\ UNCHANGED caller
    BY <1>3 DEF Release, ResetActive, OneDialog, Undecided, Finishing, Unanswered
  <2>2. \A e \in Callers : dialog'[e].answer = dialog[e].answer
    BY <1>3 DEF Release, PeTypeOK, DialogStates
  <2>3. \A c \in Callers : Status(c)' = Status(c)
    BY <2>1 DEF Status, Waiting
  <2>4. UC!Finish
    BY <2>1, <2>2, <2>3 DEF UC!Finish
  <2> QED
    BY <2>4 DEF UC!ConsentNext
<1> QED
  BY <1>1, <1>2, <1>3 DEF Prompt

(* watchCancel denies its caller, or is not seen.                          *)
LEMMA WatchImplements ==
  ASSUME PeInv, NEW c \in Callers, Watch(c)
  PROVE  UC!ConsentNext \/ UNCHANGED UC!consentVars
<1> USE NoneIsNoCaller DEF PeInv
<1>1. CASE WatchRemove(c) \/ WatchDone(c)
  <2>1. UNCHANGED <<active, caller>>
        /\ \A e \in Callers : dialog'[e].answer = dialog[e].answer
    BY <1>1 DEF WatchRemove, WatchDone, PeTypeOK, DialogStates
  <2> QED
    BY <2>1, InvisibleSteps
<1>2. CASE WatchResolve(c)
  <2>1. \A e \in Callers : dialog'[e].answer = dialog[e].answer
    BY <1>2 DEF WatchResolve, PeTypeOK, DialogStates
  <2>2. active' = active /\ caller' = [caller EXCEPT ![c] = Put(c, "denied")]
    BY <1>2 DEF WatchResolve
  <2>3. CASE Waiting(c) /\ caller[c].chan = "empty"
    <3>1. /\ caller'[c].at = "waiting" /\ caller'[c].chan = "denied"
          /\ caller'[c].params = caller[c].params /\ caller'[c].joined = caller[c].joined
          /\ \A b \in Callers \ {c} : caller'[b] = caller[b]
      BY <2>2, <2>3 DEF Put, Waiting, PeTypeOK, CallerStates
    <3>2. Status(c) = "waiting" /\ Status(c)' = "denied"
      BY <2>3, <3>1 DEF Status, Waiting
    <3>3. \A b \in Callers \ {c} : Status(b)' = Status(b)
      BY <3>1 DEF Status, Waiting
    <3>4. StatusMap' = [StatusMap EXCEPT ![c] = "denied"]
      BY <3>2, <3>3 DEF StatusMap
    <3>5. /\ [b \in Callers |-> caller[b].params]' = [b \in Callers |-> caller[b].params]
          /\ [b \in Callers |-> caller[b].joined]' = [b \in Callers |-> caller[b].joined]
      BY <3>1
    <3>6. UC!Deny(c)
      BY <2>1, <2>2, <3>2, <3>4, <3>5 DEF UC!Deny, StatusMap
    <3> QED
      BY <3>6 DEF UC!ConsentNext
  <2>4. CASE ~(Waiting(c) /\ caller[c].chan = "empty")
    <3>1. caller' = caller
      BY <2>2, <2>4 DEF Put, PeTypeOK
    <3> QED
      BY <2>1, <2>2, <3>1, InvisibleSteps
  <2> QED
    BY <2>3, <2>4
<1> QED
  BY <1>1, <1>2 DEF Watch

(* A caller that leaves departs.                                           *)
LEMMA LeaveImplements ==
  ASSUME PeInv, NEW c \in Callers, Leave(c)
  PROVE  UC!Depart(c)
<1> USE DEF PeInv
<1>1. /\ caller'[c].at = "left"
      /\ caller'[c].params = caller[c].params /\ caller'[c].joined = caller[c].joined
      /\ \A b \in Callers \ {c} : caller'[b] = caller[b]
  BY DEF Leave, PeTypeOK, CallerStates
<1>2. Status(c) \in {"waiting", "ok", "denied"} /\ Status(c)' = "gone"
  BY <1>1 DEF Leave, Status, Waiting, PeTypeOK, CallerStates
<1>3. \A b \in Callers \ {c} : Status(b)' = Status(b)
  BY <1>1 DEF Status, Waiting
<1>4. StatusMap' = [StatusMap EXCEPT ![c] = "gone"]
  BY <1>2, <1>3 DEF StatusMap
<1>5. /\ [b \in Callers |-> caller[b].params]' = [b \in Callers |-> caller[b].params]
      /\ [b \in Callers |-> caller[b].joined]' = [b \in Callers |-> caller[b].joined]
  BY <1>1
<1> QED
  BY <1>2, <1>4, <1>5 DEF Leave, UC!Depart, StatusMap

(* Before anybody called nobody has asked.                                 *)
LEMMA InitImplements == PeInit => UC!ConsentInit
  BY DEF PeInit, NoDialog, Status, Waiting, UC!ConsentInit

(* Every step is a step of UserConsent, or none.                           *)
LEMMA StepImplements ==
  PeInv /\ [DialogStep]_vars => [UC!ConsentNext]_(UC!consentVars)
<1> SUFFICES ASSUME PeInv, [DialogStep]_vars
             PROVE  UC!ConsentNext \/ UNCHANGED UC!consentVars
  OBVIOUS
<1>1. ASSUME NEW c \in Callers, CancelContext(c) PROVE UNCHANGED UC!consentVars
  <2>1. /\ caller'[c].at = caller[c].at /\ caller'[c].chan = caller[c].chan
        /\ caller'[c].params = caller[c].params /\ caller'[c].joined = caller[c].joined
        /\ \A b \in Callers \ {c} : caller'[b] = caller[b]
    BY <1>1 DEF CancelContext, PeInv, PeTypeOK, CallerStates
  <2>2. \A b \in Callers : Status(b)' = Status(b)
    BY <2>1 DEF Status, Waiting
  <2> QED
    BY <1>1, <2>1, <2>2 DEF CancelContext, UC!consentVars
<1>2. ASSUME NEW c \in Callers, Wait(c) PROVE UC!ConsentNext
  BY <1>2, LeaveImplements DEF Wait, Receive, SeeCancel, GiveUp, UC!ConsentNext
<1>3. CASE UNCHANGED vars
  BY <1>3, InvisibleSteps DEF vars
<1> QED
  BY <1>1, <1>2, <1>3, CallImplements, PromptImplements, WatchImplements DEF DialogStep

(* Whatever the goroutines do, the dialogs keep the promise of UserConsent *)
(* for any number of calls: one question at a time, one verdict for it,    *)
(* shared only by callers that asked the same, and one answer for each.    *)
THEOREM PinentryImplementsUserConsent == PeSpec => KeepsPromise
  BY PeInvariant, PeSteps, InitImplements, StepImplements, PTL
  DEF PeSpec, KeepsPromise, UC!ConsentSpec

(* In UserConsent a caller is told something only while it waits.          *)
LEMMA ConsentTellsOnce ==
  ASSUME [UC!ConsentNext]_(UC!consentVars), NEW c \in Callers, Status(c) \in {"ok", "denied"}
  PROVE  Status(c)' \in {Status(c), "gone"}
<1> DEFINE status == [b \in Callers |-> Status(b)]
<1>1. status[c] = Status(c) /\ status'[c] = Status(c)'
  OBVIOUS
<1>2. CASE UNCHANGED UC!consentVars
  BY <1>1, <1>2 DEF UC!consentVars
<1>3. ASSUME NEW b \in Callers, NEW p, UC!Ask(b, p) \/ UC!Share(b, p)
      PROVE  status' = [status EXCEPT ![b] = "waiting"] /\ status[b] = "idle"
  BY <1>3 DEF UC!Ask, UC!Share, UC!WaitFor
<1>4. ASSUME NEW b \in Callers, UC!TurnAway(b) \/ UC!Depart(b)
      PROVE  status' = [status EXCEPT ![b] = "gone"]
  BY <1>4 DEF UC!TurnAway, UC!Depart
<1>5. ASSUME NEW b \in Callers, UC!Deny(b)
      PROVE  status' = [status EXCEPT ![b] = "denied"] /\ status[b] = "waiting"
  BY <1>5 DEF UC!Deny
<1>6. ASSUME NEW r \in {"ok", "denied"}, UC!Decide(r)
      PROVE  status'[c] = status[c]
  BY <1>6, <1>1 DEF UC!Decide, UC!AskersOf
<1>7. CASE UC!Finish
  BY <1>1, <1>7 DEF UC!Finish
<1>8. ASSUME NEW b \in Callers, NEW new, status' = [status EXCEPT ![b] = new],
             b = c => new = "gone"
      PROVE  status'[c] \in {status[c], "gone"}
  BY <1>8
<1> HIDE DEF status
<1>9. UC!ConsentNext => status'[c] \in {status[c], "gone"}
  BY <1>1, <1>3, <1>4, <1>5, <1>6, <1>7, <1>8 DEF UC!ConsentNext
<1> QED BY <1>1, <1>2, <1>9

(* A caller is told one thing: whichever of the dialog's goroutine and its *)
(* own watchCancel sends first, the other one's result is lost.            *)
THEOREM CallersAreToldOnce == PeSpec => ToldOnce
<1> DEFINE Once == \A c \in Callers : Status(c) \in {"ok", "denied"} =>
                     Status(c)' \in {Status(c), "gone"}
<1>1. PeInv /\ [DialogStep]_vars => Once
  BY StepImplements, ConsentTellsOnce
<1> QED
  BY <1>1, PeInvariant, PeSteps, PTL DEF PeSpec, ToldOnce
-----------------------------------------------------------------------------
(* When CANCEL does what pinentry.go says of it.  The runs of Pinentry     *)
(* refute both sentences; these are the steps each refutation needs, and   *)
(* without them the sentences hold.                                        *)

(* No watchCancel runs before its dialog has a cancel function.            *)
CancelIsSet == [][\A c \in Callers : WatchRemove(c) => HasCancel(caller[c].joined)]_vars

(* Nobody joins a dialog between the decision to kill it and the kill.     *)
Doomed(d) == \E c \in Callers : watcher[c] = "kill" /\ caller[c].joined = d

NobodyJoinsTheDoomed ==
    [][\A c \in Callers, p \in Params :
         caller[c].at = "idle" /\ Join(c, p) => ~Doomed(active)]_vars

(* A dialog that lost its last waiter is killed, or about to be.           *)
Deserted(d) == dialog[d].stage \in Unanswered /\ dialog[d].waiters = {}

DesertedInv == \A d \in Callers : Deserted(d) => dialog[d].killed \/ Doomed(d)

(* A dialog about to be killed has no waiter.                              *)
DoomedInv ==
    \A d \in Callers : Doomed(d) /\ dialog[d].stage \in Unanswered => dialog[d].waiters = {}

(* The steps that neither decide to kill nor kill, and end dialogs at most *)
LEMMA DoomKept ==
  ASSUME \A c \in Callers : /\ caller'[c].joined = caller[c].joined
                            /\ watcher'[c] = "kill" <=> watcher[c] = "kill",
         \A d \in Callers : dialog'[d].stage \in Unanswered =>
            /\ dialog[d].stage \in Unanswered
            /\ dialog'[d].waiters = dialog[d].waiters
            /\ dialog'[d].killed = dialog[d].killed
  PROVE  (DesertedInv => DesertedInv') /\ (DoomedInv => DoomedInv')
  BY DEF DesertedInv, DoomedInv, Deserted, Doomed

LEMMA QuietSteps ==
  ASSUME PeInv, NEW c \in Callers,
         CancelContext(c) \/ Prompt(c) \/ WatchDone(c) \/ Wait(c) \/ UNCHANGED vars
  PROVE  (DesertedInv => DesertedInv') /\ (DoomedInv => DoomedInv')
<1> USE DEF PeInv, PeTypeOK, Unanswered, CallerStates, DialogStates
<1>1. CASE CancelContext(c)
  BY <1>1, DoomKept DEF CancelContext
<1>2. CASE SetCancel(c) \/ Launch(c) \/ CloseDone(c) \/ Release(c)
  BY <1>2, DoomKept DEF SetCancel, Launch, CloseDone, Release
<1>3. ASSUME NEW r \in {"ok", "denied"}, Settle(c, r)
      PROVE  (DesertedInv => DesertedInv') /\ (DoomedInv => DoomedInv')
  <2>1. \A b \in Callers : caller'[b].joined = caller[b].joined
    BY <1>3, PutState DEF Settle
  <2>2. dialog'[c].stage = "settled" /\ \A d \in Callers \ {c} : dialog'[d] = dialog[d]
    BY <1>3 DEF Settle, NoDialog
  <2> QED BY <1>3, <2>1, <2>2, DoomKept DEF Settle
<1>4. CASE WatchDone(c)
  BY <1>4, DoomKept DEF WatchDone
<1>5. CASE Wait(c)
  <2>1. /\ caller' = [caller EXCEPT ![c].at = "left", ![c].chan = "empty"]
        /\ UNCHANGED <<dialog, watcher>>
    BY <1>5 DEF Wait, Receive, SeeCancel, GiveUp, Leave
  <2>2. \A b \in Callers : caller'[b].joined = caller[b].joined
    BY <2>1
  <2> QED BY <2>1, <2>2, DoomKept
<1>6. CASE UNCHANGED vars
  BY <1>6, DoomKept DEF vars
<1> QED
  BY <1>1, <1>2, <1>3, <1>4, <1>5, <1>6 DEF Prompt, LaunchFails, Answer, DialogTimeout

(* A caller opens a dialog of its own, joins one, or leaves everything.    *)
LEMMA AskingSteps ==
  ASSUME PeInv, NEW c \in Callers, Asks(c)
  PROVE  /\ DesertedInv => DesertedInv'
         /\ DoomedInv /\ (\A p \in Params : caller[c].at = "idle" /\ Join(c, p) => ~Doomed(active))
              => DoomedInv'
<1> USE DEF PeInv, PeTypeOK, Unanswered
<1>0. caller[c].at = "idle" /\ watcher[c] = "none"
  BY DEF Asks, CollectPIN, ConfirmPresence, Fresh
<1>1. ASSUME NEW p \in Params \cup {PINParams}, Open(c, p)
      PROVE  (DesertedInv => DesertedInv') /\ (DoomedInv => DoomedInv')
  <2>1. /\ dialog'[c].waiters = {c} /\ \A d \in Callers \ {c} : dialog'[d] = dialog[d]
        /\ watcher'[c] = "watching" /\ \A b \in Callers \ {c} : watcher'[b] = watcher[b]
        /\ \A b \in Callers \ {c} : caller'[b] = caller[b]
    BY <1>1 DEF Open, Await, NoDialog
  <2>2. dialog[c].stage = "none"
    BY <1>0 DEF Fresh
  <2>3. ~Doomed(c) /\ ~Doomed(c)'
    BY <2>1, <2>2 DEF Doomed, Attached
  <2>4. \A d \in Callers : Doomed(d)' <=> Doomed(d)
    BY <1>0, <2>1, <2>3 DEF Doomed
  <2> QED BY <2>1, <2>3, <2>4 DEF DesertedInv, DoomedInv, Deserted
<1>2. ASSUME NEW p \in Params, Join(c, p)
      PROVE  /\ DesertedInv => DesertedInv'
             /\ DoomedInv /\ ~Doomed(active) => DoomedInv'
  <2>1. active \in Callers
    BY <1>2, NoneIsNoCaller DEF Join, MayJoin
  <2>2. /\ dialog'[active].waiters # {} /\ \A d \in Callers \ {active} : dialog'[d] = dialog[d]
        /\ watcher'[c] = "watching" /\ \A b \in Callers \ {c} : watcher'[b] = watcher[b]
        /\ \A b \in Callers \ {c} : caller'[b] = caller[b]
    BY <1>2, <2>1 DEF Join, Await
  <2>3. \A d \in Callers : Doomed(d)' <=> Doomed(d)
    BY <1>0, <2>2 DEF Doomed
  <2> QED BY <2>1, <2>2, <2>3 DEF DesertedInv, DoomedInv, Deserted
<1>3. CASE Refuse(c)
  BY <1>3, DoomKept DEF Refuse, CallerStates
<1> QED
  BY <1>0, <1>1, <1>2, <1>3 DEF Asks, CollectPIN, ConfirmPresence

(* watchCancel: the decision, and what it decided.                         *)
LEMMA WatchingSteps ==
  ASSUME PeInv, NEW c \in Callers, WatchRemove(c) \/ WatchResolve(c)
  PROVE  /\ DesertedInv /\ (WatchRemove(c) => HasCancel(caller[c].joined)) => DesertedInv'
         /\ DoomedInv => DoomedInv'
<1> USE DEF PeInv, PeTypeOK, Unanswered
<1> DEFINE d == caller[c].joined
<1>1. d \in Callers
  BY DEF WatchRemove, WatchResolve, Attached
<1>2. CASE WatchRemove(c)
  <2>1. /\ watcher[c] = "watching" /\ UNCHANGED caller
        /\ dialog' = [dialog EXCEPT ![d].waiters = Remaining(c)]
        /\ watcher' = [watcher EXCEPT ![c] =
                         IF Remaining(c) = {} /\ HasCancel(d) THEN "kill" ELSE "spare"]
    BY <1>2 DEF WatchRemove
  <2>2. /\ dialog'[d] = [dialog[d] EXCEPT !.waiters = Remaining(c)]
        /\ \A e \in Callers \ {d} : dialog'[e] = dialog[e]
    BY <1>1, <2>1
  <2>3. dialog'[d].stage = dialog[d].stage /\ dialog'[d].waiters = Remaining(c)
    BY <1>1, <2>2 DEF DialogStates
  <2>4. \A e \in Callers : Doomed(e)' <=>
          Doomed(e) \/ (e = d /\ Remaining(c) = {} /\ HasCancel(d))
    BY <2>1 DEF Doomed
  <2>5. dialog[d].waiters = {} => Remaining(c) = {}
    BY DEF Remaining
  <2> HIDE DEF d
  <2>6. DoomedInv => DoomedInv'
    BY <1>1, <2>2, <2>3, <2>4, <2>5 DEF DoomedInv
  <2>7. DesertedInv /\ HasCancel(d) => DesertedInv'
    BY <1>1, <2>2, <2>3, <2>4 DEF DesertedInv, Deserted
  <2> QED BY <1>2, <2>6, <2>7 DEF d
<1>3. CASE WatchResolve(c)
  <2> DEFINE killed == dialog[d].killed
                         \/ (watcher[c] = "kill" /\ dialog[d].stage \in Unanswered)
  <2>1. /\ dialog' = [dialog EXCEPT ![d].killed = killed]
        /\ watcher' = [watcher EXCEPT ![c] = "done"]
        /\ caller' = [caller EXCEPT ![c] = Put(c, "denied")]
    BY <1>3 DEF WatchResolve
  <2>2. \A b \in Callers : caller'[b].joined = caller[b].joined
    BY <2>1, PutState
  <2>3. \A e \in Callers : /\ dialog'[e].stage = dialog[e].stage
                           /\ dialog'[e].waiters = dialog[e].waiters
                           /\ e # d => dialog'[e].killed = dialog[e].killed
    BY <1>1, <2>1 DEF DialogStates
  <2>4. dialog'[d].killed = killed
    BY <1>1, <2>1 DEF DialogStates
  <2>5. \A e \in Callers : /\ Doomed(e)' => Doomed(e)
                           /\ Doomed(e) => Doomed(e)' \/ (e = d /\ watcher[c] = "kill")
    BY <2>1, <2>2 DEF Doomed
  <2> HIDE DEF d
  <2>6. DoomedInv => DoomedInv'
    BY <2>3, <2>5 DEF DoomedInv
  <2>7. DesertedInv => DesertedInv'
    <3> SUFFICES ASSUME DesertedInv, NEW e \in Callers, Deserted(e)'
                 PROVE  dialog'[e].killed \/ Doomed(e)'
      BY DEF DesertedInv
    <3>1. Deserted(e) /\ (dialog[e].killed \/ Doomed(e))
      BY <2>3 DEF DesertedInv, Deserted
    <3>2. CASE e # d
      BY <2>3, <2>5, <3>1, <3>2
    <3>3. CASE e = d
      BY <2>4, <2>5, <3>1, <3>3 DEF Deserted
    <3> QED BY <3>2, <3>3
  <2> QED BY <2>6, <2>7, <1>3 DEF WatchRemove, WatchResolve
<1> QED BY <1>2, <1>3

(* "If callerCtx is canceled [...] before the user responds, the pinentry  *)
(* subprocess is killed" (pinentry.go:53-55) holds for every dialog whose  *)
(* cancel function is set before a watchCancel looks for it: no order of   *)
(* the other steps leaves a dialog on the screen that nobody waits for.    *)
THEOREM ArmedDialogsAreKilled == PeSpec /\ CancelIsSet => []CanceledDialogIsKilled
<1> DEFINE Armed == \A c \in Callers : WatchRemove(c) => HasCancel(caller[c].joined)
<1>1. PeInit => DesertedInv
  BY DEF PeInit, DesertedInv, Deserted, NoDialog, Unanswered
<1>2. PeInv /\ DesertedInv /\ [DialogStep]_vars /\ [Armed]_vars => DesertedInv'
  <2>1. CASE UNCHANGED vars
    BY <2>1, DoomKept DEF vars
  <2> QED BY <2>1, QuietSteps, AskingSteps, WatchingSteps DEF DialogStep, Watch
<1>3. DesertedInv => CanceledDialogIsKilled
  BY DEF DesertedInv, CanceledDialogIsKilled, Deserted, Doomed
<1> QED
  BY <1>1, <1>2, <1>3, PeInvariant, PeSteps, PTL DEF PeSpec, CancelIsSet

(* "one caller's CTAPHID_CANCEL never yanks the dialog out from under a    *)
(* still-live sibling request" (pinentry.go:115-116) holds as long as      *)
(* nobody joins between the decision and the kill.                         *)
THEOREM KillsSpareSiblings == PeSpec /\ NobodyJoinsTheDoomed => CancelSparesSiblings
<1> DEFINE Timely == \A c \in Callers, p \in Params :
                        caller[c].at = "idle" /\ Join(c, p) => ~Doomed(active)
           Spares == \A c \in Callers : WatchResolve(c) /\ watcher[c] = "kill" =>
                        \A s \in WaitersOf(caller[c].joined) : caller[s].ctx = "canceled"
<1>1. PeInit => DoomedInv
  BY DEF PeInit, DoomedInv, Doomed
<1>2. PeInv /\ DoomedInv /\ [DialogStep]_vars /\ [Timely]_vars => DoomedInv'
  <2>1. CASE UNCHANGED vars
    BY <2>1, DoomKept DEF vars
  <2> QED BY <2>1, QuietSteps, AskingSteps, WatchingSteps DEF DialogStep, Watch
<1>3. PeInv /\ DoomedInv => Spares
  BY DEF PeInv, DoomedInv, Doomed, Attached, WaitersOf
<1> QED
  BY <1>1, <1>2, <1>3, PeInvariant, PeSteps, PTL
  DEF PeSpec, NobodyJoinsTheDoomed, CancelSparesSiblings
=============================================================================
