------------------------------ MODULE Pinentry ------------------------------
(***************************************************************************)
(* The user dialogs (pinentry/pinentry.go).  A caller asks for presence    *)
(* (ConfirmPresence) or for the PIN (CollectPIN) and gets a channel; at    *)
(* most one dialog is active, and a caller that repeats the parameters of  *)
(* the active presence dialog joins it.  Three goroutines serve a request: *)
(* prompt (or promptPIN) runs the dialog and sends the result, watchCancel *)
(* waits for the caller's context on behalf of one caller, and the caller  *)
(* waits for its channel, its context or its own timeout.                  *)
(*                                                                         *)
(* A step is what one goroutine does under one lock, or between two.  A    *)
(* dialog is named by the caller that opened it.  Time is not modelled: a  *)
(* timer may fire whenever it is armed, which covers every launch delay    *)
(* and every extension a joining caller asks for.                          *)
(***************************************************************************)
EXTENDS Naturals, FiniteSets

CONSTANTS
    MaxCalls,   \* bound of the model: calls of ConfirmPresence and CollectPIN
    Params,     \* (challengeParam, applicationParam) pairs
    PINParams   \* the zero parameters of a CollectPIN request

ASSUME PinentryAssumption ==
    /\ PINParams \notin Params
    /\ MaxCalls \in Nat

VARIABLES
    active,     \* Pinentry.activeRequest
    dialog,     \* the request structs, by the caller that created them
    caller,     \* what each caller is doing, and its context and channel
    watcher     \* the watchCancel goroutine of each caller

(* The calls, numbered in the order they are made. *)
Callers == 1..MaxCalls
None == 0

vars == <<active, dialog, caller, watcher>>

NoDialog == [stage |-> "none", params |-> PINParams, waiters |-> {},
             killed |-> FALSE, answer |-> "none"]

(* Stages of prompt: launching before and after req.cancel is set, on the  *)
(* screen, result sent, done closed, and no longer the active request.     *)
Unanswered == {"new", "armed", "open"}
Finishing  == {"settled", "closed"}
Stages     == Unanswered \cup Finishing \cup {"none", "released"}

Waiting(c) == caller[c].at = "waiting"

(* req.cancel is not nil. *)
HasCancel(d) == dialog[d].stage \notin {"none", "new"}
-----------------------------------------------------------------------------
PeInit ==
    /\ active = None
    /\ dialog = [c \in Callers |-> NoDialog]
    /\ caller = [c \in Callers |-> [at |-> "idle", params |-> PINParams, joined |-> None,
                                    ctx |-> "live", chan |-> "empty"]]
    /\ watcher = [c \in Callers |-> "none"]

(* The caller has its channel and a watchCancel goroutine. *)
Await(c, d, p) ==
    /\ caller' = [caller EXCEPT ![c].at = "waiting", ![c].params = p, ![c].joined = d]
    /\ watcher' = [watcher EXCEPT ![c] = "watching"]

Open(c, p) ==
    /\ active = None
    /\ active' = c
    /\ dialog' = [dialog EXCEPT ![c] = [NoDialog EXCEPT !.stage = "new", !.params = p,
                                                        !.waiters = {c}]]
    /\ Await(c, c, p)

(* Mutant: a caller joins whatever dialog is active. *)
MayJoinAny(p) == active # None

(* Only the request the dialog shows may share its answer. *)
MayJoin(p) == active # None /\ dialog[active].params = p

Join(c, p) ==
    /\ MayJoin(p)
    /\ dialog' = [dialog EXCEPT ![active].waiters = @ \cup {c}]
    /\ Await(c, active, p)
    /\ UNCHANGED active

(* "other request already in progress". *)
Refuse(c) ==
    /\ caller' = [caller EXCEPT ![c].at = "left"]
    /\ UNCHANGED <<active, dialog, watcher>>

ConfirmPresence(c, p) ==
    /\ caller[c].at = "idle"
    /\ \/ Open(c, p)
       \/ Join(c, p)
       \/ active # None /\ ~MayJoin(p) /\ Refuse(c)

(* Mutant: two callers of CollectPIN share a dialog. *)
CollectPINJoins(c) ==
    /\ caller[c].at = "idle"
    /\ Open(c, PINParams) \/ Join(c, PINParams)

CollectPIN(c) ==
    /\ caller[c].at = "idle"
    /\ \/ Open(c, PINParams)
       \/ active # None /\ Refuse(c)
-----------------------------------------------------------------------------
(* prompt and promptPIN. *)
SetCancel(d) ==
    /\ dialog[d].stage = "new"
    /\ dialog' = [dialog EXCEPT ![d].stage = "armed"]
    /\ UNCHANGED <<active, caller, watcher>>

Launch(d) ==
    /\ dialog[d].stage = "armed"
    /\ ~dialog[d].killed
    /\ dialog' = [dialog EXCEPT ![d].stage = "open"]
    /\ UNCHANGED <<active, caller, watcher>>

(* Mutant: the result is sent before the answer is filled in. *)
PutUnset(c, r) ==
    IF Waiting(c) /\ caller[c].chan = "empty"
    THEN [caller[c] EXCEPT !.chan = dialog[caller[c].joined].answer] ELSE caller[c]

(* Mutant: a result replaces the one the channel holds. *)
PutOver(c, r) == IF Waiting(c) THEN [caller[c] EXCEPT !.chan = r] ELSE caller[c]

(* A send on a channel of capacity one that does not wait; what a caller   *)
(* that left would have found there is not kept.                           *)
Put(c, r) ==
    IF Waiting(c) /\ caller[c].chan = "empty"
    THEN [caller[c] EXCEPT !.chan = r] ELSE caller[c]

(* sendResult up to close(done): the waiters are taken, and each gets r    *)
(* unless its channel already holds a result.                              *)
Settle(d, r) ==
    /\ dialog' = [dialog EXCEPT ![d] = [NoDialog EXCEPT !.stage = "settled", !.answer = r,
                                                        !.params = dialog[d].params]]
    /\ caller' = [c \in Callers |->
                    IF c \in dialog[d].waiters THEN Put(c, r) ELSE caller[c]]
    /\ UNCHANGED <<active, watcher>>

LaunchFails(d) == dialog[d].stage = "armed" /\ Settle(d, "denied")

(* Confirm or GetPIN returns: the user answered, or the process was killed *)
(* (an answer given just before the kill may still be read).               *)
Answer(d) == dialog[d].stage = "open" /\ \E r \in {"ok", "denied"} : Settle(d, r)

DialogTimeout(d) == dialog[d].stage = "open" /\ Settle(d, "denied")

CloseDone(d) ==
    /\ dialog[d].stage = "settled"
    /\ dialog' = [dialog EXCEPT ![d].stage = "closed"]
    /\ UNCHANGED <<active, caller, watcher>>

(* Mutant: activeRequest is not reset. *)
KeepActive == UNCHANGED active

ResetActive == active' = None

Release(d) ==
    /\ dialog[d].stage = "closed"
    /\ dialog' = [dialog EXCEPT ![d].stage = "released"]
    /\ ResetActive
    /\ UNCHANGED <<caller, watcher>>
-----------------------------------------------------------------------------
(* CTAPHID_CANCEL, or a new request on the channel, ends the context; that *)
(* has no effect once watchCancel is gone, and before the call it is the   *)
(* same as right after it.                                                 *)
CancelContext(c) ==
    /\ caller[c].ctx = "live"
    /\ watcher[c] = "watching"
    /\ caller' = [caller EXCEPT ![c].ctx = "canceled"]
    /\ UNCHANGED <<active, dialog, watcher>>

(* Mutant: a canceled caller takes every waiter with it. *)
RemainingNone(c) == {}

(* The waiters of c's dialog without c. *)
Remaining(c) == dialog[caller[c].joined].waiters \ {c}

(* watchCancel under req.mu: drop the own channel, read req.cancel, decide *)
(* whether to kill.                                                        *)
WatchRemove(c) ==
    LET d    == caller[c].joined
        left == Remaining(c)
    IN  /\ watcher[c] = "watching"
        /\ caller[c].ctx = "canceled"
        /\ dialog' = [dialog EXCEPT ![d].waiters = left]
        /\ watcher' = [watcher EXCEPT ![c] =
                         IF left = {} /\ HasCancel(d) THEN "kill" ELSE "spare"]
        /\ UNCHANGED <<active, caller>>

(* watchCancel after the lock: resolve the own channel, and kill.          *)
WatchResolve(c) ==
    LET d == caller[c].joined IN
    /\ watcher[c] \in {"kill", "spare"}
    /\ caller' = [caller EXCEPT ![c] = Put(c, "denied")]
    /\ dialog' = [dialog EXCEPT ![d].killed =
                     @ \/ (watcher[c] = "kill" /\ dialog[d].stage \in Unanswered)]
    /\ watcher' = [watcher EXCEPT ![c] = "done"]
    /\ UNCHANGED active

(* Mutant: nobody closes req.done. *)
DoneNeverClosed(d) == FALSE

DoneClosed(d) == dialog[d].stage \in {"closed", "released"}

WatchDone(c) ==
    /\ watcher[c] = "watching"
    /\ DoneClosed(caller[c].joined)
    /\ watcher' = [watcher EXCEPT ![c] = "done"]
    /\ UNCHANGED <<active, dialog, caller>>
-----------------------------------------------------------------------------
(* The caller's select: the result, its context, or its own timeout.  A    *)
(* caller that gives up leaves its channel with the dialog.                *)
Leave(c) ==
    /\ Waiting(c)
    /\ caller' = [caller EXCEPT ![c].at = "left", ![c].chan = "empty"]
    /\ UNCHANGED <<active, dialog, watcher>>

Receive(c) == caller[c].chan # "empty" /\ Leave(c)

SeeCancel(c) == caller[c].ctx = "canceled" /\ Leave(c)

GiveUp(c) == Leave(c)

Prompt(d) ==
    \/ SetCancel(d) \/ Launch(d) \/ LaunchFails(d)
    \/ Answer(d) \/ DialogTimeout(d)
    \/ CloseDone(d) \/ Release(d)

Watch(c) == WatchRemove(c) \/ WatchResolve(c) \/ WatchDone(c)

Wait(c) == Receive(c) \/ SeeCancel(c) \/ GiveUp(c)

Call(c) ==
    /\ \A b \in Callers : b < c => caller[b].at # "idle"
    /\ CollectPIN(c) \/ \E p \in Params : ConfirmPresence(c, p)

PeNext ==
    \E c \in Callers : Call(c) \/ CancelContext(c) \/ Prompt(c) \/ Watch(c) \/ Wait(c)

PeSpec == PeInit /\ [][PeNext]_vars
-----------------------------------------------------------------------------
DialogStates ==
    [stage: Stages, params: Params \cup {PINParams}, waiters: SUBSET Callers,
     killed: BOOLEAN, answer: {"none", "ok", "denied"}]

CallerStates ==
    [at: {"idle", "waiting", "left"}, params: Params \cup {PINParams},
     joined: Callers \cup {None}, ctx: {"live", "canceled"},
     chan: {"empty", "ok", "denied"}]

PeTypeOK ==
    /\ active \in Callers \cup {None}
    /\ dialog \in [Callers -> DialogStates]
    /\ caller \in [Callers -> CallerStates]
    /\ watcher \in [Callers -> {"none", "watching", "kill", "spare", "done"}]

(* A request is the active one from its creation until its result is out   *)
(* and done is closed: no second dialog can be opened next to it.          *)
OneDialog ==
    \A d \in Callers : dialog[d].stage \in Unanswered \cup Finishing <=> active = d

(* Consent: a caller is told OK only if the user confirmed the dialog that *)
(* showed this caller's own parameters.                                    *)
Consent ==
    \A c \in Callers : caller[c].chan = "ok" =>
        LET d == dialog[caller[c].joined]
        IN  d.answer = "ok" /\ d.params = caller[c].params

(* A PIN dialog has the caller that opened it and no other. *)
PINIsNotShared ==
    \A c \in Callers : Waiting(c) /\ caller[c].params = PINParams => caller[c].joined = c

(* A dialog without an answer knows every caller that still waits for it:  *)
(* only the caller's own watchCancel takes its channel away.               *)
NobodyForgotten ==
    \A c \in Callers :
        (Waiting(c) /\ caller[c].ctx = "live" /\ dialog[caller[c].joined].stage \in Unanswered)
            => c \in dialog[caller[c].joined].waiters

(* What a caller has been told, as UserConsent sees it. *)
Status(c) ==
    IF Waiting(c)
    THEN IF caller[c].chan = "empty" THEN "waiting" ELSE caller[c].chan
    ELSE IF caller[c].at = "idle" THEN "idle" ELSE "gone"

UC == INSTANCE UserConsent WITH
        question <- active,
        asks     <- [c \in Callers |-> caller[c].params],
        joined   <- [c \in Callers |-> caller[c].joined],
        verdict  <- [d \in Callers |-> dialog[d].answer],
        status   <- [c \in Callers |-> Status(c)]

(* The goroutines implement the promise of UserConsent: in particular a    *)
(* caller that was denied by its own CANCEL is never told OK afterwards,   *)
(* though two goroutines send to its channel, and a dialog decides once.   *)
KeepsPromise == UC!ConsentSpec

(* A caller is told one thing and keeps it until it leaves, though the     *)
(* dialog's goroutine and its own watchCancel both send to its channel.    *)
ToldOnce ==
    [][\A c \in Callers : Status(c) \in {"ok", "denied"} =>
         Status(c)' \in {Status(c), "gone"}]_vars

(* The callers a dialog without an answer still serves. *)
WaitersOf(d) == IF dialog[d].stage \in Unanswered THEN dialog[d].waiters ELSE {}

(* "one caller's CTAPHID_CANCEL never yanks the dialog out from under a    *)
(* still-live sibling request" (pinentry.go:115-116).                      *)
CancelSparesSiblings ==
    [][\A c \in Callers : WatchResolve(c) /\ watcher[c] = "kill" =>
         \A s \in WaitersOf(caller[c].joined) : caller[s].ctx = "canceled"]_vars

(* "If callerCtx is canceled [...] before the user responds, the pinentry  *)
(* subprocess is killed" (pinentry.go:53-55): a dialog all of whose        *)
(* callers were canceled is killed.                                        *)
CanceledDialogIsKilled ==
    \A d \in Callers :
        (dialog[d].stage \in Unanswered /\ dialog[d].waiters = {}
         /\ \A c \in Callers : caller[c].joined = d => watcher[c] = "done")
            => dialog[d].killed
=============================================================================
