------------------------------- MODULE Service -------------------------------
(***************************************************************************)
(* From a registered request to its answer (tpmfido.go, ctap2handlers.go): *)
(* the handlers between RequestRegistry and Pinentry.  A CTAP2 request     *)
(* waits for the rate limiter, is covered by a recent tap or raises a      *)
(* dialog, and gives up after 32 s; a U2F request raises a dialog and      *)
(* gives up after 750 ms, and its host polls with the next request while   *)
(* the dialog stays; getUvToken asks for the PIN.  A CANCEL ends the       *)
(* request's context, which its handler and its watchCancel goroutine see. *)
(*                                                                         *)
(* The caller of a dialog is the request with its number.                  *)
(***************************************************************************)
EXTENDS Pinentry

CONSTANTS
    Channels,
    FirstChannel    \* of the first request: channels are interchangeable

VARIABLES
    cancelFns, newest, chan, ctx, at,    \* RequestRegistry
    kind,       \* what each request is
    phase,      \* what its handler does next
    tapped,     \* lastPresence is set: for 15 s it covers later requests
    cancels     \* history: the requests a CANCEL was for

Reg == INSTANCE RequestRegistry WITH MaxRequests <- MaxCalls, Patient <- TRUE

regVars     == <<cancelFns, newest, chan, ctx, at>>
handlerVars == <<kind, phase, tapped, cancels>>
serviceVars == <<vars, regVars, handlerVars>>

Requests == Callers

(* plain: answered without the user, also because it is rejected.          *)
Kinds == {"u2f", "cbor", "uv", "plain"}

ServiceInit ==
    /\ PeInit
    /\ Reg!RegInit
    /\ chan[1] = FirstChannel
    /\ kind = [r \in Requests |-> "plain"]
    /\ phase = [r \in Requests |-> "none"]
    /\ tapped = FALSE
    /\ cancels = {}
-----------------------------------------------------------------------------
Goto(r, p) == phase' = [phase EXCEPT ![r] = p]

(* Run registers the request, and the main loop starts its handler.        *)
Arrive(r) ==
    /\ Reg!HostReady(chan[r])
    /\ Reg!registerRequest(r)
    /\ \E k \in Kinds :
        /\ kind' = [kind EXCEPT ![r] = k]
        /\ Goto(r, IF k = "u2f" THEN "ready" ELSE "queued")
    /\ UNCHANGED <<vars, tapped, cancels>>

CancelFromHost(c) ==
    /\ Reg!cancelRequest(c)
    /\ cancels' = cancels \cup {cancelFns[c]}
    /\ UNCHANGED <<vars, kind, phase, tapped>>

(* Mutant: a request canceled while it sleeps is forgotten.                *)
MayWake(r) == phase[r] = "queued" /\ ctx[r] = "live"

(* rateLimiter.Wait sleeps whether or not the context has ended.           *)
HasSlept(r) == phase[r] = "queued"

RateLimit(r) ==
    /\ HasSlept(r)
    /\ Goto(r, IF kind[r] = "plain" THEN "refused" ELSE "ready")
    /\ UNCHANGED <<vars, regVars, kind, tapped, cancels>>

Covered(r) ==
    /\ phase[r] = "ready"
    /\ kind[r] = "cbor" /\ tapped
    /\ Goto(r, "granted")
    /\ UNCHANGED <<vars, regVars, kind, tapped, cancels>>

AskUser(r) ==
    /\ phase[r] = "ready"
    /\ \/ kind[r] = "uv" /\ CollectPIN(r)
       \/ kind[r] # "uv" /\ \E p \in Params : ConfirmPresence(r, p)
    /\ Goto(r, IF caller'[r].at = "waiting" THEN "waiting" ELSE "refused")
    /\ UNCHANGED <<regVars, kind, tapped, cancels>>

(* Only confirmPresence of CTAP2 remembers the tap.                        *)
TakeResult(r) ==
    /\ Receive(r)
    /\ Goto(r, IF caller[r].chan = "ok" THEN "granted" ELSE "refused")
    /\ tapped' = (tapped \/ (kind[r] = "cbor" /\ caller[r].chan = "ok"))
    /\ UNCHANGED <<regVars, kind, cancels>>

StopWaiting(r) ==
    /\ ctx[r] = "canceled"
    /\ Leave(r)
    /\ Goto(r, "refused")
    /\ UNCHANGED <<regVars, kind, tapped, cancels>>

(* Mutant: the handler relies on the dialog to time out first.             *)
TimerOfDialog(r) == Waiting(r) /\ dialog[caller[r].joined].stage \in Unanswered

TimerRuns(r) == Waiting(r)

(* getUvToken has no timer of its own, the PIN dialog ends by its own.     *)
HandlerTimer(r) ==
    /\ TimerRuns(r) /\ kind[r] # "uv"
    /\ GiveUp(r)
    /\ Goto(r, "refused")
    /\ UNCHANGED <<regVars, kind, tapped, cancels>>

(* The slot is cleared and the response written: a patient host does       *)
(* nothing in between, so it is one step (HidTransport writes frames).     *)
Reply(r) ==
    /\ phase[r] \in {"granted", "refused"}
    /\ Reg!MayAnswer(r)
    /\ cancelFns' = Reg!clearRequest(r)
    /\ at' = [at EXCEPT ![r] = "answered"]
    /\ Goto(r, "over")
    /\ UNCHANGED <<vars, newest, chan, ctx, kind, tapped, cancels>>

(* registerSite returns without an answer.                                 *)
FailSilently(r) ==
    /\ phase[r] = "granted" /\ kind[r] = "u2f"
    /\ Reg!EndSilently(r)
    /\ Goto(r, "over")
    /\ UNCHANGED <<vars, kind, tapped, cancels>>

Handle(r) ==
    \/ RateLimit(r) \/ Covered(r) \/ AskUser(r)
    \/ TakeResult(r) \/ StopWaiting(r)
    \/ Reply(r) \/ FailSilently(r)

(* The goroutine of a dialog without the user and without its timer; a     *)
(* pinentry process that was killed does return.                           *)
RunDialog(d) ==
    /\ \/ SetCancel(d) \/ Launch(d) \/ LaunchFails(d) \/ CloseDone(d) \/ Release(d)
       \/ dialog[d].killed /\ Answer(d)
    /\ UNCHANGED <<regVars, handlerVars>>

UserAnswers(d) == Answer(d) /\ UNCHANGED <<regVars, handlerVars>>
DialogTimer(d) == DialogTimeout(d) /\ UNCHANGED <<regVars, handlerVars>>

(* watchCancel finds ctx.Done() closed when the registry has canceled it.  *)
SeeContext(r) == ctx[r] = "canceled" /\ CancelContext(r)

RunWatch(r) == (SeeContext(r) \/ Watch(r)) /\ UNCHANGED <<regVars, handlerVars>>

ServiceNext ==
    \/ \E r \in Requests :
        \/ Arrive(r) \/ Handle(r) \/ HandlerTimer(r)
        \/ RunDialog(r) \/ UserAnswers(r) \/ DialogTimer(r) \/ RunWatch(r)
    \/ \E c \in Channels : CancelFromHost(c)

ServiceSpec == ServiceInit /\ [][ServiceNext]_serviceVars

(* Goroutines run and the limiter's sleep ends.  Nothing is assumed of     *)
(* hosts, of the user, and of the timers.                                  *)
ServiceFairSpec ==
    /\ ServiceSpec
    /\ \A r \in Requests :
        /\ WF_serviceVars(Handle(r))
        /\ WF_serviceVars(RunDialog(r))
        /\ WF_serviceVars(RunWatch(r))

TimersFire ==
    \A r \in Requests : WF_serviceVars(HandlerTimer(r)) /\ WF_serviceVars(DialogTimer(r))
-----------------------------------------------------------------------------
ServiceTypeOK ==
    /\ PeTypeOK
    /\ Reg!RegTypeOK
    /\ kind \in [Requests -> Kinds]
    /\ tapped \in BOOLEAN
    /\ cancels \subseteq Requests
    /\ phase \in [Requests -> {"none", "queued", "ready", "waiting",
                              "granted", "refused", "over"}]
    /\ \A r \in Requests :
        /\ phase[r] = "waiting" <=> Waiting(r)
        /\ at[r] = "running" <=> phase[r] \notin {"none", "over"}

(* The dialog outlives the polls: though each U2F request ends after       *)
(* 750 ms and the next one takes over its channel's slot, no context ends  *)
(* and no dialog is killed unless a host sent CANCEL for a request of it.  *)
(* Only a request that ended without an answer is canceled by the next.    *)
OnlyCancelKills ==
    /\ \A r \in Requests : ctx[r] = "canceled" => r \in cancels \/ at[r] = "silent"
    /\ \A d \in Requests : dialog[d].killed => \E r \in cancels : caller[r].joined = d

(* "Ctx is canceled if the platform sends CTAPHID_CANCEL for this          *)
(* request's channel while it's still being handled" (fidohid.go:65-66):   *)
(* from its arrival to its answer, while it sleeps, waits for the user or  *)
(* has its result, a request is the one that CANCEL on its channel ends,   *)
(* also when an earlier one ended without an answer and left the slot.     *)
CancelReaches ==
    \A r \in Requests :
        at[r] = "running" /\ ctx[r] = "live" => cancelFns[chan[r]] = r

(* A request that was canceled comes to an end though the user does not    *)
(* answer and no timer fires: whether it slept, waited for the dialog it   *)
(* raised or shared, or had not asked yet.                                 *)
CanceledEnds == \A r \in Requests : ctx[r] = "canceled" ~> Reg!Ended(r)

(* With timers nothing a request started stays behind: it ends, also when  *)
(* it joined a dialog whose result was already out, the dialog it opened   *)
(* gives way to the next one, and its watchCancel goroutine returns.       *)
NothingStaysBehind ==
    TimersFire =>
        \A r \in Requests :
            at[r] = "running" ~>
                Reg!Ended(r) /\ active # r /\ watcher[r] \in {"none", "done"}
=============================================================================
