--------------------------- MODULE RequestRegistry ---------------------------
(***************************************************************************)
(* Requests of the HID transport and their cancellation (fidohid.go).  The *)
(* packet loop of Run registers every complete message with a context of   *)
(* its own, keeps one cancel function per channel, and hands the request   *)
(* to a goroutine of the server; CTAPHID_CANCEL calls the channel's cancel *)
(* function, and a response clears the channel's slot before it is written *)
(* frame by frame.                                                         *)
(*                                                                         *)
(* How packets become requests and frames become answers is HidTransport's *)
(* part; here requests arrive complete.                                    *)
(*                                                                         *)
(* Requests are numbered in the order they arrive.  A handler may answer   *)
(* whether or not its context was canceled, at any time; it may also end   *)
(* without an answer (an undecodable message, a failure in registerSite).  *)
(***************************************************************************)
EXTENDS Naturals

CONSTANTS
    Channels,       \* channel ids the hosts were given
    MaxRequests,    \* bound of the model: requests in a behaviour
    Patient         \* hosts send the next request only after the last one ended

ASSUME RegistryAssumption ==
    /\ MaxRequests \in Nat
    /\ Patient \in BOOLEAN

VARIABLES
    cancelFns,    \* SoftToken.cancelFns: the request whose context it cancels, or 0
    newest,       \* history: the last request registered on each channel
    chan,         \* AuthEvent.chanID of each request
    ctx,          \* AuthEvent.Ctx of each request
    at            \* what its handler is doing

vars == <<cancelFns, newest, chan, ctx, at>>

Requests == 1..MaxRequests

Ended(r) == at[r] \in {"silent", "answered"}

RegInit ==
    /\ cancelFns = [c \in Channels |-> 0]
    /\ newest = [c \in Channels |-> 0]
    /\ chan \in [Requests -> Channels]
    /\ ctx = [r \in Requests |-> "live"]
    /\ at = [r \in Requests |-> "unsent"]

(* A patient host has seen the end of what it sent before.                 *)
HostReady(c) == Patient /\ newest[c] # 0 => Ended(newest[c])

(* Channels are chosen in RegInit, requests come in the order of numbers.  *)
ComesNext(r) == at[r] = "unsent" /\ \A q \in Requests : q < r => at[q] # "unsent"

(* Mutant: the cancel function is called without asking if there is one. *)
CanceledBlindly(r) ==
    [q \in Requests \cup {r} |-> IF q = r THEN "canceled" ELSE ctx[q]]

(* The contexts once the cancel function of r, if there is one, was called *)
Canceled(r) == IF r = 0 THEN ctx ELSE [ctx EXCEPT ![r] = "canceled"]

(* Mutant: the previous request keeps the slot. *)
KeepSlot(r) == IF cancelFns[chan[r]] # 0 THEN cancelFns
               ELSE [cancelFns EXCEPT ![chan[r]] = r]

TakeSlot(r) == [cancelFns EXCEPT ![chan[r]] = r]

registerRequest(r) ==
    /\ ComesNext(r)
    /\ ctx' = Canceled(cancelFns[chan[r]])
    /\ cancelFns' = TakeSlot(r)
    /\ newest' = [newest EXCEPT ![chan[r]] = r]
    /\ at' = [at EXCEPT ![r] = "running"]
    /\ UNCHANGED chan

(* CTAPHID_CANCEL: the slot is emptied under the lock, and the context     *)
(* ends right after it, still in the packet loop.                          *)
cancelRequest(c) ==
    /\ cancelFns[c] # 0
    /\ ctx' = Canceled(cancelFns[c])
    /\ cancelFns' = [cancelFns EXCEPT ![c] = 0]
    /\ UNCHANGED <<newest, chan, at>>

(* Mutant: a response leaves the cancel function where it is. *)
LeaveSlot(r) == cancelFns

(* clearRequest knows the channel, not the request. *)
clearRequest(r) == [cancelFns EXCEPT ![chan[r]] = 0]

(* Mutant: a handler goes on after it has answered, and answers again. *)
MayAnswerTwice(r) == at[r] \in {"running", "answered"}

MayAnswer(r) == at[r] = "running"

(* WriteResponse and WriteCborResponse clear the slot, then write. *)
BeginResponse(r) ==
    /\ MayAnswer(r)
    /\ cancelFns' = clearRequest(r)
    /\ at' = [at EXCEPT ![r] = "writing"]
    /\ UNCHANGED <<newest, chan, ctx>>

(* The last frame of writeRespose is out, or the device failed. *)
EndResponse(r) ==
    /\ at[r] = "writing"
    /\ at' = [at EXCEPT ![r] = "answered"]
    /\ UNCHANGED <<cancelFns, newest, chan, ctx>>

EndSilently(r) ==
    /\ at[r] = "running"
    /\ at' = [at EXCEPT ![r] = "silent"]
    /\ UNCHANGED <<cancelFns, newest, chan, ctx>>

RegNext ==
    \/ \E r \in Requests :
        \/ HostReady(chan[r]) /\ registerRequest(r)
        \/ BeginResponse(r) \/ EndResponse(r) \/ EndSilently(r)
    \/ \E c \in Channels : cancelRequest(c)

RegSpec == RegInit /\ [][RegNext]_vars
-----------------------------------------------------------------------------
RegTypeOK ==
    /\ cancelFns \in [Channels -> Requests \cup {0}]
    /\ newest \in [Channels -> Requests \cup {0}]
    /\ chan \in [Requests -> Channels]
    /\ ctx \in [Requests -> {"live", "canceled"}]
    /\ at \in [Requests -> {"unsent", "running", "writing", "answered", "silent"}]

(* "a later CANCEL for an already-finished request is a harmless no-op     *)
(* rather than canceling some unrelated later request": what CANCEL would  *)
(* end on a channel is its newest request, never one that is being or was  *)
(* answered, whatever the hosts do.                                        *)
SlotIsNewest ==
    \A c \in Channels : cancelFns[c] # 0 =>
        LET r == cancelFns[c]
        IN  r = newest[c] /\ chan[r] = c /\ ctx[r] = "live" /\ at[r] \in {"running", "silent"}

(* "Ctx is canceled if the platform sends CTAPHID_CANCEL for this          *)
(* request's channel while it's still being handled" (fidohid.go:65-66):   *)
(* the newest request of a channel is within reach of CANCEL until it is   *)
(* canceled, answered or over.                                             *)
Cancelable ==
    \A r \in Requests :
        (at[r] = "running" /\ newest[chan[r]] = r /\ ctx[r] = "live") => cancelFns[chan[r]] = r

(* Two responses are never written to the same channel at once, so the     *)
(* frames of one are not torn apart by the other's.                        *)
WholeResponses ==
    \A q, r \in Requests : at[q] = "writing" /\ at[r] = "writing" /\ chan[q] = chan[r] => q = r
=============================================================================
