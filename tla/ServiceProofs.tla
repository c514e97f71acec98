---------------------------- MODULE ServiceProofs ----------------------------
(***************************************************************************)
(* Service, for any number of requests and channels and any parameters.    *)
(* What Pinentry promises survives the composition, because the handlers   *)
(* and the registry take none but its steps (PinentryProofs).  That only   *)
(* CANCEL kills needs ServiceInv: the slot that a new request takes over   *)
(* is empty or belongs to a request that ended without an answer (SlotInv, *)
(* with patient hosts); such a request was granted by the user (Granted),  *)
(* so its dialog is over when its watchCancel goroutine sees the context   *)
(* end, and kills nothing (Killers).  That CANCEL reaches every request    *)
(* that is being handled is ReachInv: the request is the newest of its     *)
(* channel, because hosts wait for the end of the last one.                *)
(***************************************************************************)
EXTENDS Service, PinentryProofs

SlotInv ==
    /\ Reg!RegTypeOK
    /\ Reg!SlotIsNewest
    /\ \A r \in Requests : at[r] = "unsent" => ctx[r] = "live"

HandlerInv ==
    /\ kind \in [Requests -> Kinds]
    /\ tapped \in BOOLEAN
    /\ cancels \subseteq Requests
    /\ phase \in [Requests -> {"none", "queued", "ready", "waiting",
                              "granted", "refused", "over"}]
    /\ \A r \in Requests :
        /\ phase[r] = "waiting" <=> Waiting(r)
        /\ at[r] = "running" <=> phase[r] \notin {"none", "over"}

CanceledInv ==
    \A r \in Requests : ctx[r] = "canceled" => r \in cancels \/ at[r] = "silent"

Confirmed(r) == caller[r].joined \in Callers /\ dialog[caller[r].joined].answer = "ok"

(* A U2F request goes on, or fails in registerSite, after the user's OK.   *)
Granted ==
    \A r \in Requests :
        (kind[r] = "u2f" /\ phase[r] = "granted") \/ at[r] = "silent" => Confirmed(r)

Killers ==
    \A r \in Requests :
        watcher[r] = "kill" /\ dialog[caller[r].joined].stage \in Unanswered => r \in cancels

Killed ==
    \A d \in Requests : dialog[d].killed => \E r \in cancels : caller[r].joined = d

(* watchCancel sees no context end that the registry did not end.          *)
Contexts == \A r \in Requests : caller[r].ctx = "canceled" => ctx[r] = "canceled"

Unjoined == \A r \in Requests : caller[r].at = "idle" => caller[r].joined = None

KillInv == Granted /\ Killers /\ Killed /\ Contexts /\ Unjoined

ServiceInv == PeInv /\ SlotInv /\ HandlerInv /\ CanceledInv /\ KillInv

(* A host is patient, and the number of calls is the number of requests.   *)
LEMMA RequestsAreCallers == Reg!Requests = Requests /\ Requests = Callers /\ 0 \notin Requests
  BY PinentryAssumption DEF Reg!Requests, Requests, Callers

(* The invariant holds before the first request.                           *)
LEMMA ServiceInitInv == ServiceInit => ServiceInv
<1> SUFFICES ASSUME ServiceInit PROVE ServiceInv
  OBVIOUS
<1> USE RequestsAreCallers, NoneIsNoCaller DEF ServiceInit
<1>1. PeInv
  BY PeInitInv
<1>2. SlotInv
  BY DEF SlotInv, Reg!RegInit, Reg!RegTypeOK, Reg!SlotIsNewest
<1>3. HandlerInv /\ CanceledInv
  BY DEF HandlerInv, CanceledInv, Kinds, PeInit, Waiting, Reg!RegInit
<1>4. KillInv
  BY DEF KillInv, Granted, Killers, Killed, Contexts, Unjoined, PeInit, NoDialog, Reg!RegInit
<1> QED
  BY <1>1, <1>2, <1>3, <1>4 DEF ServiceInv
-----------------------------------------------------------------------------
(* The dialogs. *)

(* What every step of Pinentry leaves as it is: the answer of a dialog,    *)
(* and the dialog a caller has joined.                                     *)
LEMMA DialogFrame ==
  ASSUME PeInv, [DialogStep]_vars
  PROVE  /\ \A d \in Callers : dialog[d].answer # "none" => dialog'[d].answer = dialog[d].answer
         /\ \A c \in Callers : caller[c].at # "idle" =>
              caller'[c].at # "idle" /\ caller'[c].joined = caller[c].joined
<1> USE NoneIsNoCaller DEF PeInv
<1> DEFINE Frame ==
      /\ \A d \in Callers : dialog[d].answer # "none" => dialog'[d].answer = dialog[d].answer
      /\ \A c \in Callers : caller[c].at # "idle" =>
           caller'[c].at # "idle" /\ caller'[c].joined = caller[c].joined
<1>1. ASSUME NEW c \in Callers, Asks(c) PROVE Frame
  <2>1. caller[c].at = "idle" /\ dialog[c].answer = "none"
    BY <1>1 DEF Asks, CollectPIN, ConfirmPresence, Fresh, Undecided
  <2>2. ASSUME NEW p, Open(c, p) PROVE Frame
    BY <2>1, <2>2 DEF Open, Await, PeTypeOK
  <2>3. ASSUME NEW p, Join(c, p) PROVE Frame
    BY <2>1, <2>3 DEF Join, MayJoin, Await, PeTypeOK, DialogStates
  <2>4. CASE Refuse(c)
    BY <2>1, <2>4 DEF Refuse, PeTypeOK
  <2> QED
    BY <1>1, <2>2, <2>3, <2>4 DEF Asks, CollectPIN, ConfirmPresence
<1>2. ASSUME NEW c \in Callers, CancelContext(c) PROVE Frame
  BY <1>2 DEF CancelContext, PeTypeOK, CallerStates
<1>3. ASSUME NEW d \in Callers, Prompt(d) PROVE Frame
  <2>1. ASSUME NEW r \in {"ok", "denied"}, Settle(d, r), dialog[d].stage \in Unanswered
        PROVE  Frame
    <3>1. \A c \in Callers : caller'[c].at = caller[c].at /\ caller'[c].joined = caller[c].joined
      BY <2>1, PutState DEF Settle
    <3>2. dialog[d].answer = "none"
      BY <2>1 DEF Undecided
    <3> QED
      BY <2>1, <3>1, <3>2 DEF Settle, PeTypeOK
  <2>2. CASE SetCancel(d) \/ Launch(d) \/ CloseDone(d) \/ Release(d)
    BY <2>2 DEF SetCancel, Launch, CloseDone, Release, PeTypeOK, DialogStates
  <2> QED
    BY <1>3, <2>1, <2>2 DEF Prompt, LaunchFails, Answer, DialogTimeout, Unanswered
<1>4. ASSUME NEW c \in Callers, Watch(c) PROVE Frame
  <2>1. CASE WatchRemove(c) \/ WatchDone(c)
    BY <2>1 DEF WatchRemove, WatchDone, PeTypeOK, DialogStates
  <2>2. CASE WatchResolve(c)
    <3>1. Put(c, "denied").at = caller[c].at /\ Put(c, "denied").joined = caller[c].joined
      BY PutState
    <3> QED
      BY <2>2, <3>1 DEF WatchResolve, PeTypeOK, DialogStates
  <2> QED
    BY <1>4, <2>1, <2>2 DEF Watch
<1>5. ASSUME NEW c \in Callers, Wait(c) PROVE Frame
  BY <1>5 DEF Wait, Receive, SeeCancel, GiveUp, Leave, PeTypeOK, CallerStates
<1>6. CASE UNCHANGED vars
  BY <1>6 DEF vars
<1> QED
  BY <1>1, <1>2, <1>3, <1>4, <1>5, <1>6 DEF DialogStep

(* Only watchCancel goes for the kill, and kills.                          *)
LEMMA DialogCauses ==
  ASSUME PeInv, [DialogStep]_vars, NEW c \in Callers
  PROVE  /\ watcher'[c] = "kill" => watcher[c] = "kill" \/ WatchRemove(c)
         /\ dialog'[c].killed => \/ dialog[c].killed
                                 \/ \E b \in Callers : /\ watcher[b] = "kill"
                                                       /\ caller[b].joined = c
                                                       /\ dialog[c].stage \in Unanswered
<1> USE NoneIsNoCaller DEF PeInv
<1> DEFINE Killer == \E b \in Callers : /\ watcher[b] = "kill"
                                        /\ caller[b].joined = c
                                        /\ dialog[c].stage \in Unanswered
           Causes == /\ watcher'[c] = "kill" => watcher[c] = "kill" \/ WatchRemove(c)
                     /\ dialog'[c].killed => dialog[c].killed \/ Killer
<1>1. ASSUME NEW b \in Callers, Asks(b) PROVE Causes
  <2>1. ASSUME NEW p, Open(b, p) PROVE Causes
    BY <2>1 DEF Open, Await, NoDialog, PeTypeOK
  <2>2. ASSUME NEW p, Join(b, p) PROVE Causes
    BY <2>2 DEF Join, MayJoin, Await, PeTypeOK, DialogStates
  <2>3. CASE Refuse(b)
    BY <2>3 DEF Refuse, PeTypeOK
  <2> QED
    BY <1>1, <2>1, <2>2, <2>3 DEF Asks, CollectPIN, ConfirmPresence
<1>2. ASSUME NEW b \in Callers, CancelContext(b) PROVE Causes
  BY <1>2 DEF CancelContext, PeTypeOK, CallerStates
<1>3. ASSUME NEW d \in Callers, Prompt(d) PROVE Causes
  <2>1. ASSUME NEW r \in {"ok", "denied"}, Settle(d, r)
        PROVE  Causes
    BY <2>1 DEF Settle, NoDialog, PeTypeOK
  <2>2. CASE SetCancel(d) \/ Launch(d) \/ CloseDone(d) \/ Release(d)
    BY <2>2 DEF SetCancel, Launch, CloseDone, Release, PeTypeOK, DialogStates
  <2> QED
    BY <1>3, <2>1, <2>2 DEF Prompt, LaunchFails, Answer, DialogTimeout
<1>4. ASSUME NEW b \in Callers, Watch(b) PROVE Causes
  <2>1. CASE WatchRemove(b)
    <3>1. watcher'[c] = "kill" => watcher[c] = "kill" \/ c = b
      BY <2>1 DEF WatchRemove, PeTypeOK
    <3>2. dialog'[c].killed = dialog[c].killed
      BY <2>1 DEF WatchRemove, PeTypeOK, DialogStates
    <3> QED
      BY <2>1, <3>1, <3>2
  <2>2. CASE WatchDone(b)
    BY <2>2 DEF WatchDone, PeTypeOK
  <2>3. CASE WatchResolve(b)
    <3>1. watcher'[c] = "kill" => watcher[c] = "kill"
      BY <2>3 DEF WatchResolve, PeTypeOK
    <3>2. dialog'[c].killed => dialog[c].killed \/ Killer
      BY <2>3 DEF WatchResolve, PeTypeOK, DialogStates
    <3> QED
      BY <3>1, <3>2
  <2> QED
    BY <1>4, <2>1, <2>2, <2>3 DEF Watch
<1>5. ASSUME NEW b \in Callers, Wait(b) PROVE Causes
  BY <1>5 DEF Wait, Receive, SeeCancel, GiveUp, Leave, PeTypeOK, CallerStates
<1>6. CASE UNCHANGED vars
  BY <1>6 DEF vars
<1> QED
  BY <1>1, <1>2, <1>3, <1>4, <1>5, <1>6 DEF DialogStep

(* Nobody gets a dialog without asking.                                    *)
LEMMA IdleStays ==
  ASSUME PeInv, [DialogStep]_vars, NEW c \in Callers, caller'[c].at = "idle",
         caller[c].at = "idle"
  PROVE  caller'[c].joined = caller[c].joined
<1> USE DEF PeInv
<1>1. ASSUME NEW b \in Callers, Asks(b) PROVE caller'[c].joined = caller[c].joined
  <2>1. ASSUME NEW d, NEW p, Await(b, d, p) PROVE caller'[c].joined = caller[c].joined
    BY <2>1 DEF Await, PeTypeOK, CallerStates
  <2>2. CASE Refuse(b)
    BY <2>2 DEF Refuse, PeTypeOK, CallerStates
  <2>3. Refuse(b) \/ \E d, p : Await(b, d, p)
    BY <1>1 DEF Asks, CollectPIN, ConfirmPresence, Open, Join
  <2> QED
    BY <2>1, <2>2, <2>3
<1>2. ASSUME NEW b \in Callers, CancelContext(b) PROVE caller'[c].joined = caller[c].joined
  BY <1>2 DEF CancelContext, PeTypeOK, CallerStates
<1>3. ASSUME NEW b \in Callers, Prompt(b) PROVE caller'[c].joined = caller[c].joined
  <2>1. ASSUME NEW r \in {"ok", "denied"}, Settle(b, r)
        PROVE  caller'[c].joined = caller[c].joined
    BY <2>1, PutState DEF Settle
  <2> QED
    BY <1>3, <2>1
    DEF Prompt, SetCancel, Launch, CloseDone, Release, LaunchFails, Answer, DialogTimeout
<1>4. ASSUME NEW b \in Callers, Watch(b) PROVE caller'[c].joined = caller[c].joined
  <2>1. CASE WatchResolve(b)
    BY <2>1, PutState DEF WatchResolve, PeTypeOK
  <2>2. CASE WatchRemove(b) \/ WatchDone(b)
    BY <2>2 DEF WatchRemove, WatchDone
  <2> QED
    BY <1>4, <2>1, <2>2 DEF Watch
<1>5. ASSUME NEW b \in Callers, Wait(b) PROVE caller'[c].joined = caller[c].joined
  BY <1>5 DEF Wait, Receive, SeeCancel, GiveUp, Leave, PeTypeOK, CallerStates
<1>6. CASE UNCHANGED vars
  BY <1>6 DEF vars
<1> QED
  BY <1>1, <1>2, <1>3, <1>4, <1>5, <1>6 DEF DialogStep

(* The goroutines of the dialogs make nobody wait and let nobody go.       *)
LEMMA WaitingStays ==
  ASSUME PeInv, NEW c \in Callers, Prompt(c) \/ Watch(c) \/ CancelContext(c),
         NEW b \in Callers
  PROVE  Waiting(b)' = Waiting(b)
<1> USE DEF PeInv, Waiting
<1>1. CASE CancelContext(c)
  BY <1>1 DEF CancelContext, PeTypeOK, CallerStates
<1>2. CASE Prompt(c)
  <2>1. ASSUME NEW r \in {"ok", "denied"}, Settle(c, r) PROVE Waiting(b)' = Waiting(b)
    BY <2>1, PutState DEF Settle
  <2> QED
    BY <1>2, <2>1
    DEF Prompt, SetCancel, Launch, CloseDone, Release, LaunchFails, Answer, DialogTimeout
<1>3. CASE Watch(c)
  BY <1>3, PutState DEF Watch, WatchRemove, WatchDone, WatchResolve, PeTypeOK
<1> QED
  BY <1>1, <1>2, <1>3
-----------------------------------------------------------------------------
(* The steps of Service, as Pinentry and the registry see them. *)
(* Service takes no step of Pinentry that Pinentry does not have.          *)
LEMMA ServiceSteps ==
  ASSUME [ServiceNext]_serviceVars
  PROVE  [DialogStep]_vars
<1> USE RequestsAreCallers DEF DialogStep
<1>1. ASSUME NEW r \in Requests, Arrive(r) \/ RateLimit(r) \/ Covered(r) \/ Reply(r) \/ FailSilently(r)
      PROVE  UNCHANGED vars
  BY <1>1 DEF Arrive, RateLimit, Covered, Reply, FailSilently
<1>2. ASSUME NEW r \in Requests, AskUser(r) PROVE Asks(r)
  BY <1>2 DEF AskUser, Asks
<1>3. ASSUME NEW r \in Requests, TakeResult(r) \/ StopWaiting(r) \/ HandlerTimer(r)
      PROVE  Wait(r)
  BY <1>3 DEF TakeResult, StopWaiting, HandlerTimer, Wait, GiveUp
<1>4. ASSUME NEW r \in Requests, RunDialog(r) \/ UserAnswers(r) \/ DialogTimer(r)
      PROVE  Prompt(r)
  BY <1>4 DEF RunDialog, UserAnswers, DialogTimer, Prompt
<1>5. ASSUME NEW r \in Requests, RunWatch(r) PROVE CancelContext(r) \/ Watch(r)
  BY <1>5 DEF RunWatch, SeeContext
<1>6. ASSUME NEW c \in Channels, CancelFromHost(c) PROVE UNCHANGED vars
  BY <1>6 DEF CancelFromHost
<1>7. CASE UNCHANGED serviceVars
  BY <1>7 DEF serviceVars
<1> QED
  BY <1>1, <1>2, <1>3, <1>4, <1>5, <1>6, <1>7 DEF ServiceNext, Handle
-----------------------------------------------------------------------------
(* The registry. *)

(* Calling the cancel function of a slot ends one context, or none.        *)
LEMMA CanceledOne ==
  ASSUME SlotInv, NEW q \in Requests \cup {0}
  PROVE  /\ Reg!Canceled(q) \in [Requests -> {"live", "canceled"}]
         /\ \A r \in Requests : r # q => Reg!Canceled(q)[r] = ctx[r]
  BY RequestsAreCallers DEF Reg!Canceled, SlotInv, Reg!RegTypeOK

(* A new request takes the slot of its channel; what it finds there ended  *)
(* without an answer, because the host is patient.                         *)
LEMMA ArriveKeeps ==
  ASSUME SlotInv, CanceledInv, NEW r \in Requests, Arrive(r)
  PROVE  SlotInv' /\ CanceledInv'
<1> USE RequestsAreCallers DEF SlotInv, Reg!RegTypeOK, Reg!SlotIsNewest
<1> DEFINE q == cancelFns[chan[r]]
<1>1. /\ Reg!HostReady(chan[r]) /\ at[r] = "unsent" /\ q \in Requests \cup {0}
      /\ ctx' = Reg!Canceled(q)
      /\ cancelFns' = [cancelFns EXCEPT ![chan[r]] = r]
      /\ newest' = [newest EXCEPT ![chan[r]] = r]
      /\ at' = [at EXCEPT ![r] = "running"]
      /\ chan' = chan /\ cancels' = cancels
  BY DEF Arrive, Reg!registerRequest, Reg!ComesNext, Reg!TakeSlot
<1>2. q # r /\ ctx[r] = "live"
  BY <1>1
<1>3. q # 0 => at[q] = "silent"
  BY <1>1 DEF Reg!HostReady, Reg!Ended
<1> HIDE DEF q
<1>4. /\ ctx' \in [Requests -> {"live", "canceled"}]
      /\ \A p \in Requests : p # q => ctx'[p] = ctx[p]
  BY <1>1, CanceledOne
<1>5. Reg!RegTypeOK'
  BY <1>1, <1>4
<1>6. Reg!SlotIsNewest'
  <2> SUFFICES ASSUME NEW c \in Channels, cancelFns'[c] # 0
               PROVE  LET p == cancelFns'[c]
                      IN  p = newest'[c] /\ chan'[p] = c /\ ctx'[p] = "live"
                            /\ at'[p] \in {"running", "silent"}
    OBVIOUS
  <2>1. CASE c = chan[r]
    BY <1>1, <1>2, <1>4, <2>1
  <2>2. CASE c # chan[r]
    BY <1>1, <1>2, <1>4, <2>2 DEF q
  <2> QED
    BY <2>1, <2>2
<1>7. \A p \in Requests : at'[p] = "unsent" => ctx'[p] = "live"
  BY <1>1, <1>3, <1>4
<1>8. CanceledInv'
  BY <1>1, <1>2, <1>3, <1>4 DEF CanceledInv
<1> QED
  BY <1>5, <1>6, <1>7, <1>8

(* CANCEL ends the context of the request in the slot, for which it is.    *)
LEMMA CancelKeeps ==
  ASSUME SlotInv, CanceledInv, NEW c \in Channels, CancelFromHost(c)
  PROVE  SlotInv' /\ CanceledInv' /\ cancelFns[c] \in Requests
<1> USE RequestsAreCallers DEF SlotInv, Reg!RegTypeOK, Reg!SlotIsNewest
<1> DEFINE q == cancelFns[c]
<1>1. /\ q \in Requests /\ chan[q] = c /\ at[q] # "unsent"
      /\ ctx' = Reg!Canceled(q)
      /\ cancelFns' = [cancelFns EXCEPT ![c] = 0]
      /\ UNCHANGED <<newest, chan, at>>
      /\ cancels' = cancels \cup {q}
  BY DEF CancelFromHost, Reg!cancelRequest
<1>2. /\ ctx' \in [Requests -> {"live", "canceled"}]
      /\ \A p \in Requests : p # q => ctx'[p] = ctx[p]
  BY <1>1, CanceledOne
<1>3. Reg!RegTypeOK'
  BY <1>1, <1>2
<1>4. Reg!SlotIsNewest'
  BY <1>1, <1>2
<1>5. (\A p \in Requests : at'[p] = "unsent" => ctx'[p] = "live") /\ CanceledInv'
  BY <1>1, <1>2 DEF CanceledInv
<1> QED
  BY <1>1, <1>3, <1>4, <1>5

(* Answered or not, the end of a request ends nobody's context.            *)
LEMMA EndKeeps ==
  ASSUME SlotInv, CanceledInv, NEW r \in Requests, Reply(r) \/ FailSilently(r)
  PROVE  SlotInv' /\ CanceledInv'
<1> USE RequestsAreCallers DEF SlotInv, Reg!RegTypeOK, Reg!SlotIsNewest, CanceledInv
<1>1. CASE Reply(r)
  BY <1>1 DEF Reply, Reg!MayAnswer, Reg!clearRequest
<1>2. CASE FailSilently(r)
  BY <1>2 DEF FailSilently, Reg!EndSilently
<1> QED
  BY <1>1, <1>2

(* Every step keeps what the registry knows.                               *)
LEMMA SlotStep ==
  ASSUME SlotInv, CanceledInv, [ServiceNext]_serviceVars
  PROVE  SlotInv' /\ CanceledInv'
<1>1. CASE UNCHANGED <<regVars, cancels>>
  BY <1>1
  DEF regVars, SlotInv, CanceledInv, Reg!RegTypeOK, Reg!SlotIsNewest
<1>2. ASSUME NEW r \in Requests,
             \/ RateLimit(r) \/ Covered(r) \/ AskUser(r) \/ TakeResult(r) \/ StopWaiting(r)
             \/ HandlerTimer(r) \/ RunDialog(r) \/ UserAnswers(r) \/ DialogTimer(r) \/ RunWatch(r)
      PROVE  UNCHANGED <<regVars, cancels>>
  BY <1>2 DEF RateLimit, Covered, AskUser, TakeResult, StopWaiting, HandlerTimer,
              RunDialog, UserAnswers, DialogTimer, RunWatch, handlerVars
<1>3. CASE UNCHANGED serviceVars
  BY <1>1, <1>3 DEF serviceVars, handlerVars
<1> QED
  BY <1>1, <1>2, <1>3, ArriveKeeps, CancelKeeps, EndKeeps DEF ServiceNext, Handle
-----------------------------------------------------------------------------
(* The handlers. *)

(* A request that goes to another phase, and is running in both.           *)
LEMMA GotoKeeps ==
  ASSUME HandlerInv, NEW r \in Requests, at[r] = "running",
         NEW p \in {"queued", "ready", "waiting", "granted", "refused"}, Goto(r, p),
         (p = "waiting") <=> Waiting(r)',
         \A q \in Requests \ {r} : Waiting(q)' = Waiting(q),
         UNCHANGED <<at, kind, cancels>>, tapped' \in BOOLEAN
  PROVE  HandlerInv'
<1>1. phase' \in [Requests -> {"none", "queued", "ready", "waiting",
                              "granted", "refused", "over"}]
  BY DEF HandlerInv, Goto
<1>2. \A q \in Requests : /\ phase'[q] = "waiting" <=> Waiting(q)'
                          /\ at'[q] = "running" <=> phase'[q] \notin {"none", "over"}
  BY DEF HandlerInv, Goto
<1> QED
  BY <1>1, <1>2 DEF HandlerInv

(* A caller that asks changes only what it itself waits for.               *)
LEMMA AskFrame ==
  ASSUME PeInv, NEW c \in Callers, Asks(c), NEW b \in Callers \ {c}
  PROVE  Waiting(b)' = Waiting(b)
<1>1. \/ \E p : Open(c, p)
      \/ \E p : Join(c, p)
      \/ Refuse(c)
  BY DEF Asks, CollectPIN, ConfirmPresence
<1> QED
  BY <1>1 DEF Open, Join, Await, Refuse, Waiting, PeInv, PeTypeOK

(* A caller that leaves does not wait any more.                            *)
LEMMA LeaveFrame ==
  ASSUME PeInv, NEW c \in Callers, Leave(c)
  PROVE  ~Waiting(c)' /\ \A b \in Callers \ {c} : Waiting(b)' = Waiting(b)
  BY DEF Leave, Waiting, PeInv, PeTypeOK, CallerStates

(* The handler waits exactly when its caller does, and a request runs from *)
(* its arrival to its end.                                                 *)
LEMMA HandlerStep ==
  ASSUME PeInv, SlotInv, HandlerInv, [ServiceNext]_serviceVars
  PROVE  HandlerInv'
<1> USE RequestsAreCallers
<1>0. \A r \in Requests : phase[r] \in {"queued", "ready", "waiting", "granted", "refused"} =>
        at[r] = "running"
  BY DEF HandlerInv
<1>1. ASSUME NEW r \in Requests, Arrive(r) PROVE HandlerInv'
  <2>1. at[r] = "unsent" /\ at' = [at EXCEPT ![r] = "running"] /\ UNCHANGED <<caller, tapped, cancels>>
    BY <1>1 DEF Arrive, Reg!registerRequest, Reg!ComesNext, vars
  <2>2. PICK k \in Kinds : /\ kind' = [kind EXCEPT ![r] = k]
                           /\ Goto(r, IF k = "u2f" THEN "ready" ELSE "queued")
    BY <1>1 DEF Arrive
  <2>3. ~Waiting(r) /\ \A q \in Requests : Waiting(q)' = Waiting(q)
    BY <2>1 DEF HandlerInv, Waiting
  <2> QED
    BY <2>1, <2>2, <2>3 DEF HandlerInv, Goto, SlotInv, Reg!RegTypeOK
<1>2. ASSUME NEW c \in Channels, CancelFromHost(c) PROVE HandlerInv'
  <2>1. cancels' \subseteq Requests /\ UNCHANGED <<caller, at, kind, phase, tapped>>
    BY <1>2 DEF CancelFromHost, Reg!cancelRequest, SlotInv, Reg!RegTypeOK, HandlerInv, vars
  <2> QED
    BY <2>1 DEF HandlerInv, Waiting
<1>3. ASSUME NEW r \in Requests, RateLimit(r) \/ Covered(r) PROVE HandlerInv'
  <2>1. /\ at[r] = "running" /\ phase[r] # "waiting"
        /\ UNCHANGED <<caller, at, kind, cancels, tapped>>
    BY <1>0, <1>3 DEF RateLimit, HasSlept, Covered, vars, regVars
  <2>2. \E p \in {"ready", "granted", "refused"} : Goto(r, p)
    BY <1>3 DEF RateLimit, Covered
  <2>3. \A q \in Requests : Waiting(q)' = Waiting(q)
    BY <2>1 DEF Waiting
  <2>4. ~Waiting(r) /\ tapped \in BOOLEAN
    BY <2>1 DEF HandlerInv
  <2> QED
    BY <2>1, <2>2, <2>3, <2>4, GotoKeeps
<1>4. ASSUME NEW r \in Requests, AskUser(r) PROVE HandlerInv'
  <2>1. at[r] = "running" /\ UNCHANGED <<at, kind, cancels, tapped>>
    BY <1>0, <1>4 DEF AskUser, regVars
  <2>2. Asks(r) /\ Goto(r, IF Waiting(r)' THEN "waiting" ELSE "refused")
    BY <1>4 DEF AskUser, Asks, Waiting
  <2>3. \A q \in Requests \ {r} : Waiting(q)' = Waiting(q)
    BY <2>2, AskFrame
  <2>4. tapped \in BOOLEAN
    BY DEF HandlerInv
  <2>5. CASE Waiting(r)'
    BY <2>1, <2>2, <2>3, <2>4, <2>5, GotoKeeps
  <2>6. CASE ~Waiting(r)'
    BY <2>1, <2>2, <2>3, <2>4, <2>6, GotoKeeps
  <2> QED
    BY <2>5, <2>6
<1>5. ASSUME NEW r \in Requests, TakeResult(r) \/ StopWaiting(r) \/ HandlerTimer(r)
      PROVE  HandlerInv'
  <2>1. Leave(r) /\ Waiting(r) /\ \E p \in {"granted", "refused"} : Goto(r, p)
    BY <1>5 DEF TakeResult, Receive, StopWaiting, HandlerTimer, GiveUp, Leave
  <2>2. UNCHANGED <<at, kind, cancels>> /\ tapped' \in BOOLEAN
    BY <1>5 DEF TakeResult, StopWaiting, HandlerTimer, regVars, HandlerInv
  <2>3. at[r] = "running"
    BY <1>0, <2>1 DEF HandlerInv
  <2> QED
    BY <2>1, <2>2, <2>3, LeaveFrame, GotoKeeps
<1>6. ASSUME NEW r \in Requests, Reply(r) \/ FailSilently(r) PROVE HandlerInv'
  <2>1. /\ phase[r] # "waiting" /\ phase' = [phase EXCEPT ![r] = "over"]
        /\ UNCHANGED <<caller, kind, tapped, cancels>>
    BY <1>6 DEF Reply, FailSilently, Goto, vars
  <2>2. \E e \in {"answered", "silent"} : at' = [at EXCEPT ![r] = e]
    BY <1>6 DEF Reply, FailSilently, Reg!EndSilently
  <2> QED
    BY <2>1, <2>2 DEF HandlerInv, Waiting, SlotInv, Reg!RegTypeOK
<1>7. ASSUME NEW r \in Requests,
             RunDialog(r) \/ UserAnswers(r) \/ DialogTimer(r) \/ RunWatch(r)
      PROVE  HandlerInv'
  <2>1. Prompt(r) \/ Watch(r) \/ CancelContext(r)
    BY <1>7 DEF RunDialog, UserAnswers, DialogTimer, Prompt, RunWatch, SeeContext
  <2>2. UNCHANGED <<at, kind, phase, tapped, cancels>>
    BY <1>7 DEF RunDialog, UserAnswers, DialogTimer, RunWatch, regVars, handlerVars
  <2>3. \A q \in Requests : Waiting(q)' = Waiting(q)
    BY <2>1, WaitingStays
  <2> QED
    BY <2>2, <2>3 DEF HandlerInv
<1>8. CASE UNCHANGED serviceVars
  BY <1>8 DEF serviceVars, vars, regVars, handlerVars, HandlerInv, Waiting
<1> QED
  BY <1>1, <1>2, <1>3, <1>4, <1>5, <1>6, <1>7, <1>8 DEF ServiceNext, Handle
-----------------------------------------------------------------------------
(* Who kills. *)

(* No step of a dialog but CancelContext ends the context of a caller.     *)
LEMMA ContextFrame ==
  ASSUME PeInv, NEW b \in Callers, Asks(b) \/ Prompt(b) \/ Watch(b) \/ Wait(b),
         NEW c \in Callers
  PROVE  caller'[c].ctx = caller[c].ctx
<1> USE DEF PeInv
<1>1. CASE Asks(b)
  <2>1. ASSUME NEW d, NEW p, Await(b, d, p) PROVE caller'[c].ctx = caller[c].ctx
    <3>1. caller' = [caller EXCEPT ![b].at = "waiting", ![b].params = p, ![b].joined = d]
      BY <2>1 DEF Await
    <3>2. caller \in [Callers -> CallerStates]
      BY DEF PeTypeOK
    <3>3. caller'[c].ctx = caller[c].ctx
      BY <3>1, <3>2 DEF CallerStates
    <3> QED BY <3>3
  <2>2. CASE Refuse(b)
    BY <2>2 DEF Refuse, PeTypeOK, CallerStates
  <2>3. Refuse(b) \/ \E d, p : Await(b, d, p)
    BY <1>1 DEF Asks, CollectPIN, ConfirmPresence, Open, Join
  <2> QED
    BY <2>1, <2>2, <2>3
<1>2. CASE Prompt(b)
  <2>1. ASSUME NEW r \in {"ok", "denied"}, Settle(b, r) PROVE caller'[c].ctx = caller[c].ctx
    BY <2>1, PutState DEF Settle
  <2> QED
    BY <1>2, <2>1
    DEF Prompt, SetCancel, Launch, CloseDone, Release, LaunchFails, Answer, DialogTimeout
<1>3. CASE Watch(b)
  <2>1. CASE WatchResolve(b)
    BY <2>1, PutState DEF WatchResolve, PeTypeOK
  <2>2. CASE WatchRemove(b) \/ WatchDone(b)
    BY <2>2 DEF WatchRemove, WatchDone
  <2> QED
    BY <1>3, <2>1, <2>2 DEF Watch
<1>4. CASE Wait(b)
  BY <1>4 DEF Wait, Receive, SeeCancel, GiveUp, Leave, PeTypeOK, CallerStates
<1> QED
  BY <1>1, <1>2, <1>3, <1>4

(* watchCancel sees its context end only if the registry has ended it.     *)
LEMMA ContextCauses ==
  ASSUME PeInv, [ServiceNext]_serviceVars, NEW c \in Callers,
         caller'[c].ctx = "canceled"
  PROVE  caller[c].ctx = "canceled" \/ ctx[c] = "canceled"
<1> USE RequestsAreCallers
<1>1. CASE UNCHANGED vars
  BY <1>1 DEF vars
<1>2. ASSUME NEW r \in Requests, AskUser(r) PROVE caller'[c].ctx = caller[c].ctx
  BY <1>2, ContextFrame DEF AskUser, Asks
<1>3. ASSUME NEW r \in Requests, TakeResult(r) \/ StopWaiting(r) \/ HandlerTimer(r)
      PROVE  caller'[c].ctx = caller[c].ctx
  BY <1>3, ContextFrame DEF TakeResult, StopWaiting, HandlerTimer, Wait, GiveUp
<1>4. ASSUME NEW r \in Requests, RunDialog(r) \/ UserAnswers(r) \/ DialogTimer(r)
      PROVE  caller'[c].ctx = caller[c].ctx
  <2>1. Prompt(r)
    BY <1>4 DEF RunDialog, UserAnswers, DialogTimer, Prompt
  <2> QED
    BY <2>1, ContextFrame
<1>5. ASSUME NEW r \in Requests, RunWatch(r)
      PROVE  caller[c].ctx = "canceled" \/ ctx[c] = "canceled"
  <2>1. CASE Watch(r)
    BY <2>1, ContextFrame
  <2>2. CASE SeeContext(r)
    BY <2>2 DEF SeeContext, CancelContext, PeInv, PeTypeOK
  <2> QED
    BY <1>5, <2>1, <2>2 DEF RunWatch
<1>6. ASSUME NEW r \in Requests,
             Arrive(r) \/ RateLimit(r) \/ Covered(r) \/ Reply(r) \/ FailSilently(r)
      PROVE  UNCHANGED vars
  BY <1>6 DEF Arrive, RateLimit, Covered, Reply, FailSilently
<1>7. ASSUME NEW d \in Channels, CancelFromHost(d) PROVE UNCHANGED vars
  BY <1>7 DEF CancelFromHost
<1>8. CASE UNCHANGED serviceVars
  BY <1>1, <1>8 DEF serviceVars
<1> QED
  BY <1>1, <1>2, <1>3, <1>4, <1>5, <1>6, <1>7, <1>8 DEF ServiceNext, Handle

(* A context that ended stays ended, and a CANCEL is remembered.           *)
LEMMA EndsStay ==
  ASSUME SlotInv, [ServiceNext]_serviceVars
  PROVE  /\ cancels \subseteq cancels'
         /\ \A r \in Requests : ctx[r] = "canceled" => ctx'[r] = "canceled"
<1> USE RequestsAreCallers
<1>1. CASE UNCHANGED <<ctx, cancels>>
  BY <1>1
<1>2. ASSUME NEW q \in Requests \cup {0}, ctx' = Reg!Canceled(q), NEW r \in Requests,
             ctx[r] = "canceled"
      PROVE  ctx'[r] = "canceled"
  BY <1>2 DEF Reg!Canceled, SlotInv, Reg!RegTypeOK
<1>3. ASSUME NEW r \in Requests, Arrive(r)
      PROVE  cancels' = cancels /\ \E q \in Requests \cup {0} : ctx' = Reg!Canceled(q)
  BY <1>3 DEF Arrive, Reg!registerRequest, SlotInv, Reg!RegTypeOK
<1>4. ASSUME NEW c \in Channels, CancelFromHost(c)
      PROVE  cancels \subseteq cancels' /\ \E q \in Requests \cup {0} : ctx' = Reg!Canceled(q)
  BY <1>4 DEF CancelFromHost, Reg!cancelRequest, SlotInv, Reg!RegTypeOK
<1>5. ASSUME NEW r \in Requests,
             \/ Handle(r) \/ HandlerTimer(r)
             \/ RunDialog(r) \/ UserAnswers(r) \/ DialogTimer(r) \/ RunWatch(r)
      PROVE  UNCHANGED <<ctx, cancels>>
  BY <1>5 DEF Handle, RateLimit, Covered, AskUser, TakeResult, StopWaiting, Reply, FailSilently,
              HandlerTimer, RunDialog, UserAnswers, DialogTimer, RunWatch, Reg!EndSilently,
              regVars, handlerVars
<1>6. CASE UNCHANGED serviceVars
  BY <1>6 DEF serviceVars, regVars, handlerVars
<1> QED
  BY <1>1, <1>2, <1>3, <1>4, <1>5, <1>6 DEF ServiceNext

(* Only the user's OK grants a U2F request, which alone may fail silently. *)
LEMMA GrantCauses ==
  ASSUME PeInv, SlotInv, HandlerInv, KillInv, [ServiceNext]_serviceVars, NEW r \in Requests,
         (kind'[r] = "u2f" /\ phase'[r] = "granted") \/ at'[r] = "silent"
  PROVE  Confirmed(r)
<1> USE RequestsAreCallers DEF KillInv, Granted, HandlerInv, SlotInv, Reg!RegTypeOK
<1> DEFINE Claim == Confirmed(r)
<1> HIDE DEF Confirmed
<1>1. CASE UNCHANGED <<kind, phase, at>>
  BY <1>1
<1>2. ASSUME NEW q \in Requests, Arrive(q) PROVE Claim
  BY <1>2 DEF Arrive, Goto, Reg!registerRequest, Reg!ComesNext
<1>3. ASSUME NEW q \in Requests, RateLimit(q) \/ Covered(q) PROVE Claim
  BY <1>3 DEF RateLimit, Covered, Goto, regVars
<1>4. ASSUME NEW q \in Requests, AskUser(q) \/ StopWaiting(q) \/ HandlerTimer(q) PROVE Claim
  BY <1>4 DEF AskUser, StopWaiting, HandlerTimer, Goto, regVars
<1>5. ASSUME NEW q \in Requests, TakeResult(q) PROVE Claim
  <2>1. CASE q = r /\ caller[r].chan = "ok"
    BY <2>1 DEF Confirmed, PeInv, Consent, Unread, Attached
  <2>2. CASE ~(q = r /\ caller[r].chan = "ok")
    BY <1>5, <2>2 DEF TakeResult, Goto, regVars
  <2> QED
    BY <2>1, <2>2
<1>6. ASSUME NEW q \in Requests, Reply(q) \/ FailSilently(q) PROVE Claim
  BY <1>6 DEF Reply, FailSilently, Goto, Reg!EndSilently
<1>7. ASSUME NEW q \in Requests,
             RunDialog(q) \/ UserAnswers(q) \/ DialogTimer(q) \/ RunWatch(q)
      PROVE  UNCHANGED <<kind, phase, at>>
  BY <1>7 DEF RunDialog, UserAnswers, DialogTimer, RunWatch, regVars, handlerVars
<1>8. ASSUME NEW c \in Channels, CancelFromHost(c) PROVE UNCHANGED <<kind, phase, at>>
  BY <1>8 DEF CancelFromHost, Reg!cancelRequest
<1>9. CASE UNCHANGED serviceVars
  BY <1>1, <1>9 DEF serviceVars, regVars, handlerVars
<1> QED
  BY <1>1, <1>2, <1>3, <1>4, <1>5, <1>6, <1>7, <1>8, <1>9 DEF ServiceNext, Handle
(* A context ends by CANCEL, or when the next request of the channel finds *)
(* this one ended without an answer, after the user's OK: then its dialog  *)
(* is over, and its watchCancel goroutine has nothing to kill.             *)
LEMMA KillStep ==
  ASSUME ServiceInv, PeInv', SlotInv', HandlerInv', [ServiceNext]_serviceVars
  PROVE  KillInv'
<1> USE RequestsAreCallers, NoneIsNoCaller
<1>1. PeInv /\ SlotInv /\ HandlerInv /\ CanceledInv /\ KillInv /\ [DialogStep]_vars
  BY ServiceSteps DEF ServiceInv
<1>2. /\ \A d \in Callers : dialog[d].answer # "none" => dialog'[d].answer = dialog[d].answer
      /\ \A c \in Callers : caller[c].at # "idle" =>
           caller'[c].at # "idle" /\ caller'[c].joined = caller[c].joined
  BY <1>1, DialogFrame
<1>3. cancels \subseteq cancels' /\ cancels' \subseteq Callers
  BY <1>1, EndsStay DEF HandlerInv
<1>4. \A c \in Callers : caller[c].joined \in Callers => caller[c].at # "idle"
  BY <1>1 DEF KillInv, Unjoined
<1>5. Granted'
  <2> SUFFICES ASSUME NEW r \in Requests,
                      (kind'[r] = "u2f" /\ phase'[r] = "granted") \/ at'[r] = "silent"
               PROVE  Confirmed(r)'
    BY DEF Granted
  <2>1. Confirmed(r)
    BY <1>1, GrantCauses
  <2> QED
    BY <1>2, <1>4, <2>1 DEF Confirmed
<1>6. Contexts'
  <2> SUFFICES ASSUME NEW r \in Requests, caller'[r].ctx = "canceled"
               PROVE  ctx'[r] = "canceled"
    BY DEF Contexts
  <2>1. ctx[r] = "canceled"
    BY <1>1, ContextCauses DEF KillInv, Contexts
  <2> QED
    BY <1>1, <2>1, EndsStay
<1>7. Unjoined'
  <2> SUFFICES ASSUME NEW r \in Requests, caller'[r].at = "idle"
               PROVE  caller'[r].joined = None
    BY DEF Unjoined
  <2>1. caller[r].at = "idle" /\ caller[r].joined = None
    BY <1>1, <1>2 DEF KillInv, Unjoined
  <2> QED
    BY <1>1, <2>1, IdleStays
<1>8. Killers'
  <2> SUFFICES ASSUME NEW r \in Requests, watcher'[r] = "kill",
                      dialog'[caller'[r].joined].stage \in Unanswered
               PROVE  r \in cancels
    BY <1>3 DEF Killers
  <2> DEFINE d == caller[r].joined
  <2>1. watcher[r] = "kill" \/ WatchRemove(r)
    BY <1>1, DialogCauses
  <2>2. watcher[r] \in {"watching", "kill"}
    BY <2>1 DEF WatchRemove
  <2>3. d \in Callers /\ dialog[d].stage # "none" /\ caller'[r].joined = d
    BY <1>1, <1>2, <1>4, <2>2 DEF PeInv, Attached
  <2>4. dialog[d].stage \in Unanswered
    <3>1. dialog'[d].answer = "none"
      BY <2>3 DEF PeInv, Undecided
    <3>2. dialog[d].answer = "none"
      BY <1>2, <2>3, <3>1
    <3> QED
      BY <1>1, <2>3, <3>2 DEF PeInv, Undecided
  <2>5. CASE watcher[r] = "kill"
    BY <1>1, <2>4, <2>5 DEF KillInv, Killers
  <2>6. CASE WatchRemove(r)
    <3>1. ctx[r] = "canceled"
      BY <1>1, <2>6 DEF WatchRemove, KillInv, Contexts
    <3>2. at[r] # "silent"
      <4>1. dialog[d].answer = "none"
        BY <1>1, <2>3, <2>4 DEF PeInv, Undecided
      <4> QED
        BY <1>1, <4>1 DEF KillInv, Granted, Confirmed
    <3> QED
      BY <1>1, <3>1, <3>2 DEF CanceledInv
  <2> QED
    BY <2>1, <2>5, <2>6
<1>9. Killed'
  <2> SUFFICES ASSUME NEW d \in Requests, dialog'[d].killed
               PROVE  \E r \in cancels' : caller'[r].joined = d
    BY DEF Killed
  <2>1. CASE dialog[d].killed
    <3>1. PICK r \in cancels : caller[r].joined = d
      BY <1>1, <2>1 DEF KillInv, Killed
    <3> QED
      BY <1>2, <1>3, <1>4, <3>1
  <2>2. CASE \E b \in Callers : /\ watcher[b] = "kill"
                                /\ caller[b].joined = d
                                /\ dialog[d].stage \in Unanswered
    <3>1. PICK b \in Callers : /\ watcher[b] = "kill"
                               /\ caller[b].joined = d
                               /\ dialog[d].stage \in Unanswered
      BY <2>2
    <3>2. b \in cancels
      BY <1>1, <3>1 DEF KillInv, Killers
    <3> QED
      BY <1>2, <1>3, <1>4, <3>1, <3>2
  <2> QED
    BY <1>1, <2>1, <2>2, DialogCauses
<1> QED
  BY <1>5, <1>6, <1>7, <1>8, <1>9 DEF KillInv

(* Every step of the service keeps the invariant.                          *)
LEMMA ServiceStep == ServiceInv /\ [ServiceNext]_serviceVars => ServiceInv'
<1> SUFFICES ASSUME ServiceInv, [ServiceNext]_serviceVars PROVE ServiceInv'
  OBVIOUS
<1>1. PeInv'
  BY ServiceSteps, PeStep DEF ServiceInv
<1>2. SlotInv' /\ CanceledInv'
  BY SlotStep DEF ServiceInv
<1>3. HandlerInv'
  BY HandlerStep DEF ServiceInv
<1>4. KillInv'
  BY <1>1, <1>2, <1>3, KillStep
<1> QED
  BY <1>1, <1>2, <1>3, <1>4 DEF ServiceInv

(* The invariant holds in every behaviour.                                 *)
LEMMA ServiceInvariant == ServiceSpec => []ServiceInv
  BY ServiceInitInv, ServiceStep, PTL DEF ServiceSpec
-----------------------------------------------------------------------------
(* Registry, handlers and dialogs keep their types, and a handler waits    *)
(* exactly when a caller of pinentry does, for any number of requests.     *)
THEOREM ServiceTypes == ServiceSpec => []ServiceTypeOK
<1>1. ServiceInv => ServiceTypeOK
  BY DEF ServiceInv, ServiceTypeOK, PeInv, SlotInv, HandlerInv
<1> QED
  BY <1>1, ServiceInvariant, PTL

(* Polls that give up, requests that take over a channel, timers and       *)
(* failures kill no dialog: that takes a CANCEL for a request of it.       *)
THEOREM OnlyCancelKillsDialogs == ServiceSpec => []OnlyCancelKills
<1>1. ServiceInv => OnlyCancelKills
  BY DEF ServiceInv, OnlyCancelKills, CanceledInv, KillInv, Killed
<1> QED
  BY <1>1, ServiceInvariant, PTL

(* In the composed service, with rate limiter, polls and CANCEL, an OK is  *)
(* still the user's, for what was on the screen.                           *)
THEOREM ServiceKeepsConsent == ServiceSpec => []Consent
<1>1. ServiceInv => Consent
  BY DEF ServiceInv, PeInv
<1> QED
  BY <1>1, ServiceInvariant, PTL

(* What the handlers of U2F and CTAP2 requests see of the user is what     *)
(* UserConsent allows.                                                     *)
THEOREM ServiceImplementsUserConsent == ServiceSpec => KeepsPromise
<1>1. ServiceInit => UC!ConsentInit
  BY InitImplements DEF ServiceInit
<1>2. ServiceInv /\ [ServiceNext]_serviceVars => [UC!ConsentNext]_(UC!consentVars)
  BY ServiceSteps, StepImplements DEF ServiceInv
<1> QED
  BY <1>1, <1>2, ServiceInvariant, PTL DEF ServiceSpec, KeepsPromise, UC!ConsentSpec

(* In the service too a caller is told one thing. *)
THEOREM ServiceTellsOnce == ServiceSpec => ToldOnce
<1> DEFINE Once == \A c \in Callers : Status(c) \in {"ok", "denied"} =>
                     Status(c)' \in {Status(c), "gone"}
<1>1. ServiceInv /\ [ServiceNext]_serviceVars => [Once]_vars
  BY ServiceSteps, StepImplements, ConsentTellsOnce DEF ServiceInv
<1> QED
  BY <1>1, ServiceInvariant, PTL DEF ServiceSpec, ToldOnce

(* No dialog next to another, no live caller dropped, no PIN for another   *)
(* request than the one that asked: in the service as in pinentry.         *)
THEOREM ServiceKeepsDialogs == ServiceSpec => [](OneDialog /\ NobodyForgotten /\ PINIsNotShared)
<1>1. ServiceInv => OneDialog /\ NobodyForgotten /\ PINIsNotShared
  BY DEF ServiceInv, PeInv
<1> QED
  BY <1>1, ServiceInvariant, PTL
-----------------------------------------------------------------------------
(* Who is within reach of CANCEL.  A patient host has one request open, so *)
(* the running request of a channel is its newest, and the slot that a     *)
(* request finds or leaves is nobody else's.                               *)
ReachInv ==
    /\ \A r \in Requests : at[r] = "running" => newest[chan[r]] = r
    /\ CancelReaches

(* Arrival, CANCEL, answer and silent end, each for the request it is of   *)
(* and for the others.                                                     *)
LEMMA ReachStep == SlotInv /\ ReachInv /\ [ServiceNext]_serviceVars => ReachInv'
<1> SUFFICES ASSUME SlotInv, ReachInv, [ServiceNext]_serviceVars PROVE ReachInv'
  OBVIOUS
<1> USE RequestsAreCallers DEF SlotInv, ReachInv, CancelReaches, Reg!RegTypeOK, Reg!SlotIsNewest
<1>1. ASSUME NEW r \in Requests, Arrive(r) PROVE ReachInv'
  <2> DEFINE q == cancelFns[chan[r]]
  <2>1. /\ Reg!HostReady(chan[r]) /\ at[r] = "unsent" /\ q \in Requests \cup {0}
        /\ ctx' = Reg!Canceled(q)
        /\ cancelFns' = [cancelFns EXCEPT ![chan[r]] = r]
        /\ newest' = [newest EXCEPT ![chan[r]] = r]
        /\ at' = [at EXCEPT ![r] = "running"] /\ chan' = chan
    BY <1>1 DEF Arrive, Reg!registerRequest, Reg!ComesNext, Reg!TakeSlot
  <2>2. \A p \in Requests : chan[p] = chan[r] => at[p] # "running"
    BY <2>1 DEF Reg!HostReady, Reg!Ended
  <2>3. q # 0 => chan[q] = chan[r]
    BY <2>1
  <2> HIDE DEF q
  <2>4. \A p \in Requests : p # q => ctx'[p] = ctx[p]
    BY <2>1, CanceledOne
  <2>5. ASSUME NEW p \in Requests, at'[p] = "running"
        PROVE  newest'[chan'[p]] = p /\ (ctx'[p] = "live" => cancelFns'[chan'[p]] = p)
    <3>1. CASE p = r
      BY <2>1, <3>1
    <3>2. CASE p # r
      <4>1. at[p] = "running" /\ chan[p] # chan[r] /\ ctx'[p] = ctx[p]
        BY <2>1, <2>2, <2>3, <2>4, <2>5, <3>2
      <4> QED BY <2>1, <4>1
    <3> QED BY <3>1, <3>2
  <2> QED BY <2>5
<1>2. ASSUME NEW c \in Channels, CancelFromHost(c) PROVE ReachInv'
  <2> DEFINE q == cancelFns[c]
  <2>1. /\ q \in Requests /\ chan[q] = c
        /\ ctx' = Reg!Canceled(q)
        /\ cancelFns' = [cancelFns EXCEPT ![c] = 0]
        /\ UNCHANGED <<newest, chan, at>>
    BY <1>2 DEF CancelFromHost, Reg!cancelRequest
  <2>2. ctx'[q] = "canceled" /\ \A p \in Requests : p # q => ctx'[p] = ctx[p]
    <3>1. \A p \in Requests : p # q => ctx'[p] = ctx[p]
      BY <2>1, CanceledOne
    <3> QED BY <2>1, <3>1 DEF Reg!Canceled
  <2>3. ASSUME NEW p \in Requests, at'[p] = "running", ctx'[p] = "live"
        PROVE  cancelFns'[chan'[p]] = p
    <3>1. cancelFns[chan[p]] = p
      BY <2>1, <2>2, <2>3
    <3>2. chan[p] # c
      BY <2>2, <2>3, <3>1
    <3> QED BY <2>1, <3>1, <3>2
  <2> QED BY <2>1, <2>3
<1>3. ASSUME NEW r \in Requests, Reply(r) PROVE ReachInv'
  <2>1. /\ at[r] = "running" /\ at' = [at EXCEPT ![r] = "answered"]
        /\ cancelFns' = [cancelFns EXCEPT ![chan[r]] = 0]
        /\ UNCHANGED <<newest, chan, ctx>>
    BY <1>3 DEF Reply, Reg!MayAnswer, Reg!clearRequest
  <2>2. \A p \in Requests : at'[p] = "running" => at[p] = "running" /\ chan[p] # chan[r]
    BY <2>1
  <2> QED BY <2>1, <2>2
<1>4. ASSUME NEW r \in Requests, FailSilently(r) PROVE ReachInv'
  BY <1>4 DEF FailSilently, Reg!EndSilently
<1>5. CASE UNCHANGED regVars
  BY <1>5 DEF regVars
<1>6. ASSUME NEW r \in Requests,
             \/ RateLimit(r) \/ Covered(r) \/ AskUser(r) \/ TakeResult(r) \/ StopWaiting(r)
             \/ HandlerTimer(r) \/ RunDialog(r) \/ UserAnswers(r) \/ DialogTimer(r) \/ RunWatch(r)
      PROVE  UNCHANGED regVars
  BY <1>6 DEF RateLimit, Covered, AskUser, TakeResult, StopWaiting, HandlerTimer,
              RunDialog, UserAnswers, DialogTimer, RunWatch
<1>7. CASE UNCHANGED serviceVars
  BY <1>5, <1>7 DEF serviceVars
<1> HIDE DEF SlotInv, ReachInv, CancelReaches
<1> QED
  BY <1>1, <1>2, <1>3, <1>4, <1>5, <1>6, <1>7 DEF ServiceNext, Handle

(* "Ctx is canceled if the platform sends CTAPHID_CANCEL for this          *)
(* request's channel while it's still being handled" (fidohid.go:65-66):   *)
(* for any number of channels and requests, whatever the handler does.     *)
THEOREM CancelReachesTheRunning == ServiceSpec => []CancelReaches
<1>1. ServiceInit => ReachInv
  BY RequestsAreCallers DEF ServiceInit, ReachInv, CancelReaches, Reg!RegInit
<1>2. ServiceInv => SlotInv
  BY DEF ServiceInv
<1>3. ReachInv => CancelReaches
  BY DEF ReachInv
<1> QED
  BY <1>1, <1>2, <1>3, ReachStep, ServiceInvariant, PTL DEF ServiceSpec
=============================================================================
