------------------------ MODULE RequestRegistryProofs ------------------------
(***************************************************************************)
(* The cancel registry, for any channels and any number of requests.       *)
(* SlotInv holds whatever the hosts do: SlotIsNewest is not inductive by   *)
(* itself, because a request takes the slot with the context it was        *)
(* created with, which nobody may have canceled before.  The other two     *)
(* properties need hosts that wait for the end of a request; then only the *)
(* newest request of a channel is unfinished, which is OneOpen.            *)
(***************************************************************************)
EXTENDS RequestRegistry, TLAPS

SlotInv ==
    /\ RegTypeOK
    /\ SlotIsNewest
    /\ \A r \in Requests : at[r] = "unsent" => ctx[r] = "live"

(* Only the newest request of a channel is being handled. *)
OneOpen ==
    \A r \in Requests : at[r] \in {"running", "writing"} => newest[chan[r]] = r

(* The empty slot is no request.                                           *)
LEMMA NoRequestZero == 0 \notin Requests
  BY RegistryAssumption DEF Requests

(* The invariant holds in the empty registry.                              *)
LEMMA SlotInit == RegInit => SlotInv
  BY NoRequestZero DEF RegInit, SlotInv, RegTypeOK, SlotIsNewest

(* Calling the cancel function of a slot ends one context, or none. *)
LEMMA CanceledContexts ==
  ASSUME RegTypeOK, NEW q \in Requests \cup {0}
  PROVE  /\ Canceled(q) \in [Requests -> {"live", "canceled"}]
         /\ \A r \in Requests : r # q => Canceled(q)[r] = ctx[r]
  BY NoRequestZero DEF Canceled, RegTypeOK

(* Every call of the registry keeps the invariant, whatever hosts do.      *)
LEMMA SlotStep == SlotInv /\ [RegNext]_vars => SlotInv'
<1> SUFFICES ASSUME SlotInv, [RegNext]_vars PROVE SlotInv'
  OBVIOUS
<1> USE NoRequestZero DEF SlotInv, RegTypeOK, SlotIsNewest
<1>1. ASSUME NEW r \in Requests, registerRequest(r) PROVE SlotInv'
  <2> DEFINE q == cancelFns[chan[r]]
  <2>1. q \in Requests \cup {0} /\ at[r] = "unsent" /\ ctx[r] = "live"
    BY <1>1 DEF registerRequest, ComesNext
  <2>2. q # r
    BY <2>1
  <2>3. ctx' \in [Requests -> {"live", "canceled"}]
        /\ \A p \in Requests : p # q => ctx'[p] = ctx[p]
    BY <1>1, <2>1, CanceledContexts DEF registerRequest
  <2>4. RegTypeOK'
    BY <1>1, <2>3 DEF registerRequest, TakeSlot
  <2>5. SlotIsNewest'
    BY <1>1, <2>1, <2>2, <2>3 DEF registerRequest, TakeSlot
  <2>6. \A p \in Requests : at'[p] = "unsent" => ctx'[p] = "live"
    BY <1>1, <2>1, <2>3 DEF registerRequest
  <2> QED
    BY <2>4, <2>5, <2>6
<1>2. ASSUME NEW c \in Channels, cancelRequest(c) PROVE SlotInv'
  <2> DEFINE q == cancelFns[c]
  <2>1. q \in Requests /\ at[q] # "unsent" /\ chan[q] = c
    BY <1>2 DEF cancelRequest
  <2>2. ctx' \in [Requests -> {"live", "canceled"}]
        /\ \A p \in Requests : p # q => ctx'[p] = ctx[p]
    BY <1>2, <2>1, CanceledContexts DEF cancelRequest
  <2>3. RegTypeOK'
    BY <1>2, <2>2 DEF cancelRequest
  <2>4. SlotIsNewest'
    BY <1>2, <2>1, <2>2 DEF cancelRequest
  <2>5. \A p \in Requests : at'[p] = "unsent" => ctx'[p] = "live"
    BY <1>2, <2>1, <2>2 DEF cancelRequest
  <2> QED
    BY <2>3, <2>4, <2>5
<1>3. ASSUME NEW r \in Requests, BeginResponse(r) PROVE SlotInv'
  BY <1>3 DEF BeginResponse, MayAnswer, clearRequest
<1>4. ASSUME NEW r \in Requests, EndResponse(r) PROVE SlotInv'
  BY <1>4 DEF EndResponse
<1>5. ASSUME NEW r \in Requests, EndSilently(r) PROVE SlotInv'
  BY <1>5 DEF EndSilently
<1>6. CASE UNCHANGED vars
  BY <1>6 DEF vars
<1> QED
  BY <1>1, <1>2, <1>3, <1>4, <1>5, <1>6 DEF RegNext

(* The invariant holds in every behaviour.                                 *)
LEMMA SlotInvariant == RegSpec => []SlotInv
  BY SlotInit, SlotStep, PTL DEF RegSpec

(* The registry keeps its types, for any number of requests. *)
THEOREM RegTypeCorrect == RegSpec => []RegTypeOK
<1>1. SlotInv => RegTypeOK
  BY DEF SlotInv
<1> QED
  BY <1>1, SlotInvariant, PTL

(* CANCEL ends the newest request of its channel or nothing, also for      *)
(* hosts that send a request while another one is open on the channel.     *)
THEOREM CancelHitsTheNewest == RegSpec => []SlotIsNewest
<1>1. SlotInv => SlotIsNewest
  BY DEF SlotInv
<1> QED
  BY <1>1, SlotInvariant, PTL
-----------------------------------------------------------------------------
PatientInv == SlotInv /\ OneOpen /\ Cancelable

(* The invariant of patient hosts holds in the empty registry.             *)
LEMMA PatientInit == RegInit => PatientInv
  BY SlotInit DEF PatientInv, RegInit, OneOpen, Cancelable

(* And every call keeps it if hosts are patient.                           *)
LEMMA PatientStep ==
  ASSUME Patient
  PROVE  PatientInv /\ [RegNext]_vars => PatientInv'
<1> SUFFICES ASSUME PatientInv, [RegNext]_vars PROVE PatientInv'
  OBVIOUS
<1>0. SlotInv' /\ SlotInv /\ RegTypeOK
  BY SlotStep DEF PatientInv, SlotInv
<1> USE NoRequestZero DEF PatientInv, OneOpen, Cancelable, RegTypeOK
<1>1. ASSUME NEW r \in Requests, HostReady(chan[r]), registerRequest(r) PROVE PatientInv'
  <2> DEFINE q == cancelFns[chan[r]]
  <2>1. at[r] = "unsent" /\ (newest[chan[r]] # 0 => Ended(newest[chan[r]]))
    BY <1>1 DEF registerRequest, ComesNext, HostReady
  <2>2. \A p \in Requests : at[p] \in {"running", "writing"} => chan[p] # chan[r]
    BY <1>0, <2>1 DEF Ended
  <2>3. OneOpen'
    BY <1>0, <1>1, <2>2 DEF registerRequest
  <2>4. \A p \in Requests : p # q => ctx'[p] = ctx[p]
    BY <1>0, <1>1, CanceledContexts DEF registerRequest
  <2>5. q = 0 \/ (q \in Requests /\ chan[q] = chan[r])
    BY <1>0 DEF SlotInv, SlotIsNewest
  <2>6. Cancelable'
    BY <1>0, <1>1, <2>2, <2>4, <2>5 DEF registerRequest, TakeSlot
  <2> QED
    BY <1>0, <2>3, <2>6
<1>2. ASSUME NEW c \in Channels, cancelRequest(c) PROVE PatientInv'
  <2> DEFINE q == cancelFns[c]
  <2>1. q \in Requests /\ chan[q] = c /\ q = newest[c]
    BY <1>0, <1>2 DEF cancelRequest, SlotInv, SlotIsNewest
  <2>2. ctx' = [ctx EXCEPT ![q] = "canceled"]
    BY <1>2, <2>1 DEF cancelRequest, Canceled
  <2>3. OneOpen' /\ Cancelable'
    BY <1>0, <1>2, <2>1, <2>2 DEF cancelRequest
  <2> QED
    BY <1>0, <2>3
<1>3. ASSUME NEW r \in Requests, BeginResponse(r) PROVE PatientInv'
  BY <1>0, <1>3 DEF BeginResponse, MayAnswer, clearRequest
<1>4. ASSUME NEW r \in Requests, EndResponse(r) \/ EndSilently(r) PROVE PatientInv'
  BY <1>0, <1>4 DEF EndResponse, EndSilently
<1>5. CASE UNCHANGED vars
  BY <1>0, <1>5 DEF vars
<1> QED
  BY <1>1, <1>2, <1>3, <1>4, <1>5 DEF RegNext

(* With patient hosts every request can be canceled until it is answered. *)
THEOREM PatientRequestsAreCancelable == Patient => (RegSpec => []Cancelable)
<1> SUFFICES ASSUME Patient PROVE RegSpec => []Cancelable
  OBVIOUS
<1>1. PatientInv /\ [RegNext]_vars => PatientInv'
  BY PatientStep
<1>2. PatientInv => Cancelable
  BY DEF PatientInv
<1> QED
  BY <1>1, <1>2, PatientInit, PTL DEF RegSpec

(* With patient hosts the frames of two responses are never mixed on a     *)
(* channel.                                                                *)
THEOREM PatientResponsesAreWhole == Patient => (RegSpec => []WholeResponses)
<1> SUFFICES ASSUME Patient PROVE RegSpec => []WholeResponses
  OBVIOUS
<1>1. PatientInv /\ [RegNext]_vars => PatientInv'
  BY PatientStep
<1>2. PatientInv => WholeResponses
  BY DEF PatientInv, OneOpen, WholeResponses
<1> QED
  BY <1>1, <1>2, PatientInit, PTL DEF RegSpec
=============================================================================
