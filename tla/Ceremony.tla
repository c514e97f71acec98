------------------------------ MODULE Ceremony ------------------------------
(***************************************************************************)
(* The two CTAP2 ceremonies, authenticatorMakeCredential and               *)
(* authenticatorGetAssertion (ctap2handlers.go), over the resident store,  *)
(* the presence window and the two signature counters: the one each        *)
(* resident credential carries, and the device-wide one of the TPM signer  *)
(* (tpm.go).  Requests run concurrently; each reads the store, waits for   *)
(* the user unless a PIN or a recent gesture covers it, and only then      *)
(* changes the store and answers.                                          *)
(*                                                                         *)
(* The PIN token is abstract here: a request carries a parameter that      *)
(* verifies, or none (a wrong one is refused before any change of state).  *)
(* PinAuth models where tokens come from, Pinentry the dialog.             *)
(***************************************************************************)
EXTENDS ResidentStore

CONSTANTS
    Clients,    \* goroutines that handle a CTAP2 request
    Epoch,      \* seconds on the wall clock at the start, since baseTime
    MaxClock,   \* bound of the model: the last second of the wall clock
    MaxSigns    \* bound of the model: assertions in a behaviour

ASSUME CeremonyAssumption ==
    /\ Epoch \in Nat /\ MaxClock \in Nat /\ MaxSigns \in Nat
    /\ MaxSigns < Epoch /\ Epoch <= MaxClock

VARIABLES
    home,           \* the relying party each created key handle belongs to
    fresh,          \* a presence gesture is less than presenceCacheWindow old
    clock,          \* wall clock
    lastCounter,    \* TPM.lastCounter
    call,           \* the request each client has in progress
    signs,          \* history: assertions made
    drawn,          \* history: the last count drawn of either kind for a credential
    acked,          \* history: resident registrations answered with success
    excused         \* history: credentials deleted, or whose user registered again

ceremonyVars == <<home, fresh, clock, lastCounter, call, signs, drawn, acked, excused>>
vars == <<residentVars, ceremonyVars>>

Idle == [op |-> "idle"]

Created == DOMAIN home    \* key handles the signer recognizes

(* A device counter is from one process; a restart begins a new one. *)
NothingDrawn == [resident |-> 0, device |-> 0]
-----------------------------------------------------------------------------
CeremonyInit ==
    /\ ResidentInit
    /\ home = <<>>
    /\ fresh = FALSE
    /\ clock = Epoch
    /\ lastCounter = 0
    /\ call = [c \in Clients |-> Idle]
    /\ signs = 0
    /\ drawn = [id \in Ids |-> NothingDrawn]
    /\ acked = {}
    /\ excused = {}

(* Requests as they look once they are decoded: rk asks for a resident     *)
(* credential, flow tells how the credential was found.                    *)
MakeRequest(rp, user, rk) ==
    [op |-> "make", at |-> "ask", rp |-> rp, user |-> user, rk |-> rk]

AssertRequest(rp, id, flow) ==
    [op |-> "assert", at |-> "ask", rp |-> rp, id |-> id, flow |-> flow]

(* An allowList names a handle the signer recognizes for this rpId, stored *)
(* or not; without a list the last stored credential of the rpId is used.  *)
AllowListed(rp) == {AssertRequest(rp, id, "device") : id \in {k \in Created : home[k] = rp}}

Discoverable(rp) ==
    IF creds[rp] = <<>> THEN {}
    ELSE {AssertRequest(rp, creds[rp][Len(creds[rp])].id, "resident")}

Requests(rp) ==
    {MakeRequest(rp, u, rk) : u \in Users, rk \in BOOLEAN}
        \cup AllowListed(rp) \cup Discoverable(rp)

(* A verified PIN is the gesture and renews the window; a request inside   *)
(* the window, and a silent assertion, need no dialog.                     *)
Begin(c) ==
    /\ call[c] = Idle
    /\ \E rp \in RPs : \E r \in Requests(rp) :
        \/ /\ fresh' = TRUE
           /\ call' = [call EXCEPT ![c] = [r EXCEPT !.at = "act"]]
        \/ /\ fresh \/ r.op = "assert"
           /\ call' = [call EXCEPT ![c] = [r EXCEPT !.at = "act"]]
           /\ UNCHANGED fresh
        \/ /\ ~fresh
           /\ call' = [call EXCEPT ![c] = r]
           /\ UNCHANGED fresh
    /\ UNCHANGED <<residentVars, home, clock, lastCounter, signs, drawn, acked, excused>>

Answered(c) == call' = [call EXCEPT ![c] = Idle]

(* confirmPresence: the user taps; or declines, or the request is canceled *)
(* or times out, and is refused.                                           *)
Presence(c) ==
    /\ call[c] # Idle
    /\ call[c].at = "ask"
    /\ \/ fresh' = TRUE /\ call' = [call EXCEPT ![c].at = "act"]
       \/ UNCHANGED fresh /\ Answered(c)
    /\ UNCHANGED <<residentVars, home, clock, lastCounter, signs, drawn, acked, excused>>

WindowEnds ==
    /\ fresh
    /\ fresh' = FALSE
    /\ UNCHANGED <<residentVars, home, clock, lastCounter, call, signs, drawn, acked, excused>>

Acts(c, op) == call[c] # Idle /\ call[c].op = op /\ call[c].at = "act"

(* Credentials of this user that a Put replaces. *)
Rivals(rp, user) ==
    {creds[rp][i].id : i \in {j \in 1..Len(creds[rp]) : creds[rp][j].user = user}}

(* The rest of handleMakeCredential: RegisterKey creates a handle; for a   *)
(* resident credential Put must succeed before the answer is success.      *)
MakeCredential(c) ==
    LET r == call[c]
        id == Len(home) + 1
    IN  /\ Acts(c, "make")
        /\ id \in Ids
        /\ home' = Append(home, r.rp)
        /\ IF r.rk
           THEN \E ok \in BOOLEAN :
                  /\ Put(r.rp, Credential(id, r.user), ok)
                  /\ acked' = IF ok THEN acked \cup {id} ELSE acked
                  /\ excused' = excused \cup Rivals(r.rp, r.user)
           ELSE UNCHANGED <<residentVars, acked, excused>>
        /\ Answered(c)
        /\ UNCHANGED <<fresh, clock, lastCounter, signs, drawn>>

(* RegisterKey, the attestation or the encoding fails: nothing was stored, *)
(* and a handle that was created is told to nobody.                        *)
MakeCredentialFails(c) ==
    /\ Acts(c, "make")
    /\ Answered(c)
    /\ UNCHANGED <<residentVars, home, fresh, clock, lastCounter, signs, drawn, acked, excused>>

(* Mutant: the counter is the wall clock. *)
CounterIsClock == clock

(* TPM.Counter: the wall clock, or one more than the last value.           *)
Counter == IF clock <= lastCounter THEN lastCounter + 1 ELSE clock

Draw(id, flow, n) == drawn' = [drawn EXCEPT ![id][flow] = n]

(* The device-wide count. *)
DeviceCount(c) ==
    /\ lastCounter' = Counter
    /\ Draw(call[c].id, "device", Counter)

(* The count of a resident credential, saved before it is used.            *)
ResidentCount(c) ==
    LET r == call[c]
        i == PositionOf(r.rp, r.id)
    IN  /\ i # 0
        /\ Increment(r.rp, i, TRUE)
        /\ Draw(r.id, "resident", creds[r.rp][i].count + 1)
        /\ UNCHANGED lastCounter

(* IncrementSignCount reports an error: the credential was deleted or      *)
(* replaced while the user was asked, or the file cannot be written.       *)
ResidentCountFails(c) ==
    LET r == call[c]
        i == PositionOf(r.rp, r.id)
    IN  /\ IF i = 0 THEN UNCHANGED residentVars ELSE Increment(r.rp, i, FALSE)
        /\ DeviceCount(c)

(* The rest of handleGetAssertion; U2F handleAuthenticate takes the device *)
(* branch too.  The count is drawn here; signing and answering, or failing *)
(* to, change nothing more, and two assertions may be answered in another  *)
(* order than their counts were drawn.                                     *)
GetAssertion(c) ==
    /\ Acts(c, "assert")
    /\ signs < MaxSigns
    /\ signs' = signs + 1
    /\ \/ call[c].flow = "resident" /\ (ResidentCount(c) \/ ResidentCountFails(c))
       \/ call[c].flow = "device" /\ DeviceCount(c) /\ UNCHANGED residentVars
    /\ Answered(c)
    /\ UNCHANGED <<home, fresh, clock, acked, excused>>

(* deleteCredential of the credential management and of the control socket *)
DeleteCredential ==
    /\ \E rp \in RPs, id \in Ids, ok \in BOOLEAN :
        Delete(rp, id, ok) /\ excused' = excused \cup {id}
    /\ UNCHANGED <<home, fresh, clock, lastCounter, call, signs, drawn, acked>>

Tick ==
    /\ clock < MaxClock
    /\ clock' = clock + 1
    /\ UNCHANGED <<residentVars, home, fresh, lastCounter, call, signs, drawn, acked, excused>>

(* A new process: the files are read, everything else starts over.         *)
ServerRestart ==
    /\ ReloadCreds
    /\ fresh' = FALSE
    /\ lastCounter' = 0
    /\ call' = [c \in Clients |-> Idle]
    /\ drawn' = [id \in Ids |-> [drawn[id] EXCEPT !.device = 0]]
    /\ UNCHANGED <<home, clock, signs, acked, excused>>

CeremonyNext ==
    \/ \E c \in Clients :
        Begin(c) \/ Presence(c) \/ MakeCredential(c) \/ MakeCredentialFails(c) \/ GetAssertion(c)
    \/ WindowEnds \/ DeleteCredential \/ Tick \/ ServerRestart

CeremonySpec == CeremonyInit /\ [][CeremonyNext]_vars
-----------------------------------------------------------------------------
CeremonyTypeOK ==
    /\ IsCredentialMap(creds, signs) /\ IsCredentialMap(file, signs)
    /\ home \in Seq(RPs) /\ Len(home) <= MaxIds
    /\ fresh \in BOOLEAN
    /\ clock \in Epoch..MaxClock
    /\ lastCounter \in Nat
    /\ signs \in 0..MaxSigns
    /\ drawn \in [Ids -> [resident: Nat, device: Nat]]
    /\ acked \subseteq Created /\ excused \subseteq Created

(* A registration answered with success is not lost: its credential is in  *)
(* memory and in the file, through failed writes and restarts, until it is *)
(* deleted or its own user registers again at that relying party.          *)
AckedKept ==
    \A id \in acked \ excused : \A m \in {creds, file} :
        \E rp \in RPs : \E i \in 1..Len(m[rp]) : m[rp][i].id = id /\ home[id] = rp

Flows == {"resident", "device"}

Draws(id, flow) == drawn'[id][flow] # drawn[id][flow] /\ ~ServerRestart

(* Client c draws the count of its assertion. *)
Signs(c) == signs' # signs /\ call'[c] # call[c]

(* Every assertion gets a count larger than the last one of its credential *)
(* from the same counter, so no count is handed out twice: from the        *)
(* resident counter even across restarts and failed writes, from the       *)
(* device-wide one within a process.                                       *)
CountersGrow ==
    [][/\ \A id \in Ids : \A flow \in Flows :
            Draws(id, flow) => drawn'[id][flow] > drawn[id][flow]
       /\ \A c \in Clients : Signs(c) =>
            \E flow \in Flows : Draws(call[c].id, flow)]_vars

(* Memory and the file remember every count that was handed out: none is   *)
(* handed out again after a restart.                                       *)
DrawnIsSaved ==
    \A m \in {creds, file} : \A rp \in RPs : \A i \in 1..Len(m[rp]) :
        drawn[m[rp][i].id].resident <= m[rp][i].count

(* "Resident credentials get their own persisted, monotonic per-credential *)
(* counter" (ctap2handlers.go:313): the counts handed out for a credential *)
(* grow.                                                                   *)
SignCountGrows ==
    [][\A id \in Ids : \A flow, other \in Flows :
         Draws(id, flow) => drawn'[id][flow] > drawn[id][other]]_vars
=============================================================================
