------------------------------- MODULE PinAuth -------------------------------
(***************************************************************************)
(* PIN administration in the server: the clientPIN subcommands of the HID  *)
(* transport (ctap2handlers.go) and the PIN methods of the control socket  *)
(* (ctlapi.go).  Each request runs on a goroutine of its own.  The store's *)
(* mutex makes one call of PinStore atomic and nothing more: between the   *)
(* IsSet check, Verify, SetPIN and setPinToken of one handler, any step of *)
(* any other handler may run.                                              *)
(*                                                                         *)
(* A refused request changes nothing, so a handler that returns before its *)
(* first change of state is no step here.  Tokens are 32 random bytes and  *)
(* never repeat: they are numbered in the order they are minted.           *)
(***************************************************************************)
EXTENDS PinStore

CONSTANTS
    Clients,     \* goroutines that handle a request, HID or control socket
    MaxTokens    \* bound of the model: tokens minted in a behaviour

ASSUME PinAuthAssumption == MaxTokens \in Nat

VARIABLES
    pinToken,    \* server.pinToken; 0 is nil
    minted,      \* tokens minted so far
    uv,          \* uvconfig.Store: the Hello-mode toggle, in memory and on disk
    call,        \* the request each client has in progress
    dead,        \* history: tokens up to this one were revoked by a PIN change
    seen         \* history: the hashes the store held during each request

tokenVars == <<pinToken, minted, dead>>
vars == <<storeVars, tokenVars, uv, call, seen>>

Idle == [op |-> "idle"]

(* guess is the hash the client proves, new the one it wants to set, stale *)
(* the number of tokens that existed when a changePIN stored its new hash. *)
Request(op, at, guess, new) ==
    [op |-> op, at |-> at, guess |-> guess, new |-> new, stale |-> 0]

At(c, ops, at) == call[c] # Idle /\ call[c].op \in ops /\ call[c].at = at

Reply(c) == call' = [call EXCEPT ![c] = Idle]
-----------------------------------------------------------------------------
AuthInit ==
    /\ StoreInit
    /\ pinToken = 0
    /\ minted = 0
    /\ dead = 0
    /\ uv = [mem |-> TRUE, disk |-> TRUE]
    /\ call = [c \in Clients |-> Idle]
    /\ seen = [c \in Clients |-> {}]

(* Mutant: setPIN does not look at the store first. *)
AdmitSetPINAlways(new) == Request("setPIN", "store", NoHash, new)

(* handleSetPIN and the SetPIN method up to their call of SetPIN: they are *)
(* for an authenticator without a PIN.                                     *)
AdmitSetPIN(new) ==
    IF ~IsSet THEN Request("setPIN", "store", NoHash, new) ELSE Idle

(* changePIN and getPINToken carry the PIN the platform or the tray        *)
(* collected; both are refused while no PIN is set.                        *)
AdmitChangePIN(guess, new) ==
    IF IsSet THEN Request("changePIN", "verify", guess, new) ELSE Idle

AdmitGetPINToken(guess) ==
    IF IsSet THEN Request("getToken", "verify", guess, NoHash) ELSE Idle

(* getUvToken: the toggle and the PIN are checked, then the server opens   *)
(* its own dialog and waits.                                               *)
AdmitGetUvToken ==
    IF uv.mem /\ IsSet THEN Request("getToken", "dialog", NoHash, NoHash) ELSE Idle

Admit(c) ==
    /\ call[c] = Idle
    /\ \E h, n \in Hashes :
       \E r \in {AdmitGetUvToken, AdmitSetPIN(n), AdmitGetPINToken(h), AdmitChangePIN(h, n)} :
        /\ r # Idle
        /\ call' = [call EXCEPT ![c] = r]
    /\ seen' = [seen EXCEPT ![c] = {mem.pinHash}]
    /\ UNCHANGED <<storeVars, tokenVars, uv>>

(* pinverifier.Verify: the user enters a PIN; or declines, cancels or lets *)
(* the dialog time out, and the request is refused.                        *)
AnswerDialog(c) ==
    /\ At(c, {"getToken"}, "dialog")
    /\ \/ \E guess \in Hashes :
            call' = [call EXCEPT ![c].guess = guess, ![c].at = "verify"]
       \/ Reply(c)
    /\ UNCHANGED <<storeVars, tokenVars, uv, seen>>

(* The step of a handler after Verify: a mismatch and an error are both    *)
(* answered with a refusal.                                                *)
AfterVerify(c, answer) ==
    IF answer # "match"
    THEN Reply(c)
    ELSE call' = [call EXCEPT ![c].at =
                    IF call[c].op = "changePIN" THEN "store" ELSE "mint"]

(* The call of pins.Verify that changePIN and both token requests make.    *)
VerifyPIN(c) ==
    /\ At(c, {"changePIN", "getToken"}, "verify")
    /\ \E answer \in Answers :
        /\ Verify(call[c].guess, answer)
        /\ AfterVerify(c, answer)
    /\ UNCHANGED <<tokenVars, uv, seen>>

(* setPIN is answered when the store has the hash; changePIN still has to  *)
(* revoke the token, unless the write failed.                              *)
StorePIN(c) ==
    /\ At(c, {"setPIN", "changePIN"}, "store")
    /\ \E ok \in BOOLEAN :
        /\ SetPIN(call[c].new, ok)
        /\ IF ok /\ call[c].op = "changePIN"
           THEN call' = [call EXCEPT ![c].at = "revoke", ![c].stale = minted]
           ELSE Reply(c)
    /\ seen' = [d \in Clients |->
                  IF call[d] = Idle THEN {} ELSE seen[d] \cup {call[c].new}]
    /\ UNCHANGED <<tokenVars, uv>>

(* The new PIN is unusable: it does not decrypt, or it is too short for    *)
(* validatePIN.  changePIN finds out only after it verified the old PIN.   *)
RejectNewPIN(c) ==
    /\ At(c, {"setPIN", "changePIN"}, "store")
    /\ Reply(c)
    /\ UNCHANGED <<storeVars, tokenVars, uv, seen>>

(* Mutant: the revocation is forgotten. *)
RevokeNothing == pinToken' = pinToken

(* setPinToken(nil). *)
ClearPinToken == pinToken' = 0

RevokeToken(c) ==
    /\ At(c, {"changePIN"}, "revoke")
    /\ ClearPinToken
    /\ dead' = IF call[c].stale > dead THEN call[c].stale ELSE dead
    /\ Reply(c)
    /\ UNCHANGED <<storeVars, minted, uv, seen>>

(* setPinToken(fresh), then the token is sent, encrypted, to the platform. *)
MintToken(c) ==
    /\ At(c, {"getToken"}, "mint")
    /\ minted < MaxTokens
    /\ minted' = minted + 1
    /\ pinToken' = minted'
    /\ Reply(c)
    /\ UNCHANGED <<storeVars, dead, uv, seen>>

(* rand.Read or the encoding of the token fails. *)
MintFails(c) ==
    /\ At(c, {"getToken"}, "mint")
    /\ Reply(c)
    /\ UNCHANGED <<storeVars, tokenVars, uv, seen>>

(* The control socket alone: clear the lockout, flip the toggle.           *)
CtlResetRetries ==
    /\ \E ok \in BOOLEAN : ResetRetries(ok)
    /\ UNCHANGED <<tokenVars, uv, call, seen>>

SetInternalUV ==
    /\ \E on, saved \in BOOLEAN :
        uv' = [mem |-> on, disk |-> IF saved THEN on ELSE uv.disk]
    /\ UNCHANGED <<storeVars, tokenVars, call, seen>>

(* Mutant: a PIN file that cannot be read is taken for a missing one. *)
ReopenEmpty == mem' = Fresh /\ UNCHANGED <<disk, misses>>

(* newServer opens the PIN store again. *)
Reopen == Restart

(* The process dies and is started again: requests and token are gone. *)
ServerRestart ==
    /\ Reopen
    /\ uv' = [uv EXCEPT !.mem = uv.disk]
    /\ pinToken' = 0
    /\ call' = [c \in Clients |-> Idle]
    /\ seen' = [c \in Clients |-> {}]
    /\ UNCHANGED <<minted, dead>>

Handler(c) ==
    \/ Admit(c) \/ AnswerDialog(c) \/ VerifyPIN(c)
    \/ StorePIN(c) \/ RejectNewPIN(c) \/ RevokeToken(c)
    \/ MintToken(c) \/ MintFails(c)

AuthNext ==
    \/ \E c \in Clients : Handler(c)
    \/ CtlResetRetries
    \/ SetInternalUV
    \/ ServerRestart

AuthSpec == AuthInit /\ [][AuthNext]_vars
-----------------------------------------------------------------------------
Ops == {"setPIN", "changePIN", "getToken"}
Places == {"dialog", "verify", "store", "revoke", "mint"}

AuthTypeOK ==
    /\ StoreTypeOK
    /\ minted \in 0..MaxTokens
    /\ pinToken \in 0..minted
    /\ dead \in 0..minted
    /\ uv \in [mem: BOOLEAN, disk: BOOLEAN]
    /\ call \in [Clients -> {Idle} \cup
                   [op: Ops, at: Places, guess: Hashes \cup {NoHash},
                    new: Hashes \cup {NoHash}, stale: 0..minted]]
    /\ seen \in [Clients -> SUBSET (Hashes \cup {NoHash})]

(* "Any previously issued token is invalidated by a PIN change": once a    *)
(* changePIN is answered with success, no token minted before its new hash *)
(* was stored is the current token again, whatever the other handlers did  *)
(* in between.                                                             *)
RevokedForGood == pinToken # 0 => pinToken > dead

(* A client is entitled to its next step if it found no PIN, or proved a   *)
(* PIN that the store held while its request was running.                  *)
Entitled(c) ==
    call[c] # Idle /\ (call[c].guess \in seen[c] \/
                       (call[c].op = "setPIN" /\ NoHash \in seen[c]))

(* The stored PIN and the current token are only ever replaced by a step   *)
(* of a client entitled to it; a restart reloads the file, mints nothing.  *)
OnlyEntitled ==
    [][/\ mem'.pinHash # mem.pinHash \/ pinToken' \notin {0, pinToken}
       /\ ~ServerRestart
       => \E c \in Clients : Entitled(c) /\ call'[c] # call[c]]_vars

(* "setPIN is only valid when no PIN exists yet" (ctap2handlers.go:608):   *)
(* no handler of setPIN stores its hash over a PIN.                        *)
SetupNeedsNoPin ==
    [][\A c \in Clients : StorePIN(c) /\ call[c].op = "setPIN" => ~IsSet]_vars
=============================================================================
