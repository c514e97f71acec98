---------------------------- MODULE PinAuthProofs ----------------------------
(***************************************************************************)
(* The PIN store and its administration, for every set of hashes and       *)
(* clients and every bound.                                                *)
(*                                                                         *)
(* Of the store StoreInv is inductive: the type invariant alone is not,    *)
(* because misses <= MaxRetries needs the budget of BudgetInv.             *)
(*                                                                         *)
(* Of the server AuthInv is inductive; its parts are needed together.  A   *)
(* handler calls the store with the hashes of its request, so the type of  *)
(* call decides whether the step is one of PinStore; and a new token is    *)
(* above dead only if dead never outruns the tokens minted, which is where *)
(* the stale field of a request comes in.  With it every step of the       *)
(* server is a step of the store or leaves it alone, so what is proved of  *)
(* the store holds of the server, whatever its handlers interleave.        *)
(*                                                                         *)
(* SetupNeedsNoPin is false of the server.  With OneSetup, one setPIN at a *)
(* time, it holds; SetupInv says what a check of IsSet is then worth.      *)
(***************************************************************************)
EXTENDS PinAuth, TLAPS

StoreInv == StoreTypeOK /\ BudgetInv

(* Open of a missing file gives a state with the whole budget. *)
LEMMA FreshStore == Fresh \in StoreState
  BY PinStoreAssumption DEF Fresh, StoreState

(* The invariant holds in the store that Open finds or creates.            *)
LEMMA StoreInitInv == StoreInit => StoreInv
  BY FreshStore, PinStoreAssumption
  DEF StoreInit, StoreInv, StoreTypeOK, BudgetInv, Fresh

(* What Verify writes is a store state while an attempt is left. *)
LEMMA AttemptState ==
  ASSUME mem \in StoreState, mem.retriesLeft > 0, NEW h \in Hashes
  PROVE  /\ Attempt(h) \in StoreState
         /\ h # mem.pinHash => Attempt(h).retriesLeft = mem.retriesLeft - 1
         /\ h = mem.pinHash => Attempt(h).retriesLeft = MaxRetries
  BY PinStoreAssumption DEF Attempt, StoreState

(* A write leaves both copies in the state space, and each of them is the  *)
(* new state or the old file.                                              *)
LEMMA PersistState ==
  ASSUME NEW s \in StoreState, NEW ok, disk \in StoreState, PersistLocked(s, ok)
  PROVE  mem' = s /\ disk' \in StoreState /\ disk' \in {s, disk} /\ (ok => disk' = s)
  BY DEF PersistLocked

(* Every operation and every restart keeps the invariant.                  *)
LEMMA StoreStep == StoreInv /\ [StoreNext]_storeVars => StoreInv'
<1> SUFFICES ASSUME StoreInv, [StoreNext]_storeVars PROVE StoreInv'
  OBVIOUS
<1> USE DEF StoreInv, StoreTypeOK, BudgetInv
<1>0. mem.retriesLeft \in 0..MaxRetries /\ disk.retriesLeft \in 0..MaxRetries
  BY DEF StoreState
<1>1. ASSUME NEW h \in Hashes, NEW ok \in BOOLEAN, SetPIN(h, ok)
      PROVE  StoreInv'
  <2> DEFINE s == [pinHash |-> h, retriesLeft |-> MaxRetries]
  <2>1. s \in StoreState /\ s.retriesLeft = MaxRetries
    BY PinStoreAssumption DEF StoreState
  <2>2. PersistLocked(s, ok) /\ misses' = 0
    BY <1>1 DEF SetPIN
  <2> HIDE DEF s
  <2>3. mem' = s /\ disk' \in StoreState /\ disk' \in {s, disk}
    BY <2>1, <2>2, PersistState
  <2> QED
    BY <2>1, <2>2, <2>3, <1>0, PinStoreAssumption
<1>2. ASSUME NEW ok \in BOOLEAN, ResetRetries(ok)
      PROVE  StoreInv'
  <2>1. CASE IsSet
    <3> DEFINE s == [mem EXCEPT !.retriesLeft = MaxRetries]
    <3>1. s \in StoreState /\ s.retriesLeft = MaxRetries
      BY PinStoreAssumption DEF StoreState
    <3>2. PersistLocked(s, ok) /\ misses' = 0
      BY <1>2, <2>1 DEF ResetRetries
    <3> HIDE DEF s
    <3>3. mem' = s /\ disk' \in StoreState /\ disk' \in {s, disk}
      BY <3>1, <3>2, PersistState
    <3> QED
      BY <3>1, <3>2, <3>3, <1>0, PinStoreAssumption
  <2>2. CASE ~IsSet
    BY <1>2, <2>2 DEF ResetRetries, storeVars
  <2> QED
    BY <2>1, <2>2
<1>3. ASSUME NEW h \in Hashes, NEW answer \in Answers, Verify(h, answer)
      PROVE  StoreInv'
  <2>1. CASE UNCHANGED storeVars
    BY <2>1 DEF storeVars
  <2>2. CASE /\ mem.retriesLeft > 0
             /\ h = mem.pinHash
             /\ PersistLocked(Attempt(h), answer = "match")
             /\ misses' = 0
    <3>1. Attempt(h) \in StoreState /\ Attempt(h).retriesLeft = MaxRetries
      BY <2>2, AttemptState
    <3>2. mem' = Attempt(h) /\ disk' \in StoreState /\ disk' \in {Attempt(h), disk}
      BY <2>2, <3>1, PersistState
    <3> QED
      BY <2>2, <3>1, <3>2, <1>0, PinStoreAssumption
  <2>3. CASE /\ mem.retriesLeft > 0
             /\ h # mem.pinHash
             /\ PersistLocked(Attempt(h), answer = "mismatch")
             /\ misses' = IF answer = "mismatch" THEN misses + 1 ELSE misses
    <3>1. Attempt(h) \in StoreState /\ Attempt(h).retriesLeft = mem.retriesLeft - 1
      BY <2>3, AttemptState
    <3>2. /\ mem' = Attempt(h)
          /\ disk' \in StoreState
          /\ disk' \in {Attempt(h), disk}
          /\ answer = "mismatch" => disk' = Attempt(h)
      BY <2>3, <3>1, PersistState
    <3>3. CASE answer = "mismatch"
      BY <2>3, <3>1, <3>2, <3>3, <1>0, PinStoreAssumption
    <3>4. CASE answer # "mismatch"
      BY <2>3, <3>1, <3>2, <3>4, <1>0, PinStoreAssumption
    <3> QED
      BY <3>3, <3>4
  <2> QED
    BY <1>3, <2>1, <2>2, <2>3 DEF Verify
<1>4. CASE Restart
  BY <1>4 DEF Restart
<1>5. CASE UNCHANGED storeVars
  BY <1>5 DEF storeVars
<1> QED
  BY <1>1, <1>2, <1>3, <1>4, <1>5 DEF StoreNext

(* The counter and the history stay in range, for every MaxRetries. *)
THEOREM StoreTypeCorrect == StoreSpec => []StoreTypeOK
<1>1. StoreInv => StoreTypeOK
  BY DEF StoreInv
<1> QED
  BY <1>1, StoreInitInv, StoreStep, PTL DEF StoreSpec

(* The budget: pinstore.Verify never answers "mismatch" more often than    *)
(* the file and the memory have paid for, whatever writes fail and         *)
(* whenever the process restarts.                                          *)
THEOREM RetryBudget == StoreSpec => []BudgetInv
<1>1. StoreInv => BudgetInv
  BY DEF StoreInv
<1> QED
  BY <1>1, StoreInitInv, StoreStep, PTL DEF StoreSpec

(* A used-up budget locks both copies, so a restart does not unlock. *)
THEOREM LockoutIsDurable == StoreSpec => []LockoutLasts
<1>1. StoreInv => LockoutLasts
  BY PinStoreAssumption
  DEF StoreInv, StoreTypeOK, BudgetInv, LockoutLasts, StoreState
<1> QED
  BY <1>1, StoreInitInv, StoreStep, PTL DEF StoreSpec
-----------------------------------------------------------------------------
(* The server. *)
MaybeHash == Hashes \cup {NoHash}

Requests == [op: Ops, at: Places, guess: MaybeHash, new: MaybeHash, stale: 0..minted]

(* The hashes a handler is about to pass to the store are real ones. *)
Argued(r) ==
    /\ r.at = "verify" => r.guess \in Hashes
    /\ r.op = "setPIN" => r.new \in Hashes /\ r.at = "store"
    /\ r.op = "changePIN" => r.new \in Hashes

CallsInv ==
    /\ call \in [Clients -> {Idle} \cup Requests]
    /\ \A c \in Clients : call[c] # Idle => Argued(call[c])

TokensInv ==
    /\ minted \in 0..MaxTokens
    /\ pinToken \in 0..minted
    /\ dead \in 0..minted
    /\ RevokedForGood

OthersInv ==
    /\ uv \in [mem: BOOLEAN, disk: BOOLEAN]
    /\ seen \in [Clients -> SUBSET MaybeHash]

AuthInv == StoreInv /\ CallsInv /\ TokensInv /\ OthersInv

(* A request in progress, as the actions use it. *)
LEMMA InProgress ==
  ASSUME AuthInv, NEW c \in Clients, NEW ops, NEW at, At(c, ops, at)
  PROVE  call[c] \in Requests /\ Argued(call[c]) /\ call[c].op \in ops /\ call[c].at = at
  BY DEF AuthInv, CallsInv, At

(* A client that answers keeps the others' requests as they are. *)
LEMMA ReplyCalls ==
  ASSUME CallsInv, NEW c \in Clients, Reply(c), UNCHANGED minted
  PROVE  CallsInv'
  BY DEF CallsInv, Reply, Requests, Argued, Idle

(* A client that goes on keeps them too. *)
LEMMA NextCalls ==
  ASSUME CallsInv, NEW c \in Clients, UNCHANGED minted,
         NEW r \in Requests, Argued(r), call' = [call EXCEPT ![c] = r]
  PROVE  CallsInv'
  BY DEF CallsInv, Requests, Argued, Idle

(* The invariant holds when the daemon starts.                             *)
LEMMA AuthInitInv == AuthInit => AuthInv
<1> SUFFICES ASSUME AuthInit PROVE AuthInv
  OBVIOUS
<1>1. StoreInv
  BY StoreInitInv DEF AuthInit
<1>2. CallsInv
  BY DEF AuthInit, CallsInv
<1>3. TokensInv
  BY PinAuthAssumption DEF AuthInit, TokensInv, RevokedForGood
<1>4. OthersInv
  BY DEF AuthInit, OthersInv
<1> QED
  BY <1>1, <1>2, <1>3, <1>4 DEF AuthInv

(* Every step of the server is a step of the store, or leaves it alone. *)
LEMMA AuthStepStore == AuthInv /\ [AuthNext]_vars => [StoreNext]_storeVars
<1> SUFFICES ASSUME AuthInv, [AuthNext]_vars PROVE [StoreNext]_storeVars
  OBVIOUS
<1>1. ASSUME NEW c \in Clients, VerifyPIN(c) PROVE StoreNext
  <2>1. call[c] \in Requests /\ Argued(call[c]) /\ call[c].at = "verify"
    BY <1>1, InProgress DEF VerifyPIN
  <2>2. call[c].guess \in Hashes
    BY <2>1 DEF Argued
  <2>3. PICK answer \in Answers : Verify(call[c].guess, answer)
    BY <1>1 DEF VerifyPIN
  <2> QED
    BY <2>2, <2>3 DEF StoreNext
<1>2. ASSUME NEW c \in Clients, StorePIN(c) PROVE StoreNext
  <2>1. call[c] \in Requests /\ Argued(call[c]) /\ call[c].op \in {"setPIN", "changePIN"}
    BY <1>2, InProgress DEF StorePIN
  <2>2. call[c].new \in Hashes
    BY <2>1 DEF Argued
  <2>3. PICK ok \in BOOLEAN : SetPIN(call[c].new, ok)
    BY <1>2 DEF StorePIN
  <2> QED
    BY <2>2, <2>3 DEF StoreNext
<1>3. CASE CtlResetRetries
  BY <1>3 DEF CtlResetRetries, StoreNext
<1>4. CASE ServerRestart
  BY <1>4 DEF ServerRestart, Reopen, StoreNext
<1>5. CASE SetInternalUV \/ UNCHANGED vars
  BY <1>5 DEF SetInternalUV, vars
<1>6. ASSUME NEW c \in Clients,
             \/ Admit(c) \/ AnswerDialog(c) \/ RejectNewPIN(c)
             \/ RevokeToken(c) \/ MintToken(c) \/ MintFails(c)
      PROVE  UNCHANGED storeVars
  BY <1>6 DEF Admit, AnswerDialog, RejectNewPIN, RevokeToken, MintToken, MintFails
<1> QED
  BY <1>1, <1>2, <1>3, <1>4, <1>5, <1>6 DEF AuthNext, Handler

-----------------------------------------------------------------------------
(* The store's invariant needs nothing but the refinement. *)
LEMMA StorePart == AuthInv /\ [AuthNext]_vars => StoreInv'
  BY AuthStepStore, StoreStep DEF AuthInv

(* Requests and tokens stay in range when tokens are minted. *)
LEMMA MoreTokens ==
  ASSUME CallsInv, minted' \in Nat, minted \in Nat, minted <= minted'
  PROVE  \A c \in Clients : call[c] # Idle => call[c] \in Requests'
  BY DEF CallsInv, Requests, Idle

(* No step gives a request a hash or a token that is none.                 *)
LEMMA CallsPart == AuthInv /\ [AuthNext]_vars => CallsInv'
<1> SUFFICES ASSUME AuthInv, [AuthNext]_vars PROVE CallsInv'
  OBVIOUS
<1>0. CallsInv /\ minted \in Nat
  BY PinAuthAssumption DEF AuthInv, TokensInv
<1>1. ASSUME NEW c \in Clients, Admit(c) PROVE CallsInv'
  <2>1. UNCHANGED minted
    BY <1>1 DEF Admit, tokenVars
  <2>2. PICK h \in Hashes, n \in Hashes :
        \E r \in {AdmitGetUvToken, AdmitSetPIN(n), AdmitGetPINToken(h), AdmitChangePIN(h, n)} :
           r # Idle /\ call' = [call EXCEPT ![c] = r]
    BY <1>1 DEF Admit
  <2>3. PICK r \in {AdmitGetUvToken, AdmitSetPIN(n), AdmitGetPINToken(h), AdmitChangePIN(h, n)} :
           r # Idle /\ call' = [call EXCEPT ![c] = r]
    BY <2>2
  <2>4. r \in Requests /\ Argued(r)
    BY <1>0, <2>3
    DEF AdmitGetUvToken, AdmitSetPIN, AdmitGetPINToken, AdmitChangePIN,
        Request, Requests, Argued, Ops, Places, MaybeHash
  <2> QED
    BY <1>0, <2>1, <2>3, <2>4, NextCalls
<1>2. ASSUME NEW c \in Clients, AnswerDialog(c) PROVE CallsInv'
  <2>1. call[c] \in Requests /\ Argued(call[c]) /\ call[c].op = "getToken" /\ UNCHANGED minted
    BY <1>2, InProgress DEF AnswerDialog, tokenVars
  <2>2. ASSUME NEW guess \in Hashes,
               call' = [call EXCEPT ![c].guess = guess, ![c].at = "verify"]
        PROVE  CallsInv'
    <3> DEFINE r == [call[c] EXCEPT !.guess = guess, !.at = "verify"]
    <3>1. r \in Requests /\ Argued(r)
      BY <2>1 DEF Requests, Argued, Ops, Places, MaybeHash
    <3>2. call' = [call EXCEPT ![c] = r]
      BY <2>2, <1>0 DEF CallsInv
    <3> QED
      BY <1>0, <2>1, <3>1, <3>2, NextCalls
  <2> QED
    BY <1>0, <1>2, <2>1, <2>2, ReplyCalls DEF AnswerDialog
<1>3. ASSUME NEW c \in Clients, VerifyPIN(c) PROVE CallsInv'
  <2>1. call[c] \in Requests /\ Argued(call[c]) /\ call[c].op # "setPIN" /\ UNCHANGED minted
    BY <1>3, InProgress DEF VerifyPIN, tokenVars
  <2>2. PICK answer \in Answers : AfterVerify(c, answer)
    BY <1>3 DEF VerifyPIN
  <2>3. CASE answer # "match"
    BY <1>0, <2>1, <2>2, <2>3, ReplyCalls DEF AfterVerify
  <2>4. CASE answer = "match"
    <3> DEFINE place == IF call[c].op = "changePIN" THEN "store" ELSE "mint"
               r == [call[c] EXCEPT !.at = place]
    <3>1. r \in Requests /\ Argued(r)
      BY <2>1 DEF Requests, Argued, Places
    <3>2. call' = [call EXCEPT ![c] = r]
      BY <2>2, <2>4, <1>0 DEF AfterVerify, CallsInv
    <3> QED
      BY <1>0, <2>1, <3>1, <3>2, NextCalls
  <2> QED
    BY <2>3, <2>4
<1>4. ASSUME NEW c \in Clients, StorePIN(c) PROVE CallsInv'
  <2>1. call[c] \in Requests /\ Argued(call[c]) /\ UNCHANGED minted
    BY <1>4, InProgress DEF StorePIN, tokenVars
  <2>2. CASE call[c].op = "changePIN"
             /\ call' = [call EXCEPT ![c].at = "revoke", ![c].stale = minted]
    <3> DEFINE r == [call[c] EXCEPT !.at = "revoke", !.stale = minted]
    <3>1. minted \in 0..minted
      BY <1>0
    <3>2. r \in Requests
      BY <2>1, <3>1 DEF Requests, Places
    <3>3. Argued(r)
      BY <2>1, <2>2 DEF Requests, Argued
    <3>4. call' = [call EXCEPT ![c] = r]
      BY <2>2, <1>0 DEF CallsInv
    <3> QED
      BY <1>0, <2>1, <3>2, <3>3, <3>4, NextCalls
  <2>3. CASE Reply(c)
    BY <1>0, <2>1, <2>3, ReplyCalls
  <2> QED
    BY <1>4, <2>2, <2>3 DEF StorePIN
<1>5. ASSUME NEW c \in Clients, RejectNewPIN(c) \/ RevokeToken(c) \/ MintFails(c)
      PROVE  CallsInv'
  BY <1>0, <1>5, ReplyCalls DEF RejectNewPIN, RevokeToken, MintFails, tokenVars
<1>6. ASSUME NEW c \in Clients, MintToken(c) PROVE CallsInv'
  <2>1. minted' = minted + 1 /\ Reply(c)
    BY <1>6 DEF MintToken
  <2>2. \A d \in Clients : call[d] # Idle => call[d] \in Requests'
    BY <1>0, <2>1, MoreTokens
  <2> QED
    BY <1>0, <2>1, <2>2 DEF Reply, CallsInv, Argued, Idle
<1>7. CASE ServerRestart
  BY <1>7, <1>0 DEF ServerRestart, CallsInv
<1>8. CASE CtlResetRetries \/ SetInternalUV \/ UNCHANGED vars
  BY <1>8, <1>0 DEF CtlResetRetries, SetInternalUV, vars, tokenVars, CallsInv, Requests
<1> QED
  BY <1>1, <1>2, <1>3, <1>4, <1>5, <1>6, <1>7, <1>8 DEF AuthNext, Handler

(* No step mints a dead token or makes one current.                        *)
LEMMA TokensPart == AuthInv /\ [AuthNext]_vars => TokensInv'
<1> SUFFICES ASSUME AuthInv, [AuthNext]_vars PROVE TokensInv'
  OBVIOUS
<1> USE PinAuthAssumption DEF TokensInv, RevokedForGood
<1>0. TokensInv
  BY DEF AuthInv
<1>1. ASSUME NEW c \in Clients, RevokeToken(c) PROVE TokensInv'
  <2>1. call[c].stale \in 0..minted
    BY <1>1, InProgress DEF RevokeToken, Requests
  <2> QED
    BY <1>0, <1>1, <2>1 DEF RevokeToken, ClearPinToken
<1>2. ASSUME NEW c \in Clients, MintToken(c) PROVE TokensInv'
  BY <1>0, <1>2 DEF MintToken
<1>3. CASE ServerRestart
  BY <1>0, <1>3 DEF ServerRestart
<1>4. CASE UNCHANGED tokenVars
  BY <1>0, <1>4 DEF tokenVars
<1>5. ASSUME NEW c \in Clients,
             \/ Admit(c) \/ AnswerDialog(c) \/ VerifyPIN(c)
             \/ StorePIN(c) \/ RejectNewPIN(c) \/ MintFails(c)
      PROVE  UNCHANGED tokenVars
  BY <1>5 DEF Admit, AnswerDialog, VerifyPIN, StorePIN, RejectNewPIN, MintFails
<1>6. CASE CtlResetRetries \/ SetInternalUV \/ UNCHANGED vars
  BY <1>6, <1>4 DEF CtlResetRetries, SetInternalUV, vars
<1> QED
  BY <1>1, <1>2, <1>3, <1>4, <1>5, <1>6 DEF AuthNext, Handler

(* The toggle and the histories keep their types.                          *)
LEMMA OthersPart == AuthInv /\ [AuthNext]_vars => OthersInv'
<1> SUFFICES ASSUME AuthInv, [AuthNext]_vars PROVE OthersInv'
  OBVIOUS
<1> USE DEF OthersInv
<1>0. OthersInv
  BY DEF AuthInv
<1>1. ASSUME NEW c \in Clients, Admit(c) PROVE OthersInv'
  <2>1. mem.pinHash \in MaybeHash
    BY DEF AuthInv, StoreInv, StoreTypeOK, StoreState, MaybeHash
  <2> QED
    BY <1>0, <1>1, <2>1 DEF Admit
<1>2. ASSUME NEW c \in Clients, StorePIN(c) PROVE OthersInv'
  <2>1. call[c].new \in MaybeHash
    BY <1>2, InProgress DEF StorePIN, Requests
  <2> QED
    BY <1>0, <1>2, <2>1 DEF StorePIN
<1>3. CASE ServerRestart
  BY <1>0, <1>3 DEF ServerRestart
<1>4. CASE SetInternalUV
  BY <1>0, <1>4 DEF SetInternalUV
<1>5. CASE UNCHANGED <<uv, seen>>
  BY <1>0, <1>5
<1>6. ASSUME NEW c \in Clients,
             \/ AnswerDialog(c) \/ VerifyPIN(c) \/ RejectNewPIN(c)
             \/ RevokeToken(c) \/ MintToken(c) \/ MintFails(c)
      PROVE  UNCHANGED <<uv, seen>>
  BY <1>6 DEF AnswerDialog, VerifyPIN, RejectNewPIN, RevokeToken, MintToken, MintFails
<1>7. CASE CtlResetRetries \/ UNCHANGED vars
  BY <1>7, <1>5 DEF CtlResetRetries, vars
<1> QED
  BY <1>1, <1>2, <1>3, <1>4, <1>5, <1>6, <1>7 DEF AuthNext, Handler

(* Every step of the server keeps its invariant.                           *)
LEMMA AuthStep == AuthInv /\ [AuthNext]_vars => AuthInv'
  BY StorePart, CallsPart, TokensPart, OthersPart DEF AuthInv

(* The invariant holds in every behaviour.                                 *)
LEMMA AuthInvariant == AuthSpec => []AuthInv
  BY AuthInitInv, AuthStep, PTL DEF AuthSpec
-----------------------------------------------------------------------------
(* The server never leaves its state space, for any number of clients. *)
THEOREM AuthTypeCorrect == AuthSpec => []AuthTypeOK
<1>1. AuthInv => AuthTypeOK
  BY DEF AuthInv, StoreInv, CallsInv, TokensInv, OthersInv, AuthTypeOK, Requests, MaybeHash
<1> QED
  BY <1>1, AuthInvariant, PTL

(* The server implements the PIN store: however the handlers of            *)
(* ctap2handlers.go and ctlapi.go interleave, pinstore sees its own        *)
(* operations, one at a time, and restarts.                                *)
THEOREM AuthImplementsStore == AuthSpec => StoreSpec
<1>1. AuthInit => StoreInit
  BY DEF AuthInit
<1> QED
  BY <1>1, AuthInvariant, AuthStepStore, PTL DEF AuthSpec, StoreSpec

(* The retry budget and the lockout of the store hold in the server. *)
THEOREM AuthRetryBudget == AuthSpec => []BudgetInv
  BY AuthImplementsStore, RetryBudget, PTL

(* A used-up budget locks memory and file in the server too (PinStore).    *)
THEOREM AuthLockoutIsDurable == AuthSpec => []LockoutLasts
  BY AuthImplementsStore, LockoutIsDurable, PTL

(* A token that a completed changePIN revoked never becomes current again, *)
(* for any number of concurrent handlers of either transport.              *)
THEOREM RevocationIsForGood == AuthSpec => []RevokedForGood
<1>1. AuthInv => RevokedForGood
  BY DEF AuthInv, TokensInv
<1> QED
  BY <1>1, AuthInvariant, PTL
-----------------------------------------------------------------------------
(* Who may change the PIN or the token.  A request that is past its check  *)
(* has proved a hash it has seen in the store, or seen that there is none. *)
Proved(r, hashes) ==
    /\ r.op = "setPIN" => NoHash \in hashes /\ r.at = "store"
    /\ r.op # "setPIN" /\ r.at \notin {"dialog", "verify"} => r.guess \in hashes

(* And every request has seen the hash that is in the store now.           *)
EntitledInv ==
    \A c \in Clients : call[c] # Idle => mem.pinHash \in seen[c] /\ Proved(call[c], seen[c])

(* A step of one request that leaves the stored hash alone.                *)
LEMMA OneRequest ==
  ASSUME AuthInv, EntitledInv, mem'.pinHash = mem.pinHash, seen' = seen,
         NEW c \in Clients, NEW r, call' = [call EXCEPT ![c] = r], call[c] # Idle,
         r # Idle => Proved(r, seen[c])
  PROVE  EntitledInv'
<1>1. call' \in [Clients -> {Idle, r} \cup Requests] /\ call'[c] = r
      /\ \A d \in Clients : d # c => call'[d] = call[d]
  BY DEF AuthInv, CallsInv
<1>2. ASSUME NEW d \in Clients, call'[d] # Idle
      PROVE  mem.pinHash \in seen[d] /\ Proved(call'[d], seen[d])
  <2>1. CASE d = c
    BY <1>1, <1>2, <2>1 DEF EntitledInv
  <2>2. CASE d # c
    BY <1>1, <1>2, <2>2 DEF EntitledInv
  <2> QED BY <2>1, <2>2
<1> QED BY <1>2 DEF EntitledInv, Proved

(* Verify lets only the hash in the store pass, and keeps it.              *)
LEMMA VerifyFacts ==
  ASSUME AuthInv, NEW h \in Hashes, NEW answer, Verify(h, answer)
  PROVE  mem'.pinHash = mem.pinHash /\ (answer = "match" => h = mem.pinHash)
<1>1. mem \in StoreState
  BY DEF AuthInv, StoreInv, StoreTypeOK
<1>2. Attempt(h).pinHash = mem.pinHash
  BY <1>1 DEF Attempt, StoreState
<1> QED BY <1>2 DEF Verify, PersistLocked, storeVars

(* The guard of a request, and what a handler makes of it, keep the        *)
(* invariant: each action of a handler in turn.                            *)
LEMMA EntitledStep == AuthInv /\ EntitledInv /\ [AuthNext]_vars => EntitledInv'
<1> SUFFICES ASSUME AuthInv, EntitledInv, [AuthNext]_vars PROVE EntitledInv'
  OBVIOUS
<1>0. /\ call \in [Clients -> {Idle} \cup Requests] /\ seen \in [Clients -> SUBSET MaybeHash]
      /\ mem \in StoreState
  BY DEF AuthInv, CallsInv, OthersInv, StoreInv, StoreTypeOK
<1>1. ASSUME NEW c \in Clients, Admit(c) PROVE EntitledInv'
  <2>1. PICK h \in Hashes, n \in Hashes :
          \E r \in {AdmitGetUvToken, AdmitSetPIN(n), AdmitGetPINToken(h), AdmitChangePIN(h, n)} :
            r # Idle /\ call' = [call EXCEPT ![c] = r]
    BY <1>1 DEF Admit
  <2>2. PICK r \in {AdmitGetUvToken, AdmitSetPIN(n), AdmitGetPINToken(h), AdmitChangePIN(h, n)} :
          r # Idle /\ call' = [call EXCEPT ![c] = r]
    BY <2>1
  <2>3. Proved(r, {mem.pinHash})
    <3>1. CASE r = AdmitSetPIN(n)
      BY <2>2, <3>1 DEF AdmitSetPIN, Request, Idle, IsSet, Proved
    <3>2. CASE r # AdmitSetPIN(n)
      BY <2>2, <3>2 DEF AdmitGetUvToken, AdmitGetPINToken, AdmitChangePIN, Request, Idle, Proved
    <3> QED BY <3>1, <3>2
  <2>4. seen' = [seen EXCEPT ![c] = {mem.pinHash}] /\ mem' = mem
    BY <1>1 DEF Admit, storeVars
  <2>5. ASSUME NEW d \in Clients, call'[d] # Idle
        PROVE  mem.pinHash \in seen'[d] /\ Proved(call'[d], seen'[d])
    <3>1. CASE d = c
      BY <1>0, <2>2, <2>3, <2>4, <3>1
    <3>2. CASE d # c
      BY <1>0, <2>2, <2>4, <2>5, <3>2 DEF EntitledInv
    <3> QED BY <3>1, <3>2
  <2> QED BY <2>4, <2>5 DEF EntitledInv, Proved
<1>2. ASSUME NEW c \in Clients, AnswerDialog(c) PROVE EntitledInv'
  <2>1. /\ call[c] # Idle /\ call[c].op = "getToken" /\ call[c] \in Requests
        /\ mem' = mem /\ seen' = seen
    BY <1>0, <1>2 DEF AnswerDialog, At, storeVars
  <2>2. CASE Reply(c)
    BY <2>1, <2>2, OneRequest DEF Reply
  <2>3. ASSUME NEW guess \in Hashes, call' = [call EXCEPT ![c].guess = guess, ![c].at = "verify"]
        PROVE  EntitledInv'
    <3>1. call' = [call EXCEPT ![c] = [call[c] EXCEPT !.guess = guess, !.at = "verify"]]
      BY <2>3
    <3>2. Proved([call[c] EXCEPT !.guess = guess, !.at = "verify"], seen[c])
      BY <2>1 DEF Proved, Requests
    <3> QED BY <2>1, <3>1, <3>2, OneRequest
  <2> QED BY <1>2, <2>2, <2>3 DEF AnswerDialog
<1>3. ASSUME NEW c \in Clients, VerifyPIN(c) PROVE EntitledInv'
  <2>1. /\ call[c] # Idle /\ call[c].op # "setPIN" /\ call[c] \in Requests
        /\ call[c].guess \in Hashes /\ seen' = seen
    BY <1>0, <1>3, InProgress DEF VerifyPIN, At, Argued
  <2>2. PICK answer \in Answers : Verify(call[c].guess, answer) /\ AfterVerify(c, answer)
    BY <1>3 DEF VerifyPIN
  <2>3. mem'.pinHash = mem.pinHash /\ (answer = "match" => call[c].guess \in seen[c])
    BY <2>1, <2>2, VerifyFacts DEF EntitledInv
  <2>4. CASE answer # "match"
    BY <2>1, <2>2, <2>3, <2>4, OneRequest DEF AfterVerify, Reply
  <2>5. CASE answer = "match"
    <3> DEFINE at == IF call[c].op = "changePIN" THEN "store" ELSE "mint"
    <3>1. call' = [call EXCEPT ![c] = [call[c] EXCEPT !.at = at]]
      BY <2>2, <2>5 DEF AfterVerify
    <3> HIDE DEF at
    <3>2. Proved([call[c] EXCEPT !.at = at], seen[c])
      BY <2>1, <2>3, <2>5 DEF Proved, Requests
    <3> QED BY <2>1, <2>3, <3>1, <3>2, OneRequest
  <2> QED BY <2>4, <2>5
<1>4. ASSUME NEW c \in Clients, StorePIN(c) PROVE EntitledInv'
  <2>1. /\ call[c] # Idle /\ call[c] \in Requests /\ call[c].at = "store"
        /\ seen' = [d \in Clients |-> IF call[d] = Idle THEN {} ELSE seen[d] \cup {call[c].new}]
    BY <1>0, <1>4 DEF StorePIN, At
  <2>2. mem'.pinHash = call[c].new
    BY <1>4 DEF StorePIN, SetPIN, PersistLocked
  <2>3. /\ \A d \in Clients : d # c => call'[d] = call[d]
        /\ call'[c] # Idle => /\ call'[c] = [call[c] EXCEPT !.at = "revoke", !.stale = minted]
                              /\ call[c].op = "changePIN"
    BY <1>0, <1>4 DEF StorePIN, Reply
  <2>4. ASSUME NEW d \in Clients, call'[d] # Idle
        PROVE  mem'.pinHash \in seen'[d] /\ Proved(call'[d], seen'[d])
    <3>1. call[d] # Idle /\ seen'[d] = seen[d] \cup {call[c].new} /\ Proved(call[d], seen[d])
      BY <2>1, <2>3, <2>4 DEF EntitledInv
    <3>2. Proved(call'[d], seen[d])
      <4>1. CASE d # c
        BY <2>3, <3>1, <4>1
      <4>2. CASE d = c
        <5>1. call'[c] = [call[c] EXCEPT !.at = "revoke", !.stale = minted]
              /\ call[c].op = "changePIN" /\ call[c].guess \in seen[c]
          BY <2>1, <2>3, <2>4, <3>1, <4>2 DEF Proved
        <5> QED BY <2>1, <4>2, <5>1 DEF Proved, Requests
      <4> QED BY <4>1, <4>2
    <3> QED BY <2>2, <3>1, <3>2 DEF Proved
  <2> QED BY <2>4 DEF EntitledInv, Proved
<1>5. ASSUME NEW c \in Clients,
             RejectNewPIN(c) \/ RevokeToken(c) \/ MintToken(c) \/ MintFails(c)
      PROVE  EntitledInv'
  <2>1. call[c] # Idle /\ Reply(c) /\ mem' = mem /\ seen' = seen
    BY <1>5 DEF RejectNewPIN, RevokeToken, MintToken, MintFails, At, storeVars
  <2> QED BY <2>1, OneRequest DEF Reply
<1>6. CASE ServerRestart
  BY <1>6 DEF ServerRestart, EntitledInv
<1>7. ASSUME mem'.pinHash = mem.pinHash, UNCHANGED <<call, seen>> PROVE EntitledInv'
  BY <1>7 DEF EntitledInv, Proved
<1>8. CASE CtlResetRetries
  <2>1. mem'.pinHash = mem.pinHash
    BY <1>0, <1>8 DEF CtlResetRetries, ResetRetries, PersistLocked, StoreState, storeVars
  <2> QED BY <1>7, <1>8, <2>1 DEF CtlResetRetries
<1>9. CASE SetInternalUV \/ UNCHANGED vars
  BY <1>7, <1>9 DEF SetInternalUV, vars, storeVars
<1> QED
  BY <1>1, <1>2, <1>3, <1>4, <1>5, <1>6, <1>8, <1>9 DEF AuthNext, Handler

(* The PIN is replaced, and a token minted, only by a request that found   *)
(* no PIN or proved one the store held while it ran, however many requests *)
(* of HID and control socket interleave.                                   *)
THEOREM OnlyEntitledChange == AuthSpec => OnlyEntitled
<1>1. AuthInit => EntitledInv
  BY DEF AuthInit, EntitledInv
<1> DEFINE Change == mem'.pinHash # mem.pinHash \/ pinToken' \notin {0, pinToken}
<1>2. ASSUME AuthInv, EntitledInv, [AuthNext]_vars, Change, ~ServerRestart
      PROVE  \E c \in Clients : Entitled(c) /\ call'[c] # call[c]
  <2>0. /\ call \in [Clients -> {Idle} \cup Requests]
        /\ mem \in StoreState
    BY <1>2 DEF AuthInv, CallsInv, StoreInv, StoreTypeOK
  <2>1. ASSUME NEW c \in Clients, StorePIN(c) \/ MintToken(c)
        PROVE  Entitled(c) /\ call'[c] # call[c]
    <3>1. /\ call[c] # Idle /\ call[c] \in Requests /\ call[c].at \in {"store", "mint"}
          /\ call[c].at = "mint" => call[c].op = "getToken"
      BY <2>0, <2>1 DEF StorePIN, MintToken, At
    <3>2. Entitled(c)
      BY <1>2, <3>1 DEF Entitled, EntitledInv, Proved
    <3>3. CASE Reply(c)
      BY <2>0, <3>1, <3>2, <3>3 DEF Reply
    <3>4. CASE call' = [call EXCEPT ![c].at = "revoke", ![c].stale = minted]
      BY <2>0, <3>1, <3>2, <3>4 DEF Requests
    <3> QED BY <2>1, <3>2, <3>3, <3>4 DEF StorePIN, MintToken
  <2>2. ASSUME NEW c \in Clients, VerifyPIN(c) PROVE FALSE
    <3>1. call[c].guess \in Hashes
      BY <1>2, <2>2, InProgress DEF VerifyPIN, Argued
    <3>2. mem'.pinHash = mem.pinHash
      BY <1>2, <2>2, <3>1, VerifyFacts DEF VerifyPIN
    <3> QED BY <1>2, <2>2, <3>2 DEF VerifyPIN, tokenVars
  <2>3. ASSUME NEW c \in Clients,
               \/ Admit(c) \/ AnswerDialog(c) \/ RejectNewPIN(c) \/ RevokeToken(c) \/ MintFails(c)
        PROVE  FALSE
    BY <1>2, <2>3 DEF Admit, AnswerDialog, RejectNewPIN, RevokeToken, MintFails, ClearPinToken,
                      storeVars, tokenVars
  <2>4. CASE CtlResetRetries
    BY <1>2, <2>0, <2>4 DEF CtlResetRetries, ResetRetries, PersistLocked, StoreState,
                            storeVars, tokenVars
  <2>5. CASE SetInternalUV \/ UNCHANGED vars
    BY <1>2, <2>5 DEF SetInternalUV, vars, storeVars, tokenVars
  <2> QED
    BY <1>2, <2>1, <2>2, <2>3, <2>4, <2>5 DEF AuthNext, Handler
<1>3. AuthInv /\ EntitledInv /\ [AuthNext]_vars =>
        (Change /\ ~ServerRestart => \E c \in Clients : Entitled(c) /\ call'[c] # call[c])
  BY <1>2
<1> QED
  BY <1>1, <1>3, AuthInvariant, EntitledStep, PTL DEF AuthSpec, OnlyEntitled
-----------------------------------------------------------------------------
(* When setPIN keeps its promise.  The run PinAuthSetup shows that it does *)
(* not with two requests of setPIN at once.  Those two are the only way:   *)
(* one setPIN at a time may meet any number of other requests.             *)
Setting(c) == call[c] # Idle /\ call[c].op = "setPIN"

OneSetup == \A c, d \in Clients : Setting(c) /\ Setting(d) => c = d

(* A setPIN in progress is right that there is no PIN, and a changePIN     *)
(* that there is one: it cannot take setPIN by surprise.                   *)
SetupInv ==
    \A c \in Clients : call[c] # Idle =>
        /\ call[c].op = "setPIN" => ~IsSet
        /\ call[c].op = "changePIN" => IsSet

(* A step of one request that leaves the stored hash alone.                *)
LEMMA SetupKept ==
  ASSUME AuthInv, SetupInv, mem'.pinHash = mem.pinHash,
         NEW c \in Clients, NEW r, call' = [call EXCEPT ![c] = r],
         r # Idle => /\ r.op = "setPIN" => ~IsSet
                     /\ r.op = "changePIN" => IsSet
  PROVE  SetupInv'
<1>1. call'[c] = r /\ \A d \in Clients : d # c => call'[d] = call[d]
  BY DEF AuthInv, CallsInv
<1> QED BY <1>1 DEF SetupInv, IsSet

(* Alone or not, a changePIN stores over a hash; a setPIN that is alone    *)
(* ends with the step that stores.                                         *)
LEMMA SetupStep == AuthInv /\ SetupInv /\ OneSetup /\ [AuthNext]_vars => SetupInv'
<1> SUFFICES ASSUME AuthInv, SetupInv, OneSetup, [AuthNext]_vars PROVE SetupInv'
  OBVIOUS
<1>0. call \in [Clients -> {Idle} \cup Requests] /\ mem \in StoreState
  BY DEF AuthInv, CallsInv, StoreInv, StoreTypeOK
<1>1. ASSUME NEW c \in Clients, Admit(c) PROVE SetupInv'
  <2>1. PICK h \in Hashes, n \in Hashes :
          \E r \in {AdmitGetUvToken, AdmitSetPIN(n), AdmitGetPINToken(h), AdmitChangePIN(h, n)} :
            r # Idle /\ call' = [call EXCEPT ![c] = r]
    BY <1>1 DEF Admit
  <2>2. PICK r \in {AdmitGetUvToken, AdmitSetPIN(n), AdmitGetPINToken(h), AdmitChangePIN(h, n)} :
          r # Idle /\ call' = [call EXCEPT ![c] = r]
    BY <2>1
  <2>3. (r.op = "setPIN" => ~IsSet) /\ (r.op = "changePIN" => IsSet)
    BY <2>2 DEF AdmitGetUvToken, AdmitSetPIN, AdmitGetPINToken, AdmitChangePIN, Request, Idle
  <2> QED BY <1>1, <2>2, <2>3, SetupKept DEF Admit, storeVars
<1>2. ASSUME NEW c \in Clients, NEW r \in {Idle} \cup Requests,
             call' = [call EXCEPT ![c] = r], call[c] # Idle,
             r # Idle => r.op = call[c].op, mem'.pinHash = mem.pinHash
      PROVE  SetupInv'
  BY <1>2, SetupKept DEF SetupInv
<1>3. ASSUME NEW c \in Clients, AnswerDialog(c) PROVE SetupInv'
  <2>1. /\ call[c] # Idle /\ call[c] \in Requests /\ mem' = mem /\ Argued(call[c])
        /\ call[c].op = "getToken"
    BY <1>0, <1>3, InProgress DEF AnswerDialog, At, storeVars
  <2>2. CASE Reply(c)
    BY <1>2, <2>1, <2>2 DEF Reply
  <2>3. ASSUME NEW guess \in Hashes, call' = [call EXCEPT ![c].guess = guess, ![c].at = "verify"]
        PROVE  SetupInv'
    <3> DEFINE r == [call[c] EXCEPT !.guess = guess, !.at = "verify"]
    <3>1. r \in Requests /\ r.op = call[c].op
      BY <2>1 DEF Requests, Places, MaybeHash
    <3>2. call' = [call EXCEPT ![c] = r]
      BY <2>3, <1>0
    <3> HIDE DEF r
    <3> QED BY <1>2, <2>1, <3>1, <3>2
  <2> QED BY <1>3, <2>2, <2>3 DEF AnswerDialog
<1>4. ASSUME NEW c \in Clients, VerifyPIN(c) PROVE SetupInv'
  <2>1. call[c] # Idle /\ call[c] \in Requests /\ call[c].guess \in Hashes
    BY <1>0, <1>4, InProgress DEF VerifyPIN, At, Argued
  <2>2. PICK answer \in Answers : Verify(call[c].guess, answer) /\ AfterVerify(c, answer)
    BY <1>4 DEF VerifyPIN
  <2>3. mem'.pinHash = mem.pinHash
    BY <2>1, <2>2, VerifyFacts
  <2>4. CASE answer # "match"
    BY <1>2, <2>1, <2>2, <2>3, <2>4 DEF AfterVerify, Reply
  <2>5. CASE answer = "match"
    <3> DEFINE r == [call[c] EXCEPT !.at = IF call[c].op = "changePIN" THEN "store" ELSE "mint"]
    <3>1. r \in Requests /\ r.op = call[c].op
      BY <2>1 DEF Requests, Places
    <3>2. call' = [call EXCEPT ![c] = r]
      BY <2>2, <2>5, <1>0 DEF AfterVerify
    <3> HIDE DEF r
    <3> QED BY <1>2, <2>1, <2>3, <3>1, <3>2
  <2> QED BY <2>4, <2>5
<1>5. ASSUME NEW c \in Clients, StorePIN(c) PROVE SetupInv'
  <2>1. /\ call[c] # Idle /\ call[c] \in Requests
        /\ call[c].op \in {"setPIN", "changePIN"} /\ call[c].new \in Hashes
    BY <1>0, <1>5, InProgress DEF StorePIN, At, Argued
  <2>2. IsSet'
    BY <1>5, <2>1, PinStoreAssumption DEF StorePIN, SetPIN, PersistLocked, IsSet
  <2>3. /\ \A d \in Clients : d # c => call'[d] = call[d]
        /\ call'[c] # Idle => call'[c].op = "changePIN"
    BY <1>0, <1>5, <2>1 DEF StorePIN, Reply, Requests
  <2>4. ASSUME NEW d \in Clients, d # c, call[d] # Idle PROVE call[d].op # "setPIN"
    <3>1. CASE call[c].op = "setPIN"
      BY <2>1, <2>4, <3>1 DEF OneSetup, Setting
    <3>2. CASE call[c].op = "changePIN"
      BY <2>1, <2>4, <3>2 DEF SetupInv
    <3> QED BY <2>1, <3>1, <3>2
  <2> QED BY <2>2, <2>3, <2>4 DEF SetupInv
<1>6. ASSUME NEW c \in Clients,
             RejectNewPIN(c) \/ RevokeToken(c) \/ MintToken(c) \/ MintFails(c)
      PROVE  SetupInv'
  <2>1. call[c] # Idle /\ Reply(c) /\ mem' = mem
    BY <1>6 DEF RejectNewPIN, RevokeToken, MintToken, MintFails, At, storeVars
  <2> QED BY <1>2, <2>1 DEF Reply
<1>7. CASE ServerRestart
  BY <1>7 DEF ServerRestart, SetupInv
<1>8. ASSUME mem'.pinHash = mem.pinHash, UNCHANGED call PROVE SetupInv'
  BY <1>8 DEF SetupInv, IsSet
<1>9. CASE CtlResetRetries
  <2>1. mem'.pinHash = mem.pinHash
    BY <1>0, <1>9 DEF CtlResetRetries, ResetRetries, PersistLocked, StoreState, storeVars
  <2> QED BY <1>8, <1>9, <2>1 DEF CtlResetRetries
<1>10. CASE SetInternalUV \/ UNCHANGED vars
  BY <1>8, <1>10 DEF SetInternalUV, vars, storeVars
<1> QED
  BY <1>1, <1>3, <1>4, <1>5, <1>6, <1>7, <1>9, <1>10 DEF AuthNext, Handler

(* "setPIN is only valid when no PIN exists yet" (ctap2handlers.go:608)    *)
(* holds while requests of setPIN come one at a time, whatever PIN         *)
(* changes, resets, token requests and restarts come between: only the     *)
(* unlocked check of a second setPIN breaks it.                            *)
THEOREM LoneSetupNeedsNoPin == AuthSpec /\ []OneSetup => SetupNeedsNoPin
<1>1. AuthInit => SetupInv
  BY DEF AuthInit, SetupInv
<1>2. SetupInv => \A c \in Clients : StorePIN(c) /\ call[c].op = "setPIN" => ~IsSet
  BY DEF SetupInv, StorePIN, At
<1> QED
  BY <1>1, <1>2, AuthInvariant, SetupStep, PTL DEF AuthSpec, SetupNeedsNoPin
=============================================================================
