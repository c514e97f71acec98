------------------------------ MODULE PinStore ------------------------------
(***************************************************************************)
(* The PIN store (pinstore/pinstore.go): the hash of the PIN and the retry *)
(* counter, kept in memory and in a JSON file.  Every operation of the     *)
(* store runs under one mutex, changes memory first and then writes the    *)
(* file (a temporary file renamed over the old one), so an operation is    *)
(* one action that ends in one of two ways: the write succeeded or it      *)
(* failed, and then memory and file differ until the next write.  The      *)
(* process may die at any moment; a restart reads the file.                *)
(***************************************************************************)
EXTENDS Integers

CONSTANTS
    Hashes,       \* the PIN hashes clients can send
    NoHash,       \* an empty PINHash: no PIN is configured
    MaxRetries    \* maxRetries, 8 in the code

ASSUME PinStoreAssumption ==
    /\ NoHash \notin Hashes
    /\ MaxRetries \in Nat \ {0}

VARIABLES
    mem,      \* Store.s, the copy in memory
    disk,     \* the JSON file, or what Open assumes when there is none
    misses    \* history: wrong PINs answered "mismatch" since the last reset

storeVars == <<mem, disk, misses>>

StoreState == [pinHash: Hashes \cup {NoHash}, retriesLeft: 0..MaxRetries]

(* What Open returns when the file does not exist. *)
Fresh == [pinHash |-> NoHash, retriesLeft |-> MaxRetries]

IsSet == mem.pinHash # NoHash

(* Mutants: the file is written later than the answer; the file keeps the  *)
(* hash and forgets the counter.                                           *)
PersistLate(s, saved) == mem' = s /\ disk' = disk
PersistHashOnly(s, saved) ==
    mem' = s /\ disk' = IF saved THEN [disk EXCEPT !.pinHash = s.pinHash] ELSE disk

(* persistLocked after memory became s: the rename happened, or an error   *)
(* left the old file in place.                                             *)
PersistLocked(s, saved) ==
    /\ mem' = s
    /\ disk' = IF saved THEN s ELSE disk
-----------------------------------------------------------------------------
StoreInit ==
    /\ mem = Fresh
    /\ disk = Fresh
    /\ misses = 0

SetPIN(h, ok) ==
    /\ PersistLocked([pinHash |-> h, retriesLeft |-> MaxRetries], ok)
    /\ misses' = 0

ResetRetries(ok) ==
    IF IsSet
    THEN /\ PersistLocked([mem EXCEPT !.retriesLeft = MaxRetries], ok)
         /\ misses' = 0
    ELSE ok = FALSE /\ UNCHANGED storeVars

(* Mutant: the counter is restored to one attempt too many. *)
AttemptOffByOne(h) ==
    [mem EXCEPT !.retriesLeft = IF h = mem.pinHash THEN MaxRetries + 1 ELSE @ - 1]

(* Verify before it writes: a match restores the counter, any other hash   *)
(* costs one attempt.                                                      *)
Attempt(h) ==
    [mem EXCEPT !.retriesLeft = IF h = mem.pinHash THEN MaxRetries ELSE @ - 1]

(* Verify has three answers: (true, nil), (false, nil) and (false, err),   *)
(* the last one for an exhausted counter and for a failed write alike.     *)
Verify(h, answer) ==
    \/ /\ mem.retriesLeft <= 0
       /\ answer = "error"
       /\ UNCHANGED storeVars
    \/ /\ mem.retriesLeft > 0
       /\ h = mem.pinHash
       /\ answer \in {"match", "error"}
       /\ PersistLocked(Attempt(h), answer = "match")
       /\ misses' = 0
    \/ /\ mem.retriesLeft > 0
       /\ h # mem.pinHash
       /\ answer \in {"mismatch", "error"}
       /\ PersistLocked(Attempt(h), answer = "mismatch")
       /\ misses' = IF answer = "mismatch" THEN misses + 1 ELSE misses

Answers == {"match", "mismatch", "error"}

(* The process dies and is started again.  Dying after the rename and      *)
(* before the caller reads the answer is the operation followed by this.   *)
Restart ==
    /\ mem' = disk
    /\ UNCHANGED <<disk, misses>>

StoreNext ==
    \/ \E h \in Hashes, ok \in BOOLEAN : SetPIN(h, ok)
    \/ \E ok \in BOOLEAN : ResetRetries(ok)
    \/ \E h \in Hashes, answer \in Answers : Verify(h, answer)
    \/ Restart

StoreSpec == StoreInit /\ [][StoreNext]_storeVars
-----------------------------------------------------------------------------
(* Every value keeps its type; in particular the counter never leaves      *)
(* 0..MaxRetries, in memory or in the file.                                *)
StoreTypeOK ==
    /\ mem \in StoreState
    /\ disk \in StoreState
    /\ misses \in 0..MaxRetries

(* No sequence of guesses, failed writes and restarts tells a client more  *)
(* than MaxRetries wrong PINs apart before someone who knows the PIN (or   *)
(* resets it on purpose) intervenes: a guess answered "mismatch" is always *)
(* paid for in memory and in the file.                                     *)
BudgetInv ==
    /\ misses + mem.retriesLeft <= MaxRetries
    /\ misses + disk.retriesLeft <= MaxRetries

(* A client that was answered "mismatch" MaxRetries times stays locked     *)
(* out, in this process and after a restart.                               *)
LockoutLasts ==
    misses >= MaxRetries => mem.retriesLeft <= 0 /\ disk.retriesLeft <= 0
=============================================================================
