---------------------------- MODULE ResidentStore ----------------------------
(***************************************************************************)
(* The store of discoverable credentials (residentstore.go): per relying   *)
(* party a list of credentials, in memory and in a JSON file that every    *)
(* change rewrites as a whole.  As in PinStore an operation runs under one *)
(* mutex, changes memory, and then either saves the file or reports an     *)
(* error with memory already changed.                                      *)
(***************************************************************************)
EXTENDS Integers, SequencesExt

CONSTANTS
    RPs,      \* relying party ids
    Users,    \* user ids
    MaxIds    \* bound of the model: key handles ever created

ASSUME ResidentAssumption == MaxIds \in Nat

VARIABLES
    creds,    \* Store.creds
    file      \* the JSON file

residentVars == <<creds, file>>

Ids == 1..MaxIds    \* credential ids, in the order RegisterKey creates them

Credential(id, user) == [id |-> id, user |-> user, count |-> 0]

SaveCreds(s, ok) ==
    /\ creds' = s
    /\ file' = IF ok THEN s ELSE file

ResidentInit ==
    /\ creds = [rp \in RPs |-> <<>>]
    /\ file = [rp \in RPs |-> <<>>]

(* The position of a credential id, and of a user, in the list of rp; 0 if *)
(* there is none.                                                          *)
PositionOf(rp, id) == SelectInSeq(creds[rp], LAMBDA e : e.id = id)

(* Mutant: credentials are matched by rpId alone. *)
PositionOfAnyUser(rp, user) == SelectInSeq(creds[rp], LAMBDA e : TRUE)

(* Mutant: credentials are matched by id, which is always new. *)
PositionOfNoUser(rp, user) == 0

PositionOfUser(rp, user) == SelectInSeq(creds[rp], LAMBDA e : e.user = user)

(* Put: a credential takes the place of its user's, or the last place. *)
Put(rp, c, ok) ==
    LET i == PositionOfUser(rp, c.user)
    IN  SaveCreds([creds EXCEPT ![rp] =
                     IF i # 0 THEN ReplaceAt(@, i, c) ELSE Append(@, c)], ok)

(* Mutants: one assertion counts twice; the file is left for the next save. *)
IncrementTwice(rp, i, ok) == SaveCreds([creds EXCEPT ![rp][i].count = @ + 2], ok)
IncrementUnsaved(rp, i, ok) == SaveCreds([creds EXCEPT ![rp][i].count = @ + 1], FALSE)

(* IncrementSignCount of a credential that is there. *)
Increment(rp, i, ok) == SaveCreds([creds EXCEPT ![rp][i].count = @ + 1], ok)

Without(rp, i) == RemoveAt(creds[rp], i)

(* Delete; an rpId whose list is empty leaves the map, which is the same   *)
(* as an empty list to every reader.                                       *)
Delete(rp, id, ok) ==
    LET i == PositionOf(rp, id)
    IN  /\ i # 0
        /\ SaveCreds([creds EXCEPT ![rp] = Without(rp, i)], ok)

ReloadCreds == creds' = file /\ UNCHANGED file
-----------------------------------------------------------------------------
IsCredentialMap(m, most) ==
    /\ DOMAIN m = RPs
    /\ \A rp \in RPs : \A i \in 1..Len(m[rp]) :
        /\ m[rp][i].id \in Ids
        /\ m[rp][i].user \in Users
        /\ m[rp][i].count \in 0..most

(* Put "stores or replaces (by rpId+userId)": an account has one           *)
(* credential per relying party, and no credential id is stored twice, in  *)
(* memory and in the file.                                                 *)
OnePerUser ==
    \A m \in {creds, file} : \A rp \in RPs : \A i, j \in 1..Len(m[rp]) :
        i # j => m[rp][i].user # m[rp][j].user /\ m[rp][i].id # m[rp][j].id
=============================================================================
