------------------------------ MODULE CredMgmt ------------------------------
(***************************************************************************)
(* authenticatorCredentialManagement (ctap2handlers.go) over ResidentStore *)
(* Hosts list the relying parties and the credentials page by page, with   *)
(* one request per page and one cursor for all of them (credMgmtCursor),   *)
(* and delete credentials, while registrations go on.                      *)
(*                                                                         *)
(* A step is one critical section of the cursor's or the store's mutex.    *)
(* The requests are authorised (PinAuth tells by what).  rpIDForHash and   *)
(* rpIDForCredential look a credential's relying party up before the store *)
(* is asked again; ids never move to another party, so the second look     *)
(* decides, and the two are one step.  The store's file is Ceremony's      *)
(* concern; here it can be written.                                        *)
(***************************************************************************)
EXTENDS ResidentStore, FiniteSets

CONSTANT Sessions    \* hosts that manage credentials

VARIABLES
    issued,    \* credential ids created so far
    cursor,    \* server.credMgmtCursor
    fetched,   \* what EnumerateCredsBegin holds before it sets the cursor
    seen       \* history: what each session asked for and was given

mgmtVars == <<residentVars, issued, cursor, fetched, seen>>

StartCursor == [rpIDs |-> <<>>, rpIdx |-> 0, creds |-> <<>>, credIdx |-> 0]

(* An enumeration: what there was to list at Begin and, as long as the     *)
(* session has the cursor to itself, what it was given and if it was told  *)
(* that there is no more.                                                  *)
NoListing == [want |-> <<>>, got |-> <<>>, over |-> FALSE, alone |-> FALSE]
Listing(want) == [want |-> want, got |-> <<want[1]>>, over |-> FALSE, alone |-> TRUE]

MgmtInit ==
    /\ ResidentInit
    /\ issued = 0
    /\ cursor = StartCursor
    /\ fetched = [s \in Sessions |-> <<>>]
    /\ seen = [s \in Sessions |-> [rps |-> NoListing, creds |-> NoListing]]

Occupied == {rp \in RPs : creds[rp] # <<>>}
IdsOf(list) == [i \in DOMAIN list |-> list[i].id]

(* RPIDs lists a Go map: in no particular order.                           *)
Listings == SetToSeqs(Occupied)
-----------------------------------------------------------------------------
(* A registration, for a new key handle (handleMakeCredential).            *)
Register(rp, user) ==
    /\ issued < MaxIds
    /\ issued' = issued + 1
    /\ Put(rp, Credential(issued + 1, user), TRUE)
    /\ UNCHANGED <<cursor, fetched, seen>>

Ready(s) == fetched[s] = <<>>

(* Whoever moves a cursor disturbs the other sessions' listings.           *)
Disturb(s, kinds) ==
    [t \in Sessions |-> [k \in {"rps", "creds"} |->
        IF t # s /\ k \in kinds THEN [NoListing EXCEPT !.want = seen[t][k].want]
        ELSE seen[t][k]]]

(* Mutant: the index is set before the list is found empty.                *)
CursorPastEmpty(list) == [StartCursor EXCEPT !.rpIDs = list, !.rpIdx = 1]

CursorAtRPs(list) == [StartCursor EXCEPT !.rpIDs = list,
                                         !.rpIdx = IF list = <<>> THEN 0 ELSE 1]

EnumerateRPsBegin(s) ==
    /\ Ready(s)
    /\ \E list \in Listings :
        /\ cursor' = CursorAtRPs(list)
        /\ seen' = [Disturb(s, {"rps", "creds"}) EXCEPT
                      ![s].rps = IF list = <<>> THEN NoListing ELSE Listing(list),
                      ![s].creds = NoListing]
    /\ UNCHANGED <<residentVars, issued, fetched>>

Given(s, k, entry) ==
    IF seen[s][k].alone
    THEN [Disturb(s, {k}) EXCEPT ![s][k].got = Append(@, entry)] ELSE Disturb(s, {k})

ToldOver(s, k) == [seen EXCEPT ![s][k].over = seen[s][k].alone]

EnumerateRPsGetNextRP(s) ==
    /\ Ready(s)
    /\ IF cursor.rpIdx >= Len(cursor.rpIDs)
       THEN seen' = ToldOver(s, "rps") /\ UNCHANGED cursor
       ELSE /\ seen' = Given(s, "rps", cursor.rpIDs[cursor.rpIdx + 1])
            /\ cursor' = [cursor EXCEPT !.rpIdx = @ + 1]
    /\ UNCHANGED <<residentVars, issued, fetched>>

(* rpIDForHash and ByRPID; without credentials the cursor stays.           *)
EnumerateCredsBegin(s, rp) ==
    /\ Ready(s)
    /\ rp \in Occupied
    /\ fetched' = [fetched EXCEPT ![s] = IdsOf(creds[rp])]
    /\ UNCHANGED <<residentVars, issued, cursor, seen>>

(* Mutant: the whole cursor is replaced.                                   *)
CursorAtCredsOnly(list) == [StartCursor EXCEPT !.creds = list, !.credIdx = 1]

(* The listing of relying parties goes on where it was.                    *)
CursorAtCreds(list) == [cursor EXCEPT !.creds = list, !.credIdx = 1]

SetCursor(s) ==
    /\ ~Ready(s)
    /\ cursor' = CursorAtCreds(fetched[s])
    /\ seen' = [Disturb(s, {"creds"}) EXCEPT ![s].creds = Listing(fetched[s])]
    /\ fetched' = [fetched EXCEPT ![s] = <<>>]
    /\ UNCHANGED <<residentVars, issued>>

EnumerateCredsGetNextCred(s) ==
    /\ Ready(s)
    /\ IF cursor.credIdx >= Len(cursor.creds)
       THEN seen' = ToldOver(s, "creds") /\ UNCHANGED cursor
       ELSE /\ seen' = Given(s, "creds", cursor.creds[cursor.credIdx + 1])
            /\ cursor' = [cursor EXCEPT !.credIdx = @ + 1]
    /\ UNCHANGED <<residentVars, issued, fetched>>

HostDelete(id) ==
    /\ \E rp \in Occupied : Delete(rp, id, TRUE)
    /\ UNCHANGED <<issued, cursor, fetched, seen>>

MgmtNext ==
    \/ \E rp \in RPs, user \in Users : Register(rp, user)
    \/ \E s \in Sessions :
        \/ EnumerateRPsBegin(s) \/ EnumerateRPsGetNextRP(s)
        \/ \E rp \in RPs : EnumerateCredsBegin(s, rp)
        \/ SetCursor(s) \/ EnumerateCredsGetNextCred(s)
    \/ \E id \in Ids : HostDelete(id)

MgmtSpec == MgmtInit /\ [][MgmtNext]_mgmtVars

(* Parties, users and sessions are interchangeable.                        *)
MgmtSymmetry == Permutations(RPs) \cup Permutations(Users) \cup Permutations(Sessions)
-----------------------------------------------------------------------------
MgmtTypeOK ==
    /\ IsCredentialMap(creds, 0)
    /\ issued \in 0..MaxIds
    /\ cursor.rpIdx \in 0..Len(cursor.rpIDs)
    /\ cursor.credIdx \in 0..Len(cursor.creds)
    /\ \A s \in Sessions : ToSet(fetched[s]) \subseteq Ids

(* A session that moves the cursors alone is given every relying party and *)
(* every credential that Begin found, in order and once, and is told the   *)
(* end after the last: its listing of credentials does not disturb its     *)
(* listing of relying parties, nor do deletions and registrations.         *)
AloneIsComplete ==
    \A s \in Sessions, k \in {"rps", "creds"} :
        LET l == seen[s][k]
        IN  l.alone => IsPrefix(l.got, l.want) /\ (l.over => l.got = l.want)

(* "credMgmtCursorMu guards against concurrent enumeration sessions racing *)
(* on this single global cursor" (tpmfido.go:73-74): what a session is     *)
(* given as a credential of the relying party it asked for is one.         *)
EnumerationsDoNotMix ==
    [][\A s \in Sessions : EnumerateCredsGetNextCred(s) /\ cursor' # cursor =>
         cursor.creds[cursor.credIdx + 1] \in ToSet(seen[s].creds.want)]_mgmtVars
=============================================================================
