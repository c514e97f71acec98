----------------------------- MODULE TrayProofs -----------------------------
(***************************************************************************)
(* Theorems about CredMgmt and Tray, for any number of hosts, relying      *)
(* parties, users and credentials: an undisturbed enumeration is complete, *)
(* the delete button stands for a row, and no credential vanishes but by   *)
(* a registration of its account, a host's deletion, or the user's Yes.    *)
(*                                                                         *)
(* The first half is the invariant of CredMgmt: new ids are new in every   *)
(* list, and the listing of a session that has the cursor to itself is     *)
(* what the cursor has passed.  The second half is the window.  Last,      *)
(* a session that has nobody beside it is never given an entry of another  *)
(* relying party (LoneInv).                                                *)
(***************************************************************************)
EXTENDS Tray, ResidentStoreProofs, FiniteSetTheorems

CredsOK ==
    /\ StoredOK
    /\ issued \in 0..MaxIds
    /\ \A rp \in RPs : \A i \in 1..Len(creds[rp]) :
        creds[rp][i].id <= issued /\ creds[rp][i].count = 0
    /\ IsFiniteSet(Occupied)

CursorOK ==
    /\ cursor \in [rpIDs: Seq(RPs), rpIdx: Nat, creds: Seq(Ids), credIdx: Nat]
    /\ cursor.rpIdx <= Len(cursor.rpIDs)
    /\ cursor.credIdx <= Len(cursor.creds)

Pages == Seq(RPs \cup Ids)
Histories == [want: Pages, got: Pages, over: BOOLEAN, alone: BOOLEAN]
Kinds == {"rps", "creds"}
Seen == [Sessions -> [Kinds -> Histories]]

FetchedOK == fetched \in [Sessions -> Seq(Ids)]

(* A listing l of a session that has the cursor to itself: what the cursor *)
(* has passed of its list.                                                 *)
Follows(l, list, idx) ==
    l.alone => /\ l.want = list
               /\ Len(l.got) = idx
               /\ \A i \in 1..idx : l.got[i] = list[i]
               /\ l.over => idx = Len(list)

SeenOK ==
    /\ seen \in Seen
    /\ \A s \in Sessions :
        /\ Follows(seen[s]["rps"], cursor.rpIDs, cursor.rpIdx)
        /\ Follows(seen[s]["creds"], cursor.creds, cursor.credIdx)

MgmtInv == CredsOK /\ CursorOK /\ FetchedOK /\ SeenOK
-----------------------------------------------------------------------------
(* A listing begins with its first page, or with none at all.              *)
LEMMA ListingFacts ==
    ASSUME NEW list \in Pages, list # <<>>
    PROVE  Listing(list) \in Histories /\ Follows(Listing(list), list, 1)
<1>1. Len(list) \in Nat /\ Len(list) >= 1 /\ list[1] \in RPs \cup Ids
  BY EmptySeq, ElementOfSeq, LenProperties DEF Pages
<1>2. <<list[1]>> \in Pages /\ Len(<<list[1]>>) = 1 /\ <<list[1]>>[1] = list[1]
  BY <1>1 DEF Pages
<1> QED
  BY <1>1, <1>2 DEF Listing, Histories, Follows

(* No listing is consistent with any cursor.                               *)
LEMMA NoListingFacts ==
    ASSUME NEW list, NEW idx
    PROVE  NoListing \in Histories /\ Follows(NoListing, list, idx)
  BY EmptySeq DEF NoListing, Histories, Follows, Pages

(* Whoever is disturbed has no listing any more; who disturbs keeps his.   *)
LEMMA DisturbFacts ==
    ASSUME seen \in Seen, NEW s \in Sessions, NEW K, NEW d, d = Disturb(s, K)
    PROVE  /\ d \in Seen
           /\ d[s] = seen[s]
           /\ \A t \in Sessions, k \in Kinds :
                t # s => IF k \in K THEN ~d[t][k].alone ELSE d[t][k] = seen[t][k]
<1> DEFINE one(t, k) == IF t # s /\ k \in K
                        THEN [NoListing EXCEPT !.want = seen[t][k].want] ELSE seen[t][k]
<1>1. \A t \in Sessions, k \in Kinds : seen[t][k] \in Histories
  BY DEF Seen
<1>2. \A h \in Histories : /\ [NoListing EXCEPT !.want = h.want] \in Histories
                          /\ ~[NoListing EXCEPT !.want = h.want].alone
  BY EmptySeq DEF NoListing, Histories, Pages
<1>3. d = [t \in Sessions |-> [k \in Kinds |-> one(t, k)]]
  BY DEF Disturb, Kinds
<1>4. \A t \in Sessions, k \in Kinds : one(t, k) \in Histories
  BY <1>1, <1>2
<1>5. \A t \in Sessions, k \in Kinds : t # s /\ k \in K => ~one(t, k).alone
  BY <1>1, <1>2
<1>6. \A k \in Kinds : one(s, k) = seen[s][k]
  OBVIOUS
<1>7. \A t \in Sessions, k \in Kinds : k \notin K => one(t, k) = seen[t][k]
  OBVIOUS
<1> HIDE DEF one
<1>8. \A t \in Sessions : d[t] = [k \in Kinds |-> one(t, k)] /\ d[t] \in [Kinds -> Histories]
  BY <1>3, <1>4
<1>9. d \in Seen
  BY <1>3, <1>8 DEF Seen
<1>10. d[s] = seen[s]
  <2>1. seen[s] = [k \in Kinds |-> seen[s][k]]
    BY DEF Seen
  <2> QED BY <1>6, <1>8, <2>1
<1>11. \A t \in Sessions, k \in Kinds : d[t][k] = one(t, k)
  BY <1>8
<1> QED
  BY <1>5, <1>7, <1>9, <1>10, <1>11

(* The next page of a listing goes at its end.                             *)
LEMMA NextPage ==
    ASSUME NEW l \in Histories, NEW list \in Pages, NEW i \in Nat, i < Len(list), Follows(l, list, i)
    PROVE  /\ [l EXCEPT !.got = Append(@, list[i + 1])] \in Histories
           /\ Follows([l EXCEPT !.got = Append(@, list[i + 1])], list, i + 1)
<1> DEFINE m == [l EXCEPT !.got = Append(@, list[i + 1])]
<1>1. l.got \in Pages /\ Len(list) \in Nat /\ list[i + 1] \in RPs \cup Ids
  BY ElementOfSeq, LenProperties DEF Histories, Pages
<1>2. /\ Append(l.got, list[i + 1]) \in Pages
      /\ Len(Append(l.got, list[i + 1])) = Len(l.got) + 1
      /\ \A j \in 1..Len(l.got) : Append(l.got, list[i + 1])[j] = l.got[j]
      /\ Append(l.got, list[i + 1])[Len(l.got) + 1] = list[i + 1]
  BY <1>1, AppendProperties DEF Pages
<1>3. /\ m \in Histories /\ m.got = Append(l.got, list[i + 1])
      /\ m.want = l.want /\ m.over = l.over /\ m.alone = l.alone
  BY <1>1, <1>2 DEF Histories
<1> HIDE DEF m
<1>4. Follows(m, list, i + 1)
  BY <1>1, <1>2, <1>3 DEF Follows
<1> QED BY <1>3, <1>4 DEF m

(* The end of a listing changes nothing but that it is known.              *)
LEMMA EndOfListing ==
    ASSUME NEW l \in Histories, NEW list \in Pages, Follows(l, list, Len(list))
    PROVE  /\ [l EXCEPT !.over = l.alone] \in Histories
           /\ Follows([l EXCEPT !.over = l.alone], list, Len(list))
  BY DEF Histories, Follows

(* Relying parties and credential ids are pages.                           *)
LEMMA PageTypes == Seq(RPs) \subseteq Pages /\ Seq(Ids) \subseteq Pages
<1>1. ASSUME NEW T, T \subseteq RPs \cup Ids, NEW q \in Seq(T) PROVE q \in Pages
  <2>1. Len(q) \in Nat /\ q \in [1..Len(q) -> T]
    BY LenProperties
  <2> DEFINE n == Len(q)
  <2> HIDE DEF n
  <2>2. n \in Nat /\ q \in [1..n -> RPs \cup Ids]
    BY <1>1, <2>1 DEF n
  <2> QED BY <2>2 DEF Pages
<1> QED BY <1>1

(* A listing of the relying parties with credentials.                      *)
LEMMA ListingTypes ==
    ASSUME IsFiniteSet(Occupied), NEW list \in Listings
    PROVE  list \in Seq(RPs)
<1>1. Cardinality(Occupied) \in Nat
  BY FS_CardinalityType
<1>2. list \in [1..Cardinality(Occupied) -> Occupied]
  BY DEF Listings, SetToSeqs
<1>3. list \in [1..Cardinality(Occupied) -> RPs]
  BY <1>2 DEF Occupied
<1> QED BY <1>1, <1>3

(* Where the cursor is after one list or the other was put in it.          *)
LEMMA NewCursors ==
    ASSUME CursorOK, NEW list
    PROVE  /\ CursorAtRPs(list) = [rpIDs |-> list, rpIdx |-> IF list = <<>> THEN 0 ELSE 1,
                                   creds |-> <<>>, credIdx |-> 0]
           /\ CursorAtCreds(list) = [rpIDs |-> cursor.rpIDs, rpIdx |-> cursor.rpIdx,
                                     creds |-> list, credIdx |-> 1]
<1> DEFINE n == IF list = <<>> THEN 0 ELSE 1
<1>1. CursorAtRPs(list) = [StartCursor EXCEPT !.rpIDs = list, !.rpIdx = n]
  BY DEF CursorAtRPs
<1> HIDE DEF n
<1>2. CursorAtRPs(list) = [rpIDs |-> list, rpIdx |-> n, creds |-> <<>>, credIdx |-> 0]
  BY <1>1 DEF StartCursor
<1>3. CursorAtCreds(list) = [rpIDs |-> cursor.rpIDs, rpIdx |-> cursor.rpIdx,
                             creds |-> list, credIdx |-> 1]
  <2>1. cursor = [rpIDs |-> cursor.rpIDs, rpIdx |-> cursor.rpIdx,
                  creds |-> cursor.creds, credIdx |-> cursor.credIdx]
    BY DEF CursorOK
  <2> DEFINE a == cursor.rpIDs
             b == cursor.rpIdx
             e == cursor.creds
             f == cursor.credIdx
  <2>2. cursor = [rpIDs |-> a, rpIdx |-> b, creds |-> e, credIdx |-> f]
    BY <2>1
  <2> HIDE DEF a, b, e, f
  <2>3. CursorAtCreds(list) = [[rpIDs |-> a, rpIdx |-> b, creds |-> e, credIdx |-> f]
                                 EXCEPT !.creds = list, !.credIdx = 1]
    BY <2>2 DEF CursorAtCreds
  <2>4. CursorAtCreds(list) = [rpIDs |-> a, rpIdx |-> b, creds |-> list, credIdx |-> 1]
    BY <2>3
  <2> QED BY <2>4 DEF a, b
<1> QED BY <1>2, <1>3 DEF n

(* A step that moves the cursor or tells of it, in the listings of s and   *)
(* of the others.                                                          *)
LEMMA SeenKeeps ==
    ASSUME seen' \in Seen, NEW s \in Sessions,
           Follows(seen'[s]["rps"], cursor'.rpIDs, cursor'.rpIdx),
           Follows(seen'[s]["creds"], cursor'.creds, cursor'.credIdx),
           \A t \in Sessions : t # s =>
             /\ ~seen'[t]["rps"].alone \/ Follows(seen'[t]["rps"], cursor'.rpIDs, cursor'.rpIdx)
             /\ ~seen'[t]["creds"].alone
                  \/ Follows(seen'[t]["creds"], cursor'.creds, cursor'.credIdx)
    PROVE  SeenOK'
<1>1. ASSUME NEW t \in Sessions
      PROVE  /\ Follows(seen'[t]["rps"], cursor'.rpIDs, cursor'.rpIdx)
             /\ Follows(seen'[t]["creds"], cursor'.creds, cursor'.credIdx)
  BY DEF Follows
<1> QED BY <1>1 DEF SeenOK, Follows

(* EnumerateRPsBegin.                                                      *)
LEMMA RPsBeginKeeps ==
    ASSUME MgmtInv, NEW s \in Sessions, EnumerateRPsBegin(s)
    PROVE  CursorOK' /\ SeenOK'
<1>1. PICK list \in Listings :
        /\ cursor' = CursorAtRPs(list)
        /\ seen' = [Disturb(s, Kinds) EXCEPT
                      ![s].rps = IF list = <<>> THEN NoListing ELSE Listing(list),
                      ![s].creds = NoListing]
  BY DEF EnumerateRPsBegin, Kinds
<1> DEFINE x == IF list = <<>> THEN NoListing ELSE Listing(list)
           n == IF list = <<>> THEN 0 ELSE 1
           d == Disturb(s, Kinds)
<1>2. list \in Seq(RPs) /\ list \in Pages /\ Len(list) \in Nat /\ n \in Nat /\ n <= Len(list)
  BY ListingTypes, PageTypes, LenProperties, EmptySeq DEF MgmtInv, CredsOK
<1>3. cursor' = [rpIDs |-> list, rpIdx |-> n, creds |-> <<>>, credIdx |-> 0]
  BY <1>1, NewCursors DEF MgmtInv
<1>4. x \in Histories /\ Follows(x, list, n)
  BY <1>2, ListingFacts, NoListingFacts
<1>5. NoListing \in Histories /\ Follows(NoListing, <<>>, 0)
  BY NoListingFacts
<1>6. /\ d \in Seen
      /\ \A t \in Sessions, k \in Kinds : t # s => ~d[t][k].alone
  BY DisturbFacts DEF MgmtInv, SeenOK
<1>7. seen' = [d EXCEPT ![s].rps = x, ![s].creds = NoListing]
  BY <1>1
<1> HIDE DEF x, n, d
<1>8. /\ seen' \in Seen /\ seen'[s]["rps"] = x /\ seen'[s]["creds"] = NoListing
      /\ \A t \in Sessions : t # s => seen'[t] = d[t]
  BY <1>4, <1>5, <1>6, <1>7 DEF Seen, Kinds
<1>9. CursorOK'
  BY <1>2, <1>3, EmptySeq DEF CursorOK
<1>10. SeenOK'
  BY <1>3, <1>4, <1>5, <1>6, <1>8, SeenKeeps DEF Kinds
<1> QED BY <1>9, <1>10

(* SetCursor, the end of EnumerateCredsBegin.                              *)
LEMMA SetCursorKeeps ==
    ASSUME MgmtInv, NEW s \in Sessions, SetCursor(s)
    PROVE  CursorOK' /\ FetchedOK' /\ SeenOK'
<1> DEFINE list == fetched[s]
           d == Disturb(s, {"creds"})
<1>1. /\ list # <<>> /\ cursor' = CursorAtCreds(list)
      /\ seen' = [d EXCEPT ![s].creds = Listing(list)]
      /\ fetched' = [fetched EXCEPT ![s] = <<>>]
  BY DEF SetCursor, Ready
<1>2. list \in Seq(Ids) /\ list \in Pages /\ Len(list) \in Nat /\ 1 <= Len(list)
  BY <1>1, PageTypes, LenProperties, EmptySeq DEF MgmtInv, FetchedOK
<1> HIDE DEF list
<1>3. cursor' = [rpIDs |-> cursor.rpIDs, rpIdx |-> cursor.rpIdx, creds |-> list, credIdx |-> 1]
  BY <1>1, NewCursors DEF MgmtInv
<1>4. Listing(list) \in Histories /\ Follows(Listing(list), list, 1)
  BY <1>1, <1>2, ListingFacts
<1>5. /\ d \in Seen /\ d[s] = seen[s]
      /\ \A t \in Sessions : t # s => ~d[t]["creds"].alone /\ d[t]["rps"] = seen[t]["rps"]
  BY DisturbFacts DEF MgmtInv, SeenOK, Kinds
<1> HIDE DEF d
<1>6. /\ seen' \in Seen /\ seen'[s]["rps"] = seen[s]["rps"]
      /\ seen'[s]["creds"] = Listing(list)
      /\ \A t \in Sessions : t # s => seen'[t] = d[t]
  BY <1>1, <1>4, <1>5 DEF Seen, Kinds
<1>7. CursorOK'
  BY <1>2, <1>3 DEF CursorOK, MgmtInv
<1>8. FetchedOK'
  BY <1>1, EmptySeq DEF FetchedOK, MgmtInv
<1>9. \A t \in Sessions : Follows(seen[t]["rps"], cursor'.rpIDs, cursor'.rpIdx)
  BY <1>3 DEF MgmtInv, SeenOK
<1>10. SeenOK'
  BY <1>3, <1>4, <1>5, <1>6, <1>9, SeenKeeps
<1> QED BY <1>7, <1>8, <1>10

(* What a session is given, and what the others keep, when it takes a page *)
(* of list.                                                                *)
LEMMA GivenFacts ==
    ASSUME MgmtInv, NEW s \in Sessions, NEW k \in Kinds, NEW list \in Pages, NEW i \in Nat,
           i < Len(list), Follows(seen[s][k], list, i), seen' = Given(s, k, list[i + 1])
    PROVE  /\ seen' \in Seen
           /\ Follows(seen'[s][k], list, i + 1)
           /\ \A j \in Kinds : j # k => seen'[s][j] = seen[s][j]
           /\ \A t \in Sessions : t # s => ~seen'[t][k].alone
           /\ \A t \in Sessions, j \in Kinds : t # s /\ j # k => seen'[t][j] = seen[t][j]
<1> DEFINE d == Disturb(s, {k})
           l == seen[s][k]
           m == [l EXCEPT !.got = Append(@, list[i + 1])]
<1>1. /\ d \in Seen /\ d[s] = seen[s]
      /\ \A t \in Sessions : t # s => ~d[t][k].alone
      /\ \A t \in Sessions, j \in Kinds : t # s /\ j # k => d[t][j] = seen[t][j]
  BY DisturbFacts DEF MgmtInv, SeenOK
<1>2. l \in Histories
  BY DEF MgmtInv, SeenOK, Seen
<1>3. m \in Histories /\ Follows(m, list, i + 1)
  BY <1>2, NextPage
<1>4. CASE l.alone
  <2>1. seen' = [d EXCEPT ![s][k].got = Append(@, list[i + 1])]
    BY <1>4 DEF Given
  <2>2. seen' = [d EXCEPT ![s] = [d[s] EXCEPT ![k] = [d[s][k] EXCEPT !.got = Append(@, list[i + 1])]]]
    BY <2>1
  <2>3. seen' = [d EXCEPT ![s] = [seen[s] EXCEPT ![k] = m]]
    BY <1>1, <2>2
  <2> HIDE DEF d, m
  <2>4. /\ seen' \in Seen /\ seen'[s][k] = m
        /\ \A j \in Kinds : j # k => seen'[s][j] = seen[s][j]
        /\ \A t \in Sessions : t # s => seen'[t] = d[t]
    BY <1>1, <1>3, <2>3 DEF Seen
  <2> QED BY <1>1, <1>3, <2>4
<1>5. CASE ~l.alone
  <2>1. seen' = d
    BY <1>5 DEF Given
  <2>2. Follows(seen'[s][k], list, i + 1)
    BY <1>1, <1>5, <2>1 DEF Follows
  <2> HIDE DEF d
  <2> QED BY <1>1, <2>1, <2>2
<1> QED BY <1>4, <1>5

(* And when it is told that there is no more.                              *)
LEMMA ToldFacts ==
    ASSUME MgmtInv, NEW s \in Sessions, NEW k \in Kinds, NEW list \in Pages,
           Follows(seen[s][k], list, Len(list)), seen' = ToldOver(s, k)
    PROVE  /\ seen' \in Seen
           /\ Follows(seen'[s][k], list, Len(list))
           /\ \A j \in Kinds : j # k => seen'[s][j] = seen[s][j]
           /\ \A t \in Sessions : t # s => seen'[t] = seen[t]
<1> DEFINE l == seen[s][k]
           m == [l EXCEPT !.over = l.alone]
<1>1. seen \in Seen /\ l \in Histories
  BY DEF MgmtInv, SeenOK, Seen
<1>2. m \in Histories /\ Follows(m, list, Len(list))
  BY <1>1, EndOfListing
<1>3. seen' = [seen EXCEPT ![s] = [seen[s] EXCEPT ![k] = m]]
  BY DEF ToldOver
<1> HIDE DEF m
<1> QED BY <1>1, <1>2, <1>3 DEF Seen

(* EnumerateRPsGetNextRP.                                                  *)
LEMMA RPsNextKeeps ==
    ASSUME MgmtInv, NEW s \in Sessions, EnumerateRPsGetNextRP(s)
    PROVE  CursorOK' /\ SeenOK'
<1> DEFINE list == cursor.rpIDs
           i == cursor.rpIdx
<1>1. /\ list \in Pages /\ list \in Seq(RPs) /\ Len(list) \in Nat /\ i \in Nat /\ i <= Len(list)
      /\ cursor \in [rpIDs: Seq(RPs), rpIdx: Nat, creds: Seq(Ids), credIdx: Nat]
  BY PageTypes, LenProperties DEF MgmtInv, CursorOK
<1>2. /\ Follows(seen[s]["rps"], list, i)
      /\ \A t \in Sessions : /\ Follows(seen[t]["rps"], list, i)
                             /\ Follows(seen[t]["creds"], cursor.creds, cursor.credIdx)
  BY DEF MgmtInv, SeenOK
<1>3. "rps" \in Kinds /\ "creds" \in Kinds /\ "rps" # "creds"
  BY DEF Kinds
<1>4. CASE i >= Len(list)
  <2>1. seen' = ToldOver(s, "rps") /\ cursor' = cursor /\ i = Len(list)
    BY <1>1, <1>4 DEF EnumerateRPsGetNextRP
  <2>2. CursorOK'
    BY <2>1 DEF CursorOK, MgmtInv
  <2> HIDE DEF list, i
  <2>3. /\ seen' \in Seen /\ Follows(seen'[s]["rps"], list, i)
        /\ seen'[s]["creds"] = seen[s]["creds"]
        /\ \A t \in Sessions : t # s => seen'[t] = seen[t]
    BY <1>1, <1>2, <1>3, <2>1, ToldFacts
  <2>4. SeenOK'
    BY <1>2, <2>1, <2>3, SeenKeeps DEF list, i
  <2> QED BY <2>2, <2>4
<1>5. CASE i < Len(list)
  <2>1. /\ seen' = Given(s, "rps", list[i + 1])
        /\ cursor' = [cursor EXCEPT !.rpIdx = i + 1]
    BY <1>1, <1>5 DEF EnumerateRPsGetNextRP
  <2>2. cursor'.rpIDs = list /\ cursor'.rpIdx = i + 1 /\ cursor'.creds = cursor.creds
        /\ cursor'.credIdx = cursor.credIdx
    BY <1>1, <2>1
  <2>3. CursorOK'
    BY <1>1, <1>5, <2>1, <2>2, SMTT(20) DEF CursorOK, MgmtInv
  <2> HIDE DEF list, i
  <2>4. /\ seen' \in Seen /\ Follows(seen'[s]["rps"], list, i + 1)
        /\ seen'[s]["creds"] = seen[s]["creds"]
        /\ \A t \in Sessions : t # s => /\ ~seen'[t]["rps"].alone
                                       /\ seen'[t]["creds"] = seen[t]["creds"]
    BY <1>1, <1>2, <1>3, <1>5, <2>1, GivenFacts
  <2>5. SeenOK'
    BY <1>2, <2>2, <2>4, SeenKeeps
  <2> QED BY <2>3, <2>5
<1> QED BY <1>1, <1>4, <1>5

(* EnumerateCredsGetNextCred.                                              *)
LEMMA CredsNextKeeps ==
    ASSUME MgmtInv, NEW s \in Sessions, EnumerateCredsGetNextCred(s)
    PROVE  CursorOK' /\ SeenOK'
<1> DEFINE list == cursor.creds
           i == cursor.credIdx
<1>1. /\ list \in Pages /\ list \in Seq(Ids) /\ Len(list) \in Nat /\ i \in Nat /\ i <= Len(list)
      /\ cursor \in [rpIDs: Seq(RPs), rpIdx: Nat, creds: Seq(Ids), credIdx: Nat]
  BY PageTypes, LenProperties DEF MgmtInv, CursorOK
<1>2. /\ Follows(seen[s]["creds"], list, i)
      /\ \A t \in Sessions : /\ Follows(seen[t]["creds"], list, i)
                             /\ Follows(seen[t]["rps"], cursor.rpIDs, cursor.rpIdx)
  BY DEF MgmtInv, SeenOK
<1>3. "rps" \in Kinds /\ "creds" \in Kinds /\ "rps" # "creds"
  BY DEF Kinds
<1>4. CASE i >= Len(list)
  <2>1. seen' = ToldOver(s, "creds") /\ cursor' = cursor /\ i = Len(list)
    BY <1>1, <1>4 DEF EnumerateCredsGetNextCred
  <2>2. CursorOK'
    BY <2>1 DEF CursorOK, MgmtInv
  <2> HIDE DEF list, i
  <2>3. /\ seen' \in Seen /\ Follows(seen'[s]["creds"], list, i)
        /\ seen'[s]["rps"] = seen[s]["rps"]
        /\ \A t \in Sessions : t # s => seen'[t] = seen[t]
    BY <1>1, <1>2, <1>3, <2>1, ToldFacts
  <2>4. SeenOK'
    BY <1>2, <2>1, <2>3, SeenKeeps DEF list, i
  <2> QED BY <2>2, <2>4
<1>5. CASE i < Len(list)
  <2>1. /\ seen' = Given(s, "creds", list[i + 1])
        /\ cursor' = [cursor EXCEPT !.credIdx = i + 1]
    BY <1>1, <1>5 DEF EnumerateCredsGetNextCred
  <2>2. cursor'.creds = list /\ cursor'.credIdx = i + 1 /\ cursor'.rpIDs = cursor.rpIDs
        /\ cursor'.rpIdx = cursor.rpIdx
    BY <1>1, <2>1
  <2>3. CursorOK'
    BY <1>1, <1>5, <2>1, <2>2 DEF CursorOK, MgmtInv
  <2> HIDE DEF list, i
  <2>4. /\ seen' \in Seen /\ Follows(seen'[s]["creds"], list, i + 1)
        /\ seen'[s]["rps"] = seen[s]["rps"]
        /\ \A t \in Sessions : t # s => /\ ~seen'[t]["creds"].alone
                                       /\ seen'[t]["rps"] = seen[t]["rps"]
    BY <1>1, <1>2, <1>3, <1>5, <2>1, GivenFacts
  <2>5. SeenOK'
    BY <1>2, <2>2, <2>4, SeenKeeps
  <2> QED BY <2>3, <2>5
<1> QED BY <1>1, <1>4, <1>5

(* What is stored is an entry with an id.                                  *)
LEMMA StoredEntries ==
    ASSUME StoredOK, NEW rp \in RPs, NEW i \in 1..Len(creds[rp])
    PROVE  creds[rp][i] \in Entry /\ creds[rp][i].id \in Ids /\ creds[rp][i].id \in Nat
<1>1. creds[rp] \in Seq(Entry)
  BY DEF StoredOK
<1>2. creds[rp][i] \in Entry
  BY <1>1, ElementOfSeq
<1> QED BY <1>2 DEF Entry, Ids

(* EnumerateCredsBegin takes the ids of a stored list.                     *)
LEMMA CredsBeginKeeps ==
    ASSUME MgmtInv, NEW s \in Sessions, NEW rp \in RPs, EnumerateCredsBegin(s, rp)
    PROVE  FetchedOK'
<1> DEFINE ids == IdsOf(creds[rp])
           n == Len(creds[rp])
<1>1. creds[rp] \in Seq(Entry)
  BY DEF MgmtInv, CredsOK, StoredOK
<1>2. n \in Nat /\ DOMAIN creds[rp] = 1..n /\ \A i \in 1..n : creds[rp][i].id \in Ids
  <2>1. \A i \in 1..n : creds[rp][i].id \in Ids
    BY StoredEntries DEF MgmtInv, CredsOK
  <2>2. n \in Nat /\ DOMAIN creds[rp] = 1..n
    BY <1>1, LenProperties
  <2> QED BY <2>1, <2>2
<1> HIDE DEF n
<1>3. ids \in [1..n -> Ids]
  BY <1>2 DEF IdsOf
<1>4. ids \in Seq(Ids)
  BY <1>2, <1>3
<1>5. fetched' = [fetched EXCEPT ![s] = ids]
  BY DEF EnumerateCredsBegin
<1> HIDE DEF ids
<1> QED BY <1>4, <1>5 DEF FetchedOK, MgmtInv
-----------------------------------------------------------------------------
(* Only one party's list changed, so there are still finitely many.        *)
LEMMA OccupiedStays ==
    ASSUME IsFiniteSet(Occupied), NEW rp \in RPs, \A q \in RPs : q # rp => creds'[q] = creds[q]
    PROVE  IsFiniteSet(Occupied')
<1>1. Occupied' \subseteq Occupied \cup {rp}
  BY DEF Occupied
<1>2. IsFiniteSet(Occupied \cup {rp})
  BY FS_AddElement
<1> QED BY <1>1, <1>2, FS_Subset

(* A registration: nobody of another account is touched.                   *)
LEMMA RegisterFacts ==
    ASSUME CredsOK, NEW rp \in RPs, NEW user \in Users, Register(rp, user)
    PROVE  /\ CredsOK'
           /\ \A q \in RPs : q # rp => creds'[q] = creds[q]
           /\ \A i \in 1..Len(creds[rp]) : creds[rp][i].user # user =>
                \E j \in 1..Len(creds'[rp]) : creds'[rp][j] = creds[rp][i]
<1> DEFINE c == Credential(issued + 1, user)
<1>1. /\ issued < MaxIds /\ issued' = issued + 1 /\ Put(rp, c, TRUE)
      /\ issued \in Nat /\ MaxIds \in Nat /\ issued' \in 0..MaxIds
  <2>1. issued < MaxIds /\ issued' = issued + 1 /\ Put(rp, c, TRUE)
    BY DEF Register
  <2> HIDE DEF c
  <2>2. issued \in 0..MaxIds /\ MaxIds \in Nat
    BY ResidentAssumption DEF CredsOK
  <2>3. issued \in Nat /\ issued + 1 \in 0..MaxIds
    BY <2>1, <2>2
  <2> QED BY <2>1, <2>2, <2>3, Zenon
<1>2. c \in Entry /\ c.id = issued + 1 /\ c.user = user /\ c.count = 0
  BY <1>1 DEF Credential, Entry, Ids
<1> HIDE DEF c
<1>3. StoredOK /\ \A i \in 1..Len(creds[rp]) : creds[rp][i].id # c.id
  <2>1. \A i \in 1..Len(creds[rp]) : creds[rp][i].id <= issued
    BY DEF CredsOK
  <2>2. StoredOK
    BY DEF CredsOK
  <2>3. \A i \in 1..Len(creds[rp]) : creds[rp][i].id \in Nat
    BY <2>2, StoredEntries
  <2> QED BY <1>1, <1>2, <2>1, <2>3 DEF CredsOK
<1>4. /\ StoredOK' /\ \A q \in RPs : q # rp => creds'[q] = creds[q]
      /\ \A j \in 1..Len(creds'[rp]) :
           creds'[rp][j] = c \/ \E i \in 1..Len(creds[rp]) : creds'[rp][j] = creds[rp][i]
      /\ \A i \in 1..Len(creds[rp]) : creds[rp][i].user # c.user =>
           \E j \in 1..Len(creds'[rp]) : creds'[rp][j] = creds[rp][i]
  <2>1. StoredOK /\ c \in Entry /\ Put(rp, c, TRUE) /\ TRUE \in BOOLEAN
        /\ \A i \in 1..Len(creds[rp]) : creds[rp][i].id # c.id
    BY <1>1, <1>2, <1>3
  <2> QED BY <2>1, PutStored, ZenonT(30)
<1>5. ASSUME NEW q \in RPs, NEW j \in 1..Len(creds'[q])
      PROVE  creds'[q][j].id <= issued' /\ creds'[q][j].count = 0
  <2>1. ASSUME NEW o \in RPs, NEW i \in 1..Len(creds[o])
        PROVE  creds[o][i].id <= issued' /\ creds[o][i].count = 0
    <3>2. creds[o][i].id \in Nat
      BY <1>3, StoredEntries
    <3>3. creds[o][i].id <= issued /\ creds[o][i].count = 0
      BY DEF CredsOK
    <3> QED BY <1>1, <3>2, <3>3
  <2>2. CASE q # rp
    BY <1>4, <2>1, <2>2
  <2>3. CASE q = rp
    BY <1>1, <1>2, <1>4, <2>1, <2>3
  <2> QED BY <2>2, <2>3
<1>6. IsFiniteSet(Occupied')
  BY <1>4, OccupiedStays DEF CredsOK
<1>7. CredsOK'
  BY <1>1, <1>4, <1>5, <1>6 DEF CredsOK
<1> QED BY <1>2, <1>4, <1>7

(* A deletion: one id goes.                                                *)
LEMMA DeleteFacts ==
    ASSUME CredsOK, NEW rp \in RPs, NEW id, Delete(rp, id, TRUE), UNCHANGED issued
    PROVE  /\ CredsOK'
           /\ \A q \in RPs : q # rp => creds'[q] = creds[q]
           /\ \A i \in 1..Len(creds[rp]) : creds[rp][i].id # id =>
                \E j \in 1..Len(creds'[rp]) : creds'[rp][j] = creds[rp][i]
<1>1. StoredOK
  BY DEF CredsOK
<1>2. /\ StoredOK' /\ \A q \in RPs : q # rp => creds'[q] = creds[q]
      /\ \A j \in 1..Len(creds'[rp]) :
           \E i \in 1..Len(creds[rp]) : creds'[rp][j] = creds[rp][i]
      /\ \A i \in 1..Len(creds[rp]) : creds[rp][i].id # id =>
           \E j \in 1..Len(creds'[rp]) : creds'[rp][j] = creds[rp][i]
  BY <1>1, DeleteStored
<1>3. ASSUME NEW q \in RPs, NEW j \in 1..Len(creds'[q])
      PROVE  creds'[q][j].id <= issued /\ creds'[q][j].count = 0
  <2>1. \A o \in RPs : \A i \in 1..Len(creds[o]) : creds[o][i].id <= issued /\ creds[o][i].count = 0
    BY DEF CredsOK
  <2>2. CASE q # rp
    <3>1. creds'[q] = creds[q]
      BY <1>2, <2>2
    <3>2. j \in 1..Len(creds[q])
      BY <3>1
    <3> QED BY <2>1, <3>1, <3>2
  <2>3. CASE q = rp
    <3>1. j \in 1..Len(creds'[rp])
      BY <2>3
    <3>2. PICK i \in 1..Len(creds[rp]) : creds'[rp][j] = creds[rp][i]
      BY <1>2, <3>1
    <3> QED BY <2>1, <2>3, <3>2
  <2> QED BY <2>2, <2>3
<1>4. IsFiniteSet(Occupied')
  BY <1>2, OccupiedStays DEF CredsOK
<1>5. CredsOK'
  BY <1>2, <1>3, <1>4 DEF CredsOK
<1> QED BY <1>2, <1>5

(* A step that leaves the store alone.                                     *)
LEMMA CredsStay == ASSUME CredsOK, UNCHANGED <<creds, issued>> PROVE CredsOK'
  BY DEF CredsOK, StoredOK, Occupied

(* The invariant of CredMgmt in the initial state, and in every step.      *)
LEMMA MgmtInitInv == MgmtInit => MgmtInv
<1> SUFFICES ASSUME MgmtInit PROVE MgmtInv
  OBVIOUS
<1> USE DEF MgmtInit, ResidentInit, StartCursor
<1>1. \A rp \in RPs : creds[rp] = <<>> /\ creds[rp] \in Seq(Entry) /\ Len(creds[rp]) = 0
  BY EmptySeq
<1>2. CredsOK
  <2>1. Occupied = {}
    BY <1>1 DEF Occupied
  <2>2. StoredOK
    BY <1>1 DEF StoredOK, Unique
  <2> QED BY <1>1, <2>1, <2>2, FS_EmptySet, ResidentAssumption DEF CredsOK
<1>3. CursorOK
  BY EmptySeq DEF CursorOK
<1>4. FetchedOK
  BY EmptySeq DEF FetchedOK
<1>5. SeenOK
  <2>1. NoListing \in Histories
    BY NoListingFacts
  <2>2. seen = [s \in Sessions |-> [k \in Kinds |-> NoListing]]
    BY DEF Kinds
  <2> QED BY <2>1, <2>2, NoListingFacts DEF SeenOK, Seen, Kinds
<1> QED BY <1>2, <1>3, <1>4, <1>5 DEF MgmtInv

(* Every step of a host keeps the invariant.                               *)
LEMMA MgmtStep == MgmtInv /\ [MgmtNext]_mgmtVars => MgmtInv'
<1> SUFFICES ASSUME MgmtInv, [MgmtNext]_mgmtVars PROVE MgmtInv'
  OBVIOUS
<1>1. CredsOK /\ CursorOK /\ FetchedOK /\ SeenOK
  BY DEF MgmtInv
<1>2. ASSUME UNCHANGED <<cursor, fetched, seen>> PROVE CursorOK' /\ FetchedOK' /\ SeenOK'
  BY <1>1, <1>2 DEF CursorOK, FetchedOK, SeenOK
<1>3. ASSUME NEW rp \in RPs, NEW user \in Users, Register(rp, user) PROVE MgmtInv'
  BY <1>1, <1>2, <1>3, RegisterFacts DEF Register, MgmtInv
<1>4. ASSUME NEW id \in Ids, HostDelete(id) PROVE MgmtInv'
  BY <1>1, <1>2, <1>4, DeleteFacts DEF HostDelete, Occupied, MgmtInv
<1>5. ASSUME UNCHANGED <<residentVars, issued>> PROVE CredsOK'
  BY <1>1, <1>5, CredsStay DEF residentVars
<1>6. ASSUME NEW s \in Sessions, EnumerateRPsBegin(s) PROVE MgmtInv'
  BY <1>1, <1>5, <1>6, RPsBeginKeeps DEF EnumerateRPsBegin, MgmtInv, FetchedOK
<1>7. ASSUME NEW s \in Sessions, EnumerateRPsGetNextRP(s) PROVE MgmtInv'
  BY <1>1, <1>5, <1>7, RPsNextKeeps DEF EnumerateRPsGetNextRP, MgmtInv, FetchedOK
<1>8. ASSUME NEW s \in Sessions, NEW rp \in RPs, EnumerateCredsBegin(s, rp) PROVE MgmtInv'
  <2>1. FetchedOK'
    BY <1>8, CredsBeginKeeps
  <2>2. CursorOK' /\ SeenOK'
    BY <1>1, <1>8 DEF EnumerateCredsBegin, CursorOK, SeenOK
  <2> QED BY <1>5, <1>8, <2>1, <2>2 DEF EnumerateCredsBegin, MgmtInv
<1>9. ASSUME NEW s \in Sessions, SetCursor(s) PROVE MgmtInv'
  BY <1>5, <1>9, SetCursorKeeps DEF SetCursor, MgmtInv
<1>10. ASSUME NEW s \in Sessions, EnumerateCredsGetNextCred(s) PROVE MgmtInv'
  BY <1>1, <1>5, <1>10, CredsNextKeeps DEF EnumerateCredsGetNextCred, MgmtInv, FetchedOK
<1>11. CASE UNCHANGED mgmtVars
  BY <1>2, <1>5, <1>11 DEF mgmtVars, MgmtInv
<1> QED
  BY <1>3, <1>4, <1>6, <1>7, <1>8, <1>9, <1>10, <1>11 DEF MgmtNext

(* A prefix, page by page.                                                 *)
LEMMA PrefixFacts ==
    ASSUME NEW p \in Pages, NEW q \in Pages, Len(p) <= Len(q), \A i \in 1..Len(p) : p[i] = q[i]
    PROVE  IsPrefix(p, q) /\ (Len(p) = Len(q) => p = q)
<1>1. Len(p) \in Nat /\ Len(q) \in Nat
  BY LenProperties DEF Pages
<1>2. SubSeq(p, 1, Len(p)) = SubSeq(q, 1, Len(p))
  <2>1. /\ SubSeq(p, 1, Len(p)) = [i \in 1..Len(p) |-> p[1 + i - 1]]
        /\ SubSeq(q, 1, Len(p)) = [i \in 1..Len(p) |-> q[1 + i - 1]]
    BY <1>1, SubSeqProperties DEF Pages
  <2> QED BY <1>1, <2>1
<1>3. Len(p) = Len(q) => p = q
  BY SeqEqual DEF Pages
<1> QED BY <1>2, <1>3 DEF IsPrefix

(* What follows the cursor is a prefix, and whole when the end was told.   *)
LEMMA ListingIsComplete ==
    ASSUME NEW l \in Histories, l.alone, NEW list \in Pages, NEW i \in Nat, i <= Len(list), Follows(l, list, i)
    PROVE  IsPrefix(l.got, l.want) /\ (l.over => l.got = l.want)
<1>1. /\ l.want = list /\ l.got \in Pages /\ Len(l.got) = i
      /\ \A j \in 1..i : l.got[j] = list[j]
      /\ l.over => i = Len(list)
  BY DEF Follows, Histories
<1> QED BY <1>1, PrefixFacts

(* The invariant is strong enough for types and for complete listings.     *)
LEMMA MgmtComplete == MgmtInv => MgmtTypeOK /\ AloneIsComplete
<1> SUFFICES ASSUME MgmtInv PROVE MgmtTypeOK /\ AloneIsComplete
  OBVIOUS
<1>1. MgmtTypeOK
  <2>1. IsCredentialMap(creds, 0)
    <3>1. ASSUME NEW rp \in RPs, NEW i \in 1..Len(creds[rp])
          PROVE  creds[rp][i].id \in Ids /\ creds[rp][i].user \in Users /\ creds[rp][i].count \in 0..0
      <4>1. creds[rp][i] \in Entry
        BY StoredEntries DEF MgmtInv, CredsOK
      <4>2. creds[rp][i].count = 0
        BY DEF MgmtInv, CredsOK
      <4> QED BY <4>1, <4>2 DEF Entry
    <3>2. DOMAIN creds = RPs
      BY DEF MgmtInv, CredsOK, StoredOK
    <3> QED BY <3>1, <3>2 DEF IsCredentialMap
  <2>2. ASSUME NEW s \in Sessions PROVE ToSet(fetched[s]) \subseteq Ids
    <3>1. fetched[s] \in Seq(Ids)
      BY DEF MgmtInv, FetchedOK
    <3> QED BY <3>1, ElementOfSeq, LenProperties DEF ToSet
  <2>3. cursor.rpIdx \in 0..Len(cursor.rpIDs) /\ cursor.credIdx \in 0..Len(cursor.creds)
    BY LenProperties DEF MgmtInv, CursorOK
  <2>4. issued \in 0..MaxIds
    BY DEF MgmtInv, CredsOK
  <2> QED BY <2>1, <2>2, <2>3, <2>4 DEF MgmtTypeOK
<1>2. AloneIsComplete
  <2>1. ASSUME NEW s \in Sessions, NEW k \in Kinds, seen[s][k].alone
        PROVE  LET l == seen[s][k] IN IsPrefix(l.got, l.want) /\ (l.over => l.got = l.want)
    <3>1. seen[s][k] \in Histories
      BY DEF MgmtInv, SeenOK, Seen
    <3>2. /\ cursor.rpIDs \in Pages /\ cursor.rpIdx \in Nat /\ cursor.rpIdx <= Len(cursor.rpIDs)
          /\ cursor.creds \in Pages /\ cursor.credIdx \in Nat /\ cursor.credIdx <= Len(cursor.creds)
      BY PageTypes DEF MgmtInv, CursorOK
    <3>3. /\ k = "rps" => Follows(seen[s][k], cursor.rpIDs, cursor.rpIdx)
          /\ k = "creds" => Follows(seen[s][k], cursor.creds, cursor.credIdx)
      BY DEF MgmtInv, SeenOK
    <3>4. CASE k = "rps"
      BY <2>1, <3>1, <3>2, <3>3, <3>4, ListingIsComplete
    <3>5. CASE k = "creds"
      BY <2>1, <3>1, <3>2, <3>3, <3>5, ListingIsComplete
    <3> QED BY <3>4, <3>5 DEF Kinds
  <2> QED BY <2>1 DEF AloneIsComplete, Kinds
<1> QED BY <1>1, <1>2
-----------------------------------------------------------------------------
(* The window.  While the user is asked about a credential, the window     *)
(* still names it or names no site at all, and then nothing is deleted.    *)
WindowInv ==
    /\ tray \in [window: [rows: SUBSET RPs, rp: RPs \cup {NoRP}, list: SUBSET Ids,
                          cred: Ids \cup {NoCred}, button: BOOLEAN],
                 dialog: {"none", "confirm", "error", "reload"},
                 asked: (RPs \cup {NoRP}) \X (Ids \cup {NoCred})]
    /\ ButtonHasARow
    /\ tray.dialog = "confirm" /\ tray.window.rp # NoRP =>
          tray.asked = <<tray.window.rp, tray.window.cred>>

TrayInv == MgmtInv /\ WindowInv

(* The window starts empty.                                                *)
LEMMA WindowInit == TrayInit => WindowInv
  BY DEF TrayInit, WindowInv, Window, ButtonHasARow

(* The sites and the credentials that are shown are in the store.          *)
LEMMA ShownTypes ==
    ASSUME CredsOK
    PROVE  Occupied \subseteq RPs /\ \A rp \in RPs : ToSet(IdsOf(creds[rp])) \subseteq Ids
<1>1. ASSUME NEW rp \in RPs PROVE ToSet(IdsOf(creds[rp])) \subseteq Ids
  <2>1. creds[rp] \in Seq(Entry)
    BY DEF CredsOK, StoredOK
  <2>2. DOMAIN creds[rp] = 1..Len(creds[rp])
    BY <2>1, LenProperties
  <2>3. \A i \in DOMAIN creds[rp] : creds[rp][i].id \in Ids
    BY <2>2, StoredEntries DEF CredsOK
  <2> QED BY <2>3 DEF ToSet, IdsOf
<1> QED BY <1>1 DEF Occupied

(* Every handler of the window keeps its invariant.                        *)
LEMMA WindowStep == TrayInv /\ [TrayNext]_trayVars => WindowInv'
<1> SUFFICES ASSUME TrayInv, [TrayNext]_trayVars PROVE WindowInv'
  OBVIOUS
<1>1. /\ WindowInv /\ Occupied \subseteq RPs
      /\ \A rp \in RPs : ToSet(IdsOf(creds[rp])) \subseteq Ids
  BY ShownTypes DEF TrayInv, MgmtInv
<1> USE DEF WindowInv, ButtonHasARow
<1>2. CASE UNCHANGED tray
  BY <1>1, <1>2
<1>3. CASE Refresh
  BY <1>1, <1>3 DEF Refresh, Show, Window
<1>4. ASSUME NEW rp \in RPs, SelectRP(rp) PROVE WindowInv'
  <2> DEFINE w == tray.window
             shown == ToSet(IdsOf(creds[rp]))
  <2>1. shown \subseteq Ids /\ tray.dialog = "none"
    BY <1>1, <1>4 DEF SelectRP, AtWindow
  <2> HIDE DEF shown
  <2>2. CASE tray' = [tray EXCEPT !.window = ListOf(rp)]
    <3>1. ListOf(rp) = [w EXCEPT !.rp = rp, !.list = shown, !.cred = NoCred, !.button = FALSE]
      BY DEF ListOf, shown
    <3>2. ListOf(rp) = [rows |-> w.rows, rp |-> rp, list |-> shown, cred |-> NoCred, button |-> FALSE]
      BY <1>1, <3>1
    <3> DEFINE v == [rows |-> w.rows, rp |-> rp, list |-> shown, cred |-> NoCred, button |-> FALSE]
    <3>3. v \in [rows: SUBSET RPs, rp: RPs \cup {NoRP}, list: SUBSET Ids,
                 cred: Ids \cup {NoCred}, button: BOOLEAN] /\ ~v.button
      BY <1>1, <2>1
    <3> HIDE DEF v
    <3>4. tray' = [tray EXCEPT !.window = v]
      BY <2>2, <3>2 DEF v
    <3> QED BY <1>1, <2>1, <3>3, <3>4
  <2>3. CASE tray' = [tray EXCEPT !.window.rp = rp, !.dialog = "error"]
    BY <1>1, <2>3
  <2> QED BY <1>4, <2>2, <2>3 DEF SelectRP, Show
<1>5. ASSUME NEW id \in Ids, SelectCred(id) PROVE WindowInv'
  BY <1>1, <1>5 DEF SelectCred, Show, AtWindow
<1>6. CASE ClickDelete
  BY <1>1, <1>6 DEF ClickDelete, AtWindow
<1>7. ASSUME NEW d \in {"none", "error", "reload"}, CloseDialog(d) PROVE WindowInv'
  BY <1>1, <1>7 DEF CloseDialog
<1>8. CASE ConfirmDelete
  BY <1>7, <1>8 DEF ConfirmDelete
<1>9. CASE Reload
  <2>1. PICK w \in {tray.window, Window(Occupied)} : tray' = [tray EXCEPT !.dialog = "none", !.window = w]
    BY <1>9 DEF Reload
  <2>2. CASE w = tray.window
    BY <1>1, <2>1, <2>2
  <2>3. CASE w = Window(Occupied)
    BY <1>1, <2>1, <2>3 DEF Window
  <2> QED BY <2>2, <2>3
<1>10. CASE Dismiss
  BY <1>7, <1>10 DEF Dismiss
<1> QED
  BY <1>2, <1>3, <1>4, <1>5, <1>6, <1>8, <1>9, <1>10 DEF TrayNext, trayVars

(* For CredMgmt the tray is one more who deletes.                          *)
LEMMA TrayStep == TrayInv /\ [TrayNext]_trayVars => MgmtInv'
<1> SUFFICES ASSUME TrayInv, [TrayNext]_trayVars PROVE MgmtInv'
  OBVIOUS
<1>1. MgmtInv /\ WindowInv
  BY DEF TrayInv
<1>2. CASE [MgmtNext]_mgmtVars
  BY <1>1, <1>2, MgmtStep
<1>3. ASSUME ConfirmDelete, ~UNCHANGED mgmtVars PROVE MgmtInv'
  <2>1. /\ Delete(tray.window.rp, tray.window.cred, TRUE) /\ tray.window.rp # NoRP
        /\ UNCHANGED <<issued, cursor, fetched, seen>>
    BY <1>3 DEF ConfirmDelete, DeleteCred
  <2>2. tray.window.rp \in RPs
    BY <1>1, <2>1 DEF WindowInv
  <2>3. CredsOK'
    BY <1>1, <2>1, <2>2, DeleteFacts DEF MgmtInv
  <2> QED BY <1>1, <2>1, <2>3 DEF MgmtInv, CursorOK, FetchedOK, SeenOK
<1> QED
  BY <1>2, <1>3 DEF TrayNext, trayVars, Refresh, SelectRP, SelectCred, ClickDelete, Reload, Dismiss

(* The invariant holds in every behaviour.                                 *)
LEMMA TrayInvariant == TraySpec => []TrayInv
<1>1. TrayInit => TrayInv
  BY MgmtInitInv, WindowInit DEF TrayInit, TrayInv
<1>2. TrayInv /\ [TrayNext]_trayVars => TrayInv'
  BY WindowStep, TrayStep DEF TrayInv
<1> QED
  BY <1>1, <1>2, PTL DEF TraySpec

(* Every variable has its type, whatever hosts, tray and user do.          *)
THEOREM TrayTypes == TraySpec => []TrayTypeOK
<1>1. TrayInv => TrayTypeOK
  BY MgmtComplete DEF TrayInv, WindowInv, TrayTypeOK
<1> QED
  BY <1>1, TrayInvariant, PTL

(* An enumeration nobody disturbs gives every entry that Begin found, once *)
(* and in order, and ends after the last (EnumerateRPs, EnumerateCreds),   *)
(* whatever is registered and deleted meanwhile.                           *)
THEOREM ListingsAreComplete == TraySpec => []AloneIsComplete
<1>1. TrayInv => AloneIsComplete
  BY MgmtComplete DEF TrayInv
<1> QED
  BY <1>1, TrayInvariant, PTL

(* The delete button is armed for a row that is shown.                     *)
THEOREM ButtonsHaveRows == TraySpec => []ButtonHasARow
<1>1. TrayInv => ButtonHasARow
  BY DEF TrayInv, WindowInv
<1> QED
  BY <1>1, TrayInvariant, PTL

(* A credential that vanished was at its position, and is nowhere now.     *)
LEMMA VanishedFacts ==
    ASSUME StoredOK, StoredOK', NEW rp \in RPs, NEW id \in Vanished(rp),
           NEW p, p = PositionOf(rp, id)
    PROVE  /\ p \in 1..Len(creds[rp]) /\ creds[rp][p].id = id
           /\ \A j \in 1..Len(creds'[rp]) : creds'[rp][j] # creds[rp][p]
           /\ creds'[rp] # creds[rp]
<1>1. /\ creds[rp] \in Seq(Entry) /\ Unique(creds[rp]) /\ creds'[rp] \in Seq(Entry)
      /\ DOMAIN creds[rp] = 1..Len(creds[rp]) /\ DOMAIN creds'[rp] = 1..Len(creds'[rp])
  BY LenProperties DEF StoredOK
<1>2. /\ \E i \in 1..Len(creds[rp]) : creds[rp][i].id = id
      /\ \A j \in 1..Len(creds'[rp]) : creds'[rp][j].id # id
  BY <1>1 DEF Vanished, IdsOf, ToSet
<1>3. p \in 1..Len(creds[rp]) /\ creds[rp][p].id = id
  BY <1>1, <1>2, PositionFacts
<1> QED
  BY <1>2, <1>3

(* Who makes it vanish: a registration of its account,                     *)
LEMMA VanishedByRegister ==
    ASSUME MgmtInv, NEW q \in RPs, NEW user \in Users, Register(q, user),
           NEW rp \in RPs, NEW id \in Vanished(rp)
    PROVE  Register(rp, creds[rp][PositionOf(rp, id)].user)
<1> DEFINE p == PositionOf(rp, id)
<1>1. /\ StoredOK /\ StoredOK'
      /\ \A o \in RPs : o # q => creds'[o] = creds[o]
      /\ \A i \in 1..Len(creds[q]) : creds[q][i].user # user =>
           \E j \in 1..Len(creds'[q]) : creds'[q][j] = creds[q][i]
  BY RegisterFacts DEF MgmtInv, CredsOK
<1>2. /\ p \in 1..Len(creds[rp])
      /\ \A j \in 1..Len(creds'[rp]) : creds'[rp][j] # creds[rp][p]
      /\ creds'[rp] # creds[rp]
  BY <1>1, VanishedFacts
<1> HIDE DEF p
<1>3. rp = q
  BY <1>1, <1>2
<1>4. creds[rp][p].user = user
  BY <1>1, <1>2, <1>3
<1> QED BY <1>3, <1>4 DEF p

(* or a deletion that names it.                                            *)
LEMMA VanishedByDelete ==
    ASSUME MgmtInv, NEW q \in RPs, NEW del, Delete(q, del, TRUE), UNCHANGED issued,
           NEW rp \in RPs, NEW id \in Vanished(rp)
    PROVE  rp = q /\ id = del
<1> DEFINE p == PositionOf(rp, id)
<1>1. /\ StoredOK /\ StoredOK'
      /\ \A o \in RPs : o # q => creds'[o] = creds[o]
      /\ \A i \in 1..Len(creds[q]) : creds[q][i].id # del =>
           \E j \in 1..Len(creds'[q]) : creds'[q][j] = creds[q][i]
  BY DeleteFacts DEF MgmtInv, CredsOK
<1>2. /\ p \in 1..Len(creds[rp]) /\ creds[rp][p].id = id
      /\ \A j \in 1..Len(creds'[rp]) : creds'[rp][j] # creds[rp][p]
      /\ creds'[rp] # creds[rp]
  BY <1>1, VanishedFacts
<1> HIDE DEF p
<1>3. rp = q
  BY <1>1, <1>2
<1> QED BY <1>1, <1>2, <1>3

(* No credential vanishes but by a registration of its own account, a      *)
(* host's deletion by its id, or the Yes of the user who was asked about   *)
(* it, though the handlers of the window nest and its calls fail.          *)
THEOREM OnlyConfirmedOnesVanish == TraySpec => OnlyConfirmedVanish
<1> DEFINE Why(rp, id) == \/ Register(rp, creds[rp][PositionOf(rp, id)].user)
                          \/ HostDelete(id) /\ UNCHANGED tray
                          \/ tray.dialog = "confirm" /\ tray.asked = <<rp, id>>
<1>1. TrayInv /\ [TrayNext]_trayVars => \A rp \in RPs : \A id \in Vanished(rp) : Why(rp, id)
  <2> SUFFICES ASSUME TrayInv, [TrayNext]_trayVars, NEW rp \in RPs, NEW id \in Vanished(rp)
               PROVE  Why(rp, id)
    OBVIOUS
  <2>1. MgmtInv /\ WindowInv
    BY DEF TrayInv
  <2>2. ASSUME NEW q \in RPs, NEW user \in Users, Register(q, user) PROVE Why(rp, id)
    BY <2>1, <2>2, VanishedByRegister
  <2>3. ASSUME NEW del \in Ids, HostDelete(del), UNCHANGED tray PROVE Why(rp, id)
    <3>1. PICK q \in RPs : Delete(q, del, TRUE) /\ UNCHANGED issued
      BY <2>3 DEF HostDelete, Occupied
    <3>2. id = del
      BY <2>1, <3>1, VanishedByDelete
    <3> QED BY <2>3, <3>2
  <2>4. ASSUME ConfirmDelete, ~UNCHANGED mgmtVars PROVE Why(rp, id)
    <3>1. /\ tray.dialog = "confirm" /\ tray.window.rp # NoRP
          /\ Delete(tray.window.rp, tray.window.cred, TRUE) /\ UNCHANGED issued
      BY <2>4 DEF ConfirmDelete, DeleteCred
    <3>2. tray.window.rp \in RPs /\ tray.asked = <<tray.window.rp, tray.window.cred>>
      BY <2>1, <3>1 DEF WindowInv
    <3>3. rp = tray.window.rp /\ id = tray.window.cred
      BY <2>1, <3>1, <3>2, VanishedByDelete
    <3> QED BY <3>1, <3>2, <3>3
  <2>5. creds' # creds
    BY DEF Vanished
  <2>6. CASE MgmtNext /\ UNCHANGED tray
    BY <2>2, <2>3, <2>5, <2>6
       DEF MgmtNext, EnumerateRPsBegin, EnumerateRPsGetNextRP, EnumerateCredsBegin,
           SetCursor, EnumerateCredsGetNextCred, residentVars
  <2>7. ~UNCHANGED mgmtVars
    BY <2>5 DEF mgmtVars, residentVars
  <2> HIDE DEF Why
  <2> QED
    BY <2>4, <2>6, <2>7 DEF TrayNext, trayVars, Refresh, SelectRP, SelectCred,
                            ClickDelete, Reload, Dismiss
<1> QED
  BY <1>1, TrayInvariant, PTL DEF TraySpec, OnlyConfirmedVanish
-----------------------------------------------------------------------------
(* Enumerations mix (the run CredMgmtMix) only when there are two hosts: a *)
(* list that one host alone put in the cursor is the one it asked for, and *)
(* it keeps the cursor to itself until it lists the relying parties again, *)
(* which empties the list.                                                 *)
LoneInv == \A s \in Sessions : cursor.creds # <<>> => seen[s]["creds"].alone

(* Pages of relying parties, and the end of a list, leave it to its host.  *)
LEMMA StaysAlone ==
    ASSUME MgmtInv, NEW s \in Sessions, NEW k \in Kinds, seen[s]["creds"].alone,
           \/ \E e : seen' = Given(s, k, e)
           \/ seen' = ToldOver(s, k)
    PROVE  seen'[s]["creds"].alone
<1> DEFINE d == Disturb(s, {k})
<1>1. seen \in Seen /\ seen[s] \in [Kinds -> Histories] /\ "creds" \in Kinds
  BY DEF MgmtInv, SeenOK, Seen, Kinds
<1>2. d \in Seen /\ d[s] = seen[s]
  BY <1>1, DisturbFacts
<1>3. ASSUME NEW D \in Seen, D[s] = seen[s], NEW h, seen' = [D EXCEPT ![s] = [D[s] EXCEPT ![k] = h]],
             h.alone = seen[s][k].alone
      PROVE  seen'[s]["creds"].alone
  BY <1>1, <1>3 DEF Seen
<1>4. CASE seen' = ToldOver(s, k)
  <2> DEFINE h == [seen[s][k] EXCEPT !.over = seen[s][k].alone]
  <2>1. seen' = [seen EXCEPT ![s] = [seen[s] EXCEPT ![k] = h]]
    BY <1>4 DEF ToldOver
  <2>2. h.alone = seen[s][k].alone
    BY <1>1 DEF Histories
  <2> HIDE DEF h
  <2> QED BY <1>1, <1>3, <2>1, <2>2
<1>5. ASSUME NEW e, seen' = Given(s, k, e) PROVE seen'[s]["creds"].alone
  <2>1. CASE seen[s][k].alone
    <3> DEFINE h == [seen[s][k] EXCEPT !.got = Append(@, e)]
    <3>1. seen' = [d EXCEPT ![s] = [d[s] EXCEPT ![k] = [d[s][k] EXCEPT !.got = Append(@, e)]]]
      BY <1>5, <2>1 DEF Given
    <3> HIDE DEF d
    <3>2. seen' = [d EXCEPT ![s] = [d[s] EXCEPT ![k] = h]]
      BY <1>2, <3>1
    <3>3. h.alone = seen[s][k].alone
      BY <1>1 DEF Histories
    <3> HIDE DEF h
    <3> QED BY <1>2, <1>3, <3>2, <3>3
  <2>2. CASE ~seen[s][k].alone
    BY <1>2, <1>5, <2>2 DEF Given
  <2> QED BY <2>1, <2>2
<1> QED BY <1>4, <1>5

(* The steps of a lone host, and those that have nothing to do with it.    *)
LEMMA LoneStep ==
    ASSUME \A s, t \in Sessions : s = t
    PROVE  MgmtInv /\ LoneInv /\ [MgmtNext]_mgmtVars => LoneInv'
<1> SUFFICES ASSUME MgmtInv, LoneInv, [MgmtNext]_mgmtVars, NEW t \in Sessions,
                    cursor'.creds # <<>>
             PROVE  seen'[t]["creds"].alone
  BY DEF LoneInv
<1>0. seen \in Seen /\ "creds" \in Kinds /\ "rps" \in Kinds /\ CursorOK
  BY DEF MgmtInv, SeenOK, Kinds
<1>1. CASE UNCHANGED <<cursor, seen>>
  BY <1>1 DEF LoneInv
<1>2. CASE EnumerateRPsBegin(t)
  <2>1. PICK list : cursor' = CursorAtRPs(list)
    BY <1>2 DEF EnumerateRPsBegin
  <2>2. cursor'.creds = <<>>
    BY <1>0, <2>1, NewCursors
  <2> QED BY <2>2
<1>3. CASE EnumerateRPsGetNextRP(t) \/ EnumerateCredsGetNextCred(t)
  <2>1. cursor'.creds = cursor.creds
    BY <1>0, <1>3 DEF EnumerateRPsGetNextRP, EnumerateCredsGetNextCred, CursorOK
  <2>2. seen[t]["creds"].alone
    BY <2>1 DEF LoneInv
  <2>3. \E k \in Kinds : (\E e : seen' = Given(t, k, e)) \/ seen' = ToldOver(t, k)
    BY <1>0, <1>3 DEF EnumerateRPsGetNextRP, EnumerateCredsGetNextCred
  <2> QED BY <2>2, <2>3, StaysAlone
<1>4. CASE SetCursor(t)
  <2> DEFINE d == Disturb(t, {"creds"})
  <2>1. d \in Seen
    BY <1>0, DisturbFacts
  <2>2. seen' = [d EXCEPT ![t].creds = Listing(fetched[t])]
    BY <1>4 DEF SetCursor
  <2> HIDE DEF d
  <2>3. seen'[t]["creds"] = Listing(fetched[t])
    BY <1>0, <2>1, <2>2 DEF Seen
  <2> QED BY <2>3 DEF Listing
<1> QED
  BY <1>1, <1>2, <1>3, <1>4 DEF MgmtNext, mgmtVars, Register, HostDelete, EnumerateCredsBegin

(* With one host to manage credentials, whatever it is given as the next   *)
(* credential is of the relying party it asked for, though registrations   *)
(* and deletions go on and the host abandons enumerations as it likes.     *)
THEOREM LoneEnumerationsDoNotMix ==
    ASSUME \A s, t \in Sessions : s = t
    PROVE  MgmtSpec => EnumerationsDoNotMix
<1> DEFINE Own == \A s \in Sessions : EnumerateCredsGetNextCred(s) /\ cursor' # cursor =>
                    cursor.creds[cursor.credIdx + 1] \in ToSet(seen[s].creds.want)
<1>1. MgmtInit => LoneInv
  BY DEF MgmtInit, LoneInv, StartCursor
<1>2. MgmtInv /\ LoneInv => Own
  <2> SUFFICES ASSUME MgmtInv, LoneInv, NEW s \in Sessions,
                      EnumerateCredsGetNextCred(s), cursor' # cursor
               PROVE  cursor.creds[cursor.credIdx + 1] \in ToSet(seen[s].creds.want)
    OBVIOUS
  <2>1. /\ cursor.creds \in Seq(Ids) /\ Len(cursor.creds) \in Nat /\ cursor.credIdx \in Nat
        /\ DOMAIN cursor.creds = 1..Len(cursor.creds)
    BY LenProperties DEF MgmtInv, CursorOK
  <2>2. cursor.credIdx < Len(cursor.creds)
    BY <2>1 DEF EnumerateCredsGetNextCred
  <2>3. cursor.creds # <<>> /\ cursor.credIdx + 1 \in 1..Len(cursor.creds)
    BY <2>1, <2>2, EmptySeq
  <2>4. seen[s]["creds"].want = cursor.creds
    BY <2>3 DEF LoneInv, MgmtInv, SeenOK, Follows
  <2> QED BY <2>1, <2>3, <2>4 DEF ToSet
<1> QED
  BY <1>1, <1>2, MgmtInitInv, MgmtStep, LoneStep, PTL DEF MgmtSpec, EnumerationsDoNotMix
=============================================================================
