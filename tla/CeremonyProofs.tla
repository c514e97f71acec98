--------------------------- MODULE CeremonyProofs ---------------------------
(***************************************************************************)
(* Theorems about Ceremony, for any number of clients, relying parties,    *)
(* users, key handles and seconds: the store keeps one credential per      *)
(* account, acknowledged registrations and every count that was handed     *)
(* out, and the counts handed out by one counter grow.  Across counters    *)
(* they grow as long as no count of a credential's own follows one of the  *)
(* device's (NoWayBack).                                                   *)
(***************************************************************************)
EXTENDS Ceremony, ResidentStoreProofs

(* What is stored under rp was created for rp.                             *)
MapOK(m, h) ==
    /\ m \in [RPs -> Seq(Entry)]
    /\ \A rp \in RPs : Unique(m[rp])
    /\ \A rp \in RPs : \A i \in 1..Len(m[rp]) :
        m[rp][i].id \in 1..Len(h) /\ h[m[rp][i].id] = rp
-----------------------------------------------------------------------------
(* The invariant: what the calls carry, what is stored, and what the       *)
(* history remembers of both.                                              *)
StoreOK ==
    /\ MapOK(creds, home) /\ MapOK(file, home)
    /\ home \in Seq(RPs) /\ Len(home) <= MaxIds

MakeCalls ==
    [op: {"make"}, at: {"ask", "act"}, rp: RPs, user: Users, rk: BOOLEAN]
AssertCalls ==
    [op: {"assert"}, at: {"ask", "act"}, rp: RPs, id: Ids, flow: Flows]

CallsOK == call \in [Clients -> {Idle} \cup MakeCalls \cup AssertCalls]

(* No count was drawn that is not behind the device counter, or for a      *)
(* credential that does not exist yet.                                     *)
DrawnOK ==
    /\ lastCounter \in Nat
    /\ drawn \in [Ids -> [resident: Nat, device: Nat]]
    /\ \A id \in Ids :
        /\ drawn[id].device <= lastCounter
        /\ id > Len(home) => drawn[id].resident = 0

(* What one map remembers of the history: n assertions, the registrations  *)
(* in K acknowledged, the counts d drawn.                                  *)
MapInv(m, h, n, K, d) ==
    /\ MapOK(m, h)
    /\ \A rp \in RPs : \A i \in 1..Len(m[rp]) :
        /\ m[rp][i].count <= n
        /\ d[m[rp][i].id].resident <= m[rp][i].count
    /\ \A id \in K : \E rp \in RPs : \E i \in 1..Len(m[rp]) : m[rp][i].id = id

Owed == acked \ excused

MapsInv ==
    /\ home \in Seq(RPs) /\ Len(home) <= MaxIds
    /\ MapInv(creds, home, signs, Owed, drawn)
    /\ MapInv(file, home, signs, Owed, drawn)

RestOK ==
    /\ fresh \in BOOLEAN
    /\ clock \in Epoch..MaxClock
    /\ signs \in 0..MaxSigns
    /\ acked \subseteq Created /\ excused \subseteq Created

CeremonyInv == MapsInv /\ CallsOK /\ DrawnOK /\ RestOK
-----------------------------------------------------------------------------
(* What the three operations that change the store do to it.  Put: the new *)
(* credential is there, and those of the other users.                      *)
LEMMA PutStep ==
    ASSUME StoreOK, NEW rp \in RPs, NEW user \in Users, NEW ok \in BOOLEAN,
           Len(home) + 1 \in Ids,
           NEW c, c = Credential(Len(home) + 1, user),
           Put(rp, c, ok)
    PROVE  /\ file' = IF ok THEN creds' ELSE file
           /\ c \in Entry
           /\ creds' \in [RPs -> Seq(Entry)]
           /\ \A q \in RPs : Unique(creds'[q]) /\ (q # rp => creds'[q] = creds[q])
           /\ \A j \in 1..Len(creds'[rp]) :
                creds'[rp][j] = c \/ \E i \in 1..Len(creds[rp]) : creds'[rp][j] = creds[rp][i]
           /\ \E j \in 1..Len(creds'[rp]) : creds'[rp][j] = c
           /\ \A i \in 1..Len(creds[rp]) : creds[rp][i].user # user =>
                \E j \in 1..Len(creds'[rp]) : creds'[rp][j] = creds[rp][i]
<1>1. StoredOK
  BY DEF StoreOK, MapOK, StoredOK
<1>2. c \in Entry /\ c.user = user /\ c.id = Len(home) + 1
  BY DEF Credential, Entry
<1>3. \A i \in 1..Len(creds[rp]) : creds[rp][i].id # c.id
  <2>1. Len(home) \in Nat
    BY LenProperties DEF StoreOK
  <2> QED BY <1>2, <2>1 DEF StoreOK, MapOK
<1>4. /\ file' = IF ok THEN creds' ELSE file
      /\ StoredOK'
      /\ \A q \in RPs : q # rp => creds'[q] = creds[q]
      /\ \A j \in 1..Len(creds'[rp]) :
           creds'[rp][j] = c \/ \E i \in 1..Len(creds[rp]) : creds'[rp][j] = creds[rp][i]
      /\ \E j \in 1..Len(creds'[rp]) : creds'[rp][j] = c
      /\ \A i \in 1..Len(creds[rp]) : creds[rp][i].user # c.user =>
           \E j \in 1..Len(creds'[rp]) : creds'[rp][j] = creds[rp][i]
  <2>1. c \in Entry
    BY <1>2
  <2> QED BY <1>1, <1>3, <2>1, PutStored, ZenonT(30)
<1> QED
  BY <1>2, <1>4 DEF StoredOK

(* Delete: of this relying party's credentials only this one goes.         *)
LEMMA DeleteStep ==
    ASSUME StoreOK, NEW rp \in RPs, NEW id \in Ids, NEW ok \in BOOLEAN, Delete(rp, id, ok)
    PROVE  /\ file' = IF ok THEN creds' ELSE file
           /\ creds' \in [RPs -> Seq(Entry)]
           /\ id \in Created
           /\ \A q \in RPs : Unique(creds'[q]) /\ (q # rp => creds'[q] = creds[q])
           /\ \A j \in 1..Len(creds'[rp]) :
                \E i \in 1..Len(creds[rp]) : creds'[rp][j] = creds[rp][i]
           /\ \A i \in 1..Len(creds[rp]) : creds[rp][i].id # id =>
                \E j \in 1..Len(creds'[rp]) : creds'[rp][j] = creds[rp][i]
<1>1. StoredOK
  BY DEF StoreOK, MapOK, StoredOK
<1>2. PICK i \in 1..Len(creds[rp]) : creds[rp][i].id = id
  BY <1>1, DeleteStored
<1>3. id \in Created
  <2>1. creds[rp][i].id \in 1..Len(home) /\ home \in Seq(RPs)
    BY DEF StoreOK, MapOK
  <2> QED BY <1>2, <2>1 DEF Created
<1> QED
  BY <1>1, <1>3, DeleteStored DEF StoredOK

(* Of the credentials in memory only this one's count grew.                *)
OneCounts(rp, id, p) ==
    /\ p \in 1..Len(creds[rp]) /\ creds[rp][p].id = id
    /\ creds' \in [RPs -> Seq(Entry)]
    /\ \A q \in RPs : /\ Unique(creds'[q]) /\ Len(creds'[q]) = Len(creds[q])
                      /\ q # rp => creds'[q] = creds[q]
    /\ \A i \in 1..Len(creds[rp]) :
         /\ creds'[rp][i].id = creds[rp][i].id
         /\ creds'[rp][i].count = IF i = p THEN creds[rp][i].count + 1
                                  ELSE creds[rp][i].count

(* IncrementSignCount: one count grows by one, nothing moves.              *)
LEMMA CountStep ==
    ASSUME StoreOK, NEW rp \in RPs, NEW id \in Ids, NEW ok \in BOOLEAN,
           NEW p, p = PositionOf(rp, id), p # 0, Increment(rp, p, ok)
    PROVE  /\ file' = IF ok THEN creds' ELSE file
           /\ OneCounts(rp, id, p)
<1> DEFINE l == creds[rp]
           k == Counted(l, p)
<1>1. l \in Seq(Entry) /\ Unique(l) /\ creds \in [RPs -> Seq(Entry)]
  BY DEF StoreOK, MapOK
<1>2. p \in 1..Len(l) /\ l[p].id = id
  BY <1>1, PositionFacts
<1>3. /\ creds' = [creds EXCEPT ![rp] = k]
      /\ file' = IF ok THEN creds' ELSE file
  BY <1>1 DEF Increment, SaveCreds, Counted
<1> HIDE DEF l
<1>4. /\ k \in Seq(Entry) /\ Unique(k) /\ Len(k) = Len(l)
      /\ \A i \in 1..Len(l) :
           /\ k[i].id = l[i].id /\ k[i].user = l[i].user
           /\ k[i].count = IF i = p THEN l[i].count + 1 ELSE l[i].count
  <2> HIDE DEF k
  <2>1. k = Counted(l, p)
    BY DEF k
  <2> QED BY <1>1, <1>2, <2>1, IncrementList
<1> HIDE DEF k
<1>5. creds'[rp] = k /\ creds' \in [RPs -> Seq(Entry)]
      /\ \A q \in RPs : q # rp => creds'[q] = creds[q]
  BY <1>1, <1>3, <1>4
<1>6. \A q \in RPs : Unique(creds'[q]) /\ Len(creds'[q]) = Len(creds[q])
  BY <1>4, <1>5 DEF StoreOK, MapOK, l
<1> QED
  BY <1>2, <1>3, <1>4, <1>5, <1>6 DEF l, OneCounts
-----------------------------------------------------------------------------
(* A map that does not change keeps its part of the invariant while the    *)
(* history goes on: new handles, more assertions, fewer registrations to   *)
(* answer for, and resident counts that stay.                              *)
LEMMA MapStays ==
    ASSUME NEW m, NEW h \in Seq(RPs), NEW n \in Nat, NEW K, NEW d, MapInv(m, h, n, K, d),
           NEW g \in Seq(RPs), Len(h) <= Len(g), \A id \in 1..Len(h) : g[id] = h[id],
           NEW o \in Nat, n <= o,
           NEW L \in SUBSET K,
           NEW e, \A id \in Ids : e[id].resident = d[id].resident
    PROVE  MapInv(m, g, o, L, e)
<1>1. ASSUME NEW rp \in RPs, NEW i \in 1..Len(m[rp])
      PROVE  m[rp][i] \in Entry /\ m[rp][i].id \in Ids /\ m[rp][i].count \in Nat
  <2>1. m[rp] \in Seq(Entry)
    BY DEF MapInv, MapOK
  <2>2. m[rp][i] \in Entry
    BY <2>1, ElementOfSeq
  <2> QED BY <2>2 DEF Entry
<1>2. Len(h) \in Nat /\ Len(g) \in Nat
  BY LenProperties
<1>3. MapOK(m, g)
  BY <1>2, SMTT(20) DEF MapInv, MapOK
<1>4. \A rp \in RPs : \A i \in 1..Len(m[rp]) :
        m[rp][i].count <= o /\ e[m[rp][i].id].resident <= m[rp][i].count
  BY <1>1 DEF MapInv
<1> QED
  BY <1>3, <1>4 DEF MapInv

(* What a map holds.                                                       *)
LEMMA MapFacts ==
    ASSUME NEW m, NEW h, NEW n, NEW K, NEW d, MapInv(m, h, n, K, d)
    PROVE  /\ m \in [RPs -> Seq(Entry)]
           /\ \A rp \in RPs : Len(m[rp]) \in Nat /\ Unique(m[rp])
           /\ \A rp \in RPs : \A i \in 1..Len(m[rp]) :
                /\ m[rp][i] \in Entry
                /\ m[rp][i].id \in Ids /\ m[rp][i].user \in Users /\ m[rp][i].count \in Nat
                /\ m[rp][i].id \in 1..Len(h) /\ h[m[rp][i].id] = rp
                /\ m[rp][i].count <= n
                /\ d[m[rp][i].id].resident <= m[rp][i].count
<1>1. m \in [RPs -> Seq(Entry)]
  BY DEF MapInv, MapOK
<1>2. ASSUME NEW rp \in RPs PROVE Len(m[rp]) \in Nat /\ Unique(m[rp])
  BY <1>1, LenProperties DEF MapInv, MapOK
<1>3. ASSUME NEW rp \in RPs, NEW i \in 1..Len(m[rp]) PROVE m[rp][i] \in Entry
  BY <1>1, ElementOfSeq
<1>4. ASSUME NEW rp \in RPs, NEW i \in 1..Len(m[rp])
      PROVE  m[rp][i].id \in Ids /\ m[rp][i].user \in Users /\ m[rp][i].count \in Nat
  BY <1>3 DEF Entry
<1> QED
  BY <1>1, <1>2, <1>3, <1>4 DEF MapInv, MapOK

(* A new registration: memory holds it, and those of the other users.      *)
LEMMA PutKeeps ==
    ASSUME StoreOK, MapInv(creds, home, signs, Owed, drawn), DrawnOK, signs \in Nat,
           NEW rp \in RPs, NEW user \in Users, NEW ok \in BOOLEAN,
           Len(home) + 1 \in Ids,
           Put(rp, Credential(Len(home) + 1, user), ok),
           home' = Append(home, rp), UNCHANGED <<signs, drawn>>,
           acked' \subseteq acked \cup {Len(home) + 1},
           excused' = excused \cup Rivals(rp, user)
    PROVE  MapInv(creds', home', signs', Owed', drawn')
<1> DEFINE c == Credential(Len(home) + 1, user)
<1>0. Put(rp, c, ok) /\ c = Credential(Len(home) + 1, user)
  OBVIOUS
<1>2. c.id = Len(home) + 1 /\ c.count = 0
  BY DEF Credential
<1> HIDE DEF c
<1>1. /\ c \in Entry
      /\ creds' \in [RPs -> Seq(Entry)]
      /\ \A q \in RPs : Unique(creds'[q]) /\ (q # rp => creds'[q] = creds[q])
      /\ \A j \in 1..Len(creds'[rp]) :
           creds'[rp][j] = c \/ \E i \in 1..Len(creds[rp]) : creds'[rp][j] = creds[rp][i]
      /\ \E j \in 1..Len(creds'[rp]) : creds'[rp][j] = c
      /\ \A i \in 1..Len(creds[rp]) : creds[rp][i].user # user =>
           \E j \in 1..Len(creds'[rp]) : creds'[rp][j] = creds[rp][i]
  BY <1>0, PutStep
<1>3. /\ Len(home) \in Nat /\ home' \in Seq(RPs) /\ Len(home') = Len(home) + 1
      /\ \A i \in 1..Len(home) : home'[i] = home[i]
      /\ home'[Len(home) + 1] = rp
  <2>1. home \in Seq(RPs)
    BY DEF StoreOK
  <2> QED BY <2>1, AppendProperties, LenProperties
<1>4. drawn[c.id].resident = 0
  BY <1>2, <1>3 DEF DrawnOK
<1>5. ASSUME NEW q \in RPs, NEW j \in 1..Len(creds'[q])
      PROVE  /\ creds'[q][j].id \in 1..Len(home') /\ home'[creds'[q][j].id] = q
             /\ creds'[q][j].count <= signs
             /\ drawn[creds'[q][j].id].resident <= creds'[q][j].count
  <2>1. CASE q = rp /\ creds'[q][j] = c
    BY <1>2, <1>3, <1>4, <2>1
  <2>2. ASSUME NEW i \in 1..Len(creds[q]), creds'[q][j] = creds[q][i]
        PROVE  /\ creds'[q][j].id \in 1..Len(home') /\ home'[creds'[q][j].id] = q
               /\ creds'[q][j].count <= signs
               /\ drawn[creds'[q][j].id].resident <= creds'[q][j].count
    <3>1. /\ creds[q][i].id \in 1..Len(home) /\ home[creds[q][i].id] = q
          /\ creds[q][i].count <= signs
          /\ drawn[creds[q][i].id].resident <= creds[q][i].count
      BY DEF MapInv, MapOK
    <3> QED BY <1>3, <2>2, <3>1
  <2>3. CASE q # rp
    <3>1. creds'[q] = creds[q]
      BY <1>1, <2>3
    <3> QED BY <2>2, <3>1
  <2> QED BY <1>1, <2>1, <2>2, <2>3
<1>6. ASSUME NEW id \in Owed'
      PROVE  \E q \in RPs : \E j \in 1..Len(creds'[q]) : creds'[q][j].id = id
  <2>1. CASE id = Len(home) + 1
    BY <1>1, <1>2, <2>1
  <2>2. CASE id \in Owed /\ id \notin Rivals(rp, user)
    <3>0. PICK q \in RPs : \E i \in 1..Len(creds[q]) : creds[q][i].id = id
      BY <2>2 DEF MapInv
    <3>1. PICK i \in 1..Len(creds[q]) : creds[q][i].id = id
      BY <3>0
    <3>2. CASE q # rp
      BY <1>1, <3>1, <3>2
    <3>3. CASE q = rp
      BY <1>1, <2>2, <3>1, <3>3 DEF Rivals
    <3> QED BY <3>2, <3>3
  <2> QED BY <2>1, <2>2 DEF Owed
<1>7. MapOK(creds', home')
  BY <1>1, <1>5 DEF MapOK
<1> QED
  BY <1>5, <1>6, <1>7 DEF MapInv

(* A deletion: memory holds the others.                                    *)
LEMMA DeleteKeeps ==
    ASSUME StoreOK, MapInv(creds, home, signs, Owed, drawn), signs \in Nat,
           NEW rp \in RPs, NEW id \in Ids, NEW ok \in BOOLEAN,
           Delete(rp, id, ok),
           UNCHANGED <<home, signs, drawn, acked>>,
           excused' = excused \cup {id}
    PROVE  MapInv(creds', home', signs', Owed', drawn')
<1>1. /\ creds' \in [RPs -> Seq(Entry)]
      /\ \A q \in RPs : Unique(creds'[q]) /\ (q # rp => creds'[q] = creds[q])
      /\ \A j \in 1..Len(creds'[rp]) :
           \E i \in 1..Len(creds[rp]) : creds'[rp][j] = creds[rp][i]
      /\ \A i \in 1..Len(creds[rp]) : creds[rp][i].id # id =>
           \E j \in 1..Len(creds'[rp]) : creds'[rp][j] = creds[rp][i]
  BY DeleteStep
<1>2. ASSUME NEW q \in RPs, NEW j \in 1..Len(creds'[q])
      PROVE  /\ creds'[q][j].id \in 1..Len(home) /\ home[creds'[q][j].id] = q
             /\ creds'[q][j].count <= signs
             /\ drawn[creds'[q][j].id].resident <= creds'[q][j].count
  <2>1. PICK i \in 1..Len(creds[q]) : creds'[q][j] = creds[q][i]
    BY <1>1, SMTT(20)
  <2> QED BY <2>1 DEF MapInv, MapOK
<1>3. ASSUME NEW other \in Owed'
      PROVE  \E q \in RPs : \E j \in 1..Len(creds'[q]) : creds'[q][j].id = other
  <2>1. other \in Owed /\ other # id
    BY DEF Owed
  <2>2. PICK q \in RPs : \E i \in 1..Len(creds[q]) : creds[q][i].id = other
    BY <2>1 DEF MapInv
  <2>3. \E j \in 1..Len(creds'[q]) : creds'[q][j].id = other
    BY <1>1, <2>1, <2>2
  <2> QED BY <2>3
<1>4. MapOK(creds', home')
  BY <1>1, <1>2 DEF MapOK
<1> QED
  BY <1>2, <1>3, <1>4 DEF MapInv

(* An assertion of a resident credential: when the count it drew is        *)
(* written to memory, or memory has counted and the count is not used,     *)
(* memory is not behind what was drawn.                                    *)
LEMMA CountKeeps ==
    ASSUME StoreOK, MapInv(creds, home, signs, Owed, drawn), DrawnOK, signs \in Nat,
           NEW rp \in RPs, NEW id \in Ids, NEW ok \in BOOLEAN,
           NEW p, p = PositionOf(rp, id), p # 0, Increment(rp, p, ok),
           UNCHANGED <<home, acked, excused>>, signs' = signs + 1,
           \A k \in Ids : k # id => drawn'[k].resident = drawn[k].resident,
           drawn'[id].resident \in {drawn[id].resident, creds[rp][p].count + 1}
    PROVE  MapInv(creds', home', signs', Owed', drawn')
<1>1. /\ p \in 1..Len(creds[rp]) /\ creds[rp][p].id = id
      /\ creds' \in [RPs -> Seq(Entry)]
      /\ \A q \in RPs : /\ Unique(creds'[q]) /\ Len(creds'[q]) = Len(creds[q])
                        /\ q # rp => creds'[q] = creds[q]
      /\ \A i \in 1..Len(creds[rp]) :
           /\ creds'[rp][i].id = creds[rp][i].id
           /\ creds'[rp][i].count = IF i = p THEN creds[rp][i].count + 1
                                    ELSE creds[rp][i].count
  <2>1. OneCounts(rp, id, p)
    BY CountStep
  <2> QED BY <2>1 DEF OneCounts
<1>2. ASSUME NEW q \in RPs, NEW i \in 1..Len(creds[q])
      PROVE  /\ creds[q][i].id \in Ids /\ creds[q][i].count \in Nat
             /\ creds[q][i].id \in 1..Len(home) /\ home[creds[q][i].id] = q
             /\ creds[q][i].count <= signs
             /\ drawn[creds[q][i].id].resident <= creds[q][i].count
             /\ drawn[creds[q][i].id].resident \in Nat
  <2>1. creds[q] \in Seq(Entry) /\ creds[q][i] \in Entry
    BY ElementOfSeq DEF MapInv, MapOK
  <2>2. creds[q][i].id \in Ids /\ creds[q][i].count \in Nat
    BY <2>1 DEF Entry
  <2>3. drawn[creds[q][i].id].resident \in Nat
    BY <2>2 DEF DrawnOK
  <2> QED BY <2>2, <2>3 DEF MapInv, MapOK
<1>3. ASSUME NEW q \in RPs, NEW i \in 1..Len(creds'[q])
      PROVE  /\ creds'[q][i].id \in 1..Len(home) /\ home[creds'[q][i].id] = q
             /\ creds'[q][i].count <= signs + 1
             /\ drawn'[creds'[q][i].id].resident <= creds'[q][i].count
  <2>1. i \in 1..Len(creds[q])
    BY <1>1
  <2> DEFINE e == creds[q][i]
  <2>2. /\ e.id \in Ids /\ e.count \in Nat /\ e.count <= signs
        /\ e.id \in 1..Len(home) /\ home[e.id] = q
        /\ drawn[e.id].resident <= e.count /\ drawn[e.id].resident \in Nat
    BY <1>2, <2>1
  <2>3. CASE q = rp /\ i = p
    <3>1. e.id = id /\ creds'[q][i].id = e.id /\ creds'[q][i].count = e.count + 1
      BY <1>1, <2>3
    <3>2. drawn'[id].resident \in {drawn[e.id].resident, e.count + 1}
      BY <2>3, <3>1
    <3> HIDE DEF e
    <3> QED BY <2>2, <3>1, <3>2, SMTT(20)
  <2>4. CASE ~(q = rp /\ i = p)
    <3>1. creds'[q][i].id = e.id /\ creds'[q][i].count = e.count
      BY <1>1, <2>1, <2>4
    <3>2. e.id # id
      <4>1. CASE q # rp
        BY <1>1, <1>2, <2>2, <4>1
      <4>2. CASE q = rp /\ i # p
        BY <1>1, <2>1, <4>2 DEF MapInv, MapOK, Unique
      <4> QED BY <2>4, <4>1, <4>2
    <3>3. drawn'[e.id].resident = drawn[e.id].resident
      BY <2>2, <3>2
    <3> HIDE DEF e
    <3> QED BY <2>2, <3>1, <3>3
  <2> QED BY <2>3, <2>4
<1>4. ASSUME NEW other \in Owed'
      PROVE  \E q \in RPs : \E j \in 1..Len(creds'[q]) : creds'[q][j].id = other
  <2>1. other \in Owed
    BY DEF Owed
  <2>2. PICK q \in RPs : \E i \in 1..Len(creds[q]) : creds[q][i].id = other
    BY <2>1 DEF MapInv
  <2>3. \E j \in 1..Len(creds'[q]) : creds'[q][j].id = other
    BY <1>1, <2>2
  <2> QED BY <2>3
<1>5. MapOK(creds', home')
  BY <1>1, <1>3 DEF MapOK
<1> QED
  BY <1>3, <1>4, <1>5 DEF MapInv
-----------------------------------------------------------------------------
(* What the invariant says of sizes and of the store.                      *)
LEMMA InvFacts ==
    ASSUME CeremonyInv
    PROVE  /\ StoreOK /\ signs \in Nat /\ Len(home) \in Nat /\ Len(home) <= MaxIds
           /\ home \in Seq(RPs) /\ Created = 1..Len(home) /\ Created \subseteq Ids
           /\ clock \in Nat
<1>1. home \in Seq(RPs) /\ Len(home) <= MaxIds
  BY DEF CeremonyInv, MapsInv
<1>2. Len(home) \in Nat /\ Created = 1..Len(home)
  BY <1>1, LenProperties DEF Created
<1>3. StoreOK
  BY <1>1 DEF CeremonyInv, MapsInv, MapInv, StoreOK
<1>4. signs \in Nat /\ clock \in Nat
  BY CeremonyAssumption DEF CeremonyInv, RestOK
<1> QED
  BY <1>1, <1>2, <1>3, <1>4, ResidentAssumption DEF Ids

(* The empty store obeys the invariant.                                    *)
LEMMA InitInv == CeremonyInit => CeremonyInv
<1> SUFFICES ASSUME CeremonyInit PROVE CeremonyInv
  OBVIOUS
<1> USE DEF CeremonyInit, ResidentInit
<1>1. home = <<>> /\ home \in Seq(RPs) /\ Len(home) = 0
  BY EmptySeq
<1>2. MapInv(creds, home, signs, Owed, drawn)
  <2>1. /\ creds \in [RPs -> Seq(Entry)]
        /\ \A rp \in RPs : creds[rp] = <<>> /\ Len(creds[rp]) = 0
    BY EmptySeq
  <2> QED BY <2>1 DEF MapInv, MapOK, Unique, Owed
<1>3. MapInv(file, home, signs, Owed, drawn)
  BY <1>2
<1>4. CallsOK
  BY DEF CallsOK
<1>5. DrawnOK
  BY DEF DrawnOK, NothingDrawn
<1>6. RestOK
  <2>1. fresh \in BOOLEAN
    BY Zenon
  <2>2. clock \in Epoch..MaxClock /\ signs \in 0..MaxSigns
    BY CeremonyAssumption
  <2> QED BY <2>1, <2>2, Zenon DEF RestOK
<1> QED
  BY <1>1, <1>2, <1>3, <1>4, <1>5, <1>6, ResidentAssumption DEF CeremonyInv, MapsInv

(* What a request carries when it begins.                                  *)
LEMMA RequestType ==
    ASSUME CeremonyInv, NEW rp \in RPs, NEW r \in Requests(rp)
    PROVE  r \in MakeCalls \cup AssertCalls /\ [r EXCEPT !.at = "act"] \in MakeCalls \cup AssertCalls
<1>1. CASE \E u \in Users, rk \in BOOLEAN : r = MakeRequest(rp, u, rk)
  BY <1>1 DEF MakeRequest, MakeCalls
<1>2. ASSUME NEW id \in Ids, NEW flow \in Flows, r = AssertRequest(rp, id, flow)
      PROVE  r \in AssertCalls /\ [r EXCEPT !.at = "act"] \in AssertCalls
  BY <1>2 DEF AssertRequest, AssertCalls
<1>3. CASE r \in AllowListed(rp)
  BY <1>2, <1>3, InvFacts DEF AllowListed, Flows
<1>4. CASE r \in Discoverable(rp)
  <2> DEFINE l == creds[rp]
  <2>1. l # <<>> /\ r = AssertRequest(rp, l[Len(l)].id, "resident")
    BY <1>4 DEF Discoverable
  <2>2. l \in Seq(Entry)
    BY DEF CeremonyInv, MapsInv, MapInv, MapOK
  <2>3. l[Len(l)].id \in Ids
    <3> HIDE DEF l
    <3>1. Len(l) \in 1..Len(l)
      BY <2>1, <2>2, EmptySeq, LenProperties
    <3>2. l[Len(l)] \in Entry
      BY <2>2, <3>1, ElementOfSeq
    <3> QED BY <3>2 DEF Entry
  <2> QED BY <1>2, <2>1, <2>3 DEF Flows
<1> QED
  BY <1>1, <1>3, <1>4 DEF Requests

(* A step that leaves the store, the handles and the counts alone.         *)
LEMMA QuietStep ==
    ASSUME CeremonyInv, CallsOK', fresh' \in BOOLEAN, clock' \in Epoch..MaxClock,
           UNCHANGED <<residentVars, home, lastCounter, signs, drawn, acked, excused>>
    PROVE  CeremonyInv'
<1>1. /\ creds' = creds /\ file' = file /\ home' = home /\ signs' = signs
      /\ drawn' = drawn /\ acked' = acked /\ excused' = excused /\ lastCounter' = lastCounter
  BY DEF residentVars
<1>2. Owed' = Owed /\ Created' = Created
  BY <1>1 DEF Owed, Created
<1>3. MapsInv'
  BY <1>1, <1>2 DEF CeremonyInv, MapsInv
<1>4. DrawnOK'
  BY <1>1 DEF CeremonyInv, DrawnOK
<1>5. RestOK'
  BY <1>1, <1>2 DEF CeremonyInv, RestOK
<1> QED
  BY <1>3, <1>4, <1>5 DEF CeremonyInv

(* Asking for presence and being refused change only what is in progress.  *)
LEMMA AskSteps ==
    ASSUME CeremonyInv, NEW c \in Clients,
           Begin(c) \/ Presence(c) \/ MakeCredentialFails(c)
    PROVE  CeremonyInv'
<1>1. CallsOK
  BY DEF CeremonyInv
<1>2. fresh \in BOOLEAN /\ clock \in Epoch..MaxClock
  BY DEF CeremonyInv, RestOK
<1>3. CASE Begin(c)
  <2>1. PICK rp \in RPs : \E r \in Requests(rp) :
          /\ fresh' = TRUE \/ UNCHANGED fresh
          /\ \/ call' = [call EXCEPT ![c] = [r EXCEPT !.at = "act"]]
             \/ call' = [call EXCEPT ![c] = r]
    BY <1>3, Zenon DEF Begin
  <2>2. PICK r \in Requests(rp) :
          /\ fresh' = TRUE \/ UNCHANGED fresh
          /\ \/ call' = [call EXCEPT ![c] = [r EXCEPT !.at = "act"]]
             \/ call' = [call EXCEPT ![c] = r]
    BY <2>1, Zenon
  <2>3. PICK s \in MakeCalls \cup AssertCalls : call' = [call EXCEPT ![c] = s]
    BY <2>2, RequestType, Zenon
  <2>4. CallsOK'
    BY <1>1, <2>3 DEF CallsOK
  <2>5. fresh' \in BOOLEAN /\ clock' \in Epoch..MaxClock
    BY <1>2, <1>3, <2>2, Zenon DEF Begin
  <2> QED BY <1>3, <2>4, <2>5, QuietStep DEF Begin
<1>4. CASE Presence(c)
  <2>1. call[c] \in MakeCalls \cup AssertCalls
    BY <1>1, <1>4 DEF CallsOK, Presence
  <2>2. [call[c] EXCEPT !.at = "act"] \in MakeCalls \cup AssertCalls
    BY <2>1 DEF MakeCalls, AssertCalls
  <2>3. \/ call' = [call EXCEPT ![c] = [call[c] EXCEPT !.at = "act"]]
        \/ call' = [call EXCEPT ![c] = Idle]
    BY <1>4 DEF Presence, Answered
  <2>4. CallsOK'
    BY <1>1, <2>2, <2>3 DEF CallsOK
  <2>5. fresh' \in BOOLEAN /\ clock' \in Epoch..MaxClock
    BY <1>2, <1>4, Zenon DEF Presence
  <2> QED BY <1>4, <2>4, <2>5, QuietStep DEF Presence
<1>5. CASE MakeCredentialFails(c)
  <2>1. CallsOK'
    BY <1>1, <1>5 DEF CallsOK, MakeCredentialFails, Answered
  <2>2. fresh' \in BOOLEAN /\ clock' \in Epoch..MaxClock
    BY <1>2, <1>5, Zenon DEF MakeCredentialFails
  <2> QED BY <1>5, <2>1, <2>2, QuietStep DEF MakeCredentialFails
<1> QED
  BY <1>3, <1>4, <1>5

(* Time passes.                                                            *)
LEMMA TimeSteps == ASSUME CeremonyInv, WindowEnds \/ Tick PROVE CeremonyInv'
<1>1. UNCHANGED <<residentVars, home, lastCounter, call, signs, drawn, acked, excused>>
  BY DEF WindowEnds, Tick
<1>2. CallsOK'
  BY <1>1 DEF CeremonyInv, CallsOK
<1>3. fresh' \in BOOLEAN
  BY Zenon DEF WindowEnds, Tick, CeremonyInv, RestOK
<1>4. clock' \in Epoch..MaxClock
  BY CeremonyAssumption DEF WindowEnds, Tick, CeremonyInv, RestOK
<1> QED
  BY <1>1, <1>2, <1>3, <1>4, QuietStep

(* A new handle, and its credential when one is stored.                    *)
LEMMA MakeSteps ==
    ASSUME CeremonyInv, NEW c \in Clients, MakeCredential(c)
    PROVE  CeremonyInv'
<1> DEFINE r == call[c]
           id == Len(home) + 1
<1>1. /\ StoreOK /\ signs \in Nat /\ Len(home) \in Nat
      /\ home \in Seq(RPs) /\ Created = 1..Len(home)
  BY InvFacts
<1>2. r \in MakeCalls
  BY DEF CeremonyInv, CallsOK, AssertCalls, MakeCredential, Acts
<1>3. r.rp \in RPs /\ r.user \in Users
  BY <1>2 DEF MakeCalls
<1>4. /\ id \in Ids /\ home' = Append(home, r.rp) /\ call' = [call EXCEPT ![c] = Idle]
      /\ UNCHANGED <<fresh, clock, lastCounter, signs, drawn>>
  BY DEF MakeCredential, Answered
<1>5. /\ home' \in Seq(RPs) /\ Len(home') = Len(home) + 1 /\ Len(home') <= MaxIds
      /\ \A i \in 1..Len(home) : home'[i] = home[i]
      /\ Created' = 1..(Len(home) + 1)
  <2>1. /\ home' \in Seq(RPs) /\ Len(home') = Len(home) + 1
        /\ \A i \in 1..Len(home) : home'[i] = home[i]
    BY <1>1, <1>3, <1>4, AppendProperties
  <2> QED BY <1>1, <1>4, <2>1, LenProperties, ResidentAssumption DEF Ids, Created
<1>6. /\ acked' \subseteq acked \cup {id} /\ excused \subseteq excused'
      /\ excused' \subseteq excused \cup Rivals(r.rp, r.user)
      /\ MapInv(creds', home', signs', Owed', drawn')
      /\ MapInv(file', home', signs', Owed', drawn')
  <2>1. CASE r.rk
    <3>1. PICK ok \in BOOLEAN :
            /\ Put(r.rp, Credential(id, r.user), ok)
            /\ acked' = IF ok THEN acked \cup {id} ELSE acked
            /\ excused' = excused \cup Rivals(r.rp, r.user)
      BY <2>1 DEF MakeCredential
    <3>2. file' = IF ok THEN creds' ELSE file
      BY <3>1 DEF Put, SaveCreds
    <3>3. MapInv(creds', home', signs', Owed', drawn')
      <4>1. DrawnOK /\ MapInv(creds, home, signs, Owed, drawn)
        BY DEF CeremonyInv, MapsInv
      <4>2. acked' \subseteq acked \cup {id}
        BY <3>1
      <4>3. UNCHANGED <<signs, drawn>>
        BY <1>4
      <4> QED BY <1>1, <1>3, <1>4, <3>1, <4>1, <4>2, <4>3, PutKeeps
    <3>4. CASE ok
      BY <3>1, <3>2, <3>3, <3>4
    <3>5. CASE ~ok
      <4>1. file' = file /\ Owed' \subseteq Owed
        BY <3>1, <3>2, <3>5 DEF Owed
      <4>2. MapInv(file, home', signs, Owed', drawn)
        <5>1. MapInv(file, home, signs, Owed, drawn)
          BY DEF CeremonyInv, MapsInv
        <5> QED BY <1>1, <1>5, <4>1, <5>1, MapStays
      <4> QED BY <1>4, <3>1, <3>3, <3>5, <4>1, <4>2
    <3> QED BY <3>4, <3>5
  <2>2. CASE ~r.rk
    <3>1. creds' = creds /\ file' = file /\ acked' = acked /\ excused' = excused
      BY <2>2 DEF MakeCredential, residentVars
    <3>2. MapInv(creds, home, signs, Owed, drawn) /\ MapInv(file, home, signs, Owed, drawn)
      BY DEF CeremonyInv, MapsInv
    <3>3. MapInv(creds, home', signs, Owed, drawn) /\ MapInv(file, home', signs, Owed, drawn)
      BY <1>1, <1>5, <3>2, MapStays
    <3> QED BY <1>4, <3>1, <3>3 DEF Owed
  <2> QED BY <2>1, <2>2
<1>7. Rivals(r.rp, r.user) \subseteq Created
  BY <1>1, <1>3 DEF Rivals, StoreOK, MapOK
<1> HIDE DEF r, id
<1>8. CallsOK'
  BY <1>4 DEF CeremonyInv, CallsOK
<1>9. DrawnOK'
  <2>1. drawn' = drawn /\ lastCounter' = lastCounter /\ DrawnOK
    BY <1>4 DEF CeremonyInv
  <2>2. \A k \in Ids : k > Len(home') => k > Len(home)
    BY <1>1, <1>5 DEF Ids
  <2> QED BY <2>1, <2>2 DEF DrawnOK
<1>10. acked' \subseteq Created' /\ excused' \subseteq Created'
  <2>1. id \in Created' /\ Created \subseteq Created'
    BY <1>1, <1>5 DEF id
  <2>2. acked \subseteq Created /\ excused \subseteq Created
    BY DEF CeremonyInv, RestOK
  <2> QED BY <1>6, <1>7, <2>1, <2>2
<1>11. RestOK'
  BY <1>4, <1>10 DEF CeremonyInv, RestOK
<1> QED
  BY <1>5, <1>6, <1>8, <1>9, <1>11 DEF CeremonyInv, MapsInv

(* A credential is deleted.                                                *)
LEMMA DeleteSteps == ASSUME CeremonyInv, DeleteCredential PROVE CeremonyInv'
<1>1. UNCHANGED <<home, fresh, clock, lastCounter, call, signs, drawn, acked>>
  BY DEF DeleteCredential
<1>2. StoreOK /\ signs \in Nat
  BY InvFacts
<1>3. MapInv(creds, home, signs, Owed, drawn) /\ MapInv(file, home, signs, Owed, drawn)
  BY DEF CeremonyInv, MapsInv
<1>4. PICK rp \in RPs, id \in Ids, ok \in BOOLEAN :
        Delete(rp, id, ok) /\ excused' = excused \cup {id}
  BY DEF DeleteCredential
<1>5. MapInv(creds', home', signs', Owed', drawn')
  BY <1>1, <1>2, <1>3, <1>4, DeleteKeeps
<1>6. file' = (IF ok THEN creds' ELSE file) /\ id \in Created
  BY <1>2, <1>4, DeleteStep
<1>7. MapInv(file', home', signs', Owed', drawn')
  <2>1. CASE ok
    BY <1>5, <1>6, <2>1
  <2>2. CASE ~ok
    <3>1. Owed' \subseteq Owed
      BY <1>1, <1>4 DEF Owed
    <3>2. file' = file /\ home' = home /\ signs' = signs /\ drawn' = drawn
      BY <1>1, <1>6, <2>2
    <3>3. MapInv(file, home, signs, Owed', drawn)
      BY <1>3, <3>1 DEF MapInv
    <3> QED BY <3>2, <3>3
  <2> QED BY <2>1, <2>2
<1>8. MapsInv'
  BY <1>1, <1>5, <1>7 DEF CeremonyInv, MapsInv
<1>9. CallsOK' /\ DrawnOK'
  BY <1>1 DEF CeremonyInv, CallsOK, DrawnOK
<1>10. RestOK'
  BY <1>1, <1>4, <1>6 DEF CeremonyInv, RestOK, Created
<1> QED
  BY <1>8, <1>9, <1>10 DEF CeremonyInv

(* A new process begins with what the file holds.                          *)
LEMMA RestartSteps == ASSUME CeremonyInv, ServerRestart PROVE CeremonyInv'
<1>1. /\ creds' = file /\ file' = file /\ fresh' = FALSE /\ lastCounter' = 0
      /\ call' = [c \in Clients |-> Idle]
      /\ drawn' = [id \in Ids |-> [drawn[id] EXCEPT !.device = 0]]
      /\ UNCHANGED <<home, clock, signs, acked, excused>>
  BY DEF ServerRestart, ReloadCreds
<1>2. ASSUME NEW id \in Ids
      PROVE  /\ drawn'[id] \in [resident: Nat, device: Nat]
             /\ drawn'[id].resident = drawn[id].resident /\ drawn'[id].device = 0
  BY <1>1 DEF CeremonyInv, DrawnOK
<1>3. signs \in Nat /\ home \in Seq(RPs) /\ Len(home) \in Nat
  BY InvFacts
<1>4. MapInv(file, home, signs, Owed, drawn')
  <2>1. MapInv(file, home, signs, Owed, drawn)
    BY DEF CeremonyInv, MapsInv
  <2> QED BY <1>2, <1>3, <2>1, MapStays
<1>5. MapsInv'
  BY <1>1, <1>4 DEF CeremonyInv, MapsInv, Owed
<1>6. CallsOK'
  BY <1>1 DEF CallsOK
<1>7. DrawnOK'
  <2>1. drawn' \in [Ids -> [resident: Nat, device: Nat]]
    BY <1>1, <1>2
  <2>2. \A id \in Ids : drawn'[id].device <= lastCounter'
    BY <1>1, <1>2
  <2>3. \A id \in Ids : id > Len(home') => drawn'[id].resident = 0
    BY <1>1, <1>2 DEF CeremonyInv, DrawnOK
  <2> QED BY <1>1, <2>1, <2>2, <2>3 DEF DrawnOK
<1>8. RestOK'
  BY <1>1 DEF CeremonyInv, RestOK, Created
<1> QED
  BY <1>5, <1>6, <1>7, <1>8 DEF CeremonyInv

(* Counter is beyond what it returned before.                              *)
LEMMA CounterGrows ==
    ASSUME CeremonyInv PROVE Counter \in Nat /\ Counter > lastCounter
  BY InvFacts DEF Counter, CeremonyInv, DrawnOK

(* One count of one credential is drawn.                                   *)
LEMMA DrawFacts ==
    ASSUME DrawnOK, NEW id \in Ids, NEW flow \in Flows, NEW n \in Nat, Draw(id, flow, n)
    PROVE  /\ drawn' \in [Ids -> [resident: Nat, device: Nat]]
           /\ \A k \in Ids : k # id => drawn'[k] = drawn[k]
           /\ drawn'[id].resident = IF flow = "resident" THEN n ELSE drawn[id].resident
           /\ drawn'[id].device = IF flow = "device" THEN n ELSE drawn[id].device
<1>1. drawn[id] \in [resident: Nat, device: Nat]
  BY DEF DrawnOK
<1>2. drawn' = [drawn EXCEPT ![id] = [drawn[id] EXCEPT ![flow] = n]]
  BY DEF Draw
<1>3. /\ [drawn[id] EXCEPT ![flow] = n] \in [resident: Nat, device: Nat]
      /\ [drawn[id] EXCEPT ![flow] = n].resident = IF flow = "resident" THEN n ELSE drawn[id].resident
      /\ [drawn[id] EXCEPT ![flow] = n].device = IF flow = "device" THEN n ELSE drawn[id].device
  <2>1. CASE flow = "resident"
    BY <1>1, <2>1
  <2>2. CASE flow = "device"
    BY <1>1, <2>2
  <2> QED BY <2>1, <2>2 DEF Flows
<1>4. drawn'[id] = [drawn[id] EXCEPT ![flow] = n]
  BY <1>2 DEF DrawnOK
<1> QED
  BY <1>2, <1>3, <1>4 DEF DrawnOK

(* One count of credential id grew and no other changed.                   *)
OneGrows(id) ==
    /\ \A k \in Ids : k # id => drawn'[k] = drawn[k]
    /\ \/ drawn'[id].resident > drawn[id].resident /\ drawn'[id].device = drawn[id].device
       \/ drawn'[id].device > drawn[id].device /\ drawn'[id].resident = drawn[id].resident

(* An assertion of either flow counts, in memory and in the file unless    *)
(* the credential's own count could not be used.                           *)
LEMMA AssertSteps ==
    ASSUME CeremonyInv, NEW c \in Clients, GetAssertion(c)
    PROVE  CeremonyInv' /\ call[c].id \in Ids /\ OneGrows(call[c].id)
<1> DEFINE rp == call[c].rp
           id == call[c].id
           p  == PositionOf(rp, id)
<1>1. /\ StoreOK /\ signs \in Nat /\ Len(home) \in Nat /\ home \in Seq(RPs)
      /\ Counter \in Nat /\ Counter > lastCounter
  BY InvFacts, CounterGrows
<1>2. rp \in RPs /\ id \in Ids
  <2>1. call[c] \in AssertCalls
    BY DEF CeremonyInv, CallsOK, MakeCalls, GetAssertion, Acts
  <2> QED BY <2>1 DEF AssertCalls
<1>3. /\ signs < MaxSigns /\ signs' = signs + 1 /\ call' = [call EXCEPT ![c] = Idle]
      /\ UNCHANGED <<home, fresh, clock, acked, excused>>
  BY DEF GetAssertion, Answered
<1>4. /\ MapInv(creds, home, signs, Owed, drawn) /\ MapInv(file, home, signs, Owed, drawn)
      /\ DrawnOK
  BY DEF CeremonyInv, MapsInv
<1>5. \/ ResidentCount(c)
      \/ DeviceCount(c) /\ UNCHANGED residentVars
      \/ DeviceCount(c) /\ p # 0 /\ Increment(rp, p, FALSE)
  BY DEF GetAssertion, ResidentCountFails
<1> HIDE DEF rp, id, p
<1>6. CallsOK' /\ RestOK'
  <2>1. CallsOK'
    BY <1>3 DEF CeremonyInv, CallsOK
  <2>2. /\ fresh' = fresh /\ clock' = clock /\ signs' \in 0..MaxSigns
        /\ acked' = acked /\ excused' = excused /\ Created' = Created
    BY <1>1, <1>3, CeremonyAssumption DEF Created
  <2>3. RestOK'
    BY <2>2 DEF CeremonyInv, RestOK
  <2> QED BY <2>1, <2>3
<1>7. CASE ResidentCount(c)
  <2>1. /\ p = PositionOf(rp, id) /\ p # 0 /\ Increment(rp, p, TRUE)
        /\ Draw(id, "resident", creds[rp][p].count + 1) /\ lastCounter' = lastCounter
    BY <1>7 DEF ResidentCount, rp, id, p
  <2>2. OneCounts(rp, id, p) /\ file' = creds'
    <3>1. OneCounts(rp, id, p) /\ file' = IF TRUE THEN creds' ELSE file
      BY <1>1, <1>2, <2>1, CountStep
    <3> QED BY <3>1
  <2>3. /\ creds[rp][p].count \in Nat /\ drawn[id].resident <= creds[rp][p].count
        /\ id \in 1..Len(home)
    <3>1. p \in 1..Len(creds[rp]) /\ creds[rp][p].id = id /\ creds[rp] \in Seq(Entry)
      BY <1>2, <1>4, <2>2 DEF OneCounts, MapInv, MapOK
    <3>2. creds[rp][p] \in Entry
      BY <3>1, ElementOfSeq
    <3> QED BY <1>2, <1>4, <3>1, <3>2 DEF Entry, MapInv, MapOK
  <2>4. /\ drawn' \in [Ids -> [resident: Nat, device: Nat]]
        /\ \A k \in Ids : k # id => drawn'[k] = drawn[k]
        /\ drawn'[id].resident = creds[rp][p].count + 1
        /\ drawn'[id].device = drawn[id].device
    <3>1. creds[rp][p].count + 1 \in Nat /\ "resident" \in Flows
      BY <2>3 DEF Flows
    <3> QED BY <1>2, <1>4, <2>1, <3>1, DrawFacts
  <2>5. MapInv(creds', home', signs', Owed', drawn')
    BY <1>1, <1>2, <1>3, <1>4, <2>1, <2>4, CountKeeps
  <2>6. MapsInv'
    BY <1>3, <2>2, <2>5 DEF CeremonyInv, MapsInv
  <2>7. DrawnOK'
    <3>1. \A k \in Ids : drawn'[k].device = drawn[k].device
      BY <2>4
    <3>2. \A k \in Ids : k > Len(home') => drawn'[k].resident = 0
      BY <1>1, <1>3, <1>4, <2>3, <2>4 DEF DrawnOK
    <3> QED BY <1>4, <2>1, <2>4, <3>1, <3>2 DEF DrawnOK
  <2>9. OneGrows(id)
    <3>1. drawn[id].resident \in Nat
      BY <1>2, <1>4 DEF DrawnOK
    <3> QED BY <2>3, <2>4, <3>1 DEF OneGrows
  <2> QED BY <1>2, <1>6, <2>6, <2>7, <2>9 DEF CeremonyInv, id
<1>8. CASE /\ DeviceCount(c)
           /\ UNCHANGED residentVars \/ (p # 0 /\ Increment(rp, p, FALSE))
  <2>1. lastCounter' = Counter /\ Draw(id, "device", Counter)
    BY <1>8 DEF DeviceCount, id
  <2>2. /\ drawn' \in [Ids -> [resident: Nat, device: Nat]]
        /\ \A k \in Ids : k # id => drawn'[k] = drawn[k]
        /\ drawn'[id].resident = drawn[id].resident
        /\ drawn'[id].device = Counter
    <3>1. "device" \in Flows
      BY DEF Flows
    <3> QED BY <1>1, <1>2, <1>4, <2>1, <3>1, DrawFacts
  <2>3. \A k \in Ids : drawn'[k].resident = drawn[k].resident
    BY <2>2
  <2>4. /\ MapInv(creds, home, signs + 1, Owed, drawn')
        /\ MapInv(file, home, signs + 1, Owed, drawn')
    BY <1>1, <1>4, <2>3, MapStays
  <2>5. MapInv(creds', home', signs', Owed', drawn') /\ file' = file
    <3>1. CASE UNCHANGED residentVars
      BY <1>3, <2>4, <3>1 DEF residentVars, Owed
    <3>2. CASE p # 0 /\ Increment(rp, p, FALSE)
      <4>1. p = PositionOf(rp, id)
        BY DEF p
      <4>2. drawn'[id].resident \in {drawn[id].resident, creds[rp][p].count + 1}
        BY <2>2
      <4>3. MapInv(creds', home', signs', Owed', drawn')
        <5> DEFINE ok == FALSE
        <5>1. ok \in BOOLEAN /\ Increment(rp, p, ok)
          BY <3>2
        <5> HIDE DEF ok
        <5> QED BY <1>1, <1>2, <1>3, <1>4, <2>3, <3>2, <4>1, <4>2, <5>1, CountKeeps
      <4>4. file' = IF FALSE THEN creds' ELSE file
        BY <3>2 DEF Increment, SaveCreds
      <4> QED BY <4>3, <4>4
    <3> QED BY <1>8, <3>1, <3>2
  <2>6. MapsInv'
    BY <1>3, <2>4, <2>5 DEF CeremonyInv, MapsInv, Owed
  <2>7. DrawnOK'
    <3>1. \A k \in Ids : drawn[k].device \in Nat /\ drawn[k].device <= lastCounter
      BY <1>4 DEF DrawnOK
    <3>2. \A k \in Ids : drawn'[k].device <= lastCounter'
      <4>1. lastCounter \in Nat
        BY <1>4 DEF DrawnOK
      <4>2. ASSUME NEW k \in Ids PROVE drawn'[k].device <= Counter
        <5>1. CASE k = id
          BY <1>1, <2>2, <5>1
        <5>2. CASE k # id
          <6>1. drawn'[k].device = drawn[k].device
            BY <2>2, <5>2
          <6> QED BY <1>1, <3>1, <4>1, <6>1
        <5> QED BY <5>1, <5>2
      <4> QED BY <2>1, <4>2
    <3>3. \A k \in Ids : k > Len(home') => drawn'[k].resident = 0
      BY <1>3, <1>4, <2>3 DEF DrawnOK
    <3> QED BY <1>1, <2>1, <2>2, <3>2, <3>3 DEF DrawnOK
  <2>9. OneGrows(id)
    <3>1. drawn[id].device <= lastCounter /\ drawn[id].device \in Nat /\ lastCounter \in Nat
      BY <1>2, <1>4 DEF DrawnOK
    <3> QED BY <1>1, <2>2, <3>1 DEF OneGrows
  <2> QED BY <1>2, <1>6, <2>6, <2>7, <2>9 DEF CeremonyInv, id
<1> QED
  BY <1>5, <1>7, <1>8
-----------------------------------------------------------------------------
(* No step of Ceremony breaks the invariant.                               *)
LEMMA NextInv == CeremonyInv /\ [CeremonyNext]_vars => CeremonyInv'
<1> SUFFICES ASSUME CeremonyInv, [CeremonyNext]_vars PROVE CeremonyInv'
  OBVIOUS
<1>1. CASE \E c \in Clients : Begin(c) \/ Presence(c) \/ MakeCredentialFails(c)
  BY <1>1, AskSteps
<1>2. CASE \E c \in Clients : MakeCredential(c)
  BY <1>2, MakeSteps
<1>3. CASE \E c \in Clients : GetAssertion(c)
  BY <1>3, AssertSteps
<1>4. CASE WindowEnds \/ Tick
  BY <1>4, TimeSteps
<1>5. CASE DeleteCredential
  BY <1>5, DeleteSteps
<1>6. CASE ServerRestart
  BY <1>6, RestartSteps
<1>7. CASE UNCHANGED vars
  BY <1>7 DEF vars, residentVars, ceremonyVars, CeremonyInv, MapsInv, CallsOK, DrawnOK,
              RestOK, Owed, Created
<1> QED
  BY <1>1, <1>2, <1>3, <1>4, <1>5, <1>6, <1>7, Zenon DEF CeremonyNext

(* The invariant holds always.                                             *)
THEOREM CeremonyInvariant == CeremonySpec => []CeremonyInv
  BY InitInv, NextInv, PTL DEF CeremonySpec

(* The types of the resident store, the two counters and the histories.    *)
THEOREM CeremonyTypes == CeremonySpec => []CeremonyTypeOK
<1>1. CeremonyInv => CeremonyTypeOK
  <2> SUFFICES ASSUME CeremonyInv PROVE CeremonyTypeOK
    OBVIOUS
  <2>1. ASSUME NEW m, MapInv(m, home, signs, Owed, drawn)
        PROVE  IsCredentialMap(m, signs)
    <3>1. DOMAIN m = RPs
      BY <2>1 DEF MapInv, MapOK
    <3>2. ASSUME NEW rp \in RPs, NEW i \in 1..Len(m[rp])
          PROVE  /\ m[rp][i].id \in Ids /\ m[rp][i].user \in Users
                 /\ m[rp][i].count \in 0..signs
      <4>1. m[rp] \in Seq(Entry)
        BY <2>1 DEF MapInv, MapOK
      <4>2. m[rp][i] \in Entry
        BY <4>1, ElementOfSeq
      <4>3. m[rp][i].count <= signs /\ signs \in Nat
        BY <2>1, InvFacts DEF MapInv
      <4> QED BY <4>2, <4>3 DEF Entry
    <3> QED BY <3>1, <3>2 DEF IsCredentialMap
  <2>2. IsCredentialMap(creds, signs) /\ IsCredentialMap(file, signs)
    BY <2>1 DEF CeremonyInv, MapsInv
  <2> QED BY <2>2, Zenon DEF CeremonyInv, MapsInv, DrawnOK, RestOK, CeremonyTypeOK
<1> QED
  BY <1>1, CeremonyInvariant, PTL

(* An account has one credential per relying party, whatever registrations *)
(* and deletions run at once and whichever saves fail.                     *)
THEOREM AccountsAreUnique == CeremonySpec => []OnePerUser
<1>1. CeremonyInv => OnePerUser
  <2> SUFFICES ASSUME CeremonyInv PROVE OnePerUser
    OBVIOUS
  <2>1. \A rp \in RPs : Unique(creds[rp]) /\ Unique(file[rp])
    BY DEF CeremonyInv, MapsInv, MapInv, MapOK
  <2>2. ASSUME NEW m \in {creds, file}, NEW rp \in RPs PROVE Unique(m[rp])
    BY <2>1
  <2> QED BY <2>2, Zenon DEF Unique, OnePerUser
<1> QED
  BY <1>1, CeremonyInvariant, PTL

(* A registration that was answered with success survives failed saves and *)
(* restarts until it is deleted or registered again.                       *)
THEOREM RegistrationsAreKept == CeremonySpec => []AckedKept
<1>1. CeremonyInv => AckedKept
  <2> SUFFICES ASSUME CeremonyInv PROVE AckedKept
    OBVIOUS
  <2>1. ASSUME NEW m, MapInv(m, home, signs, Owed, drawn), NEW id \in acked \ excused
        PROVE  \E rp \in RPs : \E i \in 1..Len(m[rp]) : m[rp][i].id = id /\ home[id] = rp
    BY <2>1 DEF MapInv, MapOK, Owed
  <2>2. MapInv(creds, home, signs, Owed, drawn) /\ MapInv(file, home, signs, Owed, drawn)
    BY DEF CeremonyInv, MapsInv
  <2>3. ASSUME NEW m \in {creds, file} PROVE MapInv(m, home, signs, Owed, drawn)
    BY <2>2
  <2> QED BY <2>1, <2>3, Zenon DEF AckedKept
<1> QED
  BY <1>1, CeremonyInvariant, PTL

(* A restart cannot hand out a resident count a second time.               *)
THEOREM CountsAreSaved == CeremonySpec => []DrawnIsSaved
<1>1. CeremonyInv => DrawnIsSaved
  <2>1. ASSUME NEW m, MapInv(m, home, signs, Owed, drawn)
        PROVE  \A rp \in RPs : \A i \in 1..Len(m[rp]) :
                 drawn[m[rp][i].id].resident <= m[rp][i].count
    BY <2>1 DEF MapInv
  <2> QED BY <2>1, Zenon DEF CeremonyInv, MapsInv, DrawnIsSaved
<1> QED
  BY <1>1, CeremonyInvariant, PTL

(* Only an assertion draws a count, but for a restart, and it is larger    *)
(* than the last one of its kind; an assertion always draws one.           *)
LEMMA DrawsGrow ==
    ASSUME CeremonyInv, [CeremonyNext]_vars
    PROVE  /\ \A id \in Ids : \A flow \in Flows :
                Draws(id, flow) => drawn'[id][flow] > drawn[id][flow]
           /\ \A c \in Clients : Signs(c) => \E flow \in Flows : Draws(call[c].id, flow)
<1>1. CASE \E c \in Clients : GetAssertion(c)
  <2>1. PICK c \in Clients : GetAssertion(c)
    BY <1>1
  <2> DEFINE id == call[c].id
  <2>2. id \in Ids /\ OneGrows(id) /\ DrawnOK /\ DrawnOK'
    BY <2>1, AssertSteps DEF CeremonyInv
  <2>3. \A d \in Clients : call'[d] # call[d] => d = c
    BY <2>1 DEF GetAssertion, Answered, CeremonyInv, CallsOK
  <2>4. ~ServerRestart
    BY <2>1, InvFacts DEF GetAssertion, ServerRestart
  <2> HIDE DEF id
  <2>5. ASSUME NEW k \in Ids, NEW flow \in Flows, drawn'[k][flow] # drawn[k][flow]
        PROVE  drawn'[k][flow] > drawn[k][flow]
    BY <2>2, <2>5 DEF OneGrows, Flows
  <2>6. \E flow \in Flows : drawn'[id][flow] # drawn[id][flow]
    <3>1. /\ drawn[id].resident \in Nat /\ drawn'[id].resident \in Nat
          /\ drawn[id].device \in Nat /\ drawn'[id].device \in Nat
      BY <2>2 DEF DrawnOK
    <3> QED BY <2>2, <3>1 DEF OneGrows, Flows
  <2>7. \A d \in Clients : Signs(d) => \E flow \in Flows : Draws(call[d].id, flow)
    BY <2>3, <2>4, <2>6 DEF Signs, Draws, id
  <2> QED BY <2>5, <2>7 DEF Draws
<1>2. CASE ~\E c \in Clients : GetAssertion(c)
  <2>1. ServerRestart \/ drawn' = drawn
    BY <1>2 DEF CeremonyNext, Begin, Presence, MakeCredential, MakeCredentialFails,
       WindowEnds, DeleteCredential, Tick, vars, ceremonyVars
  <2>2. signs' = signs
    BY <1>2 DEF CeremonyNext, Begin, Presence, MakeCredential, MakeCredentialFails,
       WindowEnds, DeleteCredential, Tick, ServerRestart, vars, ceremonyVars
  <2> QED BY <2>1, <2>2 DEF Draws, Signs
<1> QED
  BY <1>1, <1>2

(* Counts that leave one counter grow, across restarts and failed saves    *)
(* for a resident credential's own, within a process for the device's.     *)
THEOREM CountsGrow == CeremonySpec => CountersGrow
<1>1. CeremonyInv /\ [CeremonyNext]_vars =>
        [/\ \A id \in Ids : \A flow \in Flows :
              Draws(id, flow) => drawn'[id][flow] > drawn[id][flow]
         /\ \A c \in Clients : Signs(c) =>
              \E flow \in Flows : Draws(call[c].id, flow)]_vars
  BY DrawsGrow
<1> QED
  BY <1>1, CeremonyInvariant, PTL DEF CeremonySpec, CountersGrow
-----------------------------------------------------------------------------
(* When the counts of a credential grow after all.  The run CeremonyCounts *)
(* shows that they may fall from the device's counter, which is the wall   *)
(* clock, back to the credential's own, which counts its assertions.  That *)
(* is the only way down.                                                   *)

(* No credential goes back to its own counter after the device's was used  *)
(* for it, by an allowList, U2F, or a count that could not be saved.       *)
NoWayBack == [][\A id \in Ids : Draws(id, "resident") => drawn[id].device = 0]_vars

(* A credential's own counts are fewer than the assertions made, even when *)
(* it is deleted.                                                          *)
OwnCountsAreLow == \A id \in Ids : drawn[id].resident <= signs

(* What an assertion draws is its credential's next count, no more than    *)
(* the assertions made, or a second of the wall clock, no less than Epoch. *)
LEMMA DrawnNumber ==
    ASSUME CeremonyInv, NEW c \in Clients, GetAssertion(c)
    PROVE  \E flow \in Flows : \E n \in Nat :
             /\ Draw(call[c].id, flow, n)
             /\ flow = "resident" => n <= signs + 1
             /\ flow = "device" => n >= Epoch
<1> DEFINE rp == call[c].rp
           id == call[c].id
           p  == PositionOf(rp, id)
<1>1. rp \in RPs /\ id \in Ids
  <2>1. call[c] \in AssertCalls
    BY DEF CeremonyInv, CallsOK, MakeCalls, GetAssertion, Acts
  <2> QED BY <2>1 DEF AssertCalls
<1>2. CASE DeviceCount(c)
  <2>1. Counter \in Nat /\ Counter >= Epoch
    <3>1. clock \in Epoch..MaxClock /\ lastCounter \in Nat
      BY DEF CeremonyInv, RestOK, DrawnOK
    <3> QED BY <3>1, CeremonyAssumption DEF Counter
  <2> QED BY <1>2, <2>1 DEF DeviceCount, Flows
<1>3. CASE ResidentCount(c)
  <2>1. /\ p # 0 /\ Increment(rp, p, TRUE)
        /\ Draw(id, "resident", creds[rp][p].count + 1)
    BY <1>3 DEF ResidentCount
  <2>2. creds[rp][p].count \in Nat /\ creds[rp][p].count <= signs
    <3> HIDE DEF rp, id
    <3>1. p \in 1..Len(creds[rp]) /\ creds[rp] \in Seq(Entry)
      <4>1. creds[rp] \in Seq(Entry) /\ Unique(creds[rp])
        BY <1>1, InvFacts DEF StoreOK, MapOK
      <4> QED BY <1>1, <2>1, <4>1, PositionFacts
    <3>2. creds[rp][p] \in Entry
      BY <3>1, ElementOfSeq
    <3>3. creds[rp][p].count <= signs
      BY <1>1, <3>1 DEF CeremonyInv, MapsInv, MapInv
    <3> QED BY <3>2, <3>3 DEF Entry
  <2>3. signs \in Nat
    BY InvFacts
  <2>4. creds[rp][p].count + 1 \in Nat /\ creds[rp][p].count + 1 <= signs + 1
    BY <2>2, <2>3
  <2> HIDE DEF p
  <2> QED BY <2>1, <2>4 DEF Flows
<1> QED
  BY <1>2, <1>3 DEF GetAssertion, ResidentCountFails

(* No step but an assertion changes the counts, or a restart the device's. *)
LEMMA LowStep == CeremonyInv /\ OwnCountsAreLow /\ [CeremonyNext]_vars => OwnCountsAreLow'
<1> SUFFICES ASSUME CeremonyInv, OwnCountsAreLow, [CeremonyNext]_vars, NEW k \in Ids
             PROVE  drawn'[k].resident <= signs'
  BY DEF OwnCountsAreLow
<1>0. /\ DrawnOK /\ drawn[k].resident \in Nat /\ signs \in Nat
      /\ drawn[k].resident <= signs
  BY InvFacts DEF CeremonyInv, DrawnOK, OwnCountsAreLow
<1>1. ASSUME NEW c \in Clients, GetAssertion(c) PROVE drawn'[k].resident <= signs'
  <2> DEFINE id == call[c].id
  <2>1. PICK flow \in Flows, n \in Nat :
          Draw(id, flow, n) /\ (flow = "resident" => n <= signs + 1)
    BY <1>1, DrawnNumber
  <2>2. id \in Ids /\ signs' = signs + 1
    BY <1>1, AssertSteps DEF GetAssertion
  <2> HIDE DEF id
  <2>3. /\ \A j \in Ids : j # id => drawn'[j] = drawn[j]
        /\ drawn'[id].resident = IF flow = "resident" THEN n ELSE drawn[id].resident
    BY <1>0, <2>1, <2>2, DrawFacts
  <2> QED BY <1>0, <2>1, <2>2, <2>3
<1>2. CASE ServerRestart
  <2>1. drawn'[k].resident = drawn[k].resident /\ signs' = signs
    BY <1>0, <1>2 DEF ServerRestart, DrawnOK
  <2> QED BY <1>0, <2>1
<1>3. CASE UNCHANGED <<drawn, signs>>
  BY <1>0, <1>3
<1> QED
  BY <1>1, <1>2, <1>3 DEF CeremonyNext, Begin, Presence, MakeCredential, MakeCredentialFails,
     WindowEnds, DeleteCredential, Tick, vars, ceremonyVars

(* "Resident credentials get their own persisted, monotonic per-credential *)
(* counter" (ctap2handlers.go:313): within a process the counts handed out *)
(* for a credential grow as long as none follows one of the device's,      *)
(* whatever saves fail and however the clock stands; the one change of     *)
(* counter that is harmless is the other one, because a clock is ahead of  *)
(* any number of assertions (CeremonyAssumption).                          *)
THEOREM CountsGrowOneWay == CeremonySpec /\ NoWayBack => SignCountGrows
<1> DEFINE OneWay == \A id \in Ids : Draws(id, "resident") => drawn[id].device = 0
           Grows  == \A id \in Ids : \A flow, other \in Flows :
                       Draws(id, flow) => drawn'[id][flow] > drawn[id][other]
<1>1. CeremonyInit => OwnCountsAreLow
  BY DEF CeremonyInit, OwnCountsAreLow, NothingDrawn
<1>2. CeremonyInv /\ OwnCountsAreLow /\ [CeremonyNext]_vars /\ OneWay => Grows
  <2> SUFFICES ASSUME CeremonyInv, OwnCountsAreLow, [CeremonyNext]_vars, OneWay,
                      NEW k \in Ids, NEW flow \in Flows, NEW other \in Flows, Draws(k, flow)
               PROVE  drawn'[k][flow] > drawn[k][other]
    OBVIOUS
  <2>1. drawn'[k][flow] > drawn[k][flow]
    BY DrawsGrow
  <2>2. PICK c \in Clients : GetAssertion(c)
    BY DEF Draws, CeremonyNext, Begin, Presence, MakeCredential, MakeCredentialFails,
           WindowEnds, DeleteCredential, Tick, vars, ceremonyVars
  <2> DEFINE id == call[c].id
  <2>3. PICK f \in Flows, n \in Nat :
          Draw(id, f, n) /\ (f = "device" => n >= Epoch)
    BY <2>2, DrawnNumber
  <2>4. id \in Ids /\ DrawnOK /\ drawn[k].resident <= signs /\ signs \in 0..MaxSigns
    BY <2>2, AssertSteps DEF CeremonyInv, OwnCountsAreLow, RestOK
  <2> HIDE DEF id
  <2>5. /\ drawn' \in [Ids -> [resident: Nat, device: Nat]]
        /\ \A j \in Ids : j # id => drawn'[j] = drawn[j]
        /\ drawn'[id].resident = IF f = "resident" THEN n ELSE drawn[id].resident
        /\ drawn'[id].device = IF f = "device" THEN n ELSE drawn[id].device
    BY <2>3, <2>4, DrawFacts
  <2>6. k = id /\ flow = f
    BY <2>5 DEF Draws, Flows
  <2>7. drawn[k].resident \in Nat /\ drawn[k].device \in Nat
    BY <2>4 DEF DrawnOK
  <2>8. CASE flow = "device"
    BY <2>1, <2>3, <2>4, <2>5, <2>6, <2>7, <2>8, CeremonyAssumption DEF Flows
  <2>9. CASE flow = "resident"
    BY <2>1, <2>5, <2>6, <2>7, <2>9 DEF Flows
  <2> QED BY <2>8, <2>9 DEF Flows
<1> HIDE DEF Grows, OneWay
<1>3. CeremonyInv /\ OwnCountsAreLow /\ [CeremonyNext]_vars /\ [OneWay]_vars => [Grows]_vars
  BY <1>2
<1> QED
  BY <1>1, <1>3, CeremonyInvariant, LowStep, PTL
  DEF CeremonySpec, NoWayBack, SignCountGrows, OneWay, Grows
=============================================================================
