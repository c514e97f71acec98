------------------------- MODULE ResidentStoreProofs -------------------------
(***************************************************************************)
(* What the operations of ResidentStore do to a list of credentials, for   *)
(* any list.  The theorems of the modules that use the store rest on it.   *)
(*                                                                         *)
(* A position is found with Min over the matches; since an account has one *)
(* credential there is at most one match, and Min is that one.             *)
(***************************************************************************)
EXTENDS ResidentStore, SequenceTheorems, TLAPS

Entry == [id: Ids, user: Users, count: Nat]

(* One list obeys OnePerUser.                                              *)
Unique(l) ==
    \A i, j \in 1..Len(l) : i # j => l[i].user # l[j].user /\ l[i].id # l[j].id

StoredOK == creds \in [RPs -> Seq(Entry)] /\ \A rp \in RPs : Unique(creds[rp])
-----------------------------------------------------------------------------
(* The least of one number is this number.                                 *)
LEMMA MinOfOne == ASSUME NEW n \in Nat PROVE Min({n}) = n
  BY DEF Min

(* PositionOf finds the credential with this id, or there is none.         *)
LEMMA PositionFacts ==
    ASSUME NEW rp, NEW id, creds[rp] \in Seq(Entry), Unique(creds[rp])
    PROVE  LET p == PositionOf(rp, id) IN
           /\ p = 0 => \A i \in 1..Len(creds[rp]) : creds[rp][i].id # id
           /\ p # 0 => p \in 1..Len(creds[rp]) /\ creds[rp][p].id = id
<1> DEFINE I == {i \in 1..Len(creds[rp]) : creds[rp][i].id = id}
<1>1. PositionOf(rp, id) = IF I # {} THEN Min(I) ELSE 0
  BY DEF PositionOf, SelectInSeq
<1>2. ASSUME NEW i \in I PROVE I = {i} /\ i \in Nat /\ i # 0
  BY <1>2 DEF Unique
<1>3. CASE I = {}
  BY <1>1, <1>3
<1>4. CASE I # {}
  <2>1. PICK i \in I : TRUE
    BY <1>4
  <2>2. PositionOf(rp, id) = i
    BY <1>1, <1>2, <1>4, <2>1, MinOfOne
  <2> QED
    BY <1>2, <2>1, <2>2
<1> QED
  BY <1>3, <1>4

(* PositionOfUser finds the credential of this user, or there is none.     *)
LEMMA UserPositionFacts ==
    ASSUME NEW rp, NEW user, creds[rp] \in Seq(Entry), Unique(creds[rp])
    PROVE  LET p == PositionOfUser(rp, user) IN
           /\ p = 0 => \A i \in 1..Len(creds[rp]) : creds[rp][i].user # user
           /\ p # 0 => p \in 1..Len(creds[rp]) /\ creds[rp][p].user = user
<1> DEFINE I == {i \in 1..Len(creds[rp]) : creds[rp][i].user = user}
<1>1. PositionOfUser(rp, user) = IF I # {} THEN Min(I) ELSE 0
  BY DEF PositionOfUser, SelectInSeq
<1>2. ASSUME NEW i \in I PROVE I = {i} /\ i \in Nat /\ i # 0
  BY <1>2 DEF Unique
<1>3. CASE I = {}
  BY <1>1, <1>3
<1>4. CASE I # {}
  <2>1. PICK i \in I : TRUE
    BY <1>4
  <2>2. PositionOfUser(rp, user) = i
    BY <1>1, <1>2, <1>4, <2>1, MinOfOne
  <2> QED
    BY <1>2, <2>1, <2>2
<1> QED
  BY <1>3, <1>4

(* The lists that Put and IncrementSignCount leave.                        *)
WithNew(l, p, c) == IF p # 0 THEN ReplaceAt(l, p, c) ELSE Append(l, c)
Counted(l, p) == [l EXCEPT ![p].count = @ + 1]

(* Where in the list Put has to write: at the credential of this user.     *)
IsPlace(l, p, c) ==
    /\ p \in Nat
    /\ p = 0 => \A i \in 1..Len(l) : l[i].user # c.user
    /\ p # 0 => p \in 1..Len(l) /\ l[p].user = c.user
    /\ \A i \in 1..Len(l) : l[i].id # c.id

(* Put on one list: the new credential is there, those of other users too, *)
(* and nothing else.                                                       *)
LEMMA PutList ==
    ASSUME NEW l \in Seq(Entry), Unique(l), NEW c \in Entry,
           NEW p, IsPlace(l, p, c),
           NEW k, k = WithNew(l, p, c)
    PROVE  /\ k \in Seq(Entry) /\ Unique(k)
           /\ \A j \in 1..Len(k) : k[j] = c \/ \E i \in 1..Len(l) : k[j] = l[i]
           /\ \E j \in 1..Len(k) : k[j] = c
           /\ \A i \in 1..Len(l) : l[i].user # c.user => \E j \in 1..Len(k) : k[j] = l[i]
<1>1. CASE p # 0
  <2>1. /\ k \in Seq(Entry) /\ Len(k) = Len(l)
        /\ \A j \in 1..Len(l) : k[j] = IF j = p THEN c ELSE l[j]
    BY <1>1, ExceptSeq DEF ReplaceAt, WithNew, IsPlace
  <2>2. Unique(k)
    BY <1>1, <2>1 DEF Unique, IsPlace
  <2>3. p \in 1..Len(l) /\ l[p].user = c.user /\ k[p] = c
    BY <1>1, <2>1 DEF IsPlace
  <2> QED
    BY <2>1, <2>2, <2>3
<1>2. CASE p = 0
  <2>1. /\ k \in Seq(Entry) /\ Len(k) = Len(l) + 1
        /\ \A j \in 1..Len(l) : k[j] = l[j]
        /\ k[Len(l) + 1] = c
    BY <1>2, AppendProperties DEF WithNew
  <2> QED
    BY <1>2, <2>1, SMTT(20) DEF Unique, IsPlace
<1> QED
  BY <1>1, <1>2

(* Delete on one list: the others move up.                                 *)
LEMMA WithoutList ==
    ASSUME NEW l \in Seq(Entry), Unique(l), NEW p \in 1..Len(l), NEW k, k = RemoveAt(l, p)
    PROVE  /\ k \in Seq(Entry) /\ Unique(k)
           /\ \A j \in 1..Len(k) : \E i \in 1..Len(l) : k[j] = l[i]
           /\ \A i \in 1..Len(l) : i # p => \E j \in 1..Len(k) : k[j] = l[i]
<1> DEFINE front == SubSeq(l, 1, p - 1)
           back  == SubSeq(l, p + 1, Len(l))
<1>1. /\ front \in Seq(Entry) /\ Len(front) = p - 1
      /\ \A j \in 1..(p - 1) : front[j] = l[j]
  BY SubSeqProperties
<1>2. /\ back \in Seq(Entry) /\ Len(back) = Len(l) - p
      /\ \A j \in 1..(Len(l) - p) : back[j] = l[p + j]
  BY SubSeqProperties
<1>3. k = front \o back
  BY DEF RemoveAt
<1> HIDE DEF front, back
<1>4. /\ k \in Seq(Entry) /\ Len(k) = Len(l) - 1
      /\ \A j \in 1..(Len(l) - 1) : k[j] = IF j < p THEN l[j] ELSE l[j + 1]
  <2>1. /\ k \in Seq(Entry) /\ Len(k) = Len(front) + Len(back)
        /\ \A j \in 1..Len(front) + Len(back) :
             k[j] = IF j <= Len(front) THEN front[j] ELSE back[j - Len(front)]
    <3>1. front \in Seq(Entry) /\ back \in Seq(Entry)
      BY <1>1, <1>2
    <3>2. /\ front \o back \in Seq(Entry) /\ Len(front \o back) = Len(front) + Len(back)
          /\ \A j \in 1..Len(front) + Len(back) : (front \o back)[j] =
               IF j <= Len(front) THEN front[j] ELSE back[j - Len(front)]
      BY <3>1, ConcatProperties, Zenon
    <3> QED BY <1>3, <3>2, Zenon
  <2>2. Len(k) = Len(l) - 1
    BY <1>1, <1>2, <2>1
  <2>3. ASSUME NEW j \in 1..(Len(l) - 1) PROVE k[j] = IF j < p THEN l[j] ELSE l[j + 1]
    <3>1. CASE j < p
      <4>1. j \in 1..(p - 1) /\ j <= Len(front) /\ j \in 1..Len(front) + Len(back)
        BY <1>1, <1>2, <3>1
      <4> QED BY <1>1, <2>1, <3>1, <4>1
    <3>2. CASE j >= p
      <4>1. /\ ~(j <= Len(front)) /\ j \in 1..Len(front) + Len(back)
            /\ j - Len(front) \in 1..(Len(l) - p)
            /\ p + (j - Len(front)) = j + 1
        BY <1>1, <1>2, <3>2
      <4>2. k[j] = back[j - Len(front)]
        BY <2>1, <4>1
      <4>3. back[j - Len(front)] = l[p + (j - Len(front))]
        BY <1>2, <4>1
      <4> QED BY <3>2, <4>1, <4>2, <4>3
    <3> QED BY <3>1, <3>2
  <2> QED BY <2>1, <2>2, <2>3
<1>5. Unique(k)
  <2>1. ASSUME NEW i \in 1..Len(k), NEW j \in 1..Len(k), i # j
        PROVE  k[i].id # k[j].id /\ k[i].user # k[j].user
    <3> DEFINE a == IF i < p THEN i ELSE i + 1
               b == IF j < p THEN j ELSE j + 1
    <3>1. a \in 1..Len(l) /\ b \in 1..Len(l) /\ a # b
      BY <1>4, <2>1
    <3>2. k[i] = l[a] /\ k[j] = l[b]
      BY <1>4
    <3> HIDE DEF a, b
    <3> QED BY <3>1, <3>2 DEF Unique
  <2> QED BY <2>1 DEF Unique
<1>6. \A j \in 1..Len(k) : \E i \in 1..Len(l) : k[j] = l[i]
  BY <1>4
<1>7. ASSUME NEW i \in 1..Len(l), i # p PROVE \E j \in 1..Len(k) : k[j] = l[i]
  <2>1. CASE i < p
    BY <2>1, <1>4
  <2>2. CASE i > p
    <3>1. i - 1 \in 1..Len(k) /\ k[i - 1] = l[i]
      BY <2>2, <1>4
    <3> QED BY <3>1
  <2> QED BY <1>7, <2>1, <2>2
<1> QED
  BY <1>4, <1>5, <1>6, <1>7

(* IncrementSignCount on one list.                                         *)
LEMMA IncrementList ==
    ASSUME NEW l \in Seq(Entry), Unique(l), NEW p \in 1..Len(l),
           NEW k, k = Counted(l, p)
    PROVE  /\ k \in Seq(Entry) /\ Unique(k) /\ Len(k) = Len(l)
           /\ \A i \in 1..Len(l) :
                /\ k[i].id = l[i].id /\ k[i].user = l[i].user
                /\ k[i].count = IF i = p THEN l[i].count + 1 ELSE l[i].count
<1>1. l[p] \in Entry
  BY ElementOfSeq
<1>2. k = [l EXCEPT ![p] = [l[p] EXCEPT !.count = @ + 1]]
  BY DEF Counted
<1>3. [l[p] EXCEPT !.count = @ + 1] \in Entry
  <2>1. [l[p] EXCEPT !.count = @ + 1] =
          [id |-> l[p].id, user |-> l[p].user, count |-> l[p].count + 1]
    BY <1>1 DEF Entry
  <2>2. l[p].id \in Ids /\ l[p].user \in Users /\ l[p].count + 1 \in Nat
    BY <1>1 DEF Entry
  <2> QED BY <2>1, <2>2 DEF Entry
<1>4. /\ k \in Seq(Entry) /\ Len(k) = Len(l)
      /\ \A i \in 1..Len(l) : k[i] = IF i = p THEN [l[p] EXCEPT !.count = @ + 1] ELSE l[i]
  BY <1>2, <1>3, ExceptSeq
<1>5. \A i \in 1..Len(l) :
        /\ k[i].id = l[i].id /\ k[i].user = l[i].user
        /\ k[i].count = IF i = p THEN l[i].count + 1 ELSE l[i].count
  BY <1>1, <1>4, ElementOfSeq DEF Entry
<1> QED
  BY <1>4, <1>5 DEF Unique
-----------------------------------------------------------------------------
(* Put in memory: a new credential is there, and those of other users.     *)
LEMMA PutStored ==
    ASSUME StoredOK, NEW rp \in RPs, NEW ok \in BOOLEAN, NEW c \in Entry,
           \A i \in 1..Len(creds[rp]) : creds[rp][i].id # c.id,
           Put(rp, c, ok)
    PROVE  /\ file' = IF ok THEN creds' ELSE file
           /\ StoredOK'
           /\ \A q \in RPs : q # rp => creds'[q] = creds[q]
           /\ \A j \in 1..Len(creds'[rp]) :
                creds'[rp][j] = c \/ \E i \in 1..Len(creds[rp]) : creds'[rp][j] = creds[rp][i]
           /\ \E j \in 1..Len(creds'[rp]) : creds'[rp][j] = c
           /\ \A i \in 1..Len(creds[rp]) : creds[rp][i].user # c.user =>
                \E j \in 1..Len(creds'[rp]) : creds'[rp][j] = creds[rp][i]
<1> DEFINE l == creds[rp]
           p == PositionOfUser(rp, c.user)
           k == WithNew(l, p, c)
<1>1. l \in Seq(Entry) /\ Unique(l) /\ creds \in [RPs -> Seq(Entry)]
  BY DEF StoredOK
<1>2. IsPlace(l, p, c)
  <2>1. Len(l) \in Nat
    BY <1>1, LenProperties
  <2>2. \A i \in 1..Len(l) : l[i].id # c.id
    OBVIOUS
  <2>3. /\ p = 0 => \A i \in 1..Len(l) : l[i].user # c.user
        /\ p # 0 => p \in 1..Len(l) /\ l[p].user = c.user
    BY <1>1, UserPositionFacts
  <2> HIDE DEF l, p
  <2> QED BY <2>1, <2>2, <2>3 DEF IsPlace
<1>3. /\ creds' = [creds EXCEPT ![rp] = k]
      /\ file' = IF ok THEN creds' ELSE file
  BY DEF Put, SaveCreds, WithNew
<1> HIDE DEF l, p
<1>4. /\ k \in Seq(Entry) /\ Unique(k)
      /\ \A j \in 1..Len(k) : k[j] = c \/ \E i \in 1..Len(l) : k[j] = l[i]
      /\ \E j \in 1..Len(k) : k[j] = c
      /\ \A i \in 1..Len(l) : l[i].user # c.user => \E j \in 1..Len(k) : k[j] = l[i]
  <2> HIDE DEF k
  <2>1. k = WithNew(l, p, c)
    BY DEF k
  <2>2. l \in Seq(Entry) /\ Unique(l) /\ c \in Entry
    BY <1>1
  <2> QED BY <1>2, <2>1, <2>2, PutList, SMTT(30)
<1> HIDE DEF k
<1>5. creds'[rp] = k /\ creds' \in [RPs -> Seq(Entry)]
      /\ \A q \in RPs : q # rp => creds'[q] = creds[q]
  BY <1>1, <1>3, <1>4
<1>6. StoredOK'
  BY <1>4, <1>5 DEF StoredOK
<1> QED
  BY <1>3, <1>4, <1>5, <1>6 DEF l

(* Delete in memory: of this party's credentials only this one goes.       *)
LEMMA DeleteStored ==
    ASSUME StoredOK, NEW rp \in RPs, NEW id, NEW ok \in BOOLEAN, Delete(rp, id, ok)
    PROVE  /\ file' = IF ok THEN creds' ELSE file
           /\ StoredOK'
           /\ \A q \in RPs : q # rp => creds'[q] = creds[q]
           /\ \E i \in 1..Len(creds[rp]) : creds[rp][i].id = id
           /\ \A j \in 1..Len(creds'[rp]) :
                \E i \in 1..Len(creds[rp]) : creds'[rp][j] = creds[rp][i]
           /\ \A i \in 1..Len(creds[rp]) : creds[rp][i].id # id =>
                \E j \in 1..Len(creds'[rp]) : creds'[rp][j] = creds[rp][i]
<1> DEFINE l == creds[rp]
           p == PositionOf(rp, id)
           k == RemoveAt(l, p)
<1>1. l \in Seq(Entry) /\ Unique(l) /\ creds \in [RPs -> Seq(Entry)]
  BY DEF StoredOK
<1>2. p \in 1..Len(l) /\ l[p].id = id
  BY <1>1, PositionFacts DEF Delete
<1>3. /\ creds' = [creds EXCEPT ![rp] = k]
      /\ file' = IF ok THEN creds' ELSE file
  BY DEF Delete, SaveCreds, Without
<1> HIDE DEF l, p
<1>4. /\ k \in Seq(Entry) /\ Unique(k)
      /\ \A j \in 1..Len(k) : \E i \in 1..Len(l) : k[j] = l[i]
      /\ \A i \in 1..Len(l) : i # p => \E j \in 1..Len(k) : k[j] = l[i]
  <2> HIDE DEF k
  <2>1. k = RemoveAt(l, p)
    BY DEF k
  <2>2. l \in Seq(Entry) /\ Unique(l) /\ p \in 1..Len(l)
    BY <1>1, <1>2
  <2> QED BY <2>1, <2>2, WithoutList, SMTT(30)
<1> HIDE DEF k
<1>5. creds'[rp] = k /\ creds' \in [RPs -> Seq(Entry)]
      /\ \A q \in RPs : q # rp => creds'[q] = creds[q]
  BY <1>1, <1>3, <1>4
<1>6. StoredOK'
  BY <1>4, <1>5 DEF StoredOK
<1>7. \A i \in 1..Len(l) : l[i].id # id => \E j \in 1..Len(k) : k[j] = l[i]
  BY <1>2, <1>4
<1> QED
  BY <1>2, <1>3, <1>4, <1>5, <1>6, <1>7 DEF l
=============================================================================
