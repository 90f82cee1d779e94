---------------------------- MODULE DHCPv4Proofs ----------------------------
(***************************************************************************)
(* Theorems about DHCPv4, for any clients, address ranges, names, numbers  *)
(* of goroutines and bounds.                                               *)
(***************************************************************************)
EXTENDS DHCPv4, FiniteSetTheorems, SequenceTheorems, WellFoundedInduction, TLAPS

(***************************************************************************)
(* Induction on the turns of a loop, for a set of turns.                   *)
(***************************************************************************)
LEMMA LeastNat ==
    ASSUME NEW S \in SUBSET Nat, S # {}
    PROVE  \E m \in S : \A k \in S : m <= k
<1>1. PICK m \in S : \A k \in S : <<k, m>> \notin OpToRel(<, Nat)
  BY WFMin, NatLessThanWellFounded, Zenon
<1>2. \A k \in S : ~ (k < m)
  BY <1>1, Zenon DEF OpToRel
<1> QED
  BY <1>2

LEMMA TurnInduction ==
    ASSUME NEW n \in Nat, NEW T, 0 \in T, \A i \in 1..n : i - 1 \in T => i \in T
    PROVE  0..n \subseteq T
<1> SUFFICES ASSUME (0..n) \ T # {} PROVE FALSE
  OBVIOUS
<1>1. PICK m \in (0..n) \ T : \A k \in (0..n) \ T : m <= k
  <2>1. (0..n) \ T \in SUBSET Nat
    OBVIOUS
  <2> QED
    BY <2>1, LeastNat
<1>2. m # 0 /\ m - 1 \in 0..n /\ m \in 1..n /\ ~ (m <= m - 1)
  OBVIOUS
<1>3. m - 1 \in T
  BY <1>1, <1>2
<1> QED
  BY <1>2, <1>3

LEMMA MinMember ==
    ASSUME NEW S \in SUBSET Nat, S # {}
    PROVE  Min(S) \in S
BY LeastNat DEF Min

\* The turns of rmDynamicLease.
LEMMA rmDynamicTurnsDef ==
    ASSUME NEW s, NEW arr, NEW x, Len(s.leases) \in Nat
    PROVE  /\ rmDynamicTurns(s, arr, x)[0] = [s |-> s, arr |-> arr, stop |-> FALSE, err |-> FALSE]
           /\ \A i \in 1..Len(s.leases) :
                 rmDynamicTurns(s, arr, x)[i] = rmDynamicTurn(rmDynamicTurns(s, arr, x)[i - 1], i, x)
<1> DEFINE n == Len(s.leases)
           F == rmDynamicTurns(s, arr, x)
           Op(v, i) == rmDynamicTurn(v, i, x)
           b == [s |-> s, arr |-> arr, stop |-> FALSE, err |-> FALSE]
           Good(f, m) == f = [i \in 0..m |-> IF i = 0 THEN b ELSE Op(f[i - 1], i)]
           T == {m \in Nat : \E f : Good(f, m)}
<1>1. n \in Nat
  OBVIOUS
<1>2. F = CHOOSE f : Good(f, n)
  BY DEF rmDynamicTurns
<1> HIDE DEF n, F, Op, b
<1>3. 0 \in T
  <2>1. Good([i \in 0..0 |-> b], 0)
    OBVIOUS
  <2> QED
    BY <2>1
<1>4. ASSUME NEW k \in 1..n, k - 1 \in T PROVE k \in T
  <2>1. PICK f : Good(f, k - 1)
    BY <1>4
  <2> DEFINE g == [i \in 0..k |-> IF i = k THEN Op(f[k - 1], k) ELSE f[i]]
  <2>2. k \in Nat /\ g[k] = Op(g[k - 1], k) /\ \A i \in 0..(k - 1) : g[i] = f[i]
    BY <1>1
  <2>3. ASSUME NEW i \in 0..k PROVE g[i] = IF i = 0 THEN b ELSE Op(g[i - 1], i)
    <3>1. CASE i = k
      BY <1>1, <2>2, <3>1
    <3>2. CASE i \in 0..(k - 1)
      <4>1. f[i] = IF i = 0 THEN b ELSE Op(f[i - 1], i)
        BY <2>1, <3>2
      <4>2. g[i] = f[i] /\ (i # 0 => g[i - 1] = f[i - 1])
        BY <2>2, <3>2
      <4> QED
        BY <4>1, <4>2
    <3> QED
      BY <2>2, <3>1, <3>2
  <2>4. Good(g, k)
    BY <2>3
  <2> HIDE DEF g
  <2>5. k \in Nat /\ \E h : Good(h, k)
    BY <2>2, <2>4
  <2> QED
    BY <2>5, Zenon
<1>5. n \in T
  <2> HIDE DEF T
  <2>1. 0 \in T /\ \A k \in 1..n : k - 1 \in T => k \in T
    BY <1>3, <1>4
  <2>2. 0..n \subseteq T
    BY <1>1, <2>1, TurnInduction
  <2> QED
    BY <1>1, <2>2
<1>6. Good(F, n)
  BY <1>2, <1>5
<1>7. F[0] = b /\ \A i \in 1..n : F[i] = Op(F[i - 1], i)
  BY <1>1, <1>6
<1> QED
  BY <1>7 DEF n, F, Op, b

\* The tries of allocateLease.
LEMMA TriesDef ==
    ASSUME NEW s, NEW mac, Cardinality(Pool) \in Nat
    PROVE  /\ Tries(s, mac)[0] = s
           /\ \A i \in 1..Cardinality(Pool) :
                 Tries(s, mac)[i] = Busy(Tries(s, mac)[i - 1], mac)
<1> DEFINE n == Cardinality(Pool)
           F == Tries(s, mac)
           Op(v, i) == Busy(v, mac)
           b == s
           Good(f, m) == f = [i \in 0..m |-> IF i = 0 THEN b ELSE Op(f[i - 1], i)]
           T == {m \in Nat : \E f : Good(f, m)}
<1>1. n \in Nat
  OBVIOUS
<1>2. F = CHOOSE f : Good(f, n)
  BY DEF Tries
<1> HIDE DEF n, F, Op, b
<1>3. 0 \in T
  <2>1. Good([i \in 0..0 |-> b], 0)
    OBVIOUS
  <2> QED
    BY <2>1
<1>4. ASSUME NEW k \in 1..n, k - 1 \in T PROVE k \in T
  <2>1. PICK f : Good(f, k - 1)
    BY <1>4
  <2> DEFINE g == [i \in 0..k |-> IF i = k THEN Op(f[k - 1], k) ELSE f[i]]
  <2>2. k \in Nat /\ g[k] = Op(g[k - 1], k) /\ \A i \in 0..(k - 1) : g[i] = f[i]
    BY <1>1
  <2>3. ASSUME NEW i \in 0..k PROVE g[i] = IF i = 0 THEN b ELSE Op(g[i - 1], i)
    <3>1. CASE i = k
      BY <1>1, <2>2, <3>1
    <3>2. CASE i \in 0..(k - 1)
      <4>1. f[i] = IF i = 0 THEN b ELSE Op(f[i - 1], i)
        BY <2>1, <3>2
      <4>2. g[i] = f[i] /\ (i # 0 => g[i - 1] = f[i - 1])
        BY <2>2, <3>2
      <4> QED
        BY <4>1, <4>2
    <3> QED
      BY <2>2, <3>1, <3>2
  <2>4. Good(g, k)
    BY <2>3
  <2> HIDE DEF g
  <2>5. k \in Nat /\ \E h : Good(h, k)
    BY <2>2, <2>4
  <2> QED
    BY <2>5, Zenon
<1>5. n \in T
  <2> HIDE DEF T
  <2>1. 0 \in T /\ \A k \in 1..n : k - 1 \in T => k \in T
    BY <1>3, <1>4
  <2>2. 0..n \subseteq T
    BY <1>1, <2>1, TurnInduction
  <2> QED
    BY <1>1, <2>2
<1>6. Good(F, n)
  BY <1>2, <1>5
<1>7. F[0] = b /\ \A i \in 1..n : F[i] = Op(F[i - 1], i)
  BY <1>1, <1>6
<1> QED
  BY <1>7 DEF n, F, Op, b

\* The turns of handleRelease.
LEMMA ReleaseTurnsDef ==
    ASSUME NEW s, NEW c, NEW ip, Len(s.leases) \in Nat
    PROVE  /\ ReleaseTurns(s, c, ip)[0] = [s |-> s, arr |-> s.leases, stop |-> FALSE, err |-> FALSE]
           /\ \A i \in 1..Len(s.leases) :
                 ReleaseTurns(s, c, ip)[i] = ReleaseTurn(ReleaseTurns(s, c, ip)[i - 1], i, c, ip)
<1> DEFINE n == Len(s.leases)
           F == ReleaseTurns(s, c, ip)
           Op(v, i) == ReleaseTurn(v, i, c, ip)
           b == [s |-> s, arr |-> s.leases, stop |-> FALSE, err |-> FALSE]
           Good(f, m) == f = [i \in 0..m |-> IF i = 0 THEN b ELSE Op(f[i - 1], i)]
           T == {m \in Nat : \E f : Good(f, m)}
<1>1. n \in Nat
  OBVIOUS
<1>2. F = CHOOSE f : Good(f, n)
  BY DEF ReleaseTurns
<1> HIDE DEF n, F, Op, b
<1>3. 0 \in T
  <2>1. Good([i \in 0..0 |-> b], 0)
    OBVIOUS
  <2> QED
    BY <2>1
<1>4. ASSUME NEW k \in 1..n, k - 1 \in T PROVE k \in T
  <2>1. PICK f : Good(f, k - 1)
    BY <1>4
  <2> DEFINE g == [i \in 0..k |-> IF i = k THEN Op(f[k - 1], k) ELSE f[i]]
  <2>2. k \in Nat /\ g[k] = Op(g[k - 1], k) /\ \A i \in 0..(k - 1) : g[i] = f[i]
    BY <1>1
  <2>3. ASSUME NEW i \in 0..k PROVE g[i] = IF i = 0 THEN b ELSE Op(g[i - 1], i)
    <3>1. CASE i = k
      BY <1>1, <2>2, <3>1
    <3>2. CASE i \in 0..(k - 1)
      <4>1. f[i] = IF i = 0 THEN b ELSE Op(f[i - 1], i)
        BY <2>1, <3>2
      <4>2. g[i] = f[i] /\ (i # 0 => g[i - 1] = f[i - 1])
        BY <2>2, <3>2
      <4> QED
        BY <4>1, <4>2
    <3> QED
      BY <2>2, <3>1, <3>2
  <2>4. Good(g, k)
    BY <2>3
  <2> HIDE DEF g
  <2>5. k \in Nat /\ \E h : Good(h, k)
    BY <2>2, <2>4
  <2> QED
    BY <2>5, Zenon
<1>5. n \in T
  <2> HIDE DEF T
  <2>1. 0 \in T /\ \A k \in 1..n : k - 1 \in T => k \in T
    BY <1>3, <1>4
  <2>2. 0..n \subseteq T
    BY <1>1, <2>1, TurnInduction
  <2> QED
    BY <1>1, <2>2
<1>6. Good(F, n)
  BY <1>2, <1>5
<1>7. F[0] = b /\ \A i \in 1..n : F[i] = Op(F[i - 1], i)
  BY <1>1, <1>6
<1> QED
  BY <1>7 DEF n, F, Op, b

\* The turns of ResetLeases.
LEMMA ResetTurnsDef ==
    ASSUME NEW q, Len(q) \in Nat
    PROVE  /\ ResetTurns(q)[0] = NoServer
           /\ \A i \in 1..Len(q) :
                 ResetTurns(q)[i] = ResetTurn(ResetTurns(q)[i - 1], q[i])
<1> DEFINE n == Len(q)
           F == ResetTurns(q)
           Op(v, i) == ResetTurn(v, q[i])
           b == NoServer
           Good(f, m) == f = [i \in 0..m |-> IF i = 0 THEN b ELSE Op(f[i - 1], i)]
           T == {m \in Nat : \E f : Good(f, m)}
<1>1. n \in Nat
  OBVIOUS
<1>2. F = CHOOSE f : Good(f, n)
  BY DEF ResetTurns
<1> HIDE DEF n, F, Op, b
<1>3. 0 \in T
  <2>1. Good([i \in 0..0 |-> b], 0)
    OBVIOUS
  <2> QED
    BY <2>1
<1>4. ASSUME NEW k \in 1..n, k - 1 \in T PROVE k \in T
  <2>1. PICK f : Good(f, k - 1)
    BY <1>4
  <2> DEFINE g == [i \in 0..k |-> IF i = k THEN Op(f[k - 1], k) ELSE f[i]]
  <2>2. k \in Nat /\ g[k] = Op(g[k - 1], k) /\ \A i \in 0..(k - 1) : g[i] = f[i]
    BY <1>1
  <2>3. ASSUME NEW i \in 0..k PROVE g[i] = IF i = 0 THEN b ELSE Op(g[i - 1], i)
    <3>1. CASE i = k
      BY <1>1, <2>2, <3>1
    <3>2. CASE i \in 0..(k - 1)
      <4>1. f[i] = IF i = 0 THEN b ELSE Op(f[i - 1], i)
        BY <2>1, <3>2
      <4>2. g[i] = f[i] /\ (i # 0 => g[i - 1] = f[i - 1])
        BY <2>2, <3>2
      <4> QED
        BY <4>1, <4>2
    <3> QED
      BY <2>2, <3>1, <3>2
  <2>4. Good(g, k)
    BY <2>3
  <2> HIDE DEF g
  <2>5. k \in Nat /\ \E h : Good(h, k)
    BY <2>2, <2>4
  <2> QED
    BY <2>5, Zenon
<1>5. n \in T
  <2> HIDE DEF T
  <2>1. 0 \in T /\ \A k \in 1..n : k - 1 \in T => k \in T
    BY <1>3, <1>4
  <2>2. 0..n \subseteq T
    BY <1>1, <2>1, TurnInduction
  <2> QED
    BY <1>1, <2>2
<1>6. Good(F, n)
  BY <1>2, <1>5
<1>7. F[0] = b /\ \A i \in 1..n : F[i] = Op(F[i - 1], i)
  BY <1>1, <1>6
<1> QED
  BY <1>7 DEF n, F, Op, b

------------------------------------------------------------------------------
(***************************************************************************)
(* What the operators on the lease table do.  Sane is what holds of the    *)
(* server wherever leasesLock is held; Kept, what a section under the lock *)
(* does to the lease objects that exist; StaticsStay, what the sections    *)
(* that no administrator's removal runs do to the table; and Distinct, the *)
(* agreement of the table with the bits of leasedOffsets.                  *)
(***************************************************************************)
Object == Lease \cup {Blank}

Sane(s) ==
    /\ s \in Server
    /\ \A i \in 1..Len(s.leases) : s.obj[s.leases[i]] # Blank

KeptObject(o, p) ==
    /\ p.ip = o.ip /\ p.static = o.static
    /\ o.exp >= now => p.exp >= now
    /\ o.exp >= now \/ o.static => p.mac = o.mac

Kept(s, t) == \A l \in Ids : s.obj[l] # Blank => KeptObject(s.obj[l], t.obj[l])

StaticsStay(s, t) ==
    \A i \in 1..Len(s.leases) : s.obj[s.leases[i]].static =>
        \E j \in 1..Len(t.leases) : t.leases[j] = s.leases[i]

\* The addresses of a sequence of leases differ.
Uniq(q) == \A i, j \in 1..Len(q) : q[i].ip = q[j].ip => i = j

Distinct(s) ==
    /\ \A i, j \in 1..Len(s.leases) :
          s.obj[s.leases[i]].ip = s.obj[s.leases[j]].ip => i = j
    /\ \A i \in 1..Len(s.leases) :
          s.obj[s.leases[i]].ip \in Pool => s.obj[s.leases[i]].ip \in s.offs

\* A section in which no lease is added twice and no static one is removed.
Section(s, t) ==
    Sane(t) /\ Kept(s, t) /\ StaticsStay(s, t) /\ (Distinct(s) => Distinct(t))

LEMMA ConstantsType ==
    /\ LeaseTime \in Nat /\ MaxTime \in Nat /\ MaxTime >= 1
    /\ Ids \in SUBSET Nat /\ 0 \notin Ids
    /\ Addrs \subseteq Hosts \ {NoName} /\ Hosts \subseteq Nat
    /\ 0 \notin Addrs /\ Pool \subseteq Addrs /\ First \in Pool /\ Pool \in SUBSET Nat
    /\ Cardinality(Pool) \in Nat
<1>1. LeaseTime \in Nat /\ MaxTime \in Nat /\ MaxTime >= 1 /\ Ids \subseteq Nat \ {0}
  BY DHCPAssumption
<1>2. Addrs \cup Names \subseteq Nat \ {0} /\ Pool # {} /\ Pool \subseteq Addrs
  BY DHCPAssumption DEF Addrs
<1>3. First \in Pool
  BY <1>2, MinMember DEF First
<1>4. Cardinality(Pool) \in Nat
  BY DHCPAssumption, FS_CardinalityType
<1> QED
  BY <1>1, <1>2, <1>3, <1>4 DEF Hosts, GenerateHostname, NoName

LEMMA ObjectType ==
    /\ Blank \notin Lease
    /\ \A o \in Object :
          /\ o.mac \in Clients \cup {NoMAC} /\ o.host \in Hosts
          /\ o.exp \in 0..(MaxTime + LeaseTime) /\ o.static \in BOOLEAN
          /\ o.ip \in Addrs \cup {0}
          /\ o = Blank \/ o.ip \in Addrs
<1>1. Blank.ip = 0 /\ \A o \in Lease : o.ip \in Addrs
  BY DEF Blank, Lease
<1>2. Blank \notin Lease
  BY <1>1, ConstantsType
<1>3. \A o \in Lease : /\ o.mac \in Clients \cup {NoMAC} /\ o.host \in Hosts
                       /\ o.exp \in 0..(MaxTime + LeaseTime) /\ o.ip \in Addrs
  BY DEF Lease
<1>4. \A o \in Lease : o.static \in BOOLEAN
  BY DEF Lease
<1>5. /\ Blank.mac \in Clients \cup {NoMAC} /\ Blank.host \in Hosts
      /\ Blank.exp \in 0..(MaxTime + LeaseTime) /\ Blank.ip = 0
  BY ConstantsType DEF Blank, Hosts
<1>6. Blank.static = FALSE
  BY DEF Blank
<1>7. ASSUME NEW o \in Object
      PROVE  /\ o.mac \in Clients \cup {NoMAC} /\ o.host \in Hosts
             /\ o.exp \in 0..(MaxTime + LeaseTime)
             /\ o.ip \in Addrs \cup {0} /\ (o = Blank \/ o.ip \in Addrs)
  BY <1>3, <1>5 DEF Object
<1>8. ASSUME NEW o \in Object PROVE o.static \in BOOLEAN
  <2>1. CASE o = Blank
    BY <1>6, <2>1, Zenon
  <2>2. CASE o \in Lease
    BY <1>4, <2>2, Zenon
  <2> QED
    BY <2>1, <2>2 DEF Object
<1> QED
  BY <1>2, <1>7, <1>8, Zenon

\* A change of the fields other than the address.
LEMMA ObjectChange ==
    ASSUME NEW o \in Object
    PROVE  /\ [o EXCEPT !.host = NoName] \in Object
           /\ [o EXCEPT !.host = NoName].ip = o.ip
           /\ KeptObject(o, [o EXCEPT !.host = NoName])
           /\ \A h \in Hosts, e \in 0..(MaxTime + LeaseTime) : o # Blank =>
                 /\ [o EXCEPT !.host = h, !.exp = e] \in Lease
                 /\ e >= now => KeptObject(o, [o EXCEPT !.host = h, !.exp = e])
           /\ \A m \in Clients \cup {NoMAC} : o # Blank =>
                 /\ [o EXCEPT !.mac = m] \in Lease
                 /\ ~o.static /\ ~(o.exp >= now) => KeptObject(o, [o EXCEPT !.mac = m])
<1>1. NoName \in Hosts
  BY DEF Hosts
<1>2. [Blank EXCEPT !.host = NoName] = Blank
  <2>1. Blank \in [ip: {0}, mac: {NoMAC}, host: {NoName}, exp: {0}, static: {FALSE}]
    BY DEF Blank
  <2>2. \A b \in [ip: {0}, mac: {NoMAC}, host: {NoName}, exp: {0}, static: {FALSE}] :
          [b EXCEPT !.host = NoName] = b
    OBVIOUS
  <2> QED
    BY <2>1, <2>2
<1>3. ASSUME o \in Lease PROVE [o EXCEPT !.host = NoName] \in Lease
  BY <1>1, <1>3 DEF Lease
<1>4. [o EXCEPT !.host = NoName] \in Object
  BY <1>2, <1>3 DEF Object
<1>5. [o EXCEPT !.host = NoName].ip = o.ip /\ KeptObject(o, [o EXCEPT !.host = NoName])
  BY DEF Object, Lease, Blank, KeptObject
<1>6. ASSUME o # Blank, NEW h \in Hosts, NEW e \in 0..(MaxTime + LeaseTime)
      PROVE  /\ [o EXCEPT !.host = h, !.exp = e] \in Lease
             /\ e >= now => KeptObject(o, [o EXCEPT !.host = h, !.exp = e])
  BY <1>6 DEF Object, Lease, KeptObject
<1>7. ASSUME o # Blank, NEW m \in Clients \cup {NoMAC}
      PROVE  /\ [o EXCEPT !.mac = m] \in Lease
             /\ ~o.static /\ ~(o.exp >= now) => KeptObject(o, [o EXCEPT !.mac = m])
  BY <1>7 DEF Object, Lease, KeptObject
<1> QED
  BY <1>4, <1>5, <1>6, <1>7

LEMMA MapChange ==
    ASSUME NEW K, NEW f \in Maps(K), NEW k
    PROVE  /\ Without(f, k) \in Maps(K)
           /\ \A v \in Ids : k \in K => With(f, k, v) \in Maps(K)
<1>1. PICK D \in SUBSET K : f \in [D -> Ids]
  BY DEF Maps
<1>2. Without(f, k) \in [D \ {k} -> Ids]
  BY <1>1 DEF Without
<1>3. ASSUME NEW v \in Ids, k \in K PROVE With(f, k, v) \in [D \cup {k} -> Ids]
  BY <1>1 DEF With
<1>4. D \ {k} \in SUBSET K /\ (k \in K => D \cup {k} \in SUBSET K)
  OBVIOUS
<1> QED
  BY <1>2, <1>3, <1>4 DEF Maps

LEMMA RemoveAtProperties ==
    ASSUME NEW S, NEW s \in Seq(S), NEW i \in 1..Len(s)
    PROVE  /\ RemoveAt(s, i) \in Seq(S)
           /\ Len(RemoveAt(s, i)) = Len(s) - 1
           /\ \A j \in 1..(Len(s) - 1) :
                 RemoveAt(s, i)[j] = IF j < i THEN s[j] ELSE s[j + 1]
<1> DEFINE p == SubSeq(s, 1, i - 1)
           q == SubSeq(s, i + 1, Len(s))
<1>1. p \in Seq(S) /\ Len(p) = i - 1 /\ \A j \in 1..(i - 1) : p[j] = s[j]
  BY SubSeqProperties
<1>2. q \in Seq(S) /\ Len(q) = Len(s) - i /\ \A j \in 1..(Len(s) - i) : q[j] = s[i + j]
  BY SubSeqProperties
<1> HIDE DEF p, q
<1>3. p \o q \in Seq(S) /\ Len(p \o q) = Len(p) + Len(q)
  BY <1>1, <1>2, ConcatProperties
<1>4. ASSUME NEW j \in 1..(Len(s) - 1)
      PROVE  (p \o q)[j] = IF j < i THEN s[j] ELSE s[j + 1]
  BY <1>1, <1>2, ConcatProperties
<1>5. Len(p \o q) = Len(s) - 1
  BY <1>1, <1>2, <1>3
<1> QED
  BY <1>3, <1>4, <1>5 DEF RemoveAt, p, q

LEMMA FreshObject ==
    ASSUME NEW s \in Server, FreeIds(s) # {}
    PROVE  FreshId(s) \in Ids /\ s.obj[FreshId(s)] = Blank
BY ConstantsType, MinMember DEF FreeIds, FreshId

LEMMA ServerType ==
    ASSUME NEW s \in Server
    PROVE  /\ s.leases \in Seq(Ids) /\ Len(s.leases) \in Nat
           /\ \A i \in 1..Len(s.leases) : s.leases[i] \in Ids
           /\ s.hosts \in Maps(Hosts \ {NoName}) /\ s.ips \in Maps(Addrs)
           /\ s.offs \in SUBSET Pool /\ s.obj \in [Ids -> Object]
<1>1. /\ s.leases \in Seq(Ids) /\ s.hosts \in Maps(Hosts \ {NoName}) /\ s.ips \in Maps(Addrs)
      /\ s.offs \in SUBSET Pool /\ s.obj \in [Ids -> Object]
  BY DEF Server, Object
<1>2. Len(s.leases) \in Nat /\ \A i \in 1..Len(s.leases) : s.leases[i] \in Ids
  BY <1>1, LenProperties, ElementOfSeq
<1> QED
  BY <1>1, <1>2

LEMMA SectionReflexive ==
    ASSUME NEW s, Sane(s)
    PROVE  Section(s, s)
BY ServerType DEF Sane, Section, Kept, KeptObject, StaticsStay

LEMMA KeptExists ==
    ASSUME NEW s, NEW t, s \in Server, Kept(s, t), NEW l \in Ids, s.obj[l] # Blank
    PROVE  t.obj[l] # Blank
<1>1. t.obj[l].ip = s.obj[l].ip
  BY DEF Kept, KeptObject
<1>2. s.obj[l].ip \in Addrs /\ Blank.ip = 0
  BY ServerType, ObjectType DEF Blank
<1> QED
  BY <1>1, <1>2, ConstantsType

LEMMA KeptTransitive ==
    ASSUME NEW s, NEW t, NEW u, s \in Server, t \in Server, Kept(s, t), Kept(t, u)
    PROVE  Kept(s, u)
<1> SUFFICES ASSUME NEW l \in Ids, s.obj[l] # Blank PROVE KeptObject(s.obj[l], u.obj[l])
  BY DEF Kept
<1>1. s.obj[l] \in Object /\ t.obj[l] \in Object
  BY ServerType
<1>2. KeptObject(s.obj[l], t.obj[l])
  BY DEF Kept
<1>3. t.obj[l] # Blank
  BY KeptExists
<1>4. KeptObject(t.obj[l], u.obj[l])
  BY <1>3 DEF Kept
<1> QED
  BY <1>2, <1>4 DEF KeptObject

LEMMA StaticsTransitive ==
    ASSUME NEW s, NEW t, NEW u, Sane(s), t \in Server,
           Kept(s, t), StaticsStay(s, t), StaticsStay(t, u)
    PROVE  StaticsStay(s, u)
<1> SUFFICES ASSUME NEW i \in 1..Len(s.leases), s.obj[s.leases[i]].static
             PROVE  \E k \in 1..Len(u.leases) : u.leases[k] = s.leases[i]
  BY DEF StaticsStay
<1>1. PICK j \in 1..Len(t.leases) : t.leases[j] = s.leases[i]
  BY DEF StaticsStay
<1>2. s.leases[i] \in Ids /\ s.obj[s.leases[i]] # Blank
  BY ServerType DEF Sane
<1>3. t.obj[t.leases[j]].static
  BY <1>1, <1>2 DEF Kept, KeptObject
<1> QED
  BY <1>1, <1>3 DEF StaticsStay

LEMMA SectionTransitive ==
    ASSUME NEW s, NEW t, NEW u, Sane(s), Section(s, t), Section(t, u)
    PROVE  Section(s, u)
<1>1. s \in Server /\ t \in Server /\ u \in Server
  BY DEF Sane, Section
<1>2. Kept(s, u) /\ StaticsStay(s, u)
  BY <1>1, KeptTransitive, StaticsTransitive DEF Section
<1> QED
  BY <1>2 DEF Section

\* A section that only changes one lease object.
LEMMA ObjectSection ==
    ASSUME NEW s, Sane(s), NEW l \in Ids, NEW o \in Lease,
           s.obj[l] = Blank \/ KeptObject(s.obj[l], o)
    PROVE  LET t == [s EXCEPT !.obj = [@ EXCEPT ![l] = o]] IN
           /\ Section(s, t) /\ t.leases = s.leases /\ t.offs = s.offs
           /\ t.hosts = s.hosts /\ t.ips = s.ips
           /\ t.obj[l] = o /\ t.obj[l] # Blank
           /\ \A k \in Ids : k # l => t.obj[k] = s.obj[k]
<1> DEFINE t == [s EXCEPT !.obj = [@ EXCEPT ![l] = o]]
<1>1. s \in Server /\ o \in Object /\ s.obj \in [Ids -> Object] /\ o # Blank
  BY ServerType, ObjectType DEF Sane, Object
<1>2. /\ t.leases = s.leases /\ t.offs = s.offs /\ t.hosts = s.hosts /\ t.ips = s.ips
      /\ t.obj = [s.obj EXCEPT ![l] = o]
  BY <1>1 DEF Server
<1>3. t \in Server
  BY <1>1 DEF Server, Object
<1> HIDE DEF t
<1>4. t.obj[l] = o /\ \A k \in Ids : k # l => t.obj[k] = s.obj[k]
  BY <1>1, <1>2
<1>5. Sane(t)
  <2> SUFFICES ASSUME NEW i \in 1..Len(s.leases) PROVE t.obj[s.leases[i]] # Blank
    BY <1>2, <1>3 DEF Sane
  <2>1. s.leases[i] \in Ids /\ s.obj[s.leases[i]] # Blank
    BY <1>1, ServerType DEF Sane
  <2> QED
    BY <1>1, <1>4, <2>1
<1>6. Kept(s, t)
  <2> SUFFICES ASSUME NEW k \in Ids, s.obj[k] # Blank PROVE KeptObject(s.obj[k], t.obj[k])
    BY DEF Kept
  <2>1. CASE k = l
    BY <1>4, <2>1
  <2>2. CASE k # l
    BY <1>4, <2>2 DEF KeptObject
  <2> QED
    BY <2>1, <2>2
<1>7. \A i \in 1..Len(s.leases) : t.obj[s.leases[i]].ip = s.obj[s.leases[i]].ip
  BY <1>1, <1>6, ServerType DEF Sane, Kept, KeptObject
<1>8. StaticsStay(s, t) /\ (Distinct(s) => Distinct(t))
  BY <1>2, <1>7 DEF StaticsStay, Distinct
<1> QED
  BY <1>1, <1>2, <1>4, <1>5, <1>6, <1>8 DEF Section, t

\* The renaming of rmDynamicLease, for anything that is found at its place.
LEMMA RenameSection ==
    ASSUME NEW s, Sane(s), NEW m
    PROVE  LET t == [s EXCEPT !.obj[m].host = NoName] IN
           Section(s, t) /\ t.leases = s.leases
<1> DEFINE t == [s EXCEPT !.obj[m].host = NoName]
<1>1. s \in Server /\ s.obj \in [Ids -> Object]
  BY ServerType DEF Sane
<1>2. /\ t.leases = s.leases /\ t.offs = s.offs /\ t.hosts = s.hosts /\ t.ips = s.ips
      /\ t.obj = [s.obj EXCEPT ![m] = [s.obj[m] EXCEPT !.host = NoName]]
  BY <1>1 DEF Server
<1>3. \A k \in Ids : t.obj[k] \in Object /\ t.obj[k].ip = s.obj[k].ip /\ KeptObject(s.obj[k], t.obj[k])
  <2> SUFFICES ASSUME NEW k \in Ids
               PROVE  t.obj[k] \in Object /\ t.obj[k].ip = s.obj[k].ip /\ KeptObject(s.obj[k], t.obj[k])
    OBVIOUS
  <2>1. CASE k = m
    <3>1. s.obj[k] \in Object
      BY <1>1
    <3>2. t.obj[k] = [s.obj[k] EXCEPT !.host = NoName]
      BY <1>1, <1>2, <2>1
    <3>3. /\ [s.obj[k] EXCEPT !.host = NoName] \in Object
          /\ [s.obj[k] EXCEPT !.host = NoName].ip = s.obj[k].ip
          /\ KeptObject(s.obj[k], [s.obj[k] EXCEPT !.host = NoName])
      BY <3>1, ObjectChange
    <3> HIDE DEF t
    <3> QED
      BY <3>2, <3>3
  <2>2. CASE k # m
    <3>1. t.obj[k] = s.obj[k]
      BY <1>1, <1>2, <2>2
    <3> QED
      BY <1>1, <3>1 DEF KeptObject
  <2> QED
    BY <2>1, <2>2
<1>4. t.obj \in [Ids -> Object]
  BY <1>1, <1>2, <1>3
<1>5. t \in Server
  BY <1>1, <1>2, <1>4 DEF Server, Object
<1> HIDE DEF t
<1>6. Sane(t)
  <2> SUFFICES ASSUME NEW i \in 1..Len(s.leases) PROVE t.obj[s.leases[i]] # Blank
    BY <1>2, <1>5 DEF Sane
  <2>1. s.leases[i] \in Ids /\ s.obj[s.leases[i]] # Blank
    BY <1>1, ServerType DEF Sane
  <2>2. s.obj[s.leases[i]].ip \in Addrs /\ Blank.ip = 0
    BY <1>1, <2>1, ObjectType DEF Blank
  <2> QED
    BY <1>3, <2>1, <2>2, ConstantsType
<1>7. \A i \in 1..Len(s.leases) : t.obj[s.leases[i]].ip = s.obj[s.leases[i]].ip
  BY <1>1, <1>3, ServerType
<1>8. Kept(s, t) /\ StaticsStay(s, t) /\ (Distinct(s) => Distinct(t))
  BY <1>2, <1>3, <1>7 DEF Kept, StaticsStay, Distinct
<1> QED
  BY <1>2, <1>6, <1>8 DEF Section, t

\* What the searches of the table find is at some place of it.
LEMMA FoundLease ==
    ASSUME NEW s, s \in Server
    PROVE  /\ \A mac : findLease(s, mac) = NoLease \/
                \E i \in 1..Len(s.leases) : findLease(s, mac) = s.leases[i]
           /\ \A mac, ip : findLeaseForIP(s, ip, mac) = NoLease \/
                \E i \in 1..Len(s.leases) : findLeaseForIP(s, ip, mac) = s.leases[i]
           /\ findExpiredLease(s) = NoLease \/
                \E i \in 1..Len(s.leases) :
                   /\ findExpiredLease(s) = s.leases[i]
                   /\ ~s.obj[s.leases[i]].static /\ s.obj[s.leases[i]].exp < now
<1>1. Len(s.leases) \in Nat
  BY ServerType
<1>2. ASSUME NEW mac
      PROVE  findLease(s, mac) = NoLease \/
                \E i \in 1..Len(s.leases) : findLease(s, mac) = s.leases[i]
  <2> DEFINE I == {i \in 1..Len(s.leases) : s.obj[s.leases[i]].mac = mac}
  <2>1. I \in SUBSET Nat /\ I \subseteq 1..Len(s.leases)
    BY <1>1
  <2>2. findLease(s, mac) = LET k == IF I # {} THEN Min(I) ELSE 0
                            IN IF k = 0 THEN NoLease ELSE s.leases[k]
    BY DEF findLease, FindLease, SelectInSeq
  <2> HIDE DEF I
  <2> QED
    BY <2>1, <2>2, MinMember
<1>3. ASSUME NEW mac, NEW ip
      PROVE  findLeaseForIP(s, ip, mac) = NoLease \/
                \E i \in 1..Len(s.leases) : findLeaseForIP(s, ip, mac) = s.leases[i]
  <2> DEFINE I == {i \in 1..Len(s.leases) : s.obj[s.leases[i]].mac = mac /\ s.obj[s.leases[i]].ip = ip}
  <2>1. I \in SUBSET Nat /\ I \subseteq 1..Len(s.leases)
    BY <1>1
  <2>2. findLeaseForIP(s, ip, mac) = LET k == IF I # {} THEN Min(I) ELSE 0
                            IN IF k = 0 THEN NoLease ELSE s.leases[k]
    BY DEF findLeaseForIP, FindLease, SelectInSeq
  <2> HIDE DEF I
  <2> QED
    BY <2>1, <2>2, MinMember
<1>4. findExpiredLease(s) = NoLease \/
        \E i \in 1..Len(s.leases) :
           /\ findExpiredLease(s) = s.leases[i]
           /\ ~s.obj[s.leases[i]].static /\ s.obj[s.leases[i]].exp < now
  <2> DEFINE I == {i \in 1..Len(s.leases) : ~s.obj[s.leases[i]].static /\ s.obj[s.leases[i]].exp < now}
  <2>1. I \in SUBSET Nat /\ I \subseteq 1..Len(s.leases)
    BY <1>1
  <2>2. findExpiredLease(s) = LET k == IF I # {} THEN Min(I) ELSE 0
                              IN IF k = 0 THEN NoLease ELSE s.leases[k]
    BY DEF findExpiredLease, FindLease, SelectInSeq
  <2>3. \A i \in I : ~s.obj[s.leases[i]].static /\ s.obj[s.leases[i]].exp < now
    BY Zenon
  <2> HIDE DEF I
  <2>4. CASE I # {}
    BY <2>1, <2>2, <2>3, <2>4, MinMember
  <2>5. CASE I = {}
    BY <2>2, <2>5
  <2> QED
    BY <2>4, <2>5
<1> QED
  BY <1>2, <1>3, <1>4, Zenon

\* addLease appends the lease and marks its offset, or fails and changes nothing.
LEMMA AddLease ==
    ASSUME NEW s, Sane(s), NEW l \in Ids, s.obj[l] # Blank
    PROVE  LET t == addLease(s, l).s IN
           /\ Sane(t) /\ t.obj = s.obj /\ StaticsStay(s, t)
           /\ \/ t = s
              \/ /\ t.leases = Append(s.leases, l) /\ s.offs \subseteq t.offs
                 /\ s.obj[l].ip \in Pool => s.obj[l].ip \in t.offs
<1> DEFINE t == addLease(s, l).s
           o == s.obj[l]
           hs == IF o.host = NoName THEN s.hosts ELSE With(s.hosts, o.host, l)
           of == s.offs \cup {IF o.ip \in Pool THEN o.ip ELSE First}
           u == [s EXCEPT !.hosts = hs, !.ips = With(s.ips, o.ip, l),
                          !.leases = Append(s.leases, l), !.offs = of]
<1>1. /\ s \in Server /\ s.leases \in Seq(Ids) /\ Len(s.leases) \in Nat
      /\ s.hosts \in Maps(Hosts \ {NoName}) /\ s.ips \in Maps(Addrs)
      /\ s.offs \in SUBSET Pool /\ s.obj \in [Ids -> Object]
  BY ServerType DEF Sane
<1>2. o \in Object /\ o.ip \in Addrs /\ o.host \in Hosts
  BY <1>1, ObjectType
<1>3. t = s \/ t = u
  BY DEF addLease
<1> HIDE DEF t, o
<1>4. hs \in Maps(Hosts \ {NoName}) /\ With(s.ips, o.ip, l) \in Maps(Addrs)
  BY <1>1, <1>2, MapChange
<1>5. of \in SUBSET Pool
  BY <1>1, ConstantsType
<1>6. /\ Append(s.leases, l) \in Seq(Ids) /\ Len(Append(s.leases, l)) = Len(s.leases) + 1
      /\ Append(s.leases, l)[Len(s.leases) + 1] = l
      /\ \A i \in 1..Len(s.leases) : Append(s.leases, l)[i] = s.leases[i]
  BY <1>1, AppendProperties
<1> HIDE DEF hs
<1>7. u \in Server /\ u.obj = s.obj /\ u.leases = Append(s.leases, l) /\ u.offs = of
  <2> HIDE DEF of
  <2> QED
    BY <1>1, <1>4, <1>5, <1>6 DEF Server
<1> HIDE DEF u
<1>8. Sane(u)
  <2> SUFFICES ASSUME NEW i \in 1..(Len(s.leases) + 1) PROVE u.obj[u.leases[i]] # Blank
    BY <1>6, <1>7 DEF Sane
  <2>1. CASE i = Len(s.leases) + 1
    BY <1>6, <1>7, <2>1 DEF o
  <2>2. CASE i \in 1..Len(s.leases)
    BY <1>6, <1>7, <2>2 DEF Sane
  <2> QED
    BY <1>1, <2>1, <2>2
<1>9. StaticsStay(s, u)
  <2>1. \A i \in 1..Len(s.leases) : i \in 1..Len(u.leases) /\ u.leases[i] = s.leases[i]
    BY <1>1, <1>6, <1>7
  <2> QED
    BY <2>1 DEF StaticsStay
<1>10. CASE t = s
  BY <1>10, SectionReflexive DEF Section, t
<1>11. CASE t = u
  <2>1. s.offs \subseteq t.offs /\ (o.ip \in Pool => o.ip \in t.offs)
    BY <1>7, <1>11
  <2>2. Sane(t) /\ t.obj = s.obj /\ StaticsStay(s, t) /\ t.leases = Append(s.leases, l)
    BY <1>7, <1>8, <1>9, <1>11
  <2> QED
    BY <2>1, <2>2 DEF t, o
<1> QED
  BY <1>3, <1>10, <1>11

\* The table stays in agreement with the bits when the address is new to it.
LEMMA AddDistinct ==
    ASSUME NEW s, Sane(s), NEW l \in Ids, s.obj[l] # Blank, Distinct(s),
           \A i \in 1..Len(s.leases) : s.obj[s.leases[i]].ip # s.obj[l].ip
    PROVE  Distinct(addLease(s, l).s)
<1> DEFINE t == addLease(s, l).s
<1>1. /\ t.obj = s.obj
      /\ \/ t = s
         \/ /\ t.leases = Append(s.leases, l) /\ s.offs \subseteq t.offs
            /\ s.obj[l].ip \in Pool => s.obj[l].ip \in t.offs
  BY AddLease
<1> HIDE DEF t
<1>2. CASE t = s
  BY <1>2 DEF t
<1>3. CASE /\ t.leases = Append(s.leases, l) /\ s.offs \subseteq t.offs
           /\ s.obj[l].ip \in Pool => s.obj[l].ip \in t.offs
  <2>1. s.leases \in Seq(Ids) /\ Len(s.leases) \in Nat
    BY ServerType DEF Sane
  <2>2. /\ Len(t.leases) = Len(s.leases) + 1 /\ t.leases[Len(s.leases) + 1] = l
        /\ \A i \in 1..Len(s.leases) : t.leases[i] = s.leases[i]
    BY <1>3, <2>1, AppendProperties
  <2>3. ASSUME NEW i \in 1..Len(t.leases), NEW j \in 1..Len(t.leases),
               t.obj[t.leases[i]].ip = t.obj[t.leases[j]].ip
        PROVE  i = j
    <3>1. i \in 1..Len(s.leases) \/ i = Len(s.leases) + 1
      BY <2>1, <2>2
    <3>2. j \in 1..Len(s.leases) \/ j = Len(s.leases) + 1
      BY <2>1, <2>2
    <3> QED
      BY <1>1, <2>2, <2>3, <3>1, <3>2 DEF Distinct
  <2>4. ASSUME NEW i \in 1..Len(t.leases), t.obj[t.leases[i]].ip \in Pool
        PROVE  t.obj[t.leases[i]].ip \in t.offs
    <3>1. i \in 1..Len(s.leases) \/ i = Len(s.leases) + 1
      BY <2>1, <2>2
    <3> QED
      BY <1>1, <1>3, <2>2, <2>4, <3>1 DEF Distinct
  <2> QED
    BY <2>3, <2>4 DEF Distinct, t
<1> QED
  BY <1>1, <1>2, <1>3

Clock == now \in 1..MaxTime

\* A dynamic lease that is not committed or has expired: the only kind that may
\* change hands.
Loose(s, l) == l \in Ids /\ s.obj[l] # Blank /\ ~s.obj[l].static /\ ~ (s.obj[l].exp >= now)

LEMMA ReserveSection ==
    ASSUME Clock, NEW s, Sane(s), HasRoom(s), NEW mac \in Clients \cup {NoMAC}
    PROVE  LET r == reserveLease(s, mac) IN
           Section(s, r.s) /\ (r.l # NoLease => Loose(r.s, r.l))
<1> DEFINE r == reserveLease(s, mac)
           free == Pool \ s.offs
           old == findExpiredLease(s)
<1>1. s \in Server /\ s.obj \in [Ids -> Object]
  BY ServerType DEF Sane
<1>2. CASE free # {}
  <2> DEFINE l == FreshId(s)
             o == [Blank EXCEPT !.ip = Min(free), !.mac = mac]
             t == New(s, o)
             u == addLease(t, l).s
  <2>1. r = [l |-> l, s |-> u]
    BY <1>2 DEF reserveLease
  <2>2. Min(free) \in free /\ free \subseteq Pool
    <3>1. free \in SUBSET Nat
      BY ConstantsType
    <3> HIDE DEF free
    <3>2. Min(free) \in free
      BY <1>2, <3>1, MinMember
    <3> QED
      BY <3>2 DEF free
  <2> HIDE DEF free
  <2>3. l \in Ids /\ s.obj[l] = Blank
    <3>1. FreeIds(s) # {}
      BY <1>2 DEF HasRoom, free
    <3> QED
      BY <1>1, <3>1, FreshObject
  <2>4. o \in Lease /\ o.ip = Min(free) /\ o.exp = 0 /\ o.static = FALSE
    <3>1. Min(free) \in Addrs /\ mac \in Clients \cup {NoMAC}
      BY <2>2, ConstantsType
    <3>2. Blank \in [ip: {0}, mac: {NoMAC}, host: {NoName}, exp: {0}, static: {FALSE}]
      BY DEF Blank
    <3>3. 0 \in 0..(MaxTime + LeaseTime) /\ NoName \in Hosts /\ FALSE \in BOOLEAN
      BY ConstantsType DEF Hosts
    <3>4. \A b \in [ip: {0}, mac: {NoMAC}, host: {NoName}, exp: {0}, static: {FALSE}] :
            /\ [b EXCEPT !.ip = Min(free), !.mac = mac] \in Lease
            /\ [b EXCEPT !.ip = Min(free), !.mac = mac].ip = Min(free)
            /\ [b EXCEPT !.ip = Min(free), !.mac = mac].exp = 0
            /\ [b EXCEPT !.ip = Min(free), !.mac = mac].static = FALSE
      BY <3>1, <3>3 DEF Lease
    <3> QED
      BY <3>2, <3>4
  <2> HIDE DEF l, o
  <2>5. t = [s EXCEPT !.obj = [@ EXCEPT ![l] = o]]
    BY DEF New, l
  <2> HIDE DEF t
  <2>6. /\ Section(s, t) /\ t.leases = s.leases /\ t.offs = s.offs
        /\ t.obj[l] = o /\ t.obj[l] # Blank
    BY <2>3, <2>4, <2>5, ObjectSection
  <2>7. Sane(t)
    BY <2>6 DEF Section
  <2>8. Sane(u) /\ u.obj = t.obj /\ StaticsStay(t, u)
    BY <2>3, <2>6, <2>7, AddLease
  <2>9. Kept(t, u)
    BY <2>8 DEF Kept, KeptObject
  <2>10. ASSUME Distinct(t) PROVE Distinct(u)
    <3>1. \A i \in 1..Len(t.leases) : t.obj[t.leases[i]].ip # t.obj[l].ip
      BY <2>2, <2>4, <2>6, <2>10 DEF Distinct, free
    <3> QED
      BY <2>3, <2>6, <2>7, <2>10, <3>1, AddDistinct
  <2>11. Section(t, u)
    BY <2>8, <2>9, <2>10 DEF Section
  <2>12. Section(s, u)
    BY <2>6, <2>11, SectionTransitive
  <2>13. Loose(u, l)
    <3>1. ~ (0 >= now)
      BY ConstantsType DEF Clock
    <3> QED
      BY <2>3, <2>4, <2>6, <2>8, <3>1 DEF Loose
  <2>14. r.s = u /\ r.l = l
    BY <2>1
  <2> HIDE DEF r, u
  <2> QED
    BY <2>12, <2>13, <2>14 DEF r
<1>3. CASE free = {} /\ old # NoLease
  <2> DEFINE t == [s EXCEPT !.obj[old].mac = mac]
             o == [s.obj[old] EXCEPT !.mac = mac]
  <2>1. r = [l |-> old, s |-> t]
    BY <1>3 DEF reserveLease
  <2>2. PICK i \in 1..Len(s.leases) :
           old = s.leases[i] /\ ~s.obj[s.leases[i]].static /\ s.obj[s.leases[i]].exp < now
    BY <1>1, <1>3, FoundLease
  <2>3. old \in Ids /\ s.obj[old] # Blank /\ s.obj[old] \in Object
    BY <1>1, <2>2, ServerType DEF Sane
  <2>4. ~s.obj[old].static /\ ~ (s.obj[old].exp >= now)
    <3>1. s.obj[old].exp \in 0..(MaxTime + LeaseTime)
      BY <2>3, ObjectType
    <3> HIDE DEF old
    <3> QED
      BY <2>2, <3>1, ConstantsType DEF Clock
  <2>5. o \in Lease /\ KeptObject(s.obj[old], o)
    BY <2>3, <2>4, ObjectChange
  <2>6. o.exp = s.obj[old].exp /\ o.static = s.obj[old].static
    BY <2>3, ObjectType DEF Object, Lease
  <2> HIDE DEF o, old
  <2>7. t = [s EXCEPT !.obj = [@ EXCEPT ![old] = o]]
    BY DEF o
  <2> HIDE DEF t
  <2>8. Section(s, t) /\ t.obj[old] = o /\ t.obj[old] # Blank
    BY <2>3, <2>5, <2>7, ObjectSection
  <2>9. Loose(t, old)
    BY <2>3, <2>4, <2>6, <2>8 DEF Loose
  <2>10. r.s = t /\ r.l = old
    BY <2>1
  <2> HIDE DEF r
  <2> QED
    BY <2>8, <2>9, <2>10 DEF r
<1>4. CASE free = {} /\ old = NoLease
  <2>1. r = [l |-> NoLease, s |-> s]
    BY <1>4 DEF reserveLease
  <2>2. r.s = s /\ r.l = NoLease
    BY <2>1
  <2> HIDE DEF r
  <2> QED
    BY <2>2, SectionReflexive DEF r
<1> QED
  BY <1>2, <1>3, <1>4

LEMMA BusySection ==
    ASSUME Clock, NEW s, Sane(s), HasRoom(s), NEW mac \in Clients \cup {NoMAC},
           reserveLease(s, mac).l # NoLease
    PROVE  Section(s, Busy(s, mac))
<1> DEFINE r == reserveLease(s, mac)
           l == r.l
           o == [r.s.obj[l] EXCEPT !.mac = NoMAC, !.host = NoName, !.exp = now + LeaseTime]
<1>1. Section(s, r.s) /\ Loose(r.s, l)
  BY ReserveSection
<1>2. Sane(r.s) /\ l \in Ids /\ r.s.obj[l] # Blank /\ r.s.obj[l] \in Object
  BY <1>1, ServerType DEF Section, Loose, Sane
<1>3. now + LeaseTime \in 0..(MaxTime + LeaseTime) /\ NoName \in Hosts
  BY ConstantsType DEF Clock, Hosts
<1>4. Busy(s, mac) = [r.s EXCEPT !.obj = [@ EXCEPT ![l] = o]]
  BY DEF Busy, blocklistLease
<1> HIDE DEF r, l
<1>5. o \in Lease /\ KeptObject(r.s.obj[l], o)
  BY <1>1, <1>2, <1>3 DEF Object, Lease, KeptObject, Loose
<1> HIDE DEF o
<1>6. Section(r.s, Busy(s, mac))
  BY <1>2, <1>4, <1>5, ObjectSection
<1> QED
  BY <1>1, <1>6, SectionTransitive

LEMMA AllocateSection ==
    ASSUME Clock, NEW s, Sane(s), NEW mac \in Clients \cup {NoMAC}, NEW r \in allocateLease(s, mac)
    PROVE  Section(s, r.s) /\ (r.l # NoLease => Loose(r.s, r.l))
<1> DEFINE F == Tries(s, mac)
           n == Cardinality(Pool)
<1>1. PICK k \in 0..n : Possible(s, mac, k) /\ r = reserveLease(F[k], mac)
  BY DEF allocateLease
<1>2. F[0] = s /\ \A i \in 1..n : F[i] = Busy(F[i - 1], mac)
  BY TriesDef, ConstantsType
<1>3. /\ \A j \in 0..(k - 1) : reserveLease(F[j], mac).l # NoLease
      /\ \A j \in 0..k : HasRoom(F[j])
  BY <1>1 DEF Possible
<1>4. n \in Nat /\ k \in Nat /\ k <= n
  BY <1>1, ConstantsType
<1> HIDE DEF F, n
<1> DEFINE T == {j \in Nat : Section(s, F[j])}
<1>5. 0 \in T
  BY <1>2, SectionReflexive
<1>6. ASSUME NEW i \in 1..k, i - 1 \in T PROVE i \in T
  <2>1. i \in Nat /\ i \in 1..n /\ i - 1 \in 0..(k - 1) /\ i - 1 \in 0..k
    BY <1>4
  <2>2. Section(s, F[i - 1])
    BY <1>6
  <2>3. Section(F[i - 1], Busy(F[i - 1], mac))
    <3>1. Sane(F[i - 1]) /\ HasRoom(F[i - 1]) /\ reserveLease(F[i - 1], mac).l # NoLease
      BY <1>3, <2>1, <2>2 DEF Section
    <3> QED
      BY <3>1, BusySection
  <2>4. Section(s, F[i])
    BY <1>2, <2>1, <2>2, <2>3, SectionTransitive
  <2> QED
    BY <2>1, <2>4
<1>7. k \in T
  <2> HIDE DEF T
  <2>1. 0 \in T /\ \A i \in 1..k : i - 1 \in T => i \in T
    BY <1>5, <1>6
  <2>2. 0..k \subseteq T
    BY <1>4, <2>1, TurnInduction
  <2> QED
    BY <1>4, <2>2
<1>8. Section(s, F[k]) /\ Sane(F[k]) /\ HasRoom(F[k])
  BY <1>3, <1>4, <1>7 DEF Section
<1>9. Section(F[k], r.s) /\ (r.l # NoLease => Loose(r.s, r.l))
  BY <1>1, <1>8, ReserveSection
<1> QED
  BY <1>8, <1>9, SectionTransitive

\* A change of the indexes alone.
LEMMA IndexSection ==
    ASSUME NEW s, Sane(s), NEW hs \in Maps(Hosts \ {NoName}), NEW is \in Maps(Addrs)
    PROVE  LET t == [s EXCEPT !.hosts = hs, !.ips = is] IN
           Section(s, t) /\ t.obj = s.obj /\ t.leases = s.leases
<1> DEFINE t == [s EXCEPT !.hosts = hs, !.ips = is]
<1>1. s \in Server
  BY DEF Sane
<1>2. t \in Server /\ t.obj = s.obj /\ t.leases = s.leases /\ t.offs = s.offs
  BY <1>1 DEF Server
<1> HIDE DEF t
<1>3. Section(s, t)
  BY <1>2, SectionReflexive DEF Section, Sane, Kept, StaticsStay, Distinct
<1> QED
  BY <1>2, <1>3 DEF t

LEMMA CommitSection ==
    ASSUME Clock, NEW s, Sane(s), NEW l \in Ids, s.obj[l] # Blank, NEW sent \in Hosts
    PROVE  LET t == commitLease(s, l, sent) IN Section(s, t) /\ t.obj[l] # Blank
<1> DEFINE o == s.obj[l]
           wanted == validHostnameForClient(sent, o.ip)
           host == CASE wanted \notin DOMAIN s.hosts -> wanted
                     [] wanted \in DOMAIN s.hosts /\ o.host = NoName -> GenerateHostname(o.ip)
                     [] wanted \in DOMAIN s.hosts /\ o.host # NoName -> o.host
           kept == IF o.host # NoName /\ o.host # host THEN Without(s.hosts, o.host) ELSE s.hosts
           hs == IF host = NoName THEN kept ELSE With(kept, host, l)
           is == With(s.ips, o.ip, l)
           p == [o EXCEPT !.host = host, !.exp = now + LeaseTime]
           t == [s EXCEPT !.obj = [@ EXCEPT ![l] = p]]
           u == [t EXCEPT !.hosts = hs, !.ips = is]
<1>1. /\ s \in Server /\ s.hosts \in Maps(Hosts \ {NoName}) /\ s.ips \in Maps(Addrs)
      /\ s.obj \in [Ids -> Object]
  BY ServerType DEF Sane
<1>2. o \in Object /\ o.ip \in Addrs /\ o.host \in Hosts
  BY <1>1, ObjectType
<1>3. commitLease(s, l, sent) = u
  BY <1>1 DEF commitLease, Server
<1> HIDE DEF o
<1>4. wanted \in Hosts \ {NoName} /\ GenerateHostname(o.ip) \in Hosts \ {NoName}
  BY <1>2, ConstantsType DEF validHostnameForClient, GenerateHostname
<1> HIDE DEF wanted
<1>5. host \in Hosts \ {NoName}
  BY <1>2, <1>4
<1> HIDE DEF host
<1>6. kept \in Maps(Hosts \ {NoName})
  BY <1>1, MapChange
<1> HIDE DEF kept
<1>7. hs \in Maps(Hosts \ {NoName}) /\ is \in Maps(Addrs)
  BY <1>1, <1>2, <1>5, <1>6, MapChange
<1>8. p \in Lease /\ KeptObject(o, p)
  <2>1. now + LeaseTime \in 0..(MaxTime + LeaseTime) /\ now + LeaseTime >= now
    BY ConstantsType DEF Clock
  <2> QED
    BY <1>2, <1>5, <2>1, ObjectChange DEF o
<1> HIDE DEF hs, is, p
<1>9. Section(s, t) /\ t.obj[l] # Blank
  BY <1>8, ObjectSection DEF o
<1> HIDE DEF t
<1>10. Section(t, u) /\ u.obj = t.obj
  BY <1>7, <1>9, IndexSection DEF Section
<1> HIDE DEF u
<1>11. Section(s, u) /\ u.obj[l] # Blank
  BY <1>9, <1>10, SectionTransitive
<1> QED
  BY <1>3, <1>11

LEMMA RemoveIndex ==
    ASSUME NEW s, Sane(s), NEW i \in Nat \ {0}
    PROVE  LET t == rmLeaseByIndex(s, i) IN
           /\ Sane(t) /\ Kept(s, t) /\ t.obj = s.obj /\ (Distinct(s) => Distinct(t))
           /\ i > Len(s.leases) => t = s
           /\ i <= Len(s.leases) => /\ t.leases = RemoveAt(s.leases, i)
                                    /\ ~s.obj[s.leases[i]].static => StaticsStay(s, t)
<1> DEFINE t == rmLeaseByIndex(s, i)
<1>1. s \in Server /\ s.leases \in Seq(Ids) /\ Len(s.leases) \in Nat
  BY ServerType DEF Sane
<1>2. CASE i > Len(s.leases)
  <2>1. t = s
    BY <1>2 DEF rmLeaseByIndex
  <2> HIDE DEF t
  <2> QED
    BY <1>1, <1>2, <2>1, SectionReflexive DEF t, Section
<1>3. CASE i <= Len(s.leases)
  <2> DEFINE o == s.obj[s.leases[i]]
             q == RemoveAt(s.leases, i)
             hs == Without(s.hosts, o.host)
             is == Without(s.ips, o.ip)
             n == Len(s.leases) - 1
  <2>1. i \in 1..Len(s.leases) /\ n \in Nat /\ ~ (i > Len(s.leases))
    BY <1>1, <1>3
  <2>2. t = [s EXCEPT !.leases = q, !.offs = s.offs \ {o.ip}, !.hosts = hs, !.ips = is]
    BY <2>1 DEF rmLeaseByIndex
  <2>3. /\ q \in Seq(Ids) /\ Len(q) = n
        /\ \A j \in 1..n : q[j] = IF j < i THEN s.leases[j] ELSE s.leases[j + 1]
    BY <1>1, <2>1, RemoveAtProperties
  <2>4. hs \in Maps(Hosts \ {NoName}) /\ is \in Maps(Addrs) /\ s.offs \ {o.ip} \in SUBSET Pool
    BY <1>1, ServerType, MapChange
  <2> HIDE DEF q, hs, is, o, t
  <2>5. t \in Server /\ t.obj = s.obj /\ t.leases = q /\ t.offs = s.offs \ {o.ip}
    BY <1>1, <2>2, <2>3, <2>4 DEF Server
  <2> DEFINE At(j) == IF j < i THEN j ELSE j + 1
  <2>6. \A j \in 1..n : At(j) \in 1..Len(s.leases) /\ At(j) # i /\ q[j] = s.leases[At(j)]
    BY <1>1, <2>1, <2>3
  <2>7. \A j, k \in 1..n : At(j) = At(k) => j = k
    BY <2>1
  <2>8. \A k \in 1..Len(s.leases) : k # i => \E j \in 1..n : At(j) = k
    <3> SUFFICES ASSUME NEW k \in 1..Len(s.leases), k # i PROVE \E j \in 1..n : At(j) = k
      OBVIOUS
    <3>1. CASE k < i
      <4>1. k \in 1..n /\ At(k) = k
        BY <1>1, <2>1, <3>1
      <4> QED
        BY <4>1
    <3>2. CASE k > i
      <4>1. k - 1 \in 1..n /\ At(k - 1) = k
        BY <1>1, <2>1, <3>2
      <4> QED
        BY <4>1
    <3> QED
      BY <1>1, <3>1, <3>2
  <2> HIDE DEF At, n
  <2>9. Sane(t)
    BY <2>3, <2>5, <2>6 DEF Sane
  <2>10. Kept(s, t)
    BY <2>5 DEF Kept, KeptObject
  <2>11. ASSUME Distinct(s) PROVE Distinct(t)
    <3>1. \A j, k \in 1..n : s.obj[q[j]].ip = s.obj[q[k]].ip => j = k
      BY <2>6, <2>7, <2>11 DEF Distinct
    <3>2. \A j \in 1..n : s.obj[q[j]].ip # o.ip
      BY <2>1, <2>6, <2>11 DEF Distinct, o
    <3>3. \A j \in 1..n : s.obj[q[j]].ip \in Pool => s.obj[q[j]].ip \in t.offs
      BY <2>5, <2>6, <2>11, <3>2 DEF Distinct
    <3> QED
      BY <2>3, <2>5, <3>1, <3>3 DEF Distinct
  <2>12. ASSUME ~s.obj[s.leases[i]].static PROVE StaticsStay(s, t)
    <3> SUFFICES ASSUME NEW k \in 1..Len(s.leases), s.obj[s.leases[k]].static
                 PROVE  \E j \in 1..Len(t.leases) : t.leases[j] = s.leases[k]
      BY DEF StaticsStay
    <3>1. k # i
      BY <2>12
    <3> QED
      BY <2>3, <2>5, <2>6, <2>8, <3>1
  <2> QED
    BY <2>1, <2>5, <2>9, <2>10, <2>11, <2>12 DEF t, q
<1> QED
  BY <1>1, <1>2, <1>3

\* A turn of the loops that remove dynamic leases: the array that the loop
\* walks begins with the leases of the table.
Turns(n) == [s: Server, arr: [1..n -> Ids], stop: BOOLEAN, err: BOOLEAN]

Walk(s, n, t) ==
    /\ t \in Turns(n) /\ Section(s, t.s)
    /\ Len(t.s.leases) <= n
    /\ \A j \in 1..Len(t.s.leases) : t.arr[j] = t.s.leases[j]

LEMMA RemoveTurn ==
    ASSUME NEW s, Sane(s), NEW n \in Nat, NEW t, Walk(s, n, t), NEW i \in 1..n, NEW x
    PROVE  Walk(s, n, rmDynamicTurn(t, i, x))
<1> DEFINE u == rmDynamicTurn(t, i, x)
           l == t.arr[i]
           o == t.s.obj[l]
           want == t.s.obj[x]
           match == o.mac = want.mac \/ o.ip = want.ip
           rm == rmLeaseByIndex(t.s, i)
           arr == IF i <= Len(t.s.leases) THEN Shifted(t.arr, i, Len(t.s.leases)) ELSE t.arr
           Rename(v, m) == IF v.obj[m].host = want.host
                           THEN [v EXCEPT !.obj[m].host = NoName] ELSE v
           next == Rename(rm, rm.leases[i])
<1> SUFFICES Walk(s, n, u)
  OBVIOUS
<1>1. /\ t.s \in Server /\ t.arr \in [1..n -> Ids] /\ t.stop \in BOOLEAN /\ t.err \in BOOLEAN
      /\ Sane(t.s) /\ Section(s, t.s) /\ Len(t.s.leases) <= n
      /\ \A j \in 1..Len(t.s.leases) : t.arr[j] = t.s.leases[j]
  BY DEF Walk, Turns, Section
<1>2. l \in Ids /\ o \in Object /\ o.static \in BOOLEAN
  BY <1>1, ServerType, ObjectType
<1>3. Len(t.s.leases) \in Nat /\ t.s.leases \in Seq(Ids)
  BY <1>1, ServerType
<1>4. \/ u = t
      \/ u = [t EXCEPT !.stop = TRUE, !.err = TRUE]
      \/ match /\ ~o.static /\ u = [s |-> rm, arr |-> arr, stop |-> TRUE, err |-> FALSE]
      \/ match /\ ~o.static /\ u = [s |-> next, arr |-> arr, stop |-> FALSE, err |-> FALSE]
      \/ u = [t EXCEPT !.s = Rename(t.s, l)]
  BY <1>1, <1>2 DEF rmDynamicTurn
<1>5. \A v, m : Sane(v) => Section(v, Rename(v, m)) /\ Rename(v, m).leases = v.leases
  BY SectionReflexive, RenameSection
<1>6. ASSUME ~o.static
      PROVE  /\ Section(s, rm) /\ arr \in [1..n -> Ids] /\ Len(rm.leases) <= n
             /\ \A j \in 1..Len(rm.leases) : arr[j] = rm.leases[j]
  <2>1. i \in Nat \ {0}
    OBVIOUS
  <2>2. /\ Sane(rm) /\ Kept(t.s, rm) /\ rm.obj = t.s.obj /\ (Distinct(t.s) => Distinct(rm))
        /\ i > Len(t.s.leases) => rm = t.s
        /\ i <= Len(t.s.leases) => /\ rm.leases = RemoveAt(t.s.leases, i)
                                   /\ ~t.s.obj[t.s.leases[i]].static => StaticsStay(t.s, rm)
    BY <1>1, <2>1, RemoveIndex
  <2> HIDE DEF rm
  <2>3. CASE i > Len(t.s.leases)
    BY <1>1, <1>3, <2>2, <2>3, SectionReflexive
  <2>4. CASE i <= Len(t.s.leases)
    <3>1. i \in 1..Len(t.s.leases) /\ t.s.leases[i] = l
      BY <1>1, <1>3, <2>4
    <3>2. StaticsStay(t.s, rm)
      BY <1>6, <2>2, <2>4, <3>1
    <3>3. Section(t.s, rm)
      BY <2>2, <3>2 DEF Section
    <3>4. Section(s, rm)
      BY <1>1, <3>3, SectionTransitive
    <3>5. /\ Len(rm.leases) = Len(t.s.leases) - 1
          /\ \A j \in 1..(Len(t.s.leases) - 1) :
                rm.leases[j] = IF j < i THEN t.s.leases[j] ELSE t.s.leases[j + 1]
      BY <1>3, <2>2, <2>4, <3>1, RemoveAtProperties
    <3>6. arr = [j \in 1..n |-> IF j \in i..(Len(t.s.leases) - 1) THEN t.arr[j + 1] ELSE t.arr[j]]
      BY <1>1, <2>4 DEF Shifted
    <3> HIDE DEF arr
    <3>7. arr \in [1..n -> Ids]
      BY <1>1, <1>3, <3>6
    <3>8. ASSUME NEW j \in 1..(Len(t.s.leases) - 1) PROVE arr[j] = rm.leases[j]
      <4>1. j \in 1..n /\ j \in 1..Len(t.s.leases) /\ j + 1 \in 1..Len(t.s.leases)
        BY <1>1, <1>3
      <4>2. j \in i..(Len(t.s.leases) - 1) <=> ~ (j < i)
        BY <1>3
      <4> QED
        BY <1>1, <3>5, <3>6, <4>1, <4>2
    <3> QED
      BY <1>1, <1>3, <3>4, <3>5, <3>7, <3>8
  <2> QED
    BY <1>3, <2>3, <2>4
<1> HIDE DEF rm, arr, u
<1>7. CASE u = t
  BY <1>7
<1>8. CASE u = [t EXCEPT !.stop = TRUE, !.err = TRUE]
  <2>1. u \in Turns(n) /\ u.s = t.s /\ u.arr = t.arr
    BY <1>8 DEF Walk, Turns
  <2> QED
    BY <1>1, <2>1 DEF Walk
<1>9. CASE match /\ ~o.static /\ u = [s |-> rm, arr |-> arr, stop |-> TRUE, err |-> FALSE]
  <2>1. u.s = rm /\ u.arr = arr
    BY <1>9
  <2>2. rm \in Server
    BY <1>6, <1>9 DEF Section, Sane
  <2>3. u \in Turns(n)
    BY <1>6, <1>9, <2>2 DEF Turns
  <2> QED
    BY <1>6, <1>9, <2>1, <2>3 DEF Walk
<1>10. CASE match /\ ~o.static /\ u = [s |-> next, arr |-> arr, stop |-> FALSE, err |-> FALSE]
  <2>1. u.s = next /\ u.arr = arr
    BY <1>10
  <2>2. Section(rm, next) /\ next.leases = rm.leases
    BY <1>5, <1>6, <1>10 DEF Section
  <2> HIDE DEF next
  <2>3. Section(s, next) /\ next \in Server
    BY <1>6, <1>10, <2>2, SectionTransitive DEF Section, Sane
  <2>4. u \in Turns(n)
    BY <1>6, <1>10, <2>3 DEF Turns
  <2> QED
    BY <1>6, <1>10, <2>1, <2>2, <2>3, <2>4 DEF Walk
<1>11. CASE u = [t EXCEPT !.s = Rename(t.s, l)]
  <2> DEFINE v == Rename(t.s, l)
  <2>1. Section(t.s, v) /\ v.leases = t.s.leases
    BY <1>1, <1>5
  <2> HIDE DEF v
  <2>2. Section(s, v) /\ v \in Server
    BY <1>1, <2>1, SectionTransitive DEF Section, Sane
  <2>3. u \in Turns(n) /\ u.s = v /\ u.arr = t.arr
    BY <1>11, <2>2 DEF Walk, Turns, v
  <2> QED
    BY <1>1, <2>1, <2>2, <2>3 DEF Walk
<1> QED
  BY <1>4, <1>7, <1>8, <1>9, <1>10, <1>11

LEMMA RemoveDynamic ==
    ASSUME NEW s, Sane(s), NEW n \in Nat, NEW arr \in [1..n -> Ids], NEW x,
           Len(s.leases) <= n, \A j \in 1..Len(s.leases) : arr[j] = s.leases[j]
    PROVE  Walk(s, n, rmDynamicIn(s, arr, x))
<1> DEFINE F == rmDynamicTurns(s, arr, x)
           m == Len(s.leases)
           T == {j \in Nat : Walk(s, n, F[j])}
<1>1. m \in Nat /\ m <= n
  BY ServerType DEF Sane
<1>2. /\ F[0] = [s |-> s, arr |-> arr, stop |-> FALSE, err |-> FALSE]
      /\ \A i \in 1..m : F[i] = rmDynamicTurn(F[i - 1], i, x)
  BY <1>1, rmDynamicTurnsDef
<1> HIDE DEF F
<1>3. 0 \in T
  <2> DEFINE b == [s |-> s, arr |-> arr, stop |-> FALSE, err |-> FALSE]
  <2>1. b.s = s /\ b.arr = arr
    OBVIOUS
  <2>2. b \in Turns(n)
    BY DEF Turns, Sane
  <2> HIDE DEF b
  <2>3. Walk(s, n, b)
    BY <2>1, <2>2, SectionReflexive DEF Walk
  <2> QED
    BY <1>2, <2>3 DEF b
<1> HIDE DEF m
<1>4. ASSUME NEW i \in 1..m, i - 1 \in T PROVE i \in T
  <2>1. i \in 1..n /\ i \in Nat
    BY <1>1
  <2>2. Walk(s, n, rmDynamicTurn(F[i - 1], i, x))
    BY <1>4, <2>1, RemoveTurn
  <2> QED
    BY <1>2, <2>1, <2>2
<1>5. m \in T
  <2> HIDE DEF T
  <2>1. 0 \in T /\ \A i \in 1..m : i - 1 \in T => i \in T
    BY <1>3, <1>4
  <2>2. 0..m \subseteq T
    BY <1>1, <2>1, TurnInduction
  <2> QED
    BY <1>1, <2>2
<1> QED
  BY <1>5 DEF rmDynamicIn, F, m

LEMMA RemoveDynamicLease ==
    ASSUME NEW s, Sane(s), NEW x
    PROVE  Section(s, rmDynamicLease(s, x).s)
<1>1. Len(s.leases) \in Nat /\ s.leases \in [1..Len(s.leases) -> Ids]
  BY ServerType, LenProperties DEF Sane
<1>2. Walk(s, Len(s.leases), rmDynamicIn(s, s.leases, x))
  BY <1>1, RemoveDynamic
<1> QED
  BY <1>2 DEF Walk, rmDynamicLease

LEMMA ReleaseSection ==
    ASSUME NEW s, Sane(s), NEW c, NEW ip
    PROVE  Section(s, ReleaseTurns(s, c, ip)[Len(s.leases)].s)
<1> DEFINE F == ReleaseTurns(s, c, ip)
           n == Len(s.leases)
           T == {j \in Nat : Walk(s, n, F[j])}
<1>1. n \in Nat /\ s.leases \in [1..n -> Ids]
  BY ServerType, LenProperties DEF Sane
<1>2. /\ F[0] = [s |-> s, arr |-> s.leases, stop |-> FALSE, err |-> FALSE]
      /\ \A i \in 1..n : F[i] = ReleaseTurn(F[i - 1], i, c, ip)
  BY <1>1, ReleaseTurnsDef
<1> HIDE DEF F
<1>3. 0 \in T
  <2> DEFINE b == [s |-> s, arr |-> s.leases, stop |-> FALSE, err |-> FALSE]
  <2>1. b.s = s /\ b.arr = s.leases
    OBVIOUS
  <2>2. b \in Turns(n)
    BY <1>1 DEF Turns, Sane
  <2> HIDE DEF b
  <2>3. Walk(s, n, b)
    BY <1>1, <2>1, <2>2, SectionReflexive DEF Walk
  <2> QED
    BY <1>2, <2>3 DEF b
<1> HIDE DEF n
<1>4. ASSUME NEW i \in 1..n, i - 1 \in T PROVE i \in T
  <2> DEFINE t == F[i - 1]
             u == rmDynamicIn(t.s, t.arr, t.arr[i])
  <2>1. i \in Nat /\ Walk(s, n, t)
    BY <1>1, <1>4
  <2>2. F[i] = t \/ F[i] = u
    BY <1>2 DEF ReleaseTurn
  <2> HIDE DEF t
  <2>3. /\ Sane(t.s) /\ t.arr \in [1..n -> Ids] /\ Len(t.s.leases) <= n
        /\ Section(s, t.s) /\ \A j \in 1..Len(t.s.leases) : t.arr[j] = t.s.leases[j]
    BY <2>1 DEF Walk, Turns, Section
  <2>4. Walk(t.s, n, u)
    BY <1>1, <2>3, RemoveDynamic
  <2> HIDE DEF u
  <2>5. Walk(s, n, u)
    BY <2>3, <2>4, SectionTransitive DEF Walk
  <2> QED
    BY <2>1, <2>2, <2>5
<1>5. n \in T
  <2> HIDE DEF T
  <2>1. 0 \in T /\ \A i \in 1..n : i - 1 \in T => i \in T
    BY <1>3, <1>4
  <2>2. 0..n \subseteq T
    BY <1>1, <2>1, TurnInduction
  <2> QED
    BY <1>1, <2>2
<1> QED
  BY <1>5 DEF Walk, F, n

LEMMA RemoveLease ==
    ASSUME NEW s, Sane(s), NEW o
    PROVE  LET t == rmLease(s, o).s IN
           Sane(t) /\ Kept(s, t) /\ t.obj = s.obj /\ (Distinct(s) => Distinct(t))
<1> DEFINE t == rmLease(s, o).s
           I == {i \in 1..Len(s.leases) : s.obj[s.leases[i]].ip = o.ip}
           k == IF I # {} THEN Min(I) ELSE 0
<1>1. Len(s.leases) \in Nat
  BY ServerType DEF Sane
<1>2. k \in Nat
  <2>1. I \in SUBSET Nat
    BY <1>1
  <2> HIDE DEF I
  <2> QED
    BY <2>1, MinMember
<1>3. SelectInSeq(s.leases, LAMBDA l : s.obj[l].ip = o.ip) = k
  BY DEF SelectInSeq
<1> HIDE DEF k
<1>4. t = s \/ (k # 0 /\ t = rmLeaseByIndex(s, k))
  BY <1>3 DEF rmLease
<1> HIDE DEF t
<1>5. CASE t = s
  BY <1>5, SectionReflexive DEF Section, t
<1>6. CASE k # 0 /\ t = rmLeaseByIndex(s, k)
  BY <1>2, <1>6, RemoveIndex DEF t
<1> QED
  BY <1>4, <1>5, <1>6

\* What ResetLeases makes of the stored leases.
LEMMA ResetServer ==
    ASSUME NEW q \in Seq(Lease), Len(q) <= Cardinality(Ids)
    PROVE  Sane(ResetLeases(q)) /\ (Uniq(q) => Distinct(ResetLeases(q)))
<1> DEFINE F == ResetTurns(q)
           n == Len(q)
           Used(s) == {l \in Ids : s.obj[l] # Blank}
           Good(s, i) ==
             /\ Sane(s) /\ Cardinality(Used(s)) <= i
             /\ Uniq(q) => /\ Distinct(s)
                           /\ \A j \in 1..Len(s.leases) : \E k \in 1..i :
                                 s.obj[s.leases[j]].ip = q[k].ip
           T == {i \in Nat : Good(F[i], i)}
<1>1. n \in Nat /\ \A i \in 1..n : q[i] \in Lease
  BY LenProperties, ElementOfSeq
<1>2. F[0] = NoServer /\ \A i \in 1..n : F[i] = ResetTurn(F[i - 1], q[i])
  BY <1>1, ResetTurnsDef
<1>3. IsFiniteSet(Ids) /\ Cardinality(Ids) \in Nat
  BY DHCPAssumption, FS_CardinalityType
<1> HIDE DEF F, n
<1>4. Good(NoServer, 0)
  <2>1. /\ NoServer.leases = << >> /\ NoServer.hosts = << >> /\ NoServer.ips = << >>
        /\ NoServer.offs = {} /\ NoServer.obj = [i \in Ids |-> Blank]
    BY DEF NoServer
  <2>2. \A K : << >> \in Maps(K)
    <3> SUFFICES ASSUME NEW K PROVE << >> \in Maps(K)
      OBVIOUS
    <3>1. << >> \in [{} -> Ids] /\ {} \in SUBSET K
      OBVIOUS
    <3> QED
      BY <3>1 DEF Maps
  <2>3. NoServer \in Server
    <3>1. << >> \in Seq(Ids) /\ {} \in SUBSET Pool /\ [i \in Ids |-> Blank] \in [Ids -> Lease \cup {Blank}]
      OBVIOUS
    <3> QED
      BY <2>2, <3>1 DEF NoServer, Server
  <2>4. Len(NoServer.leases) = 0
    BY <2>1
  <2>5. Sane(NoServer) /\ Distinct(NoServer)
    BY <2>3, <2>4 DEF Sane, Distinct
  <2>6. Used(NoServer) = {}
    BY <2>1
  <2> HIDE DEF Used
  <2> QED
    BY <2>4, <2>5, <2>6, FS_EmptySet
<1>5. ASSUME NEW i \in 1..n, Good(F[i - 1], i - 1) PROVE Good(F[i], i)
  <2> DEFINE s == F[i - 1]
             l == FreshId(s)
             o == Loaded(q[i])
             t == New(s, o)
             u == addLease(t, l).s
  <2>1. F[i] = u
    BY <1>2 DEF ResetTurn
  <2>2. s \in Server /\ s.obj \in [Ids -> Object] /\ Sane(s)
    BY <1>5, ServerType DEF Sane
  <2>3. o \in Lease /\ o.ip = q[i].ip
    <3>1. q[i] \in Lease /\ q[i].ip \in Addrs /\ q[i].host \in Hosts
      BY <1>1 DEF Lease
    <3>2. validHostnameForClient(q[i].host, q[i].ip) \in Hosts
      BY <3>1, ConstantsType DEF validHostnameForClient, GenerateHostname
    <3>3. [q[i] EXCEPT !.host = validHostnameForClient(q[i].host, q[i].ip)] \in Lease
      BY <3>1, <3>2 DEF Lease
    <3>4. [q[i] EXCEPT !.host = validHostnameForClient(q[i].host, q[i].ip)].ip = q[i].ip
      BY <3>1 DEF Lease
    <3> QED
      BY <3>1, <3>3, <3>4 DEF Loaded
  <2>4. FreeIds(s) # {}
    <3> SUFFICES ASSUME FreeIds(s) = {} PROVE FALSE
      OBVIOUS
    <3>1. Used(s) = Ids
      BY DEF FreeIds
    <3>2. Cardinality(Ids) <= i - 1 /\ n <= Cardinality(Ids)
      BY <1>5, <3>1 DEF n
    <3> QED
      BY <1>1, <1>3, <3>2
  <2>5. l \in Ids /\ s.obj[l] = Blank
    BY <2>2, <2>4, FreshObject
  <2>6. t = [s EXCEPT !.obj = [@ EXCEPT ![l] = o]]
    BY DEF New
  <2> HIDE DEF s, l, o, t
  <2>7. /\ Section(s, t) /\ t.leases = s.leases /\ t.offs = s.offs
        /\ t.obj[l] = o /\ t.obj[l] # Blank /\ \A k \in Ids : k # l => t.obj[k] = s.obj[k]
    BY <2>2, <2>3, <2>5, <2>6, ObjectSection
  <2>8. Sane(t)
    BY <2>7 DEF Section
  <2>9. /\ Sane(u) /\ u.obj = t.obj
        /\ u = t \/ u.leases = Append(t.leases, l)
    BY <2>5, <2>7, <2>8, AddLease
  <2>10. Cardinality(Used(u)) <= i
    <3>1. Used(u) = Used(s) \cup {l} /\ l \notin Used(s)
      BY <2>5, <2>7, <2>9
    <3>2. IsFiniteSet(Used(s)) /\ Cardinality(Used(s)) \in Nat
      BY <1>3, FS_Subset, FS_CardinalityType
    <3>3. Cardinality(Used(s)) <= i - 1
      BY <1>5 DEF s
    <3> HIDE DEF Used
    <3>4. Cardinality(Used(s) \cup {l}) = Cardinality(Used(s)) + 1
      BY <3>1, <3>2, FS_AddElement
    <3> QED
      BY <1>1, <3>1, <3>2, <3>3, <3>4
  <2> HIDE DEF u, Used
  <2>11. ASSUME Uniq(q)
         PROVE  /\ Distinct(u)
                /\ \A j \in 1..Len(u.leases) : \E k \in 1..i : u.obj[u.leases[j]].ip = q[k].ip
    <3>1. /\ Distinct(s)
          /\ \A j \in 1..Len(s.leases) : \E k \in 1..(i - 1) : s.obj[s.leases[j]].ip = q[k].ip
      BY <1>5, <2>11 DEF s
    <3>2. Distinct(t)
      BY <2>7, <3>1 DEF Section
    <3>3. \A j \in 1..Len(t.leases) : t.leases[j] \in Ids /\ t.leases[j] # l
      BY <2>2, <2>5, <2>7, ServerType DEF Sane
    <3>4. \A j \in 1..Len(t.leases) : \E k \in 1..(i - 1) : t.obj[t.leases[j]].ip = q[k].ip
      BY <2>7, <3>1, <3>3
    <3>5. \A k \in 1..(i - 1) : k \in 1..Len(q) /\ i \in 1..Len(q) /\ q[k].ip # q[i].ip
      BY <1>1, <2>11 DEF Uniq, n
    <3>6. \A j \in 1..Len(t.leases) : t.obj[t.leases[j]].ip # t.obj[l].ip
      BY <2>3, <2>7, <3>4, <3>5
    <3>7. Distinct(u)
      BY <2>5, <2>7, <2>8, <3>2, <3>6, AddDistinct DEF u
    <3>8. ASSUME NEW j \in 1..Len(u.leases)
          PROVE  \E k \in 1..i : u.obj[u.leases[j]].ip = q[k].ip
      <4>1. t.leases \in Seq(Ids) /\ Len(t.leases) \in Nat
        BY <2>8, ServerType DEF Sane
      <4>2. CASE j \in 1..Len(t.leases) /\ u.leases[j] = t.leases[j]
        <5>1. PICK k \in 1..(i - 1) : t.obj[t.leases[j]].ip = q[k].ip
          BY <3>4, <4>2
        <5>2. k \in 1..i
          BY <1>1
        <5> QED
          BY <2>9, <4>2, <5>1, <5>2
      <4>3. CASE u.leases[j] = l
        <5>1. i \in 1..i
          BY <1>1
        <5> QED
          BY <2>3, <2>7, <2>9, <4>3, <5>1
      <4>4. CASE u = t
        BY <4>2, <4>4
      <4>5. CASE u.leases = Append(t.leases, l)
        <5>1. /\ Len(u.leases) = Len(t.leases) + 1 /\ u.leases[Len(t.leases) + 1] = l
              /\ \A k \in 1..Len(t.leases) : u.leases[k] = t.leases[k]
          BY <4>1, <4>5, AppendProperties
        <5>2. j \in 1..Len(t.leases) \/ j = Len(t.leases) + 1
          BY <4>1, <5>1
        <5> QED
          BY <4>2, <4>3, <5>1, <5>2
      <4> QED
        BY <2>9, <4>4, <4>5
    <3> QED
      BY <3>7, <3>8
  <2> QED
    BY <2>1, <2>9, <2>10, <2>11
<1>6. n \in T
  <2>1. 0 \in T
    BY <1>2, <1>4
  <2>2. \A i \in 1..n : i - 1 \in T => i \in T
    <3> SUFFICES ASSUME NEW i \in 1..n, i - 1 \in T PROVE i \in T
      OBVIOUS
    <3>1. i \in Nat /\ Good(F[i - 1], i - 1)
      BY <1>1
    <3>2. Good(F[i], i)
      BY <1>5, <3>1
    <3> HIDE DEF Good
    <3> QED
      BY <3>1, <3>2
  <2> HIDE DEF T
  <2>3. 0..n \subseteq T
    BY <1>1, <2>1, <2>2, TurnInduction
  <2> QED
    BY <1>1, <2>3
<1> QED
  BY <1>6 DEF ResetLeases, F, n

------------------------------------------------------------------------------
(***************************************************************************)
(* The steps.  A handler that is about to commit holds a lease, and the    *)
(* leases that the handlers hold exist.                                    *)
(***************************************************************************)
Handled ==
    \A w \in Procs :
        /\ proc[w].lease # NoLease => srv.obj[proc[w].lease] # Blank
        /\ proc[w].pc = "commit" => proc[w].lease # NoLease

\* The inductive invariant for the types and for the two action properties.
TypeInv == TypeOK /\ Sane(srv) /\ Handled /\ restarts \in Nat

\* The handler goes on with p, its lease being one that exists in s.
GoesOn(s, p) ==
    /\ p \in Handler
    /\ p.lease # NoLease => s.obj[p.lease] # Blank
    /\ p.pc = "commit" => p.lease # NoLease

CommittedStep ==
    \A l \in Range(srv.leases) \cap Range(srv'.leases) :
        srv.obj[l].exp >= now => srv'.obj[l].mac = srv.obj[l].mac

Effect ==
    /\ srv' \in Server /\ Sane(srv') /\ proc' \in [Procs -> Handler] /\ Handled'
    /\ CommittedStep

\* The snapshots of the table that are about to be written.
Snaps == \A w \in Procs : Uniq(proc[w].snap)

\* A step that removes no static lease and keeps the addresses apart.
Calm ==
    /\ Statics(srv) \subseteq Statics(srv')
    /\ Distinct(srv) => Distinct(srv')
    /\ Snaps => Snaps'

\* The end of a section under the lock.
LEMMA AfterSection ==
    ASSUME TypeInv, NEW w \in Procs, NEW s, NEW p, After(w, s, p),
           Sane(s), Kept(srv, s), GoesOn(s, p)
    PROVE  /\ Effect
           /\ StaticsStay(srv, s) => Statics(srv) \subseteq Statics(srv')
           /\ Distinct(s) => Distinct(srv')
           /\ Uniq(p.snap) => (Snaps => Snaps')
<1> DEFINE R == Reachable(s, proc')
<1>1. s \in Server /\ s.leases \in Seq(Ids) /\ s.obj \in [Ids -> Object]
  BY ServerType DEF Sane
<1>2. proc \in [Procs -> Handler] /\ srv \in Server /\ Sane(srv)
  BY DEF TypeInv, TypeOK
<1>3. proc' = [proc EXCEPT ![w] = p] /\ srv' = Collected(s, proc')
  BY DEF After
<1>4. proc' \in [Procs -> Handler] /\ proc'[w] = p /\ \A v \in Procs : v # w => proc'[v] = proc[v]
  BY <1>2, <1>3 DEF GoesOn
<1>5. srv' = [s EXCEPT !.obj = [i \in Ids |-> IF i \in R THEN s.obj[i] ELSE Blank]]
  BY <1>3 DEF Collected
<1>6. \A i \in 1..Len(s.leases) : s.leases[i] \in Ids /\ s.leases[i] \in R
  <2>1. DOMAIN s.leases = 1..Len(s.leases)
    BY <1>1, LenProperties
  <2> QED
    BY <1>1, <2>1, ServerType DEF Reachable, Range
<1>7. \A v \in Procs : proc'[v].lease \in R
  BY DEF Reachable
<1> HIDE DEF R
<1>8. /\ srv' \in Server /\ srv'.leases = s.leases /\ srv'.offs = s.offs
      /\ srv'.obj = [i \in Ids |-> IF i \in R THEN s.obj[i] ELSE Blank]
  BY <1>1, <1>5 DEF Server, Object
<1>9. \A l \in Ids \cap R : srv'.obj[l] = s.obj[l]
  BY <1>8
<1>10. \A i \in 1..Len(s.leases) : srv'.obj[s.leases[i]] = s.obj[s.leases[i]]
  BY <1>6, <1>9
<1>11. Sane(srv')
  BY <1>8, <1>10 DEF Sane
<1>12. Handled'
  <2> SUFFICES ASSUME NEW v \in Procs
               PROVE  /\ proc'[v].lease # NoLease => srv'.obj[proc'[v].lease] # Blank
                      /\ proc'[v].pc = "commit" => proc'[v].lease # NoLease
    BY DEF Handled
  <2>1. proc'[v] \in Handler /\ proc'[v].lease \in Ids \cup {NoLease}
    BY <1>4 DEF Handler
  <2>2. proc'[v].lease # NoLease => srv'.obj[proc'[v].lease] = s.obj[proc'[v].lease]
    BY <1>7, <1>9, <2>1
  <2>3. CASE v = w
    BY <1>4, <2>2, <2>3 DEF GoesOn
  <2>4. CASE v # w
    <3>1. proc'[v] = proc[v]
      BY <1>4, <2>4
    <3>2. /\ proc[v].lease # NoLease => srv.obj[proc[v].lease] # Blank
          /\ proc[v].pc = "commit" => proc[v].lease # NoLease
      BY DEF TypeInv, Handled
    <3>3. ASSUME proc[v].lease # NoLease PROVE s.obj[proc[v].lease] # Blank
      <4> DEFINE l == proc[v].lease
      <4>1. l \in Ids /\ srv.obj[l] # Blank
        BY <2>1, <3>1, <3>2, <3>3
      <4> QED
        BY <1>2, <4>1, KeptExists
    <3> QED
      BY <2>2, <3>1, <3>2, <3>3
  <2> QED
    BY <2>3, <2>4
<1>13. CommittedStep
  <2> SUFFICES ASSUME NEW l \in Range(srv.leases) \cap Range(srv'.leases), srv.obj[l].exp >= now
               PROVE  srv'.obj[l].mac = srv.obj[l].mac
    BY DEF CommittedStep
  <2>1. \A q \in Seq(Ids) : DOMAIN q = 1..Len(q)
    BY LenProperties
  <2>2. PICK i \in 1..Len(srv.leases) : l = srv.leases[i]
    BY <1>2, <2>1, ServerType DEF Range
  <2>3. PICK j \in 1..Len(s.leases) : l = s.leases[j]
    BY <1>1, <1>8, <2>1 DEF Range
  <2>4. l \in Ids /\ srv.obj[l] # Blank
    BY <1>2, <2>2, ServerType DEF Sane
  <2>5. KeptObject(srv.obj[l], s.obj[l])
    BY <2>4 DEF Kept
  <2> QED
    BY <1>10, <2>3, <2>5 DEF KeptObject
<1>14. ASSUME StaticsStay(srv, s) PROVE Statics(srv) \subseteq Statics(srv')
  <2> SUFFICES ASSUME NEW z \in Statics(srv) PROVE z \in Statics(srv')
    OBVIOUS
  <2>1. \A q \in Seq(Ids) : DOMAIN q = 1..Len(q)
    BY LenProperties
  <2>2. PICK l \in Range(srv.leases) :
          srv.obj[l].static /\ z = [mac |-> srv.obj[l].mac, ip |-> srv.obj[l].ip]
    BY DEF Statics
  <2>3. PICK i \in 1..Len(srv.leases) : l = srv.leases[i]
    BY <1>2, <2>1, ServerType DEF Range
  <2>4. PICK j \in 1..Len(s.leases) : s.leases[j] = l
    BY <1>14, <2>2, <2>3 DEF StaticsStay
  <2>5. l \in Ids /\ srv.obj[l] # Blank
    BY <1>2, <2>3, ServerType DEF Sane
  <2>6. KeptObject(srv.obj[l], srv'.obj[l])
    BY <1>10, <2>4, <2>5 DEF Kept
  <2>7. l \in Range(srv'.leases)
    BY <1>1, <1>8, <2>1, <2>4 DEF Range
  <2>8. srv'.obj[l].static /\ z = [mac |-> srv'.obj[l].mac, ip |-> srv'.obj[l].ip]
    BY <2>2, <2>6 DEF KeptObject
  <2> QED
    BY <2>7, <2>8 DEF Statics
<1>15. ASSUME Distinct(s) PROVE Distinct(srv')
  <2>1. srv'.leases = s.leases /\ srv'.offs = s.offs
    BY <1>8
  <2>2. \A i \in 1..Len(s.leases) : srv'.obj[srv'.leases[i]].ip = s.obj[s.leases[i]].ip
    BY <1>10, <2>1
  <2> QED
    BY <1>15, <2>1, <2>2 DEF Distinct
<1>16. ASSUME Uniq(p.snap), Snaps PROVE Snaps'
  <2> SUFFICES ASSUME NEW v \in Procs PROVE Uniq(proc'[v].snap)
    BY DEF Snaps
  <2> QED
    BY <1>4, <1>16 DEF Snaps
<1> QED
  BY <1>4, <1>8, <1>11, <1>12, <1>13, <1>14, <1>15, <1>16 DEF Effect

\* The records that the handlers go on with.
Blanks == [pc: {"idle"}, lease: {NoLease}, mac: {NoMAC}, arg: {0}, snap: {<< >>}, next: {"idle"}]

LEMMA IdleRecord ==
    /\ Idle \in Blanks /\ << >> \in Seq(Lease) /\ 0 \in Hosts /\ Uniq(<< >>)
    /\ Idle.snap = << >> /\ \A s : GoesOn(s, Idle)
<1>1. << >> \in Seq(Lease) /\ 0 \in Hosts /\ Uniq(<< >>)
  BY ConstantsType DEF Hosts, NoName, Uniq
<1>2. Idle \in Blanks
  BY DEF Idle, Blanks
<1>3. \A b \in Blanks : b \in Handler /\ b.lease = NoLease /\ b.pc = "idle" /\ b.snap = << >>
  BY <1>1 DEF Handler, Blanks
<1>4. Idle \in Handler /\ Idle.lease = NoLease /\ Idle.pc = "idle" /\ Idle.snap = << >>
  BY <1>2, <1>3
<1> QED
  BY <1>1, <1>2, <1>4 DEF GoesOn

LEMMA StoreRecord ==
    ASSUME NEW l \in Ids \cup {NoLease}, NEW mac \in Clients \cup {NoMAC},
           NEW arg \in Hosts, NEW next \in {"idle", "decline"},
           NEW s, l # NoLease => s.obj[l] # Blank
    PROVE  GoesOn(s, Store(next, l, mac, arg)) /\ Uniq(Store(next, l, mac, arg).snap)
<1> DEFINE St(b) == [b EXCEPT !.pc = "store", !.lease = l, !.mac = mac, !.arg = arg, !.next = next]
           p == Store(next, l, mac, arg)
<1>1. \A b \in Blanks : St(b) \in Handler /\ St(b).lease = l /\ St(b).pc = "store" /\ St(b).snap = << >>
  BY IdleRecord DEF Handler, Blanks
<1>2. p = St(Idle)
  BY DEF Store
<1> HIDE DEF St
<1>3. p \in Handler /\ p.lease = l /\ p.pc = "store" /\ p.snap = << >>
  BY <1>1, <1>2, IdleRecord
<1> HIDE DEF p
<1>4. GoesOn(s, p) /\ Uniq(p.snap)
  BY <1>3, IdleRecord DEF GoesOn
<1> QED
  BY <1>4 DEF p

LEMMA CommitRecord ==
    ASSUME NEW l \in Ids, NEW mac \in Clients \cup {NoMAC}, NEW arg \in Hosts,
           NEW s, s.obj[l] # Blank
    PROVE  LET p == [Idle EXCEPT !.pc = "commit", !.lease = l, !.mac = mac, !.arg = arg]
           IN GoesOn(s, p) /\ Uniq(p.snap)
<1> DEFINE Co(b) == [b EXCEPT !.pc = "commit", !.lease = l, !.mac = mac, !.arg = arg]
           p == Co(Idle)
<1>1. \A b \in Blanks : Co(b) \in Handler /\ Co(b).lease = l /\ Co(b).snap = << >>
  BY IdleRecord DEF Handler, Blanks
<1> HIDE DEF Co
<1>2. p \in Handler /\ p.lease = l /\ p.snap = << >> /\ l # NoLease
  BY <1>1, IdleRecord, ConstantsType DEF NoLease
<1> HIDE DEF p
<1>3. GoesOn(s, p) /\ Uniq(p.snap)
  BY <1>2, IdleRecord DEF GoesOn
<1> QED
  BY <1>3 DEF p, Co

\* The end of a section that calls no operation with which two leases can get
\* the same address.
LEMMA AfterCalm ==
    ASSUME TypeInv, NEW w \in Procs, NEW s, NEW p, After(w, s, p),
           Section(srv, s), GoesOn(s, p), Uniq(p.snap)
    PROVE  Effect /\ Calm
BY AfterSection DEF Section, Calm

LEMMA StateType ==
    ASSUME TypeInv
    PROVE  /\ srv \in Server /\ Sane(srv) /\ Section(srv, srv) /\ Clock
           /\ \A w \in Procs : proc[w] \in Handler /\ GoesOn(srv, proc[w])
           /\ Workers \subseteq Procs /\ Admin \in Procs /\ 0 \in Hosts
<1>1. srv \in Server /\ Sane(srv) /\ Clock /\ Workers \subseteq Procs /\ Admin \in Procs
  BY DEF TypeInv, TypeOK, Clock, Procs
<1>2. \A w \in Procs : proc[w] \in Handler /\ GoesOn(srv, proc[w])
  BY DEF TypeInv, TypeOK, Handled, GoesOn
<1>3. 0 \in Hosts
  BY DEF Hosts, NoName
<1> QED
  BY <1>1, <1>2, <1>3, SectionReflexive

LEMMA DiscoverStep ==
    ASSUME TypeInv, NEW w \in Workers, NEW c \in Clients, handleDiscover(w, c)
    PROVE  Effect /\ Calm
<1> DEFINE own == findLease(srv, c)
<1>1. PICK r \in IF own # NoLease THEN {[l |-> own, s |-> srv]} ELSE allocateLease(srv, c) :
         After(w, r.s, Store("idle", r.l, c, 0))
  BY DEF handleDiscover
<1>2. Section(srv, r.s) /\ r.l \in Ids \cup {NoLease} /\ (r.l # NoLease => r.s.obj[r.l] # Blank)
  <2>1. CASE own # NoLease
    <3>1. PICK i \in 1..Len(srv.leases) : own = srv.leases[i]
      BY <2>1, StateType, FoundLease
    <3>2. own \in Ids /\ srv.obj[own] # Blank
      BY <3>1, StateType, ServerType DEF Sane
    <3>3. r.l = own /\ r.s = srv
      BY <1>1, <2>1
    <3> QED
      BY <3>2, <3>3, StateType
  <2>2. CASE own = NoLease
    <3>1. r \in allocateLease(srv, c) /\ c \in Clients \cup {NoMAC}
      BY <1>1, <2>2
    <3> QED
      BY <3>1, StateType, AllocateSection DEF Loose
  <2> QED
    BY <2>1, <2>2
<1>3. GoesOn(r.s, Store("idle", r.l, c, 0)) /\ Uniq(Store("idle", r.l, c, 0).snap)
  BY <1>2, StateType, StoreRecord
<1> QED
  BY <1>1, <1>2, <1>3, StateType, AfterCalm

LEMMA CheckStep ==
    ASSUME TypeInv, NEW w \in Workers, NEW c \in Clients, NEW ip \in Addrs,
           NEW host \in Names \cup {NoName}, checkLease(w, c, ip, host)
    PROVE  Effect /\ Calm
<1> DEFINE l == findLease(srv, c)
           p == [Idle EXCEPT !.pc = "commit", !.lease = l, !.mac = c, !.arg = host]
<1>1. l # NoLease /\ After(w, srv, p)
  BY DEF checkLease
<1>2. PICK i \in 1..Len(srv.leases) : l = srv.leases[i]
  BY <1>1, StateType, FoundLease
<1>3. l \in Ids /\ srv.obj[l] # Blank
  BY <1>2, StateType, ServerType DEF Sane
<1>4. host \in Hosts /\ c \in Clients \cup {NoMAC} /\ l \in Ids \cup {NoLease}
  BY <1>3 DEF Hosts
<1> HIDE DEF l
<1>5. GoesOn(srv, p) /\ Uniq(p.snap)
  BY <1>3, <1>4, CommitRecord
<1> HIDE DEF p
<1> QED
  BY <1>1, <1>5, StateType, AfterCalm

LEMMA RequestStep ==
    ASSUME TypeInv, NEW w \in Workers, handleRequest(w)
    PROVE  Effect /\ Calm
<1> DEFINE l == proc[w].lease
           s == IF srv.obj[l].static THEN srv ELSE commitLease(srv, l, proc[w].arg)
           p == Store("idle", l, proc[w].mac, 0)
<1>1. proc[w].pc = "commit" /\ After(w, s, p)
  BY DEF handleRequest
<1>2. /\ l \in Ids /\ srv.obj[l] # Blank
      /\ proc[w].mac \in Clients \cup {NoMAC} /\ proc[w].arg \in Hosts
  BY <1>1, StateType DEF GoesOn, Handler
<1>3. Section(srv, s) /\ s.obj[l] # Blank
  <2>1. CASE srv.obj[l].static
    BY <1>2, <2>1, StateType
  <2>2. CASE ~srv.obj[l].static
    BY <1>2, <2>2, StateType, CommitSection
  <2> QED
    BY <2>1, <2>2
<1> HIDE DEF s
<1>4. GoesOn(s, p) /\ Uniq(p.snap)
  BY <1>2, <1>3, StateType, StoreRecord
<1> HIDE DEF p
<1> QED
  BY <1>1, <1>3, <1>4, StateType, AfterCalm

LEMMA DeclineStartStep ==
    ASSUME TypeInv, NEW w \in Workers, NEW c \in Clients, NEW ip \in Addrs, DeclineStart(w, c, ip)
    PROVE  Effect /\ Calm
<1> DEFINE p == Store("decline", NoLease, c, ip)
<1>1. After(w, srv, p)
  BY DEF DeclineStart
<1>2. GoesOn(srv, p) /\ Uniq(p.snap)
  BY ConstantsType, StoreRecord
<1> HIDE DEF p
<1> QED
  BY <1>1, <1>2, StateType, AfterCalm

LEMMA ReleaseStep ==
    ASSUME TypeInv, NEW w \in Workers, NEW c \in Clients, NEW ip \in Addrs, handleRelease(w, c, ip)
    PROVE  Effect /\ Calm
<1> DEFINE p == Store("idle", NoLease, c, 0)
           s == ReleaseTurns(srv, c, ip)[Len(srv.leases)].s
<1>1. After(w, s, p)
  BY DEF handleRelease
<1>2. Section(srv, s)
  BY StateType, ReleaseSection
<1> HIDE DEF s
<1>3. GoesOn(s, p) /\ Uniq(p.snap)
  BY StateType, StoreRecord
<1> HIDE DEF p
<1> QED
  BY <1>1, <1>2, <1>3, StateType, AfterCalm

\* A static lease or a moved one goes into the table: the new server's objects
\* and static leases are as they were, but an address may now be in two leases.
LEMMA DeclineStep ==
    ASSUME TypeInv, NEW w \in Workers, handleDecline(w)
    PROVE  Effect /\ Statics(srv) \subseteq Statics(srv')
<1> DEFINE c == proc[w].mac
           old == findLeaseForIP(srv, proc[w].arg, c)
           removed == rmDynamicLease(srv, old)
           Moved(r) == [r.s EXCEPT !.obj[r.l].host = removed.s.obj[old].host,
                                   !.obj[r.l].exp = now + LeaseTime]
<1>1. w \in Procs /\ c \in Clients \cup {NoMAC}
  BY StateType DEF Handler
<1>2. \A s : GoesOn(s, Idle)
  BY IdleRecord
<1>3. \/ After(w, srv, Idle)
      \/ After(w, removed.s, Idle)
      \/ /\ old # NoLease
         /\ \E r \in allocateLease(removed.s, c) :
              After(w, IF r.l = NoLease THEN r.s ELSE addLease(Moved(r), r.l).s, Idle)
  BY DEF handleDecline
<1>4. Section(srv, removed.s)
  BY StateType, RemoveDynamicLease
<1> HIDE DEF removed
<1>5. CASE After(w, srv, Idle)
  BY <1>1, <1>2, <1>5, StateType, AfterSection DEF Section
<1>6. CASE After(w, removed.s, Idle)
  BY <1>1, <1>2, <1>4, <1>6, AfterSection DEF Section
<1>7. CASE /\ old # NoLease
           /\ \E r \in allocateLease(removed.s, c) :
                After(w, IF r.l = NoLease THEN r.s ELSE addLease(Moved(r), r.l).s, Idle)
  <2>1. PICK r \in allocateLease(removed.s, c) :
           After(w, IF r.l = NoLease THEN r.s ELSE addLease(Moved(r), r.l).s, Idle)
    BY <1>7
  <2>2. Sane(removed.s)
    BY <1>4 DEF Section
  <2>3. Section(removed.s, r.s) /\ (r.l # NoLease => Loose(r.s, r.l))
    BY <1>1, <2>2, StateType, AllocateSection
  <2>4. Section(srv, r.s)
    BY <1>4, <2>3, StateType, SectionTransitive
  <2>5. CASE r.l = NoLease
    <3>1. After(w, r.s, Idle)
      BY <2>1, <2>5
    <3> QED
      BY <1>1, <1>2, <2>4, <3>1, AfterSection DEF Section
  <2>6. CASE r.l # NoLease
    <3> DEFINE h == removed.s.obj[old].host
               l == r.l
               o == [r.s.obj[l] EXCEPT !.host = h, !.exp = now + LeaseTime]
               t == [r.s EXCEPT !.obj = [@ EXCEPT ![l] = o]]
               u == addLease(t, l).s
    <3>1. l \in Ids /\ r.s.obj[l] # Blank /\ Sane(r.s) /\ r.s.obj[l] \in Object
      BY <2>3, <2>4, <2>6, ServerType DEF Loose, Section, Sane
    <3>2. old \in Ids
      <4>1. PICK i \in 1..Len(srv.leases) : old = srv.leases[i]
        BY <1>7, StateType, FoundLease
      <4> QED
        BY <4>1, StateType, ServerType
    <3>3. h \in Hosts
      BY <2>2, <3>2, ServerType, ObjectType DEF Sane
    <3>4. Moved(r) = t
      BY <3>1 DEF Sane, Server
    <3> HIDE DEF h, l, c, old, Moved
    <3>5. now + LeaseTime \in 0..(MaxTime + LeaseTime) /\ now + LeaseTime >= now
      BY StateType, ConstantsType DEF Clock
    <3>6. o \in Lease /\ KeptObject(r.s.obj[l], o)
      BY <3>1, <3>3, <3>5, ObjectChange
    <3> HIDE DEF o
    <3>7. Section(r.s, t) /\ t.obj[l] # Blank
      BY <3>1, <3>6, ObjectSection
    <3> HIDE DEF t
    <3>8. Section(srv, t)
      BY <2>4, <3>7, StateType, SectionTransitive
    <3>9. Sane(u) /\ u.obj = t.obj /\ StaticsStay(t, u)
      BY <3>1, <3>7, <3>8, AddLease DEF Section
    <3>10. Kept(srv, u) /\ StaticsStay(srv, u)
      BY <3>8, <3>9, StateType, StaticsTransitive DEF Section, Kept, Sane
    <3>11. After(w, u, Idle)
      BY <2>1, <2>6, <3>4 DEF l
    <3> HIDE DEF u
    <3> QED
      BY <1>1, <1>2, <3>9, <3>10, <3>11, AfterSection
  <2> QED
    BY <2>5, <2>6
<1> QED
  BY <1>3, <1>5, <1>6, <1>7

\* The record of a static lease.
LEMMA StaticRecord ==
    ASSUME NEW c \in Clients, NEW ip \in Addrs, NEW host \in Names \cup {NoName}
    PROVE  StaticLease(c, ip, host) \in Lease
<1>1. /\ c \in Clients \cup {NoMAC} /\ host \in Hosts /\ 0 \in 0..(MaxTime + LeaseTime)
      /\ TRUE \in BOOLEAN
  BY ConstantsType DEF Hosts
<1> QED
  BY <1>1 DEF StaticLease, Lease

\* What a successful and a failed operation go on with.
LEMMA FinishStep ==
    ASSUME TypeInv, NEW r, Finish(r), Sane(r.s), Kept(srv, r.s)
    PROVE  /\ Effect
           /\ StaticsStay(srv, r.s) => Statics(srv) \subseteq Statics(srv')
           /\ Distinct(r.s) => Distinct(srv')
           /\ Snaps => Snaps'
<1> DEFINE p == IF r.err THEN Idle ELSE Store("idle", NoLease, NoMAC, 0)
<1>1. After(Admin, r.s, p)
  BY DEF Finish
<1>2. GoesOn(r.s, p) /\ Uniq(p.snap)
  BY IdleRecord, StoreRecord
<1> HIDE DEF p
<1> QED
  BY <1>1, <1>2, StateType, AfterSection

LEMMA AddStaticStep ==
    ASSUME TypeInv, NEW c \in Clients, NEW ip \in Addrs, NEW host \in Names \cup {NoName},
           AddStaticLease(c, ip, host)
    PROVE  Effect /\ Statics(srv) \subseteq Statics(srv')
<1> DEFINE l == FreshId(srv)
           o == StaticLease(c, ip, host)
           t == New(srv, o)
           removed == rmDynamicLease(t, l)
           r == AddedStatic(c, ip, host)
<1>1. FreeIds(srv) # {} /\ Finish(r)
  BY DEF AddStaticLease
<1>2. l \in Ids /\ srv.obj[l] = Blank
  BY <1>1, StateType, FreshObject
<1>3. o \in Lease
  BY StaticRecord
<1>4. r = removed \/ r = addLease(removed.s, l)
  BY DEF AddedStatic
<1> HIDE DEF o, r
<1>5. t = [srv EXCEPT !.obj = [@ EXCEPT ![l] = o]]
  BY DEF New
<1> HIDE DEF t, l
<1>6. Section(srv, t) /\ t.obj[l] # Blank
  BY <1>2, <1>3, <1>5, StateType, ObjectSection
<1>7. Section(t, removed.s)
  BY <1>6, RemoveDynamicLease DEF Section
<1> HIDE DEF removed
<1>8. Section(srv, removed.s)
  BY <1>6, <1>7, StateType, SectionTransitive
<1>9. removed.s.obj[l] # Blank
  BY <1>2, <1>6, <1>7, KeptExists DEF Section, Sane
<1>10. CASE r = removed
  BY <1>1, <1>8, <1>10, FinishStep DEF Section
<1>11. CASE r = addLease(removed.s, l)
  <2>1. Sane(r.s) /\ r.s.obj = removed.s.obj /\ StaticsStay(removed.s, r.s)
    BY <1>2, <1>8, <1>9, <1>11, AddLease DEF Section
  <2>2. Kept(srv, r.s)
    BY <1>8, <2>1 DEF Section, Kept
  <2>3. StaticsStay(srv, r.s)
    BY <1>8, <2>1, StateType, StaticsTransitive DEF Section, Sane
  <2> QED
    BY <1>1, <2>1, <2>2, <2>3, FinishStep
<1> QED
  BY <1>4, <1>10, <1>11

LEMMA UpdateStaticStep ==
    ASSUME TypeInv, NEW c \in Clients, NEW ip \in Addrs, NEW host \in Names \cup {NoName},
           UpdateStaticLease(c, ip, host)
    PROVE  Effect
<1> DEFINE o == StaticLease(c, ip, host)
           removed == rmLease(srv, srv.obj[findLease(srv, c)])
           l == FreshId(removed.s)
           t == New(removed.s, o)
           r == Updated(c, ip, host)
<1>1. FreeIds(srv) # {} /\ Finish(r)
  BY DEF UpdateStaticLease
<1>2. r = [err |-> TRUE, s |-> srv] \/ r = removed \/ r = addLease(t, l)
  BY DEF Updated
<1>3. Sane(removed.s) /\ Kept(srv, removed.s) /\ removed.s.obj = srv.obj
  BY StateType, RemoveLease
<1>4. o \in Lease
  BY StaticRecord
<1> HIDE DEF o, r, removed
<1>5. l \in Ids /\ removed.s.obj[l] = Blank
  <2>1. FreeIds(removed.s) # {}
    BY <1>1, <1>3 DEF FreeIds
  <2> QED
    BY <1>3, <2>1, FreshObject DEF Sane
<1>6. t = [removed.s EXCEPT !.obj = [@ EXCEPT ![l] = o]]
  BY DEF New
<1> HIDE DEF t, l
<1>7. Section(removed.s, t) /\ t.obj[l] # Blank
  BY <1>3, <1>4, <1>5, <1>6, ObjectSection
<1>8. CASE r = [err |-> TRUE, s |-> srv]
  <2>1. r.s = srv
    BY <1>8
  <2> QED
    BY <1>1, <2>1, StateType, FinishStep DEF Section
<1>9. CASE r = removed
  BY <1>1, <1>3, <1>9, FinishStep
<1>10. CASE r = addLease(t, l)
  <2>1. Sane(r.s) /\ r.s.obj = t.obj
    BY <1>5, <1>7, <1>10, AddLease DEF Section
  <2>2. Kept(srv, t)
    BY <1>3, <1>7, StateType, KeptTransitive DEF Section, Sane
  <2>3. Kept(srv, r.s)
    BY <2>1, <2>2 DEF Kept
  <2> QED
    BY <1>1, <2>1, <2>3, FinishStep
<1> QED
  BY <1>2, <1>8, <1>9, <1>10

LEMMA RemoveStaticStep ==
    ASSUME TypeInv, NEW c, NEW ip, NEW host, RemoveStaticLease(c, ip, host)
    PROVE  Effect /\ (Distinct(srv) => Distinct(srv')) /\ (Snaps => Snaps')
<1> DEFINE r == rmLease(srv, StaticLease(c, ip, host))
<1>1. Finish(r)
  BY DEF RemoveStaticLease
<1>2. Sane(r.s) /\ Kept(srv, r.s) /\ (Distinct(srv) => Distinct(r.s))
  BY StateType, RemoveLease
<1> HIDE DEF r
<1> QED
  BY <1>1, <1>2, FinishStep

LEMMA ResetStep ==
    ASSUME TypeInv, resetLeases
    PROVE  Effect /\ Distinct(srv') /\ (Snaps => Snaps')
<1> DEFINE s == [NoServer EXCEPT !.obj = srv.obj]
           r == [err |-> FALSE, s |-> s]
<1>1. Finish(r) /\ r.s = s
  BY DEF resetLeases
<1>2. srv.obj \in [Ids -> Lease \cup {Blank}]
  BY StateType, ServerType DEF Object
<1>3. NoServer \in Server /\ NoServer.leases = << >>
  <2>1. << >> \in Seq(Lease) /\ Len(<< >>) <= Cardinality(Ids)
    BY DHCPAssumption, FS_CardinalityType
  <2>2. Sane(ResetLeases(<< >>))
    BY <2>1, ResetServer
  <2>3. ResetLeases(<< >>) = NoServer
    BY ResetTurnsDef DEF ResetLeases
  <2> QED
    BY <2>2, <2>3 DEF Sane, NoServer
<1>4. s \in Server /\ s.leases = << >> /\ s.obj = srv.obj
  BY <1>2, <1>3 DEF Server
<1> HIDE DEF s
<1>5. Sane(s) /\ Distinct(s)
  BY <1>4 DEF Sane, Distinct
<1>6. Kept(srv, s)
  BY <1>4, StateType DEF Section, Kept
<1> HIDE DEF r
<1> QED
  BY <1>1, <1>5, <1>6, FinishStep

\* What dbStore collects is a sequence of leases, and of different addresses if
\* the table is.
LEMMA CollectedLeases ==
    ASSUME NEW s, Sane(s), NEW q \in dbLeases(s)
    PROVE  q \in Seq(Lease) /\ (Distinct(s) => Uniq(q))
<1> DEFINE D == dbIndexes(s)
           n == Cardinality(D)
<1>1. /\ s \in Server /\ s.obj \in [Ids -> Object] /\ Len(s.leases) \in Nat
      /\ DOMAIN s.leases = 1..Len(s.leases) /\ \A i \in 1..Len(s.leases) : s.leases[i] \in Ids
  BY ServerType, LenProperties DEF Sane
<1>2. D \subseteq 1..Len(s.leases)
  BY <1>1 DEF dbIndexes
<1>3. n \in Nat
  <2>1. IsFiniteSet(1..Len(s.leases))
    <3>1. 1 \in Int /\ Len(s.leases) \in Int
      BY <1>1
    <3> QED
      BY <3>1, FS_Interval
  <2>2. IsFiniteSet(D)
    BY <1>2, <2>1, FS_Subset
  <2> QED
    BY <2>2, FS_CardinalityType
<1>4. PICK p \in Injection(1..n, D) : q = [k \in DOMAIN p |-> s.obj[s.leases[p[k]]]]
  BY DEF dbLeases
<1> HIDE DEF D, n
<1>5. p \in [1..n -> D] /\ \A a, b \in 1..n : p[a] = p[b] => a = b
  BY <1>4 DEF Injection, IsInjective
<1>6. q = [k \in 1..n |-> s.obj[s.leases[p[k]]]]
  BY <1>4, <1>5
<1>7. \A k \in 1..n : p[k] \in 1..Len(s.leases) /\ q[k] = s.obj[s.leases[p[k]]] /\ q[k] \in Lease
  <2> SUFFICES ASSUME NEW k \in 1..n
               PROVE  p[k] \in 1..Len(s.leases) /\ q[k] = s.obj[s.leases[p[k]]] /\ q[k] \in Lease
    OBVIOUS
  <2>1. p[k] \in 1..Len(s.leases) /\ q[k] = s.obj[s.leases[p[k]]]
    BY <1>2, <1>5, <1>6
  <2>2. s.obj[s.leases[p[k]]] \in Lease
    BY <1>1, <2>1 DEF Sane, Object
  <2> QED
    BY <2>1, <2>2
<1>8. q \in [1..n -> Lease]
  BY <1>6, <1>7
<1>9. q \in Seq(Lease)
  BY <1>3, <1>8
<1>10. Len(q) = n
  BY <1>3, <1>8, <1>9, LenProperties
<1>11. ASSUME Distinct(s) PROVE Uniq(q)
  <2> SUFFICES ASSUME NEW i \in 1..n, NEW j \in 1..n, q[i].ip = q[j].ip PROVE i = j
    BY <1>10 DEF Uniq
  <2>1. /\ p[i] \in 1..Len(s.leases) /\ p[j] \in 1..Len(s.leases)
        /\ s.obj[s.leases[p[i]]].ip = s.obj[s.leases[p[j]]].ip
    BY <1>7
  <2>2. p[i] = p[j]
    BY <1>11, <2>1 DEF Distinct
  <2> QED
    BY <1>5, <2>2
<1> QED
  BY <1>9, <1>11

LEMMA StoreStep ==
    ASSUME TypeInv, NEW w \in Procs, dbStore(w)
    PROVE  /\ Effect /\ Statics(srv) \subseteq Statics(srv')
           /\ Distinct(srv) => Distinct(srv') /\ (Snaps => Snaps')
<1>1. PICK q \in dbLeases(srv) : After(w, srv, [proc[w] EXCEPT !.pc = "write", !.snap = q])
  BY DEF dbStore
<1> DEFINE p == [proc[w] EXCEPT !.pc = "write", !.snap = q]
<1>2. q \in Seq(Lease) /\ (Distinct(srv) => Uniq(q))
  BY StateType, CollectedLeases
<1>3. proc[w] \in Handler /\ GoesOn(srv, proc[w])
  BY StateType
<1>4. p \in Handler /\ p.lease = proc[w].lease /\ p.pc = "write" /\ p.snap = q
  BY <1>2, <1>3 DEF Handler
<1>5. After(w, srv, p)
  BY <1>1
<1> HIDE DEF p
<1>6. GoesOn(srv, p)
  BY <1>3, <1>4 DEF GoesOn
<1> QED
  BY <1>2, <1>4, <1>5, <1>6, StateType, AfterSection DEF Section

\* What the handler goes on with when the file is written or the write failed.
LEMMA StoredRecord ==
    ASSUME TypeInv, NEW w \in Procs, proc[w].pc = "write"
    PROVE  GoesOn(srv, Stored(w)) /\ Uniq(Stored(w).snap)
<1>1. proc[w] \in Handler /\ GoesOn(srv, proc[w])
  BY StateType
<1>2. CASE proc[w].next = "idle"
  BY <1>2, IdleRecord DEF Stored
<1>3. CASE proc[w].next = "decline"
  <2> DEFINE p == [proc[w] EXCEPT !.pc = proc[w].next, !.snap = << >>, !.next = "idle"]
  <2>1. Stored(w) = p
    BY <1>3 DEF Stored
  <2>2. p \in Handler /\ p.lease = proc[w].lease /\ p.pc = "decline" /\ p.snap = << >>
    BY <1>1, <1>3, IdleRecord DEF Handler
  <2> HIDE DEF p
  <2> QED
    BY <1>1, <2>1, <2>2, IdleRecord DEF GoesOn
<1>4. proc[w].next \in {"idle", "decline"}
  BY <1>1 DEF Handler
<1> QED
  BY <1>2, <1>3, <1>4

LEMMA WriteStep ==
    ASSUME TypeInv, NEW w \in Procs, writeDB(w) \/ WriteFails(w)
    PROVE  Effect /\ Calm
<1>1. proc[w].pc = "write" /\ After(w, srv, Stored(w))
  BY DEF writeDB, WriteFails
<1> QED
  BY <1>1, StateType, StoredRecord, AfterCalm

LEMMA RestartStep ==
    ASSUME TypeInv, Restart
    PROVE  /\ srv' \in Server /\ Sane(srv') /\ proc' \in [Procs -> Handler] /\ Handled'
           /\ Snaps' /\ (Uniq(disk) => Distinct(srv'))
<1> DEFINE s == ResetLeases(disk)
           R == Reachable(s, proc')
<1>1. /\ Len(disk) <= Cardinality(Ids) /\ proc' = [w \in Procs |-> Idle]
      /\ srv' = Collected(s, proc')
  BY DEF Restart
<1>2. Sane(s) /\ (Uniq(disk) => Distinct(s))
  BY <1>1, ResetServer DEF TypeInv, TypeOK
<1> HIDE DEF s
<1>3. s \in Server /\ s.leases \in Seq(Ids) /\ s.obj \in [Ids -> Object]
  BY <1>2, ServerType DEF Sane
<1>4. \A i \in 1..Len(s.leases) : s.leases[i] \in Ids /\ s.leases[i] \in R
  <2>1. DOMAIN s.leases = 1..Len(s.leases)
    BY <1>3, LenProperties
  <2> QED
    BY <1>3, <2>1, ServerType DEF Reachable, Range
<1>5. srv' = [s EXCEPT !.obj = [i \in Ids |-> IF i \in R THEN s.obj[i] ELSE Blank]]
  BY <1>1 DEF Collected
<1> HIDE DEF R
<1>6. /\ srv' \in Server /\ srv'.leases = s.leases /\ srv'.offs = s.offs
      /\ srv'.obj = [i \in Ids |-> IF i \in R THEN s.obj[i] ELSE Blank]
  BY <1>3, <1>5 DEF Server, Object
<1>7. \A i \in 1..Len(s.leases) : srv'.obj[srv'.leases[i]] = s.obj[s.leases[i]]
  BY <1>4, <1>6
<1>8. srv'.leases = s.leases /\ srv'.offs = s.offs
  BY <1>6
<1>9. Sane(srv')
  BY <1>2, <1>6, <1>7 DEF Sane
<1>10. ASSUME Distinct(s) PROVE Distinct(srv')
  BY <1>7, <1>8, <1>10 DEF Distinct
<1>11. Idle \in Handler /\ Idle.lease = NoLease /\ Idle.pc # "commit" /\ Uniq(Idle.snap)
  <2>1. GoesOn(srv, Idle) /\ Uniq(Idle.snap)
    BY IdleRecord
  <2> QED
    BY <2>1 DEF GoesOn, Idle
<1>12. proc' \in [Procs -> Handler] /\ Handled' /\ Snaps'
  BY <1>1, <1>11 DEF Handled, Snaps
<1> QED
  BY <1>2, <1>6, <1>9, <1>10, <1>12

------------------------------------------------------------------------------
(***************************************************************************)
(* The theorems.                                                           *)
(***************************************************************************)
LEMMA TypeInit == Init => TypeInv /\ Distinct(srv) /\ Snaps /\ Uniq(disk)
<1> SUFFICES ASSUME Init PROVE TypeInv /\ Distinct(srv) /\ Snaps /\ Uniq(disk)
  OBVIOUS
<1>1. /\ srv = NoServer /\ disk = << >> /\ proc = [w \in Procs |-> Idle] /\ now = 1
      /\ restarts \in Nat
  BY DEF Init
<1>2. Sane(NoServer) /\ Distinct(NoServer)
  <2>1. << >> \in Seq(Lease) /\ Len(<< >>) <= Cardinality(Ids)
    BY DHCPAssumption, FS_CardinalityType
  <2>2. Sane(ResetLeases(<< >>)) /\ Distinct(ResetLeases(<< >>))
    BY <2>1, ResetServer, IdleRecord
  <2>3. ResetLeases(<< >>) = NoServer
    BY ResetTurnsDef DEF ResetLeases
  <2> QED
    BY <2>2, <2>3
<1>3. Idle \in Handler /\ Idle.lease = NoLease /\ Idle.pc # "commit" /\ Uniq(Idle.snap)
  <2>1. GoesOn(srv, Idle) /\ Uniq(Idle.snap)
    BY IdleRecord
  <2> QED
    BY <2>1 DEF GoesOn, Idle
<1>4. proc \in [Procs -> Handler] /\ Handled /\ Snaps
  BY <1>1, <1>3 DEF Handled, Snaps
<1>5. TypeOK
  BY <1>1, <1>2, <1>4, IdleRecord, ConstantsType DEF TypeOK, Sane
<1> QED
  BY <1>1, <1>2, <1>4, <1>5, IdleRecord DEF TypeInv

LEMMA OtherParts ==
    ASSUME TypeInv, Next
    PROVE  /\ disk' \in Seq(Lease) /\ now' \in 1..MaxTime /\ restarts' \in Nat
           /\ Uniq(disk) /\ Snaps => Uniq(disk')
<1>1. disk \in Seq(Lease) /\ now \in 1..MaxTime /\ restarts \in Nat
  BY DEF TypeInv, TypeOK
<1>2. CASE Tick
  BY <1>1, <1>2, ConstantsType DEF Tick, counts
<1>3. ASSUME NEW w \in Procs, writeDB(w) PROVE disk' = proc[w].snap /\ UNCHANGED <<now, restarts>>
  BY <1>3 DEF writeDB, counts
<1>4. \A w \in Procs : proc[w].snap \in Seq(Lease)
  BY StateType DEF Handler
<1>5. CASE UNCHANGED <<disk, now, restarts>>
  BY <1>1, <1>5
<1>6. CASE \E w \in Procs : writeDB(w)
  BY <1>1, <1>3, <1>4, <1>6 DEF Snaps
<1>7. CASE FromClient
  BY <1>5, <1>7 DEF FromClient, handleDiscover, checkLease, DeclineStart, handleRelease, Packet
<1>8. CASE Locked
  BY <1>5, <1>8 DEF Locked, handleRequest, handleDecline, counts
<1>9. CASE FromAdmin
  BY <1>5, <1>9 DEF FromAdmin, AddStaticLease, UpdateStaticLease, RemoveStaticLease, resetLeases, Request
<1>10. CASE \E w \in Procs : dbStore(w) \/ WriteFails(w)
  BY <1>5, <1>10 DEF dbStore, WriteFails, counts
<1>11. CASE Restart
  BY <1>1, <1>11 DEF Restart
<1> QED
  BY <1>2, <1>6, <1>7, <1>8, <1>9, <1>10, <1>11 DEF Next, Database

\* Every step but a restart is a section under the lock or leaves the server
\* as it is.
LEMMA EffectStep ==
    ASSUME TypeInv, Next, ~Restart
    PROVE  Effect
<1>1. CASE Tick
  <2>1. srv' = srv /\ proc' = proc
    BY <1>1 DEF Tick
  <2>2. /\ srv' \in Server /\ Sane(srv') /\ proc' \in [Procs -> Handler]
    BY <2>1 DEF TypeInv, TypeOK
  <2>3. Handled'
    BY <2>1 DEF TypeInv, Handled
  <2>4. CommittedStep
    BY <2>1 DEF CommittedStep
  <2> QED
    BY <2>2, <2>3, <2>4 DEF Effect
<1>2. CASE FromClient
  BY <1>2, DiscoverStep, CheckStep, DeclineStartStep, ReleaseStep DEF FromClient
<1>3. CASE Locked
  BY <1>3, RequestStep, DeclineStep DEF Locked
<1>4. CASE FromAdmin
  BY <1>4, AddStaticStep, UpdateStaticStep, RemoveStaticStep, ResetStep DEF FromAdmin
<1>5. CASE Database
  BY <1>5, StoreStep, WriteStep DEF Database
<1> QED
  BY <1>1, <1>2, <1>3, <1>4, <1>5 DEF Next

LEMMA TypeStep ==
    TypeInv /\ [Next]_vars => TypeInv'
<1> SUFFICES ASSUME TypeInv, [Next]_vars PROVE TypeInv'
  OBVIOUS
<1>1. CASE Next
  <2>1. disk' \in Seq(Lease) /\ now' \in 1..MaxTime /\ restarts' \in Nat
    BY <1>1, OtherParts
  <2>2. srv' \in Server /\ Sane(srv') /\ proc' \in [Procs -> Handler] /\ Handled'
    BY <1>1, EffectStep, RestartStep DEF Effect
  <2> QED
    BY <2>1, <2>2 DEF TypeInv, TypeOK
<1>2. CASE UNCHANGED vars
  BY <1>2 DEF vars, counts, TypeInv, TypeOK, Handled
<1> QED
  BY <1>1, <1>2

(***************************************************************************)
(* The server's table, indexes, bits and lease objects, the handlers and   *)
(* the database always have their types.  TypeInv adds that what the table *)
(* and the handlers point to exists, without which a handler that commits  *)
(* could write through a pointer to no lease.                              *)
(***************************************************************************)
THEOREM TypeCorrect == Spec => []TypeOK
<1>1. Init => TypeInv
  BY TypeInit
<1>2. TypeInv => TypeOK
  BY DEF TypeInv
<1> QED
  BY <1>1, <1>2, TypeStep, PTL DEF Spec

(***************************************************************************)
(* Whatever the clients, the administrator and the database do, a lease    *)
(* that is committed and has not expired keeps its client: the lock is     *)
(* released between checkLease and commitLease, and reserveLease takes     *)
(* expired leases over, but only expired ones.                             *)
(***************************************************************************)
THEOREM CommittedCorrect == Spec => CommittedKept
<1>1. Init => TypeInv
  BY TypeInit
<1>2. TypeInv /\ [Next]_vars =>
        [restarts' = restarts =>
           \A l \in Range(srv.leases) \cap Range(srv'.leases) :
             LET o == srv.obj[l] IN
               o.exp >= now => srv'.obj[l].mac = o.mac]_vars
  <2> SUFFICES ASSUME TypeInv, Next, restarts' = restarts PROVE CommittedStep
    BY DEF CommittedStep
  <2>1. ~Restart
    BY DEF Restart, TypeInv
  <2> QED
    BY <2>1, EffectStep DEF Effect
<1> QED
  BY <1>1, <1>2, TypeStep, PTL DEF Spec, CommittedKept

(***************************************************************************)
(* No message of a client, no handler that takes the lock again and no     *)
(* addition of a static lease takes a static lease from the table: the     *)
(* loop of rmDynamicLease, which removes while it walks, never removes one *)
(* that it has not looked at.                                              *)
(***************************************************************************)
THEOREM StaticCorrect == Spec => StaticKept
<1>1. Init => TypeInv
  BY TypeInit
<1>2. TypeInv /\ [Next]_vars =>
        [FromClient \/ Locked \/ Adding => Statics(srv) \subseteq Statics(srv')]_vars
  <2> SUFFICES ASSUME TypeInv, FromClient \/ Locked \/ Adding
               PROVE  Statics(srv) \subseteq Statics(srv')
    OBVIOUS
  <2>1. CASE FromClient
    BY <2>1, DiscoverStep, CheckStep, DeclineStartStep, ReleaseStep DEF FromClient, Calm
  <2>2. CASE Locked
    BY <2>2, RequestStep, DeclineStep DEF Locked, Calm
  <2>3. CASE Adding
    BY <2>3, AddStaticStep DEF Adding
  <2> QED
    BY <2>1, <2>2, <2>3
<1> QED
  BY <1>1, <1>2, TypeStep, PTL DEF Spec, StaticKept

(***************************************************************************)
(* The operations that can put one address into two leases: a declined     *)
(* lease is added after allocateLease has added it, and a static lease may *)
(* be added beside a dynamic one.                                          *)
(***************************************************************************)
Doubling ==
    \/ \E w \in Workers : handleDecline(w)
    \/ \E c \in Clients, ip \in Addrs, host \in Names \cup {NoName} :
          AddStaticLease(c, ip, host) \/ UpdateStaticLease(c, ip, host)

UniqueInv == TypeInv /\ Distinct(srv) /\ Snaps /\ Uniq(disk)

LEMMA UniqueStep ==
    UniqueInv /\ [Next]_vars /\ [~Doubling]_vars => UniqueInv'
<1> SUFFICES ASSUME UniqueInv, [Next]_vars, [~Doubling]_vars PROVE UniqueInv'
  OBVIOUS
<1>1. TypeInv /\ TypeInv' /\ Distinct(srv) /\ Snaps /\ Uniq(disk)
  BY TypeStep DEF UniqueInv
<1>2. CASE UNCHANGED vars
  BY <1>1, <1>2 DEF UniqueInv, vars, Snaps
<1>3. CASE Next /\ ~Doubling
  <2>1. Uniq(disk')
    BY <1>1, <1>3, OtherParts
  <2>2. Distinct(srv') /\ Snaps'
    <3>1. CASE Tick
      BY <1>1, <3>1 DEF Tick, Snaps
    <3>2. CASE FromClient
      BY <1>1, <3>2, DiscoverStep, CheckStep, DeclineStartStep, ReleaseStep DEF FromClient, Calm
    <3>3. CASE Locked
      BY <1>1, <1>3, <3>3, RequestStep DEF Locked, Calm, Doubling
    <3>4. CASE FromAdmin
      BY <1>1, <1>3, <3>4, RemoveStaticStep, ResetStep DEF FromAdmin, Doubling
    <3>5. CASE Database
      BY <1>1, <3>5, StoreStep, WriteStep DEF Database, Calm
    <3>6. CASE Restart
      BY <1>1, <3>6, RestartStep
    <3> QED
      BY <1>3, <3>1, <3>2, <3>3, <3>4, <3>5, <3>6 DEF Next
  <2> QED
    BY <1>1, <2>1, <2>2 DEF UniqueInv
<1> QED
  BY <1>2, <1>3

LEMMA UniqueTable ==
    UniqueInv => AddressesUnique /\ LeasedNotFree
<1> SUFFICES ASSUME UniqueInv PROVE AddressesUnique /\ LeasedNotFree
  OBVIOUS
<1>1. DOMAIN srv.leases = 1..Len(srv.leases) /\ Distinct(srv)
  BY StateType, ServerType, LenProperties DEF UniqueInv
<1>2. AddressesUnique
  BY <1>1 DEF AddressesUnique, Distinct
<1>3. LeasedNotFree
  BY <1>1 DEF LeasedNotFree, Table, Distinct, Range
<1> QED
  BY <1>2, <1>3

(***************************************************************************)
(* As long as no declined lease is moved and no static lease is added or   *)
(* updated, no address is in two leases of the table, whatever the clients *)
(* ask for, whichever reserved address answers the ping, whenever the      *)
(* leases are stored, removed or reset and wherever the process is         *)
(* restarted from its database.                                            *)
(***************************************************************************)
THEOREM UniqueCorrect == Spec /\ [][~Doubling]_vars => []AddressesUnique
<1>1. Init => UniqueInv
  BY TypeInit DEF UniqueInv
<1> QED
  BY <1>1, UniqueStep, UniqueTable, PTL DEF Spec

(***************************************************************************)
(* Under the same condition, nextIP never finds the bit of a leased        *)
(* address unset and so never gives the address to a second client.        *)
(***************************************************************************)
THEOREM LeasedCorrect == Spec /\ [][~Doubling]_vars => []LeasedNotFree
<1>1. Init => UniqueInv
  BY TypeInit DEF UniqueInv
<1> QED
  BY <1>1, UniqueStep, UniqueTable, PTL DEF Spec

==============================================================================
