--------------------------- MODULE ClientsProofs ---------------------------
(***************************************************************************)
(* Theorems about Clients, for any clients, identifiers and bounds.        *)
(***************************************************************************)
EXTENDS Clients, TLAPS

\* The client under op.uid as map m has it: the old one until index.remove has
\* reached the map, the new one once index.add has.
Held(m) == IF op.pc < m THEN op.old ELSE IF op.pc < m + UIDMap THEN None ELSE op.new

\* The client under u as map m has it.
View(m, u) == IF op # None /\ u = op.uid THEN Held(m) ELSE uidToClient[u]

\* Each map is exact for the clients as it has them.
MapsExact == \A x \in Keys, u \in UIDs : toUID[x] = u <=> x \in KeysOf(View(MapOf(x), u))

\* A request has passed its checks, and these stay true while it holds mu.
Apart(c, u) == \A v \in UIDs \ {u} : KeysOf(c) \cap KeysOf(uidToClient[v]) = {}
RequestOK ==
    op # None =>
        /\ uidToClient[op.uid] = Held(UIDMap)
        /\ op.old = None => op.pc >= UIDMap /\ op.new # None
        /\ op.new = None => op.pc <= UIDMap
        /\ Apart(op.old, op.uid) /\ Apart(op.new, op.uid)

\* The configurations are those of the clients before the request in progress.
ConfsExact ==
    \A u \in UIDs :
        /\ conf[u] = None <=> Registry[u] = None
        /\ conf[u] # None =>
            /\ conf[u].ups = Registry[u].ups
            /\ ~ isConfigChanged(conf[u]) =>
                conf[u].proxy = newCustomUpstreamConfig(conf[u].ups)
            /\ conf[u].common <= common

\* A query has seen the clients before and after the request in progress, and a
\* UID that it found is of a client that it has seen with one of its identifiers.
Future == IF op = None THEN Registry ELSE Putting(op.uid, op.new)
QueryOK ==
    /\ Running => Registry \in query.regs /\ Future \in query.regs
    /\ query.pc \in {"client", "done"} /\ query.uid # None =>
        \E r \in query.regs, x \in Identifiers(query) : query.uid \in Owners(r, x)

IndexInv == TypeOK /\ MapsExact /\ RequestOK
IInv == IndexInv /\ ConfsExact /\ QueryOK

-----------------------------------------------------------------------------
LEMMA MapOfType == \A x \in Keys : MapOf(x) \in 1..5
BY DEF MapOf

LEMMA KeysType == \A c \in Profiles \cup {None} : KeysOf(c) \subseteq Keys
BY ProfilesAssumption DEF KeysOf, Keys

LEMMA NoKeys == KeysOf(None) = {}
BY DEF KeysOf

LEMMA RegistryAt ==
    ASSUME TypeOK, NEW u \in UIDs
    PROVE  Registry[u] = IF op # None /\ u = op.uid THEN op.old ELSE uidToClient[u]
BY DEF Registry, Putting, TypeOK, Requests

\* What a query reads from the index is a UID or None.
LEMMA FindTypes ==
    ASSUME TypeOK, NEW addr \in IPs, NEW id \in ClientIDs \cup {None}
    PROVE  /\ findByClientID(id) \in UIDs \cup {None}
           /\ RangeSubnets(addr) \in UIDs \cup {None}
           /\ findByIP(addr) \in UIDs \cup {None}
           /\ findByMAC(Leased[addr]) \in UIDs \cup {None}
           /\ find(id, addr) \in UIDs \cup {None}
<1>1. findByClientID(id) \in UIDs \cup {None}
  BY DEF findByClientID, TypeOK, Keys, Ids
<1>2. RangeSubnets(addr) \in UIDs \cup {None}
  <2> DEFINE hit == {s \in Subnets : toUID[s] # None /\ addr \in Contains[s]}
  <2>1. CASE hit = {}
    BY <2>1 DEF RangeSubnets
  <2>2. CASE hit # {}
    <3>1. \E s \in hit : \A t \in hit : ~ subnetBefore(t, s)
      <4>1. PICK s \in hit : \A t \in hit : Bits[t] <= Bits[s]
        BY <2>2, SubnetsAssumption
      <4> QED
        BY <4>1, AddressesAssumption DEF subnetBefore
    <3>2. (CHOOSE s \in hit : \A t \in hit : ~ subnetBefore(t, s)) \in Subnets
      BY <3>1
    <3> QED
      BY <2>2, <3>2 DEF RangeSubnets, TypeOK, Keys, Ids
  <2> QED
    BY <2>1, <2>2
<1>3. findByIP(addr) \in UIDs \cup {None}
  BY <1>2 DEF findByIP, TypeOK, Keys, Ids
<1>4. findByMAC(Leased[addr]) \in UIDs \cup {None}
  BY AddressesAssumption DEF findByMAC, TypeOK, Keys, Ids
<1> QED
  BY <1>1, <1>2, <1>3, <1>4 DEF find

-----------------------------------------------------------------------------
(* The index.                                                              *)

\* Clients as the maps have them are apart when no request is in progress.
LEMMA QuietApart ==
    ASSUME IndexInv, op = None, NEW u \in UIDs
    PROVE  Apart(uidToClient[u], u)
<1> SUFFICES ASSUME NEW v \in UIDs \ {u}, NEW x \in KeysOf(uidToClient[u]),
                    x \in KeysOf(uidToClient[v])
             PROVE  FALSE
  BY DEF Apart
<1>1. x \in Keys
  BY KeysType DEF IndexInv, TypeOK
<1>2. toUID[x] = u /\ toUID[x] = v
  BY <1>1 DEF IndexInv, MapsExact, View
<1> QED
  BY <1>2

LEMMA NewApart ==
    ASSUME IndexInv, op = None, NEW u \in UIDs, NEW c \in Profiles, ~ clashes(u, c)
    PROVE  Apart(c, u)
<1> SUFFICES ASSUME NEW v \in UIDs \ {u}, NEW x \in KeysOf(c), x \in KeysOf(uidToClient[v])
             PROVE  FALSE
  BY DEF Apart
<1>1. x \in Keys
  BY KeysType
<1>2. toUID[x] = v
  BY <1>1 DEF IndexInv, MapsExact, View
<1> QED
  BY <1>2, NoneAssumption DEF clashes

LEMMA BeginInv ==
    ASSUME IndexInv, op = None, ops < MaxOps,
           NEW u \in UIDs, NEW new \in Profiles \cup {None}, NEW pc,
           Apart(new, u),
           \/ pc = 0 /\ uidToClient[u] # None
           \/ pc = UIDMap /\ uidToClient[u] = None /\ new # None,
           Begin(u, uidToClient[u], new, pc)
    PROVE  IndexInv'
<1>1. TypeOK'
  <2>1. op' \in Requests
    BY DEF IndexInv, TypeOK, Begin, Requests, UIDMap
  <2>2. ops' \in 0..MaxOps
    BY BoundsAssumption DEF IndexInv, TypeOK, Begin
  <2>3. query' \in Queries /\ query'.pc = query.pc /\ query'.addr = query.addr
            /\ query'.uid = query.uid
    <3>1. Putting(u, new) \in [UIDs -> Profiles \cup {None}]
      BY DEF Putting, IndexInv, TypeOK
    <3> QED
      BY <3>1 DEF Begin, IndexInv, TypeOK, Queries
  <2> QED
    BY <2>1, <2>2, <2>3 DEF IndexInv, TypeOK, Begin
<1>2. op' # None /\ op'.uid = u /\ op'.old = uidToClient[u] /\ op'.new = new /\ op'.pc = pc
  <2>1. op' \in Requests
    BY DEF IndexInv, TypeOK, Begin, Requests, UIDMap
  <2> QED
    BY <2>1, NoneAssumption DEF Begin
<1>3. toUID' = toUID /\ uidToClient' = uidToClient
  BY DEF Begin
<1>4. \A m \in 1..6 : Held(m)' = uidToClient[u]
  BY <1>2 DEF Held, UIDMap
<1>5. MapsExact'
  <2> SUFFICES ASSUME NEW x \in Keys, NEW v \in UIDs
               PROVE  View(MapOf(x), v)' = View(MapOf(x), v)
    BY <1>3 DEF IndexInv, MapsExact
  <2>1. MapOf(x)' = MapOf(x) /\ MapOf(x) \in 1..6
    BY MapOfType DEF MapOf
  <2> QED
    BY <1>2, <1>3, <1>4, <2>1 DEF View
<1>6. RequestOK'
  <2>1. Apart(op.old, op.uid)' /\ Apart(op.new, op.uid)'
    BY <1>2, <1>3, QuietApart DEF Apart
  <2> QED
    BY <1>2, <1>3, <1>4, <2>1 DEF RequestOK, UIDMap
<1> QED
  BY <1>1, <1>5, <1>6 DEF IndexInv

LEMMA RequestInv == ASSUME IndexInv, Request PROVE IndexInv'
<1>1. ASSUME NEW u \in UIDs, NEW c \in Profiles, Add(u, c) PROVE IndexInv'
  <2>1. uidToClient[u] = None /\ op = None /\ ops < MaxOps /\ c # None
    BY <1>1, NoneAssumption DEF Add, clashesUID, CanLock
  <2>2. Apart(c, u)
    BY <1>1, <2>1, NewApart DEF Add
  <2> QED
    BY <1>1, <2>1, <2>2, BeginInv DEF Add
<1>2. ASSUME NEW n \in Names, toUID[n] # None, op = None
      PROVE  toUID[n] \in UIDs /\ uidToClient[toUID[n]] # None
  <2>1. toUID[n] \in UIDs /\ n \in Keys
    BY <1>2 DEF IndexInv, TypeOK, Keys
  <2>2. n \in KeysOf(uidToClient[toUID[n]])
    BY <1>2, <2>1 DEF IndexInv, MapsExact, View
  <2> QED
    BY <2>1, <2>2, NoKeys
<1>3. ASSUME NEW n \in Names, NEW c \in Profiles, Update(n, c) PROVE IndexInv'
  <2>1. toUID[n] \in UIDs /\ uidToClient[toUID[n]] # None /\ op = None /\ ops < MaxOps
    BY <1>2, <1>3 DEF Update, CanLock
  <2>2. Apart(c, toUID[n])
    BY <1>3, <2>1, NewApart DEF Update
  <2> QED
    BY <1>3, <2>1, <2>2, BeginInv DEF Update
<1>4. ASSUME NEW n \in Names, RemoveByName(n) PROVE IndexInv'
  <2>1. toUID[n] \in UIDs /\ uidToClient[toUID[n]] # None /\ op = None /\ ops < MaxOps
    BY <1>2, <1>4 DEF RemoveByName, CanLock
  <2>2. Apart(None, toUID[n])
    BY NoKeys DEF Apart
  <2> QED
    BY <1>4, <2>1, <2>2, BeginInv DEF RemoveByName
<1> QED
  BY <1>1, <1>3, <1>4 DEF Request

LEMMA RemoveInv == ASSUME IndexInv, remove PROVE IndexInv'
<1> DEFINE m == op.pc + 1
<1>1. op \in Requests /\ op # None /\ op.pc \in 0..5 /\ m \in 1..6
  BY DEF IndexInv, TypeOK, remove, Requests, UIDMap
<1>2. op' \in Requests /\ op' # None /\ op'.uid = op.uid /\ op'.old = op.old
        /\ op'.new = op.new /\ op'.pc = m
  <2>1. op' = [op EXCEPT !.pc = m] /\ op' \in Requests
    BY <1>1 DEF remove, Requests, UIDMap
  <2> QED
    BY <1>1, <2>1, NoneAssumption DEF Requests
<1>3. \A x \in Keys : toUID'[x] = IF x \in KeysOf(op.old) /\ MapOf(x) = m THEN None ELSE toUID[x]
  BY DEF remove, Removes, Writing
<1>4. \A u \in UIDs \ {op.uid} : uidToClient'[u] = uidToClient[u]
  BY DEF remove, IndexInv, TypeOK
<1>5. \A k \in 1..6 : Held(k)' = IF k = m THEN None ELSE Held(k)
  BY <1>1, <1>2 DEF Held, UIDMap
<1>6. Held(m) = op.old
  BY <1>1 DEF Held
<1>7. uidToClient'[op.uid] = Held(UIDMap)'
  <2>1. CASE m = UIDMap
    BY <1>1, <1>5, <2>1 DEF remove, IndexInv, TypeOK, Requests, UIDMap
  <2>2. CASE m # UIDMap
    BY <1>1, <1>5, <2>2 DEF remove, IndexInv, RequestOK, UIDMap
  <2> QED
    BY <2>1, <2>2
<1>8. TypeOK'
  <2>1. toUID' \in [Keys -> UIDs \cup {None}]
    BY DEF remove, IndexInv, TypeOK
  <2>2. uidToClient' \in [UIDs -> Profiles \cup {None}]
    BY DEF remove, IndexInv, TypeOK
  <2> QED
    BY <1>2, <2>1, <2>2 DEF remove, IndexInv, TypeOK
<1>9. MapsExact'
  <2> SUFFICES ASSUME NEW x \in Keys, NEW u \in UIDs
               PROVE  toUID'[x] = u <=> x \in KeysOf(View(MapOf(x), u)')
    BY DEF MapsExact, KeysOf, MapOf
  <2>1. MapOf(x) \in 1..6
    BY MapOfType
  <2>2. View(MapOf(x), u)' = IF u = op.uid THEN Held(MapOf(x))' ELSE uidToClient[u]
    BY <1>2, <1>4 DEF View, MapOf
  <2>3. Held(MapOf(x))' = IF MapOf(x) = m THEN None ELSE Held(MapOf(x))
    BY <1>5, <2>1 DEF MapOf
  <2>4. toUID[x] = u <=> x \in KeysOf(IF u = op.uid THEN Held(MapOf(x)) ELSE uidToClient[u])
    BY <1>1 DEF IndexInv, MapsExact, View
  <2>5. toUID[x] = op.uid <=> x \in KeysOf(Held(MapOf(x)))
    BY <1>1 DEF IndexInv, MapsExact, View, Requests
  <2> HIDE DEF m
  <2>6. CASE MapOf(x) # m
    BY <1>3, <2>2, <2>3, <2>4, <2>6
  <2>7. CASE MapOf(x) = m /\ u = op.uid
    BY <1>3, <1>6, <2>2, <2>3, <2>4, <2>7, NoKeys, NoneAssumption
  <2>8. CASE MapOf(x) = m /\ u # op.uid
    BY <1>3, <1>6, <2>2, <2>4, <2>5, <2>8, NoneAssumption
  <2> QED
    BY <2>6, <2>7, <2>8
<1>10. RequestOK'
  <2>1. Apart(op.old, op.uid)' /\ Apart(op.new, op.uid)'
    BY <1>1, <1>2, <1>4 DEF IndexInv, RequestOK, Apart
  <2>2. op.old # None
    BY <1>1 DEF IndexInv, RequestOK, UIDMap
  <2> QED
    BY <1>1, <1>2, <1>7, <2>1, <2>2 DEF RequestOK, UIDMap
<1> QED
  BY <1>8, <1>9, <1>10 DEF IndexInv

LEMMA AddInv == ASSUME IndexInv, add PROVE IndexInv'
<1> DEFINE m == op.pc - UIDMap + 1
<1>1. op \in Requests /\ op # None /\ op.pc \in 6..11 /\ m \in 1..6 /\ op.new # None
  BY DEF IndexInv, TypeOK, add, Adds, Requests, UIDMap
<1>2. op' \in Requests /\ op' # None /\ op'.uid = op.uid /\ op'.old = op.old
        /\ op'.new = op.new /\ op'.pc = op.pc + 1
  <2>1. op' = [op EXCEPT !.pc = op.pc + 1] /\ op' \in Requests
    BY <1>1 DEF add, Requests, UIDMap
  <2> QED
    BY <1>1, <2>1, NoneAssumption DEF Requests
<1>3. \A x \in Keys :
        toUID'[x] = IF x \in KeysOf(op.new) /\ MapOf(x) = m THEN op.uid ELSE toUID[x]
  BY DEF add, Writing
<1>4. \A u \in UIDs \ {op.uid} : uidToClient'[u] = uidToClient[u]
  BY DEF add, IndexInv, TypeOK
<1>5. \A k \in 1..6 : Held(k)' = IF k = m THEN op.new ELSE Held(k)
  BY <1>1, <1>2 DEF Held, UIDMap
<1>6. Held(m) = None
  BY <1>1 DEF Held, UIDMap
<1>7. uidToClient'[op.uid] = Held(UIDMap)'
  <2>1. CASE m = UIDMap
    BY <1>1, <1>5, <2>1 DEF add, IndexInv, TypeOK, Requests, UIDMap
  <2>2. CASE m # UIDMap
    BY <1>1, <1>5, <2>2 DEF add, IndexInv, RequestOK, UIDMap
  <2> QED
    BY <2>1, <2>2
<1>8. TypeOK'
  <2>1. toUID' \in [Keys -> UIDs \cup {None}]
    BY <1>1 DEF add, IndexInv, TypeOK, Requests
  <2>2. uidToClient' \in [UIDs -> Profiles \cup {None}]
    BY <1>1 DEF add, IndexInv, TypeOK, Requests
  <2> QED
    BY <1>2, <2>1, <2>2 DEF add, IndexInv, TypeOK
<1>9. MapsExact'
  <2> SUFFICES ASSUME NEW x \in Keys, NEW u \in UIDs
               PROVE  toUID'[x] = u <=> x \in KeysOf(View(MapOf(x), u)')
    BY DEF MapsExact, KeysOf, MapOf
  <2>1. MapOf(x) \in 1..6
    BY MapOfType
  <2>2. View(MapOf(x), u)' = IF u = op.uid THEN Held(MapOf(x))' ELSE uidToClient[u]
    BY <1>2, <1>4 DEF View, MapOf
  <2>3. Held(MapOf(x))' = IF MapOf(x) = m THEN op.new ELSE Held(MapOf(x))
    BY <1>5, <2>1 DEF MapOf
  <2>4. toUID[x] = u <=> x \in KeysOf(IF u = op.uid THEN Held(MapOf(x)) ELSE uidToClient[u])
    BY <1>1 DEF IndexInv, MapsExact, View
  <2>5. u # op.uid => ~ (x \in KeysOf(op.new) /\ x \in KeysOf(uidToClient[u]))
    BY <1>1 DEF IndexInv, RequestOK, Apart
  <2> HIDE DEF m
  <2>6. CASE MapOf(x) # m
    BY <1>3, <2>2, <2>3, <2>4, <2>6
  <2>7. CASE MapOf(x) = m /\ u = op.uid
    BY <1>3, <1>6, <2>2, <2>3, <2>4, <2>7, NoKeys
  <2>8. CASE MapOf(x) = m /\ u # op.uid
    BY <1>3, <2>2, <2>4, <2>5, <2>8
  <2> QED
    BY <2>6, <2>7, <2>8
<1>10. RequestOK'
  <2>1. Apart(op.old, op.uid)' /\ Apart(op.new, op.uid)'
    BY <1>1, <1>2, <1>4 DEF IndexInv, RequestOK, Apart
  <2> QED
    BY <1>1, <1>2, <1>7, <2>1 DEF RequestOK, UIDMap
<1> QED
  BY <1>8, <1>9, <1>10 DEF IndexInv

\* The client that a request leaves behind is the new one.
LEMMA UnlockHeld ==
    ASSUME IndexInv, Unlock
    PROVE  /\ op \in Requests /\ op # None
           /\ \A k \in 1..6 : Held(k) = op.new
           /\ uidToClient[op.uid] = op.new
<1>1. op \in Requests /\ op # None
  BY DEF IndexInv, TypeOK, Unlock
<1>2. \A k \in 1..6 : Held(k) = op.new
  BY <1>1 DEF Unlock, Held, UIDMap
<1> QED
  BY <1>1, <1>2 DEF IndexInv, RequestOK, UIDMap

LEMMA UnlockConf == ASSUME IndexInv, ConfsExact, Unlock PROVE conf' \in [UIDs -> Configs \cup {None}]
<1>1. op \in Requests /\ op # None
  BY UnlockHeld
<1>2. CASE op.new = None
  BY <1>1, <1>2 DEF Unlock, removeConf, IndexInv, TypeOK, Requests
<1>3. CASE op.new # None
  <2>1. op.new \in Profiles /\ op.uid \in UIDs /\ op.new.ups \in Lists
    BY <1>1, <1>3 DEF Requests, Lists
  <2> DEFINE k == IF conf[op.uid] = None
                  THEN [ups |-> op.new.ups, common |-> common, changed |-> TRUE, proxy |-> None]
                  ELSE [conf[op.uid] EXCEPT !.ups = op.new.ups, !.changed = TRUE]
  <2>2. k \in Configs
    BY <2>1 DEF Configs, IndexInv, TypeOK
  <2>3. conf' = [conf EXCEPT ![op.uid] = k]
    BY <1>3 DEF Unlock, updateCustomUpstreamConfig
  <2> HIDE DEF k
  <2> QED
    BY <2>1, <2>2, <2>3 DEF IndexInv, TypeOK
<1> QED
  BY <1>2, <1>3

LEMMA UnlockInv == ASSUME IndexInv, ConfsExact, Unlock PROVE IndexInv'
<1>1. TypeOK'
  BY UnlockConf DEF Unlock, IndexInv, TypeOK
<1>2. MapsExact'
  <2> SUFFICES ASSUME NEW x \in Keys, NEW u \in UIDs
               PROVE  View(MapOf(x), u)' = View(MapOf(x), u)
    BY DEF MapsExact, IndexInv, Unlock
  <2>1. View(MapOf(x), u)' = uidToClient[u]
    BY DEF View, Unlock
  <2>2. MapOf(x) \in 1..6
    BY MapOfType
  <2> QED
    BY <2>1, <2>2, UnlockHeld DEF View
<1> QED
  BY <1>1, <1>2 DEF IndexInv, RequestOK, Unlock

\* The steps that change neither the clients nor the request.
LEMMA QueryTypes ==
    ASSUME IndexInv, Lookup \/ updateCommonUpstreamConfig
    PROVE  TypeOK' /\ UNCHANGED <<toUID, uidToClient, op, ops>>
<1>1. CASE updateCommonUpstreamConfig
  <2>1. common' \in 0..MaxCommon
    BY <1>1, BoundsAssumption DEF updateCommonUpstreamConfig, IndexInv, TypeOK
  <2> QED
    BY <1>1, <2>1 DEF updateCommonUpstreamConfig, IndexInv, TypeOK
<1>2. ASSUME NEW id \in ClientIDs \cup {None}, NEW addr \in IPs, ApplyClientFiltering(id, addr)
      PROVE  TypeOK' /\ UNCHANGED <<toUID, uidToClient, op, ops>>
  <2>1. \A c \in Profiles \cup {None}, u \in UIDs :
            Putting(u, c) \in [UIDs -> Profiles \cup {None}]
    BY DEF Putting, IndexInv, TypeOK
  <2>2. Registry \in [UIDs -> Profiles \cup {None}]
    BY <2>1 DEF Registry, IndexInv, TypeOK, Requests
  <2>3. op # None => Putting(op.uid, op.new) \in [UIDs -> Profiles \cup {None}]
    BY <2>1 DEF IndexInv, TypeOK, Requests
  <2>4. query' \in Queries /\ query'.pc = "clientid" /\ query'.addr \in IPs
    BY <1>2, <2>2, <2>3 DEF ApplyClientFiltering, Queries, Pcs
  <2> QED
    BY <1>2, <2>4 DEF ApplyClientFiltering, IndexInv, TypeOK
<1>3. ASSUME NEW id \in ClientIDs \cup {None}, NEW addr \in IPs, CustomUpstreamConfig(id, addr)
      PROVE  TypeOK' /\ UNCHANGED <<toUID, uidToClient, op, ops>>
  <2> DEFINE u == find(id, addr)
  <2> DEFINE k == [conf[u] EXCEPT !.proxy = newCustomUpstreamConfig(conf[u].ups),
                                  !.common = common, !.changed = FALSE]
  <2>1. u \in UIDs /\ conf[u] \in Configs /\ conf' = [conf EXCEPT ![u] = k]
    BY <1>3, FindTypes DEF CustomUpstreamConfig, IndexInv, TypeOK
  <2>2. newCustomUpstreamConfig(conf[u].ups) \in Built \cup {None}
    BY <2>1 DEF newCustomUpstreamConfig, Built, Configs, IndexInv, TypeOK
  <2>3. k \in Configs
    BY <2>1, <2>2 DEF Configs, IndexInv, TypeOK
  <2> HIDE DEF u, k
  <2>4. conf' \in [UIDs -> Configs \cup {None}]
    BY <2>1, <2>3 DEF IndexInv, TypeOK
  <2> QED
    BY <1>3, <2>4 DEF CustomUpstreamConfig, IndexInv, TypeOK
<1>4. ASSUME NEW u \in UIDs \cup {None}, NEW pc \in Pcs \ {"client"}, query.pc # "idle", Read(u, pc)
      PROVE  TypeOK' /\ UNCHANGED <<toUID, uidToClient, op, ops>>
  <2>1. query' \in Queries /\ query'.addr = query.addr /\ query'.uid = u
            /\ query'.pc = IF u # None THEN "client" ELSE pc
    BY <1>4 DEF Read, IndexInv, TypeOK, Queries, Pcs
  <2> QED
    BY <1>4, <2>1 DEF Read, IndexInv, TypeOK
<1>5. query.pc # "idle" => query.addr \in IPs /\ query.id \in ClientIDs \cup {None}
  BY DEF IndexInv, TypeOK, Queries
<1>6. CASE ReadClientID \/ ReadIP \/ ReadSubnets \/ ReadMAC
  <2>1. CASE ReadClientID
    BY <1>4, <1>5, <2>1, FindTypes DEF ReadClientID, Pcs, IndexInv
  <2>2. CASE ReadIP
    <3>1. toUID[query.addr] \in UIDs \cup {None}
      BY <1>5, <2>2 DEF ReadIP, IndexInv, TypeOK, Keys, Ids
    <3> QED
      BY <1>4, <2>2, <3>1 DEF ReadIP, Pcs
  <2>3. CASE ReadSubnets
    BY <1>4, <1>5, <2>3, FindTypes DEF ReadSubnets, Pcs, IndexInv
  <2>4. CASE ReadMAC
    BY <1>4, <1>5, <2>4, FindTypes DEF ReadMAC, Pcs, IndexInv
  <2> QED
    BY <1>6, <2>1, <2>2, <2>3, <2>4
<1>7. CASE ReadClient
  <2>1. query' \in Queries /\ query'.addr = query.addr /\ query'.pc \in {"panic", "done"}
    BY <1>7 DEF ReadClient, IndexInv, TypeOK, Queries, Pcs
  <2> QED
    BY <1>5, <1>7, <2>1 DEF ReadClient, IndexInv, TypeOK
<1>8. CASE ConcurrentMapAccess
  <2>1. query' \in Queries /\ query'.addr = query.addr /\ query'.pc = "fatal" /\ query.pc # "idle"
    BY <1>8 DEF ConcurrentMapAccess, Running, IndexInv, TypeOK, Queries, Pcs
  <2> QED
    BY <1>5, <1>8, <2>1 DEF ConcurrentMapAccess, IndexInv, TypeOK
<1> QED
  BY <1>1, <1>2, <1>3, <1>6, <1>7, <1>8 DEF Lookup

LEMMA QueryInv == ASSUME IndexInv, Lookup \/ updateCommonUpstreamConfig PROVE IndexInv'
<1>1. TypeOK' /\ UNCHANGED <<toUID, uidToClient, op, ops>>
  BY QueryTypes
<1>2. MapsExact'
  BY <1>1 DEF IndexInv, MapsExact, View, Held, KeysOf, MapOf
<1>3. RequestOK'
  BY <1>1 DEF IndexInv, RequestOK, Held, Apart, KeysOf
<1> QED
  BY <1>1, <1>2, <1>3 DEF IndexInv

-----------------------------------------------------------------------------
(* The registry changes only when a request unlocks.                       *)

LEMMA RegistryType == ASSUME TypeOK PROVE Registry \in [UIDs -> Profiles \cup {None}]
BY DEF Registry, Putting, TypeOK, Requests

\* Two states with the same client under every UID have the same registry.
LEMMA RegistrySame ==
    ASSUME TypeOK, TypeOK', \A u \in UIDs : Registry[u]' = Registry[u]
    PROVE  Registry' = Registry
<1>1. Registry \in [UIDs -> Profiles \cup {None}]
  BY RegistryType
<1>2. Registry' \in [UIDs -> Profiles \cup {None}]
  BY DEF Registry, Putting, TypeOK, Requests
<1> QED
  BY <1>1, <1>2

LEMMA RegistryAtNext ==
    ASSUME TypeOK', NEW u \in UIDs
    PROVE  Registry[u]' = IF op' # None /\ u = op'.uid THEN op'.old ELSE uidToClient'[u]
BY DEF Registry, Putting, TypeOK, Requests

LEMMA RegistryKept ==
    ASSUME IndexInv, IndexInv', Request \/ remove \/ add \/ Lookup \/ updateCommonUpstreamConfig
    PROVE  Registry' = Registry
<1> USE DEF IndexInv
<1> SUFFICES ASSUME NEW u \in UIDs PROVE Registry[u]' = Registry[u]
  BY RegistrySame
<1>1. ASSUME NEW v, NEW c, NEW pc, op = None, Begin(v, uidToClient[v], c, pc)
      PROVE  Registry[u]' = Registry[u]
  BY <1>1, RegistryAt, RegistryAtNext DEF Begin
<1>2. CASE Request
  BY <1>1, <1>2, RegistryAt, RegistryAtNext
     DEF Request, Add, Update, RemoveByName, CanLock, clashesUID
<1>3. CASE remove \/ add
  <2>1. /\ op # None /\ op' = [op EXCEPT !.pc = @ + 1]
        /\ u # op.uid => uidToClient'[u] = uidToClient[u]
    BY <1>3 DEF remove, add, TypeOK
  <2>2. op \in Requests /\ op' \in Requests
    BY <1>3, <2>1, NoneAssumption DEF TypeOK, remove, add, Adds, Requests, UIDMap
  <2>3. op' # None /\ op'.uid = op.uid /\ op'.old = op.old
    BY <2>1, <2>2, NoneAssumption DEF Requests
  <2> QED
    BY <2>1, <2>3, RegistryAt, RegistryAtNext
<1>4. CASE Lookup \/ updateCommonUpstreamConfig
  BY <1>4, QueryTypes, RegistryAt, RegistryAtNext
<1> QED
  BY <1>2, <1>3, <1>4

LEMMA UnlockStep ==
    ASSUME IndexInv, IndexInv', Unlock
    PROVE  /\ op.uid \in UIDs
           /\ op.new \in Profiles \cup {None}
           /\ op.old = None => op.new # None
           /\ Registry' = [Registry EXCEPT ![op.uid] = op.new]
           /\ Registry[op.uid] = op.old
           /\ Apart(op.new, op.uid)
<1> USE DEF IndexInv
<1>1. op \in Requests /\ op # None /\ uidToClient[op.uid] = op.new
  BY UnlockHeld
<1>2. Registry' = uidToClient /\ Registry = [uidToClient EXCEPT ![op.uid] = op.old]
  BY <1>1 DEF Unlock, Registry, Putting
<1>3. Registry' = [Registry EXCEPT ![op.uid] = op.new]
  BY <1>1, <1>2 DEF TypeOK, Requests
<1> QED
  BY <1>1, <1>2, <1>3 DEF RequestOK, Requests, TypeOK

LEMMA RegistryStep ==
    ASSUME IndexInv, IndexInv', Unlock
    PROVE  Reg!Next
<1> USE DEF IndexInv
<1>1. CASE op.new = None
  BY <1>1, UnlockStep DEF Reg!Next, Reg!Drop
<1>2. CASE op.new # None
  <2>1. \A v \in UIDs \ {op.uid} : Registry[v] = uidToClient[v]
    BY RegistryAt
  <2>2. Reg!Put(op.uid, op.new)
    BY <2>1, UnlockStep DEF Reg!Put, Reg!KeysOf, Apart, KeysOf
  <2> QED
    BY <1>2, <2>2, UnlockStep DEF Reg!Next
<1> QED
  BY <1>1, <1>2

-----------------------------------------------------------------------------
(* The configurations.                                                     *)

LEMMA ConfsKept ==
    ASSUME ConfsExact, Registry' = Registry, UNCHANGED <<conf, common>>
    PROVE  ConfsExact'
BY DEF ConfsExact, isConfigChanged, newCustomUpstreamConfig

LEMMA ConfsStep ==
    ASSUME IInv, IndexInv', Next
    PROVE  ConfsExact'
<1> USE DEF IInv, IndexInv
<1>1. CASE Request \/ remove \/ add
  <2>1. UNCHANGED <<conf, common>>
    BY <1>1 DEF Request, Add, Update, RemoveByName, Begin, remove, add
  <2> QED
    BY <1>1, <2>1, RegistryKept, ConfsKept
<1>2. CASE Unlock
  <2>1. /\ op.uid \in UIDs
        /\ op.new \in Profiles \cup {None}
        /\ Registry' = [Registry EXCEPT ![op.uid] = op.new]
    BY <1>2, UnlockStep
  <2>2. Registry \in [UIDs -> Profiles \cup {None}]
    BY RegistryType
  <2>3. common' = common
    BY <1>2 DEF Unlock
  <2> SUFFICES ASSUME NEW u \in UIDs
               PROVE  /\ conf'[u] = None <=> Registry'[u] = None
                      /\ conf'[u] # None =>
                          /\ conf'[u].ups = Registry'[u].ups
                          /\ ~ isConfigChanged(conf[u])' =>
                              conf'[u].proxy = newCustomUpstreamConfig(conf[u].ups)'
                          /\ conf'[u].common <= common'
    BY DEF ConfsExact
  <2>4. CASE u # op.uid
    <3>1. conf'[u] = conf[u] /\ Registry'[u] = Registry[u]
      BY <1>2, <2>1, <2>2, <2>4 DEF Unlock, removeConf, updateCustomUpstreamConfig, TypeOK
    <3> QED
      BY <2>3, <3>1 DEF ConfsExact, isConfigChanged, newCustomUpstreamConfig
  <2>5. CASE u = op.uid /\ op.new = None
    BY <1>2, <2>1, <2>2, <2>5 DEF Unlock, removeConf, TypeOK
  <2>6. CASE u = op.uid /\ op.new # None
    <3> DEFINE k == IF conf[u] = None
                    THEN [ups |-> op.new.ups, common |-> common, changed |-> TRUE, proxy |-> None]
                    ELSE [conf[u] EXCEPT !.ups = op.new.ups, !.changed = TRUE]
    <3>1. conf'[u] = k
      BY <1>2, <2>1, <2>6 DEF Unlock, updateCustomUpstreamConfig, TypeOK
    <3>2. k.ups = op.new.ups /\ k.changed /\ k.common <= common
      BY DEF TypeOK, Configs, ConfsExact
    <3>3. k \in Configs
      BY <2>1, <2>6 DEF Configs, TypeOK, Lists
    <3> HIDE DEF k
    <3> QED
      BY <2>1, <2>2, <2>3, <2>6, <3>1, <3>2, <3>3, NoneAssumption DEF isConfigChanged
  <2> QED
    BY <2>4, <2>5, <2>6
<1>3. CASE updateCommonUpstreamConfig
  <2>1. Registry' = Registry
    BY <1>3, RegistryKept
  <2>2. conf' = conf /\ common' = common + 1
    BY <1>3 DEF updateCommonUpstreamConfig
  <2>3. \A u \in UIDs : conf[u] # None =>
            conf[u].common < common + 1 /\ conf[u].common \in Nat /\ common \in Nat
    BY BoundsAssumption DEF ConfsExact, TypeOK, Configs
  <2> QED
    BY <2>1, <2>2, <2>3 DEF ConfsExact, isConfigChanged
<1>4. ASSUME NEW id \in ClientIDs \cup {None}, NEW addr \in IPs, CustomUpstreamConfig(id, addr)
      PROVE  ConfsExact'
  <2> DEFINE v == find(id, addr)
  <2> DEFINE k == [conf[v] EXCEPT !.proxy = newCustomUpstreamConfig(conf[v].ups),
                                  !.common = common, !.changed = FALSE]
  <2>1. v \in UIDs /\ conf[v] \in Configs /\ conf' = [conf EXCEPT ![v] = k] /\ common' = common
    BY <1>4, FindTypes DEF CustomUpstreamConfig, TypeOK
  <2>2. Registry' = Registry
    BY <1>4, RegistryKept DEF Lookup
  <2>3. k.ups = conf[v].ups /\ k.common = common /\ k.proxy = newCustomUpstreamConfig(conf[v].ups)
    BY <2>1 DEF Configs
  <2>4. conf'[v] = k /\ conf'[v] # None /\ \A u \in UIDs \ {v} : conf'[u] = conf[u]
    <3>1. newCustomUpstreamConfig(conf[v].ups) \in Built \cup {None}
      BY <2>1 DEF newCustomUpstreamConfig, Built, Configs, TypeOK
    <3>2. k \in Configs
      BY <2>1, <3>1 DEF Configs, TypeOK
    <3> HIDE DEF k, v
    <3> QED
      BY <2>1, <3>2, NoneAssumption DEF TypeOK
  <2>5. conf[v] # None /\ common <= common
    BY <1>4, BoundsAssumption DEF CustomUpstreamConfig, TypeOK
  <2> HIDE DEF k, v
  <2> SUFFICES ASSUME NEW u \in UIDs
               PROVE  /\ conf'[u] = None <=> Registry'[u] = None
                      /\ conf'[u] # None =>
                          /\ conf'[u].ups = Registry'[u].ups
                          /\ ~ isConfigChanged(conf[u])' =>
                              conf'[u].proxy = newCustomUpstreamConfig(conf[u].ups)'
                          /\ conf'[u].common <= common'
    BY DEF ConfsExact
  <2>6. CASE u = v
    BY <2>1, <2>2, <2>3, <2>4, <2>5, <2>6 DEF ConfsExact, newCustomUpstreamConfig
  <2>7. CASE u # v
    BY <2>1, <2>2, <2>4, <2>7 DEF ConfsExact, isConfigChanged, newCustomUpstreamConfig
  <2> QED
    BY <2>6, <2>7
<1>5. CASE Lookup /\ UNCHANGED <<conf, common>>
  BY <1>5, RegistryKept, ConfsKept
<1>6. CASE Lookup
  BY <1>4, <1>5, <1>6 DEF Lookup, ApplyClientFiltering, ReadClientID, ReadIP, ReadSubnets,
                          ReadMAC, ReadClient, Read, ConcurrentMapAccess
<1> QED
  BY <1>1, <1>2, <1>3, <1>6 DEF Next

-----------------------------------------------------------------------------
(* Lookups when no request is in progress.                                 *)

\* An identifier has the owner that the index says, or none.
LEMMA OwnerFound ==
    ASSUME IndexInv, op = None, NEW x \in Ids
    PROVE  Owners(uidToClient, x) = {toUID[x]} \ {None}
<1>1. ASSUME NEW u \in UIDs
      PROVE  toUID[x] = u <=> uidToClient[u] # None /\ x \in uidToClient[u].ids
  <2>1. x \in Keys
    BY DEF Keys
  <2>2. toUID[x] = u <=> x \in KeysOf(uidToClient[u])
    BY <2>1 DEF IndexInv, MapsExact, View
  <2>3. uidToClient[u] # None => uidToClient[u].name # x
    BY ProfilesAssumption DEF IndexInv, TypeOK
  <2> QED
    BY <2>2, <2>3 DEF KeysOf
<1>2. toUID[x] \in UIDs \cup {None}
  BY DEF IndexInv, TypeOK, Keys
<1> QED
  BY <1>1, <1>2, NoneAssumption DEF Owners

LEMMA NoOwner == ASSUME IndexInv PROVE Owners(uidToClient, None) = {}
BY NoneAssumption, ProfilesAssumption DEF Owners, IndexInv, TypeOK, Keys

\* The first subnet of the sorted map is the narrowest that has an owner.
LEMMA SubnetFound ==
    ASSUME IndexInv, op = None, NEW addr \in IPs,
           NEW around, around = {s \in Subnets : addr \in Contains[s]
                                                  /\ Owners(uidToClient, s) # {}}
    PROVE  /\ around = {} => RangeSubnets(addr) = None
           /\ around # {} =>
                /\ RangeSubnets(addr) # None
                /\ UNION {Owners(uidToClient, s) :
                            s \in {s \in around : \A t \in around : Bits[t] <= Bits[s]}}
                     = {RangeSubnets(addr)}
<1>1. \A s \in Subnets : Owners(uidToClient, s) = {toUID[s]} \ {None}
  BY OwnerFound DEF Ids
<1>2. around = {s \in Subnets : toUID[s] # None /\ addr \in Contains[s]}
  BY <1>1
<1>3. CASE around = {}
  BY <1>2, <1>3 DEF RangeSubnets
<1>4. CASE around # {}
  <2> DEFINE first == CHOOSE s \in around : \A t \in around : ~ subnetBefore(t, s)
  <2>1. RangeSubnets(addr) = toUID[first]
    BY <1>2, <1>4 DEF RangeSubnets
  <2>2. \E s \in around : \A t \in around : ~ subnetBefore(t, s)
    <3>1. PICK s \in around : \A t \in around : Bits[t] <= Bits[s]
      BY <1>4, <1>2, SubnetsAssumption
    <3> QED
      BY <3>1, <1>2, AddressesAssumption DEF subnetBefore
  <2>3. first \in around /\ \A t \in around : ~ subnetBefore(t, first)
    BY <2>2
  <2> HIDE DEF first
  <2>4. \A t \in around : Bits[t] <= Bits[first]
    BY <1>2, <2>3, AddressesAssumption DEF subnetBefore
  <2>5. ASSUME NEW s \in around, \A t \in around : Bits[t] <= Bits[s]
        PROVE  s = first
    <3>1. Bits[s] = Bits[first]
      BY <1>2, <2>3, <2>4, <2>5, AddressesAssumption
    <3>2. addr \in Contains[s] \cap Contains[first]
      BY <1>2, <2>3
    <3> QED
      BY <1>2, <2>3, <3>1, <3>2, AddressesAssumption
  <2>6. {s \in around : \A t \in around : Bits[t] <= Bits[s]} = {first}
    BY <2>3, <2>4, <2>5
  <2>7. Owners(uidToClient, first) = {toUID[first]} /\ toUID[first] # None
    BY <1>1, <1>2, <2>3
  <2> QED
    BY <1>4, <2>1, <2>6, <2>7
<1> QED
  BY <1>3, <1>4

LEMMA QuietLookup ==
    ASSUME IndexInv, op = None, NEW id \in ClientIDs \cup {None}, NEW addr \in IPs
    PROVE  {find(id, addr)} \ {None} = Belongs(uidToClient, id, addr)
<1> DEFINE r == uidToClient
<1> DEFINE around == {s \in Subnets : addr \in Contains[s] /\ Owners(r, s) # {}}
<1> DEFINE narrowest == {s \in around : \A t \in around : Bits[t] <= Bits[s]}
<1>1. Owners(r, id) = {findByClientID(id)} \ {None}
  BY OwnerFound, NoOwner DEF findByClientID, Ids
<1>2. Owners(r, addr) = {toUID[addr]} \ {None}
  BY OwnerFound DEF Ids
<1>3. Owners(r, Leased[addr]) = {findByMAC(Leased[addr])} \ {None}
  BY OwnerFound, NoOwner, AddressesAssumption DEF findByMAC, Ids
<1>4. /\ around = {} => RangeSubnets(addr) = None
      /\ around # {} => RangeSubnets(addr) # None
                        /\ UNION {Owners(r, s) : s \in narrowest} = {RangeSubnets(addr)}
  BY SubnetFound
<1>5. Belongs(r, id, addr) =
        IF Owners(r, id) # {} THEN Owners(r, id)
        ELSE IF Owners(r, addr) # {} THEN Owners(r, addr)
        ELSE IF around # {} THEN UNION {Owners(r, s) : s \in narrowest}
        ELSE Owners(r, Leased[addr])
  BY DEF Belongs
<1>6. find(id, addr) =
        IF findByClientID(id) # None THEN findByClientID(id)
        ELSE IF findByIP(addr) # None THEN findByIP(addr)
        ELSE findByMAC(Leased[addr])
  BY DEF find
<1> HIDE DEF r, around, narrowest
<1>7. CASE findByClientID(id) # None
  <2>1. Owners(r, id) = {findByClientID(id)}
    BY <1>1, <1>7
  <2> QED
    BY <1>5, <1>6, <1>7, <2>1 DEF r
<1>8. CASE findByClientID(id) = None
  <2>1. Owners(r, id) = {}
    BY <1>1, <1>8
  <2>2. CASE toUID[addr] # None
    <3>1. Owners(r, addr) = {toUID[addr]} /\ findByIP(addr) = toUID[addr]
      BY <1>2, <2>2 DEF findByIP
    <3> QED
      BY <1>5, <1>6, <1>8, <2>1, <2>2, <3>1 DEF r
  <2>3. CASE toUID[addr] = None
    <3>1. Owners(r, addr) = {} /\ findByIP(addr) = RangeSubnets(addr)
      BY <1>2, <2>3 DEF findByIP
    <3>2. CASE around # {}
      BY <1>4, <1>5, <1>6, <1>8, <2>1, <3>1, <3>2 DEF r
    <3>3. CASE around = {}
      BY <1>3, <1>4, <1>5, <1>6, <1>8, <2>1, <3>1, <3>3 DEF r
    <3> QED
      BY <3>2, <3>3
  <2> QED
    BY <2>2, <2>3
<1> QED
  BY <1>7, <1>8

-----------------------------------------------------------------------------
(* A query that reads the index between the steps of a request.            *)

\* What a map says of an identifier was so before the request in progress, or
\* will be so after it.
LEMMA SeenOwner ==
    ASSUME IndexInv, NEW x \in Ids, toUID[x] # None
    PROVE  \E r \in {Registry, Future} : toUID[x] \in Owners(r, x)
<1> DEFINE u == toUID[x]
<1>1. x \in Keys /\ u \in UIDs
  BY DEF IndexInv, TypeOK, Keys
<1>2. x \in KeysOf(View(MapOf(x), u))
  BY <1>1 DEF IndexInv, MapsExact
<1>3. View(MapOf(x), u) \in {Registry[u], Future[u]}
  <2>1. CASE op = None \/ u # op.uid
    BY <1>1, <2>1, RegistryAt DEF View, IndexInv
  <2>2. CASE op # None /\ u = op.uid
    <3>1. Future[u] = op.new /\ Registry[u] = op.old
      BY <1>1, <2>2, RegistryAt DEF Future, Putting, IndexInv, TypeOK
    <3>2. MapOf(x) \in 1..5 /\ op \in Requests
      BY <1>1, <2>2, MapOfType DEF IndexInv, TypeOK
    <3>3. Held(MapOf(x)) \in {op.old, None, op.new}
      BY DEF Held
    <3> QED
      BY <1>2, <2>2, <3>1, <3>3, NoKeys DEF View
  <2> QED
    BY <2>1, <2>2
<1>4. Registry[u] \in Profiles \cup {None} /\ Future[u] \in Profiles \cup {None}
  BY <1>1, RegistryType DEF Future, Putting, IndexInv, TypeOK, Requests
<1>5. ASSUME NEW c \in Profiles \cup {None}, x \in KeysOf(c)
      PROVE  c # None /\ x \in c.ids
  BY <1>5, NoneAssumption, ProfilesAssumption DEF KeysOf
<1>6. CASE View(MapOf(x), u) = Registry[u]
  BY <1>1, <1>2, <1>4, <1>5, <1>6 DEF Owners
<1>7. CASE View(MapOf(x), u) = Future[u]
  BY <1>1, <1>2, <1>4, <1>5, <1>7 DEF Owners
<1> QED
  BY <1>3, <1>6, <1>7

LEMMA RangeFound ==
    ASSUME TypeOK, NEW addr \in IPs, RangeSubnets(addr) # None
    PROVE  \E s \in Subnets : addr \in Contains[s] /\ toUID[s] = RangeSubnets(addr)
<1> DEFINE hit == {s \in Subnets : toUID[s] # None /\ addr \in Contains[s]}
<1>1. hit # {}
  BY DEF RangeSubnets
<1>2. PICK s \in hit : \A t \in hit : Bits[t] <= Bits[s]
  BY <1>1, SubnetsAssumption
<1>3. \A t \in hit : ~ subnetBefore(t, s)
  BY <1>2, AddressesAssumption DEF subnetBefore
<1> DEFINE first == CHOOSE z \in hit : \A t \in hit : ~ subnetBefore(t, z)
<1>4. first \in hit
  BY <1>3
<1>5. RangeSubnets(addr) = toUID[first]
  BY <1>1 DEF RangeSubnets
<1> HIDE DEF first
<1> QED
  BY <1>4, <1>5

\* The registry after the request does not change while the request goes on.
LEMMA FutureKept ==
    ASSUME IndexInv, IndexInv', remove \/ add \/ Lookup \/ updateCommonUpstreamConfig
    PROVE  Future' = Future
<1> USE DEF IndexInv
<1>1. Registry' = Registry
  BY RegistryKept
<1>2. CASE remove \/ add
  <2>1. /\ op # None /\ op' = [op EXCEPT !.pc = @ + 1] /\ op \in Requests
        /\ \A u \in UIDs : u # op.uid => uidToClient'[u] = uidToClient[u]
    BY <1>2 DEF remove, add, TypeOK
  <2>2. op' \in Requests
    BY <1>2, <2>1, NoneAssumption DEF TypeOK, remove, add, Adds, Requests, UIDMap
  <2>3. op' # None /\ op'.uid = op.uid /\ op'.new = op.new
    BY <2>1, <2>2, NoneAssumption DEF Requests
  <2>4. op.uid \in UIDs /\ op.new \in Profiles \cup {None}
    BY <2>1 DEF Requests
  <2>5. /\ Future = [uidToClient EXCEPT ![op.uid] = op.new]
        /\ Future' = [uidToClient' EXCEPT ![op.uid] = op.new]
    BY <2>1, <2>3 DEF Future, Putting
  <2> HIDE DEF Future
  <2> QED
    BY <2>1, <2>4, <2>5 DEF TypeOK
<1>3. CASE Lookup \/ updateCommonUpstreamConfig
  <2>1. op' = op /\ uidToClient' = uidToClient
    BY <1>3, QueryTypes
  <2> QED
    BY <1>1, <2>1 DEF Future, Putting
<1> QED
  BY <1>2, <1>3

LEMMA ReadStep ==
    ASSUME IndexInv, IndexInv', QueryOK, Running, Lookup,
           NEW u, NEW pc \in {"ip", "subnet", "mac", "done"}, Read(u, pc),
           u # None => \E x \in Identifiers(query) \cap Ids : toUID[x] = u
    PROVE  QueryOK'
<1>1. query' = [query EXCEPT !.uid = u, !.pc = IF u # None THEN "client" ELSE pc]
        /\ query \in Queries
  BY DEF Read, IndexInv, TypeOK
<1>2. /\ query'.regs = query.regs /\ query'.id = query.id /\ query'.addr = query.addr
      /\ query'.uid = u
  BY <1>1 DEF Queries
<1>3. Registry' = Registry /\ Future' = Future
  BY RegistryKept, FutureKept
<1>4. Identifiers(query)' = Identifiers(query)
  BY <1>2 DEF Identifiers
<1>5. u # None => \E r \in query.regs, x \in Identifiers(query) : u \in Owners(r, x)
  BY SeenOwner DEF QueryOK
<1>6. u # None => \E r \in query'.regs, x \in Identifiers(query)' : query'.uid \in Owners(r, x)
  BY <1>2, <1>4, <1>5
<1> QED
  BY <1>2, <1>3, <1>6 DEF QueryOK, Owners

LEMMA QueryOKStep == ASSUME IndexInv, IndexInv', QueryOK, Next PROVE QueryOK'
<1> USE DEF IndexInv
<1>1. CASE query' = query /\ (remove \/ add \/ Lookup \/ updateCommonUpstreamConfig)
  BY <1>1, RegistryKept, FutureKept DEF QueryOK, Running, Identifiers, Owners
<1>2. CASE Request
  <2>1. PICK u \in UIDs, c \in Profiles \cup {None}, pc \in {0, UIDMap} :
            op = None /\ Begin(u, uidToClient[u], c, pc)
    <3>1. ASSUME NEW n \in Names PROVE toUID[n] \in UIDs \cup {None}
      BY DEF TypeOK, Keys
    <3> QED
      BY <1>2, <3>1 DEF Request, Add, Update, RemoveByName, clashesUID, CanLock, UIDMap
  <2>2. Registry' = Registry
    BY <1>2, RegistryKept
  <2>3. Future' = Putting(u, c)
    <3>1. op' # None /\ op'.uid = u /\ op'.new = c /\ uidToClient' = uidToClient
      <4>1. op' \in Requests
        BY <2>1 DEF Begin, Requests, UIDMap, TypeOK
      <4> QED
        BY <2>1, <4>1, NoneAssumption DEF Begin
    <3> QED
      BY <3>1 DEF Future, Putting
  <2>4. CASE Running
    <3>1. query' = [query EXCEPT !.regs = @ \cup {Putting(u, c)}] /\ query \in Queries
      BY <2>1, <2>4 DEF Begin, TypeOK
    <3>2. /\ query'.regs = query.regs \cup {Putting(u, c)}
          /\ query'.id = query.id /\ query'.addr = query.addr
          /\ query'.uid = query.uid /\ query'.pc = query.pc
      BY <3>1 DEF Queries
    <3>3. Identifiers(query)' = Identifiers(query)
      BY <3>2 DEF Identifiers
    <3> QED
      BY <2>2, <2>3, <2>4, <3>2, <3>3 DEF QueryOK, Owners
  <2>5. CASE ~ Running
    <3>1. query' = query
      BY <2>1, <2>5 DEF Begin
    <3> QED
      BY <2>5, <3>1 DEF QueryOK, Running, Identifiers, Owners
  <2> QED
    BY <2>4, <2>5
<1>3. CASE Unlock
  <2>1. Registry' = Future /\ Future' = Future
    BY <1>3, UnlockHeld DEF Unlock, Registry, Future, Putting, TypeOK, Requests
  <2>2. query' = query
    BY <1>3 DEF Unlock
  <2> QED
    BY <2>1, <2>2 DEF QueryOK, Running, Identifiers, Owners
<1>4. CASE remove \/ add \/ updateCommonUpstreamConfig
  BY <1>1, <1>4 DEF remove, add, updateCommonUpstreamConfig
<1>5. ASSUME NEW id \in ClientIDs \cup {None}, NEW addr \in IPs, CustomUpstreamConfig(id, addr)
      PROVE  QueryOK'
  BY <1>1, <1>5 DEF CustomUpstreamConfig, Lookup
<1>6. ASSUME NEW id \in ClientIDs \cup {None}, NEW addr \in IPs, ApplyClientFiltering(id, addr)
      PROVE  QueryOK'
  <2>1. Registry' = Registry /\ Future' = Future
    BY <1>6, RegistryKept, FutureKept DEF Lookup
  <2>2. query'.regs = {Registry, Future} /\ query'.pc = "clientid"
    BY <1>6 DEF ApplyClientFiltering, Future
  <2> QED
    BY <2>1, <2>2 DEF QueryOK
<1>7. Running => query.addr \in IPs /\ query.id \in ClientIDs \cup {None}
  BY DEF TypeOK, Queries, Running
<1>8. CASE ReadClientID
  <2>1. findByClientID(query.id) # None =>
            query.id \in Identifiers(query) \cap Ids /\ toUID[query.id] = findByClientID(query.id)
    BY <1>7, <1>8 DEF ReadClientID, Running, findByClientID, Identifiers, Ids
  <2> QED
    BY <1>8, <2>1, ReadStep DEF ReadClientID, Running, Lookup
<1>9. CASE ReadIP
  <2>1. query.addr \in Identifiers(query) \cap Ids
    BY <1>7, <1>9 DEF ReadIP, Running, Identifiers, Ids
  <2> QED
    BY <1>9, <2>1, ReadStep DEF ReadIP, Running, Lookup
<1>10. CASE ReadSubnets
  <2>1. RangeSubnets(query.addr) # None =>
            \E x \in Identifiers(query) \cap Ids : toUID[x] = RangeSubnets(query.addr)
    BY <1>7, <1>10, RangeFound DEF ReadSubnets, Running, Identifiers, Ids
  <2> QED
    BY <1>10, <2>1, ReadStep DEF ReadSubnets, Running, Lookup
<1>11. CASE ReadMAC
  <2>1. findByMAC(Leased[query.addr]) # None =>
            /\ Leased[query.addr] \in Identifiers(query) \cap Ids
            /\ toUID[Leased[query.addr]] = findByMAC(Leased[query.addr])
    BY <1>7, <1>11, AddressesAssumption DEF ReadMAC, Running, findByMAC, Identifiers, Ids
  <2> QED
    BY <1>11, <2>1, ReadStep DEF ReadMAC, Running, Lookup
<1>12. CASE ReadClient
  <2>1. query'.pc \in {"panic", "done"} /\ query'.regs = query.regs /\ query'.uid = query.uid
            /\ query'.id = query.id /\ query'.addr = query.addr
    BY <1>12 DEF ReadClient, TypeOK, Queries
  <2>2. Identifiers(query)' = Identifiers(query)
    BY <2>1 DEF Identifiers
  <2> QED
    BY <1>12, <2>1, <2>2 DEF QueryOK, Running, ReadClient, Owners
<1>13. CASE ConcurrentMapAccess
  <2>1. query'.pc = "fatal"
    BY <1>13 DEF ConcurrentMapAccess, TypeOK, Queries
  <2> QED
    BY <2>1 DEF QueryOK, Running
<1> QED
  BY <1>2, <1>3, <1>4, <1>5, <1>6, <1>8, <1>9, <1>10, <1>11, <1>12, <1>13 DEF Next, Lookup

-----------------------------------------------------------------------------
(* The theorems.                                                           *)

LEMMA InitInv == Init => IInv
<1> SUFFICES ASSUME Init PROVE IInv
  OBVIOUS
<1>1. TypeOK
  BY BoundsAssumption DEF Init, TypeOK, NoQuery, Queries, Pcs
<1>2. MapsExact
  BY NoneAssumption DEF Init, MapsExact, View, KeysOf
<1>3. ConfsExact
  BY DEF Init, ConfsExact, Registry
<1> QED
  BY <1>1, <1>2, <1>3 DEF Init, IInv, IndexInv, RequestOK, QueryOK, Running, NoQuery

LEMMA NextInv == IInv /\ [Next]_vars => IInv'
<1> SUFFICES ASSUME IInv, [Next]_vars PROVE IInv'
  OBVIOUS
<1>1. CASE Next
  <2>1. IndexInv'
    BY <1>1, RequestInv, RemoveInv, AddInv, UnlockInv, QueryInv DEF Next, IInv
  <2> QED
    BY <1>1, <2>1, ConfsStep, QueryOKStep DEF IInv
<1>2. CASE UNCHANGED vars
  <2>1. TypeOK'
    BY <1>2 DEF vars, IInv, IndexInv, TypeOK
  <2>2. MapsExact'
    BY <1>2 DEF vars, IInv, IndexInv, MapsExact, View, Held, KeysOf, MapOf
  <2>3. RequestOK'
    BY <1>2 DEF vars, IInv, IndexInv, RequestOK, Held, Apart, KeysOf
  <2>4. ConfsExact'
    <3>1. Registry' = Registry
      BY <1>2 DEF vars, Registry, Putting
    <3> QED
      BY <1>2, <3>1, ConfsKept DEF vars, IInv
  <2>5. QueryOK'
    BY <1>2 DEF vars, IInv, QueryOK, Running, Registry, Future, Putting, Identifiers, Owners
  <2> QED
    BY <2>1, <2>2, <2>3, <2>4, <2>5 DEF IInv, IndexInv
<1> QED
  BY <1>1, <1>2

LEMMA Invariance == Spec => []IInv
BY InitInv, NextInv, PTL DEF Spec

\* The variables of the storage and of a query keep their types: whatever two maps
\* say between two steps of a request, no lookup leaves the index.
THEOREM TypeCorrect == Spec => []TypeOK
<1>1. IInv => TypeOK
  BY DEF IInv, IndexInv
<1> QED
  BY <1>1, Invariance, PTL

\* Whenever Storage.mu is free, the maps of the index name the client of every key
\* and no other, for any sequence of additions, updates and removals.
THEOREM IndexCorrect == Spec => []IndexExact
<1>1. IInv => IndexExact
  BY DEF IInv, IndexInv, MapsExact, View, IndexExact
<1> QED
  BY <1>1, Invariance, PTL

\* Whenever Storage.mu is free, the lookup finds the client that a query belongs to:
\* by ClientID, address, narrowest subnet and leased MAC address, in this order.
THEOREM LookupCorrect == Spec => []LookupExact
<1>1. IInv => LookupExact
  <2> SUFFICES ASSUME IInv, op = None, NEW id \in ClientIDs \cup {None}, NEW addr \in IPs
               PROVE  {find(id, addr)} \ {None} = Belongs(uidToClient, id, addr)
    BY DEF LookupExact
  <2> QED
    BY QuietLookup DEF IInv
<1> QED
  BY <1>1, Invariance, PTL

\* Whenever Storage.mu is free, every client has a custom upstream configuration and
\* no other UID has one.
THEOREM ConfCorrect == Spec => []ConfInSync
<1>1. IInv => ConfInSync
  BY DEF IInv, ConfsExact, ConfInSync, Registry
<1> QED
  BY <1>1, Invariance, PTL

\* ApplyClientFiltering, which reads the maps without Storage.mu, never applies the
\* settings of a client that had none of the identifiers of the query meanwhile.
THEOREM ApplyCorrect == Spec => []ApplyHeld
<1>1. IInv => ApplyHeld
  BY DEF IInv, QueryOK, ApplyHeld
<1> QED
  BY <1>1, Invariance, PTL

\* Upstreams that are used without being built anew are up to date with the client
\* and with the common configuration.
THEOREM UpstreamsCorrect == Spec => []UpstreamsCurrent
<1>1. IInv => UpstreamsCurrent
  BY DEF IInv, ConfsExact, UpstreamsCurrent, Registry
<1> QED
  BY <1>1, Invariance, PTL

\* The maps and the lock implement the registry of ClientRegistry: a request takes
\* effect in one step, and only if no other client has one of its keys.
THEOREM Refinement == Spec => Implements
<1>1. Init => Reg!Init
  BY DEF Init, Reg!Init, Registry
<1>2. IInv /\ IInv' /\ [Next]_vars => [Reg!Next]_Registry
  <2> SUFFICES ASSUME IInv, IInv', [Next]_vars PROVE [Reg!Next]_Registry
    OBVIOUS
  <2>1. CASE Unlock
    BY <2>1, RegistryStep DEF IInv
  <2>2. CASE Request \/ remove \/ add \/ Lookup \/ updateCommonUpstreamConfig
    BY <2>2, RegistryKept DEF IInv
  <2>3. CASE UNCHANGED vars
    BY <2>3 DEF vars, Registry, Putting
  <2> QED
    BY <2>1, <2>2, <2>3 DEF Next
<1> QED
  BY <1>1, <1>2, Invariance, PTL DEF Spec, Implements, Reg!Spec
=============================================================================
