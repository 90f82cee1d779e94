------------------------------ MODULE Clients ------------------------------
(***************************************************************************)
(* The storage of persistent clients (internal/client): the index, whose   *)
(* maps are written one after the other while Storage.mu is held, the      *)
(* custom upstream configurations, and a DNS query that looks its client   *)
(* up in ApplyClientFiltering without taking Storage.mu.                   *)
(***************************************************************************)
EXTENDS Naturals

CONSTANTS
    UIDs, Names, ClientIDs, IPs, Subnets, MACs,
    Profiles,     \* clients as administrators may enter them
    Contains,     \* the addresses of a subnet
    Bits,         \* the length of a subnet's prefix
    Leased,       \* the MAC address DHCP knows for an address, or None
    None,         \* a nil client, a missing key, an absent configuration
    MaxOps,       \* bound: requests that change the clients
    MaxCommon     \* bound: updates of the common upstream configuration

Ids == ClientIDs \cup IPs \cup Subnets \cup MACs
Keys == Names \cup Ids

\* The maps of the index, in the order in which index.add and index.remove write
\* them, end with uidToClient.
UIDMap == 6

\* A request changes the client of uid from old to new; pc counts the maps done.
Requests == [uid: UIDs, old: Profiles \cup {None}, new: Profiles \cup {None},
             pc: 0..(2 * UIDMap)]

\* customUpstreamConfig: proxyConf is what the upstreams were built from.
Lists == {c.ups : c \in Profiles}
Built == [ups: Lists, common: 0..MaxCommon]
Configs == [ups: Lists, common: 0..MaxCommon, changed: BOOLEAN, proxy: Built \cup {None}]

\* Persistent.validate: a client has a name and at least one identifier.  The
\* list of upstreams is one value, None when it is empty.
ASSUME ProfilesAssumption ==
    /\ Names \cap Ids = {}
    /\ \A c \in Profiles : c.name \in Names /\ c.ids # {} /\ c.ids \subseteq Ids

ASSUME NoneAssumption ==
    /\ None \notin Keys /\ None \notin UIDs /\ None \notin Profiles
    /\ None \notin Requests /\ None \notin Configs /\ None \notin Built

ASSUME AddressesAssumption ==
    /\ Contains \in [Subnets -> SUBSET IPs]
    /\ Bits \in [Subnets -> Nat]
    /\ Leased \in [IPs -> MACs \cup {None}]
    /\ \A s, t \in Subnets : s # t /\ Bits[s] = Bits[t] => Contains[s] \cap Contains[t] = {}

\* There are finitely many subnets, so some of any set have the longest prefix.
ASSUME SubnetsAssumption ==
    \A S \in SUBSET Subnets : S # {} => \E s \in S : \A t \in S : Bits[t] <= Bits[s]

ASSUME BoundsAssumption == MaxOps \in Nat /\ MaxCommon \in Nat

VARIABLES
    toUID,        \* nameToUID, clientIDToUID, ipToUID, subnetToUID and macToUID
    uidToClient,  \* index.uidToClient
    op,           \* the request that holds Storage.mu, or None
    conf,         \* upstreamManager.uidToCustomConf
    common,       \* upstreamManager.confUpdate, the version of commonConf
    query,        \* the DNS query that looks its client up
    ops           \* the requests so far

vars == <<toUID, uidToClient, op, conf, common, query, ops>>

KeysOf(c) == IF c = None THEN {} ELSE {c.name} \cup c.ids

\* The position of the map that holds key x.
MapOf(x) == CASE x \in Names     -> 1
              [] x \in ClientIDs -> 2
              [] x \in IPs       -> 3
              [] x \in Subnets   -> 4
              [] OTHER           -> 5

-----------------------------------------------------------------------------
(* What the administrators asked for: the clients before and after op.     *)

\* The clients when the request in progress has put client c under u.
Putting(u, c) == [uidToClient EXCEPT ![u] = c]

Registry == IF op = None THEN uidToClient ELSE Putting(op.uid, op.old)

\* The UIDs of the clients of r that have identifier x.
Owners(r, x) == {u \in UIDs : r[u] # None /\ x \in r[u].ids}

\* Whom a query with ClientID id from address addr belongs to, among the clients
\* r: the client with the ClientID, else with the address, else with the
\* narrowest subnet around it, else with the MAC address that leases it.
Belongs(r, id, addr) ==
    LET around == {s \in Subnets : addr \in Contains[s] /\ Owners(r, s) # {}}
        narrowest == {s \in around : \A t \in around : Bits[t] <= Bits[s]}
    IN  IF Owners(r, id) # {} THEN Owners(r, id)
        ELSE IF Owners(r, addr) # {} THEN Owners(r, addr)
        ELSE IF around # {} THEN UNION {Owners(r, s) : s \in narrowest}
        ELSE Owners(r, Leased[addr])

-----------------------------------------------------------------------------
(* The index.                                                              *)

\* Mutant: the shorter prefix sorts first.
subnetAfter(s, t) == Bits[s] < Bits[t]

\* subnetCompare: the longer prefix sorts first.
subnetBefore(s, t) == Bits[s] > Bits[t]

\* SortedMap.Range visits the subnets in order and stops at the first that
\* contains the address; two of one length do not both contain it.
RangeSubnets(addr) ==
    LET hit == {s \in Subnets : toUID[s] # None /\ addr \in Contains[s]}
    IN  IF hit = {} THEN None
        ELSE toUID[CHOOSE s \in hit : \A t \in hit : ~ subnetBefore(t, s)]

findByClientID(id) == IF id = None THEN None ELSE toUID[id]
findByMAC(mac) == IF mac = None THEN None ELSE toUID[mac]
findByIP(addr) == IF toUID[addr] # None THEN toUID[addr] ELSE RangeSubnets(addr)

\* The lookup of CustomUpstreamConfig and Find, with the lock held.
find(id, addr) ==
    IF findByClientID(id) # None THEN findByClientID(id)
    ELSE IF findByIP(addr) # None THEN findByIP(addr)
    ELSE findByMAC(Leased[addr])

clashesUID(u) == uidToClient[u] # None

\* Mutant: only the names are compared.
clashesName(u, c) == toUID[c.name] \notin {None, u}

\* A key of c is in one of the maps under another UID.
clashes(u, c) == \E x \in KeysOf(c) : toUID[x] \notin {None, u}

-----------------------------------------------------------------------------
NoQuery == [pc |-> "idle", id |-> None, addr |-> None, uid |-> None,
            client |-> None, regs |-> {}]

Running == query.pc \notin {"idle", "done", "panic", "fatal"}

\* A fatal error of the Go runtime ends the program.
Up == query.pc # "fatal"

Init ==
    /\ toUID = [x \in Keys |-> None]
    /\ uidToClient = [u \in UIDs |-> None]
    /\ op = None
    /\ conf = [u \in UIDs |-> None]
    /\ common = 0
    /\ query = NoQuery
    /\ ops = 0

-----------------------------------------------------------------------------
(* Requests: mu is taken, the checks are made and the first map is next.   *)

Begin(u, old, new, pc) ==
    /\ op' = [uid |-> u, old |-> old, new |-> new, pc |-> pc]
    /\ ops' = ops + 1
    /\ query' = IF Running THEN [query EXCEPT !.regs = @ \cup {Putting(u, new)}] ELSE query
    /\ UNCHANGED <<toUID, uidToClient, conf, common>>

CanLock == Up /\ op = None

Add(u, c) ==
    /\ CanLock /\ ops < MaxOps
    /\ ~ clashesUID(u)
    /\ ~ clashes(u, c)
    /\ Begin(u, None, c, UIDMap)

\* The new client keeps the UID of the one that has the name.
Update(name, c) ==
    /\ CanLock /\ ops < MaxOps
    /\ toUID[name] # None
    /\ ~ clashes(toUID[name], c)
    /\ Begin(toUID[name], uidToClient[toUID[name]], c, 0)

RemoveByName(name) ==
    /\ CanLock /\ ops < MaxOps
    /\ toUID[name] # None
    /\ Begin(toUID[name], uidToClient[toUID[name]], None, 0)

\* The keys of client c that map m holds.
Writing(m, c) == {x \in KeysOf(c) : MapOf(x) = m}

\* Mutant: Update removes the new client instead of the stored one.
RemovesNew(m) == Writing(m, op.new)

\* Mutant: the subnets are forgotten.
RemovesNoSubnet(m) == Writing(m, op.old) \ Subnets

\* The keys that index.remove deletes from map m.
Removes(m) == Writing(m, op.old)

\* index.remove: op.pc maps are done.
remove ==
    /\ Up /\ op # None /\ op.pc < UIDMap
    /\ LET m == op.pc + 1 IN
        /\ toUID' = [x \in Keys |-> IF x \in Removes(m) THEN None ELSE toUID[x]]
        /\ uidToClient' = IF m = UIDMap THEN [uidToClient EXCEPT ![op.uid] = None]
                          ELSE uidToClient
    /\ op' = [op EXCEPT !.pc = @ + 1]
    /\ UNCHANGED <<conf, common, query, ops>>

\* Mutant: a step too many.
AddsLonger == op.new # None /\ op.pc \in UIDMap..(2 * UIDMap)

Adds == op.new # None /\ op.pc \in UIDMap..(2 * UIDMap - 1)

\* index.add: all maps were rid of the old client, op.pc - 6 have the new one.
add ==
    /\ Up /\ op # None /\ Adds
    /\ LET m == op.pc - UIDMap + 1 IN
        /\ toUID' = [x \in Keys |-> IF x \in Writing(m, op.new) THEN op.uid ELSE toUID[x]]
        /\ uidToClient' = IF m = UIDMap THEN [uidToClient EXCEPT ![op.uid] = op.new]
                          ELSE uidToClient
    /\ op' = [op EXCEPT !.pc = @ + 1]
    /\ UNCHANGED <<conf, common, query, ops>>

-----------------------------------------------------------------------------
(* The custom upstream configurations.                                     *)

\* Mutant: the built upstreams are not marked as out of date.
updateWithoutMark ==
    [conf EXCEPT ![op.uid] =
        IF @ = None THEN [ups |-> op.new.ups, common |-> common, changed |-> TRUE, proxy |-> None]
        ELSE [@ EXCEPT !.ups = op.new.ups]]

updateCustomUpstreamConfig ==
    [conf EXCEPT ![op.uid] =
        IF @ = None THEN [ups |-> op.new.ups, common |-> common, changed |-> TRUE, proxy |-> None]
        ELSE [@ EXCEPT !.ups = op.new.ups, !.changed = TRUE]]

\* upstreamManager.remove
removeConf == [conf EXCEPT ![op.uid] = None]

\* Add, Update and RemoveByName end with the change of the configuration of the
\* client, and the deferred unlock follows.
Unlock ==
    /\ Up /\ op # None
    /\ op.pc = IF op.new = None THEN UIDMap ELSE 2 * UIDMap
    /\ conf' = IF op.new = None THEN removeConf
               ELSE updateCustomUpstreamConfig
    /\ op' = None
    /\ UNCHANGED <<toUID, uidToClient, common, query, ops>>

\* Prepare of the DNS server passes a new common configuration.
updateCommonUpstreamConfig ==
    /\ CanLock /\ common < MaxCommon
    /\ common' = common + 1
    /\ UNCHANGED <<toUID, uidToClient, op, conf, query, ops>>

isConfigChanged(k) == k.common # common \/ k.changed

\* newCustomUpstreamConfig: nothing for a client without upstreams.
newCustomUpstreamConfig(ups) == IF ups = None THEN None ELSE [ups |-> ups, common |-> common]

\* A query asks for the upstreams of its client: they are built anew if the
\* client or the common configuration has changed since.
CustomUpstreamConfig(id, addr) ==
    /\ CanLock
    /\ LET u == find(id, addr) IN
        /\ u # None
        /\ conf[u] # None
        /\ isConfigChanged(conf[u])
        /\ conf' = [conf EXCEPT ![u] =
              [@ EXCEPT !.proxy = newCustomUpstreamConfig(conf[u].ups),
                        !.common = common, !.changed = FALSE]]
    /\ UNCHANGED <<toUID, uidToClient, op, common, query, ops>>

-----------------------------------------------------------------------------
(* ApplyClientFiltering reads one map after the other and takes no lock.   *)

ApplyClientFiltering(id, addr) ==
    /\ Up /\ ~ Running
    /\ query' = [pc |-> "clientid", id |-> id, addr |-> addr, uid |-> None, client |-> None,
                 regs |-> {Registry, IF op = None THEN Registry ELSE Putting(op.uid, op.new)}]
    /\ UNCHANGED <<toUID, uidToClient, op, conf, common, ops>>

\* A read of a map gave UID u; without one, the query reads on at pc.
Read(u, pc) ==
    /\ query' = [query EXCEPT !.uid = u, !.pc = IF u # None THEN "client" ELSE pc]
    /\ UNCHANGED <<toUID, uidToClient, op, conf, common, ops>>

ReadClientID == query.pc = "clientid" /\ Read(findByClientID(query.id), "ip")
ReadIP == query.pc = "ip" /\ Read(toUID[query.addr], "subnet")
ReadSubnets == query.pc = "subnet" /\ Read(RangeSubnets(query.addr), "mac")
ReadMAC == query.pc = "mac" /\ Read(findByMAC(Leased[query.addr]), "done")

\* The client of the UID gives the settings; a nil client is dereferenced.
ReadClient ==
    /\ query.pc = "client"
    /\ query' = [query EXCEPT !.client = uidToClient[query.uid],
                              !.pc = IF uidToClient[query.uid] = None THEN "panic" ELSE "done"]
    /\ UNCHANGED <<toUID, uidToClient, op, conf, common, ops>>

\* The map that the query reads next, and whether op writes to it now.
ReadsMap == CASE query.pc = "clientid" -> 2 [] query.pc = "ip" -> 3
              [] query.pc = "subnet" -> 4 [] query.pc = "mac" -> 5
              [] query.pc = "client" -> UIDMap [] OTHER -> 0
WritesMap(m) ==
    /\ op # None
    /\ \/ op.pc + 1 = m /\ (m = UIDMap \/ Removes(m) # {})
       \/ op.pc + 1 = m + UIDMap /\ op.new # None /\ (m = UIDMap \/ Writing(m, op.new) # {})

\* The runtime may notice that a map is read and written at once.
ConcurrentMapAccess ==
    /\ Running /\ WritesMap(ReadsMap)
    /\ query' = [query EXCEPT !.pc = "fatal"]
    /\ UNCHANGED <<toUID, uidToClient, op, conf, common, ops>>

-----------------------------------------------------------------------------
Request ==
    \/ \E u \in UIDs, c \in Profiles : Add(u, c)
    \/ \E n \in Names, c \in Profiles : Update(n, c)
    \/ \E n \in Names : RemoveByName(n)

Lookup ==
    \/ \E id \in ClientIDs \cup {None}, addr \in IPs :
        ApplyClientFiltering(id, addr) \/ CustomUpstreamConfig(id, addr)
    \/ ReadClientID \/ ReadIP \/ ReadSubnets \/ ReadMAC \/ ReadClient
    \/ ConcurrentMapAccess

Next == Request \/ remove \/ add \/ Unlock \/ updateCommonUpstreamConfig \/ Lookup

Spec == Init /\ [][Next]_vars

-----------------------------------------------------------------------------
(* Correctness.                                                            *)

Pcs == {"idle", "clientid", "ip", "subnet", "mac", "client", "done", "panic", "fatal"}

Queries == [pc: Pcs, id: ClientIDs \cup {None}, addr: IPs \cup {None}, uid: UIDs \cup {None},
            client: Profiles \cup {None}, regs: SUBSET [UIDs -> Profiles \cup {None}]]

\* The types of the variables.
TypeOK ==
    /\ toUID \in [Keys -> UIDs \cup {None}]
    /\ uidToClient \in [UIDs -> Profiles \cup {None}]
    /\ op \in Requests \cup {None}
    /\ conf \in [UIDs -> Configs \cup {None}]
    /\ common \in 0..MaxCommon
    /\ ops \in 0..MaxOps
    /\ query \in Queries
    /\ query.pc # "idle" => query.addr \in IPs
    /\ query.pc = "client" => query.uid \in UIDs

\* Whenever Storage.mu is free, the five maps of the index say of every key
\* exactly which client has it: no entry outlives a change or a removal of its
\* client, and no key of a client is missing.
IndexExact ==
    op = None => \A x \in Keys, u \in UIDs : toUID[x] = u <=> x \in KeysOf(uidToClient[u])

\* Whenever Storage.mu is free, a lookup by ClientID and address finds the client
\* that the query belongs to, or none if there is none, however the clients came
\* to be what they are.
LookupExact ==
    op = None => \A id \in ClientIDs \cup {None}, addr \in IPs :
        {find(id, addr)} \ {None} = Belongs(uidToClient, id, addr)

\* Whenever Storage.mu is free, the UIDs with a custom upstream configuration are
\* those of the clients (the comment at upstreamManager.uidToCustomConf).
ConfInSync == op = None => \A u \in UIDs : conf[u] = None <=> uidToClient[u] = None

\* Upstreams that a query may use without building them anew are those of the
\* client as it is now and of the common configuration as it is now.
UpstreamsCurrent ==
    op = None => \A u \in UIDs :
        uidToClient[u] # None /\ ~ isConfigChanged(conf[u])
            => conf[u].proxy = newCustomUpstreamConfig(uidToClient[u].ups)

\* The identifiers by which a query may belong to a client.
Identifiers(q) == {q.id, q.addr, Leased[q.addr]} \cup {s \in Subnets : q.addr \in Contains[s]}

\* Whatever a query has to read between two steps of a request, the settings it
\* ends with are of a client that, at some moment of the query, had an identifier
\* of the query.
ApplyHeld ==
    query.pc = "done" /\ query.uid # None =>
        \E r \in query.regs, x \in Identifiers(query) : query.uid \in Owners(r, x)

\* The six maps and the lock implement a registry that changes in single steps.
Reg == INSTANCE ClientRegistry WITH registry <- Registry
Implements == Reg!Spec

\* The comment of Storage.mu says that it protects the index.  A query would then
\* end with the settings of the client that it belonged to at some moment of the
\* query, and with none only if it belonged to none.
ApplyProtected ==
    query.pc = "done" =>
        \E r \in query.regs :
            {query.uid} \ {None} = Belongs(r, query.id, query.addr)

\* For the same reason no map would be read while it is written, and no query
\* would find the UID of a client that is not there.
ApplySafe == query.pc \notin {"panic", "fatal"}
=============================================================================
