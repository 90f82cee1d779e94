------------------------------- MODULE DHCPv4 -------------------------------
(***************************************************************************)
(* The DHCPv4 server of internal/dhcpd: the lease table with its two       *)
(* indexes and its bit set of leased offsets (v4_unix.go), the handlers of *)
(* the four client messages, the HTTP operations on static leases, and the *)
(* lease database (db.go).                                                 *)
(*                                                                         *)
(* The server starts a goroutine per packet, so the handlers interleave    *)
(* wherever they do not hold leasesLock; the HTTP operations run one at a  *)
(* time (home's controlLock), in the process Admin.  A lease is a Go       *)
(* pointer shared by the table, the indexes and the handlers, so leases    *)
(* are objects named by Ids.  The in-place removals of the code, made      *)
(* while a range loop still walks the old slice, are kept as they are.     *)
(***************************************************************************)
EXTENDS Naturals, FiniteSets, Sequences, SequencesExt, FiniteSetsExt, TLC

CONSTANTS
  Clients,      \* hardware addresses of the clients
  Pool,         \* the dynamic range, a set of consecutive numbers
  Reserved,     \* addresses of the subnet outside the range
  Foreign,      \* addresses outside the subnet
  Names,        \* hostnames a client or an administrator may send
  Workers,      \* goroutines that can handle packets at the same time
  Ids,          \* lease objects, numbers
  LeaseTime,    \* conf.leaseTime
  Pings,        \* TRUE when the ICMP check is on
  MaxTime, MaxPacket, MaxDecline, MaxAdmin, MaxRestart, MaxFault  \* bounds

Addrs  == Pool \cup Reserved \cup Foreign
First  == Min(Pool)
Admin  == "admin"
Procs  == Workers \cup {Admin}
NoLease == 0
NoMAC  == "blocklisted"
\* Hostnames are numbers in the order in which strings.Compare sorts them,
\* the empty name first and then the names generated from the addresses.
NoName == 0
GenerateHostname(ip) == ip

ASSUME DHCPAssumption ==
  /\ Addrs \cup Names \subseteq Nat \ {0}
  /\ Pool # {} /\ Pool = First..Max(Pool)
  /\ Pool \cap (Reserved \cup Foreign) = {} /\ Reserved \cap Foreign = {}
  /\ Ids \subseteq Nat \ {0}
  /\ NoMAC \notin Clients /\ Admin \notin Workers
  /\ IsFiniteSet(Pool) /\ IsFiniteSet(Ids)
  /\ LeaseTime \in Nat /\ Pings \in BOOLEAN
  /\ {MaxTime, MaxPacket, MaxDecline, MaxAdmin, MaxRestart, MaxFault} \subseteq Nat
  /\ MaxTime >= 1

VARIABLES
  srv,      \* v4Server: leases, hosts and ips (the indexes), offs, obj (the lease objects)
  disk,     \* the leases in the database file
  proc,     \* what each handler in flight is about to do
  now,      \* the clock, from 1; the zero time.Time is 0
  packets, declines, admins, restarts, faults   \* operations so far

counts == <<packets, declines, admins, restarts, faults>>
vars == <<srv, disk, proc, now, counts>>

Hosts == Names \cup {GenerateHostname(ip) : ip \in Addrs} \cup {NoName}
Lease == [ip: Addrs, mac: Clients \cup {NoMAC}, host: Hosts,
          exp: 0..(MaxTime + LeaseTime), static: BOOLEAN]
Blank == [ip |-> 0, mac |-> NoMAC, host |-> NoName, exp |-> 0, static |-> FALSE]
NoServer == [leases |-> << >>, hosts |-> << >>, ips |-> << >>, offs |-> {},
             obj |-> [i \in Ids |-> Blank]]
Idle == [pc |-> "idle", lease |-> NoLease, mac |-> NoMAC, arg |-> 0,
         snap |-> << >>, next |-> "idle"]

-----------------------------------------------------------------------------
(* Helpers on maps and objects.                                            *)

Without(f, k) == [x \in DOMAIN f \ {k} |-> f[x]]
With(f, k, v) == [x \in DOMAIN f \cup {k} |-> IF x = k THEN v ELSE f[x]]

\* The objects that something still points to; the rest is garbage.
Reachable(s, p) == Range(s.leases) \cup Range(s.hosts) \cup Range(s.ips)
                     \cup {p[w].lease : w \in Procs}
Collected(s, p) == [s EXCEPT !.obj =
  [i \in Ids |-> IF i \in Reachable(s, p) THEN s.obj[i] ELSE Blank]]

\* A new lease object.  Ids bounds the objects alive at a time: what needs one
\* more does not happen.
FreeIds(s) == {i \in Ids : s.obj[i] = Blank}
FreshId(s) == Min(FreeIds(s))
New(s, l) == [s EXCEPT !.obj[FreshId(s)] = l]

-----------------------------------------------------------------------------
(* The lease table.  The operators take the server and return the server   *)
(* that the method leaves; those that can fail return err too.             *)

\* Mutant: an empty hostname is put into the index too.
addLeaseUnnamed(s, l) ==
  [err |-> FALSE,
   s |-> [s EXCEPT !.hosts = With(@, s.obj[l].host, l), !.ips = With(@, s.obj[l].ip, l),
                   !.leases = Append(@, l), !.offs = @ \cup ({s.obj[l].ip} \cap Pool)]]
\* Mutant: the offset of the address is not marked as leased.
addLeaseNoOffset(s, l) ==
  [err |-> FALSE,
   s |-> [s EXCEPT !.ips = With(@, s.obj[l].ip, l), !.leases = Append(@, l)]]
addLease(s, l) ==
  LET o == s.obj[l]
      bad == \/ o.static /\ o.ip \in Foreign
             \/ ~o.static /\ o.ip \notin Pool
             \/ o.host # NoName /\ o.host \in DOMAIN s.hosts
      \* offset is 0 for an address outside the range
      offset == IF o.ip \in Pool THEN o.ip ELSE First
  IN [err |-> bad,
      s |-> IF bad THEN s
            ELSE [s EXCEPT
                   !.hosts = IF o.host = NoName THEN @ ELSE With(@, o.host, l),
                   !.ips = With(@, o.ip, l),
                   !.leases = Append(@, l),
                   !.offs = @ \cup {offset}]]

rmLeaseByIndex(s, i) ==
  IF i > Len(s.leases) THEN s
  ELSE LET o == s.obj[s.leases[i]]
       IN [s EXCEPT !.leases = RemoveAt(@, i),
                    !.offs = @ \ {o.ip},
                    !.hosts = Without(@, o.host),
                    !.ips = Without(@, o.ip)]

\* What append(leases[:i], leases[i+1:]...) leaves in the array of which the
\* slice takes the first n elements.
Shifted(arr, i, n) == [j \in DOMAIN arr |-> IF j \in i..(n - 1) THEN arr[j + 1] ELSE arr[j]]

\* One turn of the loop of rmDynamicLease.  t.arr is the array the loop walks,
\* t.s.leases the slice of it that the removals leave.
rmDynamicTurn(t, i, x) ==
  LET l == t.arr[i]
      o == t.s.obj[l]
      want == t.s.obj[x]
      match == o.mac = want.mac \/ o.ip = want.ip
      rm == rmLeaseByIndex(t.s, i)
      n == Len(rm.leases)
      arr == IF i <= Len(t.s.leases) THEN Shifted(t.arr, i, Len(t.s.leases)) ELSE t.arr
      Rename(s, m) == IF s.obj[m].host = want.host
                      THEN [s EXCEPT !.obj[m].host = NoName] ELSE s
  IN CASE t.stop -> t
       [] ~t.stop /\ match /\ o.static -> [t EXCEPT !.stop = TRUE, !.err = TRUE]
       [] ~t.stop /\ match /\ ~o.static ->
            IF i = n + 1 THEN [s |-> rm, arr |-> arr, stop |-> TRUE, err |-> FALSE]
            ELSE [s |-> Rename(rm, rm.leases[i]), arr |-> arr, stop |-> FALSE, err |-> FALSE]
       [] ~t.stop /\ ~match -> IF o.static THEN t ELSE [t EXCEPT !.s = Rename(@, l)]

\* rmDynamicLease, for the lease object x, on the array arr: the loop after
\* each of its turns.
rmDynamicTurns(s, arr, x) ==
  LET t[i \in 0..Len(s.leases)] ==
        IF i = 0 THEN [s |-> s, arr |-> arr, stop |-> FALSE, err |-> FALSE]
        ELSE rmDynamicTurn(t[i - 1], i, x)
  IN t
rmDynamicIn(s, arr, x) == rmDynamicTurns(s, arr, x)[Len(s.leases)]
rmDynamicLease(s, x) == rmDynamicIn(s, s.leases, x)

rmLease(s, o) ==
  LET i == SelectInSeq(s.leases, LAMBDA l : s.obj[l].ip = o.ip)
      same == /\ s.obj[s.leases[i]].mac = o.mac
              /\ s.obj[s.leases[i]].host = o.host
  IN CASE s.leases = << >>               -> [err |-> FALSE, s |-> s]
       [] s.leases # << >> /\ i = 0      -> [err |-> TRUE, s |-> s]
       [] s.leases # << >> /\ i # 0      ->
            IF same THEN [err |-> FALSE, s |-> rmLeaseByIndex(s, i)]
            ELSE [err |-> TRUE, s |-> s]

\* The first lease of the table that satisfies Test.
FindLease(s, Test(_)) ==
  LET i == SelectInSeq(s.leases, LAMBDA l : Test(s.obj[l]))
  IN IF i = 0 THEN NoLease ELSE s.leases[i]
findLease(s, mac) == FindLease(s, LAMBDA o : o.mac = mac)
findLeaseForIP(s, ip, mac) == FindLease(s, LAMBDA o : o.mac = mac /\ o.ip = ip)
\* Mutant: any dynamic lease will do.
findExpiredLeaseAny(s) == FindLease(s, LAMBDA o : ~o.static)
findExpiredLease(s) == FindLease(s, LAMBDA o : ~o.static /\ o.exp < now)

\* nextIP takes the first address whose bit is not set, and an exhausted pool
\* gives away an expired lease.
reserveLease(s, mac) ==
  LET free == Pool \ s.offs
      l == FreshId(s)
      old == findExpiredLease(s)
  IN CASE free # {} ->
            [l |-> l, s |-> addLease(New(s, [Blank EXCEPT !.ip = Min(free), !.mac = mac]), l).s]
       [] free = {} /\ old # NoLease -> [l |-> old, s |-> [s EXCEPT !.obj[old].mac = mac]]
       [] free = {} /\ old = NoLease -> [l |-> NoLease, s |-> s]

blocklistLease(s, l) ==
  [s EXCEPT !.obj[l] = [@ EXCEPT !.mac = NoMAC, !.host = NoName, !.exp = now + LeaseTime]]

\* The results allocateLease can have: some of the addresses it reserves
\* answer the ping and are blocklisted, then one does not or none is left.
Busy(s, mac) == LET r == reserveLease(s, mac) IN blocklistLease(r.s, r.l)
Tries(s, mac) ==
  LET t[k \in 0..Cardinality(Pool)] == IF k = 0 THEN s ELSE Busy(t[k - 1], mac)
  IN t
HasRoom(s) == Pool \subseteq s.offs \/ FreeIds(s) # {}
Possible(s, mac, k) ==
  /\ k > 0 => Pings
  /\ \A j \in 0..(k - 1) : reserveLease(Tries(s, mac)[j], mac).l # NoLease
  /\ \A j \in 0..k : HasRoom(Tries(s, mac)[j])
allocateLease(s, mac) ==
  {reserveLease(Tries(s, mac)[k], mac) :
     k \in {j \in 0..Cardinality(Pool) : Possible(s, mac, j)}}

\* The name that validHostnameForClient makes of what the client sent.
validHostnameForClient(host, ip) == IF host = NoName THEN GenerateHostname(ip) ELSE host

commitLease(s, l, sent) ==
  LET o == s.obj[l]
      wanted == validHostnameForClient(sent, o.ip)
      host == CASE wanted \notin DOMAIN s.hosts -> wanted
                [] wanted \in DOMAIN s.hosts /\ o.host = NoName -> GenerateHostname(o.ip)
                [] wanted \in DOMAIN s.hosts /\ o.host # NoName -> o.host
      kept == IF o.host # NoName /\ o.host # host THEN Without(s.hosts, o.host) ELSE s.hosts
  IN [s EXCEPT !.obj[l] = [@ EXCEPT !.host = host, !.exp = now + LeaseTime],
               !.hosts = IF host = NoName THEN kept ELSE With(kept, host, l),
               !.ips = With(@, o.ip, l)]

-----------------------------------------------------------------------------
(* The lease database.                                                     *)

\* What dbStore collects: every lease but the uncommitted dynamic ones, in an
\* order that writeDB may sort them in, by hostname.
dbIndexes(s) ==
  {i \in DOMAIN s.leases : s.obj[s.leases[i]].static \/ s.obj[s.leases[i]].exp # 0}
dbLeases(s) ==
  LET Sorted(q) == \A m, n \in DOMAIN q : m < n => q[m].host <= q[n].host
  IN {q \in {[n \in DOMAIN p |-> s.obj[s.leases[p[n]]]] :
               p \in Injection(1..Cardinality(dbIndexes(s)), dbIndexes(s))} : Sorted(q)}

\* The server that dbLoad and ResetLeases make of the stored leases, after
\* each of them.
Loaded(o) == IF o.static THEN o ELSE [o EXCEPT !.host = validHostnameForClient(@, o.ip)]
ResetTurn(s, o) == addLease(New(s, Loaded(o)), FreshId(s)).s
ResetTurns(stored) ==
  LET t[i \in 0..Len(stored)] ==
        IF i = 0 THEN NoServer ELSE ResetTurn(t[i - 1], stored[i])
  IN t
\* Mutant: the bit set is made after the leases are added and not before.
ResetLeasesLateBits(stored) == [ResetTurns(stored)[Len(stored)] EXCEPT !.offs = {}]
ResetLeases(stored) == ResetTurns(stored)[Len(stored)]

-----------------------------------------------------------------------------
(* The handlers.  After(w, s, p) is the end of a section under leasesLock:  *)
(* handler w leaves the server s and goes on with p.                       *)

After(w, s, p) ==
  /\ proc' = [proc EXCEPT ![w] = p]
  /\ srv' = Collected(s, proc')
Store(next, l, mac, arg) ==
  [Idle EXCEPT !.pc = "store", !.lease = l, !.mac = mac, !.arg = arg, !.next = next]
Packet(w) ==
  /\ w \in Workers /\ proc[w].pc = "idle"
  /\ packets < MaxPacket /\ packets' = packets + 1
  /\ UNCHANGED <<disk, now, admins, restarts, faults>>

Init ==
  /\ srv = NoServer /\ disk = << >>
  /\ proc = [w \in Procs |-> Idle]
  /\ now = 1
  /\ packets = 0 /\ declines = 0 /\ admins = 0 /\ restarts = 0 /\ faults = 0

\* handleDiscover offers the client's lease or allocates one.
handleDiscover(w, c) ==
  /\ Packet(w) /\ UNCHANGED declines
  /\ LET own == findLease(srv, c)
     IN \E r \in IF own # NoLease THEN {[l |-> own, s |-> srv]} ELSE allocateLease(srv, c) :
          After(w, r.s, Store("idle", r.l, c, 0))

\* handleByRequestType: under the lock checkLease finds the lease of the client
\* for the address; the handler keeps the pointer.  Any other request is
\* answered with a NAK or dropped and changes nothing.
checkLease(w, c, ip, host) ==
  /\ Packet(w) /\ UNCHANGED declines
  /\ LET l == findLease(srv, c)
     IN /\ l # NoLease /\ srv.obj[l].ip = ip
        /\ After(w, srv, [Idle EXCEPT !.pc = "commit", !.lease = l, !.mac = c, !.arg = host])

\* The rest of handleRequest takes the lock again.
handleRequest(w) ==
  /\ proc[w].pc = "commit"
  /\ LET l == proc[w].lease
     IN After(w, IF srv.obj[l].static THEN srv ELSE commitLease(srv, l, proc[w].arg),
              Store("idle", l, proc[w].mac, 0))
  /\ UNCHANGED <<disk, now, counts>>

\* handleDecline stores the database before it takes the lock.
DeclineStart(w, c, ip) ==
  /\ Packet(w) /\ declines < MaxDecline /\ declines' = declines + 1
  /\ After(w, srv, Store("decline", NoLease, c, ip))

\* allocateLease has added the new lease already when addLease adds it again.
handleDecline(w) ==
  LET c == proc[w].mac
      old == findLeaseForIP(srv, proc[w].arg, c)
      removed == rmDynamicLease(srv, old)
      Moved(r) == [r.s EXCEPT !.obj[r.l].host = removed.s.obj[old].host,
                              !.obj[r.l].exp = now + LeaseTime]
  IN /\ proc[w].pc = "decline"
     /\ \/ old = NoLease /\ After(w, srv, Idle)
        \/ /\ old # NoLease
           /\ \/ removed.err /\ After(w, removed.s, Idle)
              \/ /\ ~removed.err
                 /\ \E r \in allocateLease(removed.s, c) :
                      After(w, IF r.l = NoLease THEN r.s ELSE addLease(Moved(r), r.l).s, Idle)
     /\ UNCHANGED <<disk, now, counts>>

\* handleRelease walks the table while rmDynamicLease removes from it, and
\* stops at the first error.
\* Mutant: the lease is removed by its index, static or not.
ReleaseTurnAny(t, i, c, ip) ==
  LET o == t.s.obj[t.arr[i]]
  IN IF o.mac # c \/ o.ip # ip THEN t ELSE [t EXCEPT !.s = rmLeaseByIndex(@, i)]
ReleaseTurn(t, i, c, ip) ==
  LET o == t.s.obj[t.arr[i]]
  IN IF t.err \/ o.mac # c \/ o.ip # ip THEN t ELSE rmDynamicIn(t.s, t.arr, t.arr[i])
ReleaseTurns(s, c, ip) ==
  LET t[i \in 0..Len(s.leases)] ==
        IF i = 0 THEN [s |-> s, arr |-> s.leases, stop |-> FALSE, err |-> FALSE]
        ELSE ReleaseTurn(t[i - 1], i, c, ip)
  IN t
handleRelease(w, c, ip) ==
  /\ Packet(w) /\ UNCHANGED declines
  /\ After(w, ReleaseTurns(srv, c, ip)[Len(srv.leases)].s, Store("idle", NoLease, c, 0))

-----------------------------------------------------------------------------
(* The HTTP operations on the leases.                                      *)

Request ==
  /\ proc[Admin].pc = "idle"
  /\ admins < MaxAdmin /\ admins' = admins + 1
  /\ UNCHANGED <<disk, now, packets, declines, restarts, faults>>
\* A successful operation notifies about the change, a failed one does not.
Finish(r) == After(Admin, r.s, IF r.err THEN Idle ELSE Store("idle", NoLease, NoMAC, 0))
StaticLease(c, ip, host) == [ip |-> ip, mac |-> c, host |-> host, exp |-> 0, static |-> TRUE]

\* AddStaticLease and updateStaticLease, for a valid address and hostname.
AddedStatic(c, ip, host) ==
  LET l == FreshId(srv)
      removed == rmDynamicLease(New(srv, StaticLease(c, ip, host)), l)
  IN IF removed.err THEN removed ELSE addLease(removed.s, l)
AddStaticLease(c, ip, host) ==
  Request /\ FreeIds(srv) # {} /\ Finish(AddedStatic(c, ip, host))

validateStaticLease(s, o) ==
  /\ o.host \in DOMAIN s.hosts => s.obj[s.hosts[o.host]].mac = o.mac
  /\ o.ip \in DOMAIN s.ips => s.obj[s.ips[o.ip]].mac = o.mac
  /\ o.ip \notin Foreign

\* UpdateStaticLease removes the lease that has the hardware address and adds
\* the new one.
Updated(c, ip, host) ==
  LET o == StaticLease(c, ip, host)
      found == findLease(srv, c)
      removed == rmLease(srv, srv.obj[found])
      s == New(removed.s, o)
  IN IF found = NoLease \/ ~validateStaticLease(srv, o) THEN [err |-> TRUE, s |-> srv]
     ELSE IF removed.err THEN removed ELSE addLease(s, FreshId(removed.s))
UpdateStaticLease(c, ip, host) ==
  Request /\ FreeIds(srv) # {} /\ Finish(Updated(c, ip, host))

RemoveStaticLease(c, ip, host) == Request /\ Finish(rmLease(srv, StaticLease(c, ip, host)))

\* POST /control/dhcp/reset_leases.  The handlers keep the lease objects they
\* point to.
resetLeases == Request /\ Finish([err |-> FALSE, s |-> [NoServer EXCEPT !.obj = srv.obj]])

-----------------------------------------------------------------------------
(* dbStore: the leases are collected without leasesLock and written to the *)
(* file afterwards, so two handlers may write in the other order.          *)

dbStore(w) ==
  /\ proc[w].pc = "store"
  /\ \E q \in dbLeases(srv) : After(w, srv, [proc[w] EXCEPT !.pc = "write", !.snap = q])
  /\ UNCHANGED <<disk, now, counts>>

Stored(w) == IF proc[w].next = "idle" THEN Idle
             ELSE [proc[w] EXCEPT !.pc = proc[w].next, !.snap = << >>, !.next = "idle"]
writeDB(w) ==
  /\ proc[w].pc = "write"
  /\ disk' = proc[w].snap
  /\ After(w, srv, Stored(w))
  /\ UNCHANGED <<now, counts>>
WriteFails(w) ==
  /\ proc[w].pc = "write" /\ faults < MaxFault /\ faults' = faults + 1
  /\ After(w, srv, Stored(w))
  /\ UNCHANGED <<disk, now, packets, declines, admins, restarts>>

\* The process stops or dies at any point and starts again: Create and dbLoad.
Restart ==
  /\ restarts < MaxRestart /\ restarts' = restarts + 1
  /\ Len(disk) <= Cardinality(Ids)
  /\ proc' = [w \in Procs |-> Idle]
  /\ srv' = Collected(ResetLeases(disk), proc')
  /\ UNCHANGED <<disk, now, packets, declines, admins, faults>>

Tick ==
  /\ now < MaxTime /\ now' = now + 1
  /\ UNCHANGED <<srv, disk, proc, counts>>

FromClient ==
  \E w \in Workers, c \in Clients :
    \/ handleDiscover(w, c)
    \/ \E ip \in Addrs, host \in Names \cup {NoName} : checkLease(w, c, ip, host)
    \/ \E ip \in Addrs : DeclineStart(w, c, ip) \/ handleRelease(w, c, ip)
Locked == \E w \in Workers : handleRequest(w) \/ handleDecline(w)
FromAdmin ==
  \/ \E c \in Clients, ip \in Addrs, host \in Names \cup {NoName} :
       \/ AddStaticLease(c, ip, host)
       \/ UpdateStaticLease(c, ip, host)
       \/ RemoveStaticLease(c, ip, host)
  \/ resetLeases
Database == \E w \in Procs : dbStore(w) \/ writeDB(w) \/ WriteFails(w)
Next == FromClient \/ Locked \/ FromAdmin \/ Database \/ Restart \/ Tick
Spec == Init /\ [][Next]_vars

-----------------------------------------------------------------------------
(* Properties.                                                             *)

Maps(K) == UNION {[D -> Ids] : D \in SUBSET K}
Server == [leases: Seq(Ids), hosts: Maps(Hosts \ {NoName}), ips: Maps(Addrs),
           offs: SUBSET Pool, obj: [Ids -> Lease \cup {Blank}]]
Handler == [pc: {"idle", "commit", "store", "write", "decline"},
            lease: Ids \cup {NoLease}, mac: Clients \cup {NoMAC}, arg: Hosts,
            snap: Seq(Lease), next: {"idle", "decline"}]

\* The shape of the server, the handlers and the database.
TypeOK ==
  /\ srv \in Server
  /\ disk \in Seq(Lease)
  /\ proc \in [Procs -> Handler]
  /\ now \in 1..MaxTime

Table == {srv.obj[l] : l \in Range(srv.leases)}

\* No address is in two leases of the table: two clients are never told to use
\* the same address (addLease, rmLeaseByIndex and nextIP keep the leases and
\* the bits of leasedOffsets together).
AddressesUnique ==
  \A i, j \in DOMAIN srv.leases :
    srv.obj[srv.leases[i]].ip = srv.obj[srv.leases[j]].ip => i = j

\* An address of the range with a lease has its bit set, so that nextIP does
\* not give it to a second client.
LeasedNotFree == \A o \in Table : o.ip \in Pool => o.ip \in srv.offs

\* A lease that a client has committed and that has not expired is not handed
\* to another client, and an address blocklisted because it answered a ping is
\* not offered before its time is over (reserveLease takes expired leases only).
CommittedKept ==
  [][restarts' = restarts =>
       \A l \in Range(srv.leases) \cap Range(srv'.leases) :
         LET o == srv.obj[l] IN
           o.exp >= now => srv'.obj[l].mac = o.mac]_vars

\* No message of a client and no addition of another lease removes a static
\* lease (rmDynamicLease stops at it): only the removal or the update of a
\* lease, the reset of the leases and a restart can.
Statics(s) == {[mac |-> o.mac, ip |-> o.ip] :
                 o \in {p \in {s.obj[l] : l \in Range(s.leases)} : p.static}}
Adding == \E c \in Clients, ip \in Addrs, host \in Names \cup {NoName} :
            AddStaticLease(c, ip, host)
StaticKept ==
  [][FromClient \/ Locked \/ Adding => Statics(srv) \subseteq Statics(srv')]_vars

\* The comment on rmDynamicLease, "Remove a dynamic lease with the same
\* properties": when a static lease is added, no dynamic lease keeps its
\* address.
StaticReplacesDynamic ==
  [][\A c \in Clients, ip \in Addrs, host \in Names \cup {NoName} :
       AddStaticLease(c, ip, host) /\ proc'[Admin].pc # "idle"
         => \A l \in Range(srv'.leases) :
              srv'.obj[l].ip = ip => srv'.obj[l].static]_vars

\* The comment in AddStaticLease: the name of a dynamic lease goes over to the
\* static one, only a static lease with the same name is in its way.
StaticTakesName ==
  [][\A c \in Clients, ip \in Pool \cup Reserved, host \in Names :
       AddStaticLease(c, ip, host) =>
         \/ \E o \in Table : o.static /\ (o.ip = ip \/ o.mac = c \/ o.host = host)
         \/ proc'[Admin].pc # "idle"]_vars

\* The comment on UpdateStaticLease, "updates IP, hostname of the static lease":
\* after an update, failed or not, the hardware address has its static lease.
UpdateKeepsLease ==
  [][\A c \in Clients, ip \in Addrs, host \in Names \cup {NoName} :
       UpdateStaticLease(c, ip, host) =>
         ((\E o \in Statics(srv) : o.mac = c) => \E o \in Statics(srv') : o.mac = c)]_vars

\* The comment in AddStaticLease, "In case a static lease with the same name
\* already exists, addLease will return an error".
StaticNamesUnique ==
  \A k, l \in Range(srv.leases) :
    k # l /\ srv.obj[k].static /\ srv.obj[l].static
      => srv.obj[k].host # srv.obj[l].host \/ srv.obj[k].host = NoName

\* The comment on leasedOffsets: it contains the offsets that have been leased.
LeasedOffsetsExact == srv.offs = {o.ip : o \in Table} \cap Pool

\* The comment on leases, "contains all dynamic and static leases": a lease
\* that DNS finds through an index is in the table.
LeasesComplete == Range(srv.ips) \subseteq Range(srv.leases)

\* The comment on commitLease, "generates a unique one if the provided can't be
\* used": no two leases have the same hostname.
HostnamesUnique ==
  \A k, l \in Range(srv.leases) :
    srv.obj[k].host = srv.obj[l].host /\ srv.obj[k].host # NoName => k = l

\* The comment on onNotify, "server calls this function after DB is updated":
\* once no handler is at work, the database has the leases of the table.
DiskCurrent ==
  (\A w \in Procs : proc[w] = Idle) => \E q \in dbLeases(srv) : Range(disk) = Range(q)

\* The comment on handle, "it finds a lease associated with MAC address and
\* prepares response": a request is answered from a lease of its sender.
AnsweredFromOwn ==
  [][\A w \in Workers :
       handleRequest(w) => srv'.obj[proc[w].lease].mac = proc[w].mac]_vars
====
