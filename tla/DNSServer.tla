------------------------------ MODULE DNSServer ------------------------------
(***************************************************************************)
(* The DNS server: package internal/dnsforward.  Queries go through the    *)
(* steps of middleware.go and requesthandler.go, each in a goroutine of    *)
(* its own, while HTTP handlers change the protection, the access lists    *)
(* and the configuration, a goroutine ends an expired pause of the         *)
(* protection, and the program may exit.                                   *)
(*                                                                         *)
(* All of them share serverLock, a sync.RWMutex: once a goroutine has      *)
(* called Lock, RLock blocks until that goroutine has got and released     *)
(* the lock.  A step that takes the read lock and releases it again is one *)
(* action that needs no writer to be there; processFilteringBeforeRequest  *)
(* keeps it over several steps.                                            *)
(*                                                                         *)
(* A query is abstracted to its kind, which says how the steps treat it.   *)
(* DHCP, the rules and the upstreams are external to the module: what they *)
(* find for a query is part of its kind, and they may fail.                *)
(***************************************************************************)
EXTENDS Naturals, FiniteSets

CONSTANTS
    Query,      \* queries, each served by a goroutine of its own
    Kinds,      \* the kinds of queries that are made
    Access,     \* access lists: whether they block the clients and the hosts
    Never,      \* no end of the pause
    NoOne,      \* no goroutine
    MaxTime,    \* bound on the time
    MaxAdmin    \* bound on the number of HTTP requests

AllKinds ==
    {"badid",       \* its ClientID is not valid
     "canary",      \* answered by processInitial
     "ddr",         \* a discovery query
     "foreign",     \* for a DHCP host, by a client that is not private
     "lease",       \* for a DHCP host that has a lease
     "unleased",    \* for a DHCP host that has none
     "rewritten",   \* has a rewrite
     "listed",      \* blocked by a rule
     "replaced",    \* blocked, and answered with the address of another host
     "cname",       \* its response is blocked by a rule
     "plain"}

Time == 0..MaxTime
Protection == [enabled: BOOLEAN, until: Time \cup {Never}]
Results == {"none", "servfail", "refused", "local", "nxdomain", "blocked", "upstream", "error"}
Pcs == {"idle", "client", "host", "ip", "status", "local", "filter", "check", "replace",
        "lookup", "upstream", "resolve", "after", "log", "done"}

\* A query's dnsContext, with what the settings were while it was served.
DnsContext == [kind: AllKinds, prot: BOOLEAN, res: Results, logged: BOOLEAN,
               seen: SUBSET BOOLEAN, met: SUBSET Access]

ASSUME DNSServerAssumption ==
    /\ Kinds \subseteq AllKinds
    /\ Access \subseteq [clients: BOOLEAN, hosts: BOOLEAN] /\ Access # {}
    /\ MaxTime \in Nat /\ MaxAdmin \in Nat
    /\ Never \notin Nat
    /\ NoOne \notin {"admin", "enabler", "exit"}

VARIABLES
    writer,     \* the goroutine that has called serverLock.Lock
    proxy,      \* dnsProxy: "nil", or one that is "open" or "closed"
    running,    \* isRunning
    logs,       \* whether queryLog and stats are set
    access,     \* what the access lists block
    prot,       \* ProtectionEnabled and ProtectionDisabledUntil of the filter
    updating,   \* protectionUpdateInProgress
    now,        \* the time
    saved,      \* the protection in the configuration file
    failed,     \* whether the last write of the file has failed
    cfg,        \* the goroutine that holds home's config lock, and its copy
    qpc, query, \* where each query is, and its dnsContext
    apc, areq,  \* where the HTTP handler is, and its request
    epc,        \* where enableProtectionAfterPause is
    xpc,        \* where the exit of the program is
    asked       \* number of HTTP requests

server == <<proxy, running, logs, access>>
conf == <<saved, failed, cfg>>
admin == <<apc, areq, asked>>
vars == <<writer, server, prot, updating, now, conf, qpc, query, admin, epc, xpc>>

------------------------------------------------------------------------------
(***************************************************************************)
(* serverLock.                                                             *)
(***************************************************************************)
\* The queries that hold the read lock between two steps.
Readers == {q \in Query : qpc[q] \in {"check", "replace", "lookup"}}

CanRLock == writer = NoOne

\* A goroutine has the write lock when the readers before it have left.
Locked(p) == writer = p /\ Readers = {}

Waiting(p) ==
    \/ p = "admin" /\ apc \in {"lock", "restart"}
    \/ p = "enabler" /\ epc = "lock"
    \/ p = "exit" /\ xpc \in {"stop", "close"}

Lock(p) ==
    /\ Waiting(p)
    /\ writer = NoOne
    /\ writer' = p
    /\ UNCHANGED <<server, prot, updating, now, conf, qpc, query, admin, epc, xpc>>

------------------------------------------------------------------------------
(***************************************************************************)
(* History: what the protection status and the access lists were while a   *)
(* query was being served.                                                 *)
(***************************************************************************)
\* What an administrator expects of the protection at a time.
InForce(p, t) == IF p.until = Never THEN p.enabled ELSE p.until <= t

Seeing(p, t, a) ==
    query' = [q \in Query |->
        IF qpc[q] \in {"idle", "done"} THEN query[q]
        ELSE [query[q] EXCEPT !.seen = @ \cup {InForce(p, t)}, !.met = @ \cup {a}]]

NoQuery == [kind |-> "plain", prot |-> FALSE, res |-> "none", logged |-> FALSE, seen |-> {}, met |-> {}]

Init ==
    /\ writer = NoOne
    /\ proxy = "open" /\ running = TRUE /\ logs = TRUE
    /\ access \in Access
    /\ prot \in {p \in Protection : p.until # Never => ~p.enabled}
    /\ updating = FALSE /\ now = 0
    /\ saved = prot /\ failed = FALSE /\ cfg = NoOne
    /\ qpc = [q \in Query |-> "idle"] /\ query = [q \in Query |-> NoQuery]
    /\ apc = "idle" /\ areq = NoOne /\ epc = "idle" /\ xpc = "run"
    /\ asked = 0

Tick ==
    /\ now < MaxTime
    /\ now' = now + 1
    /\ Seeing(prot, now', access)
    /\ UNCHANGED <<writer, server, prot, updating, conf, qpc, admin, epc, xpc>>

------------------------------------------------------------------------------
(***************************************************************************)
(* Serving a query.                                                        *)
(***************************************************************************)
Goto(q, pc) == qpc' = [qpc EXCEPT ![q] = pc] /\ UNCHANGED query

\* The response is set and the next step is called.
Answer(q, r, pc) ==
    /\ query' = [query EXCEPT ![q].res = r]
    /\ qpc' = [qpc EXCEPT ![q] = pc]

\* resultCodeFinish, resultCodeError, or the end of the last step.
End(q, r) == Answer(q, r, "done")

Kind(q) == query[q].kind
Res(q) == query[q].res

\* What the steps of a query leave alone.
QuerySame == UNCHANGED <<writer, server, prot, now, conf, admin, xpc>>

\* The proxy receives a query and calls the middleware.
Receive(q, k) ==
    /\ qpc[q] = "idle"
    /\ running /\ proxy = "open"
    /\ query' = [query EXCEPT ![q] =
          [NoQuery EXCEPT !.kind = k, !.seen = {InForce(prot, now)}, !.met = {access}]]
    /\ qpc' = [qpc EXCEPT ![q] = "client"]
    /\ UNCHANGED <<updating, epc>> /\ QuerySame

\* Wrap: the ClientID, then IsBlockedClient under the read lock.
IsBlockedClient(q) ==
    /\ qpc[q] = "client"
    /\ IF Kind(q) = "badid"
       THEN End(q, "servfail")
       ELSE CanRLock /\ IF access.clients THEN End(q, "refused") ELSE Goto(q, "host")
    /\ UNCHANGED <<updating, epc>> /\ QuerySame

\* Mutant: the hosts are not looked at.
isBlockedHostNever(q) ==
    /\ qpc[q] = "host"
    /\ Goto(q, "ip")
    /\ UNCHANGED <<updating, epc>> /\ QuerySame

\* s.access is read without serverLock.
isBlockedHost(q) ==
    /\ qpc[q] = "host"
    /\ IF access.hosts THEN End(q, "refused") ELSE Goto(q, "ip")
    /\ UNCHANGED <<updating, epc>> /\ QuerySame

\* processInitial up to the status of the protection.
processClientIP(q) ==
    /\ qpc[q] = "ip"
    /\ CanRLock
    /\ IF Kind(q) = "canary" THEN End(q, "local") ELSE Goto(q, "status")
    /\ UNCHANGED <<updating, epc>> /\ QuerySame

Expired == prot.until # Never /\ now >= prot.until

\* Mutant: the status waits for the goroutine that ends the pause.
StatusUntilUpdated == prot.enabled

Status == IF prot.until = Never THEN prot.enabled ELSE Expired

\* The goroutine that ends the pause is started by the first query after it.
UpdatedProtectionStatus(q) ==
    /\ qpc[q] = "status"
    /\ CanRLock
    /\ query' = [query EXCEPT ![q].prot = Status]
    /\ IF Expired /\ ~updating
       THEN updating' = TRUE /\ epc' = "lock"
       ELSE UNCHANGED <<updating, epc>>
    /\ qpc' = [qpc EXCEPT ![q] = "local"]
    /\ QuerySame

\* processDDRQuery, processDHCPHosts and processDHCPAddrs.
processDHCPHosts(q) ==
    /\ qpc[q] = "local"
    /\ CASE Kind(q) = "ddr"     -> End(q, "local")
         [] Kind(q) = "foreign" -> End(q, "nxdomain")
         [] Kind(q) = "lease"   -> Answer(q, "local", "filter")
         [] OTHER               -> Goto(q, "filter")
    /\ UNCHANGED <<updating, epc>> /\ QuerySame

\* The read lock is taken and kept, unless the response is already set.
processFilteringBeforeRequest(q) ==
    /\ qpc[q] = "filter"
    /\ IF Res(q) # "none" THEN Goto(q, "upstream") ELSE CanRLock /\ Goto(q, "check")
    /\ UNCHANGED <<updating, epc>> /\ QuerySame

\* Mutant: a blocked query is finished at once.
filterDNSRequestFinish(q) ==
    /\ qpc[q] = "check"
    /\ \/ CASE Kind(q) = "rewritten"                  -> Answer(q, "local", "upstream")
            [] Kind(q) = "listed" /\ query[q].prot    -> End(q, "blocked")
            [] Kind(q) = "replaced" /\ query[q].prot  -> Goto(q, "replace")
            [] OTHER                                  -> Goto(q, "upstream")
       \/ End(q, "error")
    /\ UNCHANGED <<updating, epc>> /\ QuerySame

\* CheckHost and the response to a query that matches.  The rewrites do not
\* depend on the protection.
filterDNSRequest(q) ==
    /\ qpc[q] = "check"
    /\ \/ CASE Kind(q) = "rewritten"                  -> Answer(q, "local", "upstream")
            [] Kind(q) = "listed" /\ query[q].prot    -> Answer(q, "blocked", "upstream")
            [] Kind(q) = "replaced" /\ query[q].prot  -> Goto(q, "replace")
            [] OTHER                                  -> Goto(q, "upstream")
       \/ End(q, "error")
    /\ UNCHANGED <<updating, epc>> /\ QuerySame

\* s.proxy() takes the read lock that the query already holds.
genBlockedHost(q) ==
    /\ qpc[q] = "replace"
    /\ CanRLock
    /\ IF proxy = "nil" THEN Answer(q, "servfail", "upstream") ELSE Goto(q, "lookup")
    /\ UNCHANGED <<updating, epc>> /\ QuerySame

\* The address of the replacement is resolved, and the read lock released.
ReplacementFound(q) ==
    /\ qpc[q] = "lookup"
    /\ \E r \in {"blocked", "servfail"} : Answer(q, r, "upstream")
    /\ UNCHANGED <<updating, epc>> /\ QuerySame

processUpstream(q) ==
    /\ qpc[q] = "upstream"
    /\ CASE Res(q) # "none"       -> Goto(q, "after")
         [] Res(q) = "none" /\ Kind(q) = "unleased" -> End(q, "nxdomain")
         [] OTHER -> CanRLock /\ IF proxy = "nil" THEN End(q, "error") ELSE Goto(q, "resolve")
    /\ UNCHANGED <<updating, epc>> /\ QuerySame

\* prx.Resolve, with the proxy of the previous step.
Resolve(q) ==
    /\ qpc[q] = "resolve"
    /\ Answer(q, "upstream", "after") \/ End(q, "error")
    /\ UNCHANGED <<updating, epc>> /\ QuerySame

\* Only responses of upstreams are checked, each record under the read lock,
\* and only if the protection was enabled when the query came.
processFilteringAfterResponse(q) ==
    /\ qpc[q] = "after"
    /\ IF Res(q) = "upstream" /\ query[q].prot
       THEN /\ CanRLock
            /\ \/ IF Kind(q) = "cname" THEN Answer(q, "blocked", "log") ELSE Goto(q, "log")
               \/ End(q, "error")
       ELSE Goto(q, "log")
    /\ UNCHANGED <<updating, epc>> /\ QuerySame

processQueryLogsAndStats(q) ==
    /\ qpc[q] = "log"
    /\ CanRLock
    /\ query' = [query EXCEPT ![q].logged = logs]
    /\ qpc' = [qpc EXCEPT ![q] = "done"]
    /\ UNCHANGED <<updating, epc>> /\ QuerySame

------------------------------------------------------------------------------
(***************************************************************************)
(* The HTTP API.  home's controlLock serialises the handlers.              *)
(***************************************************************************)
Request ==
    [op: {"protection"}, prot: Protection, restart: {FALSE}]
    \cup [op: {"config"}, enabled: BOOLEAN, restart: BOOLEAN]
    \cup [op: {"access"}, access: Access, restart: {FALSE}]

\* The end of a pause is computed before the lock is taken; a pause with the
\* protection enabled is refused.
Ask(r) ==
    /\ apc = "idle" /\ xpc = "run"
    /\ asked < MaxAdmin
    /\ r.op = "protection" /\ r.prot.until # Never => ~r.prot.enabled /\ r.prot.until > now
    /\ asked' = asked + 1
    /\ areq' = r
    /\ apc' = "lock"
    /\ UNCHANGED <<writer, server, prot, updating, now, conf, qpc, query, epc, xpc>>

handleSetProtection ==
    /\ apc = "lock" /\ areq.op = "protection" /\ Locked("admin")
    /\ prot' = areq.prot
    /\ Seeing(prot', now, access)
    /\ writer' = NoOne
    /\ apc' = "save"
    /\ UNCHANGED <<server, updating, now, conf, qpc, areq, asked, epc, xpc>>

\* SetProtectionEnabled leaves the end of the pause alone.  A request without
\* protection_enabled is one with the value that is there.
setConfig ==
    /\ apc = "lock" /\ areq.op = "config" /\ Locked("admin")
    /\ prot' = [prot EXCEPT !.enabled = areq.enabled]
    /\ Seeing(prot', now, access)
    /\ writer' = NoOne
    /\ apc' = "save"
    /\ UNCHANGED <<server, updating, now, conf, qpc, areq, asked, epc, xpc>>

handleAccessSet ==
    /\ apc = "lock" /\ areq.op = "access" /\ Locked("admin")
    /\ access' = areq.access
    /\ Seeing(prot, now, access')
    /\ writer' = NoOne
    /\ apc' = "save"
    /\ UNCHANGED <<proxy, running, logs, prot, updating, now, conf, qpc, areq, asked, epc, xpc>>

\* stopLocked, Prepare and startLocked.  An error of the last two leaves the
\* server down.
Reconfigure ==
    /\ apc = "restart" /\ Locked("admin")
    /\ \/ proxy' = "open" /\ running' = TRUE
       \/ proxy' = "closed" /\ running' = FALSE
    /\ writer' = NoOne
    /\ apc' = "idle"
    /\ UNCHANGED <<logs, access, prot, updating, now, conf, qpc, query, areq, asked, epc, xpc>>

------------------------------------------------------------------------------
(***************************************************************************)
(* ConfModifier.Apply: the configuration is collected and written with     *)
(* home's config lock held.  The part of the server is read under          *)
(* serverLock, after the protection.                                       *)
(***************************************************************************)
Collect(p) ==
    /\ IF p = "admin" THEN apc = "save" ELSE epc = "save"
    /\ cfg = NoOne
    /\ cfg' = [by |-> p, prot |-> prot]
    /\ UNCHANGED <<writer, server, prot, updating, now, saved, failed, qpc, query, admin, epc, xpc>>

\* An error of the write is logged, and the file keeps what it had.
\* enableProtectionAfterPause resets protectionUpdateInProgress after it.
WriteConfig ==
    /\ cfg # NoOne
    /\ CanRLock
    /\ \/ saved' = cfg.prot /\ failed' = FALSE
       \/ failed' = TRUE /\ UNCHANGED saved
    /\ cfg' = NoOne
    /\ IF cfg.by = "admin"
       THEN /\ apc' = IF areq.restart THEN "restart" ELSE "idle"
            /\ UNCHANGED <<updating, epc>>
       ELSE updating' = FALSE /\ epc' = "idle" /\ UNCHANGED apc
    /\ UNCHANGED <<writer, server, prot, now, qpc, query, areq, asked, xpc>>

\* Mutant: the deferred calls run in the other order.
EnableAfterSave ==
    /\ epc = "lock" /\ Locked("enabler")
    /\ prot' = [enabled |-> TRUE, until |-> Never]
    /\ Seeing(prot', now, access)
    /\ writer' = NoOne
    /\ epc' = "idle" /\ updating' = FALSE
    /\ UNCHANGED <<server, now, conf, qpc, admin, xpc>>

\* Mutant: Apply is deferred after Unlock, and so called before it.
EnableHoldingLock ==
    /\ epc = "lock" /\ Locked("enabler")
    /\ prot' = [enabled |-> TRUE, until |-> Never]
    /\ Seeing(prot', now, access)
    /\ epc' = "save"
    /\ UNCHANGED <<writer, server, updating, now, conf, qpc, admin, xpc>>

enableProtectionAfterPause ==
    /\ epc = "lock" /\ Locked("enabler")
    /\ prot' = [enabled |-> TRUE, until |-> Never]
    /\ Seeing(prot', now, access)
    /\ writer' = NoOne
    /\ epc' = "save"
    /\ UNCHANGED <<server, updating, now, conf, qpc, admin, xpc>>

------------------------------------------------------------------------------
(***************************************************************************)
(* The program exits: stopDNSServer of home, after the HTTP server has     *)
(* been shut down.                                                         *)
(***************************************************************************)
stopDNSServer ==
    /\ xpc = "run" /\ apc = "idle"
    /\ CanRLock
    /\ xpc' = IF running THEN "stop" ELSE "done"
    /\ UNCHANGED <<writer, server, prot, updating, now, conf, qpc, query, admin, epc>>

Stop ==
    /\ xpc = "stop" /\ Locked("exit")
    /\ proxy' = "closed" /\ running' = FALSE
    /\ writer' = NoOne
    /\ xpc' = "close"
    /\ UNCHANGED <<logs, access, prot, updating, now, conf, qpc, query, admin, epc>>

Close ==
    /\ xpc = "close" /\ Locked("exit")
    /\ logs' = FALSE /\ proxy' = "nil"
    /\ writer' = NoOne
    /\ xpc' = "done"
    /\ UNCHANGED <<running, access, prot, updating, now, conf, qpc, query, admin, epc>>

------------------------------------------------------------------------------
QueryStep(q) ==
    \/ IsBlockedClient(q) \/ isBlockedHost(q) \/ processClientIP(q)
    \/ UpdatedProtectionStatus(q) \/ processDHCPHosts(q)
    \/ processFilteringBeforeRequest(q) \/ filterDNSRequest(q)
    \/ genBlockedHost(q) \/ ReplacementFound(q)
    \/ processUpstream(q) \/ Resolve(q)
    \/ processFilteringAfterResponse(q) \/ processQueryLogsAndStats(q)

AdminStep ==
    Lock("admin") \/ handleSetProtection \/ setConfig \/ handleAccessSet \/ Reconfigure
    \/ Collect("admin")

EnablerStep == Lock("enabler") \/ enableProtectionAfterPause \/ Collect("enabler")

ExitStep == Lock("exit") \/ Stop \/ Close

Next ==
    \/ Tick
    \/ \E q \in Query : QueryStep(q) \/ \E k \in Kinds : Receive(q, k)
    \/ \E r \in Request : Ask(r)
    \/ AdminStep \/ EnablerStep \/ WriteConfig
    \/ stopDNSServer \/ ExitStep

Spec == Init /\ [][Next]_vars

\* Goroutines that can run do run.  A call of Lock is granted in the end,
\* whatever other goroutines call Lock meanwhile: sync.Mutex is fair.
FairSpec ==
    /\ Spec
    /\ \A q \in Query : WF_vars(QueryStep(q))
    /\ SF_vars(AdminStep) /\ SF_vars(EnablerStep) /\ WF_vars(WriteConfig) /\ SF_vars(ExitStep)

------------------------------------------------------------------------------
(***************************************************************************)
(* Properties.                                                             *)
(***************************************************************************)
ServerOK ==
    /\ proxy \in {"nil", "open", "closed"}
    /\ running \in BOOLEAN /\ logs \in BOOLEAN
    /\ access \in Access /\ prot \in Protection /\ now \in Time

ConfOK ==
    /\ saved \in Protection /\ failed \in BOOLEAN
    /\ cfg \in [by: {"admin", "enabler"}, prot: Protection] \cup {NoOne}

QueriesOK == qpc \in [Query -> Pcs] /\ query \in [Query -> DnsContext]

\* Only a goroutine that is at a Lock has called it, only one that saves holds the
\* config lock, and protectionUpdateInProgress is set as long as one ends a pause.
PlacesOK ==
    /\ writer \in {NoOne, "admin", "enabler", "exit"}
    /\ writer # NoOne => Waiting(writer)
    /\ cfg # NoOne => IF cfg.by = "admin" THEN apc = "save" ELSE epc = "save"
    /\ apc \in {"idle", "lock", "save", "restart"} /\ asked \in 0..MaxAdmin
    /\ apc # "idle" => areq \in Request
    /\ epc \in {"idle", "lock", "save"} /\ updating = (epc # "idle")
    /\ xpc \in {"run", "stop", "close", "done"}

\* Type correctness, and what a goroutine's place says of the shared variables.
TypeOK == ServerOK /\ ConfOK /\ QueriesOK /\ PlacesOK

Done(q) == qpc[q] = "done"

\* The protection applies to a query as it was at some moment while the query
\* was served: a name that is blocked gets an answer from an upstream only if
\* the protection was off at some time, and is blocked only if it was on, in
\* spite of pauses that expire and changes between the steps.
ProtectionInForce ==
    \A q \in Query : Done(q) /\ Kind(q) \in {"listed", "replaced", "cname"} =>
        /\ Res(q) = "upstream" => FALSE \in query[q].seen
        /\ Res(q) = "blocked" => TRUE \in query[q].seen

\* So do the access lists, each of the two at a moment of its own: only what
\* some list blocked is refused, and nothing that one of them has blocked all
\* the time is served.
AccessInForce ==
    \A q \in Query : Done(q) /\ Kind(q) # "badid" =>
        IF Res(q) = "refused"
        THEN \E a \in query[q].met : a.clients \/ a.hosts
        ELSE (\E a \in query[q].met : ~a.clients) /\ (\E a \in query[q].met : ~a.hosts)

\* When nobody has a change left to save and the last write has not failed, the
\* file has the protection in force, although a handler and the end of a pause
\* save it concurrently.
SavedCurrent == apc # "save" /\ epc # "save" /\ ~failed => saved = prot

\* A query that the filters have blocked, at whichever step, is in the query
\* log and in the statistics, unless they ignore it or the server is closed.
BlockedLogged ==
    \A q \in Query : Done(q) /\ Res(q) = "blocked" /\ logs => query[q].logged

\* "UpdatedProtectionStatus updates protection state, if the protection was
\* disabled temporarily" (config.go:818): the protection is enabled again only
\* when the pause in force has expired.
OnlyPausesEnd ==
    [][epc = "lock" /\ epc' = "save" => Expired]_vars

\* "Close gracefully closes the server.  It is safe for concurrent use."
\* (dnsforward.go:280): Close returns in the end, whatever queries are served.
CloseReturns == (xpc \in {"stop", "close"}) ~> (xpc = "done")

\* A query is served in the end, whatever the handlers, the end of a pause and
\* the exit do with the lock that most of its steps need.
QueriesServed == \A q \in Query : (qpc[q] = "client") ~> (qpc[q] = "done")

\* So is an HTTP request that changes a setting: nobody keeps the lock.
RequestsServed == (apc = "lock") ~> (apc = "idle")
==============================================================================
