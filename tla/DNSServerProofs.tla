--------------------------- MODULE DNSServerProofs ---------------------------
(***************************************************************************)
(* Theorems about DNSServer, for any queries, access lists and bounds.     *)
(***************************************************************************)
EXTENDS DNSServer, TLAPS

LEMMA InForceType ==
    ASSUME NEW p \in Protection, NEW t \in Time
    PROVE  InForce(p, t) \in BOOLEAN
<1>1. CASE p.until = Never
  <2>1. p.enabled \in BOOLEAN
    BY DEF Protection
  <2> QED
    BY <1>1, <2>1, Zenon DEF InForce
<1>2. CASE p.until # Never
  <2>1. (p.until <= t) \in BOOLEAN
    BY <1>2, SMT DEF Protection, Time
  <2> QED
    BY <1>2, <2>1, Zenon DEF InForce
<1> QED
  BY <1>1, <1>2

\* The history of the queries keeps their type.
LEMMA SeeingType ==
    ASSUME QueriesOK, qpc' = qpc,
           NEW p \in Protection, NEW t \in Time, NEW a \in Access, Seeing(p, t, a)
    PROVE  QueriesOK'
<1>1. InForce(p, t) \in BOOLEAN
  BY InForceType
<1>2. ASSUME NEW q \in Query
      PROVE  [query[q] EXCEPT !.seen = @ \cup {InForce(p, t)}, !.met = @ \cup {a}]
                \in DnsContext
  <2>1. query[q] \in DnsContext
    BY DEF QueriesOK
  <2> HIDE DEF InForce
  <2> QED
    BY <1>1, <2>1 DEF DnsContext
<1>3. query' = [q \in Query |->
        IF qpc[q] \in {"idle", "done"} THEN query[q]
        ELSE [query[q] EXCEPT !.seen = @ \cup {InForce(p, t)}, !.met = @ \cup {a}]]
  BY DEF Seeing
<1>4. ASSUME NEW q \in Query PROVE query'[q] \in DnsContext
  <2> HIDE DEF DnsContext
  <2>1. CASE qpc[q] \in {"idle", "done"}
    BY <1>3, <2>1 DEF QueriesOK
  <2>2. CASE qpc[q] \notin {"idle", "done"}
    BY <1>2, <1>3, <2>2
  <2> QED
    BY <2>1, <2>2
<1> QED
  BY <1>3, <1>4 DEF QueriesOK

\* So does a step of a query that sets its response or only its place.
LEMMA AnswerType ==
    ASSUME QueriesOK, NEW q \in Query, NEW r \in Results, NEW pc \in Pcs, Answer(q, r, pc)
    PROVE  QueriesOK'
<1>1. [query[q] EXCEPT !.res = r] \in DnsContext
  BY DEF QueriesOK, DnsContext
<1> QED
  BY <1>1 DEF QueriesOK, Answer

LEMMA GotoType ==
    ASSUME QueriesOK, NEW q \in Query, NEW pc \in Pcs, Goto(q, pc)
    PROVE  QueriesOK'
BY DEF QueriesOK, Goto

\* The steps of a query that change only its own variables.
OwnStep(q) ==
    \/ IsBlockedClient(q) \/ isBlockedHost(q) \/ processClientIP(q) \/ processDHCPHosts(q)
    \/ processFilteringBeforeRequest(q) \/ filterDNSRequest(q)
    \/ genBlockedHost(q) \/ ReplacementFound(q) \/ processUpstream(q) \/ Resolve(q)
    \/ processFilteringAfterResponse(q) \/ processQueryLogsAndStats(q)

LEMMA OwnStepQueries ==
    ASSUME TypeOK, NEW q \in Query, OwnStep(q)
    PROVE  QueriesOK'
<1>1. QueriesOK
  BY DEF TypeOK
<1>2. CASE (\E pc \in Pcs : Goto(q, pc)) \/ (\E pc \in Pcs, r \in Results : Answer(q, r, pc))
  BY <1>1, <1>2, GotoType, AnswerType
<1>3. CASE processQueryLogsAndStats(q)
  <2>1. [query[q] EXCEPT !.logged = logs] \in DnsContext
    BY <1>1 DEF QueriesOK, DnsContext, TypeOK, ServerOK
  <2> QED
    BY <1>1, <1>3, <2>1 DEF processQueryLogsAndStats, QueriesOK, Pcs
<1>4. CASE IsBlockedClient(q)
  BY <1>2, <1>4, Zenon DEF IsBlockedClient, End, Pcs, Results
<1>5. CASE isBlockedHost(q)
  BY <1>2, <1>5, Zenon DEF isBlockedHost, End, Pcs, Results
<1>6. CASE processClientIP(q)
  BY <1>2, <1>6, Zenon DEF processClientIP, End, Pcs, Results
<1>7. CASE processDHCPHosts(q)
  BY <1>2, <1>7, Zenon DEF processDHCPHosts, End, Pcs, Results
<1>8. CASE processFilteringBeforeRequest(q)
  BY <1>2, <1>8, Zenon DEF processFilteringBeforeRequest, Pcs, Results
<1>9. CASE filterDNSRequest(q)
  BY <1>2, <1>9, Zenon DEF filterDNSRequest, End, Pcs, Results
<1>10. CASE genBlockedHost(q)
  BY <1>2, <1>10, Zenon DEF genBlockedHost, Pcs, Results
<1>11. CASE ReplacementFound(q)
  BY <1>2, <1>11, Zenon DEF ReplacementFound, Pcs, Results
<1>12. CASE processUpstream(q)
  BY <1>2, <1>12, Zenon DEF processUpstream, End, Pcs, Results
<1>13. CASE Resolve(q)
  BY <1>2, <1>13, Zenon DEF Resolve, End, Pcs, Results
<1>14. CASE processFilteringAfterResponse(q)
  BY <1>2, <1>14, Zenon DEF processFilteringAfterResponse, End, Pcs, Results
<1> QED
  BY <1>3, <1>4, <1>5, <1>6, <1>7, <1>8, <1>9, <1>10, <1>11, <1>12, <1>13, <1>14 DEF OwnStep

LEMMA TypeInit == Init => TypeOK
<1> SUFFICES ASSUME Init PROVE TypeOK
  OBVIOUS
<1> USE DNSServerAssumption
<1>1. ServerOK
  BY DEF Init, ServerOK, Time
<1>2. ConfOK
  BY DEF Init, ConfOK
<1>3. QueriesOK
  <2>1. NoQuery \in DnsContext
    BY DEF NoQuery, DnsContext, AllKinds, Results
  <2> QED
    BY <2>1 DEF Init, QueriesOK, Pcs
<1>4. PlacesOK
  <2>1. updating = (epc # "idle")
    BY Zenon DEF Init
  <2> QED
    BY <2>1 DEF Init, PlacesOK
<1> QED
  BY <1>1, <1>2, <1>3, <1>4 DEF TypeOK

LEMMA TypeStep == TypeOK /\ [Next]_vars => TypeOK'
<1> SUFFICES ASSUME TypeOK, [Next]_vars PROVE TypeOK'
  OBVIOUS
<1> USE DNSServerAssumption
<1>0. ServerOK /\ ConfOK /\ QueriesOK /\ PlacesOK
  BY DEF TypeOK
<1>1. CASE Tick
  <2>1. ServerOK'
    BY <1>0, <1>1 DEF Tick, ServerOK, Time, server
  <2>2. QueriesOK'
    BY <1>0, <1>1, <2>1, SeeingType DEF Tick, ServerOK, server
  <2>3. ConfOK' /\ PlacesOK'
    BY <1>0, <1>1 DEF Tick, ConfOK, PlacesOK, Waiting, conf, admin
  <2> QED
    BY <2>1, <2>2, <2>3 DEF TypeOK
<1>2. ASSUME NEW q \in Query, OwnStep(q) PROVE TypeOK'
  <2>1. QueriesOK'
    BY <1>2, OwnStepQueries
  <2>2. UNCHANGED <<updating, epc>> /\ QuerySame
    BY <1>2 DEF OwnStep, IsBlockedClient, isBlockedHost, processClientIP, processDHCPHosts,
         processFilteringBeforeRequest, filterDNSRequest, genBlockedHost, ReplacementFound,
         processUpstream, Resolve, processFilteringAfterResponse, processQueryLogsAndStats
  <2>3. ServerOK' /\ ConfOK' /\ PlacesOK'
    BY <1>0, <2>2 DEF QuerySame, ServerOK, ConfOK, PlacesOK, Waiting, server, conf, admin
  <2> QED
    BY <2>1, <2>3 DEF TypeOK
<1>3. ASSUME NEW q \in Query, UpdatedProtectionStatus(q) PROVE TypeOK'
  <2>1. Status \in BOOLEAN
    <3>1. prot.enabled \in BOOLEAN
      BY <1>0 DEF ServerOK, Protection
    <3>2. Expired \in BOOLEAN
      BY Zenon DEF Expired
    <3> QED
      BY <3>1, <3>2, Zenon DEF Status
  <2>2. [query[q] EXCEPT !.prot = Status] \in DnsContext
    BY <1>0, <2>1 DEF QueriesOK, DnsContext
  <2>3. QueriesOK'
    BY <1>0, <1>3, <2>2 DEF UpdatedProtectionStatus, QueriesOK, Pcs
  <2>4. ServerOK' /\ ConfOK'
    BY <1>0, <1>3 DEF UpdatedProtectionStatus, QuerySame, ServerOK, ConfOK, server, conf
  <2>5. PlacesOK'
    BY <1>0, <1>3 DEF UpdatedProtectionStatus, QuerySame, PlacesOK, Waiting, admin, conf
  <2> QED
    BY <2>3, <2>4, <2>5 DEF TypeOK
<1>4. ASSUME NEW q \in Query, NEW k \in Kinds, Receive(q, k) PROVE TypeOK'
  <2>1. InForce(prot, now) \in BOOLEAN
    BY <1>0, InForceType DEF ServerOK
  <2>2. [NoQuery EXCEPT !.kind = k, !.seen = {InForce(prot, now)}, !.met = {access}] \in DnsContext
    BY <1>0, <2>1 DEF NoQuery, DnsContext, Results, ServerOK
  <2>3. QueriesOK'
    BY <1>0, <1>4, <2>2 DEF Receive, QueriesOK, Pcs
  <2>4. ServerOK' /\ ConfOK' /\ PlacesOK'
    BY <1>0, <1>4 DEF Receive, QuerySame, ServerOK, ConfOK, PlacesOK, Waiting, server, conf, admin
  <2> QED
    BY <2>3, <2>4 DEF TypeOK
<1>5. ASSUME NEW r \in Request, Ask(r) PROVE TypeOK'
  <2>1. ServerOK' /\ ConfOK' /\ QueriesOK'
    BY <1>0, <1>5 DEF Ask, ServerOK, ConfOK, QueriesOK, server, conf
  <2>2. PlacesOK'
    BY <1>0, <1>5 DEF Ask, PlacesOK, Waiting, conf
  <2> QED
    BY <2>1, <2>2 DEF TypeOK
<1>6. ASSUME NEW p \in {"admin", "enabler", "exit"}, Lock(p) PROVE TypeOK'
  <2>1. ServerOK' /\ ConfOK' /\ QueriesOK'
    BY <1>0, <1>6 DEF Lock, ServerOK, ConfOK, QueriesOK, server, conf
  <2>2. PlacesOK'
    BY <1>0, <1>6 DEF Lock, PlacesOK, Waiting, admin, conf
  <2> QED
    BY <2>1, <2>2 DEF TypeOK
<1>7. CASE handleSetProtection \/ setConfig \/ handleAccessSet
  <2>1. prot' \in Protection /\ access' \in Access
    BY <1>0, <1>7 DEF handleSetProtection, setConfig, handleAccessSet, Request, Protection,
         PlacesOK, ServerOK, server
  <2>2. ServerOK'
    BY <1>0, <1>7, <2>1 DEF handleSetProtection, setConfig, handleAccessSet, ServerOK, server
  <2>3. QueriesOK'
    BY <1>0, <1>7, <2>1, SeeingType DEF handleSetProtection, setConfig, handleAccessSet, ServerOK, server
  <2>4. ConfOK' /\ PlacesOK'
    BY <1>0, <1>7 DEF handleSetProtection, setConfig, handleAccessSet, ConfOK, PlacesOK, Waiting,
         Locked, conf
  <2> QED
    BY <2>2, <2>3, <2>4 DEF TypeOK
<1>8. CASE Reconfigure
  BY <1>0, <1>8 DEF Reconfigure, TypeOK, ServerOK, ConfOK, QueriesOK, PlacesOK, Waiting, Locked, conf
<1>9. ASSUME NEW p \in {"admin", "enabler"}, Collect(p) PROVE TypeOK'
  <2>1. ServerOK' /\ QueriesOK' /\ PlacesOK'
    BY <1>0, <1>9 DEF Collect, ServerOK, QueriesOK, PlacesOK, Waiting, server, admin
  <2>2. ConfOK'
    BY <1>0, <1>9 DEF Collect, ConfOK, ServerOK
  <2> QED
    BY <2>1, <2>2 DEF TypeOK
<1>10. CASE WriteConfig
  <2>1. ServerOK' /\ QueriesOK'
    BY <1>0, <1>10 DEF WriteConfig, ServerOK, QueriesOK, server
  <2>2. ConfOK'
    BY <1>0, <1>10 DEF WriteConfig, ConfOK
  <2>3. PlacesOK'
    BY <1>0, <1>10 DEF WriteConfig, PlacesOK, ConfOK, CanRLock
  <2> QED
    BY <2>1, <2>2, <2>3 DEF TypeOK
<1>11. CASE enableProtectionAfterPause
  <2>1. prot' \in Protection /\ access' = access
    BY <1>11 DEF enableProtectionAfterPause, Protection, server
  <2>2. ServerOK'
    BY <1>0, <1>11, <2>1 DEF enableProtectionAfterPause, ServerOK, server
  <2>3. QueriesOK'
    BY <1>0, <1>11, <2>1, SeeingType DEF enableProtectionAfterPause, ServerOK
  <2>4. ConfOK' /\ PlacesOK'
    BY <1>0, <1>11 DEF enableProtectionAfterPause, ConfOK, PlacesOK, Waiting, Locked, conf, admin
  <2> QED
    BY <2>2, <2>3, <2>4 DEF TypeOK
<1>12. CASE stopDNSServer \/ Stop \/ Close
  BY <1>0, <1>12 DEF stopDNSServer, Stop, Close, TypeOK, ServerOK, ConfOK, QueriesOK, PlacesOK,
       Waiting, Locked, CanRLock, server, conf, admin
<1>13. CASE UNCHANGED vars
  BY <1>0, <1>13 DEF vars, TypeOK, ServerOK, ConfOK, QueriesOK, PlacesOK, Waiting, server, conf, admin
<1> QED
  BY <1>1, <1>2, <1>3, <1>4, <1>5, <1>6, <1>7, <1>8, <1>9, <1>10, <1>11, <1>12, <1>13
  DEF Next, QueryStep, OwnStep, AdminStep, EnablerStep, ExitStep

\* The type invariant holds: goroutines call Lock and hold the config lock only
\* where their code does, and protectionUpdateInProgress goes with the goroutine
\* of enableProtectionAfterPause, whatever else happens to the server.
THEOREM TypeCorrect == Spec => []TypeOK
<1>1. Init => TypeOK
  BY TypeInit
<1>2. TypeOK /\ [Next]_vars => TypeOK'
  BY TypeStep
<1> QED
  BY <1>1, <1>2, PTL DEF Spec

------------------------------------------------------------------------------
(***************************************************************************)
(* The configuration file.                                                 *)
(***************************************************************************)
\* What a goroutine has collected to save is still in force, unless the other
\* one has changed it and is about to save as well.
CollectedCurrent ==
    cfg # NoOne =>
        \/ cfg.prot = prot
        \/ cfg.by = "admin" /\ epc = "save"
        \/ cfg.by = "enabler" /\ apc = "save"

SavedInv == SavedCurrent /\ CollectedCurrent

LEMMA SavedStep == TypeOK /\ SavedInv /\ [Next]_vars => SavedInv'
<1> SUFFICES ASSUME TypeOK, SavedInv, [Next]_vars PROVE SavedInv'
  OBVIOUS
<1> USE DEF SavedInv, SavedCurrent, CollectedCurrent
<1>0. ConfOK /\ PlacesOK
  BY DEF TypeOK
<1>1. CASE UNCHANGED <<prot, conf, apc, epc>>
  BY <1>1 DEF conf
<1>2. ASSUME NEW q \in Query, OwnStep(q) PROVE SavedInv'
  BY <1>1, <1>2 DEF OwnStep, IsBlockedClient, isBlockedHost, processClientIP, processDHCPHosts,
       processFilteringBeforeRequest, filterDNSRequest, genBlockedHost, ReplacementFound,
       processUpstream, Resolve, processFilteringAfterResponse, processQueryLogsAndStats,
       QuerySame, admin
<1>3. ASSUME NEW q \in Query, UpdatedProtectionStatus(q) PROVE SavedInv'
  BY <1>0, <1>3 DEF UpdatedProtectionStatus, QuerySame, admin, conf, PlacesOK
<1>4. ASSUME NEW q \in Query, NEW k \in Kinds, Receive(q, k) PROVE SavedInv'
  BY <1>1, <1>4 DEF Receive, QuerySame, admin
<1>5. ASSUME NEW r \in Request, Ask(r) PROVE SavedInv'
  BY <1>5 DEF Ask, conf
<1>6. ASSUME NEW p, Lock(p) PROVE SavedInv'
  BY <1>1, <1>6 DEF Lock, admin
<1>7. CASE handleSetProtection \/ setConfig
  BY <1>0, <1>7 DEF handleSetProtection, setConfig, conf, PlacesOK, ConfOK
<1>8. CASE handleAccessSet
  BY <1>0, <1>8 DEF handleAccessSet, conf
<1>9. CASE Reconfigure
  BY <1>0, <1>9 DEF Reconfigure, conf, PlacesOK
<1>10. ASSUME NEW p \in {"admin", "enabler"}, Collect(p) PROVE SavedInv'
  BY <1>10 DEF Collect, admin
<1>11. CASE WriteConfig
  BY <1>0, <1>11 DEF WriteConfig, PlacesOK, ConfOK
<1>12. CASE enableProtectionAfterPause
  BY <1>0, <1>12 DEF enableProtectionAfterPause, admin, conf, PlacesOK, ConfOK
<1>13. CASE Tick \/ stopDNSServer \/ Stop \/ Close
  BY <1>1, <1>13 DEF Tick, stopDNSServer, Stop, Close, admin
<1>14. CASE UNCHANGED vars
  BY <1>1, <1>14 DEF vars, admin
<1> QED
  BY <1>2, <1>3, <1>4, <1>5, <1>6, <1>7, <1>8, <1>9, <1>10, <1>11, <1>12, <1>13, <1>14
  DEF Next, QueryStep, OwnStep, AdminStep, EnablerStep, ExitStep

\* Two goroutines that save the configuration at the same time, each with the
\* state of its own moment, leave the protection in force in the file, unless
\* the last write has failed.
THEOREM SavedSettles == Spec => []SavedCurrent
<1>1. Init => SavedInv
  BY DEF Init, SavedInv, SavedCurrent, CollectedCurrent
<1>2. TypeOK /\ SavedInv /\ [Next]_vars => SavedInv'
  BY SavedStep
<1>3. SavedInv => SavedCurrent
  BY DEF SavedInv
<1> QED
  BY <1>1, <1>2, <1>3, TypeCorrect, PTL DEF Spec

------------------------------------------------------------------------------
(***************************************************************************)
(* What a query is answered.                                               *)
(***************************************************************************)
Early == {"client", "host", "ip", "status", "local"}
Late == {"upstream", "resolve", "after", "log"}
Filtering == {"filter", "check", "replace", "lookup"}

\* The history has the settings in force, and the status that the query took.
Witnessed(q) ==
    /\ qpc[q] \in Early \cup Filtering \cup Late =>
          InForce(prot, now) \in query[q].seen /\ access \in query[q].met
    /\ qpc[q] \in {"local"} \cup Filtering \cup Late => query[q].prot \in query[q].seen
    /\ qpc[q] = "done" /\ query[q].res \in {"blocked", "upstream"} =>
          query[q].prot \in query[q].seen

\* What the response says of the steps that the query has passed.
Responded(q) ==
    /\ qpc[q] \in Early => query[q].res = "none"
    /\ qpc[q] \in Filtering /\ query[q].kind # "lease" => query[q].res = "none"
    /\ qpc[q] = "resolve" => query[q].res = "none"
    /\ qpc[q] \in {"replace", "lookup"} => query[q].prot
    /\ query[q].res = "upstream" => qpc[q] \in {"after", "log", "done"}
    /\ query[q].res = "blocked" => query[q].prot
    /\ query[q].kind \in {"listed", "replaced"} /\ query[q].res \in {"none", "upstream"} =>
          (qpc[q] \in Late \cup {"done"} => ~query[q].prot)
    /\ query[q].kind = "cname" /\ query[q].res = "upstream" =>
          (qpc[q] \in {"log", "done"} => ~query[q].prot)

\* Which access lists the query has met.
Admitted(q) ==
    /\ query[q].res = "refused" =>
          qpc[q] = "done" /\ \E a \in query[q].met : a.clients \/ a.hosts
    /\ query[q].kind # "badid" /\ query[q].res # "refused" =>
          /\ qpc[q] \notin {"idle", "client"} => \E a \in query[q].met : ~a.clients
          /\ qpc[q] \notin {"idle", "client", "host"} => \E a \in query[q].met : ~a.hosts

ServedInv ==
    \A q \in Query : Witnessed(q) /\ Responded(q) /\ Admitted(q)

\* A change of a setting, or of the time, is seen by the queries being served.
LEMMA SeeingServed ==
    ASSUME TypeOK, ServedInv, qpc' = qpc, Seeing(prot', now', access')
    PROVE  ServedInv'
<1> SUFFICES ASSUME NEW q \in Query PROVE (Witnessed(q) /\ Responded(q) /\ Admitted(q))'
  BY DEF ServedInv
<1>0. Witnessed(q) /\ Responded(q) /\ Admitted(q) /\ query[q] \in DnsContext
  BY DEF ServedInv, TypeOK, QueriesOK
<1>1. CASE qpc[q] \in {"idle", "done"}
  <2>1. query'[q] = query[q]
    BY <1>1 DEF Seeing
  <2> QED
    BY <1>0, <1>1, <2>1 DEF Witnessed, Responded, Admitted, Early, Late, Filtering
<1>2. CASE qpc[q] \notin {"idle", "done"}
  <2> DEFINE b == InForce(prot', now')
  <2>1. query'[q] = [query[q] EXCEPT !.seen = @ \cup {b}, !.met = @ \cup {access'}]
    BY <1>2 DEF Seeing
  <2> HIDE DEF b
  <2>2. /\ query'[q].kind = query[q].kind /\ query'[q].res = query[q].res
        /\ query'[q].prot = query[q].prot
        /\ query'[q].seen = query[q].seen \cup {b}
        /\ query'[q].met = query[q].met \cup {access'}
    BY <1>0, <2>1 DEF DnsContext
  <2>3. Witnessed(q)'
    <3>1. InForce(prot', now') \in query'[q].seen
      BY <2>2 DEF b
    <3>2. qpc[q] \in {"local"} \cup Filtering \cup Late => query[q].prot \in query[q].seen
      BY <1>0 DEF Witnessed
    <3> QED
      BY <1>2, <2>2, <3>1, <3>2 DEF Witnessed
  <2>4. Responded(q)'
    BY <1>0, <2>2 DEF Responded
  <2>5. Admitted(q)'
    BY <1>0, <2>2 DEF Admitted
  <2> QED
    BY <2>3, <2>4, <2>5
<1> QED
  BY <1>1, <1>2

\* A step of a query that changes nothing but its place and its response.
OnlyResponse(q) ==
    /\ query'[q].kind = query[q].kind /\ query'[q].prot = query[q].prot
    /\ query'[q].seen = query[q].seen /\ query'[q].met = query[q].met
    /\ \A o \in Query : o # q => qpc'[o] = qpc[o] /\ query'[o] = query[o]

LEMMA AnswerOnly ==
    ASSUME TypeOK, NEW q \in Query, NEW r, NEW pc, Answer(q, r, pc)
    PROVE  OnlyResponse(q) /\ qpc'[q] = pc /\ query'[q].res = r
<1>1. qpc \in [Query -> Pcs] /\ query \in [Query -> DnsContext]
  BY DEF TypeOK, QueriesOK
<1>2. query'[q] = [query[q] EXCEPT !.res = r]
  BY <1>1 DEF Answer
<1> QED
  BY <1>1, <1>2 DEF Answer, OnlyResponse, DnsContext

LEMMA GotoOnly ==
    ASSUME TypeOK, NEW q \in Query, NEW pc, Goto(q, pc)
    PROVE  OnlyResponse(q) /\ qpc'[q] = pc /\ query'[q].res = query[q].res
BY DEF TypeOK, QueriesOK, Goto, OnlyResponse

LEMMA OthersServed ==
    ASSUME ServedInv, NEW q \in Query,
           \A o \in Query : o # q => qpc'[o] = qpc[o] /\ query'[o] = query[o],
           UNCHANGED <<prot, now, access>>,
           (Witnessed(q) /\ Responded(q) /\ Admitted(q))'
    PROVE  ServedInv'
<1> SUFFICES ASSUME NEW o \in Query, o # q
             PROVE  (Witnessed(o) /\ Responded(o) /\ Admitted(o))'
  BY DEF ServedInv
<1>1. InForce(prot', now') = InForce(prot, now)
  OBVIOUS
<1>2. Witnessed(o) /\ Responded(o) /\ Admitted(o) /\ qpc'[o] = qpc[o] /\ query'[o] = query[o]
  BY DEF ServedInv
<1>3. Witnessed(o)'
  BY <1>1, <1>2, Zenon DEF Witnessed
<1>4. Responded(o)' /\ Admitted(o)'
  BY <1>2, Zenon DEF Responded, Admitted
<1> QED
  BY <1>3, <1>4

LEMMA OwnServed ==
    ASSUME TypeOK, ServedInv, NEW q \in Query, OnlyResponse(q), UNCHANGED <<prot, now, access>>,
           qpc[q] \in Early \cup Filtering \cup Late,
           (\/ qpc'[q] \in {"local"} \cup Filtering \cup Late
            \/ qpc'[q] = "done" /\ query'[q].res \in {"blocked", "upstream"})
           => qpc[q] \in {"local"} \cup Filtering \cup Late,
           Responded(q)', Admitted(q)'
    PROVE  ServedInv'
<1>1. InForce(prot', now') = InForce(prot, now)
  OBVIOUS
<1>2. Witnessed(q)'
  <2>1. Witnessed(q)
    BY DEF ServedInv
  <2>2. InForce(prot', now') \in query'[q].seen /\ access' \in query'[q].met
    BY <1>1, <2>1, Zenon DEF Witnessed, OnlyResponse
  <2>3. qpc[q] \in {"local"} \cup Filtering \cup Late => query'[q].prot \in query'[q].seen
    BY <2>1, Zenon DEF Witnessed, OnlyResponse
  <2> QED
    BY <2>2, <2>3, SMT DEF Witnessed
<1> QED
  BY <1>2, OthersServed DEF OnlyResponse

LEMMA OwnStepServed ==
    ASSUME TypeOK, ServedInv, NEW q \in Query, OwnStep(q)
    PROVE  ServedInv'
<1>0. Witnessed(q) /\ Responded(q) /\ Admitted(q)
  BY DEF ServedInv
<1>1. UNCHANGED <<prot, now, access>>
  BY DEF OwnStep, IsBlockedClient, isBlockedHost, processClientIP, processDHCPHosts,
       processFilteringBeforeRequest, filterDNSRequest, genBlockedHost, ReplacementFound,
       processUpstream, Resolve, processFilteringAfterResponse, processQueryLogsAndStats,
       QuerySame, server
<1>2. CASE IsBlockedClient(q)
  <2>1. qpc[q] = "client" /\ OnlyResponse(q)
    BY <1>2, AnswerOnly, GotoOnly DEF IsBlockedClient, End, Kind, Res
  <2>2. \/ qpc'[q] = "done" /\ query'[q].res = "servfail" /\ query[q].kind = "badid"
        \/ qpc'[q] = "done" /\ query'[q].res = "refused" /\ access.clients
        \/ qpc'[q] = "host" /\ query'[q].res = query[q].res /\ ~access.clients
    BY <1>2, AnswerOnly, GotoOnly DEF IsBlockedClient, End, Kind, Res
  <2>3. Responded(q)' /\ Admitted(q)'
    BY <1>0, <2>1, <2>2 DEF OnlyResponse, Witnessed, Responded, Admitted, Early, Late, Filtering
  <2> QED
    BY <1>0, <1>1, <2>1, <2>2, <2>3, OwnServed DEF Early, Late, Filtering
<1>3. CASE isBlockedHost(q)
  <2>1. qpc[q] = "host" /\ OnlyResponse(q)
    BY <1>3, AnswerOnly, GotoOnly DEF isBlockedHost, End, Kind, Res
  <2>2. \/ qpc'[q] = "done" /\ query'[q].res = "refused" /\ access.hosts
        \/ qpc'[q] = "ip" /\ query'[q].res = query[q].res /\ ~access.hosts
    BY <1>3, AnswerOnly, GotoOnly DEF isBlockedHost, End, Kind, Res
  <2>3. Responded(q)' /\ Admitted(q)'
    BY <1>0, <2>1, <2>2 DEF OnlyResponse, Witnessed, Responded, Admitted, Early, Late, Filtering
  <2> QED
    BY <1>0, <1>1, <2>1, <2>2, <2>3, OwnServed DEF Early, Late, Filtering
<1>4. CASE processClientIP(q)
  <2>1. qpc[q] = "ip" /\ OnlyResponse(q)
    BY <1>4, AnswerOnly, GotoOnly DEF processClientIP, End, Kind, Res
  <2>2. \/ qpc'[q] = "done" /\ query'[q].res = "local"
        \/ qpc'[q] = "status" /\ query'[q].res = query[q].res
    BY <1>4, AnswerOnly, GotoOnly DEF processClientIP, End, Kind, Res
  <2>3. Responded(q)' /\ Admitted(q)'
    BY <1>0, <2>1, <2>2 DEF OnlyResponse, Witnessed, Responded, Admitted, Early, Late, Filtering
  <2> QED
    BY <1>0, <1>1, <2>1, <2>2, <2>3, OwnServed DEF Early, Late, Filtering
<1>5. CASE processDHCPHosts(q)
  <2>1. qpc[q] = "local" /\ OnlyResponse(q)
    BY <1>5, AnswerOnly, GotoOnly DEF processDHCPHosts, End, Kind, Res
  <2>2. \/ qpc'[q] = "done" /\ query'[q].res \in {"local", "nxdomain"}
        \/ qpc'[q] = "filter" /\ query'[q].res = "local" /\ query[q].kind = "lease"
        \/ qpc'[q] = "filter" /\ query'[q].res = query[q].res
    BY <1>5, AnswerOnly, GotoOnly DEF processDHCPHosts, End, Kind, Res
  <2>3. Responded(q)' /\ Admitted(q)'
    BY <1>0, <2>1, <2>2 DEF OnlyResponse, Witnessed, Responded, Admitted, Early, Late, Filtering
  <2> QED
    BY <1>0, <1>1, <2>1, <2>2, <2>3, OwnServed DEF Early, Late, Filtering
<1>6. CASE processFilteringBeforeRequest(q)
  <2>1. qpc[q] = "filter" /\ OnlyResponse(q)
    BY <1>6, AnswerOnly, GotoOnly DEF processFilteringBeforeRequest, End, Kind, Res
  <2>2. \/ qpc'[q] = "upstream" /\ query'[q].res = query[q].res /\ query[q].res # "none"
        \/ qpc'[q] = "check" /\ query'[q].res = query[q].res
    BY <1>6, AnswerOnly, GotoOnly DEF processFilteringBeforeRequest, End, Kind, Res
  <2>3. Responded(q)' /\ Admitted(q)'
    BY <1>0, <2>1, <2>2 DEF OnlyResponse, Witnessed, Responded, Admitted, Early, Late, Filtering
  <2> QED
    BY <1>0, <1>1, <2>1, <2>2, <2>3, OwnServed DEF Early, Late, Filtering
<1>7. CASE filterDNSRequest(q)
  <2>1. qpc[q] = "check" /\ OnlyResponse(q)
    BY <1>7, AnswerOnly, GotoOnly DEF filterDNSRequest, End, Kind, Res
  <2>2. \/ qpc'[q] = "upstream" /\ query'[q].res = "local"
        \/ qpc'[q] = "upstream" /\ query'[q].res = "blocked" /\ query[q].prot
        \/ qpc'[q] = "replace" /\ query'[q].res = query[q].res /\ query[q].prot
        \/ /\ qpc'[q] = "upstream" /\ query'[q].res = query[q].res
           /\ query[q].kind \in {"listed", "replaced"} => ~query[q].prot
        \/ qpc'[q] = "done" /\ query'[q].res = "error"
    BY <1>7, AnswerOnly, GotoOnly DEF filterDNSRequest, End, Kind, Res
  <2>3. Responded(q)' /\ Admitted(q)'
    BY <1>0, <2>1, <2>2 DEF OnlyResponse, Witnessed, Responded, Admitted, Early, Late, Filtering
  <2> QED
    BY <1>0, <1>1, <2>1, <2>2, <2>3, OwnServed DEF Early, Late, Filtering
<1>8. CASE genBlockedHost(q)
  <2>1. qpc[q] = "replace" /\ OnlyResponse(q)
    BY <1>8, AnswerOnly, GotoOnly DEF genBlockedHost, End, Kind, Res
  <2>2. \/ qpc'[q] = "upstream" /\ query'[q].res = "servfail"
        \/ qpc'[q] = "lookup" /\ query'[q].res = query[q].res
    BY <1>8, AnswerOnly, GotoOnly DEF genBlockedHost, End, Kind, Res
  <2>3. Responded(q)' /\ Admitted(q)'
    BY <1>0, <2>1, <2>2 DEF OnlyResponse, Witnessed, Responded, Admitted, Early, Late, Filtering
  <2> QED
    BY <1>0, <1>1, <2>1, <2>2, <2>3, OwnServed DEF Early, Late, Filtering
<1>9. CASE ReplacementFound(q)
  <2>1. qpc[q] = "lookup" /\ OnlyResponse(q)
    BY <1>9, AnswerOnly, GotoOnly DEF ReplacementFound, End, Kind, Res
  <2>2. qpc'[q] = "upstream" /\ query'[q].res \in {"servfail", "blocked"}
    BY <1>9, AnswerOnly, GotoOnly DEF ReplacementFound, End, Kind, Res
  <2>3. Responded(q)' /\ Admitted(q)'
    BY <1>0, <2>1, <2>2 DEF OnlyResponse, Witnessed, Responded, Admitted, Early, Late, Filtering
  <2> QED
    BY <1>0, <1>1, <2>1, <2>2, <2>3, OwnServed DEF Early, Late, Filtering
<1>10. CASE processUpstream(q)
  <2>1. qpc[q] = "upstream" /\ OnlyResponse(q)
    BY <1>10, AnswerOnly, GotoOnly DEF processUpstream, End, Kind, Res
  <2>2. \/ qpc'[q] = "after" /\ query'[q].res = query[q].res /\ query[q].res # "none"
        \/ qpc'[q] = "done" /\ query'[q].res \in {"nxdomain", "error"}
        \/ qpc'[q] = "resolve" /\ query'[q].res = query[q].res /\ query[q].res = "none"
    BY <1>10, AnswerOnly, GotoOnly DEF processUpstream, End, Kind, Res
  <2>3. Responded(q)' /\ Admitted(q)'
    BY <1>0, <2>1, <2>2 DEF OnlyResponse, Witnessed, Responded, Admitted, Early, Late, Filtering
  <2> QED
    BY <1>0, <1>1, <2>1, <2>2, <2>3, OwnServed DEF Early, Late, Filtering
<1>11. CASE Resolve(q)
  <2>1. qpc[q] = "resolve" /\ OnlyResponse(q)
    BY <1>11, AnswerOnly, GotoOnly DEF Resolve, End, Kind, Res
  <2>2. \/ qpc'[q] = "after" /\ query'[q].res = "upstream"
        \/ qpc'[q] = "done" /\ query'[q].res = "error"
    BY <1>11, AnswerOnly, GotoOnly DEF Resolve, End, Kind, Res
  <2>3. Responded(q)' /\ Admitted(q)'
    BY <1>0, <2>1, <2>2 DEF OnlyResponse, Witnessed, Responded, Admitted, Early, Late, Filtering
  <2> QED
    BY <1>0, <1>1, <2>1, <2>2, <2>3, OwnServed DEF Early, Late, Filtering
<1>12. CASE processFilteringAfterResponse(q)
  <2>1. qpc[q] = "after" /\ OnlyResponse(q)
    BY <1>12, AnswerOnly, GotoOnly DEF processFilteringAfterResponse, End, Kind, Res
  <2>2. \/ qpc'[q] = "log" /\ query'[q].res = "blocked" /\ query[q].prot
        \/ qpc'[q] = "done" /\ query'[q].res = "error"
        \/ /\ qpc'[q] = "log" /\ query'[q].res = query[q].res
           /\ query[q].kind = "cname" /\ query[q].res = "upstream" => ~query[q].prot
    BY <1>12, AnswerOnly, GotoOnly DEF processFilteringAfterResponse, End, Kind, Res
  <2>3. Responded(q)' /\ Admitted(q)'
    BY <1>0, <2>1, <2>2 DEF OnlyResponse, Witnessed, Responded, Admitted, Early, Late, Filtering
  <2> QED
    BY <1>0, <1>1, <2>1, <2>2, <2>3, OwnServed DEF Early, Late, Filtering
<1>13. CASE processQueryLogsAndStats(q)
  <2>1. qpc[q] = "log" /\ OnlyResponse(q)
    BY <1>13 DEF processQueryLogsAndStats, OnlyResponse, DnsContext, TypeOK, QueriesOK
  <2>2. qpc'[q] = "done" /\ query'[q].res = query[q].res
    BY <1>13 DEF processQueryLogsAndStats, OnlyResponse, DnsContext, TypeOK, QueriesOK
  <2>3. Responded(q)' /\ Admitted(q)'
    BY <1>0, <2>1, <2>2 DEF OnlyResponse, Witnessed, Responded, Admitted, Early, Late, Filtering
  <2> QED
    BY <1>0, <1>1, <2>1, <2>2, <2>3, OwnServed DEF Early, Late, Filtering
<1> QED
  BY <1>2, <1>3, <1>4, <1>5, <1>6, <1>7, <1>8, <1>9, <1>10, <1>11, <1>12, <1>13 DEF OwnStep

LEMMA ServedStep == TypeOK /\ ServedInv /\ [Next]_vars => ServedInv'
<1> SUFFICES ASSUME TypeOK, ServedInv, [Next]_vars PROVE ServedInv'
  OBVIOUS
<1>0. QueriesOK /\ ServerOK /\ PlacesOK
  BY DEF TypeOK
<1>1. CASE UNCHANGED <<prot, now, access, qpc, query>>
  <2>1. InForce(prot', now') = InForce(prot, now)
    BY <1>1
  <2> SUFFICES ASSUME NEW q \in Query PROVE (Witnessed(q) /\ Responded(q) /\ Admitted(q))'
    BY DEF ServedInv
  <2>2. Witnessed(q) /\ Responded(q) /\ Admitted(q)
    BY DEF ServedInv
  <2>3. Witnessed(q)'
    BY <1>1, <2>1, <2>2 DEF Witnessed
  <2>4. Responded(q)' /\ Admitted(q)'
    BY <1>1, <2>2 DEF Responded, Admitted
  <2> QED
    BY <2>3, <2>4
<1>2. CASE Tick
  <2>1. Seeing(prot', now', access') /\ qpc' = qpc
    BY <1>2 DEF Tick, server
  <2> QED
    BY <2>1, SeeingServed
<1>3. CASE handleSetProtection \/ setConfig \/ handleAccessSet \/ enableProtectionAfterPause
  <2>1. Seeing(prot', now', access') /\ qpc' = qpc
    BY <1>3 DEF handleSetProtection, setConfig, handleAccessSet, enableProtectionAfterPause, server
  <2> QED
    BY <2>1, SeeingServed
<1>4. ASSUME NEW q \in Query, UpdatedProtectionStatus(q) PROVE ServedInv'
  <2>1. Status = InForce(prot, now)
    <3>1. prot.until # Never => Expired = (prot.until <= now)
      BY <1>0, DNSServerAssumption, SMT DEF Expired, ServerOK, Protection, Time
    <3> QED
      BY <3>1, Zenon DEF Status, InForce
  <2>2. qpc[q] = "status" /\ UNCHANGED <<prot, now, access>>
    BY <1>4 DEF UpdatedProtectionStatus, QuerySame, server
  <2>3. Witnessed(q) /\ Responded(q) /\ Admitted(q)
    BY DEF ServedInv
  <2> DEFINE b == InForce(prot, now)
  <2>4. InForce(prot', now') = b
    BY <2>2
  <2>5. query' = [query EXCEPT ![q].prot = b] /\ qpc' = [qpc EXCEPT ![q] = "local"]
    BY <1>4, <2>1 DEF UpdatedProtectionStatus
  <2>6. b \in query[q].seen /\ access \in query[q].met /\ query[q].res = "none"
    BY <2>2, <2>3 DEF Witnessed, Responded, Early
  <2> HIDE DEF b
  <2>7. /\ qpc'[q] = "local" /\ query'[q].prot = b /\ query'[q].res = query[q].res
        /\ query'[q].kind = query[q].kind
        /\ query'[q].seen = query[q].seen /\ query'[q].met = query[q].met
        /\ \A o \in Query : o # q => qpc'[o] = qpc[o] /\ query'[o] = query[o]
    BY <1>0, <2>5 DEF QueriesOK, DnsContext
  <2>8. Witnessed(q)'
    BY <2>2, <2>4, <2>6, <2>7 DEF Witnessed
  <2>9. Responded(q)' /\ Admitted(q)'
    BY <2>2, <2>3, <2>6, <2>7 DEF Responded, Admitted, Early, Late, Filtering
  <2> QED
    BY <2>2, <2>7, <2>8, <2>9, OthersServed
<1>5. ASSUME NEW q \in Query, NEW k \in Kinds, Receive(q, k) PROVE ServedInv'
  <2> DEFINE b == InForce(prot, now)
  <2>1. UNCHANGED <<prot, now, access>>
    BY <1>5 DEF Receive, QuerySame, server
  <2>2. InForce(prot', now') = b
    BY <2>1
  <2>3. /\ query' = [query EXCEPT ![q] =
                       [NoQuery EXCEPT !.kind = k, !.seen = {b}, !.met = {access}]]
        /\ qpc' = [qpc EXCEPT ![q] = "client"]
    BY <1>5 DEF Receive
  <2> HIDE DEF b
  <2>4. /\ qpc'[q] = "client" /\ query'[q].res = "none"
        /\ query'[q].seen = {b} /\ query'[q].met = {access}
        /\ \A o \in Query : o # q => qpc'[o] = qpc[o] /\ query'[o] = query[o]
    BY <1>0, <2>3 DEF QueriesOK, NoQuery
  <2>5. Witnessed(q)'
    BY <2>1, <2>2, <2>4 DEF Witnessed, Filtering, Late
  <2>6. Responded(q)' /\ Admitted(q)'
    BY <2>1, <2>4 DEF Responded, Admitted, Early, Late, Filtering
  <2> QED
    BY <2>1, <2>4, <2>5, <2>6, OthersServed
<1>6. ASSUME NEW r \in Request, Ask(r) PROVE ServedInv'
  BY <1>1, <1>6 DEF Ask, server
<1>7. ASSUME NEW p, Lock(p) \/ Collect(p) PROVE ServedInv'
  BY <1>1, <1>7 DEF Lock, Collect, server
<1>8. CASE Reconfigure \/ WriteConfig \/ stopDNSServer \/ Stop \/ Close
  BY <1>1, <1>8 DEF Reconfigure, WriteConfig, stopDNSServer, Stop, Close, server
<1>9. CASE UNCHANGED vars
  BY <1>1, <1>9 DEF vars, server
<1>10. ASSUME NEW q \in Query, OwnStep(q) PROVE ServedInv'
  BY <1>10, OwnStepServed
<1> QED
  BY <1>2, <1>3, <1>4, <1>5, <1>6, <1>7, <1>8, <1>9, <1>10
  DEF Next, QueryStep, OwnStep, AdminStep, EnablerStep, ExitStep

LEMMA ServedAlways == Spec => []ServedInv
<1>1. Init => ServedInv
  BY DEF Init, ServedInv, Witnessed, Responded, Admitted, NoQuery, Early, Late, Filtering
<1>2. TypeOK /\ ServedInv /\ [Next]_vars => ServedInv'
  BY ServedStep
<1> QED
  BY <1>1, <1>2, TypeCorrect, PTL DEF Spec

\* The answer to a query that the rules block follows a status of the protection
\* that was in force while the query was served, for any number of queries,
\* pauses and changes of the settings between the steps.
THEOREM ProtectionFollowed == Spec => []ProtectionInForce
<1>1. TypeOK /\ ServedInv => ProtectionInForce
  <2> SUFFICES ASSUME TypeOK, ServedInv, NEW q \in Query, Done(q),
                      Kind(q) \in {"listed", "replaced", "cname"}
               PROVE  /\ Res(q) = "upstream" => FALSE \in query[q].seen
                      /\ Res(q) = "blocked" => TRUE \in query[q].seen
    BY DEF ProtectionInForce
  <2>1. Witnessed(q) /\ Responded(q) /\ query[q].prot \in BOOLEAN
    BY DEF ServedInv, TypeOK, QueriesOK, DnsContext
  <2>2. ASSUME Res(q) = "upstream" PROVE FALSE \in query[q].seen
    <3>1. query[q].prot \in query[q].seen /\ ~query[q].prot
      BY <2>1, <2>2 DEF Witnessed, Responded, Done, Kind, Res
    <3> QED
      BY <2>1, <3>1, Zenon
  <2>3. ASSUME Res(q) = "blocked" PROVE TRUE \in query[q].seen
    <3>1. query[q].prot \in query[q].seen /\ query[q].prot
      BY <2>1, <2>3 DEF Witnessed, Responded, Done, Res
    <3> QED
      BY <2>1, <3>1, Zenon
  <2> QED
    BY <2>2, <2>3
<1> QED
  BY <1>1, TypeCorrect, ServedAlways, PTL

\* A query is refused, or served, according to access lists that were in force
\* while it was served, although the two lists are read in two steps and the
\* second one without serverLock.
THEOREM AccessFollowed == Spec => []AccessInForce
<1>1. ServedInv => AccessInForce
  BY DEF ServedInv, Admitted, AccessInForce, Done, Kind, Res
<1> QED
  BY <1>1, ServedAlways, PTL
------------------------------------------------------------------------------
(***************************************************************************)
(* What is logged.                                                         *)
(***************************************************************************)
\* A step of one query leaves the others as they are, and ends the query with a
\* response that no filter has made, or by logging it.
EndsLogged(q) ==
    /\ \A o \in Query : o # q => qpc'[o] = qpc[o] /\ query'[o] = query[o]
    /\ qpc'[q] = "done" => query'[q].res # "blocked" \/ query'[q].logged = logs

LEMMA AnswerLogged ==
    ASSUME TypeOK, NEW q \in Query, NEW r, NEW pc, Answer(q, r, pc),
           pc # "done" \/ r # "blocked"
    PROVE  EndsLogged(q)
BY AnswerOnly DEF OnlyResponse, EndsLogged

LEMMA GotoLogged ==
    ASSUME TypeOK, NEW q \in Query, NEW pc, Goto(q, pc), pc # "done"
    PROVE  EndsLogged(q)
BY GotoOnly DEF OnlyResponse, EndsLogged

LEMMA OwnStepLogged ==
    ASSUME TypeOK, NEW q \in Query, OwnStep(q)
    PROVE  EndsLogged(q)
<1> USE AnswerLogged, GotoLogged DEF End
<1>1. CASE IsBlockedClient(q) \/ isBlockedHost(q) \/ processClientIP(q)
  BY <1>1 DEF IsBlockedClient, isBlockedHost, processClientIP
<1>2. CASE processDHCPHosts(q)
  BY <1>2 DEF processDHCPHosts
<1>3. CASE processFilteringBeforeRequest(q) \/ filterDNSRequest(q)
  BY <1>3 DEF processFilteringBeforeRequest, filterDNSRequest
<1>4. CASE genBlockedHost(q) \/ ReplacementFound(q)
  BY <1>4 DEF genBlockedHost, ReplacementFound
<1>5. CASE processUpstream(q) \/ Resolve(q)
  BY <1>5 DEF processUpstream, Resolve
<1>6. CASE processFilteringAfterResponse(q)
  BY <1>6 DEF processFilteringAfterResponse
<1>7. CASE processQueryLogsAndStats(q)
  BY <1>7 DEF processQueryLogsAndStats, EndsLogged, TypeOK, QueriesOK, DnsContext
<1> QED
  BY <1>1, <1>2, <1>3, <1>4, <1>5, <1>6, <1>7 DEF OwnStep

LEMMA LoggedStep == TypeOK /\ BlockedLogged /\ [Next]_vars => BlockedLogged'
<1> SUFFICES ASSUME TypeOK, BlockedLogged, [Next]_vars PROVE BlockedLogged'
  OBVIOUS
<1> USE DEF BlockedLogged, Done, Res
<1>0. QueriesOK
  BY DEF TypeOK
<1>1. ASSUME NEW q \in Query, EndsLogged(q), logs' = logs PROVE BlockedLogged'
  BY <1>1 DEF EndsLogged
<1>2. ASSUME NEW q \in Query, OwnStep(q) PROVE BlockedLogged'
  <2>1. logs' = logs
    BY <1>2 DEF OwnStep, IsBlockedClient, isBlockedHost, processClientIP, processDHCPHosts,
       processFilteringBeforeRequest, filterDNSRequest, genBlockedHost, ReplacementFound,
       processUpstream, Resolve, processFilteringAfterResponse, processQueryLogsAndStats,
       QuerySame, server
  <2> QED
    BY <1>1, <1>2, <2>1, OwnStepLogged
<1>3. ASSUME NEW q \in Query, UpdatedProtectionStatus(q) PROVE BlockedLogged'
  <2>1. EndsLogged(q)
    BY <1>0, <1>3 DEF UpdatedProtectionStatus, EndsLogged, QueriesOK
  <2> QED
    BY <1>1, <1>3, <2>1 DEF UpdatedProtectionStatus, QuerySame, server
<1>4. ASSUME NEW q \in Query, NEW k \in Kinds, Receive(q, k) PROVE BlockedLogged'
  <2>1. EndsLogged(q)
    BY <1>0, <1>4 DEF Receive, EndsLogged, QueriesOK
  <2> QED
    BY <1>1, <1>4, <2>1 DEF Receive, QuerySame, server
<1>5. ASSUME qpc' = qpc, logs' = logs, NEW p, NEW t, NEW a, Seeing(p, t, a) PROVE BlockedLogged'
  <2>1. \A q \in Query : qpc[q] = "done" => query'[q] = query[q]
    BY <1>5 DEF Seeing
  <2> QED
    BY <1>5, <2>1
<1>6. CASE Tick
  BY <1>5, <1>6 DEF Tick, server
<1>7. CASE handleSetProtection \/ setConfig \/ handleAccessSet \/ enableProtectionAfterPause
  BY <1>5, <1>7
     DEF handleSetProtection, setConfig, handleAccessSet, enableProtectionAfterPause, server
<1>8. ASSUME UNCHANGED <<qpc, query, logs>> PROVE BlockedLogged'
  BY <1>8
<1>9. ASSUME NEW r \in Request, Ask(r) PROVE BlockedLogged'
  BY <1>8, <1>9 DEF Ask, server
<1>10. ASSUME NEW p, Lock(p) \/ Collect(p) PROVE BlockedLogged'
  BY <1>8, <1>10 DEF Lock, Collect, server
<1>11. CASE Reconfigure \/ WriteConfig \/ stopDNSServer \/ Stop
  BY <1>8, <1>11 DEF Reconfigure, WriteConfig, stopDNSServer, Stop, server
<1>12. CASE Close
  BY <1>12 DEF Close
<1>13. CASE UNCHANGED vars
  BY <1>8, <1>13 DEF vars, server
<1> QED
  BY <1>2, <1>3, <1>4, <1>6, <1>7, <1>9, <1>10, <1>11, <1>12, <1>13
  DEF Next, QueryStep, OwnStep, AdminStep, EnablerStep, ExitStep

\* A query that the filters have blocked, before or after it was resolved, reaches
\* processQueryLogsAndStats whatever the other goroutines do meanwhile: no early
\* return of a step ends it unlogged while the log is there.
THEOREM LoggedCorrect == Spec => []BlockedLogged
<1>1. Init => BlockedLogged
  BY DEF Init, BlockedLogged, Done
<1>2. TypeOK /\ BlockedLogged /\ [Next]_vars => BlockedLogged'
  BY LoggedStep
<1> QED
  BY <1>1, <1>2, TypeCorrect, PTL DEF Spec
==============================================================================
