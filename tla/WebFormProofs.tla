---------------------------- MODULE WebFormProofs ----------------------------
(***************************************************************************)
(* Theorems about the forms of the web interface: the form of a client,    *)
(* the wizard of the installation and the statistics, for any number of    *)
(* acts of the user.                                                       *)
(***************************************************************************)
EXTENDS WebProofs

(***************************************************************************)
(* The statistics.  While the user does one thing at a time and nothing    *)
(* fails, the retention of the server stays as it is, and the store has it *)
(* unless a configuration is still awaited.                                *)
(***************************************************************************)
StatsRequests == {"stats", "search", "config", "set"}
StatsState(s) ==
  DOMAIN s = {"busy", "configLoaded", "configInitialized", "statsInitialized", "interval",
              "enabled", "shown"}

RetentionKnown == calls["config"] = {} => st.interval = srv.interval
RetentionKept ==
  /\ \A c \in calls["set"] : c.arg.interval = srv.interval
  /\ \A c \in calls["config"] : Answer(c) = "ok" => Data(c).interval = srv.interval

StatsInv ==
  /\ CallsOK(calls, StatsRequests) /\ StatsState(st)
  /\ DOMAIN ui = {"page", "period"} /\ DOMAIN hist = {"clean"}
  /\ hist.clean => RetentionKnown /\ RetentionKept
  /\ Stats!RealRetention

LEMMA StatsCalls ==
    /\ \A cs, r, c : Stats!Ended(cs, r, c) = Ended(cs, r, c)
    /\ \A cs, r, c, a : Stats!Answered(cs, r, c, a) = Answered(cs, r, c, a)
    /\ \A c : Stats!Answer(c) = Answer(c) /\ Stats!Data(c) = Data(c)
BY DEF Stats!Ended, Ended, Stats!Answered, Answered, Stats!Answer, Answer, Stats!Data, Data

LEMMA StatsSent ==
    ASSUME NEW cs, NEW r, NEW arg
    PROVE  \E n : Stats!Sent(cs, r, arg) = Added(cs, r, arg, n)
<1> DEFINE taken == {c.n : c \in {d \in cs[r] : d.arg = arg}}
           k == CHOOSE j \in 1 .. Stats!Cardinality(taken) + 1 : j \notin taken
<1>1. Stats!Sent(cs, r, arg) = Added(cs, r, arg, k)
  BY DEF Stats!Sent, Added
<1> QED
  BY <1>1

\* A request that is sent is an activation without an answer, the others stay.
LEMMA StatsSends ==
    ASSUME NEW cs, CallsOK(cs, StatsRequests), NEW r \in StatsRequests, NEW arg
    PROVE  /\ CallsOK(Stats!Sent(cs, r, arg), StatsRequests)
           /\ \A q \in StatsRequests \ {r} : Stats!Sent(cs, r, arg)[q] = cs[q]
           /\ \E c : c.arg = arg /\ Answer(c) = "out"
                     /\ Stats!Sent(cs, r, arg)[r] = cs[r] \cup {c}
<1>1. PICK n : Stats!Sent(cs, r, arg) = Added(cs, r, arg, n)
  BY StatsSent
<1> DEFINE c == [arg |-> arg, n |-> n, answer |-> <<>>]
<1>2. c.arg = arg /\ Answer(c) = "out"
  BY DEF Answer
<1>3. /\ CallsOK(Stats!Sent(cs, r, arg), StatsRequests)
      /\ \A q \in StatsRequests \ {r} : Stats!Sent(cs, r, arg)[q] = cs[q]
      /\ Stats!Sent(cs, r, arg)[r] = cs[r] \cup {c}
  BY <1>1, SentAdds
<1> HIDE DEF c
<1> QED
  BY <1>2, <1>3

LEMMA StatsInit == Stats!Init => StatsInv
<1> SUFFICES ASSUME Stats!Init PROVE StatsInv
  OBVIOUS
<1> DEFINE none == Stats!NoCalls(Stats!Requests)
<1>1. CallsOK(none, StatsRequests) /\ \A r \in StatsRequests : none[r] = {}
  BY DEF Stats!NoCalls, Stats!Requests, StatsRequests, CallsOK
<1> HIDE DEF none
<1> DEFINE old(period) == [Stats!initialState EXCEPT !.busy = {}, !.configLoaded = TRUE,
                             !.configInitialized = TRUE, !.statsInitialized = TRUE,
                             !.interval = srv.interval, !.enabled = srv.enabled,
                             !.shown = Stats!clampStatsPeriod(period, srv.interval)]
           store(period, known) == IF known THEN old(period) ELSE Stats!initialState
<1>2. PICK p, period, known :
        LET s == store(period, known)
            config == Stats!Sent(none, "config", <<p>>)
            stats(cs) == Stats!Sent(cs, "stats", Stats!clampStatsPeriod(period, s.interval))
        IN  /\ ui = [page |-> p, period |-> period]
            /\ st = [s EXCEPT !.busy = @ \cup (IF known THEN {"stats"} ELSE {})
                                 \cup (IF known /\ p = "detail" THEN {} ELSE {"config"})]
            /\ calls = IF ~known THEN config
                       ELSE IF p = "detail" THEN stats(none) ELSE stats(config)
  BY Zenon DEF Stats!Init, none
<1> DEFINE s == store(period, known)
<1>3. StatsState(s) /\ (known => s.interval = srv.interval)
  BY DEF StatsState, Stats!initialState
<1> HIDE DEF s
<1>4. StatsState(st) /\ st.interval = s.interval /\ DOMAIN ui = {"page", "period"}
      /\ ui.period = period
  BY <1>2, <1>3 DEF StatsState, s
<1>5. DOMAIN hist = {"clean"}
  BY DEF Stats!Init
<1>6. "config" \in StatsRequests /\ "stats" \in StatsRequests
  BY DEF StatsRequests
<1>7. CASE ~known
  <2>1. calls = Stats!Sent(none, "config", <<p>>)
    BY <1>2, <1>7 DEF s
  <2>2. /\ CallsOK(calls, StatsRequests)
        /\ \A q \in StatsRequests \ {"config"} : calls[q] = {}
    BY <1>1, <1>6, <2>1, StatsSends
  <2>3. \E c : Answer(c) = "out" /\ calls["config"] = {c}
    BY <1>1, <1>6, <2>1, StatsSends
  <2> QED
    BY <1>4, <1>5, <2>2, <2>3
       DEF StatsInv, StatsRequests, RetentionKnown, RetentionKept, Stats!RealRetention
<1>8. CASE known /\ p = "detail"
  <2>1. calls = Stats!Sent(none, "stats", Stats!clampStatsPeriod(period, s.interval))
    BY <1>2, <1>8 DEF s
  <2>2. /\ CallsOK(calls, StatsRequests)
        /\ \A q \in StatsRequests \ {"stats"} : calls[q] = {}
    BY <1>1, <1>6, <2>1, StatsSends
  <2>3. PICK c : c.arg = Stats!clampStatsPeriod(period, s.interval) /\ calls["stats"] = {c}
    BY <1>1, <1>6, <2>1, StatsSends
  <2> QED
    BY <1>3, <1>4, <1>5, <1>8, <2>2, <2>3
       DEF StatsInv, StatsRequests, RetentionKnown, RetentionKept, Stats!RealRetention
<1>9. CASE known /\ p # "detail"
  <2> DEFINE cs == Stats!Sent(none, "config", <<p>>)
  <2>1. calls = Stats!Sent(cs, "stats", Stats!clampStatsPeriod(period, s.interval))
    BY <1>2, <1>9 DEF s
  <2>2. CallsOK(cs, StatsRequests) /\ \A q \in StatsRequests \ {"config"} : cs[q] = {}
    BY <1>1, <1>6, StatsSends
  <2>3. PICK d : Answer(d) = "out" /\ cs["config"] = {d}
    BY <1>1, <1>6, StatsSends
  <2> HIDE DEF cs
  <2>4. /\ CallsOK(calls, StatsRequests)
        /\ \A q \in StatsRequests \ {"stats"} : calls[q] = cs[q]
    BY <1>6, <2>1, <2>2, StatsSends
  <2>5. PICK c : c.arg = Stats!clampStatsPeriod(period, s.interval) /\ calls["stats"] = {c}
    BY <1>6, <2>1, <2>2, StatsSends DEF StatsRequests
  <2> QED
    BY <1>3, <1>4, <1>5, <1>9, <2>2, <2>3, <2>4, <2>5
       DEF StatsInv, StatsRequests, RetentionKnown, RetentionKept, Stats!RealRetention
<1> QED
  BY <1>7, <1>8, <1>9

\* A step of the user leaves a clean history only if nothing is out: then the
\* store has the retention of the server.
LEMMA StatsQuiet ==
    ASSUME StatsInv, Stats!UserActs
    PROVE  /\ DOMAIN hist' = {"clean"} /\ srv' = srv
           /\ hist'.clean => /\ \A r \in StatsRequests : calls[r] = {}
                             /\ st.interval = srv.interval
<1>1. hist' = [hist EXCEPT !.clean = @ /\ Stats!Idle] /\ srv' = srv
  BY DEF Stats!UserActs, Stats!Act, Stats!Noted
<1>2. DOMAIN hist' = {"clean"} /\ hist'.clean = (hist.clean /\ Stats!Idle)
  BY <1>1 DEF StatsInv
<1>3. Stats!Idle => \A r \in StatsRequests : calls[r] = {}
  BY DEF Stats!Idle, StatsInv, CallsOK
<1> QED
  BY <1>1, <1>2, <1>3 DEF StatsInv, RetentionKnown, StatsRequests

\* getStats sends one request, for the period that the store's retention allows.
LEMMA StatsAsks ==
    ASSUME NEW s, StatsState(s), NEW cs, CallsOK(cs, StatsRequests), NEW period,
           Stats!getStats(s, cs, period)
    PROVE  /\ StatsState(st') /\ st'.interval = s.interval /\ CallsOK(calls', StatsRequests)
           /\ \A q \in StatsRequests \ {"stats"} : calls'[q] = cs[q]
           /\ \E c : c.arg = Stats!clampStatsPeriod(period, s.interval)
                     /\ calls'["stats"] = cs["stats"] \cup {c}
<1>1. calls' = Stats!Sent(cs, "stats", Stats!clampStatsPeriod(period, s.interval))
      /\ st' = [s EXCEPT !.busy = @ \cup {"stats"}]
  BY DEF Stats!getStats
<1>2. StatsState(st') /\ st'.interval = s.interval
  BY <1>1 DEF StatsState
<1> QED
  BY <1>1, <1>2, StatsSends DEF StatsRequests

LEMMA StatsUser == StatsInv /\ Stats!UserStep => StatsInv'
<1> SUFFICES ASSUME StatsInv, Stats!UserStep PROVE StatsInv'
  OBVIOUS
<1>0. /\ StatsState(st) /\ CallsOK(calls, StatsRequests) /\ DOMAIN ui = {"page", "period"}
      /\ {"stats", "config", "set"} \subseteq StatsRequests
  BY DEF StatsInv, StatsRequests
<1>1. ASSUME Stats!UserActs, Stats!getStats(st, calls, ui'.period), DOMAIN ui' = DOMAIN ui
      PROVE  StatsInv'
  <2>1. PICK c : /\ c.arg = Stats!clampStatsPeriod(ui'.period, st.interval)
                 /\ calls'["stats"] = calls["stats"] \cup {c}
    BY <1>0, <1>1, StatsAsks
  <2>2. /\ StatsState(st') /\ st'.interval = st.interval /\ CallsOK(calls', StatsRequests)
        /\ \A q \in StatsRequests \ {"stats"} : calls'[q] = calls[q]
    BY <1>0, <1>1, StatsAsks
  <2> QED
    BY <1>0, <1>1, <2>1, <2>2, StatsQuiet
       DEF StatsInv, StatsRequests, RetentionKnown, RetentionKept, Stats!RealRetention
<1>2. ASSUME Stats!UserActs, DOMAIN ui' = DOMAIN ui, Stats!getStatsConfig(st, calls, <<"detail">>)
      PROVE  StatsInv'
  <2>1. calls' = Stats!Sent(calls, "config", <<"detail">>) /\ StatsState(st')
    BY <1>0, <1>2 DEF Stats!getStatsConfig, StatsState
  <2>2. PICK c : Answer(c) = "out" /\ calls'["config"] = calls["config"] \cup {c}
    BY <1>0, <2>1, StatsSends
  <2>3. /\ CallsOK(calls', StatsRequests)
        /\ \A q \in StatsRequests \ {"config"} : calls'[q] = calls[q]
    BY <1>0, <2>1, StatsSends
  <2> QED
    BY <1>0, <1>2, <2>1, <2>2, <2>3, StatsQuiet
       DEF StatsInv, StatsRequests, RetentionKnown, RetentionKept, Stats!RealRetention
<1>3. CASE Stats!handlePeriodChange
  <2>1. PICK period : /\ ui' = [ui EXCEPT !.period = period]
                      /\ IF st.configInitialized /\ period # ui.period
                         THEN Stats!getStats(st, calls, period) ELSE UNCHANGED <<st, calls>>
    BY <1>3 DEF Stats!handlePeriodChange
  <2>2. Stats!UserActs /\ DOMAIN ui' = DOMAIN ui /\ ui'.period = period
    BY <1>0, <1>3, <2>1 DEF Stats!handlePeriodChange
  <2>3. CASE Stats!getStats(st, calls, period)
    BY <1>1, <2>2, <2>3
  <2>4. CASE UNCHANGED <<st, calls>>
    BY <1>0, <2>2, <2>4, StatsQuiet
       DEF StatsInv, StatsRequests, RetentionKnown, RetentionKept, Stats!RealRetention
  <2> QED
    BY <2>1, <2>3, <2>4
<1>4. CASE Stats!handleRefreshStats
  <2> DEFINE cs == Stats!Sent(calls, "config", <<"refresh">>)
  <2>1. /\ calls' = Stats!Sent(cs, "stats", Stats!clampStatsPeriod(ui.period, st.interval))
        /\ StatsState(st') /\ ui' = ui /\ Stats!UserActs
    BY <1>0, <1>4 DEF Stats!handleRefreshStats, StatsState
  <2>2. PICK d : Answer(d) = "out" /\ cs["config"] = calls["config"] \cup {d}
    BY <1>0, StatsSends
  <2>3. /\ CallsOK(cs, StatsRequests)
        /\ \A q \in StatsRequests \ {"config"} : cs[q] = calls[q]
    BY <1>0, StatsSends
  <2> HIDE DEF cs
  <2>4. PICK c : /\ c.arg = Stats!clampStatsPeriod(ui.period, st.interval)
                 /\ calls'["stats"] = cs["stats"] \cup {c}
    BY <1>0, <2>1, <2>3, StatsSends
  <2>5. /\ CallsOK(calls', StatsRequests)
        /\ \A q \in StatsRequests \ {"stats"} : calls'[q] = cs[q]
    BY <1>0, <2>1, <2>3, StatsSends
  <2> QED
    BY <1>0, <2>1, <2>2, <2>3, <2>4, <2>5, StatsQuiet
       DEF StatsInv, StatsRequests, RetentionKnown, RetentionKept, Stats!RealRetention
<1>5. CASE Stats!refreshStats
  BY <1>1, <1>2, <1>5 DEF Stats!refreshStats
<1>6. CASE Stats!enableStatistics
  <2> DEFINE arg == [interval |-> st.interval, enabled |-> TRUE]
  <2>1. /\ calls' = Stats!Sent(calls, "set", arg) /\ arg.interval = st.interval
        /\ StatsState(st') /\ st'.interval = st.interval /\ ui' = ui /\ Stats!UserActs
    BY <1>0, <1>6 DEF Stats!enableStatistics, StatsState
  <2> HIDE DEF arg
  <2>2. PICK c : c.arg = arg /\ calls'["set"] = calls["set"] \cup {c}
    BY <1>0, <2>1, StatsSends
  <2>3. /\ CallsOK(calls', StatsRequests)
        /\ \A q \in StatsRequests \ {"set"} : calls'[q] = calls[q]
    BY <1>0, <2>1, StatsSends
  <2> QED
    BY <1>0, <2>1, <2>2, <2>3, StatsQuiet
       DEF StatsInv, StatsRequests, RetentionKnown, RetentionKept, Stats!RealRetention
<1>7. CASE Stats!openDetail
  <2>1. DOMAIN ui' = DOMAIN ui /\ ui'.period = ui.period
    BY <1>0, <1>7 DEF Stats!openDetail
  <2> QED
    BY <1>1, <1>2, <1>7, <2>1 DEF Stats!openDetail
<1> QED
  BY <1>3, <1>4, <1>5, <1>6, <1>7 DEF Stats!UserStep

\* The server keeps its retention: a change sets the one that the store has.
LEMMA StatsServer == StatsInv /\ Stats!Server => StatsInv'
<1> SUFFICES ASSUME StatsInv, Stats!Server PROVE StatsInv'
  OBVIOUS
<1>1. PICK r \in StatsRequests : \E c \in calls[r] : Stats!serve(r, c)
  BY DEF Stats!Server, Stats!Requests, StatsRequests
<1>2. PICK c \in calls[r] : Stats!serve(r, c)
  BY <1>1
<1>3. UNCHANGED <<st, ui, hist>>
  BY DEF Stats!Server
<1>4. PICK s, data : /\ Stats!Served(r, c, s, data)
                     /\ s = srv \/ (r = "set" /\ s = c.arg)
                     /\ r = "config" => data = srv
  <2>1. CASE r = "config" /\ Stats!Served(r, c, srv, srv)
    BY <2>1, Zenon
  <2>2. CASE r \in {"stats", "search"} /\ Stats!Served(r, c, srv, {})
    <3>1. r # "config"
      BY <2>2
    <3> QED
      BY <2>2, <3>1, Zenon
  <2>3. CASE r = "set" /\ Stats!Served(r, c, c.arg, {})
    <3>1. r # "config"
      BY <2>3
    <3> QED
      BY <2>3, <3>1, Zenon
  <2> QED
    BY <1>2, <2>1, <2>2, <2>3 DEF Stats!serve
<1>5. PICK a : /\ calls' = Answered(calls, r, c, a) /\ srv' \in {srv, s}
               /\ a = <<"ok", data>> \/ a = <<"failed">>
  BY <1>4, StatsCalls DEF Stats!Served
<1> DEFINE new == Reply(c, a)
<1>6. /\ CallsOK(calls', StatsRequests)
      /\ \A q \in StatsRequests \ {r} : calls'[q] = calls[q]
      /\ calls'[r] = (calls[r] \ {c}) \cup {new}
  BY <1>5, AnsweredChanges DEF StatsInv
<1>7. new.arg = c.arg /\ (r = "config" /\ Answer(new) = "ok" => Data(new) = srv)
  BY <1>4, <1>5 DEF Reply, Answer, Data
<1> HIDE DEF new
<1>8. hist.clean => srv'.interval = srv.interval
  BY <1>4, <1>5 DEF StatsInv, RetentionKept
<1>9. hist.clean => (RetentionKnown /\ RetentionKept)'
  BY <1>3, <1>6, <1>7, <1>8 DEF StatsInv, StatsRequests, RetentionKnown, RetentionKept
<1>10. (Stats!RealRetention)'
  BY <1>3, <1>6, <1>7, <1>8 DEF StatsInv, StatsRequests, Stats!RealRetention
<1> QED
  BY <1>3, <1>6, <1>9, <1>10 DEF StatsInv

LEMMA StatsResume == StatsInv /\ Stats!Resume => StatsInv'
<1> SUFFICES ASSUME StatsInv, Stats!Resume PROVE StatsInv'
  OBVIOUS
<1>1. PICK r \in StatsRequests : \E c \in calls[r] :
        /\ \/ r = "config" /\ Stats!configDone(c)
           \/ r \in {"stats", "search"} /\ Stats!statsDone(r, c)
           \/ r = "set" /\ Stats!setDone(c)
        /\ hist' = Stats!Learned(hist, c)
  BY DEF Stats!Resume, Stats!Requests, StatsRequests
<1>2. PICK c \in calls[r] :
        /\ \/ r = "config" /\ Stats!configDone(c)
           \/ r \in {"stats", "search"} /\ Stats!statsDone(r, c)
           \/ r = "set" /\ Stats!setDone(c)
        /\ hist' = Stats!Learned(hist, c)
  BY <1>1
<1>3. UNCHANGED <<ui, srv>>
  BY DEF Stats!Resume
<1>4. DOMAIN hist' = {"clean"} /\ (hist'.clean => hist.clean /\ Answer(c) = "ok")
  BY <1>2, StatsCalls DEF Stats!Learned, StatsInv
<1> DEFINE cs == Ended(calls, r, c)
<1>5. /\ CallsOK(cs, StatsRequests) /\ cs[r] = calls[r] \ {c}
      /\ \A q \in StatsRequests \ {r} : cs[q] = calls[q]
  BY EndedRemoves DEF StatsInv
<1>6. Stats!Ended(calls, r, c) = cs /\ Stats!Answer(c) = Answer(c) /\ Stats!Data(c) = Data(c)
  BY StatsCalls
<1> HIDE DEF cs
<1>7. ASSUME NEW s, StatsState(s), hist'.clean => s.interval = srv.interval,
             Stats!getStats(s, cs, ui.period)
      PROVE  StatsInv'
  <2>1. PICK d : /\ d.arg = Stats!clampStatsPeriod(ui.period, s.interval)
                 /\ calls'["stats"] = cs["stats"] \cup {d}
    BY <1>5, <1>7, StatsAsks
  <2>2. /\ StatsState(st') /\ st'.interval = s.interval /\ CallsOK(calls', StatsRequests)
        /\ \A q \in StatsRequests \ {"stats"} : calls'[q] = cs[q]
    BY <1>5, <1>7, StatsAsks
  <2>3. \A q \in StatsRequests : cs[q] \subseteq calls[q]
    BY <1>5
  <2> QED
    BY <1>3, <1>4, <1>7, <2>1, <2>2, <2>3
       DEF StatsInv, StatsRequests, RetentionKnown, RetentionKept, Stats!RealRetention
<1>8. ASSUME StatsState(st'), hist'.clean => st'.interval = srv.interval, calls' = cs
      PROVE  StatsInv'
  BY <1>3, <1>4, <1>5, <1>8
     DEF StatsInv, StatsRequests, RetentionKnown, RetentionKept, Stats!RealRetention
<1>9. CASE r = "config" /\ Stats!configDone(c)
  <2> DEFINE ok == Answer(c) = "ok"
             s == Stats!configSettled(IF ok THEN [st EXCEPT !.interval = Data(c).interval,
                                                           !.enabled = Data(c).enabled,
                                                           !.configLoaded = TRUE] ELSE st, ok)
  <2>1. \/ Stats!getStats(s, cs, ui.period)
        \/ st' = s /\ calls' = cs
    BY <1>6, <1>9 DEF Stats!configDone
  <2>2. StatsState(s) /\ (ok => s.interval = Data(c).interval)
    BY DEF StatsInv, StatsState, Stats!configSettled
  <2>3. hist'.clean => s.interval = srv.interval
    BY <1>4, <1>9, <2>2 DEF StatsInv, RetentionKept
  <2> HIDE DEF s
  <2> QED
    BY <1>7, <1>8, <2>1, <2>2, <2>3
<1>10. CASE r \in {"stats", "search"} /\ Stats!statsDone(r, c)
  <2> DEFINE s == [st EXCEPT !.busy = @ \ {"stats"}, !.statsInitialized = TRUE]
  <2>0. StatsState(st) /\ StatsState(s) /\ s.interval = st.interval
    BY DEF StatsInv, StatsState
  <2>1. CASE st' = s /\ calls' = cs
    BY <1>3, <1>4, <1>5, <1>10, <2>0, <2>1
       DEF StatsInv, StatsRequests, RetentionKnown, RetentionKept, Stats!RealRetention
  <2>2. CASE calls' = Stats!Sent(cs, "search", c.arg) /\ UNCHANGED st
    <3>1. /\ CallsOK(calls', StatsRequests)
          /\ \A q \in StatsRequests \ {"search"} : calls'[q] = cs[q]
      BY <1>5, <2>2, StatsSends DEF StatsRequests
    <3> QED
      BY <1>3, <1>4, <1>5, <1>10, <2>2, <3>1
         DEF StatsInv, StatsRequests, RetentionKnown, RetentionKept, Stats!RealRetention
  <2>3. CASE st' = [s EXCEPT !.shown = c.arg] /\ calls' = cs
    <3>1. StatsState(st') /\ st'.interval = st.interval
      BY <2>0, <2>3 DEF StatsState
    <3> QED
      BY <1>3, <1>4, <1>5, <1>10, <2>3, <3>1
         DEF StatsInv, StatsRequests, RetentionKnown, RetentionKept, Stats!RealRetention
  <2> QED
    BY <1>6, <1>10, <2>1, <2>2, <2>3 DEF Stats!statsDone
<1>11. CASE r = "set" /\ Stats!setDone(c)
  <2> DEFINE s == [st EXCEPT !.busy = @ \ {"set"}]
             t == [s EXCEPT !.interval = c.arg.interval, !.enabled = c.arg.enabled]
  <2>1. \/ Stats!getStats(t, cs, ui.period)
        \/ Answer(c) # "ok" /\ st' = s /\ calls' = cs
    BY <1>6, <1>11 DEF Stats!setDone
  <2>2. StatsState(s) /\ StatsState(t) /\ t.interval = c.arg.interval
    BY DEF StatsInv, StatsState
  <2>3. hist'.clean => t.interval = srv.interval
    BY <1>4, <1>11, <2>2 DEF StatsInv, RetentionKept
  <2> HIDE DEF s, t
  <2> QED
    BY <1>4, <1>7, <1>8, <2>1, <2>2, <2>3
<1> QED
  BY <1>2, <1>9, <1>10, <1>11

(***************************************************************************)
(* The installation.  While the user waits for the checks, what the store, *)
(* the form, the timer and the checks hold of an address is what the user  *)
(* entered, from the step on in which the address is entered.              *)
(***************************************************************************)
InstallRequests == {"addresses", "check", "configure", "login", "main"}
InstallState(s) ==
  DOMAIN s = {"step", "processingDefault", "processingSubmit", "processingCheck", "submitted",
              "auth", "web", "dns", "webStatus", "dnsStatus", "canAutofix", "static",
              "processingLogin", "error"}
InstallUi(u) == DOMAIN u = {"at", "form", "timer", "password"} /\ DOMAIN u.form = {"web", "dns"}
InstallHist(h) == DOMAIN h = {"clean", "entered"} /\ DOMAIN h.entered = {"web", "dns"}
InstallShape ==
  /\ CallsOK(calls, InstallRequests) /\ InstallState(st) /\ InstallUi(ui) /\ InstallHist(hist)
  /\ DOMAIN srv = {"busy", "static", "config", "session"}

\* f has the addresses e that were entered, as far as step n is beyond their steps.
AsEntered(n, e, f) == (n >= 4 => f.web = e.web) /\ (n >= 5 => f.dns = e.dns)

\* The default addresses arrive before the first step is left, the password is
\* accepted before the third is opened, and the last step is the last.
StepsInv ==
  /\ st.step \in 1 .. 6 /\ (st.step >= 3 => st.auth = Install!Requirement)
  /\ calls["addresses"] # {} => /\ st.step = 1 /\ st.processingDefault
                                /\ \A c, d \in calls["addresses"] : c = d
  /\ \A c \in calls["configure"] : st.step = 6 /\ c.arg.auth = Install!Requirement
  /\ srv.config # <<>> => st.step = 6 /\ srv.config.auth = Install!Requirement

EnteredInv ==
  /\ hist.entered.web # 0 /\ AsEntered(st.step, hist.entered, st)
  /\ st.step = 4 => ui.form.web = hist.entered.web
  /\ ui.timer # <<>> => AsEntered(st.step, hist.entered, ui.timer)
  /\ \A c \in calls["check"] : AsEntered(st.step, hist.entered, c.arg)
  /\ \A c \in calls["configure"] : AsEntered(6, hist.entered, c.arg)
  /\ srv.config # <<>> => AsEntered(6, hist.entered, srv.config)

InstallInv == InstallShape /\ StepsInv /\ (hist.clean => EnteredInv)

LEMMA InstallCalls ==
    /\ \A cs, r, c : Install!Ended(cs, r, c) = Ended(cs, r, c)
    /\ \A cs, r, c, a : Install!Answered(cs, r, c, a) = Answered(cs, r, c, a)
    /\ \A c : Install!Answer(c) = Answer(c) /\ Install!Data(c) = Data(c)
BY DEF Install!Ended, Ended, Install!Answered, Answered, Install!Answer, Answer, Install!Data, Data

LEMMA InstallSends ==
    ASSUME NEW cs, CallsOK(cs, InstallRequests), NEW r \in InstallRequests, NEW arg
    PROVE  /\ CallsOK(Install!Sent(cs, r, arg), InstallRequests)
           /\ \A q \in InstallRequests \ {r} : Install!Sent(cs, r, arg)[q] = cs[q]
           /\ \E c : c.arg = arg /\ Install!Sent(cs, r, arg)[r] = cs[r] \cup {c}
<1> DEFINE taken == {c.n : c \in {d \in cs[r] : d.arg = arg}}
           n == CHOOSE j \in 1 .. Install!Cardinality(taken) + 1 : j \notin taken
           c == [arg |-> arg, n |-> n, answer |-> <<>>]
<1>1. Install!Sent(cs, r, arg) = Added(cs, r, arg, n)
  BY DEF Install!Sent, Added
<1> HIDE DEF n
<1>2. c.arg = arg
  OBVIOUS
<1>3. /\ CallsOK(Install!Sent(cs, r, arg), InstallRequests)
      /\ \A q \in InstallRequests \ {r} : Install!Sent(cs, r, arg)[q] = cs[q]
      /\ Install!Sent(cs, r, arg)[r] = cs[r] \cup {c}
  BY <1>1, SentAdds
<1> HIDE DEF c
<1> QED
  BY <1>2, <1>3

LEMMA InstallInit == Install!Init => InstallInv
<1> SUFFICES ASSUME Install!Init PROVE InstallInv
  OBVIOUS
<1> DEFINE none == Install!NoCalls(Install!Requests)
<1>1. CallsOK(none, InstallRequests) /\ \A r \in InstallRequests : none[r] = {}
  BY DEF Install!NoCalls, Install!Requests, InstallRequests, CallsOK
<1>2. PICK arg : calls = Install!Sent(none, "addresses", arg)
  BY DEF Install!Init
<1> HIDE DEF none
<1>3. /\ CallsOK(calls, InstallRequests)
      /\ \A q \in InstallRequests \ {"addresses"} : calls[q] = {}
  BY <1>1, <1>2, InstallSends DEF InstallRequests
<1>4. \E c : calls["addresses"] = {c}
  <2>1. "addresses" \in InstallRequests /\ none["addresses"] = {}
    BY <1>1 DEF InstallRequests
  <2>2. PICK c : /\ c.arg = arg
                 /\ Install!Sent(none, "addresses", arg)["addresses"] = none["addresses"] \cup {c}
    BY <1>1, <2>1, InstallSends
  <2> QED
    BY <1>2, <2>1, <2>2
<1>5. PICK e : /\ st = [step |-> 1, processingDefault |-> TRUE, processingSubmit |-> FALSE,
                        processingCheck |-> FALSE, submitted |-> FALSE, auth |-> {},
                        web |-> Install!STANDARD.web, dns |-> Install!STANDARD.dns,
                        webStatus |-> e, dnsStatus |-> e, canAutofix |-> FALSE, static |-> e,
                        processingLogin |-> FALSE, error |-> FALSE]
               /\ ui = [at |-> "install", form |-> Install!STANDARD, timer |-> <<>>,
                        password |-> e]
  BY Zenon DEF Install!Init, Install!initialState
<1>6. InstallState(st) /\ st.step = 1 /\ st.processingDefault
  BY <1>5 DEF InstallState
<1>7. DOMAIN Install!STANDARD = {"web", "dns"} /\ Install!STANDARD.web # 0
  <2> DEFINE w == CHOOSE p \in {1, 2} : TRUE
             d == CHOOSE p \in {3, 4} : TRUE
  <2>1. w \in {1, 2}
    BY Zenon
  <2>2. Install!STANDARD = [web |-> w, dns |-> d]
    BY Zenon DEF Install!STANDARD
  <2> HIDE DEF w, d
  <2> QED
    BY <2>1, <2>2
<1>8. InstallUi(ui) /\ ui.timer = <<>>
  BY <1>5, <1>7 DEF InstallUi
<1>9. DOMAIN srv = {"busy", "static", "config", "session"} /\ srv.config = <<>>
  BY DEF Install!Init
<1>10. InstallHist(hist) /\ hist.entered.web # 0
  BY <1>7 DEF Install!Init, InstallHist
<1> QED
  BY <1>3, <1>4, <1>6, <1>8, <1>9, <1>10
     DEF InstallInv, InstallShape, StepsInv, EnteredInv, AsEntered, InstallRequests

\* A step of the user leaves a clean history only if nothing is out and no check
\* is due.
LEMMA InstallQuiet ==
    ASSUME InstallInv
    PROVE  LET h == Install!Quiet(hist) IN
           /\ InstallHist(h) /\ h.entered = hist.entered
           /\ h.clean => /\ hist.clean /\ ui.timer = <<>>
                         /\ \A r \in InstallRequests : calls[r] = {}
<1> DEFINE n == Install!Noted(hist)
           h == Install!Quiet(hist)
<1>1. /\ InstallHist(n) /\ n.entered = hist.entered /\ (n.clean <=> (hist.clean /\ Install!Idle))
  BY DEF InstallInv, InstallShape, InstallHist, Install!Noted
<1>2. h = [n EXCEPT !.clean = @ /\ ui.timer = <<>>]
  BY DEF Install!Quiet
<1> HIDE DEF n, h
<1>3. InstallHist(h) /\ h.entered = n.entered /\ (h.clean <=> (n.clean /\ ui.timer = <<>>))
  BY <1>1, <1>2 DEF InstallHist
<1>4. Install!Idle => \A r \in InstallRequests : calls[r] = {}
  BY DEF Install!Idle, InstallInv, InstallShape, CallsOK
<1> QED
  BY <1>1, <1>3, <1>4 DEF h

\* On a step of the wizard, the default addresses are there.
LEMMA InstallAt ==
    ASSUME InstallInv, NEW n, Install!AtStep(n)
    PROVE  st.step = n /\ calls["addresses"] = {}
BY DEF InstallInv, StepsInv, Install!AtStep

\* The form of a step that is opened has the addresses of the store.
LEMMA InstallOpened ==
    ASSUME InstallUi(ui), NEW s
    PROVE  /\ InstallUi(Install!opened(s))
           /\ s.step \in {3, 4} =>
                LET f == Install!opened(s).form IN
                Install!opened(s).timer = f /\ (s.web # 0 => f.web = s.web)
           /\ s.step \notin {3, 4} => Install!opened(s) = ui
<1> DEFINE f == Install!useInstallSettingsForm(s)
<1>1. DOMAIN f = {"web", "dns"} /\ (s.web # 0 => f.web = s.web)
  BY DEF Install!useInstallSettingsForm
<1> HIDE DEF f
<1>2. Install!opened(s) = IF s.step \in {3, 4} THEN [ui EXCEPT !.form = f, !.timer = f] ELSE ui
  BY DEF Install!opened, Install!addressStep, f
<1> QED
  BY <1>1, <1>2 DEF InstallUi

LEMMA InstallBack ==
    ASSUME InstallInv, Install!prevStep
    PROVE  InstallInv'
<1>0. InstallShape /\ StepsInv
  BY DEF InstallInv
<1>1. PICK n \in 2 .. 5 : Install!AtStep(n)
  BY DEF Install!prevStep
<1> DEFINE s == [st EXCEPT !.step = @ - 1]
<1>2. /\ st' = s /\ ui' = Install!opened(s) /\ UNCHANGED <<calls, srv>>
      /\ hist' = Install!Quiet(hist)
  BY DEF Install!prevStep, Install!Moves
<1>3. /\ InstallState(s) /\ s.step = n - 1 /\ s.web = st.web /\ s.dns = st.dns /\ s.auth = st.auth
      /\ s.processingDefault = st.processingDefault
  BY <1>0, <1>1, InstallAt DEF InstallShape, InstallState
<1> HIDE DEF s
<1>4. /\ InstallUi(ui')
      /\ s.step \in {3, 4} => ui'.timer = ui'.form /\ (s.web # 0 => ui'.form.web = s.web)
      /\ s.step \notin {3, 4} => ui' = ui
  BY <1>0, <1>2, InstallOpened DEF InstallShape
<1>5. /\ InstallHist(hist') /\ hist'.entered = hist.entered
      /\ hist'.clean => EnteredInv /\ \A r \in InstallRequests : calls[r] = {}
  BY <1>2, InstallQuiet DEF InstallInv
<1>6. st.step = n /\ calls["addresses"] = {}
  BY <1>1, InstallAt
<1>7. StepsInv'
  BY <1>0, <1>1, <1>2, <1>3, <1>6 DEF StepsInv
<1>8. hist'.clean => EnteredInv'
  <2> SUFFICES ASSUME hist'.clean PROVE EnteredInv'
    OBVIOUS
  <2>1. EnteredInv /\ calls["check"] = {} /\ calls["configure"] = {}
    BY <1>5 DEF InstallRequests
  <2>2. srv.config = <<>>
    BY <1>0, <1>6 DEF StepsInv
  <2>3. CASE n = 5
    BY <1>2, <1>3, <1>4, <1>5, <1>6, <2>1, <2>2, <2>3 DEF EnteredInv, AsEntered
  <2>4. CASE n # 5
    BY <1>1, <1>2, <1>3, <1>5, <2>1, <2>2, <2>4 DEF EnteredInv, AsEntered
  <2> QED
    BY <2>3, <2>4
<1> QED
  BY <1>0, <1>2, <1>3, <1>4, <1>5, <1>7, <1>8 DEF InstallInv, InstallShape

LEMMA InstallForward ==
    ASSUME InstallInv, Install!nextStep \/ Install!handleAuthSubmit
    PROVE  InstallInv'
<1>0. InstallShape /\ StepsInv
  BY DEF InstallInv
<1>a. PICK n \in {1, 2, 5} : \E met :
        /\ Install!AtStep(n) /\ (n = 2 => met = Install!Requirement) /\ (n # 2 => met = st.auth)
        /\ Install!Moves([st EXCEPT !.auth = met, !.step = n + 1]) /\ hist' = Install!Quiet(hist)
  <2>1. CASE Install!nextStep
    <3>1. PICK n \in {1, 5} : Install!AtStep(n)
      BY <2>1 DEF Install!nextStep
    <3>2. [st EXCEPT !.step = @ + 1] = [st EXCEPT !.auth = st.auth, !.step = n + 1]
      BY <1>0, <3>1, InstallAt DEF InstallShape, InstallState
    <3>3. /\ Install!Moves([st EXCEPT !.auth = st.auth, !.step = n + 1])
          /\ hist' = Install!Quiet(hist)
      BY <2>1, <3>2, Zenon DEF Install!nextStep
    <3>4. n \in {1, 2, 5} /\ n # 2
      OBVIOUS
    <3> QED
      BY <3>1, <3>3, <3>4, Zenon
  <2>2. CASE Install!handleAuthSubmit
    <3>1. PICK met : /\ Install!isAuthFormValid(met)
                     /\ Install!Moves([st EXCEPT !.auth = met, !.step = @ + 1])
      BY <2>2 DEF Install!handleAuthSubmit
    <3>2. st.step = 2 /\ Install!AtStep(2) /\ hist' = Install!Quiet(hist)
      BY <2>2, InstallAt DEF Install!handleAuthSubmit
    <3>3. [st EXCEPT !.auth = met, !.step = @ + 1] = [st EXCEPT !.auth = met, !.step = 2 + 1]
      BY <1>0, <3>2 DEF InstallShape, InstallState
    <3> QED
      BY <3>1, <3>2, <3>3 DEF Install!isAuthFormValid
  <2> QED
    BY <2>1, <2>2
<1>1. PICK met :
        /\ Install!AtStep(n) /\ (n = 2 => met = Install!Requirement) /\ (n # 2 => met = st.auth)
        /\ Install!Moves([st EXCEPT !.auth = met, !.step = n + 1]) /\ hist' = Install!Quiet(hist)
  BY <1>a
<1> DEFINE s == [st EXCEPT !.auth = met, !.step = n + 1]
<1>2. st' = s /\ ui' = Install!opened(s) /\ UNCHANGED <<calls, srv>>
  BY <1>1 DEF Install!Moves
<1>3. /\ InstallState(s) /\ s.step = n + 1 /\ s.web = st.web /\ s.dns = st.dns /\ s.auth = met
      /\ s.processingDefault = st.processingDefault
  BY <1>0 DEF InstallShape, InstallState
<1> HIDE DEF s
<1>4. InstallUi(ui') /\ (s.step \notin {3, 4} => ui' = ui)
  BY <1>0, <1>2, InstallOpened DEF InstallShape
<1>5. /\ InstallHist(hist') /\ hist'.entered = hist.entered
      /\ hist'.clean => EnteredInv /\ \A r \in InstallRequests : calls[r] = {}
  BY <1>1, InstallQuiet DEF InstallInv
<1>6. st.step = n /\ calls["addresses"] = {}
  BY <1>1, InstallAt
<1>7. StepsInv'
  BY <1>0, <1>1, <1>2, <1>3, <1>6 DEF StepsInv
<1>8. hist'.clean => EnteredInv'
  <2> SUFFICES ASSUME hist'.clean PROVE EnteredInv'
    OBVIOUS
  <2>0. st.step # 6
    BY <1>6
  <2>1. EnteredInv /\ calls["check"] = {} /\ calls["configure"] = {} /\ srv.config = <<>>
    BY <1>0, <1>5, <2>0 DEF InstallRequests, StepsInv
  <2>2. CASE n = 5
    <3>1. st.step = 5 /\ s.step = 6
      BY <1>3, <1>6, <2>2
    <3> QED
      BY <1>2, <1>3, <1>4, <1>5, <2>1, <3>1 DEF EnteredInv, AsEntered
  <2>3. CASE n # 5
    <3>1. ~(s.step >= 4) /\ ~(s.step >= 5) /\ s.step # 4
      BY <1>3, <1>6, <2>3
    <3> QED
      BY <1>2, <1>5, <2>1, <3>1 DEF EnteredInv, AsEntered
  <2> QED
    BY <2>2, <2>3
<1> QED
  BY <1>0, <1>2, <1>3, <1>4, <1>5, <1>7, <1>8 DEF InstallInv, InstallShape

LEMMA InstallTyped ==
    ASSUME InstallInv, Install!handlePortChange
    PROVE  InstallInv'
<1>0. InstallShape /\ StepsInv
  BY DEF InstallInv
<1>1. PICK n, f :
        /\ n \in {3, 4} /\ Install!AtStep(n)
        /\ DOMAIN f = {"web", "dns"} /\ (n = 4 => f.web = ui.form.web)
        /\ ui' = Install!withForm(f)
  <2>0. DOMAIN ui.form = {"web", "dns"}
    BY <1>0 DEF InstallShape, InstallUi
  <2>1. CASE Install!AtStep(3) /\ \E p : ui' = Install!withForm([ui.form EXCEPT !.web = p])
    BY <2>0, <2>1
  <2>2. CASE Install!AtStep(4) /\ \E p : ui' = Install!withForm([ui.form EXCEPT !.dns = p])
    <3>1. PICK p : ui' = Install!withForm([ui.form EXCEPT !.dns = p])
      BY <2>2
    <3>2. /\ DOMAIN [ui.form EXCEPT !.dns = p] = {"web", "dns"}
          /\ [ui.form EXCEPT !.dns = p].web = ui.form.web
      BY <2>0
    <3> QED
      BY <2>2, <3>1, <3>2
  <2> QED
    BY <2>1, <2>2 DEF Install!handlePortChange
<1>2. UNCHANGED <<st, calls, srv>> /\ hist' = Install!Quiet(hist)
  BY DEF Install!handlePortChange
<1>3. InstallUi(ui') /\ ui'.form = f /\ ui'.timer \in {f, ui.timer}
  BY <1>0, <1>1 DEF Install!withForm, InstallShape, InstallUi
<1>4. /\ InstallHist(hist') /\ hist'.entered = hist.entered
      /\ hist'.clean => EnteredInv /\ ui.timer = <<>>
  BY <1>2, InstallQuiet DEF InstallInv
<1>5. st.step = n
  BY <1>1, InstallAt
<1>6. StepsInv'
  BY <1>0, <1>2 DEF StepsInv
<1>7. hist'.clean => EnteredInv'
  BY <1>1, <1>2, <1>3, <1>4, <1>5 DEF EnteredInv, AsEntered
<1> QED
  BY <1>0, <1>2, <1>3, <1>4, <1>6, <1>7 DEF InstallInv, InstallShape

LEMMA InstallSubmit ==
    ASSUME InstallInv, Install!handleSubmit
    PROVE  InstallInv'
<1>0. InstallShape /\ StepsInv
  BY DEF InstallInv
<1>1. PICK n \in {3, 4} : Install!AtStep(n)
  BY DEF Install!handleSubmit
<1> DEFINE s == [st EXCEPT !.web = ui.form.web, !.dns = ui.form.dns, !.step = @ + 1]
           h == Install!Quiet(hist)
           e == IF n = 3 THEN [hist.entered EXCEPT !.web = ui.form.web]
                ELSE [hist.entered EXCEPT !.dns = ui.form.dns]
<1>2. st.step = n /\ calls["addresses"] = {}
  BY <1>1, InstallAt
<1>3. /\ InstallHist(h) /\ h.entered = hist.entered
      /\ h.clean => EnteredInv /\ \A r \in InstallRequests : calls[r] = {}
  BY InstallQuiet DEF InstallInv
<1>4. /\ st' = s /\ ui' = [Install!opened(s) EXCEPT !.timer = ui.form]
      /\ UNCHANGED <<calls, srv>> /\ ui.form.web # 0
      /\ hist' = [h EXCEPT !.entered = IF st.step = 3 THEN [@ EXCEPT !.web = ui.form.web]
                                       ELSE [@ EXCEPT !.dns = ui.form.dns]]
  BY DEF Install!handleSubmit, Install!isValid, Install!validateInstallPort
<1>5. /\ InstallState(s) /\ s.step = n + 1 /\ s.web = ui.form.web /\ s.dns = ui.form.dns
      /\ s.auth = st.auth /\ s.processingDefault = st.processingDefault
  BY <1>0, <1>2 DEF InstallShape, InstallState
<1> HIDE DEF s, h
<1>6. /\ InstallUi(ui') /\ ui'.timer = ui.form
      /\ n = 3 => ui'.form.web = ui.form.web
  BY <1>0, <1>4, <1>5, InstallOpened DEF InstallShape, InstallUi
<1>7. hist'.entered = e /\ DOMAIN hist' = {"clean", "entered"} /\ hist'.clean = h.clean
  BY <1>2, <1>3, <1>4 DEF InstallHist
<1>8. /\ DOMAIN e = {"web", "dns"}
      /\ n = 3 => e.web = ui.form.web
      /\ n = 4 => e.web = hist.entered.web /\ e.dns = ui.form.dns
  BY <1>0 DEF InstallShape, InstallHist
<1> HIDE DEF e
<1>9. StepsInv'
  BY <1>0, <1>2, <1>4, <1>5 DEF StepsInv
<1>10. hist'.clean => EnteredInv'
  <2> SUFFICES ASSUME hist'.clean PROVE EnteredInv'
    OBVIOUS
  <2>1. EnteredInv /\ calls["check"] = {} /\ calls["configure"] = {} /\ srv.config = <<>>
    BY <1>0, <1>2, <1>3, <1>7 DEF InstallRequests, StepsInv
  <2> QED
    BY <1>2, <1>4, <1>5, <1>6, <1>7, <1>8, <2>1 DEF EnteredInv, AsEntered
<1> QED
  BY <1>0, <1>4, <1>5, <1>6, <1>7, <1>8, <1>9, <1>10 DEF InstallInv, InstallShape, InstallHist

\* The store keeps what the invariants are about.
InstallSame(s, t) ==
  /\ InstallState(t) /\ t.step = s.step /\ t.auth = s.auth /\ t.web = s.web /\ t.dns = s.dns
  /\ t.processingDefault = s.processingDefault

LEMMA InstallSendsSame ==
    ASSUME InstallShape, NEW r \in InstallRequests, NEW arg, calls' = Install!Sent(calls, r, arg)
    PROVE  /\ CallsOK(calls', InstallRequests)
           /\ \A q \in InstallRequests \ {r} : calls'[q] = calls[q]
           /\ \E c : c.arg = arg /\ calls'[r] = calls[r] \cup {c}
<1>1. CallsOK(calls, InstallRequests)
  BY DEF InstallShape
<1>2. PICK c : c.arg = arg /\ Install!Sent(calls, r, arg)[r] = calls[r] \cup {c}
  BY <1>1, InstallSends
<1> QED
  BY <1>1, <1>2, InstallSends

\* A check is sent, of a form with the addresses that were entered.
LEMMA InstallChecks ==
    ASSUME InstallInv, NEW f, NEW fix, Install!checkConfig(f, fix), UNCHANGED srv,
           InstallUi(ui'), ui'.form = ui.form, ui'.timer \in {ui.timer, <<>>},
           InstallHist(hist'), hist'.entered = hist.entered,
           hist'.clean => hist.clean /\ AsEntered(st.step, hist.entered, f)
    PROVE  InstallInv'
<1>0. InstallShape /\ StepsInv
  BY DEF InstallInv
<1> DEFINE arg == [web |-> f.web, dns |-> f.dns, fix |-> fix]
<1>1. /\ calls' = Install!Sent(calls, "check", arg)
      /\ st' = [st EXCEPT !.processingCheck = TRUE]
  BY DEF Install!checkConfig
<1>2. InstallSame(st, st')
  BY <1>0, <1>1 DEF InstallSame, InstallShape, InstallState
<1>3. arg.web = f.web /\ arg.dns = f.dns
  OBVIOUS
<1> HIDE DEF arg
<1>4. PICK c : c.arg = arg /\ calls'["check"] = calls["check"] \cup {c}
  BY <1>0, <1>1, InstallSendsSame DEF InstallRequests
<1>5. /\ CallsOK(calls', InstallRequests)
      /\ \A q \in InstallRequests \ {"check"} : calls'[q] = calls[q]
  BY <1>0, <1>1, InstallSendsSame DEF InstallRequests
<1>6. calls'["addresses"] = calls["addresses"] /\ calls'["configure"] = calls["configure"]
  BY <1>5 DEF InstallRequests
<1>7. StepsInv'
  BY <1>0, <1>2, <1>6 DEF StepsInv, InstallSame
<1>8. hist'.clean => EnteredInv'
  <2> SUFFICES ASSUME hist'.clean PROVE EnteredInv'
    OBVIOUS
  <2>1. EnteredInv /\ AsEntered(st.step, hist.entered, f)
    BY DEF InstallInv
  <2> QED
    BY <1>2, <1>3, <1>4, <1>6, <2>1 DEF EnteredInv, AsEntered, InstallSame
<1> QED
  BY <1>0, <1>2, <1>5, <1>7, <1>8 DEF InstallInv, InstallShape, InstallSame

LEMMA InstallTimer == InstallInv /\ Install!debouncedCheckConfig => InstallInv'
<1> SUFFICES ASSUME InstallInv, Install!debouncedCheckConfig PROVE InstallInv'
  OBVIOUS
<1>1. /\ ui.timer # <<>> /\ ui' = [ui EXCEPT !.timer = <<>>] /\ UNCHANGED <<srv, hist>>
  BY Zenon DEF Install!debouncedCheckConfig
<1>2. PICK fix : Install!checkConfig(ui.timer, fix)
  BY Zenon DEF Install!debouncedCheckConfig
<1>3. /\ InstallUi(ui') /\ ui'.form = ui.form /\ ui'.timer = <<>> /\ InstallHist(hist')
  BY <1>1 DEF InstallInv, InstallShape, InstallUi
<1>4. hist.clean => AsEntered(st.step, hist.entered, ui.timer)
  BY <1>1 DEF InstallInv, EnteredInv
<1> QED
  BY <1>1, <1>2, <1>3, <1>4, InstallChecks

LEMMA InstallUser == InstallInv /\ Install!UserStep => InstallInv'
<1> SUFFICES ASSUME InstallInv, Install!UserStep PROVE InstallInv'
  OBVIOUS
<1>0. InstallShape /\ StepsInv
  BY DEF InstallInv
<1>1. ASSUME NEW n \in {3, 4}, NEW fix, Install!AtStep(n), Install!checkConfig(ui.form, fix),
             UNCHANGED <<ui, srv>>, hist' = Install!Quiet(hist)
      PROVE  InstallInv'
  <2>1. /\ InstallHist(hist') /\ hist'.entered = hist.entered /\ (hist'.clean => hist.clean)
    BY <1>1, InstallQuiet
  <2>2. hist.clean => AsEntered(st.step, hist.entered, ui.form)
    BY <1>1, InstallAt DEF InstallInv, EnteredInv, AsEntered
  <2> QED
    BY <1>0, <1>1, <2>1, <2>2, InstallChecks DEF InstallShape
<1>2. CASE Install!handleAutofix
  BY <1>1, <1>2 DEF Install!handleAutofix, Install!Act
<1>3. CASE Install!handleStaticIp
  BY <1>1, <1>3 DEF Install!handleStaticIp, Install!Act
<1>4. CASE Install!handleFinalSubmit
  <2> DEFINE arg == [web |-> st.web, dns |-> st.dns, auth |-> st.auth]
  <2>1. /\ Install!AtStep(6) /\ UNCHANGED <<ui, srv>> /\ hist' = Install!Quiet(hist)
        /\ st' = [st EXCEPT !.processingSubmit = TRUE, !.submitted = FALSE]
        /\ calls' = Install!Sent(calls, "configure", arg)
    BY <1>4 DEF Install!handleFinalSubmit, Install!Act
  <2>2. InstallSame(st, st') /\ st.step = 6
    BY <1>0, <2>1, InstallAt DEF InstallSame, InstallShape, InstallState
  <2>3. arg.web = st.web /\ arg.dns = st.dns /\ arg.auth = st.auth
    OBVIOUS
  <2> HIDE DEF arg
  <2>4. PICK c : c.arg = arg /\ calls'["configure"] = calls["configure"] \cup {c}
    BY <1>0, <2>1, InstallSendsSame DEF InstallRequests
  <2>5. /\ CallsOK(calls', InstallRequests)
        /\ \A q \in InstallRequests \ {"configure"} : calls'[q] = calls[q]
    BY <1>0, <2>1, InstallSendsSame DEF InstallRequests
  <2>6. calls'["addresses"] = calls["addresses"] /\ calls'["check"] = calls["check"]
    BY <2>5 DEF InstallRequests
  <2>7. /\ InstallHist(hist') /\ hist'.entered = hist.entered /\ (hist'.clean => EnteredInv)
    BY <2>1, InstallQuiet DEF InstallInv
  <2>8. StepsInv'
    BY <1>0, <2>1, <2>2, <2>3, <2>4, <2>6 DEF StepsInv, InstallSame
  <2>9. hist'.clean => EnteredInv'
    BY <2>1, <2>2, <2>3, <2>4, <2>6, <2>7 DEF EnteredInv, AsEntered, InstallSame
  <2> QED
    BY <1>0, <2>1, <2>2, <2>5, <2>7, <2>8, <2>9 DEF InstallInv, InstallShape, InstallSame
<1>5. CASE Install!processLogin
  <2>1. PICK password : /\ ui' = [ui EXCEPT !.password = password]
                        /\ calls' = Install!Sent(calls, "login", password)
    BY <1>5 DEF Install!processLogin
  <2>2. /\ st' = [st EXCEPT !.processingLogin = TRUE, !.error = FALSE]
        /\ srv' = srv /\ hist' = [hist EXCEPT !.clean = @ /\ Install!Idle]
    BY <1>5 DEF Install!processLogin, Install!UserActs, Install!Act, Install!Noted
  <2>3. InstallSame(st, st')
    BY <1>0, <2>2 DEF InstallSame, InstallShape, InstallState
  <2>4. InstallUi(ui') /\ ui'.form = ui.form /\ ui'.timer = ui.timer
    BY <1>0, <2>1 DEF InstallShape, InstallUi
  <2>5. InstallHist(hist') /\ hist'.entered = hist.entered /\ (hist'.clean => hist.clean)
    BY <1>0, <2>2 DEF InstallShape, InstallHist
  <2>6. /\ CallsOK(calls', InstallRequests)
        /\ \A q \in InstallRequests \ {"login"} : calls'[q] = calls[q]
    BY <1>0, <2>1, InstallSendsSame DEF InstallRequests
  <2>7. /\ calls'["addresses"] = calls["addresses"] /\ calls'["check"] = calls["check"]
        /\ calls'["configure"] = calls["configure"]
    BY <2>6 DEF InstallRequests
  <2>8. StepsInv'
    BY <1>0, <2>2, <2>3, <2>7 DEF StepsInv, InstallSame
  <2>9. hist'.clean => EnteredInv'
    BY <2>2, <2>3, <2>4, <2>5, <2>7 DEF InstallInv, EnteredInv, AsEntered, InstallSame
  <2> QED
    BY <1>0, <2>2, <2>3, <2>4, <2>5, <2>6, <2>8, <2>9 DEF InstallInv, InstallShape, InstallSame
<1> QED
  BY <1>2, <1>3, <1>4, <1>5, InstallBack, InstallForward, InstallTyped, InstallSubmit
     DEF Install!UserStep

\* The server is configured only by a request of the last step.
LEMMA InstallServer == InstallInv /\ Install!Server => InstallInv'
<1> SUFFICES ASSUME InstallInv, Install!Server PROVE InstallInv'
  OBVIOUS
<1>0. InstallShape /\ StepsInv
  BY DEF InstallInv
<1>1. PICK r \in InstallRequests : \E c \in calls[r] : Install!serve(r, c)
  BY DEF Install!Server, Install!Requests, InstallRequests
<1>2. PICK c \in calls[r] : Install!serve(r, c)
  BY <1>1
<1>3. UNCHANGED <<st, ui, hist>>
  BY DEF Install!Server
<1>4. /\ \E a : calls' = Answered(calls, r, c, a)
      /\ DOMAIN srv' = DOMAIN srv
      /\ srv'.config = srv.config \/ (r = "configure" /\ srv'.config = c.arg)
  <2>0. DOMAIN srv = {"busy", "static", "config", "session"}
    BY <1>0 DEF InstallShape
  <2>1. ASSUME NEW s, NEW data, Install!Served(r, c, s, data)
        PROVE  (\E a : calls' = Answered(calls, r, c, a)) /\ srv' \in {srv, s}
    BY <2>1, InstallCalls DEF Install!Served
  <2>2. ASSUME Install!Refused(r, c)
        PROVE  (\E a : calls' = Answered(calls, r, c, a)) /\ srv' = srv
    BY <2>2, InstallCalls DEF Install!Refused
  <2>3. \/ Install!Refused(r, c)
        \/ \E s, data : Install!Served(r, c, s, data) /\ s = srv
        \/ \E b, x, data : Install!Served(r, c, [srv EXCEPT !.busy = b, !.static = x], data)
        \/ r = "configure" /\ \E data : Install!Served(r, c, [srv EXCEPT !.config = c.arg], data)
        \/ \E data : Install!Served(r, c, [srv EXCEPT !.session = TRUE], data)
    BY <1>2, Zenon DEF Install!serve
  <2>4. CASE \E s, data : Install!Served(r, c, s, data) /\ s = srv
    BY <2>1, <2>4
  <2>5. CASE \E b, x, data : Install!Served(r, c, [srv EXCEPT !.busy = b, !.static = x], data)
    <3>1. PICK b, x, data : Install!Served(r, c, [srv EXCEPT !.busy = b, !.static = x], data)
      BY <2>5
    <3> DEFINE s == [srv EXCEPT !.busy = b, !.static = x]
    <3>2. DOMAIN s = DOMAIN srv /\ s.config = srv.config
      BY <2>0
    <3> HIDE DEF s
    <3>3. Install!Served(r, c, s, data)
      BY <3>1 DEF s
    <3> QED
      BY <2>1, <3>2, <3>3
  <2>6. CASE r = "configure" /\ \E data : Install!Served(r, c, [srv EXCEPT !.config = c.arg], data)
    <3> DEFINE s == [srv EXCEPT !.config = c.arg]
    <3>1. PICK data : Install!Served(r, c, s, data)
      BY <2>6
    <3>2. DOMAIN s = DOMAIN srv /\ s.config = c.arg
      BY <2>0
    <3> HIDE DEF s
    <3> QED
      BY <2>1, <2>6, <3>1, <3>2
  <2>7. CASE \E data : Install!Served(r, c, [srv EXCEPT !.session = TRUE], data)
    <3> DEFINE s == [srv EXCEPT !.session = TRUE]
    <3>1. PICK data : Install!Served(r, c, s, data)
      BY <2>7
    <3>2. DOMAIN s = DOMAIN srv /\ s.config = srv.config
      BY <2>0
    <3> HIDE DEF s
    <3> QED
      BY <2>1, <3>1, <3>2
  <2> QED
    BY <2>2, <2>3, <2>4, <2>5, <2>6, <2>7
<1>5. PICK a : calls' = Answered(calls, r, c, a)
  BY <1>4
<1> DEFINE new == Reply(c, a)
<1>6. /\ CallsOK(calls', InstallRequests)
      /\ \A q \in InstallRequests \ {r} : calls'[q] = calls[q]
      /\ calls'[r] = (calls[r] \ {c}) \cup {new}
  BY <1>0, <1>5, AnsweredChanges DEF InstallShape
<1>7. new.arg = c.arg
  BY DEF Reply
<1> HIDE DEF new
<1>8. /\ \A q \in InstallRequests : \A d \in calls'[q] : \E k \in calls[q] : k.arg = d.arg
      /\ calls["addresses"] # {} => \A d, k \in calls["addresses"] : d = k
      /\ calls["addresses"] = {} => calls'["addresses"] = {}
      /\ calls["addresses"] # {} => \A d, k \in calls'["addresses"] : d = k
  <2>1. "addresses" \in InstallRequests
    BY DEF InstallRequests
  <2>2. calls["addresses"] # {} => \A d, k \in calls["addresses"] : d = k
    BY <1>0 DEF StepsInv
  <2> QED
    BY <1>2, <1>6, <1>7, <2>1, <2>2
<1>9. StepsInv'
  BY <1>0, <1>3, <1>4, <1>8 DEF StepsInv, InstallRequests
<1>10. hist.clean => EnteredInv'
  BY <1>0, <1>3, <1>4, <1>8 DEF InstallInv, EnteredInv, InstallRequests
<1> QED
  BY <1>0, <1>3, <1>4, <1>6, <1>9, <1>10 DEF InstallInv, InstallShape

LEMMA InstallResume == InstallInv /\ Install!Resume => InstallInv'
<1> SUFFICES ASSUME InstallInv, Install!Resume PROVE InstallInv'
  OBVIOUS
<1>0. InstallShape /\ StepsInv
  BY DEF InstallInv
<1>1. PICK r \in InstallRequests : \E c \in calls[r] :
        /\ Install!resume(r, c) /\ hist' = Install!Learned(hist, c)
        /\ calls' = IF ui'.at # ui.at
                    THEN IF ui'.at = "main"
                         THEN Install!Sent(Install!NoCalls(Install!Requests), "main", <<>>)
                         ELSE Install!NoCalls(Install!Requests)
                    ELSE Install!Ended(calls, r, c)
  BY DEF Install!Resume, Install!Requests, InstallRequests
<1>2. PICK c \in calls[r] :
        /\ Install!resume(r, c) /\ hist' = Install!Learned(hist, c)
        /\ calls' = IF ui'.at # ui.at
                    THEN IF ui'.at = "main"
                         THEN Install!Sent(Install!NoCalls(Install!Requests), "main", <<>>)
                         ELSE Install!NoCalls(Install!Requests)
                    ELSE Install!Ended(calls, r, c)
  BY <1>1
<1>3. UNCHANGED srv
  BY DEF Install!Resume
<1>4. InstallHist(hist') /\ hist'.entered = hist.entered /\ (hist'.clean => hist.clean)
  BY <1>0, <1>2 DEF Install!Learned, InstallShape, InstallHist
<1>5. /\ CallsOK(calls', InstallRequests)
      /\ \A q \in InstallRequests \ {"main"} : calls'[q] \subseteq calls[q]
      /\ ui'.at = ui.at => calls' = Ended(calls, r, c)
  <2> DEFINE none == Install!NoCalls(Install!Requests)
  <2>1. CallsOK(none, InstallRequests) /\ \A q \in InstallRequests : none[q] = {}
    BY DEF Install!NoCalls, Install!Requests, InstallRequests, CallsOK
  <2>2. calls' \in {Install!Sent(none, "main", <<>>), none, Ended(calls, r, c)}
        /\ (ui'.at = ui.at => calls' = Ended(calls, r, c))
    BY <1>2, InstallCalls, Zenon
  <2> HIDE DEF none
  <2>3. CASE calls' = Install!Sent(none, "main", <<>>)
    <3>1. PICK arg : calls' = Install!Sent(none, "main", arg)
      BY <2>3
    <3>2. "main" \in InstallRequests
      BY DEF InstallRequests
    <3>3. /\ CallsOK(calls', InstallRequests)
          /\ \A q \in InstallRequests \ {"main"} : calls'[q] = none[q]
      BY <2>1, <3>1, <3>2, InstallSends
    <3> QED
      BY <2>1, <2>2, <3>3
  <2>4. CASE calls' = none
    BY <2>1, <2>2, <2>4
  <2>5. CASE calls' = Ended(calls, r, c)
    BY <1>0, <2>5, EndedRemoves DEF InstallShape
  <2> QED
    BY <2>2, <2>3, <2>4, <2>5
<1>6. ASSUME InstallState(st'), st'.step = st.step, st'.auth = st.auth,
             \/ /\ st'.processingDefault = st.processingDefault
                /\ st'.web = st.web /\ st'.dns = st.dns
             \/ calls'["addresses"] = {} /\ st.step = 1
             \/ /\ st'.processingDefault = st.processingDefault /\ r = "check"
                /\ st'.web = c.arg.web /\ st'.dns = c.arg.dns,
             InstallUi(ui'), ui'.form = ui.form, ui'.timer \in {ui.timer, <<>>}
      PROVE  InstallInv'
  <2>1. /\ calls'["addresses"] \subseteq calls["addresses"]
        /\ calls'["check"] \subseteq calls["check"]
        /\ calls'["configure"] \subseteq calls["configure"]
    BY <1>5 DEF InstallRequests
  <2>2. StepsInv'
    BY <1>0, <1>3, <1>6, <2>1 DEF StepsInv
  <2>3. hist.clean => AsEntered(st'.step, hist.entered, st')
    BY <1>2, <1>6 DEF InstallInv, EnteredInv, AsEntered
  <2>4. hist'.clean => EnteredInv'
    BY <1>3, <1>4, <1>6, <2>1, <2>3 DEF InstallInv, EnteredInv
  <2> QED
    BY <1>0, <1>3, <1>4, <1>5, <1>6, <2>2, <2>4 DEF InstallInv, InstallShape
<1>7. InstallState(st) /\ InstallUi(ui)
  BY <1>0 DEF InstallShape
<1>8. CASE r = "addresses" /\ Install!getDefaultAddresses(c)
  <2>1. UNCHANGED ui /\ InstallState(st') /\ st'.step = st.step /\ st'.auth = st.auth
    BY <1>7, <1>8 DEF Install!getDefaultAddresses, Install!defaultSettled, InstallState
  <2>2. calls'["addresses"] = calls["addresses"] \ {c}
    BY <1>0, <1>5, <1>8, <2>1, EndedRemoves DEF InstallShape
  <2>3. calls'["addresses"] = {} /\ st.step = 1
    BY <1>0, <1>2, <1>8, <2>2 DEF StepsInv
  <2> QED
    BY <1>6, <1>7, <2>1, <2>3
<1>9. CASE r = "check" /\ Install!checkConfigDone(c)
  <2>1. CASE Install!Answer(c) = "failed"
    <3>1. UNCHANGED ui /\ st' = [st EXCEPT !.processingCheck = FALSE]
      BY <1>9, <2>1, Zenon DEF Install!checkConfigDone
    <3>2. InstallSame(st, st')
      BY <1>7, <3>1 DEF InstallSame, InstallState
    <3> QED
      BY <1>6, <1>7, <3>1, <3>2 DEF InstallSame
  <2>2. CASE Install!Answer(c) # "failed"
    <3>1. PICK w, d, fix, x :
            st' = [st EXCEPT !.processingCheck = FALSE, !.web = c.arg.web, !.dns = c.arg.dns,
                             !.webStatus = w, !.dnsStatus = d, !.canAutofix = fix, !.static = x]
      BY <1>9, <2>2, Zenon DEF Install!checkConfigDone
    <3>2. UNCHANGED ui
      BY <1>9, Zenon DEF Install!checkConfigDone
    <3>3. /\ InstallState(st') /\ st'.step = st.step /\ st'.auth = st.auth
          /\ st'.web = c.arg.web /\ st'.dns = c.arg.dns
          /\ st'.processingDefault = st.processingDefault
      BY <1>7, <3>1 DEF InstallState
    <3> QED
      BY <1>6, <1>7, <1>9, <3>2, <3>3
  <2> QED
    BY <2>1, <2>2
<1>10. CASE r = "configure" /\ Install!setAllSettings(c)
  <2>1. InstallSame(st, st')
    BY <1>7, <1>10 DEF Install!setAllSettings, InstallSame, InstallState
  <2>2. InstallUi(ui') /\ ui'.form = ui.form /\ ui'.timer \in {ui.timer, <<>>}
    BY <1>7, <1>10 DEF Install!setAllSettings, InstallUi
  <2> QED
    BY <1>6, <2>1, <2>2 DEF InstallSame
<1>11. CASE r = "login" /\ Install!processLoginDone(c)
  <2>1. InstallSame(st, st')
    <3>1. PICK refused : st' = [st EXCEPT !.processingLogin = FALSE, !.error = refused]
      BY <1>11 DEF Install!processLoginDone
    <3> QED
      BY <1>7, <3>1 DEF InstallSame, InstallState
  <2>2. InstallUi(ui') /\ ui'.form = ui.form /\ ui'.timer = ui.timer
    <3>1. ui' = ui \/ ui' = [ui EXCEPT !.at = "main"]
      BY <1>11 DEF Install!processLoginDone
    <3> QED
      BY <1>7, <3>1 DEF InstallUi
  <2> QED
    BY <1>6, <2>1, <2>2 DEF InstallSame
<1>12. CASE r = "main" /\ Install!customFetch(c)
  <2>1. UNCHANGED st /\ (ui' = ui \/ ui' = [ui EXCEPT !.at = "login"])
    BY <1>12 DEF Install!customFetch
  <2>2. InstallUi(ui') /\ ui'.form = ui.form /\ ui'.timer = ui.timer
    BY <1>7, <2>1 DEF InstallUi
  <2> QED
    BY <1>6, <1>7, <2>1, <2>2
<1> QED
  BY <1>2, <1>8, <1>9, <1>10, <1>11, <1>12 DEF Install!resume

(***************************************************************************)
(* The form of a client.  Every step that changes the route, the clients   *)
(* or the form ends with the effects of the page, which make the form the  *)
(* route's, leave for the list, or have nothing to do.                     *)
(***************************************************************************)
ClientForm(f) == DOMAIN f = {"mode", "original", "name", "ids", "settings", "busy", "errors"}
ClientsState(s) == DOMAIN s = {"clients", "initialized", "busy", "form"} /\ ClientForm(s.form)
ClientsUi(u) == DOMAIN u = {"page", "route", "id", "visited", "edits"}

Routed(u) == u.page # "list" /\ u.route # ""
FormOf(s, u) ==
  Routed(u) /\ ~s.form.busy /\ s.clients # {} => Clients!holds(s.form, u.route)

ClientsInv == ClientsState(st) /\ ClientsUi(ui) /\ FormOf(st, ui)

LEMMA ClientsForm == ClientsInv => Clients!FormOfRoute
BY Zenon DEF ClientsInv, FormOf, Routed, Clients!FormOfRoute, Clients!holds

\* A fresh form and the form of a client have the fields of a form.
LEMMA ClientsForms ==
    /\ ClientForm(Clients!emptyForm)
    /\ \A c : LET f == Clients!buildFormPayload(c) IN
              ClientForm(f) /\ f.mode = "edit" /\ f.original = c.name
<1>1. PICK e : Clients!emptyForm = [mode |-> "add", original |-> e, name |-> e, ids |-> <<e>>,
                                    settings |-> "x", busy |-> FALSE, errors |-> {}]
  BY Zenon DEF Clients!emptyForm
<1>2. ClientForm(Clients!emptyForm)
  BY <1>1 DEF ClientForm
<1>3. ASSUME NEW c
      PROVE  LET f == Clients!buildFormPayload(c) IN
             ClientForm(f) /\ f.mode = "edit" /\ f.original = c.name
  BY <1>2 DEF Clients!buildFormPayload, ClientForm
<1> QED
  BY <1>2, <1>3

LEMMA ClientsList ==
    ASSUME ClientsUi(ui), NEW s, ClientsState(s), NEW cs, Clients!openClients(s, cs)
    PROVE  ClientsInv'
<1>1. PICK e : ui' = [ui EXCEPT !.page = "list", !.route = e, !.id = e]
  BY Zenon DEF Clients!openClients
<1>2. st' = [s EXCEPT !.busy = @ \cup {"clients"}]
  BY Zenon DEF Clients!openClients, Clients!getClients
<1>3. ClientsUi(ui') /\ ui'.page = "list"
  BY <1>1 DEF ClientsUi
<1>4. ClientsState(st')
  BY <1>2 DEF ClientsState
<1>5. ~Routed(ui')
  BY <1>3, Zenon DEF Routed
<1> QED
  BY <1>3, <1>4, <1>5 DEF ClientsInv, FormOf, Routed

\* The effects make the form that of the route, whatever form, clients and route
\* the step has left.
LEMMA ClientsSettle ==
    ASSUME ClientsUi(ui), NEW s, ClientsState(s), NEW u, ClientsUi(u), NEW cs,
           Clients!settle(s, u, cs)
    PROVE  ClientsInv'
<1> DEFINE due == /\ Routed(u) /\ s.clients # {} /\ ~s.form.busy
                  /\ ~Clients!holds(s.form, u.route)
           found == {c \in s.clients : c.name = u.route}
           fresh == [s EXCEPT !.form = Clients!emptyForm]
           made == [s EXCEPT !.form = Clients!buildFormPayload(CHOOSE c \in found : TRUE)]
<1>1. \/ Clients!openClients(fresh, cs)
      \/ due /\ found # {} /\ st' = made /\ ui' = u
      \/ ~due /\ ui' = u /\ (st' = s \/ \E i : st' = [s EXCEPT !.form.ids = i])
  BY Zenon DEF Clients!settle, Routed
<1>2. CASE Clients!openClients(fresh, cs)
  <2>1. ClientsState(fresh)
    BY ClientsForms DEF ClientsState
  <2> QED
    BY <1>2, <2>1, ClientsList
<1>3. CASE due /\ found # {} /\ st' = made /\ ui' = u
  <2> DEFINE c == CHOOSE k \in found : TRUE
             f == Clients!buildFormPayload(c)
  <2>1. c \in found
    BY <1>3
  <2>2. c.name = u.route
    BY <2>1
  <2>3. st' = [s EXCEPT !.form = f]
    BY <1>3
  <2> HIDE DEF c
  <2>4. ClientForm(f) /\ f.mode = "edit" /\ f.original = u.route
    BY <2>2, ClientsForms
  <2> HIDE DEF f
  <2>5. ClientsState(st') /\ st'.form = f
    BY <2>3, <2>4 DEF ClientsState
  <2> QED
    BY <1>3, <2>4, <2>5 DEF ClientsInv, FormOf, Clients!holds
<1>4. CASE ~due /\ ui' = u /\ (st' = s \/ \E i : st' = [s EXCEPT !.form.ids = i])
  <2>1. /\ ClientsState(st') /\ st'.clients = s.clients /\ st'.form.busy = s.form.busy
        /\ st'.form.mode = s.form.mode /\ st'.form.original = s.form.original
    BY <1>4 DEF ClientsState, ClientForm
  <2> QED
    BY <1>4, <2>1 DEF ClientsInv, FormOf, Clients!holds
<1> QED
  BY <1>1, <1>2, <1>3, <1>4

LEMMA ClientsOpen ==
    ASSUME ClientsUi(ui), NEW s, ClientsState(s), NEW p, NEW route, NEW id,
           Clients!openForm(s, p, route, id)
    PROVE  ClientsInv'
<1> DEFINE u == [ui EXCEPT !.page = p, !.route = route, !.id = id,
                           !.visited = @ \cup {<<p, route>>}]
           t == [s EXCEPT !.busy = @ \cup {"clients"}]
<1>1. PICK cs : Clients!settle(s, u, cs) \/ Clients!settle(t, u, cs)
  BY Zenon DEF Clients!openForm
<1>2. ClientsUi(u) /\ ClientsState(t)
  BY DEF ClientsUi, ClientsState
<1> HIDE DEF u, t
<1> QED
  BY <1>1, <1>2, ClientsSettle

\* Fields that the user edits are not what makes a form the route's.
LEMMA ClientsEdited ==
    ASSUME ClientsInv, NEW field \in {"name", "settings", "ids"}, NEW value, NEW error,
           Clients!edited(field, value, error)
    PROVE  ClientsInv'
<1>0. PICK e : st' = [st EXCEPT !.form = [st.form EXCEPT ![field] = value, !.errors = e]]
  BY Zenon DEF Clients!edited
<1> DEFINE f == [st.form EXCEPT ![field] = value, !.errors = e]
<1>1. st' = [st EXCEPT !.form = f] /\ ui' = [ui EXCEPT !.edits = @ + 1]
  BY <1>0, Zenon DEF Clients!edited
<1>2. /\ ClientForm(f) /\ f.mode = st.form.mode /\ f.original = st.form.original
      /\ f.busy = st.form.busy
  BY DEF ClientsInv, ClientsState, ClientForm
<1> HIDE DEF f
<1>3. ClientsState(st') /\ st'.form = f /\ st'.clients = st.clients
  BY <1>1, <1>2 DEF ClientsInv, ClientsState
<1>4. ClientsUi(ui') /\ ui'.page = ui.page /\ ui'.route = ui.route
  BY <1>1 DEF ClientsInv, ClientsUi
<1>5. Routed(ui') = Routed(ui)
  BY <1>4, Zenon DEF Routed
<1> QED
  BY <1>2, <1>3, <1>4, <1>5 DEF ClientsInv, FormOf, Clients!holds

\* Steps that leave the route, the clients and the identity of the form.
LEMMA ClientsKept ==
    ASSUME ClientsInv, UNCHANGED ui, ClientsState(st'), st'.clients = st.clients,
           st'.form.mode = st.form.mode, st'.form.original = st.form.original,
           st'.form.busy = st.form.busy \/ st'.form.busy
    PROVE  ClientsInv'
BY DEF ClientsInv, FormOf, Clients!holds

LEMMA ClientsInit == Clients!Init => ClientsInv
<1> SUFFICES ASSUME Clients!Init PROVE ClientsInv
  OBVIOUS
<1>1. st = [clients |-> {}, initialized |-> FALSE, busy |-> {"clients"},
            form |-> Clients!emptyForm]
  <2>1. st = [Clients!initialState EXCEPT !.busy = {"clients"}]
    BY Zenon DEF Clients!Init
  <2>2. Clients!initialState = [clients |-> {}, initialized |-> FALSE, busy |-> {},
                                form |-> Clients!emptyForm]
    BY Zenon DEF Clients!initialState
  <2> QED
    BY <2>1, <2>2
<1>2. ClientsState(st) /\ st.clients = {}
  BY <1>1, ClientsForms DEF ClientsState
<1>3. PICK p, route, id, visited :
        ui = [page |-> p, route |-> route, id |-> id, visited |-> visited, edits |-> 0]
  <2> DEFINE shape(u) == \E p, route, id, visited :
               u = [page |-> p, route |-> route, id |-> id, visited |-> visited, edits |-> 0]
  <2>1. \A p, route, id, visited :
          shape([page |-> p, route |-> route, id |-> id, visited |-> visited, edits |-> 0])
    BY Zenon
  <2> HIDE DEF shape
  <2>2. PICK p, route :
          ui = [page |-> p, route |-> IF p = "list" THEN "" ELSE route, id |-> "",
                visited |-> {<<p, IF p = "list" THEN "" ELSE route>>}, edits |-> 0]
    BY Zenon DEF Clients!Init
  <2>3. shape(ui)
    BY <2>1, <2>2, Zenon
  <2> QED
    BY <2>3, Zenon DEF shape
<1>4. ClientsUi(ui)
  BY <1>3 DEF ClientsUi
<1> QED
  BY <1>2, <1>4 DEF ClientsInv, FormOf

LEMMA ClientsUser == ClientsInv /\ Clients!UserStep => ClientsInv'
<1> SUFFICES ASSUME ClientsInv, Clients!UserStep PROVE ClientsInv'
  OBVIOUS
<1>0. ClientsState(st) /\ ClientsUi(ui)
  BY DEF ClientsInv
<1>1. ClientsState([st EXCEPT !.form = Clients!emptyForm])
      /\ \A c : ClientsState([st EXCEPT !.form = Clients!buildFormPayload(c)])
  BY <1>0, ClientsForms DEF ClientsState
<1>2. CASE Clients!handleAddClient
  <2>1. PICK e : Clients!openForm([st EXCEPT !.form = Clients!emptyForm], "form", e, e)
    BY <1>2, Zenon DEF Clients!handleAddClient
  <2> QED
    BY <1>0, <1>1, <2>1, ClientsOpen
<1>3. CASE Clients!handleEditClient
  <2>1. PICK c, e :
          Clients!openForm([st EXCEPT !.form = Clients!buildFormPayload(c)], "form", c.name, e)
    BY <1>3, Zenon DEF Clients!handleEditClient
  <2> QED
    BY <1>0, <1>1, <2>1, ClientsOpen
<1>4. CASE Clients!handleAddPersistentClient
  <2>1. PICK e, i : Clients!openForm(st, "form", e, i)
    BY <1>4, Zenon DEF Clients!handleAddPersistentClient
  <2> QED
    BY <1>0, <2>1, ClientsOpen
<1>5. CASE Clients!openSub
  <2>1. PICK e : Clients!openForm(st, "sub", ui.route, e)
    BY <1>5, Zenon DEF Clients!openSub
  <2> QED
    BY <1>0, <2>1, ClientsOpen
<1>6. CASE Clients!goHistory
  <2>1. PICK p, route, e : Clients!openClients(st, calls) \/ Clients!openForm(st, p, route, e)
    BY <1>6, Zenon DEF Clients!goHistory
  <2> QED
    BY <1>0, <2>1, ClientsList, ClientsOpen
<1>7. CASE Clients!handleDeleteConfirm
  <2>1. st' = [st EXCEPT !.busy = @ \cup {"delete"}] /\ UNCHANGED ui
    BY <1>7 DEF Clients!handleDeleteConfirm
  <2>2. ClientsState(st') /\ st'.clients = st.clients /\ st'.form = st.form
    BY <1>0, <2>1 DEF ClientsState
  <2> QED
    BY <2>1, <2>2, ClientsKept
<1>8. CASE Clients!handleNameChange \/ Clients!handleSettings \/ Clients!handleIds
  <2>1. PICK field, value, error :
          field \in {"name", "settings", "ids"} /\ Clients!edited(field, value, error)
    <3>1. CASE Clients!handleNameChange
      BY <3>1 DEF Clients!handleNameChange
    <3>2. CASE Clients!handleSettings
      BY <3>2 DEF Clients!handleSettings
    <3>3. CASE Clients!handleIds
      <4>1. \E value : Clients!edited("ids", value, {"ids"})
        BY <3>3, Zenon DEF Clients!handleIds
      <4> QED
        BY <4>1
    <3> QED
      BY <1>8, <3>1, <3>2, <3>3
  <2> QED
    BY <2>1, ClientsEdited
<1>9. CASE Clients!handleSave
  <2>1. /\ UNCHANGED ui
        /\ \/ \E e : st' = [st EXCEPT !.form.errors = e]
           \/ st' = [st EXCEPT !.form = [@ EXCEPT !.busy = TRUE, !.errors = {}]]
    BY <1>9, Zenon DEF Clients!handleSave
  <2>2. /\ ClientsState(st') /\ st'.clients = st.clients /\ st'.form.mode = st.form.mode
        /\ st'.form.original = st.form.original
        /\ st'.form.busy = st.form.busy \/ st'.form.busy
    BY <1>0, <2>1 DEF ClientsState, ClientForm
  <2> QED
    BY <2>1, <2>2, ClientsKept
<1>10. CASE Clients!handleCancel
  <2>1. Clients!openClients([st EXCEPT !.form = Clients!emptyForm], calls)
    BY <1>10 DEF Clients!handleCancel
  <2> QED
    BY <1>0, <1>1, <2>1, ClientsList
<1> QED
  BY <1>2, <1>3, <1>4, <1>5, <1>6, <1>7, <1>8, <1>9, <1>10 DEF Clients!UserStep

LEMMA ClientsResume == ClientsInv /\ Clients!Resume => ClientsInv'
<1> SUFFICES ASSUME ClientsInv, Clients!Resume PROVE ClientsInv'
  OBVIOUS
<1>0. ClientsState(st) /\ ClientsUi(ui)
  BY DEF ClientsInv
<1>1. PICK r, c : Clients!resume(r, c)
  BY DEF Clients!Resume
<1>2. CASE Clients!clientsDone(c)
  <2> DEFINE ok == Clients!Answer(c) = "ok"
             s == Clients!clientsSettled(IF ok THEN [st EXCEPT !.clients = Clients!Data(c)]
                                         ELSE st, ok)
             cs == Clients!Ended(calls, "clients", c)
             t == [s EXCEPT !.form.busy = FALSE]
  <2>1. Clients!openClients(t, cs) \/ Clients!settle(s, ui, cs)
    BY <1>2 DEF Clients!clientsDone
  <2>2. ClientsState(s)
    BY <1>0 DEF Clients!clientsSettled, ClientsState
  <2> HIDE DEF s, cs
  <2>3. ClientsState(t)
    BY <2>2 DEF ClientsState, ClientForm
  <2> HIDE DEF t
  <2> QED
    BY <1>0, <2>1, <2>2, <2>3, ClientsList, ClientsSettle
<1>3. CASE Clients!saveDone(c)
  <2> DEFINE s == [st EXCEPT !.form = Clients!emptyForm, !.busy = @ \cup {"clients"}]
             t == [st EXCEPT !.form.busy = FALSE]
  <2>1. PICK cs : Clients!settle(s, ui, cs) \/ Clients!settle(t, ui, cs)
    BY <1>3, Zenon DEF Clients!saveDone
  <2>2. ClientsState(s) /\ ClientsState(t)
    BY <1>0, ClientsForms DEF ClientsState, ClientForm
  <2> HIDE DEF s, t
  <2> QED
    BY <1>0, <2>1, <2>2, ClientsSettle
<1>4. CASE Clients!deleteDone(c)
  <2> DEFINE s == [st EXCEPT !.busy = @ \ {"delete"}]
  <2>1. UNCHANGED ui /\ (st' = s \/ st' = [s EXCEPT !.busy = @ \cup {"clients"}])
    BY <1>4 DEF Clients!deleteDone, Clients!getClients
  <2>2. ClientsState(st') /\ st'.clients = st.clients /\ st'.form = st.form
    BY <1>0, <2>1 DEF ClientsState
  <2> QED
    BY <2>1, <2>2, ClientsKept
<1> QED
  BY <1>1, <1>2, <1>3, <1>4 DEF Clients!resume

LEMMA ClientsServer == ClientsInv /\ Clients!Server => ClientsInv'
BY DEF Clients!Server, ClientsInv

(***************************************************************************)
(* The theorem.                                                            *)
(***************************************************************************)
FormsInv ==
  /\ page = "clients" => ClientsInv
  /\ page = "install" => InstallInv
  /\ page = "stats" => StatsInv

LEMMA FormsStep ==
    ASSUME Next
    PROVE  /\ page' = page
           /\ page = "clients" => Clients!UserStep \/ Clients!Server \/ Clients!Resume
           /\ page = "install" => \/ Install!UserStep \/ Install!Server \/ Install!Resume
                                  \/ Install!debouncedCheckConfig
           /\ page = "stats" => Stats!UserStep \/ Stats!Server \/ Stats!Resume
BY DEF Next, UserStep, Server, Resume, Timer, At

\* The form edits the client of the route, the server is installed with what was
\* entered, and statistics are asked for the period that is chosen and kept:
\* whatever the order of the answers and of the user's steps.
THEOREM RightFormCorrect == Spec => []RightForm
<1>1. Init => FormsInv
  BY ClientsInit, InstallInit, StatsInit DEF Init, FormsInv
<1>2. FormsInv /\ [Next]_webVars => FormsInv'
  <2> SUFFICES ASSUME FormsInv, [Next]_webVars PROVE FormsInv'
    OBVIOUS
  <2>1. CASE Next
    <3>1. page' = page
      BY <2>1, FormsStep
    <3>2. page = "clients" => ClientsInv'
      BY <2>1, FormsStep, ClientsUser, ClientsServer, ClientsResume DEF FormsInv
    <3>3. page = "install" => InstallInv'
      BY <2>1, FormsStep, InstallUser, InstallServer, InstallResume, InstallTimer DEF FormsInv
    <3>4. page = "stats" => StatsInv'
      BY <2>1, FormsStep, StatsUser, StatsServer, StatsResume DEF FormsInv
    <3> QED
      BY <3>1, <3>2, <3>3, <3>4 DEF FormsInv
  <2>2. CASE UNCHANGED webVars
    <3>1. UNCHANGED <<st, ui, calls, srv, acts, hist, page>>
      BY <2>2 DEF webVars
    <3>2. ClientsInv => ClientsInv'
      BY <3>1 DEF ClientsInv
    <3>3. InstallInv => InstallInv'
      BY <3>1 DEF InstallInv, InstallShape, StepsInv, EnteredInv
    <3>4. StatsInv => StatsInv'
      BY <3>1 DEF StatsInv, RetentionKnown, RetentionKept, Stats!RealRetention
    <3> QED
      BY <3>1, <3>2, <3>3, <3>4 DEF FormsInv
  <2> QED
    BY <2>1, <2>2
<1>3. FormsInv => RightForm
  <2>1. InstallInv => Install!ConfiguredAsEntered
    BY DEF InstallInv, StepsInv, EnteredInv, AsEntered, Install!ConfiguredAsEntered
  <2>2. StatsInv => Stats!RealRetention
    BY DEF StatsInv
  <2> QED
    BY <2>1, <2>2, ClientsForm DEF FormsInv, RightForm
<1> QED
  BY <1>1, <1>2, <1>3, PTL DEF Spec

=============================================================================
