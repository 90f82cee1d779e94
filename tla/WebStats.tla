------------------------------ MODULE WebStats ------------------------------
(***************************************************************************)
(* Statistics: stores/stats.ts with the dashboard and the detail pages.    *)
(* Periods and the server's retention are numbers with HOUR < DAY < Week.  *)
(* The counts themselves are left out: st.shown is the period they are of. *)
(***************************************************************************)
EXTENDS WebCalls

CONSTANTS Retention, \* the retentions the server may be configured with
          Stored     \* the periods the user may have chosen in earlier visits

HOUR == 1
DAY == 2
Period == 1 .. 4
Requests == {"config", "stats", "search", "set"}

initialState ==
  [busy |-> {"stats"}, configLoaded |-> FALSE, configInitialized |-> FALSE,
   statsInitialized |-> FALSE, interval |-> DAY, enabled |-> TRUE, shown |-> 0]

\* getClampedMaxInterval and clampStatsPeriod
getClampedMaxInterval(max) == IF max >= HOUR THEN max ELSE DAY
clampStatsPeriod(period, max) == Min({period, getClampedMaxInterval(max)})

-----------------------------------------------------------------------------
\* getStats clamps by the retention the store has.
\* Mutant: it asks for the period as it is.
Unclamped(s, cs, period) ==
  /\ st' = [s EXCEPT !.busy = @ \cup {"stats"}]
  /\ calls' = Sent(cs, "stats", period)
getStats(s, cs, period) ==
  /\ st' = [s EXCEPT !.busy = @ \cup {"stats"}]
  /\ calls' = Sent(cs, "stats", clampStatsPeriod(period, s.interval))

getStatsConfig(s, cs, then) ==
  /\ st' = [s EXCEPT !.busy = @ \cup {"config"}]
  /\ calls' = Sent(cs, "config", then)

\* One of the pages is mounted, the store as a page before it left it or fresh.
\* The dashboard fetches the configuration, a detail page unless it is known.
Init ==
  /\ srv \in [interval : Retention, enabled : BOOLEAN]
  /\ \E page \in {"dashboard", "detail"}, period \in Stored, known \in BOOLEAN :
       LET s == IF known THEN [initialState EXCEPT !.busy = {}, !.configLoaded = TRUE,
                                 !.configInitialized = TRUE, !.statsInitialized = TRUE,
                                 !.interval = srv.interval, !.enabled = srv.enabled,
                                 !.shown = clampStatsPeriod(period, srv.interval)]
                ELSE initialState
           config == Sent(NoCalls(Requests), "config", <<page>>)
           stats(cs) == Sent(cs, "stats", clampStatsPeriod(period, s.interval))
       IN  /\ ui = [page |-> page, period |-> period]
           /\ st = [s EXCEPT !.busy = @ \cup (IF known THEN {"stats"} ELSE {})
                                         \cup (IF known /\ page = "detail" THEN {} ELSE {"config"})]
           /\ calls = IF ~known THEN config
                      ELSE IF page = "detail" THEN stats(NoCalls(Requests)) ELSE stats(config)
  /\ acts = 0
  /\ hist = [clean |-> TRUE]

isLoading == st.busy \cap {"stats", "config"} # {}

-----------------------------------------------------------------------------
\* The header of the dashboard: an effect follows the period, once the first
\* configuration has settled.
handlePeriodChange ==
  /\ ui.page = "dashboard" /\ UserActs
  /\ \E period \in 1 .. getClampedMaxInterval(st.interval) :
       /\ ui' = [ui EXCEPT !.period = period]
       /\ IF st.configInitialized /\ period # ui.period
          THEN getStats(st, calls, period) ELSE UNCHANGED <<st, calls>>

handleRefreshStats ==
  /\ ui.page = "dashboard" /\ ~isLoading /\ UserActs
  /\ st' = [st EXCEPT !.busy = @ \cup {"stats", "config"}]
  /\ calls' = Sent(Sent(calls, "config", <<"refresh">>),
                   "stats", clampStatsPeriod(ui.period, st.interval))
  /\ UNCHANGED ui

\* useStatsRefresh of the detail pages.
refreshStats ==
  /\ ui.page = "detail" /\ st.statsInitialized /\ UserActs
  /\ IF st.configLoaded THEN getStats(st, calls, ui.period)
     ELSE getStatsConfig(st, calls, <<"detail">>)
  /\ UNCHANGED ui

\* EmptyState while statistics are off; the button goes on to getStats.
enableStatistics ==
  /\ ui.page = "dashboard" /\ st.statsInitialized /\ ~st.enabled /\ "set" \notin st.busy
  /\ UserActs
  /\ st' = [st EXCEPT !.busy = @ \cup {"set"}]
  /\ calls' = Sent(calls, "set", [interval |-> st.interval, enabled |-> TRUE])
  /\ UNCHANGED ui

\* A link leads from the dashboard to a detail page.
openDetail ==
  /\ ui.page = "dashboard" /\ st.statsInitialized /\ UserActs
  /\ ui' = [ui EXCEPT !.page = "detail"]
  /\ IF st.configLoaded THEN getStats(st, calls, ui.period)
     ELSE getStatsConfig(st, calls, <<"detail">>)

UserStep ==
  handlePeriodChange \/ handleRefreshStats \/ refreshStats \/ enableStatistics \/ openDetail

-----------------------------------------------------------------------------
\* The server (external).
serve(r, c) ==
  \/ r = "config" /\ Served(r, c, srv, srv)
  \/ r \in {"stats", "search"} /\ Served(r, c, srv, {})
  \/ r = "set" /\ Served(r, c, c.arg, {})

Server ==
  /\ \E r \in Requests : \E c \in calls[r] : Answer(c) = "out" /\ serve(r, c)
  /\ UNCHANGED <<st, ui, acts, hist>>

-----------------------------------------------------------------------------
\* Mutant: a failed first configuration leaves the page waiting.
SettledIfOk(s, ok) == [s EXCEPT !.busy = @ \ {"config"}, !.configInitialized = @ \/ ok]
configSettled(s, ok) == [s EXCEPT !.busy = @ \ {"config"}, !.configInitialized = TRUE]

\* The first configuration lets the dashboard's effect run; a detail page asks
\* for its statistics in any case.
configDone(c) ==
  LET ok == Answer(c) = "ok"
      s == configSettled(IF ok THEN [st EXCEPT !.interval = Data(c).interval,
                                               !.enabled = Data(c).enabled,
                                               !.configLoaded = TRUE] ELSE st, ok)
      cs == Ended(calls, "config", c)
      first == ui.page = "dashboard" /\ ~st.configInitialized /\ s.configInitialized
  IN  IF c.arg[1] = "detail" \/ first THEN getStats(s, cs, ui.period)
      ELSE st' = s /\ calls' = cs

\* getStats: the clients of the answer are looked up, then all is shown.
statsDone(r, c) ==
  LET s == [st EXCEPT !.busy = @ \ {"stats"}, !.statsInitialized = TRUE]
      cs == Ended(calls, r, c)
  IN  \/ Answer(c) = "failed" /\ st' = s /\ calls' = cs
      \/ Answer(c) = "ok" /\ r = "stats" /\ calls' = Sent(cs, "search", c.arg) /\ UNCHANGED st
      \/ Answer(c) = "ok" /\ r = "search" /\ st' = [s EXCEPT !.shown = c.arg] /\ calls' = cs

setDone(c) ==
  LET s == [st EXCEPT !.busy = @ \ {"set"}]
      cs == Ended(calls, "set", c)
  IN  IF Answer(c) = "ok"
      THEN getStats([s EXCEPT !.interval = c.arg.interval, !.enabled = c.arg.enabled], cs, ui.period)
      ELSE st' = s /\ calls' = cs

Resume ==
  /\ \E r \in Requests : \E c \in calls[r] :
       /\ Answer(c) # "out"
       /\ \/ r = "config" /\ configDone(c)
          \/ r \in {"stats", "search"} /\ statsDone(r, c)
          \/ r = "set" /\ setDone(c)
       /\ hist' = Learned(hist, c)
  /\ UNCHANGED <<ui, srv, acts>>

Next == UserStep \/ Server \/ Resume

Spec == Init /\ [][Next]_vars /\ WF_vars(Server) /\ WF_vars(Resume)

-----------------------------------------------------------------------------
\* The stores, the forms and the requests of the page are well formed.
TypeOK ==
  /\ DOMAIN st = DOMAIN initialState
  /\ st.busy \subseteq Requests /\ st.interval \in Period /\ st.shown \in Period \cup {0}
  /\ ui.page \in {"dashboard", "detail"} /\ ui.period \in Period
  /\ DOMAIN calls = Requests

\* A processing flag is set only while a handler waits that will clear it.
\* processingStats is set from the start: the configuration comes first.
FlagsBacked ==
  /\ \A r \in st.busy \ {"stats"} : Waiting(r)
  /\ "stats" \in st.busy => Waiting("stats") \/ Waiting("search") \/ ~st.statsInitialized

\* When nothing is out, the page shows the period that was chosen, as far as the
\* server keeps it: if the user did one thing at a time and nothing failed.
ShowsServer ==
  Idle /\ hist.clean =>
    /\ st.interval = srv.interval /\ st.enabled = srv.enabled
    /\ st.shown = clampStatsPeriod(ui.period, srv.interval)

\* Statistics are never asked for a period clamped by the default retention
\* instead of the server's, unless the configuration could not be fetched.
RealRetention ==
  hist.clean => \A c \in calls["stats"] : c.arg = clampStatsPeriod(ui.period, srv.interval)

\* The loader goes, also when requests fail.
LoaderEnds == <>st.statsInitialized

=============================================================================
