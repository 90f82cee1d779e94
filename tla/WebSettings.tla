---------------------------- MODULE WebSettings ----------------------------
(***************************************************************************)
(* The general settings: components/Settings with stores/settings.ts and   *)
(* the settings of stores/queryLogs.ts, stores/stats.ts and                *)
(* stores/filtering.ts.  The query log and the statistics have the same    *)
(* settings: switches, the retention in hours, the ignored domains.  A     *)
(* checkbox flips itself when it is clicked; it is set again only when     *)
(* the value of its store changes.                                         *)
(***************************************************************************)
EXTENDS WebCalls

CONSTANTS Kind,        \* "logs" and "stats"
          Standard,    \* the retentions that are offered, in hours
          Custom,      \* the hours that the user types for another retention
          MaxHours     \* RETENTION_RANGE: 1 .. MaxHours

Requests == {"settings", "getConfig", "status", "toggle", "search", "setConfig", "filters", "clear"}
Protection == {"safebrowsing", "safesearch"}
Flag == {"enabled", "ignored_enabled"}
Checkbox == ({"settings"} \X Protection) \cup (Kind \X Flag)
RETENTION_CUSTOM == 0
DAY == CHOOSE h \in Standard : \A g \in Standard : h <= g

\* providers "absent": safesearch is an empty record; custom 0: null.
noConfig == [flags |-> {"enabled"}, interval |-> DAY, custom |-> 0, ignored |-> 0]
initialState ==
  [busy |-> {<<"settings", "">>}, ready |-> {}, on |-> {}, providers |-> "absent",
   conf |-> [k \in Kind |-> noConfig], filtering |-> [enabled |-> TRUE, interval |-> 1]]

buildConfig(k, s) == [flags |-> s.conf[k].flags, interval |-> s.conf[k].interval,
                      ignored |-> s.conf[k].ignored]

\* The checkboxes that the stores turn on, and how they stand once the stores are s.
on(s) == ({"settings"} \X s.on) \cup UNION {{k} \X (s.conf[k].flags \cap Flag) : k \in Kind}
boxes(s) == {b \in Checkbox : IF (b \in on(s)) # (b \in on(st)) THEN b \in on(s) ELSE b \in ui.boxes}

isLoading(s) == ~({"settings"} \cup Kind \subseteq s.ready)
Toggled(set, x) == IF x \in set THEN set \ {x} ELSE set \cup {x}

\* resolveInterval, getDefaultInterval
resolveInterval(interval, custom) == IF custom # 0 THEN custom ELSE interval
getDefaultInterval(custom, interval) == IF custom > 0 THEN RETENTION_CUSTOM ELSE interval

-----------------------------------------------------------------------------
mounted(cs) ==
  LET one == Sent(Sent(cs, "settings", <<>>), "status", <<>>)
  IN  [one EXCEPT !["getConfig"] = @ \cup {[arg |-> k, n |-> Cardinality({c \in @ : c.arg = k}) + 1,
                                            answer |-> <<>>] : k \in Kind}]
mounting == {<<"settings", "">>, <<"status", "">>} \cup ({"getConfig"} \X Kind)

Init ==
  /\ \E hours \in Standard \cup Custom :
       srv = [on |-> {"safesearch"}, providers |-> "on",
              conf |-> [k \in Kind |-> [flags |-> {"enabled"}, interval |-> hours, ignored |-> 1]],
              filtering |-> [enabled |-> FALSE, interval |-> 2]]
  /\ st = [initialState EXCEPT !.busy = mounting]
  /\ ui = [boxes |-> {}, filtering |-> "unset", modal |-> <<>>]
  /\ calls = mounted(NoCalls(Requests))
  /\ acts = 0
  /\ hist = [clean |-> TRUE, floor |-> [k \in Kind |-> srv.conf[k].interval],
             hours |-> srv.filtering.interval]

Shown == ~isLoading(st) /\ ui.modal = <<>>

\* The page is left and opened again: the stores are kept.  Bounded: not while an
\* earlier opening is still loading.
reopen ==
  /\ Shown /\ UserActs
  /\ ~Waiting("settings") /\ ~Waiting("getConfig") /\ ~Waiting("status")
  /\ st' = [st EXCEPT !.busy = @ \cup mounting] /\ calls' = mounted(calls)
  /\ ui' = [ui EXCEPT !.boxes = on(st), !.filtering = IF st.filtering.enabled THEN "on" ELSE "off"]

\* safebrowsing and parental: the checkbox says what is wanted; no click is held back.
toggleSetting ==
  /\ Shown /\ UserActs /\ UNCHANGED st
  /\ \E p \in Protection :
       LET box == <<"settings", p>>
       IN  /\ ui' = [ui EXCEPT !.boxes = Toggled(@, box)]
           /\ calls' = IF p = "safesearch"
                       THEN Sent(calls, "search", [on |-> box \notin ui.boxes, modal |-> FALSE,
                                                   providers |-> st.providers])
                       ELSE Sent(calls, "toggle", [key |-> p, on |-> box \notin ui.boxes])

handleSafeSearchSave ==
  /\ Shown /\ <<"search", "">> \notin st.busy /\ UserActs /\ UNCHANGED ui
  /\ st' = [st EXCEPT !.busy = @ \cup {<<"search", "">>}]
  /\ \E p \in {"off", "on"} :
       calls' = Sent(calls, "search", [on |-> "safesearch" \in st.on, modal |-> TRUE, providers |-> p])

setConfig(k, values) ==
  /\ st' = [st EXCEPT !.busy = @ \cup {<<"setConfig", k>>}]
  /\ calls' = Sent(calls, "setConfig", [kind |-> k, values |-> values])

\* A switch sends all the settings of its store; most need the first one on.
toggleConfig ==
  /\ Shown /\ UserActs
  /\ \E k \in Kind, f \in Flag :
       /\ f # "enabled" => "enabled" \in st.conf[k].flags
       /\ ui' = [ui EXCEPT !.boxes = Toggled(@, <<k, f>>)]
       /\ setConfig(k, [buildConfig(k, st) EXCEPT
                          !.flags = IF <<k, f>> \in ui.boxes THEN @ \ {f} ELSE @ \cup {f}])

handleIgnoredSave ==
  /\ Shown /\ UserActs /\ UNCHANGED ui
  /\ \E k \in Kind, v \in {0, 1} :
       /\ "enabled" \in st.conf[k].flags /\ <<"setConfig", k>> \notin st.busy
       /\ setConfig(k, [buildConfig(k, st) EXCEPT !.ignored = v])

\* The dialog of a retention and its form.
openRetention ==
  /\ Shown /\ Look
  /\ \E k \in Kind :
       /\ "enabled" \in st.conf[k].flags
       /\ ui' = [ui EXCEPT !.modal =
                   [kind |-> k, custom |-> st.conf[k].custom, confirm |-> 0,
                    interval |-> getDefaultInterval(st.conf[k].custom, st.conf[k].interval)]]
Editing == ui.modal # <<>> /\ ui.modal.confirm = 0 /\ <<"setConfig", ui.modal.kind>> \notin st.busy
handleIntervalChange ==
  /\ Editing /\ Look
  /\ \/ \E h \in Standard : ui' = [ui EXCEPT !.modal = [@ EXCEPT !.interval = h, !.custom = 0]]
     \/ \E h \in Custom \cup {MaxHours + 1} :
          ui' = [ui EXCEPT !.modal = [@ EXCEPT !.interval = RETENTION_CUSTOM, !.custom = h]]

validCustom(hours) == hours \in 1 .. MaxHours

\* Mutant: a shorter retention is saved at once.
NeverAsked(new, old) == FALSE
decreases(new, old) == new < old

handleSave ==
  LET m == ui.modal
      new == resolveInterval(m.interval, m.custom)
  IN  /\ Editing
      /\ m.interval = RETENTION_CUSTOM => validCustom(m.custom)
      /\ IF decreases(new, st.conf[m.kind].interval)
         THEN Look /\ ui' = [ui EXCEPT !.modal.confirm = new]
         ELSE /\ Act /\ hist' = [Noted(hist) EXCEPT !.floor[m.kind] = IF @ > new THEN @ ELSE new]
              /\ setConfig(m.kind, [buildConfig(m.kind, st) EXCEPT !.interval = new])
              /\ ui' = [ui EXCEPT !.modal = <<>>]
handleConfirmDecrease ==
  LET m == ui.modal
  IN  /\ m # <<>> /\ m.confirm # 0
      /\ Act /\ hist' = [Noted(hist) EXCEPT !.floor[m.kind] = m.confirm]
      /\ setConfig(m.kind, [buildConfig(m.kind, st) EXCEPT !.interval = m.confirm])
      /\ ui' = [ui EXCEPT !.modal = <<>>]
closeRetention ==
  /\ ui.modal # <<>> /\ Look
  /\ ui' = [ui EXCEPT !.modal = IF @.confirm # 0 THEN [@ EXCEPT !.confirm = 0] ELSE <<>>]

\* handleClearLogs, handleClearStats: the confirmation stays until the answer.
handleClear ==
  /\ Shown /\ UserActs /\ UNCHANGED ui
  /\ \E k \in Kind : /\ calls' = Sent(calls, "clear", k)
                     /\ st' = [st EXCEPT !.busy = @ \cup {<<"clear", k>>}]

\* FiltersConfig: the switch keeps its own state and sends the interval along.
setFiltersConfig ==
  /\ Shown /\ UserActs
  /\ LET want == ui.filtering = "off"
     IN  /\ ui' = [ui EXCEPT !.filtering = IF want THEN "on" ELSE "off"]
         /\ st' = [st EXCEPT !.busy = @ \cup {<<"filters", "">>}]
         /\ calls' = Sent(calls, "filters", [enabled |-> want, interval |-> st.filtering.interval])

UserStep ==
  \/ reopen \/ toggleSetting \/ handleSafeSearchSave \/ toggleConfig \/ handleIgnoredSave
  \/ openRetention \/ handleIntervalChange \/ handleSave \/ handleConfirmDecrease
  \/ closeRetention \/ handleClear \/ setFiltersConfig

-----------------------------------------------------------------------------
\* The server (external): what a request leaves out is off.
serve(r, c) ==
  \/ r = "settings" /\ Served(r, c, srv, [on |-> srv.on, providers |-> srv.providers])
  \/ r = "getConfig" /\ Served(r, c, srv, srv.conf[c.arg])
  \/ r = "status" /\ Served(r, c, srv, srv.filtering)
  \/ /\ r = "toggle"
     /\ Served(r, c, [srv EXCEPT !.on = IF c.arg.on THEN @ \cup {c.arg.key} ELSE @ \ {c.arg.key}], {})
  \/ /\ r = "search"
     /\ Served(r, c, [srv EXCEPT !.on = IF c.arg.on THEN @ \cup {"safesearch"} ELSE @ \ {"safesearch"},
                        !.providers = IF c.arg.providers = "absent" THEN "off" ELSE c.arg.providers], {})
  \/ r = "setConfig" /\ Served(r, c, [srv EXCEPT !.conf[c.arg.kind] = c.arg.values], {})
  \/ r = "filters" /\ Served(r, c, [srv EXCEPT !.filtering = c.arg], {})
  \/ r = "clear" /\ Served(r, c, srv, {})

Server ==
  /\ \E r \in Requests : \E c \in calls[r] : Answer(c) = "out" /\ serve(r, c)
  /\ UNCHANGED <<st, ui, acts, hist>>

-----------------------------------------------------------------------------
Freed(r, k) == [st EXCEPT !.busy = @ \ {<<r, k>>}]

\* initSettings: three requests together, settled whether or not they fail.
\* Mutant: the page waits for an answer.
SettledIfOk(s, what, ok) == [s EXCEPT !.ready = @ \cup (IF ok THEN {what} ELSE {})]
settled(s, what, ok) == [s EXCEPT !.ready = @ \cup {what}]

initSettings(c) ==
  LET ok == Answer(c) = "ok"
      s == IF ok THEN [Freed("settings", "") EXCEPT !.on = Data(c).on, !.providers = Data(c).providers]
           ELSE Freed("settings", "")
  IN  st' = settled(s, "settings", ok)

\* getLogsConfig, getStatsConfig
getConfig(c) ==
  LET ok == Answer(c) = "ok"
      d == Data(c)
      s == Freed("getConfig", c.arg)
  IN  st' = settled(IF ~ok THEN s
                    ELSE [s EXCEPT !.conf[c.arg] =
                            [flags |-> d.flags, interval |-> d.interval, ignored |-> d.ignored,
                             custom |-> IF d.interval \in Standard THEN 0 ELSE d.interval]],
                    c.arg, ok)

statusDone(c) ==
  st' = [Freed("status", "") EXCEPT !.filtering = IF Answer(c) = "ok" THEN Data(c) ELSE @]

toggleDone(c) ==
  st' = [st EXCEPT !.on = IF Answer(c) = "failed" THEN @
                          ELSE IF c.arg.on THEN @ \cup {c.arg.key} ELSE @ \ {c.arg.key}]

searchDone(c) ==
  LET s == IF c.arg.modal THEN Freed("search", "") ELSE st
  IN  st' = IF Answer(c) = "failed" THEN s
            ELSE [s EXCEPT !.on = IF c.arg.on THEN @ \cup {"safesearch"} ELSE @ \ {"safesearch"},
                           !.providers = c.arg.providers]

\* setLogsConfig, setStatsConfig: the values are stored; the custom retention is not.
setConfigDone(c) ==
  LET k == c.arg.kind
      v == c.arg.values
      s == Freed("setConfig", k)
  IN  st' = IF Answer(c) = "failed" THEN s
            ELSE [s EXCEPT !.conf[k] = [@ EXCEPT !.flags = v.flags, !.interval = v.interval,
                                                 !.ignored = v.ignored]]

filtersDone(c) ==
  st' = [Freed("filters", "") EXCEPT !.filtering = IF Answer(c) = "ok" THEN c.arg ELSE @]

resume(r, c) ==
  \/ r = "settings" /\ initSettings(c)
  \/ r = "getConfig" /\ getConfig(c)
  \/ r = "status" /\ statusDone(c)
  \/ r = "toggle" /\ toggleDone(c)
  \/ r = "search" /\ searchDone(c)
  \/ r = "setConfig" /\ setConfigDone(c)
  \/ r = "filters" /\ filtersDone(c)
  \/ r = "clear" /\ st' = Freed("clear", c.arg)

\* When the loader goes, the switches are made of the stores as they are then.
Resume ==
  /\ \E r \in Requests : \E c \in calls[r] :
       /\ Answer(c) # "out" /\ resume(r, c)
       /\ calls' = Ended(calls, r, c) /\ hist' = Learned(hist, c)
  /\ ui' = IF isLoading(st) /\ ~isLoading(st')
           THEN [ui EXCEPT !.boxes = on(st'),
                           !.filtering = IF st'.filtering.enabled THEN "on" ELSE "off"]
           ELSE [ui EXCEPT !.boxes = boxes(st')]
  /\ UNCHANGED <<srv, acts>>

Next == UserStep \/ Server \/ Resume

Spec == Init /\ [][Next]_vars /\ WF_vars(Server) /\ WF_vars(Resume)

-----------------------------------------------------------------------------
\* The stores, the forms and the requests of the page are well formed.
TypeOK ==
  /\ DOMAIN st = DOMAIN initialState /\ st.on \subseteq Protection
  /\ st.busy \subseteq Requests \X (Kind \cup {""}) /\ st.ready \subseteq {"settings"} \cup Kind
  /\ \A k \in Kind : st.conf[k].flags \subseteq Flag
  /\ ui.boxes \subseteq Checkbox /\ ui.filtering \in {"unset", "on", "off"}
  /\ DOMAIN calls = Requests

\* A processing flag is set only while a handler waits that will clear it.
FlagsBacked == \A f \in st.busy : Waiting(f[1])

\* When nothing is out, the page shows the server's settings, and so do the
\* checkboxes: if the user did one thing at a time and nothing failed.  The switch
\* of the filtering is left out: it is made of the store before that has loaded.
ShowsServer ==
  Idle /\ hist.clean =>
    /\ ~isLoading(st) /\ st.on = srv.on /\ st.providers = srv.providers
    /\ \A k \in Kind : buildConfig(k, st) = srv.conf[k]
    /\ st.filtering = srv.filtering /\ ui.boxes = on(st)

\* The retention is never shortened unless the user has agreed to it: neither by
\* the switches, which send it along, nor by the dialog (LogsConfig, StatsConfig).
RetentionAsked ==
  Idle /\ hist.clean => \A k \in Kind : srv.conf[k].interval >= hist.floor[k]

\* The page has no control for the update interval of the lists and leaves it as it
\* is, also while their status is still loading (FiltersConfig).
IntervalKept == srv.filtering.interval = hist.hours

\* The loader of the page goes, also when requests fail.
LoaderEnds == <>~isLoading(st)

=============================================================================
