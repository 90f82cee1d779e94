--------------------------- MODULE WebDnsSettings ---------------------------
(***************************************************************************)
(* The DNS settings: stores/dnsConfig.ts and stores/access.ts with         *)
(* components/DnsSettings, the page of the settings and the page of the    *)
(* private reverse servers.  A text of servers is "server", "comment",     *)
(* "blank" (lines of spaces) or empty.  A configuration is a function of   *)
(* its keys; a request carries the part that it changes.                   *)
(***************************************************************************)
EXTENDS WebCalls

CONSTANTS MaxTtl,     \* TTLs are at most this
          Opened      \* the dialogs of one field that the user opens, by their keys

Requests == {"info", "access", "config", "accessSet", "test", "clear"}
Ptr == "use_private_ptr_resolvers"
Plain == {"resolve_clients", "disable_ipv6", "cache_optimistic"}
Switch == Plain \cup {Ptr, "cache_enabled"}
NoText == ""
Text == {NoText, "blank", "comment", "server"}

\* The dialogs that save one field, with what they let pass of what is typed.  An
\* empty number is 0, but not a number for the timeout; 1 is in every range.
RateLimitDialog == [key |-> "ratelimit", accepts |-> {0, 1}]
SubnetPrefixV4Dialog == [key |-> "ratelimit_subnet_len_ipv4", accepts |-> {0, 1}]
SubnetPrefixV6Dialog == [key |-> "ratelimit_subnet_len_ipv6", accepts |-> {0, 1}]
TimeoutDialog == [key |-> "upstream_timeout", accepts |-> {1}]
UpstreamModeDialog == [key |-> "upstream_mode", accepts |-> {0, 1, 2}]
ServerAddressesDialog == [key |-> "upstream_dns", accepts |-> Text]
FallbackDnsDialog == [key |-> "fallback_dns", accepts |-> Text]
BootstrapDnsDialog == [key |-> "bootstrap_dns", accepts |-> Text]
RateLimitAllowlistDialog == [key |-> "ratelimit_whitelist", accepts |-> Text \ {"comment"}]
AllowedClientsDialog == [key |-> "allowed_clients", accepts |-> Text \ {"comment"}]
DisallowedClientsDialog == [key |-> "disallowed_clients", accepts |-> Text \ {"comment"}]
DisallowedDomainsDialog == [key |-> "blocked_hosts", accepts |-> Text]

NumberDialogs ==
  {RateLimitDialog, SubnetPrefixV4Dialog, SubnetPrefixV6Dialog, TimeoutDialog, UpstreamModeDialog}
LinesDialogs ==
  {ServerAddressesDialog, FallbackDnsDialog, BootstrapDnsDialog, RateLimitAllowlistDialog}
AccessDialogs == {AllowedClientsDialog, DisallowedClientsDialog, DisallowedDomainsDialog}
Lines == {d.key : d \in LinesDialogs}
AccessList == {d.key : d \in AccessDialogs}
Ttl == 0 .. MaxTtl
DEFAULT_BLOCKING_IP == 1

Merged(part, whole) == [k \in DOMAIN whole |-> IF k \in DOMAIN part THEN part[k] ELSE whole[k]]
Part(k, v) == [key \in {k} |-> v]

Both(k1, v1, k2, v2) == [key \in {k1, k2} |-> IF key = k1 THEN v1 ELSE v2]

Number == {d.key : d \in NumberDialogs} \cup
            {"cache_size", "cache_ttl_min", "cache_ttl_max", "edns_cs_custom_ip", "blocking_ip"}
Texts == Lines \cup {"local_ptr_upstreams"}
Setting == Switch \cup Number \cup Texts \cup {"blocking_mode", "edns_cs_use_custom"}
emptyValue(k) ==
  IF k \in Texts THEN NoText
  ELSE IF k = "blocking_ip" THEN DEFAULT_BLOCKING_IP ELSE IF k \in Number THEN 0 ELSE FALSE
emptyConfig == [k \in Setting |-> emptyValue(k)]

\* cacheKnown: cache_enabled is not undefined.
initialState ==
  [conf |-> emptyConfig, cacheKnown |-> FALSE, defaults |-> FALSE, initialized |-> FALSE,
   busy |-> {"info", "access"}, access |-> [l \in AccessList |-> NoText],
   accessInitialized |-> FALSE]

-----------------------------------------------------------------------------
\* Conversions: getDnsConfig joins the lists, splitLines drops lines of spaces.
splitLines(values) ==
  [k \in DOMAIN values |->
     IF k \in Texts \cup AccessList /\ values[k] = "blank" THEN NoText ELSE values[k]]
shownConfig(conf) ==
  [conf EXCEPT !["blocking_ip"] = IF @ = 0 THEN DEFAULT_BLOCKING_IP ELSE @]

hasUsablePrivatePtrUpstreams(text, defaults) == text = "server" \/ defaults

\* The validators of the dialogs of the cache.
validTtlMin(n) == ~(st.conf["cache_ttl_max"] > 0 /\ n > 0 /\ n > st.conf["cache_ttl_max"])
\* Mutant: only the maximum is compared with the other one.
TtlMaxUnchecked(n) == TRUE
validTtlMax(n) == ~(st.conf["cache_ttl_min"] > 0 /\ n > 0 /\ st.conf["cache_ttl_min"] > n)
validateCacheSize(n) == st.conf["cache_enabled"] => n # 0
\* Mutant: an empty list is saved while the resolvers need one.
AnyServers(text) == TRUE
validateServers(text) ==
  st.conf[Ptr] /\ ~st.defaults => hasUsablePrivatePtrUpstreams(text, FALSE)

-----------------------------------------------------------------------------
\* What the server has saved before: private resolvers off, on, or with defaults.
Saved(ptr, local, cache) ==
  Merged([k \in {Ptr, "cache_enabled"} |-> IF k = Ptr THEN ptr ELSE cache],
         Merged(Part("local_ptr_upstreams", local),
                Merged([k \in {"cache_size", "cache_ttl_min"} |-> 1],
                       Merged(Part("cache_ttl_max", 2), emptyConfig))))

Init ==
  /\ \E cache \in BOOLEAN, local \in {NoText, "server"}, defaults \in BOOLEAN :
       srv = [conf |-> Saved(local = "server", local, cache), defaults |-> defaults,
              access |-> [l \in AccessList |-> "server"]]
  /\ st = initialState
  /\ calls = Sent(Sent(NoCalls(Requests), "info", <<>>), "access", <<>>)
  /\ ui = [page |-> "dns", sw |-> [k \in Switch |-> FALSE], servers |-> FALSE]
  /\ acts = 0
  /\ hist = [clean |-> TRUE, cache |-> srv.conf["cache_enabled"], switched |-> FALSE]

Loaded == st.initialized /\ (ui.page = "dns" => st.accessInitialized)
OnDns == ui.page = "dns" /\ Loaded /\ ~ui.servers
OnPrivate == ui.page = "private" /\ Loaded
Saving == "config" \in st.busy

\* useSwitchState: a switch follows the store, but not while a save is out.
followed(s, sw) == IF "config" \in s.busy THEN sw ELSE [k \in Switch |-> s.conf[k]]

setDnsConfig(values) ==
  /\ st' = [st EXCEPT !.busy = @ \cup {"config"}]
  /\ calls' = Sent(calls, "config", values)

\* A click on a switch: the switch flips, the save is dropped while another is out.
clicked(k) == ui' = [ui EXCEPT !.sw[k] = ~@]
saveToggle(values) ==
  IF Saving THEN UNCHANGED <<st, calls>> ELSE setDnsConfig(values)

togglePrivatePtrResolvers ==
  saveToggle(IF st.conf[Ptr] THEN Part(Ptr, FALSE)
             ELSE IF st.conf["local_ptr_upstreams"] = NoText THEN Part(Ptr, TRUE)
             ELSE Both(Ptr, TRUE, "local_ptr_upstreams", st.conf["local_ptr_upstreams"]))

-----------------------------------------------------------------------------
\* Without a usable server, the page of the servers or its dialog is opened instead.
handlePrivatePtrResolversToggle ==
  /\ OnDns \/ OnPrivate
  /\ ~ui.servers /\ UserActs
  /\ IF ui.sw[Ptr] \/ hasUsablePrivatePtrUpstreams(st.conf["local_ptr_upstreams"], st.defaults)
     THEN clicked(Ptr) /\ togglePrivatePtrResolvers
     ELSE IF OnDns
     THEN /\ st' = [st EXCEPT !.busy = @ \cup {"info"}]
          /\ calls' = Sent(calls, "info", <<>>)
          /\ ui' = [ui EXCEPT !.page = "private", !.sw = [k \in Switch |-> st.conf[k]]]
     ELSE ui' = [ui EXCEPT !.servers = TRUE] /\ UNCHANGED <<st, calls>>

\* handleResolveClientsToggle, handleDnssecToggle, handleIpv6ResolutionToggle,
\* handleEdnsCsToggle, handleOptimisticCachingToggle.
handleToggle ==
  /\ ~ui.servers /\ UserActs
  /\ \E k \in Plain :
       /\ IF k = "resolve_clients" THEN OnPrivate /\ st.conf[Ptr] ELSE OnDns
       /\ k = "cache_optimistic" => st.conf["cache_enabled"]
       /\ clicked(k) /\ saveToggle(Part(k, ~st.conf[k]))

handleCacheEnabledToggle ==
  /\ OnDns /\ Act
  /\ clicked("cache_enabled") /\ saveToggle(Part("cache_enabled", ~st.conf["cache_enabled"]))
  /\ hist' = [Noted(hist) EXCEPT !.switched = @ \/ ~Saving]

\* A dialog is submitted, unless a save is out, and closes.
Submits == OnDns /\ ~Saving /\ UserActs /\ UNCHANGED ui
saveField ==
  /\ Submits
  /\ \E d \in NumberDialogs \cup LinesDialogs : \E v \in d.accepts :
       d.key \in Opened /\ setDnsConfig(Part(d.key, v))
\* Mutant: the switch is not sent along.
SizeAlone(n) == Part("cache_size", n)
sizeValues(n) == [k \in {"cache_size", "cache_enabled"} |->
                    IF k = "cache_size" THEN n ELSE st.conf["cache_enabled"]]
saveCacheSize ==
  /\ Submits /\ st.cacheKnown
  /\ \E n \in {0, 1} : validateCacheSize(n) /\ setDnsConfig(sizeValues(n))
saveTtlMin ==
  Submits /\ \E n \in Ttl : validTtlMin(n) /\ setDnsConfig(Part("cache_ttl_min", n))
saveTtlMax ==
  Submits /\ \E n \in Ttl : validTtlMax(n) /\ setDnsConfig(Part("cache_ttl_max", n))
saveBlockingMode ==
  /\ Submits
  /\ \/ setDnsConfig(Part("blocking_mode", FALSE))
     \/ \E ip \in {1, 2} : setDnsConfig(Both("blocking_mode", TRUE, "blocking_ip", ip))
saveEdns ==
  /\ Submits
  /\ \/ setDnsConfig(Part("edns_cs_use_custom", FALSE))
     \/ setDnsConfig(Both("edns_cs_use_custom", TRUE, "edns_cs_custom_ip", 1))

openServers == OnPrivate /\ st.conf[Ptr] /\ Look /\ ui' = [ui EXCEPT !.servers = TRUE]
closeServers == ui.servers /\ Look /\ ui' = [ui EXCEPT !.servers = FALSE]
saveServers ==
  /\ OnPrivate /\ ui.servers /\ ~Saving /\ UserActs
  /\ \E t \in Text : validateServers(t) /\ setDnsConfig(Part("local_ptr_upstreams", t))
  /\ ui' = [ui EXCEPT !.servers = FALSE]

setAccessList ==
  /\ OnDns /\ "accessSet" \notin st.busy /\ UserActs /\ UNCHANGED ui
  /\ \E d \in AccessDialogs : \E t \in d.accepts :
       d.key \in Opened /\ calls' = Sent(calls, "accessSet", Part(d.key, t))
  /\ st' = [st EXCEPT !.busy = @ \cup {"accessSet"}]

testUpstreamWithFormValues ==
  /\ OnDns /\ "test" \notin st.busy /\ UserActs /\ UNCHANGED ui
  /\ st' = [st EXCEPT !.busy = @ \cup {"test"}] /\ calls' = Sent(calls, "test", <<>>)

clearDnsCache ==
  /\ OnDns /\ UserActs /\ UNCHANGED <<st, ui>> /\ calls' = Sent(calls, "clear", <<>>)

\* Going to the other page mounts it: it fetches anew.
navigate ==
  /\ ~ui.servers /\ UserActs
  /\ LET to == IF ui.page = "dns" THEN "private" ELSE "dns"
         fetched == IF to = "dns" THEN {"info", "access"} ELSE {"info"}
         cs == Sent(calls, "info", <<>>)
     IN  /\ ui' = [ui EXCEPT !.page = to, !.sw = [k \in Switch |-> st.conf[k]]]
         /\ st' = [st EXCEPT !.busy = @ \cup fetched]
         /\ calls' = IF to = "dns" THEN Sent(cs, "access", <<>>) ELSE cs

UserStep ==
  \/ handlePrivatePtrResolversToggle \/ handleToggle \/ handleCacheEnabledToggle
  \/ saveField \/ saveCacheSize \/ saveTtlMin \/ saveTtlMax \/ saveBlockingMode
  \/ saveEdns \/ openServers \/ closeServers \/ saveServers \/ setAccessList
  \/ testUpstreamWithFormValues \/ clearDnsCache \/ navigate

-----------------------------------------------------------------------------
\* The server (external): it infers the cache's switch from a size sent alone,
\* and refuses a cache without a size, or resolvers without a server when they
\* are switched on.
Inferred(v) ==
  IF "cache_size" \in DOMAIN v /\ "cache_enabled" \notin DOMAIN v
  THEN [k \in DOMAIN v \cup {"cache_enabled"} |->
          IF k \in DOMAIN v THEN v[k] ELSE v["cache_size"] > 0]
  ELSE v
RefusedBy(v) ==
  LET merged == Merged(v, srv.conf)
  IN  \/ "cache_enabled" \in DOMAIN v /\ merged["cache_enabled"] /\ merged["cache_size"] = 0
      \/ /\ Ptr \in DOMAIN v /\ v[Ptr] /\ ~srv.defaults
         /\ ~("local_ptr_upstreams" \in DOMAIN v /\ v["local_ptr_upstreams"] = "server")

serve(r, c) ==
  \/ r = "info" /\ Served(r, c, srv, [conf |-> srv.conf, defaults |-> srv.defaults])
  \/ r = "access" /\ Served(r, c, srv, srv.access)
  \/ /\ r = "config"
     /\ LET v == Inferred(splitLines(c.arg))
        IN  IF RefusedBy(v) THEN Refused(r, c)
            ELSE Served(r, c, [srv EXCEPT !.conf = Merged(v, @)], {})
  \/ r = "accessSet" /\ Served(r, c, [srv EXCEPT !.access = Merged(splitLines(c.arg), @)], {})
  \/ r \in {"test", "clear"} /\ Served(r, c, srv, {})

Server ==
  /\ \E r \in Requests : \E c \in calls[r] : Answer(c) = "out" /\ serve(r, c)
  /\ UNCHANGED <<st, ui, acts, hist>>

-----------------------------------------------------------------------------
\* Mutant: the page is initialized only by an answer.
SettledIfOk(s, ok) == [s EXCEPT !.busy = @ \ {"info"}, !.initialized = @ \/ ok]
infoSettled(s, ok) == [s EXCEPT !.busy = @ \ {"info"}, !.initialized = TRUE]

getDnsConfig(c) ==
  LET ok == Answer(c) = "ok"
      s == IF ok THEN [st EXCEPT !.conf = shownConfig(Data(c).conf), !.cacheKnown = TRUE,
                                 !.defaults = Data(c).defaults] ELSE st
  IN  st' = infoSettled(s, ok)

getAccessList(c) ==
  st' = [st EXCEPT !.busy = @ \ {"access"}, !.accessInitialized = TRUE,
                   !.access = IF Answer(c) = "ok" THEN Data(c) ELSE @]

\* The values are laid over what the store holds by now.
configDone(c) ==
  LET s == [st EXCEPT !.busy = @ \ {"config"}]
  IN  st' = IF Answer(c) = "failed" THEN s
            ELSE [s EXCEPT !.conf = Merged(c.arg, @),
                           !.cacheKnown = @ \/ "cache_enabled" \in DOMAIN c.arg]

accessSetDone(c) ==
  st' = [st EXCEPT !.busy = @ \ {"accessSet"},
                   !.access = IF Answer(c) = "ok" THEN Merged(c.arg, @) ELSE @]

resume(r, c) ==
  \/ r = "info" /\ getDnsConfig(c)
  \/ r = "access" /\ getAccessList(c)
  \/ r = "config" /\ configDone(c)
  \/ r = "accessSet" /\ accessSetDone(c)
  \/ r = "test" /\ st' = [st EXCEPT !.busy = @ \ {"test"}]
  \/ r = "clear" /\ UNCHANGED st

Resume ==
  /\ \E r \in Requests : \E c \in calls[r] :
       /\ Answer(c) # "out" /\ resume(r, c)
       /\ calls' = Ended(calls, r, c) /\ hist' = Learned(hist, c)
  /\ ui' = [ui EXCEPT !.sw = followed(st', @)]
  /\ UNCHANGED <<srv, acts>>

Next == UserStep \/ Server \/ Resume

Spec == Init /\ [][Next]_vars /\ WF_vars(Server) /\ WF_vars(Resume)

-----------------------------------------------------------------------------
\* The stores, the forms and the requests of the page are well formed.
TypeOK ==
  /\ DOMAIN st = DOMAIN initialState /\ DOMAIN st.conf = DOMAIN emptyConfig
  /\ st.busy \subseteq Requests \ {"clear"} /\ st.conf["local_ptr_upstreams"] \in Text
  /\ ui.page \in {"dns", "private"} /\ ui.sw \in [Switch -> BOOLEAN]
  /\ DOMAIN calls = Requests

\* A processing flag is set only while the handler waits that will clear it.
FlagsBacked == \A f \in st.busy : Waiting(f)

\* When nothing is out, the page shows the server's settings, and so do the
\* switches: if the user did one thing at a time and nothing failed.
ShowsServer ==
  Idle /\ hist.clean =>
    /\ splitLines(st.conf) = shownConfig(srv.conf) /\ splitLines(st.access) = srv.access
    /\ \A k \in Switch : ui.sw[k] = srv.conf[k]

\* What the dialogs promise together: no lifetime is saved that the other bound
\* excludes, and the private resolvers are never left on without a server to ask
\* (CacheInputDialog, PrivateReverseServersDialog).
SettingsSound ==
  hist.clean =>
    /\ \/ srv.conf["cache_ttl_min"] <= srv.conf["cache_ttl_max"]
       \/ srv.conf["cache_ttl_max"] = 0
    /\ srv.conf[Ptr] => srv.defaults \/ srv.conf["local_ptr_upstreams"] = "server"

\* Only the switch of the cache switches the cache: no saved size does, also when
\* the settings could not be loaded or answers were lost (Cache.tsx).
CacheAsked == srv.conf["cache_enabled"] # hist.cache => hist.switched

\* The loader of the page goes, also when requests fail.
LoaderEnds == <>Loaded

=============================================================================
