------------------------------- MODULE WebUI -------------------------------
(***************************************************************************)
(* The web interface: the pages of client_v2, each with the store, the     *)
(* handlers and the timers that it uses, on one server.                    *)
(*                                                                         *)
(* The user opens a page and works on it; the pages do not share a store   *)
(* that one of them writes while another shows it, except the notices      *)
(* (WebToasts), so a behaviour is a behaviour of one page.  The properties *)
(* say of every page what all of them promise, and of each group of pages  *)
(* what the group promises.                                                *)
(***************************************************************************)
EXTENDS WebCalls

CONSTANT Pages    \* the pages the user opens

VARIABLE page

webVars == <<page, st, ui, calls, srv, acts, hist>>

Actions == INSTANCE WebActions
  WITH Reason <- {"none", "service", "threats", "safesearch", "filter", "rewrite"},
       Allowed <- {"c1"}, Settled <- {"rewrites", "access"}
Clients == INSTANCE WebClients WITH Name <- {"A", "B"}, Id <- {"1", "2"}, MaxEdits <- 1
Dhcp == INSTANCE WebDhcp
  WITH Iface <- {"i1"}, HasV4 <- {"i1"}, HasV6 <- {}, MaxAddr <- 3, Mask <- {2, 4},
       Lease <- {[mac |-> "m1", ip |-> 2, hostname |-> ""],
                 [mac |-> "m2", ip |-> 2, hostname |-> "h"]},
       Check <- {[other |-> "no", static |-> "yes"], [other |-> "yes", static |-> "no"]}
DnsSettings == INSTANCE WebDnsSettings
  WITH MaxTtl <- 2,
       Opened <- {"ratelimit", "upstream_timeout", "upstream_dns", "ratelimit_whitelist",
                  "disallowed_clients"}
Encryption == INSTANCE WebEncryption WITH Name <- {"x"}, Covered <- {}
Install == INSTANCE WebInstall
  WITH WebPort <- {1, 2}, DnsPort <- {3, 4}, BusyPort <- {3}, MaxChecks <- 1
Lists == INSTANCE WebLists WITH Url <- {"c1", "m"}, Catalog <- {"c1"}
Log == INSTANCE WebLog
  WITH MaxLog <- 3, Found <- {1, 2}, PageLimit <- 1, Status <- {"all", "blocked"}
Rewrites == INSTANCE WebRewrites WITH Rewrite <- {"a", "b"}
Services == INSTANCE WebServices
  WITH Service <- {"s1"}, Day <- {"mon"}, Hours <- 3, Minutes <- 1
Settings == INSTANCE WebSettings
  WITH Kind <- {"logs"}, Standard <- {3}, Custom <- {1}, MaxHours <- 4
Stats == INSTANCE WebStats WITH Retention <- {1, 3}, Stored <- {1, 4}
Status == INSTANCE WebStatus WITH Attempts <- 1, Pause <- 1, Lang <- {"en", "de"}
Tables == INSTANCE WebTables
  WITH MaxActs <- 1, Section <- {"topClients", "runtime"}, Answers <- {{1, 2}, 1 .. 6},
       Count <- [r \in 1 .. 6 |-> IF r \in {2, 5} THEN 2 ELSE 1],
       Match <- {2, 5, 6}, Blocked <- {1, 2, 3}, DEFAULT_PAGE_SIZE_OPTIONS <- {1, 2}
TlsWizard == INSTANCE WebTlsWizard
  WITH MaxActs <- MaxActs + 1, Cert <- {"junk", "bad", "warn", "ok"}, Key <- {"bad", "ok"},
       Ports <- {<<3, 0, 0>>, <<3, 3, 0>>, <<4, 0, 1>>}, WebPort <- 1, DnsPort <- 2,
       BusyPort <- {4}
Toasts == INSTANCE WebToasts WITH MaxActs <- MaxActs + 2, Message <- {"m1"}, MaxId <- 4
UserRules == INSTANCE WebUserRules
  WITH MaxActs <- MaxActs + 1, Feature <- {"parental"},
       Reason <- {"blacklist", "parental", "service", "rewrite", "rewriterule"},
       Settled <- {"settings", "clients", "rewrites", "services", "all"}

At(p) == page = p /\ UNCHANGED page

Init ==
  /\ page \in Pages
  /\ \/ page = "actions" /\ Actions!Init
     \/ page = "clients" /\ Clients!Init
     \/ page = "dhcp" /\ Dhcp!Init
     \/ page = "dns" /\ DnsSettings!Init
     \/ page = "encryption" /\ Encryption!Init
     \/ page = "install" /\ Install!Init
     \/ page = "lists" /\ Lists!Init
     \/ page = "log" /\ Log!Init
     \/ page = "rewrites" /\ Rewrites!Init
     \/ page = "services" /\ Services!Init
     \/ page = "settings" /\ Settings!Init
     \/ page = "stats" /\ Stats!Init
     \/ page = "status" /\ Status!Init
     \/ page = "tables" /\ Tables!Init
     \/ page = "wizard" /\ TlsWizard!Init
     \/ page = "toasts" /\ Toasts!Init
     \/ page = "rules" /\ UserRules!Init

UserStep ==
  \/ At("actions") /\ Actions!UserStep
  \/ At("clients") /\ Clients!UserStep
  \/ At("dhcp") /\ Dhcp!UserStep
  \/ At("dns") /\ DnsSettings!UserStep
  \/ At("encryption") /\ Encryption!UserStep
  \/ At("install") /\ Install!UserStep
  \/ At("lists") /\ Lists!UserStep
  \/ At("log") /\ Log!UserStep
  \/ At("rewrites") /\ Rewrites!UserStep
  \/ At("services") /\ Services!UserStep
  \/ At("settings") /\ Settings!UserStep
  \/ At("stats") /\ Stats!UserStep
  \/ At("status") /\ Status!UserStep
  \/ At("tables") /\ Tables!UserStep
  \/ At("wizard") /\ TlsWizard!UserStep
  \/ At("toasts") /\ Toasts!UserStep
  \/ At("rules") /\ UserRules!UserStep

Server ==
  \/ At("actions") /\ Actions!Server
  \/ At("clients") /\ Clients!Server
  \/ At("dhcp") /\ Dhcp!Server
  \/ At("dns") /\ DnsSettings!Server
  \/ At("encryption") /\ Encryption!Server
  \/ At("install") /\ Install!Server
  \/ At("lists") /\ Lists!Server
  \/ At("log") /\ Log!Server
  \/ At("rewrites") /\ Rewrites!Server
  \/ At("services") /\ Services!Server
  \/ At("settings") /\ Settings!Server
  \/ At("stats") /\ Stats!Server
  \/ At("status") /\ Status!Server
  \/ At("tables") /\ Tables!Server
  \/ At("wizard") /\ TlsWizard!Server
  \/ At("toasts") /\ Toasts!Server
  \/ At("rules") /\ UserRules!Server

Resume ==
  \/ At("actions") /\ Actions!Resume
  \/ At("clients") /\ Clients!Resume
  \/ At("dhcp") /\ Dhcp!Resume
  \/ At("dns") /\ DnsSettings!Resume
  \/ At("encryption") /\ Encryption!Resume
  \/ At("install") /\ Install!Resume
  \/ At("lists") /\ Lists!Resume
  \/ At("log") /\ Log!Resume
  \/ At("rewrites") /\ Rewrites!Resume
  \/ At("services") /\ Services!Resume
  \/ At("settings") /\ Settings!Resume
  \/ At("stats") /\ Stats!Resume
  \/ At("status") /\ Status!Resume
  \/ At("tables") /\ Tables!Resume
  \/ At("wizard") /\ TlsWizard!Resume
  \/ At("toasts") /\ Toasts!Resume
  \/ At("rules") /\ UserRules!Resume

\* A timer of the page that has expired.
Timer ==
  \/ At("encryption") /\ Encryption!validateConfig
  \/ At("install") /\ Install!debouncedCheckConfig
  \/ At("status") /\ (Status!countdown \/ Status!checkAgain)
  \/ At("wizard") /\ TlsWizard!runScheduled
  \/ At("toasts") /\ Toasts!removeCurrentToast

Next == UserStep \/ Server \/ Resume \/ Timer

\* The server answers or the request times out, the browser runs a handler
\* that has its answer and a timer that has expired.  The user may do nothing.
Spec ==
  /\ Init /\ [][Next]_webVars
  /\ WF_webVars(Server) /\ WF_webVars(Resume) /\ WF_webVars(Timer)

-----------------------------------------------------------------------------
(* Every store and form holds values of its shape, and requests are kept   *)
(* under their names.                                                      *)
TypeOK ==
  /\ page \in Pages /\ acts \in Nat
  /\ page = "actions" => Actions!TypeOK
  /\ page = "clients" => Clients!TypeOK
  /\ page = "dhcp" => Dhcp!TypeOK
  /\ page = "dns" => DnsSettings!TypeOK
  /\ page = "encryption" => Encryption!TypeOK
  /\ page = "install" => Install!TypeOK
  /\ page = "lists" => Lists!TypeOK
  /\ page = "log" => Log!TypeOK
  /\ page = "rewrites" => Rewrites!TypeOK
  /\ page = "services" => Services!TypeOK
  /\ page = "settings" => Settings!TypeOK
  /\ page = "stats" => Stats!TypeOK
  /\ page = "status" => Status!TypeOK
  /\ page = "tables" => Tables!TypeOK
  /\ page = "wizard" => TlsWizard!TypeOK
  /\ page = "toasts" => Toasts!TypeOK
  /\ page = "rules" => UserRules!TypeOK

(* No spinner without work: a "processing" flag that disables buttons is   *)
(* set only while a request, a retry timer or a handler that will clear it *)
(* is there; and a notice is on the screen only with a timer that will     *)
(* remove it, while the pointer is over it or while its undo runs.  A flag *)
(* that an error path leaves set would block the page until a reload.      *)
FlagsBacked ==
  /\ page = "actions" => Actions!FlagsBacked
  /\ page = "clients" => Clients!FlagsBacked
  /\ page = "dhcp" => Dhcp!FlagsBacked
  /\ page = "dns" => DnsSettings!FlagsBacked
  /\ page = "encryption" => Encryption!FlagsBacked
  /\ page = "install" => Install!FlagsBacked
  /\ page = "lists" => Lists!FlagsBacked
  /\ page = "log" => Log!FlagsBacked
  /\ page = "rewrites" => Rewrites!FlagsBacked
  /\ page = "services" => Services!FlagsBacked
  /\ page = "settings" => Settings!FlagsBacked
  /\ page = "stats" => Stats!FlagsBacked
  /\ page = "status" => Status!FlagsBacked
  /\ page = "wizard" => TlsWizard!FlagsBacked
  /\ page = "toasts" => Toasts!FlagsBacked
  /\ page = "rules" => UserRules!FlagsBacked

(* When nothing is out, nothing has failed and the user never acted while  *)
(* a request was out, the page shows what the server has: the optimistic   *)
(* updates, the copies that forms make of stores and the conversions of    *)
(* requests and answers agree with the server, whatever the order in which *)
(* the fetches of the page were answered.                                  *)
ShowsServer ==
  /\ page = "actions" => Actions!ShowsServer
  /\ page = "clients" => Clients!ShowsServer
  /\ page = "dhcp" => Dhcp!ShowsServer
  /\ page = "dns" => DnsSettings!ShowsServer
  /\ page = "encryption" => Encryption!ShowsServer
  /\ page = "install" => Install!ShowsServer
  /\ page = "lists" => Lists!ShowsServer
  /\ page = "log" => Log!ShowsServer
  /\ page = "rewrites" => Rewrites!ShowsServer
  /\ page = "services" => Services!ShowsServer
  /\ page = "settings" => Settings!ShowsServer
  /\ page = "stats" => Stats!ShowsServer
  /\ page = "status" => Status!ShowsServer
  /\ page = "rules" => UserRules!ShowsServer

(* What cannot be taken back is done only when the user has confirmed it:  *)
(* no rule list is removed that the user did not name, the cache is never  *)
(* switched by a request about other settings, and no retention is made    *)
(* shorter without the warning that data will be lost.                     *)
AskedOnly ==
  /\ page = "lists" => Lists!RemovalsAsked
  /\ page = "dns" => DnsSettings!CacheAsked
  /\ page = "settings" => Settings!RetentionAsked

(* The validators of the forms together keep the server's settings sound:  *)
(* schedules have a start before their end, no rewrite is there twice, a   *)
(* DHCP range has several addresses of the gateway's subnet without the    *)
(* gateway, the least TTL is at most the greatest, and private PTR         *)
(* resolution has servers.                                                 *)
FormsSound ==
  /\ page = "services" => Services!RangesValid
  /\ page = "rewrites" => Rewrites!RewritesUnique
  /\ page = "dhcp" => Dhcp!RangeServed
  /\ page = "dns" => DnsSettings!SettingsSound

(* A check of the TLS settings by the server, made asynchronously while    *)
(* the user may go on typing, is heeded: the dialog saves a name that the  *)
(* certificate does not cover only after its warning has been shown, and   *)
(* the wizard saves nothing that the check of its last step rejects.       *)
ChecksHeeded ==
  /\ page = "encryption" => Encryption!WarningSeen
  /\ page = "wizard" => TlsWizard!CheckedSave

(* An undo is offered for what was really done, and the undo of the last   *)
(* action leaves the server as it was before the action.                   *)
UndoSound ==
  /\ page = "rules" => UserRules!UndoMeansDone
  /\ page = "actions" => Actions!UndoRestores

(* A form and a request are about what the address bar and the user's      *)
(* choice name: the client form edits the client of the route, the server  *)
(* is installed with the addresses that were entered, and the statistics   *)
(* are asked for the period that is chosen and kept.                       *)
RightForm ==
  /\ page = "clients" => Clients!FormOfRoute
  /\ page = "install" => Install!ConfiguredAsEntered
  /\ page = "stats" => Stats!RealRetention

(* What there is to see can be seen: every row of a table is on a page     *)
(* that the page numbers reach, sorted the way the header says, and an     *)
(* error that repeats is one notice.                                       *)
ScreenSound ==
  /\ page = "tables" => Tables!RowsReachable /\ Tables!SameOrder
  /\ page = "toasts" => Toasts!NoFlood

Loading ==
  \/ page = "clients" /\ ~st.initialized
  \/ page = "dhcp" /\ ui.page # "leases" /\ ~Dhcp!isLoaded
  \/ page = "dns" /\ ~DnsSettings!Loaded
  \/ page = "encryption" /\ ~st.initialized
  \/ page = "install" /\ st.processingDefault
  \/ page = "log" /\ "get" \in st.busy
  \/ page = "settings" /\ Settings!isLoading(st)
  \/ page = "stats" /\ ~st.statsInitialized
  \/ page = "tables" /\ Tables!loading
  \/ page = "wizard" /\ ui.validating
  \/ page = "rules" /\ UserRules!isInitialLoading

(* A page that shows its loader shows its content in the end, whichever of *)
(* its fetches fail.                                                       *)
LoaderEnds == Loading ~> ~Loading

-----------------------------------------------------------------------------
(* What the repository says of the pages and the code does not do.         *)

(* "An error always holds back" (useStepCheck.ts): what the wizard's check *)
(* rejects is not saved, although the user cancels and goes on meanwhile.  *)
HoldsBack == page = "wizard" => TlsWizard!HoldsBack

(* "does not overwrite a 1-hour interval while the status is still         *)
(* loading" (FiltersConfig.test.tsx): the interval of the updates stays as *)
(* it is when filtering is switched.                                       *)
IntervalKept == page = "settings" => Settings!IntervalKept

(* "Protection will resume in %time%" (en.json): when the countdown of a   *)
(* pause has ended, what the page sends switches protection on.            *)
CountdownResumes == page = "status" => Status!CountdownResumes

=============================================================================
