---------------------------- MODULE WebUserRules ----------------------------
(***************************************************************************)
(* The page for the user's rules and for checking a host, with the actions *)
(* a result of the check offers and their undo toasts.                     *)
(*                                                                         *)
(* The page reads six stores and is shown once each has settled its first  *)
(* request.  One host is checked; the rules about it are "block" and       *)
(* "allow", "blockC" and "allowC" for the client of the check, and "other" *)
(* stands for a rule the user typed.  st.busy has the requests whose       *)
(* processing flag is set.                                                 *)
(***************************************************************************)
EXTENDS WebCalls

CONSTANTS Feature,   \* of safe browsing, parental control and safe search
          Reason,    \* the reasons the server gives for a host
          Settled    \* the fetches of the page that have been answered at first

Rule == {"block", "allow", "blockC", "allowC", "other"}
Rewrites == {"r1", "r2"}
Fetch == {"status", "settings", "clients", "rewrites", "services", "all"}
Change == {"rules", "setting", "client", "service", "set_url",
           "rw_add", "rw_update", "rw_delete"}
Requests == Fetch \cup Change \cup {"check", "delay"}
Scope == {"all", "known", "unknown"}    \* no client, a persistent one, another

NoResult == [reason |-> "none", custom |-> FALSE]

\* userRules, filter: stores/filtering.ts; prot: settings; cl: the persistent
\* client; rewrites; blocked: whether the service is blocked for everyone.
initialState ==
  [busy |-> {}, initialized |-> {}, userRules |-> {}, filter |-> FALSE,
   prot |-> {}, cl |-> [own |-> FALSE, prot |-> {}, ownSvc |-> FALSE, svc |-> FALSE],
   rewrites |-> {}, blocked |-> FALSE, allServices |-> FALSE, check |-> NoResult]

\* What the answer to a fetch puts into its store.
fetched(s, r, d) ==
  IF r = "status" THEN [s EXCEPT !.userRules = d.userRules, !.filter = d.filter]
  ELSE IF r = "settings" THEN [s EXCEPT !.prot = d.prot]
  ELSE IF r = "clients" THEN [s EXCEPT !.cl = d.cl]
  ELSE IF r = "rewrites" THEN [s EXCEPT !.rewrites = d.rewrites]
  ELSE IF r = "services" THEN [s EXCEPT !.blocked = d.blocked]
  ELSE [s EXCEPT !.allServices = TRUE]

\* The page is mounted, and fetches everything.
Init ==
  /\ srv \in [userRules : {{}, {"block", "other"}}, filter : {TRUE}, prot : {Feature},
              cl : {[own |-> FALSE, prot |-> {}, ownSvc |-> FALSE, svc |-> FALSE]},
              rewrites : {{"r1"}}, blocked : {TRUE}]
  /\ st = FoldSet(LAMBDA r, s : fetched(s, r, srv),
                  [initialState EXCEPT !.busy = Fetch \ Settled, !.initialized = Settled], Settled)
  /\ ui = [text |-> {}, last |-> "none", visible |-> FALSE, refreshing |-> FALSE,
           editing |-> FALSE, undos |-> {}]
  /\ calls = [r \in Requests |->
                IF r \in Fetch \ Settled THEN {[arg |-> <<"end">>, n |-> 1, answer |-> <<>>]} ELSE {}]
  /\ acts = 0
  /\ hist = [clean |-> TRUE, acked |-> {}]

isInitialLoading == st.initialized # Fetch
isActionProcessing ==
  st.busy \cap {"rules", "check", "client", "rw_delete", "rw_update", "service"} # {}
showResultCard ==
  /\ ~isInitialLoading /\ ui.visible /\ ~ui.refreshing
  /\ st.check # NoResult

-----------------------------------------------------------------------------
\* Sending a request sets its flag; toggleSetting has none.
send(s, cs, r, arg) ==
  /\ st' = [s EXCEPT !.busy = @ \cup ({r} \ {"setting", "delay"})]
  /\ calls' = Sent(cs, r, arg)

\* An effect copies the rules of the store into the editor when they change.
\* They may differ in their line ends only.
Texts(s, u) ==
  IF s.userRules # st.userRules THEN {s.userRules} ELSE {u.text, s.userRules}

getFilteringStatus(s, cs, then) == send(s, cs, "status", then)

\* What follows an undo: the stores it concerns are fetched one by one, then the
\* toast goes.
refreshOf(undo) ==
  IF undo[1] \in {"rules", "custom"} THEN <<"status">>
  ELSE IF undo[1] \in {"setting", "client"} THEN <<"settings", "clients">>
  ELSE IF undo[1] = "rewrite" THEN <<"rewrites">>
  ELSE <<"services", "clients">>

refresh(undo, rest, s, u, cs) ==
  IF rest = <<>>
  THEN st' = s /\ ui' = [u EXCEPT !.undos = @ \ {undo}] /\ calls' = cs
  ELSE send(s, cs, Head(rest), <<"refresh", undo, Tail(rest)>>) /\ ui' = u

\* recheckCurrentTarget: after half a second the host is checked again.
recheckCurrentTarget(s, u, cs) ==
  /\ IF u.last = "none" THEN st' = s /\ calls' = cs ELSE send(s, cs, "delay", <<>>)
  /\ ui' = u

\* performWithUndo goes on unless the change returned false; a thunk without a
\* result counts as done.
\* Mutant: the result of the change is not looked at.
UndoAlways(result) == TRUE
performed(result) == result # "no"

\* What a handler does once the thunk it called has ended with a result.
proceed(then, result, s, u, cs) ==
  \/ then[1] = "end" /\ st' = s /\ ui' = u /\ calls' = cs
  \/ /\ then[1] = "toggled"      \* toggleBlocking, handleRuleToggle
     /\ IF result = "yes"
        THEN /\ getFilteringStatus(s, cs, <<"recheck">>)
             /\ ui' = [u EXCEPT !.undos = @ \cup {<<"rules", then[2]>>}]
        ELSE st' = s /\ ui' = u /\ calls' = cs
  \/ then[1] = "recheck" /\ recheckCurrentTarget(s, u, cs)
  \/ /\ then[1] = "undoable"     \* performWithUndo
     /\ IF performed(result)
        THEN recheckCurrentTarget(s, [u EXCEPT !.undos = @ \cup {then[2]}], cs)
        ELSE st' = s /\ ui' = u /\ calls' = cs
  \/ /\ then[1] = "undone"       \* the callback of the toast
     /\ refresh(then[2], IF result = "yes" THEN refreshOf(then[2]) ELSE <<>>, s, u, cs)
  \/ then[1] = "refresh" /\ refresh(then[2], then[3], s, u, cs)

-----------------------------------------------------------------------------
\* RulesEditor.
typeRules ==
  /\ ~isInitialLoading
  /\ \E text \in {ui.text \cup {"other"}, ui.text \ {"other"}} :
       ui' = [ui EXCEPT !.text = text]
  /\ Look

setRules(rules, then) == send(st, calls, "rules", <<rules, then>>)

onRulesSubmit ==
  /\ ~isInitialLoading /\ "rules" \notin st.busy /\ UserActs
  /\ setRules(ui.text, <<"end">>)
  /\ UNCHANGED ui

\* CheckForm; a host and a type are given, a client may be.
onCheckSubmit ==
  /\ ~isInitialLoading /\ "check" \notin st.busy /\ UserActs
  /\ \E client \in Scope :
       ui' = [ui EXCEPT !.last = client, !.visible = TRUE, !.refreshing = TRUE]
  /\ send(st, calls, "check", <<"submit">>)

onDismiss ==
  /\ showResultCard
  /\ ui' = [ui EXCEPT !.visible = FALSE]
  /\ Look

\* The actions getCheckResultMeta gives a result, without those that need a
\* persistent client the check does not have.
resultActions(check) ==
  LET byReason ==
        IF check.reason = "blacklist"
          THEN {"allow"} \cup (IF check.custom THEN {} ELSE {"disable-filter"})
        ELSE IF check.reason = "whitelist"
          THEN {IF check.custom THEN "block" ELSE "disable-filter"}
        ELSE IF check.reason = "notfound" THEN {"allow", "block"}
        ELSE IF check.reason \in Feature THEN {"allow", check.reason}
        ELSE IF check.reason = "service" THEN {"allow", "disable-blocked-service"}
        ELSE IF check.reason = "rewriterule" /\ check.custom THEN {"remove-rewrite-rule"}
        ELSE {}
  IN  IF ui.last = "unknown" THEN byReason \ Feature ELSE byReason

Offered(kind) ==
  /\ showResultCard /\ ~isActionProcessing
  /\ kind \in resultActions(st.check)

closedResult == [ui EXCEPT !.visible = FALSE]

\* handleRuleToggle with toggleBlocking: the rule replaces its opposite, and the
\* user's rule that matched.  Nothing is sent if the rules are so already.
handleRuleToggle ==
  /\ ui.last # "none" /\ UserActs
  /\ \E type \in {"block", "allow"} :
       LET client == ui.last # "all"
           name(t) == IF ~client THEN t ELSE IF t = "block" THEN "blockC" ELSE "allowC"
           desired == name(type)
           opposite == name(IF type = "block" THEN "allow" ELSE "block")
           replaced == {opposite} \cup (IF st.check.custom /\ ~client THEN {"other"} ELSE {})
       IN  /\ Offered(type)
           /\ IF desired \in st.userRules /\ replaced \cap st.userRules = {}
              THEN recheckCurrentTarget(st, closedResult, calls)
              ELSE /\ setRules((st.userRules \ replaced) \cup {desired},
                               <<"toggled", st.userRules>>)
                   /\ ui' = closedResult

\* getEffectiveClientProtectionSettings and getEffectiveBlockedServices: what
\* holds for a client that uses the global settings becomes its own.
effectiveProt == IF st.cl.own THEN st.cl.prot ELSE st.prot
effectiveSvc == IF st.cl.ownSvc THEN st.cl.svc ELSE st.blocked

\* handleDisableSafeBrowsing, handleDisableParental, handleDisableSafeSearch.
handleDisableFeature ==
  /\ UserActs
  /\ \E f \in Feature :
       /\ Offered(f)
       /\ IF ui.last = "known"
          THEN send(st, calls, "client",
                    <<[st.cl EXCEPT !.own = TRUE, !.prot = effectiveProt \ {f}],
                      <<"undoable", <<"client", [st.cl EXCEPT !.prot = @ \cup {f}]>>>>>>)
          ELSE send(st, calls, "setting", <<f, FALSE, <<"undoable", <<"setting", f>>>>>>)
  /\ ui' = closedResult

handleDisableFilter ==
  /\ Offered("disable-filter") /\ UserActs
  /\ send(st, calls, "set_url", <<FALSE, <<"undoable", <<"filter", {}>>>>>>)
  /\ ui' = closedResult

\* The undo for a client takes the services blocked for everyone.
handleAllowBlockedService ==
  /\ Offered("disable-blocked-service") /\ st.allServices /\ UserActs
  /\ IF ui.last = "known"
     THEN send(st, calls, "client",
               <<[st.cl EXCEPT !.ownSvc = TRUE, !.svc = FALSE],
                 <<"undoable", <<"clientsvc", [st.cl EXCEPT !.svc = st.blocked]>>>>>>)
     ELSE send(st, calls, "service",
               <<FALSE, <<"undoable", <<"service", st.blocked>>>>>>)
  /\ ui' = closedResult

handleRemoveRewriteRule ==
  /\ Offered("remove-rewrite-rule") /\ UserActs
  /\ setRules(st.userRules \ {"other"}, <<"undoable", <<"custom", st.userRules>>>>)
  /\ ui' = closedResult

\* The buttons of a result for a rewrite: exactly one rewrite matches the host.
matchedRewrite ==
  /\ showResultCard /\ ~isActionProcessing
  /\ st.check.reason = "rewrite" /\ Cardinality(st.rewrites) = 1

openEditRewriteModal ==
  matchedRewrite /\ ui' = [ui EXCEPT !.editing = TRUE] /\ Look

resetCurrentRewrite ==
  ui.editing /\ ui' = [ui EXCEPT !.editing = FALSE] /\ Look

handleRewriteUpdate ==
  /\ ui.editing /\ UserActs
  /\ \E rw \in st.rewrites, update \in Rewrites :
       send(st, calls, "rw_update", <<rw, update, <<"recheck">>>>)
  /\ ui' = [closedResult EXCEPT !.editing = FALSE]

handleRewriteDelete ==
  /\ matchedRewrite /\ UserActs
  /\ \E rw \in st.rewrites :
       send(st, calls, "rw_delete", <<rw, rw, <<"undoable", <<"rewrite", rw>>>>>>)
  /\ ui' = closedResult

-----------------------------------------------------------------------------
\* A click on Undo; the toast stays until the callback has ended, and can be
\* clicked again.
clickUndo ==
  /\ UserActs
  /\ \E undo \in ui.undos :
       LET then == <<"undone", undo>>
       IN  \/ undo[1] \in {"rules", "custom"} /\ setRules(undo[2], then)
           \/ undo[1] = "setting" /\ send(st, calls, "setting", <<undo[2], TRUE, then>>)
           \/ undo[1] \in {"client", "clientsvc"} /\ send(st, calls, "client", <<undo[2], then>>)
           \/ undo[1] = "filter" /\ send(st, calls, "set_url", <<TRUE, then>>)
           \/ undo[1] = "service" /\ send(st, calls, "service", <<undo[2], then>>)
           \/ undo[1] = "rewrite" /\ send(st, calls, "rw_add", <<undo[2], undo[2], then>>)
  /\ UNCHANGED ui

undoExpires ==
  /\ \E undo \in ui.undos : ui' = [ui EXCEPT !.undos = @ \ {undo}]
  /\ Look

UserStep ==
  \/ typeRules \/ onRulesSubmit \/ onCheckSubmit \/ onDismiss
  \/ handleRuleToggle \/ handleDisableFeature \/ handleDisableFilter
  \/ handleAllowBlockedService \/ handleRemoveRewriteRule
  \/ openEditRewriteModal \/ resetCurrentRewrite \/ handleRewriteUpdate
  \/ handleRewriteDelete \/ clickUndo \/ undoExpires

-----------------------------------------------------------------------------
\* The server's handlers (external); "delay" is the timer before a new check.
serveChange(r, c) ==
  \/ r = "rules" /\ Served(r, c, [srv EXCEPT !.userRules = c.arg[1]], {})
  \/ /\ r = "setting"
     /\ Served(r, c, [srv EXCEPT !.prot = IF c.arg[2] THEN @ \cup {c.arg[1]}
                                          ELSE @ \ {c.arg[1]}], {})
  \/ r = "client" /\ Served(r, c, [srv EXCEPT !.cl = c.arg[1]], {})
  \/ r = "service" /\ Served(r, c, [srv EXCEPT !.blocked = c.arg[1]], {})
  \/ r = "set_url" /\ Served(r, c, [srv EXCEPT !.filter = c.arg[1]], {})
  \/ r = "rw_add" /\ Served(r, c, [srv EXCEPT !.rewrites = @ \cup {c.arg[1]}], {})
  \/ r = "rw_delete" /\ Served(r, c, [srv EXCEPT !.rewrites = @ \ {c.arg[1]}], {})
  \/ /\ r = "rw_update"
     /\ IF c.arg[1] \in srv.rewrites
        THEN Served(r, c, [srv EXCEPT !.rewrites = (@ \ {c.arg[1]}) \cup {c.arg[2]}], {})
        ELSE Refused(r, c)

\* What the server has decides what it can answer to a check; a custom reason
\* names one of the user's rules.
Possible(reason, custom) ==
  CASE reason = "blacklist" ->
         IF custom THEN srv.userRules \cap {"block", "blockC", "other"} # {} ELSE srv.filter
    [] reason = "whitelist" ->
         IF custom THEN srv.userRules \cap {"allow", "allowC", "other"} # {} ELSE srv.filter
    [] reason = "rewriterule" -> custom /\ "other" \in srv.userRules
    [] reason = "service" -> ~custom /\ (srv.blocked \/ srv.cl.svc)
    [] reason = "rewrite" -> ~custom /\ srv.rewrites # {}
    [] reason \in Feature -> ~custom /\ reason \in srv.prot \cup srv.cl.prot
    [] OTHER -> ~custom

Server ==
  /\ \E r \in Requests : \E c \in calls[r] :
       /\ Answer(c) = "out"
       /\ \/ r \in Fetch /\ Served(r, c, srv, srv)
          \/ /\ r = "delay" /\ calls' = Answered(calls, r, c, <<"ok", {}>>)
             /\ UNCHANGED srv
          \/ /\ r = "check"
             /\ \E reason \in Reason, custom \in BOOLEAN :
                  /\ Possible(reason, custom)
                  /\ Served(r, c, srv, [reason |-> reason, custom |-> custom])
          \/ serveChange(r, c)
  /\ UNCHANGED <<st, ui, acts, hist>>

-----------------------------------------------------------------------------
\* getFilteringStatus, initSettings, getClients, getRewritesList,
\* getBlockedServices and getAllBlockedServices.
\* Mutant: a failed first fetch leaves its store uninitialised.
SettledIfOk(s, r, ok) ==
  [s EXCEPT !.busy = @ \ {r}, !.initialized = IF ok THEN @ \cup {r} ELSE @ \ {r}]
settled(s, r, ok) ==
  [s EXCEPT !.busy = @ \ {r}, !.initialized = @ \cup {r}]

fetchDone(r, c) ==
  LET ok == Answer(c) = "ok"
      s == settled(IF ok THEN fetched(st, r, Data(c)) ELSE st, r, ok)
  IN  /\ \E text \in IF r = "status" /\ ok THEN Texts(s, ui) ELSE {ui.text} :
           proceed(c.arg, "yes", s, [ui EXCEPT !.text = text], Ended(calls, r, c))

\* setRules and toggleSetting write the store themselves; the other changes are
\* followed by a fetch, and toggleFilterStatus returns nothing.
refetchOf(r) ==
  IF r = "client" THEN "clients" ELSE IF r = "service" THEN "services"
  ELSE IF r = "set_url" THEN "status" ELSE "rewrites"

\* Mutant: a setting is not written to the store once the server has it.
SettingForgotten(s, c) == s
settingSet(s, c) ==
  [s EXCEPT !.prot = IF c.arg[2] THEN @ \cup {c.arg[1]} ELSE @ \ {c.arg[1]}]

changeDone(r, c) ==
  LET s == [st EXCEPT !.busy = @ \ {r}]
      cs == Ended(calls, r, c)
      then == c.arg[Len(c.arg)]
  IN  IF Answer(c) = "ok"
      THEN /\ \/ /\ r = "rules"
                 /\ LET s1 == [s EXCEPT !.userRules = c.arg[1]]
                    IN  \E text \in Texts(s1, ui) :
                          proceed(then, "yes", s1, [ui EXCEPT !.text = text], cs)
              \/ r = "setting" /\ proceed(then, "yes", settingSet(s, c), ui, cs)
              \/ /\ r \in Change \ {"rules", "setting"}
                 /\ send(s, cs, refetchOf(r), <<"after", IF r = "set_url" THEN "void" ELSE "yes", then>>)
                 /\ UNCHANGED ui
      ELSE /\ proceed(then, IF r = "set_url" THEN "void"
                            ELSE IF r = "rw_add" THEN "yes" ELSE "no", s, ui, cs)

\* A fetch that ends a change: the thunk returns.
afterDone(r, c) ==
  LET ok == Answer(c) = "ok"
      s == settled(IF ok THEN fetched(st, r, Data(c)) ELSE st, r, ok)
  IN  /\ proceed(c.arg[3], c.arg[2], s, ui, Ended(calls, r, c))

\* checkHost; an effect shows the card when a result arrives, the new check
\* after an action shows it in any case.
checkDone(c) ==
  LET ok == Answer(c) = "ok"
      s == [st EXCEPT !.busy = @ \ {"check"}]
  IN  /\ st' = IF ok THEN [s EXCEPT !.check = Data(c)] ELSE s
      /\ ui' = [ui EXCEPT !.visible = @ \/ ok \/ c.arg[1] = "again",
                          !.refreshing = @ /\ c.arg[1] # "submit"]
      /\ calls' = Ended(calls, "check", c)

delayDone(c) ==
  /\ send(st, Ended(calls, "delay", c), "check", <<"again">>)
  /\ UNCHANGED ui

\* The undo that a successful answer allows to offer.
undoGiven(r, c) ==
  LET then == IF r \in Change THEN c.arg[Len(c.arg)] ELSE <<"end">>
  IN  IF Answer(c) = "ok" /\ then[1] = "undoable" THEN {then[2]}
      ELSE IF Answer(c) = "ok" /\ then[1] = "toggled" THEN {<<"rules", then[2]>>}
      ELSE {}

Resume ==
  /\ \E r \in Requests : \E c \in calls[r] :
       /\ Answer(c) # "out"
       /\ \/ r \in Fetch /\ c.arg[1] # "after" /\ fetchDone(r, c)
          \/ r \in Fetch /\ c.arg[1] = "after" /\ afterDone(r, c)
          \/ r \in Change /\ changeDone(r, c)
          \/ r = "check" /\ checkDone(c)
          \/ r = "delay" /\ delayDone(c)
       /\ hist' = [clean |-> hist.clean /\ Answer(c) = "ok",
                   acked |-> hist.acked \cup undoGiven(r, c)]
  /\ UNCHANGED <<srv, acts>>

Next == UserStep \/ Server \/ Resume

Spec == Init /\ [][Next]_vars /\ WF_vars(Server) /\ WF_vars(Resume)

-----------------------------------------------------------------------------
\* The stores, the forms and the requests of the page are well formed.
TypeOK ==
  /\ DOMAIN st = DOMAIN initialState
  /\ st.busy \subseteq Requests /\ st.initialized \subseteq Fetch
  /\ st.userRules \subseteq Rule /\ st.rewrites \subseteq Rewrites
  /\ ui.text \subseteq Rule /\ ui.last \in Scope \cup {"none"}
  /\ DOMAIN calls = Requests
  /\ srv.userRules \subseteq Rule /\ srv.prot \subseteq Feature

\* A processing flag is set only while a handler waits that will clear it, and
\* the loader of a check's result only while the check is out.
FlagsBacked ==
  /\ \A r \in st.busy : Waiting(r)
  /\ ui.refreshing => Waiting("check")

\* When nothing is out, the page shows what the server has, whatever actions and
\* undos came before, if the user did one thing at a time and nothing failed.
ShowsServer ==
  Idle /\ hist.clean =>
    /\ st.userRules = srv.userRules /\ st.filter = srv.filter /\ st.prot = srv.prot
    /\ st.cl = srv.cl /\ st.rewrites = srv.rewrites /\ st.blocked = srv.blocked

\* An undo is offered only for what the server has acknowledged.  Disabling a
\* list is the exception: its thunk does not tell whether it failed.
UndoMeansDone ==
  \A undo \in ui.undos : undo[1] = "filter" \/ undo \in hist.acked

\* The loader goes, also when requests fail.
LoaderEnds == <>~isInitialLoading

=============================================================================
