----------------------------- MODULE WebActions -----------------------------
(***************************************************************************)
(* What the rows of the query log offer: rules, the lists and features     *)
(* that decided about a query, rewrites and the access of clients, most    *)
(* with an undo toast that closes over what the store had before.          *)
(*                                                                         *)
(* One domain and one client are enough: the rules about them are "block", *)
(* "allow" and "blockC" (for the client), "other" is any other rule.  The  *)
(* settings of the features are fetched by other pages only: hist.settings *)
(* says whether one of them was open before.                               *)
(***************************************************************************)
EXTENDS WebCalls

CONSTANTS Reason,    \* the reasons the rows of the log have
          Allowed,   \* the clients the server allows at first, none: everyone
          Settled    \* the fetches of the page that have been answered at first

Rule == {"block", "allow", "blockC", "other"}
Client == {"c1", "c2"}
Fetch == {"status", "rewrites", "access"}
Requests == Fetch \cup {"services", "rules", "set_url", "feature", "safesearch",
                        "service", "rw_delete", "rw_add", "access_get", "access_set"}

\* safesearch: whether it is on, and whether some engine is configured; the
\* store starts with no settings, which the server reads as all off.
NoSafeSearch == [on |-> FALSE, engines |-> FALSE]

initialState ==
  [busy |-> {}, userRules |-> {}, filter |-> FALSE, rewrites |-> {}, blocked |-> <<>>,
   safesearch |-> NoSafeSearch, allowed |-> {}, disallowed |-> {}]

\* The page is mounted and fetches; allServices and the clients only name things.
Init ==
  /\ srv \in [userRules : {{"other"}}, filter : {TRUE}, features : {TRUE}, rewrites : {{"r1"}},
              blocked : {TRUE}, safesearch : {[on |-> TRUE, engines |-> TRUE]},
              allowed : {Allowed}, disallowed : {{}}]
  /\ \E known \in BOOLEAN :
       /\ st = [initialState EXCEPT !.busy = Fetch \ Settled,
                   !.safesearch = IF known THEN srv.safesearch ELSE NoSafeSearch,
                   !.rewrites = IF "rewrites" \in Settled THEN srv.rewrites ELSE {},
                   !.allowed = IF "access" \in Settled THEN srv.allowed ELSE {}]
       /\ hist = [clean |-> TRUE, before |-> srv, older |-> {}, undone |-> FALSE,
                  settings |-> known]
  /\ ui = [undos |-> {}]
  /\ calls = [r \in Requests |->
                IF r \in Fetch \ Settled THEN {[arg |-> <<"end">>, n |-> 1, answer |-> <<>>]} ELSE {}]
  /\ acts = 0

-----------------------------------------------------------------------------
\* Only some thunks have a processing flag.
Flagged == Fetch \cup {"services", "rules", "service", "rw_delete"}
send(s, cs, r, arg) ==
  /\ st' = [s EXCEPT !.busy = @ \cup ({r} \cap Flagged)
                               \cup (IF r \in {"access_get"} THEN {"access_set"} ELSE {})]
  /\ calls' = Sent(cs, r, arg)

stop(s, u, cs) == st' = s /\ ui' = u /\ calls' = cs

\* What follows a thunk that ended with "yes" or "no".  The callback of a toast
\* that ends removes it; one that throws ("thrown") leaves it.
proceed(then, result, s, u, cs) ==
  \/ then[1] = "end" /\ stop(s, u, cs)
  \/ /\ then[1] = "saved"      \* blockDomain, unblockDomain, blockDomainForClient
     /\ IF result = "yes"
        THEN /\ send(s, cs, "status", <<"end">>)
             /\ ui' = [u EXCEPT !.undos = @ \cup {<<"rules", then[2]>>}]
        ELSE stop(s, u, cs)
  \/ /\ then[1] = "allowed"    \* allowBlockedService
     /\ stop(s, IF result = "yes" THEN [u EXCEPT !.undos = @ \cup {<<"service", TRUE>>}]
                ELSE u, cs)
  \/ /\ then[1] = "restored"   \* the rules are back: the store is fetched
     /\ IF result = "yes" THEN send(s, cs, "status", <<"undone", then[2]>>) /\ ui' = u
        ELSE stop(s, [u EXCEPT !.undos = @ \ {then[2]}], cs)
  \/ /\ then[1] = "undone"
     /\ stop(s, [u EXCEPT !.undos = @ \ {then[2]}], cs)

\* A step of the user, with what the server has and the toasts there are before it.
Acts ==
  /\ Act
  /\ hist' = [hist EXCEPT !.clean = @ /\ Idle, !.undone = FALSE, !.before = srv,
                          !.older = ui.undos]

-----------------------------------------------------------------------------
\* getDetailModalActions
detailActions(reason) ==
  IF reason = "allowlists" THEN {"block"}
  ELSE IF reason = "none" THEN {"allow", "block"}
  ELSE IF reason = "service" THEN {"allow", "allow-service"}
  ELSE IF reason \in {"threats", "parental"} THEN {"allow", "disable-feature"}
  ELSE IF reason = "safesearch" THEN {"allow", "disable-safe-search"}
  ELSE IF reason = "filter" THEN {"allow"} \cup (IF st.filter THEN {"disable-filter"} ELSE {})
  ELSE IF reason = "custom" THEN {"allow"}
  ELSE IF reason = "rewrite" /\ st.rewrites # {} THEN {"remove-rewrite"}
  ELSE {}

\* LogTable and LogCard open the details of a row, in DetailModal; ActionFooter
\* offers the actions the stores allow by the time of the click, and closes it.
Chosen(action) ==
  /\ \E reason \in Reason : action \in detailActions(reason)
  /\ UNCHANGED ui

\* blockDomain, unblockDomain and blockDomainForClient: nothing is sent if the
\* rule is there.
\* Mutant: the undo takes the rules that are sent.
SnapshotAfter(rule, opposite) == (st.userRules \ {opposite}) \cup {rule}
previousRules(rule, opposite) == st.userRules

addRule(rule, opposite) ==
  /\ rule \notin st.userRules
  /\ send(st, calls, "rules", <<(st.userRules \ {opposite}) \cup {rule},
                                <<"saved", previousRules(rule, opposite)>>>>)

handleBlock == Chosen("block") /\ Acts /\ addRule("block", "allow")
handleAddToAllowlist == Chosen("allow") /\ Acts /\ addRule("allow", "block")

\* ActionsMenu of a row, whose query was blocked or not.
menuBlock ==
  /\ Acts /\ UNCHANGED ui
  /\ \/ addRule("block", "allow") \/ addRule("allow", "block") \/ addRule("blockC", "allowC")

\* allowBlockedService fetches the blocked services if the store has none.
handleAllowService ==
  /\ Chosen("allow-service") /\ Acts
  /\ \/ st.blocked = <<>> /\ send(st, calls, "services", <<"allow">>)
     \/ st.blocked = <<TRUE>> /\ send(st, calls, "service", <<FALSE, <<"allowed">>>>)

handleDisableFilter ==
  /\ Chosen("disable-filter") /\ Acts
  /\ send(st, calls, "set_url", <<FALSE, <<"off">>>>)

\* disableSafeBrowsing and disableParental, then disableSafeSearch, whose undo
\* sends the settings the store had.
handleDisableFeature ==
  /\ Chosen("disable-feature") /\ Acts
  /\ send(st, calls, "feature", <<FALSE, <<"off">>>>)

handleDisableSafeSearch ==
  /\ Chosen("disable-safe-search") /\ Acts
  /\ send(st, calls, "safesearch", <<[st.safesearch EXCEPT !.on = FALSE], <<"off", st.safesearch>>>>)

handleRemoveRewrite ==
  /\ Chosen("remove-rewrite") /\ Acts
  /\ \E rw \in st.rewrites : send(st, calls, "rw_delete", <<rw, <<"off", rw>>>>)

\* The dialog that asks before a client loses access, or gets it back, and
\* toggleClientBlock, which reads the lists again before it changes them.
handleConfirmDisallow ==
  /\ Acts /\ UNCHANGED ui
  /\ send(st, calls, "access_get", <<"c1" \in st.disallowed>>)

\* useClientBlockConfirm of the dashboard and of the page of top clients: the
\* dialog keeps the action it was opened for; a client that is blocked by now is
\* not blocked again.
handleConfirm ==
  /\ Acts /\ UNCHANGED ui
  /\ \E action \in {"block", "unblock"} :
       /\ action = "block" => "c1" \notin st.disallowed
       /\ send(st, calls, "access_get", <<action = "unblock">>)

\* The undo of the last action, before any other: it can bring back what was
\* there if the feature was on, and if the page knew the settings it sends.
OfLastAction(undo) ==
  /\ undo \notin hist.older
  /\ undo[1] = "feature" => hist.before.features = TRUE
  /\ undo[1] = "safesearch" => hist.settings

\* Undo in a toast.
clickUndo ==
  /\ Act /\ UNCHANGED ui
  /\ \E undo \in ui.undos :
       /\ hist' = [hist EXCEPT !.clean = @ /\ Idle, !.undone = OfLastAction(undo),
                               !.older = ui.undos]
       /\ \/ undo[1] = "rules" /\ send(st, calls, "rules", <<undo[2], <<"restored", undo>>>>)
          \/ undo[1] = "service" /\ send(st, calls, "service", <<TRUE, <<"undone", undo>>>>)
          \/ undo[1] = "set_url" /\ send(st, calls, "set_url", <<TRUE, <<"on", undo>>>>)
          \/ undo[1] = "feature" /\ send(st, calls, "feature", <<TRUE, <<"on", undo>>>>)
          \/ undo[1] = "safesearch" /\ send(st, calls, "safesearch", <<undo[2], <<"on", undo>>>>)
          \/ undo[1] = "rewrite" /\ send(st, calls, "rw_add", <<undo[2], <<"on", undo>>>>)

undoExpires ==
  /\ \E undo \in ui.undos : ui' = [ui EXCEPT !.undos = @ \ {undo}]
  /\ Look

UserStep ==
  \/ handleBlock \/ handleAddToAllowlist \/ menuBlock \/ handleAllowService
  \/ handleDisableFilter \/ handleDisableFeature \/ handleDisableSafeSearch
  \/ handleRemoveRewrite \/ handleConfirmDisallow \/ handleConfirm
  \/ clickUndo \/ undoExpires

-----------------------------------------------------------------------------
\* The server (external).
serve(r, c) ==
  LET new == c.arg[1]
  IN  \/ r \in Fetch \cup {"services", "access_get"} /\ Served(r, c, srv, srv)
      \/ r = "rules" /\ Served(r, c, [srv EXCEPT !.userRules = new], {})
      \/ r = "set_url" /\ Served(r, c, [srv EXCEPT !.filter = new], {})
      \/ r = "feature" /\ Served(r, c, [srv EXCEPT !.features = new], {})
      \/ r = "safesearch" /\ Served(r, c, [srv EXCEPT !.safesearch = new], {})
      \/ r = "service" /\ Served(r, c, [srv EXCEPT !.blocked = new], {})
      \/ r = "rw_delete" /\ Served(r, c, [srv EXCEPT !.rewrites = @ \ {new}], {})
      \/ r = "rw_add" /\ Served(r, c, [srv EXCEPT !.rewrites = @ \cup {new}], {})
      \/ /\ r = "access_set"
         /\ Served(r, c, [srv EXCEPT !.allowed = new[1], !.disallowed = new[2]], {})

Server ==
  /\ \E r \in Requests : \E c \in calls[r] : Answer(c) = "out" /\ serve(r, c)
  /\ UNCHANGED <<st, ui, acts, hist>>

-----------------------------------------------------------------------------
fetched(s, r, d) ==
  IF r = "status" THEN [s EXCEPT !.userRules = d.userRules, !.filter = d.filter]
  ELSE IF r = "rewrites" THEN [s EXCEPT !.rewrites = d.rewrites]
  ELSE IF r = "services" THEN [s EXCEPT !.blocked = <<d.blocked>>]
  ELSE [s EXCEPT !.allowed = d.allowed, !.disallowed = d.disallowed]

\* A fetch ends; after "allow" the services are known, or still not.
fetchDone(r, c) ==
  LET s == [(IF Answer(c) = "ok" THEN fetched(st, r, Data(c)) ELSE st) EXCEPT !.busy = @ \ {r}]
      cs == Ended(calls, r, c)
  IN  \/ /\ c.arg[1] = "allow" /\ s.blocked = <<TRUE>>
         /\ send(s, cs, "service", <<FALSE, <<"allowed">>>>) /\ UNCHANGED ui
      \/ c.arg[1] = "allow" /\ s.blocked # <<TRUE>> /\ stop(s, ui, cs)
      \/ c.arg[1] # "allow" /\ proceed(c.arg, "yes", s, ui, cs)

\* setRules and updateBlockedServices.
storeDone(r, c) ==
  LET s == [st EXCEPT !.busy = @ \ {r}]
      cs == Ended(calls, r, c)
      then == c.arg[2]
  IN  \/ Answer(c) = "failed" /\ proceed(then, "no", s, ui, cs)
      \/ /\ Answer(c) = "ok" /\ r = "rules"
         /\ proceed(then, "yes", [s EXCEPT !.userRules = c.arg[1]], ui, cs)
      \/ /\ Answer(c) = "ok" /\ r = "service"
         /\ send(s, cs, "services", then) /\ UNCHANGED ui

\* disableFilter, disableWithUndo, disableSafeSearch and deleteRewrite: the toast
\* is shown, and the stores are fetched or written.  Undo of one of these throws
\* if its request fails, and the toast stays.
switchDone(r, c) ==
  LET s == [st EXCEPT !.busy = @ \ {r}]
      cs == Ended(calls, r, c)
      off == c.arg[2][1] = "off"
      kind == IF r = "rw_delete" THEN "rewrite" ELSE r
      undo == <<kind, IF kind \in {"rewrite", "safesearch"} THEN c.arg[2][2] ELSE {}>>
      u == IF off THEN [ui EXCEPT !.undos = @ \cup {undo}] ELSE ui
      gone == [u EXCEPT !.undos = @ \ {c.arg[2][2]}]
      after == IF off THEN <<"end">> ELSE <<"undone", c.arg[2][2]>>
  IN  \/ Answer(c) = "failed" /\ stop(s, ui, cs)
      \/ /\ Answer(c) = "ok" /\ r \in {"set_url", "rw_delete", "rw_add"}
         /\ send(s, cs, IF r = "set_url" THEN "status" ELSE "rewrites", after) /\ ui' = u
      \/ /\ Answer(c) = "ok" /\ r = "feature"
         /\ stop(s, IF off THEN u ELSE gone, cs)
      \/ /\ Answer(c) = "ok" /\ r = "safesearch"
         /\ stop([s EXCEPT !.safesearch = c.arg[1]], IF off THEN u ELSE gone, cs)

\* getNextClientAccessList: with a list of allowed clients that list decides.
getNextClientAccessList(lists, disallowed) ==
  LET mode == lists.allowed # {}
  IN  IF mode
      THEN <<IF disallowed THEN lists.allowed \cup {"c1"} ELSE lists.allowed \ {"c1"},
             lists.disallowed>>
      ELSE <<lists.allowed,
             IF disallowed THEN lists.disallowed \ {"c1"} ELSE lists.disallowed \cup {"c1"}>>

accessDone(r, c) ==
  LET cs == Ended(calls, r, c)
      s == [st EXCEPT !.busy = @ \ {"access_set"}]
  IN  \/ Answer(c) = "failed" /\ stop(s, ui, cs)
      \/ /\ Answer(c) = "ok" /\ r = "access_get"
         /\ send(st, cs, "access_set", <<getNextClientAccessList(Data(c), c.arg[1])>>)
         /\ UNCHANGED ui
      \/ /\ Answer(c) = "ok" /\ r = "access_set"
         /\ stop([s EXCEPT !.allowed = c.arg[1][1], !.disallowed = c.arg[1][2]], ui, cs)

Resume ==
  /\ \E r \in Requests : \E c \in calls[r] :
       /\ Answer(c) # "out"
       /\ \/ r \in Fetch \cup {"services"} /\ fetchDone(r, c)
          \/ r \in {"rules", "service"} /\ storeDone(r, c)
          \/ r \in {"set_url", "feature", "safesearch", "rw_delete", "rw_add"} /\ switchDone(r, c)
          \/ r \in {"access_get", "access_set"} /\ accessDone(r, c)
       /\ hist' = Learned(hist, c)
  /\ UNCHANGED <<srv, acts>>

Next == UserStep \/ Server \/ Resume

Spec == Init /\ [][Next]_vars /\ WF_vars(Server) /\ WF_vars(Resume)

-----------------------------------------------------------------------------
\* The stores, the forms and the requests of the page are well formed.
TypeOK ==
  /\ DOMAIN st = DOMAIN initialState
  /\ st.busy \subseteq Requests /\ st.userRules \subseteq Rule
  /\ st.allowed \subseteq Client /\ st.disallowed \subseteq Client
  /\ DOMAIN calls = Requests

\* A processing flag is set only while a handler waits that will clear it.
FlagsBacked ==
  \A r \in st.busy : Waiting(r) \/ (r = "access_set" /\ Waiting("access_get"))

\* When nothing is out, the stores have what the server has, if the user did one
\* thing at a time and nothing failed.
ShowsServer ==
  Idle /\ hist.clean =>
    /\ st.userRules = srv.userRules /\ st.filter = srv.filter /\ st.rewrites = srv.rewrites
    /\ st.blocked \in {<<>>, <<srv.blocked>>}
    /\ st.allowed = srv.allowed /\ st.disallowed = srv.disallowed

\* The undo of the last action brings the server back to where it was before it,
\* whatever actions and undos came earlier, if the user did one thing at a time
\* and nothing failed.
UndoRestores == Idle /\ hist.clean /\ hist.undone => srv = hist.before

=============================================================================
