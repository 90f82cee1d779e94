---------------------------- MODULE WebRewrites -----------------------------
(***************************************************************************)
(* The page for DNS rewrites, with stores/rewrites.ts.  A rewrite is a     *)
(* domain with its answer, here one value, and whether it is enabled; the  *)
(* server keeps a list of them and takes an addition without looking for   *)
(* an equal one.                                                           *)
(***************************************************************************)
EXTENDS WebCalls, SequencesExt

CONSTANT Rewrite     \* pairs of a domain and an answer

NoRewrite == ""
Requests == {"list", "settings", "add", "update", "delete", "set"}
EntryOf(rs) == {rs[i].rw : i \in DOMAIN rs}
IndexOf(rs, rw) == SelectInSeq(rs, LAMBDA e : e.rw = rw)

initialState ==
  [processing |-> TRUE, initialized |-> FALSE, processingAdd |-> FALSE,
   processingDelete |-> FALSE, processingUpdate |-> FALSE,
   processingSettings |-> FALSE, list |-> <<>>, enabled |-> TRUE]

-----------------------------------------------------------------------------
\* The page is mounted; it fetches the list and the settings.
Init ==
  /\ srv \in [list : {<<>>} \cup {<<[rw |-> r, on |-> b]>> : r \in Rewrite, b \in BOOLEAN},
              enabled : BOOLEAN]
  /\ st = [initialState EXCEPT !.processingSettings = TRUE]
  /\ ui = [modalId |-> "none", cur |-> NoRewrite, curOn |-> FALSE,
           confirm |-> {}, settingsLoaded |-> FALSE]
  /\ calls = Sent(Sent(NoCalls(Requests), "list", <<>>), "settings", <<>>)
  /\ acts = 0
  /\ hist = [clean |-> TRUE, failed |-> FALSE, overlap |-> FALSE]
    \* a request has failed; two fetches of the list were out at once

\* A switch of RewritesTable: updateRewrite with the row the table shows.
toggleRewrite ==
  /\ ~st.processingUpdate /\ st.enabled /\ UserActs
  /\ \E i \in DOMAIN st.list :
       calls' = Sent(calls, "update", <<st.list[i].rw, st.list[i].rw, ~st.list[i].on>>)
  /\ st' = [st EXCEPT !.processingUpdate = TRUE]
  /\ UNCHANGED ui

openEditRewriteModal ==
  /\ ~st.processingUpdate
  /\ \E i \in DOMAIN st.list :
       ui' = [ui EXCEPT !.modalId = "edit", !.cur = st.list[i].rw, !.curOn = st.list[i].on]
  /\ Look

openDeleteRewriteModal ==
  /\ ~st.processingDelete
  /\ \E i \in DOMAIN st.list :
       ui' = [ui EXCEPT !.modalId = "delete", !.cur = st.list[i].rw, !.curOn = st.list[i].on]
  /\ Look

openAddRewiresModal == ui' = [ui EXCEPT !.modalId = "add"] /\ Look

closeDialog(u) == [u EXCEPT !.modalId = "none", !.cur = NoRewrite, !.curOn = FALSE]

handleCancel == ui.modalId # "none" /\ ui' = closeDialog(ui) /\ Look

\* The validators of ConfigureRewritesModal that look at other rewrites: the
\* rewrite being edited may keep its value.
validateRewriteNotExists(rw) ==
  rw \notin EntryOf(st.list) \/ (ui.modalId = "edit" /\ rw = ui.cur)

\* Mutant: Save stays enabled while the list is fetched again.
SubmitWhileFetching == ~st.processingAdd /\ ~st.processingUpdate
submitEnabled == ~st.processingAdd /\ ~st.processingUpdate /\ ~st.processing

\* ConfigureRewritesModal closes without waiting for the answer.
handleFormSubmit ==
  /\ ui.modalId \in {"add", "edit"} /\ submitEnabled /\ UserActs
  /\ \E rw \in Rewrite :
       /\ validateRewriteNotExists(rw)
       /\ IF ui.modalId = "add"
          THEN /\ st' = [st EXCEPT !.processingAdd = TRUE]
               /\ calls' = Sent(calls, "add", <<rw>>)
          ELSE /\ st' = [st EXCEPT !.processingUpdate = TRUE]
               /\ calls' = Sent(calls, "update", <<ui.cur, rw, ui.curOn>>)
  /\ ui' = closeDialog(ui)

handleDeleteConfirm ==
  /\ ui.modalId = "delete" /\ ~st.processingDelete /\ UserActs
  /\ st' = [st EXCEPT !.processingDelete = TRUE]
  /\ calls' = Sent(calls, "delete", <<ui.cur>>)
  /\ ui' = closeDialog(ui)

\* The switch for all rewrites asks first; only its first fetch disables it.
openGlobalToggleConfirm ==
  /\ ui.settingsLoaded \/ ~st.processingSettings
  /\ ui' = [ui EXCEPT !.confirm = {~st.enabled}]
  /\ Look

closeGlobalToggleConfirm ==
  ui.confirm # {} /\ ui' = [ui EXCEPT !.confirm = {}] /\ Look

confirmGlobalToggle ==
  /\ UserActs
  /\ \E b \in ui.confirm : calls' = Sent(calls, "set", <<b>>)
  /\ st' = [st EXCEPT !.processingSettings = TRUE]
  /\ ui' = [ui EXCEPT !.confirm = {}]

UserStep ==
  \/ toggleRewrite \/ openEditRewriteModal \/ openDeleteRewriteModal
  \/ openAddRewiresModal \/ handleCancel \/ handleFormSubmit
  \/ handleDeleteConfirm \/ openGlobalToggleConfirm
  \/ closeGlobalToggleConfirm \/ confirmGlobalToggle

-----------------------------------------------------------------------------
\* The server's handlers under /control/rewrite (external).

List(l) == [srv EXCEPT !.list = l]

Serve(r, c) ==
  \/ r \in {"list", "settings"} /\ Served(r, c, srv, srv)
  \/ r = "set" /\ Served(r, c, [srv EXCEPT !.enabled = c.arg[1]], {})
  \/ r = "add" /\ Served(r, c, List(Append(srv.list, [rw |-> c.arg[1], on |-> TRUE])), {})
  \/ r = "delete" /\ Served(r, c, List(SelectSeq(srv.list, LAMBDA e : e.rw # c.arg[1])), {})
  \/ /\ r = "update"
     /\ LET i == IndexOf(srv.list, c.arg[1])
        IN  IF i = 0
            THEN Refused(r, c)
            ELSE Served(r, c, List([srv.list EXCEPT ![i] =
                                      [rw |-> c.arg[2], on |-> c.arg[3]]]), {})

Server ==
  /\ \E r \in Requests : \E c \in calls[r] : Answer(c) = "out" /\ Serve(r, c)
  /\ UNCHANGED <<st, ui, acts, hist>>

-----------------------------------------------------------------------------
getRewritesList(s, cs) ==
  /\ st' = [s EXCEPT !.processing = TRUE]
  /\ calls' = Sent(cs, "list", <<>>)

listDone(c) ==
  LET s == [st EXCEPT !.processing = FALSE, !.initialized = TRUE]
  IN  /\ calls' = Ended(calls, "list", c)
      /\ IF Answer(c) = "ok"
         THEN st' = [s EXCEPT !.list = Data(c).list]
         ELSE st' = s
      /\ UNCHANGED ui

\* addRewrite, updateRewrite and deleteRewrite: the flag is cleared, then the
\* list is fetched or the error shown.
changeDone(r, c, s) ==
  /\ IF Answer(c) = "ok"
     THEN getRewritesList(s, Ended(calls, r, c))
     ELSE st' = s /\ calls' = Ended(calls, r, c)
  /\ UNCHANGED ui

\* getRewriteSettings and updateRewriteSettings; an effect of the page notes
\* that the settings have been fetched once.
settingsDone(r, c) ==
  LET s == [st EXCEPT !.processingSettings = FALSE]
      on == IF r = "set" THEN c.arg[1] ELSE Data(c).enabled
  IN  /\ calls' = Ended(calls, r, c)
      /\ IF Answer(c) = "ok"
         THEN st' = [s EXCEPT !.enabled = on]
         ELSE st' = s
      /\ ui' = [ui EXCEPT !.settingsLoaded = TRUE]

Resume ==
  /\ \E r \in Requests : \E c \in calls[r] :
       /\ Answer(c) # "out"
       /\ \/ r = "list" /\ listDone(c)
          \/ r = "add" /\ changeDone(r, c, [st EXCEPT !.processingAdd = FALSE])
          \/ r = "update" /\ changeDone(r, c, [st EXCEPT !.processingUpdate = FALSE])
          \/ r = "delete" /\ changeDone(r, c, [st EXCEPT !.processingDelete = FALSE])
          \/ r \in {"settings", "set"} /\ settingsDone(r, c)
       /\ hist' = [clean |-> hist.clean /\ Answer(c) = "ok",
                   failed |-> hist.failed \/ Answer(c) = "failed",
                   overlap |-> hist.overlap \/ Cardinality(calls'["list"]) > 1]
  /\ UNCHANGED <<srv, acts>>

Next == UserStep \/ Server \/ Resume

Spec == Init /\ [][Next]_vars /\ WF_vars(Server) /\ WF_vars(Resume)

-----------------------------------------------------------------------------
\* The stores, the forms and the requests of the page are well formed.
TypeOK ==
  /\ DOMAIN st = DOMAIN initialState /\ EntryOf(st.list) \subseteq Rewrite
  /\ ui.modalId \in {"none", "add", "edit", "delete"}
  /\ ui.cur \in Rewrite \cup {NoRewrite} /\ ui.confirm \subseteq BOOLEAN
  /\ DOMAIN calls = Requests
  /\ EntryOf(srv.list) \subseteq Rewrite

\* A processing flag is set only while a handler waits that will clear it.
FlagsBacked ==
  /\ st.processing => Waiting("list")
  /\ st.processingAdd => Waiting("add")
  /\ st.processingUpdate => Waiting("update")
  /\ st.processingDelete => Waiting("delete")
  /\ st.processingSettings => Waiting("settings") \/ Waiting("set")

\* The page shows the rewrites the server has once nothing is out, if the user
\* did one thing at a time and nothing failed.
ShowsServer ==
  Idle /\ hist.clean => st.list = srv.list /\ st.enabled = srv.enabled

\* The check for an equal rewrite is made against the list the page has; Save
\* is disabled while that list may be behind.  So the page gives the server no
\* two equal rewrites, unless a request failed or the answers of two fetches of
\* the list could have overtaken each other.
RewritesUnique ==
  ~hist.failed /\ ~hist.overlap
    /\ (\A r \in Requests : \A c \in calls[r] : Answer(c) # "failed")
    => Cardinality(EntryOf(srv.list)) = Len(srv.list)

=============================================================================
