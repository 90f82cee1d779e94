------------------------------ MODULE WebLists ------------------------------
(***************************************************************************)
(* The pages of the web interface for blocklists and allowlists.           *)
(*                                                                         *)
(* st holds the part of stores/filtering.ts the pages use: one of its two  *)
(* arrays of lists (ui.kind says which), as a function from URLs.  ui      *)
(* holds the open modal (stores/modals.ts), the list a modal is about and  *)
(* the ticks of the catalogue (signals of the components).                 *)
(***************************************************************************)
EXTENDS WebCalls

CONSTANTS Url,       \* URLs of lists
          Catalog    \* of them, those in the catalogue of known blocklists

NoUrl == ""
Entry == {"absent", "on", "off"}
Present(fs) == {u \in DOMAIN fs : fs[u] # "absent"}
Requests == {"status", "add", "batch", "remove", "set_url", "refresh", "config"}

\* The intervals on offer, and the one that is typed, which must be in its range.
intervalValid(hours) == hours \in 1 .. 8760
Intervals == {24} \cup {hours \in {0, 30, 9000} : intervalValid(hours)}

initialState ==
  [processingFilters |-> FALSE, filtersInitialized |-> FALSE,
   processingAddFilter |-> FALSE, processingRefreshFilters |-> FALSE,
   processingConfigFilter |-> FALSE, processingRemoveFilter |-> FALSE,
   processingSetConfig |-> FALSE, interval |-> 24,
   filters |-> [u \in Url |-> "absent"]]

-----------------------------------------------------------------------------
\* Thunks of stores/filtering.ts up to their first await.  "then" is what the
\* caller does once the thunk has ended.

getFilteringStatus(s, cs, then) ==
  /\ st' = [s EXCEPT !.processingFilters = TRUE]
  /\ calls' = Sent(cs, "status", then)

addFilter(url, then) ==
  /\ st' = [st EXCEPT !.processingAddFilter = TRUE]
  /\ calls' = Sent(calls, "add", <<url, then>>)

removeFilter(s, cs, url, then) ==
  /\ st' = [s EXCEPT !.processingRemoveFilter = TRUE]
  /\ calls' = Sent(cs, "remove", <<url, then>>)

setURL(url, new, enabled, then) ==
  /\ st' = [st EXCEPT !.processingConfigFilter = TRUE]
  /\ calls' = Sent(calls, "set_url", <<url, new, enabled, then>>)

toggleFilterStatus(url, enabled) == setURL(url, url, enabled, <<"done">>)

editFilter(url, new, enabled, then) == setURL(url, new, enabled, then)

\* The list a closed modal was about is not read again.
closeModal(u) == [u EXCEPT !.modalId = "none", !.cur = NoUrl, !.curOn = TRUE]
openModal(u, m) == [u EXCEPT !.modalId = m]

\* getSelectedValues and the effect that ticks what is in use.
selectedValues(fs) == Catalog \cap Present(fs)

-----------------------------------------------------------------------------
\* The page: Blocklists or Allowlists is mounted, and fetches the status.
Init ==
  /\ \E kind \in {"block", "allow"} :
       ui = [kind |-> kind, modalId |-> "none", cur |-> NoUrl, curOn |-> TRUE,
             ticks |-> {}]
  /\ srv \in [lists : [Url -> {"absent", "on"}], interval : {24}]
  /\ st = [initialState EXCEPT !.processingFilters = TRUE]
  /\ calls = Sent(NoCalls(Requests), "status", <<"done">>)
  /\ acts = 0 /\ hist = [clean |-> TRUE, asked |-> {}]
    \* hist.asked: the lists the user asked to remove

Shown == st.filtersInitialized      \* otherwise the page shows a loader

handleRefresh ==
  /\ Shown /\ ~st.processingRefreshFilters /\ UserActs
  /\ st' = [st EXCEPT !.processingRefreshFilters = TRUE]
  /\ calls' = Sent(calls, "refresh", <<>>)
  /\ UNCHANGED ui

\* A switch of ListsTable; it acts on the row it was drawn for.
handleToggle ==
  /\ Shown /\ ~st.processingConfigFilter /\ UserActs
  /\ \E u \in Present(st.filters) : toggleFilterStatus(u, st.filters[u] = "off")
  /\ UNCHANGED ui

\* The buttons of ListsTable and of the page that open a modal.
openRowModal ==
  /\ Shown /\ ~st.processingConfigFilter
  /\ \E u \in Present(st.filters), m \in {"edit", "delete"} :
       ui' = [openModal(ui, m) EXCEPT !.cur = u, !.curOn = st.filters[u] = "on"]
  /\ Look

openPageModal ==
  /\ Shown
  /\ \/ ui' = openModal(ui, "add")
     \/ ~st.processingRefreshFilters /\ ui' = openModal(ui, "interval")
  /\ Look

-----------------------------------------------------------------------------
\* ConfigureAllowlistModal: waits for the thunk, then closes whatever modal is
\* open, also when the thunk failed.
submitAllowlist ==
  /\ ui.kind = "allow" /\ ~st.processingAddFilter /\ UserActs
  /\ \E url \in Url :
       \/ ui.modalId = "add" /\ addFilter(url, <<"close">>)
       \/ ui.modalId = "edit" /\ editFilter(ui.cur, url, ui.curOn, <<"close">>)
  /\ UNCHANGED ui

\* ConfigureBlocklistModal.  The edit form sends a name and a URL only: the
\* server reads a missing "enabled" as false.
submitManual ==
  /\ ui.kind = "block" /\ ~st.processingAddFilter /\ UserActs
  /\ \E url \in Url :
       \/ ui.modalId = "add" /\ addFilter(url, <<"done">>)
       \/ ui.modalId = "edit" /\ editFilter(ui.cur, url, FALSE, <<"done">>)
  /\ ui' = closeModal(ui)

\* FiltersList: a checkbox of the catalogue.
handleTick ==
  /\ ui.kind = "block" /\ ui.modalId = "add" /\ ~st.processingAddFilter
  /\ \E u \in Catalog :
       \/ u \in ui.ticks /\ ui' = [ui EXCEPT !.ticks = @ \ {u}]
                         /\ hist' = [hist EXCEPT !.asked = @ \cup {u}]
       \/ u \notin ui.ticks /\ ui' = [ui EXCEPT !.ticks = @ \cup {u}]
                            /\ UNCHANGED hist
  /\ UNCHANGED <<st, calls, srv, acts>>

filtersToAdd == ui.ticks \ Present(st.filters)

\* Mutant: everything the store has is removed, ticked or not.
AllToRemove(fs, ticks) == selectedValues(fs)
filtersToRemove(fs, ticks) == selectedValues(fs) \ ticks

\* The loop over filtersToRemove, which waits for each removal, and the end of
\* the submission.  The order of the loop is that of the catalogue: any.
removeAll(s, u, cs, rest) ==
  IF rest = {}
  THEN st' = s /\ ui' = closeModal(u) /\ calls' = cs
  ELSE /\ \E url \in rest : removeFilter(s, cs, url, <<"loop", rest \ {url}>>)
       /\ ui' = u

\* What the caller of a thunk does once the thunk has ended.  After a batch of
\* additions the removals are taken from the lists and ticks of that moment.
proceed(then, s, u, cs) ==
  \/ then[1] = "done" /\ st' = s /\ ui' = u /\ calls' = cs
  \/ then[1] = "close" /\ st' = s /\ ui' = closeModal(u) /\ calls' = cs
  \/ then[1] = "loop" /\ removeAll(s, u, cs, then[2])
  \/ /\ then[1] = "batch"
     /\ removeAll([s EXCEPT !.processingAddFilter = FALSE], u, cs,
                  filtersToRemove(s.filters, u.ticks))

submitCatalog ==
  /\ ui.kind = "block" /\ ui.modalId = "add" /\ ~st.processingAddFilter
  /\ UserActs
  /\ IF filtersToAdd # {}
     THEN /\ st' = [st EXCEPT !.processingAddFilter = TRUE]
          /\ calls' = Sent(calls, "batch",
                           [out |-> filtersToAdd, ok |-> {}, bad |-> {}])
          /\ UNCHANGED ui
     ELSE removeAll(st, ui, calls, filtersToRemove(st.filters, ui.ticks))

\* DeleteBlocklistModal and DeleteAllowlistModal.
handleDeleteConfirm ==
  /\ ui.modalId = "delete" /\ ui.cur # NoUrl /\ ~st.processingRemoveFilter
  /\ Act
  /\ removeFilter(st, calls, ui.cur, <<"done">>)
  /\ hist' = [Noted(hist) EXCEPT !.asked = @ \cup {ui.cur}]
  /\ ui' = closeModal(ui)

\* Cancel and close of every modal; the ticks of the catalogue stay.
handleCancel ==
  /\ ui.modalId # "none"
  /\ ui' = closeModal(ui)
  /\ Look

\* FilterUpdateModal; a custom interval outside its range is not sent.
submitInterval ==
  /\ ui.modalId = "interval" /\ ~st.processingSetConfig /\ UserActs
  /\ \E i \in Intervals :
       /\ st' = [st EXCEPT !.processingSetConfig = TRUE]
       /\ calls' = Sent(calls, "config", <<i>>)
  /\ ui' = closeModal(ui)

UserStep ==
  \/ handleRefresh \/ handleToggle \/ openRowModal \/ openPageModal
  \/ submitAllowlist \/ submitManual \/ handleTick \/ submitCatalog
  \/ handleDeleteConfirm \/ handleCancel \/ submitInterval

-----------------------------------------------------------------------------
\* The server's handlers under /control/filtering (external).

Lists(ls) == [srv EXCEPT !.lists = ls]

serveSetURL(c) ==
  LET url == c.arg[1]
      new == c.arg[2]
      on == IF c.arg[3] THEN "on" ELSE "off"
      ls == srv.lists
  IN  IF ls[url] = "absent" \/ (new # url /\ ls[new] # "absent")
      THEN Refused("set_url", c)
      ELSE Served("set_url", c,
             Lists([u \in Url |-> IF u = new THEN on
                                  ELSE IF u = url THEN "absent" ELSE ls[u]]), {})

\* One request of Promise.allSettled.
serveBatch(c) ==
  \E u \in c.arg.out :
    LET settled(field) ==
          [calls EXCEPT !["batch"] = (@ \ {c}) \cup
             {[c EXCEPT !.arg.out = @ \ {u}, !.arg[field] = @ \cup {u}]}]
        added == Lists([srv.lists EXCEPT ![u] = "on"])
    IN  \/ /\ srv.lists[u] = "absent"
           /\ calls' = settled("ok") /\ srv' = added
        \/ calls' = settled("bad") /\ srv' \in {srv} \cup
             (IF srv.lists[u] = "absent" THEN {added} ELSE {})

Serve(r, c) ==
  \/ r = "status" /\ Served(r, c, srv, srv)
  \/ /\ r = "add"
     /\ IF srv.lists[c.arg[1]] # "absent"
        THEN Refused(r, c)
        ELSE Served(r, c, Lists([srv.lists EXCEPT ![c.arg[1]] = "on"]), {})
  \/ r = "remove" /\ Served(r, c, Lists([srv.lists EXCEPT ![c.arg[1]] = "absent"]), {})
  \/ r = "set_url" /\ serveSetURL(c)
  \/ r = "refresh" /\ Served(r, c, srv, {})
  \/ r = "config" /\ Served(r, c, [srv EXCEPT !.interval = c.arg[1]], {})

Server ==
  /\ \/ \E r \in Requests \ {"batch"} : \E c \in calls[r] :
          Answer(c) = "out" /\ Serve(r, c)
     \/ \E c \in calls["batch"] : serveBatch(c)
  /\ UNCHANGED <<st, ui, acts, hist>>

-----------------------------------------------------------------------------
\* What a handler does once its answer is there.

statusDone(c) ==
  LET s == [st EXCEPT !.processingFilters = FALSE, !.filtersInitialized = TRUE]
      cs == Ended(calls, "status", c)
  IN  IF Answer(c) = "ok"
      THEN /\ proceed(c.arg, [s EXCEPT !.filters = Data(c).lists,
                                      !.interval = Data(c).interval],
                      [ui EXCEPT !.ticks = selectedValues(Data(c).lists)], cs)
      ELSE /\ proceed(c.arg, s, ui, cs)

\* Promise.allSettled is fulfilled once every request has an answer.
batchDone(c) ==
  /\ c.arg.out = {}
  /\ LET cs == Ended(calls, "batch", c)
     IN  IF c.arg.ok # {}
         THEN getFilteringStatus(st, cs, <<"batch">>) /\ UNCHANGED ui
         ELSE proceed(<<"batch">>, st, ui, cs)

\* addFilter, removeFilter, toggleFilterStatus, editFilter and refreshFilters:
\* the flag is cleared, then the status is fetched or the error is shown.
thunkDone(r, c, s, then) ==
  LET cs == Ended(calls, r, c)
  IN  IF Answer(c) = "ok"
      THEN /\ getFilteringStatus(s, cs, then)
           /\ UNCHANGED ui
      ELSE /\ proceed(then, s, ui, cs)

addDone(c) ==
  thunkDone("add", c, [st EXCEPT !.processingAddFilter = FALSE],
            c.arg[2])

removeDone(c) ==
  thunkDone("remove", c, [st EXCEPT !.processingRemoveFilter = FALSE],
            c.arg[2])

setURLDone(c) ==
  thunkDone("set_url", c, [st EXCEPT !.processingConfigFilter = FALSE],
            c.arg[4])

refreshDone(c) ==
  thunkDone("refresh", c, [st EXCEPT !.processingRefreshFilters = FALSE],
            <<"done">>)

configDone(c) ==
  LET s == [st EXCEPT !.processingSetConfig = FALSE]
  IN  /\ calls' = Ended(calls, "config", c)
      /\ st' = IF Answer(c) = "ok" THEN [s EXCEPT !.interval = c.arg[1]] ELSE s
      /\ UNCHANGED ui

Resume ==
  /\ \/ /\ \E c \in calls["batch"] :
            /\ batchDone(c)
            /\ hist' = [hist EXCEPT !.clean = @ /\ c.arg.bad = {}]
     \/ \E r \in Requests \ {"batch"} : \E c \in calls[r] :
          /\ Answer(c) # "out"
          /\ \/ r = "status" /\ statusDone(c)
             \/ r = "add" /\ addDone(c)
             \/ r = "remove" /\ removeDone(c)
             \/ r = "set_url" /\ setURLDone(c)
             \/ r = "refresh" /\ refreshDone(c)
             \/ r = "config" /\ configDone(c)
          /\ hist' = Learned(hist, c)
  /\ UNCHANGED <<srv, acts>>

Next == UserStep \/ Server \/ Resume

Spec == Init /\ [][Next]_vars /\ WF_vars(Server) /\ WF_vars(Resume)

-----------------------------------------------------------------------------
\* The stores, the forms and the requests of the page are well formed.
TypeOK ==
  /\ DOMAIN st = DOMAIN initialState
  /\ st.filters \in [Url -> Entry] /\ st.interval \in Intervals
  /\ ui.modalId \in {"none", "add", "edit", "delete", "interval"}
  /\ ui.cur \in Url \cup {NoUrl} /\ ui.ticks \subseteq Catalog
  /\ DOMAIN calls = Requests
  /\ srv.lists \in [Url -> Entry] /\ hist.asked \subseteq Url

\* No button is disabled for good: a processing flag is set only while a handler
\* that will clear it waits for an answer.
FlagsBacked ==
  /\ st.processingFilters => Waiting("status")
  /\ st.processingAddFilter =>
       \/ Waiting("add") \/ Waiting("batch")
       \/ \E c \in calls["status"] : c.arg = <<"batch">>
  /\ st.processingRemoveFilter => Waiting("remove")
  /\ st.processingConfigFilter => Waiting("set_url")
  /\ st.processingRefreshFilters => Waiting("refresh")
  /\ st.processingSetConfig => Waiting("config")

\* The page shows the lists the server has once nothing is out, if the user did
\* one thing at a time and nothing failed.
ShowsServer ==
  Idle /\ hist.clean => st.filters = srv.lists /\ st.interval = srv.interval

\* A list is removed only if the user confirmed it or took its tick away, also
\* when the removal is worked out after the additions of the same form.
RemovalsAsked ==
  \A c \in calls["remove"] :
    /\ c.arg[1] \in hist.asked
    /\ c.arg[2][1] = "loop" => c.arg[2][2] \subseteq hist.asked

=============================================================================
