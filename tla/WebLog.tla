------------------------------- MODULE WebLog -------------------------------
(***************************************************************************)
(* The query log page, with stores/queryLogs.ts: filters in the URL, pages *)
(* of entries, the infinite scroll.  What the rows offer is in WebActions. *)
(*                                                                         *)
(* The server's log is 1 .. srv, the newest last; srv grows with queries.  *)
(* Odd entries are blocked and even ones rewritten, and those in Found     *)
(* match the search "x".  A time is the number of an entry, 0 the empty    *)
(* string that ends the log.                                               *)
(***************************************************************************)
EXTENDS WebCalls

CONSTANTS MaxLog,    \* entries the server's log can have
          Found,     \* those the search "x" matches
          PageLimit, \* QUERY_LOGS_PAGE_LIMIT
          Status     \* the statuses and the reasons the user chooses from

Search == {"", "x"}
Filter == [search : Search, status : Status, reason : Status]
DEFAULT_LOGS_FILTER == [search |-> "", status |-> "all", reason |-> "all"]
Requests == {"get", "more"}

Kind(e) == IF e % 2 = 1 THEN "blocked" ELSE "rewritten"

\* STATUS_TO_REASONS and REASON_FILTER_TO_REASONS; a reason hides the status.
getReasons(filter) == IF filter.reason # "all" THEN filter.reason ELSE filter.status
hasStatus(e, status) == status \in {"all", Kind(e)}
Matches(e, filter) ==
  /\ filter.search = "x" => e \in Found
  /\ hasStatus(e, getReasons(filter))

filterLogsByStatus(entries, status) ==
  SelectSeq(entries, LAMBDA e : hasStatus(e, status))

initialState ==
  [logs |-> <<>>, oldest |-> 0, filter |-> DEFAULT_LOGS_FILTER, isEntireLog |-> FALSE,
   busy |-> {"get"}]

visibleLogs == filterLogsByStatus(st.logs, st.filter.status)
isRequestInFlight == st.busy # {}

-----------------------------------------------------------------------------
\* fetchLogsWithParams: the activation keeps the filter it was started with, the
\* entries it has gathered and the time it asks for.
fetch(s, cs, r, filter, total, older) ==
  /\ st' = [s EXCEPT !.busy = @ \cup {r}]
  /\ calls' = Sent(cs, r, [filter |-> filter, total |-> total, older |-> older])

setFilteredLogs(filter) ==
  fetch([st EXCEPT !.filter = filter], calls, "get", filter, <<>>, 0)

\* The page opens with any filter in its URL.
Init ==
  /\ srv \in 0 .. MaxLog
  /\ \E filter \in Filter :
       /\ st = [initialState EXCEPT !.filter = filter]
       /\ ui = [url |-> filter, text |-> filter.search, timer |-> <<>>]
       /\ calls = [r \in Requests |->
            IF r = "get" THEN {[arg |-> [filter |-> filter, total |-> <<>>, older |-> 0],
                                n |-> 1, answer |-> <<>>]} ELSE {}]
  /\ acts = 0
  /\ hist = [clean |-> TRUE]

\* navigate: an effect on the URL sets the filter and loads.  A URL that is
\* shown already changes nothing.
navigate(filter, u) ==
  IF filter = ui.url
  THEN ui' = u /\ UNCHANGED <<st, calls>>
  ELSE /\ ui' = [u EXCEPT !.url = filter,
                          !.text = IF filter.search # st.filter.search
                                   THEN filter.search ELSE @]
       /\ setFilteredLogs(filter)

\* Header: the search waits for a pause of the typing.
handleSearchChange ==
  /\ UserActs
  /\ \E value \in Search : ui' = [ui EXCEPT !.text = value, !.timer = <<value>>]
  /\ UNCHANGED <<st, calls>>

handleSearch ==
  /\ ui.timer # <<>>
  /\ navigate([st.filter EXCEPT !.search = ui.timer[1]], [ui EXCEPT !.timer = <<>>])
  /\ hist' = Noted(hist)
  /\ UNCHANGED <<srv, acts>>

handleClearSearch ==
  /\ ui.text # "" /\ ~isRequestInFlight /\ UserActs
  /\ navigate([st.filter EXCEPT !.search = ""], [ui EXCEPT !.text = "", !.timer = <<>>])

handleStatusFilterChange ==
  /\ UserActs
  /\ \E status \in Status :
       navigate([st.filter EXCEPT !.status = status, !.reason = "all"], ui)

handleReasonFilterChange ==
  /\ UserActs
  /\ \E reason \in Status : navigate([st.filter EXCEPT !.reason = reason], ui)

handleRefresh ==
  /\ ~isRequestInFlight /\ Act
  /\ setFilteredLogs(st.filter)
  /\ UNCHANGED <<ui, hist>>

\* InfiniteScrollTrigger near the end of the page, and handleLoadMore.
\* Mutant: another page is asked for while a request is out.
LoadAnyTime == TRUE
mayLoadMore == ~isRequestInFlight

handleLoadMore ==
  /\ mayLoadMore /\ ~st.isEntireLog /\ visibleLogs # <<>> /\ Act
  /\ fetch(st, calls, "more", st.filter, st.logs, st.oldest)
  /\ UNCHANGED <<ui, hist>>

UserStep ==
  \/ handleSearchChange \/ handleSearch \/ handleClearSearch
  \/ handleStatusFilterChange \/ handleReasonFilterChange
  \/ handleRefresh \/ handleLoadMore

-----------------------------------------------------------------------------
\* The server (external) looks at entries before the given time, newest first,
\* and stops at some entry, at a full page or at the end.
Before(older) == IF older = 0 THEN srv ELSE older - 1

Page(older, filter, stop) ==
  SelectSeq([i \in 1 .. Before(older) - stop + 1 |-> Before(older) + 1 - i],
            LAMBDA e : Matches(e, filter))

queryLog(r, c) ==
  \E stop \in 1 .. Max({1, Before(c.arg.older)}) :
    LET page == Page(c.arg.older, c.arg.filter, stop)
    IN  /\ Len(page) <= PageLimit
        /\ page # <<>> => page[Len(page)] = stop
        /\ Served(r, c, srv, [logs |-> page,
                              oldest |-> IF page = <<>> /\ stop = 1 THEN 0 ELSE stop])

query == srv < MaxLog /\ srv' = srv + 1 /\ UNCHANGED <<st, ui, calls, acts, hist>>

Server ==
  \/ query
  \/ /\ \E r \in Requests : \E c \in calls[r] : Answer(c) = "out" /\ queryLog(r, c)
     /\ UNCHANGED <<st, ui, acts, hist>>

-----------------------------------------------------------------------------
\* setFilteredLogs with shortPollQueryLogs: pages are gathered until enough
\* entries have the status, or the log ends.
\* Mutant: the poll asks for the page it has got.
PollSame(c, data) == c.arg.older
nextOldest(c, data) == data.oldest

textFor(filter) == IF filter.search # st.filter.search THEN filter.search ELSE ui.text

filteredDone(c) ==
  LET total == c.arg.total \o Data(c).logs
      oldest == nextOldest(c, Data(c))
      enough == Len(filterLogsByStatus(total, c.arg.filter.status)) >= PageLimit
  IN  IF enough \/ Data(c).oldest = 0
      THEN /\ st' = [st EXCEPT !.logs = total, !.oldest = Data(c).oldest,
                               !.isEntireLog = Data(c).oldest = 0,
                               !.filter = c.arg.filter, !.busy = @ \ {"get"}]
           /\ ui' = [ui EXCEPT !.text = textFor(c.arg.filter)]
           /\ calls' = Ended(calls, "get", c)
      ELSE /\ fetch(st, Ended(calls, "get", c), "get", c.arg.filter, total, oldest)
           /\ UNCHANGED ui

\* getAdditionalLogs appends to the entries the store has by then.
additionalDone(c) ==
  /\ st' = [st EXCEPT !.logs = @ \o Data(c).logs, !.oldest = Data(c).oldest,
                      !.isEntireLog = Data(c).oldest = 0, !.busy = @ \ {"more"}]
  /\ calls' = Ended(calls, "more", c)
  /\ UNCHANGED ui

fetchFailed(r, c) ==
  /\ st' = [st EXCEPT !.busy = @ \ {r}]
  /\ calls' = Ended(calls, r, c)
  /\ UNCHANGED ui

Resume ==
  /\ \E r \in Requests : \E c \in calls[r] :
       /\ \/ Answer(c) = "ok" /\ r = "get" /\ filteredDone(c)
          \/ Answer(c) = "ok" /\ r = "more" /\ additionalDone(c)
          \/ Answer(c) = "failed" /\ fetchFailed(r, c)
       /\ hist' = Learned(hist, c)
  /\ UNCHANGED <<srv, acts>>

Next == UserStep \/ Server \/ Resume

Spec == Init /\ [][Next]_vars /\ WF_vars(Server) /\ WF_vars(Resume)

-----------------------------------------------------------------------------
\* The stores, the forms and the requests of the page are well formed.
TypeOK ==
  /\ DOMAIN st = DOMAIN initialState
  /\ st.logs \in Seq(1 .. MaxLog) /\ st.oldest \in 0 .. MaxLog
  /\ st.filter \in Filter /\ st.busy \subseteq Requests
  /\ ui.url \in Filter /\ ui.text \in Search
  /\ DOMAIN calls = Requests /\ srv \in 0 .. MaxLog

\* A flag says that a request is out only while one is.
FlagsBacked == \A r \in st.busy : Waiting(r)

\* The entries shown are the matching ones of the server's log, newest first,
\* with no gap and no entry twice, and the filter is the one of the URL: if
\* nothing failed and the filter was changed only while nothing was out.  A
\* page that the scroll asked for may be out at any time.
ShowsServer ==
  hist.clean /\ "get" \notin st.busy =>
    /\ st.filter = ui.url
    /\ \A i \in 1 .. Len(st.logs) : Matches(st.logs[i], st.filter)
    /\ \A i \in 1 .. Len(st.logs) - 1 :
         /\ st.logs[i] > st.logs[i + 1]
         /\ \A e \in st.logs[i + 1] + 1 .. st.logs[i] - 1 : ~Matches(e, st.filter)
    /\ st.isEntireLog =>
         \A e \in 1 .. srv : Matches(e, st.filter) /\ e \notin {st.logs[i] : i \in DOMAIN st.logs}
                             => st.logs = <<>> \/ e > st.logs[1]

\* A load ends, however few entries have the status that is looked for.
LoaderEnds == "get" \in st.busy ~> "get" \notin st.busy

=============================================================================
