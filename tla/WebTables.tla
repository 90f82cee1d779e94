------------------------------ MODULE WebTables -----------------------------
(***************************************************************************)
(* Tables and cards: common/ui/Table with its pagination, the detail pages *)
(* of the statistics (components/Stats), the tables of the clients and the *)
(* cards of the dashboard with the first rows.                             *)
(*                                                                         *)
(* A row is a number, which is also its place in the order of names; its   *)
(* count is Count[row].  Page sizes and sort orders are kept in the local  *)
(* storage, one key per page, and the sort order in the address too.       *)
(* Blocking a client from its row is in WebActions, the period that is     *)
(* asked for in WebStats.                                                  *)
(***************************************************************************)
EXTENDS WebCalls, Integers

CONSTANTS Section,     \* the pages the user visits
          Answers,     \* the sets of rows the server may answer with
          Count,       \* how often each row was counted
          Match,       \* the rows that the search text matches
          Blocked,     \* the clients that are not allowed
          DEFAULT_PAGE_SIZE_OPTIONS

DEFAULT_PAGE_SIZE == Min(DEFAULT_PAGE_SIZE_OPTIONS)
DEFAULT_VISIBLE_ITEMS == 5
TOP_CLIENTS_VISIBLE_ITEMS == 4
Requests == {"stats", "clients", "access"}

\* The pages: the columns that can be sorted, the order at first (none: as the
\* rows come) and what is fetched.  The tables of the clients have no search.
TopQueriedDomainsPage ==
  [columns |-> {"name", "queries"}, sort |-> <<"queries", "desc">>, fetches |-> {"stats"}]
TopBlockedDomainsPage ==
  [columns |-> {"name", "queries"}, sort |-> <<"queries", "desc">>, fetches |-> {"stats"}]
TopClientsPage ==
  [columns |-> {"name", "queries"}, sort |-> <<"queries", "desc">>, fetches |-> {"stats", "access"}]
TopUpstreamsPage ==
  [columns |-> {"name", "queries"}, sort |-> <<"queries", "desc">>, fetches |-> {"stats"}]
UpstreamAvgTimePage ==
  [columns |-> {"name", "time"}, sort |-> <<"time", "desc">>, fetches |-> {"stats"}]
PersistentClientsTable ==
  [columns |-> {"name", "requests"}, sort |-> <<>>, fetches |-> {"clients"}]
RuntimeClientsTable ==
  [columns |-> {"name", "requests"}, sort |-> <<>>, fetches |-> {"clients"}]

pages ==
  [queried |-> TopQueriedDomainsPage, blocked |-> TopBlockedDomainsPage,
   topClients |-> TopClientsPage, upstreams |-> TopUpstreamsPage, avgTime |-> UpstreamAvgTimePage,
   persistent |-> PersistentClientsTable, runtime |-> RuntimeClientsTable]

Here == pages[ui.page]
Searched == "clients" \notin Here.fetches
loading == ~(Here.fetches \subseteq st.initialized)

initialState == [stats |-> {}, clients |-> {}, blocked |-> {}, initialized |-> {}]

-----------------------------------------------------------------------------
\* The rows of the page: for the top clients only those that are blocked, if
\* asked for, and those that match the search.
filteredRowsOf(s, u) ==
  LET all == IF u.only THEN s.stats \cap s.blocked ELSE s.stats
  IN  IF "clients" \in pages[u.page].fetches THEN s.clients
      ELSE IF u.query THEN all \cap Match ELSE all
filteredRows == filteredRowsOf(st, ui)

\* sortedData of the table and sortedMobileRows of the cards: a column that is
\* not there or not sortable sorts nothing; equal rows keep their order.
Less(a, b, key) == IF key = "name" THEN a < b ELSE Count[a] < Count[b]
Before(a, b, sort) ==
  LET less(x, y) == sort # <<>> /\ sort[1] \in Here.columns /\ Less(x, y, sort[1])
      first(x, y) == IF sort # <<>> /\ sort[2] = "desc" THEN less(y, x) ELSE less(x, y)
  IN  first(a, b) \/ (~first(b, a) /\ a < b)
index(rows, row, sort) == Cardinality({r \in rows : r # row /\ Before(r, row, sort)})

\* paginatedData and mobilePagedRows
paginatedData(rows, page, size, sort) ==
  {r \in rows : index(rows, r, sort) \div size = page}
totalPages(rows, size) == (Cardinality(rows) + size - 1) \div size

\* The numbers the pagination shows; an ellipsis stands for the others.
generatePageNumbers(page, total) ==
  LET range == {1} \cup (Max({2, page - 1}) .. Min({total - 1, page + 3}))
                   \cup (IF total > 1 THEN {total} ELSE {})
  IN  range \cup {n \in 1 .. total : n - 1 \in range /\ n + 1 \in range}

showPagination == Cardinality(filteredRows) > DEFAULT_PAGE_SIZE

\* useSortedData of the cards.
sortedData(rows, limit) ==
  {r \in rows : Cardinality({q \in rows : Count[q] > Count[r] \/ (Count[q] = Count[r] /\ q < r)}) < limit}
hasMore(rows, limit) == Cardinality(rows) > limit

\* The cards of the dashboard: the first rows, and a link to the page for more.
Card(rows, limit) == [shown |-> sortedData(rows, limit), more |-> hasMore(rows, limit)]
TopQueriedDomains(rows) == Card(rows, DEFAULT_VISIBLE_ITEMS)
TopBlockedDomains(rows) == Card(rows, DEFAULT_VISIBLE_ITEMS)
TopUpstreams(rows) == Card(rows, DEFAULT_VISIBLE_ITEMS)
UpstreamAvgTime(rows) == Card(rows, DEFAULT_VISIBLE_ITEMS)
TopClients(rows) == Card(rows, TOP_CLIENTS_VISIBLE_ITEMS)
cards(rows) == {TopQueriedDomains(rows), TopBlockedDomains(rows), TopUpstreams(rows),
                UpstreamAvgTime(rows), TopClients(rows)}

-----------------------------------------------------------------------------
\* What the local storage has, and resolvedSort: the address goes first.
storedSize(stored, section) ==
  IF stored[section].size = 0 THEN DEFAULT_PAGE_SIZE ELSE stored[section].size
resolvedSort(u) ==
  IF u.url # <<>> THEN u.url
  ELSE IF u.stored[u.page].sort # <<>> THEN u.stored[u.page].sort ELSE pages[u.page].sort

\* A table takes its size and order when it is mounted, and keeps its own.
mounted(u) == [u EXCEPT !.table = [page |-> 0, size |-> u.size, sort |-> resolvedSort(u)]]
opened(u, section) ==
  mounted([u EXCEPT !.page = section, !.query = FALSE, !.only = FALSE, !.cur = 0, !.url = <<>>,
                    !.size = storedSize(u.stored, section)])

\* The effects of the table and of the page on their current page.
\* Mutant: the page stays where it was.
PageKept(u, total) == u.table.page
clampedPage(u, total) == Min({u.table.page, Max({1, total}) - 1})
inRange(s, u) ==
  LET rows == filteredRowsOf(s, u)
  IN  [u EXCEPT !.table.page = IF pages[u.page].fetches \subseteq s.initialized
                               THEN clampedPage(u, totalPages(rows, u.table.size)) ELSE @,
                !.cur = IF @ >= Max({1, totalPages(rows, u.size)}) THEN 0 ELSE @]

fetch(cs, section) ==
  [r \in Requests |-> IF r \in pages[section].fetches THEN Sent(cs, r, <<>>)[r] ELSE cs[r]]

Init ==
  /\ srv = Blocked
  /\ st = initialState
  /\ \E section \in Section, mobile \in BOOLEAN, size \in {0, Max(DEFAULT_PAGE_SIZE_OPTIONS)} :
       LET stored == [s \in Section |-> [size |-> IF s = section THEN size ELSE 0, sort |-> <<>>]]
       IN  /\ ui = opened([page |-> section, mobile |-> mobile, query |-> FALSE, only |-> FALSE,
                           cur |-> 0, url |-> <<>>, size |-> 1, stored |-> stored,
                           table |-> <<>>], section)
           /\ calls = fetch(NoCalls(Requests), section)
  /\ acts = 0
  /\ hist = [clean |-> TRUE]

-----------------------------------------------------------------------------
\* Steps on what is shown; the effects run once it has changed.
Shows(u) == ui' = inRange(st, u) /\ UNCHANGED <<st, calls, srv>>
Local(u) == Shows(u) /\ UNCHANGED <<acts, hist>>
Mobile == ui.mobile /\ Searched

\* The table's own order, told to the page, which keeps it and puts it into the
\* address; the tables of the clients keep it to themselves.
handleSort ==
  /\ ~Mobile /\ ~loading /\ UserActs
  /\ \E key \in Here.columns :
       LET old == ui.table.sort
           dir == IF old # <<>> /\ old[1] = key /\ old[2] = "asc" THEN "desc" ELSE "asc"
           u == [ui EXCEPT !.table.sort = <<key, dir>>, !.table.page = 0]
       IN  Shows(IF Searched THEN [u EXCEPT !.stored[ui.page].sort = <<key, dir>>,
                                            !.url = <<key, dir>>] ELSE u)

handleMobileSortChange ==
  /\ Mobile /\ ~loading /\ filteredRows # {} /\ UserActs
  /\ \E key \in Here.columns, dir \in {"asc", "desc"} :
       Shows([ui EXCEPT !.stored[ui.page].sort = <<key, dir>>, !.url = <<key, dir>>, !.cur = 0])

handlePageSizeChange ==
  /\ ~loading /\ showPagination /\ UserActs
  /\ \E size \in DEFAULT_PAGE_SIZE_OPTIONS :
       Shows([ui EXCEPT !.table = IF Mobile THEN @ ELSE [@ EXCEPT !.size = size, !.page = 0],
                        !.stored[ui.page].size = size,
                        !.size = IF Searched THEN size ELSE @, !.cur = IF Searched THEN 0 ELSE @])

\* The buttons of the pagination: numbers, previous and next.
handlePageChange ==
  /\ ~loading /\ showPagination
  /\ LET page == IF Mobile THEN ui.cur ELSE ui.table.page
         total == totalPages(filteredRows, IF Mobile THEN ui.size ELSE ui.table.size)
         turned == {n - 1 : n \in generatePageNumbers(page, total)} \cup {page - 1, page + 1}
     IN  /\ total > 1
         /\ \E to \in turned \cap (0 .. total - 1) :
              Local(IF Mobile THEN [ui EXCEPT !.cur = to] ELSE [ui EXCEPT !.table.page = to])

setSearchQuery == Searched /\ Local([ui EXCEPT !.query = ~@, !.cur = 0])
setShowOnlyBlocked == ui.page = "topClients" /\ Local([ui EXCEPT !.only = ~@])

\* The window is resized: the table is mounted anew when it comes back.
useIsMobile ==
  Local(IF ui.mobile THEN mounted([ui EXCEPT !.mobile = FALSE]) ELSE [ui EXCEPT !.mobile = TRUE])

handleRefresh ==
  /\ Searched /\ ~loading /\ UserActs
  /\ calls' = fetch(calls, ui.page) /\ UNCHANGED <<st, ui>>

\* A link leads to another page.
openPage ==
  /\ UserActs
  /\ \E section \in Section :
       /\ section # ui.page /\ ui' = opened(ui, section) /\ calls' = fetch(calls, section)
  /\ UNCHANGED st

UserStep ==
  \/ handleSort \/ handleMobileSortChange \/ handlePageSizeChange \/ handlePageChange
  \/ setSearchQuery \/ setShowOnlyBlocked \/ useIsMobile \/ handleRefresh \/ openPage

-----------------------------------------------------------------------------
\* The server (external): the traffic changes the rows all the time.
serve(r, c) ==
  \/ /\ r \in {"stats", "clients"}
     /\ \E rows \in Answers : Served(r, c, srv, rows)
  \/ r = "access" /\ Served(r, c, srv, srv)

Server ==
  /\ \E r \in Requests : \E c \in calls[r] : Answer(c) = "out" /\ serve(r, c)
  /\ UNCHANGED <<st, ui, acts, hist>>

\* Mutant: a failed request leaves the page waiting.
SettledIfOk(s, r, ok) == [s EXCEPT !.initialized = IF ok THEN @ \cup {r} ELSE @]
settled(s, r, ok) == [s EXCEPT !.initialized = @ \cup {r}]

\* getStats, getClients and getAccessList end.
Resume ==
  /\ \E r \in Requests : \E c \in calls[r] :
       LET key == IF r = "access" THEN "blocked" ELSE r
       IN  /\ Answer(c) # "out"
           /\ st' = settled(IF Answer(c) = "ok" THEN [st EXCEPT ![key] = Data(c)] ELSE st,
                            r, Answer(c) = "ok")
           /\ calls' = Ended(calls, r, c) /\ hist' = Learned(hist, c)
  /\ ui' = inRange(st', ui)
  /\ UNCHANGED <<srv, acts>>

Next == UserStep \/ Server \/ Resume

Spec == Init /\ [][Next]_vars /\ WF_vars(Server) /\ WF_vars(Resume)

-----------------------------------------------------------------------------
\* The state of the page is well formed.
TypeOK ==
  /\ DOMAIN st = DOMAIN initialState /\ st.initialized \subseteq Requests
  /\ ui.page \in Section /\ ui.cur \in Nat /\ ui.table.page \in Nat
  /\ ui.table.size \in DEFAULT_PAGE_SIZE_OPTIONS /\ DOMAIN calls = Requests

Shown ==
  IF Mobile THEN paginatedData(filteredRows, ui.cur, ui.size, resolvedSort(ui))
  ELSE paginatedData(filteredRows, ui.table.page, ui.table.size, ui.table.sort)

\* No row is out of reach, whatever the traffic removed in the meantime: while
\* there are rows the page is not empty, without a pagination it has all of them,
\* and a page that an ellipsis hides is never alone.  A card has all rows or its
\* link to the page (Table.tsx:140, Pagination.tsx, useSortedData.ts).
RowsReachable ==
  ~loading =>
    LET total == totalPages(filteredRows, IF Mobile THEN ui.size ELSE ui.table.size)
        numbers == generatePageNumbers(IF Mobile THEN ui.cur ELSE ui.table.page, total)
    IN  /\ filteredRows # {} => Shown # {}
        /\ ~showPagination => Shown = filteredRows
        /\ \A n \in (1 .. total) \ numbers : ~({n - 1, n + 1} \subseteq numbers)
        /\ \A card \in cards(st.stats) : card.more \/ card.shown = st.stats

\* The table and the cards of a small screen have the same order: "mirror that
\* logic here so the mobile card list is ordered the same way" (StatsPage.tsx).
SameOrder == ~Mobile /\ Searched => ui.table.sort = resolvedSort(ui)

\* The loader goes, also when requests fail.
LoaderEnds == <>~loading

=============================================================================
