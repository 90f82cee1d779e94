--------------------------- MODULE WebAskedProofs ---------------------------
(***************************************************************************)
(* Theorems about what the web interface does only when it was asked for:  *)
(* the removal of rule lists, the switch of the cache, a shorter           *)
(* retention.                                                              *)
(***************************************************************************)
EXTENDS WebProofs

(***************************************************************************)
(* Rule lists.  A list that is in the catalogue and in use and has lost    *)
(* its tick was asked to be removed; so was each list that a loop of       *)
(* removals has still to remove, whatever it waits for.                    *)
(***************************************************************************)
ListsRequests == {"status", "add", "batch", "remove", "set_url", "refresh", "config"}
ListsState == {"processingFilters", "filtersInitialized", "processingAddFilter",
               "processingRefreshFilters", "processingConfigFilter", "processingRemoveFilter",
               "processingSetConfig", "interval", "filters"}
ListsUi == {"kind", "modalId", "cur", "curOn", "ticks"}

Unticked(s, u, asked) ==
  /\ DOMAIN s = ListsState /\ DOMAIN u = ListsUi
  /\ Lists!filtersToRemove(s.filters, u.ticks) \subseteq asked
ThenAsked(then, asked) == then[1] = "loop" => then[2] \subseteq asked

\* What waits for an answer.
ArgAsked(r, arg, asked) ==
  /\ r = "status" => ThenAsked(arg, asked)
  /\ r = "add" => ThenAsked(arg[2], asked)
  /\ r = "set_url" => ThenAsked(arg[4], asked)
  /\ r = "remove" => arg[1] \in asked /\ ThenAsked(arg[2], asked)
ListsCalls(cs, asked) ==
  CallsOK(cs, ListsRequests) /\ \A r \in ListsRequests : \A c \in cs[r] : ArgAsked(r, c.arg, asked)

ListsInv ==
  /\ ListsCalls(calls, hist.asked) /\ Unticked(st, ui, hist.asked)
  /\ DOMAIN hist = {"clean", "asked"}

LEMMA ListsSame ==
    /\ \A cs, r, c : Lists!Ended(cs, r, c) = Ended(cs, r, c)
    /\ \A cs, r, c, a : Lists!Answered(cs, r, c, a) = Answered(cs, r, c, a)
    /\ \A c : Lists!Answer(c) = Answer(c) /\ Lists!Data(c) = Data(c)
BY DEF Lists!Ended, Ended, Lists!Answered, Answered, Lists!Answer, Answer, Lists!Data, Data

LEMMA ListsSent ==
    ASSUME NEW cs, NEW r, NEW arg
    PROVE  \E n : Lists!Sent(cs, r, arg) = Added(cs, r, arg, n)
<1> DEFINE taken == {c.n : c \in {d \in cs[r] : d.arg = arg}}
           k == CHOOSE j \in 1 .. Lists!Cardinality(taken) + 1 : j \notin taken
<1>1. Lists!Sent(cs, r, arg) = Added(cs, r, arg, k)
  BY DEF Lists!Sent, Added
<1> QED
  BY <1>1

\* A request whose closure was asked for is added to such requests.
LEMMA ListsSends ==
    ASSUME NEW cs, NEW asked, ListsCalls(cs, asked), NEW r \in ListsRequests, NEW arg,
           ArgAsked(r, arg, asked)
    PROVE  ListsCalls(Lists!Sent(cs, r, arg), asked)
<1>1. PICK n : Lists!Sent(cs, r, arg) = Added(cs, r, arg, n)
  BY ListsSent
<1>2. CallsOK(cs, ListsRequests)
  BY DEF ListsCalls
<1> DEFINE new == [arg |-> arg, n |-> n, answer |-> <<>>]
<1>3. new.arg = arg
  OBVIOUS
<1>4. /\ CallsOK(Lists!Sent(cs, r, arg), ListsRequests)
      /\ \A q \in ListsRequests \ {r} : Lists!Sent(cs, r, arg)[q] = cs[q]
      /\ Lists!Sent(cs, r, arg)[r] = cs[r] \cup {new}
  BY <1>1, <1>2, SentAdds
<1> HIDE DEF new
<1> QED
  BY <1>3, <1>4 DEF ListsCalls

\* One that has ended leaves such requests.
LEMMA ListsEnds ==
    ASSUME NEW cs, NEW asked, ListsCalls(cs, asked), NEW r \in ListsRequests, NEW c
    PROVE  ListsCalls(Lists!Ended(cs, r, c), asked)
<1>1. CallsOK(cs, ListsRequests)
  BY DEF ListsCalls
<1>2. Lists!Ended(cs, r, c) = Ended(cs, r, c)
  BY ListsSame
<1> QED
  BY <1>1, <1>2, EndedRemoves DEF ListsCalls

\* What was asked stays asked.
LEMMA ListsMore ==
    ASSUME NEW cs, NEW asked, NEW more, asked \subseteq more, ListsCalls(cs, asked)
    PROVE  ListsCalls(cs, more)
BY DEF ListsCalls, ArgAsked, ThenAsked

LEMMA ListsInit == Lists!Init => ListsInv
<1> SUFFICES ASSUME Lists!Init PROVE ListsInv
  OBVIOUS
<1> DEFINE none == Lists!NoCalls(Lists!Requests)
<1>1. ListsCalls(none, hist.asked)
  BY DEF Lists!NoCalls, Lists!Requests, ListsRequests, ListsCalls, CallsOK
<1> HIDE DEF none
<1>2. DOMAIN hist = {"clean", "asked"} /\ hist.asked = {}
  BY DEF Lists!Init
<1>3. ArgAsked("status", <<"done">>, hist.asked) /\ "status" \in ListsRequests
  BY DEF ArgAsked, ThenAsked, ListsRequests
<1>4. calls = Lists!Sent(none, "status", <<"done">>)
  BY DEF Lists!Init, none
<1>5. ListsCalls(calls, hist.asked)
  BY <1>1, <1>3, <1>4, ListsSends
<1>6. /\ DOMAIN st = ListsState
      /\ st.filters = [u \in {"c1", "m"} |-> "absent"]
  BY DEF Lists!Init, Lists!initialState, ListsState
<1>7. DOMAIN ui = ListsUi
  <2>1. PICK kind, url : ui = [kind |-> kind, modalId |-> "none", cur |-> url, curOn |-> TRUE,
                               ticks |-> {}]
    BY Zenon DEF Lists!Init
  <2> QED
    BY <2>1 DEF ListsUi
<1>8. Lists!filtersToRemove(st.filters, ui.ticks) = {}
  BY <1>6 DEF Lists!filtersToRemove, Lists!selectedValues, Lists!Present
<1> QED
  BY <1>2, <1>5, <1>6, <1>7, <1>8 DEF ListsInv, Unticked

\* The loop over the removals that are left.
LEMMA ListsLoop ==
    ASSUME NEW s, NEW u, NEW cs, NEW asked, NEW rest, ListsCalls(cs, asked),
           Unticked(s, u, asked), rest \subseteq asked, Lists!removeAll(s, u, cs, rest)
    PROVE  ListsCalls(calls', asked) /\ Unticked(st', ui', asked)
<1>1. CASE rest = {}
  <2>1. st' = s /\ calls' = cs /\ ui' = Lists!closeModal(u)
    BY <1>1 DEF Lists!removeAll
  <2>2. DOMAIN ui' = ListsUi /\ ui'.ticks = u.ticks
    <3>1. PICK url : ui' = [u EXCEPT !.modalId = "none", !.cur = url, !.curOn = TRUE]
      BY <2>1, Zenon DEF Lists!closeModal
    <3> QED
      BY <3>1 DEF Unticked, ListsUi
  <2> QED
    BY <2>1, <2>2 DEF Unticked
<1>2. CASE rest # {}
  <2>1. PICK url \in rest : Lists!removeFilter(s, cs, url, <<"loop", rest \ {url}>>)
    BY <1>2 DEF Lists!removeAll
  <2>2. ui' = u
    BY <1>2 DEF Lists!removeAll
  <2> DEFINE then == <<"loop", rest \ {url}>>
             arg == <<url, then>>
  <2>3. ArgAsked("remove", arg, asked) /\ "remove" \in ListsRequests
    BY DEF ArgAsked, ThenAsked, ListsRequests
  <2>4. calls' = Lists!Sent(cs, "remove", arg)
        /\ st' = [s EXCEPT !.processingRemoveFilter = TRUE]
    BY <2>1 DEF Lists!removeFilter
  <2>5. ListsCalls(calls', asked)
    BY <2>3, <2>4, ListsSends
  <2> QED
    BY <2>2, <2>4, <2>5 DEF Unticked, ListsState
<1> QED
  BY <1>1, <1>2

\* What the caller of a thunk does once the thunk has ended.
LEMMA ListsProceed ==
    ASSUME NEW then, NEW s, NEW u, NEW cs, NEW asked, ListsCalls(cs, asked),
           Unticked(s, u, asked), ThenAsked(then, asked), Lists!proceed(then, s, u, cs)
    PROVE  ListsCalls(calls', asked) /\ Unticked(st', ui', asked)
<1>1. CASE then[1] = "done" /\ st' = s /\ ui' = u /\ calls' = cs
  BY <1>1
<1>2. CASE then[1] = "close" /\ st' = s /\ ui' = Lists!closeModal(u) /\ calls' = cs
  <2>1. Lists!removeAll(s, u, cs, {})
    BY <1>2 DEF Lists!removeAll
  <2> QED
    BY <2>1, ListsLoop
<1>3. CASE then[1] = "loop" /\ Lists!removeAll(s, u, cs, then[2])
  BY <1>3, ListsLoop DEF ThenAsked
<1>4. CASE Lists!removeAll([s EXCEPT !.processingAddFilter = FALSE], u, cs,
                           Lists!filtersToRemove(s.filters, u.ticks))
  <2> DEFINE t == [s EXCEPT !.processingAddFilter = FALSE]
  <2>1. Unticked(t, u, asked) /\ Lists!filtersToRemove(s.filters, u.ticks) \subseteq asked
    BY DEF Unticked, ListsState
  <2> HIDE DEF t
  <2>2. Lists!removeAll(t, u, cs, Lists!filtersToRemove(s.filters, u.ticks))
    BY <1>4 DEF t
  <2> QED
    BY <2>1, <2>2, ListsLoop
<1> QED
  BY <1>1, <1>2, <1>3, <1>4 DEF Lists!proceed

LEMMA ListsActs ==
    ASSUME ListsInv, Lists!UserActs
    PROVE  DOMAIN hist' = {"clean", "asked"} /\ hist'.asked = hist.asked
BY DEF ListsInv, Lists!UserActs, Lists!Act, Lists!Noted

\* A step of the user that leaves the lists and the ticks alone and sends at most
\* one request, whose closure removes nothing.
LEMMA ListsAsks ==
    ASSUME ListsInv, Lists!UserActs, DOMAIN st' = ListsState, st'.filters = st.filters,
           DOMAIN ui' = ListsUi, ui'.ticks = ui.ticks,
           NEW r \in ListsRequests, NEW arg, ArgAsked(r, arg, {}), r # "remove",
           calls' = Lists!Sent(calls, r, arg)
    PROVE  ListsInv'
<1>1. DOMAIN hist' = {"clean", "asked"} /\ hist'.asked = hist.asked
  BY ListsActs
<1>2. ArgAsked(r, arg, hist.asked) /\ ListsCalls(calls, hist.asked)
  BY DEF ArgAsked, ThenAsked, ListsInv
<1>3. ListsCalls(calls', hist'.asked)
  BY <1>1, <1>2, ListsSends
<1> QED
  BY <1>1, <1>3 DEF ListsInv, Unticked

LEMMA ListsClose ==
    ASSUME ListsInv, ui' = Lists!closeModal(ui)
    PROVE  DOMAIN ui' = ListsUi /\ ui'.ticks = ui.ticks
<1>1. PICK url : ui' = [ui EXCEPT !.modalId = "none", !.cur = url, !.curOn = TRUE]
  BY Zenon DEF Lists!closeModal
<1> QED
  BY <1>1 DEF ListsInv, Unticked, ListsUi

\* A step of the user that only opens or closes a modal.
LEMMA ListsLooks ==
    ASSUME ListsInv, Lists!Look, DOMAIN ui' = ListsUi, ui'.ticks = ui.ticks
    PROVE  ListsInv'
BY DEF ListsInv, Lists!Look, Unticked

LEMMA ListsUser == ListsInv /\ Lists!UserStep => ListsInv'
<1> SUFFICES ASSUME ListsInv, Lists!UserStep PROVE ListsInv'
  OBVIOUS
<1>0. DOMAIN st = ListsState /\ DOMAIN ui = ListsUi
  BY DEF ListsInv, Unticked
<1>1. CASE Lists!handleRefresh
  <2>1. ArgAsked("refresh", <<>>, {}) /\ "refresh" \in ListsRequests
    BY DEF ArgAsked, ListsRequests
  <2> QED
    BY <1>0, <1>1, <2>1, ListsAsks DEF Lists!handleRefresh, ListsState
<1>2. CASE Lists!handleToggle
  <2>1. PICK u : Lists!setURL(u, u, st.filters[u] = "off", <<"done">>)
    BY <1>2 DEF Lists!handleToggle, Lists!toggleFilterStatus
  <2> DEFINE arg == <<u, u, st.filters[u] = "off", <<"done">> >>
  <2>2. ArgAsked("set_url", arg, {}) /\ "set_url" \in ListsRequests
    BY DEF ArgAsked, ThenAsked, ListsRequests
  <2>3. /\ calls' = Lists!Sent(calls, "set_url", arg) /\ ui' = ui /\ Lists!UserActs
        /\ st' = [st EXCEPT !.processingConfigFilter = TRUE]
    BY <1>2, <2>1 DEF Lists!handleToggle, Lists!setURL
  <2> QED
    BY <1>0, <2>2, <2>3, ListsAsks DEF ListsState
<1>3. CASE Lists!openRowModal
  <2>1. PICK u, m :
          ui' = [[ui EXCEPT !.modalId = m] EXCEPT !.cur = u, !.curOn = st.filters[u] = "on"]
    BY <1>3 DEF Lists!openRowModal, Lists!openModal
  <2> QED
    BY <1>0, <1>3, <2>1, ListsLooks DEF Lists!openRowModal, ListsUi
<1>4. CASE Lists!openPageModal
  BY <1>0, <1>4, ListsLooks DEF Lists!openPageModal, Lists!openModal, ListsUi
<1>5. CASE Lists!submitAllowlist
  <2>1. PICK url : \/ Lists!addFilter(url, <<"close">>)
                   \/ Lists!setURL(ui.cur, url, ui.curOn, <<"close">>)
    BY <1>5 DEF Lists!submitAllowlist, Lists!editFilter
  <2>2. ui' = ui /\ Lists!UserActs
    BY <1>5 DEF Lists!submitAllowlist
  <2>3. CASE Lists!addFilter(url, <<"close">>)
    <3> DEFINE arg == <<url, <<"close">> >>
    <3>1. ArgAsked("add", arg, {}) /\ "add" \in ListsRequests
      BY DEF ArgAsked, ThenAsked, ListsRequests
    <3>2. calls' = Lists!Sent(calls, "add", arg) /\ st' = [st EXCEPT !.processingAddFilter = TRUE]
      BY <2>3 DEF Lists!addFilter
    <3> QED
      BY <1>0, <2>2, <3>1, <3>2, ListsAsks DEF ListsState
  <2>4. CASE Lists!setURL(ui.cur, url, ui.curOn, <<"close">>)
    <3> DEFINE arg == <<ui.cur, url, ui.curOn, <<"close">> >>
    <3>1. ArgAsked("set_url", arg, {}) /\ "set_url" \in ListsRequests
      BY DEF ArgAsked, ThenAsked, ListsRequests
    <3>2. /\ calls' = Lists!Sent(calls, "set_url", arg)
          /\ st' = [st EXCEPT !.processingConfigFilter = TRUE]
      BY <2>4 DEF Lists!setURL
    <3> QED
      BY <1>0, <2>2, <3>1, <3>2, ListsAsks DEF ListsState
  <2> QED
    BY <2>1, <2>3, <2>4
<1>6. CASE Lists!submitManual
  <2>1. PICK url : \/ Lists!addFilter(url, <<"done">>)
                   \/ Lists!setURL(ui.cur, url, FALSE, <<"done">>)
    BY <1>6 DEF Lists!submitManual, Lists!editFilter
  <2>2. Lists!UserActs /\ DOMAIN ui' = ListsUi /\ ui'.ticks = ui.ticks
    BY <1>6, ListsClose DEF Lists!submitManual
  <2>3. CASE Lists!addFilter(url, <<"done">>)
    <3> DEFINE arg == <<url, <<"done">> >>
    <3>1. ArgAsked("add", arg, {}) /\ "add" \in ListsRequests
      BY DEF ArgAsked, ThenAsked, ListsRequests
    <3>2. calls' = Lists!Sent(calls, "add", arg) /\ st' = [st EXCEPT !.processingAddFilter = TRUE]
      BY <2>3 DEF Lists!addFilter
    <3> QED
      BY <1>0, <2>2, <3>1, <3>2, ListsAsks DEF ListsState
  <2>4. CASE Lists!setURL(ui.cur, url, FALSE, <<"done">>)
    <3> DEFINE arg == <<ui.cur, url, FALSE, <<"done">> >>
    <3>1. ArgAsked("set_url", arg, {}) /\ "set_url" \in ListsRequests
      BY DEF ArgAsked, ThenAsked, ListsRequests
    <3>2. /\ calls' = Lists!Sent(calls, "set_url", arg)
          /\ st' = [st EXCEPT !.processingConfigFilter = TRUE]
      BY <2>4 DEF Lists!setURL
    <3> QED
      BY <1>0, <2>2, <3>1, <3>2, ListsAsks DEF ListsState
  <2> QED
    BY <2>1, <2>3, <2>4
<1>7. CASE Lists!handleTick
  <2>1. PICK u : \/ /\ ui' = [ui EXCEPT !.ticks = @ \ {u}]
                     /\ hist' = [hist EXCEPT !.asked = @ \cup {u}]
                 \/ ui' = [ui EXCEPT !.ticks = @ \cup {u}] /\ hist' = hist
    BY <1>7 DEF Lists!handleTick
  <2>2. st' = st /\ calls' = calls
    BY <1>7 DEF Lists!handleTick
  <2>3. /\ DOMAIN hist' = {"clean", "asked"} /\ hist.asked \subseteq hist'.asked
        /\ DOMAIN ui' = ListsUi /\ ui.ticks \ ui'.ticks \subseteq hist'.asked
    BY <1>0, <2>1 DEF ListsInv, ListsUi
  <2>4. Unticked(st', ui', hist'.asked)
    BY <2>2, <2>3 DEF ListsInv, Unticked, Lists!filtersToRemove
  <2>5. ListsCalls(calls', hist'.asked)
    BY <2>2, <2>3, ListsMore DEF ListsInv
  <2> QED
    BY <2>3, <2>4, <2>5 DEF ListsInv
<1>8. CASE Lists!submitCatalog
  <2>1. Lists!UserActs
    BY <1>8 DEF Lists!submitCatalog
  <2>2. CASE Lists!filtersToAdd # {}
    <3>1. ArgAsked("batch", [out |-> Lists!filtersToAdd, ok |-> {}, bad |-> {}], {})
          /\ "batch" \in ListsRequests
      BY DEF ArgAsked, ListsRequests
    <3> QED
      BY <1>0, <1>8, <2>1, <2>2, <3>1, ListsAsks DEF Lists!submitCatalog, ListsState
  <2>3. CASE Lists!filtersToAdd = {}
    <3>1. Lists!removeAll(st, ui, calls, Lists!filtersToRemove(st.filters, ui.ticks))
      BY <1>8, <2>3 DEF Lists!submitCatalog
    <3>2. ListsCalls(calls', hist.asked) /\ Unticked(st', ui', hist.asked)
      BY <3>1, ListsLoop DEF ListsInv, Unticked
    <3> QED
      BY <2>1, <3>2, ListsActs DEF ListsInv
  <2> QED
    BY <2>2, <2>3
<1>9. CASE Lists!handleDeleteConfirm
  <2> DEFINE arg == <<ui.cur, <<"done">> >>
  <2>1. /\ calls' = Lists!Sent(calls, "remove", arg)
        /\ st' = [st EXCEPT !.processingRemoveFilter = TRUE]
        /\ hist' = [Lists!Noted(hist) EXCEPT !.asked = @ \cup {ui.cur}]
        /\ ui' = Lists!closeModal(ui)
    BY <1>9 DEF Lists!handleDeleteConfirm, Lists!removeFilter
  <2>2. DOMAIN hist' = {"clean", "asked"} /\ hist'.asked = hist.asked \cup {ui.cur}
    BY <2>1 DEF ListsInv, Lists!Noted
  <2>3. ArgAsked("remove", arg, hist'.asked) /\ "remove" \in ListsRequests
    BY <2>2 DEF ArgAsked, ThenAsked, ListsRequests
  <2>4. ListsCalls(calls, hist'.asked)
    BY <2>2, ListsMore DEF ListsInv
  <2>5. ListsCalls(calls', hist'.asked)
    BY <2>1, <2>3, <2>4, ListsSends
  <2>6. DOMAIN ui' = ListsUi /\ ui'.ticks = ui.ticks
    BY <2>1, ListsClose
  <2>7. Unticked(st', ui', hist'.asked)
    BY <1>0, <2>1, <2>2, <2>6 DEF ListsInv, Unticked, ListsState
  <2> QED
    BY <2>2, <2>5, <2>7 DEF ListsInv
<1>10. CASE Lists!handleCancel
  BY <1>10, ListsClose, ListsLooks DEF Lists!handleCancel
<1>11. CASE Lists!submitInterval
  <2>1. PICK i : /\ st' = [st EXCEPT !.processingSetConfig = TRUE]
                 /\ calls' = Lists!Sent(calls, "config", <<i>>)
    BY <1>11 DEF Lists!submitInterval
  <2>2. ArgAsked("config", <<i>>, {}) /\ "config" \in ListsRequests
    BY DEF ArgAsked, ListsRequests
  <2>3. Lists!UserActs /\ DOMAIN ui' = ListsUi /\ ui'.ticks = ui.ticks
    BY <1>11, ListsClose DEF Lists!submitInterval
  <2> QED
    BY <1>0, <2>1, <2>2, <2>3, ListsAsks DEF ListsState
<1> QED
  BY <1>1, <1>2, <1>3, <1>4, <1>5, <1>6, <1>7, <1>8, <1>9, <1>10, <1>11 DEF Lists!UserStep

\* An answer leaves what was sent as it is.
LEMMA ListsAnswers ==
    ASSUME NEW asked, NEW r \in ListsRequests, ListsCalls(calls, asked), NEW c \in calls[r],
           NEW answer, calls' = Lists!Answered(calls, r, c, answer)
    PROVE  ListsCalls(calls', asked)
<1>1. CallsOK(calls, ListsRequests)
  BY DEF ListsCalls
<1>2. calls' = Answered(calls, r, c, answer)
  BY ListsSame
<1>3. Reply(c, answer).arg = c.arg
  BY DEF Reply
<1>4. /\ CallsOK(calls', ListsRequests)
      /\ \A q \in ListsRequests \ {r} : calls'[q] = calls[q]
      /\ calls'[r] = (calls[r] \ {c}) \cup {Reply(c, answer)}
  BY <1>1, <1>2, AnsweredChanges
<1> QED
  BY <1>3, <1>4 DEF ListsCalls

LEMMA ListsServer == ListsInv /\ Lists!Server => ListsInv'
<1> SUFFICES ASSUME ListsInv, Lists!Server PROVE ListsInv'
  OBVIOUS
<1>1. st' = st /\ ui' = ui /\ hist' = hist
  BY DEF Lists!Server
<1>2. ListsCalls(calls, hist.asked)
  BY DEF ListsInv
<1>3. ASSUME NEW r \in ListsRequests, NEW c \in calls[r], Lists!Serve(r, c)
      PROVE  ListsCalls(calls', hist.asked)
  <2>1. PICK answer : calls' = Lists!Answered(calls, r, c, answer)
    BY <1>3 DEF Lists!Serve, Lists!serveSetURL, Lists!Served, Lists!Refused
  <2> QED
    BY <1>2, <2>1, ListsAnswers
<1>4. ASSUME NEW c \in calls["batch"], Lists!serveBatch(c)
      PROVE  ListsCalls(calls', hist.asked)
  <2>1. PICK u, field :
          calls' = [calls EXCEPT !["batch"] = (@ \ {c}) \cup
                      {[c EXCEPT !.arg.out = @ \ {u}, !.arg[field] = @ \cup {u}]}]
    BY <1>4 DEF Lists!serveBatch
  <2>2. PICK arg :
          [c EXCEPT !.arg.out = @ \ {u}, !.arg[field] = @ \cup {u}] = [c EXCEPT !.arg = arg]
    OBVIOUS
  <2>3. IsCall([c EXCEPT !.arg = arg])
    BY <1>2 DEF ListsCalls, CallsOK, ListsRequests, IsCall
  <2>4. DOMAIN calls' = ListsRequests /\ \A r \in ListsRequests \ {"batch"} : calls'[r] = calls[r]
    BY <1>2, <2>1 DEF ListsCalls, CallsOK
  <2>5. calls'["batch"] = (calls["batch"] \ {c}) \cup {[c EXCEPT !.arg = arg]}
    BY <1>2, <2>1, <2>2 DEF ListsCalls, CallsOK, ListsRequests
  <2> QED
    BY <1>2, <2>3, <2>4, <2>5 DEF ListsCalls, CallsOK, ArgAsked
<1>5. ListsCalls(calls', hist.asked)
  BY <1>3, <1>4 DEF Lists!Server, Lists!Requests, ListsRequests
<1> QED
  BY <1>1, <1>5 DEF ListsInv

\* The status is fetched; the answers decide what is ticked.
LEMMA ListsFetch ==
    ASSUME NEW s, NEW cs, NEW then, NEW asked, ListsCalls(cs, asked), Unticked(s, ui, asked),
           ThenAsked(then, asked), Lists!getFilteringStatus(s, cs, then), ui' = ui
    PROVE  ListsCalls(calls', asked) /\ Unticked(st', ui', asked)
<1>1. ArgAsked("status", then, asked) /\ "status" \in ListsRequests
  BY DEF ArgAsked, ListsRequests
<1>2. /\ calls' = Lists!Sent(cs, "status", then)
      /\ st' = [s EXCEPT !.processingFilters = TRUE]
  BY DEF Lists!getFilteringStatus
<1>3. ListsCalls(calls', asked)
  BY <1>1, <1>2, ListsSends
<1> QED
  BY <1>2, <1>3 DEF Unticked, ListsState

LEMMA ListsThunk ==
    ASSUME ListsInv, NEW r \in ListsRequests, NEW c, NEW s, NEW then,
           Unticked(s, ui, hist.asked), ThenAsked(then, hist.asked), Lists!thunkDone(r, c, s, then)
    PROVE  ListsCalls(calls', hist.asked) /\ Unticked(st', ui', hist.asked)
<1> DEFINE cs == Lists!Ended(calls, r, c)
<1>1. ListsCalls(cs, hist.asked)
  BY ListsEnds DEF ListsInv
<1> HIDE DEF cs
<1>2. \/ Lists!getFilteringStatus(s, cs, then) /\ ui' = ui
      \/ Lists!proceed(then, s, ui, cs)
  BY DEF Lists!thunkDone, cs
<1> QED
  BY <1>1, <1>2, ListsFetch, ListsProceed

LEMMA ListsStatus ==
    ASSUME ListsInv, NEW c \in calls["status"], Lists!statusDone(c)
    PROVE  ListsCalls(calls', hist.asked) /\ Unticked(st', ui', hist.asked)
<1> DEFINE s == [st EXCEPT !.processingFilters = FALSE, !.filtersInitialized = TRUE]
           t == [s EXCEPT !.filters = Lists!Data(c).lists, !.interval = Lists!Data(c).interval]
           u == [ui EXCEPT !.ticks = Lists!selectedValues(Lists!Data(c).lists)]
           cs == Lists!Ended(calls, "status", c)
<1>1. ListsCalls(cs, hist.asked) /\ ThenAsked(c.arg, hist.asked)
  BY ListsEnds DEF ListsInv, ListsCalls, ArgAsked, ListsRequests
<1>2. Unticked(s, ui, hist.asked)
  BY DEF ListsInv, Unticked, ListsState
<1>3. Unticked(t, u, hist.asked)
  <2>1. DOMAIN t = ListsState /\ DOMAIN u = ListsUi
    BY DEF ListsInv, Unticked
  <2>2. t.filters = Lists!Data(c).lists /\ u.ticks = Lists!selectedValues(Lists!Data(c).lists)
    BY DEF ListsInv, Unticked, ListsState, ListsUi
  <2> QED
    BY <2>1, <2>2 DEF Unticked, Lists!filtersToRemove
<1>4. Lists!proceed(c.arg, t, u, cs) \/ Lists!proceed(c.arg, s, ui, cs)
  BY DEF Lists!statusDone
<1> HIDE DEF s, t, u, cs
<1> QED
  BY <1>1, <1>2, <1>3, <1>4, ListsProceed

LEMMA ListsResume == ListsInv /\ Lists!Resume => ListsInv'
<1> SUFFICES ASSUME ListsInv, Lists!Resume PROVE ListsInv'
  OBVIOUS
<1>0. /\ DOMAIN st = ListsState /\ ListsCalls(calls, hist.asked) /\ DOMAIN hist = {"clean", "asked"}
      /\ Unticked(st, ui, hist.asked)
  BY DEF ListsInv, Unticked
<1> SUFFICES ListsCalls(calls', hist.asked) /\ Unticked(st', ui', hist.asked)
  <2>1. DOMAIN hist' = DOMAIN hist /\ hist'.asked = hist.asked
    BY <1>0 DEF Lists!Resume, Lists!Learned
  <2> QED
    BY <1>0, <2>1 DEF ListsInv
<1>1. ASSUME NEW c \in calls["batch"], Lists!batchDone(c)
      PROVE  ListsCalls(calls', hist.asked) /\ Unticked(st', ui', hist.asked)
  <2> DEFINE cs == Lists!Ended(calls, "batch", c)
  <2>1. ListsCalls(cs, hist.asked)
    BY <1>0, ListsEnds DEF ListsRequests
  <2>2. \/ Lists!getFilteringStatus(st, cs, <<"batch">>) /\ ui' = ui
        \/ Lists!proceed(<<"batch">>, st, ui, cs)
    BY <1>1 DEF Lists!batchDone
  <2>3. ThenAsked(<<"batch">>, hist.asked)
    BY DEF ThenAsked
  <2> HIDE DEF cs
  <2> QED
    BY <1>0, <2>1, <2>2, <2>3, ListsFetch, ListsProceed
<1>2. ASSUME NEW c \in calls["status"], Lists!statusDone(c)
      PROVE  ListsCalls(calls', hist.asked) /\ Unticked(st', ui', hist.asked)
  BY <1>2, ListsStatus
<1>3. ASSUME NEW c \in calls["add"], Lists!addDone(c)
      PROVE  ListsCalls(calls', hist.asked) /\ Unticked(st', ui', hist.asked)
  <2>1. Unticked([st EXCEPT !.processingAddFilter = FALSE], ui, hist.asked)
        /\ ThenAsked(c.arg[2], hist.asked) /\ "add" \in ListsRequests
    BY <1>0 DEF Unticked, ListsState, ListsCalls, ArgAsked, ListsRequests
  <2> QED
    BY <1>3, <2>1, ListsThunk DEF Lists!addDone
<1>4. ASSUME NEW c \in calls["remove"], Lists!removeDone(c)
      PROVE  ListsCalls(calls', hist.asked) /\ Unticked(st', ui', hist.asked)
  <2>1. Unticked([st EXCEPT !.processingRemoveFilter = FALSE], ui, hist.asked)
        /\ ThenAsked(c.arg[2], hist.asked) /\ "remove" \in ListsRequests
    BY <1>0 DEF Unticked, ListsState, ListsCalls, ArgAsked, ListsRequests
  <2> QED
    BY <1>4, <2>1, ListsThunk DEF Lists!removeDone
<1>5. ASSUME NEW c \in calls["set_url"], Lists!setURLDone(c)
      PROVE  ListsCalls(calls', hist.asked) /\ Unticked(st', ui', hist.asked)
  <2>1. Unticked([st EXCEPT !.processingConfigFilter = FALSE], ui, hist.asked)
        /\ ThenAsked(c.arg[4], hist.asked) /\ "set_url" \in ListsRequests
    BY <1>0 DEF Unticked, ListsState, ListsCalls, ArgAsked, ListsRequests
  <2> QED
    BY <1>5, <2>1, ListsThunk DEF Lists!setURLDone
<1>6. ASSUME NEW c \in calls["refresh"], Lists!refreshDone(c)
      PROVE  ListsCalls(calls', hist.asked) /\ Unticked(st', ui', hist.asked)
  <2>1. Unticked([st EXCEPT !.processingRefreshFilters = FALSE], ui, hist.asked)
        /\ ThenAsked(<<"done">>, hist.asked) /\ "refresh" \in ListsRequests
    BY <1>0 DEF Unticked, ListsState, ThenAsked, ListsRequests
  <2> QED
    BY <1>6, <2>1, ListsThunk DEF Lists!refreshDone
<1>7. ASSUME NEW c \in calls["config"], Lists!configDone(c)
      PROVE  ListsCalls(calls', hist.asked) /\ Unticked(st', ui', hist.asked)
  <2>1. DOMAIN st' = DOMAIN st /\ st'.filters = st.filters /\ ui' = ui
    BY <1>0, <1>7 DEF Lists!configDone, ListsState
  <2>2. ListsCalls(calls', hist.asked)
    BY <1>0, <1>7, ListsEnds DEF Lists!configDone, ListsRequests
  <2> QED
    BY <1>0, <2>1, <2>2 DEF Unticked
<1> QED
  BY <1>1, <1>2, <1>3, <1>4, <1>5, <1>6, <1>7 DEF Lists!Resume

(***************************************************************************)
(* DNS settings.  Until the user has switched the cache, whatever knows    *)
(* its switch has it as it was: the server, the store, the answers on      *)
(* their way and the requests.  A size is never sent without the switch.   *)
(***************************************************************************)
DnsRequests == {"info", "access", "config", "accessSet", "test", "clear"}
CacheKey == "cache_enabled"
SizeKey == "cache_size"

\* What a request changes, what an answer tells, and what a store knows.
CacheIn(values, switched, cache) ==
  /\ SizeKey \in DOMAIN values => CacheKey \in DOMAIN values
  /\ ~switched /\ CacheKey \in DOMAIN values => values[CacheKey] = cache

CacheAnswer(c, switched, cache) ==
  Answer(c) = "ok" => /\ CacheKey \in DOMAIN Data(c).conf
                      /\ ~switched => Data(c).conf[CacheKey] = cache

DnsStore(s, switched, cache) ==
  /\ DOMAIN s = {"conf", "cacheKnown", "defaults", "initialized", "busy", "access",
                 "accessInitialized"}
  /\ CacheKey \in DOMAIN s.conf
  /\ ~switched /\ s.cacheKnown => s.conf[CacheKey] = cache

DnsServerCache(s, switched, cache) ==
  /\ DOMAIN s = {"conf", "defaults", "access"} /\ CacheKey \in DOMAIN s.conf
  /\ ~switched => s.conf[CacheKey] = cache

DnsCalls(cs, switched, cache) ==
  /\ CallsOK(cs, DnsRequests)
  /\ \A c \in cs["config"] : CacheIn(c.arg, switched, cache)
  /\ \A c \in cs["info"] : CacheAnswer(c, switched, cache)

DnsInv ==
  /\ DnsStore(st, hist.switched, hist.cache)
  /\ DnsServerCache(srv, hist.switched, hist.cache)
  /\ DnsCalls(calls, hist.switched, hist.cache)
  /\ DOMAIN hist = {"clean", "cache", "switched"}

LEMMA DnsSame ==
    /\ \A cs, r, c : DnsSettings!Ended(cs, r, c) = Ended(cs, r, c)
    /\ \A cs, r, c, a : DnsSettings!Answered(cs, r, c, a) = Answered(cs, r, c, a)
    /\ \A c : DnsSettings!Answer(c) = Answer(c) /\ DnsSettings!Data(c) = Data(c)
BY DEF DnsSettings!Ended, Ended, DnsSettings!Answered, Answered, DnsSettings!Answer, Answer,
       DnsSettings!Data, Data

LEMMA DnsSent ==
    ASSUME NEW cs, NEW r, NEW arg
    PROVE  \E n : DnsSettings!Sent(cs, r, arg) = Added(cs, r, arg, n)
<1> DEFINE taken == {c.n : c \in {d \in cs[r] : d.arg = arg}}
           k == CHOOSE j \in 1 .. DnsSettings!Cardinality(taken) + 1 : j \notin taken
<1>1. DnsSettings!Sent(cs, r, arg) = Added(cs, r, arg, k)
  BY DEF DnsSettings!Sent, Added
<1> QED
  BY <1>1

LEMMA DnsSends ==
    ASSUME NEW cs, NEW switched, NEW cache, DnsCalls(cs, switched, cache),
           NEW r \in DnsRequests, NEW arg, r = "config" => CacheIn(arg, switched, cache)
    PROVE  DnsCalls(DnsSettings!Sent(cs, r, arg), switched, cache)
<1>1. PICK n : DnsSettings!Sent(cs, r, arg) = Added(cs, r, arg, n)
  BY DnsSent
<1>2. CallsOK(cs, DnsRequests)
  BY DEF DnsCalls
<1> DEFINE new == [arg |-> arg, n |-> n, answer |-> <<>>]
<1>3. new.arg = arg /\ CacheAnswer(new, switched, cache)
  BY DEF CacheAnswer, Answer
<1>4. /\ CallsOK(DnsSettings!Sent(cs, r, arg), DnsRequests)
      /\ \A q \in DnsRequests \ {r} : DnsSettings!Sent(cs, r, arg)[q] = cs[q]
      /\ DnsSettings!Sent(cs, r, arg)[r] = cs[r] \cup {new}
  BY <1>1, <1>2, SentAdds
<1> HIDE DEF new
<1> QED
  BY <1>3, <1>4 DEF DnsCalls, DnsRequests

LEMMA DnsInit == DnsSettings!Init => DnsInv
<1> SUFFICES ASSUME DnsSettings!Init PROVE DnsInv
  OBVIOUS
<1> DEFINE none == DnsSettings!NoCalls(DnsSettings!Requests)
<1>1. DOMAIN hist = {"clean", "cache", "switched"} /\ hist.cache = srv.conf[CacheKey]
  BY DEF DnsSettings!Init, CacheKey
<1>2. DnsCalls(none, hist.switched, hist.cache)
  BY DEF DnsSettings!NoCalls, DnsSettings!Requests, DnsRequests, DnsCalls, CallsOK
<1>3. calls = DnsSettings!Sent(DnsSettings!Sent(none, "info", <<>>), "access", <<>>)
  BY DEF DnsSettings!Init
<1> HIDE DEF none
<1>4. DnsCalls(calls, hist.switched, hist.cache)
  <2> DEFINE cs == DnsSettings!Sent(none, "info", <<>>)
  <2>1. DnsCalls(cs, hist.switched, hist.cache)
    BY <1>2, DnsSends DEF DnsRequests
  <2> HIDE DEF cs
  <2> QED
    BY <1>3, <2>1, DnsSends DEF DnsRequests, cs
<1>5. CacheKey \in DOMAIN DnsSettings!emptyConfig
  BY DEF CacheKey, DnsSettings!emptyConfig, DnsSettings!Setting, DnsSettings!Switch
<1>6. DnsStore(st, hist.switched, hist.cache)
  <2>1. PICK access : st = [conf |-> DnsSettings!emptyConfig, cacheKnown |-> FALSE,
                            defaults |-> FALSE, initialized |-> FALSE, busy |-> {"info", "access"},
                            access |-> access, accessInitialized |-> FALSE]
    BY Zenon DEF DnsSettings!Init, DnsSettings!initialState
  <2> QED
    BY <1>5, <2>1 DEF DnsStore
<1>7. DnsServerCache(srv, hist.switched, hist.cache)
  <2>1. PICK cache, local, defaults :
          srv = [conf |-> DnsSettings!Saved(local = "server", local, cache), defaults |-> defaults,
                 access |-> [l \in DnsSettings!AccessList |-> "server"]]
    BY Zenon DEF DnsSettings!Init
  <2>2. DOMAIN srv.conf = DOMAIN DnsSettings!emptyConfig
    BY <2>1 DEF DnsSettings!Saved, DnsSettings!Merged
  <2> QED
    BY <1>1, <1>5, <2>1, <2>2 DEF DnsServerCache
<1> QED
  BY <1>1, <1>4, <1>6, <1>7 DEF DnsInv

LEMMA DnsActs ==
    ASSUME DnsInv, DnsSettings!UserActs
    PROVE  /\ DOMAIN hist' = {"clean", "cache", "switched"} /\ srv' = srv
           /\ hist'.switched = hist.switched /\ hist'.cache = hist.cache
BY DEF DnsInv, DnsSettings!UserActs, DnsSettings!Act, DnsSettings!Noted

\* A step of the user that sends a part of the configuration.
LEMMA DnsSaves ==
    ASSUME DnsInv, DnsSettings!UserActs, NEW values, CacheIn(values, hist.switched, hist.cache),
           DnsSettings!setDnsConfig(values)
    PROVE  DnsInv'
<1>1. /\ st' = [st EXCEPT !.busy = @ \cup {"config"}]
      /\ calls' = DnsSettings!Sent(calls, "config", values)
  BY DEF DnsSettings!setDnsConfig
<1>2. DnsCalls(calls', hist.switched, hist.cache)
  BY <1>1, DnsSends DEF DnsInv, DnsRequests
<1>3. DnsStore(st', hist.switched, hist.cache)
  BY <1>1 DEF DnsInv, DnsStore
<1> QED
  BY <1>2, <1>3, DnsActs DEF DnsInv

\* One that sends another request, or none.
LEMMA DnsOther ==
    ASSUME DnsInv, DnsSettings!UserActs, DnsCalls(calls', hist.switched, hist.cache),
           NEW busy, st' = [st EXCEPT !.busy = busy]
    PROVE  DnsInv'
<1>1. DnsStore(st', hist.switched, hist.cache)
  BY DEF DnsInv, DnsStore
<1> QED
  BY <1>1, DnsActs DEF DnsInv

LEMMA DnsLooks ==
    ASSUME DnsInv, DnsSettings!UserActs \/ DnsSettings!Look, st' = st, calls' = calls
    PROVE  DnsInv'
<1>1. /\ DOMAIN hist' = {"clean", "cache", "switched"} /\ srv' = srv
      /\ hist'.switched = hist.switched /\ hist'.cache = hist.cache
  BY DnsActs DEF DnsSettings!Look, DnsInv
<1> QED
  BY <1>1 DEF DnsInv

\* Parts without the cache.
LEMMA DnsParts ==
    /\ \A k, v, switched, cache : k \notin {CacheKey, SizeKey} =>
         CacheIn(DnsSettings!Part(k, v), switched, cache)
    /\ \A j, v, k, w, switched, cache :
         j \notin {CacheKey, SizeKey} /\ k \notin {CacheKey, SizeKey} =>
         CacheIn(DnsSettings!Both(j, v, k, w), switched, cache)
BY DEF CacheIn, DnsSettings!Part, DnsSettings!Both

LEMMA DnsFields ==
    \A d \in DnsSettings!NumberDialogs \cup DnsSettings!LinesDialogs :
      d.key \notin {CacheKey, SizeKey}
<1>1. \A d \in DnsSettings!NumberDialogs : d.key \notin {CacheKey, SizeKey}
  BY DEF CacheKey, SizeKey, DnsSettings!NumberDialogs, DnsSettings!RateLimitDialog,
         DnsSettings!SubnetPrefixV4Dialog, DnsSettings!SubnetPrefixV6Dialog,
         DnsSettings!TimeoutDialog, DnsSettings!UpstreamModeDialog
<1>2. \A d \in DnsSettings!LinesDialogs : d.key \notin {CacheKey, SizeKey}
  BY DEF CacheKey, SizeKey, DnsSettings!LinesDialogs, DnsSettings!ServerAddressesDialog,
         DnsSettings!FallbackDnsDialog, DnsSettings!BootstrapDnsDialog,
         DnsSettings!RateLimitAllowlistDialog
<1> QED
  BY <1>1, <1>2

LEMMA DnsToggles ==
    ASSUME DnsInv, DnsSettings!UserActs, NEW values, CacheIn(values, hist.switched, hist.cache),
           DnsSettings!saveToggle(values)
    PROVE  DnsInv'
<1>1. (st' = st /\ calls' = calls) \/ DnsSettings!setDnsConfig(values)
  BY DEF DnsSettings!saveToggle
<1> QED
  BY <1>1, DnsLooks, DnsSaves

LEMMA DnsPtr ==
    ASSUME DnsInv, DnsSettings!handlePrivatePtrResolversToggle
    PROVE  DnsInv'
<1> DEFINE local == st.conf["local_ptr_upstreams"]
           values == IF st.conf[DnsSettings!Ptr] THEN DnsSettings!Part(DnsSettings!Ptr, FALSE)
                     ELSE IF local = DnsSettings!NoText THEN DnsSettings!Part(DnsSettings!Ptr, TRUE)
                     ELSE DnsSettings!Both(DnsSettings!Ptr, TRUE, "local_ptr_upstreams", local)
<1>1. DnsSettings!Ptr \notin {CacheKey, SizeKey} /\ "local_ptr_upstreams" \notin {CacheKey, SizeKey}
  BY DEF DnsSettings!Ptr, CacheKey, SizeKey
<1>2. CacheIn(values, hist.switched, hist.cache)
  BY <1>1, DnsParts
<1>3. DnsSettings!UserActs
  BY DEF DnsSettings!handlePrivatePtrResolversToggle
<1>4. CASE DnsSettings!saveToggle(values)
  BY <1>2, <1>3, <1>4, DnsToggles
<1>5. CASE /\ st' = [st EXCEPT !.busy = @ \cup {"info"}]
           /\ calls' = DnsSettings!Sent(calls, "info", <<>>)
  <2>1. DnsCalls(calls', hist.switched, hist.cache)
    BY <1>5, DnsSends DEF DnsInv, DnsRequests
  <2> QED
    BY <1>3, <1>5, <2>1, DnsOther
<1>6. CASE st' = st /\ calls' = calls
  BY <1>3, <1>6, DnsLooks
<1> QED
  BY <1>4, <1>5, <1>6
     DEF DnsSettings!handlePrivatePtrResolversToggle, DnsSettings!togglePrivatePtrResolvers

\* The switch of the cache: it counts as switched once its value is sent.
LEMMA DnsSwitch ==
    ASSUME DnsInv, DnsSettings!handleCacheEnabledToggle
    PROVE  DnsInv'
<1> DEFINE values == DnsSettings!Part("cache_enabled", ~st.conf["cache_enabled"])
<1>1. /\ DnsSettings!saveToggle(values) /\ srv' = srv
      /\ hist' = [DnsSettings!Noted(hist) EXCEPT !.switched = @ \/ ~DnsSettings!Saving]
  BY DEF DnsSettings!handleCacheEnabledToggle, DnsSettings!Act
<1>2. /\ DOMAIN hist' = {"clean", "cache", "switched"} /\ hist'.cache = hist.cache
      /\ hist'.switched = (hist.switched \/ ~DnsSettings!Saving)
  BY <1>1 DEF DnsInv, DnsSettings!Noted
<1>3. CASE DnsSettings!Saving
  <2>1. st' = st /\ calls' = calls
    BY <1>1, <1>3 DEF DnsSettings!saveToggle
  <2>2. hist'.switched <=> hist.switched
    BY <1>2, <1>3
  <2> QED
    BY <1>1, <1>2, <2>1, <2>2
       DEF DnsInv, DnsStore, DnsServerCache, DnsCalls, CacheIn, CacheAnswer
<1>4. CASE ~DnsSettings!Saving
  <2>1. /\ st' = [st EXCEPT !.busy = @ \cup {"config"}]
        /\ calls' = DnsSettings!Sent(calls, "config", values)
    BY <1>1, <1>4 DEF DnsSettings!saveToggle, DnsSettings!setDnsConfig
  <2>2. CacheIn(values, TRUE, hist.cache)
    BY DEF CacheIn, DnsSettings!Part, SizeKey
  <2>3. DnsCalls(calls, TRUE, hist.cache)
    BY DEF DnsInv, DnsCalls, CacheIn, CacheAnswer
  <2>4. DnsCalls(calls', TRUE, hist.cache)
    BY <2>1, <2>2, <2>3, DnsSends DEF DnsRequests
  <2>5. hist'.switched
    BY <1>2, <1>4
  <2>6. DnsStore(st', hist'.switched, hist'.cache)
    BY <2>1, <2>5 DEF DnsInv, DnsStore
  <2>7. DnsServerCache(srv', hist'.switched, hist'.cache)
    BY <1>1, <2>5 DEF DnsInv, DnsServerCache
  <2>8. DnsCalls(calls', hist'.switched, hist'.cache)
    BY <1>2, <2>4, <2>5 DEF DnsCalls, CacheIn, CacheAnswer
  <2> QED
    BY <1>2, <2>6, <2>7, <2>8 DEF DnsInv
<1> QED
  BY <1>3, <1>4

\* A size goes with the switch as the store has it, which is known by then.
LEMMA DnsSize ==
    ASSUME DnsInv, DnsSettings!saveCacheSize
    PROVE  DnsInv'
<1>1. PICK n : DnsSettings!setDnsConfig(DnsSettings!sizeValues(n))
  BY DEF DnsSettings!saveCacheSize
<1>2. st.cacheKnown /\ DnsSettings!UserActs
  BY DEF DnsSettings!saveCacheSize, DnsSettings!Submits
<1>3. CacheIn(DnsSettings!sizeValues(n), hist.switched, hist.cache)
  BY <1>2 DEF DnsInv, DnsStore, CacheIn, DnsSettings!sizeValues, CacheKey, SizeKey
<1> QED
  BY <1>1, <1>2, <1>3, DnsSaves

LEMMA DnsUser == DnsInv /\ DnsSettings!UserStep => DnsInv'
<1> SUFFICES ASSUME DnsInv, DnsSettings!UserStep PROVE DnsInv'
  OBVIOUS
<1>1. CASE DnsSettings!handlePrivatePtrResolversToggle
  BY <1>1, DnsPtr
<1>2. CASE DnsSettings!handleToggle
  <2>1. PICK k \in DnsSettings!Plain :
          DnsSettings!saveToggle(DnsSettings!Part(k, ~st.conf[k]))
    BY <1>2 DEF DnsSettings!handleToggle
  <2>2. k \notin {CacheKey, SizeKey}
    BY DEF DnsSettings!Plain, CacheKey, SizeKey
  <2>3. CacheIn(DnsSettings!Part(k, ~st.conf[k]), hist.switched, hist.cache)
    BY <2>2, DnsParts
  <2> QED
    BY <1>2, <2>1, <2>3, DnsToggles DEF DnsSettings!handleToggle
<1>3. CASE DnsSettings!handleCacheEnabledToggle
  BY <1>3, DnsSwitch
<1>4. CASE DnsSettings!saveField
  <2>1. PICK d \in DnsSettings!NumberDialogs \cup DnsSettings!LinesDialogs :
          \E v : DnsSettings!setDnsConfig(DnsSettings!Part(d.key, v))
    BY <1>4 DEF DnsSettings!saveField
  <2>2. PICK v : DnsSettings!setDnsConfig(DnsSettings!Part(d.key, v))
    BY <2>1
  <2>3. CacheIn(DnsSettings!Part(d.key, v), hist.switched, hist.cache)
    BY DnsFields, DnsParts
  <2> QED
    BY <1>4, <2>2, <2>3, DnsSaves DEF DnsSettings!saveField, DnsSettings!Submits
<1>5. CASE DnsSettings!saveCacheSize
  BY <1>5, DnsSize
<1>6. CASE DnsSettings!saveTtlMin
  <2>1. PICK n : DnsSettings!setDnsConfig(DnsSettings!Part("cache_ttl_min", n))
    BY <1>6 DEF DnsSettings!saveTtlMin
  <2>2. CacheIn(DnsSettings!Part("cache_ttl_min", n), hist.switched, hist.cache)
    BY DnsParts DEF CacheKey, SizeKey
  <2> QED
    BY <1>6, <2>1, <2>2, DnsSaves DEF DnsSettings!saveTtlMin, DnsSettings!Submits
<1>7. CASE DnsSettings!saveTtlMax
  <2>1. PICK n : DnsSettings!setDnsConfig(DnsSettings!Part("cache_ttl_max", n))
    BY <1>7 DEF DnsSettings!saveTtlMax
  <2>2. CacheIn(DnsSettings!Part("cache_ttl_max", n), hist.switched, hist.cache)
    BY DnsParts DEF CacheKey, SizeKey
  <2> QED
    BY <1>7, <2>1, <2>2, DnsSaves DEF DnsSettings!saveTtlMax, DnsSettings!Submits
<1>8. CASE DnsSettings!saveBlockingMode
  <2>1. PICK ip : \/ DnsSettings!setDnsConfig(DnsSettings!Part("blocking_mode", FALSE))
                  \/ DnsSettings!setDnsConfig(
                       DnsSettings!Both("blocking_mode", TRUE, "blocking_ip", ip))
    BY <1>8 DEF DnsSettings!saveBlockingMode
  <2>2. /\ CacheIn(DnsSettings!Part("blocking_mode", FALSE), hist.switched, hist.cache)
        /\ CacheIn(DnsSettings!Both("blocking_mode", TRUE, "blocking_ip", ip), hist.switched,
                   hist.cache)
    BY DnsParts DEF CacheKey, SizeKey
  <2> QED
    BY <1>8, <2>1, <2>2, DnsSaves DEF DnsSettings!saveBlockingMode, DnsSettings!Submits
<1>9. CASE DnsSettings!saveEdns
  <2>1. /\ CacheIn(DnsSettings!Part("edns_cs_use_custom", FALSE), hist.switched, hist.cache)
        /\ CacheIn(DnsSettings!Both("edns_cs_use_custom", TRUE, "edns_cs_custom_ip", 1),
                   hist.switched, hist.cache)
    BY DnsParts DEF CacheKey, SizeKey
  <2> QED
    BY <1>9, <2>1, DnsSaves DEF DnsSettings!saveEdns, DnsSettings!Submits
<1>10. CASE DnsSettings!openServers \/ DnsSettings!closeServers
  BY <1>10, DnsLooks DEF DnsSettings!openServers, DnsSettings!closeServers, DnsSettings!Look
<1>11. CASE DnsSettings!saveServers
  <2>1. PICK t : DnsSettings!setDnsConfig(DnsSettings!Part("local_ptr_upstreams", t))
    BY <1>11 DEF DnsSettings!saveServers
  <2>2. CacheIn(DnsSettings!Part("local_ptr_upstreams", t), hist.switched, hist.cache)
    BY DnsParts DEF CacheKey, SizeKey
  <2> QED
    BY <1>11, <2>1, <2>2, DnsSaves DEF DnsSettings!saveServers
<1>12. CASE DnsSettings!setAccessList
  <2>1. PICK arg : calls' = DnsSettings!Sent(calls, "accessSet", arg)
    BY <1>12 DEF DnsSettings!setAccessList
  <2>2. DnsCalls(calls', hist.switched, hist.cache)
    BY <2>1, DnsSends DEF DnsInv, DnsRequests
  <2> QED
    BY <1>12, <2>2, DnsOther DEF DnsSettings!setAccessList
<1>13. CASE DnsSettings!testUpstreamWithFormValues
  <2>1. calls' = DnsSettings!Sent(calls, "test", <<>>)
    BY <1>13 DEF DnsSettings!testUpstreamWithFormValues
  <2>2. DnsCalls(calls', hist.switched, hist.cache)
    BY <2>1, DnsSends DEF DnsInv, DnsRequests
  <2> QED
    BY <1>13, <2>2, DnsOther DEF DnsSettings!testUpstreamWithFormValues
<1>14. CASE DnsSettings!clearDnsCache
  <2>1. calls' = DnsSettings!Sent(calls, "clear", <<>>) /\ st' = st
    BY <1>14 DEF DnsSettings!clearDnsCache
  <2>2. DnsCalls(calls', hist.switched, hist.cache)
    BY <2>1, DnsSends DEF DnsInv, DnsRequests
  <2> QED
    BY <1>14, <2>1, <2>2, DnsActs DEF DnsSettings!clearDnsCache, DnsInv
<1>15. CASE DnsSettings!navigate
  <2> DEFINE cs == DnsSettings!Sent(calls, "info", <<>>)
  <2>1. PICK fetched : st' = [st EXCEPT !.busy = @ \cup fetched]
    BY <1>15 DEF DnsSettings!navigate
  <2>2. calls' = cs \/ calls' = DnsSettings!Sent(cs, "access", <<>>)
    BY <1>15 DEF DnsSettings!navigate
  <2>3. DnsCalls(cs, hist.switched, hist.cache)
    BY DnsSends DEF DnsInv, DnsRequests
  <2> HIDE DEF cs
  <2>4. DnsCalls(calls', hist.switched, hist.cache)
    BY <2>2, <2>3, DnsSends DEF DnsRequests
  <2> QED
    BY <1>15, <2>1, <2>4, DnsOther DEF DnsSettings!navigate
<1> QED
  BY <1>1, <1>2, <1>3, <1>4, <1>5, <1>6, <1>7, <1>8, <1>9, <1>10, <1>11, <1>12, <1>13, <1>14,
     <1>15 DEF DnsSettings!UserStep

\* An answer leaves what was sent as it is; what the server tells is what it has.
LEMMA DnsAnswers ==
    ASSUME DnsInv, NEW r \in DnsRequests, NEW c \in calls[r], NEW answer,
           calls' = DnsSettings!Answered(calls, r, c, answer),
           r = "info" => CacheAnswer(Reply(c, answer), hist.switched, hist.cache)
    PROVE  DnsCalls(calls', hist.switched, hist.cache)
<1>1. CallsOK(calls, DnsRequests) /\ DnsCalls(calls, hist.switched, hist.cache)
  BY DEF DnsInv, DnsCalls
<1>2. calls' = Answered(calls, r, c, answer)
  BY DnsSame
<1>3. Reply(c, answer).arg = c.arg
  BY DEF Reply
<1>4. /\ CallsOK(calls', DnsRequests)
      /\ \A q \in DnsRequests \ {r} : calls'[q] = calls[q]
      /\ calls'[r] = (calls[r] \ {c}) \cup {Reply(c, answer)}
  BY <1>1, <1>2, AnsweredChanges
<1> QED
  BY <1>1, <1>3, <1>4 DEF DnsCalls, DnsRequests

\* The server merges what it was sent: a size comes with the switch, and nothing
\* is inferred.
LEMMA DnsMerges ==
    ASSUME DnsInv, NEW c \in calls["config"],
           NEW v, v = DnsSettings!Inferred(DnsSettings!splitLines(c.arg)),
           NEW s, s = [srv EXCEPT !.conf = DnsSettings!Merged(v, @)]
    PROVE  DnsServerCache(s, hist.switched, hist.cache)
<1>1. CacheIn(c.arg, hist.switched, hist.cache)
  BY DEF DnsInv, DnsCalls
<1>2. CacheKey \notin DnsSettings!Texts \cup DnsSettings!AccessList
  <2>1. CacheKey \notin DnsSettings!Texts
    <3>1. CacheKey \notin DnsSettings!Lines
      BY DnsFields DEF DnsSettings!Lines
    <3> QED
      BY <3>1 DEF DnsSettings!Texts, CacheKey
  <2>2. CacheKey \notin DnsSettings!AccessList
    BY DEF CacheKey, DnsSettings!AccessList, DnsSettings!AccessDialogs,
           DnsSettings!AllowedClientsDialog, DnsSettings!DisallowedClientsDialog,
           DnsSettings!DisallowedDomainsDialog
  <2> QED
    BY <2>1, <2>2
<1> DEFINE split == DnsSettings!splitLines(c.arg)
<1>3. /\ DOMAIN split = DOMAIN c.arg
      /\ CacheKey \in DOMAIN c.arg => split[CacheKey] = c.arg[CacheKey]
  BY <1>2 DEF DnsSettings!splitLines
<1>4. CacheIn(split, hist.switched, hist.cache)
  BY <1>1, <1>3 DEF CacheIn
<1> HIDE DEF split
<1>5. v = split
  BY <1>4 DEF split, DnsSettings!Inferred, CacheIn, CacheKey, SizeKey
<1>6. /\ DOMAIN DnsSettings!Merged(v, srv.conf) = DOMAIN srv.conf
      /\ DnsSettings!Merged(v, srv.conf)[CacheKey] =
           IF CacheKey \in DOMAIN v THEN v[CacheKey] ELSE srv.conf[CacheKey]
  BY DEF DnsInv, DnsServerCache, DnsSettings!Merged
<1>7. DOMAIN s = DOMAIN srv /\ s.conf = DnsSettings!Merged(v, srv.conf)
  BY DEF DnsInv, DnsServerCache
<1> QED
  BY <1>4, <1>5, <1>6, <1>7 DEF DnsInv, DnsServerCache, CacheIn

LEMMA DnsServer == DnsInv /\ DnsSettings!Server => DnsInv'
<1> SUFFICES ASSUME DnsInv, DnsSettings!Server PROVE DnsInv'
  OBVIOUS
<1>1. st' = st /\ hist' = hist
  BY DEF DnsSettings!Server
<1>2. PICK r \in DnsRequests : \E c \in calls[r] : DnsSettings!serve(r, c)
  BY DEF DnsSettings!Server, DnsSettings!Requests, DnsRequests
<1>3. PICK c \in calls[r] : DnsSettings!serve(r, c)
  BY <1>2
<1> SUFFICES /\ DnsCalls(calls', hist.switched, hist.cache)
             /\ DnsServerCache(srv', hist.switched, hist.cache)
  BY <1>1 DEF DnsInv
<1>4. DnsServerCache(srv, hist.switched, hist.cache)
  BY DEF DnsInv
<1>5. CASE r = "info"
  <2> DEFINE data == [conf |-> srv.conf, defaults |-> srv.defaults]
  <2>1. DnsSettings!Served(r, c, srv, data)
    BY <1>3, <1>5 DEF DnsSettings!serve
  <2>2. srv' = srv
    BY <2>1 DEF DnsSettings!Served
  <2>3. /\ CacheAnswer(Reply(c, <<"ok", data>>), hist.switched, hist.cache)
        /\ CacheAnswer(Reply(c, <<"failed">>), hist.switched, hist.cache)
    BY <1>4 DEF CacheAnswer, Reply, Answer, Data, DnsServerCache
  <2>4. \/ calls' = DnsSettings!Answered(calls, r, c, <<"ok", data>>)
        \/ calls' = DnsSettings!Answered(calls, r, c, <<"failed">>)
    BY <2>1 DEF DnsSettings!Served
  <2> HIDE DEF data
  <2> QED
    BY <1>4, <2>2, <2>3, <2>4, DnsAnswers
<1>6. CASE r = "config"
  <2> DEFINE v == DnsSettings!Inferred(DnsSettings!splitLines(c.arg))
             s == [srv EXCEPT !.conf = DnsSettings!Merged(v, @)]
  <2>1. DnsServerCache(s, hist.switched, hist.cache)
    BY <1>6, DnsMerges
  <2>2. DnsSettings!Refused(r, c) \/ DnsSettings!Served(r, c, s, {})
    BY <1>3, <1>6 DEF DnsSettings!serve
  <2> HIDE DEF s
  <2>3. \E answer : calls' = DnsSettings!Answered(calls, r, c, answer)
    BY <2>2 DEF DnsSettings!Refused, DnsSettings!Served
  <2>4. srv' \in {srv, s}
    BY <2>2 DEF DnsSettings!Refused, DnsSettings!Served
  <2> QED
    BY <1>4, <1>6, <2>1, <2>3, <2>4, DnsAnswers
<1>7. CASE r \notin {"info", "config"}
  <2>1. PICK s, data : /\ DnsSettings!Served(r, c, s, data)
                       /\ s = srv \/ \E access : s = [srv EXCEPT !.access = access]
    BY <1>3, <1>7 DEF DnsSettings!serve
  <2>2. DnsServerCache(s, hist.switched, hist.cache)
    BY <1>4, <2>1 DEF DnsServerCache
  <2>3. \E answer : calls' = DnsSettings!Answered(calls, r, c, answer)
    BY <2>1 DEF DnsSettings!Served
  <2>4. srv' \in {srv, s}
    BY <2>1 DEF DnsSettings!Served
  <2> QED
    BY <1>4, <1>7, <2>2, <2>3, <2>4, DnsAnswers
<1> QED
  BY <1>5, <1>6, <1>7

LEMMA DnsResume == DnsInv /\ DnsSettings!Resume => DnsInv'
<1> SUFFICES ASSUME DnsInv, DnsSettings!Resume PROVE DnsInv'
  OBVIOUS
<1>1. PICK r \in DnsRequests : \E c \in calls[r] :
        /\ DnsSettings!Answer(c) # "out" /\ DnsSettings!resume(r, c)
        /\ calls' = DnsSettings!Ended(calls, r, c) /\ hist' = DnsSettings!Learned(hist, c)
  BY DEF DnsSettings!Resume, DnsSettings!Requests, DnsRequests
<1>2. PICK c \in calls[r] :
        /\ DnsSettings!Answer(c) # "out" /\ DnsSettings!resume(r, c)
        /\ calls' = DnsSettings!Ended(calls, r, c) /\ hist' = DnsSettings!Learned(hist, c)
  BY <1>1
<1>3. srv' = srv /\ calls' = Ended(calls, r, c) /\ CallsOK(calls, DnsRequests)
  BY <1>2, DnsSame DEF DnsSettings!Resume, DnsInv, DnsCalls
<1>4. /\ DOMAIN hist' = {"clean", "cache", "switched"}
      /\ hist'.switched = hist.switched /\ hist'.cache = hist.cache
  BY <1>2 DEF DnsInv, DnsSettings!Learned
<1>5. DnsCalls(calls', hist.switched, hist.cache)
  BY <1>3, EndedRemoves DEF DnsInv, DnsCalls, DnsRequests
<1> SUFFICES DnsStore(st', hist.switched, hist.cache)
  BY <1>3, <1>4, <1>5 DEF DnsInv
<1>6. DnsStore(st, hist.switched, hist.cache)
  BY DEF DnsInv
<1>7. CASE r = "info"
  <2> DEFINE ok == Answer(c) = "ok"
             conf == DnsSettings!shownConfig(Data(c).conf)
             s == IF ok THEN [st EXCEPT !.conf = conf, !.cacheKnown = TRUE,
                                        !.defaults = Data(c).defaults] ELSE st
  <2>1. CacheAnswer(c, hist.switched, hist.cache)
    BY <1>7 DEF DnsInv, DnsCalls
  <2>2. st' = DnsSettings!infoSettled(s, ok)
    BY <1>2, <1>7, DnsSame DEF DnsSettings!resume, DnsSettings!getDnsConfig
  <2>3. /\ DOMAIN conf = DOMAIN Data(c).conf
        /\ CacheKey \in DOMAIN conf => conf[CacheKey] = Data(c).conf[CacheKey]
    BY DEF DnsSettings!shownConfig, CacheKey
  <2> HIDE DEF conf
  <2>4. DnsStore(s, hist.switched, hist.cache)
    BY <1>6, <2>1, <2>3 DEF DnsStore, CacheAnswer
  <2> HIDE DEF s
  <2> QED
    BY <2>2, <2>4 DEF DnsStore, DnsSettings!infoSettled
<1>8. CASE r = "config"
  <2> DEFINE s == [st EXCEPT !.busy = @ \ {"config"}]
             conf == DnsSettings!Merged(c.arg, s.conf)
  <2>1. CacheIn(c.arg, hist.switched, hist.cache)
    BY <1>8 DEF DnsInv, DnsCalls
  <2>2. \/ st' = s
        \/ st' = [s EXCEPT !.conf = conf, !.cacheKnown = @ \/ CacheKey \in DOMAIN c.arg]
    BY <1>2, <1>8 DEF DnsSettings!resume, DnsSettings!configDone, CacheKey
  <2>3. DnsStore(s, hist.switched, hist.cache)
    BY <1>6 DEF DnsStore
  <2> HIDE DEF s
  <2>4. /\ DOMAIN conf = DOMAIN s.conf
        /\ conf[CacheKey] = IF CacheKey \in DOMAIN c.arg THEN c.arg[CacheKey] ELSE s.conf[CacheKey]
    BY <2>3 DEF DnsStore, DnsSettings!Merged
  <2> HIDE DEF conf
  <2> QED
    BY <2>1, <2>2, <2>3, <2>4 DEF DnsStore, CacheIn
<1>9. CASE r \notin {"info", "config"}
  <2>1. DOMAIN st' = DOMAIN st /\ st'.conf = st.conf /\ st'.cacheKnown = st.cacheKnown
    <3>1. CASE DnsSettings!getAccessList(c)
      BY <1>6, <3>1 DEF DnsStore, DnsSettings!getAccessList
    <3>2. CASE DnsSettings!accessSetDone(c)
      BY <1>6, <3>2 DEF DnsStore, DnsSettings!accessSetDone
    <3>3. CASE st' = [st EXCEPT !.busy = @ \ {"test"}]
      BY <1>6, <3>3 DEF DnsStore
    <3> QED
      BY <1>2, <1>9, <3>1, <3>2, <3>3 DEF DnsSettings!resume
  <2> QED
    BY <1>6, <2>1 DEF DnsStore
<1> QED
  BY <1>7, <1>8, <1>9

(***************************************************************************)
(* General settings.  While the user waits and nothing fails, one request  *)
(* about the retention is out at most, the store has the server's          *)
(* retention unless such a request is out, and what is sent is no shorter  *)
(* than what the user has agreed to.                                       *)
(***************************************************************************)
SettingsRequests ==
  {"settings", "getConfig", "status", "toggle", "search", "setConfig", "filters", "clear"}

SettingsStore(s) ==
  /\ DOMAIN s = {"busy", "ready", "on", "providers", "conf", "filtering"}
  /\ DOMAIN s.conf = {"logs"}
  /\ DOMAIN s.conf["logs"] = {"flags", "interval", "custom", "ignored"}
  /\ s.conf["logs"].interval \in Int /\ s.conf["logs"].custom \in Int

SettingsModal(m) ==
  m # <<>> => /\ DOMAIN m = {"kind", "custom", "confirm", "interval"} /\ m.kind = "logs"
              /\ m.custom \in Int /\ m.confirm \in Int /\ m.interval \in Int
SettingsUi(u) == DOMAIN u = {"boxes", "filtering", "modal"} /\ SettingsModal(u.modal)

SettingsServer(s) ==
  /\ DOMAIN s = {"on", "providers", "conf", "filtering"} /\ DOMAIN s.conf = {"logs"}
  /\ s.conf["logs"].interval \in Int

SettingsHist(h) ==
  /\ DOMAIN h = {"clean", "floor", "hours"} /\ DOMAIN h.floor = {"logs"}
  /\ h.floor["logs"] \in Int

FetchShape(c) == c.arg = "logs" /\ (Answer(c) = "ok" => Data(c).interval \in Int)
SaveShape(c) == c.arg.kind = "logs" /\ c.arg.values.interval \in Int
SettingsCalls(cs) ==
  /\ CallsOK(cs, SettingsRequests)
  /\ \A c \in cs["getConfig"] : FetchShape(c)
  /\ \A c \in cs["setConfig"] : SaveShape(c)

SettingsShape ==
  /\ SettingsCalls(calls) /\ SettingsStore(st) /\ SettingsUi(ui) /\ SettingsServer(srv)
  /\ SettingsHist(hist)

OneSave ==
  \A c \in calls["setConfig"] :
    /\ calls["setConfig"] = {c} /\ calls["getConfig"] = {}
    /\ c.arg.values.interval >= hist.floor["logs"]
    /\ Answer(c) = "ok" => srv.conf["logs"].interval = c.arg.values.interval

RetentionFetched ==
  \A c \in calls["getConfig"] : Answer(c) = "ok" => Data(c).interval = srv.conf["logs"].interval

SettledRetention ==
  calls["setConfig"] = {} =>
    /\ srv.conf["logs"].interval >= hist.floor["logs"]
    /\ calls["getConfig"] = {} => st.conf["logs"].interval = srv.conf["logs"].interval

SettingsInv ==
  SettingsShape /\ (hist.clean => OneSave /\ RetentionFetched /\ SettledRetention)

LEMMA SettingsSame ==
    /\ \A cs, r, c : Settings!Ended(cs, r, c) = Ended(cs, r, c)
    /\ \A cs, r, c, a : Settings!Answered(cs, r, c, a) = Answered(cs, r, c, a)
    /\ \A c : Settings!Answer(c) = Answer(c) /\ Settings!Data(c) = Data(c)
BY DEF Settings!Ended, Ended, Settings!Answered, Answered, Settings!Answer, Answer,
       Settings!Data, Data

LEMMA SettingsSent ==
    ASSUME NEW cs, NEW r, NEW arg
    PROVE  \E n : Settings!Sent(cs, r, arg) = Added(cs, r, arg, n)
<1> DEFINE taken == {c.n : c \in {d \in cs[r] : d.arg = arg}}
           k == CHOOSE j \in 1 .. Settings!Cardinality(taken) + 1 : j \notin taken
<1>1. Settings!Sent(cs, r, arg) = Added(cs, r, arg, k)
  BY DEF Settings!Sent, Added
<1> QED
  BY <1>1

LEMMA SettingsSends ==
    ASSUME NEW cs, CallsOK(cs, SettingsRequests), NEW r \in SettingsRequests, NEW arg
    PROVE  /\ CallsOK(Settings!Sent(cs, r, arg), SettingsRequests)
           /\ \A q \in SettingsRequests \ {r} : Settings!Sent(cs, r, arg)[q] = cs[q]
           /\ \E c : c.arg = arg /\ Answer(c) = "out"
                     /\ Settings!Sent(cs, r, arg)[r] = cs[r] \cup {c}
<1>1. PICK n : Settings!Sent(cs, r, arg) = Added(cs, r, arg, n)
  BY SettingsSent
<1> DEFINE c == [arg |-> arg, n |-> n, answer |-> <<>>]
<1>2. c.arg = arg /\ Answer(c) = "out"
  BY DEF Answer
<1>3. /\ CallsOK(Settings!Sent(cs, r, arg), SettingsRequests)
      /\ \A q \in SettingsRequests \ {r} : Settings!Sent(cs, r, arg)[q] = cs[q]
      /\ Settings!Sent(cs, r, arg)[r] = cs[r] \cup {c}
  BY <1>1, SentAdds
<1> HIDE DEF c
<1> QED
  BY <1>2, <1>3

\* Opening the page fetches, among others, the retention.
LEMMA SettingsMounted ==
    ASSUME NEW cs, SettingsCalls(cs)
    PROVE  /\ SettingsCalls(Settings!mounted(cs))
           /\ Settings!mounted(cs)["setConfig"] = cs["setConfig"]
           /\ \E c : /\ Settings!mounted(cs)["getConfig"] = cs["getConfig"] \cup {c}
                     /\ Answer(c) = "out"
<1> DEFINE first == Settings!Sent(cs, "settings", <<>>)
           one == Settings!Sent(first, "status", <<>>)
<1>1. /\ CallsOK(first, SettingsRequests)
      /\ \A q \in SettingsRequests \ {"settings"} : first[q] = cs[q]
  BY SettingsSends DEF SettingsCalls, SettingsRequests
<1> HIDE DEF first
<1>2. CallsOK(one, SettingsRequests) /\ \A q \in SettingsRequests \ {"status"} : one[q] = first[q]
  BY <1>1, SettingsSends DEF SettingsRequests
<1>3. one["getConfig"] = cs["getConfig"] /\ one["setConfig"] = cs["setConfig"]
  BY <1>1, <1>2 DEF SettingsRequests
<1> DEFINE n == Settings!Cardinality({c \in one["getConfig"] : c.arg = "logs"}) + 1
           new == [arg |-> "logs", n |-> n, answer |-> <<>>]
<1>4. Settings!mounted(cs) = [one EXCEPT !["getConfig"] = @ \cup {new}]
  BY DEF Settings!mounted, first
<1> HIDE DEF one, n
<1>5. IsCall(new) /\ FetchShape(new) /\ Answer(new) = "out"
  BY DEF IsCall, FetchShape, Answer
<1> HIDE DEF new
<1>6. /\ DOMAIN Settings!mounted(cs) = SettingsRequests
      /\ Settings!mounted(cs)["getConfig"] = one["getConfig"] \cup {new}
      /\ \A q \in SettingsRequests \ {"getConfig"} : Settings!mounted(cs)[q] = one[q]
  BY <1>2, <1>4 DEF CallsOK, SettingsRequests
<1>7. CallsOK(Settings!mounted(cs), SettingsRequests)
  BY <1>2, <1>5, <1>6 DEF CallsOK
<1> QED
  BY <1>3, <1>5, <1>6, <1>7 DEF SettingsCalls, SettingsRequests

LEMMA SettingsInit == Settings!Init => SettingsInv
<1> SUFFICES ASSUME Settings!Init PROVE SettingsInv
  OBVIOUS
<1> DEFINE none == Settings!NoCalls(Settings!Requests)
<1>1. SettingsCalls(none) /\ none["getConfig"] = {} /\ none["setConfig"] = {}
  BY DEF Settings!NoCalls, Settings!Requests, SettingsRequests, SettingsCalls, CallsOK
<1> HIDE DEF none
<1>2. calls = Settings!mounted(none)
  BY DEF Settings!Init, none
<1>3. SettingsCalls(calls) /\ calls["setConfig"] = {}
  BY <1>1, <1>2, SettingsMounted
<1>4. PICK c : calls["getConfig"] = {c} /\ Answer(c) = "out"
  BY <1>1, <1>2, SettingsMounted
<1>5. SettingsServer(srv)
  BY DEF Settings!Init, SettingsServer
<1>6. SettingsHist(hist) /\ hist.floor["logs"] = srv.conf["logs"].interval
  BY <1>5 DEF Settings!Init, SettingsHist, SettingsServer
<1>7. SettingsUi(ui)
  BY DEF Settings!Init, SettingsUi, SettingsModal
<1>8. SettingsStore(st)
  <2>1. PICK busy : st = [[busy |-> busy, ready |-> {}, on |-> {}, providers |-> "absent",
                           conf |-> [k \in {"logs"} |-> Settings!noConfig],
                           filtering |-> [enabled |-> TRUE, interval |-> 1]]
                          EXCEPT !.busy = Settings!mounting]
    BY Zenon DEF Settings!Init, Settings!initialState
  <2>2. Settings!DAY = 3
    BY DEF Settings!DAY
  <2>3. DOMAIN st = {"busy", "ready", "on", "providers", "conf", "filtering"}
        /\ st.conf = [k \in {"logs"} |-> Settings!noConfig]
    BY <2>1
  <2> QED
    BY <2>2, <2>3 DEF SettingsStore, Settings!noConfig
<1> QED
  BY <1>3, <1>4, <1>5, <1>6, <1>7, <1>8
     DEF SettingsInv, SettingsShape, OneSave, RetentionFetched, SettledRetention, SettingsServer

\* When nothing is out, the store has the retention of the server.
LEMMA SettingsQuiet ==
    ASSUME SettingsInv, hist.clean, Settings!Idle
    PROVE  /\ \A r \in SettingsRequests : calls[r] = {}
           /\ st.conf["logs"].interval = srv.conf["logs"].interval
           /\ srv.conf["logs"].interval >= hist.floor["logs"]
<1>1. \A r \in SettingsRequests : calls[r] = {}
  BY DEF SettingsInv, SettingsShape, SettingsCalls, CallsOK, Settings!Idle
<1> QED
  BY <1>1 DEF SettingsInv, SettledRetention, SettingsRequests

LEMMA SettingsActs ==
    ASSUME SettingsInv, Settings!UserActs
    PROVE  /\ SettingsHist(hist') /\ hist'.floor = hist.floor /\ srv' = srv
           /\ hist'.clean = (hist.clean /\ Settings!Idle)
BY DEF SettingsInv, SettingsShape, SettingsHist, Settings!UserActs, Settings!Act, Settings!Noted

\* A step of the user that sends something else.
LEMMA SettingsOther ==
    ASSUME SettingsInv, Settings!UserActs, SettingsStore(st'), st'.conf = st.conf, SettingsUi(ui'),
           NEW r \in SettingsRequests, r \notin {"getConfig", "setConfig"}, NEW arg,
           calls' = Settings!Sent(calls, r, arg)
    PROVE  SettingsInv'
<1>1. /\ CallsOK(calls', SettingsRequests)
      /\ \A q \in SettingsRequests \ {r} : calls'[q] = calls[q]
  BY SettingsSends DEF SettingsInv, SettingsShape, SettingsCalls
<1>2. calls'["getConfig"] = calls["getConfig"] /\ calls'["setConfig"] = calls["setConfig"]
  BY <1>1 DEF SettingsRequests
<1>3. SettingsShape'
  BY <1>1, <1>2, SettingsActs DEF SettingsInv, SettingsShape, SettingsCalls
<1>4. ASSUME hist'.clean PROVE OneSave' /\ RetentionFetched' /\ SettledRetention'
  BY <1>2, <1>4, SettingsActs DEF SettingsInv, OneSave, RetentionFetched, SettledRetention
<1> QED
  BY <1>3, <1>4 DEF SettingsInv

\* One that saves the settings of the log.
LEMMA SettingsSaves ==
    ASSUME SettingsInv, srv' = srv, SettingsHist(hist'), hist'.clean => hist.clean /\ Settings!Idle,
           NEW values, values.interval \in Int,
           hist'.clean => values.interval >= hist'.floor["logs"],
           Settings!setConfig("logs", values), SettingsUi(ui')
    PROVE  SettingsInv'
<1> DEFINE arg == [kind |-> "logs", values |-> values]
<1>1. /\ st' = [st EXCEPT !.busy = @ \cup {<<"setConfig", "logs">>}]
      /\ calls' = Settings!Sent(calls, "setConfig", arg)
  BY DEF Settings!setConfig
<1>2. arg.kind = "logs" /\ arg.values = values
  OBVIOUS
<1> HIDE DEF arg
<1>3. /\ CallsOK(calls', SettingsRequests)
      /\ \A q \in SettingsRequests \ {"setConfig"} : calls'[q] = calls[q]
  BY <1>1, SettingsSends DEF SettingsInv, SettingsShape, SettingsCalls, SettingsRequests
<1>4. PICK c : c.arg = arg /\ Answer(c) = "out" /\ calls'["setConfig"] = calls["setConfig"] \cup {c}
  BY <1>1, SettingsSends DEF SettingsInv, SettingsShape, SettingsCalls, SettingsRequests
<1>5. SettingsCalls(calls')
  BY <1>2, <1>3, <1>4
     DEF SettingsInv, SettingsShape, SettingsCalls, SettingsRequests, SaveShape
<1>6. SettingsStore(st')
  BY <1>1 DEF SettingsInv, SettingsShape, SettingsStore
<1>7. SettingsShape'
  BY <1>5, <1>6 DEF SettingsInv, SettingsShape
<1>8. ASSUME hist'.clean PROVE OneSave' /\ RetentionFetched' /\ SettledRetention'
  <2>1. calls["setConfig"] = {} /\ calls["getConfig"] = {}
    BY <1>8, SettingsQuiet DEF SettingsRequests
  <2>2. calls'["setConfig"] = {c} /\ calls'["getConfig"] = {}
    BY <1>3, <1>4, <2>1 DEF SettingsRequests
  <2> QED
    BY <1>2, <1>4, <1>8, <2>2 DEF OneSave, RetentionFetched, SettledRetention
<1> QED
  BY <1>7, <1>8 DEF SettingsInv

\* What the switches and the ignored domains send has the retention of the store.
LEMMA SettingsSendsAlong ==
    ASSUME SettingsInv, Settings!UserActs, SettingsUi(ui'), NEW values,
           values.interval = st.conf["logs"].interval, Settings!setConfig("logs", values)
    PROVE  SettingsInv'
<1>1. values.interval \in Int
  BY DEF SettingsInv, SettingsShape, SettingsStore
<1>2. ASSUME hist'.clean PROVE values.interval >= hist'.floor["logs"]
  BY <1>2, SettingsActs, SettingsQuiet
<1> QED
  BY <1>1, <1>2, SettingsActs, SettingsSaves

LEMMA SettingsBuilt ==
    ASSUME SettingsInv
    PROVE  /\ DOMAIN Settings!buildConfig("logs", st) = {"flags", "interval", "ignored"}
           /\ Settings!buildConfig("logs", st).interval = st.conf["logs"].interval
BY DEF Settings!buildConfig

LEMMA SettingsReopen ==
    ASSUME SettingsInv, Settings!reopen
    PROVE  SettingsInv'
<1>1. /\ Settings!UserActs /\ calls' = Settings!mounted(calls)
      /\ st' = [st EXCEPT !.busy = @ \cup Settings!mounting]
  BY DEF Settings!reopen
<1>2. PICK filtering : ui' = [ui EXCEPT !.boxes = Settings!on(st), !.filtering = filtering]
  BY DEF Settings!reopen
<1>3. SettingsUi(ui')
  BY <1>2 DEF SettingsInv, SettingsShape, SettingsUi
<1>4. SettingsCalls(calls') /\ calls'["setConfig"] = calls["setConfig"]
  BY <1>1, SettingsMounted DEF SettingsInv, SettingsShape
<1>5. PICK c : calls'["getConfig"] = calls["getConfig"] \cup {c} /\ Answer(c) = "out"
  BY <1>1, SettingsMounted DEF SettingsInv, SettingsShape
<1>6. SettingsStore(st')
  BY <1>1 DEF SettingsInv, SettingsShape, SettingsStore
<1>7. SettingsShape'
  BY <1>1, <1>3, <1>4, <1>6, SettingsActs DEF SettingsInv, SettingsShape
<1>8. ASSUME hist'.clean PROVE OneSave' /\ RetentionFetched' /\ SettledRetention'
  <2>1. /\ calls["setConfig"] = {} /\ calls["getConfig"] = {}
        /\ srv.conf["logs"].interval >= hist.floor["logs"]
    BY <1>1, <1>8, SettingsActs, SettingsQuiet DEF SettingsRequests
  <2> QED
    BY <1>1, <1>4, <1>5, <2>1, SettingsActs DEF OneSave, RetentionFetched, SettledRetention
<1> QED
  BY <1>7, <1>8 DEF SettingsInv

LEMMA SettingsLooks ==
    ASSUME SettingsInv, Settings!Look, SettingsUi(ui')
    PROVE  SettingsInv'
BY DEF SettingsInv, SettingsShape, Settings!Look, OneSave, RetentionFetched, SettledRetention

\* The dialog of the retention: nothing shorter than the store has is saved unless
\* it is confirmed.
LEMMA SettingsSave ==
    ASSUME SettingsInv, Settings!handleSave
    PROVE  SettingsInv'
<1> DEFINE m == ui.modal
           new == Settings!resolveInterval(m.interval, m.custom)
<1>1. Settings!Editing
  BY DEF Settings!handleSave
<1>2. m # <<>> /\ SettingsModal(m) /\ DOMAIN ui = {"boxes", "filtering", "modal"}
  BY <1>1 DEF Settings!Editing, SettingsInv, SettingsShape, SettingsUi
<1>3. m.kind = "logs" /\ new \in Int /\ DOMAIN m = {"kind", "custom", "confirm", "interval"}
  BY <1>2 DEF SettingsModal, Settings!resolveInterval
<1>4. CASE Settings!Look /\ ui' = [ui EXCEPT !.modal.confirm = new]
  <2>1. ui'.modal = [m EXCEPT !.confirm = new] /\ DOMAIN ui' = DOMAIN ui
    BY <1>2, <1>4
  <2>2. SettingsUi(ui')
    BY <1>2, <1>3, <2>1 DEF SettingsUi, SettingsModal
  <2> QED
    BY <1>4, <2>2, SettingsLooks
<1>5. CASE /\ ~Settings!decreases(new, st.conf[m.kind].interval)
           /\ Settings!Act
           /\ hist' = [Settings!Noted(hist) EXCEPT !.floor[m.kind] = IF @ > new THEN @ ELSE new]
           /\ Settings!setConfig(m.kind, [Settings!buildConfig(m.kind, st) EXCEPT !.interval = new])
           /\ ui' = [ui EXCEPT !.modal = <<>>]
  <2> DEFINE values == [Settings!buildConfig("logs", st) EXCEPT !.interval = new]
  <2>1. Settings!setConfig("logs", values) /\ srv' = srv /\ SettingsUi(ui')
    BY <1>2, <1>3, <1>5 DEF Settings!Act, SettingsUi, SettingsModal
  <2>2. values.interval = new
    BY SettingsBuilt
  <2>3. /\ SettingsHist(hist') /\ hist'.clean = (hist.clean /\ Settings!Idle)
        /\ hist'.floor["logs"] = IF hist.floor["logs"] > new THEN hist.floor["logs"] ELSE new
    <3>1. hist' = [Settings!Noted(hist) EXCEPT !.floor["logs"] = IF @ > new THEN @ ELSE new]
      BY <1>3, <1>5
    <3> HIDE DEF new
    <3>2. /\ DOMAIN Settings!Noted(hist) = DOMAIN hist /\ Settings!Noted(hist).floor = hist.floor
          /\ Settings!Noted(hist).clean = (hist.clean /\ Settings!Idle)
      BY DEF Settings!Noted, SettingsInv, SettingsShape, SettingsHist
    <3> QED
      BY <1>3, <3>1, <3>2 DEF SettingsInv, SettingsShape, SettingsHist
  <2>4. ASSUME hist'.clean PROVE new >= hist'.floor["logs"]
    <3>1. st.conf["logs"].interval >= hist.floor["logs"]
      BY <2>3, <2>4, SettingsQuiet
    <3>2. new >= st.conf["logs"].interval
      BY <1>3, <1>5 DEF Settings!decreases, SettingsInv, SettingsShape, SettingsStore
    <3> HIDE DEF new
    <3> QED
      BY <1>3, <2>3, <3>1, <3>2 DEF SettingsInv, SettingsShape, SettingsHist, SettingsStore
  <2> HIDE DEF values, new
  <2> QED
    BY <1>3, <2>1, <2>2, <2>3, <2>4, SettingsSaves
<1> QED
  BY <1>4, <1>5 DEF Settings!handleSave

LEMMA SettingsConfirm ==
    ASSUME SettingsInv, Settings!handleConfirmDecrease
    PROVE  SettingsInv'
<1> DEFINE m == ui.modal
           values == [Settings!buildConfig("logs", st) EXCEPT !.interval = m.confirm]
<1>1. m # <<>> /\ SettingsModal(m) /\ DOMAIN ui = {"boxes", "filtering", "modal"}
  BY DEF Settings!handleConfirmDecrease, SettingsInv, SettingsShape, SettingsUi
<1>2. m.kind = "logs" /\ m.confirm \in Int
  BY <1>1 DEF SettingsModal
<1>3. /\ Settings!setConfig("logs", values) /\ srv' = srv /\ ui' = [ui EXCEPT !.modal = <<>>]
      /\ hist' = [Settings!Noted(hist) EXCEPT !.floor["logs"] = m.confirm]
  BY <1>2 DEF Settings!handleConfirmDecrease, Settings!Act
<1>4. SettingsUi(ui')
  BY <1>1, <1>3 DEF SettingsUi, SettingsModal
<1>5. values.interval = m.confirm
  BY SettingsBuilt
<1>6. /\ SettingsHist(hist') /\ hist'.clean = (hist.clean /\ Settings!Idle)
      /\ hist'.floor["logs"] = m.confirm
  <2>1. /\ DOMAIN Settings!Noted(hist) = DOMAIN hist /\ Settings!Noted(hist).floor = hist.floor
        /\ Settings!Noted(hist).clean = (hist.clean /\ Settings!Idle)
    BY DEF Settings!Noted, SettingsInv, SettingsShape, SettingsHist
  <2> QED
    BY <1>2, <1>3, <2>1 DEF SettingsInv, SettingsShape, SettingsHist
<1>7. values.interval \in Int /\ values.interval >= hist'.floor["logs"]
  BY <1>2, <1>5, <1>6
<1> HIDE DEF values
<1> QED
  BY <1>3, <1>4, <1>6, <1>7, SettingsSaves

LEMMA SettingsUser == SettingsInv /\ Settings!UserStep => SettingsInv'
<1> SUFFICES ASSUME SettingsInv, Settings!UserStep PROVE SettingsInv'
  OBVIOUS
<1>0. SettingsUi(ui) /\ SettingsStore(st)
  BY DEF SettingsInv, SettingsShape
<1>1. CASE Settings!reopen
  BY <1>1, SettingsReopen
<1>2. CASE Settings!toggleSetting
  <2>1. PICK boxes : ui' = [ui EXCEPT !.boxes = boxes]
    BY <1>2 DEF Settings!toggleSetting
  <2>2. SettingsUi(ui')
    BY <1>0, <2>1 DEF SettingsUi
  <2>3. PICK p \in Settings!Protection :
          calls' = IF p = "safesearch"
                   THEN Settings!Sent(calls, "search",
                          [on |-> <<"settings", p>> \notin ui.boxes, modal |-> FALSE,
                           providers |-> st.providers])
                   ELSE Settings!Sent(calls, "toggle",
                          [key |-> p, on |-> <<"settings", p>> \notin ui.boxes])
    BY <1>2 DEF Settings!toggleSetting
  <2>4. PICK r \in {"search", "toggle"} : \E arg : calls' = Settings!Sent(calls, r, arg)
    BY <2>3
  <2>5. r \in SettingsRequests /\ r \notin {"getConfig", "setConfig"}
    BY DEF SettingsRequests
  <2> QED
    BY <1>0, <1>2, <2>2, <2>4, <2>5, SettingsOther DEF Settings!toggleSetting
<1>3. CASE Settings!handleSafeSearchSave
  <2>1. PICK busy : st' = [st EXCEPT !.busy = busy]
    BY <1>3, Zenon DEF Settings!handleSafeSearchSave
  <2>2. PICK arg : calls' = Settings!Sent(calls, "search", arg)
    BY <1>3, Zenon DEF Settings!handleSafeSearchSave
  <2>3. Settings!UserActs /\ ui' = ui
    BY <1>3, Zenon DEF Settings!handleSafeSearchSave
  <2>4. SettingsStore(st') /\ st'.conf = st.conf
    BY <1>0, <2>1 DEF SettingsStore
  <2> QED
    BY <1>0, <2>2, <2>3, <2>4, SettingsOther DEF SettingsRequests
<1>4. CASE Settings!toggleConfig
  <2>1. PICK k \in {"logs"} : \E boxes, flags :
          /\ ui' = [ui EXCEPT !.boxes = boxes]
          /\ Settings!setConfig(k, [Settings!buildConfig(k, st) EXCEPT !.flags = flags])
    BY <1>4 DEF Settings!toggleConfig
  <2>2. PICK boxes, flags :
          /\ ui' = [ui EXCEPT !.boxes = boxes]
          /\ Settings!setConfig("logs", [Settings!buildConfig("logs", st) EXCEPT !.flags = flags])
    BY <2>1
  <2>3. SettingsUi(ui')
    BY <1>0, <2>2 DEF SettingsUi
  <2>4. [Settings!buildConfig("logs", st) EXCEPT !.flags = flags].interval =
          st.conf["logs"].interval
    BY SettingsBuilt
  <2> QED
    BY <1>4, <2>2, <2>3, <2>4, SettingsSendsAlong DEF Settings!toggleConfig
<1>5. CASE Settings!handleIgnoredSave
  <2>1. PICK k \in {"logs"} : \E v :
          Settings!setConfig(k, [Settings!buildConfig(k, st) EXCEPT !.ignored = v])
    BY <1>5 DEF Settings!handleIgnoredSave
  <2>2. PICK v : Settings!setConfig("logs", [Settings!buildConfig("logs", st) EXCEPT !.ignored = v])
    BY <2>1
  <2>3. [Settings!buildConfig("logs", st) EXCEPT !.ignored = v].interval = st.conf["logs"].interval
    BY SettingsBuilt
  <2> QED
    BY <1>0, <1>5, <2>2, <2>3, SettingsSendsAlong DEF Settings!handleIgnoredSave
<1>6. CASE Settings!openRetention
  <2> DEFINE modal == [kind |-> "logs", custom |-> st.conf["logs"].custom, confirm |-> 0,
                       interval |-> Settings!getDefaultInterval(st.conf["logs"].custom,
                                                                st.conf["logs"].interval)]
  <2>1. ui' = [ui EXCEPT !.modal = modal] /\ Settings!Look
    BY <1>6 DEF Settings!openRetention
  <2>2. SettingsModal(modal)
    BY <1>0 DEF SettingsModal, SettingsStore, Settings!getDefaultInterval, Settings!RETENTION_CUSTOM
  <2>3. SettingsUi(ui')
    BY <1>0, <2>1, <2>2 DEF SettingsUi
  <2> QED
    BY <2>1, <2>3, SettingsLooks
<1>7. CASE Settings!handleIntervalChange
  <2>1. Settings!Look /\ ui.modal # <<>>
    BY <1>7 DEF Settings!handleIntervalChange, Settings!Editing
  <2>2. PICK i \in {0, 3} : \E h \in {0, 1, 5} :
          ui' = [ui EXCEPT !.modal = [@ EXCEPT !.interval = i, !.custom = h]]
    BY <1>7 DEF Settings!handleIntervalChange, Settings!RETENTION_CUSTOM
  <2>3. PICK h \in {0, 1, 5} : ui' = [ui EXCEPT !.modal = [@ EXCEPT !.interval = i, !.custom = h]]
    BY <2>2
  <2>4. ui'.modal = [ui.modal EXCEPT !.interval = i, !.custom = h] /\ DOMAIN ui' = DOMAIN ui
    BY <1>0, <2>3 DEF SettingsUi
  <2>5. SettingsUi(ui')
    <3>1. i \in Int /\ h \in Int
      OBVIOUS
    <3>2. ASSUME NEW m, SettingsModal(m), m # <<>>
          PROVE  SettingsModal([m EXCEPT !.interval = i, !.custom = h])
      BY <3>1, <3>2 DEF SettingsModal
    <3>3. SettingsModal(ui'.modal)
      BY <1>0, <2>1, <2>4, <3>2 DEF SettingsUi
    <3> QED
      BY <1>0, <2>4, <3>3 DEF SettingsUi
  <2> QED
    BY <2>1, <2>5, SettingsLooks
<1>8. CASE Settings!handleSave
  BY <1>8, SettingsSave
<1>9. CASE Settings!handleConfirmDecrease
  BY <1>9, SettingsConfirm
<1>10. CASE Settings!closeRetention
  <2>1. Settings!Look /\ ui.modal # <<>>
    BY <1>10 DEF Settings!closeRetention
  <2>2. /\ ui'.modal = IF ui.modal.confirm # 0 THEN [ui.modal EXCEPT !.confirm = 0] ELSE <<>>
        /\ DOMAIN ui' = DOMAIN ui
    BY <1>0, <1>10 DEF Settings!closeRetention, SettingsUi
  <2>3. SettingsUi(ui')
    BY <1>0, <2>1, <2>2 DEF SettingsUi, SettingsModal
  <2> QED
    BY <2>1, <2>3, SettingsLooks
<1>11. CASE Settings!handleClear
  <2>1. PICK k : /\ calls' = Settings!Sent(calls, "clear", k)
                 /\ st' = [st EXCEPT !.busy = @ \cup {<<"clear", k>>}]
    BY <1>11 DEF Settings!handleClear
  <2>2. SettingsStore(st') /\ st'.conf = st.conf
    BY <1>0, <2>1 DEF SettingsStore
  <2> QED
    BY <1>0, <1>11, <2>1, <2>2, SettingsOther DEF Settings!handleClear, SettingsRequests
<1>12. CASE Settings!setFiltersConfig
  <2>1. PICK busy : st' = [st EXCEPT !.busy = busy]
    BY <1>12, Zenon DEF Settings!setFiltersConfig
  <2>2. PICK arg : calls' = Settings!Sent(calls, "filters", arg)
    BY <1>12, Zenon DEF Settings!setFiltersConfig
  <2>3. PICK on : ui' = [ui EXCEPT !.filtering = on]
    BY <1>12, Zenon DEF Settings!setFiltersConfig
  <2>4. Settings!UserActs
    BY <1>12, Zenon DEF Settings!setFiltersConfig
  <2>5. SettingsStore(st') /\ st'.conf = st.conf /\ SettingsUi(ui')
    BY <1>0, <2>1, <2>3 DEF SettingsStore, SettingsUi
  <2> QED
    BY <2>2, <2>4, <2>5, SettingsOther DEF SettingsRequests
<1> QED
  BY <1>1, <1>2, <1>3, <1>4, <1>5, <1>6, <1>7, <1>8, <1>9, <1>10, <1>11, <1>12
     DEF Settings!UserStep

\* An answer leaves what was sent as it is.
LEMMA SettingsAnswers ==
    ASSUME SettingsInv, NEW r \in SettingsRequests, NEW c \in calls[r], NEW answer,
           calls' = Settings!Answered(calls, r, c, answer)
    PROVE  /\ CallsOK(calls', SettingsRequests)
           /\ \A q \in SettingsRequests \ {r} : calls'[q] = calls[q]
           /\ calls'[r] = (calls[r] \ {c}) \cup {Reply(c, answer)}
<1>1. CallsOK(calls, SettingsRequests)
  BY DEF SettingsInv, SettingsShape, SettingsCalls
<1>2. calls' = Answered(calls, r, c, answer)
  BY SettingsSame
<1> QED
  BY <1>1, <1>2, AnsweredChanges

LEMMA SettingsServed == SettingsInv /\ Settings!Server => SettingsInv'
<1> SUFFICES ASSUME SettingsInv, Settings!Server PROVE SettingsInv'
  OBVIOUS
<1>1. st' = st /\ ui' = ui /\ hist' = hist
  BY DEF Settings!Server
<1>2. PICK r \in SettingsRequests : \E c \in calls[r] : Settings!serve(r, c)
  BY DEF Settings!Server, Settings!Requests, SettingsRequests
<1>3. PICK c \in calls[r] : Settings!serve(r, c)
  BY <1>2
<1>4. SettingsServer(srv) /\ SettingsCalls(calls)
  BY DEF SettingsInv, SettingsShape
<1>5. CASE r = "getConfig"
  <2>1. Settings!Served(r, c, srv, srv.conf[c.arg])
    BY <1>3, <1>5 DEF Settings!serve
  <2>2. c.arg = "logs" /\ srv' = srv
    BY <1>4, <1>5, <2>1 DEF SettingsCalls, FetchShape, Settings!Served
  <2>3. PICK answer \in {<<"ok", srv.conf["logs"]>>, <<"failed">>} :
          calls' = Settings!Answered(calls, r, c, answer)
    BY <2>1, <2>2 DEF Settings!Served
  <2> DEFINE d == Reply(c, answer)
  <2>4. /\ CallsOK(calls', SettingsRequests) /\ calls'["setConfig"] = calls["setConfig"]
        /\ calls'["getConfig"] = (calls["getConfig"] \ {c}) \cup {d}
    BY <1>5, <2>3, SettingsAnswers DEF SettingsRequests
  <2>5. d.arg = c.arg /\ (Answer(d) = "ok" => Data(d) = srv.conf["logs"])
    BY DEF Reply, Answer, Data
  <2> HIDE DEF d
  <2>6. FetchShape(d)
    BY <1>4, <2>2, <2>5 DEF FetchShape, SettingsServer
  <2>7. SettingsShape'
    BY <1>1, <1>4, <2>2, <2>4, <2>6 DEF SettingsInv, SettingsShape, SettingsCalls
  <2>8. ASSUME hist'.clean PROVE OneSave' /\ RetentionFetched' /\ SettledRetention'
    BY <1>1, <1>5, <2>2, <2>4, <2>5, <2>8
       DEF SettingsInv, OneSave, RetentionFetched, SettledRetention
  <2> QED
    BY <2>7, <2>8 DEF SettingsInv
<1>6. CASE r = "setConfig"
  <2> DEFINE s == [srv EXCEPT !.conf[c.arg.kind] = c.arg.values]
  <2>1. Settings!Served(r, c, s, {})
    BY <1>3, <1>6 DEF Settings!serve
  <2>2. c.arg.kind = "logs" /\ c.arg.values.interval \in Int
    BY <1>4, <1>6 DEF SettingsCalls, SaveShape
  <2>3. SettingsServer(s) /\ s.conf["logs"].interval = c.arg.values.interval
    BY <1>4, <2>2 DEF SettingsServer
  <2> HIDE DEF s
  <2>4. PICK answer \in {<<"ok", {}>>, <<"failed">>} :
          /\ calls' = Settings!Answered(calls, r, c, answer)
          /\ srv' \in {srv, s} /\ (answer = <<"ok", {}>> => srv' = s)
    BY <2>1 DEF Settings!Served
  <2> DEFINE d == Reply(c, answer)
  <2>5. /\ CallsOK(calls', SettingsRequests) /\ calls'["getConfig"] = calls["getConfig"]
        /\ calls'["setConfig"] = (calls["setConfig"] \ {c}) \cup {d}
    BY <1>6, <2>4, SettingsAnswers DEF SettingsRequests
  <2>6. d.arg = c.arg /\ (Answer(d) = "ok" => srv' = s)
    BY <2>4 DEF Reply, Answer
  <2> HIDE DEF d
  <2>7. SettingsServer(srv')
    BY <1>4, <2>3, <2>4
  <2>8. SettingsCalls(calls')
    BY <1>4, <2>2, <2>5, <2>6 DEF SettingsCalls, SaveShape
  <2>9. SettingsShape'
    BY <1>1, <2>7, <2>8 DEF SettingsInv, SettingsShape
  <2>10. ASSUME hist'.clean PROVE OneSave' /\ RetentionFetched' /\ SettledRetention'
    <3>1. /\ calls["setConfig"] = {c} /\ calls["getConfig"] = {}
          /\ c.arg.values.interval >= hist.floor["logs"]
      BY <1>1, <1>6, <2>10 DEF SettingsInv, OneSave
    <3>2. calls'["setConfig"] = {d} /\ calls'["getConfig"] = {}
      BY <2>5, <3>1
    <3> QED
      BY <1>1, <2>3, <2>6, <3>1, <3>2 DEF OneSave, RetentionFetched, SettledRetention
  <2> QED
    BY <2>9, <2>10 DEF SettingsInv
<1>7. CASE r \notin {"getConfig", "setConfig"}
  <2>1. PICK s, data : /\ Settings!Served(r, c, s, data)
                       /\ DOMAIN s = DOMAIN srv /\ s.conf = srv.conf
    <3>1. CASE r \in {"settings", "status", "clear"}
      BY <1>3, <3>1 DEF Settings!serve
    <3>2. CASE r = "toggle"
      <4> DEFINE s == [srv EXCEPT !.on = IF c.arg.on THEN @ \cup {c.arg.key} ELSE @ \ {c.arg.key}]
      <4>1. Settings!Served(r, c, s, {})
        BY <1>3, <3>2 DEF Settings!serve
      <4>2. DOMAIN s = DOMAIN srv /\ s.conf = srv.conf
        BY <1>4 DEF SettingsServer
      <4> QED
        BY <4>1, <4>2
    <3>3. CASE r = "search"
      <4> DEFINE s == [srv EXCEPT
                         !.on = IF c.arg.on THEN @ \cup {"safesearch"} ELSE @ \ {"safesearch"},
                         !.providers = IF c.arg.providers = "absent" THEN "off"
                                       ELSE c.arg.providers]
      <4>1. Settings!Served(r, c, s, {})
        BY <1>3, <3>3 DEF Settings!serve
      <4>2. DOMAIN s = DOMAIN srv /\ s.conf = srv.conf
        BY <1>4 DEF SettingsServer
      <4> QED
        BY <4>1, <4>2
    <3>4. CASE r = "filters"
      <4> DEFINE s == [srv EXCEPT !.filtering = c.arg]
      <4>1. Settings!Served(r, c, s, {})
        BY <1>3, <3>4 DEF Settings!serve
      <4>2. DOMAIN s = DOMAIN srv /\ s.conf = srv.conf
        BY <1>4 DEF SettingsServer
      <4> QED
        BY <4>1, <4>2
    <3> QED
      BY <1>7, <3>1, <3>2, <3>3, <3>4 DEF SettingsRequests
  <2>2. PICK answer : calls' = Settings!Answered(calls, r, c, answer)
    BY <2>1 DEF Settings!Served
  <2>3. DOMAIN srv' = DOMAIN srv /\ srv'.conf = srv.conf
    BY <2>1 DEF Settings!Served
  <2>4. /\ CallsOK(calls', SettingsRequests) /\ calls'["getConfig"] = calls["getConfig"]
        /\ calls'["setConfig"] = calls["setConfig"]
    BY <1>7, <2>2, SettingsAnswers DEF SettingsRequests
  <2>5. SettingsShape'
    BY <1>1, <1>4, <2>3, <2>4 DEF SettingsInv, SettingsShape, SettingsCalls, SettingsServer
  <2>6. ASSUME hist'.clean PROVE OneSave' /\ RetentionFetched' /\ SettledRetention'
    BY <1>1, <2>3, <2>4, <2>6 DEF SettingsInv, OneSave, RetentionFetched, SettledRetention
  <2> QED
    BY <2>5, <2>6 DEF SettingsInv
<1> QED
  BY <1>5, <1>6, <1>7

LEMMA SettingsFreed ==
    ASSUME SettingsInv, NEW r, NEW k
    PROVE  SettingsStore(Settings!Freed(r, k)) /\ Settings!Freed(r, k).conf = st.conf
BY DEF SettingsInv, SettingsShape, SettingsStore, Settings!Freed

\* The answers to other requests leave the settings of the log alone.
LEMMA SettingsKept ==
    ASSUME SettingsInv, NEW r \in SettingsRequests \ {"getConfig", "setConfig"}, NEW c,
           Settings!resume(r, c)
    PROVE  SettingsStore(st') /\ st'.conf = st.conf
<1>0. SettingsStore(st)
  BY DEF SettingsInv, SettingsShape
<1>1. CASE Settings!initSettings(c)
  <2> DEFINE ok == Settings!Answer(c) = "ok"
             d == Settings!Data(c)
  <2>1. PICK k : st' = Settings!settled(
                   IF ok THEN [Settings!Freed("settings", k) EXCEPT !.on = d.on,
                                                                   !.providers = d.providers]
                   ELSE Settings!Freed("settings", k), "settings", ok)
    BY <1>1, Zenon DEF Settings!initSettings
  <2>2. PICK f : f = Settings!Freed("settings", k)
    OBVIOUS
  <2>3. SettingsStore(f) /\ f.conf = st.conf
    BY <2>2, SettingsFreed
  <2>4. st' = Settings!settled(IF ok THEN [f EXCEPT !.on = d.on, !.providers = d.providers] ELSE f,
                               "settings", ok)
    BY <2>1, <2>2
  <2> QED
    BY <2>3, <2>4 DEF Settings!settled, SettingsStore
<1>2. CASE Settings!statusDone(c)
  <2>1. PICK k : st' = [Settings!Freed("status", k) EXCEPT
                          !.filtering = IF Settings!Answer(c) = "ok" THEN Settings!Data(c) ELSE @]
    BY <1>2, Zenon DEF Settings!statusDone
  <2>2. PICK f : f = Settings!Freed("status", k)
    OBVIOUS
  <2>3. SettingsStore(f) /\ f.conf = st.conf
    BY <2>2, SettingsFreed
  <2> QED
    BY <2>1, <2>2, <2>3 DEF SettingsStore
<1>3. CASE Settings!toggleDone(c)
  BY <1>0, <1>3 DEF SettingsStore, Settings!toggleDone
<1>4. CASE Settings!searchDone(c)
  <2> DEFINE after(s) ==
               IF Settings!Answer(c) = "failed" THEN s
               ELSE [s EXCEPT !.on = IF c.arg.on THEN @ \cup {"safesearch"} ELSE @ \ {"safesearch"},
                              !.providers = c.arg.providers]
  <2>1. PICK k : st' = after(IF c.arg.modal THEN Settings!Freed("search", k) ELSE st)
    BY <1>4, Zenon DEF Settings!searchDone
  <2>2. PICK f : f = Settings!Freed("search", k)
    OBVIOUS
  <2>3. SettingsStore(f) /\ f.conf = st.conf
    BY <2>2, SettingsFreed
  <2>4. st' = after(f) \/ st' = after(st)
    BY <2>1, <2>2
  <2> QED
    BY <1>0, <2>3, <2>4 DEF SettingsStore
<1>5. CASE Settings!filtersDone(c)
  <2>1. PICK k : st' = [Settings!Freed("filters", k) EXCEPT
                          !.filtering = IF Settings!Answer(c) = "ok" THEN c.arg ELSE @]
    BY <1>5, Zenon DEF Settings!filtersDone
  <2>2. PICK f : f = Settings!Freed("filters", k)
    OBVIOUS
  <2>3. SettingsStore(f) /\ f.conf = st.conf
    BY <2>2, SettingsFreed
  <2> QED
    BY <2>1, <2>2, <2>3 DEF SettingsStore
<1>6. CASE st' = Settings!Freed("clear", c.arg)
  BY <1>6, SettingsFreed
<1> QED
  BY <1>1, <1>2, <1>3, <1>4, <1>5, <1>6 DEF Settings!resume

LEMMA SettingsResume == SettingsInv /\ Settings!Resume => SettingsInv'
<1> SUFFICES ASSUME SettingsInv, Settings!Resume PROVE SettingsInv'
  OBVIOUS
<1>1. PICK r \in SettingsRequests : \E c \in calls[r] :
        /\ Settings!Answer(c) # "out" /\ Settings!resume(r, c)
        /\ calls' = Settings!Ended(calls, r, c) /\ hist' = Settings!Learned(hist, c)
  BY DEF Settings!Resume, Settings!Requests, SettingsRequests
<1>2. PICK c \in calls[r] :
        /\ Settings!Answer(c) # "out" /\ Settings!resume(r, c)
        /\ calls' = Settings!Ended(calls, r, c) /\ hist' = Settings!Learned(hist, c)
  BY <1>1
<1>3. srv' = srv /\ SettingsUi(ui')
  <2>1. PICK boxes, filtering : \/ ui' = [ui EXCEPT !.boxes = boxes, !.filtering = filtering]
                                \/ ui' = [ui EXCEPT !.boxes = boxes]
    BY DEF Settings!Resume
  <2> QED
    BY <2>1 DEF Settings!Resume, SettingsInv, SettingsShape, SettingsUi
<1>4. /\ SettingsHist(hist') /\ hist'.floor = hist.floor
      /\ hist'.clean => hist.clean /\ Answer(c) = "ok"
  BY <1>2, SettingsSame DEF SettingsInv, SettingsShape, SettingsHist, Settings!Learned
<1>5. SettingsStore(st) /\ SettingsServer(srv) /\ SettingsCalls(calls)
  BY DEF SettingsInv, SettingsShape
<1>6. /\ CallsOK(calls', SettingsRequests)
      /\ \A q \in SettingsRequests \ {r} : calls'[q] = calls[q]
      /\ calls'[r] = calls[r] \ {c}
  BY <1>2, <1>5, SettingsSame, EndedRemoves DEF SettingsCalls
<1>7. SettingsCalls(calls')
  BY <1>5, <1>6 DEF SettingsCalls, SettingsRequests
<1>8. CASE r = "getConfig"
  <2> DEFINE d == Data(c)
             conf == [flags |-> d.flags, interval |-> d.interval, ignored |-> d.ignored,
                      custom |-> IF d.interval \in {3} THEN 0 ELSE d.interval]
             f == Settings!Freed("getConfig", "logs")
  <2>1. FetchShape(c) /\ c \in calls["getConfig"]
    BY <1>5, <1>8 DEF SettingsCalls
  <2>2. SettingsStore(f) /\ f.conf = st.conf
    BY SettingsFreed
  <2>3. /\ Answer(c) = "ok" =>
             st' = Settings!settled([f EXCEPT !.conf["logs"] = conf], "logs", TRUE)
        /\ Answer(c) # "ok" => st' = Settings!settled(f, "logs", FALSE)
    BY <1>2, <1>8, <2>1, SettingsSame DEF Settings!resume, Settings!getConfig, FetchShape
  <2> HIDE DEF f
  <2>4. /\ SettingsStore(st')
        /\ Answer(c) = "ok" => st'.conf["logs"].interval = d.interval
    <3>1. CASE Answer(c) = "ok"
      <4>1. /\ DOMAIN conf = {"flags", "interval", "custom", "ignored"}
            /\ conf.interval = d.interval /\ d.interval \in Int /\ conf.custom \in Int
        BY <2>1, <3>1 DEF FetchShape
      <4>2. st' = Settings!settled([f EXCEPT !.conf["logs"] = conf], "logs", TRUE)
        BY <2>3, <3>1
      <4> HIDE DEF conf, d
      <4>3. PICK s : s = [f EXCEPT !.conf["logs"] = conf]
        OBVIOUS
      <4>4. SettingsStore(s) /\ s.conf["logs"] = conf
        BY <2>2, <4>1, <4>3 DEF SettingsStore
      <4>5. DOMAIN st' = DOMAIN s /\ st'.conf = s.conf
        BY <4>2, <4>3, <4>4 DEF Settings!settled, SettingsStore
      <4> QED
        BY <4>1, <4>4, <4>5 DEF SettingsStore
    <3>2. CASE Answer(c) # "ok"
      BY <2>2, <2>3, <3>2 DEF SettingsStore, Settings!settled
    <3> QED
      BY <3>1, <3>2
  <2>5. SettingsShape'
    BY <1>3, <1>4, <1>5, <1>7, <2>4 DEF SettingsInv, SettingsShape
  <2>6. calls'["setConfig"] = calls["setConfig"] /\ calls'["getConfig"] = calls["getConfig"] \ {c}
    BY <1>6, <1>8 DEF SettingsRequests
  <2>7. ASSUME hist'.clean PROVE OneSave' /\ RetentionFetched' /\ SettledRetention'
    <3>1. OneSave /\ RetentionFetched /\ SettledRetention /\ Answer(c) = "ok"
      BY <1>4, <2>7 DEF SettingsInv
    <3>2. calls["setConfig"] = {}
      BY <2>1, <3>1 DEF OneSave
    <3>3. st'.conf["logs"].interval = srv.conf["logs"].interval
      BY <2>1, <2>4, <3>1 DEF RetentionFetched
    <3> QED
      BY <1>3, <1>4, <2>6, <3>1, <3>2, <3>3 DEF OneSave, RetentionFetched, SettledRetention
  <2> QED
    BY <2>5, <2>7 DEF SettingsInv
<1>9. CASE r = "setConfig"
  <2> DEFINE v == c.arg.values
             f == Settings!Freed("setConfig", "logs")
  <2>1. SaveShape(c) /\ c \in calls["setConfig"]
    BY <1>5, <1>9 DEF SettingsCalls
  <2>2. SettingsStore(f) /\ f.conf = st.conf
    BY SettingsFreed
  <2>3. \/ st' = f /\ Answer(c) = "failed"
        \/ st' = [f EXCEPT !.conf["logs"] = [@ EXCEPT !.flags = v.flags, !.interval = v.interval,
                                                       !.ignored = v.ignored]]
    BY <1>2, <1>9, <2>1, SettingsSame DEF Settings!resume, Settings!setConfigDone, SaveShape
  <2> HIDE DEF f
  <2>4. PICK conf : conf = [f.conf["logs"] EXCEPT !.flags = v.flags, !.interval = v.interval,
                                                  !.ignored = v.ignored]
    OBVIOUS
  <2>5. /\ DOMAIN conf = {"flags", "interval", "custom", "ignored"}
        /\ conf.interval = v.interval /\ conf.custom \in Int
    BY <2>2, <2>4 DEF SettingsStore
  <2>6. (st' = f /\ Answer(c) = "failed") \/ st' = [f EXCEPT !.conf["logs"] = conf]
    BY <2>3, <2>4
  <2>7. SettingsStore(st') /\ (Answer(c) = "ok" => st'.conf["logs"].interval = v.interval)
    BY <2>1, <2>2, <2>5, <2>6 DEF SettingsStore, SaveShape
  <2>8. SettingsShape'
    BY <1>3, <1>4, <1>5, <1>7, <2>7 DEF SettingsInv, SettingsShape
  <2>9. calls'["getConfig"] = calls["getConfig"] /\ calls'["setConfig"] = calls["setConfig"] \ {c}
    BY <1>6, <1>9 DEF SettingsRequests
  <2>10. ASSUME hist'.clean PROVE OneSave' /\ RetentionFetched' /\ SettledRetention'
    <3>1. OneSave /\ Answer(c) = "ok"
      BY <1>4, <2>10 DEF SettingsInv
    <3>2. /\ calls'["setConfig"] = {} /\ calls'["getConfig"] = {}
          /\ srv.conf["logs"].interval = v.interval /\ v.interval >= hist.floor["logs"]
      BY <2>1, <2>9, <3>1 DEF OneSave
    <3> QED
      BY <1>3, <1>4, <2>7, <3>1, <3>2 DEF OneSave, RetentionFetched, SettledRetention
  <2> QED
    BY <2>8, <2>10 DEF SettingsInv
<1>10. CASE r \notin {"getConfig", "setConfig"}
  <2>1. SettingsStore(st') /\ st'.conf = st.conf
    BY <1>2, <1>10, SettingsKept
  <2>2. SettingsShape'
    BY <1>3, <1>4, <1>5, <1>7, <2>1 DEF SettingsInv, SettingsShape
  <2>3. calls'["getConfig"] = calls["getConfig"] /\ calls'["setConfig"] = calls["setConfig"]
    BY <1>6, <1>10 DEF SettingsRequests
  <2>4. ASSUME hist'.clean PROVE OneSave' /\ RetentionFetched' /\ SettledRetention'
    BY <1>3, <1>4, <2>1, <2>3, <2>4
       DEF SettingsInv, OneSave, RetentionFetched, SettledRetention
  <2> QED
    BY <2>2, <2>4 DEF SettingsInv
<1> QED
  BY <1>8, <1>9, <1>10

AskedInv ==
  /\ page = "lists" => ListsInv
  /\ page = "dns" => DnsInv
  /\ page = "settings" => SettingsInv

LEMMA AskedStep ==
    ASSUME Next
    PROVE  /\ page' = page
           /\ page = "lists" => Lists!UserStep \/ Lists!Server \/ Lists!Resume
           /\ page = "dns" => DnsSettings!UserStep \/ DnsSettings!Server \/ DnsSettings!Resume
           /\ page = "settings" => Settings!UserStep \/ Settings!Server \/ Settings!Resume
BY DEF Next, UserStep, Server, Resume, Timer, At

\* A list is removed, the cache is switched and the retention is shortened only if
\* the user has asked for it: also when the lists change while the page works out
\* what to remove, and when answers are lost (FiltersList, Cache.tsx, LogsConfig).
THEOREM AskedOnlyCorrect == Spec => []AskedOnly
<1>1. Init => AskedInv
  BY ListsInit, DnsInit, SettingsInit DEF Init, AskedInv
<1>2. AskedInv /\ [Next]_webVars => AskedInv'
  <2> SUFFICES ASSUME AskedInv, [Next]_webVars PROVE AskedInv'
    OBVIOUS
  <2>1. CASE Next
    <3>1. page' = page
      BY <2>1, AskedStep
    <3>2. page = "lists" => ListsInv'
      BY <2>1, AskedStep, ListsUser, ListsServer, ListsResume DEF AskedInv
    <3>3. page = "dns" => DnsInv'
      BY <2>1, AskedStep, DnsUser, DnsServer, DnsResume DEF AskedInv
    <3>4. page = "settings" => SettingsInv'
      BY <2>1, AskedStep, SettingsUser, SettingsServed, SettingsResume DEF AskedInv
    <3> QED
      BY <3>1, <3>2, <3>3, <3>4 DEF AskedInv
  <2>2. CASE UNCHANGED webVars
    <3>1. UNCHANGED <<st, ui, calls, srv, acts, hist, page>>
      BY <2>2 DEF webVars
    <3>2. ListsInv => ListsInv'
      BY <3>1 DEF ListsInv
    <3>3. DnsInv => DnsInv'
      BY <3>1 DEF DnsInv
    <3>4. SettingsInv => SettingsInv'
      BY <3>1 DEF SettingsInv, SettingsShape, OneSave, RetentionFetched, SettledRetention
    <3> QED
      BY <3>1, <3>2, <3>3, <3>4 DEF AskedInv
  <2> QED
    BY <2>1, <2>2
<1>3. AskedInv => AskedOnly
  <2>1. ListsInv => Lists!RemovalsAsked
    BY DEF ListsInv, ListsCalls, ListsRequests, ArgAsked, ThenAsked, Lists!RemovalsAsked
  <2>2. DnsInv => DnsSettings!CacheAsked
    BY DEF DnsInv, DnsServerCache, CacheKey, DnsSettings!CacheAsked
  <2>3. SettingsInv => Settings!RetentionAsked
    <3>1. Settings!RetentionAsked <=>
            (Settings!Idle /\ hist.clean => srv.conf["logs"].interval >= hist.floor["logs"])
      BY DEF Settings!RetentionAsked
    <3> QED
      BY <3>1, SettingsQuiet
  <2> QED
    BY <2>1, <2>2, <2>3 DEF AskedInv, AskedOnly
<1> QED
  BY <1>1, <1>2, <1>3, PTL DEF Spec

=============================================================================
