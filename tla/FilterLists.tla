----------------------------- MODULE FilterLists -----------------------------
(***************************************************************************)
(* The rule lists of the DNS filter: package internal/filtering, files     *)
(* filter.go (refreshing the lists, changing their properties), http.go    *)
(* (the handlers that add, remove and change lists) and filtering.go (the  *)
(* filtering engine, built from the list files and swapped in under        *)
(* engineLock).                                                            *)
(*                                                                         *)
(* The HTTP handlers, which home serves one at a time under controlLock,   *)
(* run concurrently with the updates loop; whichever of the two holds      *)
(* refreshLock refreshes the lists.  A refresh works on copies of the      *)
(* lists, taken under filtersMu, and downloads without any lock; its       *)
(* results are merged back under the lock when all downloads are over.     *)
(*                                                                         *)
(* The CRC-32 of a list is modelled by the content itself, with Blank, the *)
(* content without rules, for the zero checksum.  Modification times are   *)
(* left out: whether a list is due for an update is a free choice.         *)
(***************************************************************************)
EXTENDS Naturals, FiniteSets

CONSTANTS
    URL,        \* sources of rule lists
    Rules,      \* contents of a rule list that hold at least one rule
    UserRules,  \* values of the custom user rules
    Handler,    \* goroutines serving HTTP requests
    Blank,      \* the content that has no rules; its checksum is zero
    None,       \* no list, no file, no task, or a download that fails
    Loop,       \* the goroutine running updatesLoop
    Ops,        \* kinds of requests that are made
    MaxBoot,    \* bound on the number of lists in the configuration file
    MaxID,      \* bound on the number of list IDs ever generated
    MaxReq,     \* bound on the number of requests
    MaxSource   \* bound on the changes of the sources

ID == 1..MaxID
Content == Rules \cup {Blank}
OpKinds == {"add", "remove", "set", "rules", "config", "refresh"}

\* A FilterYAML of conf.Filters (white = FALSE) or conf.WhitelistFilters.
List == [url: URL, white: BOOLEAN, enabled: BOOLEAN, checksum: Content]
\* filtersInitializerParams: the lists to load, and the custom rules.
Task == [on: SUBSET ID, user: UserRules]
\* What the filtering engines were built from.
Engine == [list: [ID -> Content \cup {None}], user: UserRules]
\* A copy of a list made by listsToUpdate, with its update flag.
Job == [id: ID, url: URL, checksum: Content, updated: BOOLEAN]

ASSUME FilterListsAssumption ==
    /\ Blank \notin Rules
    /\ None \notin URL \cup ID \cup Content \cup Handler \cup {Loop}
    /\ None \notin List /\ None \notin Task /\ None \notin Engine
    /\ None \notin [job: Job, content: Content \cup {None}]
    /\ Loop \notin Handler
    /\ Ops \subseteq OpKinds
    /\ MaxID \in Nat /\ MaxBoot \in 0..MaxID /\ MaxReq \in Nat /\ MaxSource \in Nat

VARIABLES
    lists,      \* conf.Filters and conf.WhitelistFilters, by list ID
    file,       \* the files data/filters/<ID>.txt
    source,     \* what a download from each URL would return
    userRules,  \* conf.UserRules
    filtering,  \* [conf |-> conf.FilteringEnabled, on |-> conf.enabled]
    engine,     \* rulesStorage, filteringEngine and their allowlist twins
    task,       \* filtersInitializerChan, a channel of capacity one
    lastID,     \* idGen.current
    hpc, hreq,  \* where each handler is, and its local variables
    lpc, lbuilt,\* where the updates loop is, and the engine it has built
    rpc,        \* where the refresh is
    rowner,     \* the goroutine that holds refreshLock
    rwhite,     \* the array being refreshed
    rallow,     \* whether the allowlists are still to be refreshed
    rtodo,      \* the copies not yet updated
    rcur,       \* the copy being updated and what was downloaded for it
    rdone,      \* the copies that have been through update
    rfail,      \* failNum
    rupd,       \* the IDs counted in updNum
    rneterr,    \* isNetErr
    rbuilt,     \* the engine built by EnableFilters(false)
    requests, changes,  \* numbers of requests and of source changes
    raced       \* history: lists changed while a refresh held a copy of them

cvars == <<lists, file, source, userRules, filtering, engine, task, lastID>>
hvars == <<hpc, hreq>>
lvars == <<lpc, lbuilt>>
rvars == <<rpc, rowner, rwhite, rallow, rtodo, rcur, rdone, rfail, rupd, rneterr, rbuilt>>
bvars == <<requests, changes, raced>>
vars == <<cvars, hvars, lvars, rvars, bvars>>

------------------------------------------------------------------------------
Lists == {i \in ID : lists[i] # None}
Enabled == {i \in Lists : lists[i].enabled}

\* Mutant: the allowlists are not looked at.
filterExistsBlock(u) == \E i \in Lists : lists[i].url = u /\ ~lists[i].white

\* filterExistsLocked looks at the blocklists and at the allowlists.
filterExistsLocked(u) == \E i \in Lists : lists[i].url = u

\* newRuleStorage: the file lists that exist are opened, the others skipped.
newRuleStorage(t) ==
    [list |-> [i \in ID |-> IF i \in t.on THEN file[i] ELSE None],
     user |-> t.user]

\* The arguments enableFiltersLocked prepares for setFilters.
EnabledTask == [on |-> Enabled, user |-> userRules]

\* filtersMu is held for reading across several steps only in EnableFilters.
NoReaders == rpc # "swap" /\ \A h \in Handler : hpc[h] # "enqueue"

\* The lists of which the running refresh holds a copy.
InFlight ==
    {j.id : j \in rtodo \cup rdone} \cup (IF rcur = None THEN {} ELSE {rcur.job.id})

NoReq == [url |-> None, white |-> FALSE, id |-> None, content |-> None, task |-> None]

------------------------------------------------------------------------------
(***************************************************************************)
(* New, loadFilters and load, followed by EnableFilters(false): the lists  *)
(* of the configuration file, with the checksums of the files that exist.  *)
(***************************************************************************)
\* (Mutant first: a file that does not exist is not noticed.)
loadFiltersUnchecked(ls, fs) ==
    [i \in ID |->
        IF ls[i] = None THEN None
        ELSE [ls[i] EXCEPT !.checksum = IF ls[i].enabled THEN fs[i] ELSE Blank]]

loadFilters(ls, fs) ==
    [i \in ID |->
        IF ls[i] = None THEN None
        ELSE [ls[i] EXCEPT !.checksum =
                IF ls[i].enabled /\ fs[i] # None THEN fs[i] ELSE Blank]]

Init ==
    /\ lastID \in 0..MaxBoot
    /\ file \in [ID -> Content \cup {None}]
    /\ \A i \in ID : i > lastID => file[i] = None
    /\ \E conf \in [ID -> [url: URL, white: BOOLEAN, enabled: BOOLEAN, checksum: {Blank}]
                            \cup {None}] :
          /\ \A i \in ID : conf[i] = None <=> i > lastID
          /\ \A i, j \in ID : conf[i] # None /\ conf[j] # None /\ conf[i].url = conf[j].url => i = j
          /\ lists = loadFilters(conf, file)
    /\ source \in [URL -> Content \cup {None}]
    /\ userRules \in UserRules
    /\ filtering \in {[conf |-> b, on |-> b] : b \in BOOLEAN}
    /\ engine = newRuleStorage(EnabledTask)
    /\ task = None
    /\ hpc = [h \in Handler |-> "idle"]
    /\ hreq = [h \in Handler |-> NoReq]
    /\ lpc = "select" /\ lbuilt = None
    /\ rpc = "idle" /\ rowner = None /\ rwhite = FALSE /\ rallow = FALSE
    /\ rtodo = {} /\ rcur = None /\ rdone = {} /\ rfail = 0
    /\ rupd = {} /\ rneterr = FALSE /\ rbuilt = None
    /\ requests = 0 /\ changes = 0 /\ raced = {}

------------------------------------------------------------------------------
(***************************************************************************)
(* The environment.                                                        *)
(***************************************************************************)
\* The provider of a list publishes other rules, goes down, or comes back.
SourceChanges(u) ==
    /\ changes < MaxSource
    /\ \E c \in Content \cup {None} : c # source[u] /\ source' = [source EXCEPT ![u] = c]
    /\ changes' = changes + 1
    /\ UNCHANGED <<lists, file, userRules, filtering, engine, task, lastID,
                   hvars, lvars, rvars, requests, raced>>

\* ensure of home/control.go: a request that modifies data is served with
\* controlLock held, so no other such request is being served.
controlLockFree == \A g \in Handler : hpc[g] = "idle"

\* A handler starts serving a request of kind op.
Serve(h, op) ==
    /\ op \in Ops
    /\ controlLockFree
    /\ requests < MaxReq
    /\ requests' = requests + 1

------------------------------------------------------------------------------
(***************************************************************************)
(* handleFilteringAddURL.                                                  *)
(***************************************************************************)
\* The duplicate check before the download.  A duplicate ends the request.
AddCheck(h, u, w) ==
    /\ Serve(h, "add")
    /\ lastID < MaxID
    /\ ~filterExistsLocked(u)
    /\ hpc' = [hpc EXCEPT ![h] = "download"]
    /\ hreq' = [hreq EXCEPT ![h] = [NoReq EXCEPT !.url = u, !.white = w]]
    /\ UNCHANGED <<cvars, lvars, rvars, changes, raced>>

\* idGen.next and update on a list that has no checksum yet.  A failed
\* download and a list without rules are errors that end the request.
AddDownload(h) ==
    LET id == lastID + 1
        c  == source[hreq[h].url]
    IN  /\ hpc[h] = "download"
        /\ lastID < MaxID
        /\ lastID' = id
        /\ \/ /\ c \in Rules
              /\ file' = [file EXCEPT ![id] = c]
              /\ hpc' = [hpc EXCEPT ![h] = "append"]
              /\ hreq' = [hreq EXCEPT ![h].id = id, ![h].content = c]
           \/ \* The download, or writing the file, has failed.
              /\ hpc' = [hpc EXCEPT ![h] = "idle"]
              /\ hreq' = [hreq EXCEPT ![h] = NoReq]
              /\ UNCHANGED file
        /\ UNCHANGED <<lists, source, userRules, filtering, engine, task, lvars, rvars, bvars>>

\* filterAdd: the duplicate check again, this time under filtersMu.
filterAdd(h) ==
    /\ hpc[h] = "append"
    /\ NoReaders
    /\ IF filterExistsLocked(hreq[h].url)
       THEN /\ hpc' = [hpc EXCEPT ![h] = "idle"]
            /\ UNCHANGED lists
       ELSE /\ hpc' = [hpc EXCEPT ![h] = "enable"]
            /\ lists' = [lists EXCEPT ![hreq[h].id] =
                  [url |-> hreq[h].url, white |-> hreq[h].white,
                   enabled |-> TRUE, checksum |-> hreq[h].content]]
    /\ hreq' = [hreq EXCEPT ![h] = NoReq]
    /\ UNCHANGED <<file, source, userRules, filtering, engine, task, lastID, lvars, rvars, bvars>>

(***************************************************************************)
(* handleFilteringRemoveURL: the file is renamed and the list deleted; the *)
(* filters are enabled anew even when there was no such list.              *)
(***************************************************************************)
RemoveURL(h, u, w) ==
    LET found == {i \in Lists : lists[i].url = u /\ lists[i].white = w}
    IN  /\ Serve(h, "remove")
        /\ NoReaders
        /\ lists' = [i \in ID |-> IF i \in found THEN None ELSE lists[i]]
        /\ file' = [i \in ID |-> IF i \in found THEN None ELSE file[i]]
        /\ hpc' = [hpc EXCEPT ![h] = "enable"]
        /\ UNCHANGED <<source, userRules, filtering, engine, task, lastID,
                       hreq, lvars, rvars, changes, raced>>

(***************************************************************************)
(* handleFilteringSetURL and filterSetProperties.  The download is made    *)
(* while filtersMu is held, so the whole change is one step.               *)
(***************************************************************************)
\* The list after the assignments that precede the call of update.
Unloaded(l, u, e) ==
    [l EXCEPT !.url = u, !.enabled = e,
              !.checksum = IF u # l.url \/ ~e THEN Blank ELSE @]

\* d.update(flt): the downloaded rules replace the file of the list.
SetUpdated(i, l, c) ==
    /\ lists' = [lists EXCEPT ![i] = [l EXCEPT !.checksum = c]]
    /\ file' = [file EXCEPT ![i] = c]

\* The deferred function puts back every property but the checksum.
SetFailed(i, l) ==
    /\ lists' = [lists EXCEPT ![i].checksum = l.checksum]
    /\ UNCHANGED file

\* Mutant: disabling or enabling a list restarts nothing.
RestartOnURL(l, u, e) == u # l.url

\* Whether the filters must be loaded anew, if the update succeeds.
ShouldRestart(l, u, e) == u # l.url \/ e # l.enabled

filterSetProperties(h, u, w, newURL, newEnabled) ==
    \E i \in Lists :
        /\ lists[i].url = u /\ lists[i].white = w
        /\ newURL # u => ~filterExistsLocked(newURL)
        /\ LET l == Unloaded(lists[i], newURL, newEnabled)
               c == source[newURL]
               restart == ShouldRestart(lists[i], newURL, newEnabled)
           IN  \/ /\ ~newEnabled
                  /\ lists' = [lists EXCEPT ![i] = l]
                  /\ hpc' = [hpc EXCEPT ![h] = IF restart THEN "enable" ELSE "idle"]
                  /\ UNCHANGED file
               \/ /\ newEnabled /\ ~restart
                  /\ UNCHANGED <<lists, file, hpc>>
               \/ /\ newEnabled /\ restart
                  /\ \/ /\ c # None /\ c # l.checksum
                        /\ SetUpdated(i, l, c)
                        /\ hpc' = [hpc EXCEPT ![h] = "enable"]
                     \/ /\ c = l.checksum
                        /\ lists' = [lists EXCEPT ![i] = l]
                        /\ UNCHANGED <<file, hpc>>
                     \/ \* The download, or writing the file, has failed.
                        /\ SetFailed(i, l)
                        /\ UNCHANGED hpc
        /\ raced' = IF i \in InFlight /\ (lists' # lists \/ file' # file)
                    THEN raced \cup {i} ELSE raced

SetURL(h, u, w, newURL, newEnabled) ==
    /\ Serve(h, "set")
    /\ NoReaders
    /\ filterSetProperties(h, u, w, newURL, newEnabled)
    /\ UNCHANGED <<source, userRules, filtering, engine, task, lastID,
                   hreq, lvars, rvars, changes>>

\* handleFilteringSetRules assigns conf.UserRules without taking filtersMu.
SetRules(h, r) ==
    /\ Serve(h, "rules")
    /\ userRules' = r
    /\ hpc' = [hpc EXCEPT ![h] = "enable"]
    /\ UNCHANGED <<lists, file, source, filtering, engine, task, lastID,
                   hreq, lvars, rvars, changes, raced>>

\* handleFilteringConfig.
SetConfig(h, b) ==
    /\ Serve(h, "config")
    /\ NoReaders
    /\ filtering' = [filtering EXCEPT !.conf = b]
    /\ hpc' = [hpc EXCEPT ![h] = "enable"]
    /\ UNCHANGED <<lists, file, source, userRules, engine, task, lastID,
                   hreq, lvars, rvars, changes, raced>>

(***************************************************************************)
(* EnableFilters(true).  filtersMu is read-locked from the first step to   *)
(* the end of the second.                                                  *)
(***************************************************************************)
EnableFilters(h) ==
    /\ hpc[h] = "enable"
    /\ hpc' = [hpc EXCEPT ![h] = "enqueue"]
    /\ hreq' = [hreq EXCEPT ![h].task = EnabledTask]
    /\ UNCHANGED <<cvars, lvars, rvars, bvars>>

\* The end of enableFiltersLocked.
SetEnabled == filtering' = [filtering EXCEPT !.on = filtering.conf]

\* Mutant: a task that is still in the channel stays there.
SendTaskUnlessFull(t) == task' = IF task = None THEN t ELSE task

\* Pending tasks are dropped, then the new one is sent.
SendTask(t) == task' = t

setFilters(h) ==
    /\ hpc[h] = "enqueue"
    /\ SendTask(hreq[h].task)
    /\ SetEnabled
    /\ hpc' = [hpc EXCEPT ![h] = "idle"]
    /\ hreq' = [hreq EXCEPT ![h] = NoReq]
    /\ UNCHANGED <<lists, file, source, userRules, engine, lastID, lvars, rvars, bvars>>

------------------------------------------------------------------------------
(***************************************************************************)
(* updatesLoop: initFiltering of the tasks it receives.                    *)
(***************************************************************************)
LoopReceive ==
    /\ lpc = "select"
    /\ task # None
    /\ task' = None
    /\ lbuilt' = newRuleStorage(task)
    /\ lpc' = "swap"
    /\ UNCHANGED <<lists, file, source, userRules, filtering, engine, lastID,
                   hvars, rvars, bvars>>

LoopSwap ==
    /\ lpc = "swap"
    /\ engine' = lbuilt
    /\ lbuilt' = None
    /\ lpc' = "select"
    /\ UNCHANGED <<lists, file, source, userRules, filtering, task, lastID, hvars, rvars, bvars>>

------------------------------------------------------------------------------
(***************************************************************************)
(* tryRefreshFilters and refreshFiltersIntl.                               *)
(***************************************************************************)
\* TryLock has succeeded; white is the first array to refresh.
RefreshStart(owner, white, allow) ==
    /\ rpc = "idle"
    /\ rpc' = "list"
    /\ rowner' = owner
    /\ rwhite' = white
    /\ rallow' = allow
    /\ UNCHANGED <<rtodo, rcur, rdone, rfail, rupd, rneterr, rbuilt>>

\* handleFilteringRefresh: one of the arrays, forced.
HandleRefresh(h, w) ==
    /\ Serve(h, "refresh")
    /\ RefreshStart(h, w, FALSE)
    /\ hpc' = [hpc EXCEPT ![h] = "refresh"]
    /\ UNCHANGED <<cvars, hreq, lvars, changes, raced>>

\* periodicallyRefreshFilters: the timer has fired; both arrays.
PeriodicRefresh ==
    /\ lpc = "select"
    /\ RefreshStart(Loop, FALSE, TRUE)
    /\ lpc' = "refresh"
    /\ UNCHANGED <<cvars, hvars, lbuilt, bvars>>

\* listsToUpdate: a forced refresh takes all enabled lists, the periodic one
\* those that are due.
listsToUpdate ==
    /\ rpc = "list"
    /\ \E due \in SUBSET {i \in Enabled : lists[i].white = rwhite} :
          /\ rowner # Loop => due = {i \in Enabled : lists[i].white = rwhite}
          /\ rtodo' = {[id |-> i, url |-> lists[i].url,
                        checksum |-> lists[i].checksum, updated |-> FALSE] : i \in due}
    /\ rpc' = "update"
    /\ UNCHANGED <<cvars, hvars, lvars, bvars,
                   rowner, rwhite, rallow, rcur, rdone, rfail, rupd, rneterr, rbuilt>>

\* updateIntl: the download into a temporary file.  None is a failed one.
Download ==
    /\ rpc = "update"
    /\ \E j \in rtodo :
          /\ rtodo' = rtodo \ {j}
          /\ rcur' = [job |-> j, content |-> source[j.url]]
    /\ rpc' = "finalize"
    /\ UNCHANGED <<cvars, hvars, lvars, bvars,
                   rowner, rwhite, rallow, rdone, rfail, rupd, rneterr, rbuilt>>

\* Mutant: the checksum is recorded before the file is replaced.
ReplaceFailedRecorded(j, c) == [j EXCEPT !.checksum = c, !.updated = TRUE]

\* CloseReplace has failed: the copy keeps the old checksum, but the named
\* result ok, and with it the update flag, stays true.
ReplaceFailed(j, c) == [j EXCEPT !.updated = TRUE]

\* finalizeUpdate: a list that has changed replaces the file.
finalizeUpdate ==
    LET j == rcur.job
        c == rcur.content
    IN  /\ rpc = "finalize"
        /\ \/ /\ c = None
              /\ rdone' = rdone \cup {j}
              /\ rfail' = rfail + 1
              /\ UNCHANGED file
           \/ /\ c = j.checksum
              /\ rdone' = rdone \cup {j}
              /\ UNCHANGED <<file, rfail>>
           \/ /\ c # None /\ c # j.checksum
              /\ file' = [file EXCEPT ![j.id] = c]
              /\ rdone' = rdone \cup {[j EXCEPT !.checksum = c, !.updated = TRUE]}
              /\ UNCHANGED rfail
           \/ /\ c # None /\ c # j.checksum
              /\ rdone' = rdone \cup {ReplaceFailed(j, c)}
              /\ rfail' = rfail + 1
              /\ UNCHANGED file
        /\ rcur' = None
        /\ rpc' = "update"
        /\ UNCHANGED <<lists, source, userRules, filtering, engine, task, lastID,
                       hvars, lvars, bvars,
                       rowner, rwhite, rallow, rtodo, rupd, rneterr, rbuilt>>

\* The jobs that syncUpdatedFilters finds in the array, by ID and URL.
Synced == {j \in rdone : /\ j.id \in Lists
                         /\ lists[j.id].url = j.url
                         /\ lists[j.id].white = rwhite}
SyncedIDs == {j.id : j \in {k \in Synced : k.updated}}

\* Mutant: the allowlists are refreshed again and again.
NextArrayAgain ==
    /\ rwhite' = (rwhite \/ rallow)
    /\ rpc' = IF rallow THEN "list" ELSE "enable"
    /\ UNCHANGED rallow

\* refreshFiltersIntl: after the blocklists the allowlists, if asked for.
NextArray ==
    /\ rallow' = FALSE
    /\ rwhite' = (rwhite \/ rallow)
    /\ rpc' = IF rallow THEN "list" ELSE "enable"

\* The end of refreshFiltersArray: nothing is synced if all updates failed.
syncUpdatedFilters ==
    /\ rpc = "update" /\ rtodo = {}
    /\ NoReaders
    /\ IF rdone # {} /\ rfail = Cardinality(rdone)
       THEN /\ rneterr' = TRUE
            /\ UNCHANGED <<lists, rupd>>
       ELSE /\ lists' = [i \in ID |->
                  IF i \in SyncedIDs
                  THEN [lists[i] EXCEPT !.checksum =
                          (CHOOSE j \in Synced : j.id = i /\ j.updated).checksum]
                  ELSE lists[i]]
            /\ rupd' = rupd \cup SyncedIDs
            /\ UNCHANGED rneterr
    /\ rdone' = {} /\ rfail' = 0
    /\ NextArray
    /\ UNCHANGED <<file, source, userRules, filtering, engine, task, lastID,
                   hvars, lvars, bvars, rowner, rtodo, rcur, rbuilt>>

\* refreshLock is released and the caller goes on.
RefreshEnd ==
    /\ rpc' = "idle"
    /\ rowner' = None
    /\ rupd' = {} /\ rneterr' = FALSE /\ rbuilt' = None /\ rwhite' = FALSE
    /\ IF rowner = Loop
       THEN lpc' = "select" /\ UNCHANGED hpc
       ELSE hpc' = [hpc EXCEPT ![rowner] = "idle"] /\ UNCHANGED lpc

\* A network error, or no updated list: the engine is not rebuilt.
RefreshNothing ==
    /\ rpc = "enable"
    /\ rneterr \/ rupd = {}
    /\ RefreshEnd
    /\ UNCHANGED <<cvars, hreq, lbuilt, bvars, rallow, rtodo, rcur, rdone, rfail>>

\* EnableFilters(false): filtersMu is read-locked until the swap.
RefreshBuild ==
    /\ rpc = "enable"
    /\ ~rneterr /\ rupd # {}
    /\ rbuilt' = newRuleStorage(EnabledTask)
    /\ rpc' = "swap"
    /\ UNCHANGED <<cvars, hvars, lvars, bvars,
                   rowner, rwhite, rallow, rtodo, rcur, rdone, rfail, rupd, rneterr>>

RefreshSwap ==
    /\ rpc = "swap"
    /\ engine' = rbuilt
    /\ SetEnabled
    /\ RefreshEnd
    /\ UNCHANGED <<lists, file, source, userRules, task, lastID,
                   hreq, lbuilt, bvars, rallow, rtodo, rcur, rdone, rfail>>

------------------------------------------------------------------------------
HandlerStep(h) == AddDownload(h) \/ filterAdd(h) \/ EnableFilters(h) \/ setFilters(h)

RefreshStep ==
    \/ listsToUpdate \/ Download \/ finalizeUpdate \/ syncUpdatedFilters
    \/ RefreshNothing \/ RefreshBuild \/ RefreshSwap

Request(h) ==
    \/ \E u \in URL, w \in BOOLEAN : AddCheck(h, u, w) \/ RemoveURL(h, u, w)
    \/ \E u, v \in URL, w, e \in BOOLEAN : SetURL(h, u, w, v, e)
    \/ \E r \in UserRules : SetRules(h, r)
    \/ \E b \in BOOLEAN : SetConfig(h, b)
    \/ \E w \in BOOLEAN : HandleRefresh(h, w)

Next ==
    \/ \E u \in URL : SourceChanges(u)
    \/ \E h \in Handler : Request(h) \/ HandlerStep(h)
    \/ LoopReceive \/ LoopSwap \/ PeriodicRefresh
    \/ RefreshStep

Spec == Init /\ [][Next]_vars

(***************************************************************************)
(* Every goroutine that has work to do eventually does it.  The select     *)
(* statement of updatesLoop chooses at random between the timer and the    *)
(* channel, so a task that stays in the channel is eventually received.    *)
(***************************************************************************)
Fairness ==
    /\ \A h \in Handler : WF_vars(HandlerStep(h))
    /\ WF_vars(RefreshStep)
    /\ WF_vars(LoopSwap)
    /\ SF_vars(LoopReceive)

FairSpec == Spec /\ Fairness

------------------------------------------------------------------------------
(***************************************************************************)
(* Properties.                                                             *)
(***************************************************************************)
ConfOK ==
    /\ lists \in [ID -> List \cup {None}]
    /\ file \in [ID -> Content \cup {None}]
    /\ source \in [URL -> Content \cup {None}]
    /\ userRules \in UserRules
    /\ filtering \in [conf: BOOLEAN, on: BOOLEAN]
    /\ engine \in Engine
    /\ task \in Task \cup {None}
    /\ lastID \in 0..MaxID

HandlersOK ==
    /\ hpc \in [Handler -> {"idle", "download", "append", "enable", "enqueue", "refresh"}]
    /\ hreq \in [Handler -> [url: URL \cup {None}, white: BOOLEAN, id: ID \cup {None},
                             content: Rules \cup {None}, task: Task \cup {None}]]
    /\ \A h \in Handler :
          /\ hpc[h] \in {"download", "append"} => hreq[h].url # None
          /\ hpc[h] = "append" => hreq[h].id # None /\ hreq[h].content # None
          /\ hpc[h] = "enqueue" => hreq[h].task # None

LoopOK ==
    /\ lpc \in {"select", "swap", "refresh"}
    /\ lbuilt \in Engine \cup {None}
    /\ lpc = "swap" => lbuilt # None

RefreshOK ==
    /\ rpc \in {"idle", "list", "update", "finalize", "enable", "swap"}
    /\ rowner \in Handler \cup {Loop, None}
    /\ rwhite \in BOOLEAN /\ rallow \in BOOLEAN /\ rneterr \in BOOLEAN
    /\ rtodo \subseteq Job /\ rdone \subseteq Job
    /\ rcur \in [job: Job, content: Content \cup {None}] \cup {None}
    /\ rfail \in Nat
    /\ rupd \subseteq ID
    /\ rbuilt \in Engine \cup {None}
    /\ rpc = "swap" => rbuilt # None
    /\ rpc = "finalize" => rcur # None
    /\ rpc # "idle" => rowner # None

CountersOK ==
    /\ requests \in 0..MaxReq /\ changes \in 0..MaxSource
    /\ raced \subseteq ID

\* Type correctness of the filter's state and, depending on where they are,
\* of the goroutines' variables.
TypeOK == ConfOK /\ HandlersOK /\ LoopOK /\ RefreshOK /\ CountersOK

\* No two lists ever have the same URL, among the blocklists and the
\* allowlists, whatever is added, changed and merged back by a refresh: a
\* refresh finds the list of a result by its URL.
UniqueURLs ==
    \A i, j \in Lists : lists[i].url = lists[j].url => i = j

\* A checksum that is set is the checksum of the file, so that a refresh
\* that finds the checksum unchanged may leave the file alone.  A list whose
\* properties were changed while a refresh held a copy of it is exempt: see
\* ChecksumOfFile.
ChecksumSound ==
    \A i \in Lists \ (raced \cup InFlight) :
        lists[i].checksum # Blank => file[i] = lists[i].checksum

\* Nobody has a change of the lists in hand that the engine is yet to see.
Settled ==
    /\ task = None
    /\ lpc # "swap"
    /\ \A h \in Handler : hpc[h] \notin {"enable", "enqueue"}

\* Once the changes are processed, the engine uses no list that has been
\* removed or disabled, although tasks are dropped, engines are built from
\* earlier tasks, and a refresh swaps in an engine of its own.
DisabledListsUnused ==
    Settled => \A i \in ID : engine.list[i] # None => i \in Enabled

\* Once the changes are processed, the custom rules in use are the ones last
\* set, although handleFilteringSetRules assigns them without filtersMu while
\* a refresh may be building an engine from the previous ones.
UserRulesApplied ==
    Settled => engine.user = userRules

\* A list that is removed or disabled stops being used, unless it is enabled
\* again: no request to rebuild the engine is lost.
DisabledListsStop ==
    \A i \in ID : (i \notin Enabled) ~> (engine.list[i] = None \/ i \in Enabled)

\* refreshLock is released in the end, whatever the downloads do.
RefreshEnds == (rpc # "idle") ~> (rpc = "idle")

\* The checksum of a list is the "checksum of the file data" (filter.go:38),
\* for every list that is not in the middle of an update.
ChecksumOfFile ==
    \A i \in Lists \ InFlight :
        lists[i].checksum # Blank => file[i] = lists[i].checksum

\* "After new filter files are in place, it restarts DNS filtering module with
\* new rules" (AGHTechDoc.md:1701): no refresh ends without rebuilding the
\* engine when it has replaced the file of a list and recorded the update.
UpdatedListsLoaded ==
    [][rpc = "enable" /\ rpc' = "idle" => rupd = {}]_vars
==============================================================================
