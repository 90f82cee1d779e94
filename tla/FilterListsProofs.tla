-------------------------- MODULE FilterListsProofs --------------------------
(***************************************************************************)
(* Theorems about FilterLists, for any sources, rules, handlers and bounds.*)
(***************************************************************************)
EXTENDS FilterLists, FiniteSetTheorems, TLAPS

LEMMA TypeInit == Init => TypeOK
<1> SUFFICES ASSUME Init PROVE TypeOK
  OBVIOUS
<1> USE FilterListsAssumption
<1>1. lastID \in 0..MaxID /\ file \in [ID -> Content \cup {None}]
  BY DEF Init, ID
<1>2. lists \in [ID -> List \cup {None}]
  <2>1. PICK conf \in [ID -> [url: URL, white: BOOLEAN, enabled: BOOLEAN, checksum: {Blank}]
                              \cup {None}] : lists = loadFilters(conf, file)
    BY DEF Init
  <2>2. ASSUME NEW i \in ID
        PROVE  loadFilters(conf, file)[i] \in List \cup {None}
    BY <1>1, <2>1 DEF loadFilters, List, Content
  <2> QED
    BY <2>1, <2>2 DEF loadFilters
<1>3. engine \in Engine
  BY <1>1, <1>2 DEF Init, newRuleStorage, EnabledTask, Engine
<1>4. ConfOK
  BY <1>1, <1>2, <1>3 DEF Init, ConfOK
<1>5. HandlersOK
  BY DEF Init, HandlersOK, NoReq
<1>6. LoopOK /\ CountersOK
  BY DEF Init, LoopOK, CountersOK
<1>7. RefreshOK
  <2>1. rwhite \in BOOLEAN /\ rallow \in BOOLEAN /\ rneterr \in BOOLEAN
    BY Zenon DEF Init
  <2> QED
    BY <2>1 DEF Init, RefreshOK
<1> QED
  BY <1>4, <1>5, <1>6, <1>7 DEF TypeOK

\* What syncUpdatedFilters copies: a checksum, to a list that is there.
LEMMA SyncedChecksum ==
    ASSUME TypeOK, NEW i \in SyncedIDs
    PROVE  /\ i \in Lists
           /\ (CHOOSE j \in Synced : j.id = i /\ j.updated).checksum \in Content
<1>1. \E j \in Synced : j.id = i /\ j.updated
  BY DEF SyncedIDs
<1>2. (CHOOSE j \in Synced : j.id = i /\ j.updated) \in Synced
  BY <1>1
<1> QED
  BY <1>1, <1>2 DEF Synced, Job, TypeOK, RefreshOK

LEMMA TypeStep == TypeOK /\ [Next]_vars => TypeOK'
<1> SUFFICES ASSUME TypeOK, [Next]_vars PROVE TypeOK'
  OBVIOUS
<1> USE FilterListsAssumption
<1>1. ASSUME NEW u \in URL, SourceChanges(u) PROVE TypeOK'
  <2>1. ConfOK'
    BY <1>1 DEF TypeOK, ConfOK, SourceChanges
  <2>2. CountersOK'
    BY <1>1 DEF TypeOK, CountersOK, SourceChanges
  <2>3. HandlersOK' /\ LoopOK' /\ RefreshOK'
    BY <1>1 DEF TypeOK, HandlersOK, LoopOK, RefreshOK, SourceChanges, hvars, lvars, rvars
  <2> QED
    BY <2>1, <2>2, <2>3 DEF TypeOK
<1>2. ASSUME NEW h \in Handler, NEW u \in URL, NEW w \in BOOLEAN, AddCheck(h, u, w) PROVE TypeOK'
  <2>1. HandlersOK'
    BY <1>2 DEF TypeOK, HandlersOK, CountersOK, AddCheck, NoReq, lvars, rvars
  <2>2. CountersOK'
    BY <1>2 DEF TypeOK, CountersOK, AddCheck, Serve
  <2>3. ConfOK' /\ LoopOK' /\ RefreshOK'
    BY <1>2 DEF TypeOK, ConfOK, LoopOK, RefreshOK, AddCheck, cvars, lvars, rvars
  <2> QED
    BY <2>1, <2>2, <2>3 DEF TypeOK
<1>3. ASSUME NEW h \in Handler, AddDownload(h) PROVE TypeOK'
  <2> USE <1>3 DEF AddDownload, cvars, hvars, lvars, rvars, bvars
  <2>1. lastID + 1 \in ID /\ lastID' \in 0..MaxID
    BY DEF TypeOK, ConfOK, ID
  <2>2. ConfOK'
    BY <2>1 DEF TypeOK, ConfOK, Content
  <2>3. hreq[h] \in [url: URL \cup {None}, white: BOOLEAN, id: ID \cup {None},
                     content: Rules \cup {None}, task: Task \cup {None}]
    BY DEF TypeOK, HandlersOK
  <2>4. HandlersOK'
    <3>1. CASE UNCHANGED file /\ hreq' = [hreq EXCEPT ![h] = NoReq]
               /\ hpc' = [hpc EXCEPT ![h] = "idle"]
      BY <3>1 DEF TypeOK, HandlersOK, NoReq
    <3>2. CASE source[hreq[h].url] \in Rules /\ hpc' = [hpc EXCEPT ![h] = "append"]
               /\ hreq' = [hreq EXCEPT ![h] = [@ EXCEPT !.id = lastID + 1,
                                                       !.content = source[hreq[h].url]]]
      <4> DEFINE r == [hreq[h] EXCEPT !.id = lastID + 1, !.content = source[hreq[h].url]]
      <4>1. r \in [url: URL \cup {None}, white: BOOLEAN, id: ID \cup {None},
                   content: Rules \cup {None}, task: Task \cup {None}]
        BY <2>1, <2>3, <3>2
      <4>2. r.url = hreq[h].url /\ r.id # None /\ r.content # None
        BY <2>1, <2>3, <3>2 DEF Content
      <4>3. hreq' = [hreq EXCEPT ![h] = r]
        BY <3>2
      <4> HIDE DEF r
      <4>4. /\ hpc' \in [Handler -> {"idle", "download", "append", "enable", "enqueue", "refresh"}]
            /\ hreq' \in [Handler -> [url: URL \cup {None}, white: BOOLEAN, id: ID \cup {None},
                                      content: Rules \cup {None}, task: Task \cup {None}]]
        BY <3>2, <4>1, <4>3 DEF TypeOK, HandlersOK
      <4>5. /\ hpc'[h] = "append" /\ hreq'[h] = r
            /\ \A g \in Handler \ {h} : hpc'[g] = hpc[g] /\ hreq'[g] = hreq[g]
        BY <3>2, <4>3 DEF TypeOK, HandlersOK
      <4> QED
        BY <4>2, <4>4, <4>5 DEF TypeOK, HandlersOK
    <3> QED
      BY <3>1, <3>2
  <2>5. LoopOK' /\ RefreshOK' /\ CountersOK'
    BY DEF TypeOK, LoopOK, RefreshOK, CountersOK
  <2> QED
    BY <2>2, <2>4, <2>5 DEF TypeOK
<1>4. ASSUME NEW h \in Handler, filterAdd(h) PROVE TypeOK'
  <2>1. ConfOK'
    <3> DEFINE l == [url |-> hreq[h].url, white |-> hreq[h].white,
                     enabled |-> TRUE, checksum |-> hreq[h].content]
    <3>1. l \in List
      BY <1>4 DEF TypeOK, HandlersOK, filterAdd, Content, List
    <3>2. lists' = lists \/ lists' = [lists EXCEPT ![hreq[h].id] = l]
      BY <1>4 DEF filterAdd
    <3> HIDE DEF l
    <3> QED
      BY <1>4, <3>1, <3>2 DEF TypeOK, ConfOK, filterAdd
  <2>2. HandlersOK'
    BY <1>4 DEF TypeOK, HandlersOK, LoopOK, filterAdd, NoReq, lvars
  <2>3. LoopOK' /\ RefreshOK' /\ CountersOK'
    BY <1>4 DEF TypeOK, LoopOK, RefreshOK, CountersOK, filterAdd, lvars, rvars, bvars
  <2> QED
    BY <2>1, <2>2, <2>3 DEF TypeOK
<1>5. ASSUME NEW h \in Handler, NEW u \in URL, NEW w \in BOOLEAN, RemoveURL(h, u, w) PROVE TypeOK'
  <2>1. ConfOK'
    BY <1>5 DEF TypeOK, ConfOK, RemoveURL
  <2>2. HandlersOK'
    BY <1>5 DEF TypeOK, HandlersOK, RemoveURL
  <2>3. CountersOK'
    BY <1>5 DEF TypeOK, CountersOK, RemoveURL, Serve
  <2>4. LoopOK' /\ RefreshOK'
    BY <1>5 DEF TypeOK, LoopOK, RefreshOK, RemoveURL, lvars, rvars
  <2> QED
    BY <2>1, <2>2, <2>3, <2>4 DEF TypeOK
<1>6. ASSUME NEW h \in Handler, NEW u \in URL, NEW v \in URL, NEW w \in BOOLEAN, NEW e \in BOOLEAN, SetURL(h, u, w, v, e) PROVE TypeOK'
  <2>1. PICK i \in Lists :
          /\ \/ lists' = [lists EXCEPT ![i] = Unloaded(lists[i], v, e)] /\ UNCHANGED file
             \/ UNCHANGED <<lists, file>>
             \/ source[v] # None /\ SetUpdated(i, Unloaded(lists[i], v, e), source[v])
             \/ SetFailed(i, Unloaded(lists[i], v, e))
    BY <1>6 DEF SetURL, filterSetProperties
  <2>2. i \in ID /\ lists[i] \in List
    BY DEF Lists, TypeOK, ConfOK
  <2>3. Unloaded(lists[i], v, e) \in List
    BY <2>2 DEF Unloaded, List, Content
  <2>4. /\ source[v] # None => [Unloaded(lists[i], v, e) EXCEPT !.checksum = source[v]] \in List
        /\ [lists[i] EXCEPT !.checksum = Unloaded(lists[i], v, e).checksum] \in List
    BY <2>2, <2>3 DEF List, TypeOK, ConfOK
  <2>5. lists' \in [ID -> List \cup {None}] /\ file' \in [ID -> Content \cup {None}]
    BY <2>1, <2>3, <2>4 DEF SetUpdated, SetFailed, TypeOK, ConfOK
  <2>6. ConfOK'
    BY <1>6, <2>5 DEF TypeOK, ConfOK, SetURL
  <2>7. HandlersOK'
    BY <1>6 DEF TypeOK, HandlersOK, SetURL, filterSetProperties
  <2>8. CountersOK'
    BY <1>6 DEF TypeOK, ConfOK, CountersOK, SetURL, Serve, filterSetProperties, SetUpdated,
       SetFailed
  <2>9. LoopOK' /\ RefreshOK'
    BY <1>6 DEF TypeOK, LoopOK, RefreshOK, SetURL, lvars, rvars
  <2> QED
    BY <2>6, <2>7, <2>8, <2>9 DEF TypeOK
<1>7. ASSUME NEW h \in Handler, NEW r \in UserRules, SetRules(h, r) PROVE TypeOK'
  <2>1. ConfOK'
    BY <1>7 DEF TypeOK, ConfOK, SetRules
  <2>2. HandlersOK'
    BY <1>7 DEF TypeOK, HandlersOK, SetRules
  <2>3. CountersOK'
    BY <1>7 DEF TypeOK, CountersOK, SetRules, Serve
  <2>4. LoopOK' /\ RefreshOK'
    BY <1>7 DEF TypeOK, LoopOK, RefreshOK, SetRules, lvars, rvars
  <2> QED
    BY <2>1, <2>2, <2>3, <2>4 DEF TypeOK
<1>8. ASSUME NEW h \in Handler, NEW b \in BOOLEAN, SetConfig(h, b) PROVE TypeOK'
  <2>1. ConfOK'
    BY <1>8 DEF TypeOK, ConfOK, SetConfig
  <2>2. HandlersOK'
    BY <1>8 DEF TypeOK, HandlersOK, SetConfig
  <2>3. CountersOK'
    BY <1>8 DEF TypeOK, CountersOK, SetConfig, Serve
  <2>4. LoopOK' /\ RefreshOK'
    BY <1>8 DEF TypeOK, LoopOK, RefreshOK, SetConfig, lvars, rvars
  <2> QED
    BY <2>1, <2>2, <2>3, <2>4 DEF TypeOK
<1>9. ASSUME NEW h \in Handler, EnableFilters(h) PROVE TypeOK'
  <2>1. HandlersOK'
    BY <1>9 DEF TypeOK, ConfOK, HandlersOK, EnableFilters, EnabledTask, Enabled, Lists, Task
  <2>2. ConfOK' /\ LoopOK' /\ RefreshOK' /\ CountersOK'
    BY <1>9 DEF TypeOK, ConfOK, LoopOK, RefreshOK, CountersOK, EnableFilters, cvars, lvars,
       rvars, bvars
  <2> QED
    BY <2>1, <2>2 DEF TypeOK
<1>10. ASSUME NEW h \in Handler, setFilters(h) PROVE TypeOK'
  <2>1. ConfOK'
    BY <1>10 DEF TypeOK, ConfOK, HandlersOK, setFilters, SendTask, SetEnabled
  <2>2. HandlersOK'
    BY <1>10 DEF TypeOK, HandlersOK, setFilters, NoReq
  <2>3. LoopOK' /\ RefreshOK' /\ CountersOK'
    BY <1>10 DEF TypeOK, LoopOK, RefreshOK, CountersOK, setFilters, lvars, rvars, bvars
  <2> QED
    BY <2>1, <2>2, <2>3 DEF TypeOK
<1>11. ASSUME LoopReceive PROVE TypeOK'
  <2>1. ConfOK'
    BY <1>11 DEF TypeOK, ConfOK, LoopReceive
  <2>2. LoopOK'
    BY <1>11 DEF TypeOK, ConfOK, LoopOK, LoopReceive, newRuleStorage, Engine, Task
  <2>3. HandlersOK' /\ RefreshOK' /\ CountersOK'
    BY <1>11 DEF TypeOK, HandlersOK, RefreshOK, CountersOK, LoopReceive, hvars, rvars, bvars
  <2> QED
    BY <2>1, <2>2, <2>3 DEF TypeOK
<1>12. ASSUME LoopSwap PROVE TypeOK'
  <2>1. ConfOK'
    BY <1>12 DEF TypeOK, ConfOK, LoopOK, LoopSwap
  <2>2. LoopOK'
    BY <1>12 DEF LoopOK, LoopSwap
  <2>3. HandlersOK' /\ RefreshOK' /\ CountersOK'
    BY <1>12 DEF TypeOK, HandlersOK, RefreshOK, CountersOK, LoopSwap, hvars, rvars, bvars
  <2> QED
    BY <2>1, <2>2, <2>3 DEF TypeOK
<1>13. ASSUME NEW h \in Handler, NEW w \in BOOLEAN, HandleRefresh(h, w) PROVE TypeOK'
  <2>1. HandlersOK'
    BY <1>13 DEF TypeOK, HandlersOK, HandleRefresh
  <2>2. RefreshOK'
    BY <1>13 DEF TypeOK, RefreshOK, HandleRefresh, RefreshStart
  <2>3. CountersOK'
    BY <1>13 DEF TypeOK, CountersOK, HandleRefresh, Serve
  <2>4. ConfOK' /\ LoopOK'
    BY <1>13 DEF TypeOK, ConfOK, LoopOK, HandleRefresh, cvars, lvars
  <2> QED
    BY <2>1, <2>2, <2>3, <2>4 DEF TypeOK
<1>14. ASSUME PeriodicRefresh PROVE TypeOK'
  <2>1. LoopOK'
    BY <1>14 DEF TypeOK, LoopOK, PeriodicRefresh
  <2>2. RefreshOK'
    BY <1>14 DEF TypeOK, RefreshOK, PeriodicRefresh, RefreshStart
  <2>3. ConfOK' /\ HandlersOK' /\ CountersOK'
    BY <1>14 DEF TypeOK, ConfOK, HandlersOK, CountersOK, PeriodicRefresh, cvars, hvars, bvars
  <2> QED
    BY <2>1, <2>2, <2>3 DEF TypeOK
<1>15. ASSUME listsToUpdate PROVE TypeOK'
  <2>1. RefreshOK'
    <3>1. \A i \in Enabled : [id |-> i, url |-> lists[i].url, checksum |-> lists[i].checksum,
                             updated |-> FALSE] \in Job
      BY DEF Enabled, Lists, List, Job, TypeOK, ConfOK
    <3>2. rtodo' \subseteq Job
      BY <1>15, <3>1 DEF listsToUpdate
    <3> QED
      BY <1>15, <3>2 DEF TypeOK, RefreshOK, listsToUpdate
  <2>2. ConfOK' /\ HandlersOK' /\ LoopOK' /\ CountersOK'
    BY <1>15 DEF TypeOK, ConfOK, HandlersOK, LoopOK, CountersOK, listsToUpdate, cvars, hvars,
       lvars, bvars
  <2> QED
    BY <2>1, <2>2 DEF TypeOK
<1>16. ASSUME Download PROVE TypeOK'
  <2>1. RefreshOK'
    BY <1>16 DEF TypeOK, ConfOK, RefreshOK, Download, Job
  <2>2. ConfOK' /\ HandlersOK' /\ LoopOK' /\ CountersOK'
    BY <1>16 DEF TypeOK, ConfOK, HandlersOK, LoopOK, CountersOK, Download, cvars, hvars, lvars,
       bvars
  <2> QED
    BY <2>1, <2>2 DEF TypeOK
<1>17. ASSUME finalizeUpdate PROVE TypeOK'
  <2>1. ConfOK'
    BY <1>17 DEF TypeOK, ConfOK, RefreshOK, finalizeUpdate
  <2>2. RefreshOK'
    <3>1. rcur.job \in Job /\ rcur.content \in Content \cup {None}
      BY <1>17 DEF TypeOK, RefreshOK, finalizeUpdate
    <3>2. /\ ReplaceFailed(rcur.job, rcur.content) \in Job
          /\ rcur.content # None =>
                [rcur.job EXCEPT !.checksum = rcur.content, !.updated = TRUE] \in Job
      BY <3>1 DEF ReplaceFailed, Job
    <3>3. rdone' \subseteq Job /\ rfail' \in Nat
      BY <1>17, <3>1, <3>2 DEF TypeOK, RefreshOK, finalizeUpdate
    <3> QED
      BY <1>17, <3>3 DEF TypeOK, RefreshOK, finalizeUpdate
  <2>3. HandlersOK' /\ LoopOK' /\ CountersOK'
    BY <1>17 DEF TypeOK, HandlersOK, LoopOK, CountersOK, finalizeUpdate, hvars, lvars, bvars
  <2> QED
    BY <2>1, <2>2, <2>3 DEF TypeOK
<1>18. ASSUME syncUpdatedFilters PROVE TypeOK'
  <2>1. ConfOK'
    <3>1. ASSUME NEW i \in SyncedIDs
          PROVE  [lists[i] EXCEPT !.checksum =
                    (CHOOSE j \in Synced : j.id = i /\ j.updated).checksum] \in List
      BY SyncedChecksum DEF Lists, List, TypeOK, ConfOK
    <3>2. lists' \in [ID -> List \cup {None}]
      BY <1>18, <3>1 DEF syncUpdatedFilters, TypeOK, ConfOK
    <3> QED
      BY <1>18, <3>2 DEF TypeOK, ConfOK, syncUpdatedFilters
  <2>2. RefreshOK'
    <3>1. SyncedIDs \subseteq ID
      BY DEF SyncedIDs, Synced, Lists
    <3>2. rwhite' \in BOOLEAN /\ rallow' \in BOOLEAN /\ rneterr' \in BOOLEAN
      BY <1>18, Zenon DEF syncUpdatedFilters, NextArray, TypeOK, RefreshOK
    <3> QED
      BY <1>18, <3>1, <3>2 DEF TypeOK, RefreshOK, syncUpdatedFilters, NextArray
  <2>3. HandlersOK' /\ LoopOK' /\ CountersOK'
    BY <1>18 DEF TypeOK, HandlersOK, LoopOK, CountersOK, syncUpdatedFilters, hvars, lvars,
       bvars
  <2> QED
    BY <2>1, <2>2, <2>3 DEF TypeOK
<1>19. ASSUME RefreshNothing PROVE TypeOK'
  <2>1. HandlersOK'
    BY <1>19 DEF TypeOK, HandlersOK, RefreshNothing, RefreshEnd
  <2>2. LoopOK'
    BY <1>19 DEF TypeOK, LoopOK, RefreshNothing, RefreshEnd
  <2>3. RefreshOK'
    BY <1>19 DEF TypeOK, RefreshOK, RefreshNothing, RefreshEnd
  <2>4. ConfOK' /\ CountersOK'
    BY <1>19 DEF TypeOK, ConfOK, CountersOK, RefreshNothing, cvars, bvars
  <2> QED
    BY <2>1, <2>2, <2>3, <2>4 DEF TypeOK
<1>20. ASSUME RefreshBuild PROVE TypeOK'
  <2>1. RefreshOK'
    BY <1>20 DEF TypeOK, ConfOK, RefreshOK, RefreshBuild, newRuleStorage, EnabledTask, Engine
  <2>2. ConfOK' /\ HandlersOK' /\ LoopOK' /\ CountersOK'
    BY <1>20 DEF TypeOK, ConfOK, HandlersOK, LoopOK, CountersOK, RefreshBuild, cvars, hvars,
       lvars, bvars
  <2> QED
    BY <2>1, <2>2 DEF TypeOK
<1>21. ASSUME RefreshSwap PROVE TypeOK'
  <2>1. ConfOK'
    BY <1>21 DEF TypeOK, ConfOK, RefreshOK, RefreshSwap, SetEnabled
  <2>2. HandlersOK'
    BY <1>21 DEF TypeOK, HandlersOK, RefreshSwap, RefreshEnd
  <2>3. LoopOK'
    BY <1>21 DEF TypeOK, LoopOK, RefreshSwap, RefreshEnd
  <2>4. RefreshOK'
    BY <1>21 DEF TypeOK, RefreshOK, RefreshSwap, RefreshEnd
  <2>5. CountersOK'
    BY <1>21 DEF TypeOK, CountersOK, RefreshSwap, bvars
  <2> QED
    BY <2>1, <2>2, <2>3, <2>4, <2>5 DEF TypeOK
<1>22. CASE UNCHANGED vars
  BY <1>22 DEF TypeOK, ConfOK, HandlersOK, LoopOK, RefreshOK, CountersOK, vars, cvars, hvars,
     lvars, rvars, bvars
<1> QED
  BY <1>1, <1>2, <1>3, <1>4, <1>5, <1>6, <1>7, <1>8, <1>9, <1>10, <1>11, <1>12, <1>13, <1>14,
     <1>15, <1>16, <1>17, <1>18, <1>19, <1>20, <1>21, <1>22 DEF Next, Request, HandlerStep,
     RefreshStep

\* Type correctness: see TypeOK.
THEOREM TypeCorrect == Spec => []TypeOK
BY TypeInit, TypeStep, PTL DEF Spec

------------------------------------------------------------------------------
\* A step that changes no list but for its checksum keeps the URLs unique.
LEMMA SameURLs ==
    ASSUME UniqueURLs, Lists' \subseteq Lists,
           \A i \in Lists' : lists'[i].url = lists[i].url
    PROVE  UniqueURLs'
BY DEF UniqueURLs

LEMMA UniqueStep == TypeOK /\ UniqueURLs /\ [Next]_vars => UniqueURLs'
<1> SUFFICES ASSUME TypeOK, UniqueURLs, [Next]_vars PROVE UniqueURLs'
  OBVIOUS
<1> USE FilterListsAssumption
<1>1. CASE UNCHANGED lists
  BY <1>1 DEF UniqueURLs, Lists
<1>2. ASSUME NEW h \in Handler, filterAdd(h) PROVE UniqueURLs'
  <2>1. CASE filterExistsLocked(hreq[h].url)
    BY <1>1, <1>2, <2>1 DEF filterAdd
  <2>2. CASE ~filterExistsLocked(hreq[h].url)
    <3> DEFINE id == hreq[h].id
    <3>1. id \in ID
      BY <1>2 DEF filterAdd, TypeOK, HandlersOK
    <3>2. /\ Lists' \subseteq Lists \cup {id}
          /\ lists'[id].url = hreq[h].url
          /\ \A i \in Lists \ {id} : lists'[i] = lists[i]
      BY <1>2, <2>2, <3>1 DEF filterAdd, Lists, TypeOK, ConfOK
    <3> QED
      BY <2>2, <3>2 DEF UniqueURLs, filterExistsLocked
  <2> QED
    BY <2>1, <2>2
<1>3. ASSUME NEW h \in Handler, NEW u \in URL, NEW w \in BOOLEAN, RemoveURL(h, u, w)
      PROVE  UniqueURLs'
  <2>1. Lists' \subseteq Lists /\ \A i \in Lists' : lists'[i] = lists[i]
    BY <1>3 DEF RemoveURL, Lists
  <2> QED
    BY <2>1, SameURLs
<1>4. ASSUME NEW h \in Handler, NEW u \in URL, NEW v \in URL, NEW w \in BOOLEAN,
             NEW e \in BOOLEAN, SetURL(h, u, w, v, e)
      PROVE  UniqueURLs'
  <2>1. PICK i \in Lists :
          /\ lists[i].url = u
          /\ v # u => ~filterExistsLocked(v)
          /\ \/ lists' = [lists EXCEPT ![i] = Unloaded(lists[i], v, e)]
             \/ UNCHANGED lists
             \/ SetUpdated(i, Unloaded(lists[i], v, e), source[v])
             \/ SetFailed(i, Unloaded(lists[i], v, e))
    BY <1>4 DEF SetURL, filterSetProperties
  <2>2. i \in ID /\ lists[i] \in List
    BY DEF Lists, TypeOK, ConfOK
  <2>3. /\ Unloaded(lists[i], v, e).url = v
        /\ [Unloaded(lists[i], v, e) EXCEPT !.checksum = source[v]].url = v
        /\ [lists[i] EXCEPT !.checksum = Unloaded(lists[i], v, e).checksum].url = u
    BY <2>1, <2>2 DEF Unloaded, List
  <2>4. /\ \A j \in ID \ {i} : lists'[j] = lists[j]
        /\ lists'[i].url \in {u, v}
    BY <2>1, <2>2, <2>3 DEF SetUpdated, SetFailed, TypeOK, ConfOK
  <2> QED
    BY <2>1, <2>2, <2>4 DEF UniqueURLs, Lists, filterExistsLocked
<1>5. ASSUME syncUpdatedFilters PROVE UniqueURLs'
  <2>1. SyncedIDs \subseteq Lists
    BY DEF SyncedIDs, Synced
  <2>2. \A i \in Lists : /\ lists[i] \in List
                         /\ \A c : [lists[i] EXCEPT !.checksum = c].url = lists[i].url
    BY DEF Lists, TypeOK, ConfOK, List
  <2>3. ASSUME NEW i \in Lists'
        PROVE  i \in Lists /\ lists'[i].url = lists[i].url
    <3>1. CASE lists'[i] = lists[i]
      BY <3>1 DEF Lists
    <3>2. CASE i \in SyncedIDs /\ \E c : lists'[i] = [lists[i] EXCEPT !.checksum = c]
      BY <2>1, <2>2, <3>2
    <3> QED
      BY <1>5, <3>1, <3>2 DEF syncUpdatedFilters, Lists
  <2> QED
    BY <2>3, SameURLs
<1>6. ASSUME NEW h \in Handler, Request(h) PROVE UniqueURLs'
  BY <1>1, <1>3, <1>4, <1>6 DEF Request, AddCheck, SetRules, SetConfig, HandleRefresh, cvars
<1>7. ASSUME NEW h \in Handler, HandlerStep(h) PROVE UniqueURLs'
  BY <1>1, <1>2, <1>7 DEF HandlerStep, AddDownload, EnableFilters, setFilters, cvars
<1>8. ASSUME RefreshStep PROVE UniqueURLs'
  BY <1>1, <1>5, <1>8 DEF RefreshStep, listsToUpdate, Download, finalizeUpdate, RefreshNothing,
     RefreshBuild, RefreshSwap, cvars
<1> QED
  BY <1>1, <1>6, <1>7, <1>8 DEF Next, SourceChanges, LoopReceive, LoopSwap, PeriodicRefresh,
     vars, cvars

\* No two lists ever have the same URL: see UniqueURLs.
THEOREM URLsUnique == Spec => []UniqueURLs
<1>1. Init => UniqueURLs
  <2> SUFFICES ASSUME Init PROVE UniqueURLs
    OBVIOUS
  <2>1. PICK conf \in [ID -> [url: URL, white: BOOLEAN, enabled: BOOLEAN, checksum: {Blank}]
                             \cup {None}] :
          /\ \A i, j \in ID : conf[i] # None /\ conf[j] # None /\ conf[i].url = conf[j].url => i = j
          /\ lists = loadFilters(conf, file)
    BY DEF Init
  <2>2. \A i \in Lists : i \in ID /\ conf[i] # None /\ lists[i].url = conf[i].url
    BY <2>1 DEF loadFilters, Lists
  <2> QED
    BY <2>1, <2>2 DEF UniqueURLs
<1> QED
  BY <1>1, TypeCorrect, UniqueStep, PTL DEF Spec

------------------------------------------------------------------------------
(***************************************************************************)
(* The inductive invariant for DisabledListsUnused: a change of the lists  *)
(* is on its way to the engine, in the hands of a handler, in the channel, *)
(* or in the hands of the updates loop, until the engine has it; and the   *)
(* tasks and the engine prepared under the read lock are up to date.       *)
(***************************************************************************)
Loaded(e) == {i \in ID : e.list[i] # None}

Busy == \E h \in Handler : hpc[h] \in {"enable", "enqueue"}

TasksCurrent == \A h \in Handler : hpc[h] = "enqueue" => hreq[h].task.on = Enabled

RefreshCurrent == rpc = "swap" => Loaded(rbuilt) \subseteq Enabled

OnTheWay ==
    \/ Busy
    \/ task # None /\ task.on \subseteq Enabled
    \/ task = None /\ lpc = "swap" /\ Loaded(lbuilt) \subseteq Enabled
    \/ task = None /\ lpc # "swap" /\ Loaded(engine) \subseteq Enabled

OwnerWaits ==
    rpc # "idle" => IF rowner = Loop THEN lpc = "refresh" ELSE hpc[rowner] = "refresh"

EngineInv == TasksCurrent /\ RefreshCurrent /\ OnTheWay /\ OwnerWaits

LEMMA EngineStep == TypeOK /\ EngineInv /\ [Next]_vars => EngineInv'
<1> SUFFICES ASSUME TypeOK, TypeOK', EngineInv, [Next]_vars PROVE EngineInv'
  BY TypeStep
<1> USE FilterListsAssumption
<1>a. lists' = lists => Enabled' = Enabled
  BY DEF Enabled, Lists
<1>1. ASSUME NEW u \in URL, SourceChanges(u) PROVE EngineInv'
  BY <1>a, <1>1 DEF SourceChanges, EngineInv, TasksCurrent, RefreshCurrent, OnTheWay,
     OwnerWaits, Busy, hvars, lvars, rvars
<1>2. ASSUME NEW h \in Handler, NEW u \in URL, NEW w \in BOOLEAN, AddCheck(h, u, w) PROVE EngineInv'
  BY <1>a, <1>2 DEF AddCheck, Serve, controlLockFree, EngineInv, TasksCurrent, RefreshCurrent, OnTheWay,
     OwnerWaits, Busy, cvars, lvars, rvars
<1>3. ASSUME NEW h \in Handler, AddDownload(h) PROVE EngineInv'
  BY <1>a, <1>3 DEF AddDownload, TypeOK, HandlersOK, LoopOK, RefreshOK, EngineInv,
     TasksCurrent, RefreshCurrent, OnTheWay, OwnerWaits, Busy, lvars, rvars, bvars
<1>4. ASSUME NEW h \in Handler, filterAdd(h) PROVE EngineInv'
  BY <1>a, <1>4 DEF filterAdd, NoReaders, TypeOK, HandlersOK, RefreshOK, EngineInv,
     TasksCurrent, RefreshCurrent, OnTheWay, OwnerWaits, Busy, lvars, rvars
<1>5. ASSUME NEW h \in Handler, NEW u \in URL, NEW w \in BOOLEAN, RemoveURL(h, u, w) PROVE EngineInv'
  BY <1>a, <1>5 DEF RemoveURL, Serve, controlLockFree, NoReaders, TypeOK, ConfOK, HandlersOK, LoopOK, RefreshOK,
     EngineInv, TasksCurrent, RefreshCurrent, OnTheWay, OwnerWaits, Busy, lvars, rvars
<1>6. ASSUME NEW h \in Handler, NEW u \in URL, NEW v \in URL, NEW w \in BOOLEAN, NEW e \in BOOLEAN, SetURL(h, u, w, v, e) PROVE EngineInv'
  <2>1. PICK i \in Lists :
          \/ hpc' = [hpc EXCEPT ![h] = "enable"]
          \/ /\ ~e /\ e = lists[i].enabled
             /\ lists' = [lists EXCEPT ![i] = Unloaded(lists[i], v, e)]
             /\ hpc' = [hpc EXCEPT ![h] = "idle"]
          \/ UNCHANGED <<lists, hpc>>
          \/ e /\ lists' = [lists EXCEPT ![i] = Unloaded(lists[i], v, e)] /\ UNCHANGED hpc
          \/ SetFailed(i, Unloaded(lists[i], v, e)) /\ UNCHANGED hpc
    BY <1>6 DEF SetURL, filterSetProperties, ShouldRestart
  <2>2. i \in ID /\ lists[i] \in List
    BY DEF Lists, TypeOK, ConfOK
  <2>3. /\ Unloaded(lists[i], v, e) # None /\ Unloaded(lists[i], v, e).enabled = e
        /\ [lists[i] EXCEPT !.checksum = Unloaded(lists[i], v, e).checksum] # None
        /\ [lists[i] EXCEPT !.checksum = Unloaded(lists[i], v, e).checksum].enabled
              = lists[i].enabled
    BY <2>2 DEF Unloaded, List, Content
  <2>4. \/ hpc' = [hpc EXCEPT ![h] = "enable"]
        \/ Enabled \subseteq Enabled' /\ hpc' \in {hpc, [hpc EXCEPT ![h] = "idle"]}
    BY <2>1, <2>2, <2>3 DEF SetFailed, Enabled, Lists, TypeOK, ConfOK
  <2>5. NoReaders /\ hpc[h] = "idle" /\ UNCHANGED <<engine, task, lvars, rvars>>
    BY <1>6 DEF SetURL, Serve, controlLockFree
  <2> QED
    BY <2>4, <2>5 DEF NoReaders, TypeOK, HandlersOK, RefreshOK, EngineInv, TasksCurrent,
       RefreshCurrent, OnTheWay, OwnerWaits, Busy, lvars, rvars
<1>7. ASSUME NEW h \in Handler, NEW r \in UserRules, SetRules(h, r) PROVE EngineInv'
  BY <1>a, <1>7 DEF SetRules, Serve, controlLockFree, TypeOK, ConfOK, HandlersOK, LoopOK, RefreshOK,
     EngineInv, TasksCurrent, RefreshCurrent, OnTheWay, OwnerWaits, Busy, cvars, hvars,
     lvars, rvars, bvars
<1>8. ASSUME NEW h \in Handler, NEW b \in BOOLEAN, SetConfig(h, b) PROVE EngineInv'
  BY <1>a, <1>8 DEF SetConfig, Serve, controlLockFree, TypeOK, ConfOK, HandlersOK, LoopOK, RefreshOK,
     EngineInv, TasksCurrent, RefreshCurrent, OnTheWay, OwnerWaits, Busy, cvars, hvars,
     lvars, rvars, bvars
<1>9. ASSUME NEW h \in Handler, EnableFilters(h) PROVE EngineInv'
  BY <1>a, <1>9 DEF EnableFilters, EnabledTask, TypeOK, ConfOK, HandlersOK, LoopOK,
     RefreshOK, EngineInv, TasksCurrent, RefreshCurrent, OnTheWay, OwnerWaits, Busy, cvars,
     hvars, lvars, rvars, bvars
<1>10. ASSUME NEW h \in Handler, setFilters(h) PROVE EngineInv'
  BY <1>a, <1>10 DEF setFilters, SendTask, TypeOK, ConfOK, HandlersOK, LoopOK, RefreshOK, EngineInv,
     TasksCurrent, RefreshCurrent, OnTheWay, OwnerWaits, Busy, cvars, hvars, lvars, rvars,
     bvars
<1>11. ASSUME LoopReceive PROVE EngineInv'
  BY <1>a, <1>11 DEF LoopReceive, newRuleStorage, Loaded, TypeOK, ConfOK, HandlersOK, LoopOK,
     RefreshOK, EngineInv, TasksCurrent, RefreshCurrent, OnTheWay, OwnerWaits, Busy, cvars,
     hvars, lvars, rvars, bvars
<1>12. ASSUME LoopSwap PROVE EngineInv'
  BY <1>a, <1>12 DEF LoopSwap, TypeOK, ConfOK, HandlersOK, LoopOK, RefreshOK, EngineInv,
     TasksCurrent, RefreshCurrent, OnTheWay, OwnerWaits, Busy, cvars, hvars, lvars, rvars,
     bvars
<1>13. ASSUME NEW h \in Handler, NEW w \in BOOLEAN, HandleRefresh(h, w) PROVE EngineInv'
  BY <1>a, <1>13 DEF HandleRefresh, RefreshStart, Serve, controlLockFree, TypeOK, ConfOK, HandlersOK, LoopOK,
     RefreshOK, EngineInv, TasksCurrent, RefreshCurrent, OnTheWay, OwnerWaits, Busy, cvars,
     hvars, lvars, rvars, bvars
<1>14. ASSUME PeriodicRefresh PROVE EngineInv'
  BY <1>a, <1>14 DEF PeriodicRefresh, RefreshStart, TypeOK, ConfOK, HandlersOK, LoopOK,
     RefreshOK, EngineInv, TasksCurrent, RefreshCurrent, OnTheWay, OwnerWaits, Busy, cvars,
     hvars, lvars, rvars, bvars
<1>15. ASSUME listsToUpdate PROVE EngineInv'
  BY <1>a, <1>15 DEF listsToUpdate, TypeOK, ConfOK, HandlersOK, LoopOK, RefreshOK, EngineInv,
     TasksCurrent, RefreshCurrent, OnTheWay, OwnerWaits, Busy, cvars, hvars, lvars, rvars,
     bvars
<1>16. ASSUME Download PROVE EngineInv'
  BY <1>a, <1>16 DEF Download, TypeOK, ConfOK, HandlersOK, LoopOK, RefreshOK, EngineInv,
     TasksCurrent, RefreshCurrent, OnTheWay, OwnerWaits, Busy, cvars, hvars, lvars, rvars,
     bvars
<1>17. ASSUME finalizeUpdate PROVE EngineInv'
  BY <1>a, <1>17 DEF finalizeUpdate, TypeOK, ConfOK, HandlersOK, LoopOK, RefreshOK,
     EngineInv, TasksCurrent, RefreshCurrent, OnTheWay, OwnerWaits, Busy, cvars, hvars,
     lvars, rvars, bvars
<1>18. ASSUME syncUpdatedFilters PROVE EngineInv'
  <2>1. SyncedIDs \subseteq Lists
    BY DEF SyncedIDs, Synced
  <2>2. ASSUME NEW i \in ID
        PROVE  i \in Enabled' <=> i \in Enabled
    <3>1. CASE lists'[i] = lists[i]
      BY <3>1 DEF Enabled, Lists
    <3>2. CASE i \in SyncedIDs /\ \E c \in Content : lists'[i] = [lists[i] EXCEPT !.checksum = c]
      <4>1. lists[i] \in List
        BY <2>1, <3>2 DEF Lists, TypeOK, ConfOK
      <4>2. lists'[i] # None /\ lists'[i].enabled = lists[i].enabled
        BY <3>2, <4>1 DEF List
      <4> QED
        BY <2>1, <3>2, <4>2 DEF Enabled, Lists
    <3> QED
      BY <1>18, <3>1, <3>2, SyncedChecksum DEF syncUpdatedFilters
  <2>3. Enabled' = Enabled
    BY <2>2 DEF Enabled, Lists
  <2> QED
    BY <1>18, <2>3 DEF syncUpdatedFilters, NextArray, NoReaders, TypeOK, RefreshOK, EngineInv,
       TasksCurrent, RefreshCurrent, OnTheWay, OwnerWaits, Busy, hvars, lvars
<1>19. ASSUME RefreshNothing PROVE EngineInv'
  BY <1>a, <1>19 DEF RefreshNothing, RefreshEnd, TypeOK, ConfOK, HandlersOK, LoopOK,
     RefreshOK, EngineInv, TasksCurrent, RefreshCurrent, OnTheWay, OwnerWaits, Busy, cvars,
     hvars, lvars, rvars, bvars
<1>20. ASSUME RefreshBuild PROVE EngineInv'
  BY <1>a, <1>20 DEF RefreshBuild, newRuleStorage, EnabledTask, Loaded, TypeOK, ConfOK,
     HandlersOK, LoopOK, RefreshOK, EngineInv, TasksCurrent, RefreshCurrent, OnTheWay,
     OwnerWaits, Busy, cvars, hvars, lvars, rvars, bvars
<1>21. ASSUME RefreshSwap PROVE EngineInv'
  BY <1>a, <1>21 DEF RefreshSwap, RefreshEnd, TypeOK, ConfOK, HandlersOK, LoopOK, RefreshOK,
     EngineInv, TasksCurrent, RefreshCurrent, OnTheWay, OwnerWaits, Busy, cvars, hvars,
     lvars, rvars, bvars
<1>22. CASE UNCHANGED vars
  BY <1>a, <1>22 DEF EngineInv, TasksCurrent, RefreshCurrent, OnTheWay, OwnerWaits, Busy,
     vars, cvars, hvars, lvars, rvars, bvars
<1>23. ASSUME NEW h \in Handler, Request(h) PROVE EngineInv'
  BY <1>2, <1>5, <1>6, <1>7, <1>8, <1>13, <1>23 DEF Request
<1>24. ASSUME NEW h \in Handler, HandlerStep(h) PROVE EngineInv'
  BY <1>3, <1>4, <1>9, <1>10, <1>24 DEF HandlerStep
<1>25. ASSUME RefreshStep PROVE EngineInv'
  BY <1>15, <1>16, <1>17, <1>18, <1>19, <1>20, <1>21, <1>25 DEF RefreshStep
<1> QED
  BY <1>1, <1>11, <1>12, <1>14, <1>22, <1>23, <1>24, <1>25 DEF Next

LEMMA EngineInvariant == Spec => []EngineInv
<1>1. Init => EngineInv
  <2> SUFFICES ASSUME Init PROVE EngineInv
    OBVIOUS
  <2>1. Loaded(engine) \subseteq Enabled
    BY DEF Init, newRuleStorage, EnabledTask, Loaded
  <2> QED
    BY <2>1 DEF Init, EngineInv, TasksCurrent, RefreshCurrent, OnTheWay, OwnerWaits
<1> QED
  BY <1>1, TypeCorrect, EngineStep, PTL DEF Spec

\* Once the changes are processed, the engine uses no list that has been
\* removed or disabled: see DisabledListsUnused.
THEOREM EngineSettles == Spec => []DisabledListsUnused
<1>1. TypeOK /\ EngineInv => DisabledListsUnused
  BY DEF EngineInv, OnTheWay, Busy, Loaded, DisabledListsUnused, Settled
<1> QED
  BY <1>1, TypeCorrect, EngineInvariant, PTL

------------------------------------------------------------------------------
(***************************************************************************)
(* The inductive invariant for UserRulesApplied.  Only a handler that      *)
(* holds controlLock assigns the user rules, so a handler's own task, and  *)
(* an engine it builds in a refresh, have the current ones; the engine of  *)
(* a periodic refresh may have older ones, and then the task with the new  *)
(* ones waits for the loop, which is busy with that refresh.               *)
(***************************************************************************)
UserTasks == \A h \in Handler : hpc[h] = "enqueue" => hreq[h].task.user = userRules

UserRefresh ==
    rpc = "swap" =>
        \/ rbuilt.user = userRules
        \/ rowner = Loop /\ (Busy \/ task # None)

UserOnTheWay ==
    \/ Busy
    \/ task # None /\ task.user = userRules
    \/ task = None /\ lpc = "swap" /\ lbuilt.user = userRules
    \/ task = None /\ lpc # "swap" /\ engine.user = userRules

UserInv == UserTasks /\ UserRefresh /\ UserOnTheWay

LEMMA UserStep == TypeOK /\ EngineInv /\ UserInv /\ [Next]_vars => UserInv'
<1> SUFFICES ASSUME TypeOK, EngineInv, UserInv, [Next]_vars PROVE UserInv'
  OBVIOUS
<1> USE FilterListsAssumption DEF EngineInv, OwnerWaits, UserInv, UserTasks, UserRefresh,
      UserOnTheWay, Busy
<1>1. ASSUME NEW u \in URL, SourceChanges(u) PROVE UserInv'
  BY <1>1 DEF SourceChanges, hvars, lvars, rvars
<1>2. ASSUME NEW h \in Handler, NEW u \in URL, NEW w \in BOOLEAN, AddCheck(h, u, w) PROVE UserInv'
  BY <1>2 DEF AddCheck, Serve, controlLockFree, TypeOK, HandlersOK, cvars, lvars, rvars
<1>3. ASSUME NEW h \in Handler, AddDownload(h) PROVE UserInv'
  BY <1>3 DEF AddDownload, TypeOK, HandlersOK, lvars, rvars
<1>4. ASSUME NEW h \in Handler, filterAdd(h) PROVE UserInv'
  BY <1>4 DEF filterAdd, TypeOK, HandlersOK, lvars, rvars
<1>5. ASSUME NEW h \in Handler, NEW u \in URL, NEW w \in BOOLEAN, RemoveURL(h, u, w) PROVE UserInv'
  BY <1>5 DEF RemoveURL, Serve, controlLockFree, TypeOK, HandlersOK, lvars, rvars
<1>6. ASSUME NEW h \in Handler, NEW u \in URL, NEW v \in URL, NEW w \in BOOLEAN, NEW e \in BOOLEAN,
             SetURL(h, u, w, v, e) PROVE UserInv'
  <2>1. \/ hpc' = [hpc EXCEPT ![h] = "enable"]
        \/ hpc' = [hpc EXCEPT ![h] = "idle"]
        \/ hpc' = hpc
    BY <1>6, Zenon DEF SetURL, filterSetProperties
  <2>2. controlLockFree /\ UNCHANGED <<userRules, engine, task, hreq, lvars, rvars>>
    BY <1>6 DEF SetURL, Serve
  <2> QED
    BY <2>1, <2>2 DEF controlLockFree, TypeOK, HandlersOK, lvars, rvars
<1>7. ASSUME NEW h \in Handler, NEW r \in UserRules, SetRules(h, r) PROVE UserInv'
  BY <1>7 DEF SetRules, Serve, controlLockFree, TypeOK, HandlersOK, RefreshOK, lvars, rvars
<1>8. ASSUME NEW h \in Handler, NEW b \in BOOLEAN, SetConfig(h, b) PROVE UserInv'
  BY <1>8 DEF SetConfig, Serve, controlLockFree, TypeOK, HandlersOK, lvars, rvars
<1>9. ASSUME NEW h \in Handler, EnableFilters(h) PROVE UserInv'
  BY <1>9 DEF EnableFilters, EnabledTask, TypeOK, HandlersOK, cvars, lvars, rvars
<1>10. ASSUME NEW h \in Handler, setFilters(h) PROVE UserInv'
  BY <1>10 DEF setFilters, SendTask, TypeOK, HandlersOK, lvars, rvars
<1>11. ASSUME LoopReceive PROVE UserInv'
  BY <1>11 DEF LoopReceive, newRuleStorage, hvars, rvars
<1>12. ASSUME LoopSwap PROVE UserInv'
  BY <1>12 DEF LoopSwap, hvars, rvars
<1>13. ASSUME NEW h \in Handler, NEW w \in BOOLEAN, HandleRefresh(h, w) PROVE UserInv'
  BY <1>13 DEF HandleRefresh, RefreshStart, Serve, controlLockFree, TypeOK, HandlersOK, cvars, lvars
<1>14. ASSUME PeriodicRefresh PROVE UserInv'
  BY <1>14 DEF PeriodicRefresh, RefreshStart, cvars, hvars
<1>15. ASSUME listsToUpdate PROVE UserInv'
  BY <1>15 DEF listsToUpdate, cvars, hvars, lvars
<1>16. ASSUME Download PROVE UserInv'
  BY <1>16 DEF Download, cvars, hvars, lvars
<1>17. ASSUME finalizeUpdate PROVE UserInv'
  BY <1>17 DEF finalizeUpdate, hvars, lvars
<1>18. ASSUME syncUpdatedFilters PROVE UserInv'
  BY <1>18 DEF syncUpdatedFilters, NextArray, hvars, lvars
<1>19. ASSUME RefreshNothing PROVE UserInv'
  BY <1>19 DEF RefreshNothing, RefreshEnd, TypeOK, HandlersOK, RefreshOK, cvars
<1>20. ASSUME RefreshBuild PROVE UserInv'
  BY <1>20 DEF RefreshBuild, newRuleStorage, EnabledTask, cvars, hvars, lvars
<1>21. ASSUME RefreshSwap PROVE UserInv'
  BY <1>21 DEF RefreshSwap, RefreshEnd, TypeOK, HandlersOK, RefreshOK
<1>22. CASE UNCHANGED vars
  BY <1>22 DEF vars, cvars, hvars, lvars, rvars
<1>23. ASSUME NEW h \in Handler, Request(h) PROVE UserInv'
  BY <1>2, <1>5, <1>6, <1>7, <1>8, <1>13, <1>23 DEF Request
<1>24. ASSUME NEW h \in Handler, HandlerStep(h) PROVE UserInv'
  BY <1>3, <1>4, <1>9, <1>10, <1>24 DEF HandlerStep
<1>25. ASSUME RefreshStep PROVE UserInv'
  BY <1>15, <1>16, <1>17, <1>18, <1>19, <1>20, <1>21, <1>25 DEF RefreshStep
<1> QED
  BY <1>1, <1>11, <1>12, <1>14, <1>22, <1>23, <1>24, <1>25 DEF Next

\* Once the changes are processed, the custom rules in use are the ones last
\* set: see UserRulesApplied.
THEOREM UserRulesSettle == Spec => []UserRulesApplied
<1>1. Init => UserInv
  BY DEF Init, newRuleStorage, EnabledTask, UserInv, UserTasks, UserRefresh, UserOnTheWay
<1>2. UserInv => UserRulesApplied
  BY DEF UserInv, UserOnTheWay, Busy, UserRulesApplied, Settled
<1> QED
  BY <1>1, <1>2, TypeCorrect, EngineInvariant, UserStep, PTL DEF Spec

------------------------------------------------------------------------------
(***************************************************************************)
(* The inductive invariant for ChecksumSound.  A refresh works on copies   *)
(* of the lists: as long as nobody changes a list whose copy it holds, the *)
(* copy has the URL of the list, and a checksum that describes the file,   *)
(* which is also the one of the list until the file is replaced.  The IDs  *)
(* of the copies are never given to other lists.  When all updates have    *)
(* failed no file was replaced, so the checksums need not be copied back.  *)
(***************************************************************************)
Pending == rtodo \cup (IF rcur = None THEN {} ELSE {rcur.job})

\* The lists the properties of which no one changed during a refresh.
Calm == Lists \ raced

Matches(i) == lists[i].checksum # Blank => file[i] = lists[i].checksum

FreshIDs ==
    /\ \A i \in Lists \cup InFlight : i <= lastID
    /\ \A h \in Handler : hpc[h] = "append" =>
          /\ hreq[h].id <= lastID
          /\ hreq[h].id \notin Lists \cup InFlight
          /\ file[hreq[h].id] = hreq[h].content
    /\ \A g, h \in Handler :
          hpc[g] = "append" /\ hpc[h] = "append" /\ hreq[g].id = hreq[h].id => g = h

Phases ==
    /\ rcur # None => rpc = "finalize"
    /\ rpc \notin {"update", "finalize"} => rtodo = {} /\ rdone = {} /\ rfail = 0

\* There is one copy of a list.
OneJob ==
    /\ \A j, k \in Pending \cup rdone : j.id = k.id => j = k
    /\ rtodo \cap rdone = {}
    /\ rcur # None => rcur.job \notin rtodo \cup rdone
    /\ \A j \in Pending : ~j.updated

JobsSound ==
    \A j \in Pending \cup rdone : j.id \in Calm =>
        /\ lists[j.id].url = j.url /\ lists[j.id].white = rwhite
        /\ j.checksum # Blank => file[j.id] = j.checksum
        /\ ~j.updated => lists[j.id].checksum = j.checksum

\* The updates counted in failNum left the file as it was.
Failures ==
    /\ IsFiniteSet(rdone)
    /\ \E F \in SUBSET rdone :
          /\ Cardinality(F) = rfail
          /\ \A j \in F : j.id \in Calm => Matches(j.id)

ChecksumInv ==
    ChecksumSound /\ FreshIDs /\ Phases /\ OneJob /\ JobsSound /\ Failures

LEMMA InFlightJobs == InFlight = {j.id : j \in Pending \cup rdone}
BY DEF InFlight, Pending

\* A step that leaves the lists, their files and the copies alone.
LEMMA ChecksumQuiet ==
    ASSUME ChecksumInv, Phases',
           UNCHANGED <<lists, file, lastID, raced, rtodo, rcur, rdone, rfail>>,
           rwhite' = rwhite \/ Pending \cup rdone = {},
           \A h \in Handler : hpc'[h] = "append" => hpc[h] = "append" /\ hreq'[h] = hreq[h]
    PROVE  ChecksumInv'
<1> USE DEF ChecksumInv
<1>1. /\ Lists' = Lists /\ InFlight' = InFlight /\ Pending' = Pending /\ Calm' = Calm
      /\ \A i : Matches(i)' <=> Matches(i)
  BY DEF Lists, InFlight, Pending, Calm, Matches
<1>2. ChecksumSound' /\ FreshIDs'
  BY <1>1 DEF ChecksumSound, FreshIDs
<1>3. OneJob' /\ JobsSound'
  BY <1>1 DEF OneJob, JobsSound
<1>4. Failures'
  BY <1>1 DEF Failures
<1> QED
  BY <1>2, <1>3, <1>4

\* The lists are changed outside the refresh: the lists that stay calm are
\* as they were or, if the refresh holds no copy of them, sound.
LEMMA ChecksumChange ==
    ASSUME ChecksumInv, FreshIDs', rvars' = rvars,
           \A i \in Calm' \cap InFlight :
              i \in Calm /\ lists'[i] = lists[i] /\ file'[i] = file[i],
           \A i \in Calm' \ InFlight :
              lists'[i].checksum # Blank => file'[i] = lists'[i].checksum
    PROVE  ChecksumInv'
<1> USE DEF ChecksumInv
<1>1. /\ InFlight' = InFlight /\ Pending' = Pending
      /\ UNCHANGED <<rpc, rtodo, rcur, rdone, rfail, rwhite>>
  BY DEF InFlight, Pending, rvars
<1>2. ChecksumSound'
  BY <1>1 DEF ChecksumSound, Calm
<1>3. Phases' /\ OneJob'
  BY <1>1 DEF Phases, OneJob
<1>4. \A j \in Pending \cup rdone : j.id \in InFlight
  BY InFlightJobs
<1>5. JobsSound'
  BY <1>1, <1>4 DEF JobsSound
<1>6. Failures'
  <2>1. PICK F \in SUBSET rdone :
          Cardinality(F) = rfail /\ \A j \in F : j.id \in Calm => Matches(j.id)
    BY DEF Failures
  <2>2. ASSUME NEW j \in F, j.id \in Calm' PROVE Matches(j.id)'
    BY <1>4, <2>1, <2>2 DEF Matches
  <2>3. /\ IsFiniteSet(rdone') /\ F \in SUBSET rdone'
        /\ Cardinality(F) = rfail' /\ \A j \in F : j.id \in Calm' => Matches(j.id)'
    BY <1>1, <2>1, <2>2 DEF Failures
  <2> QED
    BY <2>3 DEF Failures
<1> QED
  BY <1>2, <1>3, <1>5, <1>6

LEMMA ChecksumRequests ==
    ASSUME TypeOK, TypeOK', ChecksumInv, NEW h \in Handler, Request(h) \/ HandlerStep(h)
    PROVE  ChecksumInv'
<1> USE FilterListsAssumption
<1>1. ASSUME NEW u \in URL, NEW w \in BOOLEAN, AddCheck(h, u, w) PROVE ChecksumInv'
  <2>1. Phases'
    BY <1>1 DEF AddCheck, Phases, ChecksumInv, rvars
  <2>2. \A g \in Handler : hpc'[g] = "append" => hpc[g] = "append" /\ hreq'[g] = hreq[g]
    BY <1>1 DEF AddCheck, TypeOK, HandlersOK
  <2> QED
    BY <1>1, <2>1, <2>2, ChecksumQuiet DEF AddCheck, cvars, rvars
<1>2. ASSUME NEW u \in URL, NEW w \in BOOLEAN, RemoveURL(h, u, w) PROVE ChecksumInv'
  <2>1. /\ Lists' \subseteq Lists /\ InFlight' = InFlight /\ lastID' = lastID
        /\ \A i \in Lists' : lists'[i] = lists[i] /\ file'[i] = file[i]
        /\ \A i \in ID \ Lists : file'[i] = file[i]
    BY <1>2 DEF RemoveURL, Lists, InFlight, rvars
  <2>2. \A g \in Handler : hpc'[g] = "append" =>
            hpc[g] = "append" /\ hreq'[g] = hreq[g] /\ hreq[g].id \in ID
    BY <1>2 DEF RemoveURL, TypeOK, HandlersOK
  <2>3. FreshIDs'
    BY <2>1, <2>2 DEF FreshIDs, ChecksumInv
  <2>4. Calm' \subseteq Calm /\ rvars' = rvars
    BY <1>2, <2>1 DEF RemoveURL, Calm
  <2> QED
    BY <2>1, <2>3, <2>4, ChecksumChange DEF ChecksumInv, ChecksumSound, Calm
<1>3. ASSUME NEW u \in URL, NEW v \in URL, NEW w \in BOOLEAN, NEW e \in BOOLEAN,
             SetURL(h, u, w, v, e)
      PROVE  ChecksumInv'
  <2> DEFINE l(i) == Unloaded(lists[i], v, e)
  <2>1. PICK i \in Lists :
          /\ \/ lists' = [lists EXCEPT ![i] = l(i)] /\ UNCHANGED file
             \/ UNCHANGED <<lists, file>>
             \/ source[v] # None /\ SetUpdated(i, l(i), source[v])
             \/ SetFailed(i, l(i))
          /\ raced' = IF i \in InFlight /\ (lists' # lists \/ file' # file)
                      THEN raced \cup {i} ELSE raced
    BY <1>3 DEF SetURL, filterSetProperties
  <2>2. i \in ID /\ lists[i] \in List
    BY DEF Lists, TypeOK, ConfOK
  <2>3. l(i) \in List /\ l(i).checksum \in {Blank, lists[i].checksum}
    BY <2>2 DEF Unloaded, List, Content
  <2>4. /\ \A j \in ID \ {i} : lists'[j] = lists[j] /\ file'[j] = file[j]
        /\ lists'[i] # None
        /\ \/ lists'[i].checksum = Blank
           \/ lists'[i].checksum = lists[i].checksum /\ file'[i] = file[i]
           \/ lists'[i].checksum = file'[i]
    <3>1. CASE lists' = [lists EXCEPT ![i] = l(i)] /\ UNCHANGED file
      BY <2>2, <2>3, <3>1 DEF TypeOK, ConfOK
    <3>2. CASE UNCHANGED <<lists, file>>
      BY <2>2, <3>2
    <3>3. CASE source[v] # None /\ SetUpdated(i, l(i), source[v])
      <4>1. /\ [l(i) EXCEPT !.checksum = source[v]] \in List
            /\ [l(i) EXCEPT !.checksum = source[v]].checksum = source[v]
        BY <2>3, <3>3 DEF List, TypeOK, ConfOK
      <4> QED
        BY <2>2, <3>3, <4>1 DEF SetUpdated, TypeOK, ConfOK
    <3>4. CASE SetFailed(i, l(i))
      <4>1. /\ [lists[i] EXCEPT !.checksum = l(i).checksum] \in List
            /\ [lists[i] EXCEPT !.checksum = l(i).checksum].checksum = l(i).checksum
        BY <2>2, <2>3 DEF List
      <4> QED
        BY <2>2, <2>3, <3>4, <4>1 DEF SetFailed, TypeOK, ConfOK
    <3> QED
      BY <2>1, <3>1, <3>2, <3>3, <3>4
  <2> HIDE DEF l
  <2>5. Lists' = Lists
    BY <2>2, <2>4 DEF Lists
  <2>6. InFlight' = InFlight /\ lastID' = lastID /\ rvars' = rvars
    BY <1>3 DEF SetURL, InFlight, rvars
  <2>7. \A g \in Handler : hpc'[g] = "append" =>
            hpc[g] = "append" /\ hreq'[g] = hreq[g] /\ hreq[g].id \in ID
    <3>1. hpc' \in {[hpc EXCEPT ![h] = "enable"], [hpc EXCEPT ![h] = "idle"], hpc}
      BY <1>3 DEF SetURL, filterSetProperties
    <3> QED
      BY <1>3, <3>1 DEF SetURL, TypeOK, HandlersOK
  <2>8. FreshIDs'
    BY <2>2, <2>4, <2>5, <2>6, <2>7 DEF FreshIDs, ChecksumInv
  <2>9. Calm' \subseteq Calm /\ (i \in Calm' \cap InFlight => UNCHANGED <<lists, file>>)
    BY <2>1, <2>5 DEF Calm
  <2>10. \A j \in Calm' \cap InFlight :
            j \in Calm /\ lists'[j] = lists[j] /\ file'[j] = file[j]
    BY <2>4, <2>9 DEF Calm, Lists
  <2>11. \A j \in Calm' \ InFlight :
            lists'[j].checksum # Blank => file'[j] = lists'[j].checksum
    BY <2>2, <2>4, <2>9 DEF ChecksumInv, ChecksumSound, Calm, Lists
  <2> QED
    BY <2>6, <2>8, <2>10, <2>11, ChecksumChange
<1>4. ASSUME NEW r \in UserRules, SetRules(h, r) PROVE ChecksumInv'
  BY <1>4, ChecksumQuiet DEF SetRules, TypeOK, HandlersOK, ChecksumInv, Phases, rvars
<1>5. ASSUME NEW b \in BOOLEAN, SetConfig(h, b) PROVE ChecksumInv'
  BY <1>5, ChecksumQuiet DEF SetConfig, TypeOK, HandlersOK, ChecksumInv, Phases, rvars
<1>6. ASSUME NEW w \in BOOLEAN, HandleRefresh(h, w) PROVE ChecksumInv'
  <2>1. rpc = "idle" /\ Pending \cup rdone = {} /\ Phases'
    BY <1>6 DEF HandleRefresh, RefreshStart, ChecksumInv, Phases, Pending
  <2>2. \A g \in Handler : hpc'[g] = "append" => hpc[g] = "append" /\ hreq'[g] = hreq[g]
    BY <1>6 DEF HandleRefresh, TypeOK, HandlersOK
  <2> QED
    BY <1>6, <2>1, <2>2, ChecksumQuiet DEF HandleRefresh, RefreshStart, cvars
<1>7. ASSUME AddDownload(h) PROVE ChecksumInv'
  <2> DEFINE id == lastID + 1
  <2>1. /\ id \in ID /\ lastID \in Nat /\ lastID' = id
        /\ UNCHANGED <<lists, raced, rvars>>
    BY <1>7 DEF AddDownload, TypeOK, ConfOK, ID, bvars
  <2>2. Lists' = Lists /\ InFlight' = InFlight /\ Calm' = Calm
    BY <2>1 DEF Lists, InFlight, Calm, rvars
  <2>3. \A i \in ID : i <= lastID => i # id
    BY <2>1 DEF ID
  <2>4. id \notin Lists \cup InFlight
    BY <2>1 DEF ChecksumInv, FreshIDs
  <2>5. \A i \in ID : i <= lastID => i <= id
    BY <2>1 DEF ID
  <2>6. \A j \in Pending \cup rdone : j.id \in ID
    BY DEF Pending, TypeOK, RefreshOK, Job
  <2>7. Lists \cup InFlight \subseteq ID
    BY <2>6, InFlightJobs DEF Lists
  <2>8. \A i \in ID \ {id} : file'[i] = file[i]
    BY <1>7, <2>1 DEF AddDownload, TypeOK, ConfOK
  <2>9. \A g \in Handler : hpc'[g] = "append" =>
          \/ hpc[g] = "append" /\ hreq'[g] = hreq[g] /\ hreq[g].id \in ID
          \/ g = h /\ hreq'[g].id = id /\ file'[id] = hreq'[g].content
    BY <1>7, <2>1 DEF AddDownload, TypeOK, ConfOK, HandlersOK
  <2> HIDE DEF id
  <2>10. \A i \in Lists' \cup InFlight' : i <= lastID'
    BY <2>1, <2>2, <2>5, <2>7 DEF ChecksumInv, FreshIDs
  <2>11. ASSUME NEW g \in Handler, hpc'[g] = "append"
         PROVE  /\ hreq'[g].id <= lastID'
                /\ hreq'[g].id \notin Lists' \cup InFlight'
                /\ file'[hreq'[g].id] = hreq'[g].content
    <3>1. CASE hpc[g] = "append" /\ hreq'[g] = hreq[g] /\ hreq[g].id \in ID
      BY <2>1, <2>2, <2>3, <2>5, <2>8, <3>1 DEF ChecksumInv, FreshIDs
    <3>2. CASE hreq'[g].id = id /\ file'[id] = hreq'[g].content
      BY <2>1, <2>2, <2>4, <3>2 DEF ID
    <3> QED
      BY <2>9, <2>11, <3>1, <3>2
  <2>12. FreshIDs'
    BY <2>3, <2>9, <2>10, <2>11 DEF ChecksumInv, FreshIDs
  <2>13. \A i \in Calm' : lists'[i] = lists[i] /\ file'[i] = file[i]
    BY <2>1, <2>2, <2>4, <2>7, <2>8 DEF Calm
  <2> QED
    BY <2>1, <2>2, <2>12, <2>13, ChecksumChange DEF ChecksumInv, ChecksumSound, Calm
<1>8. ASSUME filterAdd(h) PROVE ChecksumInv'
  <2> DEFINE id == hreq[h].id
             new == [url |-> hreq[h].url, white |-> hreq[h].white,
                     enabled |-> TRUE, checksum |-> hreq[h].content]
  <2>1. /\ id \in ID /\ id <= lastID /\ id \notin Lists \cup InFlight
        /\ file[id] = hreq[h].content /\ hpc[h] = "append"
    BY <1>8 DEF filterAdd, TypeOK, HandlersOK, ChecksumInv, FreshIDs
  <2>2. /\ \A i \in ID \ {id} : lists'[i] = lists[i]
        /\ lists' = lists \/ lists'[id] = new
        /\ UNCHANGED <<file, lastID, raced, rvars>>
    BY <1>8, <2>1 DEF filterAdd, TypeOK, ConfOK, bvars
  <2>3. new.checksum = file[id]
    BY <2>1
  <2> HIDE DEF new
  <2>4. Lists' \subseteq Lists \cup {id} /\ InFlight' = InFlight
    BY <2>2 DEF Lists, InFlight, rvars
  <2>5. \A g \in Handler : hpc'[g] = "append" =>
            g # h /\ hpc[g] = "append" /\ hreq'[g] = hreq[g]
    BY <1>8 DEF filterAdd, TypeOK, HandlersOK
  <2>6. \A g \in Handler \ {h} : hpc[g] = "append" => hreq[g].id # id
    BY <2>1 DEF ChecksumInv, FreshIDs
  <2> HIDE DEF id
  <2>7. FreshIDs'
    BY <2>1, <2>2, <2>4, <2>5, <2>6 DEF ChecksumInv, FreshIDs
  <2>8. \A i \in Calm' \cap InFlight :
            i \in Calm /\ lists'[i] = lists[i] /\ file'[i] = file[i]
    BY <2>1, <2>2, <2>4 DEF Calm, Lists
  <2>9. \A i \in Calm' \ InFlight :
            lists'[i].checksum # Blank => file'[i] = lists'[i].checksum
    BY <2>1, <2>2, <2>3, <2>4 DEF ChecksumInv, ChecksumSound, Calm, Lists
  <2> QED
    BY <2>2, <2>7, <2>8, <2>9, ChecksumChange
<1>9. ASSUME EnableFilters(h) PROVE ChecksumInv'
  BY <1>9, ChecksumQuiet DEF EnableFilters, TypeOK, HandlersOK, ChecksumInv, Phases, cvars,
     rvars, bvars
<1>10. ASSUME setFilters(h) PROVE ChecksumInv'
  BY <1>10, ChecksumQuiet DEF setFilters, TypeOK, HandlersOK, ChecksumInv, Phases, rvars, bvars
<1> QED
  BY <1>1, <1>2, <1>3, <1>4, <1>5, <1>6, <1>7, <1>8, <1>9, <1>10 DEF Request, HandlerStep

\* listsToUpdate makes one copy of each list.
LEMMA ChecksumList ==
    ASSUME TypeOK, ChecksumInv, listsToUpdate
    PROVE  ChecksumInv'
<1> USE FilterListsAssumption DEF ChecksumInv
<1>1. /\ rpc = "list" /\ rpc' = "update" /\ rdone = {} /\ rcur = None /\ rfail = 0
      /\ UNCHANGED <<lists, file, lastID, raced, hpc, hreq, rdone, rcur, rfail, rwhite>>
  BY DEF listsToUpdate, Phases, cvars, hvars, bvars
<1>2. PICK due \in SUBSET {i \in Enabled : lists[i].white = rwhite} :
        rtodo' = {[id |-> i, url |-> lists[i].url,
                   checksum |-> lists[i].checksum, updated |-> FALSE] : i \in due}
  BY DEF listsToUpdate
<1>3. /\ Pending' = rtodo' /\ Pending \cup rdone = {} /\ InFlight = {}
      /\ Lists' = Lists /\ Calm' = Calm
  BY <1>1 DEF Pending, Phases, InFlight, Lists, Calm
<1>4. \A j \in rtodo' :
        /\ j.id \in due /\ j.url = lists[j.id].url /\ j.checksum = lists[j.id].checksum
        /\ ~j.updated /\ lists[j.id].white = rwhite
        /\ j = [id |-> j.id, url |-> lists[j.id].url,
                checksum |-> lists[j.id].checksum, updated |-> FALSE]
  BY <1>2
<1>5. due \subseteq Lists
  BY <1>2 DEF Enabled
<1>6. InFlight' \subseteq Lists
  <2>1. InFlight' = {j.id : j \in rtodo'}
    BY <1>1 DEF InFlight
  <2> QED
    BY <1>4, <1>5, <2>1
<1>7. FreshIDs'
  BY <1>1, <1>3, <1>6 DEF FreshIDs
<1>8. ChecksumSound'
  BY <1>1, <1>3 DEF ChecksumSound
<1>9. Phases'
  BY <1>1 DEF Phases
<1>10. OneJob'
  <2>1. \A j, k \in rtodo' : j.id = k.id => j = k
    BY <1>4, Zenon
  <2> QED
    BY <1>1, <1>3, <1>4, <2>1 DEF OneJob
<1>11. JobsSound'
  BY <1>1, <1>3, <1>4 DEF JobsSound, ChecksumSound, Calm
<1>12. Failures'
  <2>1. IsFiniteSet({}) /\ Cardinality({}) = 0
    BY FS_EmptySet
  <2>2. IsFiniteSet(rdone') /\ {} \in SUBSET rdone' /\ Cardinality({}) = rfail'
    BY <1>1, <2>1
  <2> QED
    BY <2>2 DEF Failures
<1> QED
  BY <1>7, <1>8, <1>9, <1>10, <1>11, <1>12

LEMMA ChecksumDownload ==
    ASSUME TypeOK, ChecksumInv, Download
    PROVE  ChecksumInv'
<1> USE FilterListsAssumption DEF ChecksumInv
<1>1. /\ rpc = "update" /\ rpc' = "finalize" /\ rcur = None
      /\ UNCHANGED <<lists, file, lastID, raced, hpc, hreq, rdone, rfail, rwhite>>
  BY DEF Download, Phases, cvars, hvars, bvars
<1>2. PICK j \in rtodo : /\ rtodo' = rtodo \ {j}
                         /\ rcur' = [job |-> j, content |-> source[j.url]]
  BY DEF Download
<1>3. rcur' # None /\ rcur'.job = j
  BY <1>2 DEF TypeOK, RefreshOK, ConfOK, Job
<1>4. /\ Pending = rtodo /\ Pending' = rtodo
      /\ Lists' = Lists /\ Calm' = Calm /\ \A i : Matches(i)' <=> Matches(i)
  BY <1>1, <1>2, <1>3 DEF Pending, Lists, Calm, Matches
<1>5. InFlight' = InFlight
  <2>1. InFlight' = {k.id : k \in Pending' \cup rdone'}
    BY DEF InFlight, Pending
  <2> QED
    BY <1>1, <1>4, <2>1, InFlightJobs
<1>6. FreshIDs' /\ ChecksumSound'
  BY <1>1, <1>4, <1>5 DEF FreshIDs, ChecksumSound
<1>7. Phases'
  BY <1>1 DEF Phases
<1>8. OneJob'
  BY <1>1, <1>2, <1>3, <1>4 DEF OneJob
<1>9. JobsSound'
  BY <1>1, <1>4 DEF JobsSound
<1>10. Failures'
  BY <1>1, <1>4 DEF Failures
<1> QED
  BY <1>6, <1>7, <1>8, <1>9, <1>10

\* A copy that goes through update is the only one of its list, and so the
\* number of failed updates counts copies.
LEMMA ChecksumFinalize ==
    ASSUME TypeOK, ChecksumInv, finalizeUpdate
    PROVE  ChecksumInv'
<1> USE FilterListsAssumption DEF ChecksumInv
<1> DEFINE j == rcur.job
           c == rcur.content
<1>1. /\ rpc' = "update" /\ rcur # None /\ rcur' = None
      /\ UNCHANGED <<lists, lastID, raced, hpc, hreq, rtodo, rwhite>>
      /\ Lists' = Lists /\ Calm' = Calm
      /\ j \in Job /\ c \in Content \cup {None}
  BY DEF finalizeUpdate, TypeOK, RefreshOK, hvars, bvars, Lists, Calm
<1>2. /\ Pending = rtodo \cup {j} /\ Pending' = rtodo
      /\ j \notin rtodo \cup rdone /\ ~j.updated
      /\ \A k \in rtodo \cup rdone : k.id # j.id
  BY <1>1 DEF Pending, OneJob
<1>3. PICK k : /\ rdone' = rdone \cup {k}
               /\ k.id = j.id /\ k.url = j.url
               /\ \/ /\ k = j /\ file' = file
                     /\ rfail' = rfail \/ rfail' = rfail + 1
                  \/ /\ k.checksum = c /\ k.updated /\ c # None
                     /\ file' = [file EXCEPT ![j.id] = c] /\ rfail' = rfail
                  \/ /\ k.checksum = j.checksum /\ k.updated
                     /\ file' = file /\ rfail' = rfail + 1
  <2>1. CASE /\ rdone' = rdone \cup {j} /\ UNCHANGED file
             /\ rfail' = rfail \/ rfail' = rfail + 1
    BY <2>1
  <2>2. CASE /\ c # None /\ c # j.checksum
             /\ file' = [file EXCEPT ![j.id] = c]
             /\ rdone' = rdone \cup {[j EXCEPT !.checksum = c, !.updated = TRUE]}
             /\ UNCHANGED rfail
    <3>1. /\ [j EXCEPT !.checksum = c, !.updated = TRUE].id = j.id
          /\ [j EXCEPT !.checksum = c, !.updated = TRUE].url = j.url
          /\ [j EXCEPT !.checksum = c, !.updated = TRUE].checksum = c
          /\ [j EXCEPT !.checksum = c, !.updated = TRUE].updated
      BY <1>1 DEF Job
    <3> QED
      BY <2>2, <3>1
  <2>3. CASE /\ rdone' = rdone \cup {ReplaceFailed(j, c)}
             /\ rfail' = rfail + 1
             /\ UNCHANGED file
    <3>1. /\ ReplaceFailed(j, c).id = j.id /\ ReplaceFailed(j, c).url = j.url
          /\ ReplaceFailed(j, c).checksum = j.checksum /\ ReplaceFailed(j, c).updated
      BY <1>1 DEF ReplaceFailed, Job
    <3> QED
      BY <2>3, <3>1
  <2> QED
    BY <2>1, <2>2, <2>3 DEF finalizeUpdate
<1>4. /\ j.id \in ID /\ j.id \in InFlight
      /\ \A i \in ID \ {j.id} : file'[i] = file[i]
  BY <1>1, <1>2, <1>3, InFlightJobs DEF Job, TypeOK, ConfOK
<1>5. InFlight' = InFlight
  <2>1. InFlight' = {m.id : m \in Pending' \cup rdone'}
    BY DEF InFlight, Pending
  <2> QED
    BY <1>2, <1>3, <2>1, InFlightJobs
<1>6. FreshIDs'
  <2>1. \A h \in Handler : hpc[h] = "append" => hreq[h].id \in ID
    BY DEF TypeOK, HandlersOK
  <2> QED
    BY <1>1, <1>4, <1>5, <2>1 DEF FreshIDs
<1>7. ChecksumSound'
  BY <1>1, <1>4, <1>5 DEF ChecksumSound, Lists
<1>8. Phases'
  BY <1>1 DEF Phases
<1> HIDE DEF j, c
<1>9. OneJob'
  BY <1>1, <1>2, <1>3 DEF OneJob
<1>10. JobsSound'
  <2>1. ASSUME NEW m \in Pending' \cup rdone', m.id \in Calm'
        PROVE  /\ lists'[m.id].url = m.url /\ lists'[m.id].white = rwhite'
               /\ m.checksum # Blank => file'[m.id] = m.checksum
               /\ ~m.updated => lists'[m.id].checksum = m.checksum
    <3>1. CASE m = k
      BY <1>1, <1>2, <1>3, <1>4, <2>1, <3>1 DEF JobsSound, TypeOK, ConfOK
    <3>2. CASE m \in rtodo \cup rdone
      BY <1>1, <1>2, <1>4, <2>1, <3>2 DEF JobsSound, Calm, Lists
    <3> QED
      BY <1>2, <1>3, <3>1, <3>2
  <2> QED
    BY <2>1 DEF JobsSound
<1>11. Failures'
  <2>1. PICK F \in SUBSET rdone :
          Cardinality(F) = rfail /\ \A m \in F : m.id \in Calm => Matches(m.id)
    BY DEF Failures
  <2>2. k \notin rdone
    BY <1>2, <1>3
  <2>3. IsFiniteSet(rdone') /\ IsFiniteSet(F)
    BY <1>3, <2>1, FS_AddElement, FS_Subset DEF Failures
  <2>4. \A m \in F : m.id \in Calm' => Matches(m.id)'
    BY <1>1, <1>2, <1>4, <2>1 DEF Matches, Calm, Lists
  <2>5. CASE rfail' = rfail
    BY <1>3, <2>1, <2>3, <2>4, <2>5 DEF Failures
  <2>6. CASE rfail' = rfail + 1 /\ file' = file
    <3>1. Cardinality(F \cup {k}) = Cardinality(F) + 1
      BY <2>1, <2>2, <2>3, FS_AddElement
    <3>2. k.id \in Calm' => Matches(k.id)'
      BY <1>1, <1>2, <1>3, <2>6 DEF JobsSound, Matches
    <3>3. /\ F \cup {k} \in SUBSET rdone' /\ Cardinality(F \cup {k}) = rfail'
          /\ \A m \in F \cup {k} : m.id \in Calm' => Matches(m.id)'
      BY <1>3, <2>1, <2>4, <2>6, <3>1, <3>2
    <3> QED
      BY <2>3, <3>3 DEF Failures
  <2> QED
    BY <1>3, <2>5, <2>6
<1> QED
  BY <1>6, <1>7, <1>8, <1>9, <1>10, <1>11

LEMMA ChecksumSync ==
    ASSUME TypeOK, ChecksumInv, syncUpdatedFilters
    PROVE  ChecksumInv'
<1> USE FilterListsAssumption DEF ChecksumInv
<1> DEFINE sum(i) == (CHOOSE j \in Synced : j.id = i /\ j.updated).checksum
<1>1. /\ rpc = "update" /\ rtodo = {} /\ rcur = None /\ rdone' = {} /\ rfail' = 0
      /\ UNCHANGED <<file, lastID, raced, hpc, hreq, rtodo, rcur>>
      /\ Pending = {} /\ InFlight' = {} /\ Pending' = {}
  BY DEF syncUpdatedFilters, Phases, hvars, bvars, Pending, InFlight
<1>2. ASSUME NEW i \in ID
      PROVE  \/ lists'[i] = lists[i]
             \/ i \in SyncedIDs /\ lists'[i] = [lists[i] EXCEPT !.checksum = sum(i)]
  BY DEF syncUpdatedFilters
<1>3. SyncedIDs \subseteq Lists
  BY DEF SyncedIDs, Synced
<1>4. \A i \in SyncedIDs : /\ [lists[i] EXCEPT !.checksum = sum(i)] # None
                           /\ [lists[i] EXCEPT !.checksum = sum(i)].checksum = sum(i)
  <2>1. \A i \in SyncedIDs : lists[i] \in List /\ sum(i) \in Content
    BY <1>3, SyncedChecksum DEF Lists, TypeOK, ConfOK
  <2>2. \A i \in SyncedIDs : /\ [lists[i] EXCEPT !.checksum = sum(i)] \in List
                             /\ [lists[i] EXCEPT !.checksum = sum(i)].checksum = sum(i)
    BY <2>1 DEF List
  <2> QED
    BY <2>2
<1>5. ASSUME NEW i \in SyncedIDs
      PROVE  \E j \in rdone : j.id = i /\ sum(i) = j.checksum
  <2>1. \E j \in Synced : j.id = i /\ j.updated
    BY DEF SyncedIDs
  <2>2. (CHOOSE j \in Synced : j.id = i /\ j.updated) \in Synced
        /\ (CHOOSE j \in Synced : j.id = i /\ j.updated).id = i
    BY <2>1
  <2> QED
    BY <2>2 DEF Synced
<1> HIDE DEF sum
<1>6. Lists' = Lists /\ Calm' = Calm
  <2>1. Lists' = Lists
    BY <1>2, <1>3, <1>4 DEF Lists
  <2> QED
    BY <1>1, <2>1 DEF Calm
<1>7. ASSUME NEW i \in Calm, lists'[i] = lists[i], i \in InFlight,
             ~ (rdone # {} /\ rfail = Cardinality(rdone))
      PROVE  Matches(i)
  <2>1. PICK j \in rdone : j.id = i
    BY <1>1, <1>7, InFlightJobs
  <2>2. CASE ~j.updated
    BY <2>1, <2>2 DEF JobsSound, Matches
  <2>3. CASE j.updated
    <3>1. j \in Synced
      BY <2>1 DEF Synced, JobsSound, Calm
    <3>2. i \in SyncedIDs
      BY <2>1, <2>3, <3>1 DEF SyncedIDs
    <3>3. lists'[i] = [lists[i] EXCEPT !.checksum = sum(i)]
      BY <1>7, <3>2 DEF syncUpdatedFilters, Calm, Lists, sum
    <3>4. PICK k \in rdone : k.id = i /\ sum(i) = k.checksum
      BY <1>5, <3>2
    <3> QED
      BY <1>4, <1>7, <3>2, <3>3, <3>4 DEF JobsSound, Matches
  <2> QED
    BY <2>2, <2>3
<1>8. ASSUME NEW i \in Calm, i \in InFlight, rfail = Cardinality(rdone)
      PROVE  Matches(i)
  <2>1. PICK F \in SUBSET rdone :
          Cardinality(F) = rfail /\ \A j \in F : j.id \in Calm => Matches(j.id)
    BY DEF Failures
  <2>2. F = rdone
    BY <1>8, <2>1, FS_Subset DEF Failures
  <2>3. PICK j \in rdone : j.id = i
    BY <1>1, <1>8, InFlightJobs
  <2> QED
    BY <2>1, <2>2, <2>3
<1>9. ASSUME NEW i \in Calm, lists'[i].checksum # Blank
      PROVE  file'[i] = lists'[i].checksum
  <2>1. i \in ID
    BY DEF Calm, Lists
  <2>2. CASE lists'[i] = lists[i]
    <3>1. CASE i \notin InFlight
      BY <1>1, <1>9, <2>2, <3>1 DEF ChecksumSound, Calm
    <3>2. CASE i \in InFlight
      BY <1>1, <1>7, <1>8, <1>9, <2>2, <3>2 DEF Matches
    <3> QED
      BY <3>1, <3>2
  <2>3. CASE i \in SyncedIDs /\ lists'[i] = [lists[i] EXCEPT !.checksum = sum(i)]
    <3>1. PICK j \in rdone : j.id = i /\ sum(i) = j.checksum
      BY <1>5, <2>3
    <3> QED
      BY <1>1, <1>4, <1>9, <2>3, <3>1 DEF JobsSound
  <2> QED
    BY <1>2, <2>1, <2>2, <2>3
<1>10. ChecksumSound'
  BY <1>6, <1>9 DEF ChecksumSound, Calm
<1>11. FreshIDs'
  BY <1>1, <1>6 DEF FreshIDs
<1>12. Phases' /\ OneJob' /\ JobsSound'
  BY <1>1 DEF Phases, OneJob, JobsSound
<1>13. Failures'
  <2>1. IsFiniteSet({}) /\ Cardinality({}) = 0
    BY FS_EmptySet
  <2>2. IsFiniteSet(rdone') /\ {} \in SUBSET rdone' /\ Cardinality({}) = rfail'
    BY <1>1, <2>1
  <2> QED
    BY <2>2 DEF Failures
<1> QED
  BY <1>10, <1>11, <1>12, <1>13

LEMMA ChecksumStep == TypeOK /\ ChecksumInv /\ [Next]_vars => ChecksumInv'
<1> SUFFICES ASSUME TypeOK, TypeOK', ChecksumInv, [Next]_vars PROVE ChecksumInv'
  BY TypeStep
<1> USE FilterListsAssumption
<1>1. ASSUME NEW u \in URL, SourceChanges(u) PROVE ChecksumInv'
  BY <1>1, ChecksumQuiet DEF SourceChanges, ChecksumInv, Phases, hvars, rvars
<1>2. ASSUME LoopReceive PROVE ChecksumInv'
  BY <1>2, ChecksumQuiet DEF LoopReceive, ChecksumInv, Phases, hvars, rvars, bvars
<1>3. ASSUME LoopSwap PROVE ChecksumInv'
  BY <1>3, ChecksumQuiet DEF LoopSwap, ChecksumInv, Phases, hvars, rvars, bvars
<1>4. ASSUME PeriodicRefresh PROVE ChecksumInv'
  <2>1. Pending \cup rdone = {} /\ Phases'
    BY <1>4 DEF PeriodicRefresh, RefreshStart, ChecksumInv, Phases, Pending
  <2> QED
    BY <1>4, <2>1, ChecksumQuiet DEF PeriodicRefresh, RefreshStart, cvars, hvars, bvars
<1>5. ASSUME RefreshNothing \/ RefreshBuild \/ RefreshSwap PROVE ChecksumInv'
  <2>1. Pending \cup rdone = {} /\ Phases'
    BY <1>5 DEF RefreshNothing, RefreshBuild, RefreshSwap, RefreshEnd, ChecksumInv, Phases,
       Pending
  <2>2. \A h \in Handler : hpc'[h] = "append" => hpc[h] = "append" /\ hreq'[h] = hreq[h]
    BY <1>5 DEF RefreshNothing, RefreshBuild, RefreshSwap, RefreshEnd, TypeOK, HandlersOK, hvars
  <2>3. UNCHANGED <<lists, file, lastID, raced, rtodo, rcur, rdone, rfail>>
    BY <1>5 DEF RefreshNothing, RefreshBuild, RefreshSwap, cvars, bvars
  <2> QED
    BY <2>1, <2>2, <2>3, ChecksumQuiet
<1>6. ASSUME RefreshStep PROVE ChecksumInv'
  BY <1>5, <1>6, ChecksumList, ChecksumDownload, ChecksumFinalize, ChecksumSync DEF RefreshStep
<1>7. CASE UNCHANGED vars
  BY <1>7, ChecksumQuiet DEF vars, cvars, hvars, rvars, bvars, ChecksumInv, Phases
<1> QED
  BY <1>1, <1>2, <1>3, <1>4, <1>6, <1>7, ChecksumRequests DEF Next

\* A checksum that is set is the checksum of the file, for every list that
\* nobody changed while a refresh held a copy of it: see ChecksumSound.
THEOREM ChecksumCorrect == Spec => []ChecksumSound
<1>1. Init => ChecksumInv
  <2> SUFFICES ASSUME Init PROVE ChecksumInv
    OBVIOUS
  <2>1. Pending = {} /\ InFlight = {} /\ rdone = {} /\ rfail = 0
    BY DEF Init, Pending, InFlight
  <2>2. PICK conf : /\ \A i \in ID : conf[i] = None <=> i > lastID
                    /\ conf \in [ID -> [url: URL, white: BOOLEAN, enabled: BOOLEAN,
                                        checksum: {Blank}] \cup {None}]
                    /\ lists = loadFilters(conf, file)
    BY DEF Init
  <2>3. ASSUME NEW i \in Lists
        PROVE  i <= lastID /\ lists[i].checksum \in {Blank, file[i]}
    <3>1. i \in ID /\ conf[i] # None /\ lastID \in Nat
      BY <2>2, FilterListsAssumption DEF Lists, loadFilters, Init
    <3>2. lists[i].checksum \in {Blank, file[i]}
      BY <2>2, <3>1 DEF loadFilters
    <3> QED
      BY <2>2, <3>1, <3>2 DEF ID
  <2>4. ChecksumSound
    BY <2>3 DEF ChecksumSound
  <2>5. FreshIDs /\ Phases /\ OneJob /\ JobsSound
    BY <2>1, <2>3 DEF Init, FreshIDs, Phases, OneJob, JobsSound
  <2>6. Failures
    <3>1. IsFiniteSet({}) /\ Cardinality({}) = 0 /\ {} \in SUBSET rdone
      BY FS_EmptySet
    <3> QED
      BY <2>1, <3>1 DEF Failures
  <2> QED
    BY <2>4, <2>5, <2>6 DEF ChecksumInv
<1>2. ChecksumInv => ChecksumSound
  BY DEF ChecksumInv
<1> QED
  BY <1>1, <1>2, TypeCorrect, ChecksumStep, PTL DEF Spec

==============================================================================
