---------------------------- MODULE WebServices -----------------------------
(***************************************************************************)
(* The pages for blocked services and for their weekly schedule, with      *)
(* stores/services.ts.  An update always sends both the services and the   *)
(* schedule: each page changes one and takes the other from the store.     *)
(*                                                                         *)
(* A time of day is a pair of an hour and a minute; a day has Hours hours  *)
(* of Minutes minutes (24 and 60 in the code).                             *)
(***************************************************************************)
EXTENDS WebCalls

CONSTANTS Service, Day, Hours, Minutes

None == ""
Requests == {"get", "all", "set"}
TimeZone == {"UTC", "Local"}

\* A schedule has a time zone and gives some days a range; the server reads a
\* missing schedule as EmptySchedule.
EmptySchedule == [tz |-> "UTC", days |-> [d \in Day |-> <<>>]]

initialState ==
  [processing |-> TRUE, initialized |-> FALSE, processingAll |-> TRUE,
   allInitialized |-> FALSE, processingSet |-> FALSE,
   list |-> <<>>, allServices |-> {}]

\* servicesState.list?.ids || [] and servicesState.list?.schedule
ids == IF st.list = <<>> THEN {} ELSE st.list[1].ids
schedule == IF st.list = <<>> THEN EmptySchedule ELSE st.list[1].schedule

-----------------------------------------------------------------------------
\* The arithmetic of InactivitySchedule/helpers.ts.

\* Milliseconds, in minutes.
timeToMs(t) == t[1] * Minutes + t[2]
msToTime(ms) == <<ms \div Minutes, ms % Minutes>>
LastTime == <<Hours - 1, Minutes - 1>>
FULL_DAY_END_MS == timeToMs(LastTime)
isFullDay(range) == range = <<0, FULL_DAY_END_MS>>

\* No time comes after 23:59.
hasNextTime(t) == t # LastTime
getNextTimeValue(t) ==
  IF t[2] = Minutes - 1 THEN <<t[1] + 1, 0>> ELSE <<t[1], t[2] + 1>>

\* An end that is not after the start becomes the minute after it, if there is
\* one; "otherwise" is what the caller keeps if there is none.
\* Mutant: an end equal to the start is left alone.
EndKept(start, end, otherwise) ==
  IF timeToMs(end) >= timeToMs(start) THEN end
  ELSE IF hasNextTime(start) THEN getNextTimeValue(start) ELSE otherwise
getNormalizedEndTime(start, end, otherwise) ==
  IF timeToMs(end) > timeToMs(start) THEN end
  ELSE IF hasNextTime(start) THEN getNextTimeValue(start) ELSE otherwise

\* The options of the two selects for the end that are not disabled.
EndHours(start) ==
  {h \in 0 .. Hours - 1 : hasNextTime(start) /\ h >= start[1]}
EndMinutes(start, hour) ==
  {m \in 0 .. Minutes - 1 : /\ hasNextTime(start) /\ hour >= start[1]
                            /\ hour = start[1] => m > start[2]}

\* What the form of ScheduleModal shows for a day: an effect that runs when the
\* modal opens and whenever the data of the day change under it.
DefaultForm == [start |-> <<0, 0>>, end |-> LastTime, allDay |-> FALSE]
formFor(data) ==
  IF data = <<>> THEN DefaultForm
  ELSE [start |-> msToTime(data[1]),
        end |-> getNormalizedEndTime(msToTime(data[1]), msToTime(data[2]), msToTime(data[2])),
        allDay |-> isFullDay(data)]

-----------------------------------------------------------------------------
getBlockedServices(s, cs, then) ==
  /\ st' = [s EXCEPT !.processing = TRUE]
  /\ calls' = Sent(cs, "get", then)

updateBlockedServices(newIds, sched) ==
  /\ st' = [st EXCEPT !.processingSet = TRUE]
  /\ calls' = Sent(calls, "set", <<[ids |-> newIds, schedule |-> sched]>>)

NoForm == [modal |-> "none", day |-> None, form |-> DefaultForm]

\* BlockedServices is mounted; it fetches the schedule and all services.
mountServices(s, cs) ==
  /\ ui' = [view |-> "services", togglingId |-> None, only |-> "all", dialog |-> NoForm]
  /\ st' = [s EXCEPT !.processing = TRUE, !.processingAll = TRUE]
  /\ calls' = Sent(Sent(cs, "get", <<>>), "all", <<>>)

Init ==
  /\ srv \in [ids : {{}, Service},
              schedule : {EmptySchedule,
                          [tz |-> "Local", days |-> [d \in Day |-> <<0, FULL_DAY_END_MS + 1>>]]}]
  /\ ui = [view |-> "services", togglingId |-> None, only |-> "all", dialog |-> NoForm]
  /\ st = initialState
  /\ calls = Sent(Sent(NoCalls(Requests), "get", <<>>), "all", <<>>)
  /\ acts = 0
  /\ hist = [clean |-> TRUE]

isInitialLoading == st.allServices = {} /\ (st.processingAll \/ st.processing)
isLoading == st.processing /\ st.list = <<>>

OnServices == ui.view = "services" /\ ~isInitialLoading
OnSchedule == ui.view = "schedule" /\ ~isLoading

\* Search and groups only hide rows; the buttons for blocked and unblocked
\* services turn each other off.
handleToggleStateFilter ==
  /\ OnServices
  /\ \E f \in {"blocked", "unblocked"} :
       ui' = [ui EXCEPT !.only = IF @ = f THEN "all" ELSE f]
  /\ Look

filteredServices ==
  {x \in st.allServices : \/ ui.only = "all"
                          \/ ui.only = "blocked" /\ x \in ids
                          \/ ui.only = "unblocked" /\ x \notin ids}

\* A click on a row of services, or on its switch.  The switch flips itself: it
\* may show the opposite of the store while an update is out or once one failed.
rowDisabled(x) == x = ui.togglingId
handleToggleService ==
  /\ OnServices /\ UserActs
  /\ \E x \in filteredServices, checked \in BOOLEAN :
       /\ ~rowDisabled(x)
       /\ ui' = [ui EXCEPT !.togglingId = x]
       /\ updateBlockedServices(IF checked THEN ids \cup {x} ELSE ids \ {x}, schedule)

\* The link to the schedule, and the link back; the signals of a page do not
\* outlive it, the stores do.
openSchedule ==
  /\ OnServices
  /\ ui' = [ui EXCEPT !.view = "schedule", !.togglingId = None, !.only = "all"]
  /\ IF st.list = <<>>
     THEN UserActs /\ getBlockedServices(st, calls, <<>>)
     ELSE Look

openServices ==
  /\ OnSchedule /\ ui.dialog.modal = "none"
  /\ UserActs
  /\ mountServices(st, calls)

-----------------------------------------------------------------------------
\* The schedule's page.

saveDays(days) ==
  updateBlockedServices(ids, [schedule EXCEPT !.days = days])

handleTimezoneChange ==
  /\ OnSchedule /\ ui.dialog.modal = "none" /\ UserActs
  /\ \E tz \in TimeZone :
       updateBlockedServices(ids, [schedule EXCEPT !.tz = tz])
  /\ UNCHANGED ui

\* ScheduleRow: the buttons to add, edit or delete the range of a day.
handleAddEdit ==
  /\ OnSchedule /\ ui.dialog.modal = "none"
  /\ \E d \in Day :
       ui' = [ui EXCEPT !.dialog = [modal |-> "edit", day |-> d,
                                    form |-> formFor(schedule.days[d])]]
  /\ Look

handleDelete ==
  /\ OnSchedule /\ ui.dialog.modal = "none"
  /\ \E d \in Day :
       /\ schedule.days[d] # <<>>
       /\ ui' = [ui EXCEPT !.dialog = [modal |-> "delete", day |-> d,
                                       form |-> DefaultForm]]
  /\ Look

confirmDelete ==
  /\ OnSchedule /\ ui.dialog.modal = "delete" /\ UserActs
  /\ saveDays([schedule.days EXCEPT ![ui.dialog.day] = <<>>])
  /\ ui' = [ui EXCEPT !.dialog = NoForm]

handleModalClose ==
  /\ OnSchedule /\ ui.dialog.modal # "none"
  /\ ui' = [ui EXCEPT !.dialog = NoForm]
  /\ Look

SetForm(form) == ui' = [ui EXCEPT !.dialog.form = form] /\ Look

handleAllDayChange ==
  /\ OnSchedule /\ ui.dialog.modal = "edit"
  /\ LET f == ui.dialog.form
     IN  SetForm(IF f.allDay THEN [f EXCEPT !.allDay = FALSE]
                 ELSE [DefaultForm EXCEPT !.allDay = TRUE])

\* Of the selects that are not disabled.
applyStartTime ==
  /\ OnSchedule /\ ui.dialog.modal = "edit" /\ ~ui.dialog.form.allDay
  /\ LET f == ui.dialog.form
     IN  \E start \in {<<h, f.start[2]>> : h \in 0 .. Hours - 1} \cup
                      {<<f.start[1], m>> : m \in 0 .. Minutes - 1} :
           SetForm([f EXCEPT !.start = start,
                             !.end = getNormalizedEndTime(start, f.end, f.end)])

applyEndTime ==
  /\ OnSchedule /\ ui.dialog.modal = "edit" /\ ~ui.dialog.form.allDay
  /\ LET f == ui.dialog.form
     IN  \E end \in {<<h, f.end[2]>> : h \in EndHours(f.start)} \cup
                    {<<f.end[1], m>> : m \in EndMinutes(f.start, f.end[1])} :
           SetForm([f EXCEPT !.end = getNormalizedEndTime(f.start, end, f.end)])

isDisabled(f) == ~f.allDay /\ ~hasNextTime(f.start)

handleModalSave ==
  /\ OnSchedule /\ ui.dialog.modal = "edit" /\ UserActs
  /\ LET f == ui.dialog.form
         range == IF f.allDay THEN <<0, FULL_DAY_END_MS>>
                  ELSE <<timeToMs(f.start), timeToMs(f.end)>>
     IN  /\ ~isDisabled(f)
         /\ saveDays([schedule.days EXCEPT ![ui.dialog.day] = range])
  /\ ui' = [ui EXCEPT !.dialog = NoForm]

UserStep ==
  \/ handleToggleStateFilter \/ handleToggleService \/ openSchedule
  \/ openServices \/ handleTimezoneChange \/ handleAddEdit \/ handleDelete
  \/ confirmDelete \/ handleModalClose \/ handleAllDayChange
  \/ applyStartTime \/ applyEndTime \/ handleModalSave

-----------------------------------------------------------------------------
\* The server's handlers under /control/blocked_services (external).
Server ==
  /\ \E r \in Requests : \E c \in calls[r] :
       /\ Answer(c) = "out"
       /\ Served(r, c, IF r = "set" THEN c.arg[1] ELSE srv,
                 IF r = "all" THEN Service ELSE srv)
  /\ UNCHANGED <<st, ui, acts, hist>>

-----------------------------------------------------------------------------
\* A new list gives the form of an open modal the data of its day.
getDone(c) ==
  LET s == [st EXCEPT !.processing = FALSE, !.initialized = TRUE]
      d == ui.dialog.day
  IN  /\ calls' = Ended(calls, "get", c)
      /\ IF Answer(c) = "ok"
         THEN /\ st' = [s EXCEPT !.list = <<Data(c)>>]
              /\ ui' = IF ui.dialog.modal = "edit"
                       THEN [ui EXCEPT !.dialog.form = formFor(Data(c).schedule.days[d])]
                       ELSE ui
         ELSE st' = s /\ UNCHANGED ui

allDone(c) ==
  LET s == [st EXCEPT !.processingAll = FALSE, !.allInitialized = TRUE]
  IN  /\ calls' = Ended(calls, "all", c)
      /\ IF Answer(c) = "ok"
         THEN st' = [s EXCEPT !.allServices = Data(c)]
         ELSE st' = s
      /\ UNCHANGED ui

\* The effect on processingSet enables the row last toggled, whichever update
\* has ended.
setDone(c) ==
  LET s == [st EXCEPT !.processingSet = FALSE]
      cs == Ended(calls, "set", c)
  IN  /\ IF Answer(c) = "ok"
         THEN getBlockedServices(s, cs, <<>>)
         ELSE st' = s /\ calls' = cs
      /\ ui' = [ui EXCEPT !.togglingId = None]

Resume ==
  /\ \E r \in Requests : \E c \in calls[r] :
       /\ Answer(c) # "out"
       /\ \/ r = "get" /\ getDone(c)
          \/ r = "all" /\ allDone(c)
          \/ r = "set" /\ setDone(c)
       /\ hist' = Learned(hist, c)
  /\ UNCHANGED <<srv, acts>>

Next == UserStep \/ Server \/ Resume

Spec == Init /\ [][Next]_vars /\ WF_vars(Server) /\ WF_vars(Resume)

-----------------------------------------------------------------------------
\* The stores, the forms and the requests of the page are well formed.
TypeOK ==
  /\ DOMAIN st = DOMAIN initialState /\ Len(st.list) <= 1
  /\ ids \subseteq Service /\ st.allServices \subseteq Service
  /\ ui.view \in {"services", "schedule"} /\ ui.only \in {"all", "blocked", "unblocked"}
  /\ ui.togglingId \in Service \cup {None} /\ ui.dialog.day \in Day \cup {None}
  /\ DOMAIN calls = Requests
  /\ srv.ids \subseteq Service /\ srv.schedule.tz \in TimeZone

\* A processing flag is set only while a handler waits that will clear it.
FlagsBacked ==
  /\ st.processing => Waiting("get")
  /\ st.processingAll => Waiting("all")
  /\ st.processingSet => Waiting("set")
  /\ ui.togglingId # None => Waiting("set")

\* The pages show what the server has once nothing is out, if the user did one
\* thing at a time and nothing failed.
ShowsServer ==
  Idle /\ hist.clean /\ st.list # <<>> => st.list[1] = srv

\* Whatever is typed into the form, and whatever arrives under it, a range that
\* is sent starts before it ends; the server refuses any other.
RangesValid ==
  \A c \in calls["set"] : \A d \in Day :
    LET range == c.arg[1].schedule.days[d]
    IN  range # <<>> => range[1] < range[2]

=============================================================================
