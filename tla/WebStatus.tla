----------------------------- MODULE WebStatus ------------------------------
(***************************************************************************)
(* The shell of the web interface and the protection switch: the part of   *)
(* stores/dashboard.ts that polls the server's status, with App, Dashboard *)
(* and its header, Footer and Banners.                                     *)
(*                                                                         *)
(* Three chains of checkStatus share one timer, ui.timer: "dns" when the   *)
(* page loads, "timer" when its tab becomes visible and "update" after an  *)
(* update has begun.  Time passes at the server (srv.pause) and in the     *)
(* countdown of the page (ui.remaining) at paces of their own: browsers    *)
(* slow the timers of hidden tabs down.                                    *)
(***************************************************************************)
EXTENDS WebCalls

CONSTANTS Attempts,  \* how often a chain asks (60 in the code)
          Pause,     \* the length of a pause, in ticks
          Lang       \* the languages

Chain == {"dns", "timer", "update"}
Requests == {"check", "version", "begin", "protection", "profile_get", "profile_put"}
Version == {1, 2}

\* duration 0 is null: no end is known.  dnsVersion 0: not known.
initialState ==
  [processing |-> TRUE, isCoreRunning |-> FALSE, protectionEnabled |-> FALSE,
   duration |-> 0, dnsVersion |-> 0, isUpdateAvailable |-> FALSE, busy |-> {},
   language |-> ""]

\* A fresh page: getDnsStatus has sent its first request.
fresh(h) ==
  /\ st' = initialState
  /\ ui' = [timer |-> <<>>, remaining |-> 0, open |-> TRUE]
  /\ calls' = Sent(NoCalls(Requests), "check", <<"dns", Attempts>>)
  /\ hist' = h

Init ==
  /\ srv \in [running : BOOLEAN, version : {1}, enabled : {TRUE}, pause : {0},
              language : {CHOOSE l \in Lang : TRUE}]
  /\ st = initialState
  /\ ui = [timer |-> <<>>, remaining |-> 0, open |-> TRUE]
  /\ calls = Sent(NoCalls(Requests), "check", <<"dns", Attempts>>)
  /\ acts = 0
  /\ hist = [clean |-> TRUE, dropped |-> {}]

-----------------------------------------------------------------------------
\* An effect of Dashboard starts the countdown when a duration appears and none
\* runs.
counting(s, u) ==
  IF u.open /\ s.duration > 0 /\ s.duration # st.duration /\ u.remaining = 0
  THEN [u EXCEPT !.remaining = s.duration] ELSE u

\* toggleProtection sends the opposite of what the store has.
toggleProtection(s, time, by) ==
  /\ st' = [s EXCEPT !.busy = @ \cup {"protection"}]
  /\ calls' = Sent(calls, "protection", [enabled |-> ~s.protectionEnabled, time |-> time, by |-> by])

isShown == ~st.processing /\ st.isCoreRunning

\* The switch and the menu of pauses in the header of the dashboard.
handleToggleProtection ==
  /\ isShown /\ ui.open /\ "protection" \notin st.busy /\ UserActs
  /\ toggleProtection(st, 0, "user")
  /\ ui' = IF st.protectionEnabled THEN ui ELSE [ui EXCEPT !.remaining = 0]

handleDisableProtection ==
  /\ isShown /\ ui.open /\ st.protectionEnabled /\ UserActs
  /\ toggleProtection(st, Pause, "user")
  /\ UNCHANGED ui

\* The dashboard is left and opened; a countdown starts anew with the duration
\* the store has.
leaveDashboard ==
  /\ ui.open /\ isShown
  /\ ui' = [ui EXCEPT !.open = FALSE, !.remaining = 0]
  /\ Look

openDashboard ==
  /\ ~ui.open /\ UserActs
  /\ ui' = [ui EXCEPT !.open = TRUE, !.remaining = st.duration]
  /\ UNCHANGED <<st, calls>>

\* The tab becomes visible: getTimerStatus.
handleVisibilityChange ==
  /\ UserActs
  /\ calls' = Sent(calls, "check", <<"timer", Attempts>>)
  /\ UNCHANGED <<st, ui>>

\* Footer: the version, the language and the theme; Banners: an update.
getVersion(s, cs) ==
  /\ st' = [s EXCEPT !.busy = @ \cup {"version"}]
  /\ calls' = Sent(cs, "version", <<>>)

recheckVersion ==
  /\ st.dnsVersion # 0 /\ "version" \notin st.busy /\ UserActs
  /\ getVersion(st, calls) /\ UNCHANGED ui

getUpdate ==
  /\ st.isUpdateAvailable /\ "update" \notin st.busy /\ UserActs
  /\ st' = [st EXCEPT !.busy = @ \cup {"update"}]
  /\ calls' = Sent(calls, "begin", <<>>)
  /\ UNCHANGED ui

\* changeLanguage reads the profile, changes it and writes it back.  A theme is
\* saved the same way, but only once the store has the user's name, which no page
\* fetches.
changeLanguage ==
  /\ UserActs
  /\ \E l \in Lang : calls' = Sent(calls, "profile_get", <<l>>)
  /\ UNCHANGED <<st, ui>>

UserStep ==
  \/ handleToggleProtection \/ handleDisableProtection \/ leaveDashboard \/ openDashboard
  \/ handleVisibilityChange \/ recheckVersion \/ getUpdate \/ changeLanguage

-----------------------------------------------------------------------------
\* The countdown of the page; at its end it toggles the protection.
countdown ==
  /\ ui.remaining > 0
  /\ IF ui.remaining > 1 THEN UNCHANGED <<st, calls>>
     ELSE toggleProtection(st, 0, "countdown")
  /\ ui' = [ui EXCEPT !.remaining = @ - 1]
  /\ hist' = IF ui.remaining > 1 THEN hist ELSE Noted(hist)
  /\ UNCHANGED <<srv, acts>>

\* The timer of checkStatus; the last attempt gives up.  handleRequestError
\* reloads the page, but after an update only tells the user.
giveUp(chain, s, u, cs, h) ==
  \/ chain \in {"dns", "timer"} /\ fresh(h)
  \/ /\ chain = "update" /\ ui' = u /\ calls' = cs /\ hist' = h
     /\ st' = [s EXCEPT !.busy = @ \ {"update"}]

\* Mutant: the chain never gives up.
NeverExhausted(attempts) == FALSE
exhausted(attempts) == attempts = 0

checkAgain ==
  /\ ui.timer # <<>>
  /\ LET u == [ui EXCEPT !.timer = <<>>]
     IN  IF exhausted(ui.timer[2]) THEN giveUp(ui.timer[1], st, u, calls, hist)
         ELSE /\ calls' = Sent(calls, "check", ui.timer)
              /\ ui' = u /\ UNCHANGED <<st, hist>>
  /\ UNCHANGED <<srv, acts>>

\* The server (external): its pause ends by itself, it stops and starts, and an
\* update restarts it with the next version.
pauseTick ==
  /\ srv.pause > 0
  /\ srv' = [srv EXCEPT !.pause = @ - 1, !.enabled = @ \/ srv.pause = 1]
restarted == srv' = [srv EXCEPT !.running = ~@]

serve(r, c) ==
  \/ r = "check" /\ srv.running /\ Served(r, c, srv, srv)
  \/ r = "check" /\ ~srv.running /\ (Served(r, c, srv, srv) \/ Refused(r, c))
  \/ r = "version" /\ Served(r, c, srv, 2)
  \/ r = "begin" /\ Served(r, c, [srv EXCEPT !.version = 2], {})
  \/ r = "profile_get" /\ Served(r, c, srv, {})
  \/ r = "profile_put" /\ Served(r, c, [srv EXCEPT !.language = c.arg[1]], {})
  \/ /\ r = "protection"
     /\ Served(r, c, [srv EXCEPT !.enabled = c.arg.enabled,
                                 !.pause = IF c.arg.enabled THEN 0 ELSE c.arg.time], {})

Server ==
  \/ (pauseTick \/ restarted) /\ UNCHANGED <<st, ui, calls, acts, hist>>
  \/ /\ \E r \in Requests : \E c \in calls[r] : Answer(c) = "out" /\ serve(r, c)
     /\ UNCHANGED <<st, ui, acts, hist>>

-----------------------------------------------------------------------------
\* handleRequestSuccess of the three chains.
statusShown(chain, s, d) ==
  LET known == [s EXCEPT !.protectionEnabled = d.enabled, !.duration = d.pause]
  IN  IF ~d.running THEN [s EXCEPT !.isCoreRunning = IF chain = "update" THEN @ ELSE FALSE]
      ELSE IF chain = "timer" THEN known
      ELSE IF chain = "dns"
           THEN [known EXCEPT !.isCoreRunning = TRUE, !.processing = FALSE,
                              !.dnsVersion = d.version, !.language = d.language]
      ELSE s

\* checkStatus: every answer takes the timer of whatever chain has it; one that
\* goes on sets it.  The chain that had it is dropped.
\* Mutant: the chain does not go on when the server does not run.
NoRetry(c, ok) == FALSE
goesOn(c, ok) == ~ok \/ ~Data(c).running

checkDone(c) ==
  LET chain == c.arg[1]
      ok == Answer(c) = "ok"
      s == IF ok THEN statusShown(chain, st, Data(c)) ELSE st
      more == goesOn(c, ok)
      u == counting(s, [ui EXCEPT !.timer = IF more THEN <<chain, c.arg[2] - 1>> ELSE <<>>])
      cs == Ended(calls, "check", c)
      stolen == {ui.timer[1] : t \in {1} \cap DOMAIN ui.timer}
      ends == IF chain = "update" /\ ~more /\ Data(c).version = st.dnsVersion
              THEN {"update"} ELSE {}
      h == [hist EXCEPT !.clean = @ /\ ok /\ ~more, !.dropped = @ \cup stolen \cup ends]
  IN  \/ /\ chain = "dns" /\ ok /\ Data(c).running
         /\ getVersion(s, cs) /\ ui' = u /\ hist' = h
      \/ /\ chain = "update" /\ ok /\ Data(c).version # st.dnsVersion
         /\ fresh(h)
      \/ /\ ~(chain = "dns" /\ ok /\ Data(c).running)
         /\ ~(chain = "update" /\ ok /\ Data(c).version # st.dnsVersion)
         /\ st' = s /\ ui' = u /\ calls' = cs /\ hist' = h

beginDone(c) ==
  \/ /\ Answer(c) = "ok"
     /\ calls' = Sent(Ended(calls, "begin", c), "check", <<"update", Attempts>>)
     /\ hist' = hist /\ UNCHANGED <<st, ui>>
  \/ Answer(c) = "failed" /\ giveUp("update", st, ui, Ended(calls, "begin", c), Learned(hist, c))

\* toggleProtection negates what the store has when the answer comes.
\* Mutant: the store keeps what it had.
NotNegated(s) == s.protectionEnabled
negated(s) == ~s.protectionEnabled

otherDone(r, c) ==
  LET ok == Answer(c) = "ok"
      s == [st EXCEPT !.busy = @ \ {r}]
      toggled == [s EXCEPT !.protectionEnabled = negated(s), !.duration = c.arg.time]
      cs == Ended(calls, r, c)
  IN  /\ \/ /\ r = "version" /\ calls' = cs /\ UNCHANGED ui
            /\ st' = IF ok THEN [s EXCEPT !.isUpdateAvailable = @ \/ Data(c) # s.dnsVersion] ELSE s
         \/ /\ r = "protection" /\ calls' = cs
            /\ st' = IF ok THEN toggled ELSE s
            /\ ui' = IF ok THEN counting(toggled, ui) ELSE ui
         \/ /\ r = "profile_get" /\ UNCHANGED <<st, ui>>
            /\ calls' = IF ok THEN Sent(cs, "profile_put", c.arg) ELSE cs
         \/ /\ r = "profile_put" /\ calls' = cs /\ UNCHANGED ui
            /\ st' = IF ok THEN [st EXCEPT !.language = c.arg[1]] ELSE st
      /\ hist' = Learned(hist, c)

Resume ==
  /\ \E r \in Requests : \E c \in calls[r] :
       /\ Answer(c) # "out"
       /\ \/ r = "check" /\ checkDone(c)
          \/ r = "begin" /\ beginDone(c)
          \/ r \in Requests \ {"check", "begin"} /\ otherDone(r, c)
  /\ UNCHANGED <<srv, acts>>

Next == UserStep \/ countdown \/ checkAgain \/ Server \/ Resume

Spec == Init /\ [][Next]_vars /\ WF_vars(Server) /\ WF_vars(Resume)
             /\ WF_vars(countdown) /\ WF_vars(checkAgain)

-----------------------------------------------------------------------------
\* The stores, the forms and the requests of the page are well formed.
TypeOK ==
  /\ DOMAIN st = DOMAIN initialState
  /\ st.duration \in 0 .. Pause /\ st.busy \subseteq Requests \cup {"update"}
  /\ ui.remaining \in 0 .. Pause
  /\ ui.timer = <<>> \/ ui.timer \in Chain \X (0 .. Attempts)
  /\ DOMAIN calls = Requests /\ srv.version \in Version /\ srv.pause \in 0 .. Pause

Alive(chain) ==
  \/ \E c \in calls["check"] : c.arg[1] = chain
  \/ ui.timer # <<>> /\ ui.timer[1] = chain

\* The page waits for its status, or for the end of an update, only while its
\* chain of checks goes on or has lost its timer to another chain.  Other flags
\* are set only while their request is out.
FlagsBacked ==
  /\ st.processing => Alive("dns") \/ "dns" \in hist.dropped
  /\ "update" \in st.busy => \/ Alive("update") \/ Waiting("begin")
                             \/ "update" \in hist.dropped
  /\ \A r \in st.busy \ {"update"} : Waiting(r)

\* When nothing is out, the switch shows the server's protection, or a pause
\* that has ended at the server only, and the language is the
\* server's: if the user did one thing at a time and nothing failed.
ShowsServer ==
  Idle /\ hist.clean =>
    /\ st.protectionEnabled = srv.enabled \/ (srv.enabled /\ st.duration > 0)
    /\ st.language \in {"", srv.language}

\* "Protection will resume": the end of a countdown never switches it off, if
\* the user did one thing at a time and nothing failed.
CountdownResumes ==
  hist.clean => \A c \in calls["protection"] : c.arg.by = "countdown" => c.arg.enabled

=============================================================================
