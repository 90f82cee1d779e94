----------------------------- MODULE WebInstall -----------------------------
(***************************************************************************)
(* The first start: the setup wizard (install/Setup, stores/install.ts),   *)
(* the login page (login/Login, stores/login.ts) and the way between the   *)
(* pages: the wizard ends by opening the dashboard, whose first request is *)
(* refused without a session, and customFetch leads to the login page.     *)
(***************************************************************************)
EXTENDS WebCalls

CONSTANTS WebPort, DnsPort,   \* the ports that the user types; 0 is no port
          BusyPort,           \* the ports that are in use
          MaxChecks           \* how many checks of the addresses are out at once

Requests == {"addresses", "check", "configure", "login", "main"}
INSTALL_TOTAL_STEPS == 6
Requirement == {"username", "minLength", "lowercase", "uppercase", "match", "consent"}
STANDARD == [web |-> CHOOSE p \in WebPort : TRUE, dns |-> CHOOSE p \in DnsPort : TRUE]

initialState ==
  [step |-> 1, processingDefault |-> TRUE, processingSubmit |-> FALSE, processingCheck |-> FALSE,
   submitted |-> FALSE, auth |-> {}, web |-> STANDARD.web, dns |-> STANDARD.dns,
   webStatus |-> "", dnsStatus |-> "", canAutofix |-> FALSE, static |-> "",
   processingLogin |-> FALSE, error |-> FALSE]

Init ==
  /\ srv = [busy |-> BusyPort, static |-> "no", config |-> <<>>, session |-> FALSE]
  /\ st = initialState
  /\ ui = [at |-> "install", form |-> STANDARD, timer |-> <<>>, password |-> ""]
  /\ calls = Sent(NoCalls(Requests), "addresses", <<>>)
  /\ acts = 0
  /\ hist = [clean |-> TRUE, entered |-> STANDARD]

-----------------------------------------------------------------------------
\* The steps.  A form of addresses is made of the store when its step is opened.
AtStep(n) == ui.at = "install" /\ ~st.processingDefault /\ st.step = n
addressStep(n) == n \in {3, 4}
validateInstallPort(p) == p # 0
isValid(form) == validateInstallPort(form.web) /\ validateInstallPort(form.dns)

\* Mutant: every form starts from the standard ports.
FreshForm(s) == STANDARD
useInstallSettingsForm(s) ==
  [web |-> IF s.web = 0 THEN STANDARD.web ELSE s.web, dns |-> IF s.dns = 0 THEN STANDARD.dns ELSE s.dns]

\* runValidation: a check of the form is scheduled, instead of the one that was.
opened(s) ==
  IF addressStep(s.step)
  THEN [ui EXCEPT !.form = useInstallSettingsForm(s), !.timer = useInstallSettingsForm(s)]
  ELSE ui

Quiet(h) == [Noted(h) EXCEPT !.clean = @ /\ ui.timer = <<>>]
Moves(s) == st' = s /\ ui' = opened(s) /\ UNCHANGED <<calls, srv, acts>>

nextStep ==
  /\ AtStep(1) \/ AtStep(5)
  /\ Moves([st EXCEPT !.step = @ + 1]) /\ hist' = Quiet(hist)
prevStep ==
  /\ \E n \in 2 .. 5 : AtStep(n)
  /\ Moves([st EXCEPT !.step = @ - 1]) /\ hist' = Quiet(hist)

\* isAuthFormValid: the button is disabled until every requirement is met.
isAuthFormValid(met) == met = Requirement
handleAuthSubmit ==
  /\ AtStep(2) /\ hist' = Quiet(hist)
  /\ \E met \in SUBSET Requirement :
       isAuthFormValid(met) /\ Moves([st EXCEPT !.auth = met, !.step = @ + 1])

\* A change of a port schedules a check of the form if both ports are ports.
withForm(form) ==
  [ui EXCEPT !.form = form, !.timer = IF isValid(form) THEN form ELSE @]
handlePortChange ==
  /\ \/ AtStep(3) /\ \E p \in WebPort \cup {0} : ui' = withForm([ui.form EXCEPT !.web = p])
     \/ AtStep(4) /\ \E p \in DnsPort \cup {0} : ui' = withForm([ui.form EXCEPT !.dns = p])
  /\ UNCHANGED <<st, calls, srv, acts>> /\ hist' = Quiet(hist)

\* The form is stored, the next step opened, and the form checked once more.
handleSubmit ==
  LET s == [st EXCEPT !.web = ui.form.web, !.dns = ui.form.dns, !.step = @ + 1]
  IN  /\ AtStep(3) \/ AtStep(4)
      /\ isValid(ui.form)
      /\ st' = s /\ ui' = [opened(s) EXCEPT !.timer = ui.form]
      /\ hist' = [Quiet(hist) EXCEPT !.entered = IF st.step = 3 THEN [@ EXCEPT !.web = ui.form.web]
                                                 ELSE [@ EXCEPT !.dns = ui.form.dns]]
      /\ UNCHANGED <<calls, srv, acts>>

checkConfig(form, fix) ==
  /\ Cardinality(calls["check"]) < MaxChecks
  /\ st' = [st EXCEPT !.processingCheck = TRUE]
  /\ calls' = Sent(calls, "check", [web |-> form.web, dns |-> form.dns, fix |-> fix])

\* The timer runs out, whatever step is shown by then.
debouncedCheckConfig ==
  /\ ui.at = "install" /\ ui.timer # <<>> /\ checkConfig(ui.timer, "")
  /\ ui' = [ui EXCEPT !.timer = <<>>] /\ UNCHANGED <<srv, acts, hist>>

\* Sent at once, with the form as it is.
handleAutofix ==
  /\ AtStep(4) /\ st.canAutofix /\ checkConfig(ui.form, "autofix")
  /\ UNCHANGED ui /\ Act /\ hist' = Quiet(hist)
handleStaticIp ==
  /\ AtStep(3) /\ st.static = "no" /\ checkConfig(ui.form, "static")
  /\ UNCHANGED ui /\ Act /\ hist' = Quiet(hist)

\* Nothing is sent without both ports.
handleFinalSubmit ==
  /\ AtStep(6) /\ ~st.submitted /\ ~st.processingSubmit
  /\ st.web # 0 /\ st.dns # 0
  /\ UNCHANGED ui /\ Act /\ hist' = Quiet(hist)
  /\ st' = [st EXCEPT !.processingSubmit = TRUE, !.submitted = FALSE]
  /\ calls' = Sent(calls, "configure", [web |-> st.web, dns |-> st.dns, auth |-> st.auth])

processLogin ==
  /\ ui.at = "login" /\ ~st.processingLogin /\ UserActs
  /\ \E password \in {"right", "wrong"} :
       /\ ui' = [ui EXCEPT !.password = password]
       /\ calls' = Sent(calls, "login", password)
  /\ st' = [st EXCEPT !.processingLogin = TRUE, !.error = FALSE]

UserStep ==
  \/ nextStep \/ prevStep \/ handleAuthSubmit \/ handlePortChange \/ handleSubmit
  \/ handleAutofix \/ handleStaticIp \/ handleFinalSubmit \/ processLogin

-----------------------------------------------------------------------------
\* The server (external).  A configuration whose ports are in use is refused.
free(fix, dns) == IF fix = "autofix" THEN srv.busy \ {dns} ELSE srv.busy
statusOf(p, busy) == IF p \in busy THEN "in use" ELSE ""

serve(r, c) ==
  \/ r = "addresses" /\ Served(r, c, srv, STANDARD)
  \/ /\ r = "check"
     /\ LET busy == free(c.arg.fix, c.arg.dns)
            static == IF c.arg.fix = "static" THEN "yes" ELSE srv.static
        IN  Served(r, c, [srv EXCEPT !.busy = busy, !.static = static],
                   [web |-> statusOf(c.arg.web, busy), dns |-> statusOf(c.arg.dns, busy), static |-> static])
  \/ /\ r = "configure"
     /\ IF {c.arg.web, c.arg.dns} \cap srv.busy # {} THEN Refused(r, c)
        ELSE Served(r, c, [srv EXCEPT !.config = c.arg], {})
  \/ /\ r = "login"
     /\ IF c.arg = "right" THEN Served(r, c, [srv EXCEPT !.session = TRUE], "ok")
        ELSE Served(r, c, srv, "403")
  \/ r = "main" /\ Served(r, c, srv, IF srv.session THEN "ok" ELSE "403")

Server ==
  /\ \E r \in Requests : \E c \in calls[r] : Answer(c) = "out" /\ serve(r, c)
  /\ UNCHANGED <<st, ui, acts, hist>>

-----------------------------------------------------------------------------
\* Mutant: the wizard appears only once the addresses are known.
SettledIfOk(s, ok) == [s EXCEPT !.processingDefault = ~ok]
defaultSettled(s, ok) == [s EXCEPT !.processingDefault = FALSE]

getDefaultAddresses(c) ==
  LET ok == Answer(c) = "ok"
  IN  /\ st' = defaultSettled(IF ok THEN [st EXCEPT !.web = Data(c).web, !.dns = Data(c).dns] ELSE st, ok)
      /\ UNCHANGED ui

\* The answer brings back the addresses that were checked.
checkConfigDone(c) ==
  /\ st' = IF Answer(c) = "failed" THEN [st EXCEPT !.processingCheck = FALSE]
           ELSE [st EXCEPT !.processingCheck = FALSE, !.web = c.arg.web, !.dns = c.arg.dns,
                           !.webStatus = Data(c).web, !.dnsStatus = Data(c).dns,
                           !.canAutofix = Data(c).dns # "", !.static = Data(c).static]
  /\ UNCHANGED ui

\* setAllSettings; Submit opens the dashboard when the settings are accepted.
setAllSettings(c) ==
  IF Answer(c) = "failed" THEN st' = [st EXCEPT !.processingSubmit = FALSE] /\ UNCHANGED ui
  ELSE /\ st' = [st EXCEPT !.processingSubmit = FALSE, !.submitted = TRUE]
       /\ ui' = [ui EXCEPT !.at = "main", !.timer = <<>>]

\* On the login page a refusal is an error of the form, elsewhere it leads there.
processLoginDone(c) ==
  LET refused == Answer(c) = "failed" \/ Data(c) = "403"
  IN  /\ st' = [st EXCEPT !.processingLogin = FALSE, !.error = refused]
      /\ ui' = IF refused THEN ui ELSE [ui EXCEPT !.at = "main"]

customFetch(c) ==
  /\ UNCHANGED st
  /\ ui' = IF Answer(c) = "ok" /\ Data(c) = "403" THEN [ui EXCEPT !.at = "login"] ELSE ui

resume(r, c) ==
  \/ r = "addresses" /\ getDefaultAddresses(c)
  \/ r = "check" /\ checkConfigDone(c)
  \/ r = "configure" /\ setAllSettings(c)
  \/ r = "login" /\ processLoginDone(c)
  \/ r = "main" /\ customFetch(c)

\* A page that is replaced takes its handlers along; the new one sends a request.
Resume ==
  /\ \E r \in Requests : \E c \in calls[r] :
       /\ Answer(c) # "out" /\ resume(r, c) /\ hist' = Learned(hist, c)
       /\ calls' = IF ui'.at # ui.at
                   THEN IF ui'.at = "main" THEN Sent(NoCalls(Requests), "main", <<>>) ELSE NoCalls(Requests)
                   ELSE Ended(calls, r, c)
  /\ UNCHANGED <<srv, acts>>

Next == UserStep \/ debouncedCheckConfig \/ Server \/ Resume

Spec == Init /\ [][Next]_vars /\ WF_vars(Server) /\ WF_vars(Resume) /\ WF_vars(debouncedCheckConfig)

-----------------------------------------------------------------------------
\* The stores, the forms and the requests of the page are well formed.
TypeOK ==
  /\ DOMAIN st = DOMAIN initialState /\ st.step \in 1 .. INSTALL_TOTAL_STEPS
  /\ ui.at \in {"install", "login", "main"} /\ DOMAIN calls = Requests
  /\ ui.timer # <<>> => DOMAIN ui.timer = {"web", "dns"}

\* A processing flag is set only while a handler waits that will clear it.
FlagsBacked ==
  /\ st.processingDefault => Waiting("addresses")
  /\ ui.at = "install" => /\ st.processingSubmit => Waiting("configure")
                          /\ st.processingCheck => Waiting("check")
  /\ st.processingLogin => Waiting("login")

\* What the wizard configures is what the user entered in its steps, however often
\* the steps are opened again (install/Setup/index.tsx, handleFinalSubmit): if the
\* user waits for the checks.  The password always meets the requirements.
ConfiguredAsEntered ==
  srv.config # <<>> =>
    /\ srv.config.auth = Requirement
    /\ hist.clean => srv.config.web = hist.entered.web /\ srv.config.dns = hist.entered.dns

\* The dashboard is shown only with a session, and the login form shows an error
\* exactly when the last attempt failed.
ShowsServer ==
  Idle /\ hist.clean =>
    /\ ui.at = "main" => srv.session
    /\ ui.at = "login" => (st.error <=> ui.password = "wrong")

\* The wizard appears, also when its first request fails.
LoaderEnds == <>~st.processingDefault

=============================================================================
