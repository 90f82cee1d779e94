---------------------------- MODULE WebTlsWizard ----------------------------
(***************************************************************************)
(* The wizard that sets up encryption: TlsSetupWizard, useStepCheck and    *)
(* mapStepResult under components/Encryption/blocks/SetupWizard.           *)
(* Certificates and keys are classified by what becomes of them: "junk"    *)
(* fails in the browser, "bad" fails on the server, "warn" (a certificate  *)
(* that is not trusted) is accepted with a warning.  The server name is in *)
(* WebEncryption.                                                          *)
(***************************************************************************)
EXTENDS WebCalls

CONSTANTS Cert, Key,         \* what the user may enter
          Ports,             \* <<HTTPS, DoT, DoQ>>, 0 is off
          WebPort, DnsPort,  \* the ports of the other settings
          BusyPort           \* ports another program of the host uses

Requests == {"check", "set"}
Form == [cert : Cert \cup {""}, key : Key \cup {""}, ports : Ports]
noMessage == [kind |-> "", step |-> 0]

initialState == [busy |-> {}, enabled |-> FALSE]

-----------------------------------------------------------------------------
\* validate.ts: the TCP ports differ, and so do the UDP ports.
validatePortConflicts(ports) ==
  LET distinct(ps) == \A i, j \in DOMAIN ps : i # j /\ ps[i] # 0 => ps[i] # ps[j]
  IN  distinct(<<ports[1], ports[2], WebPort, DnsPort>>) /\ distinct(<<ports[3], DnsPort>>)

\* The fields of a step pass in the browser; the last step checks all of them.
pemValid(pem) == pem \notin {"", "junk"}
stepValid(step, f) ==
  CASE step = 1 -> pemValid(f.cert)
    [] step = 2 -> pemValid(f.key)
    [] OTHER -> pemValid(f.cert) /\ pemValid(f.key) /\ validatePortConflicts(f.ports)

\* mapStepResult of the server's verdict: the one message, and the step of the
\* field it belongs to (0: none).  The first step sends no key, the first two
\* no ports.
Message(kind, step) == [kind |-> kind, step |-> step]
mapStepResult(step, f) ==
  IF step = 3 /\ \E i \in 1 .. 3 : f.ports[i] \in BusyPort THEN Message("error", 3)
  ELSE IF f.cert = "bad" THEN Message("error", 1)
  ELSE IF step > 1 /\ f.key = "bad" THEN Message("error", 2)
  ELSE IF f.cert = "warn" THEN Message("warning", IF step = 3 THEN 0 ELSE 1)
  ELSE noMessage

\* What is on screen: a warning only at the step of its field.
message(u) ==
  IF u.checked.kind = "warning" /\ u.checked.step # u.step THEN noMessage ELSE u.checked

-----------------------------------------------------------------------------
\* useStepCheck: clear drops the message, the debounce and the check that is out.
\* Mutant: the flag of the check that was dropped stays.
FlagStays(u) == [u EXCEPT !.checkId = @ + 1, !.timer = 0, !.checked = noMessage]
clear(u) ==
  [u EXCEPT !.checkId = @ + 1, !.timer = 0, !.checked = noMessage, !.validating = FALSE]

schedule(u, step) == [u EXCEPT !.timer = step]

\* The last step schedules a check when it is entered and when a value changes.
preflight(u) == IF u.step = 3 /\ stepValid(3, u.form) THEN schedule(u, 3) ELSE u

\* run, for a blur or the debounce, for Add or for Enable.
run(u, step, by) ==
  /\ ui' = [u EXCEPT !.checkId = @ + 1, !.validating = TRUE, !.timer = 0]
  /\ calls' = Sent(calls, "check", [step |-> step, form |-> u.form, id |-> u.checkId + 1,
                                    by |-> by, shown |-> message(u)])

-----------------------------------------------------------------------------
\* The wizard is open at some step; what the earlier steps took has passed.
Init ==
  /\ st = initialState /\ srv = [enabled |-> FALSE, form |-> <<>>]
  /\ \E step \in 1 .. 3, cert \in {"warn", "ok"} \cap Cert, ports \in Ports :
       LET f == [cert |-> IF step = 1 THEN "" ELSE cert, key |-> IF step = 3 THEN "ok" ELSE "",
                 ports |-> ports]
       IN  ui = preflight([open |-> TRUE, step |-> step, form |-> f, checked |-> noMessage,
                           validating |-> FALSE, checkId |-> 0, timer |-> 0, saving |-> FALSE])
  /\ calls = NoCalls(Requests)
  /\ acts = 0 /\ hist = [clean |-> TRUE, failed |-> FALSE]

\* The fields of the steps: certificate or key, and the ports.
PemSourceFields(u) ==
  \/ u.step = 1 /\ \E c \in Cert : ui' = [u EXCEPT !.form.cert = c]
  \/ u.step = 2 /\ \E k \in Key : ui' = [u EXCEPT !.form.key = k]
ServerSettingsFields(u) ==
  u.step = 3 /\ \E p \in Ports : ui' = preflight([u EXCEPT !.form.ports = p])

\* resetValidation, then the new value.
handleFieldChange ==
  /\ ui.open /\ UserActs
  /\ PemSourceFields(clear(ui)) \/ ServerSettingsFields(clear(ui))
  /\ UNCHANGED <<st, calls>>

\* The field of the certificate or of the key is left: not an error while empty.
validateOnBlur ==
  /\ ui.open /\ ui.step < 3 /\ UserActs
  /\ (IF ui.step = 1 THEN ui.form.cert ELSE ui.form.key) # ""
  /\ ui' = IF stepValid(ui.step, ui.form) THEN schedule(ui, ui.step) ELSE clear(ui)
  /\ UNCHANGED <<st, calls>>

\* The debounce runs out.
runScheduled ==
  /\ ui.timer # 0 /\ run(ui, ui.timer, "debounce")
  /\ UNCHANGED <<st, srv, acts, hist>>

goToNextStep ==
  /\ ui.open /\ ui.step < 3 /\ ~ui.validating /\ UserActs
  /\ IF stepValid(ui.step, ui.form) THEN run(ui, ui.step, "next")
     ELSE ui' = [ui EXCEPT !.timer = 0] /\ UNCHANGED calls
  /\ UNCHANGED st

handleEnable ==
  /\ ui.open /\ ui.step = 3 /\ ~ui.saving /\ ~ui.validating
  /\ stepValid(3, ui.form) /\ message(ui).kind # "error"
  /\ UserActs /\ run([ui EXCEPT !.saving = TRUE], 3, "enable")
  /\ UNCHANGED st

handleGoBack ==
  /\ ui.open /\ ui.step > 1 /\ UserActs
  /\ ui' = [clear(ui) EXCEPT !.step = @ - 1]
  /\ UNCHANGED <<st, calls>>

\* Closing drops messages and checks; opening starts afresh.
onClose(u) == [clear(u) EXCEPT !.open = FALSE]
closeWizard == ui.open /\ UserActs /\ ui' = onClose(ui) /\ UNCHANGED <<st, calls>>
openWizard ==
  /\ ~ui.open /\ ~st.enabled /\ UserActs
  /\ \E p \in Ports :
       ui' = [clear(ui) EXCEPT !.open = TRUE, !.step = 1, !.saving = FALSE,
                               !.form = [cert |-> "", key |-> "", ports |-> p]]
  /\ UNCHANGED <<st, calls>>

UserStep ==
  \/ handleFieldChange \/ validateOnBlur \/ goToNextStep \/ handleEnable \/ handleGoBack
  \/ closeWizard \/ openWizard

-----------------------------------------------------------------------------
\* The server (external).  It refuses to enable what it has an error for.
serve(r, c) ==
  \/ r = "check" /\ Served(r, c, srv, {})
  \/ /\ r = "set"
     /\ IF mapStepResult(3, c.arg).kind = "error" THEN Refused(r, c)
        ELSE Served(r, c, [enabled |-> TRUE, form |-> c.arg], {})

Server ==
  /\ \E r \in Requests : \E c \in calls[r] : Answer(c) = "out" /\ serve(r, c)
  /\ UNCHANGED <<st, ui, acts, hist>>

-----------------------------------------------------------------------------
\* requestAdvance: whether the step may be left.  A check that was superseded has
\* no result, like one that found nothing.
\* Mutant: an error lets the wizard go on.
ErrorsPass(u, c, result) ==
  \/ result.kind \in {"", "error"}
  \/ message(u).kind = ""
  \/ c.arg.shown = result
mayAdvance(u, c, result) ==
  \/ result.kind = ""
  \/ result.kind = "warning" /\ (message(u).kind = "" \/ c.arg.shown = result)

\* The answer of a check: shown unless superseded; an error leads back to the
\* step that owns its field.  Then Add goes on, or Enable saves the values as
\* they are by now.
checkDone(c) ==
  LET superseded == c.arg.id # ui.checkId
      result == IF superseded \/ Answer(c) = "failed" THEN noMessage
                ELSE mapStepResult(c.arg.step, c.arg.form)
      back == result.kind = "error" /\ result.step # 0 /\ result.step < c.arg.step
      u == IF superseded THEN ui
           ELSE [ui EXCEPT !.validating = FALSE, !.checked = result,
                           !.step = IF back THEN result.step ELSE @]
      cs == Ended(calls, "check", c)
      advance == mayAdvance(u, c, result)
  IN  \/ /\ c.arg.by = "debounce" /\ ui' = u /\ calls' = cs /\ UNCHANGED st
      \/ /\ c.arg.by = "next" /\ calls' = cs /\ UNCHANGED st
         /\ ui' = IF advance THEN preflight([u EXCEPT !.step = c.arg.step + 1]) ELSE u
      \/ /\ c.arg.by = "enable" /\ advance
         /\ st' = [st EXCEPT !.busy = @ \cup {"config"}]
         /\ calls' = Sent(cs, "set", ui.form) /\ ui' = u
      \/ /\ c.arg.by = "enable" /\ ~advance
         /\ ui' = [u EXCEPT !.saving = FALSE] /\ calls' = cs /\ UNCHANGED st

\* A refused save blocks the step, a successful one closes the wizard.
setDone(c) ==
  /\ calls' = Ended(calls, "set", c)
  /\ IF Answer(c) = "ok"
     THEN /\ st' = [st EXCEPT !.busy = @ \ {"config"}, !.enabled = TRUE]
          /\ ui' = [onClose(ui) EXCEPT !.saving = FALSE]
     ELSE /\ st' = [st EXCEPT !.busy = @ \ {"config"}]
          /\ ui' = [ui EXCEPT !.checked = Message("error", 0), !.saving = FALSE]

Resume ==
  /\ \E r \in Requests : \E c \in calls[r] :
       /\ Answer(c) # "out"
       /\ IF r = "check" THEN checkDone(c) ELSE setDone(c)
       /\ hist' = [Learned(hist, c) EXCEPT !.failed = @ \/ Answer(c) = "failed"]
  /\ UNCHANGED <<srv, acts>>

Next == UserStep \/ runScheduled \/ Server \/ Resume

Spec == Init /\ [][Next]_vars /\ WF_vars(Server) /\ WF_vars(Resume) /\ WF_vars(runScheduled)

-----------------------------------------------------------------------------
\* The stores, the forms and the requests of the page are well formed.
TypeOK ==
  /\ DOMAIN st = DOMAIN initialState /\ st.busy \subseteq {"config"}
  /\ ui.form \in Form /\ ui.step \in 1 .. 3 /\ ui.timer \in 0 .. 3
  /\ ui.checked.kind \in {"", "warning", "error"}
  /\ DOMAIN calls = Requests

\* Add and Enable are disabled only while the check that will enable them again,
\* or the save, is out: also when checks supersede each other, when the user goes
\* back, edits, closes and reopens.
FlagsBacked ==
  /\ "config" \in st.busy => Waiting("set")
  /\ ui.validating => \E c \in calls["check"] : c.arg.id = ui.checkId
  /\ ui.saving => Waiting("set") \/ \E c \in calls["check"] : c.arg.by = "enable"

\* The wizard saves nothing that the server has an error for: if the user leaves
\* it alone while it checks, and no check fails.
CheckedSave ==
  hist.clean => \A c \in calls["set"] : mapStepResult(3, c.arg).kind # "error"

\* An error always holds back, as the comment on requestAdvance has it: also when
\* the values change or the wizard is closed while the check is out.
HoldsBack ==
  ~hist.failed => \A c \in calls["set"] : mapStepResult(3, c.arg).kind # "error"

\* A check always ends: the buttons come back.
LoaderEnds == ui.validating ~> ~ui.validating

=============================================================================
