------------------------------ MODULE WebProofs ------------------------------
(***************************************************************************)
(* Theorems about the pages of the web interface, for any number of acts   *)
(* of the user.                                                            *)
(***************************************************************************)
EXTENDS WebUI, TLAPS

(***************************************************************************)
(* The activations of handlers, as WebCalls keeps them.                    *)
(***************************************************************************)
IsCall(c) == c = [arg |-> c.arg, n |-> c.n, answer |-> c.answer]
CallsOK(cs, requests) == DOMAIN cs = requests /\ \A r \in requests : \A c \in cs[r] : IsCall(c)

\* What Sent makes of the activations, for some number n.
Added(cs, r, arg, n) == [cs EXCEPT ![r] = @ \cup {[arg |-> arg, n |-> n, answer |-> <<>>]}]

\* Sent adds one activation and leaves the others alone.
LEMMA SentAdds ==
    ASSUME NEW cs, NEW requests, NEW r \in requests, NEW arg, NEW n, CallsOK(cs, requests)
    PROVE  /\ CallsOK(Added(cs, r, arg, n), requests)
           /\ \A q \in requests \ {r} : Added(cs, r, arg, n)[q] = cs[q]
           /\ Added(cs, r, arg, n)[r] = cs[r] \cup {[arg |-> arg, n |-> n, answer |-> <<>>]}
<1> DEFINE new == [arg |-> arg, n |-> n, answer |-> <<>>]
<1>1. IsCall(new)
  BY DEF IsCall
<1>2. Added(cs, r, arg, n) = [cs EXCEPT ![r] = @ \cup {new}]
  BY DEF Added
<1>3. \A q \in requests \ {r} : Added(cs, r, arg, n)[q] = cs[q]
  BY <1>2 DEF CallsOK
<1>4. Added(cs, r, arg, n)[r] = cs[r] \cup {new} /\ DOMAIN Added(cs, r, arg, n) = requests
  BY <1>2 DEF CallsOK
<1>5. CallsOK(Added(cs, r, arg, n), requests)
  BY <1>1, <1>3, <1>4 DEF CallsOK
<1> QED
  BY <1>3, <1>4, <1>5

LEMMA EndedRemoves ==
    ASSUME NEW cs, NEW requests, NEW r \in requests, NEW c, CallsOK(cs, requests)
    PROVE  /\ CallsOK(Ended(cs, r, c), requests)
           /\ \A q \in requests \ {r} : Ended(cs, r, c)[q] = cs[q]
           /\ Ended(cs, r, c)[r] = cs[r] \ {c}
BY DEF Ended, CallsOK

Reply(c, answer) == [arg |-> c.arg, n |-> c.n, answer |-> answer]

LEMMA AnsweredChanges ==
    ASSUME NEW cs, NEW requests, NEW r \in requests, CallsOK(cs, requests), NEW c \in cs[r],
           NEW answer
    PROVE  /\ CallsOK(Answered(cs, r, c, answer), requests)
           /\ \A q \in requests \ {r} : Answered(cs, r, c, answer)[q] = cs[q]
           /\ Answered(cs, r, c, answer)[r] = (cs[r] \ {c}) \cup {Reply(c, answer)}
<1> DEFINE new == Reply(c, answer)
<1>1. [c EXCEPT !.answer = answer] = new
  BY DEF CallsOK, IsCall, Reply
<1>2. IsCall(new)
  BY DEF IsCall, Reply
<1>3. Answered(cs, r, c, answer) = [cs EXCEPT ![r] = (@ \ {c}) \cup {new}]
  BY <1>1 DEF Answered
<1>4. /\ DOMAIN Answered(cs, r, c, answer) = requests
      /\ \A q \in requests \ {r} : Answered(cs, r, c, answer)[q] = cs[q]
      /\ Answered(cs, r, c, answer)[r] = (cs[r] \ {c}) \cup {new}
  BY <1>3 DEF CallsOK
<1> QED
  BY <1>2, <1>4 DEF CallsOK

(***************************************************************************)
(* The wizard.  The check that Enable waits for is the only request that   *)
(* is out and is about the values in the form, as long as the user leaves  *)
(* the wizard alone.                                                       *)
(***************************************************************************)
WizardRequests == {"check", "set"}
WizardUi(u) ==
  DOMAIN u = {"open", "step", "form", "checked", "validating", "checkId", "timer", "saving"}
HistOK == hist.clean \in BOOLEAN /\ hist = [clean |-> hist.clean, failed |-> hist.failed]

EnableAlone ==
  hist.clean => \A c \in calls["check"] : c.arg.by = "enable" =>
    /\ calls["check"] = {c} /\ calls["set"] = {}
    /\ c.arg.id = ui.checkId /\ c.arg.step = 3 /\ c.arg.form = ui.form /\ ui.timer = 0

WizardInv ==
  /\ CallsOK(calls, WizardRequests) /\ WizardUi(ui) /\ HistOK
  /\ EnableAlone /\ TlsWizard!CheckedSave

LEMMA WizardCalls ==
    /\ \A cs, r, c : TlsWizard!Ended(cs, r, c) = Ended(cs, r, c)
    /\ \A cs, r, c, a : TlsWizard!Answered(cs, r, c, a) = Answered(cs, r, c, a)
    /\ \A c : TlsWizard!Answer(c) = Answer(c)
BY DEF TlsWizard!Ended, Ended, TlsWizard!Answered, Answered, TlsWizard!Answer, Answer

LEMMA WizardSent ==
    ASSUME NEW cs, NEW r, NEW arg
    PROVE  \E n : TlsWizard!Sent(cs, r, arg) = Added(cs, r, arg, n)
<1> DEFINE taken == {c.n : c \in {d \in cs[r] : d.arg = arg}}
           k == CHOOSE j \in 1 .. TlsWizard!Cardinality(taken) + 1 : j \notin taken
<1>1. TlsWizard!Sent(cs, r, arg) = Added(cs, r, arg, k)
  BY DEF TlsWizard!Sent, Added
<1> QED
  BY <1>1

LEMMA WizardInit == TlsWizard!Init => WizardInv
<1> SUFFICES ASSUME TlsWizard!Init PROVE WizardInv
  OBVIOUS
<1>1. calls = [r \in WizardRequests |-> {}]
  BY DEF TlsWizard!Init, TlsWizard!NoCalls, TlsWizard!Requests, WizardRequests
<1>2. CallsOK(calls, WizardRequests) /\ calls["check"] = {} /\ calls["set"] = {}
  BY <1>1 DEF CallsOK, WizardRequests
<1>3. WizardUi(ui)
  <2>1. PICK step, f :
          ui = TlsWizard!preflight([open |-> TRUE, step |-> step, form |-> f,
                 checked |-> TlsWizard!noMessage, validating |-> FALSE, checkId |-> 0,
                 timer |-> 0, saving |-> FALSE])
    BY Zenon DEF TlsWizard!Init
  <2> QED
    BY <2>1 DEF TlsWizard!preflight, TlsWizard!schedule, WizardUi
<1>4. HistOK
  BY DEF TlsWizard!Init, HistOK
<1> QED
  BY <1>2, <1>3, <1>4 DEF WizardInv, EnableAlone, TlsWizard!CheckedSave

\* A step of the user leaves a clean history only if nothing is out.
LEMMA WizardUserActs ==
    ASSUME WizardInv, TlsWizard!UserActs
    PROVE  HistOK' /\ (hist'.clean => calls["check"] = {} /\ calls["set"] = {})
BY DEF WizardInv, HistOK, TlsWizard!UserActs, TlsWizard!Act, TlsWizard!Noted, TlsWizard!Idle,
       CallsOK, WizardRequests

\* A step of the user that sends nothing.
LEMMA WizardLocal ==
    ASSUME WizardInv, TlsWizard!UserActs, UNCHANGED calls, WizardUi(ui')
    PROVE  WizardInv'
BY WizardUserActs DEF WizardInv, EnableAlone, TlsWizard!CheckedSave

\* A step that sends a check which Enable does not wait for.
LEMMA WizardRun ==
    ASSUME WizardInv, NEW u, NEW step, NEW by, WizardUi(u), TlsWizard!run(u, step, by)
    PROVE  /\ CallsOK(calls', WizardRequests) /\ WizardUi(ui') /\ calls'["set"] = calls["set"]
           /\ ui'.timer = 0 /\ ui'.form = u.form
           /\ \E c : /\ calls'["check"] = calls["check"] \cup {c}
                     /\ c.arg.by = by /\ c.arg.step = step
                     /\ c.arg.form = u.form /\ c.arg.id = ui'.checkId
<1> DEFINE arg == [step |-> step, form |-> u.form, id |-> u.checkId + 1,
                   by |-> by, shown |-> TlsWizard!message(u)]
<1>1. PICK n : calls' = Added(calls, "check", arg, n)
  BY WizardSent DEF TlsWizard!run
<1>2. ui' = [u EXCEPT !.checkId = @ + 1, !.validating = TRUE, !.timer = 0]
  BY DEF TlsWizard!run
<1>3. /\ WizardUi(ui') /\ ui'.timer = 0 /\ ui'.form = u.form
      /\ ui'.checkId = u.checkId + 1
  BY <1>2 DEF WizardUi
<1> DEFINE c == [arg |-> arg, n |-> n, answer |-> <<>>]
<1>4. c.arg.by = by /\ c.arg.step = step /\ c.arg.form = u.form /\ c.arg.id = ui'.checkId
  BY <1>3
<1> HIDE DEF arg
<1>5. CallsOK(calls, WizardRequests) /\ "check" \in WizardRequests
      /\ "set" \in WizardRequests \ {"check"}
  BY DEF WizardInv, WizardRequests
<1>6. /\ CallsOK(calls', WizardRequests) /\ calls'["set"] = calls["set"]
      /\ calls'["check"] = calls["check"] \cup {c}
  BY <1>1, <1>5, SentAdds
<1> HIDE DEF c
<1> QED
  BY <1>3, <1>4, <1>6

LEMMA WizardForm ==
    ASSUME NEW u, WizardUi(u)
    PROVE  /\ WizardUi(TlsWizard!clear(u)) /\ WizardUi(TlsWizard!preflight(u))
           /\ \A k : WizardUi(TlsWizard!schedule(u, k))
           /\ \A k : WizardUi([u EXCEPT !.step = k])
BY DEF WizardUi, TlsWizard!clear, TlsWizard!preflight, TlsWizard!schedule

LEMMA WizardUser == WizardInv /\ TlsWizard!UserStep => WizardInv'
<1> SUFFICES ASSUME WizardInv, TlsWizard!UserStep PROVE WizardInv'
  OBVIOUS
<1>0. WizardUi(ui) /\ WizardUi(TlsWizard!clear(ui))
  BY WizardForm DEF WizardInv
<1>1. CASE TlsWizard!handleFieldChange
  <2> DEFINE u == TlsWizard!clear(ui)
  <2>1. CASE TlsWizard!PemSourceFields(u)
    <3>1. \E v : ui' = [u EXCEPT !.form.cert = v] \/ ui' = [u EXCEPT !.form.key = v]
      BY <2>1 DEF TlsWizard!PemSourceFields
    <3> HIDE DEF u
    <3>2. WizardUi(ui')
      BY <1>0, <3>1 DEF WizardUi, u
    <3> QED
      BY <1>1, <3>2, WizardLocal DEF TlsWizard!handleFieldChange
  <2>2. CASE TlsWizard!ServerSettingsFields(u)
    <3>1. PICK v : ui' = TlsWizard!preflight([u EXCEPT !.form.ports = v])
      BY <2>2 DEF TlsWizard!ServerSettingsFields
    <3> HIDE DEF u
    <3>2. WizardUi([u EXCEPT !.form.ports = v])
      BY <1>0 DEF WizardUi, u
    <3>3. WizardUi(ui')
      BY <3>1, <3>2, WizardForm
    <3> QED
      BY <1>1, <3>3, WizardLocal DEF TlsWizard!handleFieldChange
  <2> QED
    BY <1>1, <2>1, <2>2 DEF TlsWizard!handleFieldChange
<1>2. CASE TlsWizard!validateOnBlur
  <2>1. WizardUi(ui')
    BY <1>0, <1>2, WizardForm DEF TlsWizard!validateOnBlur
  <2> QED
    BY <1>2, <2>1, WizardLocal DEF TlsWizard!validateOnBlur
<1>3. CASE TlsWizard!goToNextStep
  <2>1. CASE TlsWizard!stepValid(ui.step, ui.form)
    <3>1. TlsWizard!run(ui, ui.step, "next") /\ TlsWizard!UserActs
      BY <1>3, <2>1 DEF TlsWizard!goToNextStep
    <3>2. PICK c : calls'["check"] = calls["check"] \cup {c} /\ c.arg.by = "next"
      BY <1>0, <3>1, WizardRun
    <3>3. CallsOK(calls', WizardRequests) /\ WizardUi(ui') /\ calls'["set"] = calls["set"]
      BY <1>0, <3>1, WizardRun
    <3> QED
      BY <3>1, <3>2, <3>3, WizardUserActs DEF WizardInv, EnableAlone, TlsWizard!CheckedSave
  <2>2. CASE ~TlsWizard!stepValid(ui.step, ui.form)
    <3>1. ui' = [ui EXCEPT !.timer = 0] /\ UNCHANGED calls /\ TlsWizard!UserActs
      BY <1>3, <2>2 DEF TlsWizard!goToNextStep
    <3>2. WizardUi(ui')
      BY <1>0, <3>1 DEF WizardUi
    <3> QED
      BY <3>1, <3>2, WizardLocal
  <2> QED
    BY <2>1, <2>2
<1>4. CASE TlsWizard!handleEnable
  <2> DEFINE u == [ui EXCEPT !.saving = TRUE]
  <2>1. TlsWizard!run(u, 3, "enable") /\ TlsWizard!UserActs
    BY <1>4 DEF TlsWizard!handleEnable
  <2>2. WizardUi(u)
    BY <1>0 DEF WizardUi
  <2> HIDE DEF u
  <2>3. /\ CallsOK(calls', WizardRequests) /\ WizardUi(ui') /\ calls'["set"] = calls["set"]
        /\ ui'.timer = 0 /\ ui'.form = u.form
    BY <2>1, <2>2, WizardRun
  <2>4. PICK c : /\ calls'["check"] = calls["check"] \cup {c}
                 /\ c.arg.by = "enable" /\ c.arg.step = 3
                 /\ c.arg.form = u.form /\ c.arg.id = ui'.checkId
    BY <2>1, <2>2, WizardRun
  <2> QED
    BY <2>1, <2>3, <2>4, WizardUserActs DEF WizardInv, EnableAlone, TlsWizard!CheckedSave
<1>5. CASE TlsWizard!handleGoBack
  <2>1. WizardUi(ui')
    BY <1>0, <1>5, WizardForm DEF TlsWizard!handleGoBack
  <2> QED
    BY <1>5, <2>1, WizardLocal DEF TlsWizard!handleGoBack
<1>6. CASE TlsWizard!closeWizard
  <2>1. WizardUi(ui')
    BY <1>0, <1>6 DEF TlsWizard!closeWizard, TlsWizard!onClose, WizardUi
  <2> QED
    BY <1>6, <2>1, WizardLocal DEF TlsWizard!closeWizard
<1>7. CASE TlsWizard!openWizard
  <2>1. WizardUi(ui')
    BY <1>0, <1>7 DEF TlsWizard!openWizard, WizardUi
  <2> QED
    BY <1>7, <2>1, WizardLocal DEF TlsWizard!openWizard
<1> QED
  BY <1>1, <1>2, <1>3, <1>4, <1>5, <1>6, <1>7 DEF TlsWizard!UserStep

LEMMA WizardTimer == WizardInv /\ TlsWizard!runScheduled => WizardInv'
<1> SUFFICES ASSUME WizardInv, TlsWizard!runScheduled PROVE WizardInv'
  OBVIOUS
<1>1. TlsWizard!run(ui, ui.timer, "debounce") /\ ui.timer # 0 /\ UNCHANGED hist /\ WizardUi(ui)
  BY DEF TlsWizard!runScheduled, WizardInv
<1>2. PICK c : calls'["check"] = calls["check"] \cup {c} /\ c.arg.by = "debounce"
  BY <1>1, WizardRun
<1>3. CallsOK(calls', WizardRequests) /\ WizardUi(ui') /\ calls'["set"] = calls["set"]
  BY <1>1, WizardRun
<1>4. hist.clean => \A d \in calls["check"] : d.arg.by # "enable"
  BY <1>1 DEF WizardInv, EnableAlone
<1> QED
  BY <1>1, <1>2, <1>3, <1>4 DEF WizardInv, HistOK, EnableAlone, TlsWizard!CheckedSave

\* The server changes the answer of one activation at a time.
LEMMA WizardServer == WizardInv /\ TlsWizard!Server => WizardInv'
<1> SUFFICES ASSUME WizardInv, TlsWizard!Server PROVE WizardInv'
  OBVIOUS
<1>1. PICK r \in WizardRequests : \E c \in calls[r] : TlsWizard!serve(r, c)
  BY DEF TlsWizard!Server, TlsWizard!Requests, WizardRequests
<1>2. PICK c \in calls[r] : TlsWizard!serve(r, c)
  BY <1>1
<1>3. PICK a : calls' = Answered(calls, r, c, a)
  BY <1>2, WizardCalls
     DEF TlsWizard!serve, TlsWizard!Served, TlsWizard!Refused
<1>4. UNCHANGED <<ui, hist>>
  BY DEF TlsWizard!Server
<1> DEFINE new == Reply(c, a)
<1>5. /\ CallsOK(calls', WizardRequests)
      /\ \A q \in WizardRequests \ {r} : calls'[q] = calls[q]
      /\ calls'[r] = (calls[r] \ {c}) \cup {new}
  BY <1>3, AnsweredChanges DEF WizardInv
<1>6. new.arg = c.arg
  BY DEF Reply
<1> HIDE DEF new
<1>7. CASE r = "check"
  <2>1. calls'["set"] = calls["set"] /\ calls'["check"] = (calls["check"] \ {c}) \cup {new}
    BY <1>5, <1>7 DEF WizardRequests
  <2> QED
    BY <1>2, <1>4, <1>5, <1>6, <1>7, <2>1 DEF WizardInv, HistOK, EnableAlone, TlsWizard!CheckedSave
<1>8. CASE r = "set"
  <2>1. calls'["check"] = calls["check"] /\ calls'["set"] = (calls["set"] \ {c}) \cup {new}
    BY <1>5, <1>8 DEF WizardRequests
  <2> QED
    BY <1>2, <1>4, <1>5, <1>6, <1>8, <2>1 DEF WizardInv, HistOK, EnableAlone, TlsWizard!CheckedSave
<1> QED
  BY <1>7, <1>8 DEF WizardRequests

\* The answer that Enable waits for is about the values that are saved.
LEMMA WizardChecked ==
    ASSUME WizardInv, NEW c \in calls["check"], TlsWizard!checkDone(c),
           hist'.clean => hist.clean /\ Answer(c) = "ok", HistOK'
    PROVE  WizardInv'
<1> DEFINE superseded == c.arg.id # ui.checkId
           result == IF superseded \/ TlsWizard!Answer(c) = "failed" THEN TlsWizard!noMessage
                     ELSE TlsWizard!mapStepResult(c.arg.step, c.arg.form)
           back == result.kind = "error" /\ result.step # 0 /\ result.step < c.arg.step
           u == IF superseded THEN ui
                ELSE [ui EXCEPT !.validating = FALSE, !.checked = result,
                                !.step = IF back THEN result.step ELSE @]
           cs == Ended(calls, "check", c)
           advance == TlsWizard!mayAdvance(u, c, result)
<1>1. \/ c.arg.by = "debounce" /\ ui' = u /\ calls' = cs
      \/ /\ c.arg.by = "next" /\ calls' = cs
         /\ ui' = IF advance THEN TlsWizard!preflight([u EXCEPT !.step = c.arg.step + 1]) ELSE u
      \/ /\ c.arg.by = "enable" /\ advance
         /\ calls' = TlsWizard!Sent(cs, "set", ui.form) /\ ui' = u
      \/ /\ c.arg.by = "enable" /\ ~advance
         /\ ui' = [u EXCEPT !.saving = FALSE] /\ calls' = cs
  BY WizardCalls DEF TlsWizard!checkDone
<1>2. WizardUi(u)
  BY DEF WizardInv, WizardUi
<1>3. hist.clean /\ c.arg.by = "enable" /\ Answer(c) = "ok" /\ advance =>
        TlsWizard!mapStepResult(3, ui.form).kind # "error"
  <2> SUFFICES ASSUME hist.clean, c.arg.by = "enable", Answer(c) = "ok", advance
               PROVE  TlsWizard!mapStepResult(3, ui.form).kind # "error"
    OBVIOUS
  <2>1. result = TlsWizard!mapStepResult(3, ui.form)
    BY WizardCalls DEF WizardInv, EnableAlone
  <2> HIDE DEF u, result
  <2>2. result.kind # "error"
    BY DEF TlsWizard!mayAdvance
  <2> QED
    BY <2>1, <2>2
<1>4. CallsOK(calls, WizardRequests) /\ "check" \in WizardRequests /\ "set" \in WizardRequests
      /\ "set" # "check"
  BY DEF WizardInv, WizardRequests
<1>5. /\ CallsOK(cs, WizardRequests) /\ cs["set"] = calls["set"]
      /\ cs["check"] = calls["check"] \ {c}
  BY <1>4, EndedRemoves
<1> HIDE DEF superseded, result, back, u, cs, advance
<1>6. WizardUi(ui')
  <2>1. CASE c.arg.by = "next"
    <3>1. WizardUi(TlsWizard!preflight([u EXCEPT !.step = c.arg.step + 1]))
      <4>1. WizardUi([u EXCEPT !.step = c.arg.step + 1])
        BY <1>2, WizardForm
      <4> QED
        BY <4>1, WizardForm
    <3> QED
      BY <1>1, <1>2, <2>1, <3>1
  <2>2. CASE c.arg.by # "next"
    BY <1>1, <1>2, <2>2 DEF WizardUi
  <2> QED
    BY <2>1, <2>2
\* If all is clean, c is the only check, or Enable waits for none.
<1>7. hist.clean => \A d \in cs["check"] : d.arg.by # "enable"
  BY <1>5 DEF WizardInv, EnableAlone
<1>8. CASE calls' = cs
  BY <1>5, <1>6, <1>7, <1>8 DEF WizardInv, EnableAlone, TlsWizard!CheckedSave
<1>9. CASE c.arg.by = "enable" /\ advance /\ calls' = TlsWizard!Sent(cs, "set", ui.form)
  <2>1. PICK n : calls' = Added(cs, "set", ui.form, n)
    BY <1>9, WizardSent
  <2> DEFINE new == [arg |-> ui.form, n |-> n, answer |-> <<>>]
  <2>2. /\ CallsOK(calls', WizardRequests) /\ calls'["check"] = cs["check"]
        /\ calls'["set"] = calls["set"] \cup {new}
    BY <1>4, <1>5, <2>1, SentAdds
  <2>3. new.arg = ui.form
    OBVIOUS
  <2> HIDE DEF new
  <2>4. hist'.clean => \A d \in calls'["set"] : TlsWizard!mapStepResult(3, d.arg).kind # "error"
    BY <1>3, <1>9, <2>2, <2>3 DEF WizardInv, TlsWizard!CheckedSave
  <2> QED
    BY <1>6, <1>7, <2>2, <2>4 DEF WizardInv, EnableAlone, TlsWizard!CheckedSave
<1> QED
  BY <1>1, <1>8, <1>9

LEMMA WizardResume == WizardInv /\ TlsWizard!Resume => WizardInv'
<1> SUFFICES ASSUME WizardInv, TlsWizard!Resume PROVE WizardInv'
  OBVIOUS
<1>0. PICK r \in WizardRequests : \E c \in calls[r] :
        /\ IF r = "check" THEN TlsWizard!checkDone(c) ELSE TlsWizard!setDone(c)
        /\ hist' = [TlsWizard!Learned(hist, c) EXCEPT !.failed = @ \/ TlsWizard!Answer(c) = "failed"]
  BY DEF TlsWizard!Resume, TlsWizard!Requests, WizardRequests
<1>1. PICK c \in calls[r] :
        /\ IF r = "check" THEN TlsWizard!checkDone(c) ELSE TlsWizard!setDone(c)
        /\ hist' = [TlsWizard!Learned(hist, c) EXCEPT !.failed = @ \/ TlsWizard!Answer(c) = "failed"]
  BY <1>0
<1>2. HistOK' /\ (hist'.clean => hist.clean /\ Answer(c) = "ok")
  BY <1>1, WizardCalls DEF TlsWizard!Learned, WizardInv, HistOK
<1>3. CASE r = "check"
  BY <1>1, <1>2, <1>3, WizardChecked
<1>4. CASE r = "set"
  <2>1. calls' = Ended(calls, "set", c) /\ WizardUi(ui')
    BY <1>1, <1>4, WizardCalls
       DEF TlsWizard!setDone, TlsWizard!onClose, TlsWizard!clear, WizardInv, WizardUi
  <2>2. /\ CallsOK(calls', WizardRequests) /\ calls'["check"] = calls["check"]
        /\ calls'["set"] = calls["set"] \ {c}
    BY <2>1, EndedRemoves DEF WizardInv, WizardRequests
  <2>3. hist.clean => \A d \in calls["check"] : d.arg.by # "enable"
    BY <1>1, <1>4 DEF WizardInv, EnableAlone
  <2> QED
    BY <1>2, <2>1, <2>2, <2>3 DEF WizardInv, EnableAlone, TlsWizard!CheckedSave
<1> QED
  BY <1>3, <1>4 DEF WizardRequests

(***************************************************************************)
(* The encryption page.  The page never holds a key, so a server that has  *)
(* one has had it all along: no answer of a check was given without it.    *)
(***************************************************************************)
EncryptionRequests == {"status", "set", "validate", "check"}
IsCfg(cfg) == DOMAIN cfg = {"enabled", "plain", "force", "name", "cert", "key", "saved"}
Keyless(cfg) == IsCfg(cfg) /\ cfg.key = ""
Mismatch(cfg) == Encryption!verdict(cfg) = "mismatch"

EncryptionShape ==
  /\ DOMAIN st = {"busy", "initialized", "cfg", "status"} /\ Keyless(st.cfg) /\ IsCfg(srv)
  /\ DOMAIN ui = {"on", "timer", "dialog", "name", "warning", "checked", "checkId"}
  /\ DOMAIN hist = {"clean", "failed", "seen"}

\* What is sent: a save of the dialog has been warned about, a check has all
\* that the server needs for its verdict.
EncryptionArg(r, arg) ==
  /\ r = "set" =>
       /\ Keyless(arg.cfg)
       /\ ~hist.failed /\ srv.key # "" /\ arg.by = "dialog" /\ Mismatch(arg.cfg)
            => arg.cfg.name \in hist.seen
  /\ r = "check" =>
       /\ Keyless(arg.cfg) /\ arg.cfg.cert # "" /\ arg.cfg.saved
       /\ arg.by = "again" => arg.cfg.name \in hist.seen

\* What is answered: no key, and a mismatch where there is one.
EncryptionAnswer(r, c) ==
  /\ Answer(c) \in {"out", "ok", "failed"}
  /\ Answer(c) = "ok" =>
       /\ r # "check" /\ "key" \in DOMAIN Data(c)[1] => Data(c)[1]["key"] = ""
       /\ r = "check" /\ srv.key # "" /\ Mismatch(c.arg.cfg) => Data(c) = "mismatch"

EncryptionCall(r, c) == EncryptionArg(r, c.arg) /\ EncryptionAnswer(r, c)

EncryptionInv ==
  /\ CallsOK(calls, EncryptionRequests) /\ EncryptionShape
  /\ \A r \in EncryptionRequests : \A c \in calls[r] : EncryptionCall(r, c)

LEMMA EncryptionCalls ==
    /\ \A cs, r, c : Encryption!Ended(cs, r, c) = Ended(cs, r, c)
    /\ \A cs, r, c, a : Encryption!Answered(cs, r, c, a) = Answered(cs, r, c, a)
    /\ \A c : Encryption!Answer(c) = Answer(c) /\ Encryption!Data(c) = Data(c)
BY DEF Encryption!Ended, Ended, Encryption!Answered, Answered, Encryption!Answer, Answer,
       Encryption!Data, Data

LEMMA EncryptionSent ==
    ASSUME NEW cs, NEW r, NEW arg
    PROVE  \E n : Encryption!Sent(cs, r, arg) = Added(cs, r, arg, n)
<1> DEFINE taken == {c.n : c \in {d \in cs[r] : d.arg = arg}}
           k == CHOOSE j \in 1 .. Encryption!Cardinality(taken) + 1 : j \notin taken
<1>1. Encryption!Sent(cs, r, arg) = Added(cs, r, arg, k)
  BY DEF Encryption!Sent, Added
<1> QED
  BY <1>1

\* A step that forgets no warning and gives the server no key keeps what is
\* known of the requests that stay as they are.
Grows ==
  /\ hist.seen \subseteq hist'.seen /\ (hist.failed => hist'.failed)
  /\ srv'.key # "" => srv.key # ""

LEMMA EncryptionArgKept ==
    ASSUME Grows, NEW r, NEW arg, EncryptionArg(r, arg)
    PROVE  EncryptionArg(r, arg)'
BY DEF EncryptionArg, Grows, Keyless, IsCfg, Mismatch, Encryption!verdict, Encryption!hasCert,
       Encryption!hasKey

LEMMA EncryptionFrame ==
    ASSUME EncryptionInv, EncryptionShape', Grows, CallsOK(calls', EncryptionRequests),
           \A r \in EncryptionRequests : \A c \in calls'[r] :
             c \in calls[r] \/ EncryptionCall(r, c)'
    PROVE  EncryptionInv'
<1>1. ASSUME NEW r \in EncryptionRequests, NEW c \in calls[r] PROVE EncryptionCall(r, c)'
  <2>1. EncryptionCall(r, c)
    BY <1>1 DEF EncryptionInv
  <2>2. EncryptionArg(r, c.arg)'
    BY <2>1, EncryptionArgKept DEF EncryptionCall
  <2>3. EncryptionAnswer(r, c)'
    BY <2>1 DEF EncryptionCall, EncryptionAnswer, Grows, Mismatch, Encryption!verdict,
                Encryption!hasCert, Encryption!hasKey, Answer, Data
  <2> QED
    BY <2>2, <2>3 DEF EncryptionCall
<1> QED
  BY <1>1 DEF EncryptionInv

\* The same for a step that sends a request.
LEMMA EncryptionSends ==
    ASSUME EncryptionInv, EncryptionShape', Grows,
           NEW r \in EncryptionRequests, NEW arg, calls' = Encryption!Sent(calls, r, arg),
           EncryptionArg(r, arg)'
    PROVE  EncryptionInv'
<1>1. PICK n : calls' = Added(calls, r, arg, n)
  BY EncryptionSent
<1> DEFINE new == [arg |-> arg, n |-> n, answer |-> <<>>]
<1>2. /\ CallsOK(calls', EncryptionRequests) /\ calls'[r] = calls[r] \cup {new}
      /\ \A q \in EncryptionRequests \ {r} : calls'[q] = calls[q]
  BY <1>1, SentAdds DEF EncryptionInv
<1>3. EncryptionCall(r, new)'
  <2>1. new.arg = arg /\ Answer(new) = "out"
    BY DEF Answer
  <2>2. EncryptionAnswer(r, new)'
    BY <2>1 DEF EncryptionAnswer, Answer
  <2> QED
    BY <2>1, <2>2 DEF EncryptionCall
<1> QED
  BY <1>2, <1>3, EncryptionFrame

LEMMA EncryptionInit == Encryption!Init => EncryptionInv
<1> SUFFICES ASSUME Encryption!Init PROVE EncryptionInv
  OBVIOUS
<1> DEFINE none == [r \in EncryptionRequests |-> {}]
<1>1. calls = Encryption!Sent(none, "status", <<>>)
  BY DEF Encryption!Init, Encryption!NoCalls, Encryption!Requests, EncryptionRequests
<1>2. CallsOK(none, EncryptionRequests) /\ \A r \in EncryptionRequests : none[r] = {}
  BY DEF CallsOK
<1> HIDE DEF none
<1>3. PICK n : calls = Added(none, "status", <<>>, n)
  BY <1>1, EncryptionSent
<1> DEFINE new == [arg |-> <<>>, n |-> n, answer |-> <<>>]
<1>4. /\ CallsOK(calls, EncryptionRequests) /\ calls["status"] = none["status"] \cup {new}
      /\ \A q \in EncryptionRequests \ {"status"} : calls[q] = none[q]
  BY <1>2, <1>3, SentAdds DEF EncryptionRequests
<1>5. EncryptionCall("status", new)
  BY DEF EncryptionCall, EncryptionArg, EncryptionAnswer, Answer
<1>6. EncryptionShape
  <2>1. IsCfg(srv)
    BY DEF Encryption!Init, IsCfg
  <2>2. Keyless(st.cfg) /\ DOMAIN st = {"busy", "initialized", "cfg", "status"}
    BY DEF Encryption!Init, Encryption!initialState, Encryption!defaultTlsValues, Keyless, IsCfg
  <2>3. /\ DOMAIN ui = {"on", "timer", "dialog", "name", "warning", "checked", "checkId"}
        /\ DOMAIN hist = {"clean", "failed", "seen"}
    BY DEF Encryption!Init
  <2> QED
    BY <2>1, <2>2, <2>3 DEF EncryptionShape
<1> HIDE DEF new
<1> QED
  BY <1>2, <1>4, <1>5, <1>6 DEF EncryptionInv

\* The values that are sent hold no key.
LEMMA KeylessOver ==
    ASSUME EncryptionShape, NEW values, "key" \in DOMAIN values => values["key"] = ""
    PROVE  Keyless(Encryption!Over(values))
BY DEF EncryptionShape, Keyless, IsCfg, Encryption!Over

LEMMA KeylessDefault ==
    /\ Keyless(Encryption!defaultTlsValues)
    /\ Keyless(Encryption!getSubmitValues(Encryption!defaultTlsValues))
BY DEF Encryption!defaultTlsValues, Encryption!getSubmitValues, Keyless, IsCfg

\* A save of the page, which no dialog holds back.
LEMMA EncryptionPageSave ==
    ASSUME EncryptionInv, EncryptionShape', Grows, NEW cfg, Keyless(cfg),
           calls' = Encryption!setTlsConfig(calls, cfg, "page")
    PROVE  EncryptionInv'
<1> DEFINE arg == [cfg |-> cfg, by |-> "page"]
<1>1. calls' = Encryption!Sent(calls, "set", arg)
  BY DEF Encryption!setTlsConfig
<1>2. EncryptionArg("set", arg)'
  BY DEF EncryptionArg, Keyless, IsCfg
<1> HIDE DEF arg
<1> QED
  BY <1>1, <1>2, EncryptionSends DEF EncryptionRequests

\* The history and the server under a step of the user.
LEMMA EncryptionUserSends ==
    ASSUME EncryptionShape, Encryption!UserSends
    PROVE  Grows /\ srv' = srv /\ hist'.seen = hist.seen
           /\ DOMAIN hist' = {"clean", "failed", "seen"} /\ hist'.failed = hist.failed
BY DEF EncryptionShape, Encryption!UserSends, Encryption!Act, Grows

\* The switches of the page.
LEMMA EncryptionSwitch ==
    ASSUME EncryptionInv, Encryption!UserSends, DOMAIN ui' = DOMAIN ui,
           NEW values, "key" \in DOMAIN values => values["key"] = "",
           Encryption!save(values, "page")
    PROVE  EncryptionInv'
<1>1. Grows /\ srv' = srv /\ DOMAIN hist' = {"clean", "failed", "seen"}
  BY EncryptionUserSends DEF EncryptionInv
<1>2. EncryptionShape'
  BY <1>1 DEF EncryptionInv, EncryptionShape, Encryption!save, Keyless, IsCfg
<1>3. PICK cfg : cfg = Encryption!Over(values)
  OBVIOUS
<1>4. Keyless(cfg) /\ calls' = Encryption!setTlsConfig(calls, cfg, "page")
  BY <1>3, KeylessOver DEF EncryptionInv, Encryption!save
<1> QED
  BY <1>1, <1>2, <1>4, EncryptionPageSave

\* A step that only looks, or types.
LEMMA EncryptionLook ==
    ASSUME EncryptionInv, DOMAIN ui' = DOMAIN ui, Encryption!Look
    PROVE  EncryptionInv'
<1>1. EncryptionShape' /\ Grows /\ calls' = calls
  BY DEF EncryptionInv, EncryptionShape, Encryption!Look, Grows, Keyless, IsCfg
<1> QED
  BY <1>1, EncryptionFrame DEF EncryptionInv

\* The check that is sent has what canCheck asks for.
LEMMA EncryptionRunCheck ==
    ASSUME EncryptionInv, NEW by, Encryption!runCheck(by), Encryption!canCheck, Grows,
           st' = st, srv' = srv, DOMAIN hist' = {"clean", "failed", "seen"},
           by = "again" => ui.name \in hist'.seen
    PROVE  EncryptionInv'
<1>1. EncryptionShape
  BY DEF EncryptionInv
<1>2. PICK cfg : cfg = Encryption!getSubmitValues([Encryption!Draft EXCEPT !.enabled = TRUE])
  OBVIOUS
<1>3. Keyless(cfg) /\ cfg.cert # "" /\ cfg.saved /\ cfg.name = ui.name
  BY <1>1, <1>2 DEF EncryptionShape, Keyless, IsCfg, Encryption!getSubmitValues,
     Encryption!Draft, Encryption!canCheck, Encryption!hasCert, Encryption!hasKey
<1>4. PICK arg : arg = [cfg |-> cfg, id |-> ui.checkId + 1, by |-> by]
  OBVIOUS
<1>5. calls' = Encryption!Sent(calls, "check", arg) /\ DOMAIN ui' = DOMAIN ui
  BY <1>2, <1>4 DEF Encryption!runCheck
<1>6. EncryptionShape'
  BY <1>1, <1>5 DEF EncryptionShape, Keyless, IsCfg
<1>7. EncryptionArg("check", arg)'
  BY <1>3, <1>4 DEF EncryptionArg, Keyless, IsCfg
<1> QED
  BY <1>5, <1>6, <1>7, EncryptionSends DEF EncryptionRequests

\* The dialog saves without a check only what there is nothing to check of.
LEMMA EncryptionDialogSave ==
    ASSUME EncryptionInv, Encryption!saveSettings
    PROVE  EncryptionInv'
<1>1. EncryptionShape
  BY DEF EncryptionInv
<1>2. /\ srv' = srv
      /\ hist' = [hist EXCEPT !.clean = @ /\ Encryption!Idle /\ ui.timer = <<>>,
                     !.seen = @ \cup (IF Encryption!warningText THEN {ui.name} ELSE {})]
  BY DEF Encryption!saveSettings, Encryption!Act
<1>3. /\ Grows /\ DOMAIN hist' = {"clean", "failed", "seen"}
      /\ Encryption!warningText => ui.name \in hist'.seen
  BY <1>1, <1>2 DEF EncryptionShape, Grows
<1>4. CASE Encryption!canCheck
  <2>1. PICK by : by = IF Encryption!warningText THEN "again" ELSE "save"
    OBVIOUS
  <2>2. Encryption!runCheck(by) /\ st' = st
    BY <1>4, <2>1 DEF Encryption!saveSettings
  <2>3. by = "again" => ui.name \in hist'.seen
    BY <1>3, <2>1
  <2> QED
    BY <1>2, <1>3, <1>4, <2>2, <2>3, EncryptionRunCheck
<1>5. CASE ~Encryption!canCheck
  <2>1. PICK cfg : cfg = Encryption!Over([name |-> ui.name])
    OBVIOUS
  <2>2. Keyless(cfg)
    BY <1>1, <2>1, KeylessOver
  <2>3. cfg.cert = st.cfg.cert /\ cfg.saved = st.cfg.saved
    BY <1>1, <2>1 DEF EncryptionShape, Keyless, IsCfg, Encryption!Over
  <2>4. ~Mismatch(cfg)
    BY <1>5, <2>2, <2>3 DEF Keyless, Mismatch, Encryption!verdict, Encryption!canCheck,
       Encryption!hasCert, Encryption!hasKey
  <2>5. PICK arg : arg = [cfg |-> cfg, by |-> "dialog"]
    OBVIOUS
  <2>6. calls' = Encryption!Sent(calls, "set", arg)
    BY <1>5, <2>1, <2>5 DEF Encryption!saveSettings, Encryption!save, Encryption!setTlsConfig
  <2>7. EncryptionShape'
    BY <1>1, <1>2, <1>3, <1>5
       DEF EncryptionShape, Encryption!saveSettings, Encryption!save, Keyless, IsCfg
  <2>8. EncryptionArg("set", arg)'
    BY <2>2, <2>4, <2>5 DEF EncryptionArg, Keyless, IsCfg, Mismatch, Encryption!verdict,
       Encryption!hasCert, Encryption!hasKey
  <2> QED
    BY <1>3, <2>6, <2>7, <2>8, EncryptionSends DEF EncryptionRequests
<1> QED
  BY <1>4, <1>5

LEMMA EncryptionUser == EncryptionInv /\ Encryption!UserStep => EncryptionInv'
<1> SUFFICES ASSUME EncryptionInv, Encryption!UserStep PROVE EncryptionInv'
  OBVIOUS
<1>0. EncryptionShape
  BY DEF EncryptionInv
<1>1. CASE Encryption!handleEncryptedDnsChange
  <2>1. /\ Encryption!UserSends /\ DOMAIN ui' = DOMAIN ui
        /\ \/ Encryption!save([enabled |-> FALSE, plain |-> TRUE, force |-> FALSE], "page")
           \/ Encryption!save([enabled |-> TRUE], "page")
    BY <1>1 DEF Encryption!handleEncryptedDnsChange
  <2>2. /\ "key" \notin DOMAIN [enabled |-> FALSE, plain |-> TRUE, force |-> FALSE]
        /\ "key" \notin DOMAIN [enabled |-> TRUE]
    OBVIOUS
  <2> QED
    BY <2>1, <2>2, EncryptionSwitch
<1>2. CASE Encryption!RedirectToggle
  <2>1. PICK v : v = [force |-> ~st.cfg.force]
    OBVIOUS
  <2>2. "key" \notin DOMAIN v /\ Encryption!save(v, "page") /\ Encryption!UserSends /\ ui' = ui
    BY <1>2, <2>1 DEF Encryption!RedirectToggle
  <2> QED
    BY <2>2, EncryptionSwitch
<1>3. CASE Encryption!PlainDnsToggle
  <2>1. PICK v : v = [plain |-> ~st.cfg.plain]
    OBVIOUS
  <2>2. "key" \notin DOMAIN v /\ Encryption!save(v, "page") /\ Encryption!UserSends /\ ui' = ui
    BY <1>3, <2>1 DEF Encryption!PlainDnsToggle
  <2> QED
    BY <2>2, EncryptionSwitch
<1>4. CASE Encryption!handleRemoveCert
  <2> DEFINE cfg == Encryption!getSubmitValues(Encryption!defaultTlsValues)
  <2>1. /\ Encryption!UserSends /\ calls' = Encryption!setTlsConfig(calls, cfg, "page")
        /\ st' = [st EXCEPT !.busy = @ \cup {"config"}, !.cfg = cfg, !.status = ""]
        /\ ui' = Encryption!effects(ui, st')
    BY <1>4 DEF Encryption!handleRemoveCert
  <2>2. Keyless(cfg)
    BY KeylessDefault
  <2> HIDE DEF cfg
  <2>3. Grows /\ srv' = srv /\ DOMAIN hist' = {"clean", "failed", "seen"}
    BY <1>0, <2>1, EncryptionUserSends
  <2>4. DOMAIN ui' = DOMAIN ui
    BY <2>1 DEF Encryption!effects
  <2>5. EncryptionShape'
    BY <1>0, <2>1, <2>2, <2>3, <2>4 DEF EncryptionShape, Keyless, IsCfg
  <2> QED
    BY <2>1, <2>2, <2>3, <2>5, EncryptionPageSave
<1>5. CASE Encryption!ResetDnsModal
  <2>1. PICK arg : arg = [cfg |-> Encryption!Over(Encryption!defaultTlsValues), by |-> "page"]
    OBVIOUS
  <2> DEFINE cs == Encryption!Sent(calls, "set", arg)
  <2>2. /\ Encryption!UserSends /\ ui' = ui
        /\ st' = [st EXCEPT !.busy = @ \cup {"config", "validate"}, !.status = ""]
        /\ calls' = Encryption!Sent(cs, "validate", Encryption!defaultTlsValues)
    BY <1>5, <2>1 DEF Encryption!ResetDnsModal, Encryption!setTlsConfig
  <2>3. Keyless(arg.cfg) /\ arg.by = "page"
    BY <1>0, <2>1, KeylessOver, KeylessDefault DEF Keyless
  <2>4. PICK n : cs = Added(calls, "set", arg, n)
    BY EncryptionSent
  <2>5. PICK m : calls' = Added(cs, "validate", Encryption!defaultTlsValues, m)
    BY <2>2, EncryptionSent
  <2> DEFINE c1 == [arg |-> arg, n |-> n, answer |-> <<>>]
             c2 == [arg |-> Encryption!defaultTlsValues, n |-> m, answer |-> <<>>]
  <2>6. CallsOK(calls, EncryptionRequests) /\ "set" \in EncryptionRequests
        /\ "validate" \in EncryptionRequests
    BY DEF EncryptionInv, EncryptionRequests
  <2>7. /\ CallsOK(cs, EncryptionRequests) /\ cs["set"] = calls["set"] \cup {c1}
        /\ \A q \in EncryptionRequests \ {"set"} : cs[q] = calls[q]
    BY <2>4, <2>6, SentAdds
  <2> HIDE DEF cs
  <2>8. /\ CallsOK(calls', EncryptionRequests) /\ calls'["validate"] = cs["validate"] \cup {c2}
        /\ \A q \in EncryptionRequests \ {"validate"} : calls'[q] = cs[q]
    BY <2>5, <2>6, <2>7, SentAdds
  <2>9. EncryptionCall("set", c1)' /\ EncryptionCall("validate", c2)'
    BY <2>3 DEF EncryptionCall, EncryptionArg, EncryptionAnswer, Answer, Keyless, IsCfg
  <2>10. Grows /\ srv' = srv /\ DOMAIN hist' = {"clean", "failed", "seen"}
    BY <1>0, <2>2, EncryptionUserSends
  <2>11. EncryptionShape'
    BY <1>0, <2>2, <2>10 DEF EncryptionShape, Keyless, IsCfg
  <2> HIDE DEF c1, c2
  <2>12. \A q \in EncryptionRequests : \A c \in calls'[q] :
           c \in calls[q] \/ (q = "set" /\ c = c1) \/ (q = "validate" /\ c = c2)
    BY <2>7, <2>8
  <2> QED
    BY <2>8, <2>9, <2>10, <2>11, <2>12, EncryptionFrame
<1>6. CASE Encryption!openDialog \/ Encryption!closeDialog \/ Encryption!handleFieldInput
  BY <1>6, EncryptionLook
     DEF Encryption!openDialog, Encryption!closeDialog, Encryption!handleFieldInput
<1>7. CASE Encryption!handleFieldBlur
  <2>1. /\ Encryption!canCheck /\ Encryption!runCheck("blur") /\ st' = st
        /\ Encryption!UserSends
    BY <1>7 DEF Encryption!handleFieldBlur
  <2>2. Grows /\ srv' = srv /\ DOMAIN hist' = {"clean", "failed", "seen"}
    BY <1>0, <2>1, EncryptionUserSends
  <2> QED
    BY <2>1, <2>2, EncryptionRunCheck
<1>8. CASE Encryption!saveSettings
  BY <1>8, EncryptionDialogSave
<1> QED
  BY <1>1, <1>2, <1>3, <1>4, <1>5, <1>6, <1>7, <1>8 DEF Encryption!UserStep

LEMMA EncryptionTimer == EncryptionInv /\ Encryption!validateConfig => EncryptionInv'
<1> SUFFICES ASSUME EncryptionInv, Encryption!validateConfig PROVE EncryptionInv'
  OBVIOUS
<1>1. PICK arg : arg = ui.timer[1]
  OBVIOUS
<1>2. calls' = Encryption!Sent(calls, "validate", arg)
  BY <1>1 DEF Encryption!validateConfig
<1>3. EncryptionShape' /\ Grows
  BY DEF EncryptionInv, EncryptionShape, Encryption!validateConfig, Grows, Keyless, IsCfg
<1>4. EncryptionArg("validate", arg)'
  BY DEF EncryptionArg
<1> QED
  BY <1>2, <1>3, <1>4, EncryptionSends DEF EncryptionRequests

LEMMA EncryptionAnswered ==
    ASSUME EncryptionInv, NEW r \in EncryptionRequests, NEW c \in calls[r], NEW a
    PROVE  /\ CallsOK(Answered(calls, r, c, a), EncryptionRequests)
           /\ \A q \in EncryptionRequests \ {r} : Answered(calls, r, c, a)[q] = calls[q]
           /\ Answered(calls, r, c, a)[r] = (calls[r] \ {c}) \cup {Reply(c, a)}
<1>1. CallsOK(calls, EncryptionRequests)
  BY DEF EncryptionInv
<1> QED
  BY <1>1, AnsweredChanges

\* The server answers a request and has changed its own settings, or not.
LEMMA EncryptionServed ==
    ASSUME EncryptionInv, st' = st, ui' = ui, hist' = hist, IsCfg(srv'), Grows,
           NEW r \in EncryptionRequests, NEW c \in calls[r], NEW a,
           calls' = Answered(calls, r, c, a),
           NEW d, d = Reply(c, a), EncryptionAnswer(r, d)'
    PROVE  EncryptionInv'
<1>1. EncryptionShape'
  BY DEF EncryptionInv, EncryptionShape, Keyless, IsCfg
<1>2. /\ CallsOK(calls', EncryptionRequests) /\ calls'[r] = (calls[r] \ {c}) \cup {d}
      /\ \A q \in EncryptionRequests \ {r} : calls'[q] = calls[q]
  <2>1. CallsOK(Answered(calls, r, c, a), EncryptionRequests)
    BY EncryptionAnswered
  <2>2. \A q \in EncryptionRequests \ {r} : Answered(calls, r, c, a)[q] = calls[q]
    BY EncryptionAnswered
  <2>3. Answered(calls, r, c, a)[r] = (calls[r] \ {c}) \cup {Reply(c, a)}
    BY EncryptionAnswered
  <2> QED
    BY <2>1, <2>2, <2>3
<1>3. EncryptionCall(r, d)'
  <2>1. d.arg = c.arg /\ EncryptionArg(r, c.arg)
    BY DEF EncryptionInv, EncryptionCall, Reply
  <2> QED
    BY <1>1, <2>1, EncryptionArgKept DEF EncryptionCall
<1> QED
  BY <1>1, <1>2, <1>3, EncryptionFrame

\* The answers of the server hold no key.
LEMMA AnswerKeyless ==
    ASSUME NEW cfg
    PROVE  "key" \in DOMAIN Encryption!answerOf(cfg) => Encryption!answerOf(cfg)["key"] = ""
BY DEF Encryption!answerOf

\* What the server keeps of a save has a key only if the server has one.
LEMMA KeptKey ==
    ASSUME NEW cfg, Keyless(cfg), IsCfg(srv)
    PROVE  IsCfg(Encryption!Kept(cfg)) /\ (Encryption!Kept(cfg).key # "" => srv.key # "")
BY DEF Keyless, IsCfg, Encryption!Kept

\* With the key of the server, a check finds what there is to find.
LEMMA CheckFinds ==
    ASSUME NEW cfg, Keyless(cfg), cfg.cert # "", cfg.saved, srv.key # "", Mismatch(cfg)
    PROVE  Encryption!verdict(Encryption!Kept(cfg)) = "mismatch"
<1>1. /\ Encryption!Kept(cfg).key = srv.key /\ Encryption!Kept(cfg).cert = cfg.cert
      /\ Encryption!Kept(cfg).name = cfg.name
  BY DEF Keyless, IsCfg, Encryption!Kept
<1> QED
  BY <1>1 DEF Mismatch, Encryption!verdict, Encryption!hasCert, Encryption!hasKey

LEMMA EncryptionServer == EncryptionInv /\ Encryption!Server => EncryptionInv'
<1> SUFFICES ASSUME EncryptionInv, Encryption!Server PROVE EncryptionInv'
  OBVIOUS
<1>1. PICK r \in EncryptionRequests : \E c \in calls[r] : Encryption!serve(r, c)
  BY DEF Encryption!Server, Encryption!Requests, EncryptionRequests
<1>2. PICK c \in calls[r] : Encryption!serve(r, c)
  BY <1>1
<1>3. st' = st /\ ui' = ui /\ hist' = hist /\ IsCfg(srv) /\ EncryptionArg(r, c.arg)
  BY DEF Encryption!Server, EncryptionInv, EncryptionShape, EncryptionCall
\* The answer is lost: nothing is known of it.
<1>4. ASSUME calls' = Answered(calls, r, c, <<"failed">>), IsCfg(srv'), Grows
      PROVE  EncryptionInv'
  <2>1. PICK d : d = Reply(c, <<"failed">>)
    OBVIOUS
  <2>2. EncryptionAnswer(r, d)'
    BY <2>1 DEF EncryptionAnswer, Answer, Reply
  <2> QED
    BY <1>3, <1>4, <2>1, <2>2, EncryptionServed
<1>5. ASSUME NEW cfg, NEW v, calls' = Answered(calls, r, c, <<"ok", <<Encryption!answerOf(cfg), v>>>>),
             r # "check", IsCfg(srv'), Grows
      PROVE  EncryptionInv'
  <2>1. PICK a : a = <<"ok", <<Encryption!answerOf(cfg), v>>>>
    OBVIOUS
  <2>2. PICK d : d = Reply(c, a)
    OBVIOUS
  <2>3. a # <<>> /\ a[1] = "ok" /\ a[2][1] = Encryption!answerOf(cfg)
    BY <2>1
  <2>4. EncryptionAnswer(r, d)'
    BY <1>5, <2>2, <2>3, AnswerKeyless DEF EncryptionAnswer, Answer, Data, Reply
  <2> QED
    BY <1>3, <1>5, <2>1, <2>2, <2>4, EncryptionServed
<1>6. srv' = srv => Grows
  BY <1>3 DEF Grows
<1>7. CASE r = "status"
  <2>1. PICK cfg, v : cfg = srv /\ v = Encryption!verdict(srv)
    OBVIOUS
  <2>2. /\ srv' = srv
        /\ \/ calls' = Answered(calls, r, c, <<"ok", <<Encryption!answerOf(cfg), v>>>>)
           \/ calls' = Answered(calls, r, c, <<"failed">>)
    BY <1>2, <1>7, <2>1, EncryptionCalls DEF Encryption!serve, Encryption!Served
  <2> QED
    BY <1>3, <1>4, <1>5, <1>7, <1>6, <2>2
<1>8. CASE r = "set"
  <2>1. PICK cfg, v : cfg = Encryption!Kept(c.arg.cfg) /\ v = Encryption!verdict(cfg)
    OBVIOUS
  <2>2. IsCfg(cfg) /\ (cfg.key # "" => srv.key # "")
    BY <1>3, <1>8, <2>1, KeptKey DEF EncryptionArg
  <2>3. \/ /\ srv' = cfg
           /\ calls' = Answered(calls, r, c, <<"ok", <<Encryption!answerOf(cfg), v>>>>)
        \/ /\ srv' \in {srv, cfg}
           /\ calls' = Answered(calls, r, c, <<"failed">>)
    BY <1>2, <1>8, <2>1, EncryptionCalls DEF Encryption!serve, Encryption!Served, Encryption!Refused
  <2>4. IsCfg(srv') /\ Grows
    BY <1>3, <2>2, <2>3 DEF Grows
  <2> QED
    BY <1>4, <1>5, <1>8, <2>3, <2>4
<1>9. CASE r = "validate"
  <2>1. PICK cfg, v : cfg = Encryption!Kept(c.arg) /\ v = Encryption!verdict(cfg)
    OBVIOUS
  <2>2. /\ srv' = srv
        /\ \/ calls' = Answered(calls, r, c, <<"ok", <<Encryption!answerOf(cfg), v>>>>)
           \/ calls' = Answered(calls, r, c, <<"failed">>)
    BY <1>2, <1>9, <2>1, EncryptionCalls DEF Encryption!serve, Encryption!Served
  <2> QED
    BY <1>3, <1>4, <1>5, <1>9, <1>6, <2>2
<1>10. CASE r = "check"
  <2>1. PICK v : v = Encryption!verdict(Encryption!Kept(c.arg.cfg))
    OBVIOUS
  <2>2. /\ srv' = srv
        /\ \/ calls' = Answered(calls, r, c, <<"ok", v>>)
           \/ calls' = Answered(calls, r, c, <<"failed">>)
    BY <1>2, <1>10, <2>1, EncryptionCalls DEF Encryption!serve, Encryption!Served
  <2>3. CASE calls' = Answered(calls, r, c, <<"ok", v>>)
    <3>1. PICK d : d = Reply(c, <<"ok", v>>)
      OBVIOUS
    <3>2. srv.key # "" /\ Mismatch(c.arg.cfg) => v = "mismatch"
      BY <1>3, <1>10, <2>1, CheckFinds DEF EncryptionArg
    <3>3. d.arg = c.arg /\ d.answer # <<>> /\ d.answer[1] = "ok" /\ d.answer[2] = v
      BY <3>1 DEF Reply
    <3>4. EncryptionAnswer(r, d)
      BY <1>10, <3>2, <3>3 DEF EncryptionAnswer, Answer, Data
    <3>5. EncryptionAnswer(r, d)'
      BY <2>2, <3>4 DEF EncryptionAnswer, Answer, Data, Mismatch, Encryption!verdict,
         Encryption!hasCert, Encryption!hasKey
    <3> QED
      BY <1>3, <1>6, <2>2, <2>3, <3>1, <3>5, EncryptionServed
  <2> QED
    BY <1>3, <1>4, <1>6, <2>2, <2>3
<1> QED
  BY <1>7, <1>8, <1>9, <1>10 DEF EncryptionRequests

LEMMA EncryptionStored ==
    ASSUME EncryptionInv, NEW r \in EncryptionRequests, r # "check", NEW c \in calls[r],
           Encryption!storeDone(r, c), Grows, srv' = srv, DOMAIN hist' = DOMAIN hist
    PROVE  EncryptionInv'
<1>1. EncryptionShape /\ EncryptionAnswer(r, c) /\ CallsOK(calls, EncryptionRequests)
  BY DEF EncryptionInv, EncryptionCall
<1>2. calls' = Ended(calls, r, c) /\ ui' = Encryption!effects(ui, st')
  BY EncryptionCalls DEF Encryption!storeDone
<1>3. DOMAIN ui' = DOMAIN ui
  BY <1>2 DEF Encryption!effects
<1>4. DOMAIN st' = DOMAIN st /\ Keyless(st'.cfg)
  <2>1. CASE Answer(c) = "ok"
    <3>1. PICK answer, status : answer = Data(c)[1] /\ status = Data(c)[2]
      OBVIOUS
    <3>2. st' = [[st EXCEPT !.busy = @ \ {Encryption!flagOf(r)}, !.initialized = @ \/ r = "status"]
                   EXCEPT !.cfg = Encryption!decodeResponse(@, answer), !.status = status]
      BY <2>1, <3>1, EncryptionCalls DEF Encryption!storeDone
    <3>3. "key" \in DOMAIN answer => answer["key"] = ""
      BY <1>1, <2>1, <3>1 DEF EncryptionAnswer
    <3>4. Keyless(Encryption!decodeResponse(st.cfg, answer))
      BY <1>1, <3>3 DEF EncryptionShape, Keyless, IsCfg, Encryption!decodeResponse,
         Encryption!defaultTlsValues
    <3>5. DOMAIN st' = DOMAIN st /\ st'.cfg = Encryption!decodeResponse(st.cfg, answer)
      BY <1>1, <3>2 DEF EncryptionShape
    <3> QED
      BY <3>4, <3>5
  <2>2. CASE Answer(c) # "ok"
    <3>1. st' = [st EXCEPT !.busy = @ \ {Encryption!flagOf(r)}, !.initialized = @ \/ r = "status"]
      BY <2>2, EncryptionCalls DEF Encryption!storeDone
    <3>2. DOMAIN st' = DOMAIN st /\ st'.cfg = st.cfg
      BY <1>1, <3>1 DEF EncryptionShape
    <3> QED
      BY <1>1, <3>2 DEF EncryptionShape
  <2> QED
    BY <2>1, <2>2
<1>5. EncryptionShape'
  BY <1>1, <1>3, <1>4 DEF EncryptionShape, Keyless, IsCfg
<1>6. /\ CallsOK(calls', EncryptionRequests) /\ calls'[r] = calls[r] \ {c}
      /\ \A q \in EncryptionRequests \ {r} : calls'[q] = calls[q]
  BY <1>1, <1>2, EndedRemoves
<1> QED
  BY <1>5, <1>6, EncryptionFrame

\* A check that lets the save go on has found nothing, or the warning was seen.
LEMMA EncryptionChecked ==
    ASSUME EncryptionInv, NEW c \in calls["check"], Encryption!checkDone(c), Answer(c) # "out",
           Grows, srv' = srv, DOMAIN hist' = DOMAIN hist, hist'.seen = hist.seen,
           ~hist'.failed => Answer(c) # "failed"
    PROVE  EncryptionInv'
<1> DEFINE cs == Ended(calls, "check", c)
           mismatch == Answer(c) = "ok" /\ Data(c) = "mismatch"
<1>1. /\ EncryptionShape /\ CallsOK(calls, EncryptionRequests)
      /\ EncryptionArg("check", c.arg) /\ EncryptionAnswer("check", c)
  BY DEF EncryptionInv, EncryptionCall, EncryptionRequests
<1>2. /\ CallsOK(cs, EncryptionRequests) /\ cs["check"] = calls["check"] \ {c}
      /\ \A q \in EncryptionRequests \ {"check"} : cs[q] = calls[q]
  BY <1>1, EndedRemoves DEF EncryptionRequests
<1> HIDE DEF cs
<1>3. CASE calls' = cs /\ st' = st /\ DOMAIN ui' = DOMAIN ui
  <2>1. EncryptionShape'
    BY <1>1, <1>3 DEF EncryptionShape, Keyless, IsCfg
  <2> QED
    BY <1>2, <1>3, <2>1, EncryptionFrame
<1>4. CASE /\ c.arg.cfg.name = ui.name
           /\ c.arg.by = "again" \/ (c.arg.by = "save" /\ ~mismatch)
           /\ st' = [st EXCEPT !.busy = @ \cup {"config"}] /\ DOMAIN ui' = DOMAIN ui
           /\ calls' = Encryption!setTlsConfig(cs, Encryption!Over([name |-> ui.name]), "dialog")
  <2>1. PICK cfg : cfg = Encryption!Over([name |-> ui.name])
    OBVIOUS
  <2>2. PICK arg : arg = [cfg |-> cfg, by |-> "dialog"]
    OBVIOUS
  <2>3. PICK n : calls' = Added(cs, "set", arg, n)
    BY <1>4, <2>1, <2>2, EncryptionSent DEF Encryption!setTlsConfig
  <2>4. PICK d : d = [arg |-> arg, n |-> n, answer |-> <<>>]
    OBVIOUS
  <2>5. /\ CallsOK(calls', EncryptionRequests) /\ calls'["set"] = cs["set"] \cup {d}
        /\ \A q \in EncryptionRequests \ {"set"} : calls'[q] = cs[q]
    <3>1. /\ CallsOK(Added(cs, "set", arg, n), EncryptionRequests)
          /\ Added(cs, "set", arg, n)["set"] = cs["set"] \cup {[arg |-> arg, n |-> n, answer |-> <<>>]}
          /\ \A q \in EncryptionRequests \ {"set"} : Added(cs, "set", arg, n)[q] = cs[q]
      BY <1>2, SentAdds DEF EncryptionRequests
    <3> QED
      BY <2>3, <2>4, <3>1
  <2>6. EncryptionShape'
    BY <1>1, <1>4 DEF EncryptionShape, Keyless, IsCfg
  <2>7. Keyless(cfg) /\ cfg.name = ui.name
    <3>1. Keyless(cfg)
      BY <1>1, <2>1, KeylessOver
    <3> QED
      BY <1>1, <2>1, <3>1 DEF EncryptionShape, Keyless, IsCfg, Encryption!Over
  <2>8. ~hist'.failed /\ srv.key # "" /\ Mismatch(cfg) => cfg.name \in hist.seen
    <3> SUFFICES ASSUME ~hist'.failed, srv.key # "", Mismatch(cfg), c.arg.by = "save"
                 PROVE  FALSE
      BY <1>1, <1>4, <2>7 DEF EncryptionArg
    <3>1. Mismatch(c.arg.cfg)
      BY <1>1, <1>4, <2>7 DEF Mismatch, EncryptionArg, Encryption!verdict, Encryption!hasCert,
         Encryption!hasKey
    <3>2. Answer(c) = "ok"
      BY <1>1 DEF EncryptionAnswer
    <3> QED
      BY <1>1, <1>4, <3>1, <3>2 DEF EncryptionAnswer
  <2>9. EncryptionCall("set", d)'
    <3>1. d.arg.cfg = cfg /\ d.answer = <<>>
      BY <2>2, <2>4
    <3>2. EncryptionArg("set", d.arg)'
      BY <2>7, <2>8, <3>1 DEF EncryptionArg, Keyless, IsCfg, Mismatch, Encryption!verdict,
         Encryption!hasCert, Encryption!hasKey
    <3>3. EncryptionAnswer("set", d)'
      BY <3>1 DEF EncryptionAnswer, Answer
    <3> QED
      BY <3>2, <3>3 DEF EncryptionCall
  <2>10. \A q \in EncryptionRequests : \A e \in calls'[q] :
           e \in calls[q] \/ (q = "set" /\ e = d)
    BY <1>2, <2>5
  <2> QED
    BY <2>5, <2>6, <2>9, <2>10, EncryptionFrame
<1> QED
  BY <1>3, <1>4, EncryptionCalls DEF Encryption!checkDone, Encryption!current, cs

LEMMA EncryptionResume == EncryptionInv /\ Encryption!Resume => EncryptionInv'
<1> SUFFICES ASSUME EncryptionInv, Encryption!Resume PROVE EncryptionInv'
  OBVIOUS
<1>1. PICK r \in EncryptionRequests : \E c \in calls[r] :
        /\ Answer(c) # "out"
        /\ IF r = "check" THEN Encryption!checkDone(c) ELSE Encryption!storeDone(r, c)
        /\ hist' = [Encryption!Learned(hist, c) EXCEPT !.failed = @ \/ Answer(c) = "failed"]
  BY EncryptionCalls DEF Encryption!Resume, Encryption!Requests, EncryptionRequests
<1>2. PICK c \in calls[r] :
        /\ Answer(c) # "out"
        /\ IF r = "check" THEN Encryption!checkDone(c) ELSE Encryption!storeDone(r, c)
        /\ hist' = [Encryption!Learned(hist, c) EXCEPT !.failed = @ \/ Answer(c) = "failed"]
  BY <1>1
<1>3. srv' = srv
  BY DEF Encryption!Resume
<1>4. /\ DOMAIN hist' = DOMAIN hist /\ hist'.seen = hist.seen
      /\ hist.failed => hist'.failed
      /\ ~hist'.failed => Answer(c) # "failed"
  BY <1>2 DEF EncryptionInv, EncryptionShape, Encryption!Learned
<1>5. Grows
  BY <1>3, <1>4 DEF Grows
<1> QED
  BY <1>2, <1>3, <1>4, <1>5, EncryptionChecked, EncryptionStored

(***************************************************************************)
(* The theorem.  The page does not change, so a step is one of its page.   *)
(***************************************************************************)
ChecksInv ==
  /\ page = "encryption" => EncryptionInv
  /\ page = "wizard" => WizardInv

LEMMA EncryptionStep ==
    ASSUME page = "encryption", Next
    PROVE  /\ page' = page
           /\ \/ Encryption!UserStep \/ Encryption!Server \/ Encryption!Resume
              \/ Encryption!validateConfig
BY DEF Next, UserStep, Server, Resume, Timer, At

LEMMA WizardStep ==
    ASSUME page = "wizard", Next
    PROVE  /\ page' = page
           /\ \/ TlsWizard!UserStep \/ TlsWizard!Server \/ TlsWizard!Resume
              \/ TlsWizard!runScheduled
BY DEF Next, UserStep, Server, Resume, Timer, At

LEMMA PageKept == Next => page' = page
BY DEF Next, UserStep, Server, Resume, Timer, At

\* A check of the TLS settings by the server is heeded, by the dialog of the
\* encryption page and by the wizard, however the user types, goes back, closes
\* and saves while checks are out, and whichever requests fail.
THEOREM ChecksCorrect == Spec => []ChecksHeeded
<1>1. Init => ChecksInv
  BY EncryptionInit, WizardInit DEF Init, ChecksInv
<1>2. ChecksInv /\ [Next]_webVars => ChecksInv'
  <2> SUFFICES ASSUME ChecksInv, [Next]_webVars PROVE ChecksInv'
    OBVIOUS
  <2>1. CASE Next
    <3>1. page' = page
      BY <2>1, PageKept
    <3>2. page = "encryption" => EncryptionInv'
      BY <2>1, EncryptionStep, EncryptionUser, EncryptionServer, EncryptionResume,
         EncryptionTimer DEF ChecksInv
    <3>3. page = "wizard" => WizardInv'
      BY <2>1, WizardStep, WizardUser, WizardServer, WizardResume, WizardTimer DEF ChecksInv
    <3> QED
      BY <3>1, <3>2, <3>3 DEF ChecksInv
  <2>2. CASE UNCHANGED webVars
    <3>1. UNCHANGED <<st, ui, calls, srv, acts, hist, page>>
      BY <2>2 DEF webVars
    <3>2. EncryptionInv => EncryptionInv'
      BY <3>1, EncryptionFrame DEF EncryptionInv, EncryptionShape, Grows, Keyless, IsCfg
    <3>3. WizardInv => WizardInv'
      BY <3>1 DEF WizardInv, WizardUi, HistOK, EnableAlone, TlsWizard!CheckedSave
    <3> QED
      BY <3>1, <3>2, <3>3 DEF ChecksInv
  <2> QED
    BY <2>1, <2>2
<1>3. ChecksInv => ChecksHeeded
  BY DEF ChecksInv, ChecksHeeded, EncryptionInv, EncryptionCall, EncryptionArg, WizardInv,
     Encryption!WarningSeen, EncryptionRequests, Mismatch
<1> QED
  BY <1>1, <1>2, <1>3, PTL DEF Spec

(***************************************************************************)
(* User rules.  What waits for the server offers an undo only of what the  *)
(* server has acknowledged, or of the disabling of a list.                 *)
(***************************************************************************)
RulesFetch == {"status", "settings", "clients", "rewrites", "services", "all"}
RulesChange == {"rules", "setting", "client", "service", "set_url",
                "rw_add", "rw_update", "rw_delete"}
RulesRequests == RulesFetch \cup RulesChange \cup {"check", "delay"}

Acked(undo, acked) == undo[1] = "filter" \/ undo \in acked
UndosAcked(u, acked) == "undos" \in DOMAIN u /\ \A undo \in u.undos : Acked(undo, acked)

\* What a handler may go on to do once the server has answered with a result.
MayOffer(then, result, acked) ==
  /\ then[1] = "toggled" /\ result = "yes" => Acked(<<"rules", then[2]>>, acked)
  /\ then[1] = "undoable" /\ result # "no" => Acked(then[2], acked)
  /\ then[1] = "refresh" => then[3] \in Seq(RulesFetch)

\* The closure of a change is the last part of its argument.
ChangeThen(r, then) ==
  /\ then[1] = "toggled" => r = "rules"
  /\ then[1] = "undoable" => r # "rw_add" /\ (r = "set_url" => then[2][1] = "filter")
  /\ then[1] # "refresh"

RulesArg(r, arg, acked) ==
  /\ r \in RulesFetch => IF arg[1] = "after" THEN MayOffer(arg[3], arg[2], acked)
                         ELSE MayOffer(arg, "yes", acked)
  /\ r \in {"rules", "client", "service", "set_url"} =>
       arg = <<arg[1], arg[2]>> /\ ChangeThen(r, arg[2])
  /\ r \in {"setting", "rw_add", "rw_update", "rw_delete"} =>
       arg = <<arg[1], arg[2], arg[3]>> /\ ChangeThen(r, arg[3])
RulesCalls(cs, acked) ==
  CallsOK(cs, RulesRequests) /\ \A r \in RulesRequests : \A c \in cs[r] : RulesArg(r, c.arg, acked)

RulesInv ==
  /\ RulesCalls(calls, hist.acked) /\ UndosAcked(ui, hist.acked)
  /\ DOMAIN hist = {"clean", "acked"}

LEMMA RulesSame ==
    /\ \A cs, r, c : UserRules!Ended(cs, r, c) = Ended(cs, r, c)
    /\ \A cs, r, c, a : UserRules!Answered(cs, r, c, a) = Answered(cs, r, c, a)
    /\ \A c : UserRules!Answer(c) = Answer(c) /\ UserRules!Data(c) = Data(c)
    /\ UserRules!Fetch = RulesFetch /\ UserRules!Change = RulesChange
    /\ UserRules!Requests = RulesRequests
BY DEF UserRules!Ended, Ended, UserRules!Answered, Answered, UserRules!Answer, Answer,
       UserRules!Data, Data, UserRules!Fetch, RulesFetch, UserRules!Change, RulesChange,
       UserRules!Requests, RulesRequests

LEMMA RulesSent ==
    ASSUME NEW cs, NEW r, NEW arg
    PROVE  \E n : UserRules!Sent(cs, r, arg) = Added(cs, r, arg, n)
<1> DEFINE taken == {c.n : c \in {d \in cs[r] : d.arg = arg}}
           k == CHOOSE j \in 1 .. UserRules!Cardinality(taken) + 1 : j \notin taken
<1>1. UserRules!Sent(cs, r, arg) = Added(cs, r, arg, k)
  BY DEF UserRules!Sent, Added
<1> QED
  BY <1>1

\* A request whose closure offers only what it may is added to such requests.
LEMMA RulesSends ==
    ASSUME NEW cs, NEW acked, RulesCalls(cs, acked), NEW r \in RulesRequests, NEW arg,
           RulesArg(r, arg, acked), NEW s, UserRules!send(s, cs, r, arg)
    PROVE  RulesCalls(calls', acked)
<1>1. calls' = UserRules!Sent(cs, r, arg)
  BY DEF UserRules!send
<1>2. PICK n : UserRules!Sent(cs, r, arg) = Added(cs, r, arg, n)
  BY RulesSent
<1>3. CallsOK(cs, RulesRequests)
  BY DEF RulesCalls
<1> DEFINE new == [arg |-> arg, n |-> n, answer |-> <<>>]
<1>4. new.arg = arg
  OBVIOUS
<1>5. /\ CallsOK(calls', RulesRequests)
      /\ \A q \in RulesRequests \ {r} : calls'[q] = cs[q]
      /\ calls'[r] = cs[r] \cup {new}
  BY <1>1, <1>2, <1>3, SentAdds
<1> HIDE DEF new
<1> QED
  BY <1>4, <1>5 DEF RulesCalls

\* One that has ended leaves such requests.
LEMMA RulesEnds ==
    ASSUME NEW cs, NEW acked, RulesCalls(cs, acked), NEW r \in RulesRequests, NEW c
    PROVE  RulesCalls(UserRules!Ended(cs, r, c), acked)
<1>1. CallsOK(cs, RulesRequests)
  BY DEF RulesCalls
<1>2. UserRules!Ended(cs, r, c) = Ended(cs, r, c)
  BY RulesSame
<1> QED
  BY <1>1, <1>2, EndedRemoves DEF RulesCalls

\* What is acknowledged stays acknowledged.
LEMMA RulesMore ==
    ASSUME NEW acked, NEW more, acked \subseteq more
    PROVE  /\ \A then, result : MayOffer(then, result, acked) => MayOffer(then, result, more)
           /\ \A cs : RulesCalls(cs, acked) => RulesCalls(cs, more)
           /\ \A u : UndosAcked(u, acked) => UndosAcked(u, more)
<1>1. \A undo : Acked(undo, acked) => Acked(undo, more)
  BY DEF Acked
<1>2. \A then, result : MayOffer(then, result, acked) => MayOffer(then, result, more)
  BY <1>1 DEF MayOffer
<1>3. \A r, arg : RulesArg(r, arg, acked) => RulesArg(r, arg, more)
  BY <1>2 DEF RulesArg
<1>4. \A cs : RulesCalls(cs, acked) => RulesCalls(cs, more)
  BY <1>3 DEF RulesCalls
<1> QED
  BY <1>1, <1>2, <1>4 DEF UndosAcked

LEMMA RulesInit == UserRules!Init => RulesInv
<1> SUFFICES ASSUME UserRules!Init PROVE RulesInv
  OBVIOUS
<1>1. /\ calls = [r \in UserRules!Requests |->
                   IF r \in UserRules!Fetch \ {"settings", "clients", "rewrites", "services", "all"}
                   THEN {[arg |-> <<"end">>, n |-> 1, answer |-> <<>>]} ELSE {}]
      /\ ui.undos = {} /\ "undos" \in DOMAIN ui
      /\ DOMAIN hist = {"clean", "acked"}
  BY DEF UserRules!Init
<1> DEFINE first == [arg |-> <<"end">>, n |-> 1, answer |-> <<>>]
<1>2. IsCall(first) /\ first.arg = <<"end">>
  BY DEF IsCall
<1> HIDE DEF first
<1>3. DOMAIN calls = RulesRequests
  BY <1>1, RulesSame
<1>4. \A r \in RulesRequests : calls[r] \subseteq {first} /\ (r # "status" => calls[r] = {})
  BY <1>1, RulesSame DEF RulesFetch, first
<1>5. CallsOK(calls, RulesRequests)
  BY <1>2, <1>3, <1>4 DEF CallsOK
<1>6. RulesArg("status", first.arg, hist.acked)
  BY <1>2 DEF RulesArg, MayOffer
<1>7. RulesCalls(calls, hist.acked)
  BY <1>4, <1>5, <1>6 DEF RulesCalls
<1> QED
  BY <1>1, <1>7 DEF RulesInv, UndosAcked

\* The stores that are left to fetch after an undo.
LEMMA RulesRefresh ==
    ASSUME NEW undo, NEW rest \in Seq(RulesFetch), NEW s, NEW u, NEW cs, NEW acked,
           RulesCalls(cs, acked), UndosAcked(u, acked), UserRules!refresh(undo, rest, s, u, cs)
    PROVE  RulesCalls(calls', acked) /\ UndosAcked(ui', acked)
<1>1. CASE rest = <<>>
  <2>1. calls' = cs /\ ui' = [u EXCEPT !.undos = @ \ {undo}]
    BY <1>1 DEF UserRules!refresh
  <2> QED
    BY <2>1 DEF UndosAcked
<1>2. CASE rest # <<>>
  <2> DEFINE arg == <<"refresh", undo, Tail(rest)>>
  <2>1. UserRules!send(s, cs, Head(rest), arg) /\ ui' = u
    BY <1>2 DEF UserRules!refresh
  <2>2. Head(rest) \in RulesFetch /\ Tail(rest) \in Seq(RulesFetch)
    BY <1>2
  <2>3. RulesArg(Head(rest), arg, acked) /\ Head(rest) \in RulesRequests
    BY <2>2 DEF RulesArg, MayOffer, RulesFetch, RulesRequests
  <2> QED
    BY <2>1, <2>3, RulesSends
<1> QED
  BY <1>1, <1>2

LEMMA RulesRecheck ==
    ASSUME NEW s, NEW u, NEW cs, NEW acked, RulesCalls(cs, acked),
           UserRules!recheckCurrentTarget(s, u, cs)
    PROVE  RulesCalls(calls', acked) /\ ui' = u
<1>1. CASE u.last = "none"
  BY <1>1 DEF UserRules!recheckCurrentTarget
<1>2. CASE u.last # "none"
  <2>1. UserRules!send(s, cs, "delay", <<>>) /\ ui' = u
    BY <1>2 DEF UserRules!recheckCurrentTarget
  <2>2. RulesArg("delay", <<>>, acked) /\ "delay" \in RulesRequests
    BY DEF RulesArg, RulesFetch, RulesRequests
  <2> QED
    BY <2>1, <2>2, RulesSends
<1> QED
  BY <1>1, <1>2

\* How a handler goes on.
LEMMA RulesProceed ==
    ASSUME NEW then, NEW result, NEW s, NEW u, NEW cs, NEW acked,
           RulesCalls(cs, acked), UndosAcked(u, acked), MayOffer(then, result, acked),
           UserRules!proceed(then, result, s, u, cs)
    PROVE  RulesCalls(calls', acked) /\ UndosAcked(ui', acked)
<1>1. CASE st' = s /\ ui' = u /\ calls' = cs
  BY <1>1
<1>2. CASE then[1] = "toggled" /\ result = "yes"
           /\ UserRules!getFilteringStatus(s, cs, <<"recheck">>)
           /\ ui' = [u EXCEPT !.undos = @ \cup {<<"rules", then[2]>>}]
  <2>1. RulesArg("status", <<"recheck">>, acked) /\ "status" \in RulesRequests
    BY DEF RulesArg, MayOffer, RulesRequests, RulesFetch
  <2>2. UserRules!send(s, cs, "status", <<"recheck">>)
    BY <1>2 DEF UserRules!getFilteringStatus
  <2>3. Acked(<<"rules", then[2]>>, acked)
    BY <1>2 DEF MayOffer
  <2>4. UndosAcked(ui', acked)
    BY <1>2, <2>3 DEF UndosAcked
  <2> QED
    BY <2>1, <2>2, <2>4, RulesSends
<1>3. CASE UserRules!recheckCurrentTarget(s, u, cs)
  BY <1>3, RulesRecheck
<1>4. CASE then[1] = "undoable" /\ UserRules!performed(result)
           /\ UserRules!recheckCurrentTarget(s, [u EXCEPT !.undos = @ \cup {then[2]}], cs)
  <2> DEFINE v == [u EXCEPT !.undos = @ \cup {then[2]}]
  <2>1. Acked(then[2], acked)
    BY <1>4 DEF MayOffer, UserRules!performed
  <2>2. UndosAcked(v, acked)
    BY <2>1 DEF UndosAcked
  <2> QED
    BY <1>4, <2>2, RulesRecheck
<1>5. CASE then[1] = "refresh" /\ UserRules!refresh(then[2], then[3], s, u, cs)
  BY <1>5, RulesRefresh DEF MayOffer
<1>6. CASE then[1] = "undone"
           /\ UserRules!refresh(then[2], IF result = "yes" THEN UserRules!refreshOf(then[2])
                                         ELSE <<>>, s, u, cs)
  <2>1. \/ UserRules!refresh(then[2], UserRules!refreshOf(then[2]), s, u, cs)
        \/ UserRules!refresh(then[2], <<>>, s, u, cs)
    BY <1>6
  <2>2. UserRules!refreshOf(then[2]) \in Seq(RulesFetch) /\ <<>> \in Seq(RulesFetch)
    BY DEF UserRules!refreshOf, RulesFetch
  <2> QED
    BY <2>1, <2>2, RulesRefresh
<1> QED
  BY <1>1, <1>2, <1>3, <1>4, <1>5, <1>6 DEF UserRules!proceed

\* A step of the user that shows no new undo and sends at most one request.
LEMMA RulesAct ==
    ASSUME RulesInv, UserRules!UserActs
    PROVE  DOMAIN hist' = {"clean", "acked"} /\ hist'.acked = hist.acked
BY DEF RulesInv, UserRules!UserActs, UserRules!Act, UserRules!Noted

LEMMA RulesAsks ==
    ASSUME RulesInv, UserRules!UserActs, "undos" \in DOMAIN ui', ui'.undos \subseteq ui.undos,
           NEW r \in RulesRequests, NEW arg, RulesArg(r, arg, hist.acked),
           UserRules!send(st, calls, r, arg)
    PROVE  RulesInv'
<1>1. DOMAIN hist' = {"clean", "acked"} /\ hist'.acked = hist.acked
  BY RulesAct
<1>2. RulesCalls(calls', hist.acked)
  BY RulesSends DEF RulesInv
<1>3. UndosAcked(ui', hist.acked)
  BY DEF RulesInv, UndosAcked
<1> QED
  BY <1>1, <1>2, <1>3 DEF RulesInv

LEMMA RulesLook ==
    ASSUME RulesInv, UserRules!Look, "undos" \in DOMAIN ui', ui'.undos \subseteq ui.undos
    PROVE  RulesInv'
<1>1. UNCHANGED <<calls, hist>>
  BY DEF UserRules!Look
<1>2. UndosAcked(ui', hist.acked)
  BY DEF RulesInv, UndosAcked
<1> QED
  BY <1>1, <1>2 DEF RulesInv

\* The closure of a change.
LEMMA ChangeArg ==
    ASSUME NEW acked, NEW then, NEW a, NEW b
    PROVE  /\ \A r \in {"rules", "client", "service", "set_url"} :
                ChangeThen(r, then) => RulesArg(r, <<a, then>>, acked)
           /\ \A r \in {"setting", "rw_add", "rw_update", "rw_delete"} :
                ChangeThen(r, then) => RulesArg(r, <<a, b, then>>, acked)
BY DEF RulesArg, RulesFetch

LEMMA RulesUser == RulesInv /\ UserRules!UserStep => RulesInv'
<1> SUFFICES ASSUME RulesInv, UserRules!UserStep PROVE RulesInv'
  OBVIOUS
<1>0. /\ "undos" \in DOMAIN ui
      /\ "undos" \in DOMAIN UserRules!closedResult /\ UserRules!closedResult.undos = ui.undos
  BY DEF RulesInv, UndosAcked, UserRules!closedResult
<1>1. CASE UserRules!typeRules
  <2>1. PICK text : ui' = [ui EXCEPT !.text = text]
    BY <1>1 DEF UserRules!typeRules
  <2> QED
    BY <1>0, <1>1, <2>1, RulesLook DEF UserRules!typeRules
<1>2. CASE UserRules!onRulesSubmit
  <2>1. RulesArg("rules", <<ui.text, <<"end">>>>, hist.acked) /\ "rules" \in RulesRequests
    BY ChangeArg DEF ChangeThen, RulesRequests, RulesChange
  <2> QED
    BY <1>0, <1>2, <2>1, RulesAsks DEF UserRules!onRulesSubmit, UserRules!setRules
<1>3. CASE UserRules!onCheckSubmit
  <2>1. PICK client : ui' = [ui EXCEPT !.last = client, !.visible = TRUE, !.refreshing = TRUE]
    BY <1>3 DEF UserRules!onCheckSubmit
  <2>2. RulesArg("check", <<"submit">>, hist.acked) /\ "check" \in RulesRequests
    BY DEF RulesArg, RulesFetch, RulesRequests
  <2> QED
    BY <1>0, <1>3, <2>1, <2>2, RulesAsks DEF UserRules!onCheckSubmit
<1>4. CASE UserRules!onDismiss \/ UserRules!openEditRewriteModal \/ UserRules!resetCurrentRewrite
  <2>1. /\ UserRules!Look
        /\ \/ ui' = [ui EXCEPT !.visible = FALSE]
           \/ \E b \in BOOLEAN : ui' = [ui EXCEPT !.editing = b]
    BY <1>4 DEF UserRules!onDismiss, UserRules!openEditRewriteModal, UserRules!resetCurrentRewrite
  <2> QED
    BY <1>0, <2>1, RulesLook
<1>5. CASE UserRules!handleRuleToggle
  <2>1. /\ UserRules!UserActs
        /\ \/ UserRules!recheckCurrentTarget(st, UserRules!closedResult, calls)
           \/ \E rules :
                /\ UserRules!setRules(rules, <<"toggled", st.userRules>>)
                /\ ui' = UserRules!closedResult
    BY <1>5 DEF UserRules!handleRuleToggle
  <2>2. CASE UserRules!recheckCurrentTarget(st, UserRules!closedResult, calls)
    <3>1. RulesCalls(calls', hist.acked) /\ ui' = UserRules!closedResult
      BY <2>2, RulesRecheck DEF RulesInv
    <3>2. UndosAcked(ui', hist.acked)
      BY <1>0, <3>1 DEF RulesInv, UndosAcked
    <3> QED
      BY <2>1, <3>1, <3>2, RulesAct DEF RulesInv
  <2>3. CASE \E rules : /\ UserRules!setRules(rules, <<"toggled", st.userRules>>)
                        /\ ui' = UserRules!closedResult
    <3>1. PICK rules : /\ UserRules!setRules(rules, <<"toggled", st.userRules>>)
                       /\ ui' = UserRules!closedResult
      BY <2>3
    <3> DEFINE arg == <<rules, <<"toggled", st.userRules>>>>
    <3>2. RulesArg("rules", arg, hist.acked) /\ "rules" \in RulesRequests
      BY ChangeArg DEF ChangeThen, RulesRequests, RulesChange
    <3>3. UserRules!send(st, calls, "rules", arg)
      BY <3>1 DEF UserRules!setRules
    <3> HIDE DEF arg
    <3> QED
      BY <1>0, <2>1, <3>1, <3>2, <3>3, RulesAsks
  <2> QED
    BY <2>1, <2>2, <2>3
<1>6. CASE UserRules!handleDisableFeature
  <2>1. /\ UserRules!UserActs /\ ui' = UserRules!closedResult
        /\ \/ \E a, b : UserRules!send(st, calls, "client", <<a, <<"undoable", <<"client", b>>>>>>)
           \/ \E f : UserRules!send(st, calls, "setting",
                                    <<f, FALSE, <<"undoable", <<"setting", f>>>>>>)
    BY <1>6 DEF UserRules!handleDisableFeature
  <2>2. ASSUME NEW a, NEW b,
               UserRules!send(st, calls, "client", <<a, <<"undoable", <<"client", b>>>>>>)
        PROVE  RulesInv'
    <3>1. /\ RulesArg("client", <<a, <<"undoable", <<"client", b>>>>>>, hist.acked)
          /\ "client" \in RulesRequests
      BY ChangeArg DEF ChangeThen, RulesRequests, RulesChange
    <3> QED
      BY <1>0, <2>1, <2>2, <3>1, RulesAsks
  <2>3. ASSUME NEW f, UserRules!send(st, calls, "setting",
                                     <<f, FALSE, <<"undoable", <<"setting", f>>>>>>)
        PROVE  RulesInv'
    <3>1. /\ RulesArg("setting", <<f, FALSE, <<"undoable", <<"setting", f>>>>>>, hist.acked)
          /\ "setting" \in RulesRequests
      BY ChangeArg DEF ChangeThen, RulesRequests, RulesChange
    <3> QED
      BY <1>0, <2>1, <2>3, <3>1, RulesAsks
  <2> QED
    BY <2>1, <2>2, <2>3
<1>7. CASE UserRules!handleDisableFilter
  <2> DEFINE arg == <<FALSE, <<"undoable", <<"filter", {}>>>>>>
  <2>1. RulesArg("set_url", arg, hist.acked) /\ "set_url" \in RulesRequests
    BY ChangeArg DEF ChangeThen, RulesRequests, RulesChange
  <2>2. /\ UserRules!send(st, calls, "set_url", arg) /\ UserRules!UserActs
        /\ ui' = UserRules!closedResult
    BY <1>7 DEF UserRules!handleDisableFilter
  <2> HIDE DEF arg
  <2> QED
    BY <1>0, <2>1, <2>2, RulesAsks
<1>8. CASE UserRules!handleAllowBlockedService
  <2>1. /\ UserRules!UserActs /\ ui' = UserRules!closedResult
        /\ \E r \in {"client", "service"} : \E a, b, k :
             UserRules!send(st, calls, r, <<a, <<"undoable", <<k, b>>>>>>)
    BY <1>8 DEF UserRules!handleAllowBlockedService
  <2>2. PICK r \in {"client", "service"} : \E a, b, k :
             UserRules!send(st, calls, r, <<a, <<"undoable", <<k, b>>>>>>)
    BY <2>1
  <2>3. PICK a, b, k : UserRules!send(st, calls, r, <<a, <<"undoable", <<k, b>>>>>>)
    BY <2>2
  <2> DEFINE arg == <<a, <<"undoable", <<k, b>>>>>>
  <2>4. RulesArg(r, arg, hist.acked) /\ r \in RulesRequests
    BY ChangeArg DEF ChangeThen, RulesRequests, RulesChange
  <2> HIDE DEF arg
  <2> QED
    BY <1>0, <2>1, <2>3, <2>4, RulesAsks DEF arg
<1>9. CASE UserRules!handleRemoveRewriteRule
  <2> DEFINE arg == <<st.userRules \ {"other"}, <<"undoable", <<"custom", st.userRules>>>>>>
  <2>1. RulesArg("rules", arg, hist.acked) /\ "rules" \in RulesRequests
    BY ChangeArg DEF ChangeThen, RulesRequests, RulesChange
  <2>2. /\ UserRules!send(st, calls, "rules", arg) /\ UserRules!UserActs
        /\ ui' = UserRules!closedResult
    BY <1>9 DEF UserRules!handleRemoveRewriteRule, UserRules!setRules
  <2> HIDE DEF arg
  <2> QED
    BY <1>0, <2>1, <2>2, RulesAsks
<1>10. CASE UserRules!handleRewriteUpdate
  <2>1. PICK rw, update :
          UserRules!send(st, calls, "rw_update", <<rw, update, <<"recheck">>>>)
    BY <1>10 DEF UserRules!handleRewriteUpdate
  <2> DEFINE arg == <<rw, update, <<"recheck">>>>
  <2>2. RulesArg("rw_update", arg, hist.acked) /\ "rw_update" \in RulesRequests
    BY ChangeArg DEF ChangeThen, RulesRequests, RulesChange
  <2>3. UserRules!UserActs /\ "undos" \in DOMAIN ui' /\ ui'.undos = ui.undos
    BY <1>0, <1>10 DEF UserRules!handleRewriteUpdate
  <2>4. UserRules!send(st, calls, "rw_update", arg)
    BY <2>1
  <2> HIDE DEF arg
  <2> QED
    BY <2>2, <2>3, <2>4, RulesAsks
<1>11. CASE UserRules!handleRewriteDelete
  <2>1. PICK rw :
          UserRules!send(st, calls, "rw_delete", <<rw, rw, <<"undoable", <<"rewrite", rw>>>>>>)
    BY <1>11 DEF UserRules!handleRewriteDelete
  <2> DEFINE arg == <<rw, rw, <<"undoable", <<"rewrite", rw>>>>>>
  <2>2. RulesArg("rw_delete", arg, hist.acked) /\ "rw_delete" \in RulesRequests
    BY ChangeArg DEF ChangeThen, RulesRequests, RulesChange
  <2>3. UserRules!UserActs /\ ui' = UserRules!closedResult
    BY <1>11 DEF UserRules!handleRewriteDelete
  <2>4. UserRules!send(st, calls, "rw_delete", arg)
    BY <2>1
  <2> HIDE DEF arg
  <2> QED
    BY <1>0, <2>2, <2>3, <2>4, RulesAsks
<1>12. CASE UserRules!clickUndo
  <2>1. UserRules!UserActs /\ UNCHANGED ui
    BY <1>12 DEF UserRules!clickUndo
  <2>2. PICK undo :
          \/ \E r \in {"rules", "client", "service", "set_url"} : \E a :
               UserRules!send(st, calls, r, <<a, <<"undone", undo>>>>)
          \/ \E r \in {"setting", "rw_add"} : \E a, b :
               UserRules!send(st, calls, r, <<a, b, <<"undone", undo>>>>)
    BY <1>12 DEF UserRules!clickUndo, UserRules!setRules
  <2> DEFINE then == <<"undone", undo>>
  <2>3. \A r : ChangeThen(r, then)
    BY DEF ChangeThen
  <2>4. {"rules", "client", "service", "set_url", "setting", "rw_add"} \subseteq RulesRequests
    BY DEF RulesRequests, RulesChange
  <2> HIDE DEF then
  <2>5. ASSUME NEW r \in {"rules", "client", "service", "set_url"}, NEW a,
               UserRules!send(st, calls, r, <<a, then>>)
        PROVE  RulesInv'
    <3>1. RulesArg(r, <<a, then>>, hist.acked)
      BY <2>3, ChangeArg
    <3> QED
      BY <1>0, <2>1, <2>4, <2>5, <3>1, RulesAsks
  <2>6. ASSUME NEW r \in {"setting", "rw_add"}, NEW a, NEW b,
               UserRules!send(st, calls, r, <<a, b, then>>)
        PROVE  RulesInv'
    <3>1. RulesArg(r, <<a, b, then>>, hist.acked)
      BY <2>3, ChangeArg
    <3> QED
      BY <1>0, <2>1, <2>4, <2>6, <3>1, RulesAsks
  <2> QED
    BY <2>2, <2>5, <2>6 DEF then
<1>13. CASE UserRules!undoExpires
  <2>1. PICK undo : ui' = [ui EXCEPT !.undos = @ \ {undo}]
    BY <1>13 DEF UserRules!undoExpires
  <2> QED
    BY <1>0, <1>13, <2>1, RulesLook DEF UserRules!undoExpires
<1> QED
  BY <1>1, <1>2, <1>3, <1>4, <1>5, <1>6, <1>7, <1>8, <1>9, <1>10, <1>11, <1>12, <1>13
  DEF UserRules!UserStep

LEMMA RulesAnswered ==
    ASSUME NEW cs, NEW acked, RulesCalls(cs, acked), NEW r \in RulesRequests, NEW c \in cs[r],
           NEW answer
    PROVE  RulesCalls(UserRules!Answered(cs, r, c, answer), acked)
<1>1. CallsOK(cs, RulesRequests)
  BY DEF RulesCalls
<1>2. UserRules!Answered(cs, r, c, answer) = Answered(cs, r, c, answer)
  BY RulesSame
<1>3. Reply(c, answer).arg = c.arg
  BY DEF Reply
<1> QED
  BY <1>1, <1>2, <1>3, AnsweredChanges DEF RulesCalls

LEMMA RulesServer == RulesInv /\ UserRules!Server => RulesInv'
<1> SUFFICES ASSUME RulesInv, UserRules!Server PROVE RulesInv'
  OBVIOUS
<1>1. PICK r \in RulesRequests : \E c \in calls[r] :
             \/ \E v, d : UserRules!Served(r, c, v, d)
             \/ UserRules!Refused(r, c)
             \/ calls' = UserRules!Answered(calls, r, c, <<"ok", {}>>)
  BY RulesSame, Zenon DEF UserRules!Server, UserRules!serveChange
<1>2. PICK c \in calls[r] : \E answer : calls' = UserRules!Answered(calls, r, c, answer)
  BY <1>1 DEF UserRules!Served, UserRules!Refused
<1>3. RulesCalls(calls', hist.acked)
  BY <1>2, RulesAnswered DEF RulesInv
<1>4. UNCHANGED <<ui, hist>>
  BY DEF UserRules!Server
<1> QED
  BY <1>3, <1>4 DEF RulesInv

\* The result of a change lets its handler offer what undoGiven notes, or what it
\* may offer in any case.
LEMMA RulesChanged ==
    ASSUME RulesInv, NEW r \in RulesChange, NEW c \in calls[r], NEW more,
           hist.acked \cup UserRules!undoGiven(r, c) \subseteq more, UserRules!changeDone(r, c)
    PROVE  RulesCalls(calls', more) /\ UndosAcked(ui', more)
<1> DEFINE s == [st EXCEPT !.busy = @ \ {r}]
           cs == UserRules!Ended(calls, r, c)
           then == c.arg[Len(c.arg)]
<1>1. r \in RulesRequests /\ RulesArg(r, c.arg, hist.acked)
  BY DEF RulesInv, RulesCalls, RulesRequests
<1>2. ChangeThen(r, then)
  <2>1. CASE r \in {"rules", "client", "service", "set_url"}
    <3>1. c.arg = <<c.arg[1], c.arg[2]>> /\ ChangeThen(r, c.arg[2])
      BY <1>1, <2>1 DEF RulesArg
    <3>2. Len(c.arg) = 2
      BY <3>1
    <3> QED
      BY <3>1, <3>2
  <2>2. CASE r \in {"setting", "rw_add", "rw_update", "rw_delete"}
    <3>1. c.arg = <<c.arg[1], c.arg[2], c.arg[3]>> /\ ChangeThen(r, c.arg[3])
      BY <1>1, <2>2 DEF RulesArg
    <3>2. Len(c.arg) = 3
      BY <3>1
    <3> QED
      BY <3>1, <3>2
  <2> QED
    BY <2>1, <2>2 DEF RulesChange
<1>3. UserRules!Answer(c) = "ok" => \A result : MayOffer(then, result, more)
  <2>1. UserRules!undoGiven(r, c) =
          (IF UserRules!Answer(c) = "ok" /\ then[1] = "undoable" THEN {then[2]}
           ELSE IF UserRules!Answer(c) = "ok" /\ then[1] = "toggled" THEN {<<"rules", then[2]>>}
           ELSE {})
    BY RulesSame DEF UserRules!undoGiven
  <2> QED
    BY <1>2, <2>1 DEF MayOffer, Acked, ChangeThen
<1>4. MayOffer(then, "no", more)
  BY <1>2 DEF MayOffer, ChangeThen
<1>5. r = "set_url" => MayOffer(then, "void", more)
  BY <1>2 DEF MayOffer, ChangeThen, Acked
<1>6. r = "rw_add" => MayOffer(then, "yes", more)
  BY <1>2 DEF MayOffer, ChangeThen
<1>7. RulesCalls(cs, more) /\ UndosAcked(ui, more)
  BY <1>1, RulesMore, RulesEnds DEF RulesInv
<1>8. \A text : UndosAcked([ui EXCEPT !.text = text], more)
  BY <1>7 DEF UndosAcked
<1> HIDE DEF s, cs, then
<1>9. CASE UserRules!Answer(c) = "ok"
  <2>1. CASE \E s1, text, u : /\ u \in {ui, [ui EXCEPT !.text = text]}
                              /\ UserRules!proceed(then, "yes", s1, u, cs)
    BY <1>3, <1>7, <1>8, <1>9, <2>1, RulesProceed
  <2>2. CASE /\ r \in UserRules!Change \ {"rules", "setting"} /\ ui' = ui
             /\ UserRules!send(s, cs, UserRules!refetchOf(r),
                  <<"after", IF r = "set_url" THEN "void" ELSE "yes", then>>)
    <3> DEFINE result == IF r = "set_url" THEN "void" ELSE "yes"
               arg == <<"after", result, then>>
    <3>1. UserRules!refetchOf(r) \in RulesFetch
      BY DEF UserRules!refetchOf, RulesFetch
    <3>2. RulesArg(UserRules!refetchOf(r), arg, more)
      BY <1>3, <1>9, <3>1 DEF RulesArg, RulesFetch
    <3>3. UserRules!send(s, cs, UserRules!refetchOf(r), arg)
      BY <2>2
    <3>4. UserRules!refetchOf(r) \in RulesRequests
      BY <3>1 DEF RulesRequests
    <3> HIDE DEF arg
    <3> QED
      BY <1>7, <2>2, <3>2, <3>3, <3>4, RulesSends
  <2>3. \/ \E s1, text : UserRules!proceed(then, "yes", s1, [ui EXCEPT !.text = text], cs)
        \/ \E s1 : UserRules!proceed(then, "yes", s1, ui, cs)
        \/ /\ r \in UserRules!Change \ {"rules", "setting"} /\ ui' = ui
           /\ UserRules!send(s, cs, UserRules!refetchOf(r),
                <<"after", IF r = "set_url" THEN "void" ELSE "yes", then>>)
    BY <1>9, Zenon DEF UserRules!changeDone, s, cs, then
  <2> QED
    BY <2>1, <2>2, <2>3
<1>10. CASE UserRules!Answer(c) # "ok"
  <2>1. UserRules!proceed(then, IF r = "set_url" THEN "void"
                                ELSE IF r = "rw_add" THEN "yes" ELSE "no", s, ui, cs)
    BY <1>10, Zenon DEF UserRules!changeDone, s, cs, then
  <2> QED
    BY <1>4, <1>5, <1>6, <1>7, <2>1, RulesProceed
<1> QED
  BY <1>9, <1>10

LEMMA RulesResume == RulesInv /\ UserRules!Resume => RulesInv'
<1> SUFFICES ASSUME RulesInv, UserRules!Resume PROVE RulesInv'
  OBVIOUS
<1>0. PICK r \in RulesRequests : \E c \in calls[r] :
        /\ \/ r \in RulesFetch /\ c.arg[1] # "after" /\ UserRules!fetchDone(r, c)
           \/ r \in RulesFetch /\ c.arg[1] = "after" /\ UserRules!afterDone(r, c)
           \/ r \in RulesChange /\ UserRules!changeDone(r, c)
           \/ r = "check" /\ UserRules!checkDone(c)
           \/ r = "delay" /\ UserRules!delayDone(c)
        /\ hist' = [clean |-> hist.clean /\ UserRules!Answer(c) = "ok",
                    acked |-> hist.acked \cup UserRules!undoGiven(r, c)]
  BY RulesSame, Zenon DEF UserRules!Resume
<1>1. PICK c \in calls[r] :
        /\ \/ r \in RulesFetch /\ c.arg[1] # "after" /\ UserRules!fetchDone(r, c)
           \/ r \in RulesFetch /\ c.arg[1] = "after" /\ UserRules!afterDone(r, c)
           \/ r \in RulesChange /\ UserRules!changeDone(r, c)
           \/ r = "check" /\ UserRules!checkDone(c)
           \/ r = "delay" /\ UserRules!delayDone(c)
        /\ hist' = [clean |-> hist.clean /\ UserRules!Answer(c) = "ok",
                    acked |-> hist.acked \cup UserRules!undoGiven(r, c)]
  BY <1>0
<1> DEFINE more == hist.acked \cup UserRules!undoGiven(r, c)
<1>2. DOMAIN hist' = {"clean", "acked"} /\ hist'.acked = more
  BY <1>1
<1>3. hist.acked \subseteq more
  OBVIOUS
<1> HIDE DEF more
<1>4. /\ RulesArg(r, c.arg, hist.acked)
      /\ RulesCalls(UserRules!Ended(calls, r, c), more) /\ UndosAcked(ui, more)
  BY <1>3, RulesMore, RulesEnds DEF RulesInv, RulesCalls
<1>5. \A text : UndosAcked([ui EXCEPT !.text = text], more)
  BY <1>4 DEF UndosAcked
<1>6. SUFFICES RulesCalls(calls', more) /\ UndosAcked(ui', more)
  BY <1>2 DEF RulesInv
<1>7. CASE r \in RulesFetch /\ c.arg[1] # "after" /\ UserRules!fetchDone(r, c)
  <2>1. PICK s, text : UserRules!proceed(c.arg, "yes", s, [ui EXCEPT !.text = text],
                                         UserRules!Ended(calls, r, c))
    BY <1>7, Zenon DEF UserRules!fetchDone
  <2>2. MayOffer(c.arg, "yes", more)
    BY <1>3, <1>4, <1>7, RulesMore DEF RulesArg
  <2> QED
    BY <1>4, <1>5, <2>1, <2>2, RulesProceed
<1>8. CASE r \in RulesFetch /\ c.arg[1] = "after" /\ UserRules!afterDone(r, c)
  <2>1. PICK s : UserRules!proceed(c.arg[3], c.arg[2], s, ui, UserRules!Ended(calls, r, c))
    BY <1>8, Zenon DEF UserRules!afterDone
  <2>2. MayOffer(c.arg[3], c.arg[2], more)
    BY <1>3, <1>4, <1>8, RulesMore DEF RulesArg
  <2> QED
    BY <1>4, <2>1, <2>2, RulesProceed
<1>9. CASE r \in RulesChange /\ UserRules!changeDone(r, c)
  <2>1. hist.acked \cup UserRules!undoGiven(r, c) \subseteq more
    BY DEF more
  <2> QED
    BY <1>9, <2>1, RulesChanged
<1>10. CASE r = "check" /\ UserRules!checkDone(c)
  <2>1. /\ calls' = UserRules!Ended(calls, r, c)
        /\ \E a, b : ui' = [ui EXCEPT !.visible = a, !.refreshing = b]
    BY <1>10 DEF UserRules!checkDone
  <2> QED
    BY <1>4, <2>1 DEF UndosAcked
<1>11. CASE r = "delay" /\ UserRules!delayDone(c)
  <2>1. UserRules!send(st, UserRules!Ended(calls, r, c), "check", <<"again">>) /\ ui' = ui
    BY <1>11 DEF UserRules!delayDone
  <2>2. RulesArg("check", <<"again">>, more) /\ "check" \in RulesRequests
    BY DEF RulesArg, RulesFetch, RulesRequests
  <2> QED
    BY <1>4, <2>1, <2>2, RulesSends
<1> QED
  BY <1>1, <1>7, <1>8, <1>9, <1>10, <1>11

(***************************************************************************)
(* The actions on the query log.  As long as the user waits and nothing    *)
(* fails, at most one request is out, and it is known what the server will *)
(* have when it is answered: what an undo brings back to what it had       *)
(* before the action.                                                      *)
(***************************************************************************)
ActionsRequests ==
  {"status", "rewrites", "access", "services", "rules", "set_url", "feature", "safesearch",
   "service", "rw_delete", "rw_add", "access_get", "access_set"}
ActionsState == {"busy", "userRules", "filter", "rewrites", "blocked", "safesearch", "allowed",
                 "disallowed"}
ActionsServer(v) ==
  /\ v = [userRules |-> v.userRules, filter |-> v.filter, features |-> v.features,
          rewrites |-> v.rewrites, blocked |-> v.blocked, safesearch |-> v.safesearch,
          allowed |-> v.allowed, disallowed |-> v.disallowed]
  /\ v.filter \in BOOLEAN
ActionsHist(h) ==
  /\ h = [clean |-> h.clean, before |-> h.before, older |-> h.older, undone |-> h.undone,
          settings |-> h.settings]
  /\ h.clean \in BOOLEAN /\ h.undone \in BOOLEAN /\ h.settings \in BOOLEAN
ActionsCalls(cs) ==
  CallsOK(cs, ActionsRequests) /\ \A c \in cs["set_url"] : c.arg[1] \in BOOLEAN

\* What the server has once it has acted on a request, and on an undo.
After(r, arg, v) ==
  IF r = "rules" THEN [v EXCEPT !.userRules = arg[1]]
  ELSE IF r = "set_url" THEN [v EXCEPT !.filter = arg[1]]
  ELSE IF r = "feature" THEN [v EXCEPT !.features = arg[1]]
  ELSE IF r = "safesearch" THEN [v EXCEPT !.safesearch = arg[1]]
  ELSE IF r = "service" THEN [v EXCEPT !.blocked = arg[1]]
  ELSE IF r = "rw_delete" THEN [v EXCEPT !.rewrites = @ \ {arg[1]}]
  ELSE IF r = "rw_add" THEN [v EXCEPT !.rewrites = @ \cup {arg[1]}]
  ELSE IF r = "access_set" THEN [v EXCEPT !.allowed = arg[1][1], !.disallowed = arg[1][2]]
  ELSE v
Restored(undo, v) ==
  IF undo[1] = "rules" THEN [v EXCEPT !.userRules = undo[2]]
  ELSE IF undo[1] = "service" THEN [v EXCEPT !.blocked = TRUE]
  ELSE IF undo[1] = "set_url" THEN [v EXCEPT !.filter = TRUE]
  ELSE IF undo[1] = "feature" THEN [v EXCEPT !.features = TRUE]
  ELSE IF undo[1] = "safesearch" THEN [v EXCEPT !.safesearch = undo[2]]
  ELSE [v EXCEPT !.rewrites = @ \cup {undo[2]}]

Final(r, arg, answer, v) == IF answer = <<>> THEN After(r, arg, v) ELSE v

\* The undo brings v back to what the server had before the action.
Reverts(undo, v, h) ==
  /\ undo[1] = "feature" => h.before.features = TRUE
  /\ undo[1] = "safesearch" => h.settings
  => Restored(undo, v) = h.before
Undoable(undos, v, h) == \A undo \in undos \ h.older : Reverts(undo, v, h)

\* The undo that the handler will offer.
Offers(r, arg) ==
  IF r = "rules" THEN IF arg[2][1] = "saved" THEN {<<"rules", arg[2][2]>>} ELSE {}
  ELSE IF r = "service" THEN IF arg[2][1] = "allowed" THEN {<<"service", TRUE>>} ELSE {}
  ELSE IF r = "services" THEN IF arg[1] = "allowed" THEN {<<"service", TRUE>>} ELSE {}
  ELSE IF r \in {"set_url", "feature"} THEN IF arg[2][1] = "off" THEN {<<r, {}>>} ELSE {}
  ELSE IF r = "safesearch"
       THEN IF arg[2][1] = "off" THEN {<<"safesearch", arg[2][2]>>} ELSE {}
  ELSE IF r = "rw_delete"
       THEN IF arg[2][1] = "off" THEN {<<"rewrite", arg[2][2]>>} ELSE {}
  ELSE {}

\* How the handlers that wait for r go on.
ActionsThen(r, arg) ==
  /\ r \in {"status", "rewrites", "access"} => arg[1] \in {"end", "undone"}
  /\ r = "services" => arg[1] \in {"allow", "allowed", "undone"}
  /\ r = "rules" => arg[2][1] \in {"saved", "restored"}
  /\ r = "service" => arg[2][1] \in {"allowed", "undone"}
  /\ r = "rw_add" => arg[2][1] # "off"

\* The store has what the server has, except for what a request is about.
Agrees(r, s, v, h) ==
  /\ r \notin {"rules", "status"} => s.userRules = v.userRules
  /\ r \notin {"set_url", "status"} => s.filter = v.filter
  /\ r \notin {"rewrites", "rw_delete", "rw_add"} => s.rewrites = v.rewrites
  /\ r \notin {"service", "services"} => s.blocked \in {<<>>, <<v.blocked>>}
  /\ r # "safesearch" /\ h.settings => s.safesearch = v.safesearch

\* Nothing is out, and one request is.
AtRest(s, undos, v, h) ==
  Agrees("none", s, v, h) /\ Undoable(undos, v, h) /\ (h.undone => v = h.before)
Underway(r, arg, answer, s, undos, v, h) ==
  /\ ActionsThen(r, arg) /\ Agrees(r, s, v, h)
  /\ Undoable(undos, Final(r, arg, answer, v), h)
  /\ \A undo \in Offers(r, arg) : Reverts(undo, Final(r, arg, answer, v), h)
  /\ h.undone => Final(r, arg, answer, v) = h.before
  /\ r = "access_get" \/ (r = "services" /\ arg[1] = "allow") =>
       undos \subseteq h.older /\ ~h.undone
  /\ r = "services" /\ arg[1] = "allow" => v = h.before
  /\ answer # <<>> =>
       /\ answer[1] = "ok"
       /\ r \in {"status", "rewrites", "access", "services"} => answer[2] = v
       /\ r = "rules" => v.userRules = arg[1]
       /\ r = "safesearch" => v.safesearch = arg[1]

Quiet(cs) == \A r \in ActionsRequests : cs[r] = {}
Alone(cs) ==
  \A r, q \in ActionsRequests : \A c \in cs[r], d \in cs[q] : r = q /\ c = d
Steady ==
  /\ Alone(calls)
  /\ Quiet(calls) => AtRest(st, ui.undos, srv, hist)
  /\ \A r \in ActionsRequests : \A c \in calls[r] :
       Answer(c) = "failed" \/ Underway(r, c.arg, c.answer, st, ui.undos, srv, hist)

ActionsBase(s, u, cs, v, h) ==
  /\ ActionsCalls(cs) /\ ActionsServer(v) /\ ActionsHist(h)
  /\ DOMAIN s = ActionsState /\ DOMAIN u = {"undos"}
ActionsInv == ActionsBase(st, ui, calls, srv, hist) /\ (hist.clean => Steady)
LEMMA ActionsSame ==
    /\ \A cs, r, c : Actions!Ended(cs, r, c) = Ended(cs, r, c)
    /\ \A cs, r, c, a : Actions!Answered(cs, r, c, a) = Answered(cs, r, c, a)
    /\ \A c : Actions!Answer(c) = Answer(c) /\ Actions!Data(c) = Data(c)
    /\ Actions!Requests = ActionsRequests
BY DEF Actions!Ended, Ended, Actions!Answered, Answered, Actions!Answer, Answer,
       Actions!Data, Data, Actions!Requests, Actions!Fetch, ActionsRequests

LEMMA ActionsSent ==
    ASSUME NEW cs, NEW r, NEW arg
    PROVE  \E n : Actions!Sent(cs, r, arg) = Added(cs, r, arg, n)
<1> DEFINE taken == {c.n : c \in {d \in cs[r] : d.arg = arg}}
           k == CHOOSE j \in 1 .. Actions!Cardinality(taken) + 1 : j \notin taken
<1>1. Actions!Sent(cs, r, arg) = Added(cs, r, arg, k)
  BY DEF Actions!Sent, Added
<1> QED
  BY <1>1

\* Nothing is out, and the page is at rest.
LEMMA ActionsRests ==
    ASSUME Quiet(calls'), AtRest(st', ui'.undos, srv', hist')
    PROVE  Steady'
BY DEF Steady, Quiet, Alone

\* A handler that ends.
LEMMA ActionsStops ==
    ASSUME NEW s, NEW u, NEW cs, Actions!stop(s, u, cs), ActionsBase(s, u, cs, srv', hist'),
           hist'.clean => Quiet(cs) /\ AtRest(s, u.undos, srv', hist')
    PROVE  ActionsInv'
<1>1. st' = s /\ ui' = u /\ calls' = cs
  BY DEF Actions!stop
<1>2. ActionsBase(st', ui', calls', srv', hist')
  BY <1>1
<1>3. hist'.clean => Steady'
  BY <1>1, ActionsRests
<1> QED
  BY <1>2, <1>3 DEF ActionsInv

\* A handler that sends a request and waits.
LEMMA ActionsSends ==
    ASSUME NEW s, NEW cs, NEW r \in ActionsRequests, NEW arg, Actions!send(s, cs, r, arg),
           ActionsBase(s, ui', cs, srv', hist'), r = "set_url" => arg[1] \in BOOLEAN,
           hist'.clean => Quiet(cs) /\ Underway(r, arg, <<>>, s, ui'.undos, srv', hist')
    PROVE  ActionsInv'
<1>1. calls' = Actions!Sent(cs, r, arg) /\ \E b : st' = [s EXCEPT !.busy = b]
  BY DEF Actions!send
<1>2. PICK n : calls' = Added(cs, r, arg, n)
  BY <1>1, ActionsSent
<1>3. ActionsCalls(cs) /\ CallsOK(cs, ActionsRequests) /\ DOMAIN s = ActionsState
  BY DEF ActionsBase, ActionsCalls
<1> DEFINE new == [arg |-> arg, n |-> n, answer |-> <<>>]
<1>4. new.arg = arg /\ new.answer = <<>>
  OBVIOUS
<1>5. /\ CallsOK(calls', ActionsRequests)
      /\ \A q \in ActionsRequests \ {r} : calls'[q] = cs[q]
      /\ calls'[r] = cs[r] \cup {new}
  BY <1>2, <1>3, SentAdds
<1> HIDE DEF new
<1>6. /\ DOMAIN st' = ActionsState
      /\ st'.userRules = s.userRules /\ st'.filter = s.filter /\ st'.rewrites = s.rewrites
      /\ st'.blocked = s.blocked /\ st'.safesearch = s.safesearch
  BY <1>1, <1>3 DEF ActionsState
<1>7. \A c \in calls'["set_url"] : c.arg[1] \in BOOLEAN
  BY <1>3, <1>4, <1>5 DEF ActionsCalls, ActionsRequests
<1>8. ActionsBase(st', ui', calls', srv', hist')
  BY <1>5, <1>6, <1>7 DEF ActionsBase, ActionsCalls
<1>9. ASSUME hist'.clean PROVE Steady'
  <2>1. Quiet(cs) /\ Underway(r, arg, <<>>, s, ui'.undos, srv', hist')
    BY <1>9
  <2>2. \A q \in ActionsRequests : \A c \in calls'[q] : q = r /\ c = new
    BY <1>5, <2>1 DEF Quiet
  <2>3. Alone(calls')
    BY <2>2 DEF Alone
  <2>4. ~Quiet(calls')
    BY <1>5 DEF Quiet
  <2>5. Agrees(r, s, srv', hist') => Agrees(r, st', srv', hist')
    BY <1>6 DEF Agrees
  <2>6. Underway(r, new.arg, new.answer, st', ui'.undos, srv', hist')
    BY <1>4, <2>1, <2>5 DEF Underway
  <2> QED
    BY <2>2, <2>3, <2>4, <2>6 DEF Steady
<1> QED
  BY <1>8, <1>9 DEF ActionsInv

LEMMA ActionsInit == Actions!Init => ActionsInv
<1> SUFFICES ASSUME Actions!Init PROVE ActionsInv
  OBVIOUS
<1> DEFINE first == [arg |-> <<"end">>, n |-> 1, answer |-> <<>>]
<1>1. IsCall(first) /\ first.arg = <<"end">> /\ first.answer = <<>>
  BY DEF IsCall
<1>2. /\ calls = [r \in Actions!Requests |->
                    IF r \in Actions!Fetch \ {"rewrites", "access"} THEN {first} ELSE {}]
      /\ ui = [undos |-> {}]
  BY DEF Actions!Init
<1> HIDE DEF first
<1>3. ActionsServer(srv) /\ srv.blocked = TRUE /\ srv.rewrites = {"r1"} /\ srv.filter = TRUE
  BY DEF Actions!Init, ActionsServer
<1>4. PICK known \in BOOLEAN :
        /\ st = [Actions!initialState EXCEPT
                   !.busy = Actions!Fetch \ {"rewrites", "access"},
                   !.safesearch = IF known THEN srv.safesearch ELSE Actions!NoSafeSearch,
                   !.rewrites = IF "rewrites" \in {"rewrites", "access"} THEN srv.rewrites ELSE {},
                   !.allowed = IF "access" \in {"rewrites", "access"} THEN srv.allowed ELSE {}]
        /\ hist = [clean |-> TRUE, before |-> srv, older |-> {}, undone |-> FALSE,
                   settings |-> known]
  BY DEF Actions!Init
<1>5. /\ DOMAIN st = ActionsState /\ st.rewrites = srv.rewrites /\ st.blocked = <<>>
      /\ known => st.safesearch = srv.safesearch
  BY <1>4 DEF Actions!initialState, ActionsState
<1>6. ActionsHist(hist) /\ ~hist.undone /\ hist.settings = known
  BY <1>4 DEF ActionsHist
<1>7. \A r \in ActionsRequests : calls[r] \subseteq {first} /\ (r # "status" => calls[r] = {})
  BY <1>2, ActionsSame DEF Actions!Fetch
<1>8. calls["status"] = {first} /\ DOMAIN calls = ActionsRequests
  BY <1>2, ActionsSame DEF Actions!Fetch, ActionsRequests
<1>9. ActionsCalls(calls)
  BY <1>1, <1>7, <1>8 DEF ActionsCalls, CallsOK, ActionsRequests
<1>10. Underway("status", first.arg, first.answer, st, ui.undos, srv, hist)
  <2>1. ActionsThen("status", first.arg) /\ Agrees("status", st, srv, hist)
    BY <1>1, <1>5, <1>6 DEF ActionsThen, Agrees
  <2>2. Offers("status", first.arg) = {} /\ ui.undos = {}
    BY <1>2 DEF Offers
  <2> QED
    BY <1>1, <1>6, <2>1, <2>2 DEF Underway, Undoable
<1>11. Steady
  <2>1. Alone(calls) /\ ~Quiet(calls)
    BY <1>7, <1>8 DEF Alone, Quiet, ActionsRequests
  <2> QED
    BY <1>7, <1>10, <2>1 DEF Steady
<1> QED
  BY <1>2, <1>3, <1>5, <1>6, <1>9, <1>11 DEF ActionsInv, ActionsBase

\* What follows a thunk, which leaves the store as the server is.
LEMMA ActionsProceed ==
    ASSUME NEW then, NEW result, NEW s, NEW u, NEW cs, Actions!proceed(then, result, s, u, cs),
           ActionsBase(s, u, cs, srv', hist'),
           hist'.clean => /\ Quiet(cs) /\ AtRest(s, u.undos, srv', hist')
                          /\ then[1] = "saved" => Reverts(<<"rules", then[2]>>, srv', hist')
                          /\ then[1] = "allowed" => Reverts(<<"service", TRUE>>, srv', hist')
    PROVE  ActionsInv'
<1>0. DOMAIN u = {"undos"} /\ "status" \in ActionsRequests
  BY DEF ActionsBase, ActionsRequests
<1>1. ASSUME NEW arg, arg[1] \in {"end", "undone"}, Actions!send(s, cs, "status", arg),
             NEW w, ui' = w, DOMAIN w = {"undos"},
             hist'.clean => AtRest(s, w.undos, srv', hist')
      PROVE  ActionsInv'
  <2>1. ActionsBase(s, ui', cs, srv', hist')
    BY <1>1 DEF ActionsBase
  <2>2. hist'.clean => Underway("status", arg, <<>>, s, ui'.undos, srv', hist')
    <3>1. Offers("status", arg) = {} /\ ActionsThen("status", arg)
          /\ Final("status", arg, <<>>, srv') = srv'
      BY <1>1 DEF Offers, ActionsThen, Final, After
    <3>2. Agrees("none", s, srv', hist') => Agrees("status", s, srv', hist')
      BY DEF Agrees
    <3> QED
      BY <1>1, <3>1, <3>2 DEF Underway, AtRest
  <2> QED
    BY <1>0, <1>1, <2>1, <2>2, ActionsSends
<1>2. ASSUME NEW undo, hist'.clean => Reverts(undo, srv', hist')
      PROVE  LET w == [u EXCEPT !.undos = @ \cup {undo}]
             IN  DOMAIN w = {"undos"} /\ (hist'.clean => AtRest(s, w.undos, srv', hist'))
  BY <1>0, <1>2 DEF AtRest, Undoable
<1>3. ASSUME NEW undo
      PROVE  LET w == [u EXCEPT !.undos = @ \ {undo}]
             IN  DOMAIN w = {"undos"} /\ (hist'.clean => AtRest(s, w.undos, srv', hist'))
  BY <1>0 DEF AtRest, Undoable
<1>4. CASE Actions!stop(s, u, cs)
  BY <1>4, ActionsStops
<1>5. CASE then[1] = "saved" /\ Actions!send(s, cs, "status", <<"end">>)
           /\ ui' = [u EXCEPT !.undos = @ \cup {<<"rules", then[2]>>}]
  <2> DEFINE w == [u EXCEPT !.undos = @ \cup {<<"rules", then[2]>>}]
  <2>1. DOMAIN w = {"undos"} /\ (hist'.clean => AtRest(s, w.undos, srv', hist'))
    BY <1>2, <1>5
  <2> HIDE DEF w
  <2>2. ui' = w /\ Actions!send(s, cs, "status", <<"end">>)
    BY <1>5 DEF w
  <2> QED
    BY <1>1, <2>1, <2>2
<1>6. CASE then[1] = "allowed"
           /\ Actions!stop(s, [u EXCEPT !.undos = @ \cup {<<"service", TRUE>>}], cs)
  <2> DEFINE w == [u EXCEPT !.undos = @ \cup {<<"service", TRUE>>}]
  <2>1. DOMAIN w = {"undos"} /\ (hist'.clean => AtRest(s, w.undos, srv', hist'))
    BY <1>2, <1>6
  <2>2. Actions!stop(s, w, cs)
    BY <1>6
  <2> HIDE DEF w
  <2>3. ActionsBase(s, w, cs, srv', hist')
    BY <2>1 DEF ActionsBase
  <2> QED
    BY <2>1, <2>2, <2>3, ActionsStops
<1>7. CASE Actions!send(s, cs, "status", <<"undone", then[2]>>) /\ ui' = u
  <2>1. <<"undone", then[2]>>[1] \in {"end", "undone"}
    OBVIOUS
  <2> QED
    BY <1>0, <1>1, <1>7, <2>1
<1>8. CASE Actions!stop(s, [u EXCEPT !.undos = @ \ {then[2]}], cs)
  <2> DEFINE w == [u EXCEPT !.undos = @ \ {then[2]}]
  <2>1. DOMAIN w = {"undos"} /\ (hist'.clean => AtRest(s, w.undos, srv', hist'))
    BY <1>3
  <2>2. Actions!stop(s, w, cs)
    BY <1>8
  <2> HIDE DEF w
  <2>3. ActionsBase(s, w, cs, srv', hist')
    BY <2>1 DEF ActionsBase
  <2> QED
    BY <2>1, <2>2, <2>3, ActionsStops
<1> QED
  BY <1>4, <1>5, <1>6, <1>7, <1>8 DEF Actions!proceed

\* A step of the user is clean only if the page was at rest.
LEMMA ActionsIdle ==
    ASSUME ActionsInv, hist.clean, Actions!Idle
    PROVE  Quiet(calls) /\ AtRest(st, ui.undos, srv, hist)
BY DEF ActionsInv, ActionsBase, ActionsCalls, CallsOK, Actions!Idle, Quiet, Steady

\* An action: what it sends, and the undo it will offer.
LEMMA ActionsActs ==
    ASSUME ActionsInv, Actions!Acts, UNCHANGED ui, NEW r \in ActionsRequests, NEW arg,
           Actions!send(st, calls, r, arg), r = "set_url" => arg[1] \in BOOLEAN,
           ActionsThen(r, arg),
           Agrees("none", st, srv, hist) =>
             \A undo \in Offers(r, arg) :
               /\ undo[1] = "safesearch" => hist.settings
               /\ undo[1] = "feature" => srv.features = TRUE
               => Restored(undo, After(r, arg, srv)) = srv
    PROVE  ActionsInv'
<1>1. /\ srv' = srv
      /\ hist' = [hist EXCEPT !.clean = @ /\ Actions!Idle, !.undone = FALSE, !.before = srv,
                              !.older = ui.undos]
  BY DEF Actions!Acts, Actions!Act
<1>2. ActionsBase(st, ui, calls, srv, hist) /\ ActionsHist(hist)
  BY DEF ActionsInv, ActionsBase
<1>3. /\ ActionsHist(hist') /\ ~hist'.undone /\ hist'.before = srv /\ hist'.older = ui.undos
      /\ hist'.settings = hist.settings /\ (hist'.clean => hist.clean /\ Actions!Idle)
  BY <1>1, <1>2 DEF ActionsHist
<1>4. ActionsBase(st, ui', calls, srv', hist')
  BY <1>1, <1>2, <1>3 DEF ActionsBase
<1>5. ASSUME hist'.clean
      PROVE  Quiet(calls) /\ Underway(r, arg, <<>>, st, ui'.undos, srv', hist')
  <2>1. Quiet(calls) /\ AtRest(st, ui.undos, srv, hist)
    BY <1>3, <1>5, ActionsIdle
  <2>2. Agrees("none", st, srv, hist)
    BY <2>1 DEF AtRest
  <2>3. Agrees(r, st, srv', hist')
    BY <1>1, <1>3, <2>2 DEF Agrees
  <2>4. Final(r, arg, <<>>, srv') = After(r, arg, srv)
    BY <1>1 DEF Final
  <2>5. \A undo \in Offers(r, arg) : Reverts(undo, After(r, arg, srv), hist')
    BY <1>3, <2>2 DEF Reverts
  <2>6. ui'.undos \subseteq hist'.older
    BY <1>3
  <2>7. Undoable(ui'.undos, After(r, arg, srv), hist')
    BY <2>6 DEF Undoable
  <2> QED
    BY <1>1, <1>3, <2>1, <2>3, <2>4, <2>5, <2>6, <2>7 DEF Underway
<1> QED
  BY <1>4, <1>5, ActionsSends

\* The rule is added, and the undo has the rules that were there.
LEMMA ActionsRule ==
    ASSUME ActionsInv, Actions!Acts, UNCHANGED ui, NEW rule, NEW opposite,
           Actions!addRule(rule, opposite)
    PROVE  ActionsInv'
<1> DEFINE then == <<"saved", st.userRules>>
           arg == <<(st.userRules \ {opposite}) \cup {rule}, then>>
<1>1. Actions!send(st, calls, "rules", arg) /\ "rules" \in ActionsRequests
  BY DEF Actions!addRule, Actions!previousRules, ActionsRequests
<1>2. ActionsThen("rules", arg) /\ Offers("rules", arg) = {<<"rules", st.userRules>>}
  BY DEF ActionsThen, Offers
<1>3. ActionsServer(srv)
  BY DEF ActionsInv, ActionsBase
<1>4. ASSUME Agrees("none", st, srv, hist)
      PROVE  Restored(<<"rules", st.userRules>>, After("rules", arg, srv)) = srv
  <2>1. st.userRules = srv.userRules
    BY <1>4 DEF Agrees
  <2> QED
    BY <1>3, <2>1 DEF Restored, After, ActionsServer
<1> HIDE DEF arg
<1> QED
  BY <1>1, <1>2, <1>4, ActionsActs

\* A request that is about no undo.
LEMMA ActionsAsks ==
    ASSUME ActionsInv, Actions!Acts, UNCHANGED ui, NEW r \in {"services", "access_get"}, NEW arg,
           r = "services" => arg[1] = "allow", Actions!send(st, calls, r, arg)
    PROVE  ActionsInv'
<1>1. ActionsThen(r, arg) /\ Offers(r, arg) = {} /\ r \in ActionsRequests
  BY DEF ActionsThen, Offers, ActionsRequests
<1> QED
  BY <1>1, ActionsActs

\* Undo in a toast.
LEMMA ActionsUndo == ActionsInv /\ Actions!clickUndo => ActionsInv'
<1> SUFFICES ASSUME ActionsInv, Actions!clickUndo PROVE ActionsInv'
  OBVIOUS
<1>1. PICK undo \in ui.undos :
       /\ hist' = [hist EXCEPT !.clean = @ /\ Actions!Idle, !.undone = Actions!OfLastAction(undo),
                               !.older = ui.undos]
       /\ \/ undo[1] = "rules"
             /\ Actions!send(st, calls, "rules", <<undo[2], <<"restored", undo>>>>)
          \/ undo[1] = "service" /\ Actions!send(st, calls, "service", <<TRUE, <<"undone", undo>>>>)
          \/ undo[1] = "set_url" /\ Actions!send(st, calls, "set_url", <<TRUE, <<"on", undo>>>>)
          \/ undo[1] = "feature" /\ Actions!send(st, calls, "feature", <<TRUE, <<"on", undo>>>>)
          \/ undo[1] = "safesearch"
             /\ Actions!send(st, calls, "safesearch", <<undo[2], <<"on", undo>>>>)
          \/ undo[1] = "rewrite" /\ Actions!send(st, calls, "rw_add", <<undo[2], <<"on", undo>>>>)
  BY DEF Actions!clickUndo
<1>2. srv' = srv /\ ui' = ui
  BY DEF Actions!clickUndo, Actions!Act
<1>3. ActionsBase(st, ui, calls, srv, hist) /\ ActionsHist(hist)
  BY DEF ActionsInv, ActionsBase
<1>4. Actions!OfLastAction(undo) \in BOOLEAN
  BY DEF Actions!OfLastAction
<1>5. /\ ActionsHist(hist') /\ hist'.undone = Actions!OfLastAction(undo)
      /\ hist'.before = hist.before /\ hist'.older = ui.undos
      /\ hist'.settings = hist.settings /\ (hist'.clean => hist.clean /\ Actions!Idle)
  BY <1>1, <1>3, <1>4 DEF ActionsHist
<1>6. ActionsBase(st, ui', calls, srv', hist')
  BY <1>2, <1>3, <1>5 DEF ActionsBase
<1>7. ASSUME NEW r \in ActionsRequests, NEW arg, Actions!send(st, calls, r, arg),
             r = "set_url" => arg[1] \in BOOLEAN, ActionsThen(r, arg), Offers(r, arg) = {},
             r \notin {"access_get", "services"}, After(r, arg, srv) = Restored(undo, srv)
      PROVE  ActionsInv'
  <2>1. ASSUME hist'.clean
        PROVE  Quiet(calls) /\ Underway(r, arg, <<>>, st, ui'.undos, srv', hist')
    <3>1. Quiet(calls) /\ AtRest(st, ui.undos, srv, hist)
      BY <1>5, <2>1, ActionsIdle
    <3>2. Agrees("none", st, srv, hist)
      BY <3>1 DEF AtRest
    <3>3. Agrees(r, st, srv', hist')
      BY <1>2, <1>5, <3>2 DEF Agrees
    <3>4. Final(r, arg, <<>>, srv') = Restored(undo, srv)
      BY <1>2, <1>7 DEF Final
    <3>5. hist'.undone => Restored(undo, srv) = hist'.before
      BY <1>5, <3>1 DEF AtRest, Undoable, Reverts, Actions!OfLastAction
    <3>6. Undoable(ui'.undos, Restored(undo, srv), hist')
      BY <1>2, <1>5 DEF Undoable
    <3> QED
      BY <1>7, <3>1, <3>3, <3>4, <3>5, <3>6 DEF Underway
  <2> QED
    BY <1>6, <1>7, <2>1, ActionsSends
<1>8. /\ {"rules", "service", "set_url", "feature", "safesearch", "rw_add"}
           \subseteq ActionsRequests
      /\ ActionsServer(srv)
  BY <1>3 DEF ActionsRequests, ActionsBase
<1>9. CASE undo[1] = "rules" /\ Actions!send(st, calls, "rules", <<undo[2], <<"restored", undo>>>>)
  <2> DEFINE arg == <<undo[2], <<"restored", undo>>>>
  <2>1. /\ ActionsThen("rules", arg) /\ Offers("rules", arg) = {}
        /\ After("rules", arg, srv) = Restored(undo, srv)
    BY <1>9 DEF ActionsThen, Offers, After, Restored
  <2> QED
    BY <1>7, <1>8, <1>9, <2>1
<1>10. CASE undo[1] = "service" /\ Actions!send(st, calls, "service", <<TRUE, <<"undone", undo>>>>)
  <2> DEFINE arg == <<TRUE, <<"undone", undo>>>>
  <2>1. /\ ActionsThen("service", arg) /\ Offers("service", arg) = {}
        /\ After("service", arg, srv) = Restored(undo, srv)
    BY <1>10 DEF ActionsThen, Offers, After, Restored
  <2> QED
    BY <1>7, <1>8, <1>10, <2>1
<1>11. CASE undo[1] = "set_url" /\ Actions!send(st, calls, "set_url", <<TRUE, <<"on", undo>>>>)
  <2> DEFINE arg == <<TRUE, <<"on", undo>>>>
  <2>1. /\ ActionsThen("set_url", arg) /\ Offers("set_url", arg) = {} /\ arg[1] \in BOOLEAN
        /\ After("set_url", arg, srv) = Restored(undo, srv)
    BY <1>11 DEF ActionsThen, Offers, After, Restored
  <2> QED
    BY <1>7, <1>8, <1>11, <2>1
<1>12. CASE undo[1] = "feature" /\ Actions!send(st, calls, "feature", <<TRUE, <<"on", undo>>>>)
  <2> DEFINE arg == <<TRUE, <<"on", undo>>>>
  <2>1. /\ ActionsThen("feature", arg) /\ Offers("feature", arg) = {}
        /\ After("feature", arg, srv) = Restored(undo, srv)
    BY <1>12 DEF ActionsThen, Offers, After, Restored
  <2> QED
    BY <1>7, <1>8, <1>12, <2>1
<1>13. CASE undo[1] = "safesearch"
            /\ Actions!send(st, calls, "safesearch", <<undo[2], <<"on", undo>>>>)
  <2> DEFINE arg == <<undo[2], <<"on", undo>>>>
  <2>1. /\ ActionsThen("safesearch", arg) /\ Offers("safesearch", arg) = {}
        /\ After("safesearch", arg, srv) = Restored(undo, srv)
    BY <1>13 DEF ActionsThen, Offers, After, Restored
  <2> QED
    BY <1>7, <1>8, <1>13, <2>1
<1>14. CASE undo[1] = "rewrite" /\ Actions!send(st, calls, "rw_add", <<undo[2], <<"on", undo>>>>)
  <2> DEFINE arg == <<undo[2], <<"on", undo>>>>
  <2>1. /\ ActionsThen("rw_add", arg) /\ Offers("rw_add", arg) = {}
        /\ After("rw_add", arg, srv) = Restored(undo, srv)
    BY <1>14 DEF ActionsThen, Offers, After, Restored
  <2> QED
    BY <1>7, <1>8, <1>14, <2>1
<1> QED
  BY <1>1, <1>9, <1>10, <1>11, <1>12, <1>13, <1>14

\* The store says that the service is blocked.
LEMMA OneBlocked ==
    ASSUME NEW b, <<TRUE>> \in {<<>>, <<b>>}
    PROVE  b = TRUE
<1>1. <<TRUE>> # <<>>
  OBVIOUS
<1>2. <<TRUE>> = <<b>>
  BY <1>1
<1>3. <<TRUE>>[1] = TRUE /\ <<b>>[1] = b
  OBVIOUS
<1> QED
  BY <1>2, <1>3

\* A toast that expires.
LEMMA ActionsExpires == ActionsInv /\ Actions!undoExpires => ActionsInv'
<1> SUFFICES ASSUME ActionsInv, Actions!undoExpires PROVE ActionsInv'
  OBVIOUS
<1>1. PICK undo : ui' = [ui EXCEPT !.undos = @ \ {undo}]
  BY DEF Actions!undoExpires
<1>2. UNCHANGED <<st, calls, srv, hist>>
  BY DEF Actions!undoExpires, Actions!Look
<1>3. ActionsBase(st, ui, calls, srv, hist) /\ DOMAIN ui = {"undos"}
  BY DEF ActionsInv, ActionsBase
<1>4. DOMAIN ui' = {"undos"} /\ ui'.undos \subseteq ui.undos
  BY <1>1, <1>3
<1>5. ActionsBase(st, ui', calls, srv, hist)
  BY <1>3, <1>4 DEF ActionsBase
<1>6. \A v : Undoable(ui.undos, v, hist) => Undoable(ui'.undos, v, hist)
  BY <1>4 DEF Undoable
<1>7. AtRest(st, ui.undos, srv, hist) => AtRest(st, ui'.undos, srv, hist)
  BY <1>6 DEF AtRest
<1>8. \A r, arg, answer : Underway(r, arg, answer, st, ui.undos, srv, hist)
                          => Underway(r, arg, answer, st, ui'.undos, srv, hist)
  BY <1>4, <1>6 DEF Underway
<1>9. Steady => Steady'
  BY <1>2, <1>7, <1>8 DEF Steady, Alone, Quiet
<1> QED
  BY <1>2, <1>5, <1>9 DEF ActionsInv

LEMMA ActionsUser == ActionsInv /\ Actions!UserStep => ActionsInv'
<1> SUFFICES ASSUME ActionsInv, Actions!UserStep PROVE ActionsInv'
  OBVIOUS
<1>0. /\ ActionsServer(srv)
      /\ {"services", "service", "set_url", "feature", "safesearch", "rw_delete", "access_get"}
           \subseteq ActionsRequests
  BY DEF ActionsInv, ActionsBase, ActionsRequests
<1>1. CASE Actions!handleBlock \/ Actions!handleAddToAllowlist \/ Actions!menuBlock
  <2>1. /\ Actions!Acts /\ UNCHANGED ui
        /\ \E rule, opposite : Actions!addRule(rule, opposite)
    BY <1>1 DEF Actions!handleBlock, Actions!handleAddToAllowlist, Actions!menuBlock, Actions!Chosen
  <2> QED
    BY <2>1, ActionsRule
<1>2. CASE Actions!handleAllowService
  <2>1. Actions!Acts /\ UNCHANGED ui
    BY <1>2 DEF Actions!handleAllowService, Actions!Chosen
  <2>2. CASE Actions!send(st, calls, "services", <<"allow">>)
    <3>1. <<"allow">>[1] = "allow"
      OBVIOUS
    <3> QED
      BY <2>1, <2>2, <3>1, ActionsAsks
  <2>3. CASE st.blocked = <<TRUE>> /\ Actions!send(st, calls, "service", <<FALSE, <<"allowed">>>>)
    <3> DEFINE arg == <<FALSE, <<"allowed">>>>
    <3>1. ActionsThen("service", arg) /\ Offers("service", arg) = {<<"service", TRUE>>}
      BY DEF ActionsThen, Offers
    <3>2. ASSUME Agrees("none", st, srv, hist)
          PROVE  Restored(<<"service", TRUE>>, After("service", arg, srv)) = srv
      <4>1. st.blocked \in {<<>>, <<srv.blocked>>}
        BY <3>2 DEF Agrees
      <4>2. <<TRUE>> \in {<<>>, <<srv.blocked>>}
        BY <2>3, <4>1
      <4>3. srv.blocked = TRUE
        BY <4>2, OneBlocked
      <4> QED
        BY <1>0, <4>3 DEF Restored, After, ActionsServer
    <3>3. Actions!send(st, calls, "service", arg)
      BY <2>3
    <3> HIDE DEF arg
    <3> QED
      BY <1>0, <2>1, <3>1, <3>2, <3>3, ActionsActs
  <2> QED
    BY <1>2, <2>2, <2>3 DEF Actions!handleAllowService
<1>3. CASE Actions!handleDisableFilter
  <2> DEFINE arg == <<FALSE, <<"off">>>>
  <2>1. /\ Actions!Acts /\ UNCHANGED ui /\ Actions!send(st, calls, "set_url", arg)
        /\ \E reason : "disable-filter" \in Actions!detailActions(reason)
    BY <1>3 DEF Actions!handleDisableFilter, Actions!Chosen
  <2>2. st.filter
    BY <2>1 DEF Actions!detailActions
  <2>3. /\ ActionsThen("set_url", arg) /\ Offers("set_url", arg) = {<<"set_url", {}>>}
        /\ arg[1] \in BOOLEAN
    BY DEF ActionsThen, Offers
  <2>4. ASSUME Agrees("none", st, srv, hist)
        PROVE  Restored(<<"set_url", {}>>, After("set_url", arg, srv)) = srv
    <3>1. srv.filter = TRUE
      BY <1>0, <2>2, <2>4 DEF Agrees, ActionsServer
    <3> QED
      BY <1>0, <3>1 DEF Restored, After, ActionsServer
  <2> HIDE DEF arg
  <2> QED
    BY <1>0, <2>1, <2>3, <2>4, ActionsActs
<1>4. CASE Actions!handleDisableFeature
  <2> DEFINE arg == <<FALSE, <<"off">>>>
  <2>1. Actions!Acts /\ UNCHANGED ui /\ Actions!send(st, calls, "feature", arg)
    BY <1>4 DEF Actions!handleDisableFeature, Actions!Chosen
  <2>2. ActionsThen("feature", arg) /\ Offers("feature", arg) = {<<"feature", {}>>}
    BY DEF ActionsThen, Offers
  <2>3. ASSUME srv.features = TRUE
        PROVE  Restored(<<"feature", {}>>, After("feature", arg, srv)) = srv
    BY <1>0, <2>3 DEF Restored, After, ActionsServer
  <2> DEFINE undo == <<"feature", {}>>
  <2>4. undo[1] = "feature"
    OBVIOUS
  <2> HIDE DEF arg, undo
  <2>5. \A u \in Offers("feature", arg) : u = undo
    BY <2>2 DEF undo
  <2>6. srv.features = TRUE => Restored(undo, After("feature", arg, srv)) = srv
    BY <2>3 DEF undo
  <2>7. \A u \in Offers("feature", arg) :
          (u[1] = "safesearch" => hist.settings) /\ (u[1] = "feature" => srv.features = TRUE)
          => Restored(u, After("feature", arg, srv)) = srv
    BY <2>4, <2>5, <2>6
  <2> QED
    BY <1>0, <2>1, <2>2, <2>7, ActionsActs
<1>5. CASE Actions!handleDisableSafeSearch
  <2> DEFINE off == [st.safesearch EXCEPT !.on = FALSE]
             arg == <<off, <<"off", st.safesearch>>>>
             undo == <<"safesearch", st.safesearch>>
  <2>1. Actions!Acts /\ UNCHANGED ui /\ Actions!send(st, calls, "safesearch", arg)
    BY <1>5 DEF Actions!handleDisableSafeSearch, Actions!Chosen
  <2> HIDE DEF off
  <2>2. ActionsThen("safesearch", arg) /\ Offers("safesearch", arg) = {undo}
    BY DEF ActionsThen, Offers
  <2>3. ASSUME Agrees("none", st, srv, hist), hist.settings
        PROVE  Restored(undo, After("safesearch", arg, srv)) = srv
    <3>1. st.safesearch = srv.safesearch
      BY <2>3 DEF Agrees
    <3> QED
      BY <1>0, <3>1 DEF Restored, After, ActionsServer
  <2>4. undo[1] = "safesearch"
    OBVIOUS
  <2> HIDE DEF arg, undo
  <2> QED
    BY <1>0, <2>1, <2>2, <2>3, <2>4, ActionsActs
<1>6. CASE Actions!handleRemoveRewrite
  <2>1. PICK rw \in st.rewrites : Actions!send(st, calls, "rw_delete", <<rw, <<"off", rw>>>>)
    BY <1>6 DEF Actions!handleRemoveRewrite
  <2>2. Actions!Acts /\ UNCHANGED ui
    BY <1>6 DEF Actions!handleRemoveRewrite, Actions!Chosen
  <2> DEFINE arg == <<rw, <<"off", rw>>>>
  <2>3. ActionsThen("rw_delete", arg) /\ Offers("rw_delete", arg) = {<<"rewrite", rw>>}
    BY DEF ActionsThen, Offers
  <2>4. ASSUME Agrees("none", st, srv, hist)
        PROVE  Restored(<<"rewrite", rw>>, After("rw_delete", arg, srv)) = srv
    <3>1. rw \in srv.rewrites
      BY <2>4 DEF Agrees
    <3>2. (srv.rewrites \ {rw}) \cup {rw} = srv.rewrites
      BY <3>1
    <3> QED
      BY <1>0, <3>2 DEF Restored, After, ActionsServer
  <2>5. Actions!send(st, calls, "rw_delete", arg)
    BY <2>1
  <2> HIDE DEF arg
  <2> QED
    BY <1>0, <2>2, <2>3, <2>4, <2>5, ActionsActs
<1>7. CASE Actions!handleConfirmDisallow \/ Actions!handleConfirm
  <2>1. /\ Actions!Acts /\ UNCHANGED ui
        /\ \E arg : Actions!send(st, calls, "access_get", arg)
    BY <1>7 DEF Actions!handleConfirmDisallow, Actions!handleConfirm
  <2> QED
    BY <2>1, ActionsAsks
<1> QED
  BY <1>1, <1>2, <1>3, <1>4, <1>5, <1>6, <1>7, ActionsUndo, ActionsExpires DEF Actions!UserStep

\* The server acts on a request as After says.
LEMMA ActionsServes ==
    ASSUME NEW r \in ActionsRequests, NEW c, Actions!serve(r, c)
    PROVE  \E data : /\ r \in {"status", "rewrites", "access", "services"} => data = srv
                     /\ Actions!Served(r, c, After(r, c.arg, srv), data)
<1>1. CASE r \in {"status", "rewrites", "access", "services", "access_get"}
  <2>1. Actions!Served(r, c, srv, srv)
    BY <1>1 DEF Actions!serve, Actions!Fetch
  <2>2. After(r, c.arg, srv) = srv
    BY <1>1 DEF After
  <2> QED
    BY <2>1, <2>2
<1>2. CASE r \in {"rules", "set_url", "feature", "safesearch", "service", "rw_delete", "rw_add",
                  "access_set"}
  <2>1. Actions!Served(r, c, After(r, c.arg, srv), {})
    BY <1>2 DEF Actions!serve, Actions!Fetch, After
  <2> QED
    BY <1>2, <2>1
<1> QED
  BY <1>1, <1>2 DEF ActionsRequests

LEMMA AfterServer ==
    ASSUME NEW r, NEW arg, NEW v, ActionsServer(v), r = "set_url" => arg[1] \in BOOLEAN
    PROVE  ActionsServer(After(r, arg, v))
<1>1. CASE r = "rules"
  BY <1>1 DEF After, ActionsServer
<1>2. CASE r = "set_url"
  BY <1>2 DEF After, ActionsServer
<1>3. CASE r = "feature"
  BY <1>3 DEF After, ActionsServer
<1>4. CASE r = "safesearch"
  BY <1>4 DEF After, ActionsServer
<1>5. CASE r = "service"
  BY <1>5 DEF After, ActionsServer
<1>6. CASE r = "rw_delete"
  BY <1>6 DEF After, ActionsServer
<1>7. CASE r = "rw_add"
  BY <1>7 DEF After, ActionsServer
<1>8. CASE r = "access_set"
  BY <1>8 DEF After, ActionsServer
<1>9. CASE r \notin {"rules", "set_url", "feature", "safesearch", "service", "rw_delete", "rw_add",
                     "access_set"}
  BY <1>9 DEF After, ActionsServer
<1> QED
  BY <1>1, <1>2, <1>3, <1>4, <1>5, <1>6, <1>7, <1>8, <1>9

\* An answer tells what was expected of it.
LEMMA UnderwayServed ==
    ASSUME NEW r, NEW arg, NEW s, NEW undos, NEW v, NEW h, NEW data, ActionsServer(v),
           Underway(r, arg, <<>>, s, undos, v, h),
           r \in {"status", "rewrites", "access", "services"} => data = v
    PROVE  Underway(r, arg, <<"ok", data>>, s, undos, After(r, arg, v), h)
<1> DEFINE w == After(r, arg, v)
           answer == <<"ok", data>>
<1>1. answer # <<>> /\ answer[1] = "ok" /\ answer[2] = data
  OBVIOUS
<1> HIDE DEF answer
<1>2. Final(r, arg, answer, w) = w /\ Final(r, arg, <<>>, v) = w
  BY <1>1 DEF Final
<1>3. r \in {"status", "rewrites", "access", "services"} => w = v
  BY DEF After
<1>4. /\ r = "rules" => w.userRules = arg[1]
      /\ r = "safesearch" => w.safesearch = arg[1]
  BY DEF After, ActionsServer
<1>5. /\ r # "rules" => w.userRules = v.userRules
      /\ r # "set_url" => w.filter = v.filter
      /\ r \notin {"rw_delete", "rw_add"} => w.rewrites = v.rewrites
      /\ r # "service" => w.blocked = v.blocked
      /\ r # "safesearch" => w.safesearch = v.safesearch
  BY DEF After, ActionsServer
<1> HIDE DEF w
<1>6. Agrees(r, s, w, h)
  BY <1>5 DEF Agrees, Underway
<1>7. answer # <<>> => /\ answer[1] = "ok"
                       /\ r \in {"status", "rewrites", "access", "services"} => answer[2] = w
                       /\ r = "rules" => w.userRules = arg[1]
                       /\ r = "safesearch" => w.safesearch = arg[1]
  BY <1>1, <1>3, <1>4
<1>8. Underway(r, arg, answer, s, undos, w, h)
  BY <1>2, <1>3, <1>6, <1>7 DEF Underway
<1> QED
  BY <1>8 DEF w, answer

LEMMA ActionsServerStep == ActionsInv /\ Actions!Server => ActionsInv'
<1> SUFFICES ASSUME ActionsInv, Actions!Server PROVE ActionsInv'
  OBVIOUS
<1>0. PICK r \in ActionsRequests :
        \E c \in calls[r] : Actions!Answer(c) = "out" /\ Actions!serve(r, c)
  BY ActionsSame DEF Actions!Server
<1>1. PICK c \in calls[r] : Actions!Answer(c) = "out" /\ Actions!serve(r, c)
  BY <1>0
<1>2. PICK data : /\ r \in {"status", "rewrites", "access", "services"} => data = srv
                  /\ Actions!Served(r, c, After(r, c.arg, srv), data)
  BY <1>1, ActionsServes
<1>3. UNCHANGED <<st, ui, hist>>
  BY DEF Actions!Server
<1>4. PICK answer :
        /\ calls' = Answered(calls, r, c, answer)
        /\ \/ answer = <<"ok", data>> /\ srv' = After(r, c.arg, srv)
           \/ answer = <<"failed">> /\ srv' \in {srv, After(r, c.arg, srv)}
  BY <1>2, ActionsSame DEF Actions!Served
<1>5. /\ ActionsCalls(calls) /\ CallsOK(calls, ActionsRequests) /\ ActionsServer(srv)
      /\ ActionsBase(st, ui, calls, srv, hist)
      /\ r = "set_url" => c.arg[1] \in BOOLEAN
  BY DEF ActionsInv, ActionsBase, ActionsCalls
<1> DEFINE new == Reply(c, answer)
<1>6. new.arg = c.arg /\ new.answer = answer
  BY DEF Reply
<1> HIDE DEF new
<1>7. /\ CallsOK(calls', ActionsRequests)
      /\ \A q \in ActionsRequests \ {r} : calls'[q] = calls[q]
      /\ calls'[r] = (calls[r] \ {c}) \cup {new}
  BY <1>4, <1>5, AnsweredChanges DEF new
<1>8. ActionsCalls(calls')
  BY <1>5, <1>6, <1>7 DEF ActionsCalls, ActionsRequests
<1>9. ActionsServer(srv')
  BY <1>4, <1>5, AfterServer
<1>10. ActionsBase(st', ui', calls', srv', hist')
  BY <1>3, <1>5, <1>8, <1>9 DEF ActionsBase
<1>11. ASSUME hist.clean PROVE Steady'
  <2>1. /\ Alone(calls)
        /\ Answer(c) = "failed" \/ Underway(r, c.arg, c.answer, st, ui.undos, srv, hist)
    BY <1>11 DEF ActionsInv, Steady
  <2>2. \A q \in ActionsRequests : \A d \in calls'[q] : q = r /\ d = new
    BY <1>7, <2>1 DEF Alone
  <2>3. Alone(calls') /\ ~Quiet(calls')
    BY <1>7, <2>2 DEF Alone, Quiet
  <2>4. CASE answer = <<"failed">>
    <3>1. answer # <<>> /\ answer[1] = "failed"
      BY <2>4
    <3>2. Answer(new) = "failed"
      BY <1>6, <3>1 DEF Answer
    <3> QED
      BY <2>2, <2>3, <3>2 DEF Steady
  <2>5. CASE answer = <<"ok", data>> /\ srv' = After(r, c.arg, srv)
    <3>1. Answer(c) = "out"
      BY <1>1, ActionsSame
    <3>2. c.answer = <<>> /\ Underway(r, c.arg, c.answer, st, ui.undos, srv, hist)
      BY <2>1, <3>1 DEF Answer, Underway
    <3>3. Underway(r, c.arg, <<"ok", data>>, st, ui.undos, After(r, c.arg, srv), hist)
      BY <1>2, <1>5, <3>2, UnderwayServed
    <3>4. Underway(r, new.arg, new.answer, st', ui'.undos, srv', hist')
      BY <1>3, <1>6, <2>5, <3>3
    <3> QED
      BY <2>2, <2>3, <3>4 DEF Steady
  <2> QED
    BY <1>4, <2>4, <2>5
<1> QED
  BY <1>3, <1>10, <1>11 DEF ActionsInv

\* What is known when an answer resumes a handler.
ActionsResumed(r, c) ==
  /\ ActionsBase(st, ui, Actions!Ended(calls, r, c), srv', hist')
  /\ hist'.clean => /\ Quiet(Actions!Ended(calls, r, c)) /\ Actions!Answer(c) = "ok"
                    /\ c.answer # <<>>
                    /\ Underway(r, c.arg, c.answer, st, ui.undos, srv', hist')

LEMMA ActionsResuming ==
    ASSUME ActionsInv, NEW r \in ActionsRequests, NEW c \in calls[r], Actions!Answer(c) # "out",
           hist' = Actions!Learned(hist, c), UNCHANGED srv
    PROVE  ActionsResumed(r, c)
<1> DEFINE cs == Actions!Ended(calls, r, c)
<1>1. /\ ActionsBase(st, ui, calls, srv, hist) /\ ActionsCalls(calls)
      /\ CallsOK(calls, ActionsRequests) /\ ActionsHist(hist)
  BY DEF ActionsInv, ActionsBase, ActionsCalls
<1>2. /\ CallsOK(cs, ActionsRequests) /\ \A q \in ActionsRequests \ {r} : cs[q] = calls[q]
      /\ cs[r] = calls[r] \ {c}
  BY <1>1, ActionsSame, EndedRemoves
<1> HIDE DEF cs
<1>3. ActionsCalls(cs)
  BY <1>1, <1>2 DEF ActionsCalls, ActionsRequests
<1>4. hist' = [hist EXCEPT !.clean = @ /\ Actions!Answer(c) = "ok"]
  BY DEF Actions!Learned
<1>5. /\ ActionsHist(hist')
      /\ hist'.clean => hist.clean /\ Actions!Answer(c) = "ok"
  BY <1>1, <1>4 DEF ActionsHist
<1>6. ActionsBase(st, ui, cs, srv', hist')
  BY <1>1, <1>3, <1>5 DEF ActionsBase
<1>7. ASSUME hist'.clean
      PROVE  /\ Quiet(cs) /\ Actions!Answer(c) = "ok" /\ c.answer # <<>>
             /\ Underway(r, c.arg, c.answer, st, ui.undos, srv', hist')
  <2>1. Actions!Answer(c) = "ok" /\ hist.clean
    BY <1>5, <1>7
  <2>2. hist' = hist
    BY <1>1, <1>4, <2>1 DEF ActionsHist
  <2>3. /\ Alone(calls)
        /\ Answer(c) = "failed" \/ Underway(r, c.arg, c.answer, st, ui.undos, srv, hist)
    BY <2>1 DEF ActionsInv, Steady
  <2>4. Answer(c) = "ok" /\ c.answer # <<>>
    BY <2>1, ActionsSame DEF Answer
  <2>5. Quiet(cs)
    BY <1>2, <2>3 DEF Alone, Quiet
  <2> QED
    BY <2>1, <2>2, <2>3, <2>4, <2>5
<1> QED
  BY <1>6, <1>7 DEF ActionsResumed, cs

LEMMA ActionsFetched ==
    ASSUME NEW r \in {"status", "rewrites", "access", "services"}, NEW c, ActionsResumed(r, c),
           Actions!fetchDone(r, c)
    PROVE  ActionsInv'
<1> DEFINE d == Actions!Data(c)
           got == IF Actions!Answer(c) = "ok" THEN Actions!fetched(st, r, d) ELSE st
           s == [got EXCEPT !.busy = @ \ {r}]
           cs == Actions!Ended(calls, r, c)
<1>1. DOMAIN st = ActionsState /\ ActionsBase(st, ui, cs, srv', hist') /\ ActionsServer(srv')
  BY DEF ActionsResumed, ActionsBase
<1>2. DOMAIN s = ActionsState
  BY <1>1 DEF Actions!fetched, ActionsState
<1>3. ActionsBase(s, ui, cs, srv', hist')
  BY <1>1, <1>2 DEF ActionsBase
<1>4. ASSUME hist'.clean
      PROVE  /\ Quiet(cs) /\ Underway(r, c.arg, c.answer, st, ui.undos, srv', hist')
             /\ Agrees("none", s, srv', hist') /\ AtRest(s, ui.undos, srv', hist')
  <2>1. /\ Quiet(cs) /\ Underway(r, c.arg, c.answer, st, ui.undos, srv', hist')
        /\ c.answer # <<>> /\ Actions!Answer(c) = "ok"
    BY <1>4 DEF ActionsResumed
  <2>2. d = srv' /\ Agrees(r, st, srv', hist')
    BY <2>1 DEF Underway, Actions!Data
  <2>3. s = [Actions!fetched(st, r, srv') EXCEPT !.busy = @ \ {r}]
    BY <2>1, <2>2
  <2> HIDE DEF s, d
  <2>4. Agrees("none", s, srv', hist')
    <3>1. CASE r = "status"
      <4>1. s = [[st EXCEPT !.userRules = srv'.userRules, !.filter = srv'.filter]
                 EXCEPT !.busy = @ \ {r}]
        BY <2>3, <3>1 DEF Actions!fetched
      <4>2. /\ s.userRules = srv'.userRules /\ s.filter = srv'.filter /\ s.rewrites = st.rewrites
            /\ s.blocked = st.blocked /\ s.safesearch = st.safesearch
        BY <1>1, <4>1 DEF ActionsState
      <4> QED
        BY <2>2, <3>1, <4>2 DEF Agrees
    <3>2. CASE r = "rewrites"
      <4>1. s = [[st EXCEPT !.rewrites = srv'.rewrites] EXCEPT !.busy = @ \ {r}]
        BY <2>3, <3>2 DEF Actions!fetched
      <4>2. /\ s.userRules = st.userRules /\ s.filter = st.filter /\ s.rewrites = srv'.rewrites
            /\ s.blocked = st.blocked /\ s.safesearch = st.safesearch
        BY <1>1, <4>1 DEF ActionsState
      <4> QED
        BY <2>2, <3>2, <4>2 DEF Agrees
    <3>3. CASE r = "services"
      <4>1. s = [[st EXCEPT !.blocked = <<srv'.blocked>>] EXCEPT !.busy = @ \ {r}]
        BY <2>3, <3>3 DEF Actions!fetched
      <4>2. /\ s.userRules = st.userRules /\ s.filter = st.filter /\ s.rewrites = st.rewrites
            /\ s.blocked = <<srv'.blocked>> /\ s.safesearch = st.safesearch
        BY <1>1, <4>1 DEF ActionsState
      <4> QED
        BY <2>2, <3>3, <4>2 DEF Agrees
    <3>4. CASE r = "access"
      <4>1. s = [[st EXCEPT !.allowed = srv'.allowed, !.disallowed = srv'.disallowed]
                 EXCEPT !.busy = @ \ {r}]
        BY <2>3, <3>4 DEF Actions!fetched
      <4>2. /\ s.userRules = st.userRules /\ s.filter = st.filter /\ s.rewrites = st.rewrites
            /\ s.blocked = st.blocked /\ s.safesearch = st.safesearch
        BY <1>1, <4>1 DEF ActionsState
      <4> QED
        BY <2>2, <3>4, <4>2 DEF Agrees
    <3> QED
      BY <3>1, <3>2, <3>3, <3>4
  <2>5. Final(r, c.arg, c.answer, srv') = srv'
    BY <2>1 DEF Final
  <2>6. AtRest(s, ui.undos, srv', hist')
    BY <2>1, <2>4, <2>5 DEF AtRest, Underway
  <2> QED
    BY <2>1, <2>4, <2>6
<1> HIDE DEF s, cs, got, d
<1>5. \/ /\ c.arg[1] = "allow" /\ s.blocked = <<TRUE>>
         /\ Actions!send(s, cs, "service", <<FALSE, <<"allowed">>>>) /\ UNCHANGED ui
      \/ c.arg[1] = "allow" /\ Actions!stop(s, ui, cs)
      \/ c.arg[1] # "allow" /\ Actions!proceed(c.arg, "yes", s, ui, cs)
  BY Zenon DEF Actions!fetchDone, s, cs, got, d
<1>6. CASE /\ c.arg[1] = "allow" /\ s.blocked = <<TRUE>>
           /\ Actions!send(s, cs, "service", <<FALSE, <<"allowed">>>>) /\ UNCHANGED ui
  <2> DEFINE arg == <<FALSE, <<"allowed">>>>
  <2>1. "service" \in ActionsRequests /\ ActionsBase(s, ui', cs, srv', hist')
    BY <1>3, <1>6 DEF ActionsRequests
  <2>2. ASSUME hist'.clean
        PROVE  Underway("service", arg, <<>>, s, ui'.undos, srv', hist')
    <3>1. /\ Underway(r, c.arg, c.answer, st, ui.undos, srv', hist')
          /\ Agrees("none", s, srv', hist')
      BY <1>4, <2>2
    <3>2. r = "services"
      BY <1>6, <3>1 DEF Underway, ActionsThen
    <3>3. ui.undos \subseteq hist'.older /\ ~hist'.undone /\ srv' = hist'.before
      BY <1>6, <3>1, <3>2 DEF Underway
    <3>4. ActionsThen("service", arg) /\ Offers("service", arg) = {<<"service", TRUE>>}
      BY DEF ActionsThen, Offers
    <3>5. Agrees("service", s, srv', hist') /\ <<TRUE>> \in {<<>>, <<srv'.blocked>>}
      BY <1>6, <3>1 DEF Agrees
    <3>6. srv'.blocked = TRUE
      BY <3>5, OneBlocked
    <3>7. Final("service", arg, <<>>, srv') = After("service", arg, srv')
      BY DEF Final
    <3>8. Restored(<<"service", TRUE>>, After("service", arg, srv')) = srv'
      BY <1>1, <3>6 DEF Restored, After, ActionsServer
    <3>9. Reverts(<<"service", TRUE>>, After("service", arg, srv'), hist')
      BY <3>3, <3>8 DEF Reverts
    <3>10. Undoable(ui'.undos, After("service", arg, srv'), hist')
      BY <1>6, <3>3 DEF Undoable
    <3> HIDE DEF arg
    <3> QED
      BY <3>3, <3>4, <3>5, <3>7, <3>9, <3>10 DEF Underway
  <2>3. Actions!send(s, cs, "service", arg)
    BY <1>6
  <2> HIDE DEF arg
  <2> QED
    BY <1>4, <2>1, <2>2, <2>3, ActionsSends
<1>7. CASE c.arg[1] = "allow" /\ Actions!stop(s, ui, cs)
  BY <1>3, <1>4, <1>7, ActionsStops
<1>8. CASE c.arg[1] # "allow" /\ Actions!proceed(c.arg, "yes", s, ui, cs)
  <2>1. ASSUME hist'.clean
        PROVE  /\ c.arg[1] # "saved"
               /\ c.arg[1] = "allowed" => Reverts(<<"service", TRUE>>, srv', hist')
    <3>1. Underway(r, c.arg, c.answer, st, ui.undos, srv', hist') /\ c.answer # <<>>
      BY <1>4, <2>1 DEF ActionsResumed
    <3>2. c.arg[1] # "saved" /\ (c.arg[1] = "allowed" => r = "services")
      BY <3>1 DEF Underway, ActionsThen
    <3>3. Final(r, c.arg, c.answer, srv') = srv'
      BY <3>1 DEF Final
    <3>4. r = "services" /\ c.arg[1] = "allowed" => <<"service", TRUE>> \in Offers(r, c.arg)
      BY DEF Offers
    <3> QED
      BY <3>1, <3>2, <3>3, <3>4 DEF Underway
  <2> QED
    BY <1>3, <1>4, <1>8, <2>1, ActionsProceed
<1> QED
  BY <1>5, <1>6, <1>7, <1>8

\* The request is answered, and the store still has all but what it was about.
LEMMA ActionsAnswered ==
    ASSUME NEW r, NEW c, ActionsResumed(r, c), hist'.clean
    PROVE  /\ Quiet(Actions!Ended(calls, r, c)) /\ Actions!Answer(c) = "ok"
           /\ ActionsThen(r, c.arg) /\ Agrees(r, st, srv', hist')
           /\ Undoable(ui.undos, srv', hist') /\ (hist'.undone => srv' = hist'.before)
           /\ \A undo \in Offers(r, c.arg) : Reverts(undo, srv', hist')
           /\ r = "access_get" => ui.undos \subseteq hist'.older /\ ~hist'.undone
           /\ r = "rules" => srv'.userRules = c.arg[1]
           /\ r = "safesearch" => srv'.safesearch = c.arg[1]
<1>1. /\ Underway(r, c.arg, c.answer, st, ui.undos, srv', hist') /\ c.answer # <<>>
      /\ Quiet(Actions!Ended(calls, r, c)) /\ Actions!Answer(c) = "ok"
  BY DEF ActionsResumed
<1>2. Final(r, c.arg, c.answer, srv') = srv'
  BY <1>1 DEF Final
<1> QED
  BY <1>1, <1>2 DEF Underway

\* The store without the flag of the request.
LEMMA ActionsCleared ==
    ASSUME NEW r, NEW c, ActionsResumed(r, c), NEW b
    PROVE  LET s == [st EXCEPT !.busy = b]
           IN  /\ DOMAIN s = ActionsState
               /\ s.userRules = st.userRules /\ s.filter = st.filter /\ s.rewrites = st.rewrites
               /\ s.blocked = st.blocked /\ s.safesearch = st.safesearch
               /\ ActionsBase(s, ui, Actions!Ended(calls, r, c), srv', hist')
<1>1. ActionsBase(st, ui, Actions!Ended(calls, r, c), srv', hist') /\ DOMAIN st = ActionsState
  BY DEF ActionsResumed, ActionsBase
<1> DEFINE s == [st EXCEPT !.busy = b]
<1>2. /\ DOMAIN s = ActionsState
      /\ s.userRules = st.userRules /\ s.filter = st.filter /\ s.rewrites = st.rewrites
      /\ s.blocked = st.blocked /\ s.safesearch = st.safesearch
  BY <1>1 DEF ActionsState
<1> HIDE DEF s
<1>3. ActionsBase(s, ui, Actions!Ended(calls, r, c), srv', hist')
  BY <1>1, <1>2 DEF ActionsBase
<1> QED
  BY <1>2, <1>3 DEF s

LEMMA ActionsStored ==
    ASSUME NEW r \in {"rules", "service"}, NEW c, ActionsResumed(r, c), Actions!storeDone(r, c)
    PROVE  ActionsInv'
<1> DEFINE s == [st EXCEPT !.busy = @ \ {r}]
           cs == Actions!Ended(calls, r, c)
           then == c.arg[2]
<1>1. /\ DOMAIN s = ActionsState
      /\ s.userRules = st.userRules /\ s.filter = st.filter /\ s.rewrites = st.rewrites
      /\ s.blocked = st.blocked /\ s.safesearch = st.safesearch
      /\ ActionsBase(s, ui, cs, srv', hist')
  BY ActionsCleared
<1>2. \/ Actions!Answer(c) = "failed" /\ Actions!proceed(then, "no", s, ui, cs)
      \/ /\ r = "rules"
         /\ Actions!proceed(then, "yes", [s EXCEPT !.userRules = c.arg[1]], ui, cs)
      \/ r = "service" /\ Actions!send(s, cs, "services", then) /\ UNCHANGED ui
  BY Zenon DEF Actions!storeDone
<1> HIDE DEF s, cs
<1>3. CASE Actions!Answer(c) = "failed" /\ Actions!proceed(then, "no", s, ui, cs)
  <2>1. ~hist'.clean
    BY <1>3, ActionsAnswered
  <2> QED
    BY <1>1, <1>3, <2>1, ActionsProceed
<1>4. CASE r = "rules" /\ Actions!proceed(then, "yes", [s EXCEPT !.userRules = c.arg[1]], ui, cs)
  <2> DEFINE s1 == [s EXCEPT !.userRules = c.arg[1]]
  <2>1. /\ DOMAIN s1 = ActionsState
        /\ s1.userRules = c.arg[1] /\ s1.filter = st.filter /\ s1.rewrites = st.rewrites
        /\ s1.blocked = st.blocked /\ s1.safesearch = st.safesearch
    BY <1>1 DEF ActionsState
  <2> HIDE DEF s1
  <2>2. ActionsBase(s1, ui, cs, srv', hist')
    BY <1>1, <2>1 DEF ActionsBase
  <2>3. ASSUME hist'.clean
        PROVE  /\ Quiet(cs) /\ AtRest(s1, ui.undos, srv', hist')
               /\ then[1] = "saved" => Reverts(<<"rules", then[2]>>, srv', hist')
               /\ then[1] # "allowed"
    <3>1. /\ Quiet(cs) /\ ActionsThen(r, c.arg) /\ Agrees(r, st, srv', hist')
          /\ Undoable(ui.undos, srv', hist') /\ (hist'.undone => srv' = hist'.before)
          /\ \A undo \in Offers(r, c.arg) : Reverts(undo, srv', hist')
          /\ srv'.userRules = c.arg[1]
      BY <1>4, <2>3, ActionsAnswered DEF cs
    <3>2. Agrees("none", s1, srv', hist')
      BY <1>4, <2>1, <3>1 DEF Agrees
    <3>3. then[1] = "saved" => <<"rules", then[2]>> \in Offers(r, c.arg)
      BY <1>4 DEF Offers
    <3>4. then[1] # "allowed"
      BY <1>4, <3>1 DEF ActionsThen
    <3> QED
      BY <3>1, <3>2, <3>3, <3>4 DEF AtRest
  <2>4. Actions!proceed(then, "yes", s1, ui, cs)
    BY <1>4 DEF s1
  <2> HIDE DEF then
  <2> QED
    BY <2>2, <2>3, <2>4, ActionsProceed
<1>5. CASE r = "service" /\ Actions!send(s, cs, "services", then) /\ UNCHANGED ui
  <2>1. "services" \in ActionsRequests /\ ActionsBase(s, ui', cs, srv', hist')
    BY <1>1, <1>5 DEF ActionsRequests
  <2>2. ASSUME hist'.clean
        PROVE  Quiet(cs) /\ Underway("services", then, <<>>, s, ui'.undos, srv', hist')
    <3>1. /\ Quiet(cs) /\ ActionsThen(r, c.arg) /\ Agrees(r, st, srv', hist')
          /\ Undoable(ui.undos, srv', hist') /\ (hist'.undone => srv' = hist'.before)
          /\ \A undo \in Offers(r, c.arg) : Reverts(undo, srv', hist')
      BY <2>2, ActionsAnswered DEF cs
    <3>2. then[1] \in {"allowed", "undone"}
      BY <1>5, <3>1 DEF ActionsThen
    <3>3. ActionsThen("services", then) /\ Offers("services", then) = Offers(r, c.arg)
      BY <1>5, <3>2 DEF ActionsThen, Offers
    <3>4. Agrees("services", s, srv', hist')
      BY <1>1, <1>5, <3>1 DEF Agrees
    <3>5. Final("services", then, <<>>, srv') = srv'
      BY DEF Final, After
    <3> HIDE DEF then
    <3> QED
      BY <1>5, <3>1, <3>2, <3>3, <3>4, <3>5 DEF Underway
  <2> HIDE DEF then
  <2> QED
    BY <1>5, <2>1, <2>2, ActionsSends
<1> QED
  BY <1>2, <1>3, <1>4, <1>5

LEMMA ActionsAccess ==
    ASSUME NEW r \in {"access_get", "access_set"}, NEW c, ActionsResumed(r, c),
           Actions!accessDone(r, c)
    PROVE  ActionsInv'
<1> DEFINE s == [st EXCEPT !.busy = @ \ {"access_set"}]
           cs == Actions!Ended(calls, r, c)
<1>1. /\ DOMAIN s = ActionsState
      /\ s.userRules = st.userRules /\ s.filter = st.filter /\ s.rewrites = st.rewrites
      /\ s.blocked = st.blocked /\ s.safesearch = st.safesearch
      /\ ActionsBase(s, ui, cs, srv', hist')
  BY ActionsCleared
<1>2. \/ Actions!Answer(c) = "failed" /\ Actions!stop(s, ui, cs)
      \/ /\ r = "access_get" /\ UNCHANGED ui
         /\ \E arg : Actions!send(st, cs, "access_set", arg)
      \/ /\ r = "access_set"
         /\ Actions!stop([s EXCEPT !.allowed = c.arg[1][1], !.disallowed = c.arg[1][2]], ui, cs)
  BY Zenon DEF Actions!accessDone
<1> HIDE DEF s, cs
<1>3. CASE Actions!Answer(c) = "failed" /\ Actions!stop(s, ui, cs)
  <2>1. ~hist'.clean
    BY <1>3, ActionsAnswered
  <2> QED
    BY <1>1, <1>3, <2>1, ActionsStops
<1>4. CASE r = "access_get" /\ UNCHANGED ui /\ \E arg : Actions!send(st, cs, "access_set", arg)
  <2>1. PICK arg : Actions!send(st, cs, "access_set", arg)
    BY <1>4
  <2>2. "access_set" \in ActionsRequests /\ ActionsBase(st, ui', cs, srv', hist')
    BY <1>4 DEF ActionsRequests, ActionsResumed, cs
  <2>3. ASSUME hist'.clean
        PROVE  Quiet(cs) /\ Underway("access_set", arg, <<>>, st, ui'.undos, srv', hist')
    <3>1. /\ Quiet(cs) /\ Agrees(r, st, srv', hist')
          /\ ui.undos \subseteq hist'.older /\ ~hist'.undone
      BY <1>4, <2>3, ActionsAnswered DEF cs
    <3>2. ActionsThen("access_set", arg) /\ Offers("access_set", arg) = {}
      BY DEF ActionsThen, Offers
    <3>3. Agrees("access_set", st, srv', hist')
      BY <1>4, <3>1 DEF Agrees
    <3> QED
      BY <1>4, <3>1, <3>2, <3>3 DEF Underway, Undoable
  <2> QED
    BY <2>1, <2>2, <2>3, ActionsSends
<1>5. CASE r = "access_set"
           /\ Actions!stop([s EXCEPT !.allowed = c.arg[1][1], !.disallowed = c.arg[1][2]], ui, cs)
  <2> DEFINE s1 == [s EXCEPT !.allowed = c.arg[1][1], !.disallowed = c.arg[1][2]]
  <2>1. /\ DOMAIN s1 = ActionsState
        /\ s1.userRules = st.userRules /\ s1.filter = st.filter /\ s1.rewrites = st.rewrites
        /\ s1.blocked = st.blocked /\ s1.safesearch = st.safesearch
    BY <1>1 DEF ActionsState
  <2>2. Actions!stop(s1, ui, cs)
    BY <1>5
  <2> HIDE DEF s1
  <2>3. ActionsBase(s1, ui, cs, srv', hist')
    BY <1>1, <2>1 DEF ActionsBase
  <2>4. ASSUME hist'.clean PROVE Quiet(cs) /\ AtRest(s1, ui.undos, srv', hist')
    <3>1. /\ Quiet(cs) /\ Agrees(r, st, srv', hist') /\ Undoable(ui.undos, srv', hist')
          /\ hist'.undone => srv' = hist'.before
      BY <2>4, ActionsAnswered DEF cs
    <3>2. Agrees("none", s1, srv', hist')
      BY <1>5, <2>1, <3>1 DEF Agrees
    <3> QED
      BY <3>1, <3>2 DEF AtRest
  <2> QED
    BY <2>2, <2>3, <2>4, ActionsStops
<1> QED
  BY <1>2, <1>3, <1>4, <1>5

\* The undo that is offered once something has been switched off.
SwitchUndo(r, c) ==
  LET kind == IF r = "rw_delete" THEN "rewrite" ELSE r
  IN  <<kind, IF kind \in {"rewrite", "safesearch"} THEN c.arg[2][2] ELSE {}>>

LEMMA ActionsSwitched ==
    ASSUME NEW r \in {"set_url", "feature", "safesearch", "rw_delete", "rw_add"}, NEW c,
           ActionsResumed(r, c), Actions!switchDone(r, c)
    PROVE  ActionsInv'
<1> DEFINE s == [st EXCEPT !.busy = @ \ {r}]
           cs == Actions!Ended(calls, r, c)
           off == c.arg[2][1] = "off"
           u == IF off THEN [ui EXCEPT !.undos = @ \cup {SwitchUndo(r, c)}] ELSE ui
           gone == [u EXCEPT !.undos = @ \ {c.arg[2][2]}]
           after == IF off THEN <<"end">> ELSE <<"undone", c.arg[2][2]>>
           fetch == IF r = "set_url" THEN "status" ELSE "rewrites"
<1>1. /\ DOMAIN s = ActionsState
      /\ s.userRules = st.userRules /\ s.filter = st.filter /\ s.rewrites = st.rewrites
      /\ s.blocked = st.blocked /\ s.safesearch = st.safesearch
      /\ ActionsBase(s, ui, cs, srv', hist')
  BY ActionsCleared
<1>2. \/ Actions!Answer(c) = "failed" /\ Actions!stop(s, ui, cs)
      \/ /\ r \in {"set_url", "rw_delete", "rw_add"}
         /\ Actions!send(s, cs, fetch, after) /\ ui' = u
      \/ r = "feature" /\ Actions!stop(s, IF off THEN u ELSE gone, cs)
      \/ /\ r = "safesearch"
         /\ Actions!stop([s EXCEPT !.safesearch = c.arg[1]], IF off THEN u ELSE gone, cs)
  BY Zenon DEF Actions!switchDone, SwitchUndo
<1>3. DOMAIN ui = {"undos"}
  BY <1>1 DEF ActionsBase
<1>4. /\ DOMAIN u = {"undos"} /\ DOMAIN gone = {"undos"}
      /\ u.undos = IF off THEN ui.undos \cup {SwitchUndo(r, c)} ELSE ui.undos
      /\ gone.undos \subseteq u.undos
  BY <1>3
<1>5. ASSUME hist'.clean
      PROVE  /\ Quiet(cs) /\ Agrees(r, s, srv', hist') /\ (hist'.undone => srv' = hist'.before)
             /\ Undoable(u.undos, srv', hist') /\ Undoable(gone.undos, srv', hist')
             /\ r = "safesearch" => srv'.safesearch = c.arg[1]
  <2>1. /\ Quiet(cs) /\ ActionsThen(r, c.arg) /\ Agrees(r, st, srv', hist')
        /\ Undoable(ui.undos, srv', hist') /\ (hist'.undone => srv' = hist'.before)
        /\ \A undo \in Offers(r, c.arg) : Reverts(undo, srv', hist')
        /\ r = "safesearch" => srv'.safesearch = c.arg[1]
    BY <1>5, ActionsAnswered
  <2>2. Agrees(r, s, srv', hist')
    BY <1>1, <2>1 DEF Agrees
  <2>3. off => SwitchUndo(r, c) \in Offers(r, c.arg)
    BY <2>1 DEF SwitchUndo, Offers, ActionsThen
  <2>4. Undoable(u.undos, srv', hist')
    BY <1>4, <2>1, <2>3 DEF Undoable
  <2>5. Undoable(gone.undos, srv', hist')
    BY <1>4, <2>4 DEF Undoable
  <2> QED
    BY <2>1, <2>2, <2>4, <2>5
<1>6. after[1] \in {"end", "undone"}
  OBVIOUS
<1> HIDE DEF s, cs, off, u, gone, after
<1>7. CASE Actions!Answer(c) = "failed" /\ Actions!stop(s, ui, cs)
  <2>1. ~hist'.clean
    BY <1>7, ActionsAnswered
  <2> QED
    BY <1>1, <1>7, <2>1, ActionsStops
<1>8. CASE /\ r \in {"set_url", "rw_delete", "rw_add"}
           /\ Actions!send(s, cs, fetch, after) /\ ui' = u
  <2>1. fetch \in ActionsRequests /\ fetch # "set_url" /\ ActionsBase(s, ui', cs, srv', hist')
    BY <1>1, <1>4, <1>8 DEF ActionsRequests, ActionsBase
  <2>2. ASSUME hist'.clean
        PROVE  Quiet(cs) /\ Underway(fetch, after, <<>>, s, ui'.undos, srv', hist')
    <3>1. ActionsThen(fetch, after) /\ Offers(fetch, after) = {}
      BY <1>6 DEF ActionsThen, Offers
    <3>2. Final(fetch, after, <<>>, srv') = srv'
      BY DEF Final, After
    <3>3. Agrees(fetch, s, srv', hist')
      BY <1>5, <1>8, <2>2 DEF Agrees
    <3>4. fetch \notin {"access_get", "services", "rules", "safesearch"}
      OBVIOUS
    <3> HIDE DEF fetch
    <3> QED
      BY <1>5, <1>8, <2>2, <3>1, <3>2, <3>3, <3>4 DEF Underway
  <2> HIDE DEF fetch
  <2> QED
    BY <1>8, <2>1, <2>2, ActionsSends
<1>9. ASSUME NEW t, ActionsBase(t, ui, cs, srv', hist'),
             Actions!stop(t, IF off THEN u ELSE gone, cs),
             hist'.clean => Agrees("none", t, srv', hist')
      PROVE  ActionsInv'
  <2> DEFINE w == IF off THEN u ELSE gone
  <2>1. DOMAIN w = {"undos"} /\ (hist'.clean => Undoable(w.undos, srv', hist'))
    BY <1>4, <1>5
  <2>2. Actions!stop(t, w, cs)
    BY <1>9
  <2> HIDE DEF w
  <2>3. ActionsBase(t, w, cs, srv', hist')
    BY <1>9, <2>1 DEF ActionsBase
  <2>4. hist'.clean => Quiet(cs) /\ AtRest(t, w.undos, srv', hist')
    BY <1>5, <1>9, <2>1 DEF AtRest
  <2> QED
    BY <2>2, <2>3, <2>4, ActionsStops
<1>10. CASE r = "feature" /\ Actions!stop(s, IF off THEN u ELSE gone, cs)
  <2>1. hist'.clean => Agrees("none", s, srv', hist')
    BY <1>5, <1>10 DEF Agrees
  <2> QED
    BY <1>1, <1>9, <1>10, <2>1
<1>11. CASE r = "safesearch"
            /\ Actions!stop([s EXCEPT !.safesearch = c.arg[1]], IF off THEN u ELSE gone, cs)
  <2> DEFINE t == [s EXCEPT !.safesearch = c.arg[1]]
  <2>1. /\ DOMAIN t = ActionsState /\ t.safesearch = c.arg[1]
        /\ t.userRules = s.userRules /\ t.filter = s.filter /\ t.rewrites = s.rewrites
        /\ t.blocked = s.blocked
    BY <1>1 DEF ActionsState
  <2>2. Actions!stop(t, IF off THEN u ELSE gone, cs)
    BY <1>11
  <2> HIDE DEF t
  <2>3. ActionsBase(t, ui, cs, srv', hist')
    BY <1>1, <2>1 DEF ActionsBase
  <2>4. hist'.clean => Agrees("none", t, srv', hist')
    BY <1>5, <1>11, <2>1 DEF Agrees
  <2> QED
    BY <1>9, <2>2, <2>3, <2>4
<1> QED
  BY <1>2, <1>7, <1>8, <1>10, <1>11

LEMMA ActionsResume == ActionsInv /\ Actions!Resume => ActionsInv'
<1> SUFFICES ASSUME ActionsInv, Actions!Resume PROVE ActionsInv'
  OBVIOUS
<1>0. PICK r \in ActionsRequests : \E c \in calls[r] :
       /\ Actions!Answer(c) # "out"
       /\ \/ r \in Actions!Fetch \cup {"services"} /\ Actions!fetchDone(r, c)
          \/ r \in {"rules", "service"} /\ Actions!storeDone(r, c)
          \/ /\ r \in {"set_url", "feature", "safesearch", "rw_delete", "rw_add"}
             /\ Actions!switchDone(r, c)
          \/ r \in {"access_get", "access_set"} /\ Actions!accessDone(r, c)
       /\ hist' = Actions!Learned(hist, c)
  BY ActionsSame, Zenon DEF Actions!Resume
<1>1. PICK c \in calls[r] :
       /\ Actions!Answer(c) # "out" /\ hist' = Actions!Learned(hist, c)
       /\ \/ r \in Actions!Fetch \cup {"services"} /\ Actions!fetchDone(r, c)
          \/ r \in {"rules", "service"} /\ Actions!storeDone(r, c)
          \/ /\ r \in {"set_url", "feature", "safesearch", "rw_delete", "rw_add"}
             /\ Actions!switchDone(r, c)
          \/ r \in {"access_get", "access_set"} /\ Actions!accessDone(r, c)
  BY <1>0
<1>2. UNCHANGED srv
  BY DEF Actions!Resume
<1>3. ActionsResumed(r, c)
  BY <1>1, <1>2, ActionsResuming
<1>4. Actions!Fetch \cup {"services"} = {"status", "rewrites", "access", "services"}
  BY DEF Actions!Fetch
<1> QED
  BY <1>1, <1>3, <1>4, ActionsFetched, ActionsStored, ActionsSwitched, ActionsAccess

(***************************************************************************)
(* The theorem.                                                            *)
(***************************************************************************)
UndoInv == (page = "rules" => RulesInv) /\ (page = "actions" => ActionsInv)

LEMMA RulesStep ==
    ASSUME page = "rules", Next, RulesInv
    PROVE  RulesInv'
<1>1. UserRules!UserStep \/ UserRules!Server \/ UserRules!Resume
  BY DEF Next, UserStep, Server, Resume, Timer, At
<1> QED
  BY <1>1, RulesUser, RulesServer, RulesResume

LEMMA ActionsStep ==
    ASSUME page = "actions", Next, ActionsInv
    PROVE  ActionsInv'
<1>1. Actions!UserStep \/ Actions!Server \/ Actions!Resume
  BY DEF Next, UserStep, Server, Resume, Timer, At
<1> QED
  BY <1>1, ActionsUser, ActionsServerStep, ActionsResume

LEMMA RulesStutter == RulesInv /\ UNCHANGED webVars => RulesInv'
BY DEF RulesInv, webVars

LEMMA ActionsStutter == ActionsInv /\ UNCHANGED webVars => ActionsInv'
BY DEF ActionsInv, Steady, Alone, Quiet, webVars

\* An undo is offered only for what the server has acknowledged (the disabling of
\* a list excepted), and the undo of the last action brings the server back to
\* what it had before the action, for any number of actions and undos before.
THEOREM UndoCorrect == Spec => []UndoSound
<1>1. Init => UndoInv
  BY RulesInit, ActionsInit DEF Init, UndoInv
<1>2. UndoInv /\ [Next]_webVars => UndoInv'
  <2>1. ASSUME UndoInv, Next PROVE UndoInv'
    <3>1. page' = page
      BY <2>1, PageKept
    <3> QED
      BY <2>1, <3>1, RulesStep, ActionsStep DEF UndoInv
  <2>2. ASSUME UndoInv, UNCHANGED webVars PROVE UndoInv'
    <3>1. page' = page
      BY <2>2 DEF webVars
    <3> QED
      BY <2>2, <3>1, RulesStutter, ActionsStutter DEF UndoInv
  <2> QED
    BY <2>1, <2>2
<1>3. UndoInv => UndoSound
  <2>1. RulesInv => UserRules!UndoMeansDone
    BY DEF RulesInv, UndosAcked, Acked, UserRules!UndoMeansDone
  <2>2. ActionsInv => Actions!UndoRestores
    BY ActionsIdle DEF AtRest, Actions!UndoRestores
  <2> QED
    BY <2>1, <2>2 DEF UndoInv, UndoSound
<1> QED
  BY <1>1, <1>2, <1>3, PTL DEF Spec

==============================================================================
