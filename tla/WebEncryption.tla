---------------------------- MODULE WebEncryption ----------------------------
(***************************************************************************)
(* The encryption page: stores/encryption.ts with components/Encryption    *)
(* but for the wizard (WebTlsWizard).  A certificate and a key are present *)
(* ("pem") or not (""), each given as text.  The answers of the server     *)
(* leave out an empty name and never hold the key, only that one is saved. *)
(* The ports, checked here as there, are in WebTlsWizard.                  *)
(* The refresh of the dashboard's addresses after a save is WebStatus's.   *)
(***************************************************************************)
EXTENDS WebCalls

CONSTANTS Name,      \* the server names the user types, without ""
          Covered    \* those the certificate is valid for

Requests == {"status", "set", "validate", "check"}

\* defaultTlsValues, which are also what a first start of the server holds.
defaultTlsValues ==
  [enabled |-> FALSE, plain |-> TRUE, force |-> FALSE, name |-> "",
   cert |-> "", key |-> "", saved |-> FALSE]

initialState ==
  [busy |-> {"status"}, initialized |-> FALSE,
   cfg |-> [defaultTlsValues EXCEPT !.plain = FALSE], status |-> ""]

hasCert(cfg) == cfg.cert # ""
hasKey(cfg) == cfg.key # "" \/ cfg.saved
fullyConfigured(cfg) == cfg.enabled /\ hasCert(cfg) /\ hasKey(cfg)

\* getSubmitValues: a saved key is not sent again.
getSubmitValues(cfg) == [cfg EXCEPT !.key = IF cfg.saved THEN "" ELSE @]

\* What the server says of a certificate, a key and a name (external).
verdict(cfg) ==
  IF ~hasCert(cfg) \/ ~hasKey(cfg) THEN ""
  ELSE IF cfg.name \in Name \ Covered THEN "mismatch" ELSE "ok"

-----------------------------------------------------------------------------
\* decodeResponse and the merge: what an answer leaves out is empty.
\* Mutant: what an answer leaves out keeps its value in the store.
KeepMissing(cfg, answer) == [f \in DOMAIN cfg |-> IF f \in DOMAIN answer THEN answer[f] ELSE cfg[f]]
decodeResponse(cfg, answer) ==
  [f \in DOMAIN cfg |-> IF f \in DOMAIN answer THEN answer[f] ELSE defaultTlsValues[f]]

\* The effects that follow the store: the switch while no save is out, and the
\* debounced validation whenever a value changes while encryption is on.
effects(u, s) ==
  [u EXCEPT !.on = IF "config" \in s.busy THEN @ ELSE s.cfg.enabled,
            !.timer = IF /\ s.initialized /\ fullyConfigured(s.cfg)
                         /\ (s.cfg # st.cfg \/ ~st.initialized)
                      THEN <<getSubmitValues(s.cfg)>> ELSE @]

\* setTlsConfig sends the store's values with the caller's over them.
Over(values) == [f \in DOMAIN st.cfg |-> IF f \in DOMAIN values THEN values[f] ELSE st.cfg[f]]
setTlsConfig(cs, cfg, by) == Sent(cs, "set", [cfg |-> cfg, by |-> by])

\* A save of the page, sent by a click; hist.clean also wants no validation due.
UserSends == Act /\ hist' = [hist EXCEPT !.clean = @ /\ Idle /\ ui.timer = <<>>]
save(values, by) ==
  /\ st' = [st EXCEPT !.busy = @ \cup {"config"}]
  /\ calls' = setTlsConfig(calls, Over(values), by)

-----------------------------------------------------------------------------
Init ==
  /\ srv \in [enabled : BOOLEAN, plain : {TRUE}, force : {FALSE}, name : {""} \cup Name,
              cert : {"", "pem"}, key : {"", "pem"}, saved : {FALSE}]
  /\ srv.enabled => srv.cert # "" /\ srv.key # ""
  /\ srv.cert = srv.key
  /\ st = initialState
  /\ ui = [on |-> FALSE, timer |-> <<>>, dialog |-> "", name |-> "",
           warning |-> <<>>, checked |-> <<>>, checkId |-> 0]
  /\ calls = Sent(NoCalls(Requests), "status", <<>>)
  /\ acts = 0 /\ hist = [clean |-> TRUE, failed |-> FALSE, seen |-> {}]

Ready == st.initialized /\ ui.dialog = ""

-----------------------------------------------------------------------------
\* The switches.  Encryption off brings plain DNS back; on needs a certificate
\* and a key, else the switch stays off and the wizard opens.
handleEncryptedDnsChange ==
  /\ Ready /\ "config" \notin st.busy /\ UserSends
  /\ \/ ui.on /\ save([enabled |-> FALSE, plain |-> TRUE, force |-> FALSE], "page")
     \/ ~ui.on /\ hasCert(st.cfg) /\ hasKey(st.cfg) /\ save([enabled |-> TRUE], "page")
  /\ ui' = [ui EXCEPT !.on = ~@]

RedirectToggle ==
  /\ Ready /\ fullyConfigured(st.cfg) /\ UserSends
  /\ save([force |-> ~st.cfg.force], "page")
  /\ UNCHANGED ui

\* Plain DNS goes on at once, off after a confirmation.
PlainDnsToggle ==
  /\ Ready /\ fullyConfigured(st.cfg) /\ UserSends
  /\ save([plain |-> ~st.cfg.plain], "page")
  /\ UNCHANGED ui

\* The certificate goes from the store at once, before the server has answered.
handleRemoveCert ==
  /\ Ready /\ hasCert(st.cfg) /\ UserSends
  /\ st' = [st EXCEPT !.busy = @ \cup {"config"}, !.cfg = getSubmitValues(defaultTlsValues),
                      !.status = ""]
  /\ calls' = setTlsConfig(calls, getSubmitValues(defaultTlsValues), "page")
  /\ ui' = effects(ui, st')

\* The reset saves and validates the defaults at the same time.
ResetDnsModal ==
  /\ Ready /\ UserSends
  /\ st' = [st EXCEPT !.busy = @ \cup {"config", "validate"}, !.status = ""]
  /\ calls' = Sent(setTlsConfig(calls, Over(defaultTlsValues), "page"),
                   "validate", defaultTlsValues)
  /\ UNCHANGED ui

\* The dialog of the server settings takes over the stored values.
openDialog ==
  /\ Ready /\ Look
  /\ ui' = [ui EXCEPT !.dialog = "server", !.name = st.cfg.name, !.warning = <<>>,
                      !.checked = <<>>]
closeDialog == ui.dialog # "" /\ Look /\ ui' = [ui EXCEPT !.dialog = ""]

-----------------------------------------------------------------------------
\* The server settings.  A name is checked when its field is left, unless it was
\* the last one checked.
Draft == [st.cfg EXCEPT !.name = ui.name]
canCheck == hasCert(st.cfg) /\ hasKey(st.cfg)

\* run of useServerNameCheck: sent with the id that makes older answers stale.
runCheck(by) ==
  /\ ui' = [ui EXCEPT !.checkId = @ + 1]
  /\ calls' = Sent(calls, "check", [cfg |-> getSubmitValues([Draft EXCEPT !.enabled = TRUE]),
                                    id |-> ui.checkId + 1, by |-> by])

\* The warning that is on screen: it goes with the name it was about.
warningText == ui.warning = <<ui.name>>

handleFieldInput ==
  /\ ui.dialog = "server" /\ Look
  /\ \E n \in Name \cup {""} : ui' = [ui EXCEPT !.name = n]

handleFieldBlur ==
  /\ ui.dialog = "server" /\ ui.checked # <<ui.name>> /\ canCheck /\ UserSends
  /\ runCheck("blur") /\ UNCHANGED st

\* The check decides whether the save goes through; without a certificate and a
\* key there is nothing to check.
saveSettings ==
  /\ ui.dialog = "server" /\ {"config", "validate"} \cap st.busy = {}
  /\ Act
  /\ hist' = [hist EXCEPT !.clean = @ /\ Idle /\ ui.timer = <<>>,
                          !.seen = @ \cup (IF warningText THEN {ui.name} ELSE {})]
  /\ IF canCheck THEN runCheck(IF warningText THEN "again" ELSE "save") /\ UNCHANGED st
     ELSE /\ save([name |-> ui.name], "dialog")
          /\ ui' = [ui EXCEPT !.dialog = ""]

\* The debounce of the validation runs out.
validateConfig ==
  /\ ui.timer # <<>> /\ ui' = [ui EXCEPT !.timer = <<>>]
  /\ st' = [st EXCEPT !.busy = @ \cup {"validate"}]
  /\ calls' = Sent(calls, "validate", ui.timer[1])
  /\ UNCHANGED <<srv, acts, hist>>

UserStep ==
  \/ handleEncryptedDnsChange \/ RedirectToggle \/ PlainDnsToggle
  \/ handleRemoveCert \/ ResetDnsModal \/ openDialog \/ closeDialog \/ handleFieldInput
  \/ handleFieldBlur \/ saveSettings

-----------------------------------------------------------------------------
\* The server (external): an answer holds no key and no empty name.
answerOf(cfg) ==
  LET shown == [cfg EXCEPT !.saved = hasKey(cfg), !.key = ""]
  IN  [f \in DOMAIN shown \ (IF cfg.name = "" THEN {"name"} ELSE {}) |-> shown[f]]
Kept(cfg) == [cfg EXCEPT !.key = IF cfg.saved THEN srv.key ELSE @, !.saved = FALSE]
Accepted(cfg) == (cfg.enabled => hasCert(cfg) /\ hasKey(cfg)) /\ (cfg.enabled \/ cfg.plain)

serve(r, c) ==
  \/ r = "status" /\ Served(r, c, srv, <<answerOf(srv), verdict(srv)>>)
  \/ /\ r = "set"
     /\ LET cfg == Kept(c.arg.cfg)
        IN  IF Accepted(cfg) THEN Served(r, c, cfg, <<answerOf(cfg), verdict(cfg)>>)
            ELSE Refused(r, c)
  \/ /\ r = "validate"
     /\ Served(r, c, srv, <<answerOf(Kept(c.arg)), verdict(Kept(c.arg))>>)
  \/ r = "check" /\ Served(r, c, srv, verdict(Kept(c.arg.cfg)))

Server ==
  /\ \E r \in Requests : \E c \in calls[r] : Answer(c) = "out" /\ serve(r, c)
  /\ UNCHANGED <<st, ui, acts, hist>>

-----------------------------------------------------------------------------
\* getTlsStatus, setTlsConfig and validateTlsConfig put their answer into the store.
flagOf(r) == IF r = "set" THEN "config" ELSE r
storeDone(r, c) ==
  LET ok == Answer(c) = "ok"
      s == [st EXCEPT !.busy = @ \ {flagOf(r)}, !.initialized = @ \/ r = "status"]
  IN  /\ st' = IF ok THEN [s EXCEPT !.cfg = decodeResponse(@, Data(c)[1]), !.status = Data(c)[2]]
               ELSE s
      /\ calls' = Ended(calls, r, c)
      /\ ui' = effects(ui, st')

\* A check that is no longer the last one, or no longer about the name in the
\* field, decides nothing; a failed one finds nothing.  A new warning holds the
\* save back, one that was on screen does not.
\* Mutant: the answer of an older check counts.
AnyCheck(c) == TRUE
current(c) == c.arg.id = ui.checkId /\ c.arg.cfg.name = ui.name

checkDone(c) ==
  LET mismatch == Answer(c) = "ok" /\ Data(c) = "mismatch"
      u == [ui EXCEPT !.warning = IF mismatch THEN <<c.arg.cfg.name>> ELSE <<>>,
                      !.checked = <<c.arg.cfg.name>>]
      cs == Ended(calls, "check", c)
      goesOn == c.arg.by = "again" \/ (c.arg.by = "save" /\ ~mismatch)
  IN  IF current(c) /\ goesOn
      THEN /\ st' = [st EXCEPT !.busy = @ \cup {"config"}]
           /\ calls' = setTlsConfig(cs, Over([name |-> ui.name]), "dialog")
           /\ ui' = [u EXCEPT !.dialog = ""]
      ELSE st' = st /\ calls' = cs /\ ui' = IF current(c) THEN u ELSE ui

Resume ==
  /\ \E r \in Requests : \E c \in calls[r] :
       /\ Answer(c) # "out"
       /\ IF r = "check" THEN checkDone(c) ELSE storeDone(r, c)
       /\ hist' = [Learned(hist, c) EXCEPT !.failed = @ \/ Answer(c) = "failed"]
  /\ UNCHANGED <<srv, acts>>

Next == UserStep \/ validateConfig \/ Server \/ Resume

Spec == Init /\ [][Next]_vars /\ WF_vars(Server) /\ WF_vars(Resume) /\ WF_vars(validateConfig)

-----------------------------------------------------------------------------
\* The stores, the forms and the requests of the page are well formed.
TypeOK ==
  /\ DOMAIN st = DOMAIN initialState /\ st.busy \subseteq {"status", "config", "validate"}
  /\ DOMAIN st.cfg = DOMAIN defaultTlsValues /\ st.status \in {"", "ok", "mismatch"}
  /\ ui.dialog \in {"", "server"} /\ ui.name \in Name \cup {""}
  /\ DOMAIN calls = Requests

\* A processing flag is set only while a handler waits that will clear it.
FlagsBacked == \A f \in st.busy : Waiting(IF f = "config" THEN "set" ELSE f)

\* When nothing is out and no validation is due, the page shows the server's
\* settings and its verdict on them, what was cleared included: if the user did
\* one thing at a time and nothing failed.
ShowsServer ==
  Idle /\ ui.timer = <<>> /\ hist.clean =>
    /\ st.cfg = [srv EXCEPT !.saved = srv.key # "", !.key = ""]
    /\ st.status = verdict(srv) /\ ui.on = srv.enabled

\* The dialog never saves a name that the certificate is not valid for unless the
\* warning about this name was on screen when the user pressed the button:
\* whatever is typed, checked and saved meanwhile, as long as the server has the key.
WarningSeen ==
  ~hist.failed /\ srv.key # "" => \A c \in calls["set"] :
    (c.arg.by = "dialog" /\ verdict(c.arg.cfg) = "mismatch") => c.arg.cfg.name \in hist.seen

\* The loader goes, also when the request fails.
LoaderEnds == <>st.initialized

=============================================================================
