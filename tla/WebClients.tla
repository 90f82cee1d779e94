----------------------------- MODULE WebClients -----------------------------
(***************************************************************************)
(* The pages of the clients: stores/clientForm.ts, stores/clients.ts and   *)
(* getClients of stores/dashboard.ts with components/Clients and the hook  *)
(* useInitClientFormFromRoute.  The pages share one form: the page of a    *)
(* new client, the page of the client that the route names, and their      *)
(* sub-pages (protection, blocked services, schedule).  The settings of a  *)
(* client are one value: "nosize" is a cache without a size, "badup"       *)
(* upstreams that cannot be parsed.                                        *)
(***************************************************************************)
EXTENDS WebCalls

CONSTANTS Name, Id,   \* the names and identifiers that the user types
          MaxEdits    \* how often the user edits the form

Requests == {"clients", "save", "delete"}
Settings == {"x", "y", "nosize", "badup"}
Client == [name : Name, ids : Seq(Id), settings : {"x", "y"}]

emptyForm == [mode |-> "add", original |-> "", name |-> "", ids |-> <<"">>, settings |-> "x",
              busy |-> FALSE, errors |-> {}]
initialState == [clients |-> {}, initialized |-> FALSE, busy |-> {}, form |-> emptyForm]

buildFormPayload(c) ==
  [emptyForm EXCEPT !.mode = "edit", !.original = c.name, !.name = c.name, !.ids = c.ids,
                    !.settings = c.settings]
buildClientConfig(f) == [name |-> f.name, ids |-> f.ids, settings |-> f.settings]

Others(f) == {c \in st.clients : f.mode = "edit" => c.name # f.original}
Elems(s) == {s[i] : i \in DOMAIN s}

\* validateIdentifier: given, not twice in the form, not another client's.
validIdentifier(f, i) ==
  /\ f.ids[i] # "" /\ \A j \in DOMAIN f.ids \ {i} : f.ids[j] # f.ids[i]
  /\ \A c \in Others(f) : f.ids[i] \notin Elems(c.ids)

\* saveClient and handleSave: the fields that hold the save back.
formErrors(f) ==
  {k \in {"name", "ids", "cache", "upstreams"} :
     \/ k = "name" /\ (f.name = "" \/ \E c \in Others(f) : c.name = f.name)
     \/ k = "ids" /\ \E i \in DOMAIN f.ids : ~validIdentifier(f, i)
     \/ k = "cache" /\ f.settings = "nosize"
     \/ k = "upstreams" /\ f.settings = "badup"}

-----------------------------------------------------------------------------
getClients(s, cs, then) ==
  /\ st' = [s EXCEPT !.busy = @ \cup {"clients"}]
  /\ calls' = Sent(cs, "clients", then)

\* The list of the clients is mounted: it fetches them.
openClients(s, cs) ==
  /\ getClients(s, cs, "list")
  /\ ui' = [ui EXCEPT !.page = "list", !.route = "", !.id = ""]

\* Mutant: a form that edits some client is taken for the route's.
AnyEdit(f, route) == f.mode = "edit"
holds(f, route) == f.mode = "edit" /\ f.original = route

\* The effects after a step that leaves s, u and cs: on the page of a client the
\* form is made of that client, or the list is opened when there is none.
settle(s, u, cs) ==
  LET due == /\ u.page # "list" /\ u.route # "" /\ s.clients # {} /\ ~s.form.busy
             /\ ~holds(s.form, u.route)
      found == {c \in s.clients : c.name = u.route}
  IN  IF due /\ found = {} THEN openClients([s EXCEPT !.form = emptyForm], cs)
      ELSE /\ st' = IF due THEN [s EXCEPT !.form = buildFormPayload(CHOOSE c \in found : TRUE)]
                    ELSE IF u.page = "form" /\ u.id # "" /\ s.form.mode = "add"
                            /\ (st.form.mode = "edit" \/ ui.page # "form")
                    THEN [s EXCEPT !.form.ids = <<u.id>>]
                    ELSE s
           /\ ui' = u /\ calls' = cs

-----------------------------------------------------------------------------
\* The list is mounted, or the page of a client or a sub-page of it is loaded directly.
Init ==
  /\ srv \in {{}, {[name |-> n, ids |-> <<CHOOSE i \in Id : TRUE>>, settings |-> "x"] : n \in {CHOOSE m \in Name : TRUE}},
              {c \in [name : Name, ids : {<<i>> : i \in Id}, settings : {"x"}] :
                 (c.name = CHOOSE n \in Name : TRUE) <=> (c.ids[1] = CHOOSE i \in Id : TRUE)}}
  /\ \E page \in {"list", "form"} : \E route \in Name :
       ui = [page |-> page, route |-> IF page = "list" THEN "" ELSE route, id |-> "",
             visited |-> {<<page, IF page = "list" THEN "" ELSE route>>}, edits |-> 0]
  /\ st = [initialState EXCEPT !.busy = {"clients"}]
  /\ calls = Sent(NoCalls(Requests), "clients", "list")
  /\ acts = 0 /\ hist = [clean |-> TRUE]

OnList == ui.page = "list" /\ st.initialized
OnForm == ui.page = "form" /\ ~st.form.busy

\* Opening a page of the form mounts it, which fetches the clients; from the page
\* of one client to that of another only the route changes.
openForm(s, page, route, id) ==
  LET u == [ui EXCEPT !.page = page, !.route = route, !.id = id,
                      !.visited = @ \cup {<<page, route>>}]
  IN  IF page = ui.page /\ page = "form" /\ route # "" /\ ui.route # "" THEN settle(s, u, calls)
      ELSE settle([s EXCEPT !.busy = @ \cup {"clients"}], u, Sent(calls, "clients", "list"))

handleAddClient ==
  OnList /\ UserActs /\ openForm([st EXCEPT !.form = emptyForm], "form", "", "")
handleEditClient ==
  /\ OnList /\ UserActs
  /\ \E c \in st.clients :
       openForm([st EXCEPT !.form = buildFormPayload(c)], "form", c.name, "")
\* From the query log: the form is left as it is.
handleAddPersistentClient ==
  /\ ui.page = "list" /\ UserActs
  /\ \E i \in Id : openForm(st, "form", "", i)
\* A sub-page, the breadcrumbs back, and the browser's Back and Forward.
openSub == OnForm /\ UserActs /\ openForm(st, "sub", ui.route, "")
goHistory ==
  /\ UserActs
  /\ \E p \in ui.visited :
       /\ p # <<ui.page, ui.route>>
       /\ IF p[1] = "list" THEN openClients(st, calls) ELSE openForm(st, p[1], p[2], "")

handleDeleteConfirm ==
  /\ OnList /\ "delete" \notin st.busy /\ UserActs /\ UNCHANGED ui
  /\ \E c \in st.clients : calls' = Sent(calls, "delete", c.name)
  /\ st' = [st EXCEPT !.busy = @ \cup {"delete"}]

\* updateClientFormField: it clears the error of its field.
edited(field, value, error) ==
  /\ ui.edits < MaxEdits /\ UNCHANGED <<calls, srv, acts, hist>>
  /\ st' = [st EXCEPT !.form = [@ EXCEPT ![field] = value, !.errors = @ \ error]]
  /\ ui' = [ui EXCEPT !.edits = @ + 1]
handleNameChange == OnForm /\ \E n \in Name : edited("name", n, {"name"})
\* The tags, the switches, the upstreams and their cache, and on the sub-pages,
\* also while a save is out, the protection, the services and the schedule.
handleSettings ==
  /\ OnForm \/ ui.page = "sub"
  /\ \E v \in Settings :
       v # st.form.settings /\ edited("settings", v, {"cache", "upstreams"})
\* Identifiers: handleAdd, handleRemove of all but the first, handleChange.
handleIds ==
  /\ OnForm
  /\ \/ Len(st.form.ids) < 2 /\ edited("ids", Append(st.form.ids, ""), {"ids"})
     \/ \E i \in 2 .. Len(st.form.ids) :
          edited("ids", SubSeq(st.form.ids, 1, i - 1) \o SubSeq(st.form.ids, i + 1, Len(st.form.ids)),
                 {"ids"})
     \/ \E i \in DOMAIN st.form.ids, v \in Id :
          edited("ids", [st.form.ids EXCEPT ![i] = v], {"ids"})

handleSave ==
  /\ OnForm
  /\ IF formErrors(st.form) # {}
     THEN /\ st' = [st EXCEPT !.form.errors = formErrors(st.form)]
          /\ UNCHANGED <<ui, calls, srv, acts, hist>>
     ELSE /\ UserActs
          /\ st' = [st EXCEPT !.form = [@ EXCEPT !.busy = TRUE, !.errors = {}]]
          /\ calls' = Sent(calls, "save", [original |-> IF st.form.mode = "edit" THEN st.form.original
                                                        ELSE "",
                                           client |-> buildClientConfig(st.form)])
          /\ UNCHANGED ui

handleCancel ==
  OnForm /\ UserActs /\ openClients([st EXCEPT !.form = emptyForm], calls)

UserStep ==
  \/ handleAddClient \/ handleEditClient \/ handleAddPersistentClient \/ openSub \/ goHistory
  \/ handleDeleteConfirm \/ handleNameChange \/ handleSettings \/ handleIds \/ handleSave
  \/ handleCancel

-----------------------------------------------------------------------------
\* The server (external): names and identifiers are unique.
serve(r, c) ==
  \/ r = "clients" /\ Served(r, c, srv, srv)
  \/ /\ r = "delete"
     /\ LET rest == {k \in srv : k.name # c.arg}
        IN  IF rest = srv THEN Refused(r, c) ELSE Served(r, c, rest, {})
  \/ /\ r = "save"
     /\ LET rest == {k \in srv : k.name # c.arg.original}
            clash == \E k \in rest : \/ k.name = c.arg.client.name
                                     \/ Elems(k.ids) \cap Elems(c.arg.client.ids) # {}
        IN  IF clash \/ (c.arg.original # "" /\ rest = srv) THEN Refused(r, c)
            ELSE Served(r, c, rest \cup {c.arg.client}, {})

Server ==
  /\ \E r \in Requests : \E c \in calls[r] : Answer(c) = "out" /\ serve(r, c)
  /\ UNCHANGED <<st, ui, acts, hist>>

-----------------------------------------------------------------------------
\* Mutant: a failed request leaves the list waiting.
SettledIfOk(s, ok) == [s EXCEPT !.busy = @ \ {"clients"}, !.initialized = @ \/ ok]
clientsSettled(s, ok) == [s EXCEPT !.busy = @ \ {"clients"}, !.initialized = TRUE]

\* getClients of a save goes on with the list, whichever page is shown by now.
clientsDone(c) ==
  LET ok == Answer(c) = "ok"
      s == clientsSettled(IF ok THEN [st EXCEPT !.clients = Data(c)] ELSE st, ok)
      cs == Ended(calls, "clients", c)
  IN  IF c.arg = "saved" THEN openClients([s EXCEPT !.form.busy = FALSE], cs)
      ELSE settle(s, ui, cs)

\* A form that was saved is cleared before the clients are fetched: on the page of
\* a client it is at once made of the client as it was before.
saveDone(c) ==
  LET cs == Ended(calls, "save", c)
  IN  IF Answer(c) = "ok"
      THEN settle([st EXCEPT !.form = emptyForm, !.busy = @ \cup {"clients"}], ui,
                  Sent(cs, "clients", "saved"))
      ELSE settle([st EXCEPT !.form.busy = FALSE], ui, cs)

deleteDone(c) ==
  LET s == [st EXCEPT !.busy = @ \ {"delete"}]
      cs == Ended(calls, "delete", c)
  IN  /\ IF Answer(c) = "ok" THEN getClients(s, cs, "list") ELSE st' = s /\ calls' = cs
      /\ UNCHANGED ui

resume(r, c) ==
  \/ r = "clients" /\ clientsDone(c)
  \/ r = "save" /\ saveDone(c)
  \/ r = "delete" /\ deleteDone(c)

Resume ==
  /\ \E r \in Requests : \E c \in calls[r] :
       Answer(c) # "out" /\ resume(r, c) /\ hist' = Learned(hist, c)
  /\ UNCHANGED <<srv, acts>>

Next == UserStep \/ Server \/ Resume

Spec == Init /\ [][Next]_vars /\ WF_vars(Server) /\ WF_vars(Resume)

-----------------------------------------------------------------------------
\* The stores, the forms and the requests of the page are well formed.
TypeOK ==
  /\ DOMAIN st = DOMAIN initialState /\ DOMAIN st.form = DOMAIN emptyForm
  /\ st.busy \subseteq {"clients", "delete"} /\ st.form.settings \in Settings
  /\ \A c \in st.clients : c.name \in Name
  /\ ui.page \in {"list", "form", "sub"} /\ ui.route \in Name \cup {""}
  /\ DOMAIN calls = Requests

\* A processing flag is set only while the handler waits that will clear it.
FlagsBacked == (st.form.busy => Waiting("save")) /\ \A f \in st.busy : Waiting(f)

\* When nothing is out, the list is the server's: if the user did one thing at a
\* time and nothing failed.
ShowsServer == Idle /\ hist.clean => st.clients = srv /\ st.initialized

\* On the page of a client and on its sub-pages, the form is that client's: going
\* back and forth between clients cannot show, and save, another one's settings
\* (useInitClientFormFromRoute).
FormOfRoute ==
  ui.page # "list" /\ ui.route # "" /\ ~st.form.busy /\ st.clients # {} =>
    st.form.mode = "edit" /\ st.form.original = ui.route

\* The loader of the list goes, also when requests fail.
LoaderEnds == <>st.initialized

=============================================================================
