------------------------------- MODULE WebDhcp -------------------------------
(***************************************************************************)
(* The DHCP pages: stores/dhcp.ts with components/Dhcp, the settings page  *)
(* and the page of the leases.  Addresses are numbers, a subnet mask is    *)
(* the size of the subnet, 0 stands for what is empty or cannot be parsed. *)
(* Lease durations are left out.                                           *)
(***************************************************************************)
EXTENDS WebCalls

CONSTANTS Iface,         \* the network interfaces of the server's host
          HasV4, HasV6,  \* those that have IPv4, IPv6 addresses
          MaxAddr,       \* addresses are 1 .. MaxAddr
          Mask,          \* the subnet masks the user types
          Lease,         \* the leases there are, as records [mac, ip, hostname]
          Check          \* what a search for other servers finds

Requests == {"global", "status", "interfaces", "check", "set", "reset", "resetLeases",
             "add", "update", "remove"}
Addr == 0 .. MaxAddr
Flag == {"status", "interfaces", "check", "config", "reset", "add", "update", "remove"}
V4 == [gateway : Addr, mask : Mask \cup {0}, start : Addr, end : Addr]
noV4 == [gateway |-> 0, mask |-> 0, start |-> 0, end |-> 0]
noModal == [open |-> FALSE, type |-> "", lease |-> <<>>]

initialState ==
  [busy |-> {}, ready |-> {}, available |-> FALSE, enabled |-> FALSE, iface |-> "",
   v4 |-> noV4, v6 |-> 0, check |-> <<>>, leases |-> {}, staticLeases |-> {},
   modal |-> noModal, ifaces |-> {}]

-----------------------------------------------------------------------------
\* helpers/validators.ts: the IPv4 form.  isIpInCidr compares what the mask keeps.
isIpInCidr(a, gateway, mask) == (a - 1) \div mask = (gateway - 1) \div mask

validateNotInRange(f) == ~(f.start <= f.gateway /\ f.gateway <= f.end)
validateGatewaySubnetMask(f) == f.gateway # 0 /\ f.mask # 0
validateIpForGatewaySubnetMask(a, f) ==
  f.gateway = 0 \/ f.mask = 0 \/ isIpInCidr(a, f.gateway, f.mask)
\* Mutant: a range of one address passes.
RangeOfOne(f) == f.end >= f.start
validateIpv4RangeEnd(f) == f.end > f.start

\* handleSave of DhcpV4Modal: each field is required and valid.
v4Valid(f) ==
  /\ \A field \in DOMAIN f : f[field] # 0
  /\ validateNotInRange(f) /\ validateGatewaySubnetMask(f) /\ validateIpv4RangeEnd(f)
  /\ validateIpForGatewaySubnetMask(f.start, f)
  /\ validateIpForGatewaySubnetMask(f.end, f)

\* The static lease form: no duplicates but with the lease that is edited.
unique(old, field, value) ==
  \/ field = "hostname" /\ value = ""
  \/ old # <<>> /\ value = old[field]
  \/ \A l \in st.staticLeases : l[field] # value
leaseValid(l, old) ==
  /\ unique(old, "mac", l.mac) /\ unique(old, "hostname", l.hostname) /\ unique(old, "ip", l.ip)
  /\ (st.v4.gateway # 0 /\ st.v4.mask # 0) => isIpInCidr(l.ip, st.v4.gateway, st.v4.mask)
  /\ l.ip # st.v4.gateway

-----------------------------------------------------------------------------
\* getDhcpStatus asks for the global status first, then for the DHCP status;
\* then says what its caller goes on with.
getDhcpStatus(s, cs, then) ==
  /\ st' = [s EXCEPT !.busy = @ \cup {"status"}]
  /\ calls' = Sent(cs, "global", then)

getDhcpInterfaces(s, cs) ==
  /\ st' = [s EXCEPT !.busy = @ \cup {"interfaces"}]
  /\ calls' = Sent(cs, "interfaces", <<>>)

findActiveDhcp(iface) ==
  /\ st' = [st EXCEPT !.busy = @ \cup {"check"}]
  /\ calls' = Sent(calls, "check", iface)

\* setDhcpConfig and toggleDhcp send one request; "same" leaves enabled alone.
dhcpSetConfig(values, then) ==
  /\ st' = [st EXCEPT !.busy = @ \cup {"config"}]
  /\ calls' = Sent(calls, "set", [values |-> values, then |-> then])
setDhcpConfig(values) == dhcpSetConfig(values, "save")
toggleDhcp(values) ==
  dhcpSetConfig([values EXCEPT !.enabled = IF @ = "on" THEN "off" ELSE "on"], "toggle")

Values(enabled, iface, v4, v6) == [enabled |-> enabled, iface |-> iface, v4 |-> v4, v6 |-> v6]

toggleLeaseModal(s, type, lease) ==
  [s EXCEPT !.modal = [open |-> ~@.open, type |-> type, lease |-> lease]]

\* addStaticLease, updateStaticLease, removeStaticLease up to their answer.
changeLease(r, l) ==
  /\ st' = [st EXCEPT !.busy = @ \cup {r}]
  /\ calls' = Sent(calls, r, l)

-----------------------------------------------------------------------------
\* One of the two pages is mounted with the stores as they are at first.
Init ==
  /\ srv \in [available : BOOLEAN, enabled : BOOLEAN, iface : {"", CHOOSE i \in Iface : TRUE},
              v4 : {noV4, [gateway |-> 1, mask |-> 4, start |-> 2, end |-> 3]}, v6 : {0},
              static : {{}} \cup {{l} : l \in Lease}, leases : {{}} \cup {{l} : l \in Lease}]
  /\ srv.v4 = noV4 => ~srv.enabled /\ srv.static = {} /\ srv.leases = {}
  /\ srv.v4 # noV4 => srv.available /\ srv.iface # ""
  /\ srv.static = {} \/ srv.leases = {}
  /\ \E page \in {"dhcp", "leases"} :
       /\ ui = [page |-> page, iface |-> "", on |-> FALSE, dialog |-> "", lease |-> <<>>,
                retry |-> {}]
       /\ calls = Sent(NoCalls(Requests), "global", IF page = "dhcp" THEN "mount" ELSE "none")
  /\ st = [initialState EXCEPT !.busy = {"status"}]
  /\ acts = 0 /\ hist = [clean |-> TRUE]

isLoaded == "status" \in st.ready /\ (st.available => "interfaces" \in st.ready)
OnDhcp == ui.page = "dhcp" /\ isLoaded /\ st.available
OnLeases == ui.page = "leases"

-----------------------------------------------------------------------------
\* The settings page.  Its effects follow the store: the selected interface when
\* the stored one changes, the switch while no save is out.
followStore(s) ==
  ui' = [ui EXCEPT !.iface = IF s.iface # "" /\ s.iface # st.iface THEN s.iface ELSE @,
                   !.on = IF "config" \in s.busy THEN @ ELSE s.enabled]

handleInterfaceChange ==
  /\ OnDhcp /\ Look
  /\ \E i \in st.ifaces : ui' = [ui EXCEPT !.iface = i]

openDialog ==
  /\ OnDhcp /\ ui.dialog = "" /\ Look
  /\ \E d \in {"v4", "v6", "reset"} :
       /\ d = "v4" => ui.iface \in HasV4
       /\ d = "v6" => ui.iface \in HasV6
       /\ ui' = [ui EXCEPT !.dialog = d]
closeDialog == OnDhcp /\ ui.dialog # "" /\ Look /\ ui' = [ui EXCEPT !.dialog = ""]

handleSaveV4Config ==
  /\ OnDhcp /\ ui.dialog = "v4" /\ ui.iface \in HasV4 /\ "config" \notin st.busy /\ UserActs
  /\ \E f \in V4 : v4Valid(f) /\ setDhcpConfig(Values("same", ui.iface, f, 0))
  /\ ui' = [ui EXCEPT !.dialog = ""]

handleSaveV6Config ==
  /\ OnDhcp /\ ui.dialog = "v6" /\ "config" \notin st.busy /\ UserActs
  /\ setDhcpConfig(Values("same", ui.iface, noV4, 1))
  /\ ui' = [ui EXCEPT !.dialog = ""]

\* resetDhcp and getDhcpStatus are started one after the other, so that this step
\* alone is two at a time: a status of before the reset may be the last to arrive.
confirmReset ==
  /\ OnDhcp /\ ui.dialog = "reset" /\ "reset" \notin st.busy
  /\ Act /\ hist' = [hist EXCEPT !.clean = FALSE]
  /\ st' = [st EXCEPT !.busy = @ \cup {"reset", "status"}]
  /\ calls' = Sent(Sent(calls, "reset", <<>>), "global", "none")
  /\ ui' = [ui EXCEPT !.dialog = ""]

\* onChange of the switch: off is saved at once, on needs an IPv4 configuration,
\* else the switch goes back and the dialog opens.
switchOff ==
  /\ OnDhcp /\ ui.on /\ {"check", "config"} \cap st.busy = {}
  /\ st.enabled \/ ui.iface # ""
  /\ UserActs /\ toggleDhcp(Values("on", "", noV4, 0))
  /\ ui' = [ui EXCEPT !.on = FALSE]
switchOn ==
  /\ OnDhcp /\ ~ui.on /\ {"check", "config"} \cap st.busy = {}
  /\ st.enabled \/ ui.iface # ""
  /\ IF st.v4 # noV4
     THEN /\ UserActs
          /\ toggleDhcp(Values("off", IF ui.iface # "" THEN ui.iface ELSE st.iface, st.v4, st.v6))
          /\ ui' = [ui EXCEPT !.on = TRUE]
     ELSE Look /\ ui' = [ui EXCEPT !.dialog = "v4"]

handleCheck ==
  /\ OnDhcp /\ ui.iface # "" /\ "check" \notin st.busy /\ UserActs
  /\ findActiveDhcp(ui.iface) /\ UNCHANGED ui

\* "Try again" of a toast that the check has left.
tryAgain ==
  /\ UserActs
  /\ \E i \in ui.retry : findActiveDhcp(i) /\ ui' = [ui EXCEPT !.retry = @ \ {i}]

openLeases ==
  /\ OnDhcp /\ UserActs
  /\ getDhcpStatus(st, calls, "none")
  /\ ui' = [ui EXCEPT !.page = "leases", !.dialog = ""]

-----------------------------------------------------------------------------
\* The page of the leases.  A static lease is new, edited, or made of a dynamic one.
openLeaseModal ==
  /\ OnLeases /\ ~st.modal.open /\ ui.dialog = "" /\ UNCHANGED <<ui, calls, srv, acts, hist>>
  /\ \/ st.enabled /\ st.v4.start # 0 /\ st' = toggleLeaseModal(st, "ADD_LEASE", <<>>)
     \/ /\ "update" \notin st.busy
        /\ \E l \in st.staticLeases : st' = toggleLeaseModal(st, "EDIT_LEASE", l)
     \/ \E l \in st.leases, type \in {"ADD_LEASE", "MAKE_STATIC"} :
          st' = toggleLeaseModal(st, type, l)

\* Cancel is off while a lease is saved; the cross and Escape are not.
handleLeaseModalClose ==
  /\ OnLeases /\ st.modal.open
  /\ st' = toggleLeaseModal(st, "", <<>>) /\ UNCHANGED <<ui, calls, srv, acts, hist>>

handleLeaseModalSubmit ==
  /\ OnLeases /\ st.modal.open /\ {"add", "update"} \cap st.busy = {} /\ UserActs
  /\ \E l \in Lease :
       /\ st.modal.type \in {"EDIT_LEASE", "MAKE_STATIC"} => l.mac = st.modal.lease.mac
       /\ st.modal.type = "MAKE_STATIC" => l.hostname = st.modal.lease.hostname
       /\ leaseValid(l, IF st.modal.type = "EDIT_LEASE" THEN st.modal.lease ELSE <<>>)
       /\ changeLease(IF st.modal.type = "EDIT_LEASE" THEN "update" ELSE "add", l)
  /\ UNCHANGED ui

handleDeleteLease ==
  /\ OnLeases /\ ~st.modal.open /\ ui.dialog = "" /\ "remove" \notin st.busy /\ Look
  /\ \E l \in st.staticLeases \cup st.leases : ui' = [ui EXCEPT !.dialog = "delete", !.lease = l]
handleConfirmDeleteLease ==
  /\ OnLeases /\ ui.dialog = "delete" /\ UserActs
  /\ changeLease("remove", ui.lease)
  /\ ui' = [ui EXCEPT !.dialog = "", !.lease = <<>>]
closeDelete ==
  /\ OnLeases /\ ui.dialog = "delete" /\ Look /\ ui' = [ui EXCEPT !.dialog = "", !.lease = <<>>]

handleRefreshLeases ==
  /\ OnLeases /\ st.staticLeases \cup st.leases # {} /\ UserActs
  /\ getDhcpStatus(st, calls, "none") /\ UNCHANGED ui

handleResetLeases ==
  /\ OnLeases /\ ui.dialog = "" /\ UserActs
  /\ st' = [st EXCEPT !.busy = @ \cup {"reset"}]
  /\ calls' = Sent(calls, "resetLeases", <<>>) /\ UNCHANGED ui

\* DhcpDisabledBanner
handleEnable ==
  /\ OnLeases /\ ~st.enabled /\ st.available /\ UserActs
  /\ IF st.v4 # noV4
     THEN toggleDhcp(Values("off", st.iface, st.v4, st.v6)) /\ UNCHANGED ui
     ELSE /\ getDhcpStatus(st, calls, "mount")
          /\ ui' = [ui EXCEPT !.page = "dhcp", !.iface = st.iface, !.on = st.enabled]

UserStep ==
  \/ handleInterfaceChange \/ openDialog \/ closeDialog \/ handleSaveV4Config
  \/ handleSaveV6Config \/ confirmReset \/ switchOff \/ switchOn \/ handleCheck \/ tryAgain
  \/ openLeases \/ openLeaseModal \/ handleLeaseModalClose \/ handleLeaseModalSubmit
  \/ handleDeleteLease \/ handleConfirmDeleteLease \/ closeDelete \/ handleRefreshLeases
  \/ handleResetLeases \/ handleEnable

-----------------------------------------------------------------------------
\* The server (external).
Configured(v) ==
  [srv EXCEPT !.enabled = IF v.enabled = "same" THEN @ ELSE v.enabled = "on",
              !.iface = IF v.iface = "" THEN @ ELSE v.iface,
              !.v4 = IF v.v4 = noV4 THEN @ ELSE v.v4, !.v6 = IF v.v6 = 0 THEN @ ELSE v.v6]
Clash(l, others) ==
  \E o \in others : \/ o.mac = l.mac \/ o.ip = l.ip
                    \/ o.hostname # "" /\ o.hostname = l.hostname

serve(r, c) ==
  \/ r = "global" /\ Served(r, c, srv, srv.available)
  \/ r = "status" /\ Served(r, c, srv, srv)
  \/ r = "interfaces" /\ Served(r, c, srv, Iface)
  \/ r = "check" /\ \E found \in Check : Served(r, c, srv, found)
  \/ r = "set" /\ Served(r, c, Configured(c.arg.values), {})
  \/ /\ r = "reset"
     /\ Served(r, c, [srv EXCEPT !.enabled = FALSE, !.iface = "", !.v4 = noV4, !.v6 = 0,
                                 !.static = {}, !.leases = {}], {})
  \/ r = "resetLeases" /\ Served(r, c, [srv EXCEPT !.static = {}, !.leases = {}], {})
  \/ /\ r = "add"
     /\ IF Clash(c.arg, srv.static) THEN Refused(r, c)
        ELSE Served(r, c, [srv EXCEPT !.static = @ \cup {c.arg},
                             !.leases = {l \in @ : ~Clash(l, {c.arg})}], {})
  \/ /\ r = "update"
     /\ LET rest == {l \in srv.static : l.mac # c.arg.mac}
        IN  IF rest = srv.static \/ Clash(c.arg, rest) THEN Refused(r, c)
            ELSE Served(r, c, [srv EXCEPT !.static = rest \cup {c.arg}], {})
  \/ /\ r = "remove"
     /\ IF c.arg \notin srv.static \cup srv.leases THEN Refused(r, c)
        ELSE Served(r, c, [srv EXCEPT !.static = @ \ {c.arg}, !.leases = @ \ {c.arg}], {})

Server ==
  /\ \E r \in Requests : \E c \in calls[r] : Answer(c) = "out" /\ serve(r, c)
  /\ UNCHANGED <<st, ui, acts, hist>>

-----------------------------------------------------------------------------
\* Mutant: a failed request leaves the page waiting for its status.
SettledIfOk(s, ok) == [s EXCEPT !.busy = @ \ {"status"}, !.ready = @ \cup (IF ok THEN {"status"} ELSE {})]
statusSettled(s, ok) == [s EXCEPT !.busy = @ \ {"status"}, !.ready = @ \cup {"status"}]

\* What the caller of getDhcpStatus goes on with: it never fails for its caller.
afterStatus(s, cs, then) ==
  /\ \/ then = "mount" /\ s.available /\ getDhcpInterfaces(s, cs)
     \/ then = "mount" /\ ~s.available /\ st' = s /\ calls' = cs
     \/ then = "reset" /\ st' = [s EXCEPT !.busy = @ \ {"reset"}] /\ calls' = cs
     \/ then = "none" /\ st' = s /\ calls' = cs
  /\ followStore(s)

globalDone(c) ==
  LET ok == Answer(c) = "ok"
      cs == Ended(calls, "global", c)
  IN  IF ok /\ Data(c)
      THEN calls' = Sent(cs, "status", c.arg) /\ UNCHANGED <<st, ui>>
      ELSE afterStatus(statusSettled([st EXCEPT !.available = ~ok /\ @], ok), cs, c.arg)

statusDone(c) ==
  LET ok == Answer(c) = "ok"
      s == IF ok THEN [st EXCEPT !.enabled = Data(c).enabled, !.iface = Data(c).iface,
                         !.v4 = Data(c).v4, !.v6 = Data(c).v6, !.leases = Data(c).leases,
                         !.staticLeases = Data(c).static, !.available = TRUE] ELSE st
  IN  afterStatus(statusSettled(s, ok), Ended(calls, "status", c), c.arg)

\* Then the mounted page selects the first interface when none is selected.
interfacesDone(c) ==
  /\ st' = [st EXCEPT !.ifaces = IF Answer(c) = "ok" THEN Data(c) ELSE @,
                      !.busy = @ \ {"interfaces"}, !.ready = @ \cup {"interfaces"}]
  /\ calls' = Ended(calls, "interfaces", c)
  /\ IF ui.page = "dhcp" /\ ui.iface = "" /\ st'.ifaces # {}
     THEN ui' = [ui EXCEPT !.iface = CHOOSE i \in st'.ifaces : TRUE]
     ELSE UNCHANGED ui

\* A toast offers to try again: another server, an error, or a dynamic address.
offersRetry(i, found) ==
  \/ found.other = "error"
  \/ /\ ~(i \in HasV4 /\ found.static = "error")
     /\ \/ found.other = "yes"
        \/ i \in HasV4 /\ found.static = "no" /\ st.iface # ""
checkDone(c) ==
  /\ st' = [st EXCEPT !.busy = @ \ {"check"}, !.check = IF Answer(c) = "ok" THEN Data(c) ELSE @]
  /\ calls' = Ended(calls, "check", c)
  /\ IF Answer(c) = "ok" /\ offersRetry(c.arg, Data(c))
     THEN ui' = [ui EXCEPT !.retry = @ \cup {c.arg}] ELSE UNCHANGED ui

\* setDhcpConfig lays the values over what the store holds by now; toggleDhcp
\* takes over the switch alone.
setDone(c) ==
  LET v == c.arg.values
      s == [st EXCEPT !.busy = @ \ {"config"}]
      saved == [s EXCEPT !.v4 = IF v.v4 = noV4 THEN @ ELSE v.v4,
                         !.v6 = IF v.v6 = 0 THEN @ ELSE v.v6, !.iface = v.iface]
      toggled == [s EXCEPT !.enabled = v.enabled = "on", !.check = <<>>]
  IN  /\ st' = IF Answer(c) = "failed" THEN s ELSE IF c.arg.then = "save" THEN saved ELSE toggled
      /\ calls' = Ended(calls, "set", c)
      /\ followStore(st')

resetDone(r, c) ==
  IF Answer(c) = "ok" THEN getDhcpStatus(st, Ended(calls, r, c), "reset") /\ UNCHANGED ui
  ELSE st' = [st EXCEPT !.busy = @ \ {"reset"}] /\ calls' = Ended(calls, r, c) /\ UNCHANGED ui

\* A lease that was saved closes the dialog by toggling it, then all is fetched.
leaseDone(r, c) ==
  LET s == [st EXCEPT !.busy = @ \ {r}]
      shut == IF r = "remove" THEN s ELSE toggleLeaseModal(s, "", <<>>)
  IN  /\ IF Answer(c) = "ok" THEN getDhcpStatus(shut, Ended(calls, r, c), "none")
         ELSE st' = s /\ calls' = Ended(calls, r, c)
      /\ UNCHANGED ui

resume(r, c) ==
  \/ r = "global" /\ globalDone(c)
  \/ r = "status" /\ statusDone(c)
  \/ r = "interfaces" /\ interfacesDone(c)
  \/ r = "check" /\ checkDone(c)
  \/ r = "set" /\ setDone(c)
  \/ r \in {"reset", "resetLeases"} /\ resetDone(r, c)
  \/ r \in {"add", "update", "remove"} /\ leaseDone(r, c)

Resume ==
  /\ \E r \in Requests : \E c \in calls[r] :
       Answer(c) # "out" /\ resume(r, c) /\ hist' = Learned(hist, c)
  /\ UNCHANGED <<srv, acts>>

Next == UserStep \/ Server \/ Resume

Spec == Init /\ [][Next]_vars /\ WF_vars(Server) /\ WF_vars(Resume)

-----------------------------------------------------------------------------
\* The stores, the forms and the requests of the page are well formed.
TypeOK ==
  /\ DOMAIN st = DOMAIN initialState
  /\ st.busy \subseteq Flag /\ st.ready \subseteq {"status", "interfaces"}
  /\ st.v4 \in V4 /\ st.staticLeases \subseteq Lease /\ st.leases \subseteq Lease
  /\ ui.page \in {"dhcp", "leases"} /\ ui.iface \in Iface \cup {""} /\ ui.retry \subseteq Iface
  /\ DOMAIN calls = Requests

\* A processing flag is set only while a handler waits that will clear it, also
\* through the status that a reset fetches at its end.
FlagsBacked ==
  \A f \in st.busy :
    CASE f = "status" -> Waiting("global") \/ Waiting("status")
      [] f = "config" -> Waiting("set")
      [] f = "reset" -> \/ Waiting("reset") \/ Waiting("resetLeases")
                        \/ \E r \in {"global", "status"} : \E c \in calls[r] : c.arg = "reset"
      [] OTHER -> Waiting(f)

\* When nothing is out, the pages show the server's state and no loader: if the
\* user did one thing at a time and nothing failed.  The interface is left out:
\* toggleDhcp sends the selected one and stores none.
ShowsServer ==
  Idle /\ hist.clean =>
    /\ st.available = srv.available /\ (ui.page = "dhcp" => isLoaded)
    /\ srv.available => /\ st.enabled = srv.enabled /\ st.v4 = srv.v4 /\ st.v6 = srv.v6
                        /\ st.staticLeases = srv.static /\ st.leases = srv.leases
                        /\ ui.page = "dhcp" => ui.on = srv.enabled

\* The range that the server hands out is a range of its subnet, of more than one
\* address, without the gateway: whatever was typed, toggled and fetched in between.
RangeServed ==
  srv.v4 # noV4 => LET range == srv.v4.start .. srv.v4.end
                   IN  /\ Cardinality(range) > 1 /\ srv.v4.gateway \notin range
                       /\ \A a \in range : isIpInCidr(a, srv.v4.gateway, srv.v4.mask)

\* The loader of the settings page goes, also when requests fail.
LoaderEnds == <>isLoaded \/ <>[](ui.page = "leases")

=============================================================================
