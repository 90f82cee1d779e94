------------------------------ MODULE WebToasts -----------------------------
(***************************************************************************)
(* Toasts: stores/toasts.ts and components/Toasts.  st is the sequence of  *)
(* notices; the calls that add them come from the other pages.  An undo    *)
(* callback is a request of its own; its failure is a problem notice.      *)
(***************************************************************************)
EXTENDS WebCalls, SequencesExt

CONSTANTS Message,
          MaxId       \* how many notices there are at most

Requests == {"undo"}
Problem == {"error", "warning"}
Type == Problem \cup {"success", "notice"}

\* undo: the notice has a callback in undoRegistry; action: a button of its own.
Notice(id, type, message, undo, action) ==
  [id |-> id, type |-> type, message |-> message, undo |-> undo, action |-> action]
undoRegistry == ui.undos
nanoid == ui.id + 1
Shown(notices) == {notices[i].id : i \in DOMAIN notices}

Init ==
  /\ st = <<>>
  /\ ui = [id |-> 0, timers |-> {}, over |-> 0, undos |-> {}]
  /\ calls = NoCalls(Requests)
  /\ srv = {}
  /\ acts = 0
  /\ hist = [clean |-> TRUE]

-----------------------------------------------------------------------------
\* pushProblemToast: a repeat takes the place of the notice it repeats.
\* Mutant: a repeat is a notice of its own.
NeverDuplicate(n, notice) == FALSE
isDuplicate(n, notice) ==
  /\ ~notice.action /\ n.type = notice.type /\ n.message = notice.message
  /\ ~n.action /\ ~n.undo

pushed(notices, notice) ==
  IF notice.type \in Problem /\ \E i \in DOMAIN notices : isDuplicate(notices[i], notice)
  THEN [i \in DOMAIN notices |-> IF isDuplicate(notices[i], notice) THEN notice ELSE notices[i]]
  ELSE Append(notices, notice)

\* Toasts are mounted with a running timer; one that goes takes its timer along.
rendered(u, old, new) ==
  [u EXCEPT !.timers = (@ \cap Shown(new)) \cup (Shown(new) \ Shown(old)),
            !.over = IF @ \in Shown(new) THEN @ ELSE 0]

removeToast(u, id) ==
  LET rest == SelectSeq(st, LAMBDA n : n.id # id)
  IN  st' = rest /\ ui' = rendered(u, st, rest)

\* addErrorToast, addWarningToast, addSuccessToast and addNoticeToast.
addToast(u, type, message, undo, action) ==
  LET notice == Notice(u.id + 1, type, message, undo, action)
      new == pushed(st, notice)
  IN  /\ st' = new
      /\ ui' = rendered([u EXCEPT !.id = @ + 1,
                                  !.undos = IF undo THEN @ \cup {u.id + 1} ELSE @], st, new)

-----------------------------------------------------------------------------
addProblemToast ==
  /\ nanoid <= MaxId /\ UserActs /\ UNCHANGED calls
  /\ \E type \in Problem, message \in Message, action \in BOOLEAN :
       addToast(ui, type, message, FALSE, action)

addSuccessToast ==
  /\ nanoid <= MaxId /\ UserActs /\ UNCHANGED calls
  /\ \E message \in Message, undo \in BOOLEAN : addToast(ui, "success", message, undo, FALSE)

addNoticeToast ==
  /\ nanoid <= MaxId /\ UserActs /\ UNCHANGED calls
  /\ \E message \in Message : addToast(ui, "notice", message, FALSE, FALSE)

removeCurrentToast ==
  /\ \E id \in ui.timers : removeToast(ui, id)
  /\ UNCHANGED <<calls, srv, acts, hist>>

clearRemoveToastTimeout ==
  /\ ui.over = 0 /\ Look
  /\ \E id \in Shown(st) : ui' = [ui EXCEPT !.over = id, !.timers = @ \ {id}]

resetRemoveToastTimeout ==
  /\ ui.over # 0 /\ Look
  /\ ui' = [ui EXCEPT !.over = 0, !.timers = @ \cup {ui.over}]

\* The callback is awaited with the notice on the screen; only then it is forgotten.
handleAction ==
  /\ UserActs
  /\ \E i \in DOMAIN st :
       /\ st[i].undo /\ st[i].id = ui.over
       /\ IF st[i].id \in undoRegistry
          THEN /\ calls' = Sent(calls, "undo", st[i].id) /\ UNCHANGED st
               /\ ui' = [ui EXCEPT !.timers = @ \ {st[i].id}]
          ELSE removeToast(ui, st[i].id) /\ UNCHANGED calls

handleActionClick ==
  /\ UserActs /\ UNCHANGED calls
  /\ \E i \in DOMAIN st : st[i].action /\ st[i].id = ui.over /\ removeToast(ui, st[i].id)

UserStep ==
  \/ addProblemToast \/ addSuccessToast \/ addNoticeToast \/ clearRemoveToastTimeout
  \/ resetRemoveToastTimeout \/ handleAction \/ handleActionClick

\* The server (external).
Server ==
  /\ \E c \in calls["undo"] : Answer(c) = "out" /\ Served("undo", c, srv, {})
  /\ UNCHANGED <<st, ui, acts, hist>>

\* The callback ends, with a problem notice if its request failed, and
\* handleAction goes on.
Resume ==
  /\ \E c \in calls["undo"] :
       LET u == [ui EXCEPT !.undos = @ \ {c.arg}]
           rest == SelectSeq(st, LAMBDA n : n.id # c.arg)
           problem == Notice(nanoid, "error", "failed", FALSE, FALSE)
           new == IF Answer(c) = "ok" THEN rest ELSE pushed(rest, problem)
       IN  /\ Answer(c) # "out"
           /\ st' = new
           /\ ui' = rendered(IF Answer(c) = "ok" THEN u ELSE [u EXCEPT !.id = @ + 1], st, new)
           /\ calls' = Ended(calls, "undo", c) /\ hist' = Learned(hist, c)
  /\ UNCHANGED <<srv, acts>>

Next == UserStep \/ removeCurrentToast \/ Server \/ Resume

Spec ==
  Init /\ [][Next]_vars /\ WF_vars(Server) /\ WF_vars(Resume) /\ WF_vars(removeCurrentToast)

-----------------------------------------------------------------------------
\* The notices are well formed and their ids are theirs alone.
TypeOK ==
  /\ \A i \in DOMAIN st : st[i].type \in Type /\ st[i].id \in 1 .. ui.id
  /\ Cardinality(Shown(st)) = Len(st)
  /\ ui.timers \subseteq Shown(st) /\ ui.over \in Shown(st) \cup {0} /\ DOMAIN calls = Requests

\* No notice stays for good: its timer runs, or the pointer is over it, or its
\* undo is awaited.  A notice that a repeat replaced has a timer again.
FlagsBacked ==
  \A id \in Shown(st) : id \in ui.timers \/ id = ui.over \/ \E c \in calls["undo"] : c.arg = id

\* "a request that keeps failing must not flood the screen with identical toasts"
\* (stores/toasts.ts:74).
NoFlood ==
  \A i, j \in DOMAIN st :
    /\ i # j /\ st[i].type \in Problem /\ ~st[i].action /\ ~st[j].action
    => st[i].type # st[j].type \/ st[i].message # st[j].message

=============================================================================
