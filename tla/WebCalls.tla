------------------------------ MODULE WebCalls ------------------------------
(***************************************************************************)
(* What the pages of the web interface share: asynchronous handlers.       *)
(*                                                                         *)
(* JavaScript runs a handler up to its next "await" without interruption.  *)
(* A handler that waits is an activation: it is kept under the request it  *)
(* waits for, with what its closure still needs.  The server (external)    *)
(* answers the requests one at a time, in any order, and the answers       *)
(* arrive in any order; each resumes its handler up to the next "await".   *)
(* A request can fail before or after the server has acted on it; an       *)
(* answer that the session has ended replaces the page by the login page,  *)
(* and is left out.  Toasts that only inform are left to WebToasts.        *)
(***************************************************************************)
EXTENDS Naturals, FiniteSets, FiniteSetsExt, Sequences

CONSTANT MaxActs     \* how often the user makes the page send something

ASSUME MaxActsAssumption == MaxActs \in Nat \ {0}

VARIABLES
  st,       \* the stores the page uses
  ui,       \* what the components keep: forms, open modals, timers
  calls,    \* request -> the activations that wait for it
  srv,      \* what the server keeps of what the page shows
  acts,     \* how often the user has made the page send something
  hist      \* history for the properties, read by no guard; hist.clean: nothing
            \* has failed and the user acted only while nothing was out

vars == <<st, ui, calls, srv, acts, hist>>

NoCalls(requests) == [r \in requests |-> {}]

Waiting(r) == calls[r] # {}
Idle == \A r \in DOMAIN calls : calls[r] = {}

\* Answers are <<>> while the request is out, <<"failed">> or <<"ok", data>>.
Answer(c) == IF c.answer = <<>> THEN "out" ELSE c.answer[1]
Data(c) == c.answer[2]

Sent(cs, r, arg) ==
  LET taken == {c.n : c \in {d \in cs[r] : d.arg = arg}}
      n == CHOOSE k \in 1 .. Cardinality(taken) + 1 : k \notin taken
  IN  [cs EXCEPT ![r] = @ \cup {[arg |-> arg, n |-> n, answer |-> <<>>]}]

Ended(cs, r, c) == [cs EXCEPT ![r] = @ \ {c}]

Answered(cs, r, c, answer) ==
  [cs EXCEPT ![r] = (@ \ {c}) \cup {[c EXCEPT !.answer = answer]}]

\* A step of the server: srv1 is its state once it has acted, data its answer.
\* The answer may be lost afterwards, or the request may never have arrived.
Served(r, c, srv1, data) ==
  \/ calls' = Answered(calls, r, c, <<"ok", data>>) /\ srv' = srv1
  \/ calls' = Answered(calls, r, c, <<"failed">>) /\ srv' \in {srv, srv1}

Refused(r, c) ==
  /\ calls' = Answered(calls, r, c, <<"failed">>)
  /\ UNCHANGED srv

\* A step of the user that makes the page send something, and one that does not.
\* Both end with the bound MaxActs.
Act == acts < MaxActs /\ acts' = acts + 1 /\ UNCHANGED srv
Noted(h) == [h EXCEPT !.clean = @ /\ Idle]
UserActs == Act /\ hist' = Noted(hist)
Look == acts < MaxActs /\ UNCHANGED <<st, calls, srv, acts, hist>>

\* A step of a handler that has its answer.
Learned(h, c) == [h EXCEPT !.clean = @ /\ Answer(c) = "ok"]

=============================================================================
