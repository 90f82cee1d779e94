--------------------------- MODULE ClientRegistry ---------------------------
(***************************************************************************)
(* What the storage of persistent clients promises: a registry of clients  *)
(* by UID that is changed in single steps, in which no two clients share a *)
(* name or an identifier.  Clients implements it with six maps and a lock. *)
(***************************************************************************)
CONSTANTS
    UIDs,       \* unique IDs of clients
    Profiles,   \* clients as administrators may enter them
    None        \* no client

\* The keys of a client: its name and its identifiers.
KeysOf(c) == IF c = None THEN {} ELSE {c.name} \cup c.ids

VARIABLE registry   \* the client of each UID, or None

Init == registry = [u \in UIDs |-> None]

\* A client is added, or changed, unless it would share a key with another.
Put(u, c) ==
    /\ \A v \in UIDs \ {u} : KeysOf(c) \cap KeysOf(registry[v]) = {}
    /\ registry' = [registry EXCEPT ![u] = c]

\* A registered client is removed.
Drop(u) ==
    /\ registry[u] # None
    /\ registry' = [registry EXCEPT ![u] = None]

Next == \E u \in UIDs : Drop(u) \/ \E c \in Profiles : Put(u, c)

Spec == Init /\ [][Next]_registry
=============================================================================
