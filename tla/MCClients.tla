----------------------------- MODULE MCClients -----------------------------
(* Instances of Clients for TLC.                                           *)
EXTENDS Clients, TLC

\* UIDs are only compared for equality.
Symmetry == Permutations(UIDs)

\* Two addresses in a wide subnet, one of them in a narrow one and leased.
MCContains == [s \in {"wide", "narrow"} |-> IF s = "wide" THEN {"ip1", "ip2"} ELSE {"ip1"}]
MCBits == [s \in {"wide", "narrow"} |-> IF s = "wide" THEN 16 ELSE 24]
MCLeased == [i \in {"ip1", "ip2"} |-> IF i = "ip1" THEN "mac1" ELSE None]

Client(name, ids, ups) == [name |-> name, ids |-> ids, ups |-> ups]

\* Every kind of identifier, profiles that share a name or an identifier, and
\* one that changes the upstreams of a client.
MCProfiles == {
    Client("ann", {"cid1"}, "a"),
    Client("ann", {"cid1", "ip1", "wide"}, "b"),
    Client("ann", {"narrow"}, None),
    Client("bob", {"wide"}, None),
    Client("bob", {"mac1"}, "b")}
=============================================================================
