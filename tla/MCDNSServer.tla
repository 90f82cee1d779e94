----------------------------- MODULE MCDNSServer -----------------------------
(* Instances of DNSServer for TLC.                                         *)
EXTENDS DNSServer

\* Access lists that block anything, and one that blocks nothing.
AllAccess == [clients: BOOLEAN, hosts: BOOLEAN]
OpenAccess == [clients: {FALSE}, hosts: {FALSE}]
==============================================================================
