----------------------------- MODULE MCWmiWorker -----------------------------
(* Instances of WmiWorker for TLC. *)
EXTENDS WmiWorker

CONSTANTS here, h1, cimv2, root

MCHosts == {here, h1}
MCNamespaces == {cimv2, root}

Plain(op, limited) ==
  [op |-> op, ns |-> cimv2, limited |-> limited, target |-> LocalTarget]
Switch(host, alt) ==
  [op |-> "SetHost", ns |-> cimv2, limited |-> TRUE,
   target |-> [host |-> host, alt |-> alt]]

(* Scans with and without a deadline, a call and a switch: what flags do.  *)
ScanMenu ==
  {Plain("Query", TRUE), Plain("Query", FALSE), Plain("Call", TRUE), Switch(h1, TRUE)}

(* Two machines, and the requests that fill and use the caches of two      *)
(* namespaces.                                                             *)
HostMenu ==
  {[Plain(op, TRUE) EXCEPT !.ns = ns] :
     op \in {"ListClasses", "InstanceCount", "Call"}, ns \in MCNamespaces} \cup
  {Switch(here, FALSE), Switch(here, TRUE), Switch(h1, FALSE), Switch(h1, TRUE)}
=============================================================================
