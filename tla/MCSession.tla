------------------------------ MODULE MCSession ------------------------------
(* Instances of Session for TLC. *)
EXTENDS Session

CONSTANTS here, h1, root, cimv2, none, proc

MCHosts == {here, h1}
MCNamespaces == {root, cimv2}
MCClasses == {proc}

(* Two hosts, one of them opened at a namespace other than the default.    *)
MCConnects == {[host |-> here, ns |-> cimv2], [host |-> h1, ns |-> root]}
=============================================================================
