------------------------------- MODULE Fields ---------------------------------
(***************************************************************************)
(* The one distinction the reads of the worker make among values: what WMI *)
(* left empty, or did not return, is shown as an empty string.             *)
(***************************************************************************)
CONSTANT Absent
=============================================================================
