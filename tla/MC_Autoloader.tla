--------------------------- MODULE MC_Autoloader ---------------------------
(* The autoloader with two files and up to three chunks a file: enough   *)
(* for a click to land before, between and after the worker's test of    *)
(* the pointer and its call through it, in the first and in a later file. *)
EXTENDS Autoloader
=============================================================================
