------------------------------ MODULE MCStartup ------------------------------
(* A small instance of Startup: two files and one that refers to both.       *)
EXTENDS Startup
MCNeeds == <<{}, {}, {1, 2}>>
=============================================================================
