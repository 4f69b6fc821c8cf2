------------------------------ MODULE Identifiers ------------------------------
(***************************************************************************)
(* The constant that every part of the document checks speaks of.          *)
(***************************************************************************)
CONSTANTS Names  \* what rules can be called
===============================================================================
