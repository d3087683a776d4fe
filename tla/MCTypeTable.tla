------------------------------ MODULE MCTypeTable -----------------------------
(***************************************************************************)
(* A small instance of TypeTable.                                          *)
(***************************************************************************)
EXTENDS TypeTable

CONSTANTS Int, String, Array
=============================================================================
