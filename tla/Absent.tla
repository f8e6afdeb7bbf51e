---------------------------------- MODULE Absent ----------------------------------
(***************************************************************************)
(* What stands where there is no value: null in the browser's code, NULL   *)
(* in a column, a file or a row that is not there.                         *)
(***************************************************************************)
CONSTANT None
=============================================================================
