------------------------------ MODULE NullUnit ------------------------------
(* The NULL pointer that the functions of src/lib/unitcore.c return for a  *)
(* unit and are given for one.                                             *)
CONSTANT NoUnit
=============================================================================
