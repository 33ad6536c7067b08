--------------------------- MODULE UnitStructures ---------------------------
(***************************************************************************)
(* What the UDUNITS-1 interface (src/lib/udunits.h) promises about the     *)
(* client's unit-structures: each holds a unit of its own.  A call changes *)
(* the structure it is given for its result and no other, and if it fails  *)
(* it changes none.  Module Udunits1 has the pointers behind this.         *)
(***************************************************************************)
CONSTANTS
  Structures,  \* the client's variables of type utUnit
  Values,      \* units
  Nothing,     \* what an initialised structure holds
  Stale        \* what a structure holds that must be initialised before its use

VARIABLES
  store,   \* what each structure holds
  failed   \* did the last call report a failure?

\* Nothing has been initialised.
Init ==
  /\ store = [ x \in Structures |-> Stale ]
  /\ failed = FALSE

\* utIni() and utFree().
Reset(x) ==
  /\ store' = [store EXCEPT ![x] = Nothing]
  /\ failed' = FALSE

\* Any function with a result.
SetUnit(x, v) ==
  /\ store' = [store EXCEPT ![x] = v]
  /\ failed' = FALSE

\* Queries, and calls that fail.
Leave ==
  /\ UNCHANGED store
  /\ failed' \in BOOLEAN

\* utInit() and utTerm() take the units of the structures away.
Restart ==
  /\ store' = [ x \in Structures |-> IF store[x] = Nothing THEN Nothing ELSE Stale ]
  /\ failed' \in BOOLEAN

Next ==
  \/ \E x \in Structures : Reset(x) \/ \E v \in Values : SetUnit(x, v)
  \/ Leave \/ Restart

Spec == Init /\ [][Next]_<<store, failed>>
=============================================================================
