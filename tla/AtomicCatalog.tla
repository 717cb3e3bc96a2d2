--------------------------- MODULE AtomicCatalog ---------------------------
(***************************************************************************)
(* What the catalog persistence layer promises its callers, with the       *)
(* storage left out: the durable catalog is one value, a save asks for one  *)
(* new value, and the durable value changes only by becoming, in one step,  *)
(* exactly the value asked for.  A save that failed or was interrupted may  *)
(* still be applied by a later recovery, or be abandoned; nothing else is   *)
(* possible.                                                                *)
(***************************************************************************)
CONSTANTS
    Catalog,    \* the set of catalog values
    Empty,      \* the catalog of a vault that was never saved
    None        \* "no save is undecided"

VARIABLES
    durable,    \* the catalog the next unlock will load
    pending     \* the catalog of the save whose outcome is undecided, or None

vars == <<durable, pending>>

TypeOK == /\ durable \in Catalog
          /\ pending \in Catalog \cup {None}

Init == durable = Empty /\ pending = None

\* A save starts with the catalog it wants to persist.
Request == /\ pending = None
           /\ pending' \in Catalog
           /\ UNCHANGED durable

\* The save takes effect, all of it at once.
Commit == /\ pending # None
          /\ durable' = pending
          /\ pending' = None

\* The save is given up and leaves no trace.
Abandon == /\ pending # None
           /\ pending' = None
           /\ UNCHANGED durable

Next == Request \/ Commit \/ Abandon

Spec == Init /\ [][Next]_vars
=============================================================================
