------------------------------ MODULE MCSchema ------------------------------
(* The two halves of the orm's command line, over instances of their own:   *)
(* in a behaviour that starts with a source the two readers read it; in the *)
(* others a project moves between the schemas of one family.                *)
EXTENDS MCMigrate, MCSchemaReaders

HalfInit ==
    \/ Init /\ source = None /\ cli = Unread /\ compiled = Unread
    \/ ReadersInit /\ Init /\ family = "columns"
HalfNext ==
    \/ source = None /\ Next /\ UNCHANGED readers
    \/ source # None /\ ReadersNext /\ UNCHANGED vars
HalfSpec == HalfInit /\ [][HalfNext]_<<vars, readers>>
=============================================================================
