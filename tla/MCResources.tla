---------------------------- MODULE MCResources ----------------------------
(***************************************************************************)
(* The inventory, the catalog and the projects share no row and no caller. *)
(* They are checked in one run that lets one of them move, the others      *)
(* staying where they start.                                               *)
(***************************************************************************)
EXTENDS Inventory, Catalog, Projects

MCOrder == <<"x", "y">>
MCShipped == [b \in {1, 2, 3} |-> [p \in {"x", "y"} |-> IF p = "x" THEN b ELSE (b + 1) \div 2]]
MCBuiltins == [b \in {1, 2, 3} |-> IF b = 1 THEN {} ELSE {"b"}]

InventoryRests == count = 0 /\ kek = "k1"
CatalogRests   == starts = 0
ProjectsRest   == (\A p \in Ids : row[p] = "none") /\ env = [dev |-> FALSE, url |-> FALSE, token |-> FALSE]

MCInit == InventoryInit /\ CatalogInit /\ Init
MCNext ==
    \/ CatalogRests /\ ProjectsRest /\ InventoryNext /\ UNCHANGED <<catalogVars, vars>>
    \/ InventoryRests /\ ProjectsRest /\ CatalogNext /\ UNCHANGED <<inventoryVars, vars>>
    \/ InventoryRests /\ CatalogRests /\ Next /\ UNCHANGED <<inventoryVars, catalogVars>>
MCSpec ==
    /\ MCInit /\ [][MCNext]_<<inventoryVars, catalogVars, vars>>
    /\ \A p \in Ids : WF_vars(Worker(p))
=============================================================================
