---------------------------- MODULE Administration ----------------------------
(***************************************************************************)
(* The back office of one organization: staff, catalogue, contacts and     *)
(* premises, with the deletion requests for records of the first three.    *)
(*                                                                         *)
(* A request touches the rows of one part only, and no row belongs to two. *)
(***************************************************************************)
EXTENDS Staff, Catalog, Contacts, Premises

\* Rows of different tables.
ASSUME TablesAssumption ==
    /\ User \cap (Part \cup Item \cup Contact) = {}
    /\ (Part \cup Item) \cap Contact = {}
    /\ Category \cap (Unit \cup Policy) = {} /\ Unit \cap Policy = {}
    /\ Customer \cap (Supplier \cup PaymentMethod) = {} /\ Supplier \cap PaymentMethod = {}

adminVars == <<deletionVars, staffVars, catalogVars, contactVars, premisesVars>>

AdminInit ==
    /\ record \in [Entity -> {"UNBORN", "STORED"}]
    /\ DeletionsInit
    /\ StaffInit
    /\ CatalogInit
    /\ ContactsInit
    /\ PremisesInit

AdminNext ==
    \/ StaffNext /\ UNCHANGED <<catalogVars, contactVars, premisesVars>>
    \/ CatalogNext /\ UNCHANGED <<staffVars, contactVars, premisesVars>>
    \/ ContactsNext /\ UNCHANGED <<staffVars, catalogVars, premisesVars>>
    \/ PremisesNext /\ UNCHANGED <<staffVars, catalogVars, contactVars>>

AdminSpec == AdminInit /\ [][AdminNext]_adminVars

(***************************************************************************)
(* Type correctness, with what ties the rows of a table to each other: a   *)
(* ticket that was filed names a record that was stored, a running request *)
(* has what its statements need, and a store has its warehouse.            *)
(***************************************************************************)
AdminTypeOK ==
    /\ record \in [Entity -> {"UNBORN", "STORED", "DELETED"}]
    /\ \A k \in Ticket : \/ ticket[k] = Blank
                         \/ /\ ticket[k].status \in {"PENDING", "APPROVED", "REJECTED"}
                            /\ record[ticket[k].entity] # "UNBORN"
    /\ \A e \in Entity : record[e] = "DELETED" <=> removedBy[e] \in Ticket
    /\ Cardinality(UnderWay) <= Busy
    /\ StaffTypeOK
    /\ \A e \in archived : record[e] # "UNBORN"
    /\ \A i \in Item : record[i] # "UNBORN" <=> madeOf[i] \in ItemParts
    /\ warehouses = {<<s, "MAIN">> : s \in {t \in Shop : shop[t] # "NONE"}}

\* The staff: a director, stores for the florists, profiles for the couriers.
StaffIsInOrder == DirectorRemains /\ FloristsHaveStores /\ CouriersFollowRoles

(***************************************************************************)
(* The records: no reference dangles, in the catalogue and between         *)
(* documents and contacts, whatever is deleted while it is being referred  *)
(* to, but for a sale that is made just then; items in use are made of     *)
(* parts in use, and recipes are whole.                                    *)
(***************************************************************************)
RecordsAreSound ==
    /\ CatalogReferencesHold /\ SoldItemsRemain /\ ContactReferencesHold
    /\ ActiveItemsHaveActiveParts /\ RecipesAreWhole
=============================================================================
