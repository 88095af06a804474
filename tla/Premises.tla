------------------------------- MODULE Premises -------------------------------
(***************************************************************************)
(* One organization, its stores with a warehouse each, and the settings of *)
(* its map service, which hold a secret key.                               *)
(*                                                                         *)
(* The settings form does not show the key: it is sent without one unless  *)
(* a new one was typed, and the use case fills in the key it has read just *)
(* before it writes.                                                       *)
(***************************************************************************)
EXTENDS Deletions

CONSTANTS
    Shop,   \* stores that are or may be opened
    Key     \* keys somebody may type

ASSUME PremisesAssumption == None \notin Key

VARIABLES
    organization,  \* its status
    shop,          \* shop[s]: NONE, ACTIVE or ARCHIVED
    warehouses,    \* the warehouses, as <<store, code>>
    key,           \* yandexMapsApiKey, or None
    typed,         \* history: the last key typed and saved
    refilled       \* history: two saves of the settings overlapped since

premisesVars == <<organization, shop, warehouses, key, typed, refilled>>

\* createOrganization; bootstrapOwner may open the first store with it.
PremisesInit ==
    /\ organization = "ACTIVE"
    /\ shop = [s \in Shop |-> "NONE"]
    /\ warehouses = {}
    /\ key = None
    /\ typed = None
    /\ refilled = FALSE

Saving(p) == job[p].op = "settings"

-----------------------------------------------------------------------------
\* createStoreWithDefaultWarehouse: the organization's status is read ...
AskStore(p, s) ==
    /\ organization = "ACTIVE"
    /\ shop[s] = "NONE" /\ ~\E q \in Request : job[q].op = "open" /\ job[q].wish = s
    /\ Starts(p, "open", None, None, s)
    /\ UNCHANGED <<rows, premisesVars>>

\* Mutant of FirstWarehouses: the store comes first, its warehouse later.
NoWarehouses(s) == {}

\* The default warehouse a new store comes with.
FirstWarehouses(s) == {<<s, "MAIN">>}

\* ... and the store created with its warehouse.
OpenStore(p) ==
    LET s == job[p].wish
    IN  /\ job[p].op = "open"
        /\ shop' = [shop EXCEPT ![s] = "ACTIVE"]
        /\ warehouses' = warehouses \cup FirstWarehouses(s)
        /\ Ends(p)
        /\ UNCHANGED <<rows, organization, key, typed, refilled>>

ArchiveStore(p, s) ==
    /\ shop[s] = "ACTIVE" /\ AtOnce(p)
    /\ shop' = [shop EXCEPT ![s] = "ARCHIVED"]
    /\ UNCHANGED <<rows, organization, warehouses, key, typed, refilled>>

\* archiveOrganization: its stores are left as they are.
ArchiveOrganization(p) ==
    /\ organization = "ACTIVE" /\ AtOnce(p)
    /\ organization' = "ARCHIVED"
    /\ UNCHANGED <<rows, shop, warehouses, key, typed, refilled>>

-----------------------------------------------------------------------------
\* Mutant of NextKey: what was not sent is cleared.
SentKey(sent) == IF sent = "same" THEN None ELSE sent

\* "same" stands for a request without a key.
NextKey(sent) == IF sent = "same" THEN key ELSE sent

\* updateIntegrationSettings: the stored settings are read ...
AskSettings(p, sent) ==
    /\ organization = "ACTIVE"
    /\ Starts(p, "settings", None, None, [sent |-> sent, next |-> NextKey(sent)])
    /\ refilled' = (refilled \/ \E q \in Request : Saving(q))
    /\ UNCHANGED <<rows, organization, shop, warehouses, key, typed>>

\* ... and written.
SaveSettings(p) ==
    LET wish == job[p].wish
    IN  /\ Saving(p)
        /\ key' = wish.next
        /\ typed' = IF wish.sent = "same" THEN typed ELSE wish.sent
        /\ refilled' = (refilled /\ (wish.sent = "same" \/ \E q \in Request \ {p} : Saving(q)))
        /\ Ends(p)
        /\ UNCHANGED <<rows, organization, shop, warehouses>>

PremisesStatements == {"open", "settings"}

PremisesCutOff(p) == CutOff(p, PremisesStatements) /\ UNCHANGED premisesVars

PremisesNext ==
    \E p \in Request :
       \/ ArchiveOrganization(p)
       \/ \E s \in Shop : AskStore(p, s) \/ ArchiveStore(p, s)
       \/ OpenStore(p)
       \/ \E sent \in Key \cup {None, "same"} : AskSettings(p, sent)
       \/ SaveSettings(p)
       \/ PremisesCutOff(p)

-----------------------------------------------------------------------------
(***************************************************************************)
(* The stored key is the one last typed: saving the form without a key     *)
(* leaves it alone.  Two saves at once do not keep that: the one without   *)
(* writes back the key it has read.                                        *)
(***************************************************************************)
KeyIsTheOneTyped == ~refilled => key = typed
=============================================================================
