------------------------------- MODULE Catalog -------------------------------
(***************************************************************************)
(* The catalogue of one organization: categories, units of measure and     *)
(* inventory policies, the items made of one of each, and the recipes of   *)
(* ready bouquets.                                                         *)
(*                                                                         *)
(* A use case reads what it depends on and writes in one READ COMMITTED    *)
(* transaction, without locks: two actions here, the read and the commit,  *)
(* with other requests in between.  What the foreign keys (Restrict) and   *)
(* the unique key of the recipe lines refuse at the commit is part of the  *)
(* second action.  The lines of sales name their items without one.        *)
(***************************************************************************)
EXTENDS Deletions

CONSTANTS
    Category, Unit, Policy,  \* what items are made of
    Item,
    Bouquet,                 \* items created with isSellable; it never changes
    Seeded                   \* bound: what is stored when the behaviours start

Part == Category \cup Unit \cup Policy

ASSUME CatalogAssumption ==
    /\ Part \cup Item \subseteq Entity
    /\ Part \cap Item = {} /\ Bouquet \subseteq Item
    /\ Seeded \subseteq Part \cup Item

VARIABLES
    archived,   \* records with status ARCHIVED
    madeOf,     \* madeOf[i]: category, unit and policy of item i
    under,      \* under[c]: the parent of category c, or None
    used,       \* items that a document (order, supply, batch, write-off) refers to
    sold,       \* items that the lines of sales name
    recipe,     \* recipe[b]: the recipe lines of b, each with the request that wrote it
    asked,      \* history: the components in the last recipe stored for b
    crossed,    \* history: items created while one of their parts was archived
    overlapped, \* history: bouquets whose recipes were replaced by two at once
    loose       \* history: items sold and deleted at once

saleVars == <<sold, loose>>
catalogVars == <<archived, madeOf, under, used, recipe, asked, crossed, overlapped, saleVars>>

\* assertAvailableForNewDocuments.
Available(e) == Stored(e) /\ e \notin archived

\* The parts createItem may be asked for, or finds by default.
ItemParts == {{c, m, y} : c \in Category, m \in Unit, y \in Policy}

\* seedDefaults stores units and policies; earlier requests may have stored more.
CatalogInit ==
    /\ \A e \in Part \cup Item :
          record[e] = IF e \in Seeded THEN "STORED" ELSE "UNBORN"
    /\ archived = {}
    /\ madeOf \in [Item -> SUBSET Part]
    /\ \A i \in Item : IF i \in Seeded THEN madeOf[i] \in ItemParts ELSE madeOf[i] = {}
    /\ \A i \in Item : madeOf[i] \subseteq Seeded
    /\ under = [c \in Category |-> None]
    /\ used = {}
    /\ recipe = [b \in Bouquet |-> {}]
    /\ asked = [b \in Bouquet |-> {}]
    /\ crossed = {}
    /\ overlapped = {}
    /\ sold = {}
    /\ loose = {}

-----------------------------------------------------------------------------
ItemsOf(x) == {i \in Item : Stored(i) /\ x \in madeOf[i]}
ChildrenOf(x) == {c \in Category : Stored(c) /\ under[c] = x}

\* Mutant of LiveItems: the count looks at bouquets only.
LiveBouquets(x) == (ItemsOf(x) \cap Bouquet) \ archived

\* countItems and countChildren count what is not archived.
LiveItems(x) == ItemsOf(x) \ archived
LiveChildren(x) == ChildrenOf(x) \ archived

\* Mutant of Referenced: items do not hold their parts.
ByDocuments(e) == e \in used \/ ChildrenOf(e) # {}

\* What the foreign keys restrict.  deleteItem deletes the recipe lines first, and
\* to the lines of sales there is no key.
Referenced(e) == e \in used \/ ItemsOf(e) # {} \/ ChildrenOf(e) # {}

\* Mutant of Counted: the lines of sales are not counted.
CountedButSales(e) == Referenced(e)

\* What the use cases count before they delete: the lines of sales too.
Counted(e) == Referenced(e) \/ e \in sold

Creating(q, i) == job[q].op = "insert" /\ job[q].entity = i
Archiving(q, x) == job[q].op = "archive" /\ job[q].entity = x
Replacing(q, b) == job[q].op = "fill" /\ job[q].entity = b
Selling(q, i) == job[q].op = "sell" /\ job[q].entity = i
Removing(q, i) == job[q].op = "remove" /\ job[q].entity = i

\* A category that createItem stores itself, for want of an available one.
Wanting(c) ==
    /\ c \in Category /\ record[c] = "UNBORN"
    /\ \A d \in Category : ~Available(d)

\* A category whose insertion is under way is no longer anybody else's.
Bespoken(c) == \E q \in Request : job[q].op = "insert" /\ c \in job[q].wish

-----------------------------------------------------------------------------
\* createCategory: the parent only has to exist.
CreateCategory(p, c, parent) ==
    /\ record[c] = "UNBORN" /\ ~Bespoken(c) /\ AtOnce(p)
    /\ parent # None => Stored(parent)
    /\ record' = [record EXCEPT ![c] = "STORED"]
    /\ under' = [under EXCEPT ![c] = parent]
    /\ UNCHANGED <<ticket, removedBy, muddled, archived, madeOf, used, recipe, asked,
                   crossed, overlapped, saleVars>>

CreatePart(p, x) ==
    /\ record[x] = "UNBORN" /\ AtOnce(p)
    /\ record' = [record EXCEPT ![x] = "STORED"]
    /\ UNCHANGED <<ticket, removedBy, muddled, catalogVars>>

CreateUnit(p, m) == m \in Unit /\ CreatePart(p, m)
CreateInventoryPolicy(p, y) == y \in Policy /\ CreatePart(p, y)

\* createItem: the parts are read, all of them have to be available ...
AskItem(p, i, parts) ==
    /\ record[i] = "UNBORN" /\ ~\E q \in Request : Creating(q, i)
    /\ \A x \in parts : Available(x) \/ (Wanting(x) /\ ~Bespoken(x))
    /\ Starts(p, "insert", i, None, parts)
    /\ crossed' = IF \E q \in Request, x \in parts : Archiving(q, x)
                   THEN crossed \cup {i} ELSE crossed
    /\ UNCHANGED <<rows, archived, madeOf, under, used, recipe, asked, overlapped, saleVars>>

\* ... and the item is inserted, after the category it came for.
InsertItem(p) ==
    LET i == job[p].entity
    IN  /\ job[p].op = "insert"
        /\ IF \A x \in job[p].wish : record[x] # "DELETED"
           THEN /\ record' = [e \in Entity |-> IF e \in job[p].wish \cup {i} THEN "STORED"
                                              ELSE record[e]]
                /\ madeOf' = [madeOf EXCEPT ![i] = job[p].wish]
           ELSE UNCHANGED <<record, madeOf>>
        /\ Ends(p)
        /\ UNCHANGED <<ticket, removedBy, muddled, archived, under, used, recipe, asked,
                       crossed, overlapped, saleVars>>

\* archiveCategory, archiveUnit and archiveInventoryPolicy: the items, and for a
\* category its children, are counted ...
AskArchive(p, x) ==
    /\ Available(x) /\ LiveItems(x) = {}
    /\ Starts(p, "archive", x, None, None)
    /\ crossed' = crossed \cup
          {i \in Item : \E q \in Request : Creating(q, i) /\ x \in job[q].wish}
    /\ UNCHANGED <<rows, archived, madeOf, under, used, recipe, asked, overlapped, saleVars>>

ArchiveCategory(p, c) == c \in Category /\ LiveChildren(c) = {} /\ AskArchive(p, c)
ArchiveUnit(p, m) == m \in Unit /\ AskArchive(p, m)
ArchiveInventoryPolicy(p, y) == y \in Policy /\ AskArchive(p, y)

\* ... and the status is written.
WriteArchive(p) ==
    /\ job[p].op = "archive"
    /\ archived' = IF Stored(job[p].entity) THEN archived \cup {job[p].entity} ELSE archived
    /\ Ends(p)
    /\ UNCHANGED <<rows, madeOf, under, used, recipe, asked, crossed, overlapped, saleVars>>

\* archiveItem: nothing else is looked at.
ArchiveItem(p, i) ==
    /\ Available(i) /\ AtOnce(p)
    /\ archived' = archived \cup {i}
    /\ UNCHANGED <<rows, madeOf, under, used, recipe, asked, crossed, overlapped, saleVars>>

\* A document takes an available item.
UseItem(p, i) ==
    /\ Available(i) /\ AtOnce(p)
    /\ used' = used \cup {i}
    /\ UNCHANGED <<rows, archived, madeOf, under, recipe, asked, crossed, overlapped, saleVars>>

SaleLeavesAlone ==
    UNCHANGED <<rows, archived, madeOf, under, used, recipe, asked, crossed, overlapped>>

\* createDirectSale: the item is read and has to be available ...
AskSale(p, i) ==
    /\ Available(i)
    /\ Starts(p, "sell", i, None, None)
    /\ SaleLeavesAlone /\ UNCHANGED saleVars

\* ... and the draft is stored with a line that names it, deleted or not.
InsertSale(p) ==
    LET i == job[p].entity
    IN  /\ job[p].op = "sell"
        /\ sold' = sold \cup {i}
        /\ loose' = IF \E q \in Request : Removing(q, i) THEN loose \cup {i} ELSE loose
        /\ Ends(p)
        /\ SaleLeavesAlone

-----------------------------------------------------------------------------
\* A recipe is of available flowers and materials, no bouquets.
RecipeFits(components) == \A c \in components : Available(c) /\ c \notin Bouquet

\* setItemRecipe: bouquet and components are read and validated ...
AskRecipe(p, b, components) ==
    /\ Available(b)
    /\ RecipeFits(components)
    /\ Starts(p, "clear", b, None, components)
    /\ UNCHANGED <<rows, catalogVars>>

\* Mutant of Visible: the old lines are not looked for.
Unseen(b) == {}

\* The lines that replaceAll's deleteMany sees and deletes when it runs.
Visible(b) == recipe[b]

\* ... the lines of the bouquet that others have committed are deleted ...
ClearRecipe(p) ==
    LET b == job[p].entity
    IN  /\ job[p].op = "clear"
        /\ job' = [job EXCEPT ![p].op = "fill",
                              ![p].wish = [lines |-> @, seen |-> Visible(b)]]
        /\ overlapped' = IF \E q \in Request : Replacing(q, b)
                          THEN overlapped \cup {b} ELSE overlapped
        /\ UNCHANGED <<rows, archived, madeOf, under, used, recipe, asked, crossed, saleVars>>

\* ... and the new ones inserted, if no line with the same component is left.
FillRecipe(p) ==
    LET b == job[p].entity
        wish == job[p].wish
        rest == recipe[b] \ wish.seen
    IN  /\ job[p].op = "fill"
        /\ IF /\ Stored(b)
              /\ \A c \in wish.lines : Stored(c) /\ ~\E r \in rest : r.comp = c
           THEN /\ recipe' = [recipe EXCEPT
                                 ![b] = rest \cup {[comp |-> c, by |-> p] : c \in wish.lines}]
                /\ asked' = [asked EXCEPT ![b] = wish.lines]
           ELSE UNCHANGED <<recipe, asked>>
        /\ Ends(p)
        /\ UNCHANGED <<rows, archived, madeOf, under, used, crossed, overlapped, saleVars>>

-----------------------------------------------------------------------------
\* What a request may name: there is none for a unit.
Erasable == Category \cup Policy \cup Item

Removable(e) == ~Counted(e)

\* deleteItem, deleteCategory and deletePolicy count the references ...
CheckRecord(p) ==
    LET e == job[p].entity
    IN  /\ job[p].op = "check" /\ e \in Erasable
        /\ IF Stored(e) /\ Removable(e) THEN GoesOn(p, "remove") ELSE Ends(p)
        /\ UNCHANGED <<rows, catalogVars>>

\* ... and the record is deleted, an item with the recipe lines it is in, its
\* own and those of other bouquets; a reference made meanwhile refuses it, but
\* not the line of a sale.
RemoveRecord(p) ==
    LET e == job[p].entity
    IN  /\ job[p].op = "remove"
        /\ IF Stored(e) /\ ~Referenced(e)
           THEN /\ RecordDeleted(p)
                /\ recipe' = [b \in Bouquet |-> IF b = e THEN {}
                                                ELSE {r \in recipe[b] : r.comp # e}]
                /\ loose' = IF \E q \in Request : Selling(q, e) THEN loose \cup {e} ELSE loose
           ELSE Ends(p) /\ UNCHANGED <<record, removedBy, recipe, loose>>
        /\ UNCHANGED <<ticket, muddled, archived, madeOf, under, used, sold, asked, crossed,
                       overlapped>>

CatalogStatements == {"insert", "archive", "sell", "clear", "fill", "remove"}

CatalogCutOff(p) == CutOff(p, CatalogStatements) /\ UNCHANGED catalogVars

CatalogNext ==
    \E p \in Request :
       \/ /\ Arrives(p)
          /\ \/ \E c \in Category, d \in Category \cup {None} : CreateCategory(p, c, d)
             \/ \E x \in Part :
                   \/ CreateUnit(p, x) \/ CreateInventoryPolicy(p, x)
                   \/ ArchiveCategory(p, x) \/ ArchiveUnit(p, x)
                   \/ ArchiveInventoryPolicy(p, x)
             \/ \E i \in Item :
                   \/ ArchiveItem(p, i) \/ UseItem(p, i) \/ AskSale(p, i)
                   \/ \E parts \in ItemParts : AskItem(p, i, parts)
             \/ \E b \in Bouquet, C \in SUBSET (Item \ Bouquet) : AskRecipe(p, b, C)
       \/ InsertItem(p) \/ WriteArchive(p) \/ InsertSale(p) \/ ClearRecipe(p) \/ FillRecipe(p)
       \/ CheckRecord(p) \/ RemoveRecord(p)
       \/ CatalogCutOff(p)
       \/ DeletionStep(p, Erasable) /\ UNCHANGED catalogVars

-----------------------------------------------------------------------------
(***************************************************************************)
(* No reference dangles: an item that a document refers to, what a stored  *)
(* item is made of and what a recipe line names is stored.  The deletions  *)
(* count the references, commit that read, and delete later.               *)
(***************************************************************************)
CatalogReferencesHold ==
    /\ \A i \in used : Stored(i)
    /\ \A i \in Item : Stored(i) => \A x \in madeOf[i] : Stored(x)
    /\ \A c \in Category : Stored(c) /\ under[c] # None => Stored(under[c])
    /\ \A b \in Bouquet : \A r \in recipe[b] : Stored(b) /\ Stored(r.comp)

(***************************************************************************)
(* An item that was sold cannot be deleted, though only the count of       *)
(* deleteItem keeps it: an item taken into a sale after the count, or      *)
(* deleted after the sale has read it, is lost to its line.                *)
(***************************************************************************)
SoldItemsRemain == \A i \in sold \ loose : Stored(i)

(***************************************************************************)
(* An item in use has a category, a unit and a policy in use ("Cannot      *)
(* archive category that is still used by items"), except one that was     *)
(* created while its part was being archived: neither sees the other.      *)
(***************************************************************************)
ActiveItemsHaveActiveParts ==
    \A i \in Item \ crossed : Available(i) => \A x \in madeOf[i] : Available(x)

(***************************************************************************)
(* The recipe of a bouquet is the one last stored, whole, less the items   *)
(* that were deleted since, with nothing of earlier recipes left, unless   *)
(* two requests replaced it at once.                                       *)
(***************************************************************************)
RecipesAreWhole ==
    \A b \in Bouquet \ overlapped :
        Stored(b) => {r.comp : r \in recipe[b]} = {c \in asked[b] : Stored(c)}
=============================================================================
