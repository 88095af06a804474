------------------------------ MODULE AdminPages ------------------------------
(***************************************************************************)
(* The back office over Administration: the pages of the staff, of the     *)
(* catalogue and its bouquets, of suppliers, customers and payment         *)
(* methods, and the queue of deletion requests.                            *)
(*                                                                         *)
(* A page that has just been loaded shows the rows as they are.  What it   *)
(* offers is decided by its own conditions, which repeat some of the       *)
(* server's and leave others out; the server decides again.  An offer here *)
(* is a control with what it sends.  Texts and filters are left out.       *)
(***************************************************************************)
EXTENDS Administration

CONSTANT DefaultUnit   \* the unit with the symbol that items get by default

ASSUME AdminPagesAssumption == DefaultUnit \in Unit

-----------------------------------------------------------------------------
(***************************************************************************)
(* The page of the staff: a card for each member, with one role at most.   *)
(***************************************************************************)
SystemRoles == <<"DIRECTOR", "DEVELOPER", "FLORIST", "COURIER">>

\* The choices of the card: no role, or one.
RoleChoices == {{}} \cup {{SystemRoles[n]} : n \in 1..4}

\* primaryRole: of a member's roles the card shows the first of that order.
PrimaryRole(u) ==
    IF roles[u] = {} THEN None
    ELSE SystemRoles[CHOOSE n \in 1..4 :
            SystemRoles[n] \in roles[u] /\ \A m \in 1..(n - 1) : SystemRoles[m] \notin roles[u]]

IsFlorist(u) == PrimaryRole(u) = "FLORIST"
IsDirector(u) == PrimaryRole(u) = "DIRECTOR"

\* Mutant of HasStores: any mode of access will do for a florist.
HasAnyStores(u) == access[u].mode = "ALL_STORES" \/ access[u].stores # {}

HasStores(u) == access[u].mode = "SELECTED_STORES" /\ access[u].stores # {}

\* changeRole: the role chosen replaces all others; for a florist the page wants
\* to see stores first.
RoleOffers(u) ==
    {R \in RoleChoices : "FLORIST" \in R => HasStores(u)}

\* The mode is shown for directors, the stores to pick for florists and for
\* directors with chosen stores.
ModeOffers(u) ==
    IF IsDirector(u) THEN {AllStores, Selected(access[u].stores)} ELSE {}

PicksStores(u) == IsFlorist(u) \/ (IsDirector(u) /\ access[u].mode = "SELECTED_STORES")

StoreOffers(u) ==
    IF PicksStores(u)
    THEN {Selected(access[u].stores \cup {s}) : s \in Store}
            \cup {Selected(access[u].stores \ {s}) : s \in Store}
    ELSE {}

AccessOffers(u) == ModeOffers(u) \cup StoreOffers(u)

\* The buttons of the card.
CanBlock(u) == account[u] = "ACTIVE"
CanUnblock(u) == account[u] = "BLOCKED"
UserButton(u) == account[u] # "ARCHIVED"

\* UserAdminCard: whatever one may do to a member.
UserCard(u) ==
    [roles |-> RoleOffers(u), access |-> AccessOffers(u),
     block |-> CanBlock(u), unblock |-> CanUnblock(u), delete |-> UserButton(u)]

\* UsersPage: a card for each member, however the account stands.
UsersPage == [u \in {u \in User : Stored(u)} |-> UserCard(u)]

(***************************************************************************)
(* The card offers a role exactly when the server takes it, except that it *)
(* lets one take the role from the only director.  Stores it offers are    *)
(* refused only when somebody who is a florist, perhaps a director beside, *)
(* would be left without.                                                  *)
(***************************************************************************)
StaffPageServes ==
    \A u \in DOMAIN UsersPage :
       LET card == UsersPage[u]
       IN  /\ \A R \in RoleChoices : R \in card.roles <=> RolesFit(u, R)
           /\ \A R \in card.roles : ~KeepsDirector(u, R) => Directors = {u}
           /\ \A a \in card.access :
                 ~AccessFits(u, a) <=> "FLORIST" \in roles[u] /\ a.stores = {}
           /\ ~(card.block /\ card.unblock)

-----------------------------------------------------------------------------
(***************************************************************************)
(* The pages of records: which rows they show and which of these have the  *)
(* button that asks for a deletion.  No page shows the units.              *)
(***************************************************************************)
Rows(shown, deletable) == [shown |-> shown, deletable |-> deletable]

CategoriesPage ==
    LET shown == {c \in Category : Stored(c)}
    IN  Rows(shown, {c \in shown : Available(c)})

PoliciesPage ==
    LET shown == {y \in Policy : Stored(y)}
    IN  Rows(shown, {y \in shown : Available(y)})

\* The page of the items shows no bouquets; its filter may show what is archived.
ItemsShown == {i \in Item \ Bouquet : Stored(i)}
ItemsPage == Rows(ItemsShown, {i \in ItemsShown : Available(i)})

\* The page of one item has a button too; of a bouquet it leads to the bouquets.
ItemDetailButton(i) == i \in Item \ Bouquet /\ Available(i)

\* listBouquetCatalog; each card of the page has a button.
BouquetCards == {b \in Bouquet : Available(b)}
BouquetCatalogPage == Rows(BouquetCards, BouquetCards)

SuppliersPage ==
    LET shown == {e \in Supplier : Stored(e)}
    IN  Rows(shown, {e \in shown : Usable(e)})

SupplierDetailButton(e) == e \in Supplier /\ Usable(e)

CustomersPage ==
    LET shown == {c \in Customer : Stored(c)}
    IN  Rows(shown, {c \in shown : Usable(c)})

\* A name and a number are typed.
CustomerForm == {c \in Customer : record[c] = "UNBORN"} \X Phone

PaymentMethodsPage ==
    LET shown == {e \in PaymentMethod : Stored(e)}
    IN  Rows(shown, {e \in shown : Usable(e)})

PageOf(e) ==
    CASE e \in Category -> CategoriesPage
      [] e \in Policy -> PoliciesPage
      [] e \in Item \ Bouquet -> ItemsPage
      [] e \in Bouquet -> BouquetCatalogPage
      [] e \in Supplier -> SuppliersPage
      [] e \in Customer -> CustomersPage
      [] e \in PaymentMethod -> PaymentMethodsPage
      [] OTHER -> Rows({}, {})

Shown(e) == e \in User \/ e \in PageOf(e).shown

\* Mutant of HasDeleteButton: there is a page of the units, with the button.
HasButtonEverywhere(e) == Stored(e)

HasDeleteButton(e) ==
    /\ Stored(e)
    /\ IF e \in User THEN UserButton(e)
       ELSE e \in PageOf(e).deletable \/ ItemDetailButton(e) \/ SupplierDetailButton(e)

Records == User \cup Part \cup Item \cup Contact

\* The approval, and what may refuse it.
Approvable(e) ==
    CASE e \in User -> MayLeave(e) /\ ~session[e]
      [] e \in Erasable -> Removable(e)
      [] e \in Contact -> Forgettable(e)
      [] OTHER -> FALSE

InUse(e) ==
    CASE e \in User -> session[e] \/ Directors = {e}
      [] e \in Part \cup Item -> e \in used \cup sold \/ ItemsOf(e) # {} \/ ChildrenOf(e) # {}
      [] e \in Contact -> e \in taken

\* The queue shows the pending requests, or all; the pending ones have two buttons.
QueueShows(all) == {k \in Ticket : Filed(k) /\ (all \/ ticket[k].status = "PENDING")}
DeletionRequestsPage(all) == {k \in QueueShows(all) : ticket[k].status = "PENDING"}

(***************************************************************************)
(* Whatever a page lets one ask to delete can be deleted, unless it is in  *)
(* use; the approval refuses it then, and the request stays in the queue,  *)
(* where it can be rejected.  The button does not know that a request is   *)
(* pending.  What is archived has no button, though it could be deleted,   *)
(* and a bouquet that is archived, or a unit, is shown on no page.  A new  *)
(* customer is refused only for the number of one whom the page shows.     *)
(***************************************************************************)
DeletionPagesServe ==
    /\ \A k \in Ticket, all \in BOOLEAN : Reviewable(k) <=> k \in DeletionRequestsPage(all)
    /\ \A e \in Records : Stored(e) =>
          /\ IF HasDeleteButton(e) THEN Approvable(e) \/ InUse(e)
             ELSE \/ ~Approvable(e) \/ e \in archived \cup retired
                  \/ e \in User /\ account[e] = "ARCHIVED"
          /\ ~Shown(e) <=> e \in Unit \cup (archived \cap Bouquet)
    /\ \A form \in CustomerForm :
          ~Free(form[2]) => \E c \in CustomersPage.shown : phone[c] = form[2]

-----------------------------------------------------------------------------
(***************************************************************************)
(* The forms of the catalogue.  Those for items and bouquets send no       *)
(* parts: createItem finds an available category, or stores one, and an    *)
(* available policy (of the item's type, left out here), and takes the     *)
(* default unit.                                                           *)
(***************************************************************************)
DefaultCategories ==
    IF \E c \in Category : Available(c) THEN {c \in Category : Available(c)}
    ELSE {c \in Category : Wanting(c)}

DefaultPolicies == {y \in Policy : Available(y)}

DefaultUnits == {DefaultUnit} \cap {m \in Unit : Available(m)}

DefaultParts == {{c, m, y} : c \in DefaultCategories, m \in DefaultUnits, y \in DefaultPolicies}

\* onCreate of the two pages: a flower or material, a bouquet.
ItemForm == {<<i, parts>> : i \in Item \ Bouquet, parts \in DefaultParts}
BouquetForm == {<<b, parts>> : b \in Bouquet, parts \in DefaultParts}

\* Parents to choose from for a new category.
CategoryForm == {None} \cup {c \in CategoriesPage.shown : Available(c)}

\* Mutant of ComponentOptions: the list is not limited to active items.
AllComponents == {i \in Item \ Bouquet : Stored(i)}

\* filterRecipeIngredients over the active items that are no bouquets.
ComponentOptions == {i \in Item \ Bouquet : Available(i)}

\* The recipe editor starts from the stored lines; each may be kept, dropped or
\* changed to an option, and new ones added.
EditorStarts(b) == {r.comp : r \in recipe[b]}
EditorOffers(b) == SUBSET (EditorStarts(b) \cup ComponentOptions)

BouquetCard(b) == [recipes |-> EditorOffers(b), delete |-> b \in BouquetCards]

(***************************************************************************)
(* The form for an item is refused only for want of the default unit or of *)
(* a policy, never of a category.  What the recipe editor sends is refused *)
(* only for a component it did not choose but kept, archived since it came *)
(* into the recipe: the bouquet cannot be saved with it.                   *)
(***************************************************************************)
CatalogPagesServe ==
    /\ \A form \in ItemForm \cup BouquetForm : \A x \in form[2] : Available(x) \/ Wanting(x)
    /\ DefaultParts = {} =>
          \/ DefaultUnit \in archived \/ ~Stored(DefaultUnit)
          \/ \A y \in Policy : ~Available(y)
          \/ \A c \in Category : record[c] # "UNBORN"
    /\ \A c \in CategoryForm \ {None} : Stored(c)
    /\ \A b \in BouquetCards : \A C \in BouquetCard(b).recipes :
          ~RecipeFits(C) <=> C \cap archived \cap EditorStarts(b) # {}

(***************************************************************************)
(* The pages serve: what they offer on fresh rows is what the server       *)
(* takes, with the exceptions named above.                                 *)
(***************************************************************************)
AdminPagesServe == StaffPageServes /\ CatalogPagesServe /\ DeletionPagesServe
=============================================================================
