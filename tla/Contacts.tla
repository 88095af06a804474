------------------------------- MODULE Contacts -------------------------------
(***************************************************************************)
(* Suppliers, customers and payment methods of one organization: records   *)
(* that documents take (a supply its supplier, an order its customer, a    *)
(* payment its method) and that may be archived or deleted meanwhile.      *)
(***************************************************************************)
EXTENDS Deletions

CONSTANTS
    Supplier, Customer, PaymentMethod,
    Phone    \* telephone numbers of customers

Contact == Supplier \cup Customer \cup PaymentMethod

ASSUME ContactsAssumption == Contact \subseteq Entity /\ None \notin Phone

VARIABLES
    retired,  \* contacts with status ARCHIVED, methods that are not active
    taken,    \* contacts that a document refers to
    phone     \* phone[c]: the number of customer c

contactVars == <<retired, taken, phone>>

ContactsInit ==
    /\ \A e \in Contact : record[e] = "UNBORN"
    /\ retired = {}
    /\ taken = {}
    /\ phone = [c \in Customer |-> None]

Usable(e) == Stored(e) /\ e \notin retired

\* The unique key of customers; archived ones count.
Free(n) == ~\E c \in Customer : Stored(c) /\ phone[c] = n

-----------------------------------------------------------------------------
CreateContact(p, e) ==
    /\ record[e] = "UNBORN" /\ AtOnce(p)
    /\ record' = [record EXCEPT ![e] = "STORED"]
    /\ UNCHANGED <<ticket, removedBy, muddled, retired, taken>>

CreateSupplier(p, e) == e \in Supplier /\ CreateContact(p, e) /\ UNCHANGED phone

\* createPaymentMethod, and ensureDefaultPaymentMethods for a missing one.
CreatePaymentMethod(p, e) == e \in PaymentMethod /\ CreateContact(p, e) /\ UNCHANGED phone

CreateCustomer(p, c, n) ==
    /\ CreateContact(p, c)
    /\ Free(n)
    /\ phone' = [phone EXCEPT ![c] = n]

UpdateCustomer(p, c, n) ==
    /\ Stored(c) /\ AtOnce(p)
    /\ n = phone[c] \/ Free(n)
    /\ phone' = [phone EXCEPT ![c] = n]
    /\ UNCHANGED <<rows, retired, taken>>

Retire(p, e) ==
    /\ AtOnce(p)
    /\ retired' = retired \cup {e}
    /\ UNCHANGED <<rows, taken, phone>>

ArchiveSupplier(p, e) == e \in Supplier /\ Usable(e) /\ Retire(p, e)
ArchiveCustomer(p, c) == c \in Customer /\ Usable(c) /\ Retire(p, c)
ArchivePaymentMethod(p, e) == e \in PaymentMethod /\ Stored(e) /\ Retire(p, e)

\* createSupply, createOrder and createPayment: the record has to be usable ...
AskTake(p, e) ==
    /\ Usable(e)
    /\ Starts(p, "take", e, None, None)
    /\ UNCHANGED <<rows, contactVars>>

\* ... and is referred to by the document; the foreign key wants it stored.
Take(p) ==
    /\ job[p].op = "take"
    /\ taken' = IF Stored(job[p].entity) THEN taken \cup {job[p].entity} ELSE taken
    /\ Ends(p)
    /\ UNCHANGED <<rows, retired, phone>>

-----------------------------------------------------------------------------
\* deleteSupplier, deleteCustomer, deletePaymentMethod: the documents are counted ...
Forgettable(e) == e \notin taken

CheckContact(p) ==
    LET e == job[p].entity
    IN  /\ job[p].op = "check" /\ e \in Contact
        /\ IF Stored(e) /\ Forgettable(e) THEN GoesOn(p, "forget") ELSE Ends(p)
        /\ UNCHANGED <<rows, contactVars>>

\* ... and the record deleted, unless a document has come to refer to it.
DeleteContact(p) ==
    LET e == job[p].entity
    IN  /\ job[p].op = "forget"
        /\ IF Stored(e) /\ Forgettable(e) THEN RecordDeleted(p)
                                          ELSE Ends(p) /\ UNCHANGED <<record, removedBy>>
        /\ UNCHANGED <<ticket, muddled, contactVars>>

ContactStatements == {"take", "forget"}

ContactsCutOff(p) == CutOff(p, ContactStatements) /\ UNCHANGED contactVars

ContactsNext ==
    \E p \in Request :
       \/ \E e \in Contact :
             \/ CreateSupplier(p, e) \/ CreatePaymentMethod(p, e)
             \/ ArchiveSupplier(p, e) \/ ArchiveCustomer(p, e) \/ ArchivePaymentMethod(p, e)
             \/ AskTake(p, e)
       \/ \E c \in Customer, n \in Phone : CreateCustomer(p, c, n) \/ UpdateCustomer(p, c, n)
       \/ Take(p) \/ CheckContact(p) \/ DeleteContact(p)
       \/ ContactsCutOff(p)
       \/ DeletionStep(p, Contact) /\ UNCHANGED contactVars

-----------------------------------------------------------------------------
(***************************************************************************)
(* What a document refers to stays stored, though the deletion counted the *)
(* documents before it deleted, and two customers never have one number.   *)
(***************************************************************************)
ContactReferencesHold ==
    /\ \A e \in taken : Stored(e)
    /\ \A c, d \in Customer : Stored(c) /\ Stored(d) /\ phone[c] = phone[d] => c = d
=============================================================================
