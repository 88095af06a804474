------------------------ MODULE AdministrationProofs ------------------------
(***************************************************************************)
(* Proofs about BackOffice (the administration for any records, requests   *)
(* and tickets, the pages over it, the page of the retail prices for any   *)
(* goods, weeks and pages, one person's sessions for any browsers, tabs    *)
(* and keys) and about Delivery, for any number of jobs and couriers.      *)
(*                                                                         *)
(* A request that is under way belongs to one part of the administration,  *)
(* and its step writes that part's rows only.  So each part has an         *)
(* invariant of its own, kept by its own steps because of what its         *)
(* requests have read, and by the others' because they touch none of its   *)
(* rows.                                                                   *)
(***************************************************************************)
EXTENDS BackOffice, Delivery, QuantitiesProofs, FiniteSetTheorems, TLAPS

Statements == Reviews \cup StaffStatements \cup CatalogStatements \cup ContactStatements
                 \cup PremisesStatements

\* The statements that run on behalf of the approval of a deletion request.
Approving == {"check", "delete", "remove", "forget", "settle"}

\* What a request carries, by the statement it has to run next.
Fits(j) ==
    /\ j.op = "idle" => j = Idle
    /\ j.op = "over" => j = Over
    /\ j.op = "file" => j.entity \in Entity
    /\ j.op \in Approving \cup {"reject"} => j.entity \in Entity
    /\ j.ticket \in IF j.op \in Approving \cup {"reject"} THEN Ticket ELSE {None}
    /\ j.op \in {"directors", "roles", "sync"} => j.entity \in User /\ j.wish \in RoleSets
    /\ j.op = "access" => j.entity \in User /\ j.wish \in Access
    /\ j.op = "delete" => j.entity \in User
    /\ j.op = "insert" => j.entity \in Item /\ j.wish \in ItemParts
    /\ j.op = "archive" => j.entity \in Part
    /\ j.op = "sell" => j.entity \in Item
    /\ j.op = "clear" => j.entity \in Bouquet /\ j.wish \in SUBSET (Item \ Bouquet)
    /\ j.op = "fill" => /\ j.entity \in Bouquet
                        /\ DOMAIN j.wish = {"lines", "seen"}
                        /\ j.wish.lines \in SUBSET (Item \ Bouquet)
    /\ j.op = "remove" => j.entity \in Part \cup Item
    /\ j.op \in {"take", "forget"} => j.entity \in Contact
    /\ j.op = "open" => j.wish \in Shop

IsJob(j) ==
    /\ DOMAIN j = {"op", "entity", "ticket", "wish"}
    /\ j.op \in Statements \cup {"idle", "over"}
    /\ Fits(j)

JobsOK == DOMAIN job = Request /\ \A p \in Request : IsJob(job[p])

-----------------------------------------------------------------------------
(***************************************************************************)
(* The requests for deletions.                                             *)
(***************************************************************************)
Statuses == {"NONE", "PENDING", "APPROVED", "REJECTED"}
Tickets == [entity : Entity \cup {None}, status : Statuses]

RowsOK ==
    /\ record \in [Entity -> {"UNBORN", "STORED", "DELETED"}]
    /\ ticket \in [Ticket -> Tickets]
    /\ removedBy \in [Entity -> Ticket \cup {None}]
    /\ muddled \subseteq Ticket

\* A filed ticket names a record that has been stored, and so does a request
\* that is about to file one.
TicketsName ==
    /\ \A k \in Ticket : IF ticket[k].status = "NONE" THEN ticket[k] = Blank
                         ELSE ticket[k].entity \in Entity /\ record[ticket[k].entity] # "UNBORN"
    /\ \A p \in Request : job[p].op = "file" => record[job[p].entity] # "UNBORN"

\* A review is of the record its ticket names, and the only one of a ticket that
\* is not muddled, which is pending so long.
ReviewsAgree ==
    /\ \A p \in Request : job[p].ticket \in Ticket =>
          ticket[job[p].ticket].status # "NONE" /\ ticket[job[p].ticket].entity = job[p].entity
    /\ \A k \in Ticket \ muddled, p \in Request : job[p].ticket = k =>
          Pending(k) /\ \A q \in Request : job[q].ticket = k => q = p

\* What was deleted was deleted for a ticket that names it.
DeletedFor ==
    /\ \A e \in Entity : record[e] = "DELETED" <=> removedBy[e] \in Ticket
    /\ \A e \in Entity : removedBy[e] \in Ticket => ticket[removedBy[e]].entity = e
    /\ \A p \in Request : job[p].op = "settle" => removedBy[job[p].entity] = job[p].ticket

RequestsInv == RowsOK /\ TicketsName /\ ReviewsAgree /\ DeletedFor /\ RequestsTellTheTruth

-----------------------------------------------------------------------------
(***************************************************************************)
(* The staff.                                                              *)
(***************************************************************************)
\* Who was never created has no role, no profile, and nothing under way.
UnbornHaveNothing ==
    \A u \in User : record[u] = "UNBORN" =>
       /\ roles[u] = {} /\ profile[u] = "NONE"
       /\ \A p \in Request : ~Syncs(p, u) /\ ~ChangesAccess(p, u)

\* One request at most is about to take a director, and another stays.
OneLeaves ==
    ~blind => \A p \in Request : RemovesDirector(p) =>
                 /\ Directors \ {job[p].entity} # {}
                 /\ \A q \in Request : RemovesDirector(q) => q = p

\* What was checked of a florist's roles or stores still holds when it is written.
WishesFit ==
    \A u \in User \ mixed, p \in Request : Stored(u) =>
       /\ ChangesRoles(p, u) => FloristBound(job[p].wish, access[u])
       /\ ChangesAccess(p, u) => FloristBound(roles[u], job[p].wish)
       /\ \A q \in Request : ~(ChangesRoles(p, u) /\ ChangesAccess(q, u))

StaffInv ==
    /\ StaffTypeOK /\ UnbornHaveNothing /\ OneLeaves /\ WishesFit
    /\ StaffIsInOrder

-----------------------------------------------------------------------------
(***************************************************************************)
(* The catalogue.                                                          *)
(***************************************************************************)
CatalogTypeOK ==
    /\ archived \subseteq Part \cup Item
    /\ madeOf \in [Item -> SUBSET Part]
    /\ under \in [Category -> Category \cup {None}]
    /\ used \subseteq Item
    /\ recipe \in [Bouquet -> SUBSET [comp : Item \ Bouquet, by : Request]]
    /\ asked \in [Bouquet -> SUBSET (Item \ Bouquet)]
    /\ crossed \subseteq Item /\ overlapped \subseteq Bouquet

\* What was never created is not archived, has no parent, and is no part of a
\* recipe; items have their parts from the start.
UnbornAreNew ==
    /\ \A e \in archived : record[e] # "UNBORN"
    /\ \A i \in Item : IF record[i] = "UNBORN" THEN madeOf[i] = {} ELSE madeOf[i] \in ItemParts
    /\ \A c \in Category : record[c] = "UNBORN" => under[c] = None
    /\ \A b \in Bouquet : /\ record[b] = "UNBORN" => recipe[b] = {} /\ asked[b] = {}
                          /\ \A c \in asked[b] : record[c] # "UNBORN"

\* One request at most creates an item, of parts that are in use.
CreatesOfLiveParts ==
    \A p \in Request, i \in Item : Creating(p, i) =>
       /\ record[i] = "UNBORN"
       /\ \A q \in Request : Creating(q, i) => q = p
       /\ i \notin crossed => \A x \in job[p].wish : record[x] = "DELETED" \/ x \notin archived

\* What is being archived is no part of an item in use, nor of one that is
\* being created.
ArchivesUnusedParts ==
    \A p \in Request, x \in Part : Archiving(p, x) =>
       /\ \A i \in Item \ crossed : Available(i) => x \notin madeOf[i]
       /\ \A q \in Request, i \in Item \ crossed : Creating(q, i) => x \notin job[q].wish

\* One request at most replaces a recipe, and has seen all of its lines.
ReplacesWhatItSees ==
    \A p \in Request, b \in Bouquet \ overlapped : Replacing(p, b) =>
       /\ recipe[b] \subseteq job[p].wish.seen
       /\ \A q \in Request : Replacing(q, b) => q = p

CatalogInv ==
    /\ CatalogTypeOK /\ UnbornAreNew
    /\ CreatesOfLiveParts /\ ArchivesUnusedParts /\ ReplacesWhatItSees
    /\ CatalogReferencesHold /\ ActiveItemsHaveActiveParts /\ RecipesAreWhole

\* The lines of sales: what is being sold is stored, and what is about to be deleted
\* is in no sale, unless the two crossed.
SalesInv ==
    /\ sold \subseteq Item /\ loose \subseteq Item
    /\ \A p \in Request, i \in Item \ loose :
          /\ Selling(p, i) => Stored(i)
          /\ Removing(p, i) => i \notin sold
    /\ SoldItemsRemain

-----------------------------------------------------------------------------
(***************************************************************************)
(* The contacts and the premises.                                          *)
(***************************************************************************)
ContactsInv ==
    /\ retired \subseteq Contact /\ taken \subseteq Contact
    /\ phone \in [Customer -> Phone \cup {None}]
    /\ ContactReferencesHold

\* One save at most is under way, and will write the key that was typed last.
SavesWhatWasTyped ==
    /\ \A p \in Request : Saving(p) =>
          /\ DOMAIN job[p].wish = {"sent", "next"}
          /\ job[p].wish.sent # "same" => job[p].wish.next = job[p].wish.sent
    /\ ~refilled => \A p \in Request : Saving(p) =>
          /\ job[p].wish.sent = "same" => job[p].wish.next = key
          /\ \A q \in Request : Saving(q) => q = p

PremisesInv ==
    /\ shop \in [Shop -> {"NONE", "ACTIVE", "ARCHIVED"}]
    /\ warehouses = {<<s, "MAIN">> : s \in {t \in Shop : shop[t] # "NONE"}}
    /\ SavesWhatWasTyped /\ KeyIsTheOneTyped

IInv == /\ JobsOK /\ RequestsInv /\ StaffInv /\ CatalogInv /\ SalesInv
        /\ ContactsInv /\ PremisesInv
        /\ Cardinality(UnderWay) <= Busy


-----------------------------------------------------------------------------
(***************************************************************************)
(* What a step does to the requests and the records, whichever part it     *)
(* belongs to: one request moves, by statements of the part, and records   *)
(* of the part are stored, or one is deleted.                              *)
(***************************************************************************)
Only(p) == DOMAIN job' = Request /\ \A q \in Request \ {p} : job'[q] = job[q]

Grows(entities) ==
    /\ record' \in [Entity -> {"UNBORN", "STORED", "DELETED"}]
    /\ \A e \in Entity : \/ record'[e] = record[e]
                         \/ e \in entities /\ record[e] = "UNBORN" /\ record'[e] = "STORED"

\* A step that neither files, reviews nor settles a ticket, nor deletes.
Plain(p) ==
    /\ UNCHANGED <<ticket, removedBy, muddled>> /\ Grows(Entity)
    /\ job[p].op # "settle" /\ job'[p].op # "settle"
    /\ job'[p].op = "file" => record[job'[p].entity] # "UNBORN"
    /\ job'[p].ticket \in Ticket =>
          job'[p].ticket = job[p].ticket /\ job'[p].entity = job[p].entity

Deletes(p) ==
    /\ job[p].op \in {"delete", "remove", "forget"} /\ Stored(job[p].entity)
    /\ RecordDeleted(p) /\ UNCHANGED <<ticket, muddled>>

Kind(p) ==
    \/ Plain(p)
    \/ Deletes(p)
    \/ \E k \in Ticket : FileRequest(p, k)
    \/ \E k \in Ticket, op \in {"check", "reject"} : Review(p, k, op)
    \/ Approve(p) \/ Reject(p)
    \/ CutOff(p, Statements)

Effect(p, ops, entities) ==
    /\ Only(p) /\ IsJob(job'[p])
    /\ job[p].op \in ops \cup Reviews \cup {"idle"}
    /\ job'[p].op \in ops \cup Reviews \cup {"over"}
    /\ job[p].op = "idle" => job'[p] = Over \/ Cardinality(UnderWay) < Busy
    /\ \A e \in Entity \ entities : record'[e] = record[e]
    /\ Kind(p)

\* A request that is answered at once.
LEMMA AtOnceEffect ==
    ASSUME JobsOK, RowsOK, NEW p \in Request, NEW ops, NEW entities, AtOnce(p),
           Grows(entities), UNCHANGED <<ticket, removedBy, muddled>>
    PROVE  Effect(p, ops, entities)
<1>1. /\ job[p] = Idle /\ job' = [job EXCEPT ![p] = Over] /\ DOMAIN job = Request
      /\ Over.op = "over" /\ Over.ticket = None /\ Idle.op = "idle"
      /\ DOMAIN Over = {"op", "entity", "ticket", "wish"}
  BY DEF AtOnce, Arrives, JobsOK, Over, Idle
<1>2. Only(p) /\ job'[p] = Over
  BY <1>1 DEF Only
<1>3. IsJob(Over)
  BY <1>1 DEF IsJob, Fits, Approving
<1>4. Plain(p)
  BY <1>1, <1>2, DeletionsAssumption DEF Plain, Grows
<1>5. \A e \in Entity \ entities : record'[e] = record[e]
  BY DEF Grows
<1>. QED  BY <1>1, <1>2, <1>3, <1>4, <1>5 DEF Effect, Kind

\* A request that begins with a read.
LEMMA StartsEffect ==
    ASSUME JobsOK, RowsOK, NEW p \in Request, NEW ops, NEW op \in ops \cup {"file"}, NEW e, NEW wish,
           ops \subseteq Statements \ Reviews,
           Starts(p, op, e, None, wish),
           Fits([op |-> op, entity |-> e, ticket |-> None, wish |-> wish]),
           op = "file" => record[e] # "UNBORN",
           UNCHANGED rows
    PROVE  Effect(p, ops, {})
<1> DEFINE r == [op |-> op, entity |-> e, ticket |-> None, wish |-> wish]
<1>1. /\ job[p] = Idle /\ job' = [job EXCEPT ![p] = r] /\ DOMAIN job = Request
      /\ Cardinality(UnderWay) < Busy /\ Idle.op = "idle"
  BY DEF Starts, Arrives, JobsOK, Idle
<1>2. Only(p) /\ job'[p] = r
  BY <1>1 DEF Only
<1>3. IsJob(r) /\ r.op = op /\ r.ticket = None /\ r.entity = e
  BY DEF IsJob, Statements, Reviews
<1>4. /\ UNCHANGED <<ticket, removedBy, muddled>> /\ record' = record
      /\ record \in [Entity -> {"UNBORN", "STORED", "DELETED"}]
  BY DEF rows, RowsOK
<1>5. op # "settle"
  BY DEF Reviews
<1> HIDE DEF r
<1>6. Plain(p)
  BY <1>1, <1>2, <1>3, <1>4, <1>5, DeletionsAssumption DEF Plain, Grows
<1>7. /\ job[p].op \in ops \cup Reviews \cup {"idle"}
      /\ job'[p].op \in ops \cup Reviews \cup {"over"}
  BY <1>1, <1>2, <1>3 DEF Reviews
<1>. QED  BY <1>1, <1>2, <1>3, <1>4, <1>6, <1>7 DEF Effect, Kind

\* A request that goes on.
LEMMA GoesOnEffect ==
    ASSUME JobsOK, RowsOK, NEW p \in Request, NEW ops, NEW op \in ops,
           ops \subseteq Statements \ Reviews,
           job[p].op \in ops \cup {"check"},
           GoesOn(p, op), Fits([job[p] EXCEPT !.op = op]), UNCHANGED rows
    PROVE  Effect(p, ops, {})
<1>1. /\ IsJob(job[p]) /\ DOMAIN job = Request
      /\ job' = [job EXCEPT ![p] = [@ EXCEPT !.op = op]]
  BY DEF JobsOK, GoesOn
<1> DEFINE r == [job[p] EXCEPT !.op = op]
<1>2. Only(p) /\ job'[p] = r
  BY <1>1 DEF Only
<1>3. IsJob(r) /\ r.op = op /\ r.ticket = job[p].ticket /\ r.entity = job[p].entity
  BY <1>1 DEF IsJob
<1>4. /\ UNCHANGED <<ticket, removedBy, muddled>> /\ record' = record
      /\ record \in [Entity -> {"UNBORN", "STORED", "DELETED"}]
  BY DEF rows, RowsOK
<1>5. op \notin {"settle", "file"} /\ job[p].op \notin {"settle", "idle"}
  BY DEF Reviews, Statements, StaffStatements, CatalogStatements, ContactStatements,
         PremisesStatements
<1> HIDE DEF r
<1>6. Plain(p)
  BY <1>2, <1>3, <1>4, <1>5 DEF Plain, Grows
<1>7. /\ job[p].op \in ops \cup Reviews \cup {"idle"}
      /\ job'[p].op \in ops \cup Reviews \cup {"over"}
  BY <1>2, <1>3 DEF Reviews
<1>. QED  BY <1>2, <1>3, <1>4, <1>5, <1>6, <1>7 DEF Effect, Kind

\* A request that ends, other than with the settlement of a ticket.
LEMMA EndsEffect ==
    ASSUME JobsOK, RowsOK, NEW p \in Request, NEW ops, NEW entities,
           ops \subseteq Statements \ Reviews,
           job[p].op \in ops \cup {"check"},
           Ends(p), Grows(entities), UNCHANGED <<ticket, removedBy, muddled>>
    PROVE  Effect(p, ops, entities)
<1>1. /\ job' = [job EXCEPT ![p] = Over] /\ DOMAIN job = Request
      /\ Over.op = "over" /\ Over.ticket = None
      /\ DOMAIN Over = {"op", "entity", "ticket", "wish"}
  BY DEF Ends, JobsOK, Over, Idle
<1>2. Only(p) /\ job'[p] = Over
  BY <1>1 DEF Only
<1>3. IsJob(Over)
  BY <1>1 DEF IsJob, Fits, Approving
<1>4. job[p].op \notin {"settle", "idle"}
  BY DEF Reviews, Statements, StaffStatements, CatalogStatements, ContactStatements,
         PremisesStatements
<1>5. Plain(p)
  BY <1>1, <1>2, <1>4, DeletionsAssumption DEF Plain, Grows
<1>6. \A e \in Entity \ entities : record'[e] = record[e]
  BY DEF Grows
<1>7. /\ job[p].op \in ops \cup Reviews \cup {"idle"}
      /\ job'[p].op \in ops \cup Reviews \cup {"over"}
  BY <1>1, <1>2 DEF Reviews
<1>. QED  BY <1>1, <1>2, <1>3, <1>4, <1>5, <1>6, <1>7 DEF Effect, Kind

\* A request that deletes the record it was approved for.
LEMMA DeletesEffect ==
    ASSUME JobsOK, RowsOK, NEW p \in Request, NEW ops, NEW entities,
           job[p].op \in ops \cap {"delete", "remove", "forget"},
           job[p].entity \in entities, Deletes(p)
    PROVE  Effect(p, ops, entities)
<1>1. /\ IsJob(job[p]) /\ DOMAIN job = Request
      /\ job' = [job EXCEPT ![p] = [@ EXCEPT !.op = "settle"]]
  BY DEF JobsOK, GoesOn, Deletes, RecordDeleted
<1> DEFINE r == [job[p] EXCEPT !.op = "settle"]
<1>2. Only(p) /\ job'[p] = r
  BY <1>1 DEF Only
<1>3. job[p].entity \in Entity /\ job[p].ticket \in Ticket /\ job[p].op \in Approving
  BY <1>1 DEF IsJob, Fits, Approving
<1>4. r.op = "settle" /\ r.entity = job[p].entity /\ r.ticket = job[p].ticket
  BY <1>1 DEF IsJob
<1>5. IsJob(r)
  BY <1>1, <1>3, <1>4 DEF IsJob, Fits, Approving, Statements, Reviews
<1>6. \A e \in Entity \ entities : record'[e] = record[e]
  BY DEF RecordDeleted, Deletes, RowsOK
<1>. QED  BY <1>1, <1>2, <1>3, <1>4, <1>5, <1>6 DEF Effect, Kind, Reviews

\* A request for a deletion: filed, reviewed, settled.
LEMMA DeletionEffect ==
    ASSUME JobsOK, RowsOK, TicketsName, NEW p \in Request, NEW es \in SUBSET Entity,
           DeletionStep(p, es)
    PROVE  Effect(p, {}, {})
<1>0. None \notin Entity /\ None \notin Ticket /\ DOMAIN job = Request /\ IsJob(job[p])
  BY DeletionsAssumption DEF JobsOK
<1>1. CASE \E e \in es : AskDeletion(p, e)
  <2>1. PICK e \in es : AskDeletion(p, e)
    BY <1>1
  <2>2. /\ Starts(p, "file", e, None, None) /\ UNCHANGED rows /\ record[e] # "UNBORN"
        /\ e \in Entity
    BY <2>1 DEF AskDeletion
  <2>3. Fits([op |-> "file", entity |-> e, ticket |-> None, wish |-> None])
    BY <2>2 DEF Fits, Approving
  <2>. QED  BY <2>2, <2>3, StartsEffect
<1>2. CASE \E k \in Ticket, op \in {"check", "reject"} : Review(p, k, op)
  <2>1. PICK k \in Ticket, op \in {"check", "reject"} : Review(p, k, op)
    BY <1>2
  <2> DEFINE r == [op |-> op, entity |-> ticket[k].entity, ticket |-> k, wish |-> None]
  <2>2. /\ job[p] = Idle /\ job' = [job EXCEPT ![p] = r] /\ record' = record /\ Pending(k)
        /\ Cardinality(UnderWay) < Busy /\ Idle.op = "idle"
    BY <2>1 DEF Review, Reviewable, Starts, Arrives, Idle
  <2>3. ticket[k].entity \in Entity
    BY <2>2 DEF TicketsName, Pending
  <2>4. IsJob(r) /\ r.op \in {"check", "reject"}
    BY <2>3 DEF IsJob, Fits, Approving, Statements, Reviews
  <2> HIDE DEF r
  <2>5. Only(p) /\ job'[p] = r
    BY <1>0, <2>2 DEF Only
  <2>. QED  BY <1>2, <2>2, <2>4, <2>5 DEF Effect, Kind, Reviews
<1>3. CASE (\E k \in Ticket : FileRequest(p, k)) \/ Approve(p) \/ Reject(p)
  <2>1. /\ job' = [job EXCEPT ![p] = Over] /\ record' = record
        /\ job[p].op \in {"file", "settle", "reject"}
    BY <1>3 DEF FileRequest, Approve, Reject, Settled, Ends
  <2>2. IsJob(Over) /\ Over.op = "over"
    BY DEF IsJob, Fits, Approving, Over, Idle
  <2>3. Only(p) /\ job'[p] = Over
    BY <1>0, <2>1 DEF Only
  <2>. QED  BY <1>3, <2>1, <2>2, <2>3 DEF Effect, Kind, Reviews
<1>. QED  BY <1>1, <1>2, <1>3 DEF DeletionStep, StartApproval, StartRejection

\* A request that is cut off.
LEMMA CutOffEffect ==
    ASSUME JobsOK, RowsOK, NEW p \in Request, NEW ops, ops \subseteq Statements, CutOff(p, ops)
    PROVE  Effect(p, ops, {})
<1>1. /\ job' = [job EXCEPT ![p] = Over] /\ record' = record /\ DOMAIN job = Request
      /\ job[p].op \in ops \cup Reviews
  BY DEF CutOff, Ends, JobsOK
<1>2. IsJob(Over) /\ Over.op = "over"
  BY DEF IsJob, Fits, Approving, Over, Idle
<1>3. Only(p) /\ job'[p] = Over
  BY <1>1 DEF Only
<1>4. CutOff(p, Statements)
  BY DEF CutOff, Statements
<1>. QED  BY <1>1, <1>2, <1>3, <1>4 DEF Effect, Kind


\* The requests stay well formed, and no more of them are under way than may be.
LEMMA JobsKept ==
    ASSUME JobsOK, Cardinality(UnderWay) <= Busy, NEW p \in Request, NEW ops \in SUBSET Statements,
           NEW entities, Effect(p, ops, entities)
    PROVE  JobsOK' /\ (Cardinality(UnderWay) <= Busy)'
<1>1. JobsOK'
  BY DEF JobsOK, Effect, Only
<1>2. IsFiniteSet(Request) /\ Busy \in Nat
  <2>1. Calls \in Nat /\ Busy \in Nat
    BY DeletionsAssumption
  <2>. QED  BY <2>1, FS_Interval DEF Request
<1>3. UnderWay \subseteq Request /\ UnderWay' \subseteq UnderWay \cup {p}
  BY DEF UnderWay, Effect, Only
<1>4. IsFiniteSet(UnderWay) /\ Cardinality(UnderWay) \in Nat
  BY <1>2, <1>3, FS_Subset, FS_CardinalityType
<1>5. CASE UnderWay' \subseteq UnderWay
  BY <1>1, <1>2, <1>4, <1>5, FS_Subset, FS_CardinalityType
<1>6. CASE Cardinality(UnderWay) < Busy
  <2>1. IsFiniteSet(UnderWay \cup {p}) /\ Cardinality(UnderWay \cup {p}) <= Cardinality(UnderWay) + 1
    <3>1. CASE p \in UnderWay
      <4>1. UnderWay \cup {p} = UnderWay
        BY <3>1
      <4>. QED  BY <4>1, <1>4
    <3>2. CASE p \notin UnderWay
      <4>1. /\ IsFiniteSet(UnderWay \cup {p})
            /\ Cardinality(UnderWay \cup {p}) = Cardinality(UnderWay) + 1
        BY <3>2, <1>4, FS_AddElement
      <4>. QED  BY <4>1, <1>4
    <3>. QED  BY <3>1, <3>2
  <2>2. Cardinality(UnderWay') <= Cardinality(UnderWay \cup {p}) /\ Cardinality(UnderWay') \in Nat
        /\ Cardinality(UnderWay \cup {p}) \in Nat
    BY <2>1, <1>3, FS_Subset, FS_CardinalityType
  <2>. QED  BY <1>1, <1>2, <1>4, <1>6, <2>1, <2>2
<1>7. UnderWay' \subseteq UnderWay \/ Cardinality(UnderWay) < Busy
  <2>1. CASE job[p].op = "idle"
    BY <2>1, <1>3 DEF UnderWay, Effect
  <2>2. CASE job[p].op # "idle"
    <3>1. job[p].op \in Statements
      BY <2>2 DEF Effect, Statements
    <3>2. job[p] # Idle /\ job[p] # Over
      BY <3>1 DEF Idle, Over, Statements, Reviews, StaffStatements, CatalogStatements,
                  ContactStatements, PremisesStatements
    <3>3. p \in UnderWay
      BY <3>2 DEF UnderWay
    <3>. QED  BY <3>3, <1>3
  <2>. QED  BY <2>1, <2>2
<1>. QED  BY <1>5, <1>6, <1>7

\* What a running request carries for its ticket.
LEMMA Reviewed ==
    ASSUME JobsOK, NEW p \in Request
    PROVE  /\ job[p].ticket \in Ticket \cup {None}
           /\ job[p].op \in Approving \cup {"reject"}
                <=> job[p].ticket \in Ticket
           /\ job[p].op \in Approving \cup {"reject", "file"} => job[p].entity \in Entity
  BY DeletionsAssumption DEF JobsOK, IsJob, Fits

LEMMA PlainKeeps ==
    ASSUME JobsOK, RequestsInv, NEW p \in Request, Only(p), IsJob(job'[p]), Plain(p)
    PROVE  RequestsInv'
<1>1. /\ ticket' = ticket /\ removedBy' = removedBy /\ muddled' = muddled
      /\ record' \in [Entity -> {"UNBORN", "STORED", "DELETED"}]
      /\ \A e \in Entity : /\ record'[e] = "DELETED" <=> record[e] = "DELETED"
                           /\ record[e] # "UNBORN" => record'[e] # "UNBORN"
  BY DEF Plain, Grows
<1>2. \A q \in Request : /\ job'[q].ticket \in Ticket => /\ job'[q].ticket = job[q].ticket
                                                         /\ job'[q].entity = job[q].entity
                         /\ job'[q].op = "settle" <=> job[q].op = "settle"
                         /\ job'[q].op = "settle" => job'[q] = job[q]
  BY DEF Plain, Only
<1>3. RowsOK'
  BY <1>1 DEF RequestsInv, RowsOK
<1>4. TicketsName'
  <2>1. \A q \in Request : job'[q].op = "file" =>
           job'[q].entity \in Entity /\ record[job'[q].entity] # "UNBORN"
    BY DEF Only, Plain, RequestsInv, TicketsName, JobsOK, IsJob, Fits
  <2>. QED  BY <1>1, <2>1 DEF RequestsInv, TicketsName
<1>5. ReviewsAgree'
  BY <1>1, <1>2 DEF RequestsInv, ReviewsAgree, Pending
<1>6. DeletedFor'
  BY <1>1, <1>2 DEF RequestsInv, DeletedFor
<1>7. RequestsTellTheTruth'
  <2>1. \A k \in Ticket : Settling(k)' <=> Settling(k)
    BY <1>2 DEF Settling
  <2>2. \A k \in Ticket : ticket[k].status = "APPROVED" => ticket[k].entity \in Entity
    BY DEF RequestsInv, TicketsName
  <2>. QED  BY <1>1, <2>1, <2>2 DEF RequestsInv, RequestsTellTheTruth
<1>. QED  BY <1>3, <1>4, <1>5, <1>6, <1>7 DEF RequestsInv

LEMMA DeletesKeeps ==
    ASSUME JobsOK, RequestsInv, NEW p \in Request, Deletes(p)
    PROVE  RequestsInv'
<1>1. PICK e, k : e = job[p].entity /\ k = job[p].ticket
  OBVIOUS
<1>2. e \in Entity /\ k \in Ticket /\ IsJob(job[p]) /\ job[p].op # "settle"
  BY <1>1, Reviewed DEF Deletes, Approving, JobsOK
<1>3. /\ ticket' = ticket /\ muddled' = muddled
      /\ record' = [record EXCEPT ![e] = "DELETED"]
      /\ removedBy' = [removedBy EXCEPT ![e] = k]
      /\ record[e] = "STORED"
      /\ job' = [job EXCEPT ![p].op = "settle"]
  BY <1>1 DEF Deletes, RecordDeleted, GoesOn, Stored
<1>4. /\ \A q \in Request \ {p} : job'[q] = job[q]
      /\ job'[p].op = "settle" /\ job'[p].ticket = k /\ job'[p].entity = e
      /\ job[p].ticket = k /\ job[p].entity = e
  BY <1>1, <1>2, <1>3 DEF JobsOK, IsJob
<1>5. RowsOK /\ TicketsName /\ ReviewsAgree /\ DeletedFor /\ RequestsTellTheTruth
  BY DEF RequestsInv
<1>6. None \notin Ticket /\ None \notin Entity
  BY DeletionsAssumption
<1>7. ticket[k].entity = e /\ ticket[k].status # "NONE" /\ removedBy[e] = None
  BY <1>2, <1>3, <1>4, <1>5 DEF ReviewsAgree, DeletedFor, RowsOK
<1>8. RowsOK'
  BY <1>2, <1>3, <1>5 DEF RowsOK
<1>9. /\ \A d \in Entity \ {e} : record'[d] = record[d] /\ removedBy'[d] = removedBy[d]
      /\ record'[e] = "DELETED" /\ removedBy'[e] = k
  BY <1>2, <1>3, <1>5 DEF RowsOK
<1>10. TicketsName'
  <2>1. \A q \in Request : job'[q].op = "file" => job'[q] = job[q] /\ job[q].entity \in Entity
    BY <1>4, Reviewed
  <2>. QED  BY <1>3, <1>5, <1>9, <2>1 DEF TicketsName
<1>11. ReviewsAgree'
  <2>1. \A q \in Request : job'[q].ticket = job[q].ticket /\ job'[q].entity = job[q].entity
    BY <1>4
  <2>. QED  BY <1>3, <1>5, <2>1 DEF ReviewsAgree, Pending
<1>12. DeletedFor'
  <2>1. \A d \in Entity : record'[d] = "DELETED" <=> removedBy'[d] \in Ticket
    BY <1>2, <1>5, <1>9 DEF DeletedFor
  <2>2. \A d \in Entity : removedBy'[d] \in Ticket => ticket'[removedBy'[d]].entity = d
    BY <1>3, <1>5, <1>7, <1>9 DEF DeletedFor
  <2>3. \A q \in Request : job'[q].op = "settle" => removedBy'[job'[q].entity] = job'[q].ticket
    <3>1. TAKE q \in Request
    <3>2. CASE q = p
      BY <3>2, <1>4, <1>9
    <3>3. CASE q # p /\ job[q].op = "settle"
      <4>1. job[q].entity \in Entity /\ job[q].ticket \in Ticket
        BY <3>3, Reviewed DEF Approving
      <4>2. removedBy[job[q].entity] = job[q].ticket
        BY <3>3, <1>5 DEF DeletedFor
      <4>3. job[q].entity # e
        BY <4>1, <4>2, <1>6, <1>7
      <4>. QED  BY <3>3, <4>1, <4>2, <4>3, <1>4, <1>9
    <3>. QED  BY <3>2, <3>3, <1>4
  <2>. QED  BY <2>1, <2>2, <2>3 DEF DeletedFor
<1>13. RequestsTellTheTruth'
  <2>1. SUFFICES ASSUME NEW h \in Ticket \ muddled
                 PROVE  /\ ticket[h].status = "APPROVED" => record'[ticket[h].entity] = "DELETED"
                        /\ (ticket[h].status = "APPROVED" \/ Settling(h)')
                              <=> \E d \in Entity : removedBy'[d] = h
    BY <1>3 DEF RequestsTellTheTruth
  <2>2. /\ ticket[h].status = "APPROVED" => record[ticket[h].entity] = "DELETED"
        /\ (ticket[h].status = "APPROVED" \/ Settling(h))
              <=> \E d \in Entity : removedBy[d] = h
        /\ ticket[h].status = "APPROVED" => ticket[h].entity \in Entity
    BY <1>5 DEF RequestsTellTheTruth, TicketsName
  <2>3. ticket[h].status = "APPROVED" => record'[ticket[h].entity] = "DELETED"
    BY <2>2, <1>9
  <2>4. CASE h = k
    <3>1. Settling(h)'
      BY <2>4, <1>4 DEF Settling
    <3>. QED  BY <3>1, <2>3, <2>4, <1>2, <1>9
  <2>5. CASE h # k
    <3>1. Settling(h)' <=> Settling(h)
      BY <2>5, <1>2, <1>4 DEF Settling
    <3>2. \A d \in Entity : removedBy'[d] = h <=> removedBy[d] = h
      BY <2>5, <1>6, <1>7, <1>9
    <3>. QED  BY <3>1, <3>2, <2>2, <2>3
  <2>. QED  BY <2>4, <2>5
<1>. QED  BY <1>8, <1>10, <1>11, <1>12, <1>13 DEF RequestsInv


LEMMA FileKeeps ==
    ASSUME JobsOK, RequestsInv, NEW p \in Request, NEW k \in Ticket, FileRequest(p, k)
    PROVE  RequestsInv'
<1>1. RowsOK /\ TicketsName /\ ReviewsAgree /\ DeletedFor /\ RequestsTellTheTruth
  BY DEF RequestsInv
<1>2. /\ job[p].op = "file" /\ ticket[k] = Blank
      /\ ticket' = [ticket EXCEPT ![k] = [entity |-> job[p].entity, status |-> "PENDING"]]
      /\ job' = [job EXCEPT ![p] = Over]
      /\ record' = record /\ removedBy' = removedBy /\ muddled' = muddled
  BY DEF FileRequest, Ends
<1>3. /\ \A q \in Request \ {p} : job'[q] = job[q]
      /\ job'[p] = Over /\ Over.op = "over" /\ Over.ticket = None
  BY <1>2 DEF JobsOK, Over, Idle
<1>4. None \notin Ticket /\ None \notin Entity /\ job[p].entity \in Entity
  BY DeletionsAssumption, Reviewed, <1>2
<1>5. ticket[k].entity = None /\ ticket[k].status = "NONE"
  BY <1>2 DEF Blank
<1>6. /\ ticket'[k] = [entity |-> job[p].entity, status |-> "PENDING"]
      /\ \A h \in Ticket \ {k} : ticket'[h] = ticket[h]
      /\ ticket'[k].entity = job[p].entity /\ ticket'[k].status = "PENDING"
  BY <1>1, <1>2 DEF RowsOK
<1>7. RowsOK'
  BY <1>1, <1>2, <1>4 DEF RowsOK, Tickets, Statuses
<1>8. \A q \in Request : job'[q].ticket \in Ticket => q # p /\ job'[q] = job[q] /\ job[q].ticket # k
  BY <1>1, <1>3, <1>4, <1>5 DEF ReviewsAgree
<1>9. TicketsName'
  <2>1. \A q \in Request : job'[q].op = "file" => job'[q] = job[q]
    BY <1>3
  <2>. QED  BY <1>1, <1>2, <1>4, <1>6, <2>1 DEF TicketsName
<1>10. ReviewsAgree'
  <2>1. \A q \in Request : job'[q].ticket \in Ticket =>
          ticket'[job'[q].ticket].status # "NONE"
             /\ ticket'[job'[q].ticket].entity = job'[q].entity
    BY <1>1, <1>6, <1>8 DEF ReviewsAgree
  <2>2. ASSUME NEW h \in Ticket \ muddled, NEW q \in Request, job'[q].ticket = h
        PROVE  Pending(h)' /\ \A r \in Request : job'[r].ticket = h => r = q
    <3>1. h # k /\ job[q].ticket = h
      BY <2>2, <1>8
    <3>2. Pending(h) /\ \A r \in Request : job[r].ticket = h => r = q
      BY <2>2, <3>1, <1>1 DEF ReviewsAgree
    <3>. QED  BY <3>1, <3>2, <1>6, <1>8 DEF Pending
  <2>. QED  BY <2>1, <2>2, <1>2 DEF ReviewsAgree
<1>11. DeletedFor'
  <2>1. \A e \in Entity : removedBy[e] # k
    BY <1>1, <1>4, <1>5 DEF DeletedFor
  <2>2. \A q \in Request : job'[q].op = "settle" => job'[q] = job[q]
    BY <1>3
  <2>. QED  BY <1>1, <1>2, <1>6, <2>1, <2>2 DEF DeletedFor
<1>12. RequestsTellTheTruth'
  <2>1. ASSUME NEW h \in Ticket \ muddled
        PROVE  /\ ticket'[h].status = "APPROVED" => record[ticket'[h].entity] = "DELETED"
               /\ (ticket'[h].status = "APPROVED" \/ Settling(h)')
                              <=> \E d \in Entity : removedBy[d] = h
    <3>1. /\ ticket[h].status = "APPROVED" => record[ticket[h].entity] = "DELETED"
          /\ (ticket[h].status = "APPROVED" \/ Settling(h))
              <=> \E d \in Entity : removedBy[d] = h
      BY <1>1 DEF RequestsTellTheTruth
    <3>2. CASE h = k
      <4>1. ~Settling(h)'
        BY <3>2, <1>8 DEF Settling
      <4>2. ~Settling(h)
        BY <3>2, <1>1, <1>5 DEF Settling, ReviewsAgree
      <4>. QED  BY <4>1, <4>2, <3>1, <3>2, <1>5, <1>6
    <3>3. CASE h # k
      <4>1. Settling(h)' <=> Settling(h)
        BY <1>2, <1>3 DEF Settling
      <4>. QED  BY <4>1, <3>1, <3>3, <1>6
    <3>. QED  BY <3>2, <3>3
  <2>. QED  BY <2>1, <1>2 DEF RequestsTellTheTruth
<1>. QED  BY <1>7, <1>9, <1>10, <1>11, <1>12 DEF RequestsInv

LEMMA ReviewKeeps ==
    ASSUME JobsOK, RequestsInv, NEW p \in Request, NEW k \in Ticket, NEW op \in {"check", "reject"},
           Review(p, k, op)
    PROVE  RequestsInv'
<1>1. RowsOK /\ TicketsName /\ ReviewsAgree /\ DeletedFor /\ RequestsTellTheTruth
  BY DEF RequestsInv
<1> DEFINE r == [op |-> op, entity |-> ticket[k].entity, ticket |-> k, wish |-> None]
<1>2. /\ job' = [job EXCEPT ![p] = r] /\ job[p] = Idle /\ Pending(k)
      /\ record' = record /\ removedBy' = removedBy /\ ticket' = ticket
      /\ muddled' = IF UnderReview(k) THEN muddled \cup {k} ELSE muddled
  BY DEF Review, Reviewable, Starts, Arrives
<1>3. r.op = op /\ r.entity = ticket[k].entity /\ r.ticket = k /\ Idle.op = "idle"
  BY DEF Idle
<1> HIDE DEF r
<1>4. /\ \A q \in Request \ {p} : job'[q] = job[q]
      /\ job'[p].op = op /\ job'[p].entity = ticket[k].entity /\ job'[p].ticket = k
      /\ job[p].op = "idle"
  BY <1>2, <1>3 DEF JobsOK
<1>5. muddled \subseteq muddled' /\ muddled' \subseteq Ticket /\ (k \notin muddled' => ~UnderReview(k))
  BY <1>1, <1>2 DEF RowsOK
<1>6. RowsOK'
  BY <1>1, <1>2, <1>5 DEF RowsOK
<1>7. TicketsName'
  BY <1>1, <1>2, <1>4 DEF TicketsName
<1>8. ReviewsAgree'
  <2>1. \A q \in Request : job'[q].ticket \in Ticket =>
          ticket[job'[q].ticket].status # "NONE"
             /\ ticket[job'[q].ticket].entity = job'[q].entity
    BY <1>1, <1>2, <1>4 DEF ReviewsAgree, Pending
  <2>2. ASSUME NEW h \in Ticket \ muddled', NEW q \in Request, job'[q].ticket = h
        PROVE  Pending(h) /\ \A s \in Request : job'[s].ticket = h => s = q
    <3>1. CASE h = k
      <4>1. \A s \in Request : job[s].ticket # k
        BY <3>1, <1>5 DEF UnderReview
      <4>. QED  BY <2>2, <3>1, <4>1, <1>2, <1>4
    <3>2. CASE h # k
      <4>1. q # p /\ job[q].ticket = h
        BY <2>2, <3>2, <1>4
      <4>. QED  BY <2>2, <3>2, <4>1, <1>1, <1>4, <1>5 DEF ReviewsAgree
    <3>. QED  BY <3>1, <3>2
  <2>. QED  BY <2>1, <2>2, <1>2 DEF ReviewsAgree, Pending
<1>9. DeletedFor'
  BY <1>1, <1>2, <1>4 DEF DeletedFor
<1>10. RequestsTellTheTruth'
  <2>1. \A h \in Ticket : Settling(h)' <=> Settling(h)
    BY <1>4 DEF Settling
  <2>. QED  BY <1>1, <1>2, <1>5, <2>1 DEF RequestsTellTheTruth
<1>. QED  BY <1>6, <1>7, <1>8, <1>9, <1>10 DEF RequestsInv

LEMMA SettledKeeps ==
    ASSUME JobsOK, RequestsInv, NEW p \in Request, Approve(p) \/ Reject(p)
    PROVE  RequestsInv'
<1>1. RowsOK /\ TicketsName /\ ReviewsAgree /\ DeletedFor /\ RequestsTellTheTruth
  BY DEF RequestsInv
<1>2. PICK k, e, verdict : /\ k = job[p].ticket /\ e = job[p].entity
                          /\ verdict = IF Approve(p) THEN "APPROVED" ELSE "REJECTED"
  OBVIOUS
<1>3. /\ ticket' = [ticket EXCEPT ![k].status = verdict]
      /\ job' = [job EXCEPT ![p] = Over]
      /\ record' = record /\ removedBy' = removedBy /\ muddled' = muddled
      /\ job[p].op = IF verdict = "APPROVED" THEN "settle" ELSE "reject"
      /\ verdict \in {"APPROVED", "REJECTED"}
  BY <1>2 DEF Approve, Reject, Settled, Ends
<1>4. k \in Ticket /\ e \in Entity /\ None \notin Ticket
  BY <1>2, <1>3, Reviewed, DeletionsAssumption DEF Approving
<1>5. /\ \A q \in Request \ {p} : job'[q] = job[q]
      /\ job'[p] = Over /\ Over.op = "over" /\ Over.ticket = None
      /\ job[p].ticket = k /\ job[p].entity = e
  BY <1>2, <1>3 DEF JobsOK, Over, Idle
<1>6. /\ ticket'[k].status = verdict /\ ticket'[k].entity = ticket[k].entity
      /\ \A h \in Ticket \ {k} : ticket'[h] = ticket[h]
      /\ ticket[k].entity = e /\ ticket[k].status # "NONE"
  BY <1>1, <1>3, <1>4, <1>5 DEF RowsOK, ReviewsAgree, Tickets
<1>7. RowsOK'
  BY <1>1, <1>3, <1>4 DEF RowsOK, Tickets, Statuses
<1>8. TicketsName'
  BY <1>1, <1>3, <1>4, <1>5, <1>6 DEF TicketsName
<1>9. ReviewsAgree'
  <2>1. \A q \in Request : job'[q].ticket \in Ticket =>
          ticket'[job'[q].ticket].status # "NONE"
             /\ ticket'[job'[q].ticket].entity = job'[q].entity
    BY <1>1, <1>3, <1>4, <1>5, <1>6 DEF ReviewsAgree
  <2>2. ASSUME NEW h \in Ticket \ muddled, NEW q \in Request, job'[q].ticket = h
        PROVE  Pending(h)' /\ \A s \in Request : job'[s].ticket = h => s = q
    <3>1. q # p /\ job[q].ticket = h
      BY <2>2, <1>4, <1>5
    <3>2. Pending(h) /\ \A s \in Request : job[s].ticket = h => s = q
      BY <2>2, <3>1, <1>1 DEF ReviewsAgree
    <3>3. h # k
      BY <3>1, <3>2, <1>5
    <3>. QED  BY <3>2, <3>3, <1>4, <1>5, <1>6 DEF Pending
  <2>. QED  BY <2>1, <2>2, <1>3 DEF ReviewsAgree
<1>10. DeletedFor'
  <2>1. \A h \in Ticket : ticket'[h].entity = ticket[h].entity
    BY <1>6
  <2>2. \A q \in Request : job'[q].op = "settle" => job'[q] = job[q]
    BY <1>5
  <2>. QED  BY <1>1, <1>3, <2>1, <2>2 DEF DeletedFor
<1>11. RequestsTellTheTruth'
  <2>1. ASSUME NEW h \in Ticket \ muddled
        PROVE  /\ ticket'[h].status = "APPROVED" => record[ticket'[h].entity] = "DELETED"
               /\ (ticket'[h].status = "APPROVED" \/ Settling(h)')
                              <=> \E d \in Entity : removedBy[d] = h
    <3>1. /\ ticket[h].status = "APPROVED" => record[ticket[h].entity] = "DELETED"
          /\ (ticket[h].status = "APPROVED" \/ Settling(h))
              <=> \E d \in Entity : removedBy[d] = h
      BY <1>1 DEF RequestsTellTheTruth
    <3>2. CASE h = k
      <4>1. Pending(k) /\ \A q \in Request : job[q].ticket = k => q = p
        BY <3>2, <1>1, <1>5 DEF ReviewsAgree
      <4>2. ~Settling(k)'
        BY <4>1, <1>4, <1>5 DEF Settling
      <4>3. CASE verdict = "APPROVED"
        <5>1. removedBy[e] = k /\ record[e] = "DELETED"
          BY <4>3, <1>1, <1>3, <1>4, <1>5 DEF DeletedFor
        <5>. QED  BY <5>1, <4>3, <3>2, <1>4, <1>6
      <4>4. CASE verdict = "REJECTED"
        <5>1. ~Settling(k)
          BY <4>1, <4>4, <1>3 DEF Settling
        <5>. QED  BY <5>1, <4>1, <4>2, <4>4, <3>1, <3>2, <1>6 DEF Pending
      <4>. QED  BY <4>3, <4>4, <1>3
    <3>3. CASE h # k
      <4>1. Settling(h)' <=> Settling(h)
        BY <3>3, <1>5 DEF Settling
      <4>. QED  BY <4>1, <3>1, <3>3, <1>6
    <3>. QED  BY <3>2, <3>3
  <2>. QED  BY <2>1, <1>3 DEF RequestsTellTheTruth
<1>. QED  BY <1>7, <1>8, <1>9, <1>10, <1>11 DEF RequestsInv

LEMMA CutOffKeeps ==
    ASSUME JobsOK, RequestsInv, NEW p \in Request, CutOff(p, Statements)
    PROVE  RequestsInv'
<1>1. RowsOK /\ TicketsName /\ ReviewsAgree /\ DeletedFor /\ RequestsTellTheTruth
  BY DEF RequestsInv
<1>2. /\ job' = [job EXCEPT ![p] = Over]
      /\ record' = record /\ removedBy' = removedBy /\ ticket' = ticket
      /\ muddled' = IF job[p].op = "settle" THEN muddled \cup {job[p].ticket} ELSE muddled
  BY DEF CutOff, Ends
<1>3. None \notin Ticket /\ (job[p].op = "settle" => job[p].ticket \in Ticket)
  BY Reviewed, DeletionsAssumption DEF Approving
<1>4. /\ \A q \in Request \ {p} : job'[q] = job[q]
      /\ job'[p] = Over /\ Over.op = "over" /\ Over.ticket = None
  BY <1>2 DEF JobsOK, Over, Idle
<1>5. muddled \subseteq muddled' /\ muddled' \subseteq Ticket
  BY <1>1, <1>2, <1>3 DEF RowsOK
<1>6. RowsOK'
  BY <1>1, <1>2, <1>5 DEF RowsOK
<1>7. \A q \in Request : /\ job'[q].ticket \in Ticket => job'[q] = job[q]
                         /\ job'[q].op \in {"settle", "file"} => job'[q] = job[q]
  BY <1>3, <1>4
<1>8. TicketsName'
  BY <1>1, <1>2, <1>7 DEF TicketsName
<1>9. ReviewsAgree'
  BY <1>1, <1>2, <1>5, <1>7 DEF ReviewsAgree, Pending
<1>10. DeletedFor'
  BY <1>1, <1>2, <1>7 DEF DeletedFor
<1>11. RequestsTellTheTruth'
  <2>1. \A h \in Ticket \ muddled' : Settling(h)' <=> Settling(h)
    BY <1>2, <1>4 DEF Settling
  <2>. QED  BY <1>1, <1>2, <1>5, <2>1 DEF RequestsTellTheTruth
<1>. QED  BY <1>6, <1>8, <1>9, <1>10, <1>11 DEF RequestsInv

\* Whatever part a step belongs to, the tickets go on telling the truth.
LEMMA RequestsKept ==
    ASSUME JobsOK, RequestsInv, NEW p \in Request, NEW ops, NEW entities, Effect(p, ops, entities)
    PROVE  RequestsInv'
<1>1. Only(p) /\ IsJob(job'[p]) /\ Kind(p)
  BY DEF Effect
<1>. QED  BY <1>1, PlainKeeps, DeletesKeeps, FileKeeps, ReviewKeeps, SettledKeeps, CutOffKeeps
          DEF Kind


-----------------------------------------------------------------------------
(***************************************************************************)
(* The steps of each part are such steps.                                  *)
(***************************************************************************)
LEMMA Still ==
    ASSUME RowsOK, NEW entities, UNCHANGED rows
    PROVE  Grows(entities) /\ UNCHANGED <<ticket, removedBy, muddled>>
  BY DEF RowsOK, rows, Grows

LEMMA Stores ==
    ASSUME RowsOK, NEW entities \in SUBSET Entity, NEW e \in entities, record[e] # "DELETED",
           record' = [record EXCEPT ![e] = "STORED"]
    PROVE  Grows(entities)
  BY DEF RowsOK, Grows

LEMMA Wider ==
    ASSUME NEW p, NEW ops, NEW entities, Effect(p, {}, {})
    PROVE  Effect(p, ops, entities)
  BY DEF Effect

LEMMA WiderOps ==
    ASSUME NEW p, NEW ops, NEW entities, Effect(p, ops, {})
    PROVE  Effect(p, ops, entities)
  BY DEF Effect

LEMMA StaffEffect ==
    ASSUME JobsOK, RowsOK, TicketsName, StaffNext
    PROVE  \E p \in Request : Effect(p, StaffStatements, User)
<1>0. /\ User \in SUBSET Entity
      /\ StaffStatements \subseteq Statements \ Reviews
  BY StaffAssumption DEF StaffStatements, Statements, Reviews
<1>1. PICK p \in Request :
       \/ \E u \in User :
                   \/ CreateUser(p, u) \/ CreateDirector(p, u)
                   \/ \E R \in RoleSets : AskRoles(p, u, R)
                   \/ \E a \in Access : AskAccess(p, u, a)
       \/ \E u \in Handled :
                   \/ LogIn(p, u) \/ BlockUser(p, u) \/ UnblockUser(p, u) \/ ArchiveUser(p, u)
                   \/ CreateCourier(p, u) \/ ArchiveCourier(p, u) \/ DeleteCourier(p, u)
       \/ CheckDirectors(p) \/ WriteRoles(p) \/ SyncCourier(p) \/ WriteAccess(p)
       \/ CheckUser(p) \/ DeleteUser(p)
       \/ StaffCutOff(p)
       \/ DeletionStep(p, User)
  BY DEF StaffNext
<1>2. IsJob(job[p])
  BY DEF JobsOK
<1>3. CASE \E u \in User : CreateUser(p, u) \/ CreateDirector(p, u)
  <2>1. PICK u \in User : CreateUser(p, u) \/ CreateDirector(p, u)
    BY <1>3
  <2>2. /\ AtOnce(p) /\ record' = [record EXCEPT ![u] = "STORED"] /\ record[u] # "DELETED"
        /\ UNCHANGED <<ticket, removedBy, muddled>>
    BY <2>1 DEF CreateUser, CreateDirector
  <2>3. Grows(User)
    BY <1>0, <2>2, Stores
  <2>. QED  BY <2>2, <2>3, AtOnceEffect
<1>4. CASE \E u \in User, R \in RoleSets : AskRoles(p, u, R)
  <2>1. PICK u \in User, R \in RoleSets : AskRoles(p, u, R)
    BY <1>4
  <2>2. Starts(p, "directors", u, None, R) /\ UNCHANGED rows
    BY <2>1 DEF AskRoles
  <2>3. Fits([op |-> "directors", entity |-> u, ticket |-> None, wish |-> R])
    BY DEF Fits, Approving
  <2>4. Effect(p, StaffStatements, {})
    BY <1>0, <2>2, <2>3, StartsEffect DEF StaffStatements
  <2>. QED  BY <2>4, WiderOps
<1>5. CASE \E u \in User, a \in Access : AskAccess(p, u, a)
  <2>1. PICK u \in User, a \in Access : AskAccess(p, u, a)
    BY <1>5
  <2>2. Starts(p, "access", u, None, a) /\ UNCHANGED rows
    BY <2>1 DEF AskAccess
  <2>3. Fits([op |-> "access", entity |-> u, ticket |-> None, wish |-> a])
    BY DEF Fits, Approving
  <2>4. Effect(p, StaffStatements, {})
    BY <1>0, <2>2, <2>3, StartsEffect DEF StaffStatements
  <2>. QED  BY <2>4, WiderOps
<1>6. CASE \E u \in Handled : \/ LogIn(p, u) \/ BlockUser(p, u) \/ UnblockUser(p, u)
                              \/ ArchiveUser(p, u) \/ CreateCourier(p, u) \/ ArchiveCourier(p, u)
                              \/ DeleteCourier(p, u)
  <2>1. AtOnce(p) /\ UNCHANGED rows
    BY <1>6 DEF LogIn, BlockUser, UnblockUser, ArchiveUser, SetAccount, CreateCourier,
       ArchiveCourier, DeleteCourier
  <2>. QED  BY <2>1, Still, AtOnceEffect
<1>7. CASE CheckDirectors(p)
  <2>1. /\ UNCHANGED rows /\ job[p].op = "directors"
        /\ GoesOn(p, "roles") \/ Ends(p)
    BY <1>7 DEF CheckDirectors
  <2>2. Fits([job[p] EXCEPT !.op = "roles"])
    BY <1>2, <2>1 DEF IsJob, Fits, Approving
  <2>3. CASE GoesOn(p, "roles")
    <3>1. Effect(p, StaffStatements, {})
      BY <1>0, <2>1, <2>2, <2>3, GoesOnEffect DEF StaffStatements
    <3>. QED  BY <3>1, WiderOps
  <2>4. CASE Ends(p)
    BY <1>0, <2>1, <2>4, Still, EndsEffect DEF StaffStatements
  <2>. QED  BY <2>1, <2>3, <2>4
<1>8. CASE WriteRoles(p)
  <2>1. /\ UNCHANGED rows /\ job[p].op = "roles"
        /\ GoesOn(p, "sync") \/ Ends(p)
    BY <1>8 DEF WriteRoles
  <2>2. Fits([job[p] EXCEPT !.op = "sync"])
    BY <1>2, <2>1 DEF IsJob, Fits, Approving
  <2>3. CASE GoesOn(p, "sync")
    <3>1. Effect(p, StaffStatements, {})
      BY <1>0, <2>1, <2>2, <2>3, GoesOnEffect DEF StaffStatements
    <3>. QED  BY <3>1, WiderOps
  <2>4. CASE Ends(p)
    BY <1>0, <2>1, <2>4, Still, EndsEffect DEF StaffStatements
  <2>. QED  BY <2>1, <2>3, <2>4
<1>9. CASE SyncCourier(p) \/ WriteAccess(p)
  <2>1. UNCHANGED rows /\ job[p].op \in {"sync", "access"} /\ Ends(p)
    BY <1>9 DEF SyncCourier, WriteAccess
  <2>. QED  BY <1>0, <2>1, Still, EndsEffect DEF StaffStatements
<1>10. CASE CheckUser(p)
  <2>1. /\ UNCHANGED rows /\ job[p].op = "check" /\ job[p].entity \in User
        /\ GoesOn(p, "delete") \/ Ends(p)
    BY <1>10 DEF CheckUser
  <2>2. Fits([job[p] EXCEPT !.op = "delete"])
    BY <1>2, <2>1 DEF IsJob, Fits, Approving
  <2>3. CASE GoesOn(p, "delete")
    <3>1. Effect(p, StaffStatements, {})
      BY <1>0, <2>1, <2>2, <2>3, GoesOnEffect DEF StaffStatements
    <3>. QED  BY <3>1, WiderOps
  <2>4. CASE Ends(p)
    BY <1>0, <2>1, <2>4, Still, EndsEffect
  <2>. QED  BY <2>1, <2>3, <2>4
<1>11. CASE DeleteUser(p)
  <2>1. /\ job[p].op = "delete" /\ UNCHANGED <<ticket, muddled>>
        /\ \/ Stored(job[p].entity) /\ RecordDeleted(p)
           \/ Ends(p) /\ UNCHANGED <<record, removedBy>>
    BY <1>11 DEF DeleteUser
  <2>2. job[p].entity \in User
    BY <1>2, <2>1 DEF IsJob, Fits
  <2>3. CASE Stored(job[p].entity) /\ RecordDeleted(p)
    <3>1. Deletes(p)
      BY <2>1, <2>3 DEF Deletes
    <3>. QED  BY <2>1, <2>2, <3>1, DeletesEffect DEF StaffStatements
  <2>4. CASE Ends(p) /\ UNCHANGED <<record, removedBy>>
    <3>1. UNCHANGED rows
      BY <2>1, <2>4 DEF rows
    <3>. QED  BY <1>0, <2>1, <2>4, <3>1, Still, EndsEffect DEF StaffStatements
  <2>. QED  BY <2>1, <2>3, <2>4
<1>12. CASE StaffCutOff(p)
  <2>1. Effect(p, StaffStatements, {})
    BY <1>0, <1>12, CutOffEffect DEF StaffCutOff
  <2>. QED  BY <2>1, WiderOps
<1>13. CASE DeletionStep(p, User)
  BY <1>0, <1>13, DeletionEffect, Wider
<1>. QED  BY <1>1, <1>3, <1>4, <1>5, <1>6, <1>7, <1>8, <1>9, <1>10, <1>11, <1>12, <1>13


LEMMA CatalogEffect ==
    ASSUME JobsOK, RowsOK, TicketsName, CreatesOfLiveParts, CatalogNext
    PROVE  \E p \in Request : Effect(p, CatalogStatements, Part \cup Item)
<1>0. /\ Part \cup Item \in SUBSET Entity /\ Erasable \in SUBSET Entity
      /\ CatalogStatements \subseteq Statements \ Reviews
  BY CatalogAssumption DEF CatalogStatements, Statements, Reviews, Erasable, Part
<1>1. PICK p \in Request :
       \/ \E c \in Category, d \in Category \cup {None} : CreateCategory(p, c, d)
       \/ \E x \in Part :
             \/ CreateUnit(p, x) \/ CreateInventoryPolicy(p, x)
             \/ ArchiveCategory(p, x) \/ ArchiveUnit(p, x) \/ ArchiveInventoryPolicy(p, x)
       \/ \E i \in Item :
             \/ ArchiveItem(p, i) \/ UseItem(p, i) \/ AskSale(p, i)
             \/ \E parts \in ItemParts : AskItem(p, i, parts)
       \/ \E b \in Bouquet, C \in SUBSET (Item \ Bouquet) : AskRecipe(p, b, C)
       \/ InsertItem(p) \/ WriteArchive(p) \/ InsertSale(p) \/ ClearRecipe(p) \/ FillRecipe(p)
       \/ CheckRecord(p) \/ RemoveRecord(p)
       \/ CatalogCutOff(p)
       \/ DeletionStep(p, Erasable)
  BY DEF CatalogNext
<1>2. IsJob(job[p])
  BY DEF JobsOK
<1>3. CASE \/ \E c \in Category, d \in Category \cup {None} : CreateCategory(p, c, d)
           \/ \E x \in Part : CreateUnit(p, x) \/ CreateInventoryPolicy(p, x)
  <2>1. PICK x \in Part : /\ AtOnce(p) /\ record' = [record EXCEPT ![x] = "STORED"]
                          /\ record[x] # "DELETED"
                          /\ UNCHANGED <<ticket, removedBy, muddled>>
    BY <1>3 DEF CreateCategory, CreateUnit, CreateInventoryPolicy, CreatePart, Part
  <2>2. Grows(Part \cup Item)
    BY <1>0, <2>1, Stores
  <2>. QED  BY <2>1, <2>2, AtOnceEffect
<1>4. CASE \E x \in Part : ArchiveCategory(p, x) \/ ArchiveUnit(p, x) \/ ArchiveInventoryPolicy(p, x)
  <2>1. PICK x \in Part : AskArchive(p, x)
    BY <1>4 DEF ArchiveCategory, ArchiveUnit, ArchiveInventoryPolicy
  <2>2. Starts(p, "archive", x, None, None) /\ UNCHANGED rows
    BY <2>1 DEF AskArchive
  <2>3. Fits([op |-> "archive", entity |-> x, ticket |-> None, wish |-> None])
    BY DEF Fits, Approving
  <2>4. Effect(p, CatalogStatements, {})
    BY <1>0, <2>2, <2>3, StartsEffect DEF CatalogStatements
  <2>. QED  BY <2>4, WiderOps
<1>5. CASE \E i \in Item, parts \in ItemParts : AskItem(p, i, parts)
  <2>1. PICK i \in Item, parts \in ItemParts : AskItem(p, i, parts)
    BY <1>5
  <2>2. Starts(p, "insert", i, None, parts) /\ UNCHANGED rows
    BY <2>1 DEF AskItem
  <2>3. Fits([op |-> "insert", entity |-> i, ticket |-> None, wish |-> parts])
    BY DEF Fits, Approving
  <2>4. Effect(p, CatalogStatements, {})
    BY <1>0, <2>2, <2>3, StartsEffect DEF CatalogStatements
  <2>. QED  BY <2>4, WiderOps
<1>6. CASE \E i \in Item : ArchiveItem(p, i) \/ UseItem(p, i)
  <2>1. AtOnce(p) /\ UNCHANGED rows
    BY <1>6 DEF ArchiveItem, UseItem
  <2>. QED  BY <2>1, Still, AtOnceEffect
<1>7. CASE \E b \in Bouquet, C \in SUBSET (Item \ Bouquet) : AskRecipe(p, b, C)
  <2>1. PICK b \in Bouquet, C \in SUBSET (Item \ Bouquet) : AskRecipe(p, b, C)
    BY <1>7
  <2>2. Starts(p, "clear", b, None, C) /\ UNCHANGED rows
    BY <2>1 DEF AskRecipe
  <2>3. Fits([op |-> "clear", entity |-> b, ticket |-> None, wish |-> C])
    BY DEF Fits, Approving
  <2>4. Effect(p, CatalogStatements, {})
    BY <1>0, <2>2, <2>3, StartsEffect DEF CatalogStatements
  <2>. QED  BY <2>4, WiderOps
<1>8. CASE InsertItem(p)
  <2>1. /\ job[p].op = "insert" /\ Ends(p) /\ UNCHANGED <<ticket, removedBy, muddled>>
        /\ \/ /\ \A x \in job[p].wish : record[x] # "DELETED"
              /\ record' = [e \in Entity |-> IF e \in job[p].wish \cup {job[p].entity}
                                             THEN "STORED" ELSE record[e]]
           \/ UNCHANGED record
    BY <1>8 DEF InsertItem
  <2>2. job[p].wish \subseteq Part /\ job[p].entity \in Item
    BY <1>2, <2>1 DEF IsJob, Fits, ItemParts, Part
  <2>3. record[job[p].entity] # "DELETED"
    BY <2>1, <2>2 DEF CreatesOfLiveParts, Creating
  <2>4. Grows(Part \cup Item)
    BY <1>0, <2>1, <2>2, <2>3 DEF Grows, RowsOK
  <2>. QED  BY <1>0, <2>1, <2>4, EndsEffect DEF CatalogStatements
<1>9. CASE WriteArchive(p) \/ FillRecipe(p) \/ InsertSale(p)
  <2>1. UNCHANGED rows /\ job[p].op \in {"archive", "fill", "sell"} /\ Ends(p)
    BY <1>9 DEF WriteArchive, FillRecipe, InsertSale, SaleLeavesAlone
  <2>. QED  BY <1>0, <2>1, Still, EndsEffect DEF CatalogStatements
<1>10. CASE ClearRecipe(p)
  <2>1. PICK lines : lines = [lines |-> job[p].wish, seen |-> Visible(job[p].entity)]
    OBVIOUS
  <2>2. /\ job' = [job EXCEPT ![p] = [@ EXCEPT !.op = "fill", !.wish = lines]]
        /\ job[p].op = "clear" /\ UNCHANGED rows
    BY <1>10, <2>1 DEF ClearRecipe
  <2>3. /\ job[p].entity \in Bouquet /\ job[p].wish \in SUBSET (Item \ Bouquet)
        /\ job[p].ticket = None /\ DOMAIN job[p] = {"op", "entity", "ticket", "wish"}
        /\ DOMAIN job = Request /\ None \notin Ticket
    BY <1>2, <2>2, DeletionsAssumption DEF IsJob, Fits, JobsOK, Approving
  <2>4. /\ DOMAIN job'[p] = {"op", "entity", "ticket", "wish"}
        /\ job'[p].op = "fill" /\ job'[p].wish = lines
        /\ job'[p].entity = job[p].entity /\ job'[p].ticket = None
    BY <2>2, <2>3
  <2>5. IsJob(job'[p])
    BY <2>1, <2>3, <2>4 DEF IsJob, Fits, Approving, Statements, CatalogStatements
  <2>6. Only(p)
    BY <2>2, <2>3 DEF Only
  <2>7. Plain(p)
    BY <2>2, <2>3, <2>4, Still DEF Plain
  <2>8. \A e \in Entity : record'[e] = record[e]
    BY <2>2 DEF rows
  <2>. QED  BY <2>2, <2>4, <2>5, <2>6, <2>7, <2>8 DEF Effect, Kind, CatalogStatements
<1>11. CASE CheckRecord(p)
  <2>1. /\ UNCHANGED rows /\ job[p].op = "check" /\ job[p].entity \in Part \cup Item
        /\ GoesOn(p, "remove") \/ Ends(p)
    BY <1>11 DEF CheckRecord, Erasable, Part
  <2>2. Fits([job[p] EXCEPT !.op = "remove"])
    BY <1>2, <2>1 DEF IsJob, Fits, Approving
  <2>3. CASE GoesOn(p, "remove")
    <3>1. Effect(p, CatalogStatements, {})
      BY <1>0, <2>1, <2>2, <2>3, GoesOnEffect DEF CatalogStatements
    <3>. QED  BY <3>1, WiderOps
  <2>4. CASE Ends(p)
    BY <1>0, <2>1, <2>4, Still, EndsEffect
  <2>. QED  BY <2>1, <2>3, <2>4
<1>12. CASE RemoveRecord(p)
  <2>1. /\ job[p].op = "remove" /\ UNCHANGED <<ticket, muddled>>
        /\ \/ Stored(job[p].entity) /\ RecordDeleted(p)
           \/ Ends(p) /\ UNCHANGED <<record, removedBy>>
    BY <1>12 DEF RemoveRecord
  <2>2. job[p].entity \in Part \cup Item
    BY <1>2, <2>1 DEF IsJob, Fits
  <2>3. CASE Stored(job[p].entity) /\ RecordDeleted(p)
    <3>1. Deletes(p)
      BY <2>1, <2>3 DEF Deletes
    <3>. QED  BY <2>1, <2>2, <3>1, DeletesEffect DEF CatalogStatements
  <2>4. CASE Ends(p) /\ UNCHANGED <<record, removedBy>>
    <3>1. UNCHANGED rows
      BY <2>1, <2>4 DEF rows
    <3>. QED  BY <1>0, <2>1, <2>4, <3>1, Still, EndsEffect DEF CatalogStatements
  <2>. QED  BY <2>1, <2>3, <2>4
<1>13. CASE CatalogCutOff(p)
  <2>1. Effect(p, CatalogStatements, {})
    BY <1>0, <1>13, CutOffEffect DEF CatalogCutOff
  <2>. QED  BY <2>1, WiderOps
<1>14. CASE DeletionStep(p, Erasable)
  BY <1>0, <1>14, DeletionEffect, Wider
<1>15. CASE \E i \in Item : AskSale(p, i)
  <2>1. PICK i \in Item : AskSale(p, i)
    BY <1>15
  <2>2. Starts(p, "sell", i, None, None) /\ UNCHANGED rows
    BY <2>1 DEF AskSale, SaleLeavesAlone
  <2>3. Fits([op |-> "sell", entity |-> i, ticket |-> None, wish |-> None])
    BY DEF Fits, Approving
  <2>4. Effect(p, CatalogStatements, {})
    BY <1>0, <2>2, <2>3, StartsEffect DEF CatalogStatements
  <2>. QED  BY <2>4, WiderOps
<1>. QED  BY <1>1, <1>3, <1>4, <1>5, <1>6, <1>7, <1>8, <1>9, <1>10, <1>11, <1>12, <1>13, <1>14,
             <1>15

LEMMA ContactsEffect ==
    ASSUME JobsOK, RowsOK, TicketsName, ContactsNext
    PROVE  \E p \in Request : Effect(p, ContactStatements, Contact)
<1>0. /\ Contact \in SUBSET Entity /\ Customer \subseteq Contact
      /\ ContactStatements \subseteq Statements \ Reviews
  BY ContactsAssumption DEF ContactStatements, Statements, Reviews, Contact
<1>1. PICK p \in Request :
       \/ \E e \in Contact :
             \/ CreateSupplier(p, e) \/ CreatePaymentMethod(p, e)
             \/ ArchiveSupplier(p, e) \/ ArchiveCustomer(p, e) \/ ArchivePaymentMethod(p, e)
             \/ AskTake(p, e)
       \/ \E c \in Customer, n \in Phone : CreateCustomer(p, c, n) \/ UpdateCustomer(p, c, n)
       \/ Take(p) \/ CheckContact(p) \/ DeleteContact(p)
       \/ ContactsCutOff(p)
       \/ DeletionStep(p, Contact)
  BY DEF ContactsNext
<1>2. IsJob(job[p])
  BY DEF JobsOK
<1>3. CASE \/ \E e \in Contact : CreateSupplier(p, e) \/ CreatePaymentMethod(p, e)
           \/ \E c \in Customer, n \in Phone : CreateCustomer(p, c, n)
  <2>1. PICK e \in Contact : CreateContact(p, e)
    BY <1>0, <1>3 DEF CreateSupplier, CreatePaymentMethod, CreateCustomer
  <2>2. /\ AtOnce(p) /\ record' = [record EXCEPT ![e] = "STORED"] /\ record[e] # "DELETED"
        /\ UNCHANGED <<ticket, removedBy, muddled>>
    BY <2>1 DEF CreateContact
  <2>3. Grows(Contact)
    BY <1>0, <2>2, Stores
  <2>. QED  BY <2>2, <2>3, AtOnceEffect
<1>4. CASE \/ \E e \in Contact : \/ ArchiveSupplier(p, e) \/ ArchiveCustomer(p, e)
                                 \/ ArchivePaymentMethod(p, e)
           \/ \E c \in Customer, n \in Phone : UpdateCustomer(p, c, n)
  <2>1. AtOnce(p) /\ UNCHANGED rows
    BY <1>4 DEF ArchiveSupplier, ArchiveCustomer, ArchivePaymentMethod, Retire, UpdateCustomer
  <2>. QED  BY <2>1, Still, AtOnceEffect
<1>5. CASE \E e \in Contact : AskTake(p, e)
  <2>1. PICK e \in Contact : AskTake(p, e)
    BY <1>5
  <2>2. Starts(p, "take", e, None, None) /\ UNCHANGED rows
    BY <2>1 DEF AskTake
  <2>3. Fits([op |-> "take", entity |-> e, ticket |-> None, wish |-> None])
    BY DEF Fits, Approving
  <2>4. Effect(p, ContactStatements, {})
    BY <1>0, <2>2, <2>3, StartsEffect DEF ContactStatements
  <2>. QED  BY <2>4, WiderOps
<1>6. CASE Take(p)
  <2>1. UNCHANGED rows /\ job[p].op = "take" /\ Ends(p)
    BY <1>6 DEF Take
  <2>. QED  BY <1>0, <2>1, Still, EndsEffect DEF ContactStatements
<1>7. CASE CheckContact(p)
  <2>1. /\ UNCHANGED rows /\ job[p].op = "check" /\ job[p].entity \in Contact
        /\ GoesOn(p, "forget") \/ Ends(p)
    BY <1>7 DEF CheckContact
  <2>2. Fits([job[p] EXCEPT !.op = "forget"])
    BY <1>2, <2>1 DEF IsJob, Fits, Approving
  <2>3. CASE GoesOn(p, "forget")
    <3>1. Effect(p, ContactStatements, {})
      BY <1>0, <2>1, <2>2, <2>3, GoesOnEffect DEF ContactStatements
    <3>. QED  BY <3>1, WiderOps
  <2>4. CASE Ends(p)
    BY <1>0, <2>1, <2>4, Still, EndsEffect
  <2>. QED  BY <2>1, <2>3, <2>4
<1>8. CASE DeleteContact(p)
  <2>1. /\ job[p].op = "forget" /\ UNCHANGED <<ticket, muddled>>
        /\ \/ Stored(job[p].entity) /\ RecordDeleted(p)
           \/ Ends(p) /\ UNCHANGED <<record, removedBy>>
    BY <1>8 DEF DeleteContact
  <2>2. job[p].entity \in Contact
    BY <1>2, <2>1 DEF IsJob, Fits
  <2>3. CASE Stored(job[p].entity) /\ RecordDeleted(p)
    <3>1. Deletes(p)
      BY <2>1, <2>3 DEF Deletes
    <3>. QED  BY <2>1, <2>2, <3>1, DeletesEffect DEF ContactStatements
  <2>4. CASE Ends(p) /\ UNCHANGED <<record, removedBy>>
    <3>1. UNCHANGED rows
      BY <2>1, <2>4 DEF rows
    <3>. QED  BY <1>0, <2>1, <2>4, <3>1, Still, EndsEffect DEF ContactStatements
  <2>. QED  BY <2>1, <2>3, <2>4
<1>9. CASE ContactsCutOff(p)
  <2>1. Effect(p, ContactStatements, {})
    BY <1>0, <1>9, CutOffEffect DEF ContactsCutOff
  <2>. QED  BY <2>1, WiderOps
<1>10. CASE DeletionStep(p, Contact)
  BY <1>0, <1>10, DeletionEffect, Wider
<1>. QED  BY <1>1, <1>3, <1>4, <1>5, <1>6, <1>7, <1>8, <1>9, <1>10

LEMMA PremisesEffect ==
    ASSUME JobsOK, RowsOK, PremisesNext
    PROVE  \E p \in Request : Effect(p, PremisesStatements, {})
<1>0. PremisesStatements \subseteq Statements \ Reviews
  BY DEF PremisesStatements, Statements, Reviews
<1>1. PICK p \in Request :
       \/ ArchiveOrganization(p)
       \/ \E s \in Shop : AskStore(p, s) \/ ArchiveStore(p, s)
       \/ OpenStore(p)
       \/ \E sent \in Key \cup {None, "same"} : AskSettings(p, sent)
       \/ SaveSettings(p)
       \/ PremisesCutOff(p)
  BY DEF PremisesNext
<1>2. CASE ArchiveOrganization(p) \/ \E s \in Shop : ArchiveStore(p, s)
  <2>1. AtOnce(p) /\ UNCHANGED rows
    BY <1>2 DEF ArchiveOrganization, ArchiveStore
  <2>. QED  BY <2>1, Still, AtOnceEffect
<1>3. CASE \E s \in Shop : AskStore(p, s)
  <2>1. PICK s \in Shop : AskStore(p, s)
    BY <1>3
  <2>2. Starts(p, "open", None, None, s) /\ UNCHANGED rows
    BY <2>1 DEF AskStore
  <2>3. Fits([op |-> "open", entity |-> None, ticket |-> None, wish |-> s])
    BY DEF Fits, Approving
  <2>. QED  BY <1>0, <2>2, <2>3, StartsEffect DEF PremisesStatements
<1>4. CASE \E sent \in Key \cup {None, "same"} : AskSettings(p, sent)
  <2>1. PICK wish : Starts(p, "settings", None, None, wish) /\ UNCHANGED rows
    BY <1>4 DEF AskSettings
  <2>2. Fits([op |-> "settings", entity |-> None, ticket |-> None, wish |-> wish])
    BY DEF Fits, Approving
  <2>. QED  BY <1>0, <2>1, <2>2, StartsEffect DEF PremisesStatements
<1>5. CASE OpenStore(p) \/ SaveSettings(p)
  <2>1. UNCHANGED rows /\ job[p].op \in {"open", "settings"} /\ Ends(p)
    BY <1>5 DEF OpenStore, SaveSettings, Saving
  <2>. QED  BY <1>0, <2>1, Still, EndsEffect DEF PremisesStatements
<1>6. CASE PremisesCutOff(p)
  BY <1>0, <1>6, CutOffEffect DEF PremisesCutOff
<1>. QED  BY <1>1, <1>2, <1>3, <1>4, <1>5, <1>6


\* What the beginning, the end or the next statement of a request does to it.
LEMMA StartsJob ==
    ASSUME JobsOK, NEW p \in Request, NEW op, NEW e, NEW k, NEW wish, Starts(p, op, e, k, wish)
    PROVE  /\ job[p].op = "idle" /\ job'[p].op = op /\ job'[p].entity = e /\ job'[p].ticket = k
           /\ job'[p].wish = wish /\ \A q \in Request \ {p} : job'[q] = job[q]
<1> DEFINE r == [op |-> op, entity |-> e, ticket |-> k, wish |-> wish]
<1>1. job[p] = Idle /\ job' = [job EXCEPT ![p] = r] /\ DOMAIN job = Request
  BY DEF Starts, Arrives, JobsOK
<1>2. r.op = op /\ r.entity = e /\ r.ticket = k /\ r.wish = wish /\ Idle.op = "idle"
  BY DEF Idle
<1> HIDE DEF r
<1>. QED  BY <1>1, <1>2

LEMMA AtOnceJob ==
    ASSUME JobsOK, NEW p \in Request, AtOnce(p)
    PROVE  /\ job[p].op = "idle" /\ job'[p].op = "over"
           /\ \A q \in Request \ {p} : job'[q] = job[q]
  BY DEF JobsOK, AtOnce, Arrives, Over, Idle

LEMMA EndsJob ==
    ASSUME JobsOK, NEW p \in Request, Ends(p)
    PROVE  job'[p].op = "over" /\ \A q \in Request \ {p} : job'[q] = job[q]
  BY DEF JobsOK, Ends, Over, Idle

LEMMA GoesOnJob ==
    ASSUME JobsOK, NEW p \in Request, NEW op, GoesOn(p, op)
    PROVE  /\ job'[p].op = op /\ job'[p].entity = job[p].entity /\ job'[p].wish = job[p].wish
           /\ job'[p].ticket = job[p].ticket /\ \A q \in Request \ {p} : job'[q] = job[q]
  BY DEF JobsOK, IsJob, GoesOn

\* A step of another part moves none of this part's requests.
LEMMA Apart ==
    ASSUME NEW p \in Request, NEW ops, NEW entities, Effect(p, ops, entities),
           NEW mine, mine \cap (ops \cup Reviews \cup {"idle", "over"}) = {}
    PROVE  \A q \in Request : job[q].op \in mine \/ job'[q].op \in mine => job'[q] = job[q]
  BY DEF Effect, Only

-----------------------------------------------------------------------------
(***************************************************************************)
(* The staff stay in order: a step that leaves their roles, stores and     *)
(* profiles alone, and then each of their own.                             *)
(***************************************************************************)
LEMMA StaffLeftAlone ==
    ASSUME JobsOK, StaffInv, RowsOK', NEW p \in Request, NEW ops, NEW entities, Effect(p, ops, entities),
           ops \cap StaffStatements = {}, entities \cap User = {},
           account' \in [User -> {"ACTIVE", "BLOCKED", "ARCHIVED"}], session' \in [User -> BOOLEAN],
           UNCHANGED <<roles, access, profile, blind, mixed, strayed>>
    PROVE  StaffInv'
<1>1. \A q \in Request : job[q].op \in StaffStatements \/ job'[q].op \in StaffStatements
         => job'[q] = job[q]
  <2>1. StaffStatements \cap (ops \cup Reviews \cup {"idle", "over"}) = {}
    BY DEF StaffStatements, Reviews
  <2>. QED  BY <2>1, Apart
<1>2. \A u \in User : record'[u] = record[u]
  BY StaffAssumption DEF Effect
<1>3. /\ roles' = roles /\ access' = access /\ profile' = profile /\ blind' = blind
      /\ mixed' = mixed /\ strayed' = strayed
  OBVIOUS
<1>4. \A q \in Request :
         /\ RemovesDirector(q)' <=> RemovesDirector(q)
         /\ RemovesDirector(q) => job'[q] = job[q]
         /\ job'[q].op = "sync" <=> job[q].op = "sync"
         /\ job[q].op = "sync" => job'[q] = job[q]
  BY <1>1 DEF RemovesDirector, StaffStatements
<1>5. \A q \in Request, u \in User :
         /\ ChangesRoles(q, u)' <=> ChangesRoles(q, u)
         /\ ChangesRoles(q, u) => job'[q] = job[q]
         /\ ChangesAccess(q, u)' <=> ChangesAccess(q, u)
         /\ ChangesAccess(q, u) => job'[q] = job[q]
         /\ Syncs(q, u)' <=> Syncs(q, u)
  BY <1>1 DEF ChangesRoles, ChangesAccess, Syncs, StaffStatements
<1>6. StaffTypeOK'
  BY <1>3 DEF StaffInv, StaffTypeOK, RowsOK
<1>7. UnbornHaveNothing'
  BY <1>2, <1>3, <1>5 DEF StaffInv, UnbornHaveNothing
<1>8. OneLeaves'
  <2>1. Directors' = Directors
    BY <1>3 DEF Directors
  <2>. QED  BY <1>3, <1>4, <2>1 DEF StaffInv, OneLeaves
<1>9. WishesFit'
  BY <1>2, <1>3, <1>5 DEF StaffInv, WishesFit, FloristBound, Stored
<1>10. StaffIsInOrder'
  <2>1. DirectorRemains' /\ FloristsHaveStores'
    BY <1>2, <1>3 DEF StaffInv, StaffIsInOrder, DirectorRemains, Directors, FloristsHaveStores,
                      FloristBound, Stored
  <2>2. CouriersFollowRoles'
    BY <1>2, <1>3, <1>4 DEF StaffInv, StaffIsInOrder, CouriersFollowRoles, Stored
  <2>. QED  BY <2>1, <2>2 DEF StaffIsInOrder
<1>. QED  BY <1>6, <1>7, <1>8, <1>9, <1>10 DEF StaffInv


\* A user or a director is created: nothing is under way for somebody new, and
\* a director more leaves all else as it was.
LEMMA CreateKeeps ==
    ASSUME JobsOK, StaffInv, RowsOK, NEW p \in Request, NEW u \in User,
           CreateUser(p, u) \/ CreateDirector(p, u)
    PROVE  StaffInv'
<1>1. /\ AtOnce(p) /\ record' = [record EXCEPT ![u] = "STORED"] /\ record[u] # "DELETED"
      /\ \/ roles' = roles /\ record[u] = "UNBORN"
         \/ roles' = [roles EXCEPT ![u] = @ \cup {"DIRECTOR"}]
      /\ account' = account /\ session' = session /\ access' = access /\ profile' = profile
      /\ blind' = blind /\ mixed' = mixed /\ strayed' = strayed
  BY DEF CreateUser, CreateDirector, staffVars
<1>2. /\ StaffTypeOK /\ UnbornHaveNothing /\ OneLeaves /\ WishesFit
      /\ DirectorRemains /\ FloristsHaveStores /\ CouriersFollowRoles
  BY DEF StaffInv, StaffIsInOrder
<1>3. job[p].op = "idle" /\ job'[p].op = "over" /\ \A q \in Request \ {p} : job'[q] = job[q]
  BY <1>1, AtOnceJob
<1>4. /\ \A v \in User : v # u => record'[v] = record[v] /\ roles'[v] = roles[v]
      /\ record'[u] = "STORED" /\ roles[u] \subseteq roles'[u]
      /\ roles'[u] \subseteq roles[u] \cup {"DIRECTOR"}
  BY <1>1, <1>2, StaffAssumption DEF StaffTypeOK
<1>5. \A q \in Request :
         /\ RemovesDirector(q)' <=> RemovesDirector(q)
         /\ RemovesDirector(q) => job'[q] = job[q]
         /\ job'[q].op = "sync" <=> job[q].op = "sync"
         /\ job[q].op = "sync" => job'[q] = job[q]
  BY <1>3 DEF RemovesDirector
<1>6. \A q \in Request, v \in User :
         /\ ChangesRoles(q, v)' <=> ChangesRoles(q, v)
         /\ ChangesRoles(q, v) => job'[q] = job[q]
         /\ ChangesAccess(q, v)' <=> ChangesAccess(q, v)
         /\ ChangesAccess(q, v) => job'[q] = job[q]
         /\ Syncs(q, v)' <=> Syncs(q, v)
  BY <1>3 DEF ChangesRoles, ChangesAccess, Syncs
<1>7. StaffTypeOK'
  BY <1>1, <1>2, StaffAssumption DEF StaffTypeOK
<1>8. UnbornHaveNothing'
  BY <1>1, <1>2, <1>4, <1>6 DEF UnbornHaveNothing
<1>9. Directors \subseteq Directors'
  BY <1>4 DEF Directors
<1>10. OneLeaves'
  BY <1>1, <1>2, <1>5, <1>9 DEF OneLeaves
<1>11. \A v \in User : "FLORIST" \in roles'[v] <=> "FLORIST" \in roles[v]
  BY <1>4
<1>12. \A v \in User : record'[v] = "STORED" =>
          \/ record[v] = "STORED"
          \/ /\ roles[v] = {} /\ profile[v] = "NONE"
             /\ \A q \in Request : ~ChangesRoles(q, v) /\ ~ChangesAccess(q, v)
  <2>1. u \in Entity /\ record[u] \in {"UNBORN", "STORED"}
    BY <1>1, <1>2, StaffAssumption DEF StaffTypeOK
  <2>. QED  BY <2>1, <1>2, <1>4 DEF UnbornHaveNothing, ChangesRoles, Syncs
<1>13. WishesFit' /\ FloristsHaveStores'
  <2>1. ASSUME NEW v \in User \ mixed, record'[v] = "STORED"
        PROVE  /\ FloristBound(roles'[v], access[v])
               /\ \A q \in Request :
                    /\ ChangesRoles(q, v)' => FloristBound(job'[q].wish, access[v])
                    /\ ChangesAccess(q, v)' => FloristBound(roles'[v], job'[q].wish)
                    /\ \A r \in Request : ~(ChangesRoles(q, v)' /\ ChangesAccess(r, v)')
    <3>1. CASE record[v] = "STORED"
      BY <2>1, <3>1, <1>2, <1>6, <1>11 DEF WishesFit, FloristsHaveStores, FloristBound, Stored
    <3>2. CASE record[v] # "STORED"
      BY <2>1, <3>2, <1>6, <1>11, <1>12 DEF FloristBound
    <3>. QED  BY <3>1, <3>2
  <2>. QED  BY <2>1, <1>1 DEF WishesFit, FloristsHaveStores, Stored
<1>14. DirectorRemains'
  BY <1>1, <1>2, <1>9 DEF DirectorRemains
<1>15. CouriersFollowRoles'
  <2>1. ASSUME NEW v \in User \ strayed, record'[v] = "STORED",
               ~\E q \in Request : job'[q].op = "sync" /\ job'[q].entity = v
        PROVE  profile[v] = "ACTIVE" <=> "COURIER" \in roles'[v]
    <3>1. "COURIER" \in roles'[v] <=> "COURIER" \in roles[v]
      BY <1>4
    <3>2. CASE record[v] = "STORED"
      BY <2>1, <3>1, <3>2, <1>2, <1>5 DEF CouriersFollowRoles, Stored
    <3>3. CASE record[v] # "STORED"
      BY <2>1, <3>1, <3>3, <1>12
    <3>. QED  BY <3>2, <3>3
  <2>. QED  BY <2>1, <1>1 DEF CouriersFollowRoles, Stored
<1>. QED  BY <1>2, <1>7, <1>8, <1>10, <1>12, <1>13, <1>14, <1>15 DEF StaffInv, StaffIsInOrder

\* assignRoles begins: what it has read of the stores holds, and who was reading
\* the roles for new stores is mixed with it.
LEMMA AskRolesKeeps ==
    ASSUME JobsOK, StaffInv, NEW p \in Request, NEW u \in User, NEW R \in RoleSets,
           AskRoles(p, u, R)
    PROVE  StaffInv'
<1>1. /\ Starts(p, "directors", u, None, R) /\ Stored(u) /\ FloristBound(R, access[u])
      /\ mixed' = IF \E q \in Request : ChangesAccess(q, u) THEN mixed \cup {u} ELSE mixed
      /\ strayed' = IF \E q \in Request : Syncs(q, u) THEN strayed \cup {u} ELSE strayed
      /\ record' = record /\ roles' = roles
      /\ account' = account /\ session' = session /\ access' = access /\ profile' = profile
      /\ blind' = blind
  BY DEF AskRoles, RolesFit, rows
<1>2. /\ StaffTypeOK /\ UnbornHaveNothing /\ OneLeaves /\ WishesFit
      /\ DirectorRemains /\ FloristsHaveStores /\ CouriersFollowRoles
  BY DEF StaffInv, StaffIsInOrder
<1>3. /\ job[p].op = "idle" /\ job'[p].op = "directors" /\ job'[p].entity = u /\ job'[p].wish = R
      /\ \A q \in Request \ {p} : job'[q] = job[q]
  BY <1>1, StartsJob
<1>4. mixed \subseteq mixed' /\ strayed \subseteq strayed' /\ mixed' \subseteq User
      /\ strayed' \subseteq User
  BY <1>1, <1>2 DEF StaffTypeOK
<1>5. StaffTypeOK'
  BY <1>1, <1>2, <1>4 DEF StaffTypeOK
<1>6. UnbornHaveNothing'
  BY <1>1, <1>2, <1>3 DEF UnbornHaveNothing, Stored, Syncs, ChangesAccess
<1>7. Directors' = Directors
  BY <1>1 DEF Directors
<1>8. OneLeaves'
  <2>1. \A q \in Request : /\ RemovesDirector(q)' <=> RemovesDirector(q)
                           /\ RemovesDirector(q) => job'[q] = job[q]
    BY <1>3 DEF RemovesDirector
  <2>. QED  BY <1>1, <1>2, <1>7, <2>1 DEF OneLeaves
<1>9. WishesFit'
  <2>1. ASSUME NEW v \in User \ mixed', NEW q \in Request, Stored(v)
        PROVE  /\ ChangesRoles(q, v)' => FloristBound(job'[q].wish, access[v])
               /\ ChangesAccess(q, v)' => FloristBound(roles[v], job'[q].wish)
               /\ \A r \in Request : ~(ChangesRoles(q, v)' /\ ChangesAccess(r, v)')
    <3>1. \A r \in Request : ChangesAccess(r, v)' => job'[r] = job[r] /\ ChangesAccess(r, v)
      BY <1>3 DEF ChangesAccess
    <3>2. CASE q = p /\ v = u
      <4>1. \A r \in Request : ~ChangesAccess(r, u)
        BY <2>1, <3>2, <1>1
      <4>. QED  BY <4>1, <3>1, <3>2, <1>1, <1>3
    <3>3. CASE q = p /\ v # u
      BY <3>1, <3>3, <1>3 DEF ChangesRoles, ChangesAccess
    <3>4. CASE q # p
      <4>1. v \notin mixed /\ job'[q] = job[q] /\ (ChangesRoles(q, v)' <=> ChangesRoles(q, v))
        BY <2>1, <3>4, <1>3, <1>4 DEF ChangesRoles
      <4>. QED  BY <2>1, <4>1, <3>1, <1>2 DEF WishesFit
    <3>. QED  BY <3>2, <3>3, <3>4
  <2>. QED  BY <2>1, <1>1 DEF WishesFit, Stored
<1>10. DirectorRemains' /\ FloristsHaveStores'
  BY <1>1, <1>2, <1>4, <1>7 DEF DirectorRemains, FloristsHaveStores, FloristBound, Stored
<1>11. CouriersFollowRoles'
  <2>1. \A q \in Request : job[q].op = "sync" => job'[q] = job[q]
    BY <1>3
  <2>. QED  BY <1>1, <1>2, <1>4, <2>1 DEF CouriersFollowRoles, Stored
<1>. QED  BY <1>5, <1>6, <1>8, <1>9, <1>10, <1>11 DEF StaffInv, StaffIsInOrder


\* Of two directors, one stays.
LEMMA AnotherStays ==
    ASSUME SpareDirector, NEW u
    PROVE  Directors \ {u} # {}
<1>1. SUFFICES ASSUME Directors \ {u} = {}
               PROVE  FALSE
  OBVIOUS
<1>2. Directors \subseteq {u} /\ IsFiniteSet({u}) /\ Cardinality({u}) = 1
  BY <1>1, FS_Singleton
<1>3. IsFiniteSet(Directors) /\ Cardinality(Directors) <= 1
  BY <1>2, FS_Subset
<1>4. Cardinality(Directors) \in Nat
  BY <1>3, FS_CardinalityType
<1>. QED  BY <1>3, <1>4 DEF SpareDirector

\* The directors are counted, for roles without theirs or for a deletion.
LEMMA CountKeeps ==
    ASSUME JobsOK, StaffInv, NEW p \in Request, CheckDirectors(p) \/ CheckUser(p)
    PROVE  StaffInv'
<1>1. PICK u : u = job[p].entity
  OBVIOUS
<1>2. /\ record' = record /\ roles' = roles
      /\ account' = account /\ session' = session /\ access' = access /\ profile' = profile
      /\ mixed' = mixed /\ strayed' = strayed
  BY DEF CheckDirectors, CheckUser, rows
<1>3. /\ StaffTypeOK /\ UnbornHaveNothing /\ OneLeaves /\ WishesFit
      /\ DirectorRemains /\ FloristsHaveStores /\ CouriersFollowRoles
  BY DEF StaffInv, StaffIsInOrder
<1>4. job[p].op \in {"directors", "check"}
  BY DEF CheckDirectors, CheckUser
<1>5. PICK op : \/ op = "over" /\ Ends(p) /\ blind' = blind
                \/ /\ op = "roles" /\ GoesOn(p, op) /\ job[p].op = "directors"
                   /\ "DIRECTOR" \in job[p].wish /\ blind' = blind
                \/ /\ op = "roles" /\ GoesOn(p, op) /\ job[p].op = "directors"
                   /\ "DIRECTOR" \notin job[p].wish /\ PassedTogether(p)
                   /\ "DIRECTOR" \in roles[u] => SpareDirector
                \/ /\ op = "delete" /\ GoesOn(p, op) /\ job[p].op = "check"
                   /\ PassedTogether(p)
                   /\ "DIRECTOR" \in roles[u] => SpareDirector
  <2>1. CASE CheckDirectors(p)
    BY <2>1, <1>1 DEF CheckDirectors, KeepsDirector
  <2>2. CASE CheckUser(p)
    BY <2>2, <1>1 DEF CheckUser, MayLeave
  <2>. QED  BY <2>1, <2>2
<1>6. /\ job'[p].op = op /\ \A q \in Request \ {p} : job'[q] = job[q]
      /\ op # "over" => job'[p].entity = u /\ job'[p].wish = job[p].wish
  BY <1>1, <1>5, EndsJob, GoesOnJob
<1>7. \A q \in Request :
         /\ job'[q].op = "sync" => job[q].op = "sync"
         /\ job[q].op = "sync" => job'[q] = job[q]
  BY <1>4, <1>5, <1>6
<1>8. \A q \in Request, v \in User :
         /\ ChangesRoles(q, v)' => ChangesRoles(q, v) /\ job'[q].wish = job[q].wish
         /\ ChangesAccess(q, v)' => ChangesAccess(q, v) /\ job'[q].wish = job[q].wish
         /\ Syncs(q, v)' => Syncs(q, v)
  BY <1>1, <1>4, <1>5, <1>6 DEF ChangesRoles, ChangesAccess, Syncs
<1>9. StaffTypeOK'
  BY <1>2, <1>3 DEF StaffTypeOK
<1>10. UnbornHaveNothing'
  BY <1>2, <1>3, <1>8 DEF UnbornHaveNothing
<1>11. Directors' = Directors
  BY <1>2 DEF Directors
<1>12. OneLeaves'
  <2>1. ASSUME ~blind', NEW q \in Request, RemovesDirector(q)'
        PROVE  /\ Directors \ {job'[q].entity} # {}
               /\ \A r \in Request : RemovesDirector(r)' => r = q
    <3>1. ~blind /\ Directors # {}
      <4>1. blind' = blind \/ PassedTogether(p)
        BY <1>5
      <4>2. ~blind
        BY <2>1, <4>1 DEF PassedTogether
      <4>. QED  BY <4>2, <1>3 DEF DirectorRemains
    <3>2. \A r \in Request \ {p} : RemovesDirector(r)' <=> RemovesDirector(r)
      BY <1>6 DEF RemovesDirector
    <3>3. CASE RemovesDirector(p)'
      <4>1. PassedTogether(p) /\ ("DIRECTOR" \in roles[u] => SpareDirector) /\ job'[p].entity = u
        BY <3>3, <1>5, <1>6 DEF RemovesDirector
      <4>2. \A r \in Request \ {p} : ~RemovesDirector(r)
        BY <4>1, <2>1 DEF PassedTogether
      <4>3. q = p
        BY <2>1, <3>2, <4>2
      <4>4. Directors \ {u} # {}
        <5>1. CASE "DIRECTOR" \in roles[u]
          BY <4>1, <5>1, AnotherStays
        <5>2. CASE "DIRECTOR" \notin roles[u]
          <6>1. u \notin Directors
            BY <5>2 DEF Directors
          <6>. QED  BY <6>1, <3>1
        <5>. QED  BY <5>1, <5>2
      <4>. QED  BY <3>2, <4>1, <4>2, <4>3, <4>4
    <3>4. CASE ~RemovesDirector(p)'
      <4>1. q # p /\ RemovesDirector(q) /\ job'[q] = job[q]
        BY <2>1, <3>2, <3>4, <1>6
      <4>. QED  BY <4>1, <3>1, <3>2, <3>4, <1>3 DEF OneLeaves
    <3>. QED  BY <3>3, <3>4
  <2>. QED  BY <2>1, <1>11 DEF OneLeaves
<1>13. WishesFit'
  BY <1>2, <1>3, <1>8 DEF WishesFit, FloristBound, Stored
<1>14. DirectorRemains'
  BY <1>3, <1>5, <1>11 DEF DirectorRemains, PassedTogether
<1>15. FloristsHaveStores' /\ CouriersFollowRoles'
  BY <1>2, <1>3, <1>7 DEF FloristsHaveStores, FloristBound, Stored, CouriersFollowRoles
<1>. QED  BY <1>9, <1>10, <1>12, <1>13, <1>14, <1>15 DEF StaffInv, StaffIsInOrder

\* The roles are written: without the director's only where another stays, and
\* fit for the stores as they are.
LEMMA WriteRolesKeeps ==
    ASSUME JobsOK, StaffInv, NEW p \in Request, WriteRoles(p)
    PROVE  StaffInv'
<1>1. PICK u, R : u = job[p].entity /\ R = job[p].wish
  OBVIOUS
<1>2. /\ record' = record
      /\ account' = account /\ session' = session /\ access' = access /\ profile' = profile
      /\ blind' = blind /\ mixed' = mixed /\ strayed' = strayed
  BY DEF WriteRoles, rows
<1>3. /\ StaffTypeOK /\ UnbornHaveNothing /\ OneLeaves /\ WishesFit
      /\ DirectorRemains /\ FloristsHaveStores /\ CouriersFollowRoles
  BY DEF StaffInv, StaffIsInOrder
<1>4. job[p].op = "roles" /\ u \in User /\ R \in RoleSets
  BY <1>1 DEF WriteRoles, JobsOK, IsJob, Fits
<1>5. PICK op : \/ op = "over" /\ Ends(p) /\ roles' = roles /\ ~Stored(u)
                \/ /\ op = "sync" /\ GoesOn(p, op) /\ Stored(u)
                   /\ roles' = [roles EXCEPT ![u] = R]
  BY <1>1 DEF WriteRoles
<1>6. /\ job'[p].op = op /\ \A q \in Request \ {p} : job'[q] = job[q]
      /\ op = "sync" => job'[p].entity = u
  BY <1>1, <1>5, EndsJob, GoesOnJob
<1>7. /\ \A v \in User \ {u} : roles'[v] = roles[v]
      /\ Stored(u) => roles'[u] = R
      /\ ~Stored(u) => roles' = roles
  BY <1>3, <1>4, <1>5 DEF StaffTypeOK
<1>8. StaffTypeOK'
  BY <1>2, <1>3, <1>4, <1>5, StaffAssumption DEF StaffTypeOK
<1>9. UnbornHaveNothing'
  <2>1. \A q \in Request, v \in User : /\ Syncs(q, v)' => Syncs(q, v)
                                       /\ ChangesAccess(q, v)' => ChangesAccess(q, v)
    BY <1>1, <1>4, <1>5, <1>6 DEF Syncs, ChangesAccess
  <2>2. \A v \in User : record[v] = "UNBORN" => roles'[v] = roles[v]
    BY <1>7 DEF Stored
  <2>. QED  BY <2>1, <2>2, <1>2, <1>3 DEF UnbornHaveNothing
<1>10. ~blind => /\ Directors' # {}
                 /\ "DIRECTOR" \in R \/ ~Stored(u) => Directors \subseteq Directors'
                 /\ "DIRECTOR" \notin R => \A q \in Request : RemovesDirector(q) => q = p
  <2>1. SUFFICES ASSUME ~blind
                 PROVE  /\ Directors' # {}
                        /\ "DIRECTOR" \in R \/ ~Stored(u) => Directors \subseteq Directors'
                        /\ "DIRECTOR" \notin R => \A q \in Request : RemovesDirector(q) => q = p
    OBVIOUS
  <2>2. Directors # {}
    BY <2>1, <1>3 DEF DirectorRemains
  <2>3. CASE "DIRECTOR" \in R \/ ~Stored(u)
    <3>1. Directors \subseteq Directors'
      BY <2>3, <1>7 DEF Directors
    <3>2. "DIRECTOR" \notin R => \A q \in Request : RemovesDirector(q) => q = p
      BY <2>1, <1>1, <1>3, <1>4 DEF OneLeaves, RemovesDirector
    <3>. QED  BY <3>1, <3>2, <2>2
  <2>4. CASE "DIRECTOR" \notin R /\ Stored(u)
    <3>1. RemovesDirector(p)
      BY <2>4, <1>1, <1>4 DEF RemovesDirector
    <3>2. Directors \ {u} # {} /\ \A q \in Request : RemovesDirector(q) => q = p
      BY <2>1, <3>1, <1>1, <1>3 DEF OneLeaves
    <3>3. Directors \ {u} \subseteq Directors'
      BY <1>7 DEF Directors
    <3>. QED  BY <2>4, <3>2, <3>3
  <2>. QED  BY <2>3, <2>4
<1>11. OneLeaves'
  <2>1. ASSUME ~blind, NEW q \in Request, RemovesDirector(q)'
        PROVE  /\ Directors' \ {job'[q].entity} # {}
               /\ \A r \in Request : RemovesDirector(r)' => r = q
    <3>1. \A r \in Request : RemovesDirector(r)' => r # p /\ RemovesDirector(r) /\ job'[r] = job[r]
      BY <1>5, <1>6 DEF RemovesDirector
    <3>2. /\ Directors \ {job[q].entity} # {}
          /\ \A r \in Request : RemovesDirector(r) => r = q
      BY <2>1, <3>1, <1>3 DEF OneLeaves
    <3>3. Directors \subseteq Directors'
      BY <2>1, <3>1, <1>10
    <3>. QED  BY <2>1, <3>1, <3>2, <3>3
  <2>. QED  BY <2>1, <1>2 DEF OneLeaves
<1>12. DirectorRemains'
  BY <1>2, <1>10 DEF DirectorRemains
<1>13. WishesFit' /\ FloristsHaveStores'
  <2>1. ASSUME NEW v \in User \ mixed, record[v] = "STORED"
        PROVE  /\ FloristBound(roles'[v], access[v])
               /\ \A q \in Request :
                    /\ ChangesRoles(q, v)' => FloristBound(job'[q].wish, access[v])
                    /\ ChangesAccess(q, v)' => FloristBound(roles'[v], job'[q].wish)
                    /\ \A r \in Request : ~(ChangesRoles(q, v)' /\ ChangesAccess(r, v)')
    <3>1. \A q \in Request :
             /\ ChangesRoles(q, v)' => ChangesRoles(q, v) /\ job'[q] = job[q]
             /\ ChangesAccess(q, v)' => ChangesAccess(q, v) /\ job'[q] = job[q]
      BY <1>5, <1>6 DEF ChangesRoles, ChangesAccess
    <3>2. /\ FloristBound(roles[v], access[v])
          /\ \A q \in Request :
                /\ ChangesRoles(q, v) => FloristBound(job[q].wish, access[v])
                /\ ChangesAccess(q, v) => FloristBound(roles[v], job[q].wish)
                /\ \A r \in Request : ~(ChangesRoles(q, v) /\ ChangesAccess(r, v))
      BY <2>1, <1>3 DEF WishesFit, FloristsHaveStores, Stored
    <3>3. CASE v = u
      <4>1. ChangesRoles(p, v)
        BY <3>3, <1>1, <1>4 DEF ChangesRoles
      <4>. QED  BY <2>1, <3>1, <3>2, <3>3, <4>1, <1>1, <1>7 DEF Stored
    <3>4. CASE v # u
      BY <3>1, <3>2, <3>4, <1>7
    <3>. QED  BY <3>3, <3>4
  <2>. QED  BY <2>1, <1>2 DEF WishesFit, FloristsHaveStores, Stored
<1>14. CouriersFollowRoles'
  <2>1. ASSUME NEW v \in User \ strayed, record[v] = "STORED",
               ~\E q \in Request : job'[q].op = "sync" /\ job'[q].entity = v
        PROVE  profile[v] = "ACTIVE" <=> "COURIER" \in roles'[v]
    <3>1. v # u
      BY <2>1, <1>5, <1>6 DEF Stored
    <3>2. ~\E q \in Request : job[q].op = "sync" /\ job[q].entity = v
      BY <2>1, <1>4, <1>6
    <3>. QED  BY <2>1, <3>1, <3>2, <1>3, <1>7 DEF CouriersFollowRoles, Stored
  <2>. QED  BY <2>1, <1>2 DEF CouriersFollowRoles, Stored
<1>. QED  BY <1>8, <1>9, <1>11, <1>12, <1>13, <1>14 DEF StaffInv, StaffIsInOrder


\* A request ends and leaves the rows as they are; one that was to put a profile
\* right does not end like this.
LEMMA EndKeeps ==
    ASSUME StaffInv, NEW p \in Request, UNCHANGED <<record, staffVars>>,
           job[p].op # "sync", job'[p].op = "over", \A q \in Request \ {p} : job'[q] = job[q]
    PROVE  StaffInv'
<1>1. /\ record' = record /\ roles' = roles
      /\ account' = account /\ session' = session /\ access' = access
      /\ profile' = profile /\ blind' = blind /\ mixed' = mixed /\ strayed' = strayed
  BY DEF staffVars
<1>2. /\ StaffTypeOK /\ UnbornHaveNothing /\ OneLeaves /\ WishesFit
      /\ DirectorRemains /\ FloristsHaveStores /\ CouriersFollowRoles
  BY DEF StaffInv, StaffIsInOrder
<1>3. \A q \in Request :
         /\ RemovesDirector(q)' => RemovesDirector(q) /\ job'[q] = job[q]
         /\ job[q].op = "sync" => job'[q] = job[q]
  BY DEF RemovesDirector
<1>4. \A q \in Request, v \in User :
         /\ ChangesRoles(q, v)' => ChangesRoles(q, v) /\ job'[q] = job[q]
         /\ ChangesAccess(q, v)' => ChangesAccess(q, v) /\ job'[q] = job[q]
         /\ Syncs(q, v)' => Syncs(q, v)
  BY DEF ChangesRoles, ChangesAccess, Syncs
<1>5. StaffTypeOK'
  BY <1>1, <1>2 DEF StaffTypeOK
<1>6. UnbornHaveNothing'
  BY <1>1, <1>2, <1>4 DEF UnbornHaveNothing
<1>7. Directors' = Directors
  BY <1>1 DEF Directors
<1>8. OneLeaves' /\ DirectorRemains'
  BY <1>1, <1>2, <1>3, <1>7 DEF OneLeaves, DirectorRemains
<1>9. WishesFit'
  BY <1>1, <1>2, <1>4 DEF WishesFit, FloristBound, Stored
<1>10. FloristsHaveStores' /\ CouriersFollowRoles'
  BY <1>1, <1>2, <1>3 DEF FloristsHaveStores, FloristBound, Stored, CouriersFollowRoles
<1>. QED  BY <1>5, <1>6, <1>8, <1>9, <1>10 DEF StaffInv, StaffIsInOrder

\* The profile of one member changes with the end of a request, and follows the
\* roles or is known to have strayed.
LEMMA ProfileKeeps ==
    ASSUME StaffInv, NEW p \in Request, NEW u \in User, record[u] # "UNBORN",
           UNCHANGED <<record, roles, account, session, access, blind, mixed>>,
           job[p].op \in {"idle", "sync"}, job'[p].op = "over",
           \A q \in Request \ {p} : job'[q] = job[q],
           job[p].op = "sync" => job[p].entity = u,
           profile' \in [User -> {"NONE", "ACTIVE", "ARCHIVED"}],
           \A v \in User \ {u} : profile'[v] = profile[v],
           strayed' \subseteq User, strayed \ {u} \subseteq strayed',
           u \in strayed' \/ (profile'[u] = "ACTIVE" <=> "COURIER" \in roles[u])
    PROVE  StaffInv'
<1>1. /\ record' = record /\ roles' = roles
      /\ account' = account /\ session' = session /\ access' = access
      /\ blind' = blind /\ mixed' = mixed
  OBVIOUS
<1>2. /\ StaffTypeOK /\ UnbornHaveNothing /\ OneLeaves /\ WishesFit
      /\ DirectorRemains /\ FloristsHaveStores /\ CouriersFollowRoles
  BY DEF StaffInv, StaffIsInOrder
<1>3. \A q \in Request : RemovesDirector(q)' => RemovesDirector(q) /\ job'[q] = job[q]
  BY DEF RemovesDirector
<1>4. \A q \in Request, v \in User :
         /\ ChangesRoles(q, v)' => ChangesRoles(q, v) /\ job'[q] = job[q]
         /\ ChangesAccess(q, v)' => ChangesAccess(q, v) /\ job'[q] = job[q]
         /\ Syncs(q, v)' => Syncs(q, v)
  BY DEF ChangesRoles, ChangesAccess, Syncs
<1>5. StaffTypeOK'
  BY <1>1, <1>2 DEF StaffTypeOK
<1>6. UnbornHaveNothing'
  BY <1>1, <1>2, <1>4 DEF UnbornHaveNothing
<1>7. Directors' = Directors
  BY <1>1 DEF Directors
<1>8. OneLeaves' /\ DirectorRemains'
  BY <1>1, <1>2, <1>3, <1>7 DEF OneLeaves, DirectorRemains
<1>9. WishesFit' /\ FloristsHaveStores'
  BY <1>1, <1>2, <1>4 DEF WishesFit, FloristBound, Stored, FloristsHaveStores
<1>10. CouriersFollowRoles'
  <2>1. ASSUME NEW v \in User \ strayed', record[v] = "STORED",
               ~\E q \in Request : job'[q].op = "sync" /\ job'[q].entity = v
        PROVE  profile'[v] = "ACTIVE" <=> "COURIER" \in roles[v]
    <3>1. CASE v = u
      BY <2>1, <3>1
    <3>2. CASE v # u
      <4>1. ~\E q \in Request : job[q].op = "sync" /\ job[q].entity = v
        BY <2>1, <3>2
      <4>. QED  BY <2>1, <3>2, <4>1, <1>2 DEF CouriersFollowRoles, Stored
    <3>. QED  BY <3>1, <3>2
  <2>. QED  BY <2>1, <1>1 DEF CouriersFollowRoles, Stored
<1>. QED  BY <1>5, <1>6, <1>8, <1>9, <1>10 DEF StaffInv, StaffIsInOrder

LEMMA SyncKeeps ==
    ASSUME JobsOK, StaffInv, NEW p \in Request, SyncCourier(p)
    PROVE  StaffInv'
<1>1. PICK u, R : u = job[p].entity /\ R = job[p].wish
  OBVIOUS
<1>2. /\ job[p].op = "sync" /\ Ends(p)
      /\ profile' = [profile EXCEPT ![u] = Synced(@, "COURIER" \in R)]
      /\ \/ strayed' = strayed \ {u} /\ ("COURIER" \in roles[u] <=> "COURIER" \in R)
         \/ strayed' = strayed \cup {u}
      /\ UNCHANGED <<record, roles, account, session, access, blind, mixed>>
  BY <1>1 DEF SyncCourier, rows
<1>3. u \in User /\ StaffTypeOK /\ UnbornHaveNothing
  BY <1>1, <1>2 DEF JobsOK, IsJob, Fits, StaffInv
<1>4. record[u] # "UNBORN"
  BY <1>1, <1>2, <1>3 DEF UnbornHaveNothing, Syncs
<1>5. job'[p].op = "over" /\ \A q \in Request \ {p} : job'[q] = job[q]
  BY <1>2, EndsJob
<1>6. /\ profile' \in [User -> {"NONE", "ACTIVE", "ARCHIVED"}]
      /\ profile'[u] = "ACTIVE" <=> "COURIER" \in R
      /\ \A v \in User \ {u} : profile'[v] = profile[v]
  BY <1>2, <1>3 DEF Synced, StaffTypeOK
<1>7. strayed' \subseteq User /\ strayed \ {u} \subseteq strayed'
  BY <1>2, <1>3 DEF StaffTypeOK
<1>8. u \in strayed' \/ (profile'[u] = "ACTIVE" <=> "COURIER" \in roles[u])
  BY <1>2, <1>6
<1>. QED  BY <1>1, <1>2, <1>3, <1>4, <1>5, <1>6, <1>7, <1>8, ProfileKeeps

LEMMA ByHandKeeps ==
    ASSUME JobsOK, StaffInv, NEW p \in Request, NEW u \in Handled,
           CreateCourier(p, u) \/ ArchiveCourier(p, u) \/ DeleteCourier(p, u)
    PROVE  StaffInv'
<1>1. u \in User /\ StaffTypeOK /\ UnbornHaveNothing
  BY StaffAssumption DEF StaffInv
<1>2. /\ AtOnce(p) /\ strayed' = strayed \cup {u} /\ record[u] # "UNBORN"
      /\ \E s \in {"NONE", "ACTIVE", "ARCHIVED"} : profile' = [profile EXCEPT ![u] = s]
      /\ UNCHANGED <<record, roles, account, session, access, blind, mixed>>
  BY <1>1 DEF CreateCourier, ArchiveCourier, DeleteCourier, rows, Stored, UnbornHaveNothing
<1>3. /\ job[p].op = "idle" /\ job'[p].op = "over" /\ \A q \in Request \ {p} : job'[q] = job[q]
  BY <1>2, AtOnceJob
<1>4. /\ profile' \in [User -> {"NONE", "ACTIVE", "ARCHIVED"}]
      /\ \A v \in User \ {u} : profile'[v] = profile[v]
      /\ strayed' \subseteq User
  BY <1>1, <1>2 DEF StaffTypeOK
<1>. QED  BY <1>1, <1>2, <1>3, <1>4, ProfileKeeps

LEMMA StaffCutOffKeeps ==
    ASSUME JobsOK, StaffInv, NEW p \in Request, StaffCutOff(p)
    PROVE  StaffInv'
<1>1. /\ Ends(p) /\ UNCHANGED <<record, account, session, roles, access, profile, blind, mixed>>
      /\ strayed' = IF job[p].op = "sync" THEN strayed \cup {job[p].entity} ELSE strayed
  BY DEF StaffCutOff, CutOff
<1>2. job'[p].op = "over" /\ \A q \in Request \ {p} : job'[q] = job[q]
  BY <1>1, EndsJob
<1>3. CASE job[p].op = "sync"
  <2>1. PICK u : u = job[p].entity
    OBVIOUS
  <2>2. u \in User /\ StaffTypeOK /\ UnbornHaveNothing
    BY <1>3, <2>1 DEF JobsOK, IsJob, Fits, StaffInv
  <2>3. record[u] # "UNBORN"
    BY <1>3, <2>1, <2>2 DEF UnbornHaveNothing, Syncs
  <2>4. strayed' = strayed \cup {u} /\ strayed' \subseteq User
    BY <1>1, <1>3, <2>1, <2>2 DEF StaffTypeOK
  <2>5. /\ profile' \in [User -> {"NONE", "ACTIVE", "ARCHIVED"}]
        /\ \A v \in User \ {u} : profile'[v] = profile[v]
    BY <1>1, <2>2 DEF StaffTypeOK
  <2>. QED  BY <1>1, <1>2, <1>3, <2>1, <2>2, <2>3, <2>4, <2>5, ProfileKeeps
<1>4. CASE job[p].op # "sync"
  BY <1>1, <1>2, <1>4, EndKeeps DEF staffVars
<1>. QED  BY <1>3, <1>4


\* setStoreAccess begins, and writes.
LEMMA AskAccessKeeps ==
    ASSUME JobsOK, StaffInv, NEW p \in Request, NEW u \in User, NEW a \in Access,
           AskAccess(p, u, a)
    PROVE  StaffInv'
<1>1. /\ Starts(p, "access", u, None, a) /\ Stored(u) /\ FloristBound(roles[u], a)
      /\ mixed' = IF \E q \in Request : ChangesRoles(q, u) THEN mixed \cup {u} ELSE mixed
      /\ record' = record /\ roles' = roles
      /\ account' = account /\ session' = session /\ access' = access /\ profile' = profile
      /\ blind' = blind /\ strayed' = strayed
  BY DEF AskAccess, AccessFits, rows
<1>2. /\ StaffTypeOK /\ UnbornHaveNothing /\ OneLeaves /\ WishesFit
      /\ DirectorRemains /\ FloristsHaveStores /\ CouriersFollowRoles
  BY DEF StaffInv, StaffIsInOrder
<1>3. /\ job[p].op = "idle" /\ job'[p].op = "access" /\ job'[p].entity = u /\ job'[p].wish = a
      /\ \A q \in Request \ {p} : job'[q] = job[q]
  BY <1>1, StartsJob
<1>4. mixed \subseteq mixed' /\ mixed' \subseteq User
  BY <1>1, <1>2 DEF StaffTypeOK
<1>5. StaffTypeOK'
  BY <1>1, <1>2, <1>4 DEF StaffTypeOK
<1>6. UnbornHaveNothing'
  BY <1>1, <1>2, <1>3 DEF UnbornHaveNothing, Stored, Syncs, ChangesAccess
<1>7. Directors' = Directors
  BY <1>1 DEF Directors
<1>8. OneLeaves'
  <2>1. \A q \in Request : /\ RemovesDirector(q)' <=> RemovesDirector(q)
                           /\ RemovesDirector(q) => job'[q] = job[q]
    BY <1>3 DEF RemovesDirector
  <2>. QED  BY <1>1, <1>2, <1>7, <2>1 DEF OneLeaves
<1>9. WishesFit'
  <2>1. ASSUME NEW v \in User \ mixed', NEW q \in Request, Stored(v)
        PROVE  /\ ChangesRoles(q, v)' => FloristBound(job'[q].wish, access[v])
               /\ ChangesAccess(q, v)' => FloristBound(roles[v], job'[q].wish)
               /\ \A r \in Request : ~(ChangesRoles(q, v)' /\ ChangesAccess(r, v)')
    <3>1. \A r \in Request : ChangesRoles(r, v)' => job'[r] = job[r] /\ ChangesRoles(r, v)
      BY <1>3 DEF ChangesRoles
    <3>2. CASE v = u
      <4>1. \A r \in Request : ~ChangesRoles(r, u)
        BY <2>1, <3>2, <1>1
      <4>2. CASE q = p
        BY <4>1, <4>2, <3>1, <3>2, <1>1, <1>3
      <4>3. CASE q # p
        <5>1. v \notin mixed /\ job'[q] = job[q] /\ (ChangesAccess(q, v)' <=> ChangesAccess(q, v))
          BY <2>1, <4>3, <1>3, <1>4 DEF ChangesAccess
        <5>. QED  BY <2>1, <4>1, <5>1, <3>1, <3>2, <1>2 DEF WishesFit
      <4>. QED  BY <4>2, <4>3
    <3>3. CASE v # u
      <4>1. \A r \in Request : ChangesAccess(r, v)' => job'[r] = job[r] /\ ChangesAccess(r, v)
        BY <3>3, <1>3 DEF ChangesAccess
      <4>. QED  BY <2>1, <4>1, <3>1, <1>2, <1>4 DEF WishesFit
    <3>. QED  BY <3>2, <3>3
  <2>. QED  BY <2>1, <1>1 DEF WishesFit, Stored
<1>10. DirectorRemains' /\ FloristsHaveStores'
  BY <1>1, <1>2, <1>4, <1>7 DEF DirectorRemains, FloristsHaveStores, FloristBound, Stored
<1>11. CouriersFollowRoles'
  <2>1. \A q \in Request : job[q].op = "sync" => job'[q] = job[q]
    BY <1>3
  <2>. QED  BY <1>1, <1>2, <2>1 DEF CouriersFollowRoles, Stored
<1>. QED  BY <1>5, <1>6, <1>8, <1>9, <1>10, <1>11 DEF StaffInv, StaffIsInOrder

LEMMA WriteAccessKeeps ==
    ASSUME JobsOK, StaffInv, NEW p \in Request, WriteAccess(p)
    PROVE  StaffInv'
<1>1. PICK u, a : u = job[p].entity /\ a = job[p].wish
  OBVIOUS
<1>2. /\ job[p].op = "access" /\ Ends(p)
      /\ access' = IF Stored(u) THEN [access EXCEPT ![u] = a] ELSE access
      /\ record' = record /\ roles' = roles
      /\ account' = account /\ session' = session /\ profile' = profile
      /\ blind' = blind /\ mixed' = mixed /\ strayed' = strayed
  BY <1>1 DEF WriteAccess, rows
<1>3. /\ StaffTypeOK /\ UnbornHaveNothing /\ OneLeaves /\ WishesFit
      /\ DirectorRemains /\ FloristsHaveStores /\ CouriersFollowRoles
  BY DEF StaffInv, StaffIsInOrder
<1>4. job'[p].op = "over" /\ \A q \in Request \ {p} : job'[q] = job[q]
  BY <1>2, EndsJob
<1>5. CASE ~Stored(u)
  BY <1>2, <1>4, <1>5, EndKeeps DEF staffVars
<1>6. CASE Stored(u)
  <2>1. u \in User /\ a \in Access
    BY <1>1, <1>2 DEF JobsOK, IsJob, Fits
  <2>2. access'[u] = a /\ \A v \in User \ {u} : access'[v] = access[v]
    BY <1>2, <1>3, <1>6, <2>1 DEF StaffTypeOK
  <2>3. \A q \in Request :
           /\ RemovesDirector(q)' => RemovesDirector(q) /\ job'[q] = job[q]
           /\ job[q].op = "sync" => job'[q] = job[q]
    BY <1>2, <1>4 DEF RemovesDirector
  <2>4. \A q \in Request, v \in User :
           /\ ChangesRoles(q, v)' => ChangesRoles(q, v) /\ job'[q] = job[q]
           /\ ChangesAccess(q, v)' => ChangesAccess(q, v) /\ job'[q] = job[q]
           /\ Syncs(q, v)' => Syncs(q, v)
    BY <1>4 DEF ChangesRoles, ChangesAccess, Syncs
  <2>5. StaffTypeOK'
    BY <1>2, <1>3, <1>6, <2>1 DEF StaffTypeOK
  <2>6. UnbornHaveNothing'
    BY <1>2, <1>3, <2>4 DEF UnbornHaveNothing
  <2>7. Directors' = Directors
    BY <1>2 DEF Directors
  <2>8. OneLeaves' /\ DirectorRemains'
    BY <1>2, <1>3, <2>3, <2>7 DEF OneLeaves, DirectorRemains
  <2>9. ASSUME NEW v \in User \ mixed, record[v] = "STORED"
        PROVE  /\ FloristBound(roles[v], access'[v])
               /\ \A q \in Request :
                    /\ ChangesRoles(q, v)' => FloristBound(job'[q].wish, access'[v])
                    /\ ChangesAccess(q, v)' => FloristBound(roles[v], job'[q].wish)
                    /\ \A r \in Request : ~(ChangesRoles(q, v)' /\ ChangesAccess(r, v)')
    <3>1. /\ FloristBound(roles[v], access[v])
          /\ \A q \in Request :
                /\ ChangesRoles(q, v) => FloristBound(job[q].wish, access[v])
                /\ ChangesAccess(q, v) => FloristBound(roles[v], job[q].wish)
                /\ \A r \in Request : ~(ChangesRoles(q, v) /\ ChangesAccess(r, v))
      BY <2>9, <1>3 DEF WishesFit, FloristsHaveStores, Stored
    <3>2. CASE v = u
      <4>1. ChangesAccess(p, v)
        BY <3>2, <1>1, <1>2 DEF ChangesAccess
      <4>. QED  BY <4>1, <3>1, <3>2, <2>2, <2>4, <1>1
    <3>3. CASE v # u
      BY <3>1, <3>3, <2>2, <2>4
    <3>. QED  BY <3>2, <3>3
  <2>10. WishesFit' /\ FloristsHaveStores'
    BY <2>9, <1>2 DEF WishesFit, FloristsHaveStores, Stored
  <2>11. CouriersFollowRoles'
    BY <1>2, <1>3, <2>3 DEF CouriersFollowRoles, Stored
  <2>. QED  BY <2>5, <2>6, <2>8, <2>10, <2>11 DEF StaffInv, StaffIsInOrder
<1>. QED  BY <1>5, <1>6

\* A user is deleted, with the roles.
LEMMA DeleteUserKeeps ==
    ASSUME JobsOK, StaffInv, NEW p \in Request, DeleteUser(p)
    PROVE  StaffInv'
<1>1. PICK u : u = job[p].entity
  OBVIOUS
<1>2. /\ job[p].op = "delete"
      /\ account' = account /\ session' = session /\ profile' = profile
      /\ blind' = blind /\ mixed' = mixed /\ strayed' = strayed
      /\ \/ /\ GoesOn(p, "settle") /\ Stored(u)
            /\ record' = [record EXCEPT ![u] = "DELETED"]
            /\ roles' = [roles EXCEPT ![u] = {}]
            /\ access' = [access EXCEPT ![u].stores = {}]
         \/ Ends(p) /\ record' = record /\ roles' = roles /\ access' = access
  BY <1>1 DEF DeleteUser, RecordDeleted
<1>3. /\ StaffTypeOK /\ UnbornHaveNothing /\ OneLeaves /\ WishesFit
      /\ DirectorRemains /\ FloristsHaveStores /\ CouriersFollowRoles
  BY DEF StaffInv, StaffIsInOrder
<1>4. u \in User /\ u \in Entity
  BY <1>1, <1>2, StaffAssumption DEF JobsOK, IsJob, Fits
<1>5. CASE Ends(p) /\ record' = record /\ roles' = roles /\ access' = access
  <2>1. job'[p].op = "over" /\ \A q \in Request \ {p} : job'[q] = job[q]
    BY <1>5, EndsJob
  <2>. QED  BY <1>2, <1>5, <2>1, EndKeeps DEF staffVars
<1>6. CASE GoesOn(p, "settle") /\ record' # record
  <2>1. job'[p].op = "settle" /\ \A q \in Request \ {p} : job'[q] = job[q]
    BY <1>6, GoesOnJob
  <2>2. /\ record' = [record EXCEPT ![u] = "DELETED"] /\ roles' = [roles EXCEPT ![u] = {}]
        /\ access' = [access EXCEPT ![u].stores = {}]
    BY <1>2, <1>6
  <2>3. /\ record'[u] = "DELETED" /\ roles'[u] = {}
        /\ \A v \in User \ {u} : /\ record'[v] = record[v] /\ roles'[v] = roles[v]
                                 /\ access'[v] = access[v]
    BY <2>2, <1>3, <1>4, StaffAssumption DEF StaffTypeOK
  <2>4. access' \in [User -> Access]
    <3>1. access[u] \in Access
      BY <1>3, <1>4 DEF StaffTypeOK
    <3>2. [access[u] EXCEPT !.stores = {}] \in Access
      BY <3>1 DEF Access, AllStores, Selected
    <3>. QED  BY <2>2, <3>2, <1>3, <1>4 DEF StaffTypeOK
  <2>5. StaffTypeOK'
    BY <2>2, <2>4, <1>2, <1>3, <1>4 DEF StaffTypeOK
  <2>6. \A q \in Request :
           /\ RemovesDirector(q)' => q # p /\ RemovesDirector(q) /\ job'[q] = job[q]
           /\ job[q].op = "sync" => job'[q] = job[q]
    BY <1>2, <2>1 DEF RemovesDirector
  <2>7. \A q \in Request, v \in User :
           /\ ChangesRoles(q, v)' => ChangesRoles(q, v) /\ job'[q] = job[q]
           /\ ChangesAccess(q, v)' => ChangesAccess(q, v) /\ job'[q] = job[q]
           /\ Syncs(q, v)' => Syncs(q, v)
    BY <2>1 DEF ChangesRoles, ChangesAccess, Syncs
  <2>8. UnbornHaveNothing'
    BY <2>3, <2>7, <1>2, <1>3 DEF UnbornHaveNothing
  <2>9. ~blind => Directors' # {} /\ \A q \in Request : RemovesDirector(q) => q = p
    <3>1. SUFFICES ASSUME ~blind
                   PROVE  Directors' # {} /\ \A q \in Request : RemovesDirector(q) => q = p
      OBVIOUS
    <3>2. RemovesDirector(p)
      BY <1>2 DEF RemovesDirector
    <3>3. Directors \ {u} # {} /\ \A q \in Request : RemovesDirector(q) => q = p
      BY <3>1, <3>2, <1>1, <1>3 DEF OneLeaves
    <3>4. Directors \ {u} \subseteq Directors'
      BY <2>3 DEF Directors
    <3>. QED  BY <3>3, <3>4
  <2>10. OneLeaves' /\ DirectorRemains'
    BY <2>6, <2>9, <1>2 DEF OneLeaves, DirectorRemains
  <2>11. WishesFit' /\ FloristsHaveStores' /\ CouriersFollowRoles'
    <3>1. \A v \in User : record'[v] = "STORED" => v # u /\ record[v] = "STORED"
      BY <2>3
    <3>2. WishesFit'
      BY <3>1, <2>3, <2>7, <1>2, <1>3 DEF WishesFit, FloristBound, Stored
    <3>3. FloristsHaveStores'
      BY <3>1, <2>3, <1>2, <1>3 DEF FloristsHaveStores, FloristBound, Stored
    <3>4. CouriersFollowRoles'
      BY <3>1, <2>3, <2>6, <1>2, <1>3 DEF CouriersFollowRoles, Stored
    <3>. QED  BY <3>2, <3>3, <3>4
  <2>. QED  BY <2>5, <2>8, <2>10, <2>11 DEF StaffInv, StaffIsInOrder
<1>7. record[u] = "STORED" => [record EXCEPT ![u] = "DELETED"] # record
  BY <1>4, <1>3 DEF StaffTypeOK
<1>. QED  BY <1>2, <1>5, <1>6, <1>7 DEF Stored

LEMMA StaffKeeps ==
    ASSUME JobsOK, RowsOK, TicketsName, RowsOK', StaffInv, StaffNext
    PROVE  StaffInv'
<1>0. StaffTypeOK /\ User \in SUBSET Entity /\ Handled \subseteq User
  BY StaffAssumption DEF StaffInv
<1>1. PICK p \in Request :
       \/ \E u \in User :
                   \/ CreateUser(p, u) \/ CreateDirector(p, u)
                   \/ \E R \in RoleSets : AskRoles(p, u, R)
                   \/ \E a \in Access : AskAccess(p, u, a)
       \/ \E u \in Handled :
                   \/ LogIn(p, u) \/ BlockUser(p, u) \/ UnblockUser(p, u) \/ ArchiveUser(p, u)
                   \/ CreateCourier(p, u) \/ ArchiveCourier(p, u) \/ DeleteCourier(p, u)
       \/ CheckDirectors(p) \/ WriteRoles(p) \/ SyncCourier(p) \/ WriteAccess(p)
       \/ CheckUser(p) \/ DeleteUser(p)
       \/ StaffCutOff(p)
       \/ DeletionStep(p, User) /\ UNCHANGED staffVars
  BY DEF StaffNext
<1>2. CASE \E u \in Handled : LogIn(p, u) \/ BlockUser(p, u) \/ UnblockUser(p, u) \/ ArchiveUser(p, u)
  <2>1. /\ AtOnce(p) /\ UNCHANGED rows
        /\ account' \in [User -> {"ACTIVE", "BLOCKED", "ARCHIVED"}] /\ session' \in [User -> BOOLEAN]
        /\ UNCHANGED <<roles, access, profile, blind, mixed, strayed>>
    BY <1>0, <1>2 DEF LogIn, BlockUser, UnblockUser, ArchiveUser, SetAccount, StaffTypeOK
  <2>2. Effect(p, {}, {})
    BY <2>1, Still, AtOnceEffect
  <2>. QED  BY <2>1, <2>2, StaffLeftAlone
<1>3. CASE DeletionStep(p, User) /\ UNCHANGED staffVars
  <2>1. Effect(p, {}, {})
    BY <1>0, <1>3, DeletionEffect
  <2>2. /\ account' \in [User -> {"ACTIVE", "BLOCKED", "ARCHIVED"}] /\ session' \in [User -> BOOLEAN]
        /\ UNCHANGED <<roles, access, profile, blind, mixed, strayed>>
    BY <1>0, <1>3 DEF staffVars, StaffTypeOK
  <2>. QED  BY <2>1, <2>2, StaffLeftAlone
<1>. QED  BY <1>1, <1>2, <1>3, CreateKeeps, AskRolesKeeps, AskAccessKeeps, ByHandKeeps, CountKeeps,
             WriteRolesKeeps, SyncKeeps, WriteAccessKeeps, DeleteUserKeeps, StaffCutOffKeeps


-----------------------------------------------------------------------------
(***************************************************************************)
(* The contacts: what is referred to stays stored, and numbers stay apart. *)
(***************************************************************************)
LEMMA ContactsLeftAlone ==
    ASSUME ContactsInv, NEW p \in Request, NEW ops, NEW entities, Effect(p, ops, entities),
           entities \cap Contact = {}, UNCHANGED contactVars
    PROVE  ContactsInv'
<1>1. retired' = retired /\ taken' = taken /\ phone' = phone
  BY DEF contactVars
<1>2. \A e \in Contact : record'[e] = record[e]
  BY ContactsAssumption DEF Effect
<1>3. Customer \subseteq Contact /\ taken \subseteq Contact
  BY DEF Contact, ContactsInv
<1>4. ContactReferencesHold'
  <2>1. \A e \in taken : Stored(e)'
    BY <1>2, <1>3 DEF ContactsInv, ContactReferencesHold, Stored
  <2>2. \A c, d \in Customer : Stored(c)' /\ Stored(d)' /\ phone[c] = phone[d] => c = d
    BY <1>2, <1>3 DEF ContactsInv, ContactReferencesHold, Stored
  <2>. QED  BY <1>1, <2>1, <2>2 DEF ContactReferencesHold
<1>. QED  BY <1>1, <1>4 DEF ContactsInv

\* A contact is created, a customer with a number nobody stored has.
LEMMA CreateContactKeeps ==
    ASSUME RowsOK, ContactsInv, NEW p \in Request, NEW e \in Contact,
           \/ CreateSupplier(p, e) \/ CreatePaymentMethod(p, e)
           \/ e \in Customer /\ \E n \in Phone : CreateCustomer(p, e, n)
    PROVE  ContactsInv'
<1>1. /\ record[e] = "UNBORN" /\ record' = [record EXCEPT ![e] = "STORED"]
      /\ retired' = retired /\ taken' = taken
      /\ \/ phone' = phone /\ e \in Supplier \cup PaymentMethod
         \/ \E n \in Phone : e \in Customer /\ Free(n) /\ phone' = [phone EXCEPT ![e] = n]
  BY DEF CreateSupplier, CreatePaymentMethod, CreateCustomer, CreateContact
<1>2. /\ e \in Entity /\ record'[e] = "STORED"
      /\ \A d \in Contact \ {e} : record'[d] = record[d]
  BY <1>1, ContactsAssumption DEF RowsOK
<1>3. /\ phone \in [Customer -> Phone \cup {None}] /\ taken \subseteq Contact
      /\ \A d \in taken : Stored(d)
      /\ \A c, d \in Customer : Stored(c) /\ Stored(d) /\ phone[c] = phone[d] => c = d
      /\ retired \subseteq Contact /\ Customer \subseteq Contact
  BY DEF ContactsInv, ContactReferencesHold, Contact
<1>4. \A d \in taken : Stored(d)'
  BY <1>1, <1>2, <1>3 DEF Stored
<1>5. /\ phone' \in [Customer -> Phone \cup {None}]
      /\ \A c, d \in Customer : Stored(c)' /\ Stored(d)' /\ phone'[c] = phone'[d] => c = d
  <2>1. CASE phone' = phone /\ e \in Supplier \cup PaymentMethod
    <3>1. e \notin Customer
      BY <2>1, TablesAssumption
    <3>. QED  BY <2>1, <3>1, <1>2, <1>3 DEF Stored
  <2>2. CASE \E n \in Phone : e \in Customer /\ Free(n) /\ phone' = [phone EXCEPT ![e] = n]
    <3>1. PICK n \in Phone : e \in Customer /\ Free(n) /\ phone' = [phone EXCEPT ![e] = n]
      BY <2>2
    <3>2. phone'[e] = n /\ \A c \in Customer \ {e} : phone'[c] = phone[c]
      BY <3>1, <1>3
    <3>3. \A c \in Customer : Stored(c) => phone[c] # n
      BY <3>1 DEF Free
    <3>. QED  BY <3>1, <3>2, <3>3, <1>2, <1>3 DEF Stored
  <2>. QED  BY <1>1, <2>1, <2>2
<1>. QED  BY <1>1, <1>3, <1>4, <1>5 DEF ContactsInv, ContactReferencesHold

\* A customer changes to a number that nobody stored has, or keeps the own one.
LEMMA UpdateCustomerKeeps ==
    ASSUME ContactsInv, NEW p \in Request, NEW c \in Customer, NEW n \in Phone,
           UpdateCustomer(p, c, n)
    PROVE  ContactsInv'
<1>1. /\ Stored(c) /\ (n = phone[c] \/ Free(n)) /\ phone' = [phone EXCEPT ![c] = n]
      /\ record' = record /\ retired' = retired /\ taken' = taken
  BY DEF UpdateCustomer, rows
<1>2. /\ phone \in [Customer -> Phone \cup {None}]
      /\ \A d, e \in Customer : Stored(d) /\ Stored(e) /\ phone[d] = phone[e] => d = e
  BY DEF ContactsInv, ContactReferencesHold
<1>3. phone'[c] = n /\ \A d \in Customer \ {c} : phone'[d] = phone[d]
  BY <1>1, <1>2
<1>4. \A d \in Customer \ {c} : Stored(d) => phone[d] # n
  BY <1>1, <1>2 DEF Free
<1>5. \A d, e \in Customer : Stored(d) /\ Stored(e) /\ phone'[d] = phone'[e] => d = e
  BY <1>2, <1>3, <1>4
<1>6. phone' \in [Customer -> Phone \cup {None}]
  BY <1>1, <1>2
<1>. QED  BY <1>1, <1>5, <1>6 DEF ContactsInv, ContactReferencesHold, Stored

\* A document refers to a stored contact.
LEMMA TakeKeeps ==
    ASSUME JobsOK, ContactsInv, NEW p \in Request, Take(p)
    PROVE  ContactsInv'
<1>1. PICK e : e = job[p].entity
  OBVIOUS
<1>2. /\ job[p].op = "take"
      /\ taken' = IF Stored(e) THEN taken \cup {e} ELSE taken
      /\ record' = record /\ retired' = retired /\ phone' = phone
  BY <1>1 DEF Take, rows
<1>3. e \in Contact
  BY <1>1, <1>2 DEF JobsOK, IsJob, Fits
<1>. QED  BY <1>2, <1>3 DEF ContactsInv, ContactReferencesHold, Stored

\* A contact that nothing refers to is deleted.
LEMMA DeleteContactKeeps ==
    ASSUME JobsOK, RowsOK, ContactsInv, NEW p \in Request, DeleteContact(p)
    PROVE  ContactsInv'
<1>1. PICK e : e = job[p].entity
  OBVIOUS
<1>2. /\ job[p].op = "forget" /\ retired' = retired /\ taken' = taken /\ phone' = phone
      /\ \/ e \notin taken /\ record' = [record EXCEPT ![e] = "DELETED"]
         \/ record' = record
  BY <1>1 DEF DeleteContact, RecordDeleted, Forgettable, contactVars
<1>3. \A d \in Entity : record'[d] = "STORED" => record[d] = "STORED"
  BY <1>2 DEF RowsOK
<1>4. \A d \in taken : record'[d] = record[d]
  BY <1>2, ContactsAssumption DEF RowsOK, ContactsInv
<1>5. Customer \subseteq Entity
  BY ContactsAssumption DEF Contact
<1>6. \A c, d \in Customer : Stored(c)' /\ Stored(d)' /\ phone[c] = phone[d] => c = d
  BY <1>3, <1>5 DEF ContactsInv, ContactReferencesHold, Stored
<1>. QED  BY <1>2, <1>4, <1>6 DEF ContactsInv, ContactReferencesHold, Stored

LEMMA ContactsKeeps ==
    ASSUME JobsOK, RowsOK, TicketsName, ContactsInv, ContactsNext
    PROVE  ContactsInv'
<1>0. Customer \subseteq Contact /\ Contact \in SUBSET Entity
  BY ContactsAssumption DEF Contact
<1>1. PICK p \in Request :
       \/ \E e \in Contact :
             \/ CreateSupplier(p, e) \/ CreatePaymentMethod(p, e)
             \/ ArchiveSupplier(p, e) \/ ArchiveCustomer(p, e) \/ ArchivePaymentMethod(p, e)
             \/ AskTake(p, e)
       \/ \E c \in Customer, n \in Phone : CreateCustomer(p, c, n) \/ UpdateCustomer(p, c, n)
       \/ Take(p) \/ CheckContact(p) \/ DeleteContact(p)
       \/ ContactsCutOff(p)
       \/ DeletionStep(p, Contact) /\ UNCHANGED contactVars
  BY DEF ContactsNext
<1>2. CASE \/ \E e \in Contact : CreateSupplier(p, e) \/ CreatePaymentMethod(p, e)
           \/ \E c \in Customer, n \in Phone : CreateCustomer(p, c, n)
  BY <1>0, <1>2, CreateContactKeeps
<1>3. CASE \E e \in Contact : \/ ArchiveSupplier(p, e) \/ ArchiveCustomer(p, e)
                              \/ ArchivePaymentMethod(p, e)
  <2>1. PICK e \in Contact : Retire(p, e)
    BY <1>3 DEF ArchiveSupplier, ArchiveCustomer, ArchivePaymentMethod
  <2>2. record' = record /\ taken' = taken /\ phone' = phone /\ retired' = retired \cup {e}
    BY <2>1 DEF Retire, rows
  <2>. QED  BY <2>2 DEF ContactsInv, ContactReferencesHold, Stored
<1>4. CASE (\E e \in Contact : AskTake(p, e)) \/ CheckContact(p) \/ ContactsCutOff(p)
  <2>1. record' = record /\ taken' = taken /\ phone' = phone /\ retired' = retired
    BY <1>4 DEF AskTake, CheckContact, ContactsCutOff, CutOff, rows, contactVars
  <2>. QED  BY <2>1 DEF ContactsInv, ContactReferencesHold, Stored
<1>5. CASE DeletionStep(p, Contact) /\ UNCHANGED contactVars
  <2>1. Effect(p, {}, {})
    BY <1>0, <1>5, DeletionEffect
  <2>. QED  BY <1>5, <2>1, ContactsLeftAlone
<1>. QED  BY <1>1, <1>2, <1>3, <1>4, <1>5, UpdateCustomerKeeps, TakeKeeps, DeleteContactKeeps

-----------------------------------------------------------------------------
(***************************************************************************)
(* The premises: a store has its warehouse, and a save of the settings     *)
(* writes the key that was typed last.                                     *)
(***************************************************************************)
LEMMA PremisesLeftAlone ==
    ASSUME PremisesInv, NEW p \in Request, NEW ops, NEW entities, Effect(p, ops, entities),
           "settings" \notin ops, UNCHANGED premisesVars
    PROVE  PremisesInv'
<1>1. \A q \in Request : Saving(q) \/ Saving(q)' => job'[q] = job[q]
  BY DEF Effect, Only, Saving, Reviews
<1>2. /\ shop' = shop /\ warehouses' = warehouses /\ key' = key /\ typed' = typed
      /\ refilled' = refilled
  BY DEF premisesVars
<1>3. \A q \in Request : Saving(q)' <=> Saving(q)
  BY <1>1 DEF Saving
<1>. QED  BY <1>1, <1>2, <1>3 DEF PremisesInv, SavesWhatWasTyped, KeyIsTheOneTyped

\* A step that neither begins nor ends a save.
LEMMA NoSaveKeeps ==
    ASSUME PremisesInv, NEW p \in Request, \A q \in Request \ {p} : job'[q] = job[q],
           job'[p].op # "settings",
           UNCHANGED <<key, typed, refilled>>,
           shop' \in [Shop -> {"NONE", "ACTIVE", "ARCHIVED"}],
           warehouses' = {<<s, "MAIN">> : s \in {t \in Shop : shop'[t] # "NONE"}}
    PROVE  PremisesInv'
<1>1. \A q \in Request : Saving(q)' => job'[q] = job[q] /\ Saving(q)
  BY DEF Saving
<1>. QED  BY <1>1 DEF PremisesInv, SavesWhatWasTyped, KeyIsTheOneTyped

LEMMA AskSettingsKeeps ==
    ASSUME JobsOK, PremisesInv, NEW p \in Request, NEW sent, AskSettings(p, sent)
    PROVE  PremisesInv'
<1>1. PICK w : w = [sent |-> sent, next |-> NextKey(sent)]
  OBVIOUS
<1>2. /\ Starts(p, "settings", None, None, w)
      /\ refilled' = (refilled \/ \E q \in Request : Saving(q))
      /\ shop' = shop /\ warehouses' = warehouses /\ key' = key /\ typed' = typed
  BY <1>1 DEF AskSettings
<1>3. /\ job[p].op = "idle" /\ job'[p].op = "settings" /\ job'[p].wish = w
      /\ \A q \in Request \ {p} : job'[q] = job[q]
  BY <1>2, StartsJob
<1>4. /\ DOMAIN w = {"sent", "next"}
      /\ w.sent # "same" => w.next = w.sent
      /\ w.sent = "same" => w.next = key
  BY <1>1 DEF NextKey
<1>5. \A q \in Request : Saving(q)' => q = p \/ (job'[q] = job[q] /\ Saving(q))
  BY <1>3 DEF Saving
<1>6. SavesWhatWasTyped'
  <2>1. \A q \in Request : Saving(q)' =>
          /\ DOMAIN job'[q].wish = {"sent", "next"}
          /\ job'[q].wish.sent # "same" => job'[q].wish.next = job'[q].wish.sent
    BY <1>3, <1>4, <1>5 DEF PremisesInv, SavesWhatWasTyped
  <2>2. ASSUME ~refilled'
        PROVE  \A q \in Request : Saving(q)' =>
                  /\ job'[q].wish.sent = "same" => job'[q].wish.next = key
                  /\ \A r \in Request : Saving(r)' => r = q
    <3>1. \A q \in Request : ~Saving(q)
      BY <2>2, <1>2
    <3>. QED  BY <3>1, <1>3, <1>4, <1>5
  <2>. QED  BY <2>1, <2>2, <1>2 DEF SavesWhatWasTyped
<1>7. KeyIsTheOneTyped'
  BY <1>2 DEF PremisesInv, KeyIsTheOneTyped
<1>. QED  BY <1>2, <1>6, <1>7 DEF PremisesInv

LEMMA SaveSettingsKeeps ==
    ASSUME JobsOK, PremisesInv, NEW p \in Request, SaveSettings(p)
    PROVE  PremisesInv'
<1>1. PICK w : w = job[p].wish
  OBVIOUS
<1>2. /\ Saving(p) /\ Ends(p) /\ key' = w.next
      /\ typed' = IF w.sent = "same" THEN typed ELSE w.sent
      /\ refilled' = (refilled /\ (w.sent = "same" \/ \E q \in Request \ {p} : Saving(q)))
      /\ shop' = shop /\ warehouses' = warehouses
  BY <1>1 DEF SaveSettings
<1>3. job'[p].op = "over" /\ \A q \in Request \ {p} : job'[q] = job[q]
  BY <1>2, EndsJob
<1>4. \A q \in Request : Saving(q)' => q # p /\ job'[q] = job[q] /\ Saving(q)
  BY <1>3 DEF Saving
<1>5. /\ DOMAIN w = {"sent", "next"}
      /\ w.sent # "same" => w.next = w.sent
      /\ ~refilled => /\ w.sent = "same" => w.next = key
                      /\ \A q \in Request : Saving(q) => q = p
  BY <1>1, <1>2 DEF PremisesInv, SavesWhatWasTyped
<1>6. SavesWhatWasTyped'
  <2>1. \A q \in Request : Saving(q)' =>
          /\ DOMAIN job'[q].wish = {"sent", "next"}
          /\ job'[q].wish.sent # "same" => job'[q].wish.next = job'[q].wish.sent
    BY <1>4 DEF PremisesInv, SavesWhatWasTyped
  <2>2. ~refilled' => \A q \in Request : ~Saving(q)'
    BY <1>2, <1>4, <1>5
  <2>. QED  BY <2>1, <2>2 DEF SavesWhatWasTyped
<1>7. KeyIsTheOneTyped'
  BY <1>2, <1>5 DEF PremisesInv, KeyIsTheOneTyped
<1>. QED  BY <1>2, <1>6, <1>7 DEF PremisesInv

LEMMA PremisesKeeps ==
    ASSUME JobsOK, PremisesInv, PremisesNext
    PROVE  PremisesInv'
<1>0. /\ shop \in [Shop -> {"NONE", "ACTIVE", "ARCHIVED"}]
      /\ warehouses = {<<s, "MAIN">> : s \in {t \in Shop : shop[t] # "NONE"}}
  BY DEF PremisesInv
<1>1. PICK p \in Request :
       \/ ArchiveOrganization(p)
       \/ \E s \in Shop : AskStore(p, s) \/ ArchiveStore(p, s)
       \/ OpenStore(p)
       \/ \E sent \in Key \cup {None, "same"} : AskSettings(p, sent)
       \/ SaveSettings(p)
       \/ PremisesCutOff(p)
  BY DEF PremisesNext
<1>2. CASE ArchiveOrganization(p)
  BY <1>0, <1>2, AtOnceJob, NoSaveKeeps DEF ArchiveOrganization
<1>3. CASE \E s \in Shop : AskStore(p, s)
  <2>1. PICK s \in Shop : Starts(p, "open", None, None, s) /\ UNCHANGED premisesVars
    BY <1>3 DEF AskStore
  <2>2. job'[p].op = "open" /\ \A q \in Request \ {p} : job'[q] = job[q]
    BY <2>1, StartsJob
  <2>. QED  BY <1>0, <2>1, <2>2, NoSaveKeeps DEF premisesVars
<1>4. CASE \E s \in Shop : ArchiveStore(p, s)
  <2>1. PICK s \in Shop : ArchiveStore(p, s)
    BY <1>4
  <2>2. /\ AtOnce(p) /\ shop[s] = "ACTIVE" /\ shop' = [shop EXCEPT ![s] = "ARCHIVED"]
        /\ warehouses' = warehouses /\ UNCHANGED <<key, typed, refilled>>
    BY <2>1 DEF ArchiveStore
  <2>3. \A t \in Shop : shop'[t] # "NONE" <=> shop[t] # "NONE"
    BY <1>0, <2>2
  <2>4. {t \in Shop : shop'[t] # "NONE"} = {t \in Shop : shop[t] # "NONE"}
    BY <2>3
  <2>5. shop' \in [Shop -> {"NONE", "ACTIVE", "ARCHIVED"}]
    BY <1>0, <2>2
  <2>. QED  BY <1>0, <2>2, <2>4, <2>5, AtOnceJob, NoSaveKeeps
<1>5. CASE OpenStore(p)
  <2>1. PICK s : s = job[p].wish
    OBVIOUS
  <2>2. /\ job[p].op = "open" /\ Ends(p) /\ shop' = [shop EXCEPT ![s] = "ACTIVE"]
        /\ warehouses' = warehouses \cup {<<s, "MAIN">>} /\ UNCHANGED <<key, typed, refilled>>
    BY <1>5, <2>1 DEF OpenStore, FirstWarehouses
  <2>3. s \in Shop
    BY <2>1, <2>2 DEF JobsOK, IsJob, Fits
  <2>4. {t \in Shop : shop'[t] # "NONE"} = {t \in Shop : shop[t] # "NONE"} \cup {s}
    BY <1>0, <2>2, <2>3
  <2>5. shop' \in [Shop -> {"NONE", "ACTIVE", "ARCHIVED"}]
    BY <1>0, <2>2
  <2>6. warehouses' = {<<t, "MAIN">> : t \in {t \in Shop : shop'[t] # "NONE"}}
    BY <1>0, <2>2, <2>4
  <2>. QED  BY <2>2, <2>5, <2>6, EndsJob, NoSaveKeeps
<1>6. CASE PremisesCutOff(p)
  BY <1>0, <1>6, EndsJob, NoSaveKeeps DEF PremisesCutOff, CutOff, premisesVars
<1>. QED  BY <1>1, <1>2, <1>3, <1>4, <1>5, <1>6, AskSettingsKeeps, SaveSettingsKeeps


-----------------------------------------------------------------------------
(***************************************************************************)
(* The catalogue: a step that writes nothing of it, and then each of its   *)
(* own.                                                                    *)
(***************************************************************************)
\* A request that writes nothing of the catalogue, whatever it has read.
LEMMA CatalogQuiet ==
    ASSUME CatalogInv,
           UNCHANGED <<archived, madeOf, under, used, recipe, asked, crossed, overlapped>>,
           \A e \in Part \cup Item : record'[e] = record[e],
           \A q \in Request : job'[q].op \in {"insert", "archive", "fill"} => job'[q] = job[q]
    PROVE  CatalogInv'
<1>1. /\ archived' = archived /\ madeOf' = madeOf /\ under' = under /\ used' = used
      /\ recipe' = recipe /\ asked' = asked /\ crossed' = crossed /\ overlapped' = overlapped
  OBVIOUS
<1>2. /\ CatalogTypeOK /\ UnbornAreNew /\ CreatesOfLiveParts /\ ArchivesUnusedParts
      /\ ReplacesWhatItSees /\ CatalogReferencesHold /\ ActiveItemsHaveActiveParts
      /\ RecipesAreWhole
  BY DEF CatalogInv
<1>3. \A q \in Request, e \in Entity : /\ Creating(q, e)' => job'[q] = job[q] /\ Creating(q, e)
                                       /\ Archiving(q, e)' => job'[q] = job[q] /\ Archiving(q, e)
                                       /\ Replacing(q, e)' => job'[q] = job[q] /\ Replacing(q, e)
  BY DEF Creating, Archiving, Replacing
<1>4. /\ Item \subseteq Entity /\ Part \subseteq Entity /\ Bouquet \subseteq Item
      /\ Category \subseteq Part
  BY CatalogAssumption DEF Part
<1>5. \A e \in Part \cup Item : record'[e] = record[e]
  OBVIOUS
<1>6. CatalogTypeOK'
  BY <1>1, <1>2 DEF CatalogTypeOK
<1>7. UnbornAreNew'
  BY <1>1, <1>2, <1>4, <1>5 DEF UnbornAreNew, CatalogTypeOK
<1>8. CreatesOfLiveParts'
  <2>1. ASSUME NEW q \in Request, NEW i \in Item, Creating(q, i)'
        PROVE  /\ record'[i] = "UNBORN" /\ \A r \in Request : Creating(r, i)' => r = q
               /\ i \notin crossed => \A x \in job'[q].wish :
                     record'[x] = "DELETED" \/ x \notin archived
    <3>1. Creating(q, i) /\ job'[q] = job[q]
      BY <2>1, <1>3, <1>4
    <3>2. /\ record[i] = "UNBORN" /\ \A r \in Request : Creating(r, i) => r = q
          /\ i \notin crossed => \A x \in job[q].wish : record[x] = "DELETED" \/ x \notin archived
      BY <3>1, <1>2 DEF CreatesOfLiveParts
    <3>3. archived \subseteq Part \cup Item
      BY <1>2 DEF CatalogTypeOK
    <3>. QED  BY <3>1, <3>2, <3>3, <1>3, <1>4, <1>5
  <2>. QED  BY <2>1, <1>1 DEF CreatesOfLiveParts
<1>9. ArchivesUnusedParts'
  <2>1. \A i \in Item : Available(i)' <=> Available(i)
    BY <1>1, <1>5 DEF Available, Stored
  <2>. QED  BY <2>1, <1>1, <1>2, <1>3, <1>4 DEF ArchivesUnusedParts
<1>10. ReplacesWhatItSees'
  BY <1>1, <1>2, <1>3, <1>4 DEF ReplacesWhatItSees
<1>11. CatalogReferencesHold'
  <2>1. \A i \in used : Stored(i)'
    BY <1>2, <1>5 DEF CatalogReferencesHold, CatalogTypeOK, Stored
  <2>2. \A i \in Item : Stored(i)' => \A x \in madeOf[i] : Stored(x)'
    BY <1>2, <1>5 DEF CatalogReferencesHold, CatalogTypeOK, Stored
  <2>3. \A c \in Category : Stored(c)' /\ under[c] # None => record'[under[c]] = "STORED"
    BY <1>2, <1>4, <1>5 DEF CatalogReferencesHold, CatalogTypeOK, Stored
  <2>4. \A b \in Bouquet : \A r \in recipe[b] : Stored(b)' /\ Stored(r.comp)'
    BY <1>2, <1>4, <1>5 DEF CatalogReferencesHold, CatalogTypeOK, Stored
  <2>. QED  BY <2>1, <2>2, <2>3, <2>4, <1>1 DEF CatalogReferencesHold, Stored
<1>12. ActiveItemsHaveActiveParts'
  <2>1. \A e \in Part \cup Item : Available(e)' <=> Available(e)
    BY <1>1, <1>5 DEF Available, Stored
  <2>. QED  BY <2>1, <1>1, <1>2 DEF ActiveItemsHaveActiveParts, CatalogTypeOK
<1>13. RecipesAreWhole'
  <2>1. \A b \in Bouquet : {c \in asked[b] : Stored(c)}' = {c \in asked[b] : Stored(c)}
    BY <1>1, <1>2, <1>5 DEF CatalogTypeOK, Stored
  <2>2. \A b \in Bouquet : Stored(b)' <=> Stored(b)
    BY <1>4, <1>5 DEF Stored
  <2>. QED  BY <2>1, <2>2, <1>1, <1>2 DEF RecipesAreWhole
<1>. QED  BY <1>6, <1>7, <1>8, <1>9, <1>10, <1>11, <1>12, <1>13 DEF CatalogInv

LEMMA CatalogLeftAlone ==
    ASSUME CatalogInv, NEW p \in Request, NEW ops, NEW entities, Effect(p, ops, entities),
           ops \cap CatalogStatements = {}, entities \cap (Part \cup Item) = {},
           UNCHANGED catalogVars
    PROVE  CatalogInv'
<1>1. \A q \in Request : job'[q].op \in {"insert", "archive", "fill"} => job'[q] = job[q]
  BY DEF Effect, Only, Reviews, CatalogStatements
<1>2. \A e \in Part \cup Item : record'[e] = record[e]
  BY CatalogAssumption DEF Effect
<1>. QED  BY <1>1, <1>2, CatalogQuiet DEF catalogVars

\* A category, a unit or a policy is created.
LEMMA CreatePartKeeps ==
    ASSUME JobsOK, RowsOK, CatalogInv, NEW p \in Request, AtOnce(p), NEW x \in Part,
           record[x] = "UNBORN", record' = [record EXCEPT ![x] = "STORED"],
           \/ under' = under
           \/ \E parent \in Category \cup {None} :
                 /\ x \in Category /\ under' = [under EXCEPT ![x] = parent]
                 /\ parent # None => Stored(parent),
           UNCHANGED <<archived, madeOf, used, recipe, asked, crossed, overlapped>>
    PROVE  CatalogInv'
<1>1. /\ archived' = archived /\ madeOf' = madeOf /\ used' = used
      /\ recipe' = recipe /\ asked' = asked /\ crossed' = crossed /\ overlapped' = overlapped
  OBVIOUS
<1>2. /\ CatalogTypeOK /\ UnbornAreNew /\ CreatesOfLiveParts /\ ArchivesUnusedParts
      /\ ReplacesWhatItSees /\ CatalogReferencesHold /\ ActiveItemsHaveActiveParts
      /\ RecipesAreWhole
  BY DEF CatalogInv
<1>3. /\ job[p].op = "idle" /\ job'[p].op = "over" /\ \A q \in Request \ {p} : job'[q] = job[q]
  BY AtOnceJob
<1>4. /\ Item \subseteq Entity /\ Part \subseteq Entity /\ Bouquet \subseteq Item
      /\ Category \subseteq Part /\ x \in Entity /\ x \notin Item
  BY CatalogAssumption DEF Part
<1>5. /\ record'[x] = "STORED" /\ \A e \in Entity \ {x} : record'[e] = record[e]
      /\ \A e \in Item : record'[e] = record[e]
      /\ \A e \in Part \cup Item : record'[e] = "UNBORN" => record[e] = "UNBORN"
      /\ \A e \in Part \cup Item : Stored(e) => Stored(e)'
  BY <1>4 DEF RowsOK, Stored
<1>6. \A q \in Request, e \in Entity : /\ Creating(q, e)' => job'[q] = job[q] /\ Creating(q, e)
                                       /\ Archiving(q, e)' => job'[q] = job[q] /\ Archiving(q, e)
                                       /\ Replacing(q, e)' => job'[q] = job[q] /\ Replacing(q, e)
  BY <1>3 DEF Creating, Archiving, Replacing
<1>7. x \notin archived /\ (x \in Category => under[x] = None)
  BY <1>2 DEF UnbornAreNew
<1>8. /\ under' \in [Category -> Category \cup {None}]
      /\ \A c \in Category : \/ under'[c] = under[c]
                             \/ c = x /\ under'[c] # None => Stored(under'[c]) /\ under'[c] \in Category
      /\ \A c \in Category \ {x} : under'[c] = under[c]
  BY <1>2 DEF CatalogTypeOK
<1>9. CatalogTypeOK'
  BY <1>1, <1>2, <1>8 DEF CatalogTypeOK
<1>10. UnbornAreNew'
  <2>1. \A e \in archived : record'[e] # "UNBORN"
    BY <1>2, <1>5 DEF UnbornAreNew, CatalogTypeOK
  <2>2. \A i \in Item : IF record'[i] = "UNBORN" THEN madeOf[i] = {} ELSE madeOf[i] \in ItemParts
    BY <1>2, <1>5 DEF UnbornAreNew
  <2>3. \A c \in Category : record'[c] = "UNBORN" => under'[c] = None
    BY <1>2, <1>4, <1>5, <1>8 DEF UnbornAreNew
  <2>4. \A b \in Bouquet : /\ record'[b] = "UNBORN" => recipe[b] = {} /\ asked[b] = {}
                           /\ \A c \in asked[b] : record'[c] # "UNBORN"
    BY <1>2, <1>4, <1>5 DEF UnbornAreNew, CatalogTypeOK
  <2>. QED  BY <2>1, <2>2, <2>3, <2>4, <1>1 DEF UnbornAreNew
<1>11. CreatesOfLiveParts'
  <2>1. ASSUME NEW q \in Request, NEW i \in Item, Creating(q, i)'
        PROVE  /\ record'[i] = "UNBORN" /\ \A r \in Request : Creating(r, i)' => r = q
               /\ i \notin crossed => \A y \in job'[q].wish :
                     record'[y] = "DELETED" \/ y \notin archived
    <3>1. Creating(q, i) /\ job'[q] = job[q]
      BY <2>1, <1>4, <1>6
    <3>2. /\ record[i] = "UNBORN" /\ \A r \in Request : Creating(r, i) => r = q
          /\ i \notin crossed => \A y \in job[q].wish : record[y] = "DELETED" \/ y \notin archived
      BY <3>1, <1>2 DEF CreatesOfLiveParts
    <3>3. archived \subseteq Part \cup Item
      BY <1>2 DEF CatalogTypeOK
    <3>. QED  BY <3>1, <3>2, <3>3, <1>4, <1>5, <1>6, <1>7
  <2>. QED  BY <2>1, <1>1 DEF CreatesOfLiveParts
<1>12. ArchivesUnusedParts'
  <2>1. \A i \in Item : Available(i)' <=> Available(i)
    BY <1>1, <1>5 DEF Available, Stored
  <2>. QED  BY <2>1, <1>1, <1>2, <1>4, <1>6 DEF ArchivesUnusedParts
<1>13. ReplacesWhatItSees'
  BY <1>1, <1>2, <1>4, <1>6 DEF ReplacesWhatItSees
<1>14. CatalogReferencesHold'
  <2>1. \A i \in used : Stored(i)'
    BY <1>2, <1>5 DEF CatalogReferencesHold, CatalogTypeOK
  <2>2. \A i \in Item : Stored(i)' => \A y \in madeOf[i] : Stored(y)'
    <3>1. \A i \in Item : Stored(i)' => Stored(i)
      BY <1>5 DEF Stored
    <3>. QED  BY <3>1, <1>2, <1>5 DEF CatalogReferencesHold, CatalogTypeOK
  <2>3. \A c \in Category : Stored(c)' /\ under'[c] # None => record'[under'[c]] = "STORED"
    <3>1. ASSUME NEW c \in Category, Stored(c)', under'[c] # None
          PROVE  record'[under'[c]] = "STORED"
      <4>1. CASE c = x
        <5>1. Stored(under'[c]) /\ under'[c] \in Category
          BY <3>1, <4>1, <1>7, <1>8
        <5>. QED  BY <5>1, <1>4, <1>5 DEF Stored
      <4>2. CASE c # x
        <5>1. under'[c] = under[c] /\ Stored(c)
          BY <3>1, <4>2, <1>4, <1>5, <1>8 DEF Stored
        <5>2. Stored(under[c]) /\ under[c] \in Category
          BY <3>1, <5>1, <1>2 DEF CatalogReferencesHold, CatalogTypeOK
        <5>. QED  BY <5>1, <5>2, <1>4, <1>5 DEF Stored
      <4>. QED  BY <4>1, <4>2
    <3>. QED  BY <3>1
  <2>4. \A b \in Bouquet : \A r \in recipe[b] : Stored(b)' /\ Stored(r.comp)'
    BY <1>2, <1>4, <1>5 DEF CatalogReferencesHold, CatalogTypeOK
  <2>. QED  BY <2>1, <2>2, <2>3, <2>4, <1>1 DEF CatalogReferencesHold, Stored
<1>15. ActiveItemsHaveActiveParts'
  <2>1. \A e \in Part \cup Item : Available(e) => Available(e)'
    BY <1>1, <1>5 DEF Available
  <2>2. \A i \in Item : Available(i)' => Available(i)
    BY <1>1, <1>5 DEF Available, Stored
  <2>. QED  BY <2>1, <2>2, <1>1, <1>2 DEF ActiveItemsHaveActiveParts, CatalogTypeOK
<1>16. RecipesAreWhole'
  <2>1. \A b \in Bouquet : {c \in asked[b] : Stored(c)}' = {c \in asked[b] : Stored(c)}
    BY <1>1, <1>2, <1>5 DEF CatalogTypeOK, Stored
  <2>2. \A b \in Bouquet : Stored(b)' <=> Stored(b)
    BY <1>4, <1>5 DEF Stored
  <2>. QED  BY <2>1, <2>2, <1>1, <1>2 DEF RecipesAreWhole
<1>. QED  BY <1>9, <1>10, <1>11, <1>12, <1>13, <1>14, <1>15, <1>16 DEF CatalogInv


\* An item is inserted, with parts that nobody is archiving and that are, or
\* come to be, stored.
LEMMA InsertItemKeeps ==
    ASSUME JobsOK, RowsOK, CatalogInv, NEW p \in Request, InsertItem(p)
    PROVE  CatalogInv'
<1>1. PICK i, W : i = job[p].entity /\ W = job[p].wish
  OBVIOUS
<1>2. /\ job[p].op = "insert" /\ Ends(p)
      /\ \/ /\ \A x \in W : record[x] # "DELETED"
            /\ record' = [e \in Entity |-> IF e \in W \cup {i} THEN "STORED" ELSE record[e]]
            /\ madeOf' = [madeOf EXCEPT ![i] = W]
         \/ record' = record /\ madeOf' = madeOf
      /\ archived' = archived /\ under' = under /\ used' = used
      /\ recipe' = recipe /\ asked' = asked /\ crossed' = crossed /\ overlapped' = overlapped
  BY <1>1 DEF InsertItem
<1>3. /\ CatalogTypeOK /\ UnbornAreNew /\ CreatesOfLiveParts /\ ArchivesUnusedParts
      /\ ReplacesWhatItSees /\ CatalogReferencesHold /\ ActiveItemsHaveActiveParts
      /\ RecipesAreWhole
  BY DEF CatalogInv
<1>4. job'[p].op = "over" /\ \A q \in Request \ {p} : job'[q] = job[q]
  BY <1>2, EndsJob
<1>5. CASE record' = record /\ madeOf' = madeOf
  BY <1>2, <1>4, <1>5, CatalogQuiet DEF catalogVars
<1>6. CASE /\ \A x \in W : record[x] # "DELETED"
           /\ record' = [e \in Entity |-> IF e \in W \cup {i} THEN "STORED" ELSE record[e]]
           /\ madeOf' = [madeOf EXCEPT ![i] = W]
  <2>1. i \in Item /\ W \in ItemParts /\ W \subseteq Part
    <3>1. i \in Item /\ W \in ItemParts
      BY <1>1, <1>2 DEF JobsOK, IsJob, Fits
    <3>. QED  BY <3>1 DEF ItemParts, Part
  <2>2. /\ Item \subseteq Entity /\ Part \subseteq Entity /\ Bouquet \subseteq Item
        /\ Category \subseteq Part /\ Item \cap Part = {}
    BY CatalogAssumption DEF Part
  <2>3. Creating(p, i)
    BY <1>1, <1>2 DEF Creating
  <2>4. /\ record[i] = "UNBORN" /\ \A q \in Request : Creating(q, i) => q = p
        /\ i \notin crossed => \A x \in W : x \notin archived
    BY <2>1, <2>3, <1>1, <1>3, <1>6 DEF CreatesOfLiveParts
  <2>5. /\ record'[i] = "STORED" /\ \A x \in W : record'[x] = "STORED"
        /\ \A j \in Item \ {i} : record'[j] = record[j]
        /\ \A e \in Part \cup Item : record'[e] = "UNBORN" => record[e] = "UNBORN"
        /\ \A e \in Part \cup Item : Stored(e) => Stored(e)'
        /\ \A e \in Part \cup Item : record'[e] = "DELETED" <=> record[e] = "DELETED"
        /\ \A e \in Part \cup Item : record'[e] # record[e] => record[e] = "UNBORN"
    BY <1>6, <2>1, <2>2, <2>4 DEF RowsOK, Stored
  <2>6. madeOf'[i] = W /\ \A j \in Item \ {i} : madeOf'[j] = madeOf[j]
    BY <1>3, <1>6, <2>1 DEF CatalogTypeOK
  <2>7. \A q \in Request, e \in Entity :
           /\ Creating(q, e)' => job'[q] = job[q] /\ Creating(q, e) /\ q # p
           /\ Archiving(q, e)' => job'[q] = job[q] /\ Archiving(q, e)
           /\ Replacing(q, e)' => job'[q] = job[q] /\ Replacing(q, e)
    BY <1>4 DEF Creating, Archiving, Replacing
  <2>8. \A e \in Part \cup Item : record[e] = "UNBORN" => e \notin archived
    BY <1>3 DEF UnbornAreNew
  <2>9. \A j \in Item \ {i} : Available(j)' <=> Available(j)
    BY <1>2, <2>5 DEF Available, Stored
  <2>10. CatalogTypeOK'
    BY <1>2, <1>3, <1>6, <2>1 DEF CatalogTypeOK
  <2>11. UnbornAreNew'
    <3>1. \A e \in archived : record'[e] # "UNBORN"
      BY <1>3, <2>5 DEF UnbornAreNew, CatalogTypeOK
    <3>2. \A j \in Item : IF record'[j] = "UNBORN" THEN madeOf'[j] = {} ELSE madeOf'[j] \in ItemParts
      BY <1>3, <2>1, <2>5, <2>6 DEF UnbornAreNew
    <3>3. \A c \in Category : record'[c] = "UNBORN" => under[c] = None
      BY <1>3, <2>2, <2>5 DEF UnbornAreNew
    <3>4. \A b \in Bouquet : /\ record'[b] = "UNBORN" => recipe[b] = {} /\ asked[b] = {}
                             /\ \A c \in asked[b] : record'[c] # "UNBORN"
      BY <1>3, <2>2, <2>5 DEF UnbornAreNew, CatalogTypeOK
    <3>. QED  BY <3>1, <3>2, <3>3, <3>4, <1>2 DEF UnbornAreNew
  <2>12. CreatesOfLiveParts'
    <3>1. ASSUME NEW q \in Request, NEW j \in Item, Creating(q, j)'
          PROVE  /\ record'[j] = "UNBORN" /\ \A r \in Request : Creating(r, j)' => r = q
                 /\ j \notin crossed => \A y \in job'[q].wish :
                       record'[y] = "DELETED" \/ y \notin archived
      <4>1. Creating(q, j) /\ job'[q] = job[q] /\ j # i
        BY <3>1, <2>2, <2>4, <2>7
      <4>2. /\ record[j] = "UNBORN" /\ \A r \in Request : Creating(r, j) => r = q
            /\ j \notin crossed => \A y \in job[q].wish : record[y] = "DELETED" \/ y \notin archived
        BY <4>1, <1>3 DEF CreatesOfLiveParts
      <4>3. archived \subseteq Part \cup Item
        BY <1>3 DEF CatalogTypeOK
      <4>. QED  BY <4>1, <4>2, <4>3, <2>2, <2>5, <2>7
    <3>. QED  BY <3>1, <1>2 DEF CreatesOfLiveParts
  <2>13. ArchivesUnusedParts'
    <3>1. ASSUME NEW q \in Request, NEW x \in Part, Archiving(q, x)'
          PROVE  /\ \A j \in Item \ crossed : Available(j)' => x \notin madeOf'[j]
                 /\ \A r \in Request, j \in Item \ crossed : Creating(r, j)' => x \notin job'[r].wish
      <4>1. Archiving(q, x)
        BY <3>1, <2>2, <2>7
      <4>2. /\ \A j \in Item \ crossed : Available(j) => x \notin madeOf[j]
            /\ \A r \in Request, j \in Item \ crossed : Creating(r, j) => x \notin job[r].wish
        BY <4>1, <1>3 DEF ArchivesUnusedParts
      <4>3. i \notin crossed => x \notin W
        BY <4>2, <2>1, <2>3, <1>1
      <4>. QED  BY <4>2, <4>3, <2>2, <2>6, <2>7, <2>9
    <3>. QED  BY <3>1, <1>2 DEF ArchivesUnusedParts
  <2>14. ReplacesWhatItSees'
    BY <1>2, <1>3, <2>2, <2>7 DEF ReplacesWhatItSees
  <2>15. CatalogReferencesHold'
    <3>1. \A j \in used : Stored(j)'
      BY <1>3, <2>5 DEF CatalogReferencesHold, CatalogTypeOK
    <3>2. \A j \in Item : Stored(j)' => \A x \in madeOf'[j] : Stored(x)'
      <4>1. ASSUME NEW j \in Item \ {i}, Stored(j)'
            PROVE  \A x \in madeOf'[j] : Stored(x)'
        <5>1. Stored(j) /\ madeOf'[j] = madeOf[j]
          BY <4>1, <2>5, <2>6 DEF Stored
        <5>. QED  BY <5>1, <1>3, <2>5 DEF CatalogReferencesHold, CatalogTypeOK
      <4>2. \A x \in madeOf'[i] : Stored(x)'
        BY <2>5, <2>6 DEF Stored
      <4>. QED  BY <4>1, <4>2
    <3>3. \A c \in Category : record'[c] = "STORED" /\ under[c] # None => record'[under[c]] = "STORED"
      <4>1. ASSUME NEW c \in Category, record'[c] = "STORED", under[c] # None
            PROVE  record'[under[c]] = "STORED"
        <5>1. record[c] # "UNBORN" /\ under[c] \in Category
          BY <4>1, <1>3 DEF UnbornAreNew, CatalogTypeOK
        <5>2. Stored(c)
          BY <4>1, <5>1, <2>2, <2>5 DEF Stored
        <5>3. Stored(under[c])
          BY <4>1, <5>2, <1>3 DEF CatalogReferencesHold
        <5>. QED  BY <5>1, <5>3, <2>2, <2>5 DEF Stored
      <4>. QED  BY <4>1
    <3>4. \A b \in Bouquet : \A r \in recipe[b] : Stored(b)' /\ Stored(r.comp)'
      BY <1>3, <2>2, <2>5 DEF CatalogReferencesHold, CatalogTypeOK
    <3>. QED  BY <3>1, <3>2, <3>3, <3>4, <1>2 DEF CatalogReferencesHold, Stored
  <2>16. ActiveItemsHaveActiveParts'
    <3>1. ASSUME NEW j \in Item \ crossed, Available(j)', NEW x \in madeOf'[j]
          PROVE  record'[x] = "STORED" /\ x \notin archived
      <4>1. CASE j = i
        BY <3>1, <4>1, <2>4, <2>5, <2>6
      <4>2. CASE j # i
        <5>1. Available(j) /\ x \in madeOf[j] /\ x \in Part
          BY <3>1, <4>2, <1>3, <2>6, <2>9 DEF CatalogTypeOK
        <5>2. Available(x)
          BY <3>1, <5>1, <1>3 DEF ActiveItemsHaveActiveParts
        <5>. QED  BY <5>1, <5>2, <2>5 DEF Available, Stored
      <4>. QED  BY <4>1, <4>2
    <3>. QED  BY <3>1, <1>2 DEF ActiveItemsHaveActiveParts, Available, Stored
  <2>17. RecipesAreWhole'
    <3>1. ASSUME NEW b \in Bouquet \ overlapped, record'[b] = "STORED"
          PROVE  {r.comp : r \in recipe[b]} = {c \in asked[b] : record'[c] = "STORED"}
      <4>1. CASE b = i
        <5>1. recipe[b] = {} /\ asked[b] = {}
          BY <4>1, <3>1, <1>3, <2>4 DEF UnbornAreNew
        <5>. QED  BY <5>1
      <4>2. CASE b # i
        <5>1. Stored(b)
          BY <3>1, <4>2, <2>2, <2>5 DEF Stored
        <5>2. \A c \in asked[b] : c \in Item /\ c # i
          BY <3>1, <1>3, <2>4 DEF UnbornAreNew, CatalogTypeOK
        <5>3. {c \in asked[b] : Stored(c)} = {c \in asked[b] : record'[c] = "STORED"}
          BY <5>2, <2>5 DEF Stored
        <5>. QED  BY <3>1, <5>1, <5>3, <1>3 DEF RecipesAreWhole
      <4>. QED  BY <4>1, <4>2
    <3>. QED  BY <3>1, <1>2 DEF RecipesAreWhole, Stored
  <2>. QED  BY <2>10, <2>11, <2>12, <2>13, <2>14, <2>15, <2>16, <2>17 DEF CatalogInv
<1>. QED  BY <1>2, <1>5, <1>6

\* createItem begins: what it has read is in use, or will be a new category.
LEMMA AskItemKeeps ==
    ASSUME JobsOK, RowsOK, CatalogInv, NEW p \in Request, NEW i \in Item, NEW W \in ItemParts,
           AskItem(p, i, W)
    PROVE  CatalogInv'
<1>1. /\ Starts(p, "insert", i, None, W) /\ record[i] = "UNBORN"
      /\ \A q \in Request : ~Creating(q, i)
      /\ \A x \in W : Available(x) \/ record[x] = "UNBORN"
      /\ crossed' = IF \E q \in Request, x \in W : Archiving(q, x) THEN crossed \cup {i} ELSE crossed
      /\ record' = record /\ archived' = archived /\ madeOf' = madeOf /\ under' = under
      /\ used' = used /\ recipe' = recipe /\ asked' = asked /\ overlapped' = overlapped
  BY DEF AskItem, Wanting, rows
<1>2. /\ CatalogTypeOK /\ UnbornAreNew /\ CreatesOfLiveParts /\ ArchivesUnusedParts
      /\ ReplacesWhatItSees /\ CatalogReferencesHold /\ ActiveItemsHaveActiveParts
      /\ RecipesAreWhole
  BY DEF CatalogInv
<1>3. /\ job[p].op = "idle" /\ job'[p].op = "insert" /\ job'[p].entity = i /\ job'[p].wish = W
      /\ \A q \in Request \ {p} : job'[q] = job[q]
  BY <1>1, StartsJob
<1>4. \A q \in Request : \A e :
         /\ Creating(q, e)' => \/ job'[q] = job[q] /\ Creating(q, e)
                               \/ q = p /\ e = i
         /\ Archiving(q, e)' => job'[q] = job[q] /\ Archiving(q, e)
         /\ Replacing(q, e)' => job'[q] = job[q] /\ Replacing(q, e)
  BY <1>3 DEF Creating, Archiving, Replacing
<1>5. crossed \subseteq crossed' /\ crossed' \subseteq Item
  BY <1>1, <1>2 DEF CatalogTypeOK
<1>6. \A x \in W : x \notin archived
  BY <1>1, <1>2 DEF UnbornAreNew, Available
<1>7. CatalogTypeOK' /\ UnbornAreNew'
  BY <1>1, <1>2, <1>5 DEF CatalogTypeOK, UnbornAreNew
<1>8. CreatesOfLiveParts'
  <2>1. ASSUME NEW q \in Request, NEW j \in Item, Creating(q, j)'
        PROVE  /\ record[j] = "UNBORN" /\ \A r \in Request : Creating(r, j)' => r = q
               /\ j \notin crossed' => \A y \in job'[q].wish : record[y] = "DELETED" \/ y \notin archived
    <3>1. CASE j = i
      <4>1. q = p /\ \A r \in Request : Creating(r, i)' => r = p
        BY <2>1, <3>1, <1>1, <1>4
      <4>. QED  BY <3>1, <4>1, <1>1, <1>3, <1>6
    <3>2. CASE j # i
      <4>1. Creating(q, j) /\ job'[q] = job[q] /\ \A r \in Request : Creating(r, j)' => Creating(r, j)
        BY <2>1, <3>2, <1>4
      <4>. QED  BY <4>1, <1>2, <1>5 DEF CreatesOfLiveParts
    <3>. QED  BY <3>1, <3>2
  <2>. QED  BY <2>1, <1>1 DEF CreatesOfLiveParts
<1>9. ArchivesUnusedParts'
  <2>1. ASSUME NEW q \in Request, NEW x \in Part, Archiving(q, x)'
        PROVE  /\ \A j \in Item \ crossed' : Available(j) => x \notin madeOf[j]
               /\ \A r \in Request, j \in Item \ crossed' : Creating(r, j)' => x \notin job'[r].wish
    <3>1. Archiving(q, x)
      BY <2>1, <1>4
    <3>2. /\ \A j \in Item \ crossed : Available(j) => x \notin madeOf[j]
          /\ \A r \in Request, j \in Item \ crossed : Creating(r, j) => x \notin job[r].wish
      BY <3>1, <1>2 DEF ArchivesUnusedParts
    <3>3. i \notin crossed' => x \notin W
      BY <3>1, <1>1
    <3>. QED  BY <3>2, <3>3, <1>3, <1>4, <1>5
  <2>2. \A j \in Item : Available(j)' <=> Available(j)
    BY <1>1 DEF Available, Stored
  <2>. QED  BY <2>1, <2>2, <1>1 DEF ArchivesUnusedParts
<1>10. ReplacesWhatItSees'
  BY <1>1, <1>2, <1>4 DEF ReplacesWhatItSees
<1>11. CatalogReferencesHold' /\ RecipesAreWhole'
  BY <1>1, <1>2 DEF CatalogReferencesHold, RecipesAreWhole, Stored
<1>12. ActiveItemsHaveActiveParts'
  BY <1>1, <1>2, <1>5 DEF ActiveItemsHaveActiveParts, Available, Stored
<1>. QED  BY <1>7, <1>8, <1>9, <1>10, <1>11, <1>12 DEF CatalogInv

\* An archive begins: it has counted no item in use, and those that are being
\* created of the part are crossed.
LEMMA AskArchiveKeeps ==
    ASSUME JobsOK, RowsOK, CatalogInv, NEW p \in Request, NEW x \in Part, AskArchive(p, x)
    PROVE  CatalogInv'
<1>1. /\ Starts(p, "archive", x, None, None) /\ LiveItems(x) = {}
      /\ crossed' = crossed \cup {i \in Item : \E q \in Request : Creating(q, i) /\ x \in job[q].wish}
      /\ record' = record /\ archived' = archived /\ madeOf' = madeOf /\ under' = under
      /\ used' = used /\ recipe' = recipe /\ asked' = asked /\ overlapped' = overlapped
  BY DEF AskArchive, rows
<1>2. /\ CatalogTypeOK /\ UnbornAreNew /\ CreatesOfLiveParts /\ ArchivesUnusedParts
      /\ ReplacesWhatItSees /\ CatalogReferencesHold /\ ActiveItemsHaveActiveParts
      /\ RecipesAreWhole
  BY DEF CatalogInv
<1>3. /\ job[p].op = "idle" /\ job'[p].op = "archive" /\ job'[p].entity = x
      /\ \A q \in Request \ {p} : job'[q] = job[q]
  BY <1>1, StartsJob
<1>4. \A q \in Request : \A e :
         /\ Creating(q, e)' => job'[q] = job[q] /\ Creating(q, e)
         /\ Archiving(q, e)' => \/ job'[q] = job[q] /\ Archiving(q, e)
                                \/ q = p /\ e = x
         /\ Replacing(q, e)' => job'[q] = job[q] /\ Replacing(q, e)
  BY <1>3 DEF Creating, Archiving, Replacing
<1>5. crossed \subseteq crossed' /\ crossed' \subseteq Item
  BY <1>1, <1>2 DEF CatalogTypeOK
<1>6. \A i \in Item : Available(i) => x \notin madeOf[i]
  BY <1>1 DEF LiveItems, ItemsOf, Available
<1>7. CatalogTypeOK' /\ UnbornAreNew'
  BY <1>1, <1>2, <1>5 DEF CatalogTypeOK, UnbornAreNew
<1>8. CreatesOfLiveParts'
  BY <1>1, <1>2, <1>4, <1>5 DEF CreatesOfLiveParts
<1>9. ArchivesUnusedParts'
  <2>1. ASSUME NEW q \in Request, NEW y \in Part, Archiving(q, y)'
        PROVE  /\ \A j \in Item \ crossed' : Available(j) => y \notin madeOf[j]
               /\ \A r \in Request, j \in Item \ crossed' : Creating(r, j)' => y \notin job'[r].wish
    <3>1. CASE y = x
      <4>1. \A r \in Request, j \in Item \ crossed' : Creating(r, j) => x \notin job[r].wish
        BY <1>1
      <4>. QED  BY <3>1, <4>1, <1>4, <1>6
    <3>2. CASE y # x
      <4>1. Archiving(q, y)
        BY <2>1, <3>2, <1>4
      <4>. QED  BY <4>1, <1>2, <1>4, <1>5 DEF ArchivesUnusedParts
    <3>. QED  BY <3>1, <3>2
  <2>2. \A j \in Item : Available(j)' <=> Available(j)
    BY <1>1 DEF Available, Stored
  <2>. QED  BY <2>1, <2>2, <1>1 DEF ArchivesUnusedParts
<1>10. ReplacesWhatItSees'
  BY <1>1, <1>2, <1>4 DEF ReplacesWhatItSees
<1>11. CatalogReferencesHold' /\ RecipesAreWhole'
  BY <1>1, <1>2 DEF CatalogReferencesHold, RecipesAreWhole, Stored
<1>12. ActiveItemsHaveActiveParts'
  BY <1>1, <1>2, <1>5 DEF ActiveItemsHaveActiveParts, Available, Stored
<1>. QED  BY <1>7, <1>8, <1>9, <1>10, <1>11, <1>12 DEF CatalogInv


\* A stored record is archived: an item, or a part that nothing in use has.
LEMMA ArchivedKeeps ==
    ASSUME JobsOK, CatalogInv, NEW p \in Request, NEW x \in Part \cup Item, Stored(x),
           x \in Part => Archiving(p, x),
           job'[p].op = "over", \A q \in Request \ {p} : job'[q] = job[q],
           archived' = archived \cup {x},
           UNCHANGED <<record, madeOf, under, used, recipe, asked, crossed, overlapped>>
    PROVE  CatalogInv'
<1>1. /\ record' = record /\ madeOf' = madeOf /\ under' = under /\ used' = used
      /\ recipe' = recipe /\ asked' = asked /\ crossed' = crossed /\ overlapped' = overlapped
  OBVIOUS
<1>2. /\ CatalogTypeOK /\ UnbornAreNew /\ CreatesOfLiveParts /\ ArchivesUnusedParts
      /\ ReplacesWhatItSees /\ CatalogReferencesHold /\ ActiveItemsHaveActiveParts
      /\ RecipesAreWhole
  BY DEF CatalogInv
<1>3. \A q \in Request : \A e :
         /\ Creating(q, e)' => job'[q] = job[q] /\ Creating(q, e)
         /\ Archiving(q, e)' => job'[q] = job[q] /\ Archiving(q, e)
         /\ Replacing(q, e)' => job'[q] = job[q] /\ Replacing(q, e)
  BY DEF Creating, Archiving, Replacing
<1>4. \A e : Available(e)' => Available(e)
  BY <1>1 DEF Available, Stored
<1>5. Part \cap Item = {}
  BY CatalogAssumption
<1>6. CatalogTypeOK' /\ UnbornAreNew'
  BY <1>1, <1>2 DEF CatalogTypeOK, UnbornAreNew, Stored
<1>7. CreatesOfLiveParts'
  <2>1. ASSUME NEW q \in Request, NEW j \in Item, Creating(q, j)'
        PROVE  /\ record[j] = "UNBORN" /\ \A r \in Request : Creating(r, j)' => r = q
               /\ j \notin crossed => \A y \in job'[q].wish : record[y] = "DELETED" \/ y \notin archived'
    <3>1. Creating(q, j) /\ job'[q] = job[q]
      BY <2>1, <1>3
    <3>2. job[q].wish \subseteq Part
      BY <3>1 DEF Creating, JobsOK, IsJob, Fits, ItemParts, Part
    <3>3. j \notin crossed => x \notin job[q].wish
      <4>1. CASE x \in Part
        BY <4>1, <3>1, <1>2 DEF ArchivesUnusedParts
      <4>2. CASE x \notin Part
        BY <4>2, <3>2
      <4>. QED  BY <4>1, <4>2
    <3>. QED  BY <3>1, <3>3, <1>2, <1>3 DEF CreatesOfLiveParts
  <2>. QED  BY <2>1, <1>1 DEF CreatesOfLiveParts
<1>8. ArchivesUnusedParts'
  BY <1>1, <1>2, <1>3, <1>4 DEF ArchivesUnusedParts
<1>9. ReplacesWhatItSees'
  BY <1>1, <1>2, <1>3 DEF ReplacesWhatItSees
<1>10. CatalogReferencesHold' /\ RecipesAreWhole'
  BY <1>1, <1>2 DEF CatalogReferencesHold, RecipesAreWhole, Stored
<1>11. ActiveItemsHaveActiveParts'
  <2>1. ASSUME NEW i \in Item \ crossed, Available(i)', NEW y \in madeOf[i]
        PROVE  Stored(y) /\ y \notin archived'
    <3>1. Available(i)
      BY <2>1, <1>4
    <3>2. Available(y) /\ y \in Part
      BY <3>1, <1>2 DEF ActiveItemsHaveActiveParts, CatalogTypeOK
    <3>3. y # x
      BY <3>1, <3>2, <1>2 DEF ArchivesUnusedParts
    <3>. QED  BY <3>2, <3>3 DEF Available
  <2>. QED  BY <2>1, <1>1 DEF ActiveItemsHaveActiveParts, Available, Stored
<1>. QED  BY <1>6, <1>7, <1>8, <1>9, <1>10, <1>11 DEF CatalogInv

\* A document takes a stored item.
LEMMA UseItemKeeps ==
    ASSUME JobsOK, CatalogInv, NEW p \in Request, NEW i \in Item, UseItem(p, i)
    PROVE  CatalogInv'
<1>1. /\ AtOnce(p) /\ Stored(i) /\ used' = used \cup {i}
      /\ record' = record /\ archived' = archived /\ madeOf' = madeOf /\ under' = under
      /\ recipe' = recipe /\ asked' = asked /\ crossed' = crossed /\ overlapped' = overlapped
  BY DEF UseItem, rows, Available
<1>2. /\ CatalogTypeOK /\ UnbornAreNew /\ CreatesOfLiveParts /\ ArchivesUnusedParts
      /\ ReplacesWhatItSees /\ CatalogReferencesHold /\ ActiveItemsHaveActiveParts
      /\ RecipesAreWhole
  BY DEF CatalogInv
<1>3. job'[p].op = "over" /\ \A q \in Request \ {p} : job'[q] = job[q]
  BY <1>1, AtOnceJob
<1>4. \A q \in Request : \A e :
         /\ Creating(q, e)' => job'[q] = job[q] /\ Creating(q, e)
         /\ Archiving(q, e)' => job'[q] = job[q] /\ Archiving(q, e)
         /\ Replacing(q, e)' => job'[q] = job[q] /\ Replacing(q, e)
  BY <1>3 DEF Creating, Archiving, Replacing
<1>5. CatalogTypeOK' /\ UnbornAreNew'
  BY <1>1, <1>2 DEF CatalogTypeOK, UnbornAreNew
<1>6. CreatesOfLiveParts'
  BY <1>1, <1>2, <1>4 DEF CreatesOfLiveParts
<1>7. ArchivesUnusedParts'
  BY <1>1, <1>2, <1>4 DEF ArchivesUnusedParts, Available, Stored
<1>8. ReplacesWhatItSees'
  BY <1>1, <1>2, <1>4 DEF ReplacesWhatItSees
<1>9. CatalogReferencesHold' /\ RecipesAreWhole'
  BY <1>1, <1>2 DEF CatalogReferencesHold, RecipesAreWhole, Stored
<1>10. ActiveItemsHaveActiveParts'
  BY <1>1, <1>2 DEF ActiveItemsHaveActiveParts, Available, Stored
<1>. QED  BY <1>5, <1>6, <1>7, <1>8, <1>9, <1>10 DEF CatalogInv

\* The old lines of a recipe are deleted as they were seen, and a second request
\* that replaces them is noticed.
LEMMA ClearRecipeKeeps ==
    ASSUME JobsOK, CatalogInv, NEW p \in Request, ClearRecipe(p)
    PROVE  CatalogInv'
<1>1. PICK b, w : b = job[p].entity /\ w = [lines |-> job[p].wish, seen |-> recipe[b]]
  OBVIOUS
<1>2. /\ job[p].op = "clear"
      /\ job' = [job EXCEPT ![p] = [@ EXCEPT !.op = "fill", !.wish = w]]
      /\ overlapped' = IF \E q \in Request : Replacing(q, b) THEN overlapped \cup {b} ELSE overlapped
      /\ record' = record /\ archived' = archived /\ madeOf' = madeOf /\ under' = under
      /\ used' = used /\ recipe' = recipe /\ asked' = asked /\ crossed' = crossed
  BY <1>1 DEF ClearRecipe, rows, Visible
<1>3. /\ CatalogTypeOK /\ UnbornAreNew /\ CreatesOfLiveParts /\ ArchivesUnusedParts
      /\ ReplacesWhatItSees /\ CatalogReferencesHold /\ ActiveItemsHaveActiveParts
      /\ RecipesAreWhole
  BY DEF CatalogInv
<1>4. b \in Bouquet
  BY <1>1, <1>2 DEF JobsOK, IsJob, Fits
<1>5. /\ job'[p].op = "fill" /\ job'[p].entity = b /\ job'[p].wish = w /\ w.seen = recipe[b]
      /\ \A q \in Request \ {p} : job'[q] = job[q]
  BY <1>1, <1>2 DEF JobsOK, IsJob
<1>6. \A q \in Request : \A e :
         /\ Creating(q, e)' => job'[q] = job[q] /\ Creating(q, e)
         /\ Archiving(q, e)' => job'[q] = job[q] /\ Archiving(q, e)
         /\ Replacing(q, e)' => \/ job'[q] = job[q] /\ Replacing(q, e)
                                \/ q = p /\ e = b
  BY <1>5 DEF Creating, Archiving, Replacing
<1>7. overlapped \subseteq overlapped' /\ overlapped' \subseteq Bouquet
  BY <1>2, <1>3, <1>4 DEF CatalogTypeOK
<1>8. CatalogTypeOK' /\ UnbornAreNew'
  BY <1>2, <1>3, <1>7 DEF CatalogTypeOK, UnbornAreNew
<1>9. CreatesOfLiveParts'
  BY <1>2, <1>3, <1>6 DEF CreatesOfLiveParts
<1>10. ArchivesUnusedParts'
  BY <1>2, <1>3, <1>6 DEF ArchivesUnusedParts, Available, Stored
<1>11. ReplacesWhatItSees'
  <2>1. ASSUME NEW q \in Request, NEW c \in Bouquet \ overlapped', Replacing(q, c)'
        PROVE  recipe[c] \subseteq job'[q].wish.seen /\ \A r \in Request : Replacing(r, c)' => r = q
    <3>1. CASE c = b
      <4>1. \A r \in Request : ~Replacing(r, b)
        BY <2>1, <3>1, <1>2
      <4>2. q = p /\ \A r \in Request : Replacing(r, b)' => r = p
        BY <4>1, <2>1, <3>1, <1>6
      <4>. QED  BY <4>2, <3>1, <1>5
    <3>2. CASE c # b
      BY <2>1, <3>2, <1>3, <1>6, <1>7 DEF ReplacesWhatItSees
    <3>. QED  BY <3>1, <3>2
  <2>. QED  BY <2>1, <1>2 DEF ReplacesWhatItSees
<1>12. CatalogReferencesHold'
  BY <1>2, <1>3 DEF CatalogReferencesHold, Stored
<1>13. ActiveItemsHaveActiveParts'
  BY <1>2, <1>3 DEF ActiveItemsHaveActiveParts, Available, Stored
<1>14. RecipesAreWhole'
  BY <1>2, <1>3, <1>7 DEF RecipesAreWhole, Stored
<1>. QED  BY <1>8, <1>9, <1>10, <1>11, <1>12, <1>13, <1>14 DEF CatalogInv

\* The new lines are inserted: nothing of the old recipe is left but what a
\* second request has put there meanwhile.
LEMMA FillRecipeKeeps ==
    ASSUME JobsOK, CatalogInv, NEW p \in Request, FillRecipe(p)
    PROVE  CatalogInv'
<1>1. PICK b, L, rest : /\ b = job[p].entity /\ L = job[p].wish.lines
                        /\ rest = recipe[b] \ job[p].wish.seen
  OBVIOUS
<1>2. /\ job[p].op = "fill" /\ Ends(p)
      /\ \/ /\ Stored(b) /\ \A c \in L : Stored(c)
            /\ recipe' = [recipe EXCEPT ![b] = rest \cup {[comp |-> c, by |-> p] : c \in L}]
            /\ asked' = [asked EXCEPT ![b] = L]
         \/ recipe' = recipe /\ asked' = asked
      /\ record' = record /\ archived' = archived /\ madeOf' = madeOf /\ under' = under
      /\ used' = used /\ crossed' = crossed /\ overlapped' = overlapped
  BY <1>1 DEF FillRecipe, rows
<1>3. /\ CatalogTypeOK /\ UnbornAreNew /\ CreatesOfLiveParts /\ ArchivesUnusedParts
      /\ ReplacesWhatItSees /\ CatalogReferencesHold /\ ActiveItemsHaveActiveParts
      /\ RecipesAreWhole
  BY DEF CatalogInv
<1>4. job'[p].op = "over" /\ \A q \in Request \ {p} : job'[q] = job[q]
  BY <1>2, EndsJob
<1>5. CASE recipe' = recipe /\ asked' = asked
  BY <1>2, <1>4, <1>5, CatalogQuiet DEF catalogVars
<1>6. CASE /\ Stored(b) /\ \A c \in L : Stored(c)
           /\ recipe' = [recipe EXCEPT ![b] = rest \cup {[comp |-> c, by |-> p] : c \in L}]
           /\ asked' = [asked EXCEPT ![b] = L]
  <2>1. b \in Bouquet /\ L \in SUBSET (Item \ Bouquet)
    BY <1>1, <1>2 DEF JobsOK, IsJob, Fits
  <2>2. /\ recipe'[b] = rest \cup {[comp |-> c, by |-> p] : c \in L} /\ asked'[b] = L
        /\ \A d \in Bouquet \ {b} : recipe'[d] = recipe[d] /\ asked'[d] = asked[d]
        /\ rest \subseteq recipe[b]
    BY <1>1, <1>3, <1>6, <2>1 DEF CatalogTypeOK
  <2>3. /\ recipe' \in [Bouquet -> SUBSET [comp : Item \ Bouquet, by : Request]]
        /\ asked' \in [Bouquet -> SUBSET (Item \ Bouquet)]
    <3>1. {[comp |-> c, by |-> p] : c \in L} \subseteq [comp : Item \ Bouquet, by : Request]
      BY <2>1
    <3>2. recipe[b] \subseteq [comp : Item \ Bouquet, by : Request]
      BY <1>3, <2>1 DEF CatalogTypeOK
    <3>3. rest \cup {[comp |-> c, by |-> p] : c \in L} \in SUBSET [comp : Item \ Bouquet, by : Request]
      BY <3>1, <3>2, <2>2
    <3>4. recipe' \in [Bouquet -> SUBSET [comp : Item \ Bouquet, by : Request]]
      BY <3>3, <1>3, <1>6 DEF CatalogTypeOK
    <3>5. asked' \in [Bouquet -> SUBSET (Item \ Bouquet)]
      BY <2>1, <1>3, <1>6 DEF CatalogTypeOK
    <3>. QED  BY <3>4, <3>5
  <2>4. \A q \in Request : \A e :
           /\ Creating(q, e)' => job'[q] = job[q] /\ Creating(q, e)
           /\ Archiving(q, e)' => job'[q] = job[q] /\ Archiving(q, e)
           /\ Replacing(q, e)' => job'[q] = job[q] /\ Replacing(q, e) /\ q # p
    BY <1>4 DEF Creating, Archiving, Replacing
  <2>5. Replacing(p, b)
    BY <1>1, <1>2 DEF Replacing
  <2>6. CatalogTypeOK'
    BY <1>2, <1>3, <2>3 DEF CatalogTypeOK
  <2>7. UnbornAreNew'
    <3>1. \A d \in Bouquet : /\ record[d] = "UNBORN" => recipe'[d] = {} /\ asked'[d] = {}
                             /\ \A c \in asked'[d] : record[c] # "UNBORN"
      BY <1>3, <1>6, <2>2 DEF UnbornAreNew, Stored
    <3>. QED  BY <3>1, <1>2, <1>3 DEF UnbornAreNew
  <2>8. CreatesOfLiveParts'
    BY <1>2, <1>3, <2>4 DEF CreatesOfLiveParts
  <2>9. ArchivesUnusedParts'
    BY <1>2, <1>3, <2>4 DEF ArchivesUnusedParts, Available, Stored
  <2>10. ReplacesWhatItSees'
    <3>1. ASSUME NEW q \in Request, NEW d \in Bouquet \ overlapped, Replacing(q, d)'
          PROVE  /\ recipe'[d] \subseteq job'[q].wish.seen
                 /\ \A r \in Request : Replacing(r, d)' => r = q
      <4>1. /\ recipe[d] \subseteq job[q].wish.seen /\ job'[q] = job[q] /\ q # p
            /\ \A r \in Request : Replacing(r, d) => r = q
        BY <3>1, <2>4, <1>3 DEF ReplacesWhatItSees
      <4>2. d # b
        BY <4>1, <2>5
      <4>. QED  BY <4>1, <4>2, <2>2, <2>4
    <3>. QED  BY <3>1, <1>2 DEF ReplacesWhatItSees
  <2>11. CatalogReferencesHold'
    <3>1. \A d \in Bouquet : \A r \in recipe'[d] : Stored(d) /\ Stored(r.comp)
      <4>1. ASSUME NEW d \in Bouquet, NEW r \in recipe'[d]
            PROVE  Stored(d) /\ Stored(r.comp)
        <5>1. CASE d = b
          <6>1. r \in recipe[b] \/ \E c \in L : r = [comp |-> c, by |-> p]
            BY <4>1, <5>1, <2>2
          <6>. QED  BY <6>1, <5>1, <1>3, <1>6, <2>1 DEF CatalogReferencesHold
        <5>2. CASE d # b
          BY <5>2, <2>2, <1>3 DEF CatalogReferencesHold
        <5>. QED  BY <5>1, <5>2
      <4>. QED  BY <4>1
    <3>. QED  BY <3>1, <1>2, <1>3 DEF CatalogReferencesHold, Stored
  <2>12. ActiveItemsHaveActiveParts'
    BY <1>2, <1>3 DEF ActiveItemsHaveActiveParts, Available, Stored
  <2>13. RecipesAreWhole'
    <3>1. ASSUME NEW d \in Bouquet \ overlapped, Stored(d)
          PROVE  {r.comp : r \in recipe'[d]} = {c \in asked'[d] : Stored(c)}
      <4>1. CASE d = b
        <5>1. rest = {}
          BY <3>1, <4>1, <2>5, <1>1, <1>3 DEF ReplacesWhatItSees
        <5>2. recipe'[b] = {[comp |-> c, by |-> p] : c \in L}
          BY <5>1, <2>2
        <5>3. \A r \in recipe'[b] : r.comp \in L
          BY <5>2
        <5>4. ASSUME NEW c \in L
              PROVE  c \in {r.comp : r \in recipe'[b]}
          <6>1. [comp |-> c, by |-> p] \in recipe'[b] /\ [comp |-> c, by |-> p].comp = c
            BY <5>2
          <6>. QED  BY <6>1
        <5>5. {r.comp : r \in recipe'[b]} = L
          BY <5>3, <5>4
        <5>. QED  BY <5>5, <4>1, <2>2, <1>6
      <4>2. CASE d # b
        BY <3>1, <4>2, <2>2, <1>3 DEF RecipesAreWhole
      <4>. QED  BY <4>1, <4>2
    <3>. QED  BY <3>1, <1>2 DEF RecipesAreWhole, Stored
  <2>. QED  BY <2>6, <2>7, <2>8, <2>9, <2>10, <2>11, <2>12, <2>13 DEF CatalogInv
<1>. QED  BY <1>2, <1>5, <1>6

\* A record that nothing refers to is deleted, an item with the lines it is in.
LEMMA RemoveRecordKeeps ==
    ASSUME JobsOK, RowsOK, CatalogInv, NEW p \in Request, RemoveRecord(p)
    PROVE  CatalogInv'
<1>1. PICK e : e = job[p].entity
  OBVIOUS
<1>2. /\ job[p].op = "remove"
      /\ \/ /\ Stored(e) /\ e \notin used /\ ItemsOf(e) = {} /\ ChildrenOf(e) = {}
            /\ record' = [record EXCEPT ![e] = "DELETED"] /\ GoesOn(p, "settle")
            /\ recipe' = [b \in Bouquet |-> IF b = e THEN {} ELSE {r \in recipe[b] : r.comp # e}]
         \/ Ends(p) /\ record' = record /\ recipe' = recipe
      /\ archived' = archived /\ madeOf' = madeOf /\ under' = under
      /\ used' = used /\ asked' = asked /\ crossed' = crossed /\ overlapped' = overlapped
  BY <1>1 DEF RemoveRecord, RecordDeleted, Referenced
<1>3. /\ CatalogTypeOK /\ UnbornAreNew /\ CreatesOfLiveParts /\ ArchivesUnusedParts
      /\ ReplacesWhatItSees /\ CatalogReferencesHold /\ ActiveItemsHaveActiveParts
      /\ RecipesAreWhole
  BY DEF CatalogInv
<1>4. CASE Ends(p) /\ record' = record /\ recipe' = recipe
  BY <1>2, <1>4, EndsJob, CatalogQuiet DEF catalogVars
<1>5. CASE /\ Stored(e) /\ e \notin used /\ ItemsOf(e) = {} /\ ChildrenOf(e) = {}
           /\ record' = [record EXCEPT ![e] = "DELETED"] /\ GoesOn(p, "settle")
           /\ recipe' = [b \in Bouquet |-> IF b = e THEN {} ELSE {r \in recipe[b] : r.comp # e}]
  <2>1. /\ Item \subseteq Entity /\ Part \subseteq Entity /\ Bouquet \subseteq Item
        /\ Category \subseteq Part /\ e \in Entity
    BY <1>1, <1>2, CatalogAssumption DEF Part, JobsOK, IsJob, Fits
  <2>2. job'[p].op = "settle" /\ \A q \in Request \ {p} : job'[q] = job[q]
    BY <1>5, GoesOnJob
  <2>3. \A q \in Request : \A d :
           /\ Creating(q, d)' => job'[q] = job[q] /\ Creating(q, d)
           /\ Archiving(q, d)' => job'[q] = job[q] /\ Archiving(q, d)
           /\ Replacing(q, d)' => job'[q] = job[q] /\ Replacing(q, d)
    BY <2>2 DEF Creating, Archiving, Replacing
  <2>4. /\ record'[e] = "DELETED" /\ record[e] = "STORED"
        /\ \A d \in Entity \ {e} : record'[d] = record[d]
        /\ \A d \in Entity : record'[d] = "UNBORN" <=> record[d] = "UNBORN"
        /\ \A d \in Entity : record[d] = "DELETED" => record'[d] = "DELETED"
        /\ \A d \in Entity : record'[d] = "STORED" <=> record[d] = "STORED" /\ d # e
    BY <1>5, <2>1 DEF RowsOK, Stored
  <2>5. /\ \A b \in Bouquet : recipe'[b] = IF b = e THEN {} ELSE {r \in recipe[b] : r.comp # e}
        /\ \A b \in Bouquet : recipe'[b] \subseteq recipe[b]
    BY <1>5
  <2>6. \A i \in Item : Available(i)' => Available(i)
    BY <1>2, <2>1, <2>4 DEF Available, Stored
  <2>7. CatalogTypeOK'
    <3>1. recipe' \in [Bouquet -> SUBSET [comp : Item \ Bouquet, by : Request]]
      BY <1>3, <1>5, <2>5 DEF CatalogTypeOK
    <3>. QED  BY <3>1, <1>2, <1>3 DEF CatalogTypeOK
  <2>8. UnbornAreNew'
    <3>1. /\ \A d \in archived : record'[d] # "UNBORN"
          /\ \A i \in Item : IF record'[i] = "UNBORN" THEN madeOf[i] = {} ELSE madeOf[i] \in ItemParts
          /\ \A c \in Category : record'[c] = "UNBORN" => under[c] = None
      BY <1>3, <2>1, <2>4 DEF UnbornAreNew, CatalogTypeOK
    <3>2. \A b \in Bouquet : /\ record'[b] = "UNBORN" => recipe'[b] = {} /\ asked[b] = {}
                             /\ \A c \in asked[b] : record'[c] # "UNBORN"
      BY <1>3, <2>1, <2>4, <2>5 DEF UnbornAreNew, CatalogTypeOK
    <3>. QED  BY <3>1, <3>2, <1>2 DEF UnbornAreNew
  <2>9. CreatesOfLiveParts'
    <3>1. ASSUME NEW q \in Request, NEW j \in Item, Creating(q, j)'
          PROVE  /\ record'[j] = "UNBORN" /\ \A r \in Request : Creating(r, j)' => r = q
                 /\ j \notin crossed => \A y \in job'[q].wish :
                       record'[y] = "DELETED" \/ y \notin archived
      <4>1. Creating(q, j) /\ job'[q] = job[q]
        BY <3>1, <2>3
      <4>2. /\ record[j] = "UNBORN" /\ \A r \in Request : Creating(r, j) => r = q
            /\ j \notin crossed => \A y \in job[q].wish : record[y] = "DELETED" \/ y \notin archived
        BY <4>1, <1>3 DEF CreatesOfLiveParts
      <4>3. archived \subseteq Entity
        BY <1>3, <2>1 DEF CatalogTypeOK
      <4>. QED  BY <4>1, <4>2, <4>3, <2>1, <2>3, <2>4
    <3>. QED  BY <3>1, <1>2 DEF CreatesOfLiveParts
  <2>10. ArchivesUnusedParts'
    BY <1>2, <1>3, <2>3, <2>6 DEF ArchivesUnusedParts
  <2>11. ReplacesWhatItSees'
    <3>1. ASSUME NEW q \in Request, NEW b \in Bouquet \ overlapped, Replacing(q, b)'
          PROVE  /\ recipe'[b] \subseteq job'[q].wish.seen
                 /\ \A r \in Request : Replacing(r, b)' => r = q
      BY <3>1, <1>3, <2>3, <2>5 DEF ReplacesWhatItSees
    <3>. QED  BY <3>1, <1>2 DEF ReplacesWhatItSees
  <2>12. \A i \in Item : record'[i] = "STORED" => \A x \in madeOf[i] : x # e
    BY <1>5, <2>1, <2>4 DEF ItemsOf, Stored
  <2>13. CatalogReferencesHold'
    <3>1. \A i \in used : record'[i] = "STORED"
      BY <1>3, <1>5, <2>1, <2>4 DEF CatalogReferencesHold, CatalogTypeOK, Stored
    <3>2. \A i \in Item : record'[i] = "STORED" => \A x \in madeOf[i] : record'[x] = "STORED"
      <4>1. ASSUME NEW i \in Item, record'[i] = "STORED", NEW x \in madeOf[i]
            PROVE  record'[x] = "STORED"
        <5>1. x \in Entity /\ Stored(i)
          BY <4>1, <1>3, <2>1, <2>4 DEF CatalogTypeOK, Stored
        <5>2. Stored(x)
          BY <5>1, <4>1, <1>3 DEF CatalogReferencesHold
        <5>. QED  BY <4>1, <5>1, <5>2, <2>4, <2>12 DEF Stored
      <4>. QED  BY <4>1
    <3>3. \A c \in Category : record'[c] = "STORED" /\ under[c] # None => record'[under[c]] = "STORED"
      <4>1. ASSUME NEW c \in Category, record'[c] = "STORED", under[c] # None
            PROVE  record'[under[c]] = "STORED"
        <5>1. Stored(c) /\ under[c] \in Entity
          BY <4>1, <1>3, <2>1, <2>4 DEF CatalogTypeOK, Stored
        <5>2. Stored(under[c]) /\ under[c] # e
          BY <4>1, <5>1, <1>3, <1>5 DEF CatalogReferencesHold, ChildrenOf
        <5>. QED  BY <5>1, <5>2, <2>4 DEF Stored
      <4>. QED  BY <4>1
    <3>4. \A b \in Bouquet : \A r \in recipe'[b] : record'[b] = "STORED" /\ record'[r.comp] = "STORED"
      <4>1. ASSUME NEW b \in Bouquet, NEW r \in recipe'[b]
            PROVE  record'[b] = "STORED" /\ record'[r.comp] = "STORED"
        <5>1. b # e
          BY <4>1, <2>5
        <5>2. r \in {s \in recipe[b] : s.comp # e}
          BY <4>1, <5>1, <2>5
        <5>3. r \in recipe[b] /\ r.comp # e
          BY <5>2
        <5>4. Stored(b) /\ Stored(r.comp) /\ r.comp \in Item
          BY <5>3, <1>3 DEF CatalogReferencesHold, CatalogTypeOK
        <5>. QED  BY <5>1, <5>3, <5>4, <2>1, <2>4 DEF Stored
      <4>. QED  BY <4>1
    <3>. QED  BY <3>1, <3>2, <3>3, <3>4, <1>2 DEF CatalogReferencesHold, Stored
  <2>14. ActiveItemsHaveActiveParts'
    <3>1. ASSUME NEW i \in Item \ crossed, Available(i)', NEW x \in madeOf[i]
          PROVE  record'[x] = "STORED" /\ x \notin archived
      <4>1. record'[i] = "STORED" /\ Available(i) /\ x \in Entity
        BY <3>1, <1>3, <2>1, <2>6 DEF Available, Stored, CatalogTypeOK
      <4>2. Available(x) /\ x # e
        BY <4>1, <1>3, <2>12 DEF ActiveItemsHaveActiveParts
      <4>. QED  BY <4>1, <4>2, <2>4 DEF Available, Stored
    <3>. QED  BY <3>1, <1>2 DEF ActiveItemsHaveActiveParts, Available, Stored
  <2>15. RecipesAreWhole'
    <3>1. ASSUME NEW b \in Bouquet \ overlapped, record'[b] = "STORED"
          PROVE  {r.comp : r \in recipe'[b]} = {c \in asked[b] : record'[c] = "STORED"}
      <4>1. Stored(b) /\ b # e
        BY <3>1, <2>1, <2>4 DEF Stored
      <4>2. {r.comp : r \in recipe[b]} = {c \in asked[b] : Stored(c)}
        BY <3>1, <4>1, <1>3 DEF RecipesAreWhole
      <4>3. recipe'[b] = {r \in recipe[b] : r.comp # e}
        BY <4>1, <2>5
      <4>4. \A c : c \in {r.comp : r \in recipe'[b]} <=> c \in {r.comp : r \in recipe[b]} /\ c # e
        BY <4>3
      <4>5. asked[b] \subseteq Entity
        BY <3>1, <1>3, <2>1 DEF CatalogTypeOK
      <4>6. \A c : c \in {d \in asked[b] : record'[d] = "STORED"}
                     <=> c \in {d \in asked[b] : Stored(d)} /\ c # e
        BY <4>5, <2>4 DEF Stored
      <4>. QED  BY <4>2, <4>4, <4>6
    <3>. QED  BY <3>1, <1>2 DEF RecipesAreWhole, Stored
  <2>. QED  BY <2>7, <2>8, <2>9, <2>10, <2>11, <2>13, <2>14, <2>15 DEF CatalogInv
<1>. QED  BY <1>2, <1>4, <1>5


LEMMA CatalogKeeps ==
    ASSUME JobsOK, RowsOK, TicketsName, CatalogInv, CatalogNext
    PROVE  CatalogInv'
<1>0. /\ Erasable \in SUBSET Entity /\ Category \subseteq Part
      /\ Unit \subseteq Part /\ Policy \subseteq Part
  BY CatalogAssumption DEF Erasable, Part
<1>1. PICK p \in Request :
       \/ \E c \in Category, d \in Category \cup {None} : CreateCategory(p, c, d)
       \/ \E x \in Part :
             \/ CreateUnit(p, x) \/ CreateInventoryPolicy(p, x)
             \/ ArchiveCategory(p, x) \/ ArchiveUnit(p, x) \/ ArchiveInventoryPolicy(p, x)
       \/ \E i \in Item :
             \/ ArchiveItem(p, i) \/ UseItem(p, i) \/ AskSale(p, i)
             \/ \E parts \in ItemParts : AskItem(p, i, parts)
       \/ \E b \in Bouquet, C \in SUBSET (Item \ Bouquet) : AskRecipe(p, b, C)
       \/ InsertItem(p) \/ WriteArchive(p) \/ InsertSale(p) \/ ClearRecipe(p) \/ FillRecipe(p)
       \/ CheckRecord(p) \/ RemoveRecord(p)
       \/ CatalogCutOff(p)
       \/ DeletionStep(p, Erasable) /\ UNCHANGED catalogVars
  BY DEF CatalogNext
<1>2. CASE \E c \in Category, d \in Category \cup {None} : CreateCategory(p, c, d)
  BY <1>0, <1>2, CreatePartKeeps DEF CreateCategory
<1>3. CASE \E x \in Part : CreateUnit(p, x) \/ CreateInventoryPolicy(p, x)
  BY <1>3, CreatePartKeeps DEF CreateUnit, CreateInventoryPolicy, CreatePart, catalogVars
<1>4. CASE \E x \in Part : ArchiveCategory(p, x) \/ ArchiveUnit(p, x) \/ ArchiveInventoryPolicy(p, x)
  BY <1>4, AskArchiveKeeps DEF ArchiveCategory, ArchiveUnit, ArchiveInventoryPolicy
<1>5. CASE \E i \in Item : ArchiveItem(p, i)
  <2>1. PICK i \in Item : /\ Stored(i) /\ AtOnce(p) /\ archived' = archived \cup {i}
                          /\ UNCHANGED <<record, madeOf, under, used, recipe, asked, crossed,
                                         overlapped>>
    BY <1>5 DEF ArchiveItem, Available, rows
  <2>2. i \notin Part /\ job'[p].op = "over" /\ \A q \in Request \ {p} : job'[q] = job[q]
    BY <2>1, AtOnceJob, CatalogAssumption
  <2>. QED  BY <2>1, <2>2, ArchivedKeeps
<1>6. CASE \E b \in Bouquet, C \in SUBSET (Item \ Bouquet) : AskRecipe(p, b, C)
  <2>1. PICK b \in Bouquet, C \in SUBSET (Item \ Bouquet) : AskRecipe(p, b, C)
    BY <1>6
  <2>2. Starts(p, "clear", b, None, C) /\ record' = record /\ UNCHANGED catalogVars
    BY <2>1 DEF AskRecipe, rows
  <2>3. job'[p].op = "clear" /\ \A q \in Request \ {p} : job'[q] = job[q]
    BY <2>2, StartsJob
  <2>4. \A q \in Request : job'[q].op \in {"insert", "archive", "fill"} => job'[q] = job[q]
    BY <2>3
  <2>. QED  BY <2>2, <2>4, CatalogQuiet DEF catalogVars
<1>7. CASE WriteArchive(p)
  <2>1. PICK x : x = job[p].entity
    OBVIOUS
  <2>2. /\ job[p].op = "archive" /\ Ends(p) /\ record' = record
        /\ archived' = IF Stored(x) THEN archived \cup {x} ELSE archived
        /\ UNCHANGED <<madeOf, under, used, recipe, asked, crossed, overlapped>>
    BY <1>7, <2>1 DEF WriteArchive, rows
  <2>3. x \in Part /\ Archiving(p, x)
    BY <2>1, <2>2 DEF JobsOK, IsJob, Fits, Archiving
  <2>4. job'[p].op = "over" /\ \A q \in Request \ {p} : job'[q] = job[q]
    BY <2>2, EndsJob
  <2>5. CASE Stored(x)
    BY <2>2, <2>3, <2>4, <2>5, ArchivedKeeps
  <2>6. CASE ~Stored(x)
    <3>1. UNCHANGED <<archived, madeOf, under, used, recipe, asked, crossed, overlapped>>
      BY <2>2, <2>6
    <3>2. \A q \in Request : job'[q].op \in {"insert", "archive", "fill"} => job'[q] = job[q]
      BY <2>4
    <3>. QED  BY <2>2, <3>1, <3>2, CatalogQuiet
  <2>. QED  BY <2>5, <2>6
<1>8. CASE CheckRecord(p)
  <2>1. record' = record /\ UNCHANGED catalogVars /\ (GoesOn(p, "remove") \/ Ends(p))
    BY <1>8 DEF CheckRecord, rows
  <2>2. job'[p].op \in {"remove", "over"} /\ \A q \in Request \ {p} : job'[q] = job[q]
    BY <2>1, GoesOnJob, EndsJob
  <2>3. \A q \in Request : job'[q].op \in {"insert", "archive", "fill"} => job'[q] = job[q]
    BY <2>2
  <2>. QED  BY <2>1, <2>3, CatalogQuiet DEF catalogVars
<1>9. CASE CatalogCutOff(p)
  <2>1. record' = record /\ UNCHANGED catalogVars /\ Ends(p)
    BY <1>9 DEF CatalogCutOff, CutOff
  <2>2. \A q \in Request : job'[q].op \in {"insert", "archive", "fill"} => job'[q] = job[q]
    BY <2>1, EndsJob
  <2>. QED  BY <2>1, <2>2, CatalogQuiet DEF catalogVars
<1>10. CASE DeletionStep(p, Erasable) /\ UNCHANGED catalogVars
  <2>1. Effect(p, {}, {})
    BY <1>0, <1>10, DeletionEffect
  <2>. QED  BY <1>10, <2>1, CatalogLeftAlone
<1>11. CASE InsertSale(p) \/ \E i \in Item : AskSale(p, i)
  <2>1. /\ record' = record
        /\ UNCHANGED <<archived, madeOf, under, used, recipe, asked, crossed, overlapped>>
        /\ Ends(p) \/ \E i \in Item : Starts(p, "sell", i, None, None)
    BY <1>11 DEF InsertSale, AskSale, SaleLeavesAlone, rows
  <2>2. job'[p].op \in {"sell", "over"} /\ \A q \in Request \ {p} : job'[q] = job[q]
    BY <2>1, StartsJob, EndsJob
  <2>3. \A q \in Request : job'[q].op \in {"insert", "archive", "fill"} => job'[q] = job[q]
    BY <2>2
  <2>. QED  BY <2>1, <2>3, CatalogQuiet
<1>. QED  BY <1>1, <1>2, <1>3, <1>4, <1>5, <1>6, <1>7, <1>8, <1>9, <1>10, <1>11, InsertItemKeeps,
             UseItemKeeps, ClearRecipeKeeps, FillRecipeKeeps, RemoveRecordKeeps, AskItemKeeps

-----------------------------------------------------------------------------
(***************************************************************************)
(* The lines of sales: a step that neither sells nor deletes an item, and  *)
(* then each of those that do.                                             *)
(***************************************************************************)
LEMMA SalesQuiet ==
    ASSUME SalesInv, UNCHANGED saleVars,
           \A i \in Item : Stored(i) => Stored(i)',
           \A q \in Request : job'[q].op \in {"sell", "remove"} => job'[q] = job[q]
    PROVE  SalesInv'
<1>1. sold' = sold /\ loose' = loose
  BY DEF saleVars
<1>2. \A q \in Request, i \in Item : /\ Selling(q, i)' => Selling(q, i)
                                     /\ Removing(q, i)' => Removing(q, i)
  BY DEF Selling, Removing
<1>3. SoldItemsRemain'
  BY <1>1 DEF SalesInv, SoldItemsRemain
<1>. QED  BY <1>1, <1>2, <1>3 DEF SalesInv

LEMMA SalesLeftAlone ==
    ASSUME SalesInv, NEW p \in Request, NEW ops, NEW entities, Effect(p, ops, entities),
           ops \cap CatalogStatements = {}, entities \cap (Part \cup Item) = {},
           UNCHANGED catalogVars
    PROVE  SalesInv'
<1>1. \A q \in Request : job'[q].op \in {"sell", "remove"} => job'[q] = job[q]
  BY DEF Effect, Only, Reviews, CatalogStatements
<1>2. \A i \in Item : record'[i] = record[i]
  BY CatalogAssumption DEF Effect
<1>. QED  BY <1>1, <1>2, SalesQuiet DEF catalogVars, Stored

\* The line of a sale is stored: a deletion under way is noticed.
LEMMA InsertSaleKeeps ==
    ASSUME JobsOK, SalesInv, NEW p \in Request, InsertSale(p)
    PROVE  SalesInv'
<1>1. PICK i : i = job[p].entity
  OBVIOUS
<1>2. /\ job[p].op = "sell" /\ sold' = sold \cup {i} /\ record' = record /\ Ends(p)
      /\ loose' = IF \E q \in Request : Removing(q, i) THEN loose \cup {i} ELSE loose
  BY <1>1 DEF InsertSale, SaleLeavesAlone, rows
<1>3. i \in Item /\ Selling(p, i)
  BY <1>1, <1>2 DEF JobsOK, IsJob, Fits, Selling
<1>4. job'[p].op = "over" /\ \A q \in Request \ {p} : job'[q] = job[q]
  BY <1>2, EndsJob
<1>5. \A q \in Request, j \in Item : /\ Selling(q, j)' => Selling(q, j)
                                     /\ Removing(q, j)' => Removing(q, j)
  BY <1>4 DEF Selling, Removing
<1>6. loose \subseteq loose' /\ loose' \subseteq Item /\ sold' \subseteq Item
  BY <1>2, <1>3 DEF SalesInv
<1>7. \A j \in Item : Stored(j)' <=> Stored(j)
  BY <1>2 DEF Stored
<1>8. \A q \in Request, j \in Item \ loose' : Selling(q, j)' => Stored(j)'
  BY <1>5, <1>6, <1>7 DEF SalesInv
<1>9. ASSUME NEW q \in Request, NEW j \in Item \ loose', Removing(q, j)'
      PROVE  j \notin sold'
  <2>1. Removing(q, j) /\ j \notin loose
    BY <1>5, <1>6, <1>9
  <2>2. j # i
    BY <1>2, <1>9, <2>1
  <2>. QED  BY <1>2, <2>1, <2>2 DEF SalesInv
<1>10. SoldItemsRemain'
  <2>1. i \notin loose => Stored(i)
    BY <1>3 DEF SalesInv
  <2>. QED  BY <1>2, <1>6, <1>7, <2>1 DEF SalesInv, SoldItemsRemain, Stored
<1>. QED  BY <1>6, <1>8, <1>9, <1>10 DEF SalesInv

\* An item is deleted: no sale names it, and one that is about to is noticed.
LEMMA RemoveSoldKeeps ==
    ASSUME JobsOK, RowsOK, SalesInv, NEW p \in Request, RemoveRecord(p)
    PROVE  SalesInv'
<1>1. PICK e : e = job[p].entity
  OBVIOUS
<1>2. /\ job[p].op = "remove" /\ sold' = sold
      /\ \/ /\ record' = [record EXCEPT ![e] = "DELETED"] /\ GoesOn(p, "settle")
            /\ loose' = IF \E q \in Request : Selling(q, e) THEN loose \cup {e} ELSE loose
         \/ Ends(p) /\ record' = record /\ loose' = loose
  BY <1>1 DEF RemoveRecord, RecordDeleted
<1>3. CASE Ends(p) /\ record' = record /\ loose' = loose
  BY <1>2, <1>3, EndsJob, SalesQuiet DEF saleVars, Stored
<1>4. CASE /\ record' = [record EXCEPT ![e] = "DELETED"] /\ GoesOn(p, "settle")
           /\ loose' = IF \E q \in Request : Selling(q, e) THEN loose \cup {e} ELSE loose
  <2>1. e \in Part \cup Item /\ Item \subseteq Entity /\ Removing(p, e)
    BY <1>1, <1>2, CatalogAssumption DEF JobsOK, IsJob, Fits, Removing
  <2>2. job'[p].op = "settle" /\ \A q \in Request \ {p} : job'[q] = job[q]
    BY <1>4, GoesOnJob
  <2>3. \A q \in Request, j \in Item : /\ Selling(q, j)' => Selling(q, j)
                                       /\ Removing(q, j)' => Removing(q, j)
    BY <2>2 DEF Selling, Removing
  <2>4. \A j \in Item \ {e} : Stored(j)' <=> Stored(j)
    BY <1>4, <2>1 DEF RowsOK, Stored
  <2>5. /\ loose \subseteq loose'
        /\ \A q \in Request : Selling(q, e) => e \in loose'
        /\ e \notin loose => loose' \subseteq loose \cup {e}
    BY <1>4
  <2>6. loose' \subseteq Item
    <3>1. \A q \in Request : Selling(q, e) => e \in Item
      BY DEF JobsOK, IsJob, Fits, Selling
    <3>. QED  BY <1>4, <3>1 DEF SalesInv
  <2>7. \A q \in Request, j \in Item \ loose' : Selling(q, j)' => Stored(j)'
    BY <2>3, <2>4, <2>5 DEF SalesInv
  <2>8. \A q \in Request, j \in Item \ loose' : Removing(q, j)' => j \notin sold'
    BY <1>2, <2>3, <2>5 DEF SalesInv
  <2>9. SoldItemsRemain'
    <3>1. e \in Item \ loose => e \notin sold
      BY <2>1 DEF SalesInv
    <3>2. \A j \in sold \ loose' : j \in Item /\ j # e /\ Stored(j)
      BY <2>5, <3>1 DEF SalesInv, SoldItemsRemain
    <3>. QED  BY <1>2, <2>4, <3>2 DEF SoldItemsRemain
  <2>. QED  BY <1>2, <2>6, <2>7, <2>8, <2>9 DEF SalesInv
<1>. QED  BY <1>2, <1>3, <1>4

LEMMA SalesKeep ==
    ASSUME JobsOK, RowsOK, TicketsName, SalesInv, CatalogNext
    PROVE  SalesInv'
<1>0. /\ Erasable \in SUBSET Entity /\ Item \subseteq Entity /\ Part \cap Item = {}
      /\ Category \subseteq Part /\ Unit \subseteq Part /\ Policy \subseteq Part
  BY CatalogAssumption DEF Erasable, Part
<1>1. PICK p \in Request :
       \/ \E c \in Category, d \in Category \cup {None} : CreateCategory(p, c, d)
       \/ \E x \in Part :
             \/ CreateUnit(p, x) \/ CreateInventoryPolicy(p, x)
             \/ ArchiveCategory(p, x) \/ ArchiveUnit(p, x) \/ ArchiveInventoryPolicy(p, x)
       \/ \E i \in Item :
             \/ ArchiveItem(p, i) \/ UseItem(p, i) \/ AskSale(p, i)
             \/ \E parts \in ItemParts : AskItem(p, i, parts)
       \/ \E b \in Bouquet, C \in SUBSET (Item \ Bouquet) : AskRecipe(p, b, C)
       \/ InsertItem(p) \/ WriteArchive(p) \/ InsertSale(p) \/ ClearRecipe(p) \/ FillRecipe(p)
       \/ CheckRecord(p) \/ RemoveRecord(p)
       \/ CatalogCutOff(p)
       \/ DeletionStep(p, Erasable) /\ UNCHANGED catalogVars
  BY DEF CatalogNext
<1>2. CASE \/ \E c \in Category, d \in Category \cup {None} : CreateCategory(p, c, d)
           \/ \E x \in Part : CreateUnit(p, x) \/ CreateInventoryPolicy(p, x)
  <2>1. PICK x \in Part : /\ AtOnce(p) /\ record' = [record EXCEPT ![x] = "STORED"]
                          /\ UNCHANGED saleVars
    BY <1>0, <1>2 DEF CreateCategory, CreateUnit, CreateInventoryPolicy, CreatePart, catalogVars
  <2>2. \A i \in Item : Stored(i) => Stored(i)'
    BY <1>0, <2>1 DEF RowsOK, Stored
  <2>. QED  BY <2>1, <2>2, AtOnceJob, SalesQuiet
<1>3. CASE \E i \in Item : ArchiveItem(p, i) \/ UseItem(p, i)
  <2>1. AtOnce(p) /\ record' = record /\ UNCHANGED saleVars
    BY <1>3 DEF ArchiveItem, UseItem, rows
  <2>. QED  BY <2>1, AtOnceJob, SalesQuiet DEF Stored
<1>4. CASE \/ \E x \in Part : ArchiveCategory(p, x) \/ ArchiveUnit(p, x) \/ ArchiveInventoryPolicy(p, x)
           \/ \E i \in Item, parts \in ItemParts : AskItem(p, i, parts)
           \/ \E b \in Bouquet, C \in SUBSET (Item \ Bouquet) : AskRecipe(p, b, C)
  <2>1. PICK op, e, wish : /\ op \in {"archive", "insert", "clear"}
                           /\ Starts(p, op, e, None, wish)
                           /\ record' = record /\ UNCHANGED saleVars
    <3>1. CASE \E x \in Part : ArchiveCategory(p, x) \/ ArchiveUnit(p, x) \/ ArchiveInventoryPolicy(p, x)
      <4>1. PICK x \in Part : AskArchive(p, x)
        BY <3>1 DEF ArchiveCategory, ArchiveUnit, ArchiveInventoryPolicy
      <4>. QED  BY <4>1 DEF AskArchive, rows
    <3>2. CASE \E i \in Item, parts \in ItemParts : AskItem(p, i, parts)
      BY <3>2 DEF AskItem, rows
    <3>3. CASE \E b \in Bouquet, C \in SUBSET (Item \ Bouquet) : AskRecipe(p, b, C)
      BY <3>3 DEF AskRecipe, rows, catalogVars
    <3>. QED  BY <1>4, <3>1, <3>2, <3>3
  <2>2. job'[p].op = op /\ \A q \in Request \ {p} : job'[q] = job[q]
    BY <2>1, StartsJob
  <2>3. \A q \in Request : job'[q].op \in {"sell", "remove"} => job'[q] = job[q]
    BY <2>1, <2>2
  <2>. QED  BY <2>1, <2>3, SalesQuiet DEF Stored
<1>5. CASE InsertItem(p)
  <2>1. /\ Ends(p) /\ UNCHANGED saleVars
        /\ \/ record' = [e \in Entity |-> IF e \in job[p].wish \cup {job[p].entity}
                                          THEN "STORED" ELSE record[e]]
           \/ record' = record
    BY <1>5 DEF InsertItem
  <2>2. \A i \in Item : Stored(i) => Stored(i)'
    BY <1>0, <2>1 DEF Stored
  <2>. QED  BY <2>1, <2>2, EndsJob, SalesQuiet
<1>6. CASE WriteArchive(p) \/ FillRecipe(p) \/ CatalogCutOff(p)
  <2>1. Ends(p) /\ record' = record /\ UNCHANGED saleVars
    BY <1>6 DEF WriteArchive, FillRecipe, CatalogCutOff, CutOff, rows, catalogVars
  <2>. QED  BY <2>1, EndsJob, SalesQuiet DEF Stored
<1>7. CASE ClearRecipe(p)
  <2>1. PICK w : /\ job' = [job EXCEPT ![p] = [@ EXCEPT !.op = "fill", !.wish = w]]
                 /\ record' = record /\ UNCHANGED saleVars
    BY <1>7 DEF ClearRecipe, rows
  <2>2. job'[p].op = "fill" /\ \A q \in Request \ {p} : job'[q] = job[q]
    BY <2>1 DEF JobsOK, IsJob
  <2>3. \A q \in Request : job'[q].op \in {"sell", "remove"} => job'[q] = job[q]
    BY <2>2
  <2>. QED  BY <2>1, <2>3, SalesQuiet DEF Stored
<1>8. CASE \E i \in Item : AskSale(p, i)
  <2>1. PICK i \in Item : /\ Stored(i) /\ Starts(p, "sell", i, None, None)
                          /\ record' = record /\ UNCHANGED saleVars
    BY <1>8 DEF AskSale, Available, SaleLeavesAlone, rows
  <2>2. /\ job'[p].op = "sell" /\ job'[p].entity = i
        /\ \A q \in Request \ {p} : job'[q] = job[q]
    BY <2>1, StartsJob
  <2>3. \A q \in Request, j \in Item : /\ Selling(q, j)' => Selling(q, j) \/ j = i
                                       /\ Removing(q, j)' => Removing(q, j)
    BY <2>2 DEF Selling, Removing
  <2>4. SoldItemsRemain'
    BY <2>1 DEF SalesInv, SoldItemsRemain, saleVars, Stored
  <2>. QED  BY <2>1, <2>3, <2>4 DEF SalesInv, saleVars, Stored
<1>9. CASE CheckRecord(p)
  <2>1. PICK e : e = job[p].entity
    OBVIOUS
  <2>2. /\ record' = record /\ UNCHANGED saleVars
        /\ \/ GoesOn(p, "remove") /\ e \notin sold
           \/ Ends(p)
    BY <1>9, <2>1 DEF CheckRecord, Removable, Counted, rows, catalogVars
  <2>3. CASE GoesOn(p, "remove") /\ e \notin sold
    <3>1. job'[p].op = "remove" /\ \A q \in Request \ {p} : job'[q] = job[q]
      BY <2>3, GoesOnJob
    <3>2. job'[p].entity = e
      BY <2>1, <2>3 DEF GoesOn, JobsOK, IsJob
    <3>3. \A q \in Request, j \in Item : /\ Selling(q, j)' => Selling(q, j)
                                         /\ Removing(q, j)' => Removing(q, j) \/ j = e
      BY <3>1, <3>2 DEF Selling, Removing
    <3>4. SoldItemsRemain'
      BY <2>2 DEF SalesInv, SoldItemsRemain, saleVars, Stored
    <3>. QED  BY <2>2, <2>3, <3>3, <3>4 DEF SalesInv, saleVars, Stored
  <2>4. CASE Ends(p)
    BY <2>2, <2>4, EndsJob, SalesQuiet DEF Stored
  <2>. QED  BY <2>2, <2>3, <2>4
<1>10. CASE DeletionStep(p, Erasable) /\ UNCHANGED catalogVars
  <2>1. Effect(p, {}, {})
    BY <1>0, <1>10, DeletionEffect
  <2>. QED  BY <1>10, <2>1, SalesLeftAlone
<1>. QED  BY <1>1, <1>2, <1>3, <1>4, <1>5, <1>6, <1>7, <1>8, <1>9, <1>10, InsertSaleKeeps,
             RemoveSoldKeeps


-----------------------------------------------------------------------------
(***************************************************************************)
(* The whole back office.                                                  *)
(***************************************************************************)
LEMMA InitInv ==
    AdminInit => IInv
<1>. SUFFICES ASSUME AdminInit PROVE IInv
  OBVIOUS
<1>1. /\ record \in [Entity -> {"UNBORN", "STORED"}]
      /\ ticket = [k \in Ticket |-> Blank] /\ job \in [Request -> {Idle, Over}]
      /\ removedBy = [e \in Entity |-> None] /\ muddled = {}
  BY DEF AdminInit, DeletionsInit
<1>2. /\ Idle.op = "idle" /\ Idle.ticket = None /\ DOMAIN Idle = {"op", "entity", "ticket", "wish"}
      /\ Over.op = "over" /\ Over.ticket = None /\ DOMAIN Over = {"op", "entity", "ticket", "wish"}
  BY DEF Idle, Over
<1>3. \A p \in Request : /\ job[p] \in {Idle, Over} /\ job[p].op \in {"idle", "over"}
                          /\ job[p].ticket = None
  BY <1>1, <1>2
<1>4. JobsOK
  <2>1. IsJob(Idle) /\ IsJob(Over)
    BY <1>2 DEF IsJob, Fits, Approving
  <2>. QED  BY <1>1, <1>3, <2>1 DEF JobsOK
<1>5. RequestsInv
  <2>1. None \notin Ticket /\ None \notin Entity
    BY DeletionsAssumption
  <2>2. Blank.status = "NONE" /\ Blank.entity = None /\ Blank \in Tickets
    BY DEF Blank, Tickets, Statuses
  <2>3. RowsOK
    BY <1>1, <2>2 DEF RowsOK
  <2>4. TicketsName /\ ReviewsAgree
    BY <1>1, <1>3, <2>1, <2>2 DEF TicketsName, ReviewsAgree
  <2>5. DeletedFor
    BY <1>1, <1>3, <2>1 DEF DeletedFor
  <2>6. RequestsTellTheTruth
    BY <1>1, <1>3, <2>1, <2>2 DEF RequestsTellTheTruth, Settling
  <2>. QED  BY <2>3, <2>4, <2>5, <2>6 DEF RequestsInv
<1>6. (Cardinality(UnderWay) <= Busy)
  <2>1. UnderWay = {}
    BY <1>3 DEF UnderWay
  <2>. QED  BY <2>1, FS_EmptySet, DeletionsAssumption
<1>7. StaffInv
  <2>1. /\ account = [u \in User |-> "ACTIVE"] /\ session = [u \in User |-> FALSE]
        /\ roles = [u \in User |-> IF u = Owner THEN {"DIRECTOR"} ELSE {}]
        /\ access = [u \in User |-> AllStores] /\ profile = [u \in User |-> "NONE"]
        /\ blind = FALSE /\ mixed = {} /\ strayed = {} /\ record[Owner] = "STORED"
    BY DEF AdminInit, StaffInit
  <2>2. Owner \in User /\ Owner \in Entity
    BY StaffAssumption
  <2>3. StaffTypeOK
    BY <1>1, <2>1 DEF StaffTypeOK, Access
  <2>4. UnbornHaveNothing
    BY <1>3, <2>1 DEF UnbornHaveNothing, Syncs, ChangesAccess
  <2>5. OneLeaves
    BY <1>3 DEF OneLeaves, RemovesDirector
  <2>6. WishesFit
    BY <1>3 DEF WishesFit, ChangesRoles, ChangesAccess
  <2>7. DirectorRemains
    <3>1. Owner \in Directors
      BY <2>1, <2>2 DEF Directors
    <3>. QED  BY <3>1 DEF DirectorRemains
  <2>8. FloristsHaveStores /\ CouriersFollowRoles
    BY <2>1 DEF FloristsHaveStores, FloristBound, CouriersFollowRoles
  <2>. QED  BY <2>3, <2>4, <2>5, <2>6, <2>7, <2>8 DEF StaffInv, StaffIsInOrder
<1>8. CatalogInv
  <2>1. /\ \A e \in Part \cup Item : record[e] = IF e \in Seeded THEN "STORED" ELSE "UNBORN"
        /\ archived = {} /\ madeOf \in [Item -> SUBSET Part]
        /\ \A i \in Item : IF i \in Seeded THEN madeOf[i] \in ItemParts ELSE madeOf[i] = {}
        /\ \A i \in Item : madeOf[i] \subseteq Seeded
        /\ under = [c \in Category |-> None] /\ used = {}
        /\ recipe = [b \in Bouquet |-> {}] /\ asked = [b \in Bouquet |-> {}]
        /\ crossed = {} /\ overlapped = {}
    BY DEF AdminInit, CatalogInit
  <2>2. Bouquet \subseteq Item
    BY CatalogAssumption
  <2>3. CatalogTypeOK
    BY <2>1 DEF CatalogTypeOK
  <2>4. UnbornAreNew
    BY <2>1, <2>2 DEF UnbornAreNew
  <2>5. CreatesOfLiveParts /\ ArchivesUnusedParts /\ ReplacesWhatItSees
    BY <1>3 DEF CreatesOfLiveParts, ArchivesUnusedParts, ReplacesWhatItSees,
                Creating, Archiving, Replacing
  <2>6. \A i \in Item : \A x \in madeOf[i] : Stored(x) /\ x \notin archived
    BY <2>1 DEF Stored
  <2>7. CatalogReferencesHold
    BY <2>1, <2>6 DEF CatalogReferencesHold
  <2>8. ActiveItemsHaveActiveParts
    BY <2>6 DEF ActiveItemsHaveActiveParts, Available
  <2>9. RecipesAreWhole
    BY <2>1 DEF RecipesAreWhole
  <2>. QED  BY <2>3, <2>4, <2>5, <2>7, <2>8, <2>9 DEF CatalogInv
<1>11. SalesInv
  <2>1. sold = {} /\ loose = {}
    BY DEF AdminInit, CatalogInit
  <2>. QED  BY <1>3, <2>1 DEF SalesInv, SoldItemsRemain, Selling, Removing
<1>9. ContactsInv
  <2>1. /\ \A e \in Contact : record[e] = "UNBORN"
        /\ retired = {} /\ taken = {} /\ phone = [c \in Customer |-> None]
    BY DEF AdminInit, ContactsInit
  <2>. QED  BY <2>1 DEF ContactsInv, ContactReferencesHold, Stored, Contact
<1>10. PremisesInv
  <2>1. /\ shop = [s \in Shop |-> "NONE"] /\ warehouses = {} /\ key = None /\ typed = None
    BY DEF AdminInit, PremisesInit
  <2>2. {t \in Shop : shop[t] # "NONE"} = {}
    BY <2>1
  <2>3. SavesWhatWasTyped /\ KeyIsTheOneTyped
    BY <1>3, <2>1 DEF SavesWhatWasTyped, KeyIsTheOneTyped, Saving
  <2>. QED  BY <2>1, <2>2, <2>3 DEF PremisesInv
<1>. QED  BY <1>4, <1>5, <1>6, <1>7, <1>8, <1>9, <1>10, <1>11 DEF IInv


\* A step of one part keeps the invariants of all four.
LEMMA NextKeeps ==
    ASSUME IInv, AdminNext
    PROVE  IInv'
<1>0. /\ JobsOK /\ RowsOK /\ TicketsName /\ RequestsInv /\ CreatesOfLiveParts
      /\ StaffInv /\ CatalogInv /\ SalesInv /\ ContactsInv /\ PremisesInv
      /\ Cardinality(UnderWay) <= Busy
  BY DEF IInv, RequestsInv, CatalogInv
<1>1. /\ StaffStatements \in SUBSET Statements /\ CatalogStatements \in SUBSET Statements
      /\ ContactStatements \in SUBSET Statements /\ PremisesStatements \in SUBSET Statements
  BY DEF Statements
<1>2. /\ StaffStatements \cap CatalogStatements = {} /\ StaffStatements \cap ContactStatements = {}
      /\ StaffStatements \cap PremisesStatements = {} /\ CatalogStatements \cap ContactStatements = {}
      /\ CatalogStatements \cap PremisesStatements = {}
      /\ "settings" \notin StaffStatements /\ "settings" \notin CatalogStatements
      /\ "settings" \notin ContactStatements
  BY DEF StaffStatements, CatalogStatements, ContactStatements, PremisesStatements
<1>3. /\ User \cap (Part \cup Item) = {} /\ User \cap Contact = {}
      /\ (Part \cup Item) \cap Contact = {}
      /\ (Part \cup Item) \cap User = {} /\ Contact \cap User = {} /\ Contact \cap (Part \cup Item) = {}
  BY TablesAssumption
<1>4. UNCHANGED staffVars =>
         /\ account' \in [User -> {"ACTIVE", "BLOCKED", "ARCHIVED"}] /\ session' \in [User -> BOOLEAN]
         /\ UNCHANGED <<roles, access, profile, blind, mixed, strayed>>
  BY <1>0 DEF StaffInv, StaffTypeOK, staffVars
<1>5. CASE StaffNext /\ UNCHANGED <<catalogVars, contactVars, premisesVars>>
  <2>1. PICK p \in Request : Effect(p, StaffStatements, User)
    BY <1>0, <1>5, StaffEffect
  <2>2. JobsOK' /\ (Cardinality(UnderWay) <= Busy)'
    BY <1>0, <1>1, <2>1, JobsKept
  <2>3. RequestsInv' /\ RowsOK'
    BY <1>0, <2>1, RequestsKept DEF RequestsInv
  <2>4. StaffInv'
    BY <1>0, <1>5, <2>3, StaffKeeps
  <2>5. CatalogInv' /\ SalesInv'
    BY <1>0, <1>2, <1>3, <1>5, <2>1, CatalogLeftAlone, SalesLeftAlone
  <2>6. ContactsInv' /\ PremisesInv'
    BY <1>0, <1>2, <1>3, <1>5, <2>1, ContactsLeftAlone, PremisesLeftAlone
  <2>. QED  BY <2>2, <2>3, <2>4, <2>5, <2>6 DEF IInv
<1>6. CASE CatalogNext /\ UNCHANGED <<staffVars, contactVars, premisesVars>>
  <2>1. PICK p \in Request : Effect(p, CatalogStatements, Part \cup Item)
    BY <1>0, <1>6, CatalogEffect
  <2>2. JobsOK' /\ (Cardinality(UnderWay) <= Busy)'
    BY <1>0, <1>1, <2>1, JobsKept
  <2>3. RequestsInv' /\ RowsOK'
    BY <1>0, <2>1, RequestsKept DEF RequestsInv
  <2>4. StaffInv'
    BY <1>0, <1>2, <1>3, <1>4, <1>6, <2>1, <2>3, StaffLeftAlone
  <2>5. CatalogInv' /\ SalesInv'
    BY <1>0, <1>6, CatalogKeeps, SalesKeep
  <2>6. ContactsInv' /\ PremisesInv'
    BY <1>0, <1>2, <1>3, <1>6, <2>1, ContactsLeftAlone, PremisesLeftAlone
  <2>. QED  BY <2>2, <2>3, <2>4, <2>5, <2>6 DEF IInv
<1>7. CASE ContactsNext /\ UNCHANGED <<staffVars, catalogVars, premisesVars>>
  <2>1. PICK p \in Request : Effect(p, ContactStatements, Contact)
    BY <1>0, <1>7, ContactsEffect
  <2>2. JobsOK' /\ (Cardinality(UnderWay) <= Busy)'
    BY <1>0, <1>1, <2>1, JobsKept
  <2>3. RequestsInv' /\ RowsOK'
    BY <1>0, <2>1, RequestsKept DEF RequestsInv
  <2>4. StaffInv'
    BY <1>0, <1>2, <1>3, <1>4, <1>7, <2>1, <2>3, StaffLeftAlone
  <2>5. CatalogInv' /\ SalesInv'
    BY <1>0, <1>2, <1>3, <1>7, <2>1, CatalogLeftAlone, SalesLeftAlone
  <2>6. ContactsInv' /\ PremisesInv'
    BY <1>0, <1>2, <1>7, <2>1, ContactsKeeps, PremisesLeftAlone
  <2>. QED  BY <2>2, <2>3, <2>4, <2>5, <2>6 DEF IInv
<1>8. CASE PremisesNext /\ UNCHANGED <<staffVars, catalogVars, contactVars>>
  <2>1. PICK p \in Request : Effect(p, PremisesStatements, {})
    BY <1>0, <1>8, PremisesEffect
  <2>2. JobsOK' /\ (Cardinality(UnderWay) <= Busy)'
    BY <1>0, <1>1, <2>1, JobsKept
  <2>3. RequestsInv' /\ RowsOK'
    BY <1>0, <2>1, RequestsKept DEF RequestsInv
  <2>4. StaffInv'
    BY <1>0, <1>2, <1>4, <1>8, <2>1, <2>3, StaffLeftAlone
  <2>5. CatalogInv' /\ SalesInv'
    BY <1>0, <1>2, <1>8, <2>1, CatalogLeftAlone, SalesLeftAlone
  <2>6. ContactsInv' /\ PremisesInv'
    BY <1>0, <1>8, <2>1, ContactsLeftAlone, PremisesKeeps
  <2>. QED  BY <2>2, <2>3, <2>4, <2>5, <2>6 DEF IInv
<1>. QED  BY <1>5, <1>6, <1>7, <1>8 DEF AdminNext

LEMMA AdminStutters ==
    ASSUME IInv, UNCHANGED adminVars
    PROVE  IInv'
<1>1. /\ record' = record /\ ticket' = ticket /\ job' = job /\ removedBy' = removedBy
      /\ muddled' = muddled
  BY DEF adminVars, deletionVars, rows
<1>2. /\ account' = account /\ session' = session /\ roles' = roles /\ access' = access
      /\ profile' = profile /\ blind' = blind /\ mixed' = mixed /\ strayed' = strayed
  BY DEF adminVars, staffVars
<1>3. UNCHANGED catalogVars /\ UNCHANGED premisesVars
  BY DEF adminVars
<1>4. retired' = retired /\ taken' = taken /\ phone' = phone
  BY DEF adminVars, contactVars
<1>5. JobsOK' /\ (Cardinality(UnderWay) <= Busy)'
  BY <1>1 DEF IInv, JobsOK, UnderWay
<1>6. RequestsInv'
  BY <1>1 DEF IInv, RequestsInv, RowsOK, TicketsName, ReviewsAgree, DeletedFor, RequestsTellTheTruth,
              Pending, Settling
<1>7. StaffInv'
  <2>1. StaffTypeOK' /\ UnbornHaveNothing'
    BY <1>1, <1>2 DEF IInv, StaffInv, StaffTypeOK, UnbornHaveNothing, Syncs, ChangesAccess
  <2>2. OneLeaves' /\ WishesFit'
    BY <1>1, <1>2 DEF IInv, StaffInv, OneLeaves, RemovesDirector, Directors, WishesFit, ChangesRoles,
                      ChangesAccess, FloristBound, Stored
  <2>3. StaffIsInOrder'
    BY <1>1, <1>2 DEF IInv, StaffInv, StaffIsInOrder, DirectorRemains, Directors, FloristsHaveStores,
                      FloristBound, CouriersFollowRoles, Stored
  <2>. QED  BY <2>1, <2>2, <2>3 DEF StaffInv
<1>8. CatalogInv' /\ SalesInv'
  BY <1>1, <1>3, CatalogQuiet, SalesQuiet DEF IInv, catalogVars, Stored
<1>9. ContactsInv'
  BY <1>1, <1>4 DEF IInv, ContactsInv, ContactReferencesHold, Stored
<1>10. PremisesInv'
  BY <1>1, <1>3 DEF IInv, PremisesInv, premisesVars, SavesWhatWasTyped, KeyIsTheOneTyped, Saving
<1>. QED  BY <1>5, <1>6, <1>7, <1>8, <1>9, <1>10 DEF IInv

LEMMA AdminInvariant ==
    AdminSpec => []IInv
<1>1. AdminInit => IInv
  BY InitInv
<1>2. IInv /\ [AdminNext]_adminVars => IInv'
  BY NextKeeps, AdminStutters
<1>. QED  BY <1>1, <1>2, PTL DEF AdminSpec

(***************************************************************************)
(* The rows keep their types and what ties them to each other: a filed     *)
(* ticket names a record that was stored, a deleted record was deleted for *)
(* a ticket, no more requests are under way than may be, every stored item *)
(* has one category, unit and policy, and every store has its warehouse.   *)
(***************************************************************************)
THEOREM AdminTypeCorrect ==
    AdminSpec => []AdminTypeOK
<1>1. IInv => AdminTypeOK
  <2>. SUFFICES ASSUME IInv PROVE AdminTypeOK
    OBVIOUS
  <2>1. /\ record \in [Entity -> {"UNBORN", "STORED", "DELETED"}]
        /\ ticket \in [Ticket -> Tickets] /\ TicketsName /\ DeletedFor
    BY DEF IInv, RequestsInv, RowsOK
  <2>2. \A k \in Ticket : \/ ticket[k] = Blank
                          \/ /\ ticket[k].status \in {"PENDING", "APPROVED", "REJECTED"}
                             /\ record[ticket[k].entity] # "UNBORN"
    BY <2>1 DEF TicketsName, Tickets, Statuses
  <2>3. \A i \in Item : record[i] # "UNBORN" <=> madeOf[i] \in ItemParts
    <3>1. {} \notin ItemParts
      BY DEF ItemParts
    <3>. QED  BY <3>1 DEF IInv, CatalogInv, UnbornAreNew
  <2>4. \A e \in archived : record[e] # "UNBORN"
    BY DEF IInv, CatalogInv, UnbornAreNew
  <2>5. /\ StaffTypeOK /\ Cardinality(UnderWay) <= Busy
        /\ warehouses = {<<s, "MAIN">> : s \in {t \in Shop : shop[t] # "NONE"}}
    BY DEF IInv, StaffInv, PremisesInv
  <2>. QED  BY <2>1, <2>2, <2>3, <2>4, <2>5 DEF AdminTypeOK, DeletedFor
<1>. QED  BY <1>1, AdminInvariant, PTL

(***************************************************************************)
(* An approved request deleted its record and a pending or rejected one    *)
(* deleted nothing, for any number of requests on any records at once,     *)
(* unless two reviews of one request overlapped or a review was cut off    *)
(* between the deletion and the settlement.                                *)
(***************************************************************************)
THEOREM RequestsAlwaysTellTheTruth ==
    AdminSpec => []RequestsTellTheTruth
<1>1. IInv => RequestsTellTheTruth
  BY DEF IInv, RequestsInv
<1>. QED  BY <1>1, AdminInvariant, PTL

(***************************************************************************)
(* A director remains, florists have their stores and couriers their       *)
(* profiles, whatever is assigned, deleted, reviewed or cut off at once.   *)
(***************************************************************************)
THEOREM StaffStaysInOrder ==
    AdminSpec => []StaffIsInOrder
<1>1. IInv => StaffIsInOrder
  BY DEF IInv, StaffInv
<1>. QED  BY <1>1, AdminInvariant, PTL

(***************************************************************************)
(* No foreign key dangles, items in use are made of parts in use, recipes  *)
(* are whole and numbers of customers stay apart, though every use case    *)
(* reads first and writes later, with others in between.  The item of a    *)
(* sale's line, which no key holds, remains unless sale and deletion       *)
(* overlapped.                                                             *)
(***************************************************************************)
THEOREM RecordsStaySound ==
    AdminSpec => []RecordsAreSound
<1>1. IInv => RecordsAreSound
  BY DEF IInv, CatalogInv, SalesInv, ContactsInv, RecordsAreSound
<1>. QED  BY <1>1, AdminInvariant, PTL

(***************************************************************************)
(* The stored key is the one last typed, unless two saves of the settings  *)
(* overlapped.                                                             *)
(***************************************************************************)
THEOREM KeyStaysTheOneTyped ==
    AdminSpec => []KeyIsTheOneTyped
<1>1. IInv => KeyIsTheOneTyped
  BY DEF IInv, PremisesInv
<1>. QED  BY <1>1, AdminInvariant, PTL

-----------------------------------------------------------------------------
(***************************************************************************)
(* The retail prices.                                                      *)
(***************************************************************************)
\* The rows of a week, as a page, an answer or a save holds them.
IsData(d) ==
    /\ DOMAIN d = {"week", "ends", "rows", "behind"}
    /\ d.week \in Week \cup {0} /\ d.ends \in BOOLEAN
    /\ DOMAIN d.rows \subseteq Good
    /\ \A i \in DOMAIN d.rows : d.rows[i].text \in Text

\* A row that nobody typed is the one in the table, unless it has been stored since.
UpToDate(d, table) ==
    \A i \in DOMAIN d.rows \ d.behind :
        d.rows[i].typed = Untyped => d.week \in Week /\ d.rows[i].text = table[<<i, d.week>>]

TrueRows(d) == IsData(d) /\ UpToDate(d, price)

PageOK(g) ==
    /\ DOMAIN page[g] = {"open", "week", "shows", "busy", "data", "moves"}
    /\ page[g].week \in Week \cup {0}
    /\ page[g].busy \in BOOLEAN /\ page[g].shows \in BOOLEAN
    /\ TrueRows(page[g].data)
    /\ page[g].week = 0 => ~page[g].shows /\ ~page[g].busy /\ answers[g] = {}

SaveOK(g) ==
    /\ DOMAIN save[g] = {"week", "data"} /\ TrueRows(save[g].data)
    /\ IF Sending(g) THEN save[g].week \in Week ELSE save[g] = NoSave
    /\ \A i \in DOMAIN save[g].data.rows : save[g].data.rows[i].text \in Amount

\* A page waits for its save, or for the one answer that ends it.
WaitsForOne(g) ==
    /\ page[g].busy <=> Sending(g) \/ \E a \in answers[g] : a.ends
    /\ \A a \in answers[g] : a.ends => ~Sending(g) /\ \A b \in answers[g] : b.ends => b = a

PricesInv ==
    /\ price \in [Cell -> Text] /\ said \in [Cell -> Text]
    /\ offSale \subseteq Good
    /\ DOMAIN page = Page /\ DOMAIN answers = Page /\ DOMAIN save = Page
    /\ \A g \in Page : /\ PageOK(g) /\ SaveOK(g) /\ WaitsForOne(g)
                       /\ \A a \in answers[g] : TrueRows(a)
    /\ PricesAreTheOnesTyped

LEMMA WeeksAndGoods ==
    /\ IsFiniteSet(Good) /\ Good \subseteq Nat
    /\ 0 \notin Week /\ Empty \notin Amount
  BY RetailPricesAssumption, FS_Interval DEF Good

LEMMA AnswersAreTrue ==
    ASSUME PricesInv, NEW w \in Week, NEW ends \in BOOLEAN
    PROVE  TrueRows(Answer(w, ends)) /\ Answer(w, ends).ends = ends
<1> DEFINE a == Answer(w, ends)
<1>1. /\ DOMAIN a = {"week", "ends", "rows", "behind"}
      /\ a.week = w /\ a.ends = ends /\ DOMAIN a.rows = Good \ offSale /\ a.behind = {}
      /\ \A i \in Good \ offSale : /\ a.rows[i].text = price[<<i, w>>]
                                   /\ a.rows[i].typed = Untyped
  BY DEF Answer, Loaded
<1>2. \A i \in Good : <<i, w>> \in Cell
  BY DEF Cell
<1>3. \A i \in Good : price[<<i, w>>] \in Text
  BY <1>2 DEF PricesInv
<1> HIDE DEF a
<1>4. a.week \in Week \cup {0} /\ a.ends \in BOOLEAN /\ DOMAIN a.rows \subseteq Good
  BY <1>1
<1>5. \A i \in DOMAIN a.rows : a.rows[i].text \in Text
  BY <1>1, <1>3
<1>6. IsData(a)
  BY <1>1, <1>4, <1>5 DEF IsData
<1>7. UpToDate(a, price)
  BY <1>1 DEF UpToDate
<1>. QED  BY <1>1, <1>6, <1>7 DEF TrueRows, a

\* What a row in the table makes of the rows others hold.
LEMMA BehindIsTrue ==
    ASSUME NEW d, TrueRows(d), NEW i \in Good, NEW w \in Week, NEW x \in Text,
           price \in [Cell -> Text]
    PROVE  /\ IsData(Behind(d, i, w))
           /\ UpToDate(Behind(d, i, w), [price EXCEPT ![<<i, w>>] = x])
           /\ Behind(d, i, w).ends = d.ends /\ Behind(d, i, w).rows = d.rows
           /\ Behind(d, i, w).week = d.week
           /\ d.week = 0 => Behind(d, i, w) = d
<1> DEFINE e == Behind(d, i, w)
<1>1. /\ DOMAIN e = {"week", "ends", "rows", "behind"}
      /\ e.week = d.week /\ e.ends = d.ends /\ e.rows = d.rows
      /\ e.behind = IF d.week = w THEN d.behind \cup {i} ELSE d.behind
  BY DEF Behind, TrueRows, IsData
<1>2. d.week = 0 => e = d
  BY WeeksAndGoods DEF Behind
<1> HIDE DEF e
<1>3. IsData(e)
  BY <1>1 DEF TrueRows, IsData
<1>4. ASSUME NEW n \in DOMAIN e.rows \ e.behind, e.rows[n].typed = Untyped
      PROVE  e.week \in Week /\ e.rows[n].text = [price EXCEPT ![<<i, w>>] = x][<<n, e.week>>]
  <2>1. n \in DOMAIN d.rows \ d.behind /\ d.rows[n].typed = Untyped
    BY <1>1, <1>4
  <2>2. d.week \in Week /\ d.rows[n].text = price[<<n, d.week>>] /\ n \in Good
    BY <2>1 DEF TrueRows, UpToDate, IsData
  <2>3. <<n, d.week>> \in Cell /\ <<n, d.week>> # <<i, w>>
    BY <1>1, <1>4, <2>2 DEF Cell
  <2>. QED  BY <1>1, <2>2, <2>3
<1>5. UpToDate(e, [price EXCEPT ![<<i, w>>] = x])
  BY <1>4 DEF UpToDate
<1>. QED  BY <1>1, <1>2, <1>3, <1>5 DEF e

\* The rows that a page, an answer or a save holds stay true while the table stays.
LEMMA RowsStayTrue ==
    ASSUME UNCHANGED price, NEW d, TrueRows(d)
    PROVE  TrueRows(d)'
  BY DEF TrueRows, IsData, UpToDate

LEMMA PricesStart == ASSUME PricesInit PROVE PricesInv
<1>1. TrueRows(NoRows)
  BY DEF TrueRows, IsData, UpToDate, NoRows
<1>2. price \in [Cell -> Text] /\ said \in [Cell -> Text]
  BY DEF PricesInit, Text
<1>3. ASSUME NEW g \in Page
      PROVE  PageOK(g) /\ SaveOK(g) /\ WaitsForOne(g) /\ \A a \in answers[g] : TrueRows(a)
  <2>1. page[g] = Shut /\ answers[g] = {} /\ save[g] = NoSave
    BY <1>3 DEF PricesInit
  <2>2. PageOK(g)
    BY <1>1, <2>1 DEF PageOK, Shut
  <2>3. SaveOK(g)
    BY <1>1, <2>1 DEF SaveOK, NoSave, Sending, NoRows
  <2>4. WaitsForOne(g)
    BY <2>1 DEF WaitsForOne, Shut, Sending
  <2>. QED  BY <2>1, <2>2, <2>3, <2>4
<1>4. PricesAreTheOnesTyped
  BY DEF PricesAreTheOnesTyped, PricesInit
<1>. QED  BY <1>2, <1>3, <1>4 DEF PricesInv, PricesInit

\* A step that leaves the table alone, one page at a time.
LEMMA OnePageMoves ==
    ASSUME PricesInv, NEW g \in Page,
           UNCHANGED <<price, said, blurred>>, offSale' = offSale,
           DOMAIN page' = Page, DOMAIN answers' = Page, DOMAIN save' = Page,
           \A h \in Page \ {g} : /\ page'[h] = page[h] /\ answers'[h] = answers[h]
                                 /\ save'[h] = save[h],
           PageOK(g)', SaveOK(g)', WaitsForOne(g)', \A a \in answers'[g] : TrueRows(a)'
    PROVE  PricesInv'
<1>1. ASSUME NEW h \in Page \ {g}
      PROVE  /\ PageOK(h)' /\ SaveOK(h)' /\ WaitsForOne(h)'
             /\ \A a \in answers'[h] : TrueRows(a)'
  <2>1. /\ page'[h] = page[h] /\ answers'[h] = answers[h] /\ save'[h] = save[h]
        /\ PageOK(h) /\ SaveOK(h) /\ WaitsForOne(h) /\ \A a \in answers[h] : TrueRows(a)
    BY <1>1 DEF PricesInv
  <2>2. TrueRows(page[h].data)' /\ TrueRows(save[h].data)'
    BY <2>1, RowsStayTrue DEF PageOK, SaveOK, TrueRows, IsData, UpToDate
  <2>3. PageOK(h)'
    BY <2>1, <2>2 DEF PageOK
  <2>4. SaveOK(h)'
    BY <2>1, <2>2 DEF SaveOK, Sending
  <2>5. WaitsForOne(h)'
    BY <2>1 DEF WaitsForOne, Sending
  <2>6. \A a \in answers'[h] : TrueRows(a)'
    BY <2>1 DEF TrueRows, UpToDate
  <2>. QED  BY <2>3, <2>4, <2>5, <2>6
<1>2. PricesAreTheOnesTyped'
  BY DEF PricesInv, PricesAreTheOnesTyped
<1>. QED  BY <1>1, <1>2 DEF PricesInv

LEMMA TurnStep ==
    ASSUME PricesInv, NEW g \in Page, NEW w \in Week, Turn(g, w)
    PROVE  PricesInv'
<1> DEFINE a == Answer(w, FALSE)
<1>1. TrueRows(a) /\ a.ends = FALSE
  BY AnswersAreTrue
<1> HIDE DEF a
<1>2. /\ page' = [page EXCEPT ![g].open = TRUE, ![g].week = w, ![g].shows = FALSE,
                              ![g].moves = @ + 1]
      /\ answers' = [answers EXCEPT ![g] = @ \cup {a}]
      /\ ~page[g].busy
      /\ UNCHANGED <<price, offSale, save, said, blurred>>
  BY DEF Turn, a
<1>3. /\ PageOK(g) /\ SaveOK(g) /\ WaitsForOne(g) /\ \A b \in answers[g] : TrueRows(b)
      /\ DOMAIN page = Page /\ DOMAIN answers = Page /\ DOMAIN save = Page
  BY DEF PricesInv
<1>4. /\ DOMAIN page'[g] = DOMAIN page[g] /\ page'[g].week = w /\ page'[g].shows = FALSE
      /\ page'[g].busy = page[g].busy /\ page'[g].data = page[g].data
      /\ answers'[g] = answers[g] \cup {a} /\ save'[g] = save[g]
  BY <1>2, <1>3 DEF PageOK
<1>5. PageOK(g)'
  BY <1>2, <1>3, <1>4, WeeksAndGoods, RowsStayTrue DEF PageOK, TrueRows
<1>6. SaveOK(g)'
  BY <1>2, <1>3, <1>4 DEF SaveOK, Sending, TrueRows
<1>7. WaitsForOne(g)'
  BY <1>1, <1>2, <1>3, <1>4 DEF WaitsForOne, Sending
<1>8. \A b \in answers'[g] : TrueRows(b)'
  BY <1>1, <1>2, <1>3, <1>4 DEF TrueRows
<1>9. /\ DOMAIN page' = Page /\ DOMAIN answers' = Page /\ DOMAIN save' = Page
      /\ \A h \in Page \ {g} : /\ page'[h] = page[h] /\ answers'[h] = answers[h]
                               /\ save'[h] = save[h]
  BY <1>2, <1>3
<1>. QED  BY <1>2, <1>5, <1>6, <1>7, <1>8, <1>9, OnePageMoves

LEMMA AnswerStep ==
    ASSUME PricesInv, NEW g \in Page, NEW a \in answers[g], Show(g, a) \/ LoadFails(g, a)
    PROVE  PricesInv'
<1>1. /\ PageOK(g) /\ SaveOK(g) /\ WaitsForOne(g) /\ \A b \in answers[g] : TrueRows(b)
      /\ DOMAIN page = Page /\ DOMAIN answers = Page /\ DOMAIN save = Page
  BY DEF PricesInv
<1>2. /\ answers' = [answers EXCEPT ![g] = @ \ {a}]
      /\ UNCHANGED <<price, offSale, save, said, blurred>>
  BY DEF Show, LoadFails
<1>3. PICK d \in {a, page[g].data} :
        /\ DOMAIN page'[g] = DOMAIN page[g] /\ page'[g].week = page[g].week
        /\ page'[g].shows = TRUE /\ page'[g].data = d
        /\ page'[g].busy = (page[g].busy /\ ~a.ends)
        /\ DOMAIN page' = Page /\ \A h \in Page \ {g} : page'[h] = page[h]
  <2>1. CASE Show(g, a)
    BY <1>1, <2>1 DEF Show, PageOK
  <2>2. CASE LoadFails(g, a)
    BY <1>1, <2>2 DEF LoadFails, PageOK
  <2>. QED  BY <2>1, <2>2
<1>4. /\ answers'[g] = answers[g] \ {a} /\ save'[g] = save[g]
      /\ DOMAIN answers' = Page /\ DOMAIN save' = Page
      /\ \A h \in Page \ {g} : answers'[h] = answers[h] /\ save'[h] = save[h]
  BY <1>1, <1>2
<1>5. TrueRows(d) /\ a.ends \in BOOLEAN
  BY <1>1 DEF PageOK, TrueRows, IsData
<1>6. PageOK(g)'
  <2>1. TrueRows(page[g].data)'
    BY <1>2, <1>3, <1>5, RowsStayTrue DEF TrueRows
  <2>2. page[g].week # 0
    BY <1>1 DEF PageOK
  <2>. QED  BY <1>1, <1>3, <1>5, <2>1, <2>2 DEF PageOK
<1>7. SaveOK(g)'
  BY <1>1, <1>2, <1>4 DEF SaveOK, Sending, TrueRows
<1>8. WaitsForOne(g)'
  BY <1>1, <1>2, <1>3, <1>4, <1>5 DEF WaitsForOne, Sending
<1>9. \A b \in answers'[g] : TrueRows(b)'
  BY <1>1, <1>2, <1>4 DEF TrueRows
<1>. QED  BY <1>2, <1>3, <1>4, <1>6, <1>7, <1>8, <1>9, OnePageMoves

LEMMA TypeStepOfPage ==
    ASSUME PricesInv, NEW g \in Page, NEW i \in Good, NEW t \in Text, Type(g, i, t)
    PROVE  PricesInv'
<1>1. /\ PageOK(g) /\ SaveOK(g) /\ WaitsForOne(g) /\ \A b \in answers[g] : TrueRows(b)
      /\ DOMAIN page = Page /\ DOMAIN answers = Page /\ DOMAIN save = Page
  BY DEF PricesInv
<1> DEFINE d == page[g].data
           row == [text |-> t, typed |-> page[g].week]
<1>2. /\ page' = [page EXCEPT ![g].data.rows[i] = row, ![g].moves = @ + 1]
      /\ i \in DOMAIN d.rows /\ page[g].shows
      /\ UNCHANGED <<price, offSale, answers, save, said, blurred>>
  BY DEF Type
<1>3. /\ DOMAIN page'[g] = DOMAIN page[g] /\ page'[g].week = page[g].week
      /\ page'[g].shows = page[g].shows /\ page'[g].busy = page[g].busy
      /\ page'[g].data = [d EXCEPT !.rows[i] = row]
      /\ DOMAIN page' = Page /\ \A h \in Page \ {g} : page'[h] = page[h]
  BY <1>1, <1>2 DEF PageOK
<1>4. TrueRows(d)
  BY <1>1 DEF PageOK
<1> DEFINE e == [d EXCEPT !.rows[i] = row]
<1>5. /\ DOMAIN e = DOMAIN d /\ e.week = d.week /\ e.ends = d.ends /\ e.behind = d.behind
      /\ DOMAIN e.rows = DOMAIN d.rows /\ e.rows[i] = row
      /\ \A n \in DOMAIN d.rows \ {i} : e.rows[n] = d.rows[n]
  BY <1>2, <1>4 DEF TrueRows, IsData
<1> HIDE DEF e, d
<1>6. ASSUME NEW n \in DOMAIN e.rows
      PROVE  e.rows[n].text \in Text
  <2>1. row.text \in Text
    OBVIOUS
  <2> HIDE DEF row
  <2>2. n \in DOMAIN d.rows
    BY <1>5, <1>6
  <2>3. CASE n = i
    BY <1>5, <2>1, <2>3
  <2>4. CASE n # i
    BY <1>4, <1>5, <2>2, <2>4 DEF TrueRows, IsData
  <2>. QED  BY <2>3, <2>4
<1>7. IsData(e)
  BY <1>4, <1>5, <1>6 DEF TrueRows, IsData
<1>8. UpToDate(e, price)
  <2>1. row.typed # Untyped
    BY <1>1, <1>2 DEF PageOK, Untyped
  <2>. QED  BY <1>4, <1>5, <2>1 DEF TrueRows, UpToDate
<1>9. TrueRows(page[g].data)'
  BY <1>2, <1>3, <1>7, <1>8 DEF TrueRows, e, d
<1>10. PageOK(g)'
  BY <1>1, <1>2, <1>3, <1>9 DEF PageOK
<1>11. SaveOK(g)' /\ WaitsForOne(g)' /\ \A b \in answers'[g] : TrueRows(b)'
  BY <1>1, <1>2, <1>3 DEF SaveOK, WaitsForOne, Sending, TrueRows
<1>. QED  BY <1>1, <1>2, <1>3, <1>10, <1>11, OnePageMoves

LEMMA StartSaveStep ==
    ASSUME PricesInv, NEW g \in Page, StartSave(g)
    PROVE  PricesInv'
<1>1. /\ PageOK(g) /\ SaveOK(g) /\ WaitsForOne(g) /\ \A b \in answers[g] : TrueRows(b)
      /\ DOMAIN page = Page /\ DOMAIN answers = Page /\ DOMAIN save = Page
  BY DEF PricesInv
<1> DEFINE d == page[g].data
           e == [d EXCEPT !.rows = [i \in Sent(d.rows) |-> d.rows[i]]]
<1>2. /\ save' = [save EXCEPT ![g] = [week |-> page[g].week, data |-> e]]
      /\ page' = [page EXCEPT ![g].busy = TRUE, ![g].moves = @ + 1]
      /\ page[g].shows /\ ~page[g].busy /\ UNCHANGED <<price, offSale, answers, said, blurred>>
  BY DEF StartSave
<1>3. TrueRows(d) /\ page[g].week \in Week
  BY <1>1, <1>2 DEF PageOK
<1>4. /\ DOMAIN page'[g] = DOMAIN page[g] /\ page'[g].week = page[g].week
      /\ page'[g].shows = page[g].shows /\ page'[g].busy = TRUE /\ page'[g].data = d
      /\ save'[g].week = page[g].week /\ save'[g].data = e /\ DOMAIN save'[g] = {"week", "data"}
      /\ DOMAIN page' = Page /\ DOMAIN save' = Page
      /\ \A h \in Page \ {g} : page'[h] = page[h] /\ save'[h] = save[h]
  BY <1>1, <1>2 DEF PageOK
<1>5. /\ DOMAIN e = DOMAIN d /\ e.week = d.week /\ e.ends = d.ends /\ e.behind = d.behind
      /\ DOMAIN e.rows = Sent(d.rows) /\ \A n \in Sent(d.rows) : e.rows[n] = d.rows[n]
      /\ \A n \in Sent(d.rows) : n \in DOMAIN d.rows /\ d.rows[n].text # Empty
  BY <1>3 DEF TrueRows, IsData, Sent
<1> HIDE DEF e, d
<1>6. IsData(e)
  BY <1>3, <1>5 DEF TrueRows, IsData
<1>7. UpToDate(e, price)
  BY <1>3, <1>5 DEF TrueRows, UpToDate
<1>8. \A n \in DOMAIN e.rows : e.rows[n].text \in Amount
  BY <1>3, <1>5 DEF TrueRows, IsData, Text
<1>9. TrueRows(page[g].data)' /\ TrueRows(save[g].data)'
  BY <1>2, <1>3, <1>4, <1>6, <1>7 DEF TrueRows
<1>10. PageOK(g)'
  BY <1>1, <1>2, <1>4, <1>9 DEF PageOK
<1>11. Sending(g)'
  <2>1. save'[g].week # 0
    BY <1>3, <1>4, WeeksAndGoods
  <2>. QED  BY <2>1 DEF Sending, NoSave
<1>12. SaveOK(g)'
  BY <1>3, <1>4, <1>8, <1>9, <1>11 DEF SaveOK
<1>13. WaitsForOne(g)'
  BY <1>1, <1>2, <1>4, <1>11 DEF WaitsForOne
<1>14. \A b \in answers'[g] : TrueRows(b)'
  BY <1>1, <1>2 DEF TrueRows
<1>. QED  BY <1>1, <1>2, <1>4, <1>10, <1>12, <1>13, <1>14, OnePageMoves

LEMMA SaveEndsStep ==
    ASSUME PricesInv, NEW g \in Page, SaveFails(g) \/ Saved(g)
    PROVE  PricesInv'
<1>1. /\ PageOK(g) /\ SaveOK(g) /\ WaitsForOne(g) /\ \A b \in answers[g] : TrueRows(b)
      /\ DOMAIN page = Page /\ DOMAIN answers = Page /\ DOMAIN save = Page
  BY DEF PricesInv
<1>2. /\ save' = [save EXCEPT ![g] = NoSave] /\ Sending(g)
      /\ UNCHANGED <<price, offSale, said, blurred>>
  BY DEF SaveFails, Saved
<1> DEFINE a == Answer(save[g].week, TRUE)
<1>3. TrueRows(a) /\ a.ends = TRUE
  BY <1>1, <1>2, AnswersAreTrue DEF SaveOK
<1>4. a.week = save[g].week /\ save[g].week \in Week
  BY <1>1, <1>2 DEF SaveOK, Answer
<1> HIDE DEF a
<1>5. PICK more \in SUBSET {a} :
        /\ DOMAIN page'[g] = DOMAIN page[g] /\ page'[g].week = page[g].week
        /\ page'[g].shows \in BOOLEAN
        /\ page'[g].data = page[g].data
        /\ answers'[g] = answers[g] \cup more
        /\ page'[g].busy = (more # {})
        /\ DOMAIN page' = Page /\ DOMAIN answers' = Page
        /\ \A h \in Page \ {g} : page'[h] = page[h] /\ answers'[h] = answers[h]
  <2>1. CASE SaveFails(g)
    <3>1. /\ page' = [page EXCEPT ![g].busy = FALSE] /\ answers' = answers
      BY <2>1 DEF SaveFails
    <3>2. {} \in SUBSET {a}
      OBVIOUS
    <3>. QED  BY <1>1, <3>1, <3>2 DEF PageOK
  <2>2. CASE Saved(g)
    <3>1. /\ page' = [page EXCEPT ![g].shows = FALSE]
          /\ answers' = [answers EXCEPT ![g] = @ \cup {a}]
      BY <2>2 DEF Saved, a
    <3>2. page[g].busy = TRUE
      BY <1>1, <1>2 DEF WaitsForOne, PageOK
    <3>3. {a} \in SUBSET {a} /\ {a} # {}
      OBVIOUS
    <3>. QED  BY <1>1, <3>1, <3>2, <3>3 DEF PageOK
  <2>. QED  BY <2>1, <2>2
<1>6. save'[g] = NoSave /\ DOMAIN save' = Page /\ \A h \in Page \ {g} : save'[h] = save[h]
  BY <1>1, <1>2
<1>7. TrueRows(page[g].data)'
  BY <1>1, <1>2, <1>5 DEF PageOK, TrueRows
<1>8. PageOK(g)'
  <2>1. page[g].busy
    BY <1>1, <1>2 DEF WaitsForOne
  <2>2. page'[g].week \in Week
    BY <1>1, <1>5, <2>1 DEF PageOK
  <2>3. page'[g].week # 0
    BY <2>2, WeeksAndGoods
  <2>4. page'[g].busy \in BOOLEAN
    BY <1>5, Zenon
  <2>5. DOMAIN page'[g] = {"open", "week", "shows", "busy", "data", "moves"}
    BY <1>1, <1>5 DEF PageOK
  <2>6. page'[g].shows \in BOOLEAN
    BY <1>5
  <2>. QED  BY <1>7, <2>2, <2>3, <2>4, <2>5, <2>6 DEF PageOK
<1>9. SaveOK(g)'
  <2>1. TrueRows(NoRows)'
    BY DEF TrueRows, IsData, UpToDate, NoRows
  <2>. QED  BY <1>6, <2>1 DEF SaveOK, Sending, NoSave, NoRows
<1>10. WaitsForOne(g)'
  <2>1. ~Sending(g)' /\ \A b \in answers[g] : ~b.ends
    BY <1>1, <1>2, <1>6 DEF WaitsForOne, Sending
  <2>. QED  BY <1>3, <1>5, <2>1 DEF WaitsForOne
<1>11. \A b \in answers'[g] : TrueRows(b)'
  BY <1>1, <1>2, <1>3, <1>5 DEF TrueRows
<1>. QED  BY <1>2, <1>5, <1>6, <1>8, <1>9, <1>10, <1>11, OnePageMoves

LEMMA TakeOffStep ==
    ASSUME PricesInv, NEW i \in Good, TakeOff(i)
    PROVE  PricesInv'
<1>1. offSale' \subseteq Good /\ UNCHANGED <<price, page, answers, save, said, blurred>>
  BY DEF TakeOff, PricesInv
<1>. QED
  BY <1>1 DEF PricesInv, PageOK, SaveOK, WaitsForOne, Sending, TrueRows, PricesAreTheOnesTyped

\* The next row of a save is one of those left.
LEMMA NextRow ==
    ASSUME NEW left, left \subseteq Good, left # {}
    PROVE  (CHOOSE n \in left : \A m \in left : n <= m) \in left
<1>1. IsFiniteSet(left) /\ left \subseteq Nat
  BY WeeksAndGoods, FS_Subset
<1>2. \E n \in left : \A m \in left : n <= m
  BY <1>1, LeastElement
<1>. QED  BY <1>2

\* The row that is stored is the one typed last, or was there before.
LEMMA UpsertStep ==
    ASSUME PricesInv, NEW g \in Page, Upsert(g)
    PROVE  PricesInv'
<1>1. /\ \A h \in Page : /\ PageOK(h) /\ SaveOK(h) /\ WaitsForOne(h)
                         /\ \A b \in answers[h] : TrueRows(b)
      /\ DOMAIN page = Page /\ DOMAIN answers = Page /\ DOMAIN save = Page
      /\ price \in [Cell -> Text] /\ said \in [Cell -> Text]
  BY DEF PricesInv
<1>2. PICK left, i, w, row, d :
        /\ left = DOMAIN save[g].data.rows /\ d = save[g].data
        /\ i = CHOOSE n \in left : \A m \in left : n <= m
        /\ w = save[g].week /\ row = save[g].data.rows[i]
  OBVIOUS
<1> DEFINE c == <<i, w>>
           table == [price EXCEPT ![c] = row.text]
           meant == row.typed = w
           knew == row.typed = Untyped /\ d.week = w /\ i \notin d.behind
<1>3. /\ left # {} /\ price' = table /\ offSale' = offSale
      /\ said' = IF meant THEN [said EXCEPT ![c] = row.text] ELSE said
      /\ blurred' = IF meant THEN blurred \ {c}
                    ELSE IF knew THEN blurred ELSE blurred \cup {c}
  BY <1>2 DEF Upsert
<1>4. /\ save' = [h \in Page |->
              IF h = g THEN [save[h] EXCEPT !.data.rows = [n \in left \ {i} |-> d.rows[n]]]
                       ELSE [save[h] EXCEPT !.data = Behind(@, i, w)]]
      /\ page' = [h \in Page |-> [page[h] EXCEPT !.data = Behind(@, i, w)]]
      /\ answers' = [h \in Page |-> {Behind(a, i, w) : a \in answers[h]}]
  BY <1>2 DEF Upsert
<1>5. i \in left /\ left \subseteq Good
  <2>1. left \subseteq Good
    BY <1>1, <1>2 DEF SaveOK, TrueRows, IsData
  <2>2. (CHOOSE n \in left : \A m \in left : n <= m) \in left
    BY <1>3, <2>1, NextRow
  <2>. QED  BY <1>2, <2>1, <2>2
<1>6. Sending(g) /\ w \in Week
  <2>1. save[g] # NoSave
    BY <1>2, <1>3 DEF NoSave, NoRows
  <2>. QED  BY <1>1, <1>2, <2>1 DEF Sending, SaveOK
<1>7. TrueRows(d) /\ row.text \in Amount /\ row.text \in Text
  BY <1>1, <1>2, <1>5 DEF SaveOK, TrueRows, IsData, Text
<1>8. c \in Cell /\ i \in Good
  BY <1>5, <1>6 DEF Cell
<1>9. table \in [Cell -> Text] /\ said' \in [Cell -> Text]
  BY <1>1, <1>3, <1>7, <1>8
<1>10. ASSUME NEW e, TrueRows(e)
       PROVE  /\ IsData(Behind(e, i, w)) /\ UpToDate(Behind(e, i, w), table)
              /\ Behind(e, i, w).ends = e.ends /\ Behind(e, i, w).rows = e.rows
              /\ Behind(e, i, w).week = e.week
              /\ e.week = 0 => Behind(e, i, w) = e
  BY <1>1, <1>6, <1>7, <1>8, <1>10, BehindIsTrue
<1>11. knew => price[c] = row.text
  BY <1>2, <1>5, <1>7 DEF TrueRows, UpToDate
<1>12. PricesAreTheOnesTyped'
  <2>1. ASSUME NEW x \in Cell, x \notin blurred' PROVE price'[x] = said'[x]
    <3>1. x # c => x \notin blurred
      BY <1>3, <2>1
    <3>2. CASE x # c
      BY <1>1, <1>3, <3>1, <3>2 DEF PricesInv, PricesAreTheOnesTyped
    <3>3. CASE x = c /\ meant
      BY <1>1, <1>3, <1>8, <3>3
    <3>4. CASE x = c /\ ~meant
      <4>1. knew /\ x \notin blurred /\ said' = said
        BY <1>3, <2>1, <3>4
      <4>2. price[c] = said[c]
        BY <1>8, <3>4, <4>1 DEF PricesInv, PricesAreTheOnesTyped
      <4>. QED  BY <1>1, <1>3, <1>8, <1>11, <3>4, <4>1, <4>2
    <3>. QED  BY <1>7, <3>2, <3>3, <3>4
  <2>. QED  BY <2>1 DEF PricesAreTheOnesTyped
<1> HIDE DEF table, meant, knew, c
<1>13. ASSUME NEW h \in Page
       PROVE  PageOK(h)'
  <2>1. /\ DOMAIN page'[h] = DOMAIN page[h] /\ page'[h].week = page[h].week
        /\ page'[h].shows = page[h].shows /\ page'[h].busy = page[h].busy
        /\ page'[h].data = Behind(page[h].data, i, w)
    BY <1>1, <1>4 DEF PageOK
  <2>2. TrueRows(page[h].data)'
    BY <1>1, <1>3, <1>10, <2>1 DEF PageOK, TrueRows
  <2>3. answers[h] = {} => answers'[h] = {}
    BY <1>4
  <2>. QED  BY <1>1, <2>1, <2>2, <2>3 DEF PageOK
<1>14. ASSUME NEW h \in Page
       PROVE  SaveOK(h)' /\ Sending(h)' = Sending(h)
  <2>1. CASE h = g
    <3> DEFINE e == [d EXCEPT !.rows = [n \in left \ {i} |-> d.rows[n]]]
    <3>1. save'[g] = [save[g] EXCEPT !.data = e]
      <4>1. save'[g] = [save[g] EXCEPT !.data.rows = [n \in left \ {i} |-> d.rows[n]]]
        BY <1>4
      <4>. QED  BY <1>2, <4>1
    <3>2. /\ DOMAIN e = DOMAIN d /\ e.week = d.week /\ e.ends = d.ends /\ e.behind = d.behind
          /\ DOMAIN e.rows = left \ {i} /\ \A n \in left \ {i} : e.rows[n] = d.rows[n]
      BY <1>7 DEF TrueRows, IsData
    <3>3. DOMAIN save'[g] = {"week", "data"} /\ save'[g].week = w /\ save'[g].data = e
      BY <1>1, <1>2, <3>1 DEF SaveOK
    <3> HIDE DEF e
    <3>4. IsData(e)
      BY <1>2, <1>7, <3>2 DEF TrueRows, IsData
    <3>5. ASSUME NEW n \in DOMAIN e.rows \ e.behind, e.rows[n].typed = Untyped
          PROVE  e.week \in Week /\ e.rows[n].text = table[<<n, e.week>>]
      <4>1. n \in DOMAIN d.rows \ d.behind /\ d.rows[n].typed = Untyped /\ n # i /\ n \in Good
        BY <1>2, <1>5, <3>2, <3>5
      <4>2. d.week \in Week /\ d.rows[n].text = price[<<n, d.week>>]
        BY <1>7, <4>1 DEF TrueRows, UpToDate
      <4>3. <<n, d.week>> \in Cell /\ <<n, d.week>> # c
        BY <4>1, <4>2 DEF Cell, c
      <4>. QED  BY <1>1, <1>2, <3>2, <3>5, <4>2, <4>3 DEF table
    <3>6. UpToDate(e, table)
      BY <3>5 DEF UpToDate
    <3>7. TrueRows(save[g].data)'
      BY <1>3, <3>3, <3>4, <3>6 DEF TrueRows
    <3>8. \A n \in DOMAIN e.rows : e.rows[n].text \in Amount
      BY <1>1, <1>2, <3>2 DEF SaveOK
    <3>9. Sending(g)'
      BY <1>6, <3>3, WeeksAndGoods DEF Sending, NoSave
    <3>. QED  BY <1>6, <2>1, <3>3, <3>7, <3>8, <3>9 DEF SaveOK
  <2>2. CASE h # g
    <3>1. /\ DOMAIN save'[h] = DOMAIN save[h] /\ save'[h].week = save[h].week
          /\ save'[h].data = Behind(save[h].data, i, w)
      BY <1>1, <1>4, <2>2 DEF SaveOK
    <3>2. TrueRows(save[h].data)'
      BY <1>1, <1>3, <1>10, <3>1 DEF SaveOK, TrueRows
    <3>3. CASE Sending(h)
      <4>1. Sending(h)'
        BY <1>1, <3>1, <3>3, WeeksAndGoods DEF Sending, SaveOK, NoSave
      <4>. QED  BY <1>1, <1>10, <3>1, <3>2, <3>3, <4>1 DEF SaveOK
    <3>4. CASE ~Sending(h)
      <4>1. save[h] = NoSave /\ TrueRows(save[h].data)
        BY <1>1, <3>4 DEF SaveOK
      <4>2. save[h].data.week = 0
        BY <4>1 DEF NoSave, NoRows
      <4>3. save'[h] = [save[h] EXCEPT !.data = save[h].data]
        BY <1>4, <1>10, <2>2, <4>1, <4>2
      <4>4. save'[h] = save[h]
        BY <4>1, <4>3 DEF NoSave
      <4>. QED  BY <1>1, <3>2, <3>4, <4>1, <4>4 DEF SaveOK, Sending
    <3>. QED  BY <3>3, <3>4
  <2>. QED  BY <2>1, <2>2
<1>15. ASSUME NEW h \in Page
       PROVE  \A b \in answers'[h] : \E a \in answers[h] : b = Behind(a, i, w) /\ b.ends = a.ends
  BY <1>1, <1>4, <1>10
<1>16. ASSUME NEW h \in Page
       PROVE  \A a \in answers[h] : Behind(a, i, w) \in answers'[h] /\ Behind(a, i, w).ends = a.ends
  BY <1>1, <1>4, <1>10
<1>17. ASSUME NEW h \in Page
       PROVE  \A b \in answers'[h] : TrueRows(b)'
  BY <1>1, <1>3, <1>10, <1>15 DEF TrueRows
<1>18. ASSUME NEW h \in Page
       PROVE  WaitsForOne(h)'
  <2>1. page'[h].busy = page[h].busy /\ WaitsForOne(h) /\ Sending(h)' = Sending(h)
    BY <1>1, <1>4, <1>14 DEF PageOK
  <2>2. (\E a \in answers'[h] : a.ends) <=> \E a \in answers[h] : a.ends
    BY <1>15, <1>16
  <2>3. \A a \in answers'[h] : a.ends => ~Sending(h)' /\ \A b \in answers'[h] : b.ends => b = a
    BY <1>15, <2>1 DEF WaitsForOne
  <2>. QED  BY <2>1, <2>2, <2>3 DEF WaitsForOne
<1>. QED
  BY <1>3, <1>4, <1>9, <1>12, <1>13, <1>14, <1>17, <1>18 DEF PricesInv

THEOREM PricesInvariant == PricesSpec => []PricesInv
<1>1. PricesInv /\ [PricesNext]_priceVars => PricesInv'
  <2> SUFFICES ASSUME PricesInv, [PricesNext]_priceVars PROVE PricesInv'
    OBVIOUS
  <2>1. CASE UNCHANGED priceVars
    BY <2>1 DEF priceVars, PricesInv, PageOK, SaveOK, WaitsForOne, Sending, TrueRows, UpToDate,
       PricesAreTheOnesTyped
  <2>2. ASSUME NEW g \in Page, NEW w \in Week, Turn(g, w) PROVE PricesInv'
    BY <2>2, TurnStep
  <2>3. ASSUME NEW g \in Page, NEW a \in answers[g], Show(g, a) \/ LoadFails(g, a) PROVE PricesInv'
    BY <2>3, AnswerStep
  <2>4. ASSUME NEW g \in Page, NEW i \in Good, NEW t \in Text, Type(g, i, t) PROVE PricesInv'
    BY <2>4, TypeStepOfPage
  <2>5. ASSUME NEW g \in Page, StartSave(g) PROVE PricesInv'
    BY <2>5, StartSaveStep
  <2>6. ASSUME NEW g \in Page, Upsert(g) PROVE PricesInv'
    BY <2>6, UpsertStep
  <2>7. ASSUME NEW g \in Page, SaveFails(g) \/ Saved(g) PROVE PricesInv'
    BY <2>7, SaveEndsStep
  <2>8. ASSUME NEW i \in Good, TakeOff(i) PROVE PricesInv'
    BY <2>8, TakeOffStep
  <2>. QED  BY <2>1, <2>2, <2>3, <2>4, <2>5, <2>6, <2>7, <2>8 DEF PricesNext
<1>. QED  BY <1>1, PricesStart, PTL DEF PricesSpec

-----------------------------------------------------------------------------
(***************************************************************************)
(* The sessions.                                                           *)
(***************************************************************************)
InForce(s) == stored[s].status = "ACTIVE"
Entering(t) == call[t].op \in {"enter", "enter to change"}

\* A login or a refresh that will put the session into the cookie.
Carries(t, s) == (Refreshing(t) \/ Entering(t)) /\ call[t].session = s

\* What a request carries, by its operation.
CallOK(t) ==
    /\ DOMAIN call[t] = {"op", "session", "with"}
    /\ call[t].session \in Session \cup {Nothing}
    /\ call[t].op \in {"rotate", "rotated", "verified", "change"} => call[t].session \in Session
    /\ call[t].op \in {"verified", "change"} => tab[t].page = "password"
    /\ Entering(t) => call[t].with \in 0..person.password
    /\ call[t].op = "confirm" => call[t].with \in authenticator.app

TabOK(t) ==
    /\ DOMAIN tab[t] = {"browser", "page", "access"}
    /\ tab[t].browser \in Browser
    /\ tab[t].access \in Session \cup {Nothing, Stale}
    /\ tab[t].access \in Session => stored[tab[t].access].status # "NONE"

ShapesOK ==
    /\ SessionsTypeOK
    /\ DOMAIN cookie = Browser /\ DOMAIN tab = Tab /\ DOMAIN call = Tab
    /\ \A b \in Browser : DOMAIN cookie[b] = {"session", "turn"}
    /\ \A t \in Tab : CallOK(t) /\ TabOK(t)
    /\ DOMAIN authenticator = {"key", "pending", "generated", "app"}
    /\ excused \subseteq Session
    /\ KeyIsInTheApp

\* Whoever is suspended has no session, but for a login under way before.
NoneWhileSuspended ==
    person.status # "ACTIVE" => \A s \in Session \ excused : ~InForce(s)

\* Every session is of the present password, or the last change of the password
\* is still to revoke the others.
Current(s) == InForce(s) /\ s \notin excused => stored[s].password = person.password
ChangeIsPending ==
    \/ \A s \in Session : Current(s)
    \/ \E t \in Tab : call[t].op = "change" /\ Current(call[t].session)

\* Who is on the way to the application need not change the password.
Admissible(s) == s \in Session \ excused /\ InForce(s) => ~person.mustChange
WelcomeAhead ==
    \A t \in Tab :
       /\ tab[t].page = "home" \/ call[t].op = "change" => Admissible(tab[t].access)
       /\ call[t].op = "enter" =>
             /\ call[t].with = person.password => ~person.mustChange
             /\ Admissible(call[t].session)

PasswordsInv == NoneWhileSuspended /\ ChangeIsPending /\ WelcomeAhead

\* A session is of one browser.
Held(b, s) == cookie[b].session = s \/ \E t \in Tab : BrowserOf(t) = b /\ Carries(t, s)
OneBrowser ==
    \A s \in Session, b \in Browser : Held(b, s) =>
       stored[s].status # "NONE" /\ \A c \in Browser : Held(c, s) => c = b

\* The session of a login that is not yet answered is known to nobody else.
EntriesAreNew ==
    \A s \in Session, t \in Tab : Entering(t) /\ call[t].session = s =>
       /\ stored[s].turn = 0
       /\ \A b \in Browser : cookie[b].session # s
       /\ \A u \in Tab \ {t} : ~Carries(u, s)

\* The token in the cookie of a browser, or in its one refresh, is the present one.
Present(s, n) == s \in Session /\ InForce(s) => stored[s].turn = n

SettledIn(b) ==
    /\ \A t, u \in Tab :
          BrowserOf(t) = b /\ BrowserOf(u) = b /\ Refreshing(t) /\ Refreshing(u) => t = u
    /\ (\A t \in Tab : BrowserOf(t) = b => ~Refreshing(t))
          => Present(cookie[b].session, cookie[b].turn)
    /\ \A t \in Tab : BrowserOf(t) = b =>
          /\ call[t].op \in {"refresh", "rotate"} =>
                \/ cookie[b].session = Nothing
                \/ /\ cookie[b].session = call[t].session /\ cookie[b].turn = call[t].with
                   /\ Present(call[t].session, call[t].with)
          /\ call[t].op = "rotated" => Present(call[t].session, call[t].with)

SettledIsCurrent == \A b \in Browser \ unsettled : SettledIn(b)

CookiesInv == OneBrowser /\ EntriesAreNew /\ SettledIsCurrent

SessionsInv == ShapesOK /\ PasswordsInv /\ CookiesInv

LEMMA SessionsStart == ASSUME SessionsInit PROVE SessionsInv
<1> USE SessionsAssumption
<1>1. /\ person \in [status : {"ACTIVE", "INACTIVE"}, password : 0..Passwords,
                     mustChange : BOOLEAN]
      /\ person.status = "ACTIVE" /\ person.password = 0
  BY DEF SessionsInit
<1>2. \A s \in Session : stored[s].status = "NONE" /\ stored[s].turn = 0
  BY DEF SessionsInit, Unopened, Ended
<1>3. stored \in [Session -> [status : {"NONE", "ACTIVE", "REVOKED", "EXPIRED"},
                               turn : 0..Turns, over : BOOLEAN, password : 0..Passwords]]
  BY DEF SessionsInit, Unopened, Ended
<1>4. /\ DOMAIN cookie = Browser /\ DOMAIN tab = Tab /\ DOMAIN call = Tab
      /\ \A b \in Browser : cookie[b] = NoCookie
      /\ \A t \in Tab : call[t] = Quiet
  BY DEF SessionsInit
<1>5. \A t \in Tab : /\ DOMAIN tab[t] = {"browser", "page", "access"}
                     /\ tab[t].browser \in Browser /\ tab[t].page = "login"
                     /\ tab[t].access = Nothing
  BY DEF SessionsInit
<1>6. /\ authenticator = [key |-> Nothing, pending |-> Nothing, generated |-> {}, app |-> {}]
      /\ excused = {} /\ unsettled = {}
  BY DEF SessionsInit
<1>7. \A b \in Browser : /\ DOMAIN cookie[b] = {"session", "turn"}
                         /\ cookie[b].session = Nothing
  BY <1>4 DEF NoCookie
<1>8. \A t \in Tab : /\ DOMAIN call[t] = {"op", "session", "with"}
                     /\ call[t].op = "none" /\ call[t].session = Nothing
  BY <1>4 DEF Quiet
<1>9. SessionsTypeOK
  BY <1>1, <1>3, <1>5, <1>6, <1>7 DEF SessionsTypeOK
<1>10. \A t \in Tab : CallOK(t) /\ TabOK(t)
  BY <1>5, <1>8 DEF CallOK, TabOK, Entering
<1>11. ShapesOK
  BY <1>4, <1>6, <1>7, <1>9, <1>10 DEF ShapesOK, KeyIsInTheApp
<1>12. PasswordsInv
  BY <1>1, <1>2, <1>5, <1>8
     DEF PasswordsInv, NoneWhileSuspended, ChangeIsPending, Current, WelcomeAhead, InForce
<1>13. CookiesInv
  BY <1>2, <1>7, <1>8
     DEF CookiesInv, OneBrowser, Held, EntriesAreNew, SettledIsCurrent, SettledIn, Carries, Refreshing, Entering,
         Present
<1>. QED  BY <1>11, <1>12, <1>13 DEF SessionsInv

\* The invariant is what it was made for.
LEMMA SessionsInvImplies == ASSUME SessionsInv PROVE SessionsAreSound
<1> USE SessionsAssumption
<1>1. OldSessionsStayClosed
  <2>1. ASSUME NEW s \in Session \ excused, InForce(s)
        PROVE  /\ \/ stored[s].password = person.password
                  \/ \E t \in Tab : call[t].op = "change"
               /\ person.status = "ACTIVE"
    BY <2>1 DEF SessionsInv, PasswordsInv, NoneWhileSuspended, ChangeIsPending, Current
  <2>. QED  BY <2>1 DEF OldSessionsStayClosed, InForce
<1>2. CookieIsCurrent
  <2>1. ASSUME NEW b \in Browser \ unsettled, cookie[b].session # Nothing,
               Live(cookie[b].session), ~\E t \in Tab : BrowserOf(t) = b /\ Refreshing(t)
        PROVE  stored[cookie[b].session].turn = cookie[b].turn
    <3>1. cookie[b].session \in Session
      BY <2>1 DEF SessionsInv, ShapesOK, SessionsTypeOK
    <3>2. Present(cookie[b].session, cookie[b].turn)
      BY <2>1 DEF SessionsInv, CookiesInv, SettledIsCurrent, SettledIn
    <3>. QED  BY <2>1, <3>1, <3>2 DEF Present, Live, InForce
  <2>. QED  BY <2>1 DEF CookieIsCurrent
<1>3. HomeIsWelcome
  BY DEF HomeIsWelcome, SessionsInv, PasswordsInv, WelcomeAhead, Admissible, Admitted, Welcome,
     Live, InForce
<1>4. KeyIsInTheApp
  BY DEF SessionsInv, ShapesOK
<1>. QED  BY <1>1, <1>2, <1>3, <1>4 DEF SessionsAreSound

\* What a step may do to the rows of sessions without opening one: what becomes of
\* their tokens, and of the passwords they were opened with.
Ages ==
    \A s \in Session :
       /\ stored'[s].status = "ACTIVE" =>
             stored[s].status = "ACTIVE" /\ stored'[s].turn = stored[s].turn
       /\ stored'[s].turn \in {stored[s].turn, 0}
       /\ stored[s].status # "NONE" => stored'[s].status # "NONE"

Fades ==
    /\ Ages
    /\ \A s \in Session :
          stored'[s].status = "ACTIVE" => stored'[s].password = stored[s].password

\* A step that leaves the user row alone lets nobody in who must change the
\* password, if nobody comes to be let in by it who should not.
LEMMA WelcomeRest ==
    ASSUME ShapesOK, PasswordsInv, ChangeIsPending', UNCHANGED person, excused \subseteq excused',
           \A s \in Session : stored'[s].status = "ACTIVE" => InForce(s),
           \A t \in Tab :
              /\ call'[t].op = "enter" =>
                    \/ call[t].op = "enter" /\ call'[t] = call[t]
                    \/ ~person.mustChange
              /\ tab'[t].page = "home" \/ call'[t].op = "change" =>
                    \/ /\ tab'[t].access = tab[t].access
                       /\ tab[t].page = "home" \/ call[t].op = "change"
                    \/ Admissible(tab'[t].access)
    PROVE  PasswordsInv'
<1>1. NoneWhileSuspended'
  BY DEF PasswordsInv, NoneWhileSuspended, InForce
<1>2. WelcomeAhead'
  <2>1. ASSUME NEW t \in Tab, tab'[t].page = "home" \/ call'[t].op = "change"
        PROVE  Admissible(tab[t].access)'
    <3>1. Admissible(tab'[t].access)
      BY <2>1 DEF PasswordsInv, WelcomeAhead
    <3>2. tab'[t].access \in Session \ excused' /\ InForce(tab[t].access)' =>
             tab'[t].access \in Session \ excused /\ InForce(tab'[t].access)
      BY DEF InForce
    <3>. QED  BY <3>1, <3>2 DEF Admissible
  <2>2. ASSUME NEW t \in Tab, call'[t].op = "enter"
        PROVE  /\ call'[t].with = person'.password => ~person'.mustChange
               /\ Admissible(call[t].session)'
    <3>1. CASE call[t].op = "enter" /\ call'[t] = call[t]
      <4>1. /\ call[t].with = person.password => ~person.mustChange
            /\ Admissible(call[t].session)
        BY <3>1 DEF PasswordsInv, WelcomeAhead
      <4>2. InForce(call[t].session)' /\ call[t].session \in Session => InForce(call[t].session)
        BY <3>1 DEF InForce
      <4>. QED  BY <3>1, <4>1, <4>2 DEF Admissible
    <3>2. CASE ~person.mustChange
      BY <3>2 DEF Admissible
    <3>. QED  BY <2>2, <3>1, <3>2
  <2>. QED  BY <2>1, <2>2 DEF WelcomeAhead
<1>. QED  BY <1>1, <1>2 DEF PasswordsInv

\* So it keeps all that is said about passwords, if no change of it ends.
LEMMA PasswordsRest ==
    ASSUME ShapesOK, PasswordsInv, UNCHANGED person, excused \subseteq excused',
           \A s \in Session : stored'[s].status = "ACTIVE" =>
              InForce(s) /\ stored'[s].password = stored[s].password,
           \A t \in Tab :
              /\ call'[t].op = "change" <=> call[t].op = "change"
              /\ call[t].op = "change" => call'[t].session = call[t].session
              /\ call'[t].op = "enter" =>
                    \/ call[t].op = "enter" /\ call'[t] = call[t]
                    \/ ~person.mustChange
              /\ tab'[t].page = "home" \/ call'[t].op = "change" =>
                    \/ /\ tab'[t].access = tab[t].access
                       /\ tab[t].page = "home" \/ call[t].op = "change"
                    \/ Admissible(tab'[t].access)
    PROVE  PasswordsInv'
<1>1. \A s \in Session : Current(s) => Current(s)'
  BY DEF Current, InForce
<1>2. ChangeIsPending'
  <2>1. CASE \A s \in Session : Current(s)
    BY <1>1, <2>1 DEF ChangeIsPending
  <2>2. CASE \E t \in Tab : call[t].op = "change" /\ Current(call[t].session)
    <3>1. PICK t \in Tab : call[t].op = "change" /\ Current(call[t].session)
      BY <2>2
    <3>2. call'[t].op = "change" /\ call'[t].session = call[t].session
      BY <3>1
    <3>3. call[t].session \in Session
      BY <3>1 DEF ShapesOK, CallOK
    <3>4. Current(call[t].session)'
      BY <1>1, <3>1, <3>3
    <3>. QED  BY <3>2, <3>4 DEF ChangeIsPending
  <2>. QED  BY <2>1, <2>2 DEF PasswordsInv, ChangeIsPending
<1>. QED  BY <1>2, WelcomeRest

\* A step that opens no session and answers no refresh keeps the cookies and
\* tokens together.
LEMMA CookiesRest ==
    ASSUME CookiesInv, Ages, unsettled' = unsettled,
           \A b \in Browser : cookie'[b] \in {cookie[b], NoCookie},
           \A t \in Tab :
              /\ tab'[t].browser = tab[t].browser
              /\ \/ call'[t] = call[t]
                 \/ /\ ~Refreshing(t) /\ ~Refreshing(t)'
                    /\ call'[t].session = Nothing \/ ~Entering(t)'
    PROVE  CookiesInv'
<1> USE SessionsAssumption
<1>1. \A t \in Tab : BrowserOf(t)' = BrowserOf(t)
  BY DEF BrowserOf
<1>2. \A t \in Tab : Refreshing(t)' <=> Refreshing(t)
  BY DEF Refreshing
<1>3. \A t \in Tab : Refreshing(t) => call'[t] = call[t]
  OBVIOUS
<1>4. \A t \in Tab, s \in Session : Carries(t, s)' => Carries(t, s) /\ call'[t] = call[t]
  BY DEF Carries, Refreshing, Entering
<1>5. \A b \in Browser, s \in Session : cookie'[b].session = s =>
         cookie'[b] = cookie[b] /\ cookie[b].session = s
  BY DEF NoCookie
<1>6. OneBrowser'
  <2>1. ASSUME NEW s \in Session, NEW b \in Browser, Held(b, s)' PROVE Held(b, s)
    BY <1>1, <1>4, <1>5, <2>1 DEF Held
  <2>. QED  BY <2>1 DEF CookiesInv, OneBrowser, Ages
<1>7. EntriesAreNew'
  <2>1. ASSUME NEW s \in Session, NEW t \in Tab, Entering(t)', call'[t].session = s
        PROVE  /\ stored'[s].turn = 0
               /\ \A b \in Browser : cookie'[b].session # s
               /\ \A u \in Tab \ {t} : ~Carries(u, s)'
    <3>1. Entering(t) /\ call[t].session = s
      <4>1. Carries(t, s)'
        BY <2>1 DEF Carries
      <4>2. call'[t] = call[t]
        BY <1>4, <4>1
      <4>. QED  BY <2>1, <4>2 DEF Entering
    <3>2. /\ stored[s].turn = 0
          /\ \A b \in Browser : cookie[b].session # s
          /\ \A u \in Tab \ {t} : ~Carries(u, s)
      BY <3>1 DEF CookiesInv, EntriesAreNew
    <3>3. stored'[s].turn = 0
      BY <3>2 DEF Ages
    <3>. QED  BY <1>4, <1>5, <3>2, <3>3
  <2>. QED  BY <2>1 DEF EntriesAreNew
<1>9. SettledIsCurrent'
  <2>1. ASSUME NEW b \in Browser \ unsettled', NEW t \in Tab, NEW u \in Tab, BrowserOf(t)' = b,
               BrowserOf(u)' = b, Refreshing(t)', Refreshing(u)'
        PROVE  t = u
    BY <1>1, <1>2, <2>1 DEF CookiesInv, SettledIsCurrent, SettledIn
  <2>2. ASSUME NEW b \in Browser \ unsettled',
               \A t \in Tab : BrowserOf(t)' = b => ~Refreshing(t)'
        PROVE  Present(cookie[b].session, cookie[b].turn)'
    <3>1. Present(cookie[b].session, cookie[b].turn)
      BY <1>1, <1>2, <2>2 DEF CookiesInv, SettledIsCurrent, SettledIn
    <3>2. CASE cookie'[b] = cookie[b]
      BY <3>1, <3>2 DEF Present, InForce, Ages
    <3>3. CASE cookie'[b] = NoCookie
      BY <3>3 DEF Present, NoCookie
    <3>. QED  BY <3>2, <3>3
  <2>3. ASSUME NEW b \in Browser \ unsettled', NEW t \in Tab, BrowserOf(t)' = b,
               call'[t].op \in {"refresh", "rotate"}
        PROVE  \/ cookie'[b].session = Nothing
               \/ /\ cookie'[b].session = call'[t].session /\ cookie'[b].turn = call'[t].with
                  /\ Present(call[t].session, call[t].with)'
    <3>1. call'[t] = call[t] /\ call[t].op \in {"refresh", "rotate"} /\ BrowserOf(t) = b
      BY <1>1, <2>3 DEF Refreshing
    <3>2. \/ cookie[b].session = Nothing
          \/ /\ cookie[b].session = call[t].session /\ cookie[b].turn = call[t].with
             /\ Present(call[t].session, call[t].with)
      BY <3>1 DEF CookiesInv, SettledIsCurrent, SettledIn
    <3>3. CASE cookie'[b] = cookie[b]
      BY <3>1, <3>2, <3>3 DEF Present, InForce, Ages
    <3>4. CASE cookie'[b] = NoCookie
      BY <3>4 DEF NoCookie
    <3>. QED  BY <3>3, <3>4
  <2>4. ASSUME NEW b \in Browser \ unsettled', NEW t \in Tab, BrowserOf(t)' = b,
               call'[t].op = "rotated"
        PROVE  Present(call[t].session, call[t].with)'
    <3>1. call'[t] = call[t] /\ BrowserOf(t) = b
      BY <1>1, <2>4 DEF Refreshing
    <3>2. Present(call[t].session, call[t].with)
      BY <2>4, <3>1 DEF CookiesInv, SettledIsCurrent, SettledIn
    <3>. QED  BY <3>1, <3>2 DEF Present, InForce, Ages
  <2>. QED  BY <2>1, <2>2, <2>3, <2>4 DEF SettledIsCurrent, SettledIn
<1>. QED  BY <1>6, <1>7, <1>9 DEF CookiesInv

SessionRow == [status : {"NONE", "ACTIVE", "REVOKED", "EXPIRED"}, turn : 0..Turns, over : BOOLEAN,
          password : 0..Passwords]
People == [status : {"ACTIVE", "INACTIVE"}, password : 0..Passwords, mustChange : BOOLEAN]

PageFits(t) ==
    /\ tab[t].page \in {"loading", "login", "home", "password"}
    /\ tab[t].page \in {"home", "password"} <=>
          tab[t].access # Nothing /\ tab[t].page # "loading"

\* What the shapes say of one tab.
LEMMA TabShape ==
    ASSUME ShapesOK, NEW t \in Tab
    PROVE  /\ PageFits(t) /\ CallOK(t) /\ TabOK(t)
           /\ BrowserOf(t) \in Browser
  BY DEF ShapesOK, SessionsTypeOK, PageFits, TabOK, BrowserOf

LEMMA RowShape ==
    ASSUME ShapesOK
    PROVE  /\ person \in People /\ person.password >= person.password
           /\ stored \in [Session -> SessionRow]
           /\ DOMAIN cookie = Browser /\ DOMAIN tab = Tab /\ DOMAIN call = Tab
           /\ \A b \in Browser : /\ DOMAIN cookie[b] = {"session", "turn"}
                                 /\ cookie[b].session \in Session \cup {Nothing}
           /\ DOMAIN authenticator = {"key", "pending", "generated", "app"}
           /\ authenticator.app \subseteq authenticator.generated
           /\ excused \subseteq Session /\ KeyIsInTheApp
<1>1. person \in People /\ Passwords \in Nat
  BY SessionsAssumption DEF ShapesOK, SessionsTypeOK, People
<1>2. person.password >= person.password
  BY <1>1 DEF People
<1>. QED  BY <1>1, <1>2 DEF ShapesOK, SessionsTypeOK, SessionRow

LEMMA PasswordShape ==
    ASSUME ShapesOK
    PROVE  person.password \in Nat /\ person.password \in 0..person.password
<1>1. person \in People /\ Passwords \in Nat
  BY SessionsAssumption, RowShape
<1>2. person.password \in Nat
  BY <1>1 DEF People
<1>3. person.password \in 0..person.password
  BY <1>2
<1>. QED  BY <1>2, <1>3

LEMMA AnotherPassword ==
    ASSUME ShapesOK, person.password < Passwords, NEW told \in BOOLEAN,
           person' = [person EXCEPT !.password = @ + 1, !.mustChange = told]
    PROVE  /\ person' \in People /\ person'.password = person.password + 1
           /\ person'.status = person.status /\ person'.mustChange = told
           /\ person'.password \in 0..Passwords /\ person'.password >= person.password
<1>1. person \in People /\ Passwords \in Nat /\ person.password \in Nat
  BY SessionsAssumption, RowShape, PasswordShape
<1>2. PICK n : n = person.password + 1
  OBVIOUS
<1>3. n \in 0..Passwords /\ n >= person.password
  BY <1>1, <1>2
<1>4. person' = [person EXCEPT !.password = n, !.mustChange = told]
  BY <1>1, <1>2 DEF People
<1>5. person' \in People /\ person'.password = n
  BY <1>1, <1>3, <1>4 DEF People
<1>6. person'.status = person.status /\ person'.mustChange = told
  BY <1>1, <1>4 DEF People
<1>. QED  BY <1>2, <1>3, <1>5, <1>6

\* A step moves the tabs of M at most.
LEMMA SomeTabsMove ==
    ASSUME ShapesOK, NEW M \in SUBSET Tab,
           person' \in People, person'.password >= person.password,
           stored' \in [Session -> SessionRow],
           \A s \in Session : stored[s].status # "NONE" => stored'[s].status # "NONE",
           DOMAIN cookie' = Browser,
           \A b \in Browser : /\ DOMAIN cookie'[b] = {"session", "turn"}
                              /\ cookie'[b].session \in Session \cup {Nothing},
           DOMAIN tab' = Tab, DOMAIN call' = Tab,
           \A t \in Tab \ M : tab'[t] = tab[t] /\ call'[t] = call[t],
           \A t \in M : PageFits(t)' /\ CallOK(t)' /\ TabOK(t)',
           DOMAIN authenticator' = {"key", "pending", "generated", "app"},
           authenticator.app \subseteq authenticator'.app,
           authenticator'.app \subseteq authenticator'.generated,
           excused' \subseteq Session, KeyIsInTheApp'
    PROVE  ShapesOK'
<1>1. ASSUME NEW t \in Tab PROVE PageFits(t)' /\ CallOK(t)' /\ TabOK(t)'
  <2>1. CASE t \in M
    BY <2>1
  <2>2. CASE t \notin M
    <3>1. tab'[t] = tab[t] /\ call'[t] = call[t] /\ CallOK(t) /\ TabOK(t) /\ PageFits(t)
      BY <2>2 DEF ShapesOK, SessionsTypeOK, PageFits
    <3>2. PageFits(t)'
      BY <3>1 DEF PageFits
    <3>3. CallOK(t)'
      <4>1. /\ person.password \in Nat /\ person'.password \in Nat
            /\ person.password <= person'.password
        BY SessionsAssumption, RowShape DEF People
      <4>2. 0..person.password \subseteq 0..person'.password
        BY <4>1
      <4>. QED  BY <3>1, <4>2 DEF CallOK, Entering
    <3>4. TabOK(t)'
      BY <3>1 DEF TabOK
    <3>. QED  BY <3>2, <3>3, <3>4
  <2>. QED  BY <2>1, <2>2
<1>2. SessionsTypeOK'
  BY <1>1 DEF SessionsTypeOK, PageFits, SessionRow, People
<1>. QED  BY <1>1, <1>2 DEF ShapesOK

\* A tab that is turned away, or shows another page.
LEMMA Shows ==
    ASSUME ShapesOK, NEW t \in Tab, NEW p, NEW s
    PROVE  /\ DOMAIN Showing(t, p, s) = Tab
           /\ Showing(t, p, s)[t].browser = tab[t].browser
           /\ Showing(t, p, s)[t].page = p /\ Showing(t, p, s)[t].access = s
           /\ DOMAIN Showing(t, p, s)[t] = {"browser", "page", "access"}
           /\ \A u \in Tab \ {t} : Showing(t, p, s)[u] = tab[u]
<1>1. DOMAIN tab = Tab /\ DOMAIN tab[t] = {"browser", "page", "access"}
  BY DEF ShapesOK, TabOK
<1>. QED  BY <1>1 DEF Showing

LEMMA RevocationFades ==
    ASSUME ShapesOK, NEW keep,
           stored' = RevokedAll(keep) \/ \E s \in Session : stored' = Revoked(s)
    PROVE  Fades /\ stored' \in [Session -> SessionRow]
<1>1. stored \in [Session -> SessionRow]
  BY RowShape
<1>2. ASSUME NEW s \in Session PROVE stored'[s] \in {stored[s], Ended("REVOKED")}
  BY <1>1 DEF RevokedAll, Revoked
<1>3. DOMAIN stored' = Session /\ stored' = [s \in Session |-> stored'[s]]
  BY <1>1 DEF RevokedAll, Revoked
<1>4. Ended("REVOKED") \in SessionRow
  BY SessionsAssumption DEF Ended, SessionRow
<1>5. stored' \in [Session -> SessionRow]
  BY <1>1, <1>2, <1>3, <1>4
<1>6. Ended("REVOKED").status = "REVOKED" /\ Ended("REVOKED").turn = 0
  BY DEF Ended
<1>. QED  BY <1>2, <1>5, <1>6 DEF Fades, Ages

LEMMA OneTabMoves ==
    ASSUME ShapesOK, NEW t \in Tab,
           UNCHANGED <<person, stored, cookie, authenticator, excused>>,
           DOMAIN tab' = Tab, DOMAIN call' = Tab,
           \A u \in Tab \ {t} : tab'[u] = tab[u] /\ call'[u] = call[u],
           PageFits(t)', CallOK(t)', TabOK(t)'
    PROVE  ShapesOK'
<1>1. \A u \in {t} : PageFits(u)' /\ CallOK(u)' /\ TabOK(u)'
  OBVIOUS
<1>2. KeyIsInTheApp'
  BY RowShape DEF KeyIsInTheApp
<1>3. {t} \in SUBSET Tab
  OBVIOUS
<1> DEFINE M == {t}
<1> HIDE DEF M
<1>. QED  BY <1>1, <1>2, <1>3, RowShape, SomeTabsMove DEF M

LEMMA BootstrapStep ==
    ASSUME SessionsInv, NEW t \in Tab, Bootstrap(t)
    PROVE  SessionsInv'
<1> USE SessionsAssumption DEF SessionsInv
<1>1. PICK p, s : /\ tab' = Showing(t, p, s)
                  /\ \/ /\ Admitted(t) /\ s = tab[t].access
                        /\ p = IF person.mustChange THEN "password" ELSE "home"
                     \/ p = "login" /\ s = Nothing
  BY DEF Bootstrap, SignedOut
<1>2. /\ call[t].op = "none" /\ tab[t].access # Nothing
      /\ UNCHANGED <<person, stored, cookie, call, authenticator, excused, unsettled>>
  BY DEF Bootstrap
<1>3. PageFits(t) /\ CallOK(t) /\ TabOK(t)
  BY TabShape
<1>4. /\ DOMAIN tab' = Tab /\ tab'[t].browser = tab[t].browser /\ tab'[t].page = p
      /\ tab'[t].access = s /\ DOMAIN tab'[t] = {"browser", "page", "access"}
      /\ \A u \in Tab \ {t} : tab'[u] = tab[u]
  BY <1>1, Shows
<1>5. ShapesOK'
  <2>1. PageFits(t)' /\ CallOK(t)' /\ TabOK(t)'
    BY <1>1, <1>2, <1>3, <1>4 DEF PageFits, CallOK, TabOK, Entering, Admitted
  <2>. QED  BY <1>2, <1>4, <2>1, RowShape, OneTabMoves
<1>6. PasswordsInv'
  <2>1. p = "home" => Admissible(s)
    BY <1>1 DEF Admissible
  <2>. QED  BY <1>2, <1>4, <2>1, PasswordsRest DEF InForce
<1>7. CookiesInv'
  BY <1>2, <1>4, CookiesRest DEF Fades, Ages
<1>. QED  BY <1>5, <1>6, <1>7

LEMMA VisitPasswordStep ==
    ASSUME SessionsInv, NEW t \in Tab, VisitPassword(t)
    PROVE  SessionsInv'
<1> USE SessionsAssumption DEF SessionsInv
<1>1. /\ call[t].op = "none" /\ tab[t].page = "home"
      /\ tab' = [tab EXCEPT ![t].page = "password"]
      /\ UNCHANGED <<person, stored, cookie, call, authenticator, excused, unsettled>>
  BY DEF VisitPassword
<1>2. PageFits(t) /\ CallOK(t) /\ TabOK(t) /\ DOMAIN tab = Tab
  BY TabShape, RowShape
<1>3. /\ DOMAIN tab' = Tab /\ tab'[t].browser = tab[t].browser /\ tab'[t].page = "password"
      /\ tab'[t].access = tab[t].access /\ DOMAIN tab'[t] = {"browser", "page", "access"}
      /\ \A u \in Tab \ {t} : tab'[u] = tab[u]
  BY <1>1, <1>2 DEF TabOK
<1>4. ShapesOK'
  <2>1. PageFits(t)' /\ CallOK(t)' /\ TabOK(t)'
    BY <1>1, <1>2, <1>3 DEF PageFits, CallOK, TabOK, Entering
  <2>. QED  BY <1>1, <1>3, <2>1, RowShape, OneTabMoves
<1>5. PasswordsInv'
  BY <1>1, <1>3, PasswordsRest DEF InForce
<1>6. CookiesInv'
  BY <1>1, <1>3, CookiesRest DEF Fades, Ages
<1>. QED  BY <1>4, <1>5, <1>6

LEMMA SignInStep ==
    ASSUME SessionsInv, NEW t \in Tab, SignIn(t)
    PROVE  SessionsInv'
<1> USE SessionsAssumption DEF SessionsInv
<1>1. PICK op \in {"enter", "enter to change"} :
         /\ call[t].op = "none" /\ (op = "enter" => ~person.mustChange)
         /\ call' = [call EXCEPT ![t] = Asking(op, Nothing, person.password)]
         /\ UNCHANGED <<person, stored, cookie, tab, authenticator, excused, unsettled>>
  BY DEF SignIn
<1>2. PageFits(t) /\ CallOK(t) /\ TabOK(t) /\ DOMAIN call = Tab /\ person \in People
  BY TabShape, RowShape
<1>3. /\ DOMAIN call' = Tab /\ DOMAIN call'[t] = {"op", "session", "with"}
      /\ call'[t].op = op /\ call'[t].session = Nothing /\ call'[t].with = person.password
      /\ \A u \in Tab \ {t} : call'[u] = call[u]
  BY <1>1, <1>2 DEF Asking
<1>4. ShapesOK'
  <2>1. PageFits(t)' /\ TabOK(t)'
    BY <1>1, <1>2 DEF PageFits, TabOK
  <2>2. CallOK(t)'
    <3>1. person.password \in 0..person.password
      BY PasswordShape
    <3>2. person' = person
      BY <1>1
    <3>. QED  BY <1>1, <1>2, <1>3, <3>1, <3>2 DEF CallOK, Entering
  <2>. QED  BY <1>1, <1>3, <2>1, <2>2, RowShape, OneTabMoves
<1>5. PasswordsInv'
  BY <1>1, <1>3, PasswordsRest DEF InForce
<1>6. CookiesInv'
  BY <1>1, <1>3, CookiesRest DEF Fades, Ages, Refreshing
<1>. QED  BY <1>4, <1>5, <1>6


\* A step by which a session ends, a cookie is dropped, or a tab signs out or
\* finds its access token too old, opens nothing.
LEMMA ClosingStep ==
    ASSUME SessionsInv, UNCHANGED <<person, call, authenticator, excused, unsettled>>,
           Fades, stored' \in [Session -> SessionRow],
           DOMAIN cookie' = Browser, \A b \in Browser : cookie'[b] \in {cookie[b], NoCookie},
           DOMAIN tab' = Tab,
           \A u \in Tab :
              \/ tab'[u] = tab[u]
              \/ /\ DOMAIN tab'[u] = {"browser", "page", "access"}
                 /\ tab'[u].browser = tab[u].browser
                 /\ \/ tab'[u].page = "login" /\ tab'[u].access = Nothing /\ call[u].op = "none"
                    \/ /\ tab'[u].page = tab[u].page /\ tab'[u].access = Stale
                       /\ tab[u].access # Nothing
    PROVE  SessionsInv'
<1> USE SessionsAssumption DEF SessionsInv
<1>1. ASSUME NEW u \in Tab PROVE PageFits(u)' /\ CallOK(u)' /\ TabOK(u)'
  <2>1. PageFits(u) /\ CallOK(u) /\ TabOK(u)
    BY TabShape
  <2>2. PageFits(u)'
    BY <2>1 DEF PageFits
  <2>3. CallOK(u)'
    BY <2>1 DEF CallOK, Entering
  <2>4. TabOK(u)'
    BY <2>1 DEF TabOK, Fades, Ages
  <2>. QED  BY <2>2, <2>3, <2>4
<1>2. ASSUME NEW b \in Browser
      PROVE  /\ DOMAIN cookie'[b] = {"session", "turn"}
             /\ cookie'[b].session \in Session \cup {Nothing}
  BY RowShape DEF NoCookie
<1>3. KeyIsInTheApp'
  BY RowShape DEF KeyIsInTheApp
<1>4. Tab \in SUBSET Tab
  OBVIOUS
<1>5. \A s \in Session : stored[s].status # "NONE" => stored'[s].status # "NONE"
  BY DEF Fades, Ages
<1>6. ShapesOK'
  <2> DEFINE M == Tab
  <2>1. M \in SUBSET Tab /\ \A u \in M : PageFits(u)' /\ CallOK(u)' /\ TabOK(u)'
    BY <1>1
  <2>2. \A u \in Tab \ M : tab'[u] = tab[u] /\ call'[u] = call[u]
    OBVIOUS
  <2> HIDE DEF M
  <2>. QED  BY <1>2, <1>3, <1>5, <2>1, <2>2, RowShape, SomeTabsMove
<1>7. PasswordsInv'
  <2>1. \A s \in Session : stored'[s].status = "ACTIVE" =>
              InForce(s) /\ stored'[s].password = stored[s].password
    BY DEF Fades, Ages, InForce
  <2>2. ASSUME NEW u \in Tab, tab'[u].page = "home" \/ call'[u].op = "change"
        PROVE  \/ /\ tab'[u].access = tab[u].access
                  /\ tab[u].page = "home" \/ call[u].op = "change"
               \/ Admissible(tab'[u].access)
    BY <2>2 DEF Admissible
  <2>. QED  BY <2>1, <2>2, PasswordsRest
<1>8. CookiesInv'
  BY CookiesRest DEF Fades
<1>. QED  BY <1>6, <1>7, <1>8

LEMMA LogOutStep ==
    ASSUME SessionsInv, NEW t \in Tab, LogOut(t)
    PROVE  SessionsInv'
<1> USE SessionsAssumption
<1>1. /\ call[t].op = "none" /\ tab' = Showing(t, "login", Nothing)
      /\ UNCHANGED <<person, call, authenticator, excused, unsettled>>
      /\ \/ /\ \E s \in Session : stored' = Revoked(s)
            /\ cookie' = [cookie EXCEPT ![BrowserOf(t)] = NoCookie]
         \/ UNCHANGED <<stored, cookie>>
  BY DEF LogOut, SignedOut, Admitted
<1>2. ShapesOK
  BY DEF SessionsInv
<1>3. Fades /\ stored' \in [Session -> SessionRow]
  <2>1. CASE \E s \in Session : stored' = Revoked(s)
    BY <1>2, <2>1, RevocationFades
  <2>2. CASE UNCHANGED stored
    BY <1>2, <2>2, RowShape DEF Fades, Ages
  <2>. QED  BY <1>1, <2>1, <2>2
<1>4. DOMAIN cookie' = Browser /\ \A b \in Browser : cookie'[b] \in {cookie[b], NoCookie}
  BY <1>1, <1>2, RowShape
<1>. QED  BY <1>1, <1>2, <1>3, <1>4, Shows, ClosingStep

LEMMA LogOutAllStep ==
    ASSUME SessionsInv, NEW t \in Tab, LogOutAll(t)
    PROVE  SessionsInv'
<1>1. /\ stored' = RevokedAll(tab[t].access)
      /\ cookie' = [cookie EXCEPT ![BrowserOf(t)] = NoCookie]
      /\ UNCHANGED <<person, tab, call, authenticator, excused, unsettled>>
  BY DEF LogOutAll
<1>2. ShapesOK
  BY DEF SessionsInv
<1>3. Fades /\ stored' \in [Session -> SessionRow]
  BY <1>1, <1>2, RevocationFades
<1>4. DOMAIN cookie' = Browser /\ \A b \in Browser : cookie'[b] \in {cookie[b], NoCookie}
  BY <1>1, <1>2, RowShape
<1>. QED  BY <1>1, <1>2, <1>3, <1>4, RowShape, ClosingStep

LEMMA RevokeSessionStep ==
    ASSUME SessionsInv, NEW t \in Tab, NEW s \in Session, RevokeSession(t, s)
    PROVE  SessionsInv'
<1>1. /\ stored' = Revoked(s)
      /\ UNCHANGED <<person, cookie, tab, call, authenticator, excused, unsettled>>
  BY DEF RevokeSession
<1>2. ShapesOK
  BY DEF SessionsInv
<1>3. Fades /\ stored' \in [Session -> SessionRow]
  BY <1>1, <1>2, RevocationFades
<1>. QED  BY <1>1, <1>2, <1>3, RowShape, ClosingStep

LEMMA DaysStep ==
    ASSUME SessionsInv, Days
    PROVE  SessionsInv'
<1> USE SessionsAssumption
<1>1. ShapesOK
  BY DEF SessionsInv
<1>2. ASSUME NEW t \in Tab, GoStale(t) PROVE SessionsInv'
  <2>1. /\ tab[t].access \in Session /\ tab' = [tab EXCEPT ![t].access = Stale]
        /\ UNCHANGED <<person, stored, cookie, call, authenticator, excused, unsettled>>
    BY <1>2 DEF GoStale
  <2>2. TabOK(t)
    BY <1>1, TabShape
  <2>3. /\ DOMAIN tab' = Tab /\ \A u \in Tab \ {t} : tab'[u] = tab[u]
        /\ DOMAIN tab'[t] = {"browser", "page", "access"} /\ tab'[t].page = tab[t].page
        /\ tab'[t].browser = tab[t].browser /\ tab'[t].access = Stale
    BY <1>1, <2>1, <2>2, RowShape DEF TabOK
  <2>4. Fades
    BY <2>1 DEF Fades, Ages
  <2>. QED  BY <1>1, <2>1, <2>3, <2>4, RowShape, ClosingStep
<1>3. ASSUME NEW s \in Session, RunOut(s) PROVE SessionsInv'
  <2>1. /\ Live(s) /\ stored' = [stored EXCEPT ![s].over = TRUE]
        /\ UNCHANGED <<person, cookie, tab, call, authenticator, excused, unsettled>>
    BY <1>3 DEF RunOut
  <2>2. stored \in [Session -> SessionRow]
    BY <1>1, RowShape
  <2>3. Fades /\ stored' \in [Session -> SessionRow]
    BY <2>1, <2>2 DEF Fades, Ages, SessionRow
  <2>. QED  BY <1>1, <2>1, <2>3, RowShape, ClosingStep
<1>4. ASSUME NEW b \in Browser, DropCookie(b) PROVE SessionsInv'
  <2>1. /\ cookie' = [cookie EXCEPT ![b] = NoCookie]
        /\ UNCHANGED <<person, stored, tab, call, authenticator, excused, unsettled>>
    BY <1>4 DEF DropCookie
  <2>2. Fades
    BY <2>1 DEF Fades, Ages
  <2>3. DOMAIN cookie' = Browser /\ \A c \in Browser : cookie'[c] \in {cookie[c], NoCookie}
    BY <1>1, <2>1, RowShape
  <2>. QED  BY <1>1, <2>1, <2>2, <2>3, RowShape, ClosingStep
<1>. QED  BY <1>2, <1>3, <1>4 DEF Days


\* A step about the authenticator, or one that only checks something.
LEMMA AsideStep ==
    ASSUME SessionsInv, NEW t \in Tab,
           UNCHANGED <<person, stored, cookie, tab, excused, unsettled>>,
           DOMAIN authenticator' = {"key", "pending", "generated", "app"},
           authenticator.app \subseteq authenticator'.app,
           authenticator'.app \subseteq authenticator'.generated, KeyIsInTheApp',
           DOMAIN call' = Tab, \A u \in Tab \ {t} : call'[u] = call[u], CallOK(t)',
           call[t].op \in {"none", "confirm", "disable"},
           call'[t].op \in {"none", "verified", "confirm", "disable"}
    PROVE  SessionsInv'
<1> USE SessionsAssumption DEF SessionsInv
<1>1. PageFits(t) /\ TabOK(t)
  BY TabShape
<1>2. PageFits(t)' /\ TabOK(t)'
  BY <1>1 DEF PageFits, TabOK
<1>3. ShapesOK'
  <2> DEFINE M == {t}
  <2>1. M \in SUBSET Tab /\ \A u \in M : PageFits(u)' /\ CallOK(u)' /\ TabOK(u)'
    BY <1>2
  <2>2. \A u \in Tab \ M : tab'[u] = tab[u] /\ call'[u] = call[u]
    OBVIOUS
  <2> HIDE DEF M
  <2>. QED  BY <2>1, <2>2, RowShape, SomeTabsMove
<1>4. PasswordsInv'
  BY PasswordsRest DEF InForce
<1>5. CookiesInv'
  BY CookiesRest DEF Fades, Ages, Refreshing, Entering
<1>. QED  BY <1>3, <1>4, <1>5

LEMMA CheckPasswordStep ==
    ASSUME SessionsInv, NEW t \in Tab, CheckPassword(t)
    PROVE  SessionsInv'
<1> USE SessionsAssumption
<1>1. /\ call[t].op = "none" /\ tab[t].page = "password" /\ tab[t].access \in Session
      /\ call' = [call EXCEPT ![t] = Asking("verified", tab[t].access, 0)]
      /\ UNCHANGED <<person, stored, cookie, tab, authenticator, excused, unsettled>>
  BY DEF CheckPassword, Admitted
<1>2. ShapesOK
  BY DEF SessionsInv
<1>3. /\ DOMAIN call' = Tab /\ \A u \in Tab \ {t} : call'[u] = call[u]
      /\ call'[t] = Asking("verified", tab[t].access, 0)
  BY <1>1, <1>2, RowShape
<1>4. CallOK(t)'
  BY <1>1, <1>3 DEF CallOK, Asking, Entering
<1>5. KeyIsInTheApp'
  BY <1>1, <1>2, RowShape DEF KeyIsInTheApp
<1>. QED  BY <1>1, <1>2, <1>3, <1>4, <1>5, RowShape, AsideStep DEF Asking

LEMMA KeysStep ==
    ASSUME SessionsInv, Keys
    PROVE  SessionsInv'
<1> USE SessionsAssumption
<1>1. PICK t \in Tab :
         CheckCode(t) \/ Confirm(t) \/ CheckLast(t) \/ Disable(t) \/ \E k \in AuthKey : SetUp(t, k)
  BY DEF Keys
<1>2. ShapesOK /\ CallOK(t)
  BY TabShape DEF SessionsInv
<1>3. CASE CheckCode(t)
  <2>1. /\ call[t].op = "none" /\ authenticator.pending \in authenticator.app
        /\ call' = [call EXCEPT ![t] = Asking("confirm", Nothing, authenticator.pending)]
        /\ UNCHANGED <<person, stored, cookie, tab, authenticator, excused, unsettled>>
    BY <1>3 DEF CheckCode
  <2>2. /\ DOMAIN call' = Tab /\ \A u \in Tab \ {t} : call'[u] = call[u]
        /\ call'[t] = Asking("confirm", Nothing, authenticator.pending)
    BY <1>2, <2>1, RowShape
  <2>3. CallOK(t)'
    BY <2>1, <2>2 DEF CallOK, Asking, Entering
  <2>4. KeyIsInTheApp'
    BY <1>2, <2>1, RowShape DEF KeyIsInTheApp
  <2>. QED  BY <1>2, <2>1, <2>2, <2>3, <2>4, RowShape, AsideStep DEF Asking
<1>4. CASE CheckLast(t)
  <2>1. /\ call[t].op = "none"
        /\ call' = [call EXCEPT ![t] = Asking("disable", Nothing, 0)]
        /\ UNCHANGED <<person, stored, cookie, tab, authenticator, excused, unsettled>>
    BY <1>4 DEF CheckLast
  <2>2. /\ DOMAIN call' = Tab /\ \A u \in Tab \ {t} : call'[u] = call[u]
        /\ call'[t] = Asking("disable", Nothing, 0)
    BY <1>2, <2>1, RowShape
  <2>3. CallOK(t)'
    BY <2>1, <2>2 DEF CallOK, Asking, Entering
  <2>4. KeyIsInTheApp'
    BY <1>2, <2>1, RowShape DEF KeyIsInTheApp
  <2>. QED  BY <1>2, <2>1, <2>2, <2>3, <2>4, RowShape, AsideStep DEF Asking
<1>5. CASE Confirm(t) \/ Disable(t)
  <2>1. PICK k : /\ k \in authenticator.app \cup {Nothing}
                 /\ authenticator' = [authenticator EXCEPT !.key = k, !.pending = Nothing]
    BY <1>2, <1>5 DEF Confirm, Confirmed, Disable, CallOK
  <2>2. /\ call[t].op \in {"confirm", "disable"} /\ call' = [call EXCEPT ![t] = Quiet]
        /\ UNCHANGED <<person, stored, cookie, tab, excused, unsettled>>
    BY <1>5 DEF Confirm, Disable
  <2>3. /\ DOMAIN call' = Tab /\ \A u \in Tab \ {t} : call'[u] = call[u]
        /\ call'[t] = Quiet
    BY <1>2, <2>2, RowShape
  <2>4. CallOK(t)'
    BY <2>3 DEF CallOK, Quiet, Entering
  <2>5. /\ DOMAIN authenticator' = {"key", "pending", "generated", "app"}
        /\ authenticator'.app = authenticator.app /\ authenticator'.key = k
        /\ authenticator'.generated = authenticator.generated
    BY <1>2, <2>1, RowShape
  <2>6. KeyIsInTheApp'
    BY <2>1, <2>5 DEF KeyIsInTheApp
  <2>. QED  BY <1>2, <2>2, <2>3, <2>4, <2>5, <2>6, RowShape, AsideStep DEF Quiet
<1>6. ASSUME NEW k \in AuthKey, SetUp(t, k) PROVE SessionsInv'
  <2>1. PICK seen \in {{}, {k}} :
           authenticator' = [authenticator EXCEPT !.pending = k, !.generated = @ \cup {k},
                                                  !.app = @ \cup seen]
    BY <1>6 DEF SetUp
  <2>2. /\ call[t].op = "none" /\ authenticator.key = Nothing
        /\ UNCHANGED <<person, stored, cookie, tab, call, excused, unsettled>>
    BY <1>6 DEF SetUp
  <2>3. /\ DOMAIN authenticator' = {"key", "pending", "generated", "app"}
        /\ authenticator'.app = authenticator.app \cup seen /\ authenticator'.key = Nothing
        /\ authenticator'.generated = authenticator.generated \cup {k}
    BY <1>2, <2>1, <2>2, RowShape
  <2>4. CallOK(t)'
    BY <1>2, <2>2 DEF CallOK, Entering
  <2>5. KeyIsInTheApp'
    BY <2>3 DEF KeyIsInTheApp
  <2>6. authenticator'.app \subseteq authenticator'.generated
    BY <1>2, <2>3, RowShape
  <2>. QED  BY <1>2, <2>2, <2>3, <2>4, <2>5, <2>6, RowShape, AsideStep
<1>. QED  BY <1>1, <1>3, <1>4, <1>5, <1>6


LEMMA RevokeOthersStep ==
    ASSUME SessionsInv, NEW t \in Tab, RevokeOthers(t)
    PROVE  SessionsInv'
<1> USE SessionsAssumption
<1>1. /\ call[t].op = "change" /\ stored' = RevokedAll(call[t].session)
      /\ call' = [call EXCEPT ![t] = Quiet] /\ tab' = [tab EXCEPT ![t].page = "home"]
      /\ UNCHANGED <<person, cookie, authenticator, excused, unsettled>>
  BY DEF RevokeOthers
<1>2. /\ ShapesOK /\ PasswordsInv /\ CookiesInv /\ stored \in [Session -> SessionRow]
      /\ PageFits(t) /\ CallOK(t) /\ TabOK(t)
  BY TabShape, RowShape DEF SessionsInv
<1>3. /\ DOMAIN call' = Tab /\ call'[t] = Quiet /\ \A u \in Tab \ {t} : call'[u] = call[u]
      /\ DOMAIN tab' = Tab /\ tab'[t].page = "home" /\ tab'[t].access = tab[t].access
      /\ tab'[t].browser = tab[t].browser /\ DOMAIN tab'[t] = {"browser", "page", "access"}
      /\ \A u \in Tab \ {t} : tab'[u] = tab[u]
  BY <1>1, <1>2, RowShape DEF TabOK
<1>4. Fades /\ stored' \in [Session -> SessionRow]
  BY <1>1, <1>2, RevocationFades
<1>5. ShapesOK'
  <2>1. tab[t].page = "password"
    BY <1>1, <1>2 DEF CallOK
  <2>2. PageFits(t)' /\ CallOK(t)' /\ TabOK(t)'
    <3>1. PageFits(t)'
      BY <1>2, <1>3, <2>1 DEF PageFits
    <3>2. CallOK(t)'
      BY <1>3 DEF CallOK, Entering, Quiet
    <3>3. TabOK(t)'
      BY <1>2, <1>3, <1>4 DEF TabOK, Fades, Ages
    <3>. QED  BY <3>1, <3>2, <3>3
  <2>3. KeyIsInTheApp'
    BY <1>1, <1>2, RowShape DEF KeyIsInTheApp
  <2> DEFINE M == {t}
  <2>4. M \in SUBSET Tab /\ \A u \in M : PageFits(u)' /\ CallOK(u)' /\ TabOK(u)'
    BY <2>2
  <2>5. \A u \in Tab \ M : tab'[u] = tab[u] /\ call'[u] = call[u]
    BY <1>3
  <2>6. \A s \in Session : stored[s].status # "NONE" => stored'[s].status # "NONE"
    BY <1>4 DEF Fades, Ages
  <2> HIDE DEF M
  <2>. QED  BY <1>1, <1>2, <1>3, <1>4, <2>3, <2>4, <2>5, <2>6, RowShape, SomeTabsMove
<1>6. PasswordsInv'
  <2>1. \A s \in Session : Current(s) => Current(s)'
    BY <1>1, <1>4 DEF Current, InForce, Fades, Ages
  <2>2. ChangeIsPending'
    <3>1. CASE \A s \in Session : Current(s)
      BY <2>1, <3>1 DEF ChangeIsPending
    <3>2. ASSUME NEW u \in Tab, call[u].op = "change", Current(call[u].session), u # t
          PROVE  ChangeIsPending'
      <4>1. call'[u] = call[u]
        BY <1>3, <3>2
      <4>2. call[u].session \in Session
        BY <1>2, <3>2 DEF ShapesOK, CallOK
      <4>3. Current(call[u].session)'
        BY <2>1, <3>2, <4>1, <4>2
      <4>. QED  BY <3>2, <4>1, <4>3 DEF ChangeIsPending
    <3>3. CASE Current(call[t].session)
      <4>1. ASSUME NEW s \in Session, InForce(s)' PROVE s = call[t].session
        BY <1>1, <1>2, <4>1 DEF InForce, RevokedAll, Ended
      <4>2. \A s \in Session : Current(s)'
        BY <2>1, <3>3, <4>1 DEF Current
      <4>. QED  BY <4>2 DEF ChangeIsPending
    <3>. QED  BY <1>2, <3>1, <3>2, <3>3 DEF PasswordsInv, ChangeIsPending
  <2>3. \A s \in Session : stored'[s].status = "ACTIVE" => InForce(s)
    BY <1>4 DEF Fades, Ages, InForce
  <2>4. ASSUME NEW u \in Tab
        PROVE  /\ call'[u].op = "enter" => call[u].op = "enter" /\ call'[u] = call[u]
               /\ tab'[u].page = "home" \/ call'[u].op = "change" =>
                    /\ tab'[u].access = tab[u].access
                    /\ tab[u].page = "home" \/ call[u].op = "change"
    BY <1>1, <1>3 DEF Quiet
  <2>. QED  BY <1>1, <1>2, <2>2, <2>3, <2>4, WelcomeRest
<1>7. CookiesInv'
  BY <1>1, <1>2, <1>3, <1>4, CookiesRest DEF Fades, Refreshing, Quiet
<1>. QED  BY <1>5, <1>6, <1>7 DEF SessionsInv

LEMMA ChangeCutOffStep ==
    ASSUME SessionsInv, NEW t \in Tab, ChangeCutOff(t)
    PROVE  SessionsInv'
<1> USE SessionsAssumption
<1>1. /\ call[t].op = "change" /\ call' = [call EXCEPT ![t] = Quiet]
      /\ excused' = excused \cup {s \in Session : stored[s].status = "ACTIVE"}
      /\ UNCHANGED <<person, stored, cookie, tab, authenticator, unsettled>>
  BY DEF ChangeCutOff
<1>2. /\ ShapesOK /\ PasswordsInv /\ CookiesInv
      /\ PageFits(t) /\ CallOK(t) /\ TabOK(t)
  BY TabShape DEF SessionsInv
<1>3. DOMAIN call' = Tab /\ call'[t] = Quiet /\ \A u \in Tab \ {t} : call'[u] = call[u]
  BY <1>1, <1>2, RowShape
<1>4. ShapesOK'
  <2>1. PageFits(t)' /\ CallOK(t)' /\ TabOK(t)'
    BY <1>1, <1>2, <1>3 DEF PageFits, CallOK, TabOK, Entering, Quiet
  <2>2. KeyIsInTheApp'
    BY <1>1, <1>2, RowShape DEF KeyIsInTheApp
  <2> DEFINE M == {t}
  <2>3. M \in SUBSET Tab /\ \A u \in M : PageFits(u)' /\ CallOK(u)' /\ TabOK(u)'
    BY <2>1
  <2>4. \A u \in Tab \ M : tab'[u] = tab[u] /\ call'[u] = call[u]
    BY <1>1, <1>3
  <2>5. excused' \subseteq Session
    BY <1>1, <1>2, RowShape
  <2> HIDE DEF M
  <2>. QED  BY <1>1, <1>2, <1>3, <2>2, <2>3, <2>4, <2>5, RowShape, SomeTabsMove
<1>5. PasswordsInv'
  <2>1. ChangeIsPending'
    BY <1>1 DEF ChangeIsPending, Current, InForce
  <2>2. \A s \in Session : stored'[s].status = "ACTIVE" => InForce(s)
    BY <1>1 DEF InForce
  <2>3. ASSUME NEW u \in Tab
        PROVE  /\ call'[u].op = "enter" => call[u].op = "enter" /\ call'[u] = call[u]
               /\ tab'[u].page = "home" \/ call'[u].op = "change" =>
                    /\ tab'[u].access = tab[u].access
                    /\ tab[u].page = "home" \/ call[u].op = "change"
    BY <1>1, <1>3 DEF Quiet
  <2>. QED  BY <1>1, <1>2, <2>1, <2>2, <2>3, WelcomeRest
<1>6. CookiesInv'
  BY <1>1, <1>2, <1>3, CookiesRest DEF Ages, Refreshing, Quiet
<1>. QED  BY <1>4, <1>5, <1>6 DEF SessionsInv


\* A step about the user row, in which no tab moves.
LEMMA RowChanges ==
    ASSUME SessionsInv, person' \in People, person'.password >= person.password,
           stored' \in [Session -> SessionRow], Ages, PasswordsInv',
           UNCHANGED <<cookie, tab, call, authenticator, excused, unsettled>>
    PROVE  SessionsInv'
<1>1. ShapesOK /\ CookiesInv
  BY DEF SessionsInv
<1>2. KeyIsInTheApp'
  BY <1>1, RowShape DEF KeyIsInTheApp
<1>3. ShapesOK'
  <2> DEFINE M == {}
  <2>1. M \in SUBSET Tab /\ \A u \in M : PageFits(u)' /\ CallOK(u)' /\ TabOK(u)'
    OBVIOUS
  <2>2. \A u \in Tab \ M : tab'[u] = tab[u] /\ call'[u] = call[u]
    OBVIOUS
  <2>3. \A s \in Session : stored[s].status # "NONE" => stored'[s].status # "NONE"
    BY DEF Ages
  <2> HIDE DEF M
  <2>. QED  BY <1>1, <1>2, <2>1, <2>2, <2>3, RowShape, SomeTabsMove
<1>4. CookiesInv'
  BY <1>1, CookiesRest
<1>. QED  BY <1>3, <1>4 DEF SessionsInv

LEMMA ResetPasswordStep ==
    ASSUME SessionsInv, ResetPassword
    PROVE  SessionsInv'
<1>1. /\ person.password < Passwords
      /\ person' = [person EXCEPT !.password = @ + 1, !.mustChange = TRUE]
      /\ stored' = RevokedAll(Nothing)
      /\ UNCHANGED <<cookie, tab, call, authenticator, excused, unsettled>>
  BY DEF ResetPassword
<1>2. /\ ShapesOK /\ PasswordsInv /\ person \in People /\ stored \in [Session -> SessionRow]
      /\ person.password \in Nat
  BY RowShape, PasswordShape DEF SessionsInv
<1>3. Ages /\ stored' \in [Session -> SessionRow]
  BY <1>1, <1>2, RevocationFades DEF Fades
<1>4. /\ person' \in People /\ person'.password = person.password + 1
      /\ person'.password >= person.password
  BY <1>1, <1>2, AnotherPassword
<1>5. \A s \in Session : ~InForce(s)'
  BY <1>1, <1>2, SessionsAssumption DEF InForce, RevokedAll, Ended
<1>6. PasswordsInv'
  <2>1. ASSUME NEW t \in Tab, Entering(t) PROVE call[t].with # person'.password
    <3>1. call[t].with \in 0..person.password
      BY <1>2, <2>1, TabShape DEF CallOK
    <3>. QED  BY <1>2, <1>4, <3>1
  <2>. QED  BY <1>1, <1>5, <2>1
            DEF PasswordsInv, NoneWhileSuspended, ChangeIsPending, Current, WelcomeAhead,
                Admissible, Entering, InForce
<1>. QED  BY <1>1, <1>2, <1>3, <1>4, <1>6, RowChanges

LEMMA SuspensionsStep ==
    ASSUME SessionsInv, Suspensions
    PROVE  SessionsInv'
<1>1. PICK standing \in {"ACTIVE", "INACTIVE"} :
         /\ person' = [person EXCEPT !.status = standing]
         /\ \/ standing = "INACTIVE" /\ stored' = RevokedAll(Nothing)
            \/ standing = "ACTIVE" /\ UNCHANGED stored
         /\ UNCHANGED <<cookie, tab, call, authenticator, excused, unsettled>>
  BY DEF Suspensions, Suspend, Unblock
<1>2. /\ ShapesOK /\ PasswordsInv /\ person \in People /\ stored \in [Session -> SessionRow]
      /\ person.password \in Nat
  BY RowShape, PasswordShape DEF SessionsInv
<1>3. Ages /\ stored' \in [Session -> SessionRow]
  <2>1. CASE stored' = RevokedAll(Nothing)
    BY <1>2, <2>1, RevocationFades DEF Fades
  <2>2. CASE UNCHANGED stored
    BY <1>2, <2>2 DEF Ages
  <2>. QED  BY <1>1, <2>1, <2>2
<1>4. /\ person' \in People /\ person'.password = person.password /\ person'.status = standing
      /\ person'.mustChange = person.mustChange
  BY <1>1, <1>2 DEF People
<1>5. PasswordsInv'
  <2>1. CASE \A s \in Session : ~InForce(s)'
    BY <1>1, <1>2, <1>4, <2>1
       DEF PasswordsInv, NoneWhileSuspended, ChangeIsPending, Current, WelcomeAhead,
           Admissible, InForce
  <2>2. CASE standing = "ACTIVE" /\ UNCHANGED stored
    BY <1>1, <1>2, <1>4, <2>2
       DEF PasswordsInv, NoneWhileSuspended, ChangeIsPending, Current, WelcomeAhead,
           Admissible, InForce
  <2>3. stored' = RevokedAll(Nothing) => \A s \in Session : ~InForce(s)'
    BY <1>2, SessionsAssumption DEF InForce, RevokedAll, Ended
  <2>. QED  BY <1>1, <2>1, <2>2, <2>3
<1>6. person'.password >= person.password
  BY <1>2, <1>4
<1>. QED  BY <1>1, <1>2, <1>3, <1>4, <1>5, <1>6, RowChanges

LEMMA ChangePasswordStep ==
    ASSUME SessionsInv, NEW t \in Tab, ChangePassword(t)
    PROVE  SessionsInv'
<1> USE SessionsAssumption
<1>1. PICK s : s = call[t].session
  OBVIOUS
<1>2. /\ call[t].op = "verified" /\ person.password < Passwords
      /\ person' = [person EXCEPT !.password = @ + 1, !.mustChange = FALSE]
      /\ stored' = IF stored[s].status = "ACTIVE"
                   THEN [stored EXCEPT ![s].password = person.password + 1] ELSE stored
      /\ call' = [call EXCEPT ![t].op = "change"]
      /\ UNCHANGED <<cookie, tab, authenticator, excused, unsettled>>
  BY <1>1 DEF ChangePassword
<1>3. /\ ShapesOK /\ PasswordsInv /\ CookiesInv /\ person \in People
      /\ stored \in [Session -> SessionRow] /\ person.password \in Nat
      /\ PageFits(t) /\ CallOK(t) /\ TabOK(t)
  BY TabShape, RowShape, PasswordShape DEF SessionsInv
<1>4. s \in Session
  BY <1>1, <1>2, <1>3 DEF CallOK
<1>5. /\ DOMAIN call' = Tab /\ DOMAIN call'[t] = {"op", "session", "with"}
      /\ call'[t].op = "change" /\ call'[t].session = s
      /\ \A u \in Tab \ {t} : call'[u] = call[u]
  BY <1>1, <1>2, <1>3, RowShape DEF CallOK
<1>6. /\ person' \in People /\ person'.password = person.password + 1
      /\ person'.status = person.status /\ person'.mustChange = FALSE
      /\ person'.password \in 0..Passwords /\ person'.password >= person.password
  BY <1>2, <1>3, AnotherPassword
<1>7. person.password + 1 \in 0..Passwords /\ person'.password >= person.password
  BY <1>6
<1>8. /\ \A r \in Session : stored'[r].status = stored[r].status /\ stored'[r].turn = stored[r].turn
      /\ stored'[s].status = "ACTIVE" => stored'[s].password = person.password + 1
  BY <1>2, <1>3, <1>4 DEF SessionRow
<1>9. stored' \in [Session -> SessionRow]
  BY <1>2, <1>3, <1>4, <1>7 DEF SessionRow
<1>10. Ages
  BY <1>8 DEF Ages
<1>11. ShapesOK'
  <2>1. PageFits(t)'
    BY <1>2, <1>3 DEF PageFits
  <2>2. CallOK(t)'
    BY <1>2, <1>3, <1>4, <1>5 DEF CallOK, Entering
  <2>3. TabOK(t)'
    BY <1>2, <1>3, <1>8 DEF TabOK
  <2>4. KeyIsInTheApp'
    BY <1>2, <1>3, RowShape DEF KeyIsInTheApp
  <2> DEFINE M == {t}
  <2>5. M \in SUBSET Tab /\ \A u \in M : PageFits(u)' /\ CallOK(u)' /\ TabOK(u)'
    BY <2>1, <2>2, <2>3
  <2>6. \A u \in Tab \ M : tab'[u] = tab[u] /\ call'[u] = call[u]
    BY <1>2, <1>5
  <2>7. \A r \in Session : stored[r].status # "NONE" => stored'[r].status # "NONE"
    BY <1>8
  <2> HIDE DEF M
  <2>. QED  BY <1>2, <1>3, <1>5, <1>6, <1>7, <1>9, <2>4, <2>5, <2>6, <2>7, RowShape, SomeTabsMove
<1>12. PasswordsInv'
  <2>1. NoneWhileSuspended'
    BY <1>2, <1>3, <1>6, <1>8 DEF PasswordsInv, NoneWhileSuspended, InForce
  <2>2. Current(call[t].session)'
    BY <1>5, <1>6, <1>8 DEF Current, InForce
  <2>3. ChangeIsPending'
    BY <1>5, <2>2 DEF ChangeIsPending
  <2>4. WelcomeAhead'
    BY <1>6 DEF WelcomeAhead, Admissible
  <2>. QED  BY <2>1, <2>3, <2>4 DEF PasswordsInv
<1>13. CookiesInv'
  BY <1>2, <1>3, <1>5, <1>10, CookiesRest DEF Refreshing, Entering
<1>. QED  BY <1>11, <1>12, <1>13 DEF SessionsInv


\* A step of one tab.
LEMMA TabMoves ==
    ASSUME ShapesOK, NEW t \in Tab, UNCHANGED <<person, authenticator>>,
           stored' \in [Session -> SessionRow],
           \A s \in Session : stored[s].status # "NONE" => stored'[s].status # "NONE",
           DOMAIN cookie' = Browser,
           \A b \in Browser : /\ DOMAIN cookie'[b] = {"session", "turn"}
                              /\ cookie'[b].session \in Session \cup {Nothing},
           DOMAIN tab' = Tab, DOMAIN call' = Tab,
           \A u \in Tab \ {t} : tab'[u] = tab[u] /\ call'[u] = call[u],
           PageFits(t)', CallOK(t)', TabOK(t)', excused' \subseteq Session
    PROVE  ShapesOK'
<1>1. KeyIsInTheApp'
  BY RowShape DEF KeyIsInTheApp
<1> DEFINE M == {t}
<1>2. M \in SUBSET Tab /\ \A u \in M : PageFits(u)' /\ CallOK(u)' /\ TabOK(u)'
  OBVIOUS
<1>3. \A u \in Tab \ M : tab'[u] = tab[u] /\ call'[u] = call[u]
  OBVIOUS
<1> HIDE DEF M
<1>. QED  BY <1>1, <1>2, <1>3, RowShape, SomeTabsMove

\* A step of one tab about the session it carries or that of its browser's cookie
\* is none of another browser's business.
LEMMA HeldStep ==
    ASSUME CookiesInv, NEW t \in Tab,
           \A u \in Tab : BrowserOf(u)' = BrowserOf(u),
           \A u \in Tab \ {t} : call'[u] = call[u],
           \A c \in Browser \ {BrowserOf(t)} : cookie'[c] = cookie[c],
           ~Entering(t)', BrowserOf(t) \in Browser,
           \A s \in Session : Carries(t, s)' =>
              Carries(t, s) \/ cookie[BrowserOf(t)].session = s,
           \A s \in Session : cookie'[BrowserOf(t)].session = s =>
              Carries(t, s) \/ cookie[BrowserOf(t)].session = s,
           \A s \in Session :
              /\ stored[s].status # "NONE" => stored'[s].status # "NONE"
              /\ \/ Carries(t, s)
                 \/ /\ stored'[s].status = "ACTIVE" =>
                          stored[s].status = "ACTIVE" /\ stored'[s].turn = stored[s].turn
                    /\ stored'[s].turn \in {stored[s].turn, 0},
           unsettled' \ {BrowserOf(t)} = unsettled \ {BrowserOf(t)},
           BrowserOf(t) \in unsettled' \/ SettledIn(BrowserOf(t))'
    PROVE  CookiesInv'
<1>1. PICK b : b = BrowserOf(t)
  OBVIOUS
<1>2. ASSUME NEW c \in Browser, NEW s \in Session, Held(c, s)' PROVE Held(c, s)
  <2>1. CASE cookie'[c].session = s
    <3>1. CASE c = b
      BY <1>1, <2>1, <3>1 DEF Held
    <3>2. CASE c # b
      BY <1>1, <2>1, <3>2 DEF Held
    <3>. QED  BY <3>1, <3>2
  <2>2. ASSUME NEW u \in Tab, BrowserOf(u)' = c, Carries(u, s)' PROVE Held(c, s)
    <3>1. CASE u = t
      BY <2>2, <3>1 DEF Held
    <3>2. CASE u # t
      <4>1. call'[u] = call[u] /\ BrowserOf(u) = c
        BY <2>2, <3>2
      <4>2. Carries(u, s)
        BY <2>2, <4>1 DEF Carries, Refreshing, Entering
      <4>. QED  BY <4>1, <4>2 DEF Held
    <3>. QED  BY <3>1, <3>2
  <2>. QED  BY <1>2, <2>1, <2>2 DEF Held
<1>3. OneBrowser'
  BY <1>2 DEF CookiesInv, OneBrowser
<1>4. EntriesAreNew'
  <2>1. ASSUME NEW s \in Session, NEW u \in Tab, Entering(u)', call'[u].session = s
        PROVE  /\ stored'[s].turn = 0
               /\ \A c \in Browser : cookie'[c].session # s
               /\ \A v \in Tab \ {u} : ~Carries(v, s)'
    <3>1. u # t /\ Entering(u) /\ call[u].session = s
      BY <2>1 DEF Entering
    <3>2. /\ stored[s].turn = 0
          /\ \A c \in Browser : cookie[c].session # s
          /\ \A v \in Tab \ {u} : ~Carries(v, s)
      BY <3>1 DEF CookiesInv, EntriesAreNew
    <3>3. stored'[s].turn = 0
      BY <3>1, <3>2
    <3>4. \A c \in Browser : cookie'[c].session # s
      BY <3>1, <3>2
    <3>5. ASSUME NEW v \in Tab \ {u} PROVE ~Carries(v, s)'
      <4>1. CASE v = t
        BY <3>1, <3>2, <4>1
      <4>2. CASE v # t
        <5>1. call'[v] = call[v] /\ ~Carries(v, s)
          BY <3>2, <4>2
        <5>. QED  BY <5>1 DEF Carries, Refreshing, Entering
      <4>. QED  BY <4>1, <4>2
    <3>. QED  BY <3>3, <3>4, <3>5
  <2>. QED  BY <2>1 DEF EntriesAreNew
<1>5. ASSUME NEW c \in Browser \ unsettled', c # b PROVE SettledIn(c)'
  <2>1. SettledIn(c) /\ cookie'[c] = cookie[c]
    BY <1>1, <1>5 DEF CookiesInv, SettledIsCurrent
  <2>2. \A u \in Tab : BrowserOf(u) = c =>
           /\ call'[u] = call[u] /\ u # t /\ (Refreshing(u)' <=> Refreshing(u))
    BY <1>1, <1>5 DEF Refreshing
  <2>3. ASSUME NEW s \in Session, Held(c, s), InForce(s)'
        PROVE  InForce(s) /\ stored'[s].turn = stored[s].turn
    <3>1. ~Carries(t, s)
      BY <1>1, <1>5, <2>3 DEF CookiesInv, OneBrowser, Held
    <3>. QED  BY <2>3, <3>1 DEF InForce
  <2>4. (\A u \in Tab : BrowserOf(u)' = c => ~Refreshing(u)')
           => Present(cookie[c].session, cookie[c].turn)'
    <3>1. HAVE \A u \in Tab : BrowserOf(u)' = c => ~Refreshing(u)'
    <3>2. Present(cookie[c].session, cookie[c].turn)
      BY <2>1, <2>2, <3>1 DEF SettledIn
    <3>3. cookie[c].session \in Session => Held(c, cookie[c].session)
      BY DEF Held
    <3>. QED  BY <2>1, <2>3, <3>2, <3>3 DEF Present
  <2>5. ASSUME NEW u \in Tab, BrowserOf(u)' = c
        PROVE  /\ call'[u].op \in {"refresh", "rotate"} =>
                     \/ cookie'[c].session = Nothing
                     \/ /\ cookie'[c].session = call'[u].session
                        /\ cookie'[c].turn = call'[u].with
                        /\ Present(call[u].session, call[u].with)'
               /\ call'[u].op = "rotated" => Present(call[u].session, call[u].with)'
    <3>1. BrowserOf(u) = c /\ call'[u] = call[u]
      BY <2>2, <2>5
    <3>2. Refreshing(u) /\ call[u].session \in Session => Held(c, call[u].session)
      BY <3>1 DEF Held, Carries
    <3>3. Refreshing(u) /\ Present(call[u].session, call[u].with)
             => Present(call[u].session, call[u].with)'
      BY <2>3, <3>1, <3>2 DEF Present
    <3>. QED  BY <2>1, <3>1, <3>3 DEF SettledIn, Refreshing
  <2>6. ASSUME NEW u \in Tab, NEW v \in Tab, BrowserOf(u)' = c, BrowserOf(v)' = c,
               Refreshing(u)', Refreshing(v)'
        PROVE  u = v
    BY <2>1, <2>2, <2>6 DEF SettledIn
  <2>. QED  BY <2>4, <2>5, <2>6 DEF SettledIn
<1>6. SettledIsCurrent'
  BY <1>1, <1>5 DEF SettledIsCurrent
<1>. QED  BY <1>3, <1>4, <1>6 DEF CookiesInv


LEMMA OpenStep ==
    ASSUME SessionsInv, NEW t \in Tab, Open(t)
    PROVE  SessionsInv'
<1> USE SessionsAssumption
<1>1. PICK b, c : b = BrowserOf(t) /\ c = cookie[b]
  OBVIOUS
<1>2. /\ call[t].op = "none" /\ tab' = Showing(t, "loading", Nothing)
      /\ call' = [call EXCEPT ![t] = Asking("refresh", c.session, c.turn)]
      /\ unsettled' \ {b} = unsettled \ {b} /\ unsettled \subseteq unsettled'
      /\ b \notin unsettled' => \A u \in Tab \ {t} : BrowserOf(u) = b => ~Refreshing(u)
      /\ UNCHANGED <<person, stored, cookie, authenticator, excused>>
  BY <1>1 DEF Open, InBrowser
<1>3. /\ ShapesOK /\ PasswordsInv /\ CookiesInv
      /\ PageFits(t) /\ CallOK(t) /\ TabOK(t) /\ b \in Browser
      /\ c.session \in Session \cup {Nothing}
  BY <1>1, TabShape, RowShape DEF SessionsInv
<1>4. /\ DOMAIN call' = Tab /\ DOMAIN call'[t] = {"op", "session", "with"}
      /\ call'[t].op = "refresh" /\ call'[t].session = c.session /\ call'[t].with = c.turn
      /\ \A u \in Tab \ {t} : call'[u] = call[u]
  BY <1>2, <1>3, RowShape DEF Asking
<1>5. /\ DOMAIN tab' = Tab /\ DOMAIN tab'[t] = {"browser", "page", "access"}
      /\ tab'[t].browser = tab[t].browser /\ tab'[t].page = "loading" /\ tab'[t].access = Nothing
      /\ \A u \in Tab \ {t} : tab'[u] = tab[u]
  BY <1>2, <1>3, Shows
<1>6. ShapesOK'
  <2>1. PageFits(t)' /\ CallOK(t)' /\ TabOK(t)'
    BY <1>3, <1>4, <1>5 DEF PageFits, CallOK, TabOK, Entering
  <2>. QED  BY <1>2, <1>3, <1>4, <1>5, <2>1, RowShape, TabMoves
<1>7. PasswordsInv'
  BY <1>2, <1>3, <1>4, <1>5, PasswordsRest DEF InForce
<1>8. CookiesInv'
  <2>1. \A u \in Tab : BrowserOf(u)' = BrowserOf(u)
    BY <1>5 DEF BrowserOf
  <2>2. ASSUME b \notin unsettled' PROVE SettledIn(b)'
    <3>1. \A u \in Tab : BrowserOf(u) = b => ~Refreshing(u)
      BY <1>2, <2>2 DEF Refreshing
    <3>2. SettledIn(b)
      BY <1>2, <1>3, <2>2 DEF CookiesInv, SettledIsCurrent
    <3>3. Present(c.session, c.turn)
      BY <1>1, <3>1, <3>2 DEF SettledIn
    <3>4. \A u \in Tab : BrowserOf(u)' = b /\ Refreshing(u)' => u = t
      BY <1>4, <2>1, <3>1 DEF Refreshing
    <3>5. Present(c.session, c.turn)' /\ cookie'[b] = c
      BY <1>1, <1>2, <3>3 DEF Present, InForce
    <3>6. Refreshing(t)' /\ BrowserOf(t)' = b
      BY <1>1, <1>4, <2>1 DEF Refreshing
    <3>7. ASSUME NEW u \in Tab, BrowserOf(u)' = b
          PROVE  /\ call'[u].op \in {"refresh", "rotate"} =>
                       \/ cookie'[b].session = Nothing
                       \/ /\ cookie'[b].session = call'[u].session
                          /\ cookie'[b].turn = call'[u].with
                          /\ Present(call[u].session, call[u].with)'
                 /\ call'[u].op = "rotated" => Present(call[u].session, call[u].with)'
      <4>1. CASE u = t
        BY <1>4, <3>5, <4>1 DEF Present
      <4>2. CASE u # t
        BY <3>4, <3>7, <4>2 DEF Refreshing
      <4>. QED  BY <4>1, <4>2
    <3>. QED  BY <3>4, <3>6, <3>7 DEF SettledIn
  <2>3. ~Entering(t)'
    BY <1>4 DEF Entering
  <2>4. \A s \in Session : Carries(t, s)' => cookie[b].session = s
    BY <1>1, <1>4 DEF Carries
  <2>. QED  BY <1>1, <1>2, <1>3, <1>4, <2>1, <2>2, <2>3, <2>4, HeldStep
<1>. QED  BY <1>6, <1>7, <1>8 DEF SessionsInv

LEMMA ReadRefreshStep ==
    ASSUME SessionsInv, NEW t \in Tab, ReadRefresh(t)
    PROVE  SessionsInv'
<1> USE SessionsAssumption
<1>1. PICK s : s = call[t].session
  OBVIOUS
<1>2. /\ call[t].op = "refresh"
      /\ UNCHANGED <<person, cookie, authenticator, excused, unsettled>>
      /\ \/ /\ s # Nothing /\ call' = [call EXCEPT ![t].op = "rotate"] /\ UNCHANGED <<stored, tab>>
         \/ /\ tab' = Showing(t, "login", Nothing) /\ call' = [call EXCEPT ![t] = Quiet]
            /\ \/ UNCHANGED stored
               \/ s # Nothing /\ stored' = [stored EXCEPT ![s] = Ended("EXPIRED")]
  BY <1>1 DEF ReadRefresh, TurnedAway, SignedOut
<1>3. /\ ShapesOK /\ PasswordsInv /\ CookiesInv /\ stored \in [Session -> SessionRow]
      /\ PageFits(t) /\ CallOK(t) /\ TabOK(t) /\ BrowserOf(t) \in Browser
      /\ s \in Session \cup {Nothing}
  BY <1>1, TabShape, RowShape DEF SessionsInv, CallOK
<1>4. Fades /\ stored' \in [Session -> SessionRow]
  <2>1. CASE UNCHANGED stored
    BY <1>3, <2>1 DEF Fades, Ages
  <2>2. CASE s # Nothing /\ stored' = [stored EXCEPT ![s] = Ended("EXPIRED")]
    <3>1. Ended("EXPIRED") \in SessionRow /\ Ended("EXPIRED").status = "EXPIRED"
          /\ Ended("EXPIRED").turn = 0
      BY DEF Ended, SessionRow
    <3>2. stored' \in [Session -> SessionRow]
      BY <1>3, <2>2, <3>1
    <3>3. \A r \in Session : stored'[r] = stored[r] \/ stored'[r] = Ended("EXPIRED")
      BY <1>3, <2>2
    <3>. QED  BY <3>1, <3>2, <3>3 DEF Fades, Ages
  <2>. QED  BY <1>2, <2>1, <2>2
<1>5. /\ DOMAIN call' = Tab /\ \A u \in Tab \ {t} : call'[u] = call[u]
      /\ DOMAIN tab' = Tab /\ \A u \in Tab \ {t} : tab'[u] = tab[u]
      /\ DOMAIN tab'[t] = {"browser", "page", "access"} /\ tab'[t].browser = tab[t].browser
      /\ \/ /\ tab'[t] = tab[t] /\ DOMAIN call'[t] = {"op", "session", "with"}
            /\ call'[t].op = "rotate" /\ call'[t].session = s /\ call'[t].with = call[t].with
            /\ s # Nothing
         \/ /\ tab'[t].page = "login" /\ tab'[t].access = Nothing
            /\ DOMAIN call'[t] = {"op", "session", "with"}
            /\ call'[t].op = "none" /\ call'[t].session = Nothing
  <2>1. DOMAIN Quiet = {"op", "session", "with"} /\ Quiet.op = "none" /\ Quiet.session = Nothing
    BY DEF Quiet
  <2>. QED  BY <1>1, <1>2, <1>3, <2>1, RowShape, Shows DEF CallOK, TabOK
<1>6. ShapesOK'
  <2>1. PageFits(t)'
    BY <1>3, <1>5 DEF PageFits
  <2>2. CallOK(t)'
    BY <1>3, <1>5 DEF CallOK, Entering
  <2>3. TabOK(t)'
    BY <1>3, <1>4, <1>5 DEF TabOK, Fades, Ages
  <2>. QED  BY <1>2, <1>3, <1>4, <1>5, <2>1, <2>2, <2>3, RowShape, TabMoves DEF Fades, Ages
<1>7. PasswordsInv'
  BY <1>2, <1>3, <1>4, <1>5, PasswordsRest DEF InForce, Fades, Ages
<1>8. CookiesInv'
  <2>1. \A u \in Tab : BrowserOf(u)' = BrowserOf(u)
    BY <1>5 DEF BrowserOf
  <2>2. PICK b : b = BrowserOf(t)
    OBVIOUS
  <2>3. ASSUME b \notin unsettled' PROVE SettledIn(b)'
    <3>1. SettledIn(b)
      BY <1>2, <1>3, <2>2, <2>3 DEF CookiesInv, SettledIsCurrent
    <3>2. \A u \in Tab : BrowserOf(u) = b /\ Refreshing(u) => u = t
      BY <1>2, <2>2, <3>1 DEF SettledIn, Refreshing
    <3>3. \A u \in Tab : BrowserOf(u)' = b /\ Refreshing(u)' => u = t
      BY <1>5, <2>1, <3>2 DEF Refreshing
    <3>4. \/ cookie[b].session = Nothing
          \/ /\ cookie[b].session = s /\ cookie[b].turn = call[t].with
             /\ Present(s, call[t].with)
      BY <1>1, <1>2, <2>2, <3>1 DEF SettledIn
    <3>5. \/ cookie'[b].session = Nothing
          \/ /\ cookie'[b].session = s /\ cookie'[b].turn = call[t].with
             /\ s \in Session /\ stored'[s].status = "ACTIVE" => stored'[s].turn = call[t].with
      BY <1>2, <1>4, <3>4 DEF Present, InForce, Fades, Ages
    <3>6. (\A u \in Tab : BrowserOf(u)' = b => ~Refreshing(u)')
             => Present(cookie[b].session, cookie[b].turn)'
      BY <3>5 DEF Present, InForce
    <3>7. ASSUME NEW u \in Tab, BrowserOf(u)' = b
          PROVE  /\ call'[u].op \in {"refresh", "rotate"} =>
                       \/ cookie'[b].session = Nothing
                       \/ /\ cookie'[b].session = call'[u].session
                          /\ cookie'[b].turn = call'[u].with
                          /\ Present(call[u].session, call[u].with)'
                 /\ call'[u].op = "rotated" => Present(call[u].session, call[u].with)'
      <4>1. CASE u = t
        BY <1>5, <3>5, <4>1 DEF Present, InForce
      <4>2. CASE u # t
        BY <3>3, <3>7, <4>2 DEF Refreshing
      <4>. QED  BY <4>1, <4>2
    <3>. QED  BY <3>3, <3>6, <3>7 DEF SettledIn
  <2>4. ~Entering(t)'
    BY <1>5 DEF Entering
  <2>5. \A r \in Session : Carries(t, r)' => Carries(t, r)
    BY <1>1, <1>2, <1>5 DEF Carries, Refreshing, Entering
  <2>. QED  BY <1>2, <1>3, <1>4, <1>5, <2>1, <2>2, <2>3, <2>4, <2>5, HeldStep DEF Fades, Ages
<1>. QED  BY <1>6, <1>7, <1>8 DEF SessionsInv


\* A row that has its token replaced.
LEMMA RotatedRow ==
    ASSUME ShapesOK, NEW s \in Session, stored[s].turn < Turns, NEW row,
           row \in {Rotated(s), [Rotated(s) EXCEPT ![s].over = FALSE]}
    PROVE  /\ row \in [Session -> SessionRow]
           /\ row[s].status = stored[s].status /\ row[s].turn = stored[s].turn + 1
           /\ row[s].password = stored[s].password
           /\ \A r \in Session \ {s} : row[r] = stored[r]
<1>1. stored \in [Session -> SessionRow] /\ Turns \in Nat
  BY SessionsAssumption, RowShape
<1>2. PICK n : n = stored[s].turn + 1
  OBVIOUS
<1>3. n \in 0..Turns
  <2>1. stored[s].turn \in 0..Turns
    BY <1>1 DEF SessionRow
  <2>. QED  BY <1>1, <1>2, <2>1
<1>4. \/ row = [stored EXCEPT ![s].turn = n]
      \/ row = [stored EXCEPT ![s].turn = n, ![s].over = FALSE]
  BY <1>1, <1>2 DEF Rotated, SessionRow
<1>5. row \in [Session -> SessionRow]
  BY <1>1, <1>3, <1>4 DEF SessionRow
<1>. QED  BY <1>1, <1>2, <1>4, <1>5 DEF SessionRow

LEMMA RotateStep ==
    ASSUME SessionsInv, NEW t \in Tab, Rotate(t)
    PROVE  SessionsInv'
<1> USE SessionsAssumption
<1>1. PICK s, b, n : s = call[t].session /\ b = BrowserOf(t) /\ n = stored[s].turn + 1
  OBVIOUS
<1>2. /\ call[t].op = "rotate" /\ stored[s].turn < Turns
      /\ stored' = [Rotated(s) EXCEPT ![s].over = FALSE]
      /\ call' = [call EXCEPT ![t] = Asking("rotated", s, n)]
      /\ UNCHANGED <<person, cookie, tab, authenticator, excused, unsettled>>
  BY <1>1 DEF Rotate
<1>3. /\ ShapesOK /\ PasswordsInv /\ CookiesInv /\ stored \in [Session -> SessionRow]
      /\ PageFits(t) /\ CallOK(t) /\ TabOK(t) /\ b \in Browser /\ s \in Session
  BY <1>1, <1>2, TabShape, RowShape DEF SessionsInv, CallOK
<1>4. /\ stored' \in [Session -> SessionRow]
      /\ stored'[s].status = stored[s].status /\ stored'[s].turn = n
      /\ stored'[s].password = stored[s].password
      /\ \A r \in Session \ {s} : stored'[r] = stored[r]
  BY <1>1, <1>2, <1>3, RotatedRow
<1>5. /\ DOMAIN call' = Tab /\ DOMAIN call'[t] = {"op", "session", "with"}
      /\ call'[t].op = "rotated" /\ call'[t].session = s /\ call'[t].with = n
      /\ \A u \in Tab \ {t} : call'[u] = call[u]
  BY <1>2, <1>3, RowShape DEF Asking
<1>6. \A r \in Session : stored'[r].status = stored[r].status /\ stored'[r].password = stored[r].password
  BY <1>4
<1>7. ShapesOK'
  <2>1. PageFits(t)' /\ CallOK(t)' /\ TabOK(t)'
    BY <1>2, <1>3, <1>5, <1>6 DEF PageFits, CallOK, TabOK, Entering
  <2>. QED  BY <1>2, <1>3, <1>4, <1>5, <1>6, <2>1, RowShape, TabMoves
<1>8. PasswordsInv'
  BY <1>2, <1>3, <1>5, <1>6, PasswordsRest DEF InForce
<1>9. CookiesInv'
  <2>1. \A u \in Tab : BrowserOf(u)' = BrowserOf(u)
    BY <1>2 DEF BrowserOf
  <2>2. ASSUME b \notin unsettled' PROVE SettledIn(b)'
    <3>1. SettledIn(b)
      BY <1>2, <1>3, <2>2 DEF CookiesInv, SettledIsCurrent
    <3>2. \A u \in Tab : BrowserOf(u) = b /\ Refreshing(u) => u = t
      BY <1>1, <1>2, <3>1 DEF SettledIn, Refreshing
    <3>3. \A u \in Tab : BrowserOf(u)' = b /\ Refreshing(u)' => u = t
      BY <1>5, <2>1, <3>2 DEF Refreshing
    <3>4. Refreshing(t)' /\ BrowserOf(t)' = b
      BY <1>1, <1>5, <2>1 DEF Refreshing
    <3>5. ASSUME NEW u \in Tab, BrowserOf(u)' = b
          PROVE  /\ ~call'[u].op \in {"refresh", "rotate"}
                 /\ call'[u].op = "rotated" => Present(call[u].session, call[u].with)'
      <4>1. CASE u = t
        BY <1>4, <1>5, <4>1 DEF Present
      <4>2. CASE u # t
        BY <3>3, <3>5, <4>2 DEF Refreshing
      <4>. QED  BY <4>1, <4>2
    <3>. QED  BY <3>3, <3>4, <3>5 DEF SettledIn
  <2>3. ~Entering(t)'
    BY <1>5 DEF Entering
  <2>4. \A r \in Session : Carries(t, r)' => Carries(t, r)
    BY <1>1, <1>2, <1>5 DEF Carries, Refreshing
  <2>5. \A r \in Session : r # s => stored'[r] = stored[r]
    BY <1>4
  <2>6. Carries(t, s)
    BY <1>1, <1>2 DEF Carries, Refreshing
  <2>. QED  BY <1>1, <1>2, <1>3, <1>5, <1>6, <2>1, <2>2, <2>3, <2>4, <2>5, <2>6, HeldStep
<1>. QED  BY <1>7, <1>8, <1>9 DEF SessionsInv

LEMMA RefreshedStep ==
    ASSUME SessionsInv, NEW t \in Tab, Refreshed(t)
    PROVE  SessionsInv'
<1> USE SessionsAssumption
<1>1. PICK s, b, n : s = call[t].session /\ b = BrowserOf(t) /\ n = call[t].with
  OBVIOUS
<1>2. /\ call[t].op = "rotated"
      /\ cookie' = [cookie EXCEPT ![b] = [session |-> s, turn |-> n]]
      /\ tab' = Showing(t, "loading", s) /\ call' = [call EXCEPT ![t] = Quiet]
      /\ UNCHANGED <<person, stored, authenticator, excused, unsettled>>
  BY <1>1 DEF Refreshed
<1>3. /\ ShapesOK /\ PasswordsInv /\ CookiesInv
      /\ PageFits(t) /\ CallOK(t) /\ TabOK(t) /\ b \in Browser /\ s \in Session
  BY <1>1, <1>2, TabShape DEF SessionsInv, CallOK
<1>4. /\ DOMAIN call' = Tab /\ DOMAIN call'[t] = {"op", "session", "with"}
      /\ call'[t].op = "none" /\ call'[t].session = Nothing
      /\ \A u \in Tab \ {t} : call'[u] = call[u]
  BY <1>2, <1>3, RowShape DEF Quiet
<1>5. /\ DOMAIN tab' = Tab /\ DOMAIN tab'[t] = {"browser", "page", "access"}
      /\ tab'[t].browser = tab[t].browser /\ tab'[t].page = "loading" /\ tab'[t].access = s
      /\ \A u \in Tab \ {t} : tab'[u] = tab[u]
  BY <1>2, <1>3, Shows
<1>6. /\ DOMAIN cookie' = Browser /\ cookie'[b].session = s /\ cookie'[b].turn = n
      /\ DOMAIN cookie'[b] = {"session", "turn"}
      /\ \A c \in Browser \ {b} : cookie'[c] = cookie[c]
  BY <1>2, <1>3, RowShape
<1>7. Carries(t, s)
  BY <1>1, <1>2 DEF Carries, Refreshing
<1>8. ShapesOK'
  <2>1. stored[s].status # "NONE"
    BY <1>1, <1>3, <1>7 DEF CookiesInv, OneBrowser, Held
  <2>2. PageFits(t)' /\ CallOK(t)' /\ TabOK(t)'
    BY <1>2, <1>3, <1>4, <1>5, <2>1 DEF PageFits, CallOK, TabOK, Entering
  <2>3. \A c \in Browser : /\ DOMAIN cookie'[c] = {"session", "turn"}
                           /\ cookie'[c].session \in Session \cup {Nothing}
    BY <1>3, <1>6, RowShape
  <2>. QED  BY <1>2, <1>3, <1>4, <1>5, <1>6, <2>2, <2>3, RowShape, TabMoves
<1>9. PasswordsInv'
  BY <1>2, <1>3, <1>4, <1>5, PasswordsRest DEF InForce
<1>10. CookiesInv'
  <2>1. \A u \in Tab : BrowserOf(u)' = BrowserOf(u)
    BY <1>5 DEF BrowserOf
  <2>2. ASSUME b \notin unsettled' PROVE SettledIn(b)'
    <3>1. SettledIn(b)
      BY <1>2, <1>3, <2>2 DEF CookiesInv, SettledIsCurrent
    <3>2. \A u \in Tab : BrowserOf(u) = b /\ Refreshing(u) => u = t
      BY <1>1, <1>2, <3>1 DEF SettledIn, Refreshing
    <3>3. \A u \in Tab : BrowserOf(u)' = b => ~Refreshing(u)'
      BY <1>4, <2>1, <3>2 DEF Refreshing
    <3>4. Present(s, n)
      BY <1>1, <1>2, <3>1 DEF SettledIn
    <3>5. Present(cookie[b].session, cookie[b].turn)'
      BY <1>2, <1>6, <3>4 DEF Present, InForce
    <3>. QED  BY <3>3, <3>5 DEF SettledIn, Refreshing
  <2>3. ~Entering(t)'
    BY <1>4 DEF Entering
  <2>4. \A r \in Session : ~Carries(t, r)'
    BY <1>4 DEF Carries
  <2>. QED  BY <1>1, <1>2, <1>3, <1>4, <1>6, <1>7, <2>1, <2>2, <2>3, <2>4, HeldStep
<1>. QED  BY <1>8, <1>9, <1>10 DEF SessionsInv


LEMMA RefreshLostStep ==
    ASSUME SessionsInv, NEW t \in Tab, RefreshLost(t)
    PROVE  SessionsInv'
<1> USE SessionsAssumption
<1>1. PICK s, b : s = call[t].session /\ b = BrowserOf(t)
  OBVIOUS
<1>2. /\ Refreshing(t) /\ s # Nothing
      /\ tab' = Showing(t, "login", Nothing) /\ call' = [call EXCEPT ![t] = Quiet]
      /\ unsettled' = unsettled \cup {b}
      /\ UNCHANGED <<person, cookie, authenticator, excused>>
      /\ \/ stored[s].turn < Turns /\ stored' = Rotated(s)
         \/ UNCHANGED stored
  BY <1>1 DEF RefreshLost, TurnedAway, SignedOut
<1>3. /\ ShapesOK /\ PasswordsInv /\ CookiesInv
      /\ PageFits(t) /\ CallOK(t) /\ TabOK(t) /\ b \in Browser /\ s \in Session
  BY <1>1, <1>2, TabShape DEF SessionsInv, CallOK
<1>4. /\ DOMAIN call' = Tab /\ DOMAIN call'[t] = {"op", "session", "with"}
      /\ call'[t].op = "none" /\ call'[t].session = Nothing
      /\ \A u \in Tab \ {t} : call'[u] = call[u]
  BY <1>2, <1>3, RowShape DEF Quiet
<1>5. /\ DOMAIN tab' = Tab /\ DOMAIN tab'[t] = {"browser", "page", "access"}
      /\ tab'[t].browser = tab[t].browser /\ tab'[t].page = "login" /\ tab'[t].access = Nothing
      /\ \A u \in Tab \ {t} : tab'[u] = tab[u]
  BY <1>2, <1>3, Shows
<1>6. /\ stored' \in [Session -> SessionRow] /\ \A r \in Session \ {s} : stored'[r] = stored[r]
      /\ \A r \in Session :
            stored'[r].status = stored[r].status /\ stored'[r].password = stored[r].password
  <2>1. CASE UNCHANGED stored
    BY <1>3, <2>1, RowShape
  <2>2. CASE stored[s].turn < Turns /\ stored' = Rotated(s)
    <3>1. /\ stored' \in [Session -> SessionRow] /\ \A r \in Session \ {s} : stored'[r] = stored[r]
          /\ stored'[s].status = stored[s].status /\ stored'[s].password = stored[s].password
      BY <1>3, <2>2, RotatedRow
    <3>. QED  BY <3>1
  <2>. QED  BY <1>2, <2>1, <2>2
<1>7. ShapesOK'
  <2>1. PageFits(t)' /\ CallOK(t)' /\ TabOK(t)'
    BY <1>3, <1>4, <1>5 DEF PageFits, CallOK, TabOK, Entering
  <2>. QED  BY <1>2, <1>3, <1>4, <1>5, <1>6, <2>1, RowShape, TabMoves
<1>8. PasswordsInv'
  <2>1. call[t].op # "change"
    BY <1>2 DEF Refreshing
  <2>. QED  BY <1>2, <1>3, <1>4, <1>5, <1>6, <2>1, PasswordsRest DEF InForce
<1>9. CookiesInv'
  <2>1. \A u \in Tab : BrowserOf(u)' = BrowserOf(u)
    BY <1>5 DEF BrowserOf
  <2>2. b \in unsettled' /\ unsettled' \ {b} = unsettled \ {b}
    BY <1>2
  <2>3. ~Entering(t)'
    BY <1>4 DEF Entering
  <2>4. \A r \in Session : ~Carries(t, r)'
    BY <1>4 DEF Carries
  <2>5. Carries(t, s)
    BY <1>1, <1>2 DEF Carries
  <2>. QED  BY <1>1, <1>2, <1>3, <1>4, <1>6, <2>1, <2>2, <2>3, <2>4, <2>5, HeldStep
<1>. QED  BY <1>7, <1>8, <1>9 DEF SessionsInv

LEMMA EnteredStep ==
    ASSUME SessionsInv, NEW t \in Tab, Entered(t)
    PROVE  SessionsInv'
<1> USE SessionsAssumption
<1>1. PICK s, b : s = call[t].session /\ b = BrowserOf(t)
  OBVIOUS
<1>2. /\ Entering(t) /\ s # Nothing /\ call' = [call EXCEPT ![t] = Quiet]
      /\ UNCHANGED <<person, stored, authenticator, excused>>
  BY <1>1 DEF Entered, Entering
<1>3. /\ ShapesOK /\ PasswordsInv /\ CookiesInv
      /\ PageFits(t) /\ CallOK(t) /\ TabOK(t) /\ b \in Browser /\ s \in Session
  BY <1>1, <1>2, TabShape DEF SessionsInv, CallOK
<1>4. /\ DOMAIN call' = Tab /\ DOMAIN call'[t] = {"op", "session", "with"}
      /\ call'[t].op = "none" /\ call'[t].session = Nothing
      /\ \A u \in Tab \ {t} : call'[u] = call[u]
  BY <1>2, <1>3, RowShape DEF Quiet
<1>5. Carries(t, s)
  BY <1>1, <1>2 DEF Carries
<1>6. CASE UNCHANGED <<cookie, tab, unsettled>>
  <2>1. PageFits(t)' /\ CallOK(t)' /\ TabOK(t)'
    BY <1>2, <1>3, <1>4, <1>6 DEF PageFits, CallOK, TabOK, Entering
  <2>2. ShapesOK'
    BY <1>2, <1>3, <1>4, <1>6, <2>1, RowShape, TabMoves
  <2>3. call[t].op # "change"
    BY <1>2 DEF Entering
  <2>4. PasswordsInv'
    BY <1>2, <1>3, <1>4, <1>6, <2>3, PasswordsRest DEF InForce
  <2>5. ~Refreshing(t) /\ ~Refreshing(t)'
    BY <1>2, <1>4 DEF Refreshing, Entering
  <2>6. CookiesInv'
    BY <1>2, <1>3, <1>4, <1>6, <2>5, CookiesRest DEF Ages
  <2>. QED  BY <2>2, <2>4, <2>6 DEF SessionsInv
<1>7. ASSUME cookie' = [cookie EXCEPT ![b] = [session |-> s, turn |-> 0]],
             NEW p \in {"home", "password"}, tab' = Showing(t, p, s),
             p = "home" => call[t].op = "enter",
             unsettled' \ {b} = unsettled \ {b},
             b \notin unsettled' => ~\E u \in InBrowser(t) \ {t} : Refreshing(u)
      PROVE  SessionsInv'
  <2>1. /\ DOMAIN tab' = Tab /\ DOMAIN tab'[t] = {"browser", "page", "access"}
        /\ tab'[t].browser = tab[t].browser /\ tab'[t].page = p /\ tab'[t].access = s
        /\ \A u \in Tab \ {t} : tab'[u] = tab[u]
    BY <1>3, <1>7, Shows
  <2>2. /\ DOMAIN cookie' = Browser /\ cookie'[b].session = s /\ cookie'[b].turn = 0
        /\ DOMAIN cookie'[b] = {"session", "turn"}
        /\ \A c \in Browser \ {b} : cookie'[c] = cookie[c]
    BY <1>3, <1>7, RowShape
  <2>3. ShapesOK'
    <3>1. stored[s].status # "NONE"
      BY <1>1, <1>3, <1>5 DEF CookiesInv, OneBrowser, Held
    <3>2. PageFits(t)' /\ CallOK(t)' /\ TabOK(t)'
      BY <1>2, <1>3, <1>4, <2>1, <3>1 DEF PageFits, CallOK, TabOK, Entering
    <3>3. \A c \in Browser : /\ DOMAIN cookie'[c] = {"session", "turn"}
                             /\ cookie'[c].session \in Session \cup {Nothing}
      BY <1>3, <2>2, RowShape
    <3>. QED  BY <1>2, <1>3, <1>4, <2>1, <2>2, <3>2, <3>3, RowShape, TabMoves
  <2>4. PasswordsInv'
    <3>1. call[t].op # "change"
      BY <1>2 DEF Entering
    <3>2. p = "home" => Admissible(s)
      BY <1>1, <1>3, <1>7 DEF PasswordsInv, WelcomeAhead
    <3>. QED  BY <1>2, <1>3, <1>4, <2>1, <3>1, <3>2, PasswordsRest DEF InForce
  <2>5. CookiesInv'
    <3>1. \A u \in Tab : BrowserOf(u)' = BrowserOf(u)
      BY <2>1 DEF BrowserOf
    <3>2. ASSUME b \notin unsettled' PROVE SettledIn(b)'
      <4>1. \A u \in Tab : BrowserOf(u)' = b => ~Refreshing(u)'
        BY <1>1, <1>4, <1>7, <3>1, <3>2 DEF Refreshing, InBrowser
      <4>2. stored[s].turn = 0
        BY <1>1, <1>2, <1>3 DEF CookiesInv, EntriesAreNew
      <4>3. Present(cookie[b].session, cookie[b].turn)'
        BY <1>2, <2>2, <4>2 DEF Present
      <4>. QED  BY <4>1, <4>3 DEF SettledIn, Refreshing
    <3>3. ~Entering(t)'
      BY <1>4 DEF Entering
    <3>4. \A r \in Session : ~Carries(t, r)'
      BY <1>4 DEF Carries
    <3>. QED  BY <1>1, <1>2, <1>3, <1>4, <1>5, <1>7, <2>2, <3>1, <3>2, <3>3, <3>4, HeldStep
  <2>. QED  BY <2>3, <2>4, <2>5 DEF SessionsInv
<1>8. \/ UNCHANGED <<cookie, tab, unsettled>>
      \/ /\ cookie' = [cookie EXCEPT ![b] = [session |-> s, turn |-> 0]]
         /\ tab' = Showing(t, IF call[t].op = "enter" THEN "home" ELSE "password", s)
         /\ unsettled' = IF \E u \in InBrowser(t) \ {t} : Refreshing(u)
                         THEN unsettled \cup {b} ELSE unsettled \ {b}
  BY <1>1 DEF Entered
<1>9. CASE /\ cookie' = [cookie EXCEPT ![b] = [session |-> s, turn |-> 0]]
           /\ tab' = Showing(t, IF call[t].op = "enter" THEN "home" ELSE "password", s)
           /\ unsettled' = IF \E u \in InBrowser(t) \ {t} : Refreshing(u)
                           THEN unsettled \cup {b} ELSE unsettled \ {b}
  <2>1. PICK p : p = IF call[t].op = "enter" THEN "home" ELSE "password"
    OBVIOUS
  <2>2. p \in {"home", "password"} /\ (p = "home" => call[t].op = "enter")
    BY <2>1
  <2>3. /\ unsettled' \ {b} = unsettled \ {b}
        /\ b \notin unsettled' => ~\E u \in InBrowser(t) \ {t} : Refreshing(u)
    BY <1>9
  <2>. QED  BY <1>7, <1>9, <2>1, <2>2, <2>3
<1>. QED  BY <1>6, <1>8, <1>9

LEMMA CreateSessionStep ==
    ASSUME SessionsInv, NEW t \in Tab, NEW s \in Session, CreateSession(t, s)
    PROVE  SessionsInv'
<1> USE SessionsAssumption
<1>1. PICK n : n = call[t].with
  OBVIOUS
<1>2. /\ Entering(t) /\ call[t].session = Nothing /\ stored[s].status = "NONE"
      /\ stored' = [stored EXCEPT ![s] = [Unopened EXCEPT !.status = "ACTIVE", !.password = n]]
      /\ call' = [call EXCEPT ![t].session = s]
      /\ excused' = IF n # person.password \/ person.status # "ACTIVE"
                    THEN excused \cup {s} ELSE excused
      /\ UNCHANGED <<person, cookie, tab, authenticator, unsettled>>
  BY <1>1 DEF CreateSession, Entering
<1>3. /\ ShapesOK /\ PasswordsInv /\ CookiesInv /\ stored \in [Session -> SessionRow]
      /\ PageFits(t) /\ CallOK(t) /\ TabOK(t)
  BY TabShape, RowShape DEF SessionsInv
<1>4. n \in 0..Passwords
  <2>1. n \in 0..person.password /\ person.password \in 0..Passwords
    BY <1>1, <1>2, <1>3, RowShape DEF CallOK, People
  <2>2. PICK k : k = person.password
    OBVIOUS
  <2>. QED  BY <2>1, <2>2
<1>5. /\ stored' \in [Session -> SessionRow] /\ \A r \in Session \ {s} : stored'[r] = stored[r]
      /\ stored'[s].status = "ACTIVE" /\ stored'[s].password = n /\ stored'[s].turn = 0
  <2>1. PICK row : row = [Unopened EXCEPT !.status = "ACTIVE", !.password = n]
    OBVIOUS
  <2>2. row = [status |-> "ACTIVE", turn |-> 0, over |-> FALSE, password |-> n]
    BY <2>1 DEF Unopened, Ended
  <2>3. row \in SessionRow
    <3>1. Turns \in Nat
      BY SessionsAssumption
    <3>2. 0 \in 0..Turns
      BY <3>1
    <3>. QED  BY <1>4, <2>2, <3>2 DEF SessionRow
  <2>4. stored' = [stored EXCEPT ![s] = row]
    BY <1>2, <2>1
  <2>5. /\ stored' \in [Session -> SessionRow] /\ \A r \in Session \ {s} : stored'[r] = stored[r]
        /\ stored'[s] = row
    BY <1>3, <2>3, <2>4
  <2>. QED  BY <2>2, <2>5
<1>6. /\ DOMAIN call' = Tab /\ DOMAIN call'[t] = {"op", "session", "with"}
      /\ call'[t].op = call[t].op /\ call'[t].session = s /\ call'[t].with = n
      /\ \A u \in Tab \ {t} : call'[u] = call[u]
  BY <1>1, <1>2, <1>3, RowShape DEF CallOK
<1>7. ShapesOK'
  <2>1. PageFits(t)' /\ CallOK(t)' /\ TabOK(t)'
    BY <1>1, <1>2, <1>3, <1>5, <1>6 DEF PageFits, CallOK, TabOK, Entering
  <2>2. excused' \subseteq Session
    BY <1>2, <1>3, RowShape
  <2>. QED  BY <1>2, <1>3, <1>5, <1>6, <2>1, <2>2, RowShape, TabMoves
<1>8. \A b \in Browser : ~Held(b, s)
  BY <1>2, <1>3 DEF CookiesInv, OneBrowser
<1>9. PasswordsInv'
  <2>1. s \notin excused' => n = person.password /\ person.status = "ACTIVE"
    BY <1>2
  <2>2. excused' \subseteq excused \cup {s} /\ excused \subseteq excused'
    BY <1>2
  <2>3. NoneWhileSuspended'
    BY <1>2, <1>3, <1>5, <2>1, <2>2 DEF PasswordsInv, NoneWhileSuspended, InForce
  <2>4. ASSUME NEW r \in Session, r = s \/ Current(r) PROVE Current(r)'
    BY <1>2, <1>5, <2>1, <2>2, <2>4 DEF Current, InForce
  <2>5. ChangeIsPending'
    <3>1. CASE \A r \in Session : Current(r)
      BY <2>4, <3>1 DEF ChangeIsPending
    <3>2. ASSUME NEW u \in Tab, call[u].op = "change", Current(call[u].session)
          PROVE  ChangeIsPending'
      <4>1. call'[u] = call[u] /\ call[u].session \in Session
        BY <1>2, <1>3, <1>6, <3>2 DEF ShapesOK, CallOK, Entering
      <4>2. Current(call[u].session)'
        BY <2>4, <3>2, <4>1
      <4>. QED  BY <3>2, <4>1, <4>2 DEF ChangeIsPending
    <3>. QED  BY <1>3, <3>1, <3>2 DEF PasswordsInv, ChangeIsPending
  <2>6. ASSUME NEW r \in Session, r # s, Admissible(r) PROVE Admissible(r)'
    BY <1>2, <1>5, <2>2, <2>6 DEF Admissible, InForce
  <2>7. WelcomeAhead'
    <3>1. ASSUME NEW u \in Tab, tab'[u].page = "home" \/ call'[u].op = "change"
          PROVE  Admissible(tab[u].access)'
      <4>1. Admissible(tab[u].access) /\ tab'[u] = tab[u]
        BY <1>2, <1>3, <1>6, <3>1 DEF PasswordsInv, WelcomeAhead
      <4>2. tab[u].access # s
        BY <1>2, <1>3 DEF ShapesOK, TabOK
      <4>. QED  BY <2>6, <4>1, <4>2 DEF Admissible
    <3>2. ASSUME NEW u \in Tab, call'[u].op = "enter"
          PROVE  /\ call'[u].with = person'.password => ~person'.mustChange
                 /\ Admissible(call[u].session)'
      <4>1. /\ call[u].with = person.password => ~person.mustChange
            /\ Admissible(call[u].session)
        BY <1>3, <1>6, <3>2 DEF PasswordsInv, WelcomeAhead
      <4>2. CASE u = t
        BY <1>1, <1>2, <1>6, <2>1, <4>1, <4>2 DEF Admissible
      <4>3. CASE u # t
        <5>1. call'[u] = call[u] /\ Entering(u)
          BY <1>6, <3>2, <4>3 DEF Entering
        <5>2. call[u].session # s
          <6>1. BrowserOf(u) \in Browser
            BY <1>3, TabShape
          <6>. QED  BY <1>8, <5>1, <6>1 DEF Held, Carries
        <5>. QED  BY <1>2, <2>6, <4>1, <5>1, <5>2 DEF Admissible
      <4>. QED  BY <4>2, <4>3
    <3>. QED  BY <3>1, <3>2 DEF WelcomeAhead
  <2>. QED  BY <2>3, <2>5, <2>7 DEF PasswordsInv
<1>10. CookiesInv'
  <2>1. \A u \in Tab : BrowserOf(u)' = BrowserOf(u) /\ (Refreshing(u)' <=> Refreshing(u))
    BY <1>2, <1>6 DEF BrowserOf, Refreshing
  <2>2. \A u \in Tab \ {t}, r \in Session : Carries(u, r)' <=> Carries(u, r)
    BY <1>6 DEF Carries, Refreshing, Entering
  <2>3. \A r \in Session : Carries(t, r)' => r = s
    BY <1>6 DEF Carries
  <2>4. ASSUME NEW b \in Browser, NEW r \in Session, Held(b, r)'
        PROVE  Held(b, r) \/ (r = s /\ b = BrowserOf(t))
    <3>1. CASE cookie'[b].session = r
      BY <1>2, <3>1 DEF Held
    <3>2. ASSUME NEW u \in Tab, BrowserOf(u)' = b, Carries(u, r)'
          PROVE  Held(b, r) \/ (r = s /\ b = BrowserOf(t))
      <4>1. CASE u = t
        BY <2>1, <2>3, <3>2, <4>1
      <4>2. CASE u # t
        <5>1. BrowserOf(u) = b /\ Carries(u, r)
          BY <2>1, <2>2, <3>2, <4>2
        <5>. QED  BY <5>1 DEF Held
      <4>. QED  BY <4>1, <4>2
    <3>. QED  BY <2>4, <3>1, <3>2 DEF Held
  <2>5. OneBrowser'
    BY <1>3, <1>5, <1>8, <2>4 DEF CookiesInv, OneBrowser
  <2>6. EntriesAreNew'
    <3>1. ASSUME NEW r \in Session, NEW u \in Tab, Entering(u)', call'[u].session = r
          PROVE  /\ stored'[r].turn = 0
                 /\ \A b \in Browser : cookie'[b].session # r
                 /\ \A v \in Tab \ {u} : ~Carries(v, r)'
      <4>1. CASE u = t
        <5>1. \A v \in Tab \ {t} : ~Carries(v, s)
          BY <1>3, <1>8, TabShape DEF Held
        <5>. QED  BY <1>2, <1>5, <1>6, <1>8, <2>2, <3>1, <4>1, <5>1 DEF Held
      <4>2. CASE u # t
        <5>1. Entering(u) /\ call[u].session = r
          BY <1>6, <3>1, <4>2 DEF Entering
        <5>2. r # s
          BY <1>3, <1>8, <5>1, TabShape DEF Held, Carries
        <5>. QED  BY <1>2, <1>3, <1>5, <2>2, <2>3, <5>1, <5>2 DEF CookiesInv, EntriesAreNew
      <4>. QED  BY <4>1, <4>2
    <3>. QED  BY <3>1 DEF EntriesAreNew
  <2>7. ASSUME NEW b \in Browser \ unsettled' PROVE SettledIn(b)'
    <3>1. SettledIn(b) /\ cookie'[b] = cookie[b]
      BY <1>2, <1>3, <2>7 DEF CookiesInv, SettledIsCurrent
    <3>2. ASSUME NEW r \in Session, r # s
          PROVE  InForce(r)' => InForce(r) /\ stored'[r].turn = stored[r].turn
      BY <1>5, <3>2 DEF InForce
    <3>3. ASSUME NEW u \in Tab, BrowserOf(u)' = b, Refreshing(u)'
          PROVE  /\ BrowserOf(u) = b /\ Refreshing(u) /\ call'[u] = call[u]
                 /\ call[u].session # s
      BY <1>2, <1>6, <1>8, <2>1, <3>3 DEF Held, Carries, Refreshing, Entering
    <3>4. cookie[b].session # s
      BY <1>8 DEF Held
    <3>5. (\A u \in Tab : BrowserOf(u)' = b => ~Refreshing(u)')
             => Present(cookie[b].session, cookie[b].turn)'
      <4>1. HAVE \A u \in Tab : BrowserOf(u)' = b => ~Refreshing(u)'
      <4>2. Present(cookie[b].session, cookie[b].turn)
        BY <2>1, <3>1, <4>1 DEF SettledIn
      <4>. QED  BY <3>1, <3>2, <3>4, <4>2 DEF Present
    <3>6. ASSUME NEW u \in Tab, BrowserOf(u)' = b
          PROVE  /\ call'[u].op \in {"refresh", "rotate"} =>
                       \/ cookie'[b].session = Nothing
                       \/ /\ cookie'[b].session = call'[u].session
                          /\ cookie'[b].turn = call'[u].with
                          /\ Present(call[u].session, call[u].with)'
                 /\ call'[u].op = "rotated" => Present(call[u].session, call[u].with)'
      <4>1. SUFFICES ASSUME Refreshing(u)'
                     PROVE  /\ call'[u].op \in {"refresh", "rotate"} =>
                                  \/ cookie'[b].session = Nothing
                                  \/ /\ cookie'[b].session = call'[u].session
                                     /\ cookie'[b].turn = call'[u].with
                                     /\ Present(call[u].session, call[u].with)'
                            /\ call'[u].op = "rotated" => Present(call[u].session, call[u].with)'
        BY DEF Refreshing
      <4>2. BrowserOf(u) = b /\ Refreshing(u) /\ call'[u] = call[u] /\ call[u].session # s
        BY <3>3, <3>6, <4>1
      <4>3. Present(call[u].session, call[u].with) => Present(call[u].session, call[u].with)'
        BY <3>2, <4>2 DEF Present
      <4>. QED  BY <3>1, <4>2, <4>3 DEF SettledIn
    <3>7. ASSUME NEW u \in Tab, NEW v \in Tab, BrowserOf(u)' = b, BrowserOf(v)' = b,
                 Refreshing(u)', Refreshing(v)'
          PROVE  u = v
      BY <2>1, <3>1, <3>7 DEF SettledIn
    <3>. QED  BY <3>5, <3>6, <3>7 DEF SettledIn
  <2>. QED  BY <2>5, <2>6, <2>7 DEF CookiesInv, SettledIsCurrent
<1>. QED  BY <1>7, <1>9, <1>10 DEF SessionsInv


LEMMA NoSessionStep ==
    ASSUME SessionsInv, UNCHANGED sessionVars
    PROVE  SessionsInv'
<1>1. UNCHANGED person /\ UNCHANGED stored /\ UNCHANGED cookie /\ UNCHANGED tab
      /\ UNCHANGED call /\ UNCHANGED authenticator /\ UNCHANGED excused /\ UNCHANGED unsettled
  BY DEF sessionVars
<1>2. ShapesOK'
  BY <1>1 DEF SessionsInv, ShapesOK, SessionsTypeOK, CallOK, TabOK, Entering, KeyIsInTheApp
<1>3. PasswordsInv'
  BY <1>1 DEF SessionsInv, PasswordsInv, NoneWhileSuspended, InForce, ChangeIsPending, Current,
     WelcomeAhead, Admissible
<1>4. /\ \A s \in Session, t \in Tab : Carries(t, s)' <=> Carries(t, s)
      /\ \A t \in Tab : /\ Entering(t)' <=> Entering(t)
                        /\ Refreshing(t)' <=> Refreshing(t)
                        /\ BrowserOf(t)' = BrowserOf(t)
      /\ \A s, n : Present(s, n)' <=> Present(s, n)
  BY <1>1 DEF Carries, Refreshing, Entering, Present, InForce, BrowserOf
<1>5. OneBrowser'
  <2>1. \A s \in Session, b \in Browser : Held(b, s)' <=> Held(b, s)
    BY <1>1, <1>4 DEF Held
  <2>. QED  BY <1>1, <2>1 DEF SessionsInv, CookiesInv, OneBrowser
<1>6. EntriesAreNew'
  BY <1>1, <1>4 DEF SessionsInv, CookiesInv, EntriesAreNew
<1>7. SettledIsCurrent'
  <2>1. ASSUME NEW b \in Browser, SettledIn(b) PROVE SettledIn(b)'
    BY <1>1, <2>1 DEF SettledIn, Refreshing, BrowserOf, Present, InForce
  <2>. QED  BY <1>1, <2>1 DEF SessionsInv, CookiesInv, SettledIsCurrent
<1>8. CookiesInv'
  BY <1>5, <1>6, <1>7 DEF CookiesInv
<1>. QED  BY <1>2, <1>3, <1>8 DEF SessionsInv

\* The strengthened invariant of one person's sessions holds of every run.
THEOREM SessionsInvariant == SessionsSpec => []SessionsInv
<1>1. SessionsInv /\ [SessionsNext]_sessionVars => SessionsInv'
  <2> SUFFICES ASSUME SessionsInv, [SessionsNext]_sessionVars PROVE SessionsInv'
    OBVIOUS
  <2>1. CASE UNCHANGED sessionVars
    BY <2>1, NoSessionStep
  <2>2. CASE Entrances
    BY <2>2, SignInStep, EnteredStep, CreateSessionStep DEF Entrances
  <2>3. CASE Visits
    BY <2>3, OpenStep, ReadRefreshStep, RotateStep, RefreshedStep, RefreshLostStep, BootstrapStep
       DEF Visits
  <2>4. CASE Exits
    BY <2>4, LogOutStep, LogOutAllStep, RevokeSessionStep DEF Exits
  <2>5. CASE Changes
    BY <2>5, VisitPasswordStep, CheckPasswordStep, ChangePasswordStep, RevokeOthersStep,
       ChangeCutOffStep, ResetPasswordStep DEF Changes
  <2>6. CASE Suspensions
    BY <2>6, SuspensionsStep
  <2>7. CASE Days
    BY <2>7, DaysStep
  <2>8. CASE Keys
    BY <2>8, KeysStep
  <2>. QED  BY <2>1, <2>2, <2>3, <2>4, <2>5, <2>6, <2>7, <2>8 DEF SessionsNext
<1>. QED  BY <1>1, SessionsStart, PTL DEF SessionsSpec

-----------------------------------------------------------------------------
(***************************************************************************)
(* The back office: administration, prices and sessions side by side.      *)
(***************************************************************************)
\* A run of the back office is one of each of its three components.
LEMMA EachGoesItsWay ==
    BackOfficeSpec => AdminSpec /\ PricesSpec /\ SessionsSpec
<1>1. BackOfficeInit => AdminInit /\ PricesInit /\ SessionsInit
  BY DEF BackOfficeInit
<1>2. [BackOfficeNext]_backOfficeVars =>
         [AdminNext]_adminVars /\ [PricesNext]_priceVars /\ [SessionsNext]_sessionVars
  BY DEF BackOfficeNext, backOfficeVars
<1>. QED  BY <1>1, <1>2, PTL DEF BackOfficeSpec, AdminSpec, PricesSpec, SessionsSpec

(***************************************************************************)
(* Prices are prices, and a page of prices waits exactly while its save is *)
(* under way, also when its loads and those of others cross.               *)
(***************************************************************************)
THEOREM PricesTypeCorrect == PricesSpec => []PricesTypeOK
<1>1. PricesInv => PricesTypeOK
  BY DEF PricesInv, PricesTypeOK, WaitsForOne, Text
<1>. QED  BY <1>1, PricesInvariant, PTL

(***************************************************************************)
(* Any number of pages may save any weeks' prices at once, stop half way   *)
(* and load again: a price is the one last typed for its item and week,    *)
(* with the page turned to it, unless it came from a row that was loaded   *)
(* or typed for another week, or that the page sent untyped after it had   *)
(* been stored anew.                                                       *)
(***************************************************************************)
THEOREM PricesStayTheOnesTyped == PricesSpec => []PricesAreTheOnesTyped
<1>1. PricesInv => PricesAreTheOnesTyped
  BY DEF PricesInv
<1>. QED  BY <1>1, PricesInvariant, PTL

(***************************************************************************)
(* The person, the sessions, the tabs and the cookies keep their types.    *)
(***************************************************************************)
THEOREM SessionsTypeCorrect == SessionsSpec => []SessionsTypeOK
<1>1. SessionsInv => SessionsTypeOK
  BY DEF SessionsInv, ShapesOK
<1>. QED  BY <1>1, SessionsInvariant, PTL

(***************************************************************************)
(* With any number of browsers and tabs: old sessions stay closed after a  *)
(* change of the password or a block, whoever is signed in keeps the       *)
(* cookie of the present token, nobody is let into the application who     *)
(* must change the password first, and a key in force is in the app.       *)
(***************************************************************************)
THEOREM SessionsStaySound == SessionsSpec => []SessionsAreSound
<1>1. SessionsInv => SessionsAreSound
  BY SessionsInvImplies
<1>. QED  BY <1>1, SessionsInvariant, PTL

(***************************************************************************)
(* The types of all three, whatever order their steps come in.             *)
(***************************************************************************)
THEOREM BackOfficeTypesCorrect == BackOfficeSpec => []TypesOK
<1>1. AdminTypeOK /\ PricesTypeOK /\ SessionsTypeOK => TypesOK
  BY DEF TypesOK
<1>. QED
  BY <1>1, EachGoesItsWay, AdminTypeCorrect, PricesTypeCorrect, SessionsTypeCorrect, PTL

(***************************************************************************)
(* The key of the settings and the retail prices are the ones last typed,  *)
(* with the exceptions of the two: a save without a key that overlaps      *)
(* another, prices from rows of another week or behind what is stored.     *)
(***************************************************************************)
THEOREM WhatWasTypedStays == BackOfficeSpec => []WhatIsTypedIsKept
<1>1. KeyIsTheOneTyped /\ PricesAreTheOnesTyped => WhatIsTypedIsKept
  BY DEF WhatIsTypedIsKept
<1>. QED  BY <1>1, EachGoesItsWay, KeyStaysTheOneTyped, PricesStayTheOnesTyped, PTL

-----------------------------------------------------------------------------
(***************************************************************************)
(* The pages of the back office, as they are when they have been loaded.   *)
(***************************************************************************)
\* Whoever may not go, or lose the role, is the only director.
LEMMA OnlyDirector ==
    ASSUME NEW u \in User, "DIRECTOR" \in roles[u], ~SpareDirector
    PROVE  Directors = {u}
<1>1. u \in Directors /\ IsFiniteSet(Directors)
  BY StaffAssumption, FS_Subset DEF Directors
<1>2. IsFiniteSet(Directors \ {u}) /\ Cardinality(Directors) = Cardinality(Directors \ {u}) + 1
  <2>1. /\ IsFiniteSet(Directors \ {u})
        /\ Cardinality(Directors \ {u}) =
              IF u \in Directors THEN Cardinality(Directors) - 1 ELSE Cardinality(Directors)
    BY <1>1, FS_RemoveElement
  <2>2. Cardinality(Directors) \in Nat
    BY <1>1, FS_CardinalityType
  <2>. QED  BY <1>1, <2>1, <2>2
<1>3. Cardinality(Directors \ {u}) \in Nat
  BY <1>2, FS_CardinalityType
<1>4. Cardinality(Directors \ {u}) = 0
  BY <1>2, <1>3 DEF SpareDirector
<1>5. Directors \ {u} = {}
  BY <1>2, <1>4, FS_EmptySet
<1>. QED  BY <1>1, <1>5

\* The cards of the staff offer what the server takes.
LEMMA StaffPageOffers == StaffPageServes
<1> SUFFICES ASSUME NEW u \in DOMAIN UsersPage
             PROVE  LET card == UsersPage[u]
                    IN  /\ \A R \in RoleChoices : R \in card.roles <=> RolesFit(u, R)
                        /\ \A R \in card.roles : ~KeepsDirector(u, R) => Directors = {u}
                        /\ \A a \in card.access :
                              ~AccessFits(u, a) <=> "FLORIST" \in roles[u] /\ a.stores = {}
                        /\ ~(card.block /\ card.unblock)
  BY DEF StaffPageServes
<1>1. u \in User /\ UsersPage[u] = UserCard(u)
  BY DEF UsersPage
<1>2. /\ UserCard(u).roles = RoleOffers(u) /\ UserCard(u).access = AccessOffers(u)
      /\ UserCard(u).block = CanBlock(u) /\ UserCard(u).unblock = CanUnblock(u)
  BY DEF UserCard
<1>3. \A R \in RoleChoices : R \in RoleOffers(u) <=> RolesFit(u, R)
  BY DEF RoleOffers, RolesFit, HasStores, FloristBound
<1>4. \A R \in RoleOffers(u) : ~KeepsDirector(u, R) => Directors = {u}
  BY <1>1, OnlyDirector DEF KeepsDirector
<1>5. \A a \in AccessOffers(u) : ~AccessFits(u, a) <=> "FLORIST" \in roles[u] /\ a.stores = {}
  <2>1. \A a \in AccessOffers(u) : a = AllStores \/ \E S : a = Selected(S)
    BY DEF AccessOffers, ModeOffers, StoreOffers
  <2>2. AllStores.mode # "SELECTED_STORES" /\ AllStores.stores = {}
    BY DEF AllStores
  <2>3. \A S : Selected(S).mode = "SELECTED_STORES" /\ Selected(S).stores = S
    BY DEF Selected
  <2>. QED  BY <2>1, <2>2, <2>3 DEF AccessFits, FloristBound
<1>6. ~(CanBlock(u) /\ CanUnblock(u))
  BY DEF CanBlock, CanUnblock
<1>. QED  BY <1>1, <1>2, <1>3, <1>4, <1>5, <1>6

\* The forms of the catalogue, and the editor of recipes.
LEMMA CatalogPagesOffer ==
    ASSUME CatalogTypeOK, CatalogReferencesHold
    PROVE  CatalogPagesServe
<1>1. \A form \in ItemForm \cup BouquetForm : \A x \in form[2] : Available(x) \/ Wanting(x)
  <2>1. \A parts \in DefaultParts : \A x \in parts : Available(x) \/ Wanting(x)
    BY DEF DefaultParts, DefaultCategories, DefaultUnits, DefaultPolicies
  <2>2. \A form \in ItemForm \cup BouquetForm : form[2] \in DefaultParts
    BY DEF ItemForm, BouquetForm
  <2>. QED  BY <2>1, <2>2
<1>2. ASSUME DefaultParts = {}
      PROVE  \/ DefaultUnit \in archived \/ ~Stored(DefaultUnit)
             \/ \A y \in Policy : ~Available(y)
             \/ \A c \in Category : record[c] # "UNBORN"
  <2>1. DefaultCategories = {} \/ DefaultUnits = {} \/ DefaultPolicies = {}
    <3> SUFFICES ASSUME NEW c \in DefaultCategories, NEW m \in DefaultUnits,
                        NEW y \in DefaultPolicies
                 PROVE  FALSE
      OBVIOUS
    <3>1. {c, m, y} \in DefaultParts
      BY DEF DefaultParts
    <3>. QED  BY <1>2, <3>1
  <2>2. CASE DefaultCategories = {}
    <3>1. \A c \in Category : ~Available(c) /\ ~Wanting(c)
      BY <2>2 DEF DefaultCategories
    <3>. QED  BY <3>1 DEF Wanting
  <2>3. CASE DefaultUnits = {}
    BY <2>3, AdminPagesAssumption DEF DefaultUnits, Available
  <2>4. CASE DefaultPolicies = {}
    BY <2>4 DEF DefaultPolicies
  <2>. QED  BY <2>1, <2>2, <2>3, <2>4
<1>3. \A c \in CategoryForm \ {None} : Stored(c)
  BY DEF CategoryForm, CategoriesPage, Rows, Available
<1>4. ASSUME NEW b \in BouquetCards, NEW C \in BouquetCard(b).recipes
      PROVE  ~RecipeFits(C) <=> C \cap archived \cap EditorStarts(b) # {}
  <2>1. b \in Bouquet /\ C \subseteq EditorStarts(b) \cup ComponentOptions
    BY DEF BouquetCards, BouquetCard, EditorOffers
  <2>2. \A x \in ComponentOptions : Available(x) /\ x \notin Bouquet
    BY DEF ComponentOptions
  <2>3. \A x \in EditorStarts(b) : Stored(x) /\ x \notin Bouquet
    BY <2>1 DEF EditorStarts, CatalogTypeOK, CatalogReferencesHold
  <2>4. \A x \in C : x \notin Bouquet /\ (~Available(x) <=> x \in archived \cap EditorStarts(b))
    BY <2>1, <2>2, <2>3 DEF Available
  <2>. QED  BY <2>4 DEF RecipeFits
<1>. QED  BY <1>1, <1>2, <1>3, <1>4 DEF CatalogPagesServe

\* A record of the catalogue has its button unless it is archived.
LEMMA PartButton ==
    ASSUME NEW e \in Part, Stored(e)
    PROVE  /\ HasDeleteButton(e) <=> e \notin Unit /\ e \notin archived
           /\ Shown(e) <=> e \notin Unit
<1> USE TablesAssumption, CatalogAssumption
<1>1. /\ e \notin User /\ e \notin Item /\ e \notin Bouquet
      /\ e \notin Supplier /\ e \notin Customer /\ e \notin PaymentMethod
  BY DEF Contact
<1>2. /\ HasDeleteButton(e) <=> e \in PageOf(e).deletable
      /\ Shown(e) <=> e \in PageOf(e).shown
  BY <1>1 DEF HasDeleteButton, Shown, ItemDetailButton, SupplierDetailButton
<1>3. CASE e \in Category
  <2>1. PageOf(e) = CategoriesPage /\ e \notin Unit
    BY <1>1, <1>3 DEF PageOf
  <2>. QED  BY <1>2, <1>3, <2>1 DEF CategoriesPage, Rows, Available
<1>4. CASE e \in Policy
  <2>1. PageOf(e) = PoliciesPage /\ e \notin Unit
    BY <1>1, <1>4 DEF PageOf
  <2>. QED  BY <1>2, <1>4, <2>1 DEF PoliciesPage, Rows, Available
<1>5. CASE e \in Unit
  <2>1. PageOf(e) = Rows({}, {})
    BY <1>1, <1>5 DEF PageOf
  <2>. QED  BY <1>2, <1>5, <2>1 DEF Rows
<1>. QED  BY <1>3, <1>4, <1>5 DEF Part

LEMMA ItemButton ==
    ASSUME NEW i \in Item, Stored(i)
    PROVE  /\ HasDeleteButton(i) <=> i \notin archived
           /\ Shown(i) <=> i \notin archived \cap Bouquet
<1> USE TablesAssumption, CatalogAssumption
<1>1. /\ i \notin User /\ i \notin Category /\ i \notin Policy
      /\ i \notin Supplier /\ i \notin Customer /\ i \notin PaymentMethod
  BY DEF Contact, Part
<1>2. /\ HasDeleteButton(i) <=> i \in PageOf(i).deletable \/ ItemDetailButton(i)
      /\ Shown(i) <=> i \in PageOf(i).shown
  BY <1>1 DEF HasDeleteButton, Shown, SupplierDetailButton
<1>3. CASE i \in Bouquet
  <2>1. PageOf(i) = BouquetCatalogPage
    BY <1>1, <1>3 DEF PageOf
  <2>. QED
    BY <1>2, <1>3, <2>1 DEF BouquetCatalogPage, BouquetCards, Rows, Available, ItemDetailButton
<1>4. CASE i \notin Bouquet
  <2>1. PageOf(i) = ItemsPage
    BY <1>1, <1>4 DEF PageOf
  <2>. QED
    BY <1>2, <1>4, <2>1 DEF ItemsPage, ItemsShown, Rows, Available, ItemDetailButton
<1>. QED  BY <1>3, <1>4

LEMMA ContactButton ==
    ASSUME NEW e \in Contact, Stored(e)
    PROVE  Shown(e) /\ (HasDeleteButton(e) <=> e \notin retired)
<1> USE TablesAssumption, CatalogAssumption
<1>1. e \notin User /\ e \notin Part /\ e \notin Item /\ e \notin Bouquet
  OBVIOUS
<1>2. e \notin Category /\ e \notin Policy
  BY <1>1 DEF Part
<1>3. /\ HasDeleteButton(e) <=> e \in PageOf(e).deletable \/ SupplierDetailButton(e)
      /\ Shown(e) <=> e \in PageOf(e).shown
  BY <1>1 DEF HasDeleteButton, Shown, ItemDetailButton
<1>4. CASE e \in Supplier
  <2>1. PageOf(e) = SuppliersPage
    BY <1>1, <1>2, <1>4 DEF PageOf
  <2>. QED  BY <1>3, <1>4, <2>1 DEF SuppliersPage, SupplierDetailButton, Rows, Usable
<1>5. CASE e \in Customer
  <2>1. PageOf(e) = CustomersPage /\ e \notin Supplier
    BY <1>1, <1>2, <1>5 DEF PageOf
  <2>. QED  BY <1>3, <1>5, <2>1 DEF CustomersPage, SupplierDetailButton, Rows, Usable
<1>6. CASE e \in PaymentMethod
  <2>1. PageOf(e) = PaymentMethodsPage /\ e \notin Supplier
    BY <1>1, <1>2, <1>6 DEF PageOf
  <2>. QED  BY <1>3, <1>6, <2>1 DEF PaymentMethodsPage, SupplierDetailButton, Rows, Usable
<1>. QED  BY <1>4, <1>5, <1>6 DEF Contact

\* Whatever has a button can be deleted unless it is in use, and what has none is
\* archived or is a unit, which nobody can delete.
LEMMA DeletionPagesOffer == DeletionPagesServe
<1> USE TablesAssumption, CatalogAssumption
<1>1. \A k \in Ticket, all \in BOOLEAN : Reviewable(k) <=> k \in DeletionRequestsPage(all)
  <2>1. \A k \in Ticket : Pending(k) => Filed(k)
    BY DEF Pending, Filed, Blank
  <2>. QED  BY <2>1 DEF Reviewable, Pending, DeletionRequestsPage, QueueShows
<1>2. \A form \in CustomerForm :
         ~Free(form[2]) => \E c \in CustomersPage.shown : phone[c] = form[2]
  BY DEF Free, CustomersPage, Rows
<1>3. ASSUME NEW e \in Records, Stored(e)
      PROVE  /\ IF HasDeleteButton(e) THEN Approvable(e) \/ InUse(e)
                ELSE \/ ~Approvable(e) \/ e \in archived \cup retired
                     \/ e \in User /\ account[e] = "ARCHIVED"
             /\ ~Shown(e) <=> e \in Unit \cup (archived \cap Bouquet)
  <2>1. Erasable \subseteq Part \cup Item /\ Unit \subseteq Part /\ Bouquet \subseteq Item
    BY DEF Erasable, Part
  <2>2. CASE e \in User
    <3>1. e \notin Part /\ e \notin Item /\ e \notin Contact
      BY <2>2
    <3>2. Approvable(e) <=> MayLeave(e) /\ ~session[e]
      BY <2>1, <2>2, <3>1 DEF Approvable
    <3>3. InUse(e) <=> session[e] \/ Directors = {e}
      BY <2>2, <3>1 DEF InUse
    <3>4. ~MayLeave(e) => Directors = {e}
      BY <2>2, OnlyDirector DEF MayLeave
    <3>5. Shown(e) /\ (HasDeleteButton(e) <=> account[e] # "ARCHIVED")
      BY <1>3, <2>2 DEF Shown, HasDeleteButton, UserButton
    <3>. QED  BY <2>1, <2>2, <3>1, <3>2, <3>3, <3>4, <3>5
  <2>3. CASE e \in Part \cup Item
    <3>1. e \notin User /\ e \notin Contact
      BY <2>3
    <3>2. Approvable(e) <=> e \in Erasable /\ Removable(e)
      BY <3>1 DEF Approvable
    <3>3. InUse(e) <=> Counted(e)
      BY <2>3, <3>1 DEF InUse, Counted, Referenced
    <3>4. e \in Erasable <=> e \notin Unit
      BY <2>3 DEF Erasable, Part
    <3>5. /\ HasDeleteButton(e) <=> e \notin Unit /\ e \notin archived
          /\ ~Shown(e) <=> e \in Unit \cup (archived \cap Bouquet)
      <4>1. CASE e \in Part
        <5>1. e \notin Bouquet
          BY <2>1, <4>1
        <5>. QED  BY <1>3, <4>1, <5>1, PartButton
      <4>2. CASE e \in Item
        <5>1. e \notin Unit
          BY <2>1, <4>2
        <5>. QED  BY <1>3, <4>2, <5>1, ItemButton
      <4>. QED  BY <2>3, <4>1, <4>2
    <3>. QED  BY <3>2, <3>3, <3>4, <3>5 DEF Removable
  <2>4. CASE e \in Contact
    <3>1. e \notin User /\ e \notin Part /\ e \notin Item
      BY <2>4
    <3>2. Approvable(e) <=> e \notin taken
      BY <2>1, <2>4, <3>1 DEF Approvable, Forgettable
    <3>3. InUse(e) <=> e \in taken
      BY <2>4, <3>1 DEF InUse
    <3>. QED  BY <1>3, <2>1, <2>4, <3>1, <3>2, <3>3, ContactButton
  <2>. QED  BY <1>3, <2>2, <2>3, <2>4 DEF Records
<1>. QED  BY <1>1, <1>2, <1>3 DEF DeletionPagesServe

(***************************************************************************)
(* In every state that requests can bring about, and for any records, what *)
(* the freshly loaded pages offer is what the server takes, with the       *)
(* exceptions that the property names: the invariants of the records leave *)
(* an editor of recipes no component that is not stored, or a bouquet.     *)
(***************************************************************************)
THEOREM AdminPagesAlwaysServe == BackOfficeSpec => []AdminPagesServe
<1>1. IInv => AdminPagesServe
  BY StaffPageOffers, CatalogPagesOffer, DeletionPagesOffer
     DEF IInv, CatalogInv, AdminPagesServe
<1>. QED  BY <1>1, EachGoesItsWay, AdminInvariant, PTL

-----------------------------------------------------------------------------
(***************************************************************************)
(* Delivery: the jobs of one order and their couriers.                     *)
(***************************************************************************)
\* Stuttering keeps the types.
LEMMA Stuttering ==
    ASSUME TypeOK, UNCHANGED vars
    PROVE  TypeOK'
  BY DEF TypeOK, Exists, vars, orderVars, jobVars

\* Setting the status of a job to one of delivery's keeps the statuses.
LEMMA SetStatusType ==
    ASSUME status \in [Job -> DeliveryStatus], NEW j \in Job, NEW s \in DeliveryStatus,
           SetStatus(j, s)
    PROVE  /\ status' \in [Job -> DeliveryStatus]
           /\ status'[j] = s
           /\ \A i \in Job \ {j} : status'[i] = status[i]
  BY DEF SetStatus

\* A job that was not cancelled before may take any status and stays the only
\* one; so may any job if no other is active, and any may be cancelled.
LEMMA StaysOnly ==
    ASSUME TypeOK, NEW j \in Job, NEW s \in DeliveryStatus, SetStatus(j, s),
           Exists(j) \/ s = "CANCELLED" \/ Active \subseteq {j}
    PROVE  \A i, k \in Job : Exists(i)' /\ Exists(k)' => i = k
<1>1. status \in [Job -> DeliveryStatus] /\ \A i, k \in Job : Exists(i) /\ Exists(k) => i = k
  BY DEF TypeOK
<1>2. /\ status'[j] = s
      /\ \A i \in Job \ {j} : status'[i] = status[i]
  BY <1>1, SetStatusType
<1>3. \A i \in Job \ {j} : Exists(i)' <=> Exists(i)
  BY <1>2 DEF Exists
<1>4. CASE Exists(j)
  BY <1>1, <1>3, <1>4
<1>5. CASE s = "CANCELLED"
  BY <1>1, <1>2, <1>3, <1>5 DEF Exists
<1>6. CASE Active \subseteq {j}
  BY <1>3, <1>6 DEF Exists, Active
<1>. QED  BY <1>4, <1>5, <1>6

\* What is created, and not cancelled, exists.
LEMMA FromExists ==
    ASSUME NEW j \in Job,
           status[j] \in PlanFrom \cup Assignable \cup ReadyDispatchFrom \cup TransitFrom
                         \cup DeliverFrom \cup ProblemFrom \cup CancelFrom
    PROVE  Exists(j)
  BY DEF Exists, PlanFrom, Assignable, ReadyDispatchFrom, TransitFrom, Dispatchable,
         DeliverFrom, ProblemFrom, CancelFrom

\* The columns of a job that a status change leaves to the action.
Columns ==
    /\ courier \in [Job -> Courier \cup {NoCourier}]
    /\ assignment \in [Job -> Courier \cup {NoCourier}]
    /\ external \in [Job -> BOOLEAN]
    /\ handedOver \in [Job -> BOOLEAN]
    /\ reported \in [Job -> BOOLEAN]
    /\ active \subseteq Courier
    /\ revived \subseteq Job

\* An action on one job that may take the status keeps the types.
LEMMA JobStepType ==
    ASSUME TypeOK, NEW j \in Job, NEW s \in DeliveryStatus, SetStatus(j, s),
           Exists(j) \/ s = "CANCELLED" \/ Active \subseteq {j},
           UNCHANGED orderVars, Columns'
    PROVE  TypeOK'
<1>1. status' \in [Job -> DeliveryStatus]
  BY SetStatusType DEF TypeOK
<1>2. \A i, k \in Job : Exists(i)' /\ Exists(k)' => i = k
  BY StaysOnly
<1>. QED  BY <1>1, <1>2 DEF TypeOK, Columns, orderVars

(***************************************************************************)
(* Type correctness is inductive.                                          *)
(***************************************************************************)
LEMMA TypeStep == TypeOK /\ [Next]_vars => TypeOK'
<1>. SUFFICES ASSUME TypeOK, [Next]_vars  PROVE TypeOK'
  OBVIOUS
<1>c. Columns
  BY DEF TypeOK, Columns
<1>1. ASSUME NEW from, NEW to \in OrderStatus, MoveOrder(from, to)  PROVE TypeOK'
  BY <1>1 DEF TypeOK, MoveOrder, jobVars, Exists
<1>2. CASE CreateOrder \/ StartPreparation \/ CompleteOrder \/ RevertOrderToReady
           \/ CancelOrder \/ MarkReady
  BY <1>1, <1>2 DEF CreateOrder, StartPreparation, CompleteOrder, RevertOrderToReady,
                    CancelOrder, MarkReady, OrderStatus
<1>3. CASE MarkReadyFails \/ SwitchToPickupFails \/ SwitchToDeliveryFails
  BY <1>3 DEF MarkReadyFails, SwitchToPickupFails, SwitchToDeliveryFails, NestedTransaction,
              TypeOK, orderVars, jobVars, Exists
<1>4. CASE UpdateDraftType
  BY <1>4 DEF UpdateDraftType, TypeOK, jobVars, Exists
<1>5. ASSUME NEW j \in Job, NEW x \in BOOLEAN, CreateDeliveryFromOrder(j, x)  PROVE TypeOK'
  <2>1. SetStatus(j, "DRAFT") /\ Active \subseteq {j} /\ "DRAFT" \in DeliveryStatus
    BY <1>5 DEF CreateDeliveryFromOrder, DeliveryStatus
  <2>2. UNCHANGED orderVars /\ Columns'
    BY <1>5, <1>c DEF CreateDeliveryFromOrder, Columns
  <2>. QED  BY <2>1, <2>2, JobStepType
<1>6. ASSUME NEW j \in Job, NEW x \in BOOLEAN, PlanDelivery(j, x)  PROVE TypeOK'
  <2>1. SetStatus(j, "PLANNED") /\ Exists(j) /\ "PLANNED" \in DeliveryStatus
    BY <1>6, FromExists DEF PlanDelivery, DeliveryStatus
  <2>2. UNCHANGED orderVars /\ Columns'
    BY <1>6, <1>c DEF PlanDelivery, Columns
  <2>. QED  BY <2>1, <2>2, JobStepType
<1>7. ASSUME NEW j \in Job, NEW c \in Courier, AssignCourier(j, c)  PROVE TypeOK'
  <2>1. SetStatus(j, StatusAfterAssign(status[j])) /\ Exists(j)
    BY <1>7, FromExists DEF AssignCourier
  <2>2. StatusAfterAssign(status[j]) \in DeliveryStatus
    BY DEF StatusAfterAssign, DeliveryStatus
  <2>3. UNCHANGED orderVars /\ Columns'
    BY <1>7, <1>c DEF AssignCourier, Assign, Columns
  <2>. QED  BY <2>1, <2>2, <2>3, JobStepType
<1>8. ASSUME NEW j \in Job, ReleaseCourier(j)  PROVE TypeOK'
  <2> DEFINE s == IF status[j] = "ASSIGNED" THEN "PLANNED" ELSE status[j]
  <2>1. SetStatus(j, s)
    BY <1>8 DEF ReleaseCourier
  <2>2. Exists(j) \/ s = "CANCELLED"
    BY <1>8 DEF ReleaseCourier, Exists
  <2>3. s \in DeliveryStatus
    BY DEF TypeOK, DeliveryStatus
  <2>4. UNCHANGED orderVars /\ Columns'
    BY <1>8, <1>c DEF ReleaseCourier, Unassign, Assign, Columns
  <2>. HIDE DEF s
  <2>. QED  BY <2>1, <2>2, <2>3, <2>4, JobStepType
<1>9. ASSUME NEW j \in Job, MarkReadyForDispatch(j)  PROVE TypeOK'
  <2>1. SetStatus(j, "READY_FOR_DISPATCH") /\ Exists(j) /\ "READY_FOR_DISPATCH" \in DeliveryStatus
    BY <1>9, FromExists DEF MarkReadyForDispatch, DeliveryStatus
  <2>2. UNCHANGED orderVars /\ Columns'
    BY <1>9, <1>c DEF MarkReadyForDispatch, Columns
  <2>. QED  BY <2>1, <2>2, JobStepType
<1>10. ASSUME NEW j \in Job, Handover(j)  PROVE TypeOK'
  BY <1>10 DEF Handover, TypeOK, Exists, orderVars
<1>11. ASSUME NEW j \in Job, StartTransit(j)  PROVE TypeOK'
  <2>1. SetStatus(j, "IN_TRANSIT") /\ Exists(j) /\ "IN_TRANSIT" \in DeliveryStatus
    BY <1>11, FromExists DEF StartTransit, DeliveryStatus
  <2>2. UNCHANGED orderVars /\ Columns'
    BY <1>11, <1>c DEF StartTransit, Columns
  <2>. QED  BY <2>1, <2>2, JobStepType
<1>12. ASSUME NEW j \in Job, MarkDelivered(j)  PROVE TypeOK'
  <2>1. SetStatus(j, "DELIVERED") /\ Exists(j) /\ "DELIVERED" \in DeliveryStatus
    BY <1>12, FromExists DEF MarkDelivered, DeliveryStatus
  <2>2. UNCHANGED orderVars /\ Columns'
    BY <1>12, <1>c DEF MarkDelivered, Columns
  <2>. QED  BY <2>1, <2>2, JobStepType
<1>13. ASSUME NEW j \in Job, CancelDelivery(j)  PROVE TypeOK'
  <2>1. SetStatus(j, "CANCELLED") /\ "CANCELLED" \in DeliveryStatus
    BY <1>13 DEF CancelDelivery, DeliveryStatus
  <2>2. UNCHANGED orderVars /\ Columns'
    BY <1>13, <1>c DEF CancelDelivery, Unassign, Assign, Columns
  <2>. QED  BY <2>1, <2>2, JobStepType
<1>14. ASSUME NEW j \in Job, ReportProblem(j)  PROVE TypeOK'
  <2>1. SetStatus(j, "PROBLEM") /\ Exists(j) /\ "PROBLEM" \in DeliveryStatus
    BY <1>14, FromExists DEF ReportProblem, DeliveryStatus
  <2>2. UNCHANGED orderVars /\ Columns'
    BY <1>14, <1>c DEF ReportProblem, Columns
  <2>. QED  BY <2>1, <2>2, JobStepType
<1>15. ASSUME NEW j \in Job, NEW s \in ResolveTargets, ResolveProblem(j, s)  PROVE TypeOK'
  <2>1. SetStatus(j, s) /\ s \in DeliveryStatus /\ (s = "CANCELLED" \/ Active \subseteq {j})
    BY <1>15 DEF ResolveProblem, StaysUnique, ResolveTargets, DeliveryStatus
  <2>2. UNCHANGED orderVars /\ Columns'
    BY <1>15, <1>c DEF ResolveProblem, Columns
  <2>. QED  BY <2>1, <2>2, JobStepType
<1>16. ASSUME NEW c \in Courier, SyncCourierMembership(c)  PROVE TypeOK'
  BY <1>16 DEF SyncCourierMembership, TypeOK, Exists, orderVars, jobVars
<1>17. CASE UNCHANGED vars
  BY <1>17, Stuttering
<1>. QED
  BY <1>2, <1>3, <1>4, <1>5, <1>6, <1>7, <1>8, <1>9, <1>10, <1>11, <1>12, <1>13, <1>14,
     <1>15, <1>16, <1>17 DEF Next

(***************************************************************************)
(* The columns hold what they may, and at most one job of the order is not *)
(* cancelled, whatever problems of cancelled jobs are resolved.            *)
(***************************************************************************)
THEOREM TypeCorrect == Spec => []TypeOK
<1>1. Init => TypeOK
  BY DEF Init, TypeOK, OrderStatus, DeliveryStatus, Exists
<1>. QED  BY <1>1, TypeStep, PTL DEF Spec

(***************************************************************************)
(* The courier on the job is the one of the assignment still active: every *)
(* use case that writes one of the two rows writes the other.              *)
(***************************************************************************)
THEOREM CourierAlwaysAgrees == Spec => []CourierAgrees
<1>1. Init => CourierAgrees
  BY DEF Init, CourierAgrees
<1>2. TypeOK /\ CourierAgrees /\ [Next]_vars => CourierAgrees'
  <2>. SUFFICES ASSUME TypeOK, CourierAgrees, [Next]_vars  PROVE CourierAgrees'
    OBVIOUS
  <2>. USE DEF CourierAgrees
  <2>t. courier \in [Job -> Courier \cup {NoCourier}] /\ assignment \in [Job -> Courier \cup {NoCourier}]
    BY DEF TypeOK
  <2>1. ASSUME NEW j \in Job, NEW c, Assign(j, c)  PROVE CourierAgrees'
    BY <2>t, <2>1 DEF Assign
  <2>2. CASE \E j \in Job : \/ \E c \in Courier : AssignCourier(j, c)
                            \/ ReleaseCourier(j)
                            \/ CancelDelivery(j)
    BY <2>1, <2>2 DEF AssignCourier, ReleaseCourier, CancelDelivery, Unassign
  <2>3. CASE UNCHANGED <<courier, assignment>>
    BY <2>3
  <2>. QED
    BY <2>2, <2>3 DEF Next, vars, jobVars, MoveOrder, CreateOrder, StartPreparation,
       CompleteOrder, RevertOrderToReady, CancelOrder, MarkReady, MarkReadyFails,
       UpdateDraftType, SwitchToPickupFails, SwitchToDeliveryFails, NestedTransaction,
       CreateDeliveryFromOrder, PlanDelivery, MarkReadyForDispatch, Handover, StartTransit,
       MarkDelivered, ReportProblem, ResolveProblem, SyncCourierMembership
<1>. QED  BY <1>1, <1>2, TypeCorrect, PTL DEF Spec

\* A job keeps its status but for the one that a use case is about.
LEMMA StatusMoves ==
    ASSUME TypeOK, [Next]_vars, NEW i \in Job, status'[i] # status[i]
    PROVE  \/ status[i] = "NONE" /\ type = "DELIVERY" /\ UNCHANGED <<type, revived>>
           \/ /\ Exists(i)
              /\ status[i] # "DELIVERED"
              /\ status'[i] # "NONE"
              /\ UNCHANGED <<type, revived>>
           \/ \E s \in ResolveTargets : ResolveProblem(i, s) /\ status'[i] = s
<1>. status \in [Job -> DeliveryStatus]
  BY DEF TypeOK
<1>1. ASSUME NEW j \in Job, NEW s, SetStatus(j, s)
      PROVE  i = j /\ status'[i] = s
  BY <1>1 DEF SetStatus
<1>2. ASSUME NEW j \in Job, NEW x \in BOOLEAN, CreateDeliveryFromOrder(j, x)
      PROVE  status[i] = "NONE" /\ type = "DELIVERY" /\ UNCHANGED <<type, revived>>
  BY <1>1, <1>2 DEF CreateDeliveryFromOrder, orderVars
<1>3. ASSUME NEW j \in Job,
             \/ \E x \in BOOLEAN : PlanDelivery(j, x)
             \/ \E c \in Courier : AssignCourier(j, c)
             \/ ReleaseCourier(j)
             \/ MarkReadyForDispatch(j)
             \/ StartTransit(j)
             \/ MarkDelivered(j)
             \/ CancelDelivery(j)
             \/ ReportProblem(j)
      PROVE  Exists(i) /\ status[i] # "DELIVERED" /\ status'[i] # "NONE" /\ UNCHANGED <<type, revived>>
  BY <1>1, <1>3 DEF PlanDelivery, AssignCourier, ReleaseCourier, MarkReadyForDispatch,
     StartTransit, MarkDelivered, CancelDelivery, ReportProblem, StatusAfterAssign, PlanFrom,
     Assignable, ReadyDispatchFrom, TransitFrom, Dispatchable, DeliverFrom, ProblemFrom,
     CancelFrom, Exists, orderVars
<1>4. ASSUME NEW j \in Job, NEW s \in ResolveTargets, ResolveProblem(j, s)
      PROVE  ResolveProblem(i, s) /\ status'[i] = s
  BY <1>1, <1>4 DEF ResolveProblem
<1>5. ASSUME UNCHANGED status  PROVE FALSE
  BY <1>5
<1>. QED
  BY <1>2, <1>3, <1>4, <1>5 DEF Next, vars, jobVars, MoveOrder, CreateOrder, StartPreparation,
     CompleteOrder, RevertOrderToReady, CancelOrder, MarkReady, MarkReadyFails,
     UpdateDraftType, SwitchToPickupFails, SwitchToDeliveryFails, NestedTransaction,
     Handover, SyncCourierMembership

(***************************************************************************)
(* What is delivered or cancelled stays so, but for the resolution of a    *)
(* problem: no other use case starts from these two statuses.              *)
(***************************************************************************)
THEOREM FinalAlwaysStays == Spec => FinalStays
<1>1. TypeOK /\ [Next]_vars =>
        [\A j \in Job :
            status[j] \in {"DELIVERED", "CANCELLED"} /\ status'[j] # status[j] => reported[j]]_vars
  BY StatusMoves DEF Exists, ResolveProblem
<1>. QED  BY <1>1, TypeCorrect, PTL DEF Spec, FinalStays

\* Problems are reported of jobs that were created.
ReportedWereCreated == \A j \in Job : status[j] = "NONE" => ~reported[j]

(***************************************************************************)
(* An order that is picked up has no delivery but one that resolving a     *)
(* problem brought back.                                                   *)
(***************************************************************************)
THEOREM PickupNeverDelivers == Spec => []PickupHasNoDelivery
<1> DEFINE Inv == ReportedWereCreated /\ PickupHasNoDelivery
<1>1. Init => Inv
  BY DEF Init, ReportedWereCreated, PickupHasNoDelivery, Exists
<1>2. TypeOK /\ Inv /\ [Next]_vars => Inv'
  <2>. SUFFICES ASSUME TypeOK, Inv, [Next]_vars  PROVE Inv'
    OBVIOUS
  <2>. status \in [Job -> DeliveryStatus] /\ reported \in [Job -> BOOLEAN]
    BY DEF TypeOK
  <2>1. ReportedWereCreated'
    <3>. SUFFICES ASSUME NEW j \in Job, status'[j] = "NONE"  PROVE ~reported'[j]
      BY DEF ReportedWereCreated
    <3>1. status[j] = "NONE"
      BY StatusMoves DEF ResolveTargets
    <3>2. ~reported[j]
      BY <3>1 DEF ReportedWereCreated
    <3>3. CASE UNCHANGED reported
      BY <3>2, <3>3
    <3>4. ASSUME NEW i \in Job, ReportProblem(i)  PROVE i # j /\ reported'[j] = reported[j]
      BY <3>1, <3>4 DEF ReportProblem, ProblemFrom
    <3>. QED
      BY <3>2, <3>3, <3>4 DEF Next, vars, jobVars, MoveOrder, CreateOrder, StartPreparation,
         CompleteOrder, RevertOrderToReady, CancelOrder, MarkReady, MarkReadyFails,
         UpdateDraftType, SwitchToPickupFails, SwitchToDeliveryFails, NestedTransaction,
         CreateDeliveryFromOrder, PlanDelivery, AssignCourier, ReleaseCourier,
         MarkReadyForDispatch, Handover, StartTransit, MarkDelivered, CancelDelivery,
         ResolveProblem, SyncCourierMembership
  <2>2. PickupHasNoDelivery'
    <3>. SUFFICES ASSUME type' = "PICKUP", NEW j \in Job, Exists(j)'  PROVE j \in revived'
      BY DEF PickupHasNoDelivery
    <3>1. CASE status'[j] # status[j]
      <4>1. CASE \E s \in ResolveTargets : ResolveProblem(j, s) /\ status'[j] = s
        <5>1. PICK s \in ResolveTargets : ResolveProblem(j, s) /\ status'[j] = s
          BY <4>1
        <5>2. type = "PICKUP" /\ s # "CANCELLED" /\ status[j] # "NONE"
          BY <5>1 DEF ResolveProblem, orderVars, Exists, ReportedWereCreated
        <5>3. CASE status[j] = "CANCELLED"
          BY <5>1, <5>2, <5>3 DEF ResolveProblem
        <5>4. CASE status[j] # "CANCELLED"
          BY <5>1, <5>2, <5>4 DEF ResolveProblem, PickupHasNoDelivery, Exists
        <5>. QED  BY <5>3, <5>4
      <4>2. CASE Exists(j) /\ UNCHANGED <<type, revived>>
        BY <4>2 DEF PickupHasNoDelivery
      <4>. QED  BY <3>1, <4>1, <4>2, StatusMoves
    <3>2. CASE status'[j] = status[j]
      <4>1. Exists(j)
        BY <3>2 DEF Exists
      <4>2. CASE UpdateDraftType
        BY <3>2, <4>1, <4>2 DEF UpdateDraftType, Active, Exists
      <4>3. CASE type' = type /\ revived \subseteq revived'
        BY <4>1, <4>3 DEF PickupHasNoDelivery
      <4>4. \/ UpdateDraftType
            \/ type' = type /\ revived \subseteq revived'
        BY DEF Next, vars, orderVars, jobVars, MoveOrder, CreateOrder, StartPreparation,
           CompleteOrder, RevertOrderToReady, CancelOrder, MarkReady, MarkReadyFails,
           SwitchToPickupFails, SwitchToDeliveryFails, NestedTransaction,
           CreateDeliveryFromOrder, PlanDelivery, AssignCourier, ReleaseCourier,
           MarkReadyForDispatch, Handover, StartTransit, MarkDelivered, CancelDelivery,
           ReportProblem, ResolveProblem, SyncCourierMembership
      <4>. QED  BY <4>2, <4>3, <4>4
    <3>. QED  BY <3>1, <3>2
  <2>. QED  BY <2>1, <2>2
<1>3. Inv => PickupHasNoDelivery
  OBVIOUS
<1>. QED  BY <1>1, <1>2, <1>3, TypeCorrect, PTL DEF Spec

(***************************************************************************)
(* A job agrees with the assignment of its courier and with the type of    *)
(* its order.                                                              *)
(***************************************************************************)
THEOREM JobsAlwaysAgree == Spec => []JobsAgree
BY CourierAlwaysAgrees, PickupNeverDelivers, PTL DEF JobsAgree
=============================================================================
