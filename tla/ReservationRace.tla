--------------------------- MODULE ReservationRace ---------------------------
(***************************************************************************)
(* Reserving, releasing and issuing stock, statement by statement, in      *)
(* transactions that overlap.                                              *)
(*                                                                         *)
(* The inventory adapters run at READ COMMITTED.  A statement sees what    *)
(* was committed before it started and what its own transaction wrote; an  *)
(* UPDATE takes a row lock that is kept until the transaction ends, and    *)
(* waits for a row another transaction has locked.  The only lock taken on *)
(* purpose is SELECT ... FOR UPDATE on the balance row of an item; ACTIVE  *)
(* reservations are found without a lock and then updated by id, whatever  *)
(* has become of them.  PostgreSQL breaks a circular wait by aborting one  *)
(* of the waiting transactions.                                            *)
(*                                                                         *)
(* Each item has one batch here, so its remaining quantity is onHand: what *)
(* batches do to each other is StockLedger's subject.                      *)
(***************************************************************************)
EXTENDS Quantities, Integers, Sequences, Relation

CONSTANTS
    Tx,       \* transactions, each the work of one request
    Order,    \* orders
    Lines,    \* Lines[o]: the items of o's composition, in the order they are visited
    Item,     \* catalogue items
    Ops,      \* what requests do: "reserve", "release", "issue"
    MaxQty,   \* bound: the largest quantity of a line
    MaxStock  \* bound: the stock of an item at the start

\* A composition lists an item once (unique index on the composition items).
ASSUME RaceAssumption ==
    /\ IsFiniteSet(Tx) /\ "before" \notin Tx
    /\ IsFiniteSet(Order) /\ IsFiniteSet(Item)
    /\ Lines \in [Order -> Seq(Item)]
    /\ \A o \in Order : \A j, k \in DOMAIN Lines[o] : Lines[o][j] = Lines[o][k] => j = k
    /\ Ops \subseteq {"reserve", "release", "issue"}
    /\ MaxQty \in Nat /\ MaxStock \in Nat

VARIABLES
    row,      \* row[x]: quantity of reservation row x if it is ACTIVE, else 0 (committed)
    balance,  \* balance[i]: onHand and reserved of item i (committed)
    tx,       \* tx[t]: the state of transaction t
    collided  \* history: two requests for one order were under way at once

vars == <<row, balance, tx, collided>>

\* A reservation row: who created it ("before" the run, or a transaction), for
\* which line of which order.
Row == [by : Tx \cup {"before"}, order : Order, item : Item]
RowsOf(i) == {x \in Row : x.item = i}

Idle == [pc |-> "idle", op |-> "none", order |-> "none", want |-> <<>>,
         found |-> <<>>, next |-> 1, wrote |-> <<>>, locked |-> <<>>]
Ended(how) == [Idle EXCEPT !.pc = how]

\* f where it is defined, g elsewhere; a function of one value.
f ++ g == [x \in DOMAIN f \cup DOMAIN g |-> IF x \in DOMAIN f THEN f[x] ELSE g[x]]
Only(x, v) == [y \in {x} |-> v]

\* What t sees of the reservations, and of the balance of i.
Seen(t) == tx[t].wrote ++ row
SeenBalance(t, i) == (tx[t].locked ++ balance)[i]

\* A row is locked by the transaction that has written it and not yet ended;
\* the balance of an item by the one that selected it for update.
FreeRow(t, x) == \A u \in Tx \ {t} : x \notin DOMAIN tx[u].wrote
FreeBalance(t, i) == \A u \in Tx \ {t} : i \notin DOMAIN tx[u].locked

Active(t) == {x \in Row : x.order = tx[t].order /\ Seen(t)[x] > 0}

-----------------------------------------------------------------------------
\* Any ACTIVE reservations that the stock covers, and balances that know them.
Init ==
    /\ row \in [Row -> 0 .. MaxQty]
    /\ \A x \in Row : x.by # "before" => row[x] = 0
    /\ \E stock \in [Item -> 0 .. MaxStock] :
          /\ balance = [i \in Item |->
                [onHand |-> stock[i], reserved |-> TotalOn(row, RowsOf(i))]]
          /\ \A i \in Item : TotalOn(row, RowsOf(i)) <= stock[i]
    /\ tx = [t \in Tx |-> Idle]
    /\ collided = FALSE

RolledBack(t) ==
    /\ tx' = [tx EXCEPT ![t] = Ended("aborted")]
    /\ UNCHANGED <<row, balance, collided>>

Visited(t) == Lines[tx[t].order]

\* A request for order o begins.
Begin(t, o) ==
    /\ tx[t].pc = "idle"
    /\ \E op \in Ops, want \in [Item -> 1 .. MaxQty] :
          tx' = [tx EXCEPT ![t].pc = IF op = "issue" THEN "lines" ELSE "find",
                           ![t].op = op, ![t].order = o, ![t].want = want]
    /\ collided' = (collided \/ \E u \in Tx : tx[u].order = o)
    /\ UNCHANGED <<row, balance>>

\* releaseActiveForItems, findMany: the ACTIVE rows of the order's lines.
Find(t) ==
    /\ tx[t].pc = "find"
    /\ tx' = [tx EXCEPT ![t].pc = "release",
                        ![t].found = [x \in Active(t) |-> Seen(t)[x]]]
    /\ UNCHANGED <<row, balance, collided>>

\* Its loop: one row that was found becomes RELEASED, by id.
ReleaseRow(t) ==
    /\ tx[t].pc = "release"
    /\ \E x \in DOMAIN tx[t].found \ DOMAIN tx[t].wrote :
          /\ FreeRow(t, x)
          /\ tx' = [tx EXCEPT ![t].wrote = Only(x, 0) ++ @]
    /\ UNCHANGED <<row, balance, collided>>

AllReleased(t) == DOMAIN tx[t].found \subseteq DOMAIN tx[t].wrote

\* Mutant of Relieved: the quantities are taken from the rows as they are now.
RelievedNow(t, i) == TotalOn(Seen(t), {x \in DOMAIN tx[t].found : x.item = i})

\* adjustReserved(-released) for one of the items: lock the balance, then
\* subtract the quantities found earlier.
Relieved(t, i) == TotalOn(tx[t].found, {x \in DOMAIN tx[t].found : x.item = i})

Relieve(t) ==
    /\ tx[t].pc = "release"
    /\ AllReleased(t)
    /\ \E i \in {x.item : x \in DOMAIN tx[t].found} \ DOMAIN tx[t].locked :
          /\ FreeBalance(t, i)
          /\ LET left == balance[i].reserved - Relieved(t, i)
             IN  IF left >= 0
                 THEN /\ tx' = [tx EXCEPT ![t].locked =
                                  Only(i, [balance[i] EXCEPT !.reserved = left]) ++ @]
                      /\ UNCHANGED <<row, balance, collided>>
                 ELSE RolledBack(t)

ReleaseDone(t) ==
    /\ tx[t].pc = "release"
    /\ AllReleased(t)
    /\ {x.item : x \in DOMAIN tx[t].found} \subseteq DOMAIN tx[t].locked
    /\ tx' = [tx EXCEPT ![t].pc = "lines"]
    /\ UNCHANGED <<row, balance, collided>>

\* Mutants of Grant: the line gets what it wants; it gets what the balance
\* says is available, whatever the batch has free.
GrantWanted(t, i) == tx[t].want[i]
GrantByBalance(t, i) ==
    Least(tx[t].want[i], Monus(SeenBalance(t, i).onHand, SeenBalance(t, i).reserved))

\* What a line is granted: as much as it wants of what the balance has
\* available and the batch has free.
Grant(t, i) ==
    LET b == SeenBalance(t, i)
    IN  Least(Least(tx[t].want[i], Monus(b.onHand, b.reserved)),
              Monus(b.onHand, TotalOn(Seen(t), RowsOf(i))))

\* reserveComposition, one line: lock the balance, read it, walk the batches.
\* The rows are created, and the balance raised, after the last line; nothing
\* that happens in between can tell.
ReserveLine(t) ==
    /\ tx[t].pc = "lines" /\ tx[t].op = "reserve"
    /\ tx[t].next <= Len(Visited(t))
    /\ LET i == Visited(t)[tx[t].next]
           x == [by |-> t, order |-> tx[t].order, item |-> i]
           grant == Grant(t, i)
       IN  /\ FreeBalance(t, i)
           /\ tx' = [tx EXCEPT
                  ![t].next = @ + 1,
                  ![t].locked =
                    Only(i, [SeenBalance(t, i) EXCEPT !.reserved = @ + grant]) ++ @,
                  ![t].wrote = IF grant > 0 THEN Only(x, grant) ++ @ ELSE @]
    /\ UNCHANGED <<row, balance, collided>>

\* Mutant of Locking: the balance is read, not selected for update.
NotLocking(t, i) == [tx EXCEPT ![t].pc = "rows",
    ![t].found = [x \in {y \in Active(t) : y.item = i} |-> Seen(t)[x]]]

\* issueStock, one line: lock the balance and find the reservations ...
Locking(t, i) == [tx EXCEPT ![t].pc = "rows",
    ![t].locked = Only(i, SeenBalance(t, i)) ++ @,
    ![t].found = [x \in {y \in Active(t) : y.item = i} |-> Seen(t)[x]]]

LockLine(t) ==
    /\ tx[t].pc = "lines" /\ tx[t].op = "issue"
    /\ tx[t].next <= Len(Visited(t))
    /\ LET i == Visited(t)[tx[t].next]
       IN  FreeBalance(t, i) /\ tx' = Locking(t, i)
    /\ UNCHANGED <<row, balance, collided>>

\* ... then consume or release all of them and take the rest from free stock,
\* or throw.
IssueLine(t) ==
    LET i == Visited(t)[tx[t].next]
        own == DOMAIN tx[t].found
        held == TotalOn(tx[t].found, own)
        b == SeenBalance(t, i)
        rest == Monus(tx[t].want[i], held)
        free == Monus(b.onHand - Least(tx[t].want[i], held),
                      TotalOn(Seen(t), RowsOf(i) \ own))
    IN  /\ tx[t].pc = "rows"
        /\ \A x \in own : FreeRow(t, x)
        /\ IF rest <= free /\ held <= b.reserved /\ b.reserved - held <= b.onHand - tx[t].want[i]
           THEN /\ tx' = [tx EXCEPT
                       ![t].pc = "lines",
                       ![t].next = @ + 1,
                       ![t].locked = Only(i, [onHand |-> b.onHand - tx[t].want[i],
                                              reserved |-> b.reserved - held]) ++ @,
                       ![t].wrote = [x \in own |-> 0] ++ @]
                /\ UNCHANGED <<row, balance, collided>>
           ELSE RolledBack(t)

\* The request has done its work.
Commit(t) ==
    /\ tx[t].pc = "lines"
    /\ tx[t].op = "release" \/ tx[t].next > Len(Visited(t))
    /\ row' = Seen(t)
    /\ balance' = tx[t].locked ++ balance
    /\ tx' = [tx EXCEPT ![t] = Ended("committed")]
    /\ UNCHANGED collided

\* The rows and balances t may be waiting for.
WantedRows(t) ==
    IF tx[t].pc \in {"release", "rows"} THEN DOMAIN tx[t].found \ DOMAIN tx[t].wrote ELSE {}

WantedBalances(t) ==
    IF tx[t].pc = "release" /\ AllReleased(t)
      THEN {x.item : x \in DOMAIN tx[t].found} \ DOMAIN tx[t].locked
    ELSE IF tx[t].pc = "lines" /\ tx[t].op # "release" /\ tx[t].next <= Len(Visited(t))
      THEN {Visited(t)[tx[t].next]} \ DOMAIN tx[t].locked
    ELSE {}

WaitsFor == [p \in Tx \X Tx |->
    /\ p[1] # p[2]
    /\ \/ WantedRows(p[1]) \cap DOMAIN tx[p[2]].wrote # {}
       \/ WantedBalances(p[1]) \cap DOMAIN tx[p[2]].locked # {}]

\* Mutant of InDeadlock: nobody looks for circular waits.
NeverInDeadlock(t) == FALSE

InDeadlock(t) == TransitiveClosure(WaitsFor, Tx)[t, t]

\* PostgreSQL aborts a transaction of a circular wait.
Deadlock(t) == InDeadlock(t) /\ RolledBack(t)

Proceed(t) ==
    \/ Find(t)
    \/ ReleaseRow(t)
    \/ Relieve(t)
    \/ ReleaseDone(t)
    \/ ReserveLine(t)
    \/ LockLine(t)
    \/ IssueLine(t)
    \/ Commit(t)

Next == \E t \in Tx : (\E o \in Order : Begin(t, o)) \/ Proceed(t) \/ Deadlock(t)

(***************************************************************************)
(* A handler that has begun goes on by itself, and PostgreSQL's deadlock   *)
(* detector runs; nobody has to send a request.                            *)
(***************************************************************************)
Spec == Init /\ [][Next]_vars /\ \A t \in Tx : WF_vars(Proceed(t)) /\ WF_vars(Deadlock(t))

-----------------------------------------------------------------------------
(***************************************************************************)
(* Type correctness: what is committed is what the columns and the CHECK   *)
(* on available_quantity allow, and transactions touch rows that exist.    *)
(***************************************************************************)
TypeOK ==
    /\ row \in [Row -> Nat]
    /\ balance \in [Item -> [onHand : Nat, reserved : Nat]]
    /\ \A i \in Item : balance[i].reserved <= balance[i].onHand
    /\ \A t \in Tx :
          /\ tx[t].pc \in {"idle", "find", "release", "lines", "rows", "committed", "aborted"}
          /\ DOMAIN tx[t].found \subseteq Row /\ DOMAIN tx[t].wrote \subseteq Row
          /\ DOMAIN tx[t].locked \subseteq Item

(***************************************************************************)
(* What is committed adds up: the reserved quantity of a balance is the    *)
(* sum of the ACTIVE reservations.  An increment computed from rows that   *)
(* were read without a lock must not be applied to a balance that has      *)
(* moved on.  Requests of different orders, and requests of one order that *)
(* follow each other, keep it; two that overlap for one order need not,    *)
(* since nothing locks the reservations they both find.                    *)
(***************************************************************************)
ReservedIsActive ==
    ~collided => \A i \in Item : balance[i].reserved = TotalOn(row, RowsOf(i))

(***************************************************************************)
(* However requests overlap, even two for one order that both release the  *)
(* same reservations, no more is reserved of an item than there is:        *)
(* the walk over the batches reads the reservations after it has locked    *)
(* the balance, and every transaction that adds a reservation or takes     *)
(* stock holds that lock until it commits.                                 *)
(***************************************************************************)
NeverOverReserved == \A i \in Item : TotalOn(row, RowsOf(i)) <= balance[i].onHand

\* Reservations, balances and stock fit together, and with their columns.
ReservationsFit == TypeOK /\ ReservedIsActive /\ NeverOverReserved

(***************************************************************************)
(* To the outside requests are atomic, also those that overlap for one     *)
(* order: every commit is one step of StockPromise, a hold of its own      *)
(* order's lines or an issue of what was asked for, whatever other         *)
(* requests committed since it began.                                      *)
(***************************************************************************)
Promise == INSTANCE StockPromise WITH
    Line <- Order \X Item,
    LineItem <- [l \in Order \X Item |-> l[2]],
    Composition <- {{o} \X Item : o \in Order},
    Sold <- [Item -> 0 .. MaxQty],
    stock <- [i \in Item |-> balance[i].onHand],
    hold <- [l \in Order \X Item |->
                TotalOn(row, {x \in Row : x.order = l[1] /\ x.item = l[2]})]

CommitsKeepThePromise ==
    [][Promise!Next]_<<[i \in Item |-> balance[i].onHand], row>>

(***************************************************************************)
(* Locks are taken line by line in the order of the composition, and rows  *)
(* before balances, so requests can wait for each other in a circle; every *)
(* request still ends, in a commit or in an abort.                         *)
(***************************************************************************)
EveryRequestEnds ==
    \A t \in Tx : tx[t].pc # "idle" ~> tx[t].pc \in {"committed", "aborted"}
=============================================================================
