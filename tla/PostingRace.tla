----------------------------- MODULE PostingRace -----------------------------
(***************************************************************************)
(* Goods receipts of one supply and write-offs, written up, posted and     *)
(* reversed by requests that overlap.                                      *)
(*                                                                         *)
(* A request is one transaction at READ COMMITTED: it reads the document,  *)
(* looks up its idempotency key, works through the items one by one, each  *)
(* under the lock of its balance row, recalculates the status of the       *)
(* supply and commits.  What it has written is seen by others from then    *)
(* on.  It may fail at any point, of a refusal or a deadlock too, and      *)
(* nothing is left of it.  Unique keys stand in for locks: of two          *)
(* transactions that insert the same row the second waits for the first    *)
(* and fails if it commits.                                                *)
(*                                                                         *)
(* Every quantity is one unit: each item is ordered once, and may be in    *)
(* stock before.  What quantities do to each other is the subject of       *)
(* Supply and StockLedger.                                                 *)
(***************************************************************************)
EXTENDS Quantities, Integers, FiniteSets

CONSTANTS
    Good,    \* catalogue items, each a line of the supply
    Paper,   \* goods receipts
    Loss,    \* write-off documents
    Press,   \* idempotency keys
    NoPress, \* what a request about a receipt may come with instead
    Slot     \* bound: the requests under way at once

\* The stock from before lies in batches of its own.
Before == "before"

ASSUME PostingAssumption ==
    /\ IsFiniteSet(Paper)
    /\ Paper \cap Loss = {} /\ Before \notin Paper \cup Loss
    /\ NoPress \notin Press

Bin == (Paper \cup {Before}) \X Good
BinsOf(i) == {h \in Bin : h[2] = i}

VARIABLES
    paper,     \* paper[d]: status and items of document d (committed)
    left,      \* left[h]: what remains of the batch in h
    onHand,    \* onHand[i]: balance of item i
    moved,     \* stored movements
    keyed,     \* posting_idempotency_keys
    supply,    \* status of the supply
    request,   \* request[r]: the request in slot r
    astray,    \* history: items of a document that lost touch with the stock
    overtaken, \* history: a batch was used after its reversal had looked at it
    apart      \* history: receipts that did not wait for each other were counted at once

stock == <<left, onHand, moved, keyed>>
history == <<astray, overtaken, apart>>
postingVars == <<paper, stock, supply, request, history>>

Doc == Paper \cup Loss

\* f with the value v at x; f where it is defined, g elsewhere.
With(f, x, v) == [y \in DOMAIN f \cup {x} |-> IF y = x THEN v ELSE f[y]]
f ++ g == [x \in DOMAIN f \cup DOMAIN g |-> IF x \in DOMAIN f THEN f[x] ELSE g[x]]

\* A movement for an item of a document, of a batch.
Move(d, i, type, h) == [paper |-> d, item |-> i, type |-> type, of |-> h]
Stored(d, i, type) == {m \in moved : m.paper = d /\ m.item = i /\ m.type = type}
IsReversed(h) == Stored(h[1], h[2], "RECEIPT_REVERSAL") # {}

Scope == [receive |-> "goods-receipt-post", postReceipt |-> "goods-receipt-post",
          reverseReceipt |-> "goods-receipt-reverse",
          post |-> "write-off-post", reverse |-> "write-off-reverse"]
ReceiptOp == {"receive", "postReceipt", "reverseReceipt"}
ReverseOp == {"reverseReceipt", "reverse"}

Unused == [op |-> "none", pc |-> "idle", paper |-> Before, key |-> NoPress, items |-> {},
         found |-> {}, moves |-> {}, left |-> <<>>, hand |-> <<>>,
         keeps |-> FALSE, opened |-> FALSE, status |-> "NONE"]

\* Mutant of Unlocked: the balance is read without FOR UPDATE.
NotLocked(r, i) == TRUE

\* The balance of an item is locked by who has written it, the row of the
\* supply by who has submitted it.
Unlocked(r, i) == \A u \in Slot \ {r} : i \notin DOMAIN request[u].hand
SupplyUnlocked(r) == \A u \in Slot \ {r} : ~request[u].opened

\* The rows of a key, and whether another transaction is inserting one.
Keyed(r) == {k \in keyed : k.scope = Scope[request[r].op] /\ k.key = request[r].key}
Awaited(r) == \E u \in Slot \ {r} :
    request[u].keeps /\ request[u].key = request[r].key /\ Scope[request[u].op] = Scope[request[r].op]

OpenFor(status) == status \in {"SUBMITTED_TO_SUPPLIER", "PARTIALLY_RECEIVED"}

\* sumPostedBySupplyItem over documents P, sumDraftOtherBySupplyItem.
PostedWith(P, i) == Cardinality({g \in Paper : P[g].status = "POSTED" /\ i \in P[g].items})
DraftedWith(g, i) ==
    Cardinality({f \in Paper \ {g} : paper[f].status = "DRAFT" /\ i \in paper[f].items})

\* The status that recalculate finds.
Reckoned(P) ==
    IF \A i \in Good : PostedWith(P, i) = 0 THEN "SUBMITTED_TO_SUPPLIER"
    ELSE IF \A i \in Good : PostedWith(P, i) >= 1 THEN "RECEIVED"
    ELSE "PARTIALLY_RECEIVED"

PostingInit ==
    /\ paper = [d \in Doc |-> [status |-> "NONE", items |-> {}]]
    /\ \E before \in [Good -> {0, 1}] :
          /\ left = [h \in Bin |-> IF h[1] = Before THEN before[h[2]] ELSE 0]
          /\ onHand = before
    /\ moved = {} /\ keyed = {}
    /\ supply \in {"DRAFT", "SUBMITTED_TO_SUPPLIER"}
    /\ request = [r \in Slot |-> Unused]
    /\ astray = {} /\ overtaken = FALSE /\ apart = FALSE

-----------------------------------------------------------------------------
\* createGoodsReceipt, and create of a write-off: one statement each.
CreateReceipt(g) ==
    /\ OpenFor(supply)
    /\ paper[g].status = "NONE"
    /\ \A u \in Slot : request[u].paper # g
    /\ paper' = [paper EXCEPT ![g].status = "DRAFT"]
    /\ UNCHANGED <<stock, supply, request, history>>

Create(w) ==
    /\ paper[w].status = "NONE"
    /\ paper' = [paper EXCEPT ![w].status = "DRAFT"]
    /\ UNCHANGED <<stock, supply, request, history>>

\* A request begins by reading its document, or the supply.
Start(r, op, d, key, items, pc) ==
    /\ request[r] = Unused
    /\ request' = [request EXCEPT ![r] = [Unused EXCEPT !.op = op, !.paper = d, !.key = key,
                                            !.items = items, !.pc = pc]]
    /\ UNCHANGED <<paper, stock, supply, history>>

StartReceiving(r, g, key) ==
    /\ supply \in {"DRAFT", "SUBMITTED_TO_SUPPLIER"}
    /\ paper[g].status = "NONE"
    /\ \A u \in Slot : request[u].paper # g
    /\ Start(r, "receive", g, key, Good, IF supply = "DRAFT" THEN "open" ELSE "check")

StartPosting(r, g, key) ==
    /\ paper[g].status = "DRAFT" /\ paper[g].items # {}
    /\ Start(r, "postReceipt", g, key, paper[g].items, "check")

StartReversing(r, g, key) ==
    /\ paper[g].status = "POSTED"
    /\ Start(r, "reverseReceipt", g, key, paper[g].items, "key")

StartAdding(r, g, i) ==
    /\ paper[g].status = "DRAFT"
    /\ PostedWith(paper, i) + DraftedWith(g, i) = 0
    /\ Start(r, "addReceiptItem", g, NoPress, {i}, "add")

StartAddingLoss(r, w, i) ==
    /\ paper[w].status = "DRAFT"
    /\ Start(r, "addItem", w, NoPress, {i}, "add")

StartLoss(r, w, key) ==
    /\ paper[w].status = "DRAFT" /\ paper[w].items # {}
    /\ Start(r, "post", w, key, paper[w].items, "key")

StartReturn(r, w, key) ==
    /\ paper[w].status = "POSTED"
    /\ Start(r, "reverse", w, key, paper[w].items, "key")

-----------------------------------------------------------------------------
At(r, pc) == request[r].pc = pc

\* The item is inserted, whatever the document has become; once in a receipt.
Added(r) ==
    /\ At(r, "add")
    /\ LET d == request[r].paper
           more == request[r].items \ paper[d].items
       IN  /\ more # {}
           /\ paper' = [paper EXCEPT ![d].items = @ \cup more]
           /\ astray' = IF paper[d].status = "DRAFT" THEN astray
                      ELSE astray \cup ({d} \X more)
    /\ request' = [request EXCEPT ![r] = Unused]
    /\ UNCHANGED <<stock, supply, overtaken, apart>>

\* A supply that was read as DRAFT is submitted, whatever it has become.
Submitted(r) ==
    /\ At(r, "open")
    /\ SupplyUnlocked(r)
    /\ request' = [request EXCEPT ![r].opened = TRUE, ![r].pc = "check"]
    /\ UNCHANGED <<paper, stock, supply, history>>

\* postDraftReceiptInTx: the supply is open, nothing exceeds the order.
Check(r) ==
    /\ At(r, "check")
    /\ request[r].opened \/ OpenFor(supply)
    /\ \A i \in request[r].items : PostedWith(paper, i) = 0
    /\ request' = [request EXCEPT ![r].pc = "key"]
    /\ UNCHANGED <<paper, stock, supply, history>>

\* Mutant of MayKeep: a key is not looked up.
KeepsAnyway(r) == TRUE

\* No row has this key, and none is about to be committed.
MayKeep(r) == Keyed(r) = {} /\ (request[r].op \in ReceiptOp => ~Awaited(r))

\* The key is looked up.  Receipts insert it at once, write-offs at the end; a
\* request that was done before leaves the stock alone.
LookUp(r) ==
    /\ At(r, "key")
    /\ \/ /\ request[r].key = NoPress \/ MayKeep(r)
          /\ request' = [request EXCEPT
                ![r].keeps = request[r].key # NoPress,
                ![r].pc = IF request[r].op \in ReverseOp THEN "find" ELSE "lines"]
       \/ /\ request[r].key # NoPress
          /\ \E k \in Keyed(r) : k.paper = request[r].paper
          /\ request' = [request EXCEPT ![r].pc = "count"]
    /\ UNCHANGED <<paper, stock, supply, history>>

\* The batches of the receipt, all unused; the movements of the write-off.
LookAt(r) ==
    /\ At(r, "find")
    /\ LET d == request[r].paper
           bins == {<<d, i>> : i \in {i \in request[r].items : Stored(d, i, "RECEIPT") # {}}}
       IN  /\ request[r].op = "reverseReceipt" => \A h \in bins : left[h] = 1
           /\ request' = [request EXCEPT ![r].pc = "lines",
                ![r].found = IF request[r].op = "reverseReceipt" THEN bins
                             ELSE {m.of : m \in {m \in moved : m.paper = d /\ m.type = "WRITE_OFF"}}]
    /\ UNCHANGED <<paper, stock, supply, history>>

\* Mutant of IsNew: the movements have no unique source.
AlwaysNew(r, i, type) == TRUE

\* No movement of the item of this document has this type yet.
IsNew(r, i, type) == Stored(request[r].paper, i, type) = {}

\* One item, under the lock of its balance: a movement of batch h by one unit.
MoveUnit(r, h, type, n, rest) ==
    /\ h[2] \notin DOMAIN request[r].hand
    /\ Unlocked(r, h[2])
    /\ IsNew(r, h[2], type)
    /\ onHand[h[2]] + n >= 0
    /\ request' = [request EXCEPT
          ![r].moves = @ \cup {Move(request[r].paper, h[2], type, h)},
          ![r].left = With(@, h, rest),
          ![r].hand = With(@, h[2], onHand[h[2]] + n)]
    /\ UNCHANGED <<paper, stock, supply, astray, apart>>

EnterLine(r) ==
    /\ At(r, "lines") /\ request[r].op \in {"receive", "postReceipt"}
    /\ \E i \in request[r].items : MoveUnit(r, <<request[r].paper, i>>, "RECEIPT", 1, 1)
    /\ UNCHANGED overtaken

\* A batch that was found unused becomes REVERSED and empty.
ReverseLine(r) ==
    /\ At(r, "lines") /\ request[r].op = "reverseReceipt"
    /\ \E h \in request[r].found :
          /\ MoveUnit(r, h, "RECEIPT_REVERSAL", -1, 0)
          /\ overtaken' = (overtaken \/ left[h] # 1)

\* The ACTIVE batches.  The walk takes the oldest; since dates of receipt are
\* entered by hand, it may be any.
Live(i) == {h \in BinsOf(i) : left[h] > 0 /\ ~IsReversed(h)}

TakeLine(r) ==
    /\ At(r, "lines") /\ request[r].op = "post"
    /\ \E i \in request[r].items : \E h \in Live(i) : MoveUnit(r, h, "WRITE_OFF", -1, left[h] - 1)
    /\ UNCHANGED overtaken

RestoreLine(r) ==
    /\ At(r, "lines") /\ request[r].op = "reverse"
    /\ \E h \in request[r].found : MoveUnit(r, h, "WRITE_OFF_REVERSAL", 1, left[h] + 1)
    /\ UNCHANGED overtaken

\* The items are through, or there was nothing to do.
IsThrough(r) ==
    \/ At(r, "count")
    \/ /\ At(r, "lines")
       /\ DOMAIN request[r].hand = IF request[r].op \in ReverseOp
                              THEN {h[2] : h \in request[r].found} ELSE request[r].items

\* The documents as r leaves them.
Outcome(r) ==
    [paper EXCEPT
        ![request[r].paper].status = IF request[r].op \in ReverseOp
                                THEN "REVERSED" ELSE "POSTED",
        ![request[r].paper].items = IF request[r].op = "receive" THEN request[r].items ELSE @]

\* Mutant of Reload: the status is calculated from what was read at the start.
NoReload(r) == [paper EXCEPT ![request[r].paper].status = "DRAFT"]

\* What recalculate reads: its own document as it leaves it, the others as
\* they are committed now.
Reload(r) == Outcome(r)

\* The status of the supply is recalculated ...
Count(r) ==
    /\ IsThrough(r)
    /\ request' = [request EXCEPT ![r].pc = "end",
                        ![r].status = IF request[r].op \in ReceiptOp THEN Reckoned(Reload(r)) ELSE "NONE"]
    /\ UNCHANGED <<paper, stock, supply, history>>

\* Two requests wait for each other at an item of both, unless one of them was
\* done before and moves nothing.
DoNotWait(t, u) == t.items \cap u.items = {} \/ t.moves = {} \/ u.moves = {}

\* ... and written, when nobody else has locked the supply.  A write-off
\* inserts its key last.
Finish(r) ==
    LET t == request[r]
    IN  /\ At(r, "end")
        /\ IF t.op \in ReceiptOp THEN SupplyUnlocked(r) ELSE t.keeps => Keyed(r) = {}
        /\ paper' = Outcome(r)
        /\ left' = t.left ++ left
        /\ onHand' = t.hand ++ onHand
        /\ moved' = moved \cup t.moves
        /\ keyed' = IF t.keeps
                    THEN keyed \cup {[scope |-> Scope[t.op], key |-> t.key, paper |-> t.paper]}
                    ELSE keyed
        /\ supply' = IF t.op \in ReceiptOp THEN t.status ELSE supply
        /\ astray' = astray \cup ({t.paper} \X
               IF t.moves = {} /\ t.op \notin ReverseOp /\ paper[t.paper].status = "REVERSED"
               THEN Good ELSE Outcome(r)[t.paper].items \ t.items)
        /\ apart' = (apart \/ \E u \in Slot \ {r} :
                        /\ {t.op, request[u].op} \subseteq ReceiptOp
                        /\ At(u, "end")
                        /\ DoNotWait(t, request[u]))
        /\ request' = [request EXCEPT ![r] = Unused]
        /\ UNCHANGED overtaken

\* Refused, deadlocked or cut off: ROLLBACK.
Fail(r) ==
    /\ request[r] # Unused
    /\ request' = [request EXCEPT ![r] = Unused]
    /\ UNCHANGED <<paper, stock, supply, history>>

PostingNext ==
    \/ \E g \in Paper : CreateReceipt(g)
    \/ \E w \in Loss : Create(w)
    \/ \E r \in Slot :
          \/ \E g \in Paper, key \in Press \cup {NoPress} :
                \/ StartReceiving(r, g, key)
                \/ StartPosting(r, g, key)
                \/ StartReversing(r, g, key)
          \/ \E w \in Loss, key \in Press : StartLoss(r, w, key) \/ StartReturn(r, w, key)
          \/ \E g \in Paper, i \in Good : StartAdding(r, g, i)
          \/ \E w \in Loss, i \in Good : StartAddingLoss(r, w, i)
          \/ Added(r)
          \/ Submitted(r)
          \/ Check(r)
          \/ LookUp(r)
          \/ LookAt(r)
          \/ EnterLine(r)
          \/ ReverseLine(r)
          \/ TakeLine(r)
          \/ RestoreLine(r)
          \/ Count(r)
          \/ Finish(r)
          \/ Fail(r)

PostingSpec == PostingInit /\ [][PostingNext]_postingVars

-----------------------------------------------------------------------------
(***************************************************************************)
(* Type correctness.                                                       *)
(***************************************************************************)
PostingTypeOK ==
    /\ \A d \in Doc : /\ paper[d].status \in {"NONE", "DRAFT", "POSTED", "REVERSED"}
                      /\ paper[d].items \subseteq Good
    /\ left \in [Bin -> Nat]
    /\ onHand \in [Good -> Nat]
    /\ supply \in {"DRAFT", "SUBMITTED_TO_SUPPLIER", "PARTIALLY_RECEIVED", "RECEIVED"}

(***************************************************************************)
(* A document moves its stock once and back once: every item of a POSTED   *)
(* document has one movement, of a REVERSED one a reversal too, of others  *)
(* none, however often the document is posted or reversed at once and      *)
(* under whatever keys.  Excepted are items that came in after the post    *)
(* had read the document, and a document that a repeated post, let off by  *)
(* its key, calls POSTED again after it was reversed.                      *)
(***************************************************************************)
MovesOnce ==
    \A d \in Doc : \A i \in Good :
        LET out == IF d \in Paper THEN "RECEIPT" ELSE "WRITE_OFF"
            back == IF d \in Paper THEN "RECEIPT_REVERSAL" ELSE "WRITE_OFF_REVERSAL"
            times(S) == IF i \in paper[d].items /\ paper[d].status \in S THEN 1 ELSE 0
        IN  <<d, i>> \notin astray =>
              /\ Cardinality(Stored(d, i, out)) = times({"POSTED", "REVERSED"})
              /\ Cardinality(Stored(d, i, back)) = times({"REVERSED"})

(***************************************************************************)
(* The balances stay what the batches hold, and a reversed batch stays     *)
(* empty, unless a batch was used between the reversal's look at it and    *)
(* its lock: reverseGoodsReceipt reads the batches before it locks.        *)
(***************************************************************************)
BooksMatch ==
    ~overtaken =>
        /\ \A i \in Good : onHand[i] = TotalOn(left, BinsOf(i))
        /\ \A h \in Bin : IsReversed(h) => left[h] = 0

\* One press receives once: a key of a scope belongs to one document.
KeysAreUnique == \A k, l \in keyed : k.scope = l.scope /\ k.key = l.key => k = l

(***************************************************************************)
(* The status of the supply is the one its receipts ask for, also when     *)
(* receipts are posted or reversed at once, as long as they have an item   *)
(* in common, whose balance makes them wait for each other, and none of    *)
(* them was done before and moves nothing; and as long as no receipt has   *)
(* gone astray.                                                            *)
(***************************************************************************)
StatusFollows == ~apart /\ astray = {} /\ supply # "DRAFT" => supply = Reckoned(paper)

\* Overlapping posts and reversals keep documents, stock and supply in step.
PostingsKeepStep ==
    /\ PostingTypeOK
    /\ MovesOnce
    /\ BooksMatch
    /\ KeysAreUnique
    /\ StatusFollows
=============================================================================
