----------------------------- MODULE OrderViews -----------------------------
(***************************************************************************)
(* What the back office shows of the order of OrderDesk: the lists by      *)
(* phase, the queues of a shift with the next action they suggest, what is *)
(* called to attention, and the board of a day.                            *)
(*                                                                         *)
(* Each is a query of its own, with the phase of an order spelt out anew   *)
(* as a condition on the rows of orders, assignments, deliveries, sales.   *)
(* Left out: dates (an order here is one of today, its time has come or    *)
(* has not), the limits to what is listed at once, and how it is sorted.   *)
(***************************************************************************)
EXTENDS OrderDesk

HasFlorist == florist # Nobody
Preparable == Reservable \cup {"IN_PREPARATION"}
OpenStatuses == Preparable \cup {"READY"}

\* deliveredOrderIds
IsDelivered == job = "DELIVERED"

\* Mutant of InList: what is delivered is not taken off the orders to hand out.
InListWithDelivered(p) ==
    CASE p = "NEW" -> status \in Reservable /\ ~HasFlorist
      [] p = "IN_WORK" -> status = "IN_PREPARATION" \/ (status \in Reservable /\ HasFlorist)
      [] p = "READY" -> status = "READY"
      [] p = "HANDED_OFF" -> status = "COMPLETED" \/ IsDelivered

\* buildOrderListPhaseWhere
InList(p) ==
    CASE p = "NEW" -> status \in Reservable /\ ~HasFlorist
      [] p = "IN_WORK" -> status = "IN_PREPARATION" \/ (status \in Reservable /\ HasFlorist)
      [] p = "READY" -> status = "READY" /\ ~IsDelivered
      [] p = "HANDED_OFF" -> status = "COMPLETED" \/ IsDelivered

\* listOrders
Listed == {p \in {"NEW", "IN_WORK", "READY", "HANDED_OFF"} : InList(p)}

\* filterWhere, handedOffTodayWhere; overdue: the time it was to be ready is past.
InQueue(q, overdue) ==
    CASE q = "overdue" -> overdue /\ status \in Preparable
      [] q = "soon" -> ~overdue /\ status \in Preparable
      [] q = "unassigned" -> status \in Preparable /\ ~HasFlorist
      [] q = "in_preparation" -> status = "IN_PREPARATION"
      [] q = "in_work" -> InList("IN_WORK")
      [] q = "ready" -> status = "READY"
      [] q = "handed_off" -> status = "COMPLETED" \/ IsDelivered
      [] q = "partially_reserved" -> status = "PARTIALLY_RESERVED"
      [] q = "all_open" -> status \in OpenStatuses

\* listAttentionItems, as far as they are about this order
Attention(overdue) ==
    (IF overdue /\ status \in Preparable THEN {"ORDER_OVERDUE"} ELSE {})
    \cup (IF status \in Preparable /\ ~HasFlorist THEN {"ORDER_UNASSIGNED"} ELSE {})
    \cup (IF ~overdue /\ status \in Reservable THEN {"ORDER_SOON_NOT_STARTED"} ELSE {})
    \cup (IF status = "READY" /\ sale = "NONE" THEN {"READY_WITHOUT_SALE"} ELSE {})

\* enrichWorkspaceCard: the page of one order looks for a sale, the queues are
\* told there is none.
KnowsOfSale(page) == page /\ sale # "NONE"

\* Mutant of Suggested: whoever holds the assignment may start.
SuggestedToAll(u, short, page) ==
    CASE status \in {"CANCELLED", "COMPLETED"} -> "VIEW"
      [] status = "READY" -> IF KnowsOfSale(page) THEN "VIEW" ELSE "CREATE_SALE"
      [] status = "CONFIRMED" \/ (status = "PARTIALLY_RESERVED" /\ short) -> "RESERVE"
      [] OTHER -> IF status \in PreparationStart THEN "START_PREPARATION" ELSE "MARK_READY"

\* resolvePrimaryAction, of the order before user u, on its page or on its card
\* in a queue; short: stock lacks for one of its lines.
Suggested(u, short, page) ==
    CASE status \in {"CANCELLED", "COMPLETED"} -> "VIEW"
      [] status = "READY" -> IF KnowsOfSale(page) THEN "VIEW" ELSE "CREATE_SALE"
      [] status = "CONFIRMED" \/ (status = "PARTIALLY_RESERVED" /\ short) -> "RESERVE"
      [] OTHER -> IF ~HasFlorist THEN "CLAIM"
                  ELSE IF florist # u THEN "VIEW"
                  ELSE IF status \in PreparationStart THEN "START_PREPARATION"
                  ELSE "MARK_READY"

\* getCalendarBoard: a cancelled delivery is not looked at, and an order is in
\* one section, by Column.
Sections == {Column}

-----------------------------------------------------------------------------
\* The phase a list is about is the phase the order is in.  Cancelled orders are
\* in the phase NEW, and in no list, unless they were delivered all the same.
ListsTellThePhase ==
    ~problem =>
        IF status = "CANCELLED" THEN Listed \subseteq {"HANDED_OFF"} ELSE Listed = {Phase}

\* The queues of the shift, the lists and the board are about the same orders.
QueuesFollowLists ==
    \A overdue \in BOOLEAN :
        /\ InQueue("in_work", overdue) \/ InQueue("unassigned", overdue) <=> status \in Preparable
        /\ ~problem /\ status # "CANCELLED" =>
              /\ InQueue("ready", overdue) =>
                    Listed = {"READY"} \/ (Listed = {"HANDED_OFF"} /\ IsDelivered)
              /\ InQueue("handed_off", overdue) <=> Sections = {"HANDED_OFF"}
              /\ Sections = {"WITH_COURIER"} \/ Listed = Sections

\* Whatever can be done next for an open order nobody works at is called to
\* attention: somebody should take it, or hand it over and sell it.
NothingIsOverlooked ==
    \A overdue \in BOOLEAN :
        InQueue("all_open", overdue) =>
            \/ Attention(overdue) # {}
            \/ HasFlorist /\ status \in Preparable
            \/ status = "READY" /\ sale # "NONE"

\* The server does what an order's page or card suggests, with two exceptions:
\* marking an order ready fails while its delivery is planned (see
\* OrdersReachDelivery of Delivery), and the card in a queue suggests to sell an
\* order whose sale is only to be completed.
SuggestionsAreTaken ==
    \A u \in User, short \in BOOLEAN, page \in BOOLEAN :
        LET what == Suggested(u, short, page)
        IN  CASE what = "RESERVE" -> CanReserve
              [] what = "CLAIM" -> CanClaim(u)
              [] what = "START_PREPARATION" -> florist = u /\ CanStart
              [] what = "MARK_READY" -> florist = u /\ (DeliveryObjects \/ CanMarkReady)
              [] what = "CREATE_SALE" -> CanSell \/ (~page /\ sale = "DRAFT")
              [] OTHER -> TRUE

(***************************************************************************)
(* What the lists, the queues, the board and the calls to attention say of *)
(* an order fits together and fits the server, in every state that several *)
(* users, old cards and broken chains of calls can bring about.            *)
(***************************************************************************)
ViewsAgree ==
    /\ ListsTellThePhase
    /\ QueuesFollowLists
    /\ NothingIsOverlooked
    /\ SuggestionsAreTaken
=============================================================================
