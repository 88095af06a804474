--------------------------- MODULE OrderDeskProofs ---------------------------
(***************************************************************************)
(* Proofs about OrderDesk, OrderViews and OrderForm, for any number of     *)
(* users, each with any chains of calls under way.                         *)
(*                                                                         *)
(* The chains are an invariant: a tab waits for a call that belongs to its *)
(* move, and a move that leads to the courier began with an order whose    *)
(* composition was frozen, which it stays.  No tab and no call adrift      *)
(* expects a version the job never had, so that a write either gives it a  *)
(* new one, which nobody else holds, or one two calls gave it.             *)
(***************************************************************************)
EXTENDS OrderScreens, TLAPS

Move == BoardMove \cup PageMove
OrderCall == {"reserve", "claim", "start", "rollback", "release", "markReady", "complete"}
Call == JobCall \cup OrderCall \cup {"none", "version", "deliverUnkeyed", "readOrder"}

\* The calls a tab waits for during move m.
CallsOf(m) ==
    CASE m = "toWork" -> {"reserve", "claim", "start", "rollback"}
      [] m = "toNew" -> {"release"}
      [] m = "toReady" -> {"reserve", "start", "markReady"}
      [] m = "toCourier" -> {"version", "dispatch", "transit"}
      [] m = "toDone" -> {"version", "deliverUnkeyed", "complete"}
      [] m = "handOver" -> {"dispatch", "handover", "transit"}
      [] m = "finish" -> {"dispatch", "handover", "transit", "deliver", "readOrder", "complete"}
      [] m = "none" -> {"none"}

Tab == [move : Move \cup {"none"}, next : Call, cur : OrderStatus \cup JobStatus \cup {"none"},
        handed : BOOLEAN, version : Nat, read : Nat]

\* A tab is at a call of its move; the server reads the job for a call about it,
\* in the version the tab expects.
InChain(t) ==
    /\ t \in Tab
    /\ t.next \in CallsOf(t.move)
    /\ t.read # 0 => t.next \in JobCall /\ t.read = t.version

\* What leads to the courier concerns an assembled order.
Assembled(t, f) == t.move \in {"toCourier", "handOver", "finish"} => f

\* A page is one of a job that is there; what a tab with its version believes of
\* it is so.
Sees(t, j, h, v, w) ==
    t.move \in PageMove =>
        /\ j # "NONE"
        /\ t.next \in JobCall /\ t.version = v /\ v \notin w => t.cur = j /\ t.handed = h

TabFits(t) == InChain(t) /\ t.version <= newest /\ Assembled(t, frozen)
TabSees(t) == Sees(t, job, handedOver, version, torn)

\* What a call would write lets nothing leave that is not assembled.
Harmless(w, f, p) == w.status \in {"IN_TRANSIT", "DELIVERED"} => f \/ p

ColumnsSet == [status : (JobStatus \ {"NONE"}) \cup {"kept"}, handed : BOOLEAN, problem : BOOLEAN]

\* The call adrift, if there is one, is one of a page, or was read.
Drifts(a, f, p, n) ==
    /\ a.version \in Nat /\ a.version <= n
    /\ a.call = "claim" => a.by \in User
    /\ a.call \in JobCall => f
    /\ a.call = "write" =>
          a.version # 0 /\ a.read = a.version /\ a.columns \in ColumnsSet /\ Harmless(a.columns, f, p)

IInv ==
    /\ TypeOK
    /\ tab \in [User -> Tab]
    /\ \A u \in User : TabFits(tab[u]) /\ TabSees(tab[u])
    /\ Drifts(adrift, frozen, problem, newest)
    /\ NothingLeavesUnassembled
    /\ NoStrayAssignment
    /\ sale = "COMPLETED" => status = "COMPLETED"

-----------------------------------------------------------------------------
\* The chains.

LEMMA IdleTab ==
    /\ InChain(Idle) /\ Idle.version = 0 /\ Idle.move = "none" /\ Idle.next = "none"
    /\ \A f : Assembled(Idle, f)
    /\ \A j, h, v, w : Sees(Idle, j, h, v, w)
BY DEF Idle, InChain, Assembled, Sees, Tab, Call, CallsOf, PageMove

\* After a call that is answered comes another of the move, or the chain is over.
LEMMA NextCall ==
    ASSUME NEW t, NEW call, t.move \in Move, call \in CallsOf(t.move) \cup {"none"},
           call # "deliverUnkeyed"
    PROVE  After(t, call) \in CallsOf(t.move) \cup {"done"}
<1>1. CASE t.move = "toWork"
  BY <1>1 DEF CallsOf, After, AfterToWork
<1>2. CASE t.move = "toNew"
  BY <1>2 DEF CallsOf, After
<1>3. CASE t.move = "toReady"
  BY <1>3 DEF CallsOf, After, AfterToReady
<1>4. CASE t.move = "toCourier"
  BY <1>4 DEF CallsOf, After, AfterToCourier
<1>5. CASE t.move = "toDone"
  BY <1>5 DEF CallsOf, After, AfterToDone
<1>6. CASE t.move = "handOver"
  BY <1>6 DEF CallsOf, After, AfterHandOver
<1>7. CASE t.move = "finish"
  BY <1>7 DEF CallsOf, After, AfterFinish, AfterHandOver
<1> QED
  BY <1>1, <1>2, <1>3, <1>4, <1>5, <1>6, <1>7 DEF Move, BoardMove, PageMove

\* No page calls about the job after a call about the order.
LEMMA OrderCallsLast ==
    ASSUME NEW t, NEW call \in OrderCall \cup {"readOrder"}, t.move \in PageMove,
           call \in CallsOf(t.move)
    PROVE  After(t, call) \notin JobCall
BY DEF CallsOf, After, AfterFinish, PageMove, OrderCall, JobCall

LEMMA CallsAreCalls ==
    ASSUME NEW m \in Move \cup {"none"}
    PROVE  CallsOf(m) \subseteq Call
BY DEF CallsOf, Call, JobCall, OrderCall, Move, BoardMove, PageMove

\* A tab that goes on after a call is in its chain, or done with it.
LEMMA GoneOn ==
    ASSUME NEW t, NEW call, t \in Tab, t.move \in Move, call \in CallsOf(t.move) \cup {"none"},
           call # "deliverUnkeyed", t.read = 0
    PROVE  /\ InChain(GoOn(t, call))
           /\ \/ GoOn(t, call) = Idle
              \/ /\ GoOn(t, call).move = t.move /\ GoOn(t, call).next = After(t, call)
                 /\ GoOn(t, call).cur = t.cur /\ GoOn(t, call).handed = t.handed
                 /\ GoOn(t, call).version = t.version
<1> DEFINE n == After(t, call)
           q == [t EXCEPT !.next = n]
<1>1. n \in CallsOf(t.move) \cup {"done"}
  BY NextCall
<1>2. CASE n = "done"
  BY <1>2, IdleTab DEF GoOn
<1>3. CASE n # "done"
  <2>1. GoOn(t, call) = q
    BY <1>3 DEF GoOn
  <2>2. n \in CallsOf(t.move) /\ n \in Call
    BY <1>1, <1>3, CallsAreCalls
  <2> HIDE DEF n
  <2>3. /\ q \in Tab /\ q.next = n /\ q.move = t.move /\ q.read = 0 /\ q.cur = t.cur
        /\ q.handed = t.handed /\ q.version = t.version
    BY <2>2 DEF Tab
  <2>4. InChain(q)
    BY <2>2, <2>3 DEF InChain
  <2> QED
    BY <2>1, <2>3, <2>4 DEF n
<1> QED
  BY <1>2, <1>3

-----------------------------------------------------------------------------
\* The steps.

ServerOK ==
    /\ type \in {"PICKUP", "DELIVERY"}
    /\ status \in OrderStatus
    /\ florist \in User \cup {Nobody}
    /\ frozen \in BOOLEAN
    /\ job \in JobStatus
    /\ handedOver \in BOOLEAN
    /\ problem \in BOOLEAN
    /\ newest \in Nat
    /\ version \in 1 .. newest
    /\ torn \subseteq 1 .. newest
    /\ sale \in {"NONE", "DRAFT", "COMPLETED"}
    /\ sale = "COMPLETED" => status = "COMPLETED"
    /\ status \in {"READY", "COMPLETED"} => frozen
    /\ status \in Reservable \cup {"IN_PREPARATION"} => ~frozen

OriginOK == (origin = "none" <=> florist = Nobody) /\ NoStrayAssignment

LEMMA InitInv == Init => IInv
<1> SUFFICES ASSUME Init PROVE IInv
  OBVIOUS
<1>1. TypeOK
  <2>1. 1 \in Nat /\ 1 \in 1 .. 1 /\ {} \subseteq 1 .. 1
    OBVIOUS
  <2>2. newest = 1 /\ version = 1 /\ torn = {} /\ problem = FALSE /\ handedOver = FALSE /\ frozen = FALSE
    BY DEF Init
  <2> QED
    BY <2>1, <2>2 DEF Init, TypeOK, OrderStatus, Reservable, JobStatus
<1>2. \A u \in User : tab[u] = Idle
  BY DEF Init
<1>3. Idle \in Tab
  BY IdleTab DEF InChain
<1>4. tab \in [User -> Tab]
  BY <1>3 DEF Init
<1>5. NothingLeavesUnassembled /\ NoStrayAssignment /\ sale # "COMPLETED"
  BY DEF Init, NothingLeavesUnassembled, NoStrayAssignment
<1>6. TabFits(Idle) /\ TabSees(Idle)
  BY <1>1, IdleTab DEF TabFits, TabSees, TypeOK
<1>7. Drifts(adrift, frozen, problem, newest)
  BY DEF Init, Drifts, NoCall, JobCall
<1> QED
  BY <1>1, <1>2, <1>4, <1>5, <1>6, <1>7 DEF IInv

\* What must be shown of a step: tabs that stay keep their place; what they
\* believe of the job is to be looked at only when the job is written.
LEMMA Stepped ==
    ASSUME IInv, NEW mine \in SUBSET User, NEW q,
           tab' = [w \in User |-> IF w \in mine THEN q ELSE tab[w]],
           ServerOK', OriginOK', frozen => frozen', newest <= newest',
           NothingLeavesUnassembled', Drifts(adrift, frozen, problem, newest)',
           \/ UNCHANGED <<job, handedOver, version, torn>>
           \/ job = "NONE"
           \/ job' # "NONE" /\ \A w \in User : tab[w].version # version' \/ version' \in torn',
           mine # {} => /\ InChain(q) /\ q.version <= newest' /\ Assembled(q, frozen')
                        /\ Sees(q, job', handedOver', version', torn')
    PROVE  IInv'
<1>1. ASSUME NEW w \in User
      PROVE  tab'[w] \in Tab /\ TabFits(tab[w])' /\ TabSees(tab[w])'
  <2>1. CASE w \in mine
    BY <2>1 DEF InChain, TabFits, TabSees
  <2>2. CASE w \notin mine
    <3>1. tab'[w] = tab[w] /\ TabFits(tab[w]) /\ TabSees(tab[w]) /\ tab[w] \in Tab
      BY <2>2 DEF IInv
    <3>2. tab[w].version \in Nat /\ newest \in Nat /\ newest' \in Nat
      BY <3>1 DEF Tab, IInv, TypeOK, ServerOK
    <3>3. TabFits(tab[w])'
      BY <3>1, <3>2 DEF TabFits, Assembled
    <3>4. TabSees(tab[w])'
      BY <3>1 DEF TabSees, Sees
    <3> QED
      BY <3>1, <3>3, <3>4
  <2> QED
    BY <2>1, <2>2
<1>2. tab' \in [User -> Tab]
  BY <1>1
<1>3. TypeOK'
  BY <1>2 DEF ServerOK, OriginOK, TypeOK
<1> QED
  BY <1>1, <1>2, <1>3 DEF IInv, ServerOK, OriginOK

\* One tab goes on.
LEMMA Proceeded ==
    ASSUME IInv, NEW u \in User, NEW q, Proceed(u, q),
           ServerOK', OriginOK', frozen => frozen', newest <= newest',
           NothingLeavesUnassembled', Drifts(adrift, frozen, problem, newest)',
           \/ UNCHANGED <<job, handedOver, version, torn>>
           \/ job = "NONE"
           \/ job' # "NONE" /\ \A w \in User : tab[w].version # version' \/ version' \in torn',
           InChain(q), q.version <= newest', Assembled(q, frozen'),
           Sees(q, job', handedOver', version', torn')
    PROVE  IInv'
<1>1. {u} \in SUBSET User /\ tab' = [w \in User |-> IF w \in {u} THEN q ELSE tab[w]]
  BY DEF Proceed, IInv
<1> QED
  BY <1>1, Stepped

\* No tab goes on.
LEMMA Stayed ==
    ASSUME IInv, tab' = tab,
           ServerOK', OriginOK', frozen => frozen', newest <= newest',
           NothingLeavesUnassembled', Drifts(adrift, frozen, problem, newest)',
           \/ UNCHANGED <<job, handedOver, version, torn>>
           \/ job = "NONE"
           \/ job' # "NONE" /\ \A w \in User : tab[w].version # version' \/ version' \in torn'
    PROVE  IInv'
<1>1. {} \in SUBSET User /\ tab' = [w \in User |-> IF w \in {} THEN Idle ELSE tab[w]]
  BY DEF IInv
<1> QED
  BY <1>1, Stepped

\* Nothing the server has changes.
LEMMA ServerStays ==
    ASSUME IInv, UNCHANGED serverVars
    PROVE  /\ ServerOK' /\ UNCHANGED <<status, florist, frozen, problem, newest>>
           /\ UNCHANGED <<job, handedOver, version, torn>>
           /\ newest <= newest' /\ NothingLeavesUnassembled'
<1>1. TypeOK /\ NothingLeavesUnassembled /\ (sale = "COMPLETED" => status = "COMPLETED")
  BY DEF IInv
<1>2. UNCHANGED <<type, status, florist, frozen, job, handedOver, problem, version, newest, torn, sale>>
  BY DEF serverVars, orderVars, jobVars, versionVars
<1>3. ServerOK' /\ NothingLeavesUnassembled'
  BY <1>1, <1>2 DEF TypeOK, ServerOK, NothingLeavesUnassembled
<1>4. newest <= newest'
  BY <1>1, <1>2 DEF TypeOK
<1> QED
  BY <1>2, <1>3, <1>4

\* What the server does about the order and its sale leaves the job alone, and
\* what is frozen stays so.
OrderActed ==
    \/ \E r \in Reservable : Reserve(r)
    \/ \E u \in User : Claim(u)
    \/ Release \/ StartPreparation \/ MarkReady \/ AssembleOrder \/ CompleteOrder
    \/ CancelOrder \/ CreateSale \/ CompleteSale \/ AnnulSale

LEMMA OrderActs ==
    ASSUME IInv, OrderActed
    PROVE  /\ ServerOK' /\ (frozen => frozen') /\ UNCHANGED jobVars /\ UNCHANGED versionVars
           /\ florist' \in {florist, Nobody} \/ \E u \in User : Claim(u)
           /\ status' \in Reservable => status \in Reservable
<1> USE DEF ServerOK, OrderStatus
<1>1. TypeOK /\ (sale = "COMPLETED" => status = "COMPLETED")
  BY DEF IInv
<1>2. ASSUME NEW r \in Reservable, Reserve(r)
      PROVE  /\ ServerOK' /\ (frozen => frozen') /\ UNCHANGED jobVars /\ UNCHANGED versionVars
             /\ florist' = florist /\ status \in Reservable
  BY <1>1, <1>2 DEF TypeOK, Reserve, CanReserve, SetOrder, jobVars, versionVars, Reservable
<1>3. ASSUME NEW u \in User, Claim(u)
      PROVE  /\ ServerOK' /\ (frozen => frozen') /\ UNCHANGED jobVars /\ UNCHANGED versionVars
             /\ status' = status
  BY <1>1, <1>3 DEF TypeOK, Claim, CanClaim, jobVars, versionVars
<1>4. CASE Release
  BY <1>1, <1>4 DEF TypeOK, Release, jobVars, versionVars
<1>5. CASE StartPreparation
  BY <1>1, <1>5 DEF TypeOK, StartPreparation, CanStart, SetOrder, jobVars, versionVars, Reservable
<1>6. CASE MarkReady \/ AssembleOrder \/ CompleteOrder
  BY <1>1, <1>6 DEF TypeOK, MarkReady, CanMarkReady, AssembleOrder, CompleteOrder, Freeze,
     SetOrder, jobVars, versionVars, Reservable
<1>7. CASE CancelOrder
  BY <1>1, <1>7 DEF TypeOK, CancelOrder, SetOrder, jobVars, versionVars, Reservable
<1>8. CASE CreateSale \/ CompleteSale \/ AnnulSale
  BY <1>1, <1>8 DEF TypeOK, CreateSale, CanSell, CompleteSale, AnnulSale, SetSale, jobVars,
     versionVars, Reservable
<1> QED
  BY <1>2, <1>3, <1>4, <1>5, <1>6, <1>7, <1>8 DEF OrderActed

\* ... and so keeps what is adrift, and lets nothing leave.
LEMMA OrderKeeps ==
    ASSUME IInv, OrderActed
    PROVE  /\ UNCHANGED <<job, handedOver, version, torn>> /\ newest <= newest'
           /\ NothingLeavesUnassembled'
           /\ adrift' \in {adrift, NoCall} => Drifts(adrift, frozen, problem, newest)'
<1>1. ServerOK' /\ (frozen => frozen') /\ UNCHANGED jobVars /\ UNCHANGED versionVars
  BY OrderActs
<1>2. TypeOK /\ NothingLeavesUnassembled /\ Drifts(adrift, frozen, problem, newest)
  BY DEF IInv
<1>3. UNCHANGED <<job, handedOver, problem, version, newest, torn>> /\ newest <= newest'
  BY <1>1, <1>2 DEF jobVars, versionVars, TypeOK
<1>4. NothingLeavesUnassembled'
  BY <1>1, <1>2, <1>3 DEF NothingLeavesUnassembled
<1>5. ASSUME adrift' \in {adrift, NoCall} PROVE Drifts(adrift, frozen, problem, newest)'
  <2>1. CASE adrift' = adrift
    BY <1>1, <1>2, <1>3, <2>1 DEF Drifts, Harmless
  <2>2. CASE adrift' = NoCall
    <3>1. NoCall.version = 0 /\ NoCall.call = "none"
      BY DEF NoCall
    <3>2. newest' \in Nat
      BY <1>2, <1>3 DEF TypeOK
    <3> QED
      BY <2>2, <3>1, <3>2 DEF Drifts, JobCall
  <2> QED
    BY <1>5, <2>1, <2>2
<1> QED
  BY <1>3, <1>4, <1>5

\* A write gives the job a version no tab holds, or one two calls gave it.
LEMMA JobWritten ==
    ASSUME IInv, NEW w \in ColumnsSet, NEW n \in Nat, n # 0, n <= newest, WriteJob(w, n, n),
           Harmless(w, frozen, problem)
    PROVE  /\ ServerOK' /\ UNCHANGED orderVars /\ newest <= newest' /\ version' <= newest'
           /\ NothingLeavesUnassembled' /\ (problem => problem')
           /\ \/ job = "NONE"
              \/ /\ job' # "NONE"
                 /\ \A u \in User : tab[u].version # version' \/ version' \in torn'
<1>1. TypeOK /\ NothingLeavesUnassembled /\ (sale = "COMPLETED" => status = "COMPLETED")
  BY DEF IInv
<1>2. /\ job' = IF w.status = "kept" THEN job ELSE w.status
      /\ handedOver' = (handedOver \/ w.handed) /\ problem' = (problem \/ w.problem)
      /\ version' = n + 1 /\ UNCHANGED <<type, status, florist, frozen, sale>>
      /\ \/ n + 1 > newest /\ newest' = n + 1 /\ torn' = torn
         \/ ~(n + 1 > newest) /\ torn' = torn \cup {n + 1} /\ newest' = newest
  BY DEF WriteJob, orderVars
<1>3. newest \in Nat /\ newest' \in Nat /\ newest <= newest' /\ version' \in 1 .. newest'
  BY <1>1, <1>2 DEF TypeOK
<1>4. torn' \subseteq 1 .. newest'
  <2>1. torn \subseteq 1 .. newest
    BY <1>1 DEF TypeOK
  <2>2. torn \subseteq 1 .. newest'
    BY <1>3, <2>1
  <2>3. torn' \subseteq torn \cup {version'}
    BY <1>2
  <2> QED
    BY <1>3, <2>2, <2>3
<1>5. job' \in JobStatus /\ handedOver' \in BOOLEAN /\ problem' \in BOOLEAN
  BY <1>1, <1>2 DEF TypeOK, ColumnsSet
<1>6. ServerOK'
  BY <1>1, <1>2, <1>3, <1>4, <1>5 DEF TypeOK, ServerOK
<1>7. NothingLeavesUnassembled'
  BY <1>1, <1>2 DEF NothingLeavesUnassembled, Harmless
<1>8. ASSUME NEW u \in User PROVE tab[u].version # version' \/ version' \in torn'
  <2>1. tab[u].version \in Nat /\ tab[u].version <= newest
    BY DEF IInv, TabFits, Tab
  <2> QED
    BY <1>2, <1>3, <2>1
<1>9. job = "NONE" \/ job' # "NONE"
  <2>1. w.status # "NONE"
    BY DEF ColumnsSet, JobStatus
  <2> QED
    BY <1>2, <2>1
<1>10. UNCHANGED orderVars /\ (problem => problem') /\ version' <= newest'
  <2>1. UNCHANGED orderVars
    BY <1>2 DEF orderVars
  <2>2. problem => problem'
    BY <1>2
  <2>3. version' <= newest'
    BY <1>3
  <2> QED
    BY <2>1, <2>2, <2>3
<1> QED
  BY <1>3, <1>6, <1>7, <1>8, <1>9, <1>10

\* A card or a page from which bouquets leave shows an assembled one.
LEMMA BeginStep ==
    ASSUME IInv, NEW u \in User, NEW m \in Move, Begin(u, m)
    PROVE  IInv'
<1> DEFINE t == Loaded(m)
           q == GoOn(t, "none")
<1>1. /\ UNCHANGED serverVars /\ adrift' = adrift /\ origin' = origin /\ Proceed(u, q)
      /\ tab[u] = Idle
      /\ IF m \in BoardMove THEN CanDrop(Column, m) ELSE Offers(m)
  BY DEF Begin, Proceed
<1>2. TypeOK /\ Drifts(adrift, frozen, problem, newest)
  BY DEF IInv
<1>3. /\ t \in Tab /\ t.move = m /\ t.read = 0 /\ t.version <= newest
      /\ m \in PageMove => t.cur = job /\ t.handed = handedOver
  <2> DEFINE cur == IF m \in {"toWork", "toNew", "toReady"} THEN status ELSE job
             handed == m \in PageMove /\ handedOver
             v == IF m \in PageMove THEN version ELSE 0
  <2>1. t = [Idle EXCEPT !.move = m, !.cur = cur, !.handed = handed, !.version = v]
    BY DEF Loaded
  <2>2. /\ cur \in OrderStatus \cup JobStatus
        /\ handed \in BOOLEAN /\ v \in Nat /\ v <= newest
    BY <1>2 DEF TypeOK
  <2>3. m \in PageMove => cur = job /\ handed = handedOver
    BY <1>2 DEF PageMove, TypeOK
  <2> HIDE DEF cur, handed, v, t
  <2>4. Idle \in Tab /\ Idle.read = 0
    BY IdleTab DEF InChain, Idle
  <2>5. t \in Tab /\ t.move = m /\ t.cur = cur /\ t.handed = handed /\ t.version = v /\ t.read = 0
    BY <2>1, <2>2, <2>4 DEF Tab
  <2> QED
    BY <2>2, <2>3, <2>5
<1>4. m \in {"toCourier", "handOver", "finish"} => status = "READY"
  BY <1>1, <1>2 DEF CanDrop, Offers, Column, Phase, BoardMove, PageMove
<1>5. Assembled(t, frozen) /\ (m \in PageMove => job # "NONE")
  BY <1>1, <1>2, <1>3, <1>4 DEF TypeOK, Assembled, Offers, PageMove, BoardMove
<1> HIDE DEF t
<1>6. /\ InChain(q)
      /\ \/ q = Idle
         \/ /\ q.move = t.move /\ q.cur = t.cur /\ q.handed = t.handed /\ q.version = t.version
  BY <1>3, GoneOn
<1>7. newest \in Nat
  BY <1>2 DEF TypeOK
<1>8. Assembled(q, frozen) /\ Sees(q, job, handedOver, version, torn) /\ q.version <= newest
  BY <1>3, <1>5, <1>6, <1>7, IdleTab DEF Assembled, Sees
<1>9. OriginOK'
  <2>1. (origin = "none" <=> florist = Nobody) /\ NoStrayAssignment
    BY <1>2 DEF IInv, TypeOK
  <2>2. origin' = origin /\ florist' = florist /\ status' = status
    BY <1>1, ServerStays
  <2>3. ASSUME origin = "chain", status \in Reservable PROVE tab'[florist] = tab[florist]
    <3>1. tab[florist].move = "toWork"
      BY <2>1, <2>3 DEF NoStrayAssignment
    <3>2. florist # u
      BY <1>1, <3>1, IdleTab
    <3>3. florist \in User
      BY <1>2, <2>1, <2>3 DEF TypeOK
    <3> QED
      BY <1>1, <3>2, <3>3 DEF Proceed, IInv
  <2> QED
    BY <2>1, <2>2, <2>3 DEF OriginOK, NoStrayAssignment
<1> HIDE DEF q
<1>10. Drifts(adrift, frozen, problem, newest)'
  BY <1>1, <1>2, ServerStays
<1>11. ServerOK' /\ UNCHANGED <<frozen, job, handedOver, version, torn, newest>>
       /\ newest <= newest' /\ NothingLeavesUnassembled'
  BY <1>1, ServerStays
<1> QED
  BY <1>1, <1>6, <1>8, <1>9, <1>10, <1>11, Proceeded

\* What a page leaves adrift is harmless.
LEMMA LetGoDrifts ==
    ASSUME IInv, NEW u \in User, LetGo(u), UNCHANGED serverVars
    PROVE  Drifts(adrift, frozen, problem, newest)'
<1> DEFINE t == tab[u]
           a == Unanswered(u, t)
<1>1. UNCHANGED <<frozen, problem, newest>> /\ Drifts(adrift, frozen, problem, newest)
  BY ServerStays DEF IInv
<1>2. CASE UNCHANGED adrift
  BY <1>1, <1>2
<1>3. CASE adrift' = a
  <2>1. InChain(t) /\ t.version <= newest /\ Assembled(t, frozen) /\ newest \in Nat
    BY DEF IInv, TabFits, TypeOK
  <2>2. t.next \in JobCall => frozen
    BY <2>1 DEF InChain, Assembled, CallsOf, Tab, Move, BoardMove, PageMove, JobCall
  <2>3. CASE t.read # 0
    <3>1. t.next \in JobCall /\ t.read = t.version /\ t.version \in Nat
      BY <2>1, <2>3 DEF InChain, Tab
    <3>2. a.call = "write" /\ a.version = t.version /\ a.read = t.read /\ a.columns = ColumnsOf(t.next)
      BY <2>3 DEF Unanswered, NoCall
    <3>3. ColumnsOf(t.next) \in ColumnsSet
      BY <3>1 DEF JobCall, ColumnsOf, MarkReadyForDispatch, Handover, StartTransit, MarkDelivered,
         Columns, ColumnsSet, JobStatus
    <3> HIDE DEF a, t
    <3> QED
      BY <1>1, <1>3, <2>1, <2>2, <2>3, <3>1, <3>2, <3>3 DEF Drifts, Harmless, JobCall
  <2>4. CASE t.read = 0
    <3>1. /\ a.call = t.next /\ a.by = (IF t.next = "claim" THEN u ELSE Nobody)
          /\ a.version = IF t.next \in JobCall THEN t.version ELSE 0
      BY <2>4 DEF Unanswered, NoCall
    <3>2. t.version \in Nat /\ t.next # "write"
      BY <2>1 DEF InChain, Tab, Call, JobCall, OrderCall
    <3> HIDE DEF a, t
    <3> QED
      BY <1>1, <1>3, <2>1, <2>2, <3>1, <3>2 DEF Drifts
  <2> QED
    BY <2>3, <2>4
<1> QED
  BY <1>2, <1>3 DEF LetGo

\* A tab gives its call up; it starts to take its claim back, or is done.
LEMMA GivenUpStep ==
    ASSUME IInv, NEW u \in User, Fails(u) \/ Leaves(u)
    PROVE  IInv'
<1> DEFINE t == tab[u]
<1>1. UNCHANGED serverVars /\ LetGo(u)
  BY DEF Fails, Leaves
<1>2. /\ TypeOK /\ InChain(t) /\ t.version <= newest /\ t \in Tab
      /\ (origin = "none" <=> florist = Nobody) /\ NoStrayAssignment
  BY DEF IInv, TabFits, InChain, TypeOK
<1>3. PICK q : Proceed(u, q) /\ q = (IF Fails(u) THEN AfterFailure(t) ELSE Idle)
  BY DEF Fails, Leaves
<1>4. CASE q = Idle
  <2>1. OriginOK'
    <3>1. /\ UNCHANGED <<status, florist>>
          /\ origin' \in {origin, "left"} /\ (origin' = "left" => origin' = origin \/ florist = u)
      BY <1>1, ServerStays DEF Fails, Leaves
    <3>2. ASSUME origin' = "chain", status \in Reservable
          PROVE  /\ tab'[florist].move = "toWork" /\ tab'[florist].next \in {"start", "rollback"}
      <4>1. origin = "chain" /\ florist \in User
            /\ tab[florist].move = "toWork" /\ tab[florist].next \in {"start", "rollback"}
        BY <1>2, <3>1, <3>2 DEF NoStrayAssignment, TypeOK
      <4>2. florist # u
        <5> SUFFICES ASSUME florist = u PROVE FALSE
          OBVIOUS
        <5>1. t.move = "toWork" /\ t.next \in {"start", "rollback"}
          BY <4>1
        <5>2. CASE Fails(u)
          <6>1. t.next = "start"
            BY <3>2, <5>1, <5>2 DEF Fails
          <6>2. AfterFailure(t) = [t EXCEPT !.next = "rollback"]
            BY <5>1, <6>1 DEF AfterFailure
          <6>3. AfterFailure(t).next = "rollback"
            BY <1>2, <6>2 DEF Tab
          <6> QED
            BY <1>3, <1>4, <5>2, <6>3, IdleTab
        <5>3. CASE Leaves(u)
          BY <3>2, <5>1, <5>3 DEF Leaves
        <5> QED
          BY <5>2, <5>3
      <4> QED
        BY <1>3, <4>1, <4>2 DEF Proceed, IInv
    <3>3. origin' = "none" <=> florist' = Nobody
      BY <1>2, <3>1, UserAssumption
    <3> QED
      BY <3>1, <3>2, <3>3 DEF OriginOK, NoStrayAssignment
  <2>2. newest \in Nat /\ Drifts(adrift, frozen, problem, newest)'
    BY <1>1, <1>2, LetGoDrifts DEF TypeOK
  <2>3. InChain(q) /\ q.version <= newest' /\ Assembled(q, frozen')
        /\ Sees(q, job', handedOver', version', torn')
    BY <1>1, <1>4, <2>2, IdleTab, ServerStays
  <2>4. ServerOK' /\ UNCHANGED <<frozen, job, handedOver, version, torn, newest>>
        /\ newest <= newest' /\ NothingLeavesUnassembled'
    BY <1>1, ServerStays
  <2> QED
    BY <1>3, <2>1, <2>2, <2>3, <2>4, Proceeded
<1>5. CASE q # Idle
  <2> HIDE DEF t
  <2>1. /\ t.move = "toWork" /\ t.next = "start" /\ q = [t EXCEPT !.next = "rollback"]
        /\ Fails(u)
    BY <1>3, <1>5 DEF AfterFailure
  <2>2. /\ q \in Tab /\ q.move = "toWork" /\ q.next = "rollback" /\ q.read = t.read
        /\ q.version = t.version
    BY <1>2, <2>1 DEF Tab, Call, OrderCall
  <2>3. t.read = 0
    BY <1>2, <2>1 DEF InChain, JobCall
  <2>4. InChain(q) /\ Assembled(q, frozen') /\ Sees(q, job', handedOver', version', torn')
    BY <2>2, <2>3 DEF InChain, Assembled, Sees, PageMove, CallsOf
  <2>5. OriginOK'
    <3>1. UNCHANGED <<status, florist>> /\ origin' = origin
      BY <1>1, <2>1, ServerStays DEF Fails, t
    <3>2. ASSUME origin = "chain", status \in Reservable
          PROVE  /\ tab'[florist].move = "toWork" /\ tab'[florist].next \in {"start", "rollback"}
      <4>1. florist \in User
            /\ tab[florist].move = "toWork" /\ tab[florist].next \in {"start", "rollback"}
        BY <1>2, <3>2 DEF NoStrayAssignment, TypeOK
      <4> QED
        BY <1>3, <2>2, <4>1 DEF Proceed, IInv
    <3> QED
      BY <1>2, <3>1, <3>2 DEF OriginOK, NoStrayAssignment
  <2>6. ServerOK' /\ UNCHANGED <<frozen, job, handedOver, version, torn, newest>>
        /\ newest <= newest' /\ NothingLeavesUnassembled'
    BY <1>1, ServerStays
  <2>7. q.version <= newest' /\ Drifts(adrift, frozen, problem, newest)'
    BY <1>1, <1>2, <2>2, <2>6, LetGoDrifts
  <2> QED
    BY <1>3, <2>4, <2>5, <2>6, <2>7, Proceeded
<1> QED
  BY <1>4, <1>5

\* A call about the order is one of those the server carries out.
LEMMA CarriedOut ==
    ASSUME IInv, NEW u, NEW call, CarryOut(call, u), call = "claim" => u \in User
    PROVE  /\ OrderActed /\ call \in OrderCall
           /\ call = "claim" => florist' = u /\ florist \in {u, Nobody} /\ status' = status
           /\ call # "claim" => florist' \in {florist, Nobody}
           /\ call = "reserve" => status' \in Reservable /\ status \in Reservable
           /\ call \in {"start", "markReady", "complete"} => status' \notin Reservable
           /\ call \in {"rollback", "release"} => florist' = Nobody
<1>1. ASSUME NEW r \in Reservable, Reserve(r)
      PROVE  florist' = florist /\ status' \in Reservable /\ status \in Reservable
  BY <1>1 DEF Reserve, CanReserve, SetOrder
<1>2. ASSUME Claim(u)
      PROVE  florist' = u /\ florist \in {u, Nobody} /\ status' = status
  BY <1>2 DEF Claim, CanClaim
<1>3. ASSUME StartPreparation \/ MarkReady \/ CompleteOrder
      PROVE  florist' = florist /\ status' \notin Reservable
  BY <1>3 DEF StartPreparation, MarkReady, CompleteOrder, SetOrder, Reservable
<1>4. ASSUME Release PROVE florist' = Nobody
  BY <1>4 DEF Release
<1> QED
  BY <1>1, <1>2, <1>3, <1>4 DEF CarryOut, OrderActed, OrderCall

\* An assignment a chain did not make now came about as before, or is gone.
LEMMA OriginKept ==
    ASSUME IInv, UserAssumption, NEW o, Assigned(o), o \notin {"none", "chain"} \/ florist' \in {florist, Nobody},
           florist' \in User \cup {Nobody}, status' \in Reservable => status \in Reservable,
           florist' = florist => tab'[florist] = tab[florist] \/ origin # "chain" \/ status' \notin Reservable
    PROVE  OriginOK'
BY DEF OriginOK, Assigned, NoStrayAssignment, IInv, TypeOK

LEMMA AnswerOrderStep ==
    ASSUME IInv, NEW u \in User, AnswerOrder(u)
    PROVE  IInv'
<1> DEFINE t == tab[u]
           s == IF t.next = "reserve" THEN [t EXCEPT !.cur = status'] ELSE t
           q == GoOn(s, t.next)
<1>1. CarryOut(t.next, u) /\ Assigned("chain") /\ Proceed(u, q) /\ UNCHANGED adrift
  BY DEF AnswerOrder
<1>2. /\ TypeOK /\ InChain(t) /\ t.version <= newest /\ Assembled(t, frozen) /\ t \in Tab
      /\ Drifts(adrift, frozen, problem, newest) /\ Sees(t, job, handedOver, version, torn)
  BY DEF IInv, TabFits, TabSees, InChain
<1>3. /\ OrderActed /\ t.next \in OrderCall
      /\ t.next = "claim" => florist' = u /\ florist \in {u, Nobody} /\ status' = status
      /\ t.next # "claim" => florist' \in {florist, Nobody}
      /\ t.next = "reserve" => status' \in Reservable /\ status \in Reservable
      /\ t.next \in {"start", "markReady", "complete"} => status' \notin Reservable
      /\ t.next \in {"rollback", "release"} => florist' = Nobody
  BY <1>1, CarriedOut
<1>4. /\ ServerOK' /\ (frozen => frozen') /\ UNCHANGED jobVars /\ UNCHANGED versionVars
      /\ status' \in Reservable => status \in Reservable
  BY <1>3, OrderActs
<1>5. /\ UNCHANGED <<job, handedOver, version, torn>> /\ newest <= newest'
      /\ NothingLeavesUnassembled' /\ Drifts(adrift, frozen, problem, newest)'
  BY <1>1, <1>3, OrderKeeps
<1>6. t.read = 0 /\ t.move \in Move /\ t.next \in CallsOf(t.move)
  BY <1>2, <1>3 DEF InChain, Tab, CallsOf, OrderCall, JobCall
<1> HIDE DEF t
<1>7. /\ s \in Tab /\ s.move = t.move /\ s.read = 0 /\ s.version = t.version
  BY <1>2, <1>3, <1>6 DEF Tab, OrderStatus
<1> HIDE DEF s
<1>8. /\ InChain(q)
      /\ \/ q = Idle
         \/ /\ q.move = t.move /\ q.next = After(s, t.next) /\ q.version = t.version
  BY <1>3, <1>6, <1>7, GoneOn DEF OrderCall
<1>9. newest \in Nat /\ newest' \in Nat /\ t.version \in Nat
  BY <1>2, <1>4 DEF TypeOK, ServerOK, Tab
<1>10. q.version <= newest' /\ Assembled(q, frozen')
  BY <1>2, <1>4, <1>5, <1>8, <1>9, IdleTab DEF Assembled
<1>11. Sees(q, job', handedOver', version', torn')
  <2>1. CASE q = Idle
    BY <2>1, IdleTab
  <2>2. CASE q # Idle
    <3>1. q.move \in PageMove => q.next \notin JobCall
      BY <1>3, <1>6, <1>7, <1>8, <2>2, OrderCallsLast
    <3>2. q.move \in PageMove => job' # "NONE"
      BY <1>2, <1>5, <1>8, <2>2 DEF Sees
    <3> QED
      BY <3>1, <3>2 DEF Sees
  <2> QED
    BY <2>1, <2>2
<1>12. tab' = [tab EXCEPT ![u] = q] /\ tab \in [User -> Tab] /\ t = tab[u]
  BY <1>1 DEF Proceed, IInv, t
<1>13. OriginOK'
  <2>1. CASE t.next = "claim" /\ florist = Nobody
    <3>1. florist' = u /\ origin' = "chain"
      BY <1>1, <1>3, <2>1, UserAssumption DEF Assigned
    <3>2. t.move = "toWork"
      BY <1>6, <2>1 DEF CallsOf, Move, BoardMove, PageMove
    <3>3. After(s, t.next) \in {"start", "rollback"}
      BY <1>7, <2>1, <3>2 DEF After, AfterToWork
    <3>4. q.move = "toWork" /\ q.next \in {"start", "rollback"}
      BY <1>7, <2>1, <3>2, <3>3 DEF GoOn, Tab
    <3> QED
      BY <1>12, <3>1, <3>4, UserAssumption DEF OriginOK, NoStrayAssignment
  <2>2. CASE ~(t.next = "claim" /\ florist = Nobody)
    <3>1. florist' \in {florist, Nobody}
      BY <1>3, <2>2
    <3>2. ASSUME florist' = florist, origin = "chain", status' \in Reservable
          PROVE  tab'[florist] = tab[florist]
      <4>1. florist \in User /\ tab[florist].next \in {"start", "rollback"} /\ florist # Nobody
        BY <1>2, <1>4, <3>2 DEF IInv, TypeOK, NoStrayAssignment
      <4>2. t.next \notin {"start", "rollback"}
        BY <1>3, <3>2, <4>1
      <4> QED
        BY <1>12, <4>1, <4>2
    <3> QED
      BY <1>1, <1>2, <1>4, <3>1, <3>2, OriginKept, UserAssumption DEF TypeOK
  <2> QED
    BY <2>1, <2>2
<1> HIDE DEF q
<1> QED
  BY <1>1, <1>4, <1>5, <1>8, <1>10, <1>11, <1>13, Proceeded

\* A tab whose call is not about the assignment leaves it as it is.
LEMMA OriginStays ==
    ASSUME IInv, NEW u \in User, NEW q, Proceed(u, q), UNCHANGED <<status, florist, origin>>,
           tab[u].next \notin {"start", "rollback"}
    PROVE  OriginOK'
<1>1. ASSUME origin = "chain", status \in Reservable
      PROVE  tab'[florist] = tab[florist]
  <2>1. florist \in User /\ tab[florist].next \in {"start", "rollback"}
    BY <1>1 DEF IInv, TypeOK, NoStrayAssignment
  <2> QED
    BY <2>1 DEF Proceed, IInv
<1> QED
  BY <1>1 DEF OriginOK, NoStrayAssignment, IInv, TypeOK

LEMMA BeginJobStep ==
    ASSUME IInv, NEW u \in User, BeginJob(u)
    PROVE  IInv'
<1> DEFINE t == tab[u]
           q == [t EXCEPT !.read = version]
<1>1. /\ t.next \in JobCall /\ t.version = version /\ Proceed(u, q)
      /\ UNCHANGED serverVars /\ UNCHANGED <<adrift, origin>>
  BY DEF BeginJob, Fits
<1>2. /\ TypeOK /\ InChain(t) /\ t.version <= newest /\ Assembled(t, frozen) /\ t \in Tab
      /\ Sees(t, job, handedOver, version, torn) /\ Drifts(adrift, frozen, problem, newest)
  BY DEF IInv, TabFits, TabSees, InChain
<1>3. version \in Nat
  BY <1>2 DEF TypeOK
<1>4. OriginOK'
  BY <1>1, ServerStays, OriginStays DEF JobCall
<1>5. ServerOK' /\ UNCHANGED <<frozen, problem, job, handedOver, version, torn, newest>>
      /\ newest <= newest' /\ NothingLeavesUnassembled'
  BY <1>1, ServerStays
<1> HIDE DEF t
<1>6. /\ q \in Tab /\ q.move = t.move /\ q.next = t.next /\ q.version = t.version
      /\ q.cur = t.cur /\ q.handed = t.handed /\ q.read = version
  BY <1>2, <1>3 DEF Tab
<1> HIDE DEF q
<1>7. /\ InChain(q) /\ q.version <= newest' /\ Assembled(q, frozen')
      /\ Sees(q, job', handedOver', version', torn')
  BY <1>1, <1>2, <1>5, <1>6 DEF InChain, Assembled, Sees
<1>8. Drifts(adrift, frozen, problem, newest)'
  BY <1>1, <1>2, <1>5
<1> QED
  BY <1>1, <1>4, <1>5, <1>7, <1>8, Proceeded

LEMMA AnswerReadStep ==
    ASSUME IInv, NEW u \in User, NEW t, t = tab[u], UNCHANGED serverVars, UNCHANGED <<adrift, origin>>,
           \/ t.next = "version" /\ Proceed(u, GoOn([t EXCEPT !.version = version], "version"))
           \/ t.next = "readOrder" /\ Proceed(u, GoOn([t EXCEPT !.cur = status], "readOrder"))
    PROVE  IInv'
<1>1. /\ TypeOK /\ InChain(t) /\ t.version <= newest /\ Assembled(t, frozen) /\ t \in Tab
      /\ Drifts(adrift, frozen, problem, newest) /\ Sees(t, job, handedOver, version, torn)
  BY DEF IInv, TabFits, TabSees, InChain
<1>2. ServerOK' /\ UNCHANGED <<status, florist, frozen, problem, job, handedOver, version, torn, newest>>
      /\ newest <= newest' /\ NothingLeavesUnassembled'
  BY ServerStays
<1>3. Drifts(adrift, frozen, problem, newest)' /\ t.read = 0 /\ t.move \in Move
  BY <1>1, <1>2 DEF InChain, Tab, CallsOf, JobCall
<1>4. version \in Nat /\ newest \in Nat /\ version <= newest /\ status \in OrderStatus
  BY <1>1 DEF TypeOK
<1>5. PICK s, call :
        /\ call = t.next /\ call \in {"version", "readOrder"} /\ Proceed(u, GoOn(s, call))
        /\ s \in Tab /\ s.move = t.move /\ s.read = 0 /\ s.version <= newest
  <2>1. CASE t.next = "version" /\ Proceed(u, GoOn([t EXCEPT !.version = version], "version"))
    <3>1. /\ [t EXCEPT !.version = version] \in Tab
          /\ [t EXCEPT !.version = version].move = t.move
          /\ [t EXCEPT !.version = version].read = 0
          /\ [t EXCEPT !.version = version].version = version
      BY <1>1, <1>3, <1>4 DEF Tab
    <3> QED
      BY <1>4, <2>1, <3>1
  <2>2. CASE t.next = "readOrder" /\ Proceed(u, GoOn([t EXCEPT !.cur = status], "readOrder"))
    <3>1. /\ [t EXCEPT !.cur = status] \in Tab
          /\ [t EXCEPT !.cur = status].move = t.move
          /\ [t EXCEPT !.cur = status].read = 0
          /\ [t EXCEPT !.cur = status].version = t.version
      BY <1>1, <1>3, <1>4 DEF Tab
    <3> QED
      BY <1>1, <2>2, <3>1
  <2> QED
    BY <2>1, <2>2
<1> DEFINE q == GoOn(s, call)
<1>6. call \in CallsOf(s.move) /\ call # "deliverUnkeyed"
  BY <1>1, <1>5 DEF InChain
<1>7. /\ InChain(q)
      /\ \/ q = Idle
         \/ /\ q.move = t.move /\ q.next = After(s, call) /\ q.version = s.version
  BY <1>3, <1>5, <1>6, GoneOn
<1>8. q.version <= newest' /\ Assembled(q, frozen')
  BY <1>1, <1>2, <1>4, <1>5, <1>7, IdleTab DEF Assembled
<1>9. Sees(q, job', handedOver', version', torn')
  <2>1. CASE q = Idle
    BY <2>1, IdleTab
  <2>2. CASE call = "version"
    <3>1. s.move \notin PageMove
      BY <1>6, <2>2 DEF CallsOf, PageMove
    <3> QED
      BY <1>5, <1>7, <2>1, <3>1 DEF Sees
  <2>3. CASE call = "readOrder" /\ q # Idle
    <3>1. q.move \in PageMove => q.next \notin JobCall
      BY <1>5, <1>6, <1>7, <2>3, OrderCallsLast
    <3>2. q.move \in PageMove => job' # "NONE"
      BY <1>1, <1>2, <1>7, <2>3 DEF Sees
    <3> QED
      BY <3>1, <3>2 DEF Sees
  <2> QED
    BY <1>5, <2>1, <2>2, <2>3
<1>10. OriginOK'
  BY <1>2, <1>5, OriginStays
<1> HIDE DEF q
<1> QED
  BY <1>2, <1>3, <1>5, <1>7, <1>8, <1>9, <1>10, Proceeded DEF q

\* What a call about the job writes.
LEMMA CallColumns ==
    ASSUME NEW call \in JobCall
    PROVE  ColumnsOf(call) \in ColumnsSet
BY DEF JobCall, ColumnsOf, MarkReadyForDispatch, Handover, StartTransit, MarkDelivered, Columns,
   ColumnsSet, JobStatus

LEMMA AnswerJobStep ==
    ASSUME IInv, NEW u \in User, AnswerJob(u)
    PROVE  IInv'
<1> DEFINE t == tab[u]
<1>1. CASE /\ UNCHANGED serverVars /\ UNCHANGED <<adrift, origin>>
           /\ \/ t.next = "version" /\ Proceed(u, GoOn([t EXCEPT !.version = version], "version"))
              \/ t.next = "readOrder" /\ Proceed(u, GoOn([t EXCEPT !.cur = status], "readOrder"))
  BY <1>1, AnswerReadStep
<1>2. CASE /\ t.read # 0
           /\ WriteJob(ColumnsOf(t.next), t.version, t.read)
           /\ Proceed(u, GoOn(Told(t), t.next))
           /\ UNCHANGED <<adrift, origin>>
  <2> DEFINE s == Told(t)
             q == GoOn(s, t.next)
  <2>1. /\ TypeOK /\ InChain(t) /\ t.version <= newest /\ Assembled(t, frozen) /\ t \in Tab
        /\ Drifts(adrift, frozen, problem, newest) /\ Sees(t, job, handedOver, version, torn)
    BY DEF IInv, TabFits, TabSees, InChain
  <2>2. /\ t.next \in JobCall /\ t.read = t.version /\ t.version \in Nat /\ t.version # 0
        /\ t.next \in CallsOf(t.move) /\ t.move \in Move
        /\ t.move \in {"toCourier", "handOver", "finish"}
    BY <1>2, <2>1 DEF InChain, Tab, CallsOf, JobCall, Move, BoardMove, PageMove
  <2>3. frozen /\ ColumnsOf(t.next) \in ColumnsSet /\ Harmless(ColumnsOf(t.next), frozen, problem)
    BY <2>1, <2>2, CallColumns DEF Assembled, Harmless
  <2>4. /\ ServerOK' /\ UNCHANGED orderVars /\ newest <= newest' /\ version' <= newest'
        /\ NothingLeavesUnassembled' /\ (problem => problem')
        /\ \/ job = "NONE"
           \/ job' # "NONE" /\ \A w \in User : tab[w].version # version' \/ version' \in torn'
    BY <1>2, <2>1, <2>2, <2>3, JobWritten
  <2>5. UNCHANGED <<type, status, florist, frozen>>
    BY <2>4 DEF orderVars
  <2>6. Drifts(adrift, frozen, problem, newest)'
    <3>1. newest \in Nat /\ newest' \in Nat
      BY <2>1, <2>4 DEF TypeOK, ServerOK
    <3> QED
      BY <1>2, <2>1, <2>4, <2>5, <3>1 DEF Drifts, Harmless
  <2>7. OriginOK'
    BY <1>2, <2>2, <2>5, OriginStays DEF JobCall
  <2>8. Proceed(u, q)
    BY <1>2
  <2>9. version' \in Nat /\ job' \in JobStatus /\ handedOver' \in BOOLEAN
    BY <2>4 DEF ServerOK
  <2> HIDE DEF t
  <2>10. /\ s \in Tab /\ s.move = t.move /\ s.read = 0 /\ s.version = version'
         /\ s.move \in PageMove => s.cur = job' /\ s.handed = handedOver'
    BY <2>1, <2>9 DEF Told, Tab
  <2> HIDE DEF s
  <2>11. /\ InChain(q)
         /\ \/ q = Idle
            \/ /\ q.move = s.move /\ q.cur = s.cur /\ q.handed = s.handed /\ q.version = s.version
    BY <2>2, <2>10, GoneOn DEF JobCall
  <2> HIDE DEF q
  <2>12. t.move \in PageMove => job' # "NONE"
    BY <2>1, <2>4 DEF Sees
  <2>13. CASE q = Idle
    <3>1. newest' \in Nat
      BY <2>4 DEF ServerOK
    <3> QED
      BY <2>4, <2>5, <2>6, <2>7, <2>8, <2>11, <2>13, <3>1, IdleTab, Proceeded
  <2>14. CASE q # Idle
    <3>1. q.version <= newest' /\ Assembled(q, frozen')
      BY <2>3, <2>4, <2>5, <2>10, <2>11, <2>14 DEF Assembled
    <3>2. Sees(q, job', handedOver', version', torn')
      BY <2>10, <2>11, <2>12, <2>14 DEF Sees
    <3> QED
      BY <2>4, <2>5, <2>6, <2>7, <2>8, <2>11, <3>1, <3>2, Proceeded
  <2> QED
    BY <2>13, <2>14
<1> QED
  BY <1>1, <1>2 DEF AnswerJob

\* The call adrift: nobody's tab goes on.
LEMMA ArrivesStep ==
    ASSUME IInv, Arrives
    PROVE  IInv'
<1>1. TypeOK /\ Drifts(adrift, frozen, problem, newest) /\ tab' = tab
  BY DEF IInv, Arrives
<1>2. CASE CarryOut(adrift.call, adrift.by) /\ Assigned("unanswered") /\ adrift' = NoCall
  <2>1. /\ OrderActed
        /\ adrift.call = "claim" => florist' = adrift.by /\ adrift.by \in User
        /\ adrift.call # "claim" => florist' \in {florist, Nobody}
    BY <1>1, <1>2, CarriedOut DEF Drifts
  <2>2. /\ ServerOK' /\ (frozen => frozen') /\ (status' \in Reservable => status \in Reservable)
    BY <2>1, OrderActs
  <2>3. /\ UNCHANGED <<job, handedOver, version, torn>> /\ newest <= newest'
        /\ NothingLeavesUnassembled' /\ Drifts(adrift, frozen, problem, newest)'
    BY <1>2, <2>1, OrderKeeps
  <2>4. OriginOK'
    BY <1>1, <1>2, <2>1, <2>2, OriginKept, UserAssumption DEF TypeOK
  <2> QED
    BY <1>1, <2>2, <2>3, <2>4, Stayed
<1>3. CASE /\ UNCHANGED serverVars /\ origin' = origin
           /\ \/ adrift' = NoCall
              \/ /\ adrift.call \in JobCall /\ Fits(adrift.version)
                 /\ adrift' = [adrift EXCEPT !.call = "write", !.read = version,
                                             !.columns = ColumnsOf(adrift.call)]
  <2>1. /\ ServerOK' /\ UNCHANGED <<status, florist, frozen, problem, newest>>
        /\ UNCHANGED <<job, handedOver, version, torn>>
        /\ newest <= newest' /\ NothingLeavesUnassembled'
    BY <1>3, ServerStays
  <2>2. OriginOK'
    BY <1>1, <1>3, <2>1 DEF OriginOK, NoStrayAssignment, IInv, TypeOK
  <2>3. Drifts(adrift', frozen, problem, newest)
    <3>1. CASE adrift' = NoCall
      BY <1>1, <3>1 DEF Drifts, NoCall, JobCall, TypeOK
    <3>2. CASE adrift' # NoCall
      <4> DEFINE c == ColumnsOf(adrift.call)
      <4>1. adrift.call \in JobCall /\ version = adrift.version /\ frozen
            /\ adrift' = [adrift EXCEPT !.call = "write", !.read = version, !.columns = c]
        BY <1>1, <1>3, <3>2 DEF Fits, Drifts
      <4>2. c \in ColumnsSet
        BY <4>1, CallColumns
      <4> HIDE DEF c
      <4>3. /\ adrift'.call = "write" /\ adrift'.version = adrift.version
            /\ adrift'.read = version /\ adrift'.columns = c
        BY <1>1, <4>1 DEF Drifts, JobCall
      <4>4. version # 0
        BY <1>1 DEF TypeOK
      <4> QED
        BY <1>1, <4>1, <4>2, <4>3, <4>4 DEF Drifts, Harmless, JobCall
    <3> QED
      BY <3>1, <3>2
  <2> QED
    BY <1>1, <2>1, <2>2, <2>3, Stayed
<1>4. CASE /\ adrift.call = "write" /\ WriteJob(adrift.columns, adrift.version, adrift.read)
           /\ adrift' = NoCall /\ UNCHANGED origin
  <2>1. /\ adrift.version \in Nat /\ adrift.version # 0 /\ adrift.version <= newest
        /\ adrift.read = adrift.version /\ adrift.columns \in ColumnsSet
        /\ Harmless(adrift.columns, frozen, problem)
    BY <1>1, <1>4 DEF Drifts
  <2>2. /\ ServerOK' /\ UNCHANGED orderVars /\ newest <= newest'
        /\ NothingLeavesUnassembled'
        /\ \/ job = "NONE"
           \/ job' # "NONE" /\ \A w \in User : tab[w].version # version' \/ version' \in torn'
    BY <1>4, <2>1, JobWritten
  <2>3. UNCHANGED <<status, florist, frozen>>
    BY <2>2 DEF orderVars
  <2>4. Drifts(adrift, frozen, problem, newest)'
    BY <1>1, <1>4, <2>2 DEF Drifts, NoCall, JobCall, TypeOK, ServerOK
  <2>5. OriginOK'
    BY <1>1, <1>4, <2>3 DEF OriginOK, NoStrayAssignment, IInv, TypeOK
  <2> QED
    BY <1>1, <2>2, <2>3, <2>4, <2>5, Stayed
<1> QED
  BY <1>2, <1>3, <1>4 DEF Arrives

\* Another's call about the job is read; what it will write is harmless.
LEMMA ReadForDrifts ==
    ASSUME IInv, NEW s \in (JobStatus \ {"NONE"}) \cup {"kept"}, NEW p \in BOOLEAN, ReadFor(s, p),
           s \in {"IN_TRANSIT", "DELIVERED"} => frozen \/ problem
    PROVE  Drifts(adrift', frozen, problem, newest)
<1>1. version \in Nat /\ version # 0 /\ version <= newest
  BY DEF IInv, TypeOK
<1>2. /\ adrift'.call = "write" /\ adrift'.version = version /\ adrift'.read = version
      /\ adrift'.columns = [status |-> s, handed |-> FALSE, problem |-> p]
  BY DEF ReadFor, NoCall, Columns
<1> QED
  BY <1>1, <1>2 DEF Drifts, Harmless, ColumnsSet, JobCall

LEMMA OthersStep ==
    ASSUME IInv, OthersDo
    PROVE  IInv'
<1>1. TypeOK /\ Drifts(adrift, frozen, problem, newest) /\ NothingLeavesUnassembled /\ tab' = tab
  BY DEF IInv, OthersDo
<1>2. CASE /\ \/ \E r \in Reservable : Reserve(r)
              \/ AssembleOrder \/ CompleteOrder \/ CancelOrder
              \/ CreateSale \/ CompleteSale \/ AnnulSale
           /\ Assigned("none") /\ UNCHANGED adrift
  <2>1. OrderActed /\ florist' \in {florist, Nobody}
    BY <1>2 DEF OrderActed, Reserve, AssembleOrder, CompleteOrder, CancelOrder, SetOrder,
       CreateSale, CompleteSale, AnnulSale, SetSale
  <2>2. /\ ServerOK' /\ (frozen => frozen') /\ (status' \in Reservable => status \in Reservable)
    BY <2>1, OrderActs
  <2>3. /\ UNCHANGED <<job, handedOver, version, torn>> /\ newest <= newest'
        /\ NothingLeavesUnassembled' /\ Drifts(adrift, frozen, problem, newest)'
    BY <1>2, <2>1, OrderKeeps
  <2>4. OriginOK'
    BY <1>1, <1>2, <2>1, <2>2, OriginKept, UserAssumption DEF TypeOK
  <2> QED
    BY <1>1, <2>2, <2>3, <2>4, Stayed
<1>3. CASE CreateDelivery /\ UNCHANGED <<adrift, origin>>
  <2>1. /\ job = "NONE" /\ job' = "DRAFT"
        /\ UNCHANGED <<type, status, florist, frozen, handedOver, problem, version, newest, torn, sale>>
    BY <1>3 DEF CreateDelivery, orderVars, versionVars
  <2>2. ServerOK' /\ newest <= newest' /\ NothingLeavesUnassembled'
    BY <1>1, <2>1 DEF IInv, TypeOK, ServerOK, JobStatus, NothingLeavesUnassembled
  <2>3. OriginOK' /\ Drifts(adrift, frozen, problem, newest)'
    BY <1>1, <1>3, <2>1 DEF OriginOK, NoStrayAssignment, IInv, TypeOK
  <2> QED
    BY <1>1, <2>1, <2>2, <2>3, Stayed
<1>4. CASE /\ \/ PlanDelivery \/ AssignCourier \/ ReleaseCourier \/ UpdateAddress
              \/ CancelDelivery \/ ReportProblem \/ \E s \in JobStatus : ResolveProblem(s)
           /\ UNCHANGED serverVars /\ UNCHANGED origin
  <2>1. job \in JobStatus
    BY <1>1 DEF TypeOK
  <2>2. \E s \in (JobStatus \ {"NONE"}) \cup {"kept"}, p \in BOOLEAN :
          ReadFor(s, p) /\ (s \in {"IN_TRANSIT", "DELIVERED"} => frozen \/ problem)
    <3>1. CASE PlanDelivery
      BY <3>1 DEF PlanDelivery, JobStatus
    <3>2. CASE AssignCourier
      BY <3>2 DEF AssignCourier, JobStatus
    <3>3. CASE ReleaseCourier
      <4> DEFINE s == IF job = "ASSIGNED" THEN "PLANNED" ELSE job
      <4>1. ReadFor(s, FALSE) /\ s \in JobStatus \ {"NONE"}
        BY <2>1, <3>3 DEF ReleaseCourier, JobStatus
      <4>2. s \in {"IN_TRANSIT", "DELIVERED"} => frozen \/ problem
        BY <1>1 DEF NothingLeavesUnassembled
      <4> HIDE DEF s
      <4> QED
        BY <4>1, <4>2
    <3>4. CASE UpdateAddress
      <4>1. ReadFor("kept", FALSE) /\ "kept" \in (JobStatus \ {"NONE"}) \cup {"kept"}
        BY <3>4 DEF UpdateAddress, JobStatus
      <4> QED
        BY <4>1
    <3>5. CASE CancelDelivery
      <4>1. ReadFor("CANCELLED", FALSE) /\ "CANCELLED" \in (JobStatus \ {"NONE"}) \cup {"kept"}
        BY <3>5 DEF CancelDelivery, JobStatus
      <4> QED
        BY <4>1
    <3>6. CASE ReportProblem
      <4>1. ReadFor("PROBLEM", TRUE) /\ "PROBLEM" \in (JobStatus \ {"NONE"}) \cup {"kept"}
        BY <3>6 DEF ReportProblem, JobStatus
      <4> QED
        BY <4>1
    <3>7. ASSUME NEW s \in JobStatus, ResolveProblem(s)
          PROVE  s \in JobStatus \ {"NONE"} /\ ReadFor(s, FALSE) /\ problem
      BY <3>7 DEF ResolveProblem
    <3>8. CASE \E s \in JobStatus : ResolveProblem(s)
      <4>1. PICK s \in JobStatus : ResolveProblem(s)
        BY <3>8
      <4>2. s \in JobStatus \ {"NONE"} /\ ReadFor(s, FALSE) /\ problem
        BY <3>7, <4>1
      <4> QED
        BY <4>2
    <3> QED
      BY <1>4, <3>1, <3>2, <3>3, <3>4, <3>5, <3>6, <3>8
  <2>3. Drifts(adrift', frozen, problem, newest)
    BY <2>2, ReadForDrifts
  <2>4. /\ ServerOK' /\ UNCHANGED <<status, florist, frozen, problem, newest>>
        /\ UNCHANGED <<job, handedOver, version, torn>>
        /\ newest <= newest' /\ NothingLeavesUnassembled'
    BY <1>4, ServerStays
  <2>5. OriginOK'
    BY <1>1, <1>4, <2>4 DEF OriginOK, NoStrayAssignment, IInv, TypeOK
  <2> QED
    BY <1>1, <2>3, <2>4, <2>5, Stayed
<1> QED
  BY <1>2, <1>3, <1>4 DEF OthersDo

LEMMA NextInv ==
    ASSUME IInv, [Next]_vars
    PROVE  IInv'
<1>1. CASE UNCHANGED vars
  BY <1>1 DEF vars, serverVars, orderVars, jobVars, versionVars, IInv, TypeOK, TabFits, TabSees,
     NothingLeavesUnassembled, NoStrayAssignment
<1>2. ASSUME NEW u \in User, NEW m \in BoardMove \cup PageMove, Begin(u, m) PROVE IInv'
  BY <1>2, BeginStep DEF Move
<1>3. ASSUME NEW u \in User, AnswerOrder(u) \/ BeginJob(u) \/ AnswerJob(u) \/ Fails(u) \/ Leaves(u)
      PROVE  IInv'
  BY <1>3, AnswerOrderStep, BeginJobStep, AnswerJobStep, GivenUpStep
<1>4. CASE Arrives \/ OthersDo
  BY <1>4, ArrivesStep, OthersStep
<1> QED
  BY <1>1, <1>2, <1>3, <1>4 DEF Next

LEMMA InvHolds == Spec => []IInv
<1>1. Init => IInv
  BY InitInv
<1>2. IInv /\ [Next]_vars => IInv'
  BY NextInv
<1> QED
  BY <1>1, <1>2, PTL DEF Spec


-----------------------------------------------------------------------------
\* What the journey of a READY order points to can be done, in any state.
LEMMA JourneyFits ==
    ASSUME TypeOK
    PROVE  JourneyLeadsOn
<1> SUFFICES ASSUME status = "READY" PROVE
        /\ CurrentBranch = "delivery" /\ job \notin {"DRAFT", "PROBLEM"} =>
              \E m \in PageMove : Offers(m) /\ FirstCallIsTaken(m)
        /\ CurrentBranch = "none" => job = "DELIVERED"
  BY DEF JourneyLeadsOn
<1>1. Phase = IF job = "DELIVERED" THEN "HANDED_OFF" ELSE "READY"
  BY DEF Phase
<1>2. CurrentBranch = "none" => job = "DELIVERED"
  BY <1>1 DEF CurrentBranch, DeliveryIsDone, TypeOK
<1>3. ASSUME CurrentBranch = "delivery", job \notin {"DRAFT", "PROBLEM"}
      PROVE  \E m \in PageMove : Offers(m) /\ FirstCallIsTaken(m)
  <2>1. job \in {"PLANNED", "READY_FOR_DISPATCH", "ASSIGNED", "IN_TRANSIT"} /\ Phase = "READY"
    BY <1>1, <1>3 DEF CurrentBranch, DeliveryIsDone, TypeOK, JobStatus
  <2>2. CASE job = "IN_TRANSIT"
    <3>1. Offers("finish")
      BY <2>1, <2>2 DEF Offers
    <3>2. Loaded("finish").move = "finish" /\ Loaded("finish").cur = "IN_TRANSIT"
      BY <2>2 DEF Loaded, Idle
    <3>3. After(Loaded("finish"), "none") = "deliver"
      BY <3>2 DEF After, AfterFinish
    <3> QED
      BY <2>2, <3>1, <3>3 DEF FirstCallIsTaken, CanDo, CanDeliver, PageMove
  <2>3. CASE job # "IN_TRANSIT"
    <3>1. Offers("handOver")
      BY <2>1, <2>3 DEF Offers
    <3> DEFINE t == Loaded("handOver")
    <3>2. t.move = "handOver" /\ t.cur = job
      BY DEF Loaded, Idle
    <3> HIDE DEF t
    <3>3. After(t, "none") \in {"dispatch", "handover", "transit"}
          /\ (job \in {"PLANNED", "ASSIGNED"} => After(t, "none") = "dispatch")
          /\ (job = "READY_FOR_DISPATCH" => After(t, "none") \in {"handover", "transit"})
      BY <2>1, <2>3, <3>2 DEF After, AfterHandOver
    <3>4. FirstCallIsTaken("handOver")
      BY <2>1, <2>3, <3>3 DEF FirstCallIsTaken, CanDo, CanDispatch, CanHandOver, CanDepart,
         Dispatchable, IsOrderReady, t
    <3> QED
      BY <3>1, <3>4 DEF PageMove
  <2> QED
    BY <2>2, <2>3
<1> QED
  BY <1>2, <1>3

(***************************************************************************)
(* Type correctness of the desk: among others, an order that is READY or   *)
(* handed over has a frozen composition (order.use-cases.ts).              *)
(***************************************************************************)
THEOREM DeskTypeCorrect == Spec => []TypeOK
<1>1. IInv => TypeOK
  BY DEF IInv
<1> QED
  BY <1>1, InvHolds, PTL

(***************************************************************************)
(* However many users drag cards and press buttons, and however old what   *)
(* they look at is, no bouquet is sent off with a courier before it is     *)
(* assembled, unless a problem was resolved (order-calendar-move.ts, the   *)
(* page of a delivery).                                                    *)
(***************************************************************************)
THEOREM NothingEverLeavesUnassembled == Spec => []NothingLeavesUnassembled
<1>1. IInv => NothingLeavesUnassembled
  BY DEF IInv
<1> QED
  BY <1>1, InvHolds, PTL

(***************************************************************************)
(* A chain of calls of the delivery page that still has the version of the *)
(* job believes of it what is so, although the server reads and writes the *)
(* job in two steps; only a version overlapping calls gave the job again   *)
(* may mislead it (updateJob, expectedVersion).                            *)
(***************************************************************************)
THEOREM ChainsActOnWhatTheySee == Spec => []ActsOnWhatItSees
<1>1. IInv => ActsOnWhatItSees
  BY DEF IInv, TabSees, Sees, ActsOnWhatItSees
<1> QED
  BY <1>1, InvHolds, PTL

(***************************************************************************)
(* An order that is assigned by a claim its page was answered, and not in  *)
(* preparation, has a chain at work that starts the preparation or takes   *)
(* the claim back; claims done without an answer, failures to take one     *)
(* back, and pages left are the ways an assignment strays                  *)
(* (moveOrderToInWork, rollbackClaim).                                     *)
(***************************************************************************)
THEOREM NoAssignmentStrays == Spec => []NoStrayAssignment
<1>1. IInv => NoStrayAssignment
  BY DEF IInv
<1> QED
  BY <1>1, InvHolds, PTL

(***************************************************************************)
(* The journey of an order that is READY leads on, to a button whose first *)
(* call the server takes (assignCurrentBranch).                            *)
(***************************************************************************)
THEOREM JourneyAlwaysLeadsOn == Spec => []JourneyLeadsOn
<1>1. TypeOK => JourneyLeadsOn
  BY JourneyFits
<1> QED
  BY <1>1, DeskTypeCorrect, PTL


LEMMA ViewsFit ==
    ASSUME TypeOK, NothingLeavesUnassembled
    PROVE  ListsTellThePhase /\ QueuesFollowLists /\ NothingIsOverlooked
<1>1. ~problem /\ status \in Preparable => job # "DELIVERED"
  BY DEF TypeOK, NothingLeavesUnassembled, Preparable
<1>2. status \in Preparable \cup {"READY", "COMPLETED", "CANCELLED"}
  BY DEF TypeOK, OrderStatus, Preparable
<1>3. Listed = {p \in {"NEW", "IN_WORK", "READY", "HANDED_OFF"} :
                  \/ p = "NEW" /\ status \in Reservable /\ ~HasFlorist
                  \/ p = "IN_WORK" /\ (status = "IN_PREPARATION"
                                       \/ (status \in Reservable /\ HasFlorist))
                  \/ p = "READY" /\ status = "READY" /\ ~IsDelivered
                  \/ p = "HANDED_OFF" /\ (status = "COMPLETED" \/ IsDelivered)}
  BY DEF Listed, InList
<1>4. ~problem =>
        IF status = "CANCELLED" THEN Listed \subseteq {"HANDED_OFF"} ELSE Listed = {Phase}
  BY <1>1, <1>2, <1>3 DEF Phase, IsDelivered, HasFlorist, Preparable, Reservable
<1>5. ASSUME NEW overdue \in BOOLEAN
      PROVE  /\ InQueue("in_work", overdue) \/ InQueue("unassigned", overdue)
                  <=> status \in Preparable
             /\ ~problem /\ status # "CANCELLED" =>
                  /\ InQueue("ready", overdue) =>
                        Listed = {"READY"} \/ (Listed = {"HANDED_OFF"} /\ IsDelivered)
                  /\ InQueue("handed_off", overdue) <=> Sections = {"HANDED_OFF"}
                  /\ Sections = {"WITH_COURIER"} \/ Listed = Sections
  <2>1. InQueue("in_work", overdue) \/ InQueue("unassigned", overdue) <=> status \in Preparable
    BY <1>2 DEF InQueue, InList, Preparable, Reservable
  <2>2. ASSUME ~problem, status # "CANCELLED"
        PROVE  /\ Listed = {Phase}
               /\ InQueue("ready", overdue) =>
                     Phase = "READY" \/ (Phase = "HANDED_OFF" /\ IsDelivered)
               /\ InQueue("handed_off", overdue) <=> Column = "HANDED_OFF"
               /\ Column = "WITH_COURIER" \/ Column = Phase
    BY <1>1, <1>2, <1>4, <2>2
       DEF InQueue, Column, Phase, IsDelivered, Preparable, Reservable
  <2> QED
    BY <2>1, <2>2 DEF Sections
<1>6. ASSUME NEW overdue \in BOOLEAN, InQueue("all_open", overdue)
      PROVE  \/ Attention(overdue) # {}
             \/ HasFlorist /\ status \in Preparable
             \/ status = "READY" /\ sale # "NONE"
  BY <1>6 DEF InQueue, OpenStatuses, Attention
<1> QED
  BY <1>4, <1>5, <1>6 DEF ListsTellThePhase, QueuesFollowLists, NothingIsOverlooked

\* What a page or a card suggests by status, assignment and what it knows of a
\* sale is what the use case asks for, but for the card of an order being sold.
LEMMA SuggestionsFit ==
    ASSUME TypeOK, sale = "COMPLETED" => status = "COMPLETED"
    PROVE  SuggestionsAreTaken
<1> SUFFICES ASSUME NEW u \in User, NEW short \in BOOLEAN, NEW page \in BOOLEAN,
                    NEW what, what = Suggested(u, short, page)
             PROVE  /\ what = "RESERVE" => CanReserve
                    /\ what = "CLAIM" => CanClaim(u)
                    /\ what = "START_PREPARATION" => florist = u /\ CanStart
                    /\ what = "MARK_READY" => florist = u /\ (DeliveryObjects \/ CanMarkReady)
                    /\ what = "CREATE_SALE" => CanSell \/ (~page /\ sale = "DRAFT")
  BY DEF SuggestionsAreTaken
<1>1. /\ u # Nobody
      /\ status \in {"CONFIRMED", "PARTIALLY_RESERVED", "RESERVED", "IN_PREPARATION", "READY",
                     "COMPLETED", "CANCELLED"}
      /\ sale \in {"NONE", "DRAFT", "COMPLETED"}
  BY UserAssumption DEF TypeOK, OrderStatus, Reservable
<1>2. what = "RESERVE" => CanReserve
  BY <1>1 DEF Suggested, CanReserve, Reservable
<1>3. what = "CLAIM" => CanClaim(u)
  BY <1>1 DEF Suggested, CanClaim, Reservable, HasFlorist
<1>4. what = "START_PREPARATION" => florist = u /\ CanStart
  BY <1>1 DEF Suggested, CanStart, PreparationStart, HasFlorist
<1>5. what = "MARK_READY" => florist = u /\ (DeliveryObjects \/ CanMarkReady)
  BY <1>1 DEF Suggested, CanMarkReady, PreparationStart, HasFlorist
<1>6. what = "CREATE_SALE" => CanSell \/ (~page /\ sale = "DRAFT")
  BY <1>1 DEF Suggested, CanSell, KnowsOfSale
<1> QED
  BY <1>2, <1>3, <1>4, <1>5, <1>6

(***************************************************************************)
(* Lists, queues, board and attention items agree on the phase of the      *)
(* order, no open order nobody works at is overlooked, and what the page   *)
(* or the card suggests the server does, except to mark an order ready     *)
(* whose delivery is planned and, on a card, to sell one already being     *)
(* sold: the conditions of order-list-phase-filter.ts and of the workspace *)
(* queries say the same in every state the server and broken chains can    *)
(* bring about.                                                            *)
(***************************************************************************)
THEOREM ViewsAlwaysAgree == Spec => []ViewsAgree
<1>1. IInv => ViewsAgree
  BY ViewsFit, SuggestionsFit DEF IInv, ViewsAgree
<1> QED
  BY <1>1, InvHolds, PTL


-----------------------------------------------------------------------------
(***************************************************************************)
(* The forms.                                                              *)
(***************************************************************************)
Types == {"PICKUP", "DELIVERY"}
Headings == Heading \cup {"typed", "none"}
Stems == [Stem -> Nat]
OrderRow == [status : {"ABSENT", "OPEN", "PREPARED"}, type : Types, heading : Headings,
             stems : Stems, job : BOOLEAN]
FormRecord == [page : {"none", "new", "edit"},
               at : {"closed", "reading", "shown", "order", "stems", "saved"},
               order : Taken \cup {Unsaved}, type : Types, heading : Headings,
               mode : {"CUSTOM", "SHOWCASE"}, bouquet : Bouquet \cup {"none"},
               stems : Stems, loaded : Stems, touched : BOOLEAN, declined : BOOLEAN,
               stale : BOOLEAN, crossed : BOOLEAN]

\* The rows of orders: a job is one of a delivery.
RowsFit(k) ==
    /\ k \in [Taken -> OrderRow]
    /\ \A o \in Taken : k[o].job => k[o].type = "DELIVERY"

\* What form r would store.
Chosen(r, c) == IF r.mode = "CUSTOM" THEN r.stems ELSE c[r.bouquet]

\* A form that edits or has created an order knows one that is there; what is
\* sent has been filled in.
Placed(r, k) ==
    /\ r \in FormRecord
    /\ r.order # Unsaved => k[r.order].status # "ABSENT"
    /\ r.page = "edit" \/ r.at \in {"stems", "saved"} => r.order # Unsaved
    /\ r.at \in {"order", "stems"} => r.mode = "CUSTOM" \/ r.bouquet \in Bouquet

\* The first call's half of an order is stored from then on, the second's too.
Kept(r, k, c) ==
    r.at \in {"stems", "saved"} /\ ~r.crossed =>
        /\ k[r.order].type = r.type
        /\ k[r.order].heading = r.heading
        /\ r.at = "saved" => r.declined \/ k[r.order].stems = Chosen(r, c)

\* A composition nobody touched is what was loaded, and what would be stored.
Same(r, k, c) ==
    r.page = "edit" /\ ~r.touched /\ ~r.stale =>
        /\ k[r.order].stems = r.loaded
        /\ r.at \in {"shown", "order", "stems"} => Chosen(r, c) = r.loaded

FormFits(r, k, c) == Placed(r, k) /\ Kept(r, k, c) /\ Same(r, k, c)

FormInv == RowsFit(taken) /\ recipe \in [Bouquet -> Content] /\ FormFits(form, taken, recipe)

LEMMA NoStems ==
    Nothing \in Stems /\ Content \subseteq Stems
BY FormAssumption DEF Nothing, Stems

LEMMA BlankFits ==
    ASSUME NEW k, NEW c
    PROVE  FormFits(Blank, k, c)
BY NoStems DEF FormFits, Placed, Kept, Same, Blank, FormRecord, Types, Headings

LEMMA FormInitInv == FormInit => FormInv
<1> SUFFICES ASSUME FormInit PROVE FormInv
  OBVIOUS
<1>1. Absent \in OrderRow /\ ~Absent.job
  BY NoStems DEF Absent, OrderRow, Types, Headings
<1>2. RowsFit(taken)
  BY <1>1 DEF FormInit, RowsFit
<1> QED
  BY <1>2, BlankFits DEF FormInit, FormInv

\* An order is read, whatever is known of it.
LEMMA ReadStep ==
    ASSUME FormInv, NEW o \in Taken, Read(o)
    PROVE  FormInv'
<1> DEFINE r == [Blank EXCEPT !.page = "edit", !.at = "reading", !.order = o,
                               !.type = taken[o].type, !.heading = taken[o].heading,
                               !.loaded = taken[o].stems]
<1>1. form' = r /\ taken' = taken /\ recipe' = recipe /\ taken[o].status # "ABSENT"
  BY DEF Read, Become
<1>2. taken[o] \in OrderRow /\ o # Unsaved
  BY FormAssumption DEF FormInv, RowsFit
<1>3. Blank \in FormRecord
  BY BlankFits DEF FormFits, Placed
<1>4. /\ r \in FormRecord /\ r.page = "edit" /\ r.at = "reading" /\ r.order = o
      /\ r.loaded = taken[o].stems
  BY <1>2, <1>3 DEF FormRecord, OrderRow
<1> HIDE DEF r
<1>5. FormFits(r, taken, recipe)
  BY <1>1, <1>2, <1>4 DEF FormFits, Placed, Kept, Same
<1> QED
  BY <1>1, <1>5 DEF FormInv

LEMMA FilledStep ==
    ASSUME FormInv, NEW t \in Types, NEW h \in Heading, Filled(t, h)
    PROVE  FormInv'
<1> DEFINE r == [form EXCEPT !.at = "order", !.type = t, !.heading = h, !.declined = FALSE]
<1>1. form' = r /\ taken' = taken /\ recipe' = recipe /\ form.at = "shown" /\ Valid(form)
  BY DEF Filled, Become
<1>2. form \in FormRecord /\ FormFits(form, taken, recipe)
  BY DEF FormInv, FormFits, Placed
<1>3. /\ r \in FormRecord /\ r.page = form.page /\ r.at = "order" /\ r.order = form.order
      /\ r.mode = form.mode /\ r.bouquet = form.bouquet /\ r.stems = form.stems
      /\ r.loaded = form.loaded /\ r.touched = form.touched /\ r.stale = form.stale
  BY <1>2 DEF FormRecord, Headings
<1> HIDE DEF r
<1>4. FormFits(r, taken, recipe)
  BY <1>1, <1>2, <1>3 DEF FormFits, Placed, Kept, Same, Chosen, Valid
<1> QED
  BY <1>1, <1>4 DEF FormInv


\* What is on the page is changed, and the rows are not.
LEMMA PageStep ==
    ASSUME FormInv,
           \/ OpenNew \/ Detect \/ ReadFails \/ Decline \/ Leave
           \/ \E c \in Content : Pick(c)
           \/ \E b \in Bouquet : Choose(b)
    PROVE  FormInv'
<1>1. /\ form \in FormRecord /\ Placed(form, taken) /\ Kept(form, taken, recipe)
      /\ Same(form, taken, recipe)
  BY DEF FormInv, FormFits, Placed
<1>2. taken' = taken /\ recipe' = recipe
  BY DEF OpenNew, Detect, ReadFails, Decline, Leave, Pick, Choose
<1> SUFFICES FormFits(form', taken, recipe)
  BY <1>2 DEF FormInv
<1>3. CASE ReadFails \/ Leave
  BY <1>3, BlankFits DEF ReadFails, Leave, Become
<1>4. CASE OpenNew
  <2>1. PICK b \in Bouquet :
          form' = [Blank EXCEPT !.page = "new", !.at = "shown", !.heading = "typed",
                                   !.mode = "SHOWCASE", !.bouquet = b]
    BY <1>4 DEF OpenNew, Become
  <2>2. Blank \in FormRecord /\ Blank.order = Unsaved
    BY BlankFits DEF FormFits, Placed, Blank
  <2>3. /\ form' \in FormRecord /\ form'.page = "new" /\ form'.at = "shown"
        /\ form'.order = Unsaved
    BY <2>1, <2>2 DEF FormRecord, Headings
  <2> QED
    BY <2>3 DEF FormFits, Placed, Kept, Same
<1>5. CASE \E c \in Content : Pick(c)
  <2>1. PICK c \in Content :
          /\ form.at = "shown"
          /\ form' = [form EXCEPT !.mode = "CUSTOM", !.bouquet = "none", !.stems = c,
                                     !.touched = TRUE]
    BY <1>5 DEF Pick, Become
  <2>2. /\ form' \in FormRecord /\ form'.page = form.page /\ form'.at = "shown"
        /\ form'.order = form.order /\ form'.touched
    BY <1>1, <2>1, NoStems DEF FormRecord
  <2> QED
    BY <1>1, <2>1, <2>2 DEF FormFits, Placed, Kept, Same
<1>6. CASE \E b \in Bouquet : Choose(b)
  <2>1. PICK b \in Bouquet :
          /\ form.at = "shown"
          /\ form' = [form EXCEPT !.mode = "SHOWCASE", !.bouquet = b, !.stems = Nothing,
                                     !.touched = TRUE]
    BY <1>6 DEF Choose, Become
  <2>2. /\ form' \in FormRecord /\ form'.page = form.page /\ form'.at = "shown"
        /\ form'.order = form.order /\ form'.touched
    BY <1>1, <2>1, NoStems DEF FormRecord
  <2> QED
    BY <1>1, <2>1, <2>2 DEF FormFits, Placed, Kept, Same
<1>7. CASE Detect
  <2>1. CASE form' = [form EXCEPT !.at = "shown", !.mode = "CUSTOM", !.stems = form.loaded]
    <3>1. /\ form' \in FormRecord /\ form'.page = form.page /\ form'.at = "shown"
          /\ form'.order = form.order /\ form'.touched = form.touched
          /\ form'.stale = form.stale /\ form'.loaded = form.loaded
          /\ form'.mode = "CUSTOM" /\ form'.stems = form.loaded
      BY <1>1, <2>1 DEF FormRecord
    <3> QED
      BY <1>1, <3>1 DEF FormFits, Placed, Kept, Same, Chosen
  <2>2. ASSUME NEW b \in Bouquet, Matches(form.loaded, b),
               form' = [form EXCEPT !.at = "shown", !.mode = "SHOWCASE", !.bouquet = b]
        PROVE  FormFits(form', taken, recipe)
    <3>1. /\ form' \in FormRecord /\ form'.page = form.page /\ form'.at = "shown"
          /\ form'.order = form.order /\ form'.touched = form.touched
          /\ form'.stale = form.stale /\ form'.loaded = form.loaded
          /\ form'.mode = "SHOWCASE" /\ form'.bouquet = b
      BY <1>1, <2>2 DEF FormRecord
    <3>2. recipe[b] = form.loaded
      BY <2>2 DEF Matches
    <3> QED
      BY <1>1, <3>1, <3>2 DEF FormFits, Placed, Kept, Same, Chosen
  <2> QED
    BY <1>7, <2>1, <2>2 DEF Detect, Become
<1>8. CASE Decline
  <2>1. form.at = "stems" /\ form' = [form EXCEPT !.at = "saved", !.declined = TRUE]
    BY <1>8 DEF Decline, Become
  <2>2. /\ form' \in FormRecord /\ form'.page = form.page /\ form'.at = "saved"
        /\ form'.order = form.order /\ form'.touched = form.touched
        /\ form'.stale = form.stale /\ form'.loaded = form.loaded
        /\ form'.crossed = form.crossed /\ form'.declined
        /\ form'.type = form.type /\ form'.heading = form.heading
    BY <1>1, <2>1 DEF FormRecord
  <2> QED
    BY <1>1, <2>1, <2>2 DEF FormFits, Placed, Kept, Same
<1> QED
  BY <1>3, <1>4, <1>5, <1>6, <1>7, <1>8

\* A form that is to be sent again is as it was.
LEMMA AgainFits ==
    ASSUME NEW r, NEW k, NEW c, Placed(r, k), Same(r, k, c), r.at \in {"order", "stems"}
    PROVE  FormFits(Again(r), k, c)
<1> DEFINE q == Again(r)
<1>1. /\ q \in FormRecord /\ q.page = r.page /\ q.at = "shown"
      /\ q.order = IF r.page = "new" THEN Unsaved ELSE r.order
      /\ q.touched = r.touched /\ q.stale = r.stale /\ q.loaded = r.loaded
      /\ q.mode = r.mode /\ q.stems = r.stems /\ q.bouquet = r.bouquet
  BY DEF Again, Placed, FormRecord
<1> HIDE DEF q
<1>2. FormFits(q, k, c)
  BY <1>1 DEF FormFits, Placed, Kept, Same, Chosen
<1> QED
  BY <1>2 DEF q

LEMMA FailFormStep ==
    ASSUME FormInv, Fail
    PROVE  FormInv'
BY AgainFits DEF Fail, Become, FormInv, FormFits

LEMMA CreateStep ==
    ASSUME FormInv, NEW o \in Taken, CallCreate(o)
    PROVE  FormInv'
<1>1. /\ form \in FormRecord /\ form.page = "new" /\ form.at = "order"
      /\ taken[o].status = "ABSENT" /\ recipe' = recipe
      /\ RowsFit(taken) /\ Placed(form, taken)
  BY DEF FormInv, FormFits, Placed, CallCreate
<1>2. PICK j \in BOOLEAN :
        /\ j => form.type = "DELIVERY"
        /\ taken' = [taken EXCEPT ![o] = NewOrder(form, j)]
        /\ form' = [form EXCEPT !.at = "stems", !.order = o] \/ form' = Again(form)
  BY DEF CallCreate, Become
<1> DEFINE x == NewOrder(form, j)
<1>3. /\ x \in OrderRow /\ x.type = form.type /\ x.heading = form.heading
      /\ x.status = "OPEN" /\ x.job = j
  BY <1>1, NoStems DEF NewOrder, FormRecord, OrderRow
<1> HIDE DEF x
<1>4. RowsFit(taken') /\ taken'[o] = x /\ \A p \in Taken : p # o => taken'[p] = taken[p]
  BY <1>1, <1>2, <1>3 DEF RowsFit, x
<1>5. Placed(form, taken') /\ Same(form, taken', recipe)
  BY <1>1, <1>3, <1>4 DEF Placed, Same, FormRecord
<1>6. CASE form' = [form EXCEPT !.at = "stems", !.order = o]
  <2>1. /\ form' \in FormRecord /\ form'.page = "new" /\ form'.at = "stems"
        /\ form'.order = o /\ form'.type = form.type /\ form'.heading = form.heading
        /\ form'.mode = form.mode /\ form'.bouquet = form.bouquet
    BY <1>1, <1>6 DEF FormRecord
  <2>2. FormFits(form', taken', recipe)
    BY <1>1, <1>3, <1>4, <2>1, FormAssumption DEF FormFits, Placed, Kept, Same
  <2> QED
    BY <1>1, <1>4, <2>2 DEF FormInv
<1>7. CASE form' = Again(form)
  BY <1>1, <1>4, <1>5, <1>7, AgainFits DEF FormInv
<1> QED
  BY <1>2, <1>6, <1>7


LEMMA HeadingRows ==
    ASSUME RowsFit(taken), NEW o \in Taken, NEW x, x.type \in Types, x.heading \in Headings,
           CanUpdate(o, x), NEW k, k = WithHeading(o, x)
    PROVE  /\ RowsFit(k)
           /\ k[o].type = x.type /\ k[o].heading = x.heading
           /\ k[o].stems = taken[o].stems /\ k[o].status = taken[o].status
           /\ \A p \in Taken : p # o => k[p] = taken[p]
<1>1. taken \in [Taken -> OrderRow] /\ k = [taken EXCEPT ![o].type = x.type, ![o].heading = x.heading]
  BY DEF RowsFit, WithHeading
<1>2. /\ k \in [Taken -> OrderRow]
      /\ k[o].type = x.type /\ k[o].heading = x.heading
      /\ k[o].stems = taken[o].stems /\ k[o].status = taken[o].status /\ k[o].job = taken[o].job
      /\ \A p \in Taken : p # o => k[p] = taken[p]
  BY <1>1 DEF OrderRow
<1>3. x.type = "PICKUP" => taken[o].type = "PICKUP" \/ ~taken[o].job
  BY DEF CanUpdate
<1>4. \A p \in Taken : k[p].job => k[p].type = "DELIVERY"
  BY <1>2, <1>3 DEF RowsFit, Types
<1> QED
  BY <1>2, <1>4 DEF RowsFit

LEMMA StemsRows ==
    ASSUME RowsFit(taken), NEW o \in Taken, NEW c \in Stems, NEW k, k = WithStems(o, c)
    PROVE  /\ RowsFit(k)
           /\ k[o].type = taken[o].type /\ k[o].heading = taken[o].heading
           /\ k[o].stems = c /\ k[o].status = taken[o].status
           /\ \A p \in Taken : p # o => k[p] = taken[p]
<1>1. taken \in [Taken -> OrderRow] /\ k = [taken EXCEPT ![o].stems = c]
  BY DEF RowsFit, WithStems
<1>2. /\ k \in [Taken -> OrderRow]
      /\ k[o].type = taken[o].type /\ k[o].heading = taken[o].heading
      /\ k[o].stems = c /\ k[o].status = taken[o].status /\ k[o].job = taken[o].job
      /\ \A p \in Taken : p # o => k[p] = taken[p]
  BY <1>1 DEF OrderRow
<1> QED
  BY <1>2 DEF RowsFit

\* The form goes to its next step and is otherwise as it was.
LEMMA AtNext ==
    ASSUME NEW r \in FormRecord, NEW s \in {"stems", "saved"}, NEW q, q = [r EXCEPT !.at = s]
    PROVE  /\ q \in FormRecord /\ q.page = r.page /\ q.at = s /\ q.order = r.order
           /\ q.type = r.type /\ q.heading = r.heading /\ q.mode = r.mode
           /\ q.bouquet = r.bouquet /\ q.stems = r.stems /\ q.loaded = r.loaded
           /\ q.touched = r.touched /\ q.stale = r.stale /\ q.declined = r.declined
           /\ q.crossed = r.crossed
BY DEF FormRecord

LEMMA UpdateStep ==
    ASSUME FormInv, CallUpdate
    PROVE  FormInv'
<1> DEFINE o == form.order
<1>1. /\ form \in FormRecord /\ form.page = "edit" /\ form.at = "order"
      /\ RowsFit(taken) /\ Placed(form, taken) /\ Same(form, taken, recipe)
      /\ CanUpdate(o, form) /\ taken' = WithHeading(o, form) /\ recipe' = recipe
      /\ form' = [form EXCEPT !.at = "stems"] \/ form' = Again(form)
  BY DEF FormInv, FormFits, Placed, CallUpdate, Answered
<1>2. o \in Taken /\ form.type \in Types /\ form.heading \in Headings
  BY <1>1 DEF Placed, FormRecord
<1>3. /\ RowsFit(taken')
      /\ taken'[o].type = form.type /\ taken'[o].heading = form.heading
      /\ taken'[o].stems = taken[o].stems /\ taken'[o].status = taken[o].status
  BY <1>1, <1>2, HeadingRows
<1>4. Placed(form, taken') /\ Same(form, taken', recipe)
  BY <1>1, <1>3 DEF Placed, Same
<1>5. CASE form' = [form EXCEPT !.at = "stems"]
  <2>1. FormFits(form', taken', recipe)
    BY <1>1, <1>3, <1>4, <1>5, AtNext DEF FormFits, Placed, Kept, Same, Chosen
  <2> QED
    BY <1>1, <1>3, <2>1 DEF FormInv
<1>6. CASE form' = Again(form)
  BY <1>1, <1>3, <1>4, <1>6, AgainFits DEF FormInv
<1> QED
  BY <1>1, <1>5, <1>6

LEMMA StemsStep ==
    ASSUME FormInv, CallStems
    PROVE  FormInv'
<1> DEFINE o == form.order
           c == Chosen(form, recipe)
<1>1. /\ form \in FormRecord /\ form.at = "stems"
      /\ RowsFit(taken) /\ Placed(form, taken) /\ Same(form, taken, recipe)
      /\ Kept(form, taken, recipe) /\ recipe \in [Bouquet -> Content]
      /\ taken' = WithStems(o, c) /\ recipe' = recipe
      /\ form' = [form EXCEPT !.at = "saved"] \/ form' = Again(form)
  BY DEF FormInv, FormFits, Placed, CallStems, Answered, Chosen
<1>2. o \in Taken /\ c \in Stems
  BY <1>1, NoStems DEF Placed, FormRecord, Chosen
<1>3. /\ RowsFit(taken')
      /\ taken'[o].type = taken[o].type /\ taken'[o].heading = taken[o].heading
      /\ taken'[o].stems = c /\ taken'[o].status = taken[o].status
  BY <1>1, <1>2, StemsRows
<1>4. Placed(form, taken') /\ Same(form, taken', recipe)
  BY <1>1, <1>3 DEF Placed, Same
<1>5. CASE form' = [form EXCEPT !.at = "saved"]
  <2>1. FormFits(form', taken', recipe)
    BY <1>1, <1>3, <1>4, <1>5, AtNext DEF FormFits, Placed, Kept, Same, Chosen
  <2> QED
    BY <1>1, <1>3, <2>1 DEF FormInv
<1>6. CASE form' = Again(form)
  BY <1>1, <1>3, <1>4, <1>6, AgainFits DEF FormInv
<1> QED
  BY <1>1, <1>5, <1>6

\* What others write overtakes the form.
LEMMA OvertakenForm ==
    ASSUME form \in FormRecord
    PROVE  /\ Overtaken \in FormRecord /\ Overtaken.page = form.page /\ Overtaken.at = form.at
           /\ Overtaken.order = form.order /\ Overtaken.mode = form.mode
           /\ Overtaken.bouquet = form.bouquet /\ Overtaken.stale
           /\ form.at \in {"order", "stems", "saved"} => Overtaken.crossed
<1> DEFINE late == form.at \in {"order", "stems", "saved"}
<1>1. late \in BOOLEAN /\ Overtaken = [form EXCEPT !.stale = TRUE, !.crossed = late]
  BY DEF Overtaken
<1> HIDE DEF late
<1>2. /\ Overtaken \in FormRecord /\ Overtaken.page = form.page /\ Overtaken.at = form.at
      /\ Overtaken.order = form.order /\ Overtaken.mode = form.mode
      /\ Overtaken.bouquet = form.bouquet /\ Overtaken.stale /\ (late => Overtaken.crossed)
  BY <1>1 DEF FormRecord
<1> QED
  BY <1>2 DEF late

LEMMA OthersFormStep ==
    ASSUME FormInv,
           \/ \E o \in Taken : Prepare(o) \/ OthersSave(o)
           \/ \E b \in Bouquet, c \in Content : ChangeRecipe(b, c)
    PROVE  FormInv'
<1>1. /\ form \in FormRecord /\ RowsFit(taken) /\ recipe \in [Bouquet -> Content]
      /\ Placed(form, taken) /\ Kept(form, taken, recipe) /\ Same(form, taken, recipe)
  BY DEF FormInv, FormFits, Placed
<1>2. ASSUME NEW o \in Taken, Prepare(o) PROVE FormInv'
  <2>1. /\ taken' = [taken EXCEPT ![o].status = "PREPARED"]
        /\ recipe' = recipe /\ form' = form
    BY <1>2 DEF Prepare
  <2>2. taken \in [Taken -> OrderRow]
    BY <1>1 DEF RowsFit
  <2>3. /\ taken' \in [Taken -> OrderRow]
        /\ \A p \in Taken :
              /\ taken'[p].type = taken[p].type /\ taken'[p].heading = taken[p].heading
              /\ taken'[p].stems = taken[p].stems /\ taken'[p].job = taken[p].job
              /\ taken'[p].status \in {taken[p].status, "PREPARED"}
    BY <2>1, <2>2 DEF OrderRow
  <2>4. RowsFit(taken')
    BY <1>1, <2>3 DEF RowsFit
  <2>5. form.order # Unsaved => form.order \in Taken
    BY <1>1 DEF FormRecord
  <2>6. FormFits(form, taken', recipe)
    BY <1>1, <2>3, <2>5 DEF FormFits, Placed, Kept, Same
  <2> QED
    BY <1>1, <2>1, <2>4, <2>6 DEF FormInv
<1>3. ASSUME NEW o \in Taken, OthersSave(o) PROVE FormInv'
  <2>1. /\ recipe' = recipe /\ form' = IF form.order = o THEN Overtaken ELSE form
        /\ taken[o].status # "ABSENT"
    BY <1>3 DEF OthersSave, Become, Editable
  <2>2. /\ RowsFit(taken') /\ taken'[o].status = taken[o].status
        /\ \A p \in Taken : p # o => taken'[p] = taken[p]
    <3>1. ASSUME NEW h \in Heading, NEW t \in Types, NEW x, x = [type |-> t, heading |-> h],
                 CanUpdate(o, x), taken' = WithHeading(o, x)
          PROVE  /\ RowsFit(taken') /\ taken'[o].status = taken[o].status
                 /\ \A p \in Taken : p # o => taken'[p] = taken[p]
      <4>1. x.type \in Types /\ x.heading \in Headings
        BY <3>1 DEF Headings
      <4> QED
        BY <1>1, <3>1, <4>1, HeadingRows
    <3>2. ASSUME NEW c \in Content, taken' = WithStems(o, c)
          PROVE  /\ RowsFit(taken') /\ taken'[o].status = taken[o].status
                 /\ \A p \in Taken : p # o => taken'[p] = taken[p]
      BY <1>1, <3>2, NoStems, StemsRows
    <3> QED
      BY <1>3, <3>1, <3>2 DEF OthersSave, Types
  <2>3. FormFits(form', taken', recipe)
    <3>1. CASE form.order = o
      BY <1>1, <2>1, <2>2, <3>1, OvertakenForm DEF FormFits, Placed, Kept, Same
    <3>2. CASE form.order # o
      <4>1. form.order # Unsaved => form.order \in Taken
        BY <1>1 DEF FormRecord
      <4> QED
        BY <1>1, <2>1, <2>2, <3>2, <4>1 DEF FormFits, Placed, Kept, Same
    <3> QED
      BY <3>1, <3>2
  <2> QED
    BY <1>1, <2>1, <2>2, <2>3 DEF FormInv
<1>4. ASSUME NEW b \in Bouquet, NEW c \in Content, ChangeRecipe(b, c) PROVE FormInv'
  <2>1. /\ taken' = taken /\ recipe' = [recipe EXCEPT ![b] = c]
        /\ form' = IF form.at # "closed" THEN Overtaken ELSE form
    BY <1>4 DEF ChangeRecipe, Become
  <2>2. recipe' \in [Bouquet -> Content]
    BY <1>1, <2>1
  <2>3. FormFits(form', taken, recipe')
    <3>1. CASE form.at # "closed"
      BY <1>1, <2>1, <3>1, OvertakenForm DEF FormFits, Placed, Kept, Same
    <3>2. CASE form.at = "closed"
      BY <1>1, <2>1, <3>2 DEF FormFits, Placed, Kept, Same
    <3> QED
      BY <3>1, <3>2
  <2> QED
    BY <1>1, <2>1, <2>2, <2>3 DEF FormInv
<1> QED
  BY <1>2, <1>3, <1>4

LEMMA FormNextInv ==
    ASSUME FormInv, [FormNext]_formVars
    PROVE  FormInv'
<1>1. CASE UNCHANGED formVars
  BY <1>1 DEF formVars, FormInv, RowsFit, FormFits, Placed, Kept, Same
<1>2. ASSUME NEW o \in Taken, OpenOrder(o) PROVE FormInv'
  BY <1>2, ReadStep DEF OpenOrder
<1>3. CASE Reload
  <2>1. form.order \in Taken /\ Read(form.order)
    BY <1>3 DEF Reload, FormInv, FormFits, Placed, FormRecord
  <2> QED
    BY <2>1, ReadStep
<1>4. ASSUME NEW t \in {"PICKUP", "DELIVERY"}, NEW h \in Heading, SendNew(t, h) \/ SendChanges(t, h)
      PROVE  FormInv'
  BY <1>4, FilledStep DEF SendNew, SendChanges, Types
<1> QED
  BY <1>1, <1>2, <1>3, <1>4, PageStep, FailFormStep, CreateStep, UpdateStep, StemsStep,
     OthersFormStep DEF FormNext

LEMMA FormInvHolds == FormSpec => []FormInv
<1>1. FormInit => FormInv
  BY FormInitInv
<1>2. FormInv /\ [FormNext]_formVars => FormInv'
  BY FormNextInv
<1> QED
  BY <1>1, <1>2, PTL DEF FormSpec

(***************************************************************************)
(* Type correctness of the forms: a delivery job is one of an order to be  *)
(* delivered, and a form with an id shows an order that is there.          *)
(***************************************************************************)
THEOREM FormTypeCorrect == FormSpec => []FormTypeOK
<1>1. FormInv => FormTypeOK
  BY DEF FormInv, RowsFit, FormFits, Placed, FormTypeOK, OrderRow, Stems
<1> QED
  BY <1>1, FormInvHolds, PTL

(***************************************************************************)
(* What a form says it saved is stored, and saving an order whose          *)
(* composition nobody touched keeps its stems, whatever calls of its own   *)
(* got lost and whatever others did before (the pages of a new order and   *)
(* of an order).                                                           *)
(***************************************************************************)
THEOREM FormsAreAlwaysTrue == FormSpec => []FormsAreTrue
<1>1. FormInv => SavedIsStored
  BY DEF FormInv, FormFits, Kept, Chosen, SavedIsStored
<1>2. FormInv => UntouchedStaysTheSame
  BY DEF FormInv, FormFits, Same, UntouchedStaysTheSame
<1> QED
  BY <1>1, <1>2, FormInvHolds, PTL DEF FormsAreTrue
-----------------------------------------------------------------------------
\* Both have their types, whatever the other does.
THEOREM BothTypesCorrect == ScreensSpec => []BothTypeOK
BY DeskTypeCorrect, FormTypeCorrect, PTL DEF ScreensSpec, BothTypeOK

(***************************************************************************)
(* What the screens of an order tell is so in every state that any number  *)
(* of users, old cards, broken chains of calls, lost answers and changed   *)
(* recipes can bring about.                                                *)
(***************************************************************************)
THEOREM ScreensAreAlwaysTrue == ScreensSpec => []ScreensAreTrue
BY JourneyAlwaysLeadsOn, ViewsAlwaysAgree, FormsAreAlwaysTrue, PTL DEF ScreensSpec, ScreensAreTrue
=============================================================================
