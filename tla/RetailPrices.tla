----------------------------- MODULE RetailPrices -----------------------------
(***************************************************************************)
(* The retail prices of one organization, and the page that edits them     *)
(* week by week.                                                           *)
(*                                                                         *)
(* The page loads the prices of a week and, when it saves, sends every row *)
(* that is not blank, typed or not.  Nothing ties an answer to the week it *)
(* was asked for: the user may turn to another week before it comes, and   *)
(* of two answers the later one is shown.  The save opens a transaction    *)
(* its statements do not run in: each row commits alone, and the first one *)
(* that is refused leaves those before it stored.                          *)
(***************************************************************************)
EXTENDS Naturals, FiniteSets

CONSTANTS
    Goods,    \* the number of items, in the order of the page
    Week,     \* Mondays, as numbers
    Amount,   \* prices that may be typed
    Page,     \* pages that are open
    Moves     \* bound: what the user of each page does

Good == 1..Goods

\* No price; an empty field.  A text that assertRetailAmount refuses ends a save at
\* its row as anything else may (SaveFails).
Empty == ""
Text == Amount \cup {Empty}

\* No week: a row that nobody has typed in.
Untyped == 0

ASSUME RetailPricesAssumption ==
    /\ Goods \in Nat /\ Moves \in [Page -> Nat]
    /\ Week \subseteq Nat \ {0}
    /\ Empty \notin Amount

VARIABLES
    price,    \* price[<<i, w>>]: the row of item_retail_prices, or Empty
    offSale,  \* items that have been archived
    page,     \* page[g]: the week it is turned to, its rows, whether it shows them
    answers,  \* answers[g]: answers of listRetailPrices on their way to the page
    save,     \* save[g]: the rows upsertRetailPrices has still to store, or NoSave
    said,     \* history: the last price typed for a week and stored for it
    blurred   \* history: prices from rows of another week, or behind what is stored

priceVars == <<price, offSale, page, answers, save, said, blurred>>

Cell == Good \X Week

\* Mutant of Loaded: a week without a price shows the one in effect.
LoadedInEffect(i, w) ==
    LET past == {v \in Week : v <= w /\ price[<<i, v>>] # Empty}
    IN  IF past = {} THEN Empty
        ELSE price[<<i, CHOOSE v \in past : \A x \in past : x <= v>>]

\* listForWeek: the price stored for this very week.
Loaded(i, w) == price[<<i, w>>]

\* listRetailPrices: a row for each active item.  "ends": a save waits for this
\* answer.  "typed" (history): the week the page was turned to when somebody typed in
\* the row; "behind" (history): the rows that have been stored since.
Answer(w, ends) ==
    [week |-> w, ends |-> ends,
     rows |-> [i \in Good \ offSale |-> [text |-> Loaded(i, w), typed |-> Untyped]],
     behind |-> {}]

NoRows == [week |-> 0, ends |-> FALSE, rows |-> [i \in {} |-> Empty], behind |-> {}]

NoSave == [week |-> 0, data |-> NoRows]
Sending(g) == save[g] # NoSave

Shut == [open |-> FALSE, week |-> 0, shows |-> FALSE, busy |-> FALSE, data |-> NoRows,
         moves |-> 0]

PricesInit ==
    /\ price = [c \in Cell |-> Empty]
    /\ offSale = {}
    /\ page = [g \in Page |-> Shut]
    /\ answers = [g \in Page |-> {}]
    /\ save = [g \in Page |-> NoSave]
    /\ said = [c \in Cell |-> Empty]
    /\ blurred = {}

Moved(g) == page[g].moves < Moves[g]

-----------------------------------------------------------------------------
\* load: the rows disappear until an answer comes.
Turn(g, w) ==
    /\ ~page[g].busy /\ Moved(g)
    /\ page[g].open => w # page[g].week
    /\ page' = [page EXCEPT ![g].open = TRUE, ![g].week = w, ![g].shows = FALSE,
                            ![g].moves = @ + 1]
    /\ answers' = [answers EXCEPT ![g] = @ \cup {Answer(w, FALSE)}]
    /\ UNCHANGED <<price, offSale, save, said, blurred>>

\* Whichever answer comes is shown, under the week the page is turned to.
Show(g, a) ==
    /\ a \in answers[g]
    /\ answers' = [answers EXCEPT ![g] = @ \ {a}]
    /\ page' = [page EXCEPT ![g].shows = TRUE, ![g].data = a,
                            ![g].busy = @ /\ ~a.ends]
    /\ UNCHANGED <<price, offSale, save, said, blurred>>

\* A load that fails shows the rows of the load before.
LoadFails(g, a) ==
    /\ a \in answers[g]
    /\ answers' = [answers EXCEPT ![g] = @ \ {a}]
    /\ page' = [page EXCEPT ![g].shows = TRUE, ![g].busy = @ /\ ~a.ends]
    /\ UNCHANGED <<price, offSale, save, said, blurred>>

\* updateAmount: the row is typed for the week the page is turned to, whatever week
\* its rows were loaded for.
Type(g, i, t) ==
    /\ page[g].shows /\ ~page[g].busy /\ Moved(g)
    /\ i \in DOMAIN page[g].data.rows /\ t # page[g].data.rows[i].text
    /\ page' = [page EXCEPT ![g].data.rows[i] = [text |-> t, typed |-> page[g].week],
                            ![g].moves = @ + 1]
    /\ UNCHANGED <<price, offSale, answers, save, said, blurred>>

\* onSave: the rows with some text.
Sent(rows) == {i \in DOMAIN rows : rows[i].text # Empty}

\* Save is enabled by one row with a price.
StartSave(g) ==
    LET rows == page[g].data.rows
    IN  /\ page[g].shows /\ ~page[g].busy /\ Moved(g)
        /\ \E i \in DOMAIN rows : rows[i].text \in Amount
        /\ save' = [save EXCEPT ![g] =
              [week |-> page[g].week,
               data |-> [page[g].data EXCEPT !.rows = [i \in Sent(rows) |-> rows[i]]]]]
        /\ page' = [page EXCEPT ![g].busy = TRUE, ![g].moves = @ + 1]
        /\ UNCHANGED <<price, offSale, answers, said, blurred>>

-----------------------------------------------------------------------------
\* The rows of week w that a page or an answer holds are no longer what is stored.
Behind(d, i, w) == IF d.week = w THEN [d EXCEPT !.behind = @ \cup {i}] ELSE d

\* upsertRetailPrices: the next row, in the order of the page.
Upsert(g) ==
    LET rows == save[g].data.rows
        left == DOMAIN rows
        i == CHOOSE n \in left : \A m \in left : n <= m
        w == save[g].week
        c == <<i, w>>
        row == rows[i]
        meant == row.typed = w
        knew == row.typed = Untyped /\ save[g].data.week = w /\ i \notin save[g].data.behind
    IN  /\ left # {} /\ i \notin offSale
        /\ price' = [price EXCEPT ![c] = row.text]
        /\ said' = IF meant THEN [said EXCEPT ![c] = row.text] ELSE said
        /\ blurred' = IF meant THEN blurred \ {c}
                      ELSE IF knew THEN blurred ELSE blurred \cup {c}
        /\ save' = [h \in Page |->
              IF h = g THEN [save[h] EXCEPT !.data.rows = [n \in left \ {i} |-> rows[n]]]
                       ELSE [save[h] EXCEPT !.data = Behind(@, i, w)]]
        /\ page' = [h \in Page |-> [page[h] EXCEPT !.data = Behind(@, i, w)]]
        /\ answers' = [h \in Page |-> {Behind(a, i, w) : a \in answers[h]}]
        /\ UNCHANGED offSale

\* A row is refused, or the connection breaks: what was stored stays.
SaveFails(g) ==
    /\ Sending(g)
    /\ save' = [save EXCEPT ![g] = NoSave]
    /\ page' = [page EXCEPT ![g].busy = FALSE]
    /\ UNCHANGED <<price, offSale, answers, said, blurred>>

\* Answered: the week is loaded again before anything else can be done.
Saved(g) ==
    /\ Sending(g) /\ DOMAIN save[g].data.rows = {}
    /\ save' = [save EXCEPT ![g] = NoSave]
    /\ page' = [page EXCEPT ![g].shows = FALSE]
    /\ answers' = [answers EXCEPT ![g] = @ \cup {Answer(save[g].week, TRUE)}]
    /\ UNCHANGED <<price, offSale, said, blurred>>

\* archiveItem.
TakeOff(i) ==
    /\ i \notin offSale
    /\ offSale' = offSale \cup {i}
    /\ UNCHANGED <<price, page, answers, save, said, blurred>>

PricesNext ==
    \/ \E g \in Page :
          \/ \E w \in Week : Turn(g, w)
          \/ \E a \in answers[g] : Show(g, a) \/ LoadFails(g, a)
          \/ \E i \in Good, t \in Text : Type(g, i, t)
          \/ StartSave(g) \/ Upsert(g) \/ SaveFails(g) \/ Saved(g)
    \/ \E i \in Good : TakeOff(i)

PricesSpec == PricesInit /\ [][PricesNext]_priceVars

-----------------------------------------------------------------------------
(***************************************************************************)
(* A price is the one somebody typed last for that item and that week,     *)
(* with the page turned to it: saving a whole page neither spreads prices  *)
(* to weeks they were not typed for nor takes any away, also when it stops *)
(* half way.  That does not hold for a price from a row that was loaded or *)
(* typed for another week than the one it is saved for, which is what a    *)
(* page sends when it was turned and shows the rows it had, nor for one    *)
(* that the page sends untyped while it has been stored anew since.        *)
(***************************************************************************)
PricesAreTheOnesTyped == \A c \in Cell \ blurred : price[c] = said[c]

\* Prices are prices; a page waits exactly while its save is under way, the loading
\* after it included.
PricesTypeOK ==
    /\ price \in [Cell -> Amount \cup {Empty}]
    /\ \A g \in Page : page[g].busy <=> Sending(g) \/ \E a \in answers[g] : a.ends
=============================================================================
