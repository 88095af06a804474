------------------------------ MODULE OrderForm ------------------------------
(***************************************************************************)
(* The forms of an order in the back office: the page that takes a new     *)
(* order, and the page of an order that is there.                          *)
(*                                                                         *)
(* Saving is two calls, each a transaction of its own: the order itself    *)
(* (createOrder or updateOrder), then its composition, either the stems    *)
(* picked by hand or the recipe a bouquet has when the server reads it.    *)
(* Each call may be refused, or done without its answer coming back; the   *)
(* form then stays as it is and may be sent again.  Which bouquet an order *)
(* is of is nowhere stored: the page recognises it by its recipe.          *)
(*                                                                         *)
(* One browser tab is followed; what other users save meanwhile are single *)
(* transactions of theirs.  The rest of an order's life is one step here,  *)
(* its preparation, after which it can no longer be edited.  Contacts and  *)
(* dates are one value, the heading; addresses are left out.               *)
(***************************************************************************)
EXTENDS Naturals

CONSTANTS
    Taken,     \* orders, by the id they get
    Stem,      \* ingredients
    Bouquet,   \* bouquets of the catalogue
    Heading,   \* bound: what the contacts, dates and comments may say
    Content,   \* bound: the stems users pick and recipes list
    Unsaved    \* the id of an order before it has one

Nothing == [i \in Stem |-> 0]

ASSUME FormAssumption ==
    /\ Content \subseteq [Stem -> Nat]
    /\ Nothing \in Content
    /\ Unsaved \notin Taken

VARIABLES
    taken,   \* taken[o]: the rows of order o
    recipe,  \* recipe[b]: the recipe lines of bouquet b
    form     \* what the tab shows and does

formVars == <<taken, recipe, form>>

Absent == [status |-> "ABSENT", type |-> "PICKUP", heading |-> "none", stems |-> Nothing,
           job |-> FALSE]

\* A form: the step it is at, its fields, the composition it was loaded with,
\* whether the user changed the composition, whether the user declined to
\* replace it; and as history, whether someone else wrote rows it concerns
\* since it was loaded, and since it was sent.
Blank == [page |-> "none", at |-> "closed", order |-> Unsaved, type |-> "PICKUP",
          heading |-> "none", mode |-> "CUSTOM", bouquet |-> "none", stems |-> Nothing,
          loaded |-> Nothing, touched |-> FALSE, declined |-> FALSE,
          stale |-> FALSE, crossed |-> FALSE]

FormInit ==
    /\ taken = [o \in Taken |-> Absent]
    /\ recipe \in [Bouquet -> Content]
    /\ form = Blank

Become(r) == form' = r

\* What the tab shows has been overtaken by others.
Overtaken == [form EXCEPT !.stale = TRUE, !.crossed = form.at \in {"order", "stems", "saved"}]

-----------------------------------------------------------------------------
(***************************************************************************)
(* The server.                                                             *)
(***************************************************************************)
Editable(o) == taken[o].status = "OPEN"

\* createOrder: the order, then in a second transaction the job of a delivery.
NewOrder(x, job) ==
    [status |-> "OPEN", type |-> x.type, heading |-> x.heading, stems |-> Nothing, job |-> job]

\* updateDraft: what would begin a transaction within its own fails, that is
\* to create a delivery job or to cancel one (see Delivery).
CanUpdate(o, x) ==
    /\ Editable(o)
    /\ x.type = "PICKUP" => taken[o].type = "PICKUP" \/ ~taken[o].job
    /\ x.type = "DELIVERY" => taken[o].type = "DELIVERY" /\ taken[o].job

WithHeading(o, x) == [taken EXCEPT ![o].type = x.type, ![o].heading = x.heading]

\* Mutant of WithStems: what is there already stays, more is added.
AddStems(o, c) == [taken EXCEPT ![o].stems = [i \in Stem |-> @[i] + c[i]]]

\* replaceCompositionItems
WithStems(o, c) == [taken EXCEPT ![o].stems = c]

\* applyCompositionTemplate: a bouquet without a recipe is no template.
IsTemplate(b) == recipe[b] # Nothing

-----------------------------------------------------------------------------
(***************************************************************************)
(* Opening a form.                                                         *)
(***************************************************************************)
\* The page of a new order starts with the first bouquet, if there is one.
OpenNew ==
    /\ form = Blank
    /\ \E b \in Bouquet :
          Become([Blank EXCEPT !.page = "new", !.at = "shown", !.heading = "typed",
                                  !.mode = "SHOWCASE", !.bouquet = b])
    /\ UNCHANGED <<taken, recipe>>

\* load: the order is read first ...
Read(o) ==
    /\ taken[o].status # "ABSENT"
    /\ Become([Blank EXCEPT !.page = "edit", !.at = "reading", !.order = o,
                               !.type = taken[o].type, !.heading = taken[o].heading,
                               !.loaded = taken[o].stems])
    /\ UNCHANGED <<taken, recipe>>

OpenOrder(o) == form = Blank /\ Read(o)

\* Mutant of Matches: the stems of the composition are in the recipe.
MatchesLoosely(c, b) == \A i \in Stem : c[i] > 0 => recipe[b][i] = c[i]

\* compositionMapsEqual, of a bouquet with a recipe
Matches(c, b) == recipe[b] # Nothing /\ recipe[b] = c

\* ... then the recipes, one bouquet after the other, until one is recognised.
Detect ==
    LET x == form
        alike == {b \in Bouquet : Matches(x.loaded, b)}
    IN  /\ x.at = "reading"
        /\ IF x.loaded = Nothing \/ alike = {}
           THEN Become([x EXCEPT !.at = "shown", !.mode = "CUSTOM", !.stems = x.loaded])
           ELSE \E b \in alike :
                   Become([x EXCEPT !.at = "shown", !.mode = "SHOWCASE", !.bouquet = b])
        /\ UNCHANGED <<taken, recipe>>

\* Reading a recipe or the order fails: the page shows the error.
ReadFails ==
    /\ form.at = "reading"
    /\ Become(Blank)
    /\ UNCHANGED <<taken, recipe>>

-----------------------------------------------------------------------------
(***************************************************************************)
(* Filling it in and sending it.                                           *)
(***************************************************************************)
Pick(c) ==
    /\ form.at = "shown"
    /\ Become([form EXCEPT !.mode = "CUSTOM", !.bouquet = "none", !.stems = c, !.touched = TRUE])
    /\ UNCHANGED <<taken, recipe>>

Choose(b) ==
    /\ form.at = "shown"
    /\ Become([form EXCEPT !.mode = "SHOWCASE", !.bouquet = b, !.stems = Nothing, !.touched = TRUE])
    /\ UNCHANGED <<taken, recipe>>

\* Stems or a bouquet must have been picked.  That the bouquet has a recipe
\* the page knows only from when it loaded the catalogue: the server decides.
Valid(x) ==
    IF x.mode = "CUSTOM" THEN x.stems # Nothing ELSE x.bouquet \in Bouquet

Filled(t, h) ==
    /\ form.at = "shown"
    /\ Valid(form)
    /\ Become([form EXCEPT !.at = "order", !.type = t, !.heading = h, !.declined = FALSE])
    /\ UNCHANGED <<taken, recipe>>

SendNew(t, h) == form.page = "new" /\ Filled(t, h)

\* The button is there while the order was editable when it was loaded; the
\* server asks again.
SendChanges(t, h) == form.page = "edit" /\ Filled(t, h)

\* The form as it was, to be sent again: the page of a new order forgets what
\* it created, and will create another.
Again(x) ==
    [x EXCEPT !.at = "shown", !.crossed = FALSE,
              !.order = IF x.page = "new" THEN Unsaved ELSE x.order]

\* A call that fails leaves the form as it is, to be sent again.
Fail ==
    /\ form.at \in {"order", "stems"}
    /\ Become(Again(form))
    /\ UNCHANGED <<taken, recipe>>

\* The answer comes, or is lost and taken for a failure.
Answered(x, next) == {[x EXCEPT !.at = next], Again(x)}

\* A new order gets its id; without the answer the page does not learn it.
CallCreate(o) ==
    LET x == form
    IN  /\ x.page = "new" /\ x.at = "order"
        /\ taken[o].status = "ABSENT"
        /\ \/ /\ taken' = [taken EXCEPT ![o] = NewOrder(x, x.type = "DELIVERY")]
              /\ Become([x EXCEPT !.at = "stems", !.order = o])
           \/ /\ \E job \in {FALSE, x.type = "DELIVERY"} :
                    taken' = [taken EXCEPT ![o] = NewOrder(x, job)]
              /\ Become(Again(x))
        /\ UNCHANGED recipe

CallUpdate ==
    LET x == form
    IN  /\ x.page = "edit" /\ x.at = "order"
        /\ CanUpdate(x.order, x)
        /\ taken' = WithHeading(x.order, x)
        /\ form' \in Answered(x, "stems")
        /\ UNCHANGED recipe

\* Before a bouquet replaces a composition the page asks.
Decline ==
    /\ form.page = "edit" /\ form.at = "stems" /\ form.mode = "SHOWCASE"
    /\ form.loaded # Nothing
    /\ Become([form EXCEPT !.at = "saved", !.declined = TRUE])
    /\ UNCHANGED <<taken, recipe>>

\* applyOrderCompositionTemplate, setOrderComposition.
CallStems ==
    LET x == form
        wanted == IF x.mode = "CUSTOM" THEN x.stems ELSE recipe[x.bouquet]
    IN  /\ x.at = "stems"
        /\ Editable(x.order)
        /\ x.mode = "SHOWCASE" => IsTemplate(x.bouquet)
        /\ taken' = WithStems(x.order, wanted)
        /\ form' \in Answered(x, "saved")
        /\ UNCHANGED recipe

\* Both pages go on with the page of the order, loaded anew, or are left.
Reload ==
    /\ form.at = "saved"
    /\ Read(form.order)

Leave ==
    /\ form.at \in {"shown", "saved"}
    /\ Become(Blank)
    /\ UNCHANGED <<taken, recipe>>

-----------------------------------------------------------------------------
\* Others: a florist starts with the order, somebody else saves it, or one of
\* its two halves; the catalogue is edited.
Prepare(o) ==
    /\ Editable(o)
    /\ taken' = [taken EXCEPT ![o].status = "PREPARED"]
    /\ UNCHANGED <<recipe, form>>

OthersSave(o) ==
    /\ Editable(o)
    /\ \/ \E h \in Heading, t \in {"PICKUP", "DELIVERY"} :
             LET x == [type |-> t, heading |-> h]
             IN  CanUpdate(o, x) /\ taken' = WithHeading(o, x)
       \/ \E c \in Content : taken' = WithStems(o, c)
    /\ Become(IF form.order = o THEN Overtaken ELSE form)
    /\ UNCHANGED recipe

ChangeRecipe(b, c) ==
    /\ recipe[b] # c
    /\ recipe' = [recipe EXCEPT ![b] = c]
    /\ Become(IF form.at # "closed" THEN Overtaken ELSE form)
    /\ UNCHANGED taken

FormNext ==
    \/ OpenNew
    \/ \E o \in Taken : OpenOrder(o) \/ CallCreate(o)
    \/ Detect \/ ReadFails
    \/ \E c \in Content : Pick(c)
    \/ \E b \in Bouquet : Choose(b)
    \/ \E t \in {"PICKUP", "DELIVERY"}, h \in Heading : SendNew(t, h) \/ SendChanges(t, h)
    \/ Fail
    \/ CallUpdate \/ Decline \/ CallStems
    \/ Reload \/ Leave
    \/ \E o \in Taken : Prepare(o) \/ OthersSave(o)
    \/ \E b \in Bouquet, c \in Content : ChangeRecipe(b, c)

FormSpec == FormInit /\ [][FormNext]_formVars

-----------------------------------------------------------------------------
FormTypeOK ==
    /\ DOMAIN taken = Taken
    /\ \A o \in Taken :
          /\ taken[o].status \in {"ABSENT", "OPEN", "PREPARED"}
          /\ taken[o].stems \in [Stem -> Nat]
          /\ taken[o].job => taken[o].type = "DELIVERY"
    /\ recipe \in [Bouquet -> Content]
    /\ form.order # Unsaved => taken[form.order].status # "ABSENT"

(***************************************************************************)
(* What a form says it saved is stored: heading, way of receipt, and the   *)
(* stems picked or the bouquet's recipe, although two transactions wrote   *)
(* them and earlier tries may have got half way, unless someone else wrote *)
(* to the order or the catalogue after it was sent.                        *)
(***************************************************************************)
SavedIsStored ==
    form.at = "saved" /\ ~form.crossed =>
        /\ taken[form.order].type = form.type
        /\ taken[form.order].heading = form.heading
        /\ \/ form.declined
           \/ taken[form.order].stems = IF form.mode = "CUSTOM" THEN form.stems
                                        ELSE recipe[form.bouquet]

(***************************************************************************)
(* Correcting a name or a date keeps the bouquet: a save of an order whose *)
(* composition was not touched replaces all of its lines, but by the same  *)
(* stems, whether the page took them for a bouquet of the catalogue or     *)
(* not, unless someone else wrote since the page was loaded.               *)
(***************************************************************************)
UntouchedStaysTheSame ==
    form.page = "edit" /\ form.at = "saved" /\ ~form.touched /\ ~form.stale =>
        taken[form.order].stems = form.loaded

\* The forms of an order do what they say.
FormsAreTrue == SavedIsStored /\ UntouchedStaysTheSame
=============================================================================
