------------------------------- MODULE Sessions -------------------------------
(***************************************************************************)
(* One person's sessions: the rows of the sessions table, the cookie each  *)
(* browser keeps, and what each of its tabs believes.                      *)
(*                                                                         *)
(* A tab holds an access token in memory only, so every loaded page begins *)
(* with a refresh, which replaces the stored refresh token.  A browser     *)
(* has one cookie for all its tabs.  Requests read, write and are answered *)
(* in steps of their own, and answers may be lost.                         *)
(*                                                                         *)
(* Signing in may also take a code of an authenticator app; its key is set *)
(* up and confirmed from the account page.                                 *)
(***************************************************************************)
EXTENDS Naturals, FiniteSets

CONSTANTS
    Browser, Tab,
    Session,     \* bound: sessions that are ever created
    Turns,       \* bound: refreshes of one session
    Passwords,   \* bound: changes of the password
    AuthKey,         \* bound: authenticator keys that are ever generated
    Nothing, Stale   \* no session or key; an access token that is too old

ASSUME SessionsAssumption ==
    /\ Turns \in Nat /\ Passwords \in Nat
    /\ {Nothing, Stale} \cap (Session \cup AuthKey) = {} /\ Nothing # Stale

VARIABLES
    person,     \* the user row: status, version of the password, mustChange
    stored,     \* stored[s]: status, number of its refresh token, whether its
                \* time is over, and the password its holder signed in with
    cookie,     \* cookie[b]: session and number of the refresh token it holds
    tab,        \* tab[t]: its browser, its page, the session of its access token
    call,       \* call[t]: the tab's request: operation, session, number or key
    authenticator,  \* key in force, key to be confirmed, keys generated, keys in the app
    excused,    \* history: sessions opened or spared while the password changed
    unsettled  \* history: browsers whose refreshes overlapped or went unanswered

sessionVars == <<person, stored, cookie, tab, call, authenticator, excused, unsettled>>

\* What else the row of an ended session holds is not looked at again.
Ended(status) == [status |-> status, turn |-> 0, over |-> FALSE, password |-> 0]
Unopened == Ended("NONE")
NoCookie == [session |-> Nothing, turn |-> 0]
Quiet == [op |-> "none", session |-> Nothing, with |-> 0]
Asking(op, s, with) == [op |-> op, session |-> s, with |-> with]
BrowserOf(t) == tab[t].browser
Showing(t, page, s) == [tab EXCEPT ![t].page = page, ![t].access = s]
SignedOut(t) == Showing(t, "login", Nothing)

SessionsInit ==
    /\ \E told \in BOOLEAN :
          person = [status |-> "ACTIVE", password |-> 0, mustChange |-> told]
    /\ stored = [s \in Session |-> Unopened]
    /\ cookie = [b \in Browser |-> NoCookie]
    /\ \E of \in [Tab -> Browser] :
          tab = [t \in Tab |-> [browser |-> of[t], page |-> "login", access |-> Nothing]]
    /\ call = [t \in Tab |-> Quiet]
    /\ authenticator = [key |-> Nothing, pending |-> Nothing, generated |-> {}, app |-> {}]
    /\ excused = {}
    /\ unsettled = {}

-----------------------------------------------------------------------------
Live(s) == stored[s].status = "ACTIVE" /\ ~stored[s].over

\* JwtAuthGuard: the session and the user are looked up for every request.
Admitted(t) ==
    /\ tab[t].access \in Session /\ Live(tab[t].access)
    /\ person.status = "ACTIVE"

\* MustChangePasswordGuard, for the requests that are not let through before.
Welcome(t) == Admitted(t) /\ ~person.mustChange

InBrowser(t) == {u \in Tab : BrowserOf(u) = BrowserOf(t)}
Refreshing(t) == call[t].op \in {"refresh", "rotate", "rotated"}

\* Mutant of RevokedAll: the sessions that refreshed meanwhile are passed over.
RevokedFirst(keep) ==
    [s \in Session |-> IF stored[s].status = "ACTIVE" /\ s # keep /\ stored[s].turn = 0
                       THEN Ended("REVOKED") ELSE stored[s]]

\* revokeAllUserSessions, but for one.
RevokedAll(keep) ==
    [s \in Session |-> IF stored[s].status = "ACTIVE" /\ s # keep
                       THEN Ended("REVOKED") ELSE stored[s]]

\* revokeSession, whatever the status was.
Revoked(s) == [stored EXCEPT ![s] = Ended("REVOKED")]

\* Mutant of Rotated: the row is written whole, as it was when it was read.
RotatedAlive(s) == [stored EXCEPT ![s].turn = @ + 1, ![s].status = "ACTIVE"]

\* rotateSession: the row is found by its id alone; its status is left.
Rotated(s) == [stored EXCEPT ![s].turn = @ + 1]

-----------------------------------------------------------------------------
\* bootstrap of a page without an access token: the browser's cookie is sent.
Open(t) ==
    /\ call[t].op = "none" /\ tab[t].page # "password"
    /\ tab' = Showing(t, "loading", Nothing)
    /\ LET c == cookie[BrowserOf(t)]
       IN  call' = [call EXCEPT ![t] = Asking("refresh", c.session, c.turn)]
    /\ unsettled' = IF \E u \in InBrowser(t) \ {t} : Refreshing(u)
                  THEN unsettled \cup {BrowserOf(t)} ELSE unsettled
    /\ UNCHANGED <<person, stored, cookie, authenticator, excused>>

\* Back at the login page, in a tab that has an answer.
TurnedAway(t) ==
    /\ tab' = SignedOut(t)
    /\ call' = [call EXCEPT ![t] = Quiet]

\* refresh: the session is found by its present token ...
ReadRefresh(t) ==
    LET s == call[t].session
    IN  /\ call[t].op = "refresh"
        /\ IF s # Nothing /\ stored[s].turn = call[t].with /\ Live(s) /\ person.status = "ACTIVE"
           THEN call' = [call EXCEPT ![t].op = "rotate"] /\ UNCHANGED <<stored, tab>>
           ELSE /\ TurnedAway(t)
                /\ stored' = IF s # Nothing /\ stored[s].turn = call[t].with
                                 /\ stored[s].status = "ACTIVE" /\ stored[s].over
                              THEN [stored EXCEPT ![s] = Ended("EXPIRED")] ELSE stored
        /\ UNCHANGED <<person, cookie, authenticator, excused, unsettled>>

\* ... and given another one, with its time begun anew ...
Rotate(t) ==
    LET s == call[t].session
    IN  /\ call[t].op = "rotate" /\ stored[s].turn < Turns
        /\ stored' = [Rotated(s) EXCEPT ![s].over = FALSE]
        /\ call' = [call EXCEPT ![t] = Asking("rotated", s, stored[s].turn + 1)]
        /\ UNCHANGED <<person, cookie, tab, authenticator, excused, unsettled>>

\* ... which the answer puts into the cookie, whatever it holds by then.
Refreshed(t) ==
    LET s == call[t].session
    IN  /\ call[t].op = "rotated"
        /\ cookie' = [cookie EXCEPT ![BrowserOf(t)] = [session |-> s, turn |-> call[t].with]]
        /\ tab' = Showing(t, "loading", s)
        /\ call' = [call EXCEPT ![t] = Quiet]
        /\ UNCHANGED <<person, stored, authenticator, excused, unsettled>>

\* The answer is lost, or the page was closed before it came.
RefreshLost(t) ==
    /\ Refreshing(t) /\ call[t].session # Nothing
    /\ TurnedAway(t)
    /\ unsettled' = unsettled \cup {BrowserOf(t)}
    /\ stored' = IF call[t].op = "rotate" /\ stored[call[t].session].turn < Turns
                  THEN Rotated(call[t].session) ELSE stored
    /\ UNCHANGED <<person, cookie, authenticator, excused>>

\* bootstrap of a page with an access token: me; so on every change of page.
Bootstrap(t) ==
    /\ call[t].op = "none" /\ tab[t].access # Nothing
    /\ tab' = IF Admitted(t)
              THEN Showing(t, IF person.mustChange THEN "password" ELSE "home", tab[t].access)
              ELSE SignedOut(t)
    /\ UNCHANGED <<person, stored, cookie, call, authenticator, excused, unsettled>>

\* The account page links to the change of the password.
VisitPassword(t) ==
    /\ call[t].op = "none" /\ tab[t].page = "home"
    /\ tab' = [tab EXCEPT ![t].page = "password"]
    /\ UNCHANGED <<person, stored, cookie, call, authenticator, excused, unsettled>>

-----------------------------------------------------------------------------
\* login: the user and the password are read; a key in force asks for a code,
\* which the page collects and sends along in a second try ...
SignIn(t) ==
    /\ tab[t].page = "login" /\ call[t].op = "none"
    /\ person.status = "ACTIVE"
    /\ authenticator.key # Nothing => authenticator.key \in authenticator.app
    /\ call' = [call EXCEPT ![t] =
                  Asking(IF person.mustChange THEN "enter to change" ELSE "enter", Nothing,
                         person.password)]
    /\ UNCHANGED <<person, stored, cookie, tab, authenticator, excused, unsettled>>

\* ... the session is created ...
CreateSession(t, s) ==
    /\ call[t].op \in {"enter", "enter to change"} /\ call[t].session = Nothing
    /\ stored[s].status = "NONE"
    /\ stored' = [stored EXCEPT ![s] = [Unopened EXCEPT !.status = "ACTIVE",
                                                          !.password = call[t].with]]
    /\ call' = [call EXCEPT ![t].session = s]
    /\ excused' = IF call[t].with # person.password \/ person.status # "ACTIVE"
                  THEN excused \cup {s} ELSE excused
    /\ UNCHANGED <<person, cookie, tab, authenticator, unsettled>>

\* ... and the answer brings the cookie and the access token; or is lost.
Entered(t) ==
    LET s == call[t].session
    IN  /\ call[t].op \in {"enter", "enter to change"} /\ s # Nothing
        /\ call' = [call EXCEPT ![t] = Quiet]
        /\ \/ /\ cookie' = [cookie EXCEPT ![BrowserOf(t)] = [session |-> s, turn |-> 0]]
              /\ tab' = Showing(t, IF call[t].op = "enter" THEN "home" ELSE "password", s)
              /\ unsettled' = IF \E u \in InBrowser(t) \ {t} : Refreshing(u)
                            THEN unsettled \cup {BrowserOf(t)} ELSE unsettled \ {BrowserOf(t)}
           \/ UNCHANGED <<cookie, tab, unsettled>>
        /\ UNCHANGED <<person, stored, authenticator, excused>>

\* logout: the session of the access token is revoked, and the cookie cleared
\* without a look at whose it is.  The page forgets its token in any case.
LogOut(t) ==
    /\ call[t].op = "none" /\ tab[t].page = "home"
    /\ tab' = SignedOut(t)
    /\ \/ /\ Admitted(t)
          /\ stored' = Revoked(tab[t].access)
          /\ cookie' = [cookie EXCEPT ![BrowserOf(t)] = NoCookie]
       \/ UNCHANGED <<stored, cookie>>   \* refused, or lost on the way
    /\ UNCHANGED <<person, call, authenticator, excused, unsettled>>

\* logoutAll: every session but the caller's, whose cookie is cleared.
LogOutAll(t) ==
    /\ call[t].op = "none" /\ Admitted(t)
    /\ stored' = RevokedAll(tab[t].access)
    /\ cookie' = [cookie EXCEPT ![BrowserOf(t)] = NoCookie]
    /\ UNCHANGED <<person, tab, call, authenticator, excused, unsettled>>

\* revokeSession, of one's own.
RevokeSession(t, s) ==
    /\ call[t].op = "none" /\ Welcome(t) /\ stored[s].status # "NONE"
    /\ stored' = Revoked(s)
    /\ UNCHANGED <<person, cookie, tab, call, authenticator, excused, unsettled>>

\* changePassword: the current password is verified ...
CheckPassword(t) ==
    /\ call[t].op = "none" /\ tab[t].page = "password" /\ Admitted(t)
    /\ call' = [call EXCEPT ![t] = Asking("verified", tab[t].access, 0)]
    /\ UNCHANGED <<person, stored, cookie, tab, authenticator, excused, unsettled>>

\* ... the new one is written, over one that was set meanwhile too ...
ChangePassword(t) ==
    LET s == call[t].session
    IN  /\ call[t].op = "verified" /\ person.password < Passwords
        /\ person' = [person EXCEPT !.password = @ + 1, !.mustChange = FALSE]
        /\ stored' = IF stored[s].status = "ACTIVE"
                     THEN [stored EXCEPT ![s].password = person.password + 1] ELSE stored
        /\ call' = [call EXCEPT ![t].op = "change"]
        /\ UNCHANGED <<cookie, tab, authenticator, excused, unsettled>>

\* ... and then, in a statement of its own, the other sessions are revoked.
RevokeOthers(t) ==
    /\ call[t].op = "change"
    /\ stored' = RevokedAll(call[t].session)
    /\ call' = [call EXCEPT ![t] = Quiet]
    /\ tab' = [tab EXCEPT ![t].page = "home"]
    /\ UNCHANGED <<person, cookie, authenticator, excused, unsettled>>

\* The server stops between the two: the page shows an error and stays.
ChangeCutOff(t) ==
    /\ call[t].op = "change"
    /\ call' = [call EXCEPT ![t] = Quiet]
    /\ excused' = excused \cup {s \in Session : stored[s].status = "ACTIVE"}
    /\ UNCHANGED <<person, stored, cookie, tab, authenticator, unsettled>>

\* resetPassword, by a director, in one transaction.
ResetPassword ==
    /\ person.password < Passwords
    /\ person' = [person EXCEPT !.password = @ + 1, !.mustChange = TRUE]
    /\ stored' = RevokedAll(Nothing)
    /\ UNCHANGED <<cookie, tab, call, authenticator, excused, unsettled>>

\* blockUser and archiveUser, which differ in the name of the status only.
Suspend ==
    /\ person.status = "ACTIVE" /\ person' = [person EXCEPT !.status = "INACTIVE"]
    /\ stored' = RevokedAll(Nothing)
    /\ UNCHANGED <<cookie, tab, call, authenticator, excused, unsettled>>

\* unblockUser, of anyone.
Unblock ==
    /\ person.status # "ACTIVE" /\ person' = [person EXCEPT !.status = "ACTIVE"]
    /\ UNCHANGED <<stored, cookie, tab, call, authenticator, excused, unsettled>>

-----------------------------------------------------------------------------
\* Time: an access token goes stale, which nothing in an open tab mends; a
\* stored's two weeks pass, and those of its cookie.
GoStale(t) ==
    /\ tab[t].access \in Session
    /\ tab' = [tab EXCEPT ![t].access = Stale]
    /\ UNCHANGED <<person, stored, cookie, call, authenticator, excused, unsettled>>

RunOut(s) ==
    /\ Live(s) /\ \A t \in Tab : tab[t].access # s
    /\ stored' = [stored EXCEPT ![s].over = TRUE]
    /\ UNCHANGED <<person, cookie, tab, call, authenticator, excused, unsettled>>

DropCookie(b) ==
    /\ cookie[b].session # Nothing /\ stored[cookie[b].session].over
    /\ cookie' = [cookie EXCEPT ![b] = NoCookie]
    /\ UNCHANGED <<person, stored, tab, call, authenticator, excused, unsettled>>

-----------------------------------------------------------------------------
\* setupTotp: a new key is to be confirmed; the page shows it, and it is
\* entered into the app, unless the answer is lost.
SetUp(t, k) ==
    /\ call[t].op = "none" /\ Admitted(t) /\ tab[t].page = "home"
    /\ authenticator.key = Nothing /\ k \notin authenticator.generated
    /\ \E seen \in {{}, {k}} :
          authenticator' = [authenticator EXCEPT !.pending = k,
                                                 !.generated = @ \cup {k},
                                                 !.app = @ \cup seen]
    /\ UNCHANGED <<person, stored, cookie, tab, call, excused, unsettled>>

\* confirmTotp: the code is checked with the key that is read ...
CheckCode(t) ==
    /\ call[t].op = "none" /\ Admitted(t) /\ tab[t].page = "home"
    /\ authenticator.key = Nothing /\ authenticator.pending \in authenticator.app
    /\ call' = [call EXCEPT ![t] = Asking("confirm", Nothing, authenticator.pending)]
    /\ UNCHANGED <<person, stored, cookie, tab, authenticator, excused, unsettled>>

\* Mutant of Confirmed: the key to be confirmed is taken as it is stored by now.
ConfirmedStored(k) == [authenticator EXCEPT !.key = authenticator.pending, !.pending = Nothing]

Confirmed(k) == [authenticator EXCEPT !.key = k, !.pending = Nothing]

\* ... and that key is put in force.
Confirm(t) ==
    /\ call[t].op = "confirm"
    /\ authenticator' = Confirmed(call[t].with)
    /\ call' = [call EXCEPT ![t] = Quiet]
    /\ UNCHANGED <<person, stored, cookie, tab, excused, unsettled>>

\* disableTotp, after a check of the password and a code of the key read.
CheckLast(t) ==
    /\ call[t].op = "none" /\ Admitted(t) /\ tab[t].page = "home"
    /\ authenticator.key \in authenticator.app
    /\ call' = [call EXCEPT ![t] = Asking("disable", Nothing, 0)]
    /\ UNCHANGED <<person, stored, cookie, tab, authenticator, excused, unsettled>>

Disable(t) ==
    /\ call[t].op = "disable"
    /\ authenticator' = [authenticator EXCEPT !.key = Nothing, !.pending = Nothing]
    /\ call' = [call EXCEPT ![t] = Quiet]
    /\ UNCHANGED <<person, stored, cookie, tab, excused, unsettled>>

-----------------------------------------------------------------------------
Entrances ==
    \E t \in Tab : SignIn(t) \/ Entered(t) \/ \E s \in Session : CreateSession(t, s)

Visits ==
    \E t \in Tab :
       \/ Open(t) \/ ReadRefresh(t) \/ Rotate(t) \/ Refreshed(t) \/ RefreshLost(t)
       \/ Bootstrap(t)

Exits ==
    \E t \in Tab : LogOut(t) \/ LogOutAll(t) \/ \E s \in Session : RevokeSession(t, s)

Changes ==
    \/ \E t \in Tab :
          \/ VisitPassword(t) \/ CheckPassword(t) \/ ChangePassword(t) \/ RevokeOthers(t)
          \/ ChangeCutOff(t)
    \/ ResetPassword

Suspensions == Suspend \/ Unblock

Days ==
    \/ \E t \in Tab : GoStale(t)
    \/ \E s \in Session : RunOut(s)
    \/ \E b \in Browser : DropCookie(b)

Keys ==
    \E t \in Tab :
       \/ CheckCode(t) \/ Confirm(t) \/ CheckLast(t) \/ Disable(t)
       \/ \E k \in AuthKey : SetUp(t, k)

SessionsNext == Entrances \/ Visits \/ Exits \/ Changes \/ Suspensions \/ Days \/ Keys

SessionsSpec == SessionsInit /\ [][SessionsNext]_sessionVars

-----------------------------------------------------------------------------
(***************************************************************************)
(* Type correctness.                                                       *)
(***************************************************************************)
SessionsTypeOK ==
    /\ person \in [status : {"ACTIVE", "INACTIVE"}, password : 0..Passwords,
                   mustChange : BOOLEAN]
    /\ stored \in [Session -> [status : {"NONE", "ACTIVE", "REVOKED", "EXPIRED"},
                                turn : 0..Turns, over : BOOLEAN, password : 0..Passwords]]
    /\ \A b \in Browser : cookie[b].session \in Session \cup {Nothing}
    /\ \A t \in Tab : /\ tab[t].page \in {"loading", "login", "home", "password"}
                      /\ tab[t].page \in {"home", "password"} <=> 
                            tab[t].access # Nothing /\ tab[t].page # "loading"
    /\ authenticator.app \subseteq authenticator.generated

(***************************************************************************)
(* A change or a reset of the password ends the other sessions, and a      *)
(* block ends all: no refresh or logout that has read its session before   *)
(* brings one back.  Only a login that had checked the password before,    *)
(* or a change that stopped half way, leaves a session behind.             *)
(***************************************************************************)
OldSessionsStayClosed ==
    \A s \in Session \ excused :
        stored[s].status = "ACTIVE" =>
            /\ \/ stored[s].password = person.password
               \/ \E t \in Tab : call[t].op = "change"
            /\ person.status = "ACTIVE" \/ stored[s].password = person.password

(***************************************************************************)
(* Whoever is signed in stays so: the cookie of a browser holds the token  *)
(* that its session has now, except where two refreshes of the browser     *)
(* overlapped or an answer was lost.                                       *)
(***************************************************************************)
CookieIsCurrent ==
    \A b \in Browser \ unsettled :
        LET c == cookie[b]
        IN  c.session # Nothing /\ Live(c.session)
              => \/ stored[c.session].turn = c.turn
                 \/ \E t \in Tab : BrowserOf(t) = b /\ Refreshing(t)

(***************************************************************************)
(* A tab that shows the application is welcome at the server: whoever must *)
(* change the password is on that page, in every tab that is still signed  *)
(* in.                                                                     *)
(***************************************************************************)
HomeIsWelcome ==
    \A t \in Tab :
        tab[t].page = "home" /\ tab[t].access \notin excused /\ Admitted(t) => Welcome(t)

(***************************************************************************)
(* Nobody is asked for a code that no app shows: the key in force is one   *)
(* the person has entered, whatever setups cross its confirmation.         *)
(***************************************************************************)
KeyIsInTheApp == authenticator.key # Nothing => authenticator.key \in authenticator.app

\* What a person may rely on.
SessionsAreSound ==
    OldSessionsStayClosed /\ CookieIsCurrent /\ HomeIsWelcome /\ KeyIsInTheApp
===============================================================================
