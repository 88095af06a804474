-------------------------------- MODULE Staff --------------------------------
(***************************************************************************)
(* The people of one organization: their accounts, roles, stores and       *)
(* courier profiles.                                                       *)
(*                                                                         *)
(* Three rules tie rows of different tables together: an organization has  *)
(* a director, a florist works in chosen stores, and whoever has the role  *)
(* COURIER has an active courier profile.  The use cases check the first   *)
(* two before their transaction begins and repair the third after it has   *)
(* ended, so the rules depend on what other requests do in between.        *)
(***************************************************************************)
EXTENDS Deletions

CONSTANTS
    User,      \* people who are or may become members
    Owner,     \* the director that bootstrapOwner creates
    Store,     \* stores of the organization
    Handled,   \* bound: users who log in, are blocked, get a profile by hand
    RoleSets   \* bound: the sets of roles that requests ask for

ASSUME StaffAssumption ==
    /\ User \subseteq Entity /\ IsFiniteSet(User)
    /\ Owner \in User /\ Handled \subseteq User
    /\ RoleSets \subseteq SUBSET {"DIRECTOR", "FLORIST", "COURIER", "DEVELOPER"}

VARIABLES
    account,   \* account[u]: status of the user row: ACTIVE, BLOCKED or ARCHIVED
    session,   \* session[u]: u has logged in at least once; sessions are kept
    roles,     \* roles[u]: the membership's roles
    access,    \* access[u]: store access mode and the stores selected
    profile,   \* profile[u]: profile of the membership: NONE, ACTIVE or ARCHIVED
    blind,     \* history: two checked requests could both take the last directors
    mixed,     \* history: users whose roles and stores were changed at once
    strayed    \* history: users whose profile was touched apart from their roles

staffVars == <<account, session, roles, access, profile, blind, mixed, strayed>>

AllStores == [mode |-> "ALL_STORES", stores |-> {}]
Selected(S) == [mode |-> "SELECTED_STORES", stores |-> S]
Access == {AllStores} \cup {Selected(S) : S \in SUBSET Store}

\* bootstrapOwner: the organization starts with one director; others may have
\* been created, without a role.
StaffInit ==
    /\ record[Owner] = "STORED"
    /\ \A u \in User : record[u] \in {"UNBORN", "STORED"}
    /\ account = [u \in User |-> "ACTIVE"]
    /\ session = [u \in User |-> FALSE]
    /\ roles = [u \in User |-> IF u = Owner THEN {"DIRECTOR"} ELSE {}]
    /\ access = [u \in User |-> AllStores]
    /\ profile = [u \in User |-> "NONE"]
    /\ blind = FALSE
    /\ mixed = {}
    /\ strayed = {}

-----------------------------------------------------------------------------
Directors == {u \in User : "DIRECTOR" \in roles[u]}

\* Mutant of SpareDirector: the user to be removed counts as the one that stays.
AnyDirector == Cardinality(Directors) > 0

\* countActiveDirectors: members with the role, whatever their account's status.
SpareDirector == Cardinality(Directors) > 1

\* The request at p has passed the check and will write without looking again.
RemovesDirector(p) ==
    \/ job[p].op = "roles" /\ "DIRECTOR" \notin job[p].wish
    \/ job[p].op = "delete"

PassedTogether(p) == blind' = (blind \/ \E q \in Request \ {p} : RemovesDirector(q))

\* assertFloristStoreBinding.
FloristBound(R, a) == "FLORIST" \in R => a.mode = "SELECTED_STORES" /\ a.stores # {}

\* The kinds of requests that rely on each other's rows.
ChangesRoles(q, u) == job[q].op \in {"directors", "roles"} /\ job[q].entity = u
ChangesAccess(q, u) == job[q].op = "access" /\ job[q].entity = u
Syncs(q, u) == job[q].op \in {"directors", "roles", "sync"} /\ job[q].entity = u

\* The rules that an assignment of the roles R, new stores, and a deletion have
\* to respect.
RolesFit(u, R) == FloristBound(R, access[u])
KeepsDirector(u, R) == "DIRECTOR" \in roles[u] /\ "DIRECTOR" \notin R => SpareDirector
MayLeave(u) == "DIRECTOR" \in roles[u] => SpareDirector

-----------------------------------------------------------------------------
\* createUser: user and membership in one transaction.
CreateUser(p, u) ==
    /\ record[u] = "UNBORN" /\ AtOnce(p)
    /\ record' = [record EXCEPT ![u] = "STORED"]
    /\ UNCHANGED <<ticket, removedBy, muddled, staffVars>>

\* createDirector: the user is created or attached, and gets the role.
CreateDirector(p, u) ==
    /\ record[u] # "DELETED" /\ AtOnce(p)
    /\ record' = [record EXCEPT ![u] = "STORED"]
    /\ roles' = [roles EXCEPT ![u] = @ \cup {"DIRECTOR"}]
    /\ UNCHANGED <<ticket, removedBy, muddled, account, session, access, profile, blind,
                   mixed, strayed>>

\* updateUserStatus, by blockUser, unblockUser and archiveUser.
SetAccount(p, u, status) ==
    /\ Stored(u) /\ AtOnce(p)
    /\ account' = [account EXCEPT ![u] = status]
    /\ UNCHANGED <<rows, session, roles, access, profile, blind, mixed, strayed>>

BlockUser(p, u) == SetAccount(p, u, "BLOCKED")
UnblockUser(p, u) == SetAccount(p, u, "ACTIVE")
ArchiveUser(p, u) == SetAccount(p, u, "ARCHIVED")

\* login: a session of the membership.
LogIn(p, u) ==
    /\ Stored(u) /\ account[u] = "ACTIVE" /\ AtOnce(p)
    /\ session' = [session EXCEPT ![u] = TRUE]
    /\ UNCHANGED <<rows, account, roles, access, profile, blind, mixed, strayed>>

\* assignRoles: the florist's stores are read first ...
AskRoles(p, u, R) ==
    /\ Stored(u)
    /\ RolesFit(u, R)
    /\ Starts(p, "directors", u, None, R)
    /\ mixed' = IF \E q \in Request : ChangesAccess(q, u) THEN mixed \cup {u} ELSE mixed
    /\ strayed' = IF \E q \in Request : Syncs(q, u) THEN strayed \cup {u} ELSE strayed
    /\ UNCHANGED <<rows, account, session, roles, access, profile, blind>>

\* ... then the user's present roles, and how many directors there are ...
CheckDirectors(p) ==
    LET u == job[p].entity
    IN  /\ job[p].op = "directors"
        /\ IF KeepsDirector(u, job[p].wish)
           THEN /\ GoesOn(p, "roles")
                /\ IF "DIRECTOR" \in job[p].wish THEN UNCHANGED blind ELSE PassedTogether(p)
           ELSE Ends(p) /\ UNCHANGED blind
        /\ UNCHANGED <<rows, account, session, roles, access, profile, mixed, strayed>>

\* ... replaceMembershipRoles, in a transaction of its own; the membership may
\* have been deleted meanwhile ...
WriteRoles(p) ==
    LET u == job[p].entity
    IN  /\ job[p].op = "roles"
        /\ IF Stored(u)
           THEN roles' = [roles EXCEPT ![u] = job[p].wish] /\ GoesOn(p, "sync")
           ELSE UNCHANGED roles /\ Ends(p)
        /\ UNCHANGED <<rows, account, session, access, profile, blind, mixed, strayed>>

\* Mutant of Synced: a profile that was archived stays archived.
SyncedOnce(held, isCourier) ==
    IF isCourier THEN IF held = "NONE" THEN "ACTIVE" ELSE held
    ELSE IF held = "NONE" THEN "NONE" ELSE "ARCHIVED"

\* ... and, after it, the courier profile (syncCourierMembership).
Synced(held, isCourier) ==
    IF isCourier THEN "ACTIVE" ELSE IF held = "NONE" THEN "NONE" ELSE "ARCHIVED"

\* A profile that no other request for the user was near is right again,
\* whatever was done to it before.
SyncCourier(p) ==
    LET u == job[p].entity
        alone == ~\E q \in Request \ {p} : Syncs(q, u)
    IN  /\ job[p].op = "sync"
        /\ profile' = [profile EXCEPT ![u] = Synced(@, "COURIER" \in job[p].wish)]
        /\ strayed' = IF alone /\ ("COURIER" \in roles[u] <=> "COURIER" \in job[p].wish)
                       THEN strayed \ {u} ELSE strayed \cup {u}
        /\ Ends(p)
        /\ UNCHANGED <<rows, account, session, roles, access, blind, mixed>>

\* Mutant of AccessFits: no store need be chosen.
ModeFits(u, a) == "FLORIST" \in roles[u] => a.mode = "SELECTED_STORES"

AccessFits(u, a) == FloristBound(roles[u], a)

\* setStoreAccess: the user's roles are read first ...
AskAccess(p, u, a) ==
    /\ Stored(u)
    /\ AccessFits(u, a)
    /\ Starts(p, "access", u, None, a)
    /\ mixed' = IF \E q \in Request : ChangesRoles(q, u) THEN mixed \cup {u} ELSE mixed
    /\ UNCHANGED <<rows, account, session, roles, access, profile, blind, strayed>>

\* ... then mode and stores are written in a transaction.
WriteAccess(p) ==
    LET u == job[p].entity
    IN  /\ job[p].op = "access"
        /\ access' = IF Stored(u) THEN [access EXCEPT ![u] = job[p].wish] ELSE access
        /\ Ends(p)
        /\ UNCHANGED <<rows, account, session, roles, profile, blind, mixed, strayed>>

\* createCourier and archiveCourier, called for a member directly, and deleteCourier,
\* of a profile that no delivery was assigned to: the roles stay what they are.  The
\* approval of the request that names the profile is not followed here.
CreateCourier(p, u) ==
    /\ Stored(u) /\ profile[u] = "NONE" /\ AtOnce(p)
    /\ profile' = [profile EXCEPT ![u] = "ACTIVE"]
    /\ strayed' = strayed \cup {u}
    /\ UNCHANGED <<rows, account, session, roles, access, blind, mixed>>

ArchiveCourier(p, u) ==
    /\ profile[u] # "NONE" /\ AtOnce(p)
    /\ profile' = [profile EXCEPT ![u] = "ARCHIVED"]
    /\ strayed' = strayed \cup {u}
    /\ UNCHANGED <<rows, account, session, roles, access, blind, mixed>>

DeleteCourier(p, u) ==
    /\ profile[u] # "NONE" /\ AtOnce(p)
    /\ profile' = [profile EXCEPT ![u] = "NONE"]
    /\ strayed' = strayed \cup {u}
    /\ UNCHANGED <<rows, account, session, roles, access, blind, mixed>>

\* deleteOrgUser: refused for the last director ...
CheckUser(p) ==
    LET u == job[p].entity
    IN  /\ job[p].op = "check" /\ u \in User
        /\ IF Stored(u) /\ MayLeave(u)
           THEN GoesOn(p, "delete") /\ PassedTogether(p)
           ELSE Ends(p) /\ UNCHANGED blind
        /\ UNCHANGED <<rows, account, session, roles, access, profile, mixed, strayed>>

\* ... then roles, stores and membership are deleted in one transaction, which
\* the foreign key of the sessions rolls back for anyone who has logged in.
DeleteUser(p) ==
    LET u == job[p].entity
    IN  /\ job[p].op = "delete"
        /\ IF Stored(u) /\ ~session[u]
           THEN /\ RecordDeleted(p)
                /\ roles' = [roles EXCEPT ![u] = {}]
                /\ access' = [access EXCEPT ![u].stores = {}]
           ELSE Ends(p) /\ UNCHANGED <<record, removedBy, roles, access>>
        /\ UNCHANGED <<ticket, muddled, account, session, profile, blind, mixed,
                       strayed>>

StaffStatements == {"directors", "roles", "sync", "access", "delete"}

StaffCutOff(p) ==
    /\ CutOff(p, StaffStatements)
    /\ strayed' = IF job[p].op = "sync" THEN strayed \cup {job[p].entity} ELSE strayed
    /\ UNCHANGED <<account, session, roles, access, profile, blind, mixed>>

StaffNext ==
    \E p \in Request :
       \/ /\ Arrives(p)
          /\ \/ \E u \in User :
                   \/ CreateUser(p, u) \/ CreateDirector(p, u)
                   \/ \E R \in RoleSets : AskRoles(p, u, R)
                   \/ \E a \in Access : AskAccess(p, u, a)
             \/ \E u \in Handled :
                   \/ LogIn(p, u) \/ BlockUser(p, u) \/ UnblockUser(p, u) \/ ArchiveUser(p, u)
                   \/ CreateCourier(p, u) \/ ArchiveCourier(p, u) \/ DeleteCourier(p, u)
       \/ CheckDirectors(p) \/ WriteRoles(p) \/ SyncCourier(p) \/ WriteAccess(p)
       \/ CheckUser(p) \/ DeleteUser(p)
       \/ StaffCutOff(p)
       \/ DeletionStep(p, User) /\ UNCHANGED staffVars

-----------------------------------------------------------------------------
(***************************************************************************)
(* Type correctness.                                                       *)
(***************************************************************************)
StaffTypeOK ==
    /\ record \in [Entity -> {"UNBORN", "STORED", "DELETED"}]
    /\ account \in [User -> {"ACTIVE", "BLOCKED", "ARCHIVED"}]
    /\ session \in [User -> BOOLEAN]
    /\ roles \in [User -> SUBSET {"DIRECTOR", "FLORIST", "COURIER", "DEVELOPER"}]
    /\ access \in [User -> Access]
    /\ profile \in [User -> {"NONE", "ACTIVE", "ARCHIVED"}]
    /\ mixed \subseteq User /\ strayed \subseteq User

(***************************************************************************)
(* The organization keeps a director.  assignRoles and deleteOrgUser count *)
(* the directors before they write, so it takes two of them that have both *)
(* counted and not yet written to lose the last one.                       *)
(***************************************************************************)
DirectorRemains == ~blind => Directors # {}

(***************************************************************************)
(* A florist works in chosen stores.  assignRoles checks the stores that   *)
(* are stored, setStoreAccess the roles that are stored, each before its   *)
(* transaction: only the two of them at once, for one user, can leave a    *)
(* florist without.                                                        *)
(***************************************************************************)
FloristsHaveStores == \A u \in User \ mixed : Stored(u) => FloristBound(roles[u], access[u])

(***************************************************************************)
(* Whoever has the role COURIER has an active courier profile, and nobody  *)
(* else: "profile is synced automatically".  An assignRoles that runs      *)
(* alone makes it so, also after a profile was created, archived or        *)
(* deleted by hand or an earlier request stopped half way.                 *)
(***************************************************************************)
CouriersFollowRoles ==
    \A u \in User \ strayed :
        Stored(u) /\ (~\E p \in Request : job[p].op = "sync" /\ job[p].entity = u)
          => (profile[u] = "ACTIVE" <=> "COURIER" \in roles[u])
=============================================================================
