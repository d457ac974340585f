---------------------------- MODULE Registration ----------------------------
(***************************************************************************)
(* How accounts come to be: POST /auth/register (bootstrap, invite, open), *)
(* POST /auth/users, POST /auth/invites and scripts/create-user.js.  Each  *)
(* request checks the vault and pays its invite in one step, awaits        *)
(* passwords.hash on a worker thread, and inserts the user in another.     *)
(* A request is one value of Request, used once; what it asked for stays   *)
(* in req, so that the rows it produced can be traced back to it.          *)
(*                                                                         *)
(* Input validation and the rate limiter only add refusals that change     *)
(* nothing here; emails are taken after normalisation.                     *)
(***************************************************************************)
EXTENDS Naturals, FiniteSets

CONSTANTS NULL, Email, Code, Request,
          RegisterModes,   \* the values of ZKEYS_REGISTER_MODE to consider
          MaxUses,         \* bound: max_uses of an invite
          MaxClock         \* bound: instants

ASSUME ConstantsAssumption ==
    /\ RegisterModes \subseteq {"closed", "invite", "open"}
    /\ MaxUses \in Nat \ {0} /\ MaxClock \in Nat
    /\ NULL \notin Email \cup Code \cup Nat

Role == {"admin", "user"}

User   == [role: Role, password: Request]
Invite == [alvo: Email \cup {NULL}, uses: 0 .. MaxUses, max: 1 .. MaxUses,
           expires: 0 .. MaxClock + 1 \cup {NULL}]
Asked  == [kind: {"register", "admin", "script"}, email: Email, role: Role,
           code: Code \cup {NULL}, pc: {"hashing", "created", "refused", "failed", "lost"}]

ASSUME NullAssumption == NULL \notin User \cup Invite \cup Asked

VARIABLES users,         \* email (UNIQUE) -> the row, or NULL
          invites,       \* code -> the row of invite_codes, or NULL
          clock,
          req,           \* request -> what it asked for and where it is, or NULL
          registerMode

vars == <<users, invites, clock, req, registerMode>>

TypeOK ==
    /\ users \in [Email -> User \cup {NULL}]
    /\ invites \in [Code -> Invite \cup {NULL}]
    /\ clock \in 0 .. MaxClock
    /\ req \in [Request -> Asked \cup {NULL}]
    /\ registerMode \in RegisterModes

Init ==
    /\ users = [e \in Email |-> NULL]
    /\ invites = [c \in Code |-> NULL]
    /\ clock = 0
    /\ req = [r \in Request |-> NULL]
    /\ registerMode \in RegisterModes

Tick ==
    /\ clock < MaxClock
    /\ clock' = clock + 1
    /\ UNCHANGED <<users, invites, req, registerMode>>

---------------------------------------------------------------------------
(* The repositories users and inviteCodes of lib/store.js. *)

Registered(e) == users[e] # NULL

\* Mutant of NoUsers: an off-by-one in the count.
OneUserAtMost == Cardinality({e \in Email : Registered(e)}) <= 1

NoUsers == \A e \in Email : ~ Registered(e)

AdminExists == \E e \in Email : Registered(e) /\ users[e].role = "admin"

\* findActive lets the instant of expiry pass, consume does not.
FindActive(c) ==
    /\ c # NULL
    /\ invites[c] # NULL
    /\ invites[c].uses < invites[c].max
    /\ invites[c].expires # NULL => invites[c].expires >= clock

Consumable(c) ==
    /\ invites[c].uses < invites[c].max
    /\ invites[c].expires # NULL => invites[c].expires > clock

\* Mutant of Consume: the use is not counted.
ConsumeNothing(c) == invites

Consume(c) == [invites EXCEPT ![c].uses = @ + 1]

\* Mutant of CreateUser: INSERT OR REPLACE.
ReplaceUser(r) ==
    [users EXCEPT ![req[r].email] = [role |-> req[r].role, password |-> r]]

\* The UNIQUE index on email makes the INSERT throw.
CreateUser(r) ==
    IF Registered(req[r].email) THEN users
    ELSE [users EXCEPT ![req[r].email] = [role |-> req[r].role, password |-> r]]

---------------------------------------------------------------------------
(* Handlers. *)

\* Mutant of EffectiveMode: no bootstrap.
ConfiguredMode == registerMode

EffectiveMode == IF NoUsers THEN "first_user" ELSE registerMode

\* Mutant of InviteAdmits: a nominal invite works for everybody.
AnyInviteAdmits(e, c) == FindActive(c) /\ Consumable(c)

InviteAdmits(e, c) ==
    /\ FindActive(c)
    /\ invites[c].alvo \in {NULL, e}
    /\ Consumable(c)

Admits(e, c) ==
    /\ EffectiveMode # "closed"
    /\ ~ Registered(e)
    /\ EffectiveMode = "invite" => InviteAdmits(e, c)

\* POST /auth/register, up to the await.
Register(r, e, c) ==
    /\ req[r] = NULL
    /\ LET paid == IF Admits(e, c) /\ EffectiveMode = "invite" THEN c ELSE NULL
       IN  /\ req' = [req EXCEPT ![r] =
                [kind |-> "register", email |-> e, code |-> paid,
                 role |-> IF EffectiveMode = "first_user" THEN "admin" ELSE "user",
                 pc |-> IF Admits(e, c) THEN "hashing" ELSE "refused"]]
           /\ invites' = IF paid = NULL THEN invites ELSE Consume(paid)
    /\ UNCHANGED <<users, clock, registerMode>>

\* POST /auth/users by an admin, and create-user.js, up to the await.
AddUser(r, kind, e, role) ==
    /\ req[r] = NULL
    /\ req' = [req EXCEPT ![r] =
            [kind |-> kind, email |-> e, code |-> NULL, role |-> role,
             pc |-> IF Registered(e) THEN "refused" ELSE "hashing"]]
    /\ UNCHANGED <<users, invites, clock, registerMode>>

AdminAddsUser(r, e, role) == AdminExists /\ AddUser(r, "admin", e, role)

ScriptAddsUser(r, e, role) == AddUser(r, "script", e, role)

\* The hash has arrived: insert the user, answer 201 and a session, or 500.
Create(r) ==
    /\ req[r] # NULL
    /\ req[r].pc = "hashing"
    /\ users' = CreateUser(r)
    /\ req' = [req EXCEPT ![r].pc =
            IF Registered(req[r].email) THEN "failed" ELSE "created"]
    /\ UNCHANGED <<invites, clock, registerMode>>

\* The server stops; the scripts are processes of their own.
OfServer(r) == req[r] # NULL /\ req[r].pc = "hashing" /\ req[r].kind # "script"

Restart ==
    /\ \E r \in Request : OfServer(r)
    /\ req' = [r \in Request |->
            IF OfServer(r) THEN [req[r] EXCEPT !.pc = "lost"] ELSE req[r]]
    /\ UNCHANGED <<users, invites, clock, registerMode>>

\* Mutant of CreateInvite: a nominal invite has the uses of no other.
NominalWithoutUses(c, alvo, max, ttl) ==
    /\ AdminExists
    /\ invites[c] = NULL
    /\ invites' = [invites EXCEPT ![c] =
            [alvo |-> alvo, uses |-> 0, max |-> IF alvo = NULL THEN max ELSE 0,
             expires |-> IF ttl = NULL THEN NULL ELSE clock + ttl]]
    /\ UNCHANGED <<users, clock, req, registerMode>>

\* POST /auth/invites: a nominal invite is for one use.
CreateInvite(c, alvo, max, ttl) ==
    /\ AdminExists
    /\ invites[c] = NULL
    /\ invites' = [invites EXCEPT ![c] =
            [alvo |-> alvo, uses |-> 0, max |-> IF alvo = NULL THEN max ELSE 1,
             expires |-> IF ttl = NULL THEN NULL ELSE clock + ttl]]
    /\ UNCHANGED <<users, clock, req, registerMode>>

\* POST /proxy/invites: the token of an admin mints nominal invites only.
ProxyInvite(c, alvo) == CreateInvite(c, alvo, 1, 1)

Next ==
    \/ Tick \/ Restart
    \/ \E r \in Request, e \in Email, c \in Code \cup {NULL} : Register(r, e, c)
    \/ \E r \in Request, e \in Email, role \in Role :
        AdminAddsUser(r, e, role) \/ ScriptAddsUser(r, e, role)
    \/ \E r \in Request : Create(r)
    \/ \E c \in Code, alvo \in Email \cup {NULL}, max \in 1 .. MaxUses, ttl \in {NULL, 1} :
        CreateInvite(c, alvo, max, ttl)
    \/ \E c \in Code, alvo \in Email : ProxyInvite(c, alvo)

Spec == Init /\ [][Next]_vars

---------------------------------------------------------------------------
(* Properties. *)

Owner(e) == req[users[e].password]

Paid(c) == {e \in Email : Registered(e) /\ Owner(e).code = c}

AboutToCreate(c) == {r \in Request : req[r] # NULL /\ req[r].pc = "hashing" /\ req[r].code = c}

\* An invite never admits more people than it has uses, counting those whose
\* password is still being hashed (consume in auth/routes.js and store.js).
InviteCoversAccounts ==
    \A c \in Code : invites[c] # NULL =>
        /\ Cardinality(Paid(c)) + Cardinality(AboutToCreate(c)) <= invites[c].uses
        /\ invites[c].uses <= invites[c].max

\* A request was answered 201 exactly if its own password opens the account:
\* of two requests for one email, the loser is never logged in and never
\* replaces what the winner stored.
CreatedOwnsAccount ==
    \A r \in Request : req[r] # NULL =>
        (req[r].pc = "created" <=>
            /\ Registered(req[r].email)
            /\ users[req[r].email] = [role |-> req[r].role, password |-> r])

\* create-user.js makes users unless it is told to make an admin.
ScriptMadeUser ==
    \E e \in Email : Registered(e) /\ Owner(e).kind = "script" /\ users[e].role = "user"

\* However bootstrap registrations, invites, open registrations, the script and
\* crashes interleave, a vault with users has an admin who can let others in; only
\* an account that the operator's script made as a user may stand without one.
VaultHasAdmin == ~ NoUsers => AdminExists \/ ScriptMadeUser

\* Whoever registered without an invite on a vault that is not open did it as
\* the bootstrap admin; whoever paid with a nominal invite is its addressee.
SelfServeIsPaid ==
    \A e \in Email : Registered(e) /\ Owner(e).kind = "register" =>
        IF Owner(e).code = NULL
        THEN registerMode # "open" => users[e].role = "admin"
        ELSE users[e].role = "user" /\ invites[Owner(e).code].alvo \in {NULL, e}

\* A self-served account of the closed mode, and an admin who registered, were
\* admitted by a vault that had no user: the way in closes for good.
BootstrapCloses ==
    [][\A r \in Request :
        req[r] = NULL /\ req'[r] # NULL /\ req'[r].kind = "register"
            /\ req'[r].pc = "hashing"
            /\ (req'[r].role = "admin" \/ registerMode = "closed")
        => \A q \in Request : req[q] = NULL \/ req[q].pc # "created"]_vars

\* auth/routes.js:4-6: a database without users accepts THE FIRST register as
\* the admin.
OneBootstrapAdmin ==
    Cardinality({e \in Email : /\ Registered(e)
                               /\ Owner(e).kind = "register"
                               /\ users[e].role = "admin"}) <= 1
=============================================================================
