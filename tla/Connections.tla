---------------------------- MODULE Connections ----------------------------
(***************************************************************************)
(* The life of the rows of the connections table: the OAuth callback and   *)
(* the set-manual-token script that write them, the vault routes (default, *)
(* alias, delete), the webhook set-up of an organisation and the proxy's   *)
(* token refresh.  The last three await an answer of the provider between  *)
(* reading the row and writing it back by id, so each is a handler that    *)
(* starts in one step and finishes in another; in between every other      *)
(* operation may run.                                                      *)
(***************************************************************************)
EXTENDS ConnectionStore, FiniteSets

CONSTANTS User, Provider, Account, Alias, Token, Url,
          ValidUrl,         \* the Urls that parse as http(s)
          WebhookProvider,  \* the providers that have a set-up route
          Expiry,           \* the values of expires_at, NULL among them
          Handler,          \* slots for handlers that await the provider
          MaxRows,          \* bound: rows ever inserted
          MaxClock          \* bound: distinct values of created_at

ASSUME ConstantsAssumption ==
    /\ MaxRows \in Nat \ {0}
    /\ MaxClock \in Nat
    /\ ValidUrl \subseteq Url
    /\ WebhookProvider \subseteq Provider
    /\ NULL \in Expiry
    /\ NULL \notin Alias \cup Token \cup Url

VARIABLES conns,    \* the table
          nextId,   \* the next ulid() to be drawn
          clock,    \* the value now() returns
          pending   \* Handler -> the handler awaiting the provider, or NULL

vars == <<conns, nextId, clock, pending>>

Id == 1 .. MaxRows

Row == [user: User, provider: Provider, account: Account,
        alias: Alias \cup {NULL}, access: Token, refresh: Token \cup {NULL},
        dek: Token, expires: Expiry, url: Url \cup {NULL},
        is_default: BOOLEAN, created: 0 .. MaxClock]

DeleteOp  == [op: {"delete"}, user: User, id: Id]
SetupOp   == [op: {"setup"}, user: User, id: Id, url: Url]
RefreshOp == [op: {"refresh"}, user: User, id: Id]

\* NULL is none of the values it stands apart from.
ASSUME NullAssumption ==
    /\ NULL \notin Row
    /\ NULL \notin DeleteOp \cup SetupOp \cup RefreshOp

TypeOK ==
    /\ conns \in [Id -> Row \cup {NULL}]
    /\ nextId \in 1 .. MaxRows + 1
    /\ clock \in 0 .. MaxClock
    /\ pending \in [Handler -> DeleteOp \cup SetupOp \cup RefreshOp \cup {NULL}]

Init ==
    /\ conns = [i \in Id |-> NULL]
    /\ nextId = 1
    /\ clock = 0
    /\ pending = [h \in Handler |-> NULL]

Tick ==
    /\ clock < MaxClock
    /\ clock' = clock + 1
    /\ UNCHANGED <<conns, nextId, pending>>

---------------------------------------------------------------------------
(* Handlers that run in one tick of the event loop. *)

NewRow == [user: User, provider: Provider, account: Account,
           alias: Alias \cup {NULL}, access: Token, refresh: Token \cup {NULL},
           dek: Token, expires: Expiry, created: 0 .. MaxClock]

\* Mutant of Save: ids are rowids, so the id of the last row is used again once
\* that row is deleted.
SaveAtRowid(new) ==
    LET used == Rows(conns)
        fresh == CHOOSE i \in 1 .. MaxRows + 1 :
                    (i = 1 \/ i - 1 \in used) /\ \A j \in used : j < i
    IN  /\ fresh \in Id
        /\ conns' = Upsert(conns, fresh, new)
        /\ nextId' = IF fresh < nextId THEN nextId ELSE fresh + 1
        /\ UNCHANGED <<clock, pending>>

\* A fresh id is drawn for every upsert and kept only by an INSERT.
Save(new) ==
    /\ nextId \in Id
    /\ conns' = Upsert(conns, nextId, new)
    /\ nextId' = IF UpsertId(conns, nextId, new) = nextId THEN nextId + 1 ELSE nextId
    /\ UNCHANGED <<clock, pending>>

\* connections/routes.js upsertOne: no alias; the refresh token may be absent.
Connect(u, p, a) ==
    \E tk \in Token, r \in Token \cup {NULL}, e \in Expiry :
        Save([user |-> u, provider |-> p, account |-> a, alias |-> NULL,
              access |-> tk, refresh |-> r, dek |-> tk, expires |-> e,
              created |-> clock])

\* scripts/set-manual-token.js: alias for a new row, never a refresh token.
ManualToken(u, p, a) ==
    \E tk \in Token, l \in Alias \cup {NULL} :
        Save([user |-> u, provider |-> p, account |-> a, alias |-> l,
              access |-> tk, refresh |-> NULL, dek |-> tk, expires |-> NULL,
              created |-> clock])

SetDefault(u, i) ==
    /\ Owned(conns, u, i)
    /\ conns' = MakeDefault(conns, i)
    /\ UNCHANGED <<nextId, clock, pending>>

PatchAlias(u, i) ==
    /\ Owned(conns, u, i)
    /\ \E l \in Alias \cup {NULL} : conns' = UpdateAlias(conns, i, l)
    /\ UNCHANGED <<nextId, clock, pending>>

---------------------------------------------------------------------------
(* Handlers that await the provider between the read and the write. *)

Start(h, op) ==
    /\ pending[h] = NULL
    /\ pending' = [pending EXCEPT ![h] = op]
    /\ UNCHANGED <<conns, nextId, clock>>

Finish(h, table) ==
    /\ conns' = table
    /\ pending' = [pending EXCEPT ![h] = NULL]
    /\ UNCHANGED <<nextId, clock>>

Awaiting(h, op) == pending[h] # NULL /\ pending[h].op = op

\* Mutant of StartDelete: any row that exists.
StartDeleteOfAnyone(h, u, i) ==
    /\ conns[i] # NULL
    /\ Start(h, [op |-> "delete", user |-> u, id |-> i])

\* DELETE /connections/:id reads the row and awaits the provider's revoke.
StartDelete(h, u, i) ==
    /\ Owned(conns, u, i)
    /\ Start(h, [op |-> "delete", user |-> u, id |-> i])

\* Revoked or not, the row goes.
FinishDelete(h) ==
    /\ Awaiting(h, "delete")
    /\ Finish(h, Remove(conns, pending[h].id))

\* POST /auth/{whatsapp,instagram}/setup-webhook with a forward_url.
StartSetup(h, u, p, a) ==
    /\ p \in WebhookProvider
    /\ \E i \in FindByAccount(conns, u, p, a), url \in Url :
        Start(h, [op |-> "setup", user |-> u, id |-> i, url |-> url])

\* What the forward_url step of the answer says.
SetupReportsOk(h) == pending[h].url \in ValidUrl

FinishSetup(h) ==
    /\ Awaiting(h, "setup")
    /\ Finish(h, IF SetupReportsOk(h)
                 THEN SetWebhookForwardUrl(conns, pending[h].id, pending[h].url)
                 ELSE conns)

\* What a refresh writes: the DEK never changes, a new refresh token may come.
Refreshed == [access: Token, refresh: Token \cup {NULL}, dek: {NULL}, expires: Expiry]

\* proxy/middleware.js refreshConnection, or the failure of the call.
StartRefresh(h, u, i) ==
    /\ Owned(conns, u, i)
    /\ conns[i].refresh # NULL
    /\ Start(h, [op |-> "refresh", user |-> u, id |-> i])

FinishRefresh(h) ==
    /\ Awaiting(h, "refresh")
    /\ \/ \E new \in Refreshed : Finish(h, UpdateTokens(conns, pending[h].id, new))
       \/ Finish(h, conns)

---------------------------------------------------------------------------

UserStep(u) ==
    \/ \E p \in Provider, a \in Account : Connect(u, p, a) \/ ManualToken(u, p, a)
    \/ \E i \in Id : SetDefault(u, i) \/ PatchAlias(u, i)
    \/ \E h \in Handler, i \in Id : StartDelete(h, u, i) \/ StartRefresh(h, u, i)
    \/ \E h \in Handler, p \in Provider, a \in Account : StartSetup(h, u, p, a)

FinishStep(h) == FinishDelete(h) \/ FinishSetup(h) \/ FinishRefresh(h)

\* The process stops and starts again: the table stays, what awaited is gone.
Restart ==
    /\ pending' = [h \in Handler |-> NULL]
    /\ UNCHANGED <<conns, nextId, clock>>

Next ==
    \/ Tick \/ Restart
    \/ \E u \in User : UserStep(u)
    \/ \E h \in Handler : FinishStep(h)

Spec == Init /\ [][Next]_vars

---------------------------------------------------------------------------
(* Safety. *)

\* Two rows never hold the same account of a user: reconnecting finds the row.
UniqueAccount ==
    \A i, j \in Rows(conns) :
        /\ conns[i].user = conns[j].user
        /\ conns[i].provider = conns[j].provider
        /\ conns[i].account = conns[j].account
        => i = j

\* A (user, provider) has at most one default row, whatever the order of
\* connects, promotions and deletions: an unqualified proxy call is unambiguous.
AtMostOneDefault ==
    \A u \in User, p \in Provider :
        \A i, j \in Defaults(conns, u, p) : i = j

\* A handler that awaits the provider still targets a row of the user it was
\* authorised for, or no row at all: the row cannot change hands meanwhile.
PendingTargetsOwnRow ==
    \A h \in Handler : pending[h] # NULL =>
        \/ conns[pending[h].id] = NULL
        \/ conns[pending[h].id].user = pending[h].user

\* A step of one user, or the end of one of his handlers, leaves the rows of
\* every other user as they were (the owner checks of the routes, and ids that
\* are never reused).
OnlyOwnRowsChange ==
    [][\A i \in Id : conns[i] # NULL /\ conns'[i] # conns[i] =>
        /\ \A u \in User \ {conns[i].user} : ~ UserStep(u)
        /\ \A h \in Handler : FinishStep(h) => pending[h].user = conns[i].user]_vars

\* A row that went never comes back under its id: a late refresh or set-up of
\* a deleted connection writes nothing.
NoResurrection ==
    [][\A i \in Id : i < nextId /\ conns[i] = NULL => conns'[i] = NULL]_vars

\* Reconnecting or refreshing an account whose provider sends no new refresh
\* token keeps the stored one; neither loses the webhook subscription, the
\* alias or the age of the row, which the user set or the ordering depends on.
ReconnectKeepsCredentials ==
    [][\A i \in Id : conns[i] # NULL /\ conns'[i] # NULL =>
        /\ conns[i].refresh # NULL => conns'[i].refresh # NULL
        /\ conns[i].url # NULL => conns'[i].url # NULL
        /\ conns'[i].created = conns[i].created
        /\ conns'[i].alias # conns[i].alias => \E u \in User : PatchAlias(u, i)]_vars

\* While a default row exists and stays, only a promotion by the user moves
\* the connection that his unqualified proxy calls resolve to.
DefaultIsSticky ==
    [][\A u \in User, p \in Provider, i \in Id :
        /\ i \in Defaults(conns, u, p)
        /\ conns'[i] # NULL
        /\ FindDefault(conns, u, p)' # {i}
        => \E j \in Id : SetDefault(u, j)]_vars
=============================================================================
