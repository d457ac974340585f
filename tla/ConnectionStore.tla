-------------------------- MODULE ConnectionStore --------------------------
(***************************************************************************)
(* The connections repository of lib/store.js as operators on one table.   *)
(* A table is a function from row ids to rows; NULL marks an id that holds *)
(* no row.  Each operator is one prepared statement or one transaction()   *)
(* of the repository: node:sqlite is synchronous, so each of them is       *)
(* atomic with respect to the other handlers of the server process.        *)
(*                                                                         *)
(* A row keeps the columns that some decision of the program reads: email, *)
(* display_name, scopes_json and metadata_json are payload and left out.   *)
(***************************************************************************)
EXTENDS Naturals

CONSTANT NULL       \* SQL NULL: no row, or no value in a column

Coalesce(x, y) == IF x # NULL THEN x ELSE y

Rows(t) == {i \in DOMAIN t : t[i] # NULL}

OfUser(t, u, p) == {i \in Rows(t) : t[i].user = u /\ t[i].provider = p}

\* SELECTs.  The UNIQUE index makes the first one at most a singleton; the
\* other two return a set of rows any of which SQLite may return.
FindByAccount(t, u, p, a) == {i \in OfUser(t, u, p) : t[i].account = a}

FindByAlias(t, u, p, l) == {i \in OfUser(t, u, p) : t[i].alias = l}

Defaults(t, u, p) == {i \in OfUser(t, u, p) : t[i].is_default}

Oldest(t, ids) == {i \in ids : \A j \in ids : t[i].created <= t[j].created}

\* Mutant of FindDefault: ORDER BY created_at alone.
OldestOfAll(t, u, p) == Oldest(t, OfUser(t, u, p))

\* ORDER BY is_default DESC, created_at ASC LIMIT 1
FindDefault(t, u, p) ==
    IF Defaults(t, u, p) # {} THEN Oldest(t, Defaults(t, u, p))
                              ELSE Oldest(t, OfUser(t, u, p))

Inserted(new) ==
    [user |-> new.user, provider |-> new.provider, account |-> new.account,
     alias |-> new.alias, access |-> new.access, refresh |-> new.refresh,
     dek |-> new.dek, expires |-> new.expires, url |-> NULL,
     is_default |-> FALSE, created |-> new.created]

\* Mutant of Reconnected: the missing refresh token overwrites the stored one.
ReconnectedBlindly(old, new) ==
    [old EXCEPT !.access = new.access, !.refresh = new.refresh,
                !.dek = new.dek, !.expires = new.expires]

\* ON CONFLICT DO UPDATE: alias, webhook url, created_at and is_default stay.
Reconnected(old, new) ==
    [old EXCEPT !.access  = new.access,
                !.refresh = Coalesce(new.refresh, @),
                !.dek     = new.dek,
                !.expires = new.expires]

\* Mutants of UpsertId: no conflict clause, every save inserts; a unique index
\* on user and provider alone.
AlwaysInserts(t, fresh, new) == fresh

OneRowPerProvider(t, fresh, new) ==
    LET same == OfUser(t, new.user, new.provider)
    IN  IF same = {} THEN fresh ELSE CHOOSE i \in same : TRUE

\* The row that the INSERT .. RETURNING id of an upsert names.
UpsertId(t, fresh, new) ==
    LET same == FindByAccount(t, new.user, new.provider, new.account)
    IN  IF same = {} THEN fresh ELSE CHOOSE i \in same : TRUE

UpsertRow(t, fresh, new) ==
    LET i == UpsertId(t, fresh, new)
    IN  IF t[i] = NULL THEN Inserted(new) ELSE Reconnected(t[i], new)

Upsert(t, fresh, new) ==
    [t EXCEPT ![UpsertId(t, fresh, new)] =
        [UpsertRow(t, fresh, new) EXCEPT
            !.is_default = @ \/ Defaults(t, new.user, new.provider) = {}]]

\* Mutants of MakeDefault: the old default is not cleared; every user's is.
DefaultAdded(t, i) == [t EXCEPT ![i].is_default = TRUE]

DefaultClearedForAll(t, i) ==
    [j \in DOMAIN t |->
        IF t[j] # NULL /\ t[j].provider = t[i].provider
        THEN [t[j] EXCEPT !.is_default = (j = i)]
        ELSE t[j]]

\* setDefault once its owner check has passed: clear the provider, set one.
MakeDefault(t, i) ==
    [j \in DOMAIN t |->
        IF j \in OfUser(t, t[i].user, t[i].provider)
        THEN [t[j] EXCEPT !.is_default = (j = i)]
        ELSE t[j]]

\* UPDATE .. WHERE id = ?: no row, no effect.
UpdateAlias(t, i, l) ==
    IF t[i] = NULL THEN t ELSE [t EXCEPT ![i].alias = l]

\* Mutants of UpdateTokens: the tokens bound in the wrong order; the new refresh
\* token forgotten.
TokensSwapped(t, i, new) ==
    IF t[i] = NULL THEN t
    ELSE [t EXCEPT ![i].access = new.refresh, ![i].refresh = new.access,
                   ![i].expires = new.expires]

RefreshTokenForgotten(t, i, new) ==
    IF t[i] = NULL THEN t
    ELSE [t EXCEPT ![i].access = new.access, ![i].expires = new.expires]

UpdateTokens(t, i, new) ==
    IF t[i] = NULL THEN t
    ELSE [t EXCEPT ![i].access  = new.access,
                   ![i].refresh = Coalesce(new.refresh, @),
                   ![i].dek     = Coalesce(new.dek, @),
                   ![i].expires = new.expires]

SetWebhookForwardUrl(t, i, url) ==
    IF t[i] = NULL THEN t ELSE [t EXCEPT ![i].url = url]

Remove(t, i) == [t EXCEPT ![i] = NULL]

Owned(t, u, i) == t[i] # NULL /\ t[i].user = u
=============================================================================
