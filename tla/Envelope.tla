------------------------------ MODULE Envelope ------------------------------
(***************************************************************************)
(* Encryption at rest: lib/crypto.js, the server handlers that read and    *)
(* write encrypted columns, and the operator's scripts migrate-envelope,   *)
(* rotate-kek and set-manual-token, which open the same database from a    *)
(* process of their own, beside a server that goes on.  A script reads its *)
(* rows in one step and writes them in another: its SELECT runs before its *)
(* BEGIN, and SQLite gives it the write lock only at its first write.  So  *)
(* does the server when it saves a credential: a tick of its event loop    *)
(* keeps its other handlers out, not the other process.                    *)
(*                                                                         *)
(* The operator works alone: one script at a time, and the swap of the KEK *)
(* that rotate-kek asks for when it has ended is a step of its own.        *)
(*                                                                         *)
(* A blob is the key it was encrypted with and the token inside; GCM opens *)
(* it with that key and with no other.                                     *)
(***************************************************************************)
EXTENDS ConnectionStore, FiniteSets

CONSTANTS Account,
          Scripts,    \* the scripts the operator runs
          MaxRows,    \* bound: rows ever inserted
          MaxTokens   \* bound: tokens ever issued

ASSUME ConstantsAssumption ==
    /\ Scripts \subseteq {"migrate", "rotate", "manual"}
    /\ MaxRows \in Nat \ {0} /\ MaxTokens \in Nat

VARIABLES conns, nextId,
          deks,        \* number of DEKs drawn
          tokens,      \* number of tokens issued
          envKek,      \* ZKEYS_MASTER_KEY in the environment
          serverKek,   \* the KEK the running server loaded, NULL if it is down
          held,        \* row id -> keys of the boxes of the requests that read it
          saving,      \* the account upsertOne is saving and the row it read, or NULL
          script,      \* the script at work and what it has read, or NULL
          swapDue,     \* rotate-kek has asked for the swap of ZKEYS_MASTER_KEY
          raced        \* history: rows that two processes wrote across each other

kekVars == <<envKek, swapDue>>
serverVars == <<serverKek, held, saving>>
vars == <<conns, nextId, deks, tokens, kekVars, serverVars, script, raced>>

Id == 1 .. MaxRows

---------------------------------------------------------------------------
(* lib/crypto.js *)

Enc(key, token) == [key |-> key, token |-> token]
Decrypts(key, blob) == blob # NULL => blob.key = key

OldKek == 1       \* ZKEYS_MASTER_KEY before a rotation, and after it
NewKek == 2

KekKey(kek) == <<"kek", kek>>     \* v1: the KEK itself
DekKey(dek) == <<"dek", dek>>     \* v2: the DEK of the row

Wrap(kek, dek) == [kek |-> kek, dek |-> dek]

\* Mutant of NewConnection: the server draws one DEK for all rows.
OneDekForAll(kek) == [key |-> DekKey(1), dekWrapped |-> Wrap(kek, 1), drawn |-> 1]

NewConnection(kek) ==
    [key |-> DekKey(deks + 1), dekWrapped |-> Wrap(kek, deks + 1), drawn |-> 1]

\* openConnection keeps the format of the row; it throws if the DEK does not
\* unwrap.
Opens(kek, row) == row.dek # NULL => row.dek.kek = kek

OpenConnection(kek, row) ==
    [key |-> IF row.dek = NULL THEN KekKey(kek) ELSE DekKey(row.dek.dek),
     dekWrapped |-> row.dek, drawn |-> 0]

\* Mutant of BoxFor: a reconnection draws a new DEK.
FreshBox(kek, row) == NewConnection(kek)

\* existing ? openConnection(existing) : newConnection()
BoxFor(kek, row) == IF row = NULL THEN NewConnection(kek) ELSE OpenConnection(kek, row)

---------------------------------------------------------------------------

Columns(a, box, token, refresh) ==
    [user |-> "u", provider |-> "p", account |-> a, alias |-> NULL,
     access |-> Enc(box.key, token), refresh |-> refresh, dek |-> box.dekWrapped,
     expires |-> NULL, created |-> nextId]

\* Rows of the time before the envelope: v1, KEK OldKek, tokens 0.
Legacy(a, refresh) ==
    [Inserted([user |-> "u", provider |-> "p", account |-> a, alias |-> NULL,
               access |-> Enc(KekKey(OldKek), 0), refresh |-> refresh, dek |-> NULL,
               expires |-> NULL, created |-> 1])
        EXCEPT !.is_default = TRUE]

Init ==
    /\ \E a \in Account, refresh \in {NULL, Enc(KekKey(OldKek), 0)} :
        conns = [i \in Id |-> IF i = 1 THEN Legacy(a, refresh) ELSE NULL]
    /\ nextId = 2
    /\ deks = 0 /\ tokens = 0
    /\ envKek = OldKek
    /\ serverKek = envKek
    /\ held = [i \in Id |-> {}]
    /\ saving = NULL /\ script = NULL
    /\ swapDue = FALSE
    /\ raced = {}

RowOf(a) ==
    LET same == FindByAccount(conns, "u", "p", a)
    IN  IF same = {} THEN NULL ELSE conns[CHOOSE i \in same : TRUE]

\* The KEK that the operator has been told to keep.
VaultKek == IF swapDue THEN NewKek ELSE envKek

\* The row is no longer as a writer read it: it came, went, or changed its DEK.
Overtaken(read, now) ==
    \/ (read = NULL) # (now = NULL)
    \/ read # NULL /\ now # NULL /\ read.dek # now.dek

\* The upsert of a credential by a process that holds kek and has read what.row.
SaveWith(kek, what, hasRefresh) ==
    LET box == BoxFor(kek, what.row)
        t == tokens + 1
        new == Columns(what.account, box, t, IF hasRefresh THEN Enc(box.key, t) ELSE NULL)
        i == UpsertId(conns, nextId, new)
    IN  /\ tokens < MaxTokens
        /\ i \in Id
        /\ conns' = Upsert(conns, nextId, new)
        /\ nextId' = IF i = nextId THEN nextId + 1 ELSE nextId
        /\ tokens' = t
        /\ deks' = deks + box.drawn
        /\ raced' = IF Overtaken(what.row, conns[i]) \/ kek # VaultKek
                    THEN raced \cup {i} ELSE raced

---------------------------------------------------------------------------
(* The server: while upsertOne is between its read and its write no other  *)
(* handler runs.                                                           *)

Up == serverKek # NULL
Idle == Up /\ saving = NULL

\* callback upsertOne: findByAccount and the box ..
ConnectRead(a) ==
    /\ Idle
    /\ RowOf(a) # NULL => Opens(serverKek, RowOf(a))
    /\ saving' = [account |-> a, row |-> RowOf(a)]
    /\ UNCHANGED <<conns, nextId, deks, tokens, kekVars, serverKek, held, script, raced>>

\* .. and the upsert.
ConnectWrite ==
    /\ saving # NULL
    /\ \E hasRefresh \in BOOLEAN : SaveWith(serverKek, saving, hasRefresh)
    /\ saving' = NULL
    /\ UNCHANGED <<kekVars, serverKek, held, script>>

\* A request reads its row when it arrives, and opens it for the refresh ..
StartRefresh(i) ==
    /\ Idle
    /\ conns[i] # NULL
    /\ conns[i].refresh # NULL
    /\ Opens(serverKek, conns[i])
    /\ Decrypts(OpenConnection(serverKek, conns[i]).key, conns[i].refresh)
    /\ held' = [held EXCEPT ![i] = @ \cup {OpenConnection(serverKek, conns[i]).key}]
    /\ UNCHANGED <<conns, nextId, deks, tokens, kekVars, serverKek, saving, script, raced>>

\* .. whose result it writes with that box, after any number of awaits.  Others may
\* hold the same one.
FinishRefresh(i) ==
    /\ Idle
    /\ tokens < MaxTokens
    /\ \E key \in held[i] :
        /\ \E refresh \in {NULL, Enc(key, tokens + 1)} :
            conns' = UpdateTokens(conns, i,
                        [access |-> Enc(key, tokens + 1), refresh |-> refresh,
                         dek |-> NULL, expires |-> NULL])
        /\ held' \in {held, [held EXCEPT ![i] = @ \ {key}]}
    /\ tokens' = tokens + 1
    /\ UNCHANGED <<nextId, deks, kekVars, serverKek, saving, script, raced>>

Delete(i) ==
    /\ Idle
    /\ conns[i] # NULL
    /\ conns' = Remove(conns, i)
    /\ UNCHANGED <<nextId, deks, tokens, kekVars, serverVars, script, raced>>

Stop ==
    /\ Up
    /\ serverKek' = NULL
    /\ held' = [i \in Id |-> {}]
    /\ saving' = NULL
    /\ UNCHANGED <<conns, nextId, deks, tokens, kekVars, script, raced>>

Start ==
    /\ ~ Up
    /\ serverKek' = envKek
    /\ UNCHANGED <<conns, nextId, deks, tokens, kekVars, held, saving, script, raced>>

---------------------------------------------------------------------------
(* The scripts, with the KEK of the environment. *)

\* from: the first id that did not exist yet when the script read the table.
Launch(name, what) ==
    /\ name \in Scripts
    /\ script = NULL
    /\ script' = [name |-> name, read |-> what, from |-> nextId]
    /\ UNCHANGED <<conns, nextId, deks, tokens, kekVars, serverVars, raced>>

Running(name) == script # NULL /\ script.name = name

\* A dry run, an error or a signal: rolled back.
Abandon ==
    /\ script # NULL
    /\ script' = NULL
    /\ UNCHANGED <<conns, nextId, deks, tokens, kekVars, serverVars, raced>>

\* What the script has read: a function on the ids of its rows.
ReadRows(ids) == [i \in ids |-> conns[i]]

V1Rows == {i \in Rows(conns) : conns[i].dek = NULL}

MigrateRead ==
    /\ V1Rows # {}
    /\ Launch("migrate", ReadRows(V1Rows))

\* Mutant of Migrated: the access token is re-encrypted in both columns.
MigratedAccessTwice(i) ==
    LET key == DekKey(deks + i)
        access == Enc(key, script.read[i].access.token)
    IN  [conns[i] EXCEPT !.access = access, !.refresh = access,
                         !.dek = Wrap(envKek, deks + i)]

\* Each row read is written back under a DEK of its own.
Migrated(i) ==
    LET old == script.read[i]
        key == DekKey(deks + i)
    IN  [conns[i] EXCEPT
            !.access = Enc(key, old.access.token),
            !.refresh = IF old.refresh = NULL THEN NULL ELSE Enc(key, old.refresh.token),
            !.dek = Wrap(envKek, deks + i)]

\* A blob that the KEK does not open throws, and so does the final proof if a row is
\* gone: then everything is rolled back (Abandon).  A request that read the row as v1
\* still holds the KEK for it.
MigrateWrite ==
    /\ Running("migrate")
    /\ LET read == DOMAIN script.read
       IN  /\ read \subseteq Rows(conns)
           /\ \A i \in read : /\ Decrypts(KekKey(envKek), script.read[i].access)
                              /\ Decrypts(KekKey(envKek), script.read[i].refresh)
           /\ conns' = [i \in Id |-> IF i \in read THEN Migrated(i) ELSE conns[i]]
           /\ raced' = raced \cup {i \in read : held[i] # {}}
    /\ deks' = deks + MaxRows
    /\ script' = NULL
    /\ UNCHANGED <<nextId, tokens, kekVars, serverVars>>

\* Mutant of RotateRead: only the rows that can be refreshed are re-wrapped.
RotateReadRefreshable ==
    /\ envKek = OldKek
    /\ V1Rows = {}
    /\ Launch("rotate", ReadRows({i \in Rows(conns) : conns[i].refresh # NULL}))

\* Refuses while a row is v1; throws if a DEK does not open with the old KEK.
RotateRead ==
    /\ envKek = OldKek
    /\ V1Rows = {}
    /\ \A i \in Rows(conns) : Opens(envKek, conns[i])
    /\ Launch("rotate", ReadRows(Rows(conns)))

\* Re-wraps the DEKs read, and asks for the swap.  Rows inserted since were not seen.
RotateWrite ==
    /\ Running("rotate")
    /\ conns' = [i \in Id |->
                    IF i \in DOMAIN script.read /\ conns[i] # NULL
                    THEN [conns[i] EXCEPT !.dek = Wrap(NewKek, script.read[i].dek.dek)]
                    ELSE conns[i]]
    /\ swapDue' = TRUE
    /\ raced' = raced \cup {i \in Rows(conns) : i >= script.from}
    /\ script' = NULL
    /\ UNCHANGED <<nextId, deks, tokens, envKek, serverVars>>

\* "Agora troque ZKEYS_MASTER_KEY pelo novo valor"
SwapKek ==
    /\ swapDue
    /\ script = NULL
    /\ envKek' = NewKek
    /\ swapDue' = FALSE
    /\ UNCHANGED <<conns, nextId, deks, tokens, serverVars, script, raced>>

ManualRead(a) ==
    /\ RowOf(a) # NULL => Opens(envKek, RowOf(a))
    /\ Launch("manual", [account |-> a, row |-> RowOf(a)])

ManualWrite ==
    /\ Running("manual")
    /\ SaveWith(envKek, script.read, FALSE)
    /\ script' = NULL
    /\ UNCHANGED <<kekVars, serverVars>>

Next ==
    \/ \E a \in Account : ConnectRead(a) \/ ManualRead(a)
    \/ \E i \in Id : StartRefresh(i) \/ FinishRefresh(i) \/ Delete(i)
    \/ ConnectWrite \/ Stop \/ Start
    \/ MigrateRead \/ MigrateWrite \/ RotateRead \/ RotateWrite \/ SwapKek
    \/ ManualWrite \/ Abandon

Spec == Init /\ [][Next]_vars

---------------------------------------------------------------------------
(* Types and safety. *)

Key == {KekKey(OldKek), KekKey(NewKek)} \cup {DekKey(d) : d \in 1 .. deks}
Blob == [key: Key, token: 0 .. tokens]
Wrapped == [kek: {OldKek, NewKek}, dek: 1 .. deks]

\* NULL is none of the values it stands apart from in a column.
AnyKey == {"kek", "dek"} \X Nat
AnyBlob == [key: AnyKey, token: Nat]
AnyWrap == [kek: {OldKek, NewKek}, dek: Nat]

ASSUME NullAssumption == NULL \notin AnyBlob \cup AnyWrap

TypeOK ==
    /\ \A i \in Rows(conns) :
        /\ conns[i].access \in Blob
        /\ conns[i].refresh \in Blob \cup {NULL}
        /\ conns[i].dek \in Wrapped \cup {NULL}
    /\ DOMAIN conns = Id /\ nextId \in 1 .. MaxRows + 1
    /\ tokens \in 0 .. MaxTokens
    /\ envKek \in {OldKek, NewKek} /\ serverKek \in {OldKek, NewKek, NULL}
    /\ held \in [Id -> SUBSET Key]
    /\ swapDue \in BOOLEAN /\ raced \subseteq Id

\* Access and refresh of a row are encrypted with the key of that row: no row
\* is a mixture of formats or of DEKs, whatever was in flight when it changed.
RowKey(row) == IF row.dek = NULL THEN KekKey(OldKek) ELSE DekKey(row.dek.dek)

OneKey(row) == Decrypts(RowKey(row), row.access) /\ Decrypts(RowKey(row), row.refresh)


\* A mixed row is one that was migrated under a request in flight, or saved from a
\* reading that the other process had overtaken: nothing else mixes one.
OnlyRacedRowsMix == \A i \in Rows(conns) : i \notin raced => OneKey(conns[i])

\* No two rows share a DEK, beside any script.
DekPerRow ==
    \A i, j \in Rows(conns) :
        conns[i].dek # NULL /\ conns[j].dek # NULL /\ conns[i].dek.dek = conns[j].dek.dek
            => i = j

\* A server that starts with the KEK the operator was told to keep opens every row
\* and decrypts its access token, v1 rows included; a rotation beside a running server
\* loses only rows that it could not see, or that were saved with the old KEK after it.
VaultKekOpens ==
    \A i \in Rows(conns) : i \notin raced =>
        /\ Opens(VaultKek, conns[i])
        /\ Decrypts(OpenConnection(VaultKek, conns[i]).key, conns[i].access)

\* Migrating or rotating changes how tokens are stored, never which tokens: a
\* rotation not even those that the server stored meanwhile, a migration those of no
\* row but one that changed after its SELECT.
Plain(blob) == IF blob = NULL THEN NULL ELSE blob.token

SameTokens(old, new) ==
    Plain(new.access) = Plain(old.access) /\ Plain(new.refresh) = Plain(old.refresh)

ReadAsIs(i) == i \in DOMAIN script.read => script.read[i] = conns[i]

MaintenanceKeepsTokens ==
    [][/\ RotateWrite => \A i \in Rows(conns) : SameTokens(conns[i], conns'[i])
       /\ MigrateWrite => \A i \in Rows(conns) :
                            ReadAsIs(i) => SameTokens(conns[i], conns'[i])]_vars
=============================================================================
