--------------------------- MODULE EnvelopeProofs ---------------------------
(***************************************************************************)
(* Proofs about Envelope for any accounts, scripts and bounds, with the    *)
(* scripts beside a running server or one that is down.                    *)
(*                                                                         *)
(* Two facts carry the argument.  A row that is not raced is whole: both   *)
(* columns, and every box that a request holds for it, have its key, and   *)
(* its DEK is wrapped with the KEK of the vault.  And a DEK belongs to one *)
(* account, whether a row, a save under way or a script holds it.          *)
(***************************************************************************)
EXTENDS Envelope, TLAPS

EnvRow(B, W) ==
    [user: {"u"}, provider: {"p"}, account: Account, alias: {NULL},
     access: B, refresh: B \cup {NULL}, dek: W \cup {NULL},
     expires: {NULL}, url: {NULL}, is_default: BOOLEAN, created: Nat]

Tables(B, W) == [Id -> EnvRow(B, W) \cup {NULL}]

Types ==
    /\ conns \in Tables(Blob, Wrapped)
    /\ nextId \in 1 .. MaxRows + 1
    /\ deks \in Nat
    /\ tokens \in 0 .. MaxTokens
    /\ envKek \in {OldKek, NewKek} /\ serverKek \in {OldKek, NewKek, NULL}
    /\ held \in [Id -> SUBSET Key]
    /\ swapDue \in BOOLEAN /\ raced \subseteq Id

\* Ids are given out in order.
Unborn == \A i \in Id : i >= nextId => conns[i] = NULL /\ held[i] = {}

\* UNIQUE(user, provider, account).
OneRowEach ==
    \A i, j \in Id :
        conns[i] # NULL /\ conns[j] # NULL /\ conns[i].account = conns[j].account => i = j

\* What findByAccount returned, however long ago.
Reading(what) ==
    /\ what.account \in Account
    /\ what.row \in EnvRow(Blob, Wrapped) \cup {NULL}
    /\ what.row # NULL => what.row.account = what.account

SavingTrue == saving # NULL => Reading(saving) /\ serverKek # NULL

MigrationTrue ==
    /\ DOMAIN script.read \subseteq Id
    /\ \A i \in DOMAIN script.read : /\ script.read[i] \in EnvRow(Blob, Wrapped)
                                     /\ i \notin raced => VaultKek = OldKek

\* A row with a DEK; two rows with one DEK.
Dekked(r) == r # NULL /\ r.dek # NULL
SameDek(r, s) == r.dek.dek = s.dek.dek

RotationTrue ==
    /\ DOMAIN script.read \subseteq Id
    /\ script.from \in Nat /\ script.from <= nextId
    /\ \A i \in DOMAIN script.read :
        /\ i < script.from
        /\ script.read[i] \in EnvRow(Blob, Wrapped) /\ Dekked(script.read[i])
        /\ conns[i] # NULL => /\ conns[i].account = script.read[i].account
                              /\ i \notin raced => conns[i].dek = script.read[i].dek
    /\ \A i \in Id : conns[i] # NULL /\ i < script.from => i \in DOMAIN script.read

ScriptTrue ==
    script # NULL =>
        /\ script.name \in {"migrate", "rotate", "manual"}
        /\ script.name = "migrate" => MigrationTrue
        /\ script.name = "rotate" => RotationTrue
        /\ script.name = "manual" => Reading(script.read)

\* Both columns, and the boxes held for the row, have its key, and kek opens it.
Whole(row, kek, keys) ==
    /\ row.access.key = RowKey(row)
    /\ row.refresh # NULL => row.refresh.key = RowKey(row)
    /\ row.dek = NULL => kek = OldKek
    /\ row.dek # NULL => row.dek.kek = kek
    /\ \A k \in keys : k = RowKey(row)

UnracedWhole ==
    \A i \in Id : conns[i] # NULL /\ i \notin raced => Whole(conns[i], VaultKek, held[i])

\* The rows that somebody may still write the DEK of.
SavedRow == IF saving = NULL THEN {} ELSE {saving.row}
ScriptRows ==
    IF script = NULL THEN {}
    ELSE IF script.name = "rotate" THEN {script.read[i] : i \in DOMAIN script.read}
    ELSE IF script.name = "manual" THEN {script.read.row}
    ELSE {}
Holders == {conns[i] : i \in Id} \cup SavedRow \cup ScriptRows

OneOwner(S) ==
    \A r, s \in S : Dekked(r) /\ Dekked(s) /\ SameDek(r, s) => r.account = s.account

IInv ==
    /\ Types /\ Unborn /\ OneRowEach
    /\ SavingTrue /\ ScriptTrue
    /\ UnracedWhole /\ OneOwner(Holders)

\* What every step but a script's commit leaves alone, for the script at work.
Steady ==
    /\ deks <= deks' /\ tokens <= tokens' /\ nextId <= nextId' /\ raced \subseteq raced'
    /\ VaultKek' = VaultKek
    /\ \A j \in Id : conns'[j] # NULL =>
         \/ conns[j] = NULL /\ j >= nextId
         \/ /\ conns[j] # NULL /\ conns'[j].account = conns[j].account
            /\ j \notin raced' => conns'[j].dek = conns[j].dek

---------------------------------------------------------------------------
(* Types. *)

\* More DEKs and tokens, more keys and blobs.
LEMMA Grow ==
    ASSUME deks \in Nat, deks' \in Nat, deks <= deks',
           tokens \in Nat, tokens' \in Nat, tokens <= tokens'
    PROVE  Key \subseteq Key' /\ Blob \subseteq Blob' /\ Wrapped \subseteq Wrapped'
<1>1. 1 .. deks \subseteq 1 .. deks' /\ 0 .. tokens \subseteq 0 .. tokens'
  OBVIOUS
<1>2. Key \subseteq Key' /\ Wrapped \subseteq Wrapped'
  BY <1>1 DEF Key, Wrapped
<1>3. Blob \subseteq Blob'
  <2> HIDE DEF Key
  <2> QED BY <1>1, <1>2 DEF Blob
<1> QED BY <1>2, <1>3

\* A row stays a row.
LEMMA RowsGrow ==
    ASSUME NEW B, NEW C, B \subseteq C, NEW W, NEW X, W \subseteq X
    PROVE  EnvRow(B, W) \subseteq EnvRow(C, X)
  BY DEF EnvRow

\* NULL is neither a blob nor a wrapped DEK.
LEMMA NotNull ==
    ASSUME deks \in Nat, tokens \in Nat
    PROVE  NULL \notin Blob /\ NULL \notin Wrapped
<1>1. Key \subseteq AnyKey
  BY DEF Key, AnyKey, KekKey, DekKey, OldKek, NewKek
<1>2. Blob \subseteq AnyBlob
  BY <1>1 DEF Blob, AnyBlob
<1>3. Wrapped \subseteq AnyWrap
  BY DEF Wrapped, AnyWrap
<1> QED BY <1>2, <1>3, NullAssumption
---------------------------------------------------------------------------
(* The table. *)

\* The row an upsert writes, and where.
LEMMA UpsertEffect ==
    ASSUME NEW B, NEW W, NEW t \in Tables(B, W), nextId \in Nat, NEW a \in Account,
           NEW box, box.dekWrapped \in W \cup {NULL}, NEW n \in Nat,
           Enc(box.key, n) \in B, NEW refresh \in B \cup {NULL},
           UpsertId(t, nextId, Columns(a, box, n, refresh)) \in Id,
           t[nextId] = NULL \/ nextId \notin Id
    PROVE  LET new == Columns(a, box, n, refresh)
               i == UpsertId(t, nextId, new)
               s == Upsert(t, nextId, new)
           IN  /\ s \in Tables(B, W)
               /\ \A j \in Id : j # i => s[j] = t[j]
               /\ t[i] = NULL => i = nextId /\ \A j \in Id : t[j] # NULL => t[j].account # a
               /\ t[i] # NULL => t[i].account = a
               /\ i = nextId => t[i] = NULL
               /\ s[i].access = Enc(box.key, n) /\ s[i].dek = box.dekWrapped
               /\ s[i].account = a
               /\ s[i].refresh = IF t[i] = NULL THEN refresh
                                                ELSE Coalesce(refresh, t[i].refresh)
<1> DEFINE new == Columns(a, box, n, refresh)
           i == UpsertId(t, nextId, new)
           same == FindByAccount(t, new.user, new.provider, new.account)
           r == UpsertRow(t, nextId, new)
           d == r.is_default \/ Defaults(t, new.user, new.provider) = {}
           s == Upsert(t, nextId, new)
           back == IF t[i] = NULL THEN refresh ELSE Coalesce(refresh, t[i].refresh)
<1>1. /\ new.user = "u" /\ new.provider = "p" /\ new.account = a /\ new.alias = NULL
      /\ new.access = Enc(box.key, n) /\ new.refresh = refresh
      /\ new.dek = box.dekWrapped /\ new.expires = NULL /\ new.created = nextId
  BY DEF Columns
<1>2. \/ i = nextId /\ same = {}
      \/ i \in same
  <2>1. CASE same = {}
    BY <2>1 DEF UpsertId
  <2>2. CASE same # {}
    <3>1. i = CHOOSE j \in same : TRUE
      BY <2>2 DEF UpsertId
    <3>2. (CHOOSE j \in same : TRUE) \in same
      BY <2>2
    <3> QED BY <3>1, <3>2
  <2> QED BY <2>1, <2>2
<1>11. same = {j \in Id : t[j] # NULL /\ t[j].account = a}
  BY <1>1 DEF FindByAccount, OfUser, Rows, Tables, EnvRow
<1> HIDE DEF same, i, new
<1>3. /\ t[i] = NULL => i = nextId /\ \A j \in Id : t[j] # NULL => t[j].account # a
      /\ t[i] # NULL => t[i].account = a
      /\ i = nextId => t[i] = NULL
      /\ i \in Id
  <2>1. i \in Id
    BY DEF i, new
  <2> QED BY <1>2, <1>11, <2>1
<1> USE DEF same, i, new
<1>4. /\ r \in EnvRow(B, W) /\ r.access = Enc(box.key, n) /\ r.dek = box.dekWrapped
      /\ r.refresh = back /\ r.account = a
  <2>1. CASE t[i] = NULL
    <3>1. r = Inserted(new)
      BY <2>1 DEF UpsertRow
    <3>2. back = refresh
      BY <2>1
    <3> HIDE DEF new, back, i, r
    <3> QED BY <1>1, <3>1, <3>2 DEF Inserted, EnvRow
  <2>2. CASE t[i] # NULL
    <3>1. t[i] \in EnvRow(B, W) /\ t[i].account = a
      BY <1>3, <2>2 DEF Tables
    <3>2. back = Coalesce(new.refresh, t[i].refresh) /\ back \in B \cup {NULL}
      BY <1>1, <2>2, <3>1 DEF Coalesce, EnvRow
    <3>3. r = Reconnected(t[i], new)
      BY <2>2 DEF UpsertRow
    <3>4. r = [t[i] EXCEPT !.access = new.access, !.refresh = back,
                           !.dek = new.dek, !.expires = new.expires]
      <4> HIDE DEF new, i, r, back
      <4> QED BY <3>1, <3>2, <3>3 DEF Reconnected, EnvRow
    <3> HIDE DEF r, i, new, back
    <3> QED BY <1>1, <3>1, <3>2, <3>4 DEF EnvRow
  <2> QED BY <2>1, <2>2
<1>5. s = [t EXCEPT ![i] = [r EXCEPT !.is_default = d]]
  BY <1>4 DEF Upsert, Tables, EnvRow
<1>6. d \in BOOLEAN
  BY <1>4 DEF EnvRow
<1>7. /\ [r EXCEPT !.is_default = d] \in EnvRow(B, W)
      /\ [r EXCEPT !.is_default = d].access = Enc(box.key, n)
      /\ [r EXCEPT !.is_default = d].dek = box.dekWrapped
      /\ [r EXCEPT !.is_default = d].refresh = back
      /\ [r EXCEPT !.is_default = d].account = a
  <2> HIDE DEF r, d, back
  <2> QED BY <1>4, <1>6 DEF EnvRow
<1>8. /\ s \in Tables(B, W) /\ \A j \in Id : j # i => s[j] = t[j]
      /\ s[i] = [r EXCEPT !.is_default = d]
  <2> HIDE DEF r, d, i, s
  <2> QED BY <1>3, <1>5, <1>7 DEF Tables
<1> HIDE DEF r, d, i, s, back
<1>9. /\ s[i].access = Enc(box.key, n) /\ s[i].dek = box.dekWrapped /\ s[i].refresh = back
      /\ s[i].account = a
  BY <1>7, <1>8
<1> QED BY <1>3, <1>8, <1>9 DEF i, s, back

\* What findByAccount returns.
LEMMA RowOfAccount ==
    ASSUME Types, NEW a \in Account
    PROVE  /\ RowOf(a) \in EnvRow(Blob, Wrapped) \cup {NULL}
           /\ RowOf(a) # NULL => RowOf(a).account = a /\ \E i \in Id : RowOf(a) = conns[i]
<1> DEFINE same == FindByAccount(conns, "u", "p", a)
<1>1. \A i \in same : i \in Id /\ conns[i] \in EnvRow(Blob, Wrapped) /\ conns[i].account = a
  BY DEF Types, Tables, FindByAccount, OfUser, Rows
<1>2. CASE same = {}
  BY <1>2 DEF RowOf
<1>3. CASE same # {}
  <2>1. (CHOOSE i \in same : TRUE) \in same
    BY <1>3
  <2>2. RowOf(a) = conns[CHOOSE i \in same : TRUE]
    BY <1>3 DEF RowOf
  <2> HIDE DEF same
  <2> QED BY <1>1, <2>1, <2>2
<1> QED BY <1>2, <1>3

---------------------------------------------------------------------------
(* The owners of the DEKs. *)

\* No DEK changes hands if what is held later was held before by the same account, or
\* is a DEK drawn since for one row.
LEMMA OwnersStay ==
    ASSUME NEW S, NEW T, NEW d \in Nat, OneOwner(S),
           \A s \in S : Dekked(s) => s.dek.dek \in Nat /\ s.dek.dek <= d,
           \A r \in T : Dekked(r) =>
              \/ \E s \in S : Dekked(s) /\ SameDek(r, s) /\ r.account = s.account
              \/ r.dek.dek \in Nat /\ r.dek.dek > d,
           \A r, s \in T : Dekked(r) /\ Dekked(s) /\ SameDek(r, s) /\ r.dek.dek > d
              => r.account = s.account
    PROVE  OneOwner(T)
<1> SUFFICES ASSUME NEW r \in T, NEW s \in T, Dekked(r), Dekked(s), SameDek(r, s)
             PROVE  r.account = s.account
  BY DEF OneOwner
<1>1. CASE \E x \in S : Dekked(x) /\ SameDek(r, x) /\ r.account = x.account
  <2>1. PICK x \in S : Dekked(x) /\ SameDek(r, x) /\ r.account = x.account
    BY <1>1
  <2>2. CASE \E y \in S : Dekked(y) /\ SameDek(s, y) /\ s.account = y.account
    BY <2>1, <2>2 DEF OneOwner, SameDek
  <2>3. CASE s.dek.dek \in Nat /\ s.dek.dek > d
    BY <2>1, <2>3 DEF SameDek
  <2> QED BY <2>2, <2>3
<1>2. CASE r.dek.dek > d
  BY <1>2
<1> QED BY <1>1, <1>2

\* Every DEK that somebody holds was drawn.
LEMMA HoldersDrawn ==
    ASSUME Types, SavingTrue, ScriptTrue
    PROVE  \A s \in Holders : Dekked(s) => s.dek.dek \in Nat /\ s.dek.dek <= deks
<1>1. \A s : s \in EnvRow(Blob, Wrapped) /\ s.dek # NULL => s.dek \in Wrapped
  BY DEF EnvRow
<1>2. deks \in Nat /\ \A w \in Wrapped : w.dek \in Nat /\ w.dek <= deks
  BY DEF Types, Wrapped
<1>3. \A i \in Id : conns[i] # NULL => conns[i] \in EnvRow(Blob, Wrapped)
  BY DEF Types, Tables
<1>4. \A s \in SavedRow : s # NULL => s \in EnvRow(Blob, Wrapped)
  BY DEF SavedRow, SavingTrue, Reading
<1>5. \A s \in ScriptRows : s # NULL => s \in EnvRow(Blob, Wrapped)
  <2>1. CASE script = NULL
    BY <2>1 DEF ScriptRows
  <2>2. CASE script # NULL /\ script.name = "rotate"
    BY <2>2 DEF ScriptRows, ScriptTrue, RotationTrue
  <2>3. CASE script # NULL /\ script.name = "manual"
    BY <2>3 DEF ScriptRows, ScriptTrue, Reading
  <2>4. CASE script # NULL /\ script.name \notin {"rotate", "manual"}
    BY <2>4 DEF ScriptRows
  <2> QED BY <2>1, <2>2, <2>3, <2>4
<1> QED BY <1>1, <1>2, <1>3, <1>4, <1>5 DEF Holders, Dekked

\* A step that gives rows only DEKs that somebody held for their account, or one DEK
\* that it draws for one account.
LEMMA OwnersKept ==
    ASSUME IInv, NEW a,
           \A j \in Id : Dekked(conns'[j]) =>
              \/ \E s \in Holders : /\ Dekked(s) /\ SameDek(conns'[j], s)
                                    /\ conns'[j].account = s.account
              \/ conns'[j].dek.dek = deks + 1 /\ conns'[j].account = a,
           \A r \in SavedRow' \cup ScriptRows' : Dekked(r) => r \in Holders
    PROVE  OneOwner(Holders)'
<1>1. /\ deks \in Nat /\ OneOwner(Holders)
      /\ \A s \in Holders : Dekked(s) => s.dek.dek \in Nat /\ s.dek.dek <= deks
  BY HoldersDrawn DEF IInv, Types
<1> DEFINE T == {conns'[j] : j \in Id} \cup SavedRow' \cup ScriptRows'
<1>2. \A r \in T : Dekked(r) =>
        \/ \E s \in Holders : Dekked(s) /\ SameDek(r, s) /\ r.account = s.account
        \/ r.dek.dek = deks + 1 /\ r.account = a
  <2> HIDE DEF Holders, SavedRow, ScriptRows
  <2>1. \A r \in Holders : SameDek(r, r)
    BY DEF SameDek
  <2> HIDE DEF Dekked, SameDek
  <2> QED BY <2>1
<1> HIDE DEF Holders, T
<1>3. \A r \in T : Dekked(r) =>
        \/ \E s \in Holders : Dekked(s) /\ SameDek(r, s) /\ r.account = s.account
        \/ r.dek.dek \in Nat /\ r.dek.dek > deks
  BY <1>1, <1>2
<1>4. \A r, s \in T : Dekked(r) /\ Dekked(s) /\ SameDek(r, s) /\ r.dek.dek > deks
         => r.account = s.account
  <2>1. \A r \in T : Dekked(r) /\ r.dek.dek > deks => r.account = a
    BY <1>1, <1>2 DEF SameDek
  <2> QED BY <2>1 DEF SameDek
<1>5. OneOwner(T)
  BY <1>1, <1>3, <1>4, OwnersStay
<1> QED BY <1>5 DEF T, Holders, OneOwner, Dekked, SameDek
---------------------------------------------------------------------------
(* A save, of the server or of set-manual-token. *)

\* It keeps the invariant of the vault, whatever happened since what was read; a row
\* that was not raced had not been overtaken, and the KEK was the one of the vault.
LEMMA SaveKeeps ==
    ASSUME IInv, NEW kek \in {OldKek, NewKek}, NEW what, Reading(what),
           NEW h \in BOOLEAN, SaveWith(kek, what, h),
           UNCHANGED <<envKek, swapDue, held>>, serverKek' = serverKek,
           what.row \in Holders
    PROVE  /\ Types' /\ Unborn' /\ OneRowEach' /\ UnracedWhole' /\ Steady
           /\ \A j \in Id : Dekked(conns'[j]) =>
                \/ \E s \in Holders : /\ Dekked(s) /\ SameDek(conns'[j], s)
                                      /\ conns'[j].account = s.account
                \/ conns'[j].dek.dek = deks + 1 /\ conns'[j].account = what.account
<1> DEFINE row == what.row
           a == what.account
           box == BoxFor(kek, row)
           n == tokens + 1
           refresh == IF h THEN Enc(box.key, n) ELSE NULL
           new == Columns(a, box, n, refresh)
           i == UpsertId(conns, nextId, new)
<1>1. /\ conns \in Tables(Blob, Wrapped) /\ nextId \in 1 .. MaxRows + 1 /\ deks \in Nat
      /\ tokens \in 0 .. MaxTokens /\ MaxTokens \in Nat /\ MaxRows \in Nat /\ nextId \in Nat
      /\ held \in [Id -> SUBSET Key] /\ raced \subseteq Id
      /\ Unborn /\ OneRowEach /\ UnracedWhole
      /\ a \in Account /\ row \in EnvRow(Blob, Wrapped) \cup {NULL}
      /\ row # NULL => row.account = a
  BY ConstantsAssumption DEF IInv, Types, Reading
<1>2. /\ n \in 0 .. MaxTokens /\ i \in Id /\ conns' = Upsert(conns, nextId, new)
      /\ nextId' = (IF i = nextId THEN nextId + 1 ELSE nextId)
      /\ tokens' = n /\ deks' = deks + box.drawn
      /\ raced' = (IF Overtaken(row, conns[i]) \/ kek # VaultKek THEN raced \cup {i} ELSE raced)
  BY <1>1 DEF SaveWith
<1>3. /\ row = NULL => /\ box.key = DekKey(deks + 1) /\ box.drawn = 1
                       /\ box.dekWrapped = Wrap(kek, deks + 1)
      /\ row # NULL => /\ box.key = (IF row.dek = NULL THEN KekKey(kek)
                                                        ELSE DekKey(row.dek.dek))
                       /\ box.dekWrapped = row.dek /\ box.drawn = 0
  BY DEF BoxFor, NewConnection, OpenConnection
<1>4. deks' \in Nat /\ deks <= deks' /\ tokens' \in Nat /\ tokens <= tokens'
  BY <1>1, <1>2, <1>3
<1>5. Key \subseteq Key' /\ Blob \subseteq Blob' /\ Wrapped \subseteq Wrapped'
  BY <1>1, <1>4, Grow
<1>6. conns \in Tables(Blob', Wrapped')
  BY <1>1, <1>5, RowsGrow DEF Tables
<1>7. box.dekWrapped \in Wrapped' \cup {NULL} /\ box.key \in Key'
  <2>1. CASE row = NULL
    <3>1. deks' = deks + 1 /\ deks + 1 \in 1 .. deks'
      BY <1>1, <1>2, <1>3, <2>1
    <3>2. Wrap(kek, deks + 1) \in Wrapped'
      BY <3>1 DEF Wrap, Wrapped
    <3>3. DekKey(deks + 1) \in Key'
      BY <3>1 DEF Key
    <3> HIDE DEF box
    <3> QED BY <1>3, <2>1, <3>2, <3>3
  <2>2. CASE row # NULL
    <3>1. row.dek \in Wrapped \cup {NULL}
      BY <1>1, <2>2 DEF EnvRow
    <3>2. row.dek # NULL => DekKey(row.dek.dek) \in Key
      BY <3>1 DEF Wrapped, Key
    <3>3. KekKey(kek) \in Key
      BY DEF Key
    <3> HIDE DEF box, row
    <3> QED BY <1>3, <1>5, <2>2, <3>1, <3>2, <3>3
  <2> QED BY <2>1, <2>2
<1> HIDE DEF box, row, a
<1>8. Enc(box.key, n) \in Blob' /\ Enc(box.key, n).key = box.key
  <2> HIDE DEF n
  <2>1. n \in 0 .. tokens'
    BY <1>2, <1>4
  <2> HIDE DEF Key
  <2> QED BY <1>7, <2>1 DEF Enc, Blob
<1>9. refresh \in Blob' \cup {NULL} /\ n \in Nat
  BY <1>1, <1>8
<1>10. conns[nextId] = NULL \/ nextId \notin Id
  BY <1>1 DEF Unborn
<1> HIDE DEF n, refresh
<1>11. /\ conns' \in Tables(Blob', Wrapped')
       /\ \A j \in Id : j # i => conns'[j] = conns[j]
       /\ conns[i] = NULL => i = nextId /\ \A j \in Id : conns[j] # NULL => conns[j].account # a
       /\ conns[i] # NULL => conns[i].account = a
       /\ i = nextId => conns[i] = NULL
       /\ conns'[i].access = Enc(box.key, n) /\ conns'[i].dek = box.dekWrapped
       /\ conns'[i].account = a
       /\ conns'[i].refresh = IF conns[i] = NULL THEN refresh
                                                 ELSE Coalesce(refresh, conns[i].refresh)
  <2> HIDE DEF Blob, Wrapped
  <2> QED BY <1>1, <1>2, <1>6, <1>7, <1>8, <1>9, <1>10, UpsertEffect
<1> HIDE DEF i, new
<1>12. nextId' \in 1 .. MaxRows + 1 /\ nextId <= nextId' /\ i \in 1 .. MaxRows /\ i < nextId'
  <2>1. i \in 1 .. MaxRows
    BY <1>2 DEF Id
  <2>2. i <= nextId
    <3>1. CASE conns[i] = NULL
      BY <1>1, <1>11, <3>1
    <3>2. CASE conns[i] # NULL
      BY <1>1, <1>2, <2>1, <3>2 DEF Unborn
    <3> QED BY <3>1, <3>2
  <2> QED BY <1>1, <1>2, <2>1, <2>2
<1>13. held' = held /\ VaultKek' = VaultKek /\ envKek' = envKek /\ swapDue' = swapDue
  BY DEF VaultKek
<1>14. raced \subseteq raced' /\ raced' \subseteq Id
  BY <1>1, <1>2
<1>15. Types'
  <2>1. held' \in [Id -> SUBSET Key']
    <3> HIDE DEF Key
    <3> QED BY <1>1, <1>5, <1>13
  <2>2. tokens' \in 0 .. MaxTokens
    BY <1>2
  <2>3. /\ envKek' \in {OldKek, NewKek} /\ serverKek' \in {OldKek, NewKek, NULL}
        /\ swapDue' \in BOOLEAN
    BY <1>13 DEF IInv, Types
  <2> QED BY <1>4, <1>11, <1>12, <1>14, <2>1, <2>2, <2>3 DEF Types
<1>16. Unborn'
  <2>1. ASSUME NEW j \in Id, j >= nextId'
        PROVE  conns'[j] = NULL /\ held'[j] = {}
    <3>1. j # i /\ j >= nextId
      BY <1>1, <1>12, <2>1 DEF Id
    <3> QED BY <1>1, <1>11, <1>13, <3>1 DEF Unborn
  <2> QED BY <2>1 DEF Unborn
<1>17. OneRowEach'
  BY <1>1, <1>11 DEF OneRowEach
<1>18. Steady
  <2>1. ASSUME NEW j \in Id, conns'[j] # NULL
        PROVE  \/ conns[j] = NULL /\ j >= nextId
               \/ /\ conns[j] # NULL /\ conns'[j].account = conns[j].account
                  /\ j \notin raced' => conns'[j].dek = conns[j].dek
    <3>1. CASE j # i
      BY <1>11, <2>1, <3>1
    <3>2. CASE j = i /\ conns[i] = NULL
      BY <1>1, <1>11, <3>2
    <3>3. CASE j = i /\ conns[i] # NULL
      <4>1. i \notin raced' => row # NULL /\ row.dek = conns[i].dek
        BY <1>2, <3>3 DEF Overtaken
      <4> QED BY <1>3, <1>11, <3>3, <4>1
    <3> QED BY <3>1, <3>2, <3>3
  <2> QED BY <1>4, <1>12, <1>13, <1>14, <2>1 DEF Steady
<1>19. ASSUME i \notin raced'
       PROVE  Whole(conns'[i], VaultKek, held[i])
  <2>1. i \notin raced /\ ~ Overtaken(row, conns[i]) /\ kek = VaultKek
    BY <1>2, <1>19
  <2>2. CASE conns[i] = NULL
    <3>1. row = NULL /\ held[i] = {}
      BY <1>1, <1>2, <1>11, <2>1, <2>2 DEF Overtaken, Unborn
    <3>2. Wrap(kek, deks + 1) \in Wrapped'
      <4>1. deks + 1 \in 1 .. deks'
        BY <1>1, <1>2, <1>3, <3>1
      <4> QED BY <4>1 DEF Wrap, Wrapped
    <3>3. conns'[i].dek # NULL
      <4>1. Wrapped' \subseteq AnyWrap
        BY <1>4 DEF Wrapped, AnyWrap
      <4> QED BY <1>3, <1>11, <3>1, <3>2, <4>1, NullAssumption
    <3>4. conns'[i].dek.kek = kek /\ conns'[i].dek.dek = deks + 1
      BY <1>3, <1>11, <3>1 DEF Wrap
    <3>5. RowKey(conns'[i]) = box.key
      BY <1>3, <3>1, <3>3, <3>4 DEF RowKey
    <3>6. conns'[i].refresh # NULL => conns'[i].refresh.key = box.key
      BY <1>8, <1>11, <2>2 DEF refresh
    <3> QED BY <1>8, <1>11, <2>1, <3>1, <3>3, <3>4, <3>5, <3>6 DEF Whole
  <2>3. CASE conns[i] # NULL
    <3>1. /\ row # NULL /\ row.dek = conns[i].dek
          /\ Whole(conns[i], VaultKek, held[i])
      BY <1>1, <1>2, <2>1, <2>3 DEF Overtaken, UnracedWhole
    <3>2. conns'[i].dek = conns[i].dek
      BY <1>3, <1>11, <3>1
    <3>3. RowKey(conns'[i]) = RowKey(conns[i]) /\ box.key = RowKey(conns[i])
      BY <1>3, <2>1, <3>1, <3>2 DEF RowKey, Whole
    <3>4. conns'[i].refresh # NULL => conns'[i].refresh.key = box.key
      BY <1>8, <1>11, <2>3, <3>1, <3>3 DEF refresh, Coalesce, Whole
    <3> QED BY <1>8, <1>11, <3>1, <3>2, <3>3, <3>4 DEF Whole
  <2> QED BY <2>2, <2>3
<1>20. UnracedWhole'
  <2>1. ASSUME NEW j \in Id, conns'[j] # NULL, j \notin raced'
        PROVE  Whole(conns'[j], VaultKek, held[j])
    <3>1. CASE j = i
      BY <1>19, <2>1, <3>1
    <3>2. CASE j # i
      BY <1>1, <1>11, <1>14, <2>1, <3>2 DEF UnracedWhole
    <3> QED BY <3>1, <3>2
  <2> QED BY <1>13, <2>1 DEF UnracedWhole, Whole, RowKey
<1>21. ASSUME NEW j \in Id, Dekked(conns'[j])
       PROVE  \/ \E s \in Holders : /\ Dekked(s) /\ SameDek(conns'[j], s)
                                    /\ conns'[j].account = s.account
              \/ conns'[j].dek.dek = deks + 1 /\ conns'[j].account = a
  <2>1. CASE j # i
    <3>1. conns[j] \in Holders /\ conns'[j] = conns[j]
      BY <1>11, <2>1 DEF Holders
    <3> QED BY <1>21, <3>1 DEF SameDek
  <2>2. CASE j = i /\ row = NULL
    BY <1>3, <1>11, <2>2 DEF Wrap
  <2>3. CASE j = i /\ row # NULL
    <3>1. conns'[i].dek = row.dek /\ row.account = conns'[i].account /\ row \in Holders
      BY <1>1, <1>3, <1>11, <2>3 DEF row
    <3> QED BY <1>21, <2>3, <3>1 DEF SameDek, Dekked
  <2> QED BY <2>1, <2>2, <2>3
<1> QED BY <1>15, <1>16, <1>17, <1>18, <1>20, <1>21 DEF a

---------------------------------------------------------------------------
(* The other writes. *)

\* A refresh writes with a box that a request holds: on a row that is not raced, the
\* one of the row.
LEMMA FinishRefreshKeeps ==
    ASSUME IInv, NEW i \in Id, FinishRefresh(i)
    PROVE  /\ Types' /\ Unborn' /\ OneRowEach' /\ UnracedWhole' /\ Steady
           /\ \A j \in Id : conns'[j] # NULL =>
                /\ conns[j] # NULL /\ conns'[j].dek = conns[j].dek
                /\ conns'[j].account = conns[j].account
<1> DEFINE n == tokens + 1
<1>1. /\ conns \in Tables(Blob, Wrapped) /\ nextId \in 1 .. MaxRows + 1 /\ deks \in Nat
      /\ tokens \in Nat /\ n \in Nat /\ n \in 0 .. MaxTokens
      /\ envKek \in {OldKek, NewKek} /\ serverKek \in {OldKek, NewKek, NULL}
      /\ held \in [Id -> SUBSET Key] /\ swapDue \in BOOLEAN /\ raced \subseteq Id
      /\ Unborn /\ OneRowEach /\ UnracedWhole
  BY ConstantsAssumption DEF IInv, Types, FinishRefresh
<1>2. PICK key \in held[i] :
        /\ \E refresh \in {NULL, Enc(key, n)} :
             conns' = UpdateTokens(conns, i, [access |-> Enc(key, n), refresh |-> refresh,
                                              dek |-> NULL, expires |-> NULL])
        /\ held' \in {held, [held EXCEPT ![i] = @ \ {key}]}
  BY DEF FinishRefresh
<1>3. PICK refresh \in {NULL, Enc(key, n)} :
        conns' = UpdateTokens(conns, i, [access |-> Enc(key, n), refresh |-> refresh,
                                         dek |-> NULL, expires |-> NULL])
  BY <1>2
<1>4. /\ tokens' = n /\ UNCHANGED <<nextId, deks, envKek, swapDue, serverKek, raced>>
      /\ VaultKek' = VaultKek
  BY DEF FinishRefresh, kekVars, VaultKek
<1>5. Key \subseteq Key' /\ Blob \subseteq Blob' /\ Wrapped \subseteq Wrapped'
  BY <1>1, <1>4, Grow
<1>6. conns \in Tables(Blob', Wrapped')
  BY <1>1, <1>5, RowsGrow DEF Tables
<1>7. /\ Enc(key, n) \in Blob' /\ Enc(key, n).key = key
  <2>1. key \in Key'
    <3> HIDE DEF Key
    <3> QED BY <1>1, <1>5
  <2>2. n \in 0 .. tokens'
    BY <1>1, <1>4
  <2> HIDE DEF Key, n
  <2> QED BY <2>1, <2>2 DEF Enc, Blob
<1> HIDE DEF n
<1>8. /\ conns' \in Tables(Blob', Wrapped')
      /\ \A j \in Id : j # i => conns'[j] = conns[j]
      /\ conns[i] = NULL => conns'[i] = NULL
      /\ conns[i] # NULL =>
           /\ conns'[i].dek = conns[i].dek /\ conns'[i].account = conns[i].account
           /\ conns'[i].access = Enc(key, n)
           /\ conns'[i].refresh = Coalesce(refresh, conns[i].refresh)
  <2>1. CASE conns[i] = NULL
    BY <1>3, <1>6, <2>1 DEF UpdateTokens
  <2>2. CASE conns[i] # NULL
    <3> DEFINE back == Coalesce(refresh, conns[i].refresh)
               dek == Coalesce(NULL, conns[i].dek)
               r == [conns[i] EXCEPT !.access = Enc(key, n), !.refresh = back,
                                     !.dek = dek, !.expires = NULL]
    <3>1. conns[i] \in EnvRow(Blob', Wrapped')
      <4> HIDE DEF Blob, Wrapped
      <4> QED BY <1>6, <2>2 DEF Tables
    <3>2. back \in Blob' \cup {NULL} /\ dek = conns[i].dek
      <4> HIDE DEF Blob, Wrapped
      <4> QED BY <1>3, <1>7, <3>1 DEF Coalesce, EnvRow
    <3>3. conns' = [conns EXCEPT ![i] = r]
      <4> HIDE DEF Blob, Wrapped
      <4> QED BY <1>3, <1>6, <2>2, <3>1 DEF UpdateTokens, Tables, EnvRow
    <3> HIDE DEF back, dek
    <3>4. /\ r \in EnvRow(Blob', Wrapped') /\ r.access = Enc(key, n) /\ r.refresh = back
          /\ r.dek = conns[i].dek /\ r.account = conns[i].account
      <4> HIDE DEF Blob, Wrapped
      <4> QED BY <1>7, <3>1, <3>2 DEF EnvRow
    <3> HIDE DEF r, Blob, Wrapped
    <3>5. /\ conns' \in Tables(Blob', Wrapped') /\ conns'[i] = r
          /\ \A j \in Id : j # i => conns'[j] = conns[j]
      BY <1>6, <3>3, <3>4 DEF Tables
    <3> QED BY <2>2, <3>4, <3>5 DEF back
  <2> QED BY <2>1, <2>2
<1>9. \A j \in Id : held'[j] \subseteq held[j]
  BY <1>1, <1>2
<1>10. held' \in [Id -> SUBSET Key']
  <2> HIDE DEF Key
  <2> QED BY <1>1, <1>2, <1>5
<1>11. Types'
  BY <1>1, <1>4, <1>8, <1>10 DEF Types
<1>12. \A j \in Id : conns'[j] # NULL =>
         /\ conns[j] # NULL /\ conns'[j].dek = conns[j].dek
         /\ conns'[j].account = conns[j].account
  BY <1>8
<1>13. Unborn' /\ OneRowEach'
  BY <1>1, <1>4, <1>9, <1>12 DEF Unborn, OneRowEach
<1>14. Steady
  <2>1. /\ deks <= deks' /\ tokens <= tokens' /\ nextId <= nextId' /\ raced \subseteq raced'
        /\ VaultKek' = VaultKek
    BY <1>1, <1>4 DEF n
  <2> QED BY <1>12, <2>1 DEF Steady
<1>15. UnracedWhole'
  <2>1. ASSUME NEW j \in Id, conns'[j] # NULL, j \notin raced
        PROVE  Whole(conns'[j], VaultKek, held'[j])
    <3>1. conns[j] # NULL /\ Whole(conns[j], VaultKek, held[j])
      BY <1>1, <1>12, <2>1 DEF UnracedWhole
    <3>2. CASE j # i
      BY <1>8, <1>9, <3>1, <3>2 DEF Whole
    <3>3. CASE j = i
      <4>1. key = RowKey(conns[i]) /\ RowKey(conns'[i]) = RowKey(conns[i])
        BY <1>8, <3>1, <3>3 DEF Whole, RowKey
      <4>2. conns'[i].refresh # NULL => conns'[i].refresh.key = key
        BY <1>3, <1>7, <1>8, <3>1, <3>3, <4>1 DEF Coalesce, Whole
      <4> QED BY <1>7, <1>8, <1>9, <3>1, <3>3, <4>1, <4>2 DEF Whole
    <3> QED BY <3>2, <3>3
  <2> QED BY <1>4, <2>1 DEF UnracedWhole, Whole, RowKey
<1> QED BY <1>11, <1>12, <1>13, <1>14, <1>15

\* The migration gives every row it read a DEK of its own, both columns under it.
LEMMA MigrateKeeps ==
    ASSUME IInv, MigrateWrite
    PROVE  /\ Types' /\ Unborn' /\ OneRowEach' /\ UnracedWhole'
           /\ deks <= deks' /\ tokens' = tokens /\ nextId' = nextId
           /\ raced \subseteq raced' /\ VaultKek' = VaultKek
           /\ \A j \in Id : conns'[j] # NULL =>
                \/ conns'[j] = conns[j]
                \/ conns'[j].dek.dek = deks + j
           /\ \A j \in Rows(conns) : ReadAsIs(j) => SameTokens(conns[j], conns'[j])
<1> DEFINE read == DOMAIN script.read
           dek(j) == deks + j
           key(j) == DekKey(dek(j))
           old(j) == script.read[j]
           access(j) == Enc(key(j), old(j).access.token)
           refresh(j) == IF old(j).refresh = NULL THEN NULL
                                                  ELSE Enc(key(j), old(j).refresh.token)
<1>1. /\ conns \in Tables(Blob, Wrapped) /\ nextId \in 1 .. MaxRows + 1 /\ deks \in Nat
      /\ tokens \in 0 .. MaxTokens /\ MaxTokens \in Nat /\ MaxRows \in Nat
      /\ envKek \in {OldKek, NewKek} /\ serverKek \in {OldKek, NewKek, NULL}
      /\ held \in [Id -> SUBSET Key] /\ swapDue \in BOOLEAN /\ raced \subseteq Id
      /\ Unborn /\ OneRowEach /\ UnracedWhole
  BY ConstantsAssumption DEF IInv, Types
<1>2. /\ read \subseteq Id
      /\ \A j \in read : /\ script.read[j] \in EnvRow(Blob, Wrapped)
                         /\ j \notin raced => VaultKek = OldKek
  BY DEF MigrateWrite, Running, IInv, ScriptTrue, MigrationTrue
<1>3. /\ read \subseteq Rows(conns)
      /\ conns' = [j \in Id |-> IF j \in read THEN Migrated(j) ELSE conns[j]]
      /\ raced' = raced \cup {j \in read : held[j] # {}}
      /\ deks' = deks + MaxRows
      /\ UNCHANGED <<nextId, tokens, envKek, swapDue, serverKek, held>>
      /\ VaultKek' = VaultKek
  BY DEF MigrateWrite, kekVars, serverVars, VaultKek
<1>4. deks' \in Nat /\ deks <= deks' /\ tokens' \in Nat /\ tokens <= tokens' /\ tokens \in Nat
  BY <1>1, <1>3
<1>5. Key \subseteq Key' /\ Blob \subseteq Blob' /\ Wrapped \subseteq Wrapped'
  BY <1>1, <1>4, Grow
<1>6. conns \in Tables(Blob', Wrapped')
  BY <1>1, <1>5, RowsGrow DEF Tables
<1>7. ASSUME NEW j \in read
      PROVE  /\ j \in Id /\ conns[j] # NULL /\ conns[j] \in EnvRow(Blob', Wrapped')
             /\ old(j) \in EnvRow(Blob, Wrapped)
             /\ dek(j) \in 1 .. deks' /\ dek(j) > deks /\ key(j) \in Key'
             /\ Wrap(envKek, dek(j)) \in Wrapped' /\ Wrap(envKek, dek(j)) # NULL
             /\ access(j) \in Blob' /\ refresh(j) \in Blob' \cup {NULL}
  <2>1. j \in Id /\ conns[j] # NULL /\ old(j) \in EnvRow(Blob, Wrapped)
    BY <1>2, <1>3 DEF Rows
  <2>2. dek(j) \in 1 .. deks' /\ dek(j) > deks
    BY <1>1, <1>3, <2>1 DEF Id
  <2>3. key(j) \in Key'
    <3> HIDE DEF dek
    <3> QED BY <2>2 DEF Key
  <2>4. Wrap(envKek, dek(j)) \in Wrapped' /\ Wrapped' \subseteq AnyWrap
    <3> HIDE DEF dek
    <3> QED BY <1>1, <1>4, <2>2 DEF Wrap, Wrapped, AnyWrap
  <2>5. access(j) \in Blob' /\ refresh(j) \in Blob' \cup {NULL}
    <3>1. /\ old(j).access.token \in 0 .. tokens
          /\ old(j).refresh # NULL => old(j).refresh.token \in 0 .. tokens
      BY <2>1 DEF EnvRow, Blob
    <3>2. \A t \in 0 .. tokens : Enc(key(j), t) \in Blob'
      <4> HIDE DEF key, Key
      <4> QED BY <1>3, <2>3 DEF Enc, Blob
    <3> HIDE DEF key, old
    <3> QED BY <3>1, <3>2
  <2>6. conns[j] \in EnvRow(Blob', Wrapped')
    <3> HIDE DEF Blob, Wrapped
    <3> QED BY <1>6, <2>1 DEF Tables
  <2> QED BY <2>1, <2>2, <2>3, <2>4, <2>5, <2>6, NullAssumption
<1>8. ASSUME NEW j \in read
      PROVE  /\ conns'[j] \in EnvRow(Blob', Wrapped')
             /\ conns'[j].access = access(j) /\ conns'[j].refresh = refresh(j)
             /\ conns'[j].dek = Wrap(envKek, dek(j))
             /\ conns'[j].account = conns[j].account
  <2>1. conns'[j] = [conns[j] EXCEPT !.access = access(j), !.refresh = refresh(j),
                                     !.dek = Wrap(envKek, dek(j))]
    BY <1>2, <1>3 DEF Migrated
  <2> DEFINE w == Wrap(envKek, dek(j))
  <2>2. /\ conns[j] \in EnvRow(Blob', Wrapped') /\ access(j) \in Blob'
        /\ refresh(j) \in Blob' \cup {NULL} /\ w \in Wrapped' \cup {NULL}
    BY <1>7
  <2>3. conns'[j] = [conns[j] EXCEPT !.access = access(j), !.refresh = refresh(j), !.dek = w]
    BY <2>1
  <2> HIDE DEF access, refresh, w, Blob, Wrapped
  <2>4. /\ conns'[j] \in EnvRow(Blob', Wrapped')
        /\ conns'[j].access = access(j) /\ conns'[j].refresh = refresh(j)
        /\ conns'[j].dek = w /\ conns'[j].account = conns[j].account
    BY <2>2, <2>3 DEF EnvRow
  <2> QED BY <2>4 DEF w
<1>9. \A j \in Id : j \notin read => conns'[j] = conns[j]
  BY <1>3
<1> HIDE DEF read
<1>10. conns' \in Tables(Blob', Wrapped')
  <2>1. ASSUME NEW j \in Id
        PROVE  conns'[j] \in EnvRow(Blob', Wrapped') \cup {NULL}
    <3> HIDE DEF Blob, Wrapped
    <3>1. CASE j \in read
      BY <1>8, <3>1
    <3>2. CASE j \notin read
      BY <1>6, <1>9, <3>2 DEF Tables
    <3> QED BY <3>1, <3>2
  <2> HIDE DEF Blob, Wrapped
  <2> QED BY <1>3, <2>1 DEF Tables
<1>11. Types'
  <2>1. held' \in [Id -> SUBSET Key'] /\ raced' \subseteq Id
    <3> HIDE DEF Key
    <3> QED BY <1>1, <1>2, <1>3, <1>5
  <2> QED BY <1>1, <1>3, <1>4, <1>10, <2>1 DEF Types
<1>12. \A j \in Id : conns'[j] # NULL => conns[j] # NULL /\ conns'[j].account = conns[j].account
  BY <1>7, <1>8, <1>9
<1>13. Unborn' /\ OneRowEach'
  <2>1. \A j \in Id : conns[j] = NULL => conns'[j] = NULL
    BY <1>7, <1>9
  <2> QED BY <1>1, <1>3, <1>12, <2>1 DEF Unborn, OneRowEach
<1>14. ASSUME NEW j \in read
       PROVE  /\ access(j).key = key(j) /\ access(j).token = old(j).access.token
              /\ refresh(j) # NULL => /\ refresh(j).key = key(j)
                                      /\ refresh(j).token = old(j).refresh.token
              /\ old(j).refresh = NULL => refresh(j) = NULL
              /\ access(j) # NULL /\ old(j).access # NULL
              /\ old(j).refresh # NULL => refresh(j) # NULL
  <2>1. \A k, t : Enc(k, t).key = k /\ Enc(k, t).token = t
    BY DEF Enc
  <2>2. NULL \notin Blob /\ NULL \notin Blob'
    <3>1. Blob \subseteq AnyBlob /\ Blob' \subseteq AnyBlob
      <4>1. Key \subseteq AnyKey /\ Key' \subseteq AnyKey
        BY <1>1, <1>4 DEF Key, AnyKey, KekKey, DekKey, OldKek, NewKek
      <4> HIDE DEF Key
      <4> QED BY <1>4, <4>1 DEF Blob, AnyBlob
    <3> QED BY <3>1, NullAssumption
  <2>3. access(j) # NULL /\ old(j).access # NULL
    <3> HIDE DEF access, old, Blob
    <3> QED BY <1>7, <2>2 DEF EnvRow
  <2>4. old(j).refresh # NULL => Enc(key(j), old(j).refresh.token) \in Blob'
    <3>1. old(j).refresh # NULL => old(j).refresh.token \in 0 .. tokens
      BY <1>7 DEF EnvRow, Blob
    <3>2. \A t \in 0 .. tokens : Enc(key(j), t) \in Blob'
      <4>1. key(j) \in Key'
        BY <1>7
      <4> HIDE DEF key, Key
      <4> QED BY <1>3, <4>1 DEF Enc, Blob
    <3> QED BY <3>1, <3>2
  <2>5. old(j).refresh # NULL => refresh(j) # NULL
    BY <2>2, <2>4
  <2> QED BY <2>1, <2>3, <2>5
<1> HIDE DEF access, refresh, old
<1>15. ASSUME NEW j \in read
       PROVE  RowKey(conns'[j]) = key(j) /\ conns'[j].dek # NULL
              /\ conns'[j].dek.kek = envKek /\ conns'[j].dek.dek = deks + j
  <2>1. conns'[j].dek = Wrap(envKek, dek(j)) /\ Wrap(envKek, dek(j)) # NULL
    BY <1>7, <1>8
  <2>2. Wrap(envKek, dek(j)).kek = envKek /\ Wrap(envKek, dek(j)).dek = deks + j
    BY DEF Wrap
  <2>3. key(j) = DekKey(deks + j)
    OBVIOUS
  <2> HIDE DEF key, dek
  <2> QED BY <2>1, <2>2, <2>3 DEF RowKey
<1> HIDE DEF key
<1>16. UnracedWhole'
  <2>1. ASSUME NEW j \in Id, conns'[j] # NULL, j \notin raced'
        PROVE  Whole(conns'[j], VaultKek, held[j])
    <3>1. j \notin raced
      BY <1>3, <2>1
    <3>2. CASE j \in read
      <4>1. held[j] = {} /\ VaultKek = OldKek
        BY <1>2, <1>3, <2>1, <3>1, <3>2 DEF read
      <4>2. envKek = VaultKek
        BY <4>1 DEF VaultKek, OldKek, NewKek
      <4> QED BY <1>8, <1>14, <1>15, <3>2, <4>1, <4>2 DEF Whole
    <3>3. CASE j \notin read
      BY <1>1, <1>9, <2>1, <3>1, <3>3 DEF UnracedWhole
    <3> QED BY <3>2, <3>3
  <2> QED BY <1>3, <2>1 DEF UnracedWhole, Whole, RowKey
<1>17. \A j \in Id : conns'[j] # NULL => conns'[j] = conns[j] \/ conns'[j].dek.dek = deks + j
  BY <1>9, <1>15
<1>18. ASSUME NEW j \in Rows(conns), ReadAsIs(j)
       PROVE  SameTokens(conns[j], conns'[j])
  <2>0. j \in Id
    BY <1>1 DEF Rows, Tables
  <2>1. CASE j \in read
    <3>1. old(j) = conns[j]
      BY <1>18, <2>1 DEF ReadAsIs, read, old
    <3> QED BY <1>8, <1>14, <2>1, <3>1 DEF SameTokens, Plain
  <2>2. CASE j \notin read
    BY <1>9, <2>0, <2>2 DEF SameTokens
  <2> QED BY <2>1, <2>2
<1> QED BY <1>3, <1>4, <1>11, <1>13, <1>16, <1>17, <1>18


\* The rotation re-wraps the DEKs it read; the rows that it did not see are raced.
LEMMA RotateKeeps ==
    ASSUME IInv, RotateWrite
    PROVE  /\ Types' /\ Unborn' /\ OneRowEach' /\ UnracedWhole'
           /\ deks' = deks /\ \A j \in Id : Dekked(conns'[j]) =>
                \E s \in Holders : /\ Dekked(s) /\ SameDek(conns'[j], s)
                                   /\ conns'[j].account = s.account
           /\ \A j \in Rows(conns) : SameTokens(conns[j], conns'[j])
<1> DEFINE read == DOMAIN script.read
           old(j) == script.read[j]
           w(j) == Wrap(NewKek, old(j).dek.dek)
<1>1. /\ conns \in Tables(Blob, Wrapped) /\ nextId \in 1 .. MaxRows + 1 /\ deks \in Nat
      /\ tokens \in 0 .. MaxTokens /\ MaxTokens \in Nat /\ MaxRows \in Nat
      /\ envKek \in {OldKek, NewKek} /\ serverKek \in {OldKek, NewKek, NULL}
      /\ held \in [Id -> SUBSET Key] /\ raced \subseteq Id
      /\ Unborn /\ OneRowEach /\ UnracedWhole
  BY ConstantsAssumption DEF IInv, Types
<1>2. script # NULL /\ script.name = "rotate" /\ RotationTrue
  BY DEF RotateWrite, Running, IInv, ScriptTrue
<1>3. /\ conns' = [j \in Id |-> IF j \in read /\ conns[j] # NULL
                                THEN [conns[j] EXCEPT !.dek = w(j)] ELSE conns[j]]
      /\ swapDue' = TRUE /\ raced' = raced \cup {j \in Rows(conns) : j >= script.from}
      /\ UNCHANGED <<nextId, deks, tokens, envKek, serverKek, held>>
      /\ VaultKek' = NewKek
  BY DEF RotateWrite, serverVars, VaultKek
<1>4. /\ \A j : j \in read => j \in Id
      /\ \A j \in read : old(j) \in EnvRow(Blob, Wrapped) /\ Dekked(old(j))
      /\ \A j \in read : conns[j] # NULL => /\ conns[j].account = old(j).account
                                            /\ j \notin raced => conns[j].dek = old(j).dek
      /\ \A j \in Id : conns[j] # NULL /\ j < script.from => j \in read
      /\ script.from \in Nat
  BY <1>2 DEF RotationTrue, Dekked
<1>5. Blob' = Blob /\ Wrapped' = Wrapped /\ Key' = Key
  BY <1>3 DEF Blob, Wrapped, Key
<1>6. ASSUME NEW j \in read
      PROVE  w(j) \in Wrapped /\ w(j) # NULL /\ w(j).kek = NewKek
             /\ w(j).dek = old(j).dek.dek
  <2>1. old(j).dek \in Wrapped
    BY <1>4 DEF EnvRow, Dekked
  <2>2. w(j) \in Wrapped
    BY <2>1 DEF Wrap, Wrapped
  <2>3. Wrapped \subseteq AnyWrap
    BY <1>1 DEF Wrapped, AnyWrap
  <2>4. w(j) # NULL
    BY <2>2, <2>3, NullAssumption
  <2> QED BY <2>2, <2>4 DEF Wrap
<1>7. ASSUME NEW j \in Id, conns[j] # NULL
      PROVE  /\ conns[j] \in EnvRow(Blob, Wrapped) /\ conns'[j] \in EnvRow(Blob, Wrapped)
             /\ conns'[j].account = conns[j].account /\ conns'[j].access = conns[j].access
             /\ conns'[j].refresh = conns[j].refresh
             /\ conns'[j].dek = IF j \in read THEN w(j) ELSE conns[j].dek
  <2> HIDE DEF Blob, Wrapped
  <2>1. conns[j] \in EnvRow(Blob, Wrapped)
    BY <1>1, <1>7 DEF Tables
  <2>2. CASE j \in read
    <3>1. conns'[j] = [conns[j] EXCEPT !.dek = w(j)] /\ w(j) \in Wrapped
      BY <1>3, <1>6, <1>7, <2>2
    <3> HIDE DEF w
    <3> QED BY <2>1, <2>2, <3>1 DEF EnvRow
  <2>3. CASE j \notin read
    BY <1>3, <1>7, <2>1, <2>3
  <2> QED BY <2>1, <2>2, <2>3
<1>8. \A j \in Id : conns[j] = NULL => conns'[j] = NULL
  BY <1>3
<1> HIDE DEF w, read, old
<1>9. conns' \in Tables(Blob, Wrapped)
  <2> HIDE DEF Blob, Wrapped, Id
  <2>1. \A j \in Id : conns'[j] \in EnvRow(Blob, Wrapped) \cup {NULL}
    BY <1>7, <1>8
  <2> QED BY <1>3, <2>1 DEF Tables
<1>10. Types'
  <2>1. raced' \subseteq Id
    BY <1>1, <1>3 DEF Rows, Tables
  <2> QED BY <1>1, <1>3, <1>5, <1>9, <2>1 DEF Types
<1>11. Unborn' /\ OneRowEach'
  BY <1>1, <1>3, <1>7, <1>8 DEF Unborn, OneRowEach
<1>12. UnracedWhole'
  <2>1. ASSUME NEW j \in Id, conns'[j] # NULL, j \notin raced'
        PROVE  Whole(conns'[j], NewKek, held[j])
    <3>1. conns[j] # NULL /\ j \notin raced
      BY <1>3, <1>8, <2>1
    <3>2. j \in read
      <4>1. j \in Rows(conns)
        BY <1>1, <3>1 DEF Rows, Tables
      <4>2. ~ (j >= script.from)
        BY <1>3, <2>1, <4>1
      <4> QED BY <1>4, <3>1, <4>2 DEF Id, read
    <3>3. Whole(conns[j], VaultKek, held[j])
      BY <1>1, <3>1 DEF UnracedWhole
    <3>4. /\ conns'[j].dek = w(j) /\ w(j) # NULL /\ w(j).kek = NewKek
          /\ w(j).dek = conns[j].dek.dek /\ conns[j].dek # NULL
      BY <1>4, <1>6, <1>7, <3>1, <3>2 DEF Dekked
    <3>5. RowKey(conns'[j]) = RowKey(conns[j])
      BY <3>4 DEF RowKey
    <3> QED BY <1>7, <3>1, <3>3, <3>4, <3>5 DEF Whole
  <2> QED BY <1>3, <2>1 DEF UnracedWhole, Whole, RowKey
<1>13. ASSUME NEW j \in Id, Dekked(conns'[j])
       PROVE  \E s \in Holders : /\ Dekked(s) /\ SameDek(conns'[j], s)
                                 /\ conns'[j].account = s.account
  <2>1. conns[j] # NULL
    BY <1>8, <1>13 DEF Dekked
  <2>2. CASE j \in read
    <3>1. old(j) \in Holders
      BY <1>2, <2>2 DEF Holders, ScriptRows, old, read
    <3>2. Dekked(old(j))
      BY <1>4, <2>2
    <3>3. SameDek(conns'[j], old(j)) /\ conns'[j].account = old(j).account
      BY <1>4, <1>6, <1>7, <2>1, <2>2 DEF SameDek
    <3> QED BY <3>1, <3>2, <3>3
  <2>3. CASE j \notin read
    <3>1. conns[j] \in Holders
      BY DEF Holders
    <3>2. conns'[j] = conns[j]
      BY <1>3, <2>3 DEF read
    <3> QED BY <1>13, <3>1, <3>2 DEF SameDek
  <2> QED BY <2>2, <2>3
<1>14. \A j \in Rows(conns) : SameTokens(conns[j], conns'[j])
  BY <1>1, <1>7 DEF Rows, Tables, SameTokens
<1> QED BY <1>3, <1>10, <1>11, <1>12, <1>13, <1>14

---------------------------------------------------------------------------
(* Steps that leave the table as it is, and what was read before a step. *)

\* A request reads a row that it opens, and the server may forget what it holds.
LEMMA TableStays ==
    ASSUME IInv, UNCHANGED <<conns, nextId, deks, tokens, raced>>, VaultKek' = VaultKek,
           envKek' \in {OldKek, NewKek}, serverKek' \in {OldKek, NewKek, NULL},
           swapDue' \in BOOLEAN, held' \in [Id -> SUBSET Key],
           \A j \in Id : \A k \in held'[j] :
              k \in held[j] \/ (conns[j] # NULL /\ (j \notin raced => k = RowKey(conns[j])))
    PROVE  Types' /\ Unborn' /\ OneRowEach' /\ UnracedWhole' /\ Steady
<1>1. Types /\ Unborn /\ OneRowEach /\ UnracedWhole
  BY DEF IInv
<1>2. Key' = Key /\ Blob' = Blob /\ Wrapped' = Wrapped
  BY DEF Key, Blob, Wrapped
<1>3. Types'
  <2> HIDE DEF Key, Blob, Wrapped
  <2> QED BY <1>1, <1>2 DEF Types, Tables, EnvRow
<1>4. Unborn'
  <2>1. ASSUME NEW j \in Id, j >= nextId PROVE conns[j] = NULL /\ held'[j] = {}
    BY <1>1, <2>1 DEF Unborn
  <2> QED BY <2>1 DEF Unborn
<1>5. OneRowEach'
  BY <1>1 DEF OneRowEach
<1>6. UnracedWhole'
  <2>1. ASSUME NEW j \in Id, conns[j] # NULL, j \notin raced
        PROVE  Whole(conns[j], VaultKek, held'[j])
    <3>1. Whole(conns[j], VaultKek, held[j])
      BY <1>1, <2>1 DEF UnracedWhole
    <3> QED BY <2>1, <3>1 DEF Whole
  <2> QED BY <2>1 DEF UnracedWhole, Whole, RowKey
<1>7. Steady
  BY <1>1 DEF Steady, Types
<1> QED BY <1>3, <1>4, <1>5, <1>6, <1>7

\* What was read stays a reading, with more DEKs and tokens about.
LEMMA ReadingStays ==
    ASSUME Types, Types', deks <= deks', tokens <= tokens', NEW what, Reading(what)
    PROVE  /\ what.account \in Account /\ what.row \in EnvRow(Blob', Wrapped') \cup {NULL}
           /\ what.row # NULL => what.row.account = what.account
<1>1. Blob \subseteq Blob' /\ Wrapped \subseteq Wrapped'
  BY Grow DEF Types
<1> HIDE DEF Blob, Wrapped
<1> QED BY <1>1, RowsGrow DEF Reading

LEMMA SavingStays ==
    ASSUME IInv, Types', deks <= deks', tokens <= tokens', saving' = saving,
           serverKek' = serverKek
    PROVE  SavingTrue'
<1>1. CASE saving = NULL
  BY <1>1 DEF SavingTrue
<1>2. CASE saving # NULL
  <2>1. Reading(saving) /\ serverKek # NULL
    BY <1>2 DEF IInv, SavingTrue
  <2>2. /\ saving.account \in Account /\ saving.row \in EnvRow(Blob', Wrapped') \cup {NULL}
        /\ saving.row # NULL => saving.row.account = saving.account
    BY <2>1, ReadingStays DEF IInv
  <2> HIDE DEF Blob, Wrapped
  <2> QED BY <2>1, <2>2 DEF SavingTrue, Reading, EnvRow
<1> QED BY <1>1, <1>2

\* So does what the script at work has read, if no other script writes.
LEMMA ScriptStays ==
    ASSUME IInv, Types', Steady, script' = script
    PROVE  ScriptTrue'
<1>1. CASE script = NULL
  BY <1>1 DEF ScriptTrue
<1>2. CASE script # NULL
  <2>1. /\ Types /\ deks <= deks' /\ tokens <= tokens' /\ nextId <= nextId'
        /\ \A j : j \notin raced' => j \notin raced
        /\ VaultKek' = VaultKek /\ nextId \in Nat /\ nextId' \in Nat
    BY ConstantsAssumption DEF IInv, Steady, Types
  <2>2. \A r : r \in EnvRow(Blob, Wrapped) => r \in EnvRow(Blob', Wrapped')
    <3>1. Blob \subseteq Blob' /\ Wrapped \subseteq Wrapped'
      BY <2>1, Grow DEF Types
    <3> HIDE DEF Blob, Wrapped
    <3> QED BY <3>1, RowsGrow
  <2>3. /\ script.name \in {"migrate", "rotate", "manual"}
        /\ script.name = "migrate" => MigrationTrue
        /\ script.name = "rotate" => RotationTrue
        /\ script.name = "manual" => Reading(script.read)
    BY <1>2 DEF IInv, ScriptTrue
  <2> HIDE DEF Blob, Wrapped
  <2>4. script.name = "migrate" => MigrationTrue'
    BY <2>1, <2>2, <2>3 DEF MigrationTrue, EnvRow
  <2>5. ASSUME script.name = "rotate"
        PROVE  RotationTrue'
    <3>1. /\ DOMAIN script.read \subseteq Id
          /\ script.from \in Nat /\ script.from <= nextId
          /\ \A i \in DOMAIN script.read :
                /\ i < script.from /\ Dekked(script.read[i])
                /\ script.read[i] \in EnvRow(Blob, Wrapped)
                /\ conns[i] # NULL => /\ conns[i].account = script.read[i].account
                                      /\ i \notin raced => conns[i].dek = script.read[i].dek
          /\ \A i \in Id : conns[i] # NULL /\ i < script.from => i \in DOMAIN script.read
      BY <2>3, <2>5 DEF RotationTrue
    <3>2. script.from <= nextId'
      BY <2>1, <3>1
    <3>3. ASSUME NEW i \in Id, conns'[i] # NULL, i < script.from
          PROVE  /\ conns[i] # NULL /\ conns'[i].account = conns[i].account
                 /\ i \notin raced' => conns'[i].dek = conns[i].dek
      <4>1. ~ (i >= nextId)
        BY <2>1, <3>1, <3>3 DEF Id
      <4> QED BY <3>3, <4>1 DEF Steady
    <3>4. ASSUME NEW i \in DOMAIN script.read, conns'[i] # NULL
          PROVE  /\ conns'[i].account = script.read[i].account
                 /\ i \notin raced' => conns'[i].dek = script.read[i].dek
      BY <2>1, <3>1, <3>3, <3>4
    <3>5. \A i \in DOMAIN script.read : script.read[i] \in EnvRow(Blob, Wrapped)'
      BY <2>2, <3>1 DEF EnvRow
    <3> QED BY <3>1, <3>2, <3>3, <3>4, <3>5 DEF RotationTrue, Dekked
  <2>6. ASSUME script.name = "manual"
        PROVE  Reading(script.read)'
    <3>1. Reading(script.read)
      BY <2>3, <2>6
    <3>2. /\ script.read.account \in Account
          /\ script.read.row \in EnvRow(Blob', Wrapped') \cup {NULL}
          /\ script.read.row # NULL => script.read.row.account = script.read.account
      BY <2>1, <3>1, ReadingStays
    <3> QED BY <3>2 DEF Reading, EnvRow
  <2> QED BY <2>3, <2>4, <2>5, <2>6 DEF ScriptTrue
<1> QED BY <1>1, <1>2

---------------------------------------------------------------------------
(* The invariant. *)

\* A step that leaves the script and the save at work as they are.
LEMMA OrdinaryStep ==
    ASSUME IInv, Types', Unborn', OneRowEach', UnracedWhole', Steady,
           UNCHANGED <<serverKek, saving, script>>,
           \A j \in Id : conns'[j] # NULL =>
              conns[j] # NULL /\ conns'[j].dek = conns[j].dek
                              /\ conns'[j].account = conns[j].account
    PROVE  IInv'
<1>1. SavingTrue' /\ ScriptTrue'
  BY SavingStays, ScriptStays DEF Steady
<1>2. ASSUME NEW j \in Id, Dekked(conns'[j])
      PROVE  \E s \in Holders : /\ Dekked(s) /\ SameDek(conns'[j], s)
                                /\ conns'[j].account = s.account
  <2>1. conns[j] \in Holders
    BY DEF Holders
  <2> QED BY <1>2, <2>1 DEF Dekked, SameDek
<1>3. SavedRow' \cup ScriptRows' \subseteq Holders
  BY DEF SavedRow, ScriptRows, Holders
<1>4. OneOwner(Holders)'
  <2> HIDE DEF Holders
  <2> QED BY <1>2, <1>3, OwnersKept
<1> QED BY <1>1, <1>4 DEF IInv

\* A step that changes no row and may only read some.
LEMMA ReadingStep ==
    ASSUME IInv, Types', Unborn', OneRowEach', UnracedWhole', SavingTrue', ScriptTrue',
           conns' = conns,
           \A r \in SavedRow' \cup ScriptRows' : Dekked(r) => r \in Holders
    PROVE  IInv'
<1>1. ASSUME NEW j \in Id, Dekked(conns'[j])
      PROVE  \E s \in Holders : /\ Dekked(s) /\ SameDek(conns'[j], s)
                                /\ conns'[j].account = s.account
  <2>1. conns[j] \in Holders
    BY DEF Holders
  <2> QED BY <1>1, <2>1 DEF SameDek
<1>2. OneOwner(Holders)'
  <2> HIDE DEF Holders
  <2> QED BY <1>1, OwnersKept
<1> QED BY <1>2 DEF IInv

\* findByAccount returns a row that somebody holds.
LEMMA RowOfHeld ==
    ASSUME IInv, NEW a \in Account
    PROVE  Dekked(RowOf(a)) => RowOf(a) \in Holders
  BY RowOfAccount DEF IInv, Holders, Dekked

LEMMA ConnectReadKeeps ==
    ASSUME IInv, NEW a \in Account, ConnectRead(a)
    PROVE  IInv'
<1>1. /\ serverKek # NULL
      /\ UNCHANGED <<conns, nextId, deks, tokens, envKek, swapDue, serverKek, held, script,
                     raced>>
      /\ saving' = [account |-> a, row |-> RowOf(a)] /\ VaultKek' = VaultKek
  BY DEF ConnectRead, Idle, Up, kekVars, VaultKek
<1>2. Types' /\ Unborn' /\ OneRowEach' /\ UnracedWhole' /\ Steady
  <2>1. /\ envKek' \in {OldKek, NewKek} /\ serverKek' \in {OldKek, NewKek, NULL}
        /\ swapDue' \in BOOLEAN /\ held' \in [Id -> SUBSET Key] /\ held' = held
    BY <1>1 DEF IInv, Types
  <2> HIDE DEF Key
  <2> QED BY <1>1, <2>1, TableStays
<1>3. SavingTrue'
  <2>1. /\ RowOf(a) \in EnvRow(Blob, Wrapped) \cup {NULL}
        /\ RowOf(a) # NULL => RowOf(a).account = a
    BY RowOfAccount DEF IInv
  <2>2. Blob' = Blob /\ Wrapped' = Wrapped
    BY <1>1 DEF Blob, Wrapped, Key
  <2> HIDE DEF Blob, Wrapped
  <2> QED BY <1>1, <2>1, <2>2 DEF SavingTrue, Reading, EnvRow
<1>4. ScriptTrue'
  BY <1>1, <1>2, ScriptStays
<1>5. \A r \in SavedRow' \cup ScriptRows' : Dekked(r) => r \in Holders
  <2>1. ScriptRows' \subseteq Holders
    BY <1>1 DEF ScriptRows, Holders
  <2>2. \A r \in SavedRow' : r = RowOf(a)
    BY <1>1 DEF SavedRow
  <2> HIDE DEF Holders
  <2> QED BY <2>1, <2>2, RowOfHeld
<1> QED BY <1>1, <1>2, <1>3, <1>4, <1>5, ReadingStep

LEMMA ConnectWriteKeeps ==
    ASSUME IInv, ConnectWrite
    PROVE  IInv'
<1>1. PICK h \in BOOLEAN : SaveWith(serverKek, saving, h)
  BY DEF ConnectWrite
<1>2. /\ saving # NULL /\ saving' = NULL
      /\ UNCHANGED <<envKek, swapDue, serverKek, held, script>>
  BY DEF ConnectWrite, kekVars
<1>3. Reading(saving) /\ serverKek \in {OldKek, NewKek} /\ saving.row \in Holders
  BY <1>2 DEF IInv, SavingTrue, Types, Holders, SavedRow
<1>4. /\ Types' /\ Unborn' /\ OneRowEach' /\ UnracedWhole' /\ Steady
      /\ \A j \in Id : Dekked(conns'[j]) =>
           \/ \E s \in Holders : /\ Dekked(s) /\ SameDek(conns'[j], s)
                                 /\ conns'[j].account = s.account
           \/ conns'[j].dek.dek = deks + 1 /\ conns'[j].account = saving.account
  <2> HIDE DEF Holders
  <2> QED BY <1>1, <1>2, <1>3, SaveKeeps
<1>5. SavingTrue' /\ ScriptTrue'
  BY <1>2, <1>4, ScriptStays DEF SavingTrue
<1>6. SavedRow' \cup ScriptRows' \subseteq Holders
  BY <1>2 DEF SavedRow, ScriptRows, Holders
<1>7. OneOwner(Holders)'
  <2> HIDE DEF Holders
  <2> QED BY <1>4, <1>6, OwnersKept
<1> QED BY <1>4, <1>5, <1>7 DEF IInv

LEMMA StartRefreshKeeps ==
    ASSUME IInv, NEW i \in Id, StartRefresh(i)
    PROVE  IInv'
<1> DEFINE key == OpenConnection(serverKek, conns[i]).key
<1>1. /\ UNCHANGED <<conns, nextId, deks, tokens, envKek, swapDue, serverKek, saving, script,
                     raced>>
      /\ serverKek # NULL /\ conns[i] # NULL /\ conns[i].refresh # NULL
      /\ conns[i].refresh.key = key /\ held' = [held EXCEPT ![i] = @ \cup {key}]
      /\ VaultKek' = VaultKek
  BY DEF StartRefresh, Idle, Up, kekVars, Decrypts, VaultKek
<1>2. /\ conns \in Tables(Blob, Wrapped) /\ held \in [Id -> SUBSET Key] /\ UnracedWhole
      /\ envKek \in {OldKek, NewKek} /\ serverKek \in {OldKek, NewKek, NULL}
      /\ swapDue \in BOOLEAN
  BY DEF IInv, Types
<1>3. key \in Key
  <2>1. conns[i].dek \in Wrapped \cup {NULL}
    BY <1>1, <1>2 DEF Tables, EnvRow
  <2> QED BY <1>1, <1>2, <2>1 DEF OpenConnection, Wrapped, Key
<1>4. i \notin raced => key = RowKey(conns[i])
  BY <1>1, <1>2 DEF UnracedWhole, Whole
<1> HIDE DEF key
<1>5. /\ held' \in [Id -> SUBSET Key']
      /\ \A j \in Id : \A k \in held'[j] :
           k \in held[j] \/ (conns[j] # NULL /\ (j \notin raced => k = RowKey(conns[j])))
  <2>1. Key' = Key
    BY <1>1 DEF Key
  <2> HIDE DEF Key
  <2>2. held' \in [Id -> SUBSET Key']
    BY <1>1, <1>2, <1>3, <2>1
  <2>3. ASSUME NEW j \in Id, NEW k \in held'[j], k \notin held[j]
        PROVE  j = i /\ k = key
    <3>1. held'[j] = IF j = i THEN held[j] \cup {key} ELSE held[j]
      BY <1>1, <1>2
    <3> QED BY <2>3, <3>1
  <2>4. \A j \in Id : \A k \in held'[j] :
          k \in held[j] \/ (conns[j] # NULL /\ (j \notin raced => k = RowKey(conns[j])))
    BY <1>1, <1>4, <2>3
  <2> QED BY <2>2, <2>4
<1>6. held' \in [Id -> SUBSET Key]
  <2>1. Key' = Key
    BY <1>1 DEF Key
  <2> HIDE DEF Key
  <2> QED BY <1>5, <2>1
<1>7. Types' /\ Unborn' /\ OneRowEach' /\ UnracedWhole' /\ Steady
  <2> HIDE DEF Key
  <2> QED BY <1>1, <1>2, <1>5, <1>6, TableStays
<1> QED BY <1>1, <1>7, OrdinaryStep

LEMMA DeleteKeeps ==
    ASSUME IInv, NEW i \in Id, Delete(i)
    PROVE  IInv'
<1>1. /\ conns' = [conns EXCEPT ![i] = NULL] /\ conns \in Tables(Blob, Wrapped)
      /\ UNCHANGED <<nextId, deks, tokens, envKek, swapDue, serverKek, held, saving, script,
                     raced>>
      /\ VaultKek' = VaultKek
  BY DEF Delete, Remove, kekVars, serverVars, VaultKek, IInv, Types
<1>2. Key' = Key /\ Blob' = Blob /\ Wrapped' = Wrapped
  BY <1>1 DEF Key, Blob, Wrapped
<1> HIDE DEF Key, Blob, Wrapped
<1>3. \A j \in Id : conns'[j] # NULL => conns[j] # NULL /\ conns'[j] = conns[j]
  BY <1>1 DEF Tables
<1>4. conns' \in Tables(Blob', Wrapped')
  BY <1>1, <1>2 DEF Tables
<1>5. Types' /\ Steady
  BY <1>1, <1>2, <1>3, <1>4 DEF IInv, Types, Steady
<1>6. Unborn' /\ OneRowEach' /\ UnracedWhole'
  BY <1>1, <1>3 DEF IInv, Unborn, OneRowEach, UnracedWhole, Whole, RowKey
<1> QED BY <1>1, <1>3, <1>5, <1>6, OrdinaryStep

LEMMA StopKeeps ==
    ASSUME IInv, Stop
    PROVE  IInv'
<1>1. /\ UNCHANGED <<conns, nextId, deks, tokens, envKek, swapDue, script, raced>>
      /\ serverKek' = NULL /\ held' = [j \in Id |-> {}] /\ saving' = NULL
      /\ VaultKek' = VaultKek
  BY DEF Stop, kekVars, VaultKek
<1>2. Types' /\ Unborn' /\ OneRowEach' /\ UnracedWhole' /\ Steady
  <2>1. /\ envKek' \in {OldKek, NewKek} /\ serverKek' \in {OldKek, NewKek, NULL}
        /\ swapDue' \in BOOLEAN /\ held' \in [Id -> SUBSET Key]
    BY <1>1 DEF IInv, Types
  <2> HIDE DEF Key
  <2> QED BY <1>1, <2>1, TableStays
<1>3. SavingTrue' /\ ScriptTrue'
  BY <1>1, <1>2, ScriptStays DEF SavingTrue
<1>4. SavedRow' \cup ScriptRows' \subseteq Holders
  BY <1>1 DEF SavedRow, ScriptRows, Holders
<1> HIDE DEF Holders
<1> QED BY <1>1, <1>2, <1>3, <1>4, ReadingStep

LEMMA StartKeeps ==
    ASSUME IInv, Start
    PROVE  IInv'
<1>1. /\ UNCHANGED <<conns, nextId, deks, tokens, envKek, swapDue, held, saving, script, raced>>
      /\ serverKek = NULL /\ serverKek' = envKek /\ VaultKek' = VaultKek
  BY DEF Start, Up, kekVars, VaultKek
<1>2. Types' /\ Unborn' /\ OneRowEach' /\ UnracedWhole' /\ Steady
  <2>1. /\ envKek' \in {OldKek, NewKek} /\ serverKek' \in {OldKek, NewKek, NULL}
        /\ swapDue' \in BOOLEAN /\ held' \in [Id -> SUBSET Key] /\ held' = held
    BY <1>1 DEF IInv, Types
  <2> HIDE DEF Key
  <2> QED BY <1>1, <2>1, TableStays
<1>3. SavingTrue' /\ ScriptTrue'
  BY <1>1, <1>2, ScriptStays DEF SavingTrue, IInv
<1>4. SavedRow' \cup ScriptRows' \subseteq Holders
  BY <1>1 DEF SavedRow, ScriptRows, Holders
<1> HIDE DEF Holders
<1> QED BY <1>1, <1>2, <1>3, <1>4, ReadingStep

\* A script that starts leaves the vault and the server as they are.
LEMMA LaunchKeeps ==
    ASSUME IInv, NEW name, NEW what, Launch(name, what), ScriptTrue',
           \A r \in ScriptRows' : Dekked(r) => r \in Holders
    PROVE  IInv'
<1>1. /\ UNCHANGED <<conns, nextId, deks, tokens, envKek, swapDue, serverKek, held, saving,
                     raced>>
      /\ VaultKek' = VaultKek
  BY DEF Launch, kekVars, serverVars, VaultKek
<1>2. Types' /\ Unborn' /\ OneRowEach' /\ UnracedWhole' /\ Steady
  <2>1. /\ envKek' \in {OldKek, NewKek} /\ serverKek' \in {OldKek, NewKek, NULL}
        /\ swapDue' \in BOOLEAN /\ held' \in [Id -> SUBSET Key] /\ held' = held
    BY <1>1 DEF IInv, Types
  <2> HIDE DEF Key
  <2> QED BY <1>1, <2>1, TableStays
<1>3. SavingTrue'
  BY <1>1, <1>2, SavingStays DEF Steady
<1>4. SavedRow' \subseteq Holders
  BY <1>1 DEF SavedRow, Holders
<1> HIDE DEF Holders
<1> QED BY <1>1, <1>2, <1>3, <1>4, ReadingStep

LEMMA ScriptReadKeeps ==
    ASSUME IInv, MigrateRead \/ RotateRead \/ \E a \in Account : ManualRead(a)
    PROVE  IInv'
<1>1. ASSUME NEW name, NEW what, Launch(name, what)
      PROVE  /\ script' = [name |-> name, read |-> what, from |-> nextId]
             /\ UNCHANGED <<conns, nextId, deks, tokens, envKek, swapDue, raced>>
             /\ VaultKek' = VaultKek /\ Blob' = Blob /\ Wrapped' = Wrapped
             /\ script' # NULL => script'.name = name /\ script'.read = what
                                                      /\ script'.from = nextId
  BY <1>1 DEF Launch, kekVars, VaultKek, Blob, Wrapped, Key
<1>2. /\ \A i \in Rows(conns) : i \in Id /\ conns[i] # NULL /\ conns[i] \in Holders
                               /\ conns[i] \in EnvRow(Blob, Wrapped)
      /\ \A i \in Id : conns[i] # NULL => i \in Rows(conns)
      /\ nextId \in Nat
  <2>1. conns \in Tables(Blob, Wrapped) /\ nextId \in Nat
    BY ConstantsAssumption DEF IInv, Types
  <2> HIDE DEF Blob, Wrapped
  <2> QED BY <2>1 DEF Tables, Rows, Holders
<1> HIDE DEF Blob, Wrapped
<1>3. CASE MigrateRead
  <2> DEFINE what == ReadRows(V1Rows)
  <2>1. Launch("migrate", what)
    BY <1>3 DEF MigrateRead
  <2>2. /\ DOMAIN what \subseteq Rows(conns)
        /\ \A i \in DOMAIN what : what[i] = conns[i] /\ conns[i].dek = NULL
    BY DEF ReadRows, V1Rows
  <2>3. \A i \in DOMAIN what : i \notin raced => VaultKek = OldKek
    BY <1>2, <2>2 DEF IInv, UnracedWhole, Whole
  <2> HIDE DEF what
  <2>4. ScriptTrue'
    BY <1>1, <1>2, <2>1, <2>2, <2>3 DEF ScriptTrue, MigrationTrue, EnvRow
  <2>5. ScriptRows' = {}
    BY <1>1, <2>1 DEF ScriptRows
  <2> QED BY <2>1, <2>4, <2>5, LaunchKeeps
<1>4. CASE RotateRead
  <2> DEFINE what == ReadRows(Rows(conns))
  <2>1. Launch("rotate", what) /\ V1Rows = {}
    BY <1>4 DEF RotateRead
  <2>2. /\ DOMAIN what = Rows(conns)
        /\ \A i \in DOMAIN what : what[i] = conns[i] /\ Dekked(conns[i])
    BY <1>2, <2>1 DEF ReadRows, V1Rows, Dekked
  <2>3. \A i \in Rows(conns) : i < nextId
    BY <1>2 DEF IInv, Unborn, Id
  <2> HIDE DEF what
  <2>4. ScriptTrue'
    <3>1. RotationTrue'
      BY <1>1, <1>2, <2>1, <2>2, <2>3 DEF RotationTrue, EnvRow, Dekked
    <3> QED BY <1>1, <2>1, <3>1 DEF ScriptTrue
  <2>5. ScriptRows' \subseteq Holders
    <3> HIDE DEF Holders
    <3>1. \A i \in DOMAIN what : what[i] \in Holders
      BY <1>2, <2>2
    <3> QED BY <1>1, <2>1, <3>1 DEF ScriptRows
  <2> HIDE DEF Holders
  <2> QED BY <2>1, <2>4, <2>5, LaunchKeeps
<1>5. ASSUME NEW a \in Account, ManualRead(a)
      PROVE  IInv'
  <2> DEFINE what == [account |-> a, row |-> RowOf(a)]
  <2>1. Launch("manual", what)
    BY <1>5 DEF ManualRead
  <2>2. /\ what.account = a /\ what.row = RowOf(a)
        /\ RowOf(a) \in EnvRow(Blob, Wrapped) \cup {NULL}
        /\ RowOf(a) # NULL => RowOf(a).account = a
    BY RowOfAccount DEF IInv
  <2> HIDE DEF what
  <2>3. ScriptTrue'
    <3>1. Reading(script.read)' \/ script' = NULL
      BY <1>1, <2>1, <2>2 DEF Reading, EnvRow
    <3> QED BY <1>1, <2>1, <3>1 DEF ScriptTrue
  <2>4. \A r \in ScriptRows' : r = RowOf(a)
    BY <1>1, <2>1, <2>2 DEF ScriptRows
  <2> HIDE DEF Holders
  <2>5. \A r \in ScriptRows' : Dekked(r) => r \in Holders
    BY <2>4, RowOfHeld
  <2> QED BY <2>1, <2>3, <2>5, LaunchKeeps
<1> QED BY <1>3, <1>4, <1>5

LEMMA ScriptWriteKeeps ==
    ASSUME IInv, MigrateWrite \/ RotateWrite \/ ManualWrite
    PROVE  IInv'
<1>1. CASE MigrateWrite
  <2>1. /\ Types' /\ Unborn' /\ OneRowEach' /\ UnracedWhole'
        /\ deks <= deks' /\ tokens' = tokens
        /\ \A j \in Id : conns'[j] # NULL => conns'[j] = conns[j] \/ conns'[j].dek.dek = deks + j
    BY <1>1, MigrateKeeps
  <2>2. UNCHANGED <<saving, serverKek>> /\ script' = NULL
    BY <1>1 DEF MigrateWrite, serverVars
  <2>3. SavingTrue' /\ ScriptTrue'
    <3>1. tokens <= tokens'
      BY <2>1 DEF IInv, Types
    <3> QED BY <2>1, <2>2, <3>1, SavingStays DEF ScriptTrue
  <2>4. /\ deks \in Nat /\ OneOwner(Holders)
        /\ \A s \in Holders : Dekked(s) => s.dek.dek \in Nat /\ s.dek.dek <= deks
    BY HoldersDrawn DEF IInv, Types
  <2> DEFINE T == {conns'[j] : j \in Id} \cup SavedRow'
  <2>5. \A r \in T : Dekked(r) => \/ r \in Holders
                                  \/ \E j \in Id : r = conns'[j] /\ r.dek.dek = deks + j
    <3>1. SavedRow' \subseteq Holders /\ \A j \in Id : conns[j] \in Holders
      BY <2>2 DEF SavedRow, Holders
    <3> HIDE DEF Holders
    <3>2. ASSUME NEW j \in Id, Dekked(conns'[j])
          PROVE  conns'[j] \in Holders \/ conns'[j].dek.dek = deks + j
      BY <2>1, <3>1, <3>2 DEF Dekked
    <3> QED BY <3>1, <3>2
  <2> HIDE DEF Holders, T
  <2>6. \A r \in T : Dekked(r) =>
          \/ \E s \in Holders : Dekked(s) /\ SameDek(r, s) /\ r.account = s.account
          \/ r.dek.dek \in Nat /\ r.dek.dek > deks
    BY <2>4, <2>5 DEF Id, SameDek
  <2>7. \A r, s \in T : Dekked(r) /\ Dekked(s) /\ SameDek(r, s) /\ r.dek.dek > deks
           => r.account = s.account
    <3> SUFFICES ASSUME NEW r \in T, NEW s \in T, Dekked(r), Dekked(s),
                        r.dek.dek = s.dek.dek, r.dek.dek > deks
                 PROVE  r.account = s.account
      BY DEF SameDek
    <3>1. PICK j \in Id : r = conns'[j] /\ r.dek.dek = deks + j
      BY <2>4, <2>5
    <3>2. PICK k \in Id : s = conns'[k] /\ s.dek.dek = deks + k
      BY <2>4, <2>5
    <3>3. j = k
      BY <2>4, <3>1, <3>2 DEF Id
    <3> QED BY <3>1, <3>2, <3>3
  <2>8. OneOwner(T)
    BY <2>4, <2>6, <2>7, OwnersStay
  <2>9. OneOwner(Holders)'
    <3>1. ScriptRows' = {}
      BY <2>2 DEF ScriptRows
    <3> QED BY <2>8, <3>1 DEF T, Holders, OneOwner, Dekked, SameDek
  <2> QED BY <2>1, <2>3, <2>9 DEF IInv
<1>2. CASE RotateWrite
  <2>1. /\ Types' /\ Unborn' /\ OneRowEach' /\ UnracedWhole'
        /\ deks' = deks
        /\ \A j \in Id : Dekked(conns'[j]) =>
             \E s \in Holders : /\ Dekked(s) /\ SameDek(conns'[j], s)
                                /\ conns'[j].account = s.account
    BY <1>2, RotateKeeps
  <2>2. UNCHANGED <<saving, serverKek, tokens>> /\ script' = NULL
    BY <1>2 DEF RotateWrite, serverVars
  <2>3. SavingTrue' /\ ScriptTrue'
    <3>1. deks <= deks' /\ tokens <= tokens'
      BY <2>1, <2>2 DEF IInv, Types
    <3> QED BY <2>1, <2>2, <3>1, SavingStays DEF ScriptTrue
  <2>4. SavedRow' \cup ScriptRows' \subseteq Holders
    BY <2>2 DEF SavedRow, ScriptRows, Holders
  <2>5. OneOwner(Holders)'
    <3> HIDE DEF Holders
    <3> QED BY <2>1, <2>4, OwnersKept
  <2> QED BY <2>1, <2>3, <2>5 DEF IInv
<1>3. CASE ManualWrite
  <2>1. /\ SaveWith(envKek, script.read, FALSE) /\ script # NULL /\ script.name = "manual"
        /\ UNCHANGED <<envKek, swapDue, serverKek, held, saving>> /\ script' = NULL
    BY <1>3 DEF ManualWrite, Running, kekVars, serverVars
  <2>2. Reading(script.read) /\ envKek \in {OldKek, NewKek} /\ script.read.row \in Holders
    BY <2>1 DEF IInv, ScriptTrue, Types, Holders, ScriptRows
  <2>3. /\ Types' /\ Unborn' /\ OneRowEach' /\ UnracedWhole' /\ Steady
        /\ \A j \in Id : Dekked(conns'[j]) =>
             \/ \E s \in Holders : /\ Dekked(s) /\ SameDek(conns'[j], s)
                                   /\ conns'[j].account = s.account
             \/ conns'[j].dek.dek = deks + 1 /\ conns'[j].account = script.read.account
    <3> HIDE DEF Holders
    <3> QED BY <2>1, <2>2, SaveKeeps
  <2>4. SavingTrue' /\ ScriptTrue'
    BY <2>1, <2>3, SavingStays DEF ScriptTrue, Steady
  <2>5. SavedRow' \cup ScriptRows' \subseteq Holders
    BY <2>1 DEF SavedRow, ScriptRows, Holders
  <2>6. OneOwner(Holders)'
    <3> HIDE DEF Holders
    <3> QED BY <2>3, <2>5, OwnersKept
  <2> QED BY <2>3, <2>4, <2>6 DEF IInv
<1> QED BY <1>1, <1>2, <1>3

\* The operator keeps what he was told to keep.
LEMMA OperatorKeeps ==
    ASSUME IInv, SwapKek \/ Abandon
    PROVE  IInv'
<1>1. /\ UNCHANGED <<conns, nextId, deks, tokens, serverKek, held, saving, raced>>
      /\ script' = NULL /\ VaultKek' = VaultKek
  BY DEF SwapKek, Abandon, kekVars, serverVars, VaultKek
<1>2. Types' /\ Unborn' /\ OneRowEach' /\ UnracedWhole' /\ Steady
  <2>1. /\ envKek' \in {OldKek, NewKek} /\ serverKek' \in {OldKek, NewKek, NULL}
        /\ swapDue' \in BOOLEAN /\ held' \in [Id -> SUBSET Key] /\ held' = held
    BY <1>1 DEF IInv, Types, SwapKek, Abandon, kekVars
  <2> HIDE DEF Key
  <2> QED BY <1>1, <2>1, TableStays
<1>3. SavingTrue' /\ ScriptTrue'
  BY <1>1, <1>2, SavingStays DEF ScriptTrue, Steady
<1>4. SavedRow' \cup ScriptRows' \subseteq Holders
  BY <1>1 DEF SavedRow, ScriptRows, Holders
<1> HIDE DEF Holders
<1> QED BY <1>1, <1>2, <1>3, <1>4, ReadingStep

LEMMA InitIInv == Init => IInv
<1> SUFFICES ASSUME Init
             PROVE  IInv
  OBVIOUS
<1>1. PICK a \in Account, refresh \in {NULL, Enc(KekKey(OldKek), 0)} :
        conns = [i \in Id |-> IF i = 1 THEN Legacy(a, refresh) ELSE NULL]
  BY DEF Init
<1>2. /\ nextId = 2 /\ deks = 0 /\ tokens = 0 /\ envKek = OldKek /\ serverKek = OldKek
      /\ held = [i \in Id |-> {}] /\ saving = NULL /\ script = NULL /\ swapDue = FALSE
      /\ raced = {} /\ VaultKek = OldKek
  BY DEF Init, VaultKek
<1> DEFINE row == Legacy(a, refresh)
<1>3. Enc(KekKey(OldKek), 0) \in Blob /\ Enc(KekKey(OldKek), 0).key = KekKey(OldKek)
  <2>1. KekKey(OldKek) \in Key /\ 0 \in 0 .. tokens
    BY <1>2 DEF Key
  <2> HIDE DEF Key
  <2> QED BY <2>1 DEF Enc, Blob
<1>4. /\ row \in EnvRow(Blob, Wrapped) /\ row.account = a /\ row.dek = NULL
      /\ row.access = Enc(KekKey(OldKek), 0) /\ row.refresh = refresh
  <2> HIDE DEF Blob, Wrapped
  <2> QED BY <1>3 DEF Legacy, Inserted, EnvRow
<1> HIDE DEF row
<1>5. /\ conns \in Tables(Blob, Wrapped)
      /\ \A i \in Id : conns[i] # NULL => i = 1 /\ conns[i] = row
  <2> HIDE DEF Blob, Wrapped
  <2>1. \A i \in Id : conns[i] = IF i = 1 THEN row ELSE NULL
    BY <1>1 DEF row
  <2>2. conns = [i \in Id |-> IF i = 1 THEN row ELSE NULL]
    BY <1>1 DEF row
  <2> QED BY <1>4, <2>1, <2>2 DEF Tables
<1>6. Types
  <2>1. nextId \in 1 .. MaxRows + 1 /\ tokens \in 0 .. MaxTokens
    BY <1>2, ConstantsAssumption
  <2>2. held \in [Id -> SUBSET Key]
    BY <1>2
  <2> QED BY <1>2, <1>5, <2>1, <2>2 DEF Types
<1>7. Unborn /\ OneRowEach
  BY <1>2, <1>5 DEF Unborn, OneRowEach, Id
<1>8. SavingTrue /\ ScriptTrue
  BY <1>2 DEF SavingTrue, ScriptTrue
<1>9. UnracedWhole
  <2>1. RowKey(row) = KekKey(OldKek)
    BY <1>4 DEF RowKey
  <2> QED BY <1>2, <1>3, <1>4, <1>5, <2>1 DEF UnracedWhole, Whole
<1>10. OneOwner(Holders)
  <2>1. \A r \in Holders : ~ Dekked(r)
    BY <1>2, <1>4, <1>5 DEF Holders, SavedRow, ScriptRows, Dekked
  <2> QED BY <2>1 DEF OneOwner
<1> QED BY <1>6, <1>7, <1>8, <1>9, <1>10 DEF IInv

LEMMA NextIInv == IInv /\ [Next]_vars => IInv'
<1> SUFFICES ASSUME IInv, [Next]_vars
             PROVE  IInv'
  OBVIOUS
<1>1. CASE \E a \in Account : ConnectRead(a)
  BY <1>1, ConnectReadKeeps
<1>2. CASE ConnectWrite
  BY <1>2, ConnectWriteKeeps
<1>3. CASE \E i \in Id : StartRefresh(i)
  BY <1>3, StartRefreshKeeps
<1>4. ASSUME NEW i \in Id, FinishRefresh(i)
      PROVE  IInv'
  <2>1. UNCHANGED <<serverKek, saving, script>>
    BY <1>4 DEF FinishRefresh
  <2> QED BY <1>4, <2>1, FinishRefreshKeeps, OrdinaryStep
<1>5. CASE \E i \in Id : Delete(i)
  BY <1>5, DeleteKeeps
<1>6. CASE Stop \/ Start
  BY <1>6, StopKeeps, StartKeeps
<1>7. CASE MigrateRead \/ RotateRead \/ \E a \in Account : ManualRead(a)
  BY <1>7, ScriptReadKeeps
<1>8. CASE MigrateWrite \/ RotateWrite \/ ManualWrite
  BY <1>8, ScriptWriteKeeps
<1>9. CASE SwapKek \/ Abandon
  BY <1>9, OperatorKeeps
<1>10. CASE UNCHANGED vars
  <2>1. UNCHANGED <<conns, nextId, deks, tokens, envKek, swapDue, serverKek, held, saving,
                    script, raced>>
    BY <1>10 DEF vars, kekVars, serverVars
  <2> QED BY <2>1 DEF IInv, Types, Tables, EnvRow, Blob, Wrapped, Key, Unborn, OneRowEach,
                      SavingTrue, ScriptTrue, MigrationTrue, RotationTrue, Reading,
                      UnracedWhole, Whole, RowKey, VaultKek, Holders, SavedRow, ScriptRows,
                      OneOwner, Dekked, SameDek
<1> QED BY <1>1, <1>2, <1>3, <1>4, <1>5, <1>6, <1>7, <1>8, <1>9, <1>10 DEF Next

LEMMA Invariance == Spec => []IInv
<1> QED BY InitIInv, NextIInv, PTL DEF Spec

---------------------------------------------------------------------------
(* The properties of the runs. *)

\* Every reachable state of the vault, the server and the scripts is typed (lib/crypto.js,
\* the store's handlers and the three scripts that open the same database).
THEOREM TypeCorrect == Spec => []TypeOK
<1>1. IInv => TypeOK
  BY DEF IInv, Types, Tables, EnvRow, TypeOK, Rows
<1> QED BY <1>1, Invariance, PTL

\* Beside any script and any server, a row is a mixture of keys only if migrate-envelope
\* rewrote it under a request in flight, or a save wrote it from a reading that the other
\* process had overtaken, or with a KEK that is not the vault's.
THEOREM OnlyRacedRowsAreMixed == Spec => []OnlyRacedRowsMix
<1>1. IInv => OnlyRacedRowsMix
  BY DEF IInv, Types, Tables, Rows, OnlyRacedRowsMix, UnracedWhole, Whole, OneKey, Decrypts
<1> QED BY <1>1, Invariance, PTL

\* No two rows ever share a DEK (newConnection and openConnection of crypto.js,
\* migrate-envelope.js:54, rotate-kek.js:35), whoever writes them across whom.
THEOREM OneDekPerRow == Spec => []DekPerRow
<1>1. ASSUME IInv
      PROVE  DekPerRow
  <2> SUFFICES ASSUME NEW i \in Rows(conns), NEW j \in Rows(conns), conns[i].dek # NULL,
                      conns[j].dek # NULL, conns[i].dek.dek = conns[j].dek.dek
               PROVE  i = j
    BY DEF DekPerRow
  <2>1. i \in Id /\ j \in Id /\ conns[i] # NULL /\ conns[j] # NULL
    BY <1>1 DEF IInv, Types, Tables, Rows
  <2>2. conns[i] \in Holders /\ conns[j] \in Holders
    BY <2>1 DEF Holders
  <2>3. conns[i].account = conns[j].account
    <3> HIDE DEF Holders
    <3> QED BY <1>1, <2>1, <2>2 DEF IInv, OneOwner, Dekked, SameDek
  <2> QED BY <1>1, <2>1, <2>3 DEF IInv, OneRowEach
<1> QED BY <1>1, Invariance, PTL

\* A server that starts with the KEK the operator was told to keep opens every row that
\* was not written across another process (rotate-kek.js:35-56).
THEOREM VaultKekOpensRows == Spec => []VaultKekOpens
<1>1. ASSUME IInv, NEW i \in Rows(conns), i \notin raced
      PROVE  /\ Opens(VaultKek, conns[i])
             /\ Decrypts(OpenConnection(VaultKek, conns[i]).key, conns[i].access)
  <2>1. Whole(conns[i], VaultKek, held[i])
    BY <1>1 DEF IInv, Types, Tables, Rows, UnracedWhole
  <2> QED BY <2>1 DEF Whole, Opens, OpenConnection, Decrypts, RowKey
<1>2. IInv => VaultKekOpens
  BY <1>1 DEF VaultKekOpens
<1> QED BY <1>2, Invariance, PTL

\* A rotation changes no row's tokens, beside whatever the server stored since its SELECT,
\* and a migration those of no row that is still as it read it (migrate-envelope.js:35-85,
\* rotate-kek.js:26-57).
THEOREM ScriptsKeepTokens == Spec => MaintenanceKeepsTokens
<1>1. IInv /\ RotateWrite => \A i \in Rows(conns) : SameTokens(conns[i], conns'[i])
  BY RotateKeeps
<1>2. IInv /\ MigrateWrite => \A i \in Rows(conns) :
                                ReadAsIs(i) => SameTokens(conns[i], conns'[i])
  BY MigrateKeeps
<1>3. IInv /\ [Next]_vars =>
        [/\ RotateWrite => \A i \in Rows(conns) : SameTokens(conns[i], conns'[i])
         /\ MigrateWrite => \A i \in Rows(conns) :
                              ReadAsIs(i) => SameTokens(conns[i], conns'[i])]_vars
  BY <1>1, <1>2
<1> QED BY <1>3, Invariance, PTL DEF Spec, MaintenanceKeepsTokens
=============================================================================
