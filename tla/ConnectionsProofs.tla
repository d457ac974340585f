------------------------- MODULE ConnectionsProofs -------------------------
(***************************************************************************)
(* Proofs about Connections for every set of users, providers, accounts    *)
(* and handlers.  IInv strengthens the invariants of the table with the    *)
(* two facts that make ids trustworthy: no row and no awaiting handler     *)
(* bears an id that ulid() has not drawn yet.                              *)
(***************************************************************************)
EXTENDS Connections, TLAPS

Tables == [Id -> Row \cup {NULL}]

FreshIds == \A i \in Id : i >= nextId => conns[i] = NULL

PendingIdsDrawn == \A h \in Handler : pending[h] # NULL => pending[h].id < nextId

IInv == /\ TypeOK
        /\ FreshIds
        /\ PendingIdsDrawn
        /\ UniqueAccount
        /\ AtMostOneDefault
        /\ PendingTargetsOwnRow

SameAccount(r, s) ==
    r.user = s.user /\ r.provider = s.provider /\ r.account = s.account

---------------------------------------------------------------------------
(* The operators of the repository. *)

\* The id that an upsert writes: the row of that account, else the fresh one.
LEMMA UpsertIdChoice ==
    ASSUME NEW t \in Tables, NEW f \in Id, NEW new \in NewRow
    PROVE  LET i == UpsertId(t, f, new)
           IN  /\ i \in Id
               /\ \/ i = f /\ FindByAccount(t, new.user, new.provider, new.account) = {}
                  \/ i \in FindByAccount(t, new.user, new.provider, new.account)
<1> DEFINE same == FindByAccount(t, new.user, new.provider, new.account)
<1>1. same \subseteq Id
  BY DEF FindByAccount, OfUser, Rows, Tables
<1>2. CASE same = {}
  BY <1>2 DEF UpsertId
<1>3. CASE same # {}
  <2>1. UpsertId(t, f, new) = CHOOSE i \in same : TRUE
    BY <1>3 DEF UpsertId
  <2>2. \E i \in same : TRUE
    BY <1>3
  <2>3. (CHOOSE i \in same : TRUE) \in same
    BY <2>2
  <2> QED BY <1>1, <2>1, <2>3
<1> QED BY <1>2, <1>3

\* An upsert writes one row, of the account it was given; the row becomes
\* default exactly if it was, or if there was no default.
LEMMA UpsertEffect ==
    ASSUME NEW t \in Tables, NEW f \in Id, NEW new \in NewRow, t[f] = NULL
    PROVE  LET i == UpsertId(t, f, new)
               s == Upsert(t, f, new)
           IN  /\ s \in Tables
               /\ \A j \in Id : j # i => s[j] = t[j]
               /\ s[i] # NULL
               /\ SameAccount(s[i], new)
               /\ t[i] # NULL => SameAccount(t[i], new)
               /\ t[i] = NULL => i = f /\ FindByAccount(t, new.user, new.provider, new.account) = {}
               /\ s[i].is_default <=> \/ t[i] # NULL /\ t[i].is_default
                                      \/ Defaults(t, new.user, new.provider) = {}
<1> DEFINE i == UpsertId(t, f, new)
           r == UpsertRow(t, f, new)
           d == r.is_default \/ Defaults(t, new.user, new.provider) = {}
           s == Upsert(t, f, new)
<1>1. /\ i \in Id
      /\ \/ i = f /\ FindByAccount(t, new.user, new.provider, new.account) = {}
         \/ i \in FindByAccount(t, new.user, new.provider, new.account)
  BY UpsertIdChoice
<1>2. t[i] \in Row \cup {NULL}
  BY <1>1 DEF Tables
<1>3. /\ r \in Row
      /\ SameAccount(r, new)
      /\ t[i] # NULL => SameAccount(t[i], new)
      /\ r.is_default <=> t[i] # NULL /\ t[i].is_default
  <2>1. CASE t[i] = NULL
    <3>1. r = Inserted(new)
      BY <2>1 DEF UpsertRow
    <3> QED BY <2>1, <3>1 DEF Inserted, Row, NewRow, SameAccount
  <2>2. CASE t[i] # NULL
    <3>1. i \in FindByAccount(t, new.user, new.provider, new.account)
      BY <1>1, <2>2
    <3>2. SameAccount(t[i], new)
      BY <3>1 DEF FindByAccount, OfUser, SameAccount
    <3>3. r = Reconnected(t[i], new)
      BY <2>2 DEF UpsertRow
    <3>4. t[i] \in Row
      BY <1>2, <2>2
    <3>5. Coalesce(new.refresh, t[i].refresh) \in Token \cup {NULL}
      BY <3>4 DEF Coalesce, Row, NewRow
    <3>6. Reconnected(t[i], new) =
            [t[i] EXCEPT !.access = new.access,
                         !.refresh = Coalesce(new.refresh, t[i].refresh),
                         !.dek = new.dek, !.expires = new.expires]
      BY <3>4 DEF Reconnected, Row
    <3>7. r \in Row
      <4> DEFINE q == Coalesce(new.refresh, t[i].refresh)
      <4>1. /\ new.access \in Token /\ new.dek \in Token /\ new.expires \in Expiry
        BY DEF NewRow
      <4>2. q \in Token \cup {NULL}
        BY <3>5
      <4>3. r = [t[i] EXCEPT !.access = new.access, !.refresh = q,
                             !.dek = new.dek, !.expires = new.expires]
        BY <3>3, <3>6
      <4> HIDE DEF q, r, i
      <4> QED BY <3>4, <4>1, <4>2, <4>3 DEF Row
    <3>8. SameAccount(r, t[i]) /\ r.is_default = t[i].is_default
      BY <3>3, <3>4, <3>6 DEF Row, SameAccount
    <3> QED BY <2>2, <3>2, <3>4, <3>7, <3>8 DEF SameAccount, Row
  <2> QED BY <2>1, <2>2
<1>4. s = [t EXCEPT ![i] = [r EXCEPT !.is_default = d]]
  BY <1>3 DEF Upsert, Row
<1>5. d \in BOOLEAN
  BY <1>3 DEF Row
<1>6. [r EXCEPT !.is_default = d] \in Row
  BY <1>3, <1>5 DEF Row
<1>7. s[i] = [r EXCEPT !.is_default = d]
  BY <1>1, <1>4 DEF Tables
<1>8. s[i] # NULL /\ SameAccount(s[i], new) /\ s[i].is_default = d
  BY <1>3, <1>6, <1>7, NullAssumption DEF Row, SameAccount
<1>9. s \in Tables /\ \A j \in Id : j # i => s[j] = t[j]
  BY <1>1, <1>4, <1>6 DEF Tables
<1>10. t[i] = NULL => i = f /\ FindByAccount(t, new.user, new.provider, new.account) = {}
  BY <1>1 DEF FindByAccount, OfUser, Rows
<1> QED BY <1>3, <1>8, <1>9, <1>10

\* Row j of table s is row j of table t with other data: same account, and
\* default only if it was.
Descends(s, t, j) == s[j] # NULL => /\ t[j] # NULL
                                    /\ SameAccount(s[j], t[j])
                                    /\ s[j].is_default => t[j].is_default

\* The three UPDATEs by id rewrite data columns of one row, or nothing.
LEMMA UpdateEffect ==
    ASSUME NEW t \in Tables, NEW i \in Id, NEW s,
           \/ \E l \in Alias \cup {NULL} : s = UpdateAlias(t, i, l)
           \/ \E url \in Url : s = SetWebhookForwardUrl(t, i, url)
           \/ \E new \in Refreshed : s = UpdateTokens(t, i, new)
    PROVE  /\ s \in Tables
           /\ \A j \in Id : Descends(s, t, j)
           /\ \A j \in Id : t[j] # NULL => s[j] # NULL
           /\ \A j \in Id : j # i => s[j] = t[j]
<1>1. CASE t[i] = NULL
  <2>1. s = t
    BY <1>1 DEF UpdateAlias, SetWebhookForwardUrl, UpdateTokens
  <2> QED BY <2>1 DEF Descends, SameAccount
<1>2. CASE t[i] # NULL
  <2>1. t[i] \in Row
    BY <1>2 DEF Tables
  <2>2. SUFFICES ASSUME NEW r \in Row, s = [t EXCEPT ![i] = r],
                        SameAccount(r, t[i]), r.is_default = t[i].is_default
                 PROVE  /\ s \in Tables
                        /\ \A j \in Id : Descends(s, t, j)
                        /\ \A j \in Id : t[j] # NULL => s[j] # NULL
                        /\ \A j \in Id : j # i => s[j] = t[j]
    <3>1. ASSUME NEW l \in Alias \cup {NULL}, s = UpdateAlias(t, i, l)
          PROVE  \E r \in Row : /\ s = [t EXCEPT ![i] = r]
                                /\ SameAccount(r, t[i]) /\ r.is_default = t[i].is_default
      <4>1. [t[i] EXCEPT !.alias = l] \in Row
        BY <2>1, <3>1 DEF Row
      <4>2. s = [t EXCEPT ![i] = [t[i] EXCEPT !.alias = l]]
        BY <1>2, <2>1, <3>1 DEF UpdateAlias, Tables
      <4> QED BY <2>1, <4>1, <4>2 DEF Row, SameAccount
    <3>2. ASSUME NEW url \in Url, s = SetWebhookForwardUrl(t, i, url)
          PROVE  \E r \in Row : /\ s = [t EXCEPT ![i] = r]
                                /\ SameAccount(r, t[i]) /\ r.is_default = t[i].is_default
      <4>1. [t[i] EXCEPT !.url = url] \in Row
        BY <2>1, <3>2 DEF Row
      <4>2. s = [t EXCEPT ![i] = [t[i] EXCEPT !.url = url]]
        BY <1>2, <2>1, <3>2 DEF SetWebhookForwardUrl, Tables
      <4> QED BY <2>1, <4>1, <4>2 DEF Row, SameAccount
    <3>3. ASSUME NEW new \in Refreshed, s = UpdateTokens(t, i, new)
          PROVE  \E q \in Row : /\ s = [t EXCEPT ![i] = q]
                                /\ SameAccount(q, t[i]) /\ q.is_default = t[i].is_default
      <4> DEFINE q == [t[i] EXCEPT !.access = new.access,
                                   !.refresh = Coalesce(new.refresh, t[i].refresh),
                                   !.dek = Coalesce(new.dek, t[i].dek),
                                   !.expires = new.expires]
      <4>1. /\ Coalesce(new.refresh, t[i].refresh) \in Token \cup {NULL}
            /\ Coalesce(new.dek, t[i].dek) \in Token
            /\ new.access \in Token /\ new.expires \in Expiry
        BY <2>1 DEF Coalesce, Row, Refreshed
      <4>2. q \in Row /\ SameAccount(q, t[i]) /\ q.is_default = t[i].is_default
        BY <2>1, <4>1 DEF Row, SameAccount
      <4>3. s = [t EXCEPT ![i] = q]
        BY <1>2, <2>1, <3>3 DEF UpdateTokens, Tables
      <4> QED BY <4>2, <4>3
    <3> QED BY <3>1, <3>2, <3>3
  <2>3. s \in Tables /\ s[i] = r /\ \A j \in Id : j # i => s[j] = t[j]
    BY <2>2 DEF Tables
  <2>4. r # NULL
    BY <2>2, NullAssumption
  <2> QED BY <1>2, <2>2, <2>3, <2>4 DEF Descends, SameAccount
<1> QED BY <1>1, <1>2

\* Promoting a row clears the flag of the others of its user and provider.
LEMMA MakeDefaultEffect ==
    ASSUME NEW t \in Tables, NEW i \in Id, t[i] # NULL
    PROVE  LET s == MakeDefault(t, i)
           IN  /\ s \in Tables
               /\ \A j \in Id :
                    /\ s[j] = NULL <=> t[j] = NULL
                    /\ s[j] # NULL => SameAccount(s[j], t[j])
                    /\ j \in OfUser(t, t[i].user, t[i].provider)
                         => s[j].is_default = (j = i)
                    /\ j \notin OfUser(t, t[i].user, t[i].provider) => s[j] = t[j]
<1> DEFINE mine == OfUser(t, t[i].user, t[i].provider)
           s == MakeDefault(t, i)
<1>1. DOMAIN t = Id
  BY DEF Tables
<1>2. ASSUME NEW j \in Id, j \notin mine
      PROVE  s[j] = t[j] /\ s[j] \in Row \cup {NULL}
  BY <1>1, <1>2 DEF MakeDefault, Tables
<1>3. ASSUME NEW j \in Id, j \in mine
      PROVE  /\ s[j] \in Row /\ t[j] # NULL
             /\ SameAccount(s[j], t[j])
             /\ s[j].is_default = (j = i)
  <2>1. t[j] \in Row /\ t[j] # NULL
    BY <1>3 DEF OfUser, Rows, Tables
  <2>2. s[j] = [t[j] EXCEPT !.is_default = (j = i)]
    BY <1>1, <1>3 DEF MakeDefault
  <2>3. (j = i) \in BOOLEAN
    OBVIOUS
  <2> QED BY <2>1, <2>2, <2>3 DEF Row, SameAccount
<1>4. s \in Tables
  BY <1>1, <1>2, <1>3 DEF MakeDefault, Tables
<1>5. \A j \in Id : s[j] = NULL <=> t[j] = NULL
  BY <1>2, <1>3, NullAssumption
<1>6. ASSUME NEW j \in Id, s[j] # NULL
      PROVE  SameAccount(s[j], t[j])
  BY <1>2, <1>3 DEF SameAccount
<1> QED BY <1>2, <1>3, <1>4, <1>5, <1>6
---------------------------------------------------------------------------
(* The kinds of step: each preserves the inductive invariant. *)

\* A step after which every row descends from the row of the same id keeps
\* the two invariants of the table and the ownership of awaiting handlers.
LEMMA DescentStep ==
    ASSUME IInv, conns' \in Tables, nextId' = nextId, clock' = clock,
           \A j \in Id : Descends(conns', conns, j),
           pending' \in [Handler -> DeleteOp \cup SetupOp \cup RefreshOp \cup {NULL}],
           \A h \in Handler : pending'[h] # NULL => pending'[h] = pending[h]
    PROVE  IInv'
<1>1. TypeOK'
  BY DEF IInv, TypeOK, Tables
<1>2. FreshIds'
  BY DEF IInv, FreshIds, Descends
<1>3. PendingIdsDrawn'
  BY DEF IInv, PendingIdsDrawn
<1>4. UniqueAccount'
  <2>1. \A j \in Rows(conns') : j \in Id /\ j \in Rows(conns)
    BY DEF Rows, Tables, Descends, IInv, TypeOK
  <2> QED BY <2>1 DEF IInv, UniqueAccount, Rows, Descends, SameAccount
<1>5. AtMostOneDefault'
  <2>1. \A u \in User, p \in Provider :
            \A j \in Defaults(conns', u, p) : j \in Defaults(conns, u, p)
    BY DEF Defaults, OfUser, Rows, Tables, Descends, SameAccount, IInv, TypeOK
  <2> QED BY <2>1 DEF IInv, AtMostOneDefault
<1>6. PendingTargetsOwnRow'
  <2>1. \A h \in Handler : pending[h] # NULL => pending[h].id \in Id
    BY DEF IInv, TypeOK, DeleteOp, SetupOp, RefreshOp
  <2> QED BY <2>1 DEF IInv, PendingTargetsOwnRow, Descends, SameAccount
<1> QED BY <1>1, <1>2, <1>3, <1>4, <1>5, <1>6 DEF IInv

\* Connect and ManualToken: an upsert, under the id just drawn if it inserts.
LEMMA SaveStep ==
    ASSUME IInv, NEW new \in NewRow, Save(new)
    PROVE  IInv'
<1> DEFINE i == UpsertId(conns, nextId, new)
<1>1. conns \in Tables /\ nextId \in Id /\ conns[nextId] = NULL /\ Id \subseteq Nat
  BY DEF IInv, TypeOK, Tables, FreshIds, Save, Id
<1>2. /\ conns' \in Tables
      /\ \A j \in Id : j # i => conns'[j] = conns[j]
      /\ conns'[i] # NULL
      /\ SameAccount(conns'[i], new)
      /\ conns[i] # NULL => SameAccount(conns[i], new)
      /\ conns[i] = NULL =>
            /\ i = nextId
            /\ FindByAccount(conns, new.user, new.provider, new.account) = {}
      /\ conns'[i].is_default <=>
            \/ conns[i] # NULL /\ conns[i].is_default
            \/ Defaults(conns, new.user, new.provider) = {}
  BY <1>1, UpsertEffect DEF Save
<1>3. i \in Id
  BY <1>1, UpsertIdChoice
<1>4. UNCHANGED <<clock, pending>> /\ nextId' = IF i = nextId THEN nextId + 1 ELSE nextId
  BY DEF Save
<1> HIDE DEF i
<1>5. nextId' \in 1 .. MaxRows + 1 /\ nextId <= nextId' /\ (i = nextId => i < nextId')
  BY <1>1, <1>4, ConstantsAssumption DEF Id
<1>6. TypeOK'
  BY <1>2, <1>4, <1>5 DEF IInv, TypeOK, Tables
<1>7. FreshIds'
  <2> SUFFICES ASSUME NEW j \in Id, j >= nextId' PROVE conns'[j] = NULL
    BY DEF FreshIds
  <2>1. j # i
    <3>1. CASE conns[i] = NULL
      BY <1>1, <1>2, <1>3, <1>5, <3>1 DEF Id
    <3>2. CASE conns[i] # NULL
      BY <1>1, <1>5, <3>2 DEF IInv, FreshIds, TypeOK, Id
    <3> QED BY <3>1, <3>2
  <2>2. j >= nextId
    BY <1>1, <1>5 DEF Id
  <2> QED BY <1>2, <2>1, <2>2 DEF IInv, FreshIds
<1>8. PendingIdsDrawn'
  <2>1. \A h \in Handler : pending[h] # NULL => pending[h].id \in Id
    BY DEF IInv, TypeOK, DeleteOp, SetupOp, RefreshOp
  <2> QED BY <1>1, <1>4, <1>5, <2>1 DEF IInv, PendingIdsDrawn, Id
<1>9. UniqueAccount'
  <2> SUFFICES ASSUME NEW j \in Rows(conns'), NEW k \in Rows(conns'),
                      SameAccount(conns'[j], conns'[k])
               PROVE  j = k
    BY DEF UniqueAccount, SameAccount
  <2>1. j \in Id /\ k \in Id /\ conns'[j] # NULL /\ conns'[k] # NULL
    BY <1>2 DEF Rows, Tables
  <2>2. ASSUME NEW m \in Id, m # i, conns'[m] # NULL, SameAccount(conns'[m], new)
        PROVE  FALSE
    <3>1. m \in FindByAccount(conns, new.user, new.provider, new.account)
      BY <1>1, <1>2, <2>2 DEF FindByAccount, OfUser, Rows, Tables, SameAccount
    <3>2. conns[i] # NULL /\ SameAccount(conns[i], conns[m])
      BY <1>2, <2>2, <3>1 DEF SameAccount
    <3>3. i \in Rows(conns) /\ m \in Rows(conns)
      BY <1>1, <1>3, <3>1, <3>2 DEF Rows, FindByAccount, OfUser, Tables
    <3> QED BY <2>2, <3>2, <3>3 DEF IInv, UniqueAccount, SameAccount
  <2>3. CASE j = i
    BY <1>2, <2>1, <2>2, <2>3 DEF SameAccount
  <2>4. CASE k = i
    BY <1>2, <2>1, <2>2, <2>4 DEF SameAccount
  <2>5. CASE j # i /\ k # i
    <3>1. conns'[j] = conns[j] /\ conns'[k] = conns[k]
      BY <1>2, <2>1, <2>5
    <3>2. j \in Rows(conns) /\ k \in Rows(conns)
      BY <1>1, <2>1, <3>1 DEF Rows, Tables
    <3> QED BY <3>1, <3>2 DEF IInv, UniqueAccount, SameAccount
  <2> QED BY <2>3, <2>4, <2>5
<1>10. AtMostOneDefault'
  <2> SUFFICES ASSUME NEW u \in User, NEW p \in Provider,
                      NEW j \in Defaults(conns', u, p), NEW k \in Defaults(conns', u, p)
               PROVE  j = k
    BY DEF AtMostOneDefault
  <2>1. \A m \in Defaults(conns', u, p) : m \in Id /\ (m # i => m \in Defaults(conns, u, p))
    BY <1>1, <1>2 DEF Defaults, OfUser, Rows, Tables
  <2>2. i \in Defaults(conns', u, p) =>
            i \in Defaults(conns, u, p) \/ Defaults(conns, u, p) = {}
    <3> SUFFICES ASSUME i \in Defaults(conns', u, p)
                 PROVE  i \in Defaults(conns, u, p) \/ Defaults(conns, u, p) = {}
      OBVIOUS
    <3>1. new.user = u /\ new.provider = p /\ conns'[i].is_default
      BY <1>2 DEF Defaults, OfUser, SameAccount
    <3>2. CASE conns[i] # NULL /\ conns[i].is_default
      BY <1>1, <1>2, <1>3, <3>1, <3>2 DEF Defaults, OfUser, Rows, Tables, SameAccount
    <3>3. CASE Defaults(conns, new.user, new.provider) = {}
      BY <3>1, <3>3
    <3> QED BY <1>2, <3>1, <3>2, <3>3
  <2> QED BY <2>1, <2>2 DEF IInv, AtMostOneDefault
<1>11. PendingTargetsOwnRow'
  <2> SUFFICES ASSUME NEW h \in Handler, pending[h] # NULL
               PROVE  \/ conns'[pending[h].id] = NULL
                      \/ conns'[pending[h].id].user = pending[h].user
    BY <1>4 DEF PendingTargetsOwnRow
  <2>1. pending[h].id \in Id /\ pending[h].id < nextId
    BY DEF IInv, TypeOK, PendingIdsDrawn, DeleteOp, SetupOp, RefreshOp
  <2>2. CASE pending[h].id # i
    BY <1>2, <2>1, <2>2 DEF IInv, PendingTargetsOwnRow
  <2>3. CASE pending[h].id = i
    <3>1. conns[i] # NULL
      BY <1>1, <1>2, <2>1, <2>3 DEF Id
    <3> QED BY <1>2, <2>3, <3>1 DEF IInv, PendingTargetsOwnRow, SameAccount
  <2> QED BY <2>2, <2>3
<1> QED BY <1>6, <1>7, <1>8, <1>9, <1>10, <1>11 DEF IInv

\* setDefault clears the other rows of the pair, so one default is left.
LEMMA SetDefaultStep ==
    ASSUME IInv, NEW u \in User, NEW i \in Id, SetDefault(u, i)
    PROVE  IInv'
<1> DEFINE mine == OfUser(conns, conns[i].user, conns[i].provider)
<1>1. conns \in Tables /\ conns[i] # NULL /\ conns' = MakeDefault(conns, i)
      /\ UNCHANGED <<nextId, clock, pending>>
  BY DEF IInv, TypeOK, Tables, SetDefault, Owned
<1>2. /\ conns' \in Tables
      /\ \A j \in Id : /\ conns'[j] = NULL <=> conns[j] = NULL
                       /\ conns'[j] # NULL => SameAccount(conns'[j], conns[j])
                       /\ j \in mine => conns'[j].is_default = (j = i)
                       /\ j \notin mine => conns'[j] = conns[j]
  BY <1>1, MakeDefaultEffect
<1>3. Rows(conns') = Rows(conns) /\ Rows(conns) \subseteq Id
  BY <1>1, <1>2 DEF Rows, Tables
<1>4. TypeOK' /\ FreshIds' /\ PendingIdsDrawn'
  BY <1>1, <1>2 DEF IInv, TypeOK, Tables, FreshIds, PendingIdsDrawn
<1>5. UniqueAccount'
  BY <1>2, <1>3 DEF IInv, UniqueAccount, SameAccount, Rows
<1>6. AtMostOneDefault'
  <2> SUFFICES ASSUME NEW v \in User, NEW p \in Provider,
                      NEW j \in Defaults(conns', v, p), NEW k \in Defaults(conns', v, p)
               PROVE  j = k
    BY DEF AtMostOneDefault
  <2>1. /\ {j, k} \subseteq Id
        /\ {j, k} \subseteq OfUser(conns, v, p)
        /\ conns'[j].is_default /\ conns'[k].is_default
    BY <1>2, <1>3 DEF Defaults, OfUser, SameAccount, Rows
  <2>2. CASE conns[i].user = v /\ conns[i].provider = p
    BY <1>2, <2>1, <2>2
  <2>3. CASE ~ (conns[i].user = v /\ conns[i].provider = p)
    <3>1. j \notin mine /\ k \notin mine
      BY <2>1, <2>3 DEF OfUser
    <3>2. {j, k} \subseteq Defaults(conns, v, p)
      BY <1>2, <2>1, <3>1 DEF Defaults
    <3> QED BY <3>2 DEF IInv, AtMostOneDefault
  <2> QED BY <2>2, <2>3
<1>7. PendingTargetsOwnRow'
  <2>1. \A h \in Handler : pending[h] # NULL => pending[h].id \in Id
    BY DEF IInv, TypeOK, DeleteOp, SetupOp, RefreshOp
  <2> QED BY <1>1, <1>2, <2>1 DEF IInv, PendingTargetsOwnRow, SameAccount
<1> QED BY <1>4, <1>5, <1>6, <1>7 DEF IInv

\* A handler starts only on a row that its user owns.
LEMMA StartStep ==
    ASSUME IInv, NEW h \in Handler, NEW op \in DeleteOp \cup SetupOp \cup RefreshOp,
           Owned(conns, op.user, op.id), Start(h, op)
    PROVE  IInv'
<1>1. op.id \in Id /\ op.id < nextId
  BY DEF IInv, TypeOK, FreshIds, Owned, DeleteOp, SetupOp, RefreshOp, Id
<1>2. pending' = [pending EXCEPT ![h] = op] /\ UNCHANGED <<conns, nextId, clock>>
  BY DEF Start
<1>3. TypeOK' /\ FreshIds' /\ UniqueAccount' /\ AtMostOneDefault'
  BY <1>2 DEF IInv, TypeOK, FreshIds, UniqueAccount, AtMostOneDefault
<1>4. PendingIdsDrawn' /\ PendingTargetsOwnRow'
  BY <1>1, <1>2 DEF IInv, TypeOK, PendingIdsDrawn, PendingTargetsOwnRow, Owned
<1> QED BY <1>3, <1>4 DEF IInv
\* A handler that ends descends the table or leaves it alone.
LEMMA FinishUpdateStep ==
    ASSUME IInv, NEW h \in Handler, NEW i \in Id, NEW s, Finish(h, s),
           \/ s = conns
           \/ s = Remove(conns, i)
           \/ \E url \in Url : s = SetWebhookForwardUrl(conns, i, url)
           \/ \E new \in Refreshed : s = UpdateTokens(conns, i, new)
    PROVE  IInv'
<1>1. conns \in Tables /\ conns' = s /\ UNCHANGED <<nextId, clock>>
      /\ pending' = [pending EXCEPT ![h] = NULL]
  BY DEF IInv, TypeOK, Tables, Finish
<1>2. conns' \in Tables /\ \A j \in Id : Descends(conns', conns, j)
  <2>1. CASE s = conns
    BY <1>1, <2>1 DEF Descends, SameAccount
  <2>2. CASE s = Remove(conns, i)
    BY <1>1, <2>2 DEF Remove, Tables, Descends, SameAccount
  <2>3. CASE \/ \E url \in Url : s = SetWebhookForwardUrl(conns, i, url)
             \/ \E new \in Refreshed : s = UpdateTokens(conns, i, new)
    BY <1>1, <2>3, UpdateEffect
  <2> QED BY <2>1, <2>2, <2>3
<1>3. /\ pending' \in [Handler -> DeleteOp \cup SetupOp \cup RefreshOp \cup {NULL}]
      /\ \A k \in Handler : pending'[k] # NULL => pending'[k] = pending[k]
  BY <1>1 DEF IInv, TypeOK
<1> QED BY <1>1, <1>2, <1>3, DescentStep

\* Both ways to write a row are an upsert for their user.
LEMMA ConnectSaves ==
    ASSUME IInv, NEW u \in User, NEW p \in Provider, NEW a \in Account,
           Connect(u, p, a) \/ ManualToken(u, p, a)
    PROVE  \E new \in NewRow : new.user = u /\ Save(new)
<1>1. CASE Connect(u, p, a)
  <2>1. PICK tk \in Token, r \in Token \cup {NULL}, e \in Expiry :
          Save([user |-> u, provider |-> p, account |-> a, alias |-> NULL,
                access |-> tk, refresh |-> r, dek |-> tk, expires |-> e,
                created |-> clock])
    BY <1>1 DEF Connect
  <2>2. [user |-> u, provider |-> p, account |-> a, alias |-> NULL,
         access |-> tk, refresh |-> r, dek |-> tk, expires |-> e,
         created |-> clock] \in NewRow
    BY DEF NewRow, IInv, TypeOK
  <2> QED BY <2>1, <2>2
<1>2. CASE ManualToken(u, p, a)
  <2>1. PICK tk \in Token, l \in Alias \cup {NULL} :
          Save([user |-> u, provider |-> p, account |-> a, alias |-> l,
                access |-> tk, refresh |-> NULL, dek |-> tk, expires |-> NULL,
                created |-> clock])
    BY <1>2 DEF ManualToken
  <2>2. [user |-> u, provider |-> p, account |-> a, alias |-> l,
         access |-> tk, refresh |-> NULL, dek |-> tk, expires |-> NULL,
         created |-> clock] \in NewRow
    BY ConstantsAssumption DEF NewRow, IInv, TypeOK
  <2> QED BY <2>1, <2>2
<1> QED BY <1>1, <1>2

---------------------------------------------------------------------------
(* The invariance theorem. *)

\* The empty database satisfies the invariant.
LEMMA InitIInv == Init => IInv
<1> SUFFICES ASSUME Init PROVE IInv
  OBVIOUS
<1>1. TypeOK
  BY ConstantsAssumption DEF Init, TypeOK, Id
<1>2. Rows(conns) = {}
  BY DEF Init, Rows
<1> QED BY <1>1, <1>2 DEF Init, IInv, FreshIds, PendingIdsDrawn, UniqueAccount,
        AtMostOneDefault, Defaults, OfUser, PendingTargetsOwnRow

\* Every action preserves the invariant.
LEMMA NextIInv == IInv /\ [Next]_vars => IInv'
<1> SUFFICES ASSUME IInv, [Next]_vars PROVE IInv'
  OBVIOUS
<1>1. CASE Tick
  <2>1. clock' \in 0 .. MaxClock /\ UNCHANGED <<conns, nextId, pending>>
    BY <1>1, ConstantsAssumption DEF Tick, IInv, TypeOK
  <2> QED BY <2>1 DEF IInv, TypeOK, FreshIds, PendingIdsDrawn, UniqueAccount,
          AtMostOneDefault, PendingTargetsOwnRow
<1>2. ASSUME NEW u \in User, NEW p \in Provider, NEW a \in Account,
             Connect(u, p, a) \/ ManualToken(u, p, a)
      PROVE  IInv'
  BY <1>2, ConnectSaves, SaveStep
<1>3. ASSUME NEW u \in User, NEW i \in Id, SetDefault(u, i)
      PROVE  IInv'
  BY <1>3, SetDefaultStep
<1>4. ASSUME NEW u \in User, NEW i \in Id, PatchAlias(u, i)
      PROVE  IInv'
  <2>1. PICK l \in Alias \cup {NULL} : conns' = UpdateAlias(conns, i, l)
    BY <1>4 DEF PatchAlias
  <2>2. conns' \in Tables /\ \A j \in Id : Descends(conns', conns, j)
    BY <2>1, UpdateEffect DEF IInv, TypeOK, Tables
  <2>3. UNCHANGED <<nextId, clock, pending>>
    BY <1>4 DEF PatchAlias
  <2> QED BY <2>2, <2>3, DescentStep DEF IInv, TypeOK
<1>5. ASSUME NEW h \in Handler, NEW u \in User, NEW i \in Id,
             StartDelete(h, u, i) \/ StartRefresh(h, u, i)
      PROVE  IInv'
  <2>1. Owned(conns, u, i)
    BY <1>5 DEF StartDelete, StartRefresh
  <2>2. \/ Start(h, [op |-> "delete", user |-> u, id |-> i])
        \/ Start(h, [op |-> "refresh", user |-> u, id |-> i])
    BY <1>5 DEF StartDelete, StartRefresh
  <2>3. /\ [op |-> "delete", user |-> u, id |-> i] \in DeleteOp
        /\ [op |-> "refresh", user |-> u, id |-> i] \in RefreshOp
    BY DEF DeleteOp, RefreshOp
  <2> QED BY <2>1, <2>2, <2>3, StartStep
<1>6. ASSUME NEW h \in Handler, NEW u \in User, NEW p \in Provider, NEW a \in Account,
             StartSetup(h, u, p, a)
      PROVE  IInv'
  <2>1. PICK i \in FindByAccount(conns, u, p, a), url \in Url :
            Start(h, [op |-> "setup", user |-> u, id |-> i, url |-> url])
    BY <1>6 DEF StartSetup
  <2>2. i \in Id /\ Owned(conns, u, i)
    BY DEF FindByAccount, OfUser, Rows, Owned, IInv, TypeOK
  <2>3. [op |-> "setup", user |-> u, id |-> i, url |-> url] \in SetupOp
    BY <2>2 DEF SetupOp
  <2> QED BY <2>1, <2>2, <2>3, StartStep
<1>7. ASSUME NEW h \in Handler, FinishStep(h)
      PROVE  IInv'
  <2>1. pending[h] # NULL /\ pending[h].id \in Id
    BY <1>7 DEF FinishStep, FinishDelete, FinishSetup, FinishRefresh, Awaiting,
        IInv, TypeOK, DeleteOp, SetupOp, RefreshOp
  <2>2. CASE FinishDelete(h)
    BY <2>1, <2>2, FinishUpdateStep DEF FinishDelete
  <2>3. CASE FinishSetup(h)
    <3>1. CASE SetupReportsOk(h)
      BY <2>1, <2>3, <3>1, FinishUpdateStep, ConstantsAssumption
      DEF FinishSetup, SetupReportsOk
    <3>2. CASE ~ SetupReportsOk(h)
      BY <2>1, <2>3, <3>2, FinishUpdateStep DEF FinishSetup
    <3> QED BY <3>1, <3>2
  <2>4. CASE FinishRefresh(h)
    BY <2>1, <2>4, FinishUpdateStep DEF FinishRefresh
  <2> QED BY <1>7, <2>2, <2>3, <2>4 DEF FinishStep
<1>8. CASE Restart
  <2>1. /\ pending' \in [Handler -> DeleteOp \cup SetupOp \cup RefreshOp \cup {NULL}]
        /\ \A h \in Handler : pending'[h] = NULL
    BY <1>8 DEF Restart
  <2>2. UNCHANGED <<conns, nextId, clock>>
    BY <1>8 DEF Restart
  <2>3. conns' \in Tables /\ \A j \in Id : Descends(conns', conns, j)
    BY <2>2 DEF IInv, TypeOK, Tables, Descends, SameAccount
  <2> QED BY <2>1, <2>2, <2>3, DescentStep
<1>9. CASE UNCHANGED vars
  BY <1>9 DEF vars, IInv, TypeOK, FreshIds, PendingIdsDrawn, UniqueAccount,
      AtMostOneDefault, PendingTargetsOwnRow
<1> QED BY <1>1, <1>2, <1>3, <1>4, <1>5, <1>6, <1>7, <1>8, <1>9 DEF Next, UserStep

\* The invariant holds in every state.
LEMMA Invariance == Spec => []IInv
  BY InitIInv, NextIInv, PTL DEF Spec

---------------------------------------------------------------------------
(* Which rows a step may change. *)

\* A step of a user changes only rows of that user, and adds a row only under
\* the id just drawn.
LEMMA UserStepRows ==
    ASSUME IInv, NEW u \in User, UserStep(u), NEW i \in Id, conns'[i] # conns[i]
    PROVE  /\ conns[i] # NULL => conns[i].user = u
           /\ conns[i] = NULL => i = nextId
<1>1. ASSUME NEW new \in NewRow, new.user = u, Save(new)
      PROVE  /\ conns[i] # NULL => conns[i].user = u
             /\ conns[i] = NULL => i = nextId
  <2>1. conns \in Tables /\ nextId \in Id /\ conns[nextId] = NULL
    BY <1>1 DEF IInv, TypeOK, Tables, FreshIds, Save, Id
  <2>2. /\ i = UpsertId(conns, nextId, new)
        /\ conns[i] # NULL => SameAccount(conns[i], new)
        /\ conns[i] = NULL => i = nextId
    BY <1>1, <2>1, UpsertEffect DEF Save
  <2> QED BY <1>1, <2>2 DEF SameAccount
<1>2. ASSUME NEW p \in Provider, NEW a \in Account, Connect(u, p, a) \/ ManualToken(u, p, a)
      PROVE  \E new \in NewRow : new.user = u /\ Save(new)
  BY <1>2, ConnectSaves
<1>3. ASSUME NEW j \in Id, SetDefault(u, j)
      PROVE  conns[i] # NULL /\ conns[i].user = u
  <2>1. /\ conns \in Tables /\ conns[j] # NULL /\ conns[j].user = u
        /\ conns' = MakeDefault(conns, j)
    BY <1>3 DEF IInv, TypeOK, Tables, SetDefault, Owned
  <2>2. i \in OfUser(conns, conns[j].user, conns[j].provider)
    BY <2>1, MakeDefaultEffect
  <2> QED BY <2>1, <2>2 DEF OfUser, Rows
<1>4. ASSUME NEW j \in Id, PatchAlias(u, j)
      PROVE  conns[i] # NULL /\ conns[i].user = u
  <2>1. Owned(conns, u, j) /\ \E l \in Alias \cup {NULL} : conns' = UpdateAlias(conns, j, l)
    BY <1>4 DEF PatchAlias
  <2>2. i = j
    BY <2>1, UpdateEffect DEF IInv, TypeOK, Tables
  <2> QED BY <2>1, <2>2 DEF Owned
<1>5. ASSUME NEW h \in Handler, \/ \E j \in Id : StartDelete(h, u, j) \/ StartRefresh(h, u, j)
                                \/ \E p \in Provider, a \in Account : StartSetup(h, u, p, a)
      PROVE  FALSE
  BY <1>5 DEF StartDelete, StartRefresh, StartSetup, Start
<1> QED BY <1>1, <1>2, <1>3, <1>4, <1>5 DEF UserStep

\* The end of a handler changes only the row it awaited for, and adds none.
LEMMA FinishStepRows ==
    ASSUME IInv, NEW h \in Handler, FinishStep(h), NEW i \in Id, conns'[i] # conns[i]
    PROVE  conns[i] # NULL /\ i = pending[h].id /\ conns[i].user = pending[h].user
<1>1. pending[h] # NULL /\ pending[h].id \in Id /\ conns \in Tables
  BY DEF FinishStep, FinishDelete, FinishSetup, FinishRefresh, Awaiting,
      IInv, TypeOK, Tables, DeleteOp, SetupOp, RefreshOp
<1>2. CASE FinishDelete(h)
  BY <1>1, <1>2 DEF FinishDelete, Finish, Remove, Tables, IInv, PendingTargetsOwnRow
<1>3. CASE FinishSetup(h) \/ FinishRefresh(h)
  <2>1. \/ \E url \in Url : conns' = SetWebhookForwardUrl(conns, pending[h].id, url)
        \/ \E new \in Refreshed : conns' = UpdateTokens(conns, pending[h].id, new)
    BY <1>3, ConstantsAssumption DEF FinishSetup, FinishRefresh, Finish, SetupReportsOk
  <2> PICK k \in Id : k = pending[h].id
    BY <1>1
  <2>2. /\ \A j \in Id : Descends(conns', conns, j)
        /\ \A j \in Id : j # k => conns'[j] = conns[j]
    <3>1. CASE \E url \in Url : conns' = SetWebhookForwardUrl(conns, k, url)
      BY <1>1, <3>1, UpdateEffect
    <3>2. CASE \E new \in Refreshed : conns' = UpdateTokens(conns, k, new)
      BY <1>1, <3>2, UpdateEffect
    <3> QED BY <2>1, <3>1, <3>2
  <2>3. i = k /\ conns[i] # NULL
    BY <2>2 DEF Descends, Tables
  <2> QED BY <1>1, <2>3 DEF IInv, PendingTargetsOwnRow
<1> QED BY <1>2, <1>3 DEF FinishStep

---------------------------------------------------------------------------
(* What the columns of a row survive. *)

\* Row q is row r after a write that loses nothing the user or the provider gave:
\* the account and the age stay, so do a refresh token and an address.
Keeps(r, q) == /\ SameAccount(q, r)
               /\ q.created = r.created
               /\ r.refresh # NULL => q.refresh # NULL
               /\ r.url # NULL => q.url # NULL

\* The ON CONFLICT clause keeps what it does not name, and COALESCE the refresh
\* token; the second statement of upsert never clears a flag.
LEMMA UpsertKeeps ==
    ASSUME NEW t \in Tables, NEW f \in Id, NEW new \in NewRow, t[f] = NULL,
           NEW j \in Id, t[j] # NULL
    PROVE  LET s == Upsert(t, f, new)
           IN  /\ Keeps(t[j], s[j])
               /\ s[j].alias = t[j].alias
               /\ t[j].is_default => s[j].is_default
<1> DEFINE i == UpsertId(t, f, new)
           s == Upsert(t, f, new)
           d == UpsertRow(t, f, new).is_default \/ Defaults(t, new.user, new.provider) = {}
<1>1. i \in Id /\ t[j] \in Row
  BY UpsertIdChoice DEF Tables
<1>2. /\ j # i => s[j] = t[j]
      /\ SameAccount(s[i], new)
      /\ t[i] # NULL => SameAccount(t[i], new)
      /\ t[i] # NULL /\ t[i].is_default => s[i].is_default
  BY UpsertEffect
<1>3. CASE j # i
  BY <1>2, <1>3 DEF Keeps, SameAccount
<1>4. CASE j = i
  <2> DEFINE q == Coalesce(new.refresh, t[j].refresh)
             r == [t[j] EXCEPT !.access = new.access, !.refresh = q,
                               !.dek = new.dek, !.expires = new.expires]
  <2>1. UpsertRow(t, f, new) = r
    BY <1>1, <1>4 DEF UpsertRow, Reconnected, Row
  <2>2. s[j] = [r EXCEPT !.is_default = d]
    BY <1>1, <1>4, <2>1 DEF Upsert, Tables, Row
  <2>3. t[j].refresh # NULL => q # NULL
    BY DEF Coalesce
  <2>4. /\ s[j].created = t[j].created /\ s[j].url = t[j].url
        /\ s[j].alias = t[j].alias /\ s[j].refresh = q
    <3> HIDE DEF q, d, s
    <3> QED BY <1>1, <2>2 DEF Row
  <2> QED BY <1>2, <1>4, <2>3, <2>4 DEF Keeps, SameAccount
<1> QED BY <1>3, <1>4

\* The UPDATEs by id keep as much; only the one of the alias changes the alias.
LEMMA UpdateKeeps ==
    ASSUME NEW t \in Tables, NEW i \in Id, NEW s, NEW j \in Id, t[j] # NULL,
           \/ \E l \in Alias \cup {NULL} : s = UpdateAlias(t, i, l)
           \/ \E url \in Url : s = SetWebhookForwardUrl(t, i, url)
           \/ \E new \in Refreshed : s = UpdateTokens(t, i, new)
    PROVE  /\ Keeps(t[j], s[j])
           /\ t[j].is_default => s[j].is_default
           /\ s[j].alias # t[j].alias =>
                i = j /\ \E l \in Alias \cup {NULL} : s = UpdateAlias(t, i, l)
<1>1. t[j] \in Row /\ Keeps(t[j], t[j])
  BY DEF Tables, Keeps, SameAccount
<1>2. CASE i # j \/ t[i] = NULL
  BY <1>1, <1>2 DEF UpdateAlias, SetWebhookForwardUrl, UpdateTokens, Tables
<1>3. CASE i = j /\ t[i] # NULL
  <2>1. ASSUME NEW l \in Alias \cup {NULL}, s = UpdateAlias(t, i, l)
        PROVE  Keeps(t[j], s[j]) /\ s[j].is_default = t[j].is_default
    <3>1. s[j] = [t[j] EXCEPT !.alias = l]
      BY <1>3, <2>1 DEF UpdateAlias, Tables
    <3> QED BY <1>1, <3>1 DEF Keeps, SameAccount, Row
  <2>2. ASSUME NEW url \in Url, s = SetWebhookForwardUrl(t, i, url)
        PROVE  /\ Keeps(t[j], s[j]) /\ s[j].is_default = t[j].is_default
               /\ s[j].alias = t[j].alias
    <3>1. s[j] = [t[j] EXCEPT !.url = url] /\ url # NULL
      BY <1>3, <2>2, ConstantsAssumption DEF SetWebhookForwardUrl, Tables
    <3> QED BY <1>1, <3>1 DEF Keeps, SameAccount, Row
  <2>3. ASSUME NEW new \in Refreshed, s = UpdateTokens(t, i, new)
        PROVE  /\ Keeps(t[j], s[j]) /\ s[j].is_default = t[j].is_default
               /\ s[j].alias = t[j].alias
    <3> DEFINE q == Coalesce(new.refresh, t[j].refresh)
               k == Coalesce(new.dek, t[j].dek)
    <3>1. s[j] = [t[j] EXCEPT !.access = new.access, !.refresh = q,
                              !.dek = k, !.expires = new.expires]
      BY <1>1, <1>3, <2>3 DEF UpdateTokens, Tables, Row
    <3>2. t[j].refresh # NULL => q # NULL
      BY DEF Coalesce
    <3> HIDE DEF q, k
    <3> QED BY <1>1, <3>1, <3>2 DEF Keeps, SameAccount, Row
  <2> QED BY <1>3, <2>1, <2>2, <2>3
<1> QED BY <1>2, <1>3

\* Promotion touches the flags only, and those of one user and provider.
LEMMA MakeDefaultKeeps ==
    ASSUME NEW t \in Tables, NEW i \in Id, t[i] # NULL, NEW j \in Id, t[j] # NULL
    PROVE  LET s == MakeDefault(t, i)
           IN  /\ Keeps(t[j], s[j])
               /\ s[j].alias = t[j].alias
               /\ s[j].is_default # t[j].is_default => t[j].user = t[i].user
<1> DEFINE mine == OfUser(t, t[i].user, t[i].provider)
           s == MakeDefault(t, i)
<1>1. DOMAIN t = Id /\ t[j] \in Row
  BY DEF Tables
<1>2. CASE j \in mine
  <2>1. s[j] = [t[j] EXCEPT !.is_default = (j = i)] /\ t[j].user = t[i].user
    BY <1>1, <1>2 DEF MakeDefault, OfUser
  <2> QED BY <1>1, <2>1 DEF Keeps, SameAccount, Row
<1>3. CASE j \notin mine
  <2>1. s[j] = t[j]
    BY <1>1, <1>3 DEF MakeDefault
  <2> QED BY <2>1 DEF Keeps, SameAccount
<1> QED BY <1>2, <1>3

\* A user saves a row, changes a flag or an alias, or leaves the table alone.
LEMMA UserStepKinds ==
    ASSUME IInv, NEW u \in User, UserStep(u)
    PROVE  \/ conns' = conns
           \/ \E new \in NewRow : Save(new)
           \/ \E i \in Id : SetDefault(u, i) \/ PatchAlias(u, i)
<1>1. ASSUME NEW h \in Handler, \/ \E i \in Id : StartDelete(h, u, i) \/ StartRefresh(h, u, i)
                                \/ \E p \in Provider, a \in Account : StartSetup(h, u, p, a)
      PROVE  conns' = conns
  BY <1>1 DEF StartDelete, StartRefresh, StartSetup, Start
<1> QED BY <1>1, ConnectSaves DEF UserStep

\* Every write of the program is one of six.
LEMMA StepKinds ==
    ASSUME IInv, Next
    PROVE  \/ conns' = conns
           \/ \E new \in NewRow : Save(new)
           \/ \E u \in User, i \in Id : SetDefault(u, i)
           \/ \E u \in User, i \in Id : PatchAlias(u, i)
           \/ \E i \in Id : conns' = Remove(conns, i)
           \/ \E i \in Id : \/ \E url \in Url : conns' = SetWebhookForwardUrl(conns, i, url)
                            \/ \E new \in Refreshed : conns' = UpdateTokens(conns, i, new)
<1>1. CASE Tick \/ Restart
  BY <1>1 DEF Tick, Restart
<1>2. ASSUME NEW u \in User, UserStep(u)
      PROVE  \/ conns' = conns
             \/ \E new \in NewRow : Save(new)
             \/ \E i \in Id : SetDefault(u, i) \/ PatchAlias(u, i)
  BY <1>2, UserStepKinds
<1>3. ASSUME NEW h \in Handler, FinishStep(h)
      PROVE  \/ conns' = conns
             \/ \E i \in Id : conns' = Remove(conns, i)
             \/ \E i \in Id : \/ \E url \in Url : conns' = SetWebhookForwardUrl(conns, i, url)
                              \/ \E new \in Refreshed : conns' = UpdateTokens(conns, i, new)
  <2>1. pending[h].id \in Id
    BY <1>3 DEF FinishStep, FinishDelete, FinishSetup, FinishRefresh, Awaiting,
        IInv, TypeOK, DeleteOp, SetupOp, RefreshOp
  <2>2. CASE FinishDelete(h)
    BY <2>1, <2>2 DEF FinishDelete, Finish
  <2>3. CASE FinishSetup(h)
    BY <2>1, <2>3, ConstantsAssumption DEF FinishSetup, Finish, SetupReportsOk
  <2>4. CASE FinishRefresh(h)
    BY <2>1, <2>4 DEF FinishRefresh, Finish
  <2> QED BY <1>3, <2>2, <2>3, <2>4 DEF FinishStep
<1> QED BY <1>1, <1>2, <1>3 DEF Next

\* A step loses neither the credentials, the address nor the alias of a row that
\* stays, and clears its flag only if its user promotes another.
LEMMA StepKeeps ==
    ASSUME IInv, Next, NEW j \in Id, conns[j] # NULL, conns'[j] # NULL
    PROVE  /\ Keeps(conns[j], conns'[j])
           /\ conns'[j].alias # conns[j].alias => \E u \in User : PatchAlias(u, j)
           /\ conns[j].is_default =>
                conns'[j].is_default \/ \E k \in Id : SetDefault(conns[j].user, k)
<1>1. conns \in Tables
  BY DEF IInv, TypeOK, Tables
<1>2. CASE conns' = conns
  BY <1>2 DEF Keeps, SameAccount
<1>3. ASSUME NEW new \in NewRow, Save(new)
      PROVE  /\ Keeps(conns[j], conns'[j])
             /\ conns'[j].alias = conns[j].alias
             /\ conns[j].is_default => conns'[j].is_default
  <2>1. nextId \in Id /\ conns[nextId] = NULL /\ conns' = Upsert(conns, nextId, new)
    BY <1>3 DEF Save, IInv, TypeOK, FreshIds, Id
  <2> QED BY <1>1, <2>1, UpsertKeeps
<1>4. ASSUME NEW u \in User, NEW i \in Id, SetDefault(u, i)
      PROVE  /\ Keeps(conns[j], conns'[j])
             /\ conns'[j].alias = conns[j].alias
             /\ conns[j].is_default =>
                  conns'[j].is_default \/ \E k \in Id : SetDefault(conns[j].user, k)
  <2>1. conns[i] # NULL /\ conns[i].user = u /\ conns' = MakeDefault(conns, i)
    BY <1>4 DEF SetDefault, Owned
  <2>2. /\ Keeps(conns[j], conns'[j])
        /\ conns'[j].alias = conns[j].alias
        /\ conns'[j].is_default # conns[j].is_default => conns[j].user = u
    BY <1>1, <2>1, MakeDefaultKeeps
  <2>3. CASE conns[j].user = u
    BY <1>4, <2>2, <2>3
  <2>4. CASE conns[j].user # u
    BY <2>2, <2>4
  <2> QED BY <2>3, <2>4
<1>5. ASSUME NEW u \in User, NEW i \in Id, PatchAlias(u, i)
      PROVE  /\ Keeps(conns[j], conns'[j])
             /\ conns'[j].alias # conns[j].alias => i = j
             /\ conns[j].is_default => conns'[j].is_default
  <2>1. \E l \in Alias \cup {NULL} : conns' = UpdateAlias(conns, i, l)
    BY <1>5 DEF PatchAlias
  <2> QED BY <1>1, <2>1, UpdateKeeps
<1>6. CASE \E i \in Id : conns' = Remove(conns, i)
  BY <1>1, <1>6 DEF Remove, Tables, Keeps, SameAccount
<1>7. ASSUME NEW i \in Id,
             \/ \E url \in Url : conns' = SetWebhookForwardUrl(conns, i, url)
             \/ \E new \in Refreshed : conns' = UpdateTokens(conns, i, new)
      PROVE  /\ Keeps(conns[j], conns'[j])
             /\ conns'[j].alias = conns[j].alias
             /\ conns[j].is_default => conns'[j].is_default
  <2>1. CASE conns[i] = NULL
    <3>1. conns' = conns
      BY <1>7, <2>1 DEF SetWebhookForwardUrl, UpdateTokens
    <3> QED BY <3>1 DEF Keeps, SameAccount
  <2>2. CASE conns[i] # NULL
    <3>1. Keeps(conns[j], conns'[j]) /\ (conns[j].is_default => conns'[j].is_default)
      BY <1>1, <1>7, UpdateKeeps
    <3>2. conns'[j].alias = conns[j].alias
      <4>1. conns[j] \in Row
        BY <1>1 DEF Tables
      <4>2. CASE i # j
        BY <1>1, <1>7, <4>2 DEF SetWebhookForwardUrl, UpdateTokens, Tables
      <4>3. CASE i = j
        <5>1. ASSUME NEW url \in Url, conns' = SetWebhookForwardUrl(conns, i, url)
              PROVE  conns'[j] = [conns[j] EXCEPT !.url = url]
          BY <1>1, <2>2, <4>3, <5>1 DEF SetWebhookForwardUrl, Tables
        <5>2. ASSUME NEW new \in Refreshed, conns' = UpdateTokens(conns, i, new)
              PROVE  conns'[j] = [conns[j] EXCEPT !.access = new.access,
                                    !.refresh = Coalesce(new.refresh, conns[j].refresh),
                                    !.dek = Coalesce(new.dek, conns[j].dek),
                                    !.expires = new.expires]
          BY <1>1, <2>2, <4>1, <4>3, <5>2 DEF UpdateTokens, Tables, Row
        <5>3. ASSUME NEW url \in Url, conns'[j] = [conns[j] EXCEPT !.url = url]
              PROVE  conns'[j].alias = conns[j].alias
          BY <4>1, <5>3 DEF Row
        <5>4. CASE \E url \in Url : conns' = SetWebhookForwardUrl(conns, i, url)
          BY <5>4, <5>1, <5>3
        <5>5. CASE \E new \in Refreshed : conns' = UpdateTokens(conns, i, new)
          <6>1. PICK new \in Refreshed : conns' = UpdateTokens(conns, i, new)
            BY <5>5
          <6>2. conns'[j] = [conns[j] EXCEPT !.access = new.access,
                                !.refresh = Coalesce(new.refresh, conns[j].refresh),
                                !.dek = Coalesce(new.dek, conns[j].dek),
                                !.expires = new.expires]
            BY <6>1, <5>2
          <6> QED BY <4>1, <6>2 DEF Row
        <5> QED BY <1>7, <5>4, <5>5
      <4> QED BY <4>2, <4>3
    <3> QED BY <3>1, <3>2
  <2> QED BY <2>1, <2>2
<1> QED BY <1>2, <1>3, <1>4, <1>5, <1>6, <1>7, StepKinds

\* No step brings a row back under an id that was drawn before.
LEMMA GoneStaysGone ==
    ASSUME IInv, Next, NEW i \in Id, i < nextId, conns[i] = NULL
    PROVE  conns'[i] = NULL
<1> SUFFICES ASSUME conns'[i] # NULL
             PROVE  FALSE
  OBVIOUS
<1>1. i # nextId
  BY DEF IInv, TypeOK, Id
<1>2. CASE Tick \/ Restart
  BY <1>2 DEF Tick, Restart
<1>3. CASE \E u \in User : UserStep(u)
  BY <1>1, <1>3, UserStepRows
<1>4. CASE \E h \in Handler : FinishStep(h)
  BY <1>4, FinishStepRows
<1> QED BY <1>2, <1>3, <1>4 DEF Next

---------------------------------------------------------------------------
(* The theorems. *)

\* The table holds well-formed rows only (store.js SCHEMA and its statements).
THEOREM TypeCorrect == Spec => []TypeOK
  BY Invariance, PTL DEF IInv

\* Reconnecting an account never makes a second row of it, in any interleaving
\* (upsert, UNIQUE index).
THEOREM OneRowPerAccount == Spec => []UniqueAccount
  BY Invariance, PTL DEF IInv

\* A provider never has two default rows (upsert, setDefault).
THEOREM OneDefault == Spec => []AtMostOneDefault
  BY Invariance, PTL DEF IInv

\* A handler that awaited the provider still aims at a row of its own user
\* (DELETE /connections/:id, setup-webhook, refreshConnection).
THEOREM PendingOwnership == Spec => []PendingTargetsOwnRow
  BY Invariance, PTL DEF IInv

\* No step of a user, nor the end of one of his handlers, touches a row of
\* another user (setDefault, updateAlias, DELETE, upsert).
THEOREM OwnRows == Spec => OnlyOwnRowsChange
<1>1. IInv /\ [Next]_vars =>
        [\A i \in Id : conns[i] # NULL /\ conns'[i] # conns[i] =>
            /\ \A u \in User \ {conns[i].user} : ~ UserStep(u)
            /\ \A h \in Handler : FinishStep(h) => pending[h].user = conns[i].user]_vars
  <2> SUFFICES ASSUME IInv, NEW i \in Id, conns[i] # NULL, conns'[i] # conns[i]
               PROVE  /\ \A u \in User \ {conns[i].user} : ~ UserStep(u)
                      /\ \A h \in Handler : FinishStep(h) => pending[h].user = conns[i].user
    BY DEF vars
  <2>1. ASSUME NEW u \in User \ {conns[i].user}, UserStep(u)
        PROVE  FALSE
    BY <2>1, UserStepRows
  <2>2. ASSUME NEW h \in Handler, FinishStep(h)
        PROVE  pending[h].user = conns[i].user
    BY <2>2, FinishStepRows
  <2> QED BY <2>1, <2>2
<1> QED BY <1>1, Invariance, PTL DEF Spec, OnlyOwnRowsChange

\* A deleted row stays deleted, however late a refresh or a set-up that was
\* started before the deletion writes (updateTokens, setWebhookForwardUrl).
THEOREM DeletedStaysDeleted == Spec => NoResurrection
<1>1. IInv /\ [Next]_vars =>
        [\A i \in Id : i < nextId /\ conns[i] = NULL => conns'[i] = NULL]_vars
  BY GoneStaysGone DEF vars
<1> QED BY <1>1, Invariance, PTL DEF Spec, NoResurrection

\* Neither a reconnection, a refresh nor a promotion loses the refresh token,
\* the webhook address or the alias of a row (upsert, updateTokens, setDefault).
THEOREM CredentialsKept == Spec => ReconnectKeepsCredentials
<1>1. IInv /\ [Next]_vars =>
        [\A i \in Id : conns[i] # NULL /\ conns'[i] # NULL =>
            /\ conns[i].refresh # NULL => conns'[i].refresh # NULL
            /\ conns[i].url # NULL => conns'[i].url # NULL
            /\ conns'[i].created = conns[i].created
            /\ conns'[i].alias # conns[i].alias => \E u \in User : PatchAlias(u, i)]_vars
  BY StepKeeps DEF Keeps, vars
<1> QED BY <1>1, Invariance, PTL DEF Spec, ReconnectKeepsCredentials

\* The connection of unqualified proxy calls moves only when its user says so or
\* it is deleted (findDefault, upsert, setDefault).
THEOREM DefaultStays == Spec => DefaultIsSticky
<1>1. IInv /\ IInv' /\ [Next]_vars =>
        [\A u \in User, p \in Provider, i \in Id :
            /\ i \in Defaults(conns, u, p)
            /\ conns'[i] # NULL
            /\ FindDefault(conns, u, p)' # {i}
            => \E j \in Id : SetDefault(u, j)]_vars
  <2> SUFFICES ASSUME IInv, IInv', Next,
                      NEW u \in User, NEW p \in Provider, NEW i \in Id,
                      i \in Defaults(conns, u, p), conns'[i] # NULL,
                      ~ \E j \in Id : SetDefault(u, j)
               PROVE  FindDefault(conns', u, p) = {i}
    BY DEF vars
  <2>1. /\ conns[i] # NULL /\ conns[i].user = u /\ conns[i].provider = p
        /\ conns[i].is_default
    BY DEF Defaults, OfUser, Rows
  <2>2. Keeps(conns[i], conns'[i]) /\ conns'[i].is_default
    BY <2>1, StepKeeps
  <2>3. conns' \in Tables
    BY DEF IInv, TypeOK, Tables
  <2>4. i \in Defaults(conns', u, p)
    BY <2>1, <2>2, <2>3 DEF Keeps, SameAccount, Defaults, OfUser, Rows, Tables
  <2>5. Defaults(conns', u, p) = {i}
    BY <2>4 DEF IInv, AtMostOneDefault
  <2>6. conns'[i].created <= conns'[i].created
    BY <2>3, ConstantsAssumption DEF Tables, Row
  <2> QED BY <2>5, <2>6 DEF FindDefault, Oldest
<1> QED BY <1>1, Invariance, PTL DEF Spec, DefaultIsSticky
=============================================================================
