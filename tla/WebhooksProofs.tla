--------------------------- MODULE WebhooksProofs ---------------------------
(***************************************************************************)
(* Proofs about Webhooks.  The router only reads the table, so everything  *)
(* proved of Connections holds beside it; and every forward under way goes *)
(* where the owner of the row asked for it.                                *)
(***************************************************************************)
EXTENDS Webhooks, ConnectionsProofs

\* The request to subscribe row i at the address url.
AskOf(i, url) == [id |-> i, user |-> conns[i].user, account |-> conns[i].account, url |-> url]

\* Whoever is subscribed asked for it, and so did each set-up that may still
\* subscribe a row.
RowsAsked == \A i \in Rows(conns) : conns[i].url # NULL => AskOf(i, conns[i].url) \in asked

SettingUp(h) == Awaiting(h, "setup") /\ SetupReportsOk(h) /\ conns[pending[h].id] # NULL

SetupsAsked == \A h \in Handler : SettingUp(h) => AskOf(pending[h].id, pending[h].url) \in asked

HInv == IInv /\ HooksTypeOK /\ RowsAsked /\ SetupsAsked /\ ForwardsWereAskedFor

---------------------------------------------------------------------------
(* What a step of the vault does to addresses and to handlers. *)

\* An upsert keeps the address of a row it finds; a new row has none.
LEMMA UpsertUrl ==
    ASSUME NEW t \in Tables, NEW f \in Id, NEW new \in NewRow, t[f] = NULL,
           NEW j \in Id, Upsert(t, f, new)[j] # NULL, Upsert(t, f, new)[j].url # NULL
    PROVE  t[j] # NULL /\ Upsert(t, f, new)[j].url = t[j].url
<1> DEFINE i == UpsertId(t, f, new)
           r == UpsertRow(t, f, new)
           d == r.is_default \/ Defaults(t, new.user, new.provider) = {}
           s == Upsert(t, f, new)
<1>1. i \in Id
  BY UpsertIdChoice
<1>2. CASE j # i
  <2>1. s[j] = t[j]
    BY <1>1, <1>2, UpsertEffect
  <2> QED BY <2>1
<1>3. CASE j = i /\ t[i] = NULL
  <2>1. r = Inserted(new)
    BY <1>3 DEF UpsertRow
  <2>2. s[j] = [r EXCEPT !.is_default = d]
    BY <1>1, <1>3, <2>1 DEF Upsert, Inserted, Tables
  <2>3. s[j].url = NULL
    <3> HIDE DEF d, s
    <3> QED BY <2>1, <2>2 DEF Inserted
  <2> QED BY <2>3
<1>4. CASE j = i /\ t[i] # NULL
  <2> DEFINE q == Coalesce(new.refresh, t[j].refresh)
  <2>1. t[j] \in Row
    BY <1>1, <1>4 DEF Tables
  <2>2. r = [t[j] EXCEPT !.access = new.access, !.refresh = q,
                         !.dek = new.dek, !.expires = new.expires]
    BY <2>1, <1>4 DEF UpsertRow, Reconnected, Row
  <2>3. s[j] = [r EXCEPT !.is_default = d]
    BY <1>1, <1>4, <2>1, <2>2 DEF Upsert, Tables, Row
  <2>4. s[j].url = t[j].url
    <3> HIDE DEF q, d, s, r
    <3> QED BY <2>1, <2>2, <2>3 DEF Row
  <2> QED BY <1>4, <2>4
<1> QED BY <1>2, <1>3, <1>4

\* The other writes of the table keep the address of every row, but for the
\* UPDATE of the address.
LEMMA UpdateUrl ==
    ASSUME NEW t \in Tables, NEW i \in Id, NEW j \in Id, NEW s, s[j] # NULL,
           \/ t[i] # NULL /\ s = MakeDefault(t, i)
           \/ \E l \in Alias \cup {NULL} : s = UpdateAlias(t, i, l)
           \/ s = Remove(t, i)
           \/ \E new \in Refreshed : s = UpdateTokens(t, i, new)
    PROVE  t[j] # NULL /\ s[j].url = t[j].url
<1>1. CASE t[i] # NULL /\ s = MakeDefault(t, i)
  <2>1. t[j] # NULL
    BY <1>1, MakeDefaultEffect
  <2>2. t[j] \in Row /\ DOMAIN t = Id
    BY <2>1 DEF Tables
  <2> QED BY <1>1, <2>1, <2>2 DEF MakeDefault, Row
<1>2. ASSUME NEW l \in Alias \cup {NULL}, s = UpdateAlias(t, i, l)
      PROVE  t[j] # NULL /\ s[j].url = t[j].url
  <2>1. t[j] # NULL
    BY <1>2, UpdateEffect DEF Descends
  <2>2. t[j] \in Row
    BY <2>1 DEF Tables
  <2> QED BY <1>2, <2>1, <2>2 DEF UpdateAlias, Tables, Row
<1>3. CASE s = Remove(t, i)
  BY <1>3 DEF Remove, Tables
<1>4. ASSUME NEW new \in Refreshed, s = UpdateTokens(t, i, new)
      PROVE  t[j] # NULL /\ s[j].url = t[j].url
  <2>1. t[j] # NULL
    BY <1>4, UpdateEffect DEF Descends
  <2>2. t[j] \in Row
    BY <2>1 DEF Tables
  <2>3. CASE t[i] = NULL \/ i # j
    BY <1>4, <2>1, <2>3 DEF UpdateTokens, Tables
  <2>4. CASE t[i] # NULL /\ i = j
    <3> DEFINE q == Coalesce(new.refresh, t[j].refresh)
               k == Coalesce(new.dek, t[j].dek)
    <3>1. s[j] = [t[j] EXCEPT !.access = new.access, !.refresh = q,
                              !.dek = k, !.expires = new.expires]
      BY <1>4, <2>2, <2>4 DEF UpdateTokens, Tables, Row
    <3> HIDE DEF q, k
    <3> QED BY <2>1, <2>2, <3>1 DEF Row
  <2> QED BY <2>3, <2>4
<1> QED BY <1>1, <1>2, <1>3, <1>4

\* A row has the address it had, or the one of a set-up that ends on it.
LEMMA StepUrl ==
    ASSUME IInv, Next, NEW j \in Id, conns'[j] # NULL, conns'[j].url # NULL
    PROVE  /\ conns[j] # NULL
           /\ \/ conns'[j].url = conns[j].url
              \/ \E h \in Handler : SettingUp(h) /\ j = pending[h].id
                                                 /\ conns'[j].url = pending[h].url
<1>1. conns \in Tables
  BY DEF IInv, TypeOK, Tables
<1>2. CASE conns' = conns
  BY <1>2
<1>3. ASSUME NEW new \in NewRow, Save(new)
      PROVE  conns[j] # NULL /\ conns'[j].url = conns[j].url
  <2>1. nextId \in Id /\ conns[nextId] = NULL /\ conns' = Upsert(conns, nextId, new)
    BY <1>3 DEF Save, IInv, TypeOK, FreshIds, Id
  <2> QED BY <1>1, <2>1, UpsertUrl
<1>4. ASSUME NEW u \in User, NEW i \in Id, SetDefault(u, i) \/ PatchAlias(u, i)
      PROVE  conns[j] # NULL /\ conns'[j].url = conns[j].url
  <2>1. \/ conns[i] # NULL /\ conns' = MakeDefault(conns, i)
        \/ \E l \in Alias \cup {NULL} : conns' = UpdateAlias(conns, i, l)
    BY <1>4 DEF SetDefault, PatchAlias, Owned
  <2> QED BY <1>1, <2>1, UpdateUrl
<1>5. ASSUME NEW h \in Handler, FinishStep(h)
      PROVE  /\ conns[j] # NULL
             /\ \/ conns'[j].url = conns[j].url
                \/ SettingUp(h) /\ j = pending[h].id /\ conns'[j].url = pending[h].url
  <2>1. pending[h].id \in Id
    BY <1>5 DEF FinishStep, FinishDelete, FinishSetup, FinishRefresh, Awaiting,
        IInv, TypeOK, DeleteOp, SetupOp, RefreshOp
  <2>2. CASE FinishDelete(h)
    BY <1>1, <2>1, <2>2, UpdateUrl DEF FinishDelete, Finish
  <2>3. CASE FinishSetup(h)
    <3>1. CASE conns' = conns
      BY <3>1
    <3>2. CASE conns' # conns
      <4>1. /\ SetupReportsOk(h) /\ Awaiting(h, "setup")
            /\ conns' = SetWebhookForwardUrl(conns, pending[h].id, pending[h].url)
        BY <2>3, <3>2 DEF FinishSetup, Finish
      <4>2. /\ conns[pending[h].id] # NULL
            /\ conns' = [conns EXCEPT ![pending[h].id].url = pending[h].url]
        BY <3>2, <4>1 DEF SetWebhookForwardUrl
      <4>3. CASE j = pending[h].id
        <5>1. conns[j] \in Row
          BY <1>1, <4>2, <4>3 DEF Tables
        <5> QED BY <1>1, <4>1, <4>2, <4>3, <5>1 DEF Tables, Row, SettingUp
      <4>4. CASE j # pending[h].id
        BY <1>1, <2>1, <4>2, <4>4 DEF Tables
      <4> QED BY <4>3, <4>4
    <3> QED BY <3>1, <3>2
  <2>4. CASE FinishRefresh(h)
    <3>1. CASE conns' = conns
      BY <3>1
    <3>2. CASE \E new \in Refreshed : conns' = UpdateTokens(conns, pending[h].id, new)
      BY <1>1, <2>1, <3>2, UpdateUrl
    <3> QED BY <2>4, <3>1, <3>2 DEF FinishRefresh, Finish
  <2> QED BY <1>5, <2>2, <2>3, <2>4 DEF FinishStep
<1>6. CASE Tick \/ Restart
  BY <1>2, <1>6 DEF Tick, Restart
<1>7. ASSUME NEW u \in User, UserStep(u)
      PROVE  \/ conns' = conns
             \/ \E new \in NewRow : Save(new)
             \/ \E i \in Id : SetDefault(u, i) \/ PatchAlias(u, i)
  BY <1>7, UserStepKinds
<1> QED BY <1>2, <1>3, <1>4, <1>5, <1>6, <1>7 DEF Next

\* A handler awaits what it awaited, or starts on a row that is there.
LEMMA StepPending ==
    ASSUME IInv, Next, NEW h \in Handler, pending'[h] # NULL
    PROVE  \/ pending'[h] = pending[h]
           \/ /\ pending[h] = NULL /\ conns' = conns
              /\ pending'[h].id \in Id /\ conns[pending'[h].id] # NULL
<1>1. DOMAIN pending = Handler
  BY DEF IInv, TypeOK
<1>2. CASE Tick \/ Restart
  BY <1>2 DEF Tick, Restart
<1>3. ASSUME NEW g \in Handler, FinishStep(g)
      PROVE  pending'[h] = pending[h]
  <2>1. pending' = [pending EXCEPT ![g] = NULL]
    BY <1>3 DEF FinishStep, FinishDelete, FinishSetup, FinishRefresh, Finish
  <2> QED BY <1>1, <2>1
<1>4. ASSUME NEW u \in User, NEW g \in Handler, NEW i \in Id, NEW op, op.id = i,
             conns[i] # NULL, Start(g, op)
      PROVE  \/ pending'[h] = pending[h]
             \/ /\ pending[h] = NULL /\ conns' = conns
                /\ pending'[h].id \in Id /\ conns[pending'[h].id] # NULL
  BY <1>1, <1>4 DEF Start
<1>5. ASSUME NEW u \in User, UserStep(u)
      PROVE  \/ pending' = pending
             \/ \E g \in Handler, i \in Id :
                  conns[i] # NULL /\ \E op : op.id = i /\ Start(g, op)
  <2>1. CASE \E p \in Provider, a \in Account : Connect(u, p, a) \/ ManualToken(u, p, a)
    BY <2>1, ConnectSaves DEF Save
  <2>2. CASE \E i \in Id : SetDefault(u, i) \/ PatchAlias(u, i)
    BY <2>2 DEF SetDefault, PatchAlias
  <2>3. ASSUME NEW g \in Handler, NEW i \in Id, StartDelete(g, u, i)
        PROVE  conns[i] # NULL /\ \E op : op.id = i /\ Start(g, op)
    <3>1. Start(g, [op |-> "delete", user |-> u, id |-> i])
      BY <2>3 DEF StartDelete
    <3> QED BY <2>3, <3>1 DEF StartDelete, Owned
  <2>4. ASSUME NEW g \in Handler, NEW i \in Id, StartRefresh(g, u, i)
        PROVE  conns[i] # NULL /\ \E op : op.id = i /\ Start(g, op)
    <3>1. Start(g, [op |-> "refresh", user |-> u, id |-> i])
      BY <2>4 DEF StartRefresh
    <3> QED BY <2>4, <3>1 DEF StartRefresh, Owned
  <2>5. ASSUME NEW g \in Handler, NEW p \in Provider, NEW a \in Account,
               StartSetup(g, u, p, a)
        PROVE  \E i \in Id : conns[i] # NULL /\ \E op : op.id = i /\ Start(g, op)
    <3>1. PICK i \in FindByAccount(conns, u, p, a), url \in Url :
            Start(g, [op |-> "setup", user |-> u, id |-> i, url |-> url])
      BY <2>5 DEF StartSetup
    <3>2. i \in Id /\ conns[i] # NULL
      BY DEF FindByAccount, OfUser, Rows, IInv, TypeOK
    <3> QED BY <3>1, <3>2
  <2> QED BY <1>5, <2>1, <2>2, <2>3, <2>4, <2>5 DEF UserStep
<1> QED BY <1>2, <1>3, <1>4, <1>5 DEF Next

---------------------------------------------------------------------------
(* The router beside the vault. *)

\* What the router adds leaves the vault to Connections.
LEMMA HooksStep ==
    ASSUME HooksNext
    PROVE  [Next]_vars
  BY DEF HooksNext, VaultStep, Stop, Receive, ForwardEnds, Next

\* The events router of graph_webhook.js never writes the table: with it the
\* vault still behaves as Connections specifies, and all that is proved there holds.
THEOREM HooksKeepVault == HooksSpec => Spec
<1>1. HooksInit => Init
  BY DEF HooksInit
<1>2. [HooksNext]_<<vars, hooks>> => [Next]_vars
  BY HooksStep DEF vars
<1> QED BY <1>1, <1>2, PTL DEF HooksSpec, Spec

\* An address that a row gets was asked for.
LEMMA RowsAskedStep ==
    ASSUME HInv, Next, asked \subseteq asked'
    PROVE  RowsAsked'
<1> SUFFICES ASSUME NEW j \in Rows(conns'), conns'[j].url # NULL
             PROVE  [id |-> j, user |-> conns'[j].user, account |-> conns'[j].account,
                     url |-> conns'[j].url] \in asked'
  BY DEF RowsAsked, AskOf
<1>1. IInv /\ IInv'
  BY NextIInv DEF HInv
<1>2. j \in Id /\ conns'[j] # NULL
  BY <1>1 DEF Rows, IInv, TypeOK
<1>3. /\ conns[j] # NULL
      /\ \/ conns'[j].url = conns[j].url
         \/ \E h \in Handler : SettingUp(h) /\ j = pending[h].id
                                            /\ conns'[j].url = pending[h].url
  BY <1>1, <1>2, StepUrl
<1>4. AskOf(j, conns'[j].url) \in asked
  <2>1. j \in Rows(conns)
    BY <1>1, <1>2, <1>3 DEF Rows, IInv, TypeOK
  <2> QED BY <1>3, <2>1 DEF HInv, RowsAsked, SetupsAsked
<1>5. SameAccount(conns'[j], conns[j])
  BY <1>1, <1>2, <1>3, StepKeeps DEF Keeps
<1> QED BY <1>4, <1>5 DEF AskOf, SameAccount

\* A set-up that may still subscribe its row was asked for.
LEMMA SetupsAskedStep ==
    ASSUME HInv, Next, asked \subseteq asked', NewAsks \subseteq asked'
    PROVE  SetupsAsked'
<1> SUFFICES ASSUME NEW h \in Handler, SettingUp(h)'
             PROVE  [id |-> pending'[h].id, user |-> conns'[pending'[h].id].user,
                     account |-> conns'[pending'[h].id].account,
                     url |-> pending'[h].url] \in asked'
  BY DEF SetupsAsked, AskOf
<1> DEFINE i == pending'[h].id
<1>1. IInv /\ IInv'
  BY NextIInv DEF HInv
<1>2. /\ pending'[h] # NULL /\ pending'[h].op = "setup"
      /\ Awaiting(h, "setup")' /\ SetupReportsOk(h)' /\ conns'[i] # NULL
  BY DEF SettingUp, Awaiting
<1>3. i \in Id
  BY <1>1, <1>2 DEF IInv, TypeOK, DeleteOp, SetupOp, RefreshOp
<1>4. CASE pending'[h] = pending[h]
  <2>1. i < nextId
    BY <1>1, <1>2, <1>4 DEF IInv, PendingIdsDrawn
  <2>2. conns[i] # NULL
    BY <1>1, <1>2, <1>3, <2>1, GoneStaysGone
  <2>3. SettingUp(h)
    BY <1>2, <1>4, <2>2 DEF SettingUp, Awaiting, SetupReportsOk
  <2>4. AskOf(i, pending'[h].url) \in asked
    BY <1>4, <2>3 DEF HInv, SetupsAsked
  <2>5. SameAccount(conns'[i], conns[i])
    BY <1>1, <1>2, <1>3, <2>2, StepKeeps DEF Keeps
  <2> QED BY <2>4, <2>5 DEF AskOf, SameAccount
<1>5. CASE pending'[h] # pending[h]
  <2>1. pending[h] = NULL /\ conns' = conns /\ conns[i] # NULL
    BY <1>1, <1>2, <1>5, StepPending
  <2>2. [id |-> i, user |-> pending'[h].user, account |-> conns[i].account,
         url |-> pending'[h].url] \in NewAsks
    BY <1>2, <2>1 DEF NewAsks
  <2>3. conns'[i].user = pending'[h].user
    BY <1>1, <1>2 DEF IInv, PendingTargetsOwnRow
  <2> QED BY <2>1, <2>2, <2>3 DEF AskOf
<1> QED BY <1>4, <1>5

\* What a set-up asks names an account of the row it found.
LEMMA NewAsksType ==
    ASSUME HInv, Next
    PROVE  NewAsks \subseteq Ask
<1> SUFFICES ASSUME NEW h \in Handler, pending[h] = NULL, Awaiting(h, "setup")'
             PROVE  [id |-> pending'[h].id, user |-> pending'[h].user,
                     account |-> conns[pending'[h].id].account,
                     url |-> pending'[h].url] \in Ask
  BY DEF NewAsks
<1>1. IInv /\ IInv'
  BY NextIInv DEF HInv
<1>2. pending'[h] # NULL /\ pending'[h].op = "setup"
  BY DEF Awaiting
<1>3. pending'[h] \in SetupOp
  BY <1>1, <1>2 DEF IInv, TypeOK, DeleteOp, SetupOp, RefreshOp
<1>4. conns[pending'[h].id] # NULL /\ pending'[h].id \in Id
  BY <1>1, <1>2, StepPending
<1>5. conns[pending'[h].id] \in Row
  BY <1>1, <1>4 DEF IInv, TypeOK
<1> QED BY <1>3, <1>5 DEF Ask, SetupOp, Row

\* Whatever a batch sends on was asked for.
LEMMA ForwardsAskedStep ==
    ASSUME HInv, NEW p \in WebhookProvider, NEW body \in Batch,
           received < MaxBatches, NEW f \in Forwards(p, body)
    PROVE  f \in Forward /\ f.ask \in asked
<1>1. PICK k \in DOMAIN body : \E i \in Subscribed(p, body[k]) :
        f = [batch |-> received + 1, entry |-> k, body |-> body,
             ask |-> [id |-> i, user |-> conns[i].user, account |-> body[k],
                      url |-> conns[i].url]]
  BY DEF Forwards
<1>9. PICK i \in Subscribed(p, body[k]) :
        f = [batch |-> received + 1, entry |-> k, body |-> body,
             ask |-> [id |-> i, user |-> conns[i].user, account |-> body[k],
                      url |-> conns[i].url]]
  BY <1>1
<1>2. i \in Rows(conns) /\ conns[i].account = body[k] /\ conns[i].url # NULL
  BY DEF Subscribed
<1>3. AskOf(i, conns[i].url) \in asked
  BY <1>2 DEF HInv, RowsAsked
<1>4. f.ask = AskOf(i, conns[i].url)
  BY <1>9, <1>2 DEF AskOf
<1>5. f.ask \in asked /\ f.ask \in Ask
  BY <1>3, <1>4 DEF HInv, HooksTypeOK
<1>6. PICK n \in 1 .. MaxEntries : body \in [1 .. n -> Account]
  BY DEF Batch
<1>7. k \in 1 .. MaxEntries
  BY <1>6, BatchAssumption
<1>8. received + 1 \in 1 .. MaxBatches
  BY BatchAssumption DEF HInv, HooksTypeOK
<1> QED BY <1>9, <1>5, <1>7, <1>8 DEF Forward

\* Nothing is asked for at the start.
LEMMA HooksInitInv == HooksInit => HInv
<1> SUFFICES ASSUME HooksInit
             PROVE  HInv
  OBVIOUS
<1>1. IInv
  BY InitIInv DEF HooksInit
<1>2. HooksTypeOK /\ ForwardsWereAskedFor
  BY BatchAssumption DEF HooksInit, HooksTypeOK, ForwardsWereAskedFor
<1>3. RowsAsked /\ SetupsAsked
  BY DEF HooksInit, Init, RowsAsked, SetupsAsked, Rows, SettingUp, Awaiting
<1> QED BY <1>1, <1>2, <1>3 DEF HInv

\* Every step preserves the invariant.
LEMMA HooksNextInv == HInv /\ [HooksNext]_<<vars, hooks>> => HInv'
<1> SUFFICES ASSUME HInv, [HooksNext]_<<vars, hooks>>
             PROVE  HInv'
  OBVIOUS
<1>1. IInv'
  BY HooksStep, NextIInv DEF HInv, vars
<1>2. CASE VaultStep \/ Stop
  <2>1. Next /\ asked \subseteq asked'
    BY <1>2 DEF VaultStep, Stop, Next
  <2>2. NewAsks \subseteq asked' /\ asked' \subseteq asked \cup NewAsks
    <3>1. CASE VaultStep
      BY <3>1 DEF VaultStep
    <3>2. CASE Stop
      BY <3>2 DEF Stop, Restart, NewAsks, Awaiting
    <3> QED BY <1>2, <3>1, <3>2
  <2>3. flying' \subseteq flying /\ received' = received
    BY <1>2 DEF VaultStep, Stop
  <2>4. HooksTypeOK'
    BY <2>1, <2>2, <2>3, NewAsksType DEF HInv, HooksTypeOK
  <2>5. ForwardsWereAskedFor'
    BY <2>1, <2>3 DEF HInv, ForwardsWereAskedFor
  <2> QED BY <1>1, <2>1, <2>2, <2>4, <2>5, RowsAskedStep, SetupsAskedStep DEF HInv
<1>3. CASE UNCHANGED <<vars, asked>>
  <2>1. RowsAsked' /\ SetupsAsked'
    BY <1>3 DEF HInv, vars, RowsAsked, SetupsAsked, AskOf, SettingUp, Awaiting, SetupReportsOk
  <2>2. CASE \E p \in WebhookProvider, body \in Batch : Receive(p, body)
    <3>1. PICK p \in WebhookProvider, body \in Batch : Receive(p, body)
      BY <2>2
    <3>2. /\ received < MaxBatches /\ received' = received + 1
          /\ flying' = flying \cup Forwards(p, body) /\ asked' = asked
      BY <3>1 DEF Receive
    <3>3. \A f \in Forwards(p, body) : f \in Forward /\ f.ask \in asked
      BY <3>2, ForwardsAskedStep
    <3>4. HooksTypeOK'
      BY <3>2, <3>3, BatchAssumption DEF HInv, HooksTypeOK
    <3>5. ForwardsWereAskedFor'
      BY <3>2, <3>3 DEF HInv, ForwardsWereAskedFor
    <3> QED BY <1>1, <2>1, <3>4, <3>5 DEF HInv
  <2>3. CASE flying' \subseteq flying /\ received' = received
    <3>1. HooksTypeOK' /\ ForwardsWereAskedFor'
      BY <1>3, <2>3 DEF HInv, HooksTypeOK, ForwardsWereAskedFor
    <3> QED BY <1>1, <2>1, <3>1 DEF HInv
  <2>4. \/ VaultStep \/ Stop
        \/ \E p \in WebhookProvider, body \in Batch : Receive(p, body)
        \/ flying' \subseteq flying /\ received' = received
    BY DEF HooksNext, ForwardEnds, hooks
  <2> QED BY <1>2, <2>2, <2>3, <2>4
<1> QED BY <1>2, <1>3 DEF HooksNext, Receive, ForwardEnds, hooks

\* The forwards under way and the requests to subscribe are well formed
\* (graph_webhook.js, whatsapp-setup.js, instagram-setup.js).
THEOREM HooksTypeCorrect == HooksSpec => []HooksTypeOK
  BY HooksInitInv, HooksNextInv, PTL DEF HooksSpec, HInv

\* Events go only where the owner of the row asked for them, whatever set-ups,
\* deletions and reconnections ran since (setup-webhook, setWebhookForwardUrl,
\* findByWabaId, findByInstagramId).
THEOREM ForwardsAsked == HooksSpec => []ForwardsWereAskedFor
  BY HooksInitInv, HooksNextInv, PTL DEF HooksSpec, HInv
=============================================================================
