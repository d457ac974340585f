------------------------- MODULE ProxyRefreshProofs -------------------------
(***************************************************************************)
(* Proofs about ProxyRefresh for any number of requests, accounts, rows    *)
(* and issues, and any of the disturbances.  A step takes each request     *)
(* from one place to the next (Fate); what the requests hold there, with   *)
(* the invariant of the inflight map, carries the rest.                    *)
(***************************************************************************)
EXTENDS ProxyRefresh, TLAPS

Tables == [Id -> Row \cup {NULL}]

\* What a request is promised at each place of its handler.
Served ==
    \A q \in Req :
        /\ on[q] # NULL => pc[q] \in {"fresh", "retry"}
        /\ pc[q] \in {"fresh", "first", "retry"} => snap[q] # NULL
        /\ pc[q] # "done" => answer[q] = NULL
        /\ pc[q] \in {"idle", "fresh"} => Len(sent[q]) = 0
        /\ pc[q] \in {"first", "retry", "cancel"} => Len(sent[q]) = 1
        /\ pc[q] = "second" => Len(sent[q]) = 2
        /\ answer[q] = "torn401" => Len(sent[q]) = 2 \/ snap[q] = NULL

\* An answer of the token endpoint brings tokens.
AnswersBringTokens ==
    \A q \in Req : call[q] # NULL /\ call[q].state = "answered" => call[q].new \in Refreshed

IInv == TypeOK /\ AwaitedRefreshIsLive /\ Served /\ AnswersBringTokens

---------------------------------------------------------------------------
(* Places: what one step may make of a request. *)

Keeps(q) == sent'[q] = sent[q] /\ answer'[q] = answer[q]

Sends(q) == /\ snap'[q] # NULL /\ answer'[q] = answer[q]
            /\ sent'[q] = Append(sent[q], snap'[q].access)

Ends(q, answers) == /\ pc'[q] = "done" /\ sent'[q] = sent[q] /\ snap'[q] = snap[q]
                    /\ on'[q] = NULL /\ answer'[q] \in answers

Stays(q) == pc'[q] = pc[q] /\ on'[q] = on[q] /\ snap'[q] = snap[q] /\ Keeps(q)

Begins(q) ==
    /\ pc[q] = "idle"
    /\ \/ Ends(q, {"404"})
       \/ pc'[q] = "fresh" /\ snap'[q] # NULL /\ Keeps(q)
       \/ pc'[q] = "first" /\ on'[q] = NULL /\ Sends(q)

WakesFresh(q) ==
    /\ pc[q] = "fresh" /\ on'[q] = NULL
    /\ \/ pc'[q] = "first" /\ Sends(q)
       \/ pc'[q] = "done" /\ sent'[q] = sent[q] /\ answer'[q] \in {"500", "502"}

WakesRetry(q) ==
    /\ pc[q] = "retry" /\ on'[q] = NULL
    /\ \/ pc'[q] = "cancel" /\ Keeps(q)
       \/ Ends(q, {"401"})

GoesOn(q) ==
    \/ /\ pc[q] = "first"
       /\ \/ Ends(q, {"ok", "401", "502"})
          \/ pc'[q] = "retry" /\ route[q] = "forward" /\ snap'[q] = snap[q] /\ Keeps(q)
          \/ pc'[q] = "second" /\ route[q] = "media" /\ on'[q] = NULL
                               /\ snap'[q] = snap[q] /\ Sends(q)
    \/ /\ pc[q] = "cancel"
       /\ \/ snap[q] = NULL /\ Ends(q, {"torn401"})
          \/ pc'[q] = "second" /\ on'[q] = NULL /\ snap'[q] = snap[q] /\ Sends(q)
    \/ pc[q] = "second" /\ Ends(q, {"ok", "401", "torn401", "502"})

Dies(q) == pc[q] \notin {"idle", "done"} /\ Ends(q, {"reset"})

Fate(q) == Stays(q) \/ Begins(q) \/ WakesFresh(q) \/ WakesRetry(q) \/ GoesOn(q) \/ Dies(q)

---------------------------------------------------------------------------
(* The table. *)

\* A connect writes a row: a new one, or the one of the account.
LEMMA UpsertTable ==
    ASSUME NEW t \in Tables, NEW code \in Exchanged, NEW e \in {"valid", NULL},
           nextId \in 1 .. MaxRows + 1,
           UpsertId(t, nextId, NewRow(code, e)) \in Id
    PROVE  /\ Upsert(t, nextId, NewRow(code, e)) \in Tables
           /\ \A j \in Id : Upsert(t, nextId, NewRow(code, e))[j] # NULL =>
                \/ Upsert(t, nextId, NewRow(code, e))[j].access = code.access
                \/ t[j] # NULL /\ Upsert(t, nextId, NewRow(code, e))[j].access = t[j].access
<1> DEFINE new == NewRow(code, e)
           i == UpsertId(t, nextId, new)
           same == FindByAccount(t, new.user, new.provider, new.account)
           r == UpsertRow(t, nextId, new)
           d == r.is_default \/ Defaults(t, new.user, new.provider) = {}
           s == Upsert(t, nextId, new)
<1>1. /\ new.user = "u" /\ new.provider = "p" /\ new.account = code.account /\ new.alias = NULL
      /\ new.access = code.access /\ new.refresh = code.refresh /\ new.dek = "k"
      /\ new.expires = e /\ new.created = nextId
      /\ code.account \in Account /\ code.access \in Issue /\ code.refresh \in Gen
  BY DEF NewRow, Exchanged
<1>2. \/ i = nextId /\ same = {}
      \/ i \in same
  <2>1. CASE same = {}
    BY <2>1 DEF UpsertId
  <2>2. CASE same # {}
    <3>1. i = CHOOSE j \in same : TRUE
      BY <2>2 DEF UpsertId
    <3>2. (CHOOSE j \in same : TRUE) \in same
      BY <2>2
    <3> QED BY <3>1, <3>2
  <2> QED BY <2>1, <2>2
<1>3. r \in Row /\ r.access = code.access
  <2>1. CASE t[i] = NULL
    <3>1. i = nextId
      BY <1>2, <2>1 DEF FindByAccount, OfUser, Rows
    <3>2. r = Inserted(new)
      BY <2>1 DEF UpsertRow
    <3> QED BY <1>1, <3>1, <3>2 DEF Inserted, Row
  <2>2. CASE t[i] # NULL
    <3> DEFINE q == Coalesce(new.refresh, t[i].refresh)
    <3>1. t[i] \in Row
      BY <2>2 DEF Tables
    <3>2. r = [t[i] EXCEPT !.access = new.access, !.refresh = q,
                           !.dek = new.dek, !.expires = new.expires]
      BY <2>2, <3>1 DEF UpsertRow, Reconnected, Row
    <3>3. q \in Gen
      BY <1>1, <3>1 DEF Coalesce, Row
    <3> HIDE DEF q, r, i, new
    <3> QED BY <1>1, <3>1, <3>2, <3>3 DEF Row
  <2> QED BY <2>1, <2>2
<1>4. s = [t EXCEPT ![i] = [r EXCEPT !.is_default = d]]
  BY <1>3 DEF Upsert, Tables, Row
<1>5. d \in BOOLEAN
  BY <1>3 DEF Row
<1>6. [r EXCEPT !.is_default = d] \in Row /\ [r EXCEPT !.is_default = d].access = code.access
  <2> HIDE DEF r, d
  <2> QED BY <1>3, <1>5 DEF Row
<1>7. s \in Tables
  <2> HIDE DEF r, d, i, s
  <2> QED BY <1>4, <1>6 DEF Tables
<1>8. ASSUME NEW j \in Id, s[j] # NULL
      PROVE  s[j].access = code.access \/ (t[j] # NULL /\ s[j].access = t[j].access)
  <2> HIDE DEF r, d, i, s
  <2> QED BY <1>4, <1>6, <1>8 DEF Tables
<1> QED BY <1>7, <1>8

\* A refresh writes the tokens it brought into the row, if there still is one.
LEMMA UpdateTable ==
    ASSUME NEW t \in Tables, NEW i \in Id, NEW new \in Refreshed
    PROVE  LET s == UpdateTokens(t, i, new)
           IN  /\ s \in Tables
               /\ s[i] # NULL => s[i].access = new.access
               /\ \A j \in Id : j # i => s[j] = t[j]
               /\ s[i] = NULL <=> t[i] = NULL
<1>1. CASE t[i] = NULL
  BY <1>1 DEF UpdateTokens
<1>2. CASE t[i] # NULL
  <2> DEFINE q == Coalesce(new.refresh, t[i].refresh)
             k == Coalesce(new.dek, t[i].dek)
             r == [t[i] EXCEPT !.access = new.access, !.refresh = q,
                               !.dek = k, !.expires = new.expires]
  <2>1. t[i] \in Row
    BY <1>2 DEF Tables
  <2>2. q \in Gen /\ k \in {"k"}
    BY <2>1 DEF Coalesce, Row, Refreshed
  <2>3. UpdateTokens(t, i, new) = [t EXCEPT ![i] = r]
    BY <1>2, <2>1 DEF UpdateTokens, Tables, Row
  <2>4. r \in Row /\ r.access = new.access
    <3> HIDE DEF q, k
    <3> QED BY <2>1, <2>2 DEF Row, Refreshed
  <2>5. r # NULL
    BY <2>4, NullAssumption
  <2> HIDE DEF r
  <2> QED BY <1>2, <2>3, <2>4, <2>5 DEF Tables
<1> QED BY <1>1, <1>2

\* .. and leaves every row its account.
LEMMA UpdateAccount ==
    ASSUME NEW t \in Tables, NEW i \in Id, NEW new \in Refreshed
    PROVE  \A j \in Id : UpdateTokens(t, i, new)[j] # NULL =>
             t[j] # NULL /\ UpdateTokens(t, i, new)[j].account = t[j].account
<1>1. CASE t[i] = NULL
  BY <1>1 DEF UpdateTokens, Tables
<1>2. CASE t[i] # NULL
  <2> DEFINE q == Coalesce(new.refresh, t[i].refresh)
             k == Coalesce(new.dek, t[i].dek)
             r == [t[i] EXCEPT !.access = new.access, !.refresh = q,
                               !.dek = k, !.expires = new.expires]
  <2>1. t[i] \in Row
    BY <1>2 DEF Tables
  <2>2. UpdateTokens(t, i, new) = [t EXCEPT ![i] = r]
    BY <2>1, <1>2 DEF UpdateTokens, Tables, Row
  <2>3. r.account = t[i].account
    <3> HIDE DEF q, k
    <3> QED BY <2>1 DEF Row
  <2> HIDE DEF r
  <2> QED BY <1>2, <2>2, <2>3 DEF Tables
<1> QED BY <1>1, <1>2

\* What a handler reads of a row.
LEMMA SnapshotType ==
    ASSUME NEW t \in Tables, NEW i \in Id
    PROVE  /\ Snapshot(t, i) \in Snap \cup {NULL}
           /\ Snapshot(t, i) = NULL <=> t[i] = NULL
           /\ t[i] # NULL => /\ Snapshot(t, i).id = i
                             /\ Snapshot(t, i).access = t[i].access
                             /\ Snapshot(t, i).refresh = t[i].refresh
<1>1. CASE t[i] = NULL
  BY <1>1 DEF Snapshot
<1>2. CASE t[i] # NULL
  <2>1. t[i] \in Row
    BY <1>2 DEF Tables
  <2>2. Snapshot(t, i) = [id |-> i, access |-> t[i].access, refresh |-> t[i].refresh]
    BY <1>2 DEF Snapshot
  <2>3. Snapshot(t, i) \in Snap
    BY <2>1, <2>2 DEF Snap, Row
  <2> QED BY <1>2, <2>2, <2>3, NullAssumption
<1> QED BY <1>1, <1>2
---------------------------------------------------------------------------
(* The inflight map. *)

\* Joining a refresh, or starting one, keeps the map true.
LEMMA RefreshFlight ==
    ASSUME IInv, NEW q \in Req, NEW s \in Snap, s.refresh # NULL, on[q] = NULL,
           Refresh(q, s), snap' = [snap EXCEPT ![q] = s]
    PROVE  /\ on' \in [Req -> Req \cup {NULL}]
           /\ inflight' \in [Id -> Req \cup {NULL}]
           /\ call' \in [Req -> Call \cup {NULL}]
           /\ AwaitedRefreshIsLive' /\ AnswersBringTokens'
           /\ \A w \in Req : w # q => on'[w] = on[w]
<1> DEFINE i == s.id
<1>1. /\ on \in [Req -> Req \cup {NULL}] /\ inflight \in [Id -> Req \cup {NULL}]
      /\ call \in [Req -> Call \cup {NULL}] /\ snap \in [Req -> Snap \cup {NULL}]
      /\ AwaitedRefreshIsLive /\ AnswersBringTokens
  BY DEF IInv, TypeOK
<1>2. i \in Id /\ s # NULL /\ q # NULL
  BY NullAssumption DEF Snap
<1>3. ASSUME NEW w \in Req
      PROVE  on[w] # q
  BY <1>1, <1>2 DEF AwaitedRefreshIsLive
<1>4. CASE inflight[i] # NULL
  <2> DEFINE r == inflight[i]
  <2>1. r \in Req /\ on[r] = r /\ call[r].id = i /\ r # NULL /\ r # q
    BY <1>1, <1>2, <1>3, <1>4, NullAssumption DEF AwaitedRefreshIsLive
  <2>2. call[r] # NULL
    BY <1>1, <2>1 DEF AwaitedRefreshIsLive
  <2>3. on' = [on EXCEPT ![q] = r] /\ inflight' = inflight /\ call' = call
    BY <1>4 DEF Refresh
  <2>4. ASSUME NEW w \in Req, on'[w] # NULL
        PROVE  /\ on'[on'[w]] = on'[w] /\ call'[on'[w]] # NULL /\ snap'[w] # NULL
               /\ call'[on'[w]].id = snap'[w].id
               /\ inflight'[snap'[w].id] = on'[w]
    <3>1. CASE w = q
      BY <1>1, <1>2, <2>1, <2>2, <2>3, <3>1
    <3>2. CASE w # q
      <4>1. on'[w] = on[w] /\ snap'[w] = snap[w]
        BY <1>1, <2>3, <3>2
      <4> QED BY <1>1, <1>3, <2>3, <2>4, <4>1 DEF AwaitedRefreshIsLive
    <3> QED BY <3>1, <3>2
  <2>5. ASSUME NEW j \in Id, inflight'[j] # NULL
        PROVE  on'[inflight'[j]] = inflight'[j] /\ call'[inflight'[j]].id = j
    BY <1>1, <1>3, <2>3, <2>5 DEF AwaitedRefreshIsLive
  <2>6. AwaitedRefreshIsLive'
    BY <2>4, <2>5 DEF AwaitedRefreshIsLive
  <2> QED BY <1>1, <2>1, <2>3, <2>6 DEF AnswersBringTokens
<1>5. CASE inflight[i] = NULL
  <2> DEFINE c == [id |-> i, refresh |-> s.refresh, state |-> "asked", new |-> NULL]
  <2>1. /\ on' = [on EXCEPT ![q] = q] /\ inflight' = [inflight EXCEPT ![i] = q]
        /\ call' = [call EXCEPT ![q] = c]
    BY <1>5 DEF Refresh
  <2>2. c \in Call /\ c # NULL /\ c.id = i /\ c.state = "asked"
    BY <1>2, NullAssumption DEF Call, Snap, Gen
  <2> HIDE DEF c
  <2>3. ASSUME NEW w \in Req, on'[w] # NULL
        PROVE  /\ on'[on'[w]] = on'[w] /\ call'[on'[w]] # NULL /\ snap'[w] # NULL
               /\ call'[on'[w]].id = snap'[w].id
               /\ inflight'[snap'[w].id] = on'[w]
    <3>1. CASE w = q
      BY <1>1, <1>2, <2>1, <2>2, <3>1
    <3>2. CASE w # q
      <4>1. on'[w] = on[w] /\ snap'[w] = snap[w] /\ on[w] \in Req
        BY <1>1, <2>1, <2>3, <3>2
      <4>2. /\ on[on[w]] = on[w] /\ call[on[w]] # NULL /\ snap[w] # NULL
            /\ call[on[w]].id = snap[w].id /\ inflight[snap[w].id] = on[w]
        BY <1>1, <2>3, <4>1 DEF AwaitedRefreshIsLive
      <4>3. on[w] # q /\ snap[w].id # i
        BY <1>3, <1>5, <2>3, <4>1, <4>2
      <4>4. snap[w].id \in Id
        BY <1>1, <4>2 DEF Snap
      <4> QED BY <1>1, <2>1, <4>1, <4>2, <4>3, <4>4
    <3> QED BY <3>1, <3>2
  <2>4. ASSUME NEW j \in Id, inflight'[j] # NULL
        PROVE  on'[inflight'[j]] = inflight'[j] /\ call'[inflight'[j]].id = j
    <3>1. CASE j = i
      BY <1>1, <1>2, <2>1, <2>2, <3>1
    <3>2. CASE j # i
      <4>1. inflight'[j] = inflight[j] /\ inflight[j] \in Req
        BY <1>1, <2>1, <2>4, <3>2
      <4>2. on[inflight[j]] = inflight[j] /\ call[inflight[j]].id = j
        BY <1>1, <2>4, <4>1 DEF AwaitedRefreshIsLive
      <4>3. inflight[j] # q
        BY <1>3, <4>1, <4>2
      <4> QED BY <1>1, <2>1, <4>1, <4>2, <4>3
    <3> QED BY <3>1, <3>2
  <2>5. AwaitedRefreshIsLive'
    BY <2>3, <2>4 DEF AwaitedRefreshIsLive
  <2>6. AnswersBringTokens'
    BY <1>1, <2>1, <2>2 DEF AnswersBringTokens
  <2> QED BY <1>1, <2>1, <2>2, <2>5, <2>6
<1> QED BY <1>4, <1>5

\* A step that starts and settles no refresh keeps the map true.
LEMMA QuietFlight ==
    ASSUME IInv, UNCHANGED <<on, inflight>>,
           \A w \in Req : on[w] # NULL => snap'[w] = snap[w],
           \A w \in Req : call[w] # NULL => call'[w] # NULL /\ call'[w].id = call[w].id
    PROVE  AwaitedRefreshIsLive'
<1>1. /\ on \in [Req -> Req \cup {NULL}] /\ inflight \in [Id -> Req \cup {NULL}]
      /\ AwaitedRefreshIsLive
  BY DEF IInv, TypeOK
<1>2. ASSUME NEW w \in Req, on[w] # NULL
      PROVE  /\ on[on[w]] = on[w] /\ call'[on[w]] # NULL /\ snap'[w] # NULL
             /\ call'[on[w]].id = snap'[w].id
             /\ inflight[snap'[w].id] = on[w]
  BY <1>1, <1>2 DEF AwaitedRefreshIsLive
<1>3. ASSUME NEW j \in Id, inflight[j] # NULL
      PROVE  on[inflight[j]] = inflight[j] /\ call'[inflight[j]].id = j
  <2>1. inflight[j] \in Req /\ on[inflight[j]] = inflight[j] /\ call[inflight[j]].id = j
    BY <1>1, <1>3 DEF AwaitedRefreshIsLive
  <2>2. call[inflight[j]] # NULL
    BY <1>1, <1>3, <2>1 DEF AwaitedRefreshIsLive
  <2> QED BY <2>1, <2>2
<1> QED BY <1>2, <1>3 DEF AwaitedRefreshIsLive

---------------------------------------------------------------------------
(* The steps. *)

\* What every step does to the requests and to the map.
Effect == TypeOK' /\ AwaitedRefreshIsLive' /\ AnswersBringTokens' /\ \A q \in Req : Fate(q)

\* Steps that the requests do not see: those of the vault ..
LEMMA VaultStep ==
    ASSUME IInv, \/ FinishConnect \/ \E a \in Account : StartConnect(a)
                 \/ \E i \in Id : FallDue(i) \/ StartDelete(i)
                 \/ FinishDelete
    PROVE  Effect
<1>1. UNCHANGED <<inflight, call, request, kind, presented>>
  BY DEF StartConnect, FinishConnect, FallDue, StartDelete, FinishDelete, provider
<1>2. UNCHANGED <<inflight, call, pc, route, snap, on, sent, answer, kind, presented>>
  BY <1>1 DEF request
<1>3. conns \in Tables
  BY DEF IInv, TypeOK, Tables
<1>4. TypeOK'
  <2>1. ASSUME NEW a \in Account, StartConnect(a)
        PROVE  /\ conns' = conns /\ nextId' = nextId /\ deleting' = deleting
               /\ exchanged' \in Exchanged /\ issued' \in 0 .. MaxIssues
               /\ usable' \subseteq Issue /\ happened' \subseteq Disturbances
    <3>1. PICK refresh \in IF kind = "self" THEN {issued + 1} ELSE {issued + 1, NULL} :
                 /\ exchanged' = [account |-> a, access |-> issued + 1, refresh |-> refresh]
                 /\ usable' = usable \cup ({refresh} \ {NULL})
      BY <2>1 DEF StartConnect
    <3>2. issued + 1 \in Issue /\ issued' = issued + 1
      BY <2>1, ConstantsAssumption DEF StartConnect, MayIssue, IInv, TypeOK, Issue
    <3>3. refresh \in Gen
      BY <3>2 DEF Gen
    <3>4. exchanged' \in Exchanged
      BY <3>1, <3>2, <3>3 DEF Exchanged
    <3>5. issued' \in 0 .. MaxIssues
      BY <3>2, ConstantsAssumption DEF Issue
    <3>6. usable' \subseteq Issue
      BY <3>1, <3>3 DEF IInv, TypeOK, Gen
    <3>7. happened' \subseteq Disturbances
      BY <2>1 DEF StartConnect, Disturb, IInv, TypeOK
    <3> QED BY <2>1, <3>4, <3>5, <3>6, <3>7 DEF StartConnect
  <2>5. ASSUME FinishConnect
        PROVE  /\ conns' \in Tables /\ nextId' \in 1 .. MaxRows + 1 /\ deleting' = deleting
               /\ exchanged' = NULL /\ issued' = issued /\ usable' = usable
               /\ happened' = happened
    <3>1. PICK e \in {"valid", NULL} :
                 /\ UpsertId(conns, nextId, NewRow(exchanged, e)) \in Id
                 /\ conns' = Upsert(conns, nextId, NewRow(exchanged, e))
                 /\ nextId' = IF UpsertId(conns, nextId, NewRow(exchanged, e)) = nextId
                              THEN nextId + 1 ELSE nextId
      BY <2>5 DEF FinishConnect
    <3>2. exchanged \in Exchanged
      BY <2>5 DEF FinishConnect, IInv, TypeOK
    <3>3. conns' \in Tables
      BY <1>3, <3>1, <3>2, UpsertTable DEF IInv, TypeOK
    <3>4. nextId' \in 1 .. MaxRows + 1
      BY <3>1, ConstantsAssumption DEF IInv, TypeOK, Id
    <3> QED BY <2>5, <3>3, <3>4 DEF FinishConnect, provider
  <2>2. ASSUME NEW i \in Id, FallDue(i)
        PROVE  /\ conns' \in Tables /\ nextId' = nextId /\ deleting' = deleting
               /\ exchanged' = exchanged /\ issued' = issued /\ usable' = usable /\ happened' = happened
    <3>1. conns[i] \in Row /\ conns' = [conns EXCEPT ![i].expires = "due"]
      BY <1>3, <2>2 DEF FallDue, Tables
    <3>2. [conns[i] EXCEPT !.expires = "due"] \in Row
      BY <3>1 DEF Row
    <3> QED BY <1>3, <2>2, <3>1, <3>2 DEF FallDue, Tables, provider
  <2>3. ASSUME NEW i \in Id, StartDelete(i)
        PROVE  /\ conns' = conns /\ nextId' = nextId /\ deleting' \in Id
               /\ exchanged' = exchanged /\ issued' = issued /\ usable' = usable /\ happened' \subseteq Disturbances
    BY <2>3 DEF StartDelete, Disturb, provider, IInv, TypeOK
  <2>4. ASSUME FinishDelete
        PROVE  /\ conns' \in Tables /\ nextId' = nextId /\ deleting' = NULL
               /\ exchanged' = exchanged /\ issued' = issued /\ usable' \subseteq Issue /\ happened' = happened
    BY <1>3, <2>4 DEF FinishDelete, Remove, Tables, IInv, TypeOK
  <2> QED BY <1>2, <1>3, <2>1, <2>2, <2>3, <2>4, <2>5 DEF IInv, TypeOK, Tables
<1>5. AwaitedRefreshIsLive' /\ AnswersBringTokens'
  BY <1>2, QuietFlight DEF IInv, AnswersBringTokens
<1>6. \A q \in Req : Fate(q)
  BY <1>2 DEF Fate, Stays, Keeps
<1> QED BY <1>4, <1>5, <1>6 DEF Effect

\* .. and those of the provider and the network.
LEMMA ProviderStep ==
    ASSUME IInv, NEW q \in Req, ProviderHandles(q) \/ NetworkFault(q)
    PROVE  Effect
<1>1. /\ UNCHANGED <<conns, nextId, inflight, pc, route, snap, on, sent, answer,
                    exchanged, deleting, kind>>
      /\ call[q] # NULL
  BY DEF ProviderHandles, NetworkFault, request, provider
<1>2. call \in [Req -> Call \cup {NULL}] /\ call[q] \in Call
  BY <1>1 DEF IInv, TypeOK
<1>3. PICK c \in Call : /\ call' = [call EXCEPT ![q] = c]
                        /\ c.id = call[q].id
                        /\ c.state = "answered" => c.new \in Refreshed
                        /\ issued' \in 0 .. MaxIssues /\ usable' \subseteq Issue
                        /\ presented' \subseteq Issue /\ happened' \subseteq Disturbances
  <2>1. CASE NetworkFault(q) \/ (ProviderHandles(q) /\ Refused(q))
    <3> DEFINE c == [call[q] EXCEPT !.state = "failed"]
    <3>1. c \in Call /\ c.id = call[q].id /\ c.state = "failed"
      BY <1>2 DEF Call
    <3>2. call' = [call EXCEPT ![q] = c]
      BY <1>2, <2>1 DEF NetworkFault, Refused
    <3>3. call[q].refresh \in Issue
      BY <1>2 DEF Call
    <3>4. /\ issued' = issued /\ usable' \subseteq Issue
          /\ presented' \subseteq Issue /\ happened' \subseteq Disturbances
      BY <2>1, <3>3 DEF NetworkFault, ProviderHandles, Refused, Disturb, provider, IInv, TypeOK
    <3> QED BY <3>1, <3>2, <3>4 DEF IInv, TypeOK
  <2>2. CASE ProviderHandles(q) /\ Accepted(q)
    <3> DEFINE n == issued + 1
               next == IF kind = "fixed" THEN NULL ELSE n
    <3>1. n \in Issue
      BY <2>2, ConstantsAssumption DEF Accepted, MayIssue, IInv, TypeOK, Issue
    <3>2. PICK e \in {"valid", NULL} :
            call' = [call EXCEPT ![q].state = "answered",
                        ![q].new = [access |-> n, refresh |-> next, dek |-> NULL, expires |-> e]]
      BY <2>2 DEF Accepted
    <3> DEFINE new == [access |-> n, refresh |-> next, dek |-> NULL, expires |-> e]
               c == [call[q] EXCEPT !.state = "answered", !.new = new]
    <3>3. new \in Refreshed
      BY <3>1 DEF Refreshed, Gen
    <3>4. c \in Call /\ c.id = call[q].id /\ c.new = new
      <4> HIDE DEF new
      <4> QED BY <1>2, <3>3 DEF Call
    <3>5. call' = [call EXCEPT ![q] = c]
      BY <1>2, <3>2
    <3>6. /\ issued' \in 0 .. MaxIssues /\ usable' \subseteq Issue
          /\ presented' = presented /\ happened' = happened
      BY <2>2, <3>1, ConstantsAssumption DEF Accepted, ProviderHandles, IInv, TypeOK, Issue
    <3> QED BY <3>3, <3>4, <3>5, <3>6 DEF IInv, TypeOK
  <2> QED BY <2>1, <2>2 DEF ProviderHandles
<1>4. TypeOK'
  BY <1>1, <1>2, <1>3 DEF IInv, TypeOK
<1>5. c # NULL
  BY <1>3, NullAssumption
<1>6. AwaitedRefreshIsLive' /\ AnswersBringTokens'
  BY <1>1, <1>2, <1>3, <1>5, QuietFlight DEF IInv, AnswersBringTokens
<1>7. \A w \in Req : Fate(w)
  BY <1>1 DEF Fate, Stays, Keeps
<1> QED BY <1>4, <1>6, <1>7 DEF Effect
\* Arrive and FirstAnswer: a request that awaits nothing goes on, and may come to
\* await a refresh.
LEMMA ArriveStep ==
    ASSUME IInv, NEW q \in Req, NotConnected(q) \/ \E i \in Id : Arrive(q, i)
    PROVE  Effect
<1>1. /\ pc[q] = "idle" /\ on[q] = NULL /\ answer[q] = NULL
      /\ on \in [Req -> Req \cup {NULL}] /\ snap \in [Req -> Snap \cup {NULL}]
      /\ pc \in [Req -> {"idle", "fresh", "first", "retry", "cancel", "second", "done"}]
      /\ sent \in [Req -> Seq(Issue)] /\ answer \in [Req -> Answers \cup {NULL}]
      /\ conns \in Tables
  BY DEF NotConnected, Arrive, IInv, Served, TypeOK, Tables
<1>2. CASE NotConnected(q)
  <2>1. /\ pc' = [pc EXCEPT ![q] = "done"] /\ answer' = [answer EXCEPT ![q] = "404"]
        /\ UNCHANGED <<conns, nextId, inflight, call, route, snap, on, sent, exchanged, deleting,
                       kind, issued, usable, presented, happened>>
    BY <1>2 DEF NotConnected, Answer, provider
  <2>2. TypeOK'
    BY <1>1, <2>1 DEF IInv, TypeOK, Answers
  <2>3. AwaitedRefreshIsLive' /\ AnswersBringTokens'
    BY <2>1, QuietFlight DEF IInv, AnswersBringTokens
  <2>4. \A w \in Req : Fate(w)
    BY <1>1, <2>1 DEF Fate, Stays, Keeps, Begins, Ends
  <2> QED BY <2>2, <2>3, <2>4 DEF Effect
<1>3. ASSUME NEW i \in Id, Arrive(q, i)
      PROVE  Effect
  <2> DEFINE s == Snapshot(conns, i)
  <2>1. /\ snap' = [snap EXCEPT ![q] = s] /\ conns[i] # NULL
        /\ UNCHANGED <<conns, nextId, route, exchanged, deleting, kind, issued, usable, presented, happened>>
    BY <1>3 DEF Arrive, provider
  <2>2. s \in Snap /\ s # NULL /\ s.refresh = conns[i].refresh /\ s.access \in Issue
    BY <1>1, <2>1, SnapshotType DEF Snap
  <2> HIDE DEF s
  <2>3. CASE NeedsRefresh(i)
    <3>1. /\ Refresh(q, s) /\ pc' = [pc EXCEPT ![q] = "fresh"] /\ UNCHANGED <<sent, answer>>
      BY <1>3, <2>3 DEF Arrive, s
    <3>2. s.refresh # NULL
      BY <2>2, <2>3 DEF NeedsRefresh
    <3>3. /\ on' \in [Req -> Req \cup {NULL}]
          /\ inflight' \in [Id -> Req \cup {NULL}]
          /\ call' \in [Req -> Call \cup {NULL}]
          /\ AwaitedRefreshIsLive' /\ AnswersBringTokens'
          /\ \A w \in Req : w # q => on'[w] = on[w]
      BY <1>1, <2>1, <2>2, <3>1, <3>2, RefreshFlight
    <3>4. TypeOK'
      BY <1>1, <2>1, <2>2, <3>1, <3>3 DEF IInv, TypeOK
    <3>5. \A w \in Req : Fate(w)
      <4> TAKE w \in Req
      <4>1. CASE w = q
        BY <1>1, <2>1, <2>2, <3>1, <4>1 DEF Fate, Begins, Keeps
      <4>2. CASE w # q
        BY <1>1, <2>1, <3>1, <3>3, <4>2 DEF Fate, Stays, Keeps
      <4> QED BY <4>1, <4>2
    <3> QED BY <3>3, <3>4, <3>5 DEF Effect
  <2>4. CASE ~ NeedsRefresh(i)
    <3>1. /\ Send(q, s) /\ UNCHANGED <<on, inflight, call>>
      BY <1>3, <2>4 DEF Arrive, s
    <3>2. /\ pc' = [pc EXCEPT ![q] = "first"] /\ UNCHANGED answer
          /\ sent' = [sent EXCEPT ![q] = Append(@, s.access)]
      BY <2>2, <3>1 DEF Send
    <3>3. Append(sent[q], s.access) \in Seq(Issue)
      BY <1>1, <2>2
    <3>4. TypeOK'
      BY <1>1, <2>1, <2>2, <3>1, <3>2, <3>3 DEF IInv, TypeOK
    <3>5. AwaitedRefreshIsLive' /\ AnswersBringTokens'
      BY <1>1, <2>1, <3>1, QuietFlight DEF IInv, AnswersBringTokens
    <3>6. \A w \in Req : Fate(w)
      <4> TAKE w \in Req
      <4>1. CASE w = q
        BY <1>1, <2>1, <2>2, <3>1, <3>2, <4>1 DEF Fate, Begins, Sends
      <4>2. CASE w # q
        BY <1>1, <2>1, <3>1, <3>2, <4>2 DEF Fate, Stays, Keeps
      <4> QED BY <4>1, <4>2
    <3> QED BY <3>4, <3>5, <3>6 DEF Effect
  <2> QED BY <2>3, <2>4
<1> QED BY <1>2, <1>3

\* The upstream answers, or is called again.
LEMMA UpstreamStep ==
    ASSUME IInv, NEW q \in Req,
           FirstAnswer(q) \/ Retry(q) \/ SecondAnswer(q) \/ Metadata(q)
    PROVE  Effect
<1>1. /\ pc[q] \in {"first", "cancel", "second"} /\ on[q] = NULL
      /\ on \in [Req -> Req \cup {NULL}] /\ snap \in [Req -> Snap \cup {NULL}]
      /\ pc \in [Req -> {"idle", "fresh", "first", "retry", "cancel", "second", "done"}]
      /\ sent \in [Req -> Seq(Issue)] /\ answer \in [Req -> Answers \cup {NULL}]
  BY DEF FirstAnswer, Retry, SecondAnswer, Metadata, IInv, Served, TypeOK
<1>2. UNCHANGED <<conns, nextId, route, snap, exchanged, deleting, kind, issued, usable, presented, happened>>
  BY DEF FirstAnswer, Retry, SecondAnswer, Metadata, provider
<1>3. pc[q] = "first" => snap[q] \in Snap
  BY <1>1 DEF IInv, Served
<1>4. ASSUME NEW a \in Answers, Answer(q, a), UNCHANGED <<inflight, call, on, sent>>,
             \/ pc[q] = "first" /\ a \in {"ok", "401", "502"}
             \/ pc[q] = "cancel" /\ a = "torn401" /\ snap[q] = NULL
             \/ pc[q] = "second" /\ a \in {"ok", "401", "torn401", "502"}
      PROVE  Effect
  <2>1. pc' = [pc EXCEPT ![q] = "done"] /\ answer' = [answer EXCEPT ![q] = a]
    BY <1>4 DEF Answer
  <2>2. TypeOK'
    BY <1>1, <1>2, <1>4, <2>1 DEF IInv, TypeOK
  <2>3. AwaitedRefreshIsLive' /\ AnswersBringTokens'
    BY <1>2, <1>4, QuietFlight DEF IInv, AnswersBringTokens
  <2>4. \A w \in Req : Fate(w)
    BY <1>1, <1>2, <1>4, <2>1 DEF Fate, Stays, Keeps, GoesOn, Ends
  <2> QED BY <2>2, <2>3, <2>4 DEF Effect
<1>5. ASSUME UNCHANGED <<inflight, call, on, answer>>, snap[q] # NULL,
             \/ pc[q] = "first" /\ route[q] = "media"
             \/ pc[q] = "cancel",
             pc' = [pc EXCEPT ![q] = "second"],
             sent' = [sent EXCEPT ![q] = Append(@, snap[q].access)]
      PROVE  Effect
  <2>1. snap[q] \in Snap /\ snap[q].access \in Issue
    BY <1>1, <1>5 DEF Snap
  <2>2. Append(sent[q], snap[q].access) \in Seq(Issue)
    BY <1>1, <2>1
  <2>3. TypeOK'
    BY <1>1, <1>2, <1>5, <2>2 DEF IInv, TypeOK
  <2>4. AwaitedRefreshIsLive' /\ AnswersBringTokens'
    BY <1>2, <1>5, QuietFlight DEF IInv, AnswersBringTokens
  <2>5. \A w \in Req : Fate(w)
    <3> TAKE w \in Req
    <3>1. CASE w = q
      BY <1>1, <1>2, <1>5, <3>1 DEF Fate, GoesOn, Sends
    <3>2. CASE w # q
      BY <1>1, <1>2, <1>5, <3>2 DEF Fate, Stays, Keeps
    <3> QED BY <3>1, <3>2
  <2> QED BY <2>3, <2>4, <2>5 DEF Effect
<1>6. ASSUME pc[q] = "first", route[q] = "forward", snap[q].refresh # NULL,
             pc' = [pc EXCEPT ![q] = "retry"], Refresh(q, snap[q]), UNCHANGED <<answer, sent>>
      PROVE  Effect
  <2>1. snap' = [snap EXCEPT ![q] = snap[q]]
    BY <1>1, <1>2
  <2>2. /\ on' \in [Req -> Req \cup {NULL}]
        /\ inflight' \in [Id -> Req \cup {NULL}]
        /\ call' \in [Req -> Call \cup {NULL}]
        /\ AwaitedRefreshIsLive' /\ AnswersBringTokens'
        /\ \A w \in Req : w # q => on'[w] = on[w]
    BY <1>1, <1>3, <1>6, <2>1, RefreshFlight
  <2>3. TypeOK'
    BY <1>1, <1>2, <1>6, <2>2 DEF IInv, TypeOK
  <2>4. \A w \in Req : Fate(w)
    <3> TAKE w \in Req
    <3>1. CASE w = q
      BY <1>1, <1>2, <1>6, <3>1 DEF Fate, GoesOn, Keeps
    <3>2. CASE w # q
      BY <1>1, <1>2, <1>6, <2>2, <3>2 DEF Fate, Stays, Keeps
    <3> QED BY <3>1, <3>2
  <2> QED BY <2>2, <2>3, <2>4 DEF Effect
<1>7. CASE FirstAnswer(q)
  <2>1. \/ \E a \in {"ok", "401", "502"} : Answer(q, a) /\ UNCHANGED <<inflight, call, on, sent>>
        \/ /\ snap[q].refresh # NULL /\ pc' = [pc EXCEPT ![q] = "retry"]
           /\ Refresh(q, snap[q]) /\ UNCHANGED <<answer, sent>>
    BY <1>7 DEF FirstAnswer
  <2> QED BY <1>4, <1>6, <1>7, <2>1 DEF FirstAnswer, Answers
<1>8. CASE Retry(q)
  <2>1. \/ snap[q] = NULL /\ Answer(q, "torn401") /\ UNCHANGED <<inflight, call, on, sent>>
        \/ /\ snap[q] # NULL /\ UNCHANGED <<inflight, call, on, answer>>
           /\ pc' = [pc EXCEPT ![q] = "second"]
           /\ sent' = [sent EXCEPT ![q] = Append(@, snap[q].access)]
    BY <1>8 DEF Retry
  <2> QED BY <1>4, <1>5, <1>8, <2>1 DEF Retry, Answers
<1>9. CASE SecondAnswer(q)
  <2>1. \E a \in {"ok", "401", "torn401", "502"} :
          Answer(q, a) /\ UNCHANGED <<inflight, call, on, sent>>
    BY <1>9 DEF SecondAnswer
  <2> QED BY <1>4, <1>9, <2>1 DEF SecondAnswer, Answers
<1>10. CASE Metadata(q)
  <2>1. \/ \E a \in {"401", "502"} : Answer(q, a) /\ UNCHANGED <<inflight, call, on, sent>>
        \/ /\ UNCHANGED <<inflight, call, on, answer>>
           /\ pc' = [pc EXCEPT ![q] = "second"]
           /\ sent' = [sent EXCEPT ![q] = Append(@, snap[q].access)]
    BY <1>10 DEF Metadata
  <2>2. snap[q] # NULL
    BY <1>10 DEF Metadata, IInv, Served
  <2> QED BY <1>4, <1>5, <1>10, <2>1, <2>2 DEF Metadata, Answers
<1> QED BY <1>7, <1>8, <1>9, <1>10
\* What settles: the waiters hold the row as it is after the update, or what they held.
Held(q, w) == IF call[q].state = "answered" THEN Snapshot(conns', call[q].id) ELSE snap[w]

\* A refresh that settles frees its entry and wakes everybody who awaited it.
LEMMA SettleEffect ==
    ASSUME IInv, NEW q \in Req, Settle(q)
    PROVE  /\ call[q] \in Call /\ call[q].id \in Id /\ inflight[call[q].id] = q
           /\ conns' \in Tables
           /\ call[q].state = "answered" =>
                /\ call[q].new \in Refreshed
                /\ conns' = UpdateTokens(conns, call[q].id, call[q].new)
           /\ call[q].state # "answered" => conns' = conns
           /\ inflight' = [inflight EXCEPT ![call[q].id] = NULL]
           /\ call' = [call EXCEPT ![q] = NULL]
           /\ UNCHANGED <<nextId, route, exchanged, deleting, kind, issued, usable, presented, happened>>
           /\ on' = [w \in Req |-> IF on[w] = q THEN NULL ELSE on[w]]
           /\ \A w \in Req : on[w] = q => /\ pc[w] \in {"fresh", "retry"}
                                          /\ snap[w] \in Snap /\ snap[w].id = call[q].id
           /\ snap' = [w \in Req |-> IF on[w] = q THEN Held(q, w) ELSE snap[w]]
           /\ \A w \in Req : on[w] = q => Held(q, w) \in Snap \cup {NULL}
<1>1. /\ on[q] = q /\ q # NULL /\ call \in [Req -> Call \cup {NULL}]
      /\ on \in [Req -> Req \cup {NULL}] /\ snap \in [Req -> Snap \cup {NULL}]
      /\ conns \in Tables
  BY NullAssumption DEF Settle, IInv, TypeOK, Tables
<1>2. /\ call[q] # NULL /\ call[q].id = snap[q].id /\ inflight[snap[q].id] = q
  BY <1>1 DEF IInv, AwaitedRefreshIsLive
<1>3. call[q] \in Call /\ call[q].id \in Id
  BY <1>1, <1>2 DEF Call
<1>4. \A w \in Req : on[w] = q => /\ pc[w] \in {"fresh", "retry"} /\ snap[w] \in Snap
                                 /\ snap[w].id = call[q].id
  BY <1>1 DEF IInv, AwaitedRefreshIsLive, Served
<1>5. /\ conns' = IF call[q].state = "answered"
                  THEN UpdateTokens(conns, call[q].id, call[q].new) ELSE conns
      /\ inflight' = [inflight EXCEPT ![call[q].id] = NULL]
      /\ call' = [call EXCEPT ![q] = NULL]
      /\ UNCHANGED <<nextId, route, exchanged, deleting, kind, issued, usable, presented, happened>>
      /\ Resume(q, Snapshot(conns', call[q].id), call[q].state = "answered")
  BY DEF Settle, provider
<1>6. call[q].state = "answered" => call[q].new \in Refreshed
  BY <1>2 DEF IInv, AnswersBringTokens
<1>7. conns' \in Tables
  BY <1>1, <1>3, <1>5, <1>6, UpdateTable
<1>8. /\ on' = [w \in Req |-> IF on[w] = q THEN NULL ELSE on[w]]
      /\ snap' = [w \in Req |-> IF on[w] = q THEN Held(q, w) ELSE snap[w]]
  BY <1>5 DEF Resume, Waiters, Held
<1>9. \A w \in Req : on[w] = q => Held(q, w) \in Snap \cup {NULL}
  BY <1>3, <1>4, <1>7, SnapshotType DEF Held
<1> QED BY <1>2, <1>3, <1>4, <1>5, <1>6, <1>7, <1>8, <1>9

\* Where it leaves them.
LEMMA SettleFates ==
    ASSUME IInv, NEW q \in Req, Settle(q)
    PROVE  /\ pc' \in [Req -> {"idle", "fresh", "first", "retry", "cancel", "second", "done"}]
           /\ sent' \in [Req -> Seq(Issue)]
           /\ answer' \in [Req -> Answers \cup {NULL}]
           /\ \A w \in Req :
                IF on[w] = q THEN WakesFresh(w) \/ WakesRetry(w) ELSE Stays(w)
<1> DEFINE ok == call[q].state = "answered"
           fresh == {w \in Waiters(q) : pc[w] = "fresh"}
           retry == {w \in Waiters(q) : pc[w] = "retry"}
<1>1. /\ pc \in [Req -> {"idle", "fresh", "first", "retry", "cancel", "second", "done"}]
      /\ sent \in [Req -> Seq(Issue)] /\ answer \in [Req -> Answers \cup {NULL}]
  BY DEF IInv, TypeOK
<1>2. /\ pc' = [w \in Req |->
              CASE w \in fresh -> IF Held(q, w) = NULL THEN "done" ELSE "first"
                [] w \in retry -> IF ok THEN "cancel" ELSE "done"
                [] OTHER -> pc[w]]
      /\ sent' = [w \in Req |->
              IF w \in fresh /\ Held(q, w) # NULL THEN Append(sent[w], Held(q, w).access)
                                                 ELSE sent[w]]
      /\ answer' = [w \in Req |->
              CASE w \in fresh /\ Held(q, w) = NULL ->
                        IF route[w] = "media" THEN "500" ELSE "502"
                [] w \in retry /\ ~ ok -> "401"
                [] OTHER -> answer[w]]
  BY DEF Settle, Resume, Held, FirstResponse
<1>3. /\ \A w \in Req : on[w] = q => /\ pc[w] \in {"fresh", "retry"}
                                     /\ Held(q, w) \in Snap \cup {NULL}
      /\ \A w \in Req : on'[w] = IF on[w] = q THEN NULL ELSE on[w]
      /\ \A w \in Req : snap'[w] = IF on[w] = q THEN Held(q, w) ELSE snap[w]
  BY SettleEffect
<1>4. ASSUME NEW w \in Req
      PROVE  /\ IF on[w] = q THEN WakesFresh(w) \/ WakesRetry(w) ELSE Stays(w)
             /\ pc'[w] \in {"idle", "fresh", "first", "retry", "cancel", "second", "done"}
             /\ sent'[w] \in Seq(Issue)
             /\ answer'[w] \in Answers \cup {NULL}
  <2>1. CASE on[w] = q /\ pc[w] = "fresh"
    <3>1. w \in fresh /\ w \notin retry
      BY <2>1 DEF Waiters
    <3>2. CASE Held(q, w) = NULL
      <4>1. /\ pc'[w] = "done" /\ sent'[w] = sent[w]
            /\ answer'[w] = IF route[w] = "media" THEN "500" ELSE "502"
        BY <1>2, <3>1, <3>2
      <4> QED BY <1>1, <1>3, <2>1, <4>1 DEF WakesFresh, Answers
    <3>3. CASE Held(q, w) # NULL
      <4>1. /\ pc'[w] = "first" /\ sent'[w] = Append(sent[w], Held(q, w).access)
            /\ answer'[w] = answer[w]
        BY <1>2, <3>1, <3>3
      <4>2. Held(q, w).access \in Issue
        BY <1>3, <2>1, <3>3 DEF Snap
      <4>3. snap'[w] = Held(q, w) /\ on'[w] = NULL
        BY <1>3, <2>1
      <4>4. WakesFresh(w)
        BY <2>1, <3>3, <4>1, <4>3 DEF WakesFresh, Sends
      <4>5. sent[w] \in Seq(Issue) /\ answer[w] \in Answers \cup {NULL}
        BY <1>1
      <4>6. Append(sent[w], Held(q, w).access) \in Seq(Issue)
        BY <4>2, <4>5
      <4> QED BY <2>1, <4>1, <4>4, <4>5, <4>6
    <3> QED BY <3>2, <3>3
  <2>2. CASE on[w] = q /\ pc[w] = "retry"
    <3>1. w \notin fresh /\ w \in retry
      BY <2>2 DEF Waiters
    <3>2. CASE ok
      <4>1. pc'[w] = "cancel" /\ sent'[w] = sent[w] /\ answer'[w] = answer[w]
        BY <1>2, <3>1, <3>2
      <4> QED BY <1>1, <1>3, <2>2, <4>1 DEF WakesRetry, Keeps
    <3>3. CASE ~ ok
      <4>1. pc'[w] = "done" /\ sent'[w] = sent[w] /\ answer'[w] = "401"
        BY <1>2, <3>1, <3>3
      <4>2. snap'[w] = snap[w]
        BY <1>3, <2>2, <3>3 DEF Held
      <4> QED BY <1>1, <1>3, <2>2, <4>1, <4>2 DEF WakesRetry, Ends, Answers
    <3> QED BY <3>2, <3>3
  <2>3. CASE on[w] # q
    <3>1. w \notin fresh /\ w \notin retry
      BY <2>3 DEF Waiters
    <3>2. pc'[w] = pc[w] /\ sent'[w] = sent[w] /\ answer'[w] = answer[w]
      BY <1>2, <3>1
    <3> QED BY <1>1, <1>3, <2>3, <3>2 DEF Stays, Keeps
  <2> QED BY <1>3, <2>1, <2>2, <2>3
<1> QED BY <1>2, <1>4

LEMMA SettleStep ==
    ASSUME IInv, NEW q \in Req, Settle(q)
    PROVE  Effect
<1> DEFINE i == call[q].id
<1>1. /\ on \in [Req -> Req \cup {NULL}] /\ inflight \in [Id -> Req \cup {NULL}]
      /\ call \in [Req -> Call \cup {NULL}] /\ snap \in [Req -> Snap \cup {NULL}]
      /\ q # NULL
  BY NullAssumption DEF IInv, TypeOK
<1>2. /\ i \in Id /\ inflight[i] = q /\ conns' \in Tables
      /\ inflight' = [inflight EXCEPT ![i] = NULL] /\ call' = [call EXCEPT ![q] = NULL]
      /\ UNCHANGED <<nextId, route, exchanged, deleting, kind, issued, usable, presented, happened>>
      /\ on' = [w \in Req |-> IF on[w] = q THEN NULL ELSE on[w]]
      /\ snap' = [w \in Req |-> IF on[w] = q THEN Held(q, w) ELSE snap[w]]
      /\ \A w \in Req : on[w] = q => Held(q, w) \in Snap \cup {NULL}
  BY SettleEffect
<1>3. TypeOK'
  <2>1. /\ on' \in [Req -> Req \cup {NULL}] /\ snap' \in [Req -> Snap \cup {NULL}]
        /\ inflight' \in [Id -> Req \cup {NULL}] /\ call' \in [Req -> Call \cup {NULL}]
    BY <1>1, <1>2
  <2> QED BY <1>2, <2>1, SettleFates DEF IInv, TypeOK, Tables
<1>4. ASSUME NEW w \in Req, on'[w] # NULL
      PROVE  /\ on'[on'[w]] = on'[w] /\ call'[on'[w]] # NULL /\ snap'[w] # NULL
             /\ call'[on'[w]].id = snap'[w].id
             /\ inflight'[snap'[w].id] = on'[w]
  <2> DEFINE r == on[w]
  <2>1. on'[w] = r /\ r # q /\ snap'[w] = snap[w] /\ r \in Req
    BY <1>1, <1>2, <1>4
  <2>2. /\ on[r] = r /\ call[r] # NULL /\ snap[w] # NULL
        /\ call[r].id = snap[w].id /\ inflight[snap[w].id] = r
    BY <1>4, <2>1 DEF IInv, AwaitedRefreshIsLive
  <2>3. snap[w].id # i /\ snap[w].id \in Id
    BY <1>1, <1>2, <2>1, <2>2 DEF Snap
  <2>4. on'[r] = r /\ call'[r] = call[r] /\ inflight'[snap[w].id] = r
    BY <1>1, <1>2, <2>1, <2>2, <2>3
  <2> QED BY <2>1, <2>2, <2>4
<1>5. ASSUME NEW j \in Id, inflight'[j] # NULL
      PROVE  on'[inflight'[j]] = inflight'[j] /\ call'[inflight'[j]].id = j
  <2> DEFINE r == inflight[j]
  <2>1. j # i /\ inflight'[j] = r /\ r \in Req /\ r # NULL
    BY <1>1, <1>2, <1>5
  <2>2. on[r] = r /\ call[r].id = j
    BY <2>1 DEF IInv, AwaitedRefreshIsLive
  <2>3. r # q
    BY <2>1, <2>2
  <2>4. on'[r] = r /\ call'[r] = call[r]
    BY <1>1, <1>2, <2>1, <2>2, <2>3
  <2> QED BY <2>1, <2>2, <2>4
<1>6. AwaitedRefreshIsLive'
  BY <1>4, <1>5 DEF AwaitedRefreshIsLive
<1>7. AnswersBringTokens'
  BY <1>1, <1>2 DEF IInv, AnswersBringTokens
<1>8. \A w \in Req : Fate(w)
  BY SettleFates DEF Fate
<1> QED BY <1>3, <1>6, <1>7, <1>8 DEF Effect

\* A restart empties the map and closes what was open.
LEMMA CrashStep ==
    ASSUME IInv, Crash
    PROVE  Effect
<1>1. /\ inflight' = [i \in Id |-> NULL] /\ on' = [q \in Req |-> NULL] /\ deleting' = NULL /\ exchanged' = NULL
      /\ pc' = [q \in Req |-> IF pc[q] = "idle" THEN "idle" ELSE "done"]
      /\ answer' = [q \in Req |-> IF pc[q] \in {"idle", "done"} THEN answer[q] ELSE "reset"]
      /\ usable' \subseteq usable /\ happened' \subseteq Disturbances
      /\ UNCHANGED <<conns, nextId, call, route, snap, sent, kind, issued, presented>>
  BY DEF Crash, Disturb, IInv, TypeOK
<1>2. TypeOK'
  BY <1>1 DEF IInv, TypeOK, Answers
<1>3. AwaitedRefreshIsLive' /\ AnswersBringTokens'
  BY <1>1 DEF IInv, AwaitedRefreshIsLive, AnswersBringTokens
<1>4. ASSUME NEW q \in Req
      PROVE  Fate(q)
  <2>1. CASE pc[q] \in {"idle", "done"}
    <3>1. on[q] = NULL
      BY <2>1 DEF IInv, Served
    <3> QED BY <1>1, <2>1, <3>1 DEF Fate, Stays, Keeps
  <2>2. CASE pc[q] \notin {"idle", "done"}
    BY <1>1, <2>2 DEF Fate, Dies, Ends
  <2> QED BY <2>1, <2>2
<1> QED BY <1>2, <1>3, <1>4 DEF Effect

\* Every step.
LEMMA StepEffect ==
    ASSUME IInv, [Next]_vars
    PROVE  Effect
<1>1. CASE UNCHANGED vars
  <2>1. UNCHANGED <<conns, nextId, inflight, call, pc, route, snap, on, sent, answer, exchanged, deleting,
                    kind, issued, usable, presented, happened>>
    BY <1>1 DEF vars, request, provider
  <2>2. TypeOK' /\ AwaitedRefreshIsLive' /\ AnswersBringTokens'
    BY <2>1 DEF IInv, TypeOK, AwaitedRefreshIsLive, AnswersBringTokens
  <2> QED BY <2>1, <2>2 DEF Effect, Fate, Stays, Keeps
<1>2. CASE Next
  BY <1>2, VaultStep, ProviderStep, ArriveStep, UpstreamStep, SettleStep, CrashStep
      DEF Next, RequestStep
<1> QED BY <1>1, <1>2

\* A call more is one entry more.
LEMMA SendsOneMore ==
    ASSUME IInv, NEW q \in Req, Sends(q)
    PROVE  /\ snap'[q] # NULL /\ answer'[q] = answer[q]
           /\ Len(sent'[q]) = Len(sent[q]) + 1
<1>1. sent[q] \in Seq(Issue)
  BY DEF IInv, TypeOK
<1>2. Len(Append(sent[q], snap'[q].access)) = Len(sent[q]) + 1
  BY <1>1
<1> QED BY <1>2 DEF Sends

\* Wherever a request goes, it has sent and answered what its place says.
LEMMA FatesServe ==
    ASSUME IInv, Effect
    PROVE  Served'
<1> SUFFICES ASSUME NEW q \in Req
             PROVE  /\ on'[q] # NULL => pc'[q] \in {"fresh", "retry"}
                    /\ pc'[q] \in {"fresh", "first", "retry"} => snap'[q] # NULL
                    /\ pc'[q] # "done" => answer'[q] = NULL
                    /\ pc'[q] \in {"idle", "fresh"} => Len(sent'[q]) = 0
                    /\ pc'[q] \in {"first", "retry", "cancel"} => Len(sent'[q]) = 1
                    /\ pc'[q] = "second" => Len(sent'[q]) = 2
                    /\ answer'[q] = "torn401" => Len(sent'[q]) = 2 \/ snap'[q] = NULL
  BY DEF Served
<1> DEFINE n == Len(sent[q])
           m == Len(sent'[q])
           MovesTo(p, k) == pc'[q] = p /\ m = k /\ answer'[q] = NULL
           Closes == /\ pc'[q] = "done" /\ on'[q] = NULL
                     /\ answer'[q] = "torn401" => m = 2 \/ snap'[q] = NULL
           Goal == /\ on'[q] # NULL => pc'[q] \in {"fresh", "retry"}
                   /\ pc'[q] \in {"fresh", "first", "retry"} => snap'[q] # NULL
                   /\ pc'[q] # "done" => answer'[q] = NULL
                   /\ pc'[q] \in {"idle", "fresh"} => m = 0
                   /\ pc'[q] \in {"first", "retry", "cancel"} => m = 1
                   /\ pc'[q] = "second" => m = 2
                   /\ answer'[q] = "torn401" => m = 2 \/ snap'[q] = NULL
<1>0. NULL # "torn401"
  BY NullAssumption DEF Answers
<1>1. /\ on[q] # NULL => pc[q] \in {"fresh", "retry"}
      /\ pc[q] \in {"fresh", "first", "retry"} => snap[q] # NULL
      /\ pc[q] # "done" => answer[q] = NULL
      /\ pc[q] \in {"idle", "fresh"} => n = 0
      /\ pc[q] \in {"first", "retry", "cancel"} => n = 1
      /\ pc[q] = "second" => n = 2
      /\ answer[q] = "torn401" => n = 2 \/ snap[q] = NULL
  BY DEF IInv, Served
<1>2. Sends(q) => /\ snap'[q] # NULL /\ answer'[q] = answer[q]
                  /\ n = 0 => m = 1
                  /\ n = 1 => m = 2
  <2>1. Sends(q) => snap'[q] # NULL /\ answer'[q] = answer[q] /\ m = n + 1
    BY SendsOneMore
  <2> HIDE DEF n, m
  <2> QED BY <1>0, <2>1
<1>10. sent'[q] = sent[q] => m = n
  OBVIOUS
<1> SUFFICES Goal
  OBVIOUS
<1> HIDE DEF n, m
<1>3. CASE Stays(q)
  BY <1>0, <1>1, <1>10, <1>3 DEF Stays, Keeps
<1>4. CASE Begins(q)
  <2>1. \/ Closes
        \/ MovesTo("fresh", 0) /\ snap'[q] # NULL
        \/ MovesTo("first", 1) /\ snap'[q] # NULL /\ on'[q] = NULL
    BY <1>0, <1>1, <1>10, <1>2, <1>4 DEF Begins, Keeps, Ends
  <2> QED BY <1>0, <2>1
<1>5. CASE WakesFresh(q)
  <2>1. Closes \/ (MovesTo("first", 1) /\ snap'[q] # NULL /\ on'[q] = NULL)
    BY <1>0, <1>1, <1>10, <1>2, <1>5 DEF WakesFresh
  <2> QED BY <1>0, <2>1
<1>6. CASE WakesRetry(q)
  <2>1. Closes \/ (MovesTo("cancel", 1) /\ on'[q] = NULL)
    BY <1>0, <1>1, <1>10, <1>6 DEF WakesRetry, Keeps, Ends
  <2> QED BY <1>0, <2>1
<1>7. CASE GoesOn(q)
  <2>1. CASE pc[q] = "first"
    <3>1. \/ Closes
          \/ MovesTo("retry", 1) /\ snap'[q] # NULL
          \/ MovesTo("second", 2) /\ on'[q] = NULL
      BY <1>0, <1>1, <1>10, <1>2, <1>7, <2>1 DEF GoesOn, Keeps, Ends
    <3> QED BY <1>0, <3>1
  <2>2. CASE pc[q] \in {"cancel", "second"}
    <3>1. Closes \/ (MovesTo("second", 2) /\ on'[q] = NULL)
      BY <1>0, <1>1, <1>10, <1>2, <1>7, <2>2 DEF GoesOn, Ends
    <3> QED BY <1>0, <3>1
  <2> QED BY <1>7, <2>1, <2>2 DEF GoesOn
<1>8. CASE Dies(q)
  BY <1>0, <1>1, <1>10, <1>8 DEF Dies, Ends
<1> QED BY <1>3, <1>4, <1>5, <1>6, <1>7, <1>8 DEF Effect, Fate

\* The invariant holds at the start ..
LEMMA InitIInv == Init => IInv
<1> SUFFICES ASSUME Init
             PROVE  IInv
  OBVIOUS
<1>1. TypeOK
  BY ConstantsAssumption DEF Init, TypeOK
<1>2. AwaitedRefreshIsLive /\ Served /\ AnswersBringTokens
  BY DEF Init, AwaitedRefreshIsLive, Served, AnswersBringTokens
<1> QED BY <1>1, <1>2 DEF IInv

\* .. is kept by every step ..
LEMMA NextIInv == IInv /\ [Next]_vars => IInv'
  BY StepEffect, FatesServe DEF Effect, IInv

\* .. and so always holds.
LEMMA Invariance == Spec => []IInv
  BY InitIInv, NextIInv, PTL DEF Spec

---------------------------------------------------------------------------
(* The tokens: one that a refresh brings has not been seen anywhere before. *)

\* In a row, or in the hands of the callback that will save it.
OfRow(n) ==
    \/ \E i \in Id : conns[i] # NULL /\ conns[i].access = n
    \/ exchanged # NULL /\ exchanged.access = n

OfSnap(n) == \E w \in Req : snap[w] # NULL /\ snap[w].access = n

OfFirstCall(n) == \E w \in Req : Len(sent[w]) > 0 /\ sent[w][1] = n

Seen(n) == OfRow(n) \/ OfSnap(n) \/ OfFirstCall(n)

\* The token n waits in the answer to the refresh that q started.
Brought(q, n) == call[q] # NULL /\ call[q].state = "answered" /\ call[q].new.access = n

TokensFresh ==
    /\ \A n \in Issue : Seen(n) => n <= issued
    /\ \A q \in Req, n \in Issue : Brought(q, n) => n <= issued /\ ~ Seen(n)
    /\ \A q, r \in Req, n \in Issue : Brought(q, n) /\ Brought(r, n) => q = r

\* Who is about to retry holds another token than the refused one.
RetryReady ==
    \A w \in Req : pc[w] = "cancel" /\ snap[w] # NULL => snap[w].access # sent[w][1]

TInv == IInv /\ TokensFresh /\ RetryReady /\ RetryUsesNewToken

\* What a step does with tokens: the rows, the answers, the number issued.
RowsKept == \A n \in Issue : OfRow(n)' => OfRow(n)

AnswersKept == \A q \in Req, n \in Issue : Brought(q, n)' => Brought(q, n)

Connects == /\ issued' = issued + 1 /\ AnswersKept
            /\ \A n \in Issue : OfRow(n)' => OfRow(n) \/ n = issued + 1

Carries == issued' = issued /\ RowsKept /\ AnswersKept

Issues(q) == /\ issued' = issued + 1 /\ RowsKept
             /\ \A r \in Req, n \in Issue :
                  Brought(r, n)' => Brought(r, n) \/ (r = q /\ n = issued + 1)

Saves(q) == /\ issued' = issued
            /\ \A n \in Issue : OfRow(n)' => OfRow(n) \/ Brought(q, n)
            /\ \A r \in Req, n \in Issue : Brought(r, n)' => Brought(r, n) /\ r # q

\* Requests take their tokens from the rows; a retry takes one that was brought.
Takes ==
    /\ route' = route
    /\ \A n \in Issue : OfSnap(n)' => OfSnap(n) \/ OfRow(n)'
    /\ \A w \in Req : pc'[w] = "cancel" =>
         \/ pc[w] = "cancel"
         \/ snap'[w] # NULL => \E q \in Req : Brought(q, snap'[w].access)

TokenEffect ==
    Takes /\ (Connects \/ Carries \/ \E q \in Req : Issues(q) \/ Saves(q))

\* A step that leaves rows, answers and snapshots alone carries the tokens on.
LEMMA QuietTokens ==
    ASSUME UNCHANGED <<conns, call, snap, route, issued>>, exchanged' \in {exchanged, NULL},
           \A w \in Req : pc'[w] = "cancel" => pc[w] = "cancel"
    PROVE  TokenEffect
BY DEF TokenEffect, Takes, Carries, RowsKept, AnswersKept, OfRow, OfSnap, Brought

\* The vault: a connect writes the token just issued, the rest writes none.
LEMMA VaultTokens ==
    ASSUME IInv, \/ FinishConnect \/ \E a \in Account : StartConnect(a)
                 \/ \E i \in Id : FallDue(i) \/ StartDelete(i)
                 \/ FinishDelete
    PROVE  TokenEffect
<1>1. UNCHANGED <<call, pc, route, snap>>
  BY DEF StartConnect, FinishConnect, FallDue, StartDelete, FinishDelete, request
<1>2. conns \in Tables /\ Takes /\ AnswersKept
  BY <1>1 DEF IInv, TypeOK, Tables, Takes, AnswersKept, OfSnap, Brought
<1>3. ASSUME NEW a \in Account, StartConnect(a)
      PROVE  Connects
  <2>1. /\ conns' = conns /\ exchanged = NULL /\ issued' = issued + 1
        /\ exchanged'.access = issued + 1
    BY <1>3 DEF StartConnect
  <2> QED BY <1>2, <2>1 DEF Connects, OfRow
<1>7. ASSUME FinishConnect
      PROVE  Carries
  <2>1. PICK e \in {"valid", NULL} :
          /\ UpsertId(conns, nextId, NewRow(exchanged, e)) \in Id
          /\ conns' = Upsert(conns, nextId, NewRow(exchanged, e))
    BY <1>7 DEF FinishConnect
  <2>2. /\ exchanged # NULL /\ exchanged \in Exchanged
        /\ exchanged' = NULL /\ issued' = issued
    BY <1>7 DEF FinishConnect, provider, IInv, TypeOK
  <2>3. \A j \in Id : conns'[j] # NULL =>
            \/ conns'[j].access = exchanged.access
            \/ conns[j] # NULL /\ conns'[j].access = conns[j].access
    BY <1>2, <2>1, <2>2, UpsertTable DEF IInv, TypeOK
  <2>4. RowsKept
    BY <2>2, <2>3 DEF RowsKept, OfRow
  <2> QED BY <1>2, <2>2, <2>4 DEF Carries
<1>4. ASSUME NEW i \in Id, FallDue(i)
      PROVE  Carries
  <2>1. conns[i] \in Row /\ conns' = [conns EXCEPT ![i].expires = "due"]
        /\ UNCHANGED <<issued, exchanged>>
    BY <1>2, <1>4 DEF FallDue, Tables, provider
  <2>2. conns'[i].access = conns[i].access /\ \A j \in Id : j # i => conns'[j] = conns[j]
    BY <1>2, <2>1 DEF Tables, Row
  <2>3. conns[i] # NULL
    BY <1>4 DEF FallDue
  <2> QED BY <1>2, <2>1, <2>2, <2>3 DEF Carries, RowsKept, OfRow
<1>5. ASSUME NEW i \in Id, StartDelete(i)
      PROVE  Carries
  BY <1>2, <1>5 DEF StartDelete, provider, Carries, RowsKept, OfRow
<1>6. ASSUME FinishDelete
      PROVE  Carries
  <2>1. UNCHANGED <<issued, exchanged>> /\ \A j \in Id : conns'[j] # NULL => conns'[j] = conns[j]
    BY <1>2, <1>6 DEF FinishDelete, Remove, Tables
  <2> QED BY <1>2, <2>1 DEF Carries, RowsKept, OfRow
<1> QED BY <1>2, <1>3, <1>4, <1>5, <1>6, <1>7 DEF TokenEffect

\* The provider: only an accepted call is issued a token.
LEMMA ProviderTokens ==
    ASSUME IInv, NEW q \in Req, ProviderHandles(q) \/ NetworkFault(q)
    PROVE  TokenEffect
<1>1. /\ UNCHANGED <<conns, pc, route, snap, exchanged>> /\ call[q] # NULL
      /\ call \in [Req -> Call \cup {NULL}] /\ call[q] \in Call
  BY DEF ProviderHandles, NetworkFault, request, IInv, TypeOK
<1>2. Takes /\ RowsKept
  BY <1>1 DEF Takes, RowsKept, OfRow, OfSnap
<1>3. CASE NetworkFault(q) \/ (ProviderHandles(q) /\ Refused(q))
  <2>1. issued' = issued /\ call' = [call EXCEPT ![q].state = "failed"]
    BY <1>3 DEF NetworkFault, Refused, provider
  <2>2. call'[q].state = "failed" /\ \A r \in Req : r # q => call'[r] = call[r]
    BY <1>1, <2>1 DEF Call
  <2>3. AnswersKept
    BY <2>2 DEF AnswersKept, Brought
  <2> QED BY <1>2, <2>1, <2>3 DEF TokenEffect, Carries
<1>4. CASE ProviderHandles(q) /\ Accepted(q)
  <2> DEFINE n == issued + 1
             next == IF kind = "fixed" THEN NULL ELSE n
  <2>1. PICK e \in {"valid", NULL} :
          call' = [call EXCEPT ![q].state = "answered",
                      ![q].new = [access |-> n, refresh |-> next, dek |-> NULL, expires |-> e]]
    BY <1>4 DEF Accepted
  <2> DEFINE new == [access |-> n, refresh |-> next, dek |-> NULL, expires |-> e]
  <2>2. new.access = n
    OBVIOUS
  <2>3. call'[q].new = new /\ \A r \in Req : r # q => call'[r] = call[r]
    <3>1. call' = [call EXCEPT ![q] = [call[q] EXCEPT !.state = "answered", !.new = new]]
      BY <1>1, <2>1
    <3> HIDE DEF new
    <3> QED BY <1>1, <3>1 DEF Call
  <2>4. issued' = issued + 1
    BY <1>4 DEF Accepted
  <2> HIDE DEF new, n
  <2>5. \A r \in Req, m \in Issue : Brought(r, m)' => Brought(r, m) \/ (r = q /\ m = n)
    BY <2>2, <2>3 DEF Brought
  <2>6. Issues(q)
    BY <1>2, <2>4, <2>5 DEF Issues, n
  <2> QED BY <1>2, <2>6 DEF TokenEffect
<1> QED BY <1>3, <1>4 DEF ProviderHandles

\* A request: it takes the token of a row, and the call it may start brings none yet.
LEMMA RequestTokens ==
    ASSUME IInv, NEW q \in Req,
           \/ NotConnected(q) \/ \E i \in Id : Arrive(q, i)
           \/ FirstAnswer(q) \/ Retry(q) \/ SecondAnswer(q) \/ Metadata(q)
    PROVE  TokenEffect
<1>1. /\ UNCHANGED <<conns, route, issued, exchanged>> /\ conns \in Tables
      /\ snap \in [Req -> Snap \cup {NULL}] /\ call \in [Req -> Call \cup {NULL}]
      /\ pc \in [Req -> {"idle", "fresh", "first", "retry", "cancel", "second", "done"}]
  BY DEF NotConnected, Arrive, FirstAnswer, Retry, SecondAnswer, Metadata, provider,
         IInv, TypeOK, Tables
<1>2. \/ call' = call
      \/ \E id, refresh :
           call' = [call EXCEPT ![q] =
                      [id |-> id, refresh |-> refresh, state |-> "asked", new |-> NULL]]
  BY DEF NotConnected, Arrive, FirstAnswer, Retry, SecondAnswer, Metadata, Refresh
<1>3. AnswersKept
  <2>1. \A r \in Req : call'[r] = call[r] \/ call'[r].state = "asked"
    BY <1>1, <1>2
  <2> QED BY <2>1 DEF AnswersKept, Brought
<1>4. \/ snap' = snap
      \/ \E i \in Id : conns[i] # NULL /\ snap' = [snap EXCEPT ![q] = Snapshot(conns, i)]
  BY DEF NotConnected, Arrive, FirstAnswer, Retry, SecondAnswer, Metadata
<1>5. ASSUME NEW n \in Issue, OfSnap(n)'
      PROVE  OfSnap(n) \/ OfRow(n)'
  <2>1. CASE snap' = snap
    BY <1>5, <2>1 DEF OfSnap
  <2>2. ASSUME NEW i \in Id, conns[i] # NULL, snap' = [snap EXCEPT ![q] = Snapshot(conns, i)]
        PROVE  OfSnap(n) \/ OfRow(n)'
    <3>1. Snapshot(conns, i).access = conns[i].access
      BY <1>1, <2>2, SnapshotType
    <3>2. \A w \in Req : snap'[w] = IF w = q THEN Snapshot(conns, i) ELSE snap[w]
      BY <1>1, <2>2
    <3> QED BY <1>1, <1>5, <2>2, <3>1, <3>2 DEF OfSnap, OfRow
  <2> QED BY <1>4, <2>1, <2>2
<1>6. \E p \in {"fresh", "first", "retry", "second", "done"} : pc' = [pc EXCEPT ![q] = p]
  BY DEF NotConnected, Arrive, Answer, Send, FirstAnswer, Retry, SecondAnswer, Metadata
<1>7. \A w \in Req : pc'[w] = "cancel" => pc[w] = "cancel"
  BY <1>1, <1>6
<1> QED BY <1>1, <1>3, <1>5, <1>7 DEF TokenEffect, Takes, Carries, RowsKept, OfRow

\* A refresh that settles: the token it brought goes to its row, and from there to
\* its waiters.
LEMMA SettleTokens ==
    ASSUME IInv, NEW q \in Req, Settle(q)
    PROVE  TokenEffect
<1> DEFINE i == call[q].id
           ok == call[q].state = "answered"
<1>1. /\ i \in Id /\ conns \in Tables /\ conns' \in Tables
      /\ ok => call[q].new \in Refreshed /\ conns' = UpdateTokens(conns, i, call[q].new)
      /\ ~ ok => conns' = conns
      /\ call' = [call EXCEPT ![q] = NULL] /\ call \in [Req -> Call \cup {NULL}]
      /\ UNCHANGED <<route, issued, exchanged>>
      /\ snap' = [w \in Req |-> IF on[w] = q THEN Held(q, w) ELSE snap[w]]
      /\ call[q] # NULL
  BY SettleEffect, NullAssumption DEF IInv, TypeOK, Tables
<1>2. ok => /\ conns'[i] # NULL => conns'[i].access = call[q].new.access
            /\ \A j \in Id : j # i => conns'[j] = conns[j]
  BY <1>1, UpdateTable
<1>3. Saves(q)
  <2>1. \A n \in Issue : OfRow(n)' => OfRow(n) \/ Brought(q, n)
    BY <1>1, <1>2 DEF OfRow, Brought
  <2>2. \A r \in Req, n \in Issue : Brought(r, n)' => Brought(r, n) /\ r # q
    BY <1>1 DEF Brought
  <2> QED BY <1>1, <2>1, <2>2 DEF Saves
<1>4. ASSUME NEW w \in Req, on[w] = q, ok, snap'[w] # NULL
      PROVE  /\ \E j \in Id : conns'[j] # NULL /\ conns'[j].access = snap'[w].access
             /\ Brought(q, snap'[w].access)
  <2>1. snap'[w] = Snapshot(conns', i)
    BY <1>1, <1>4 DEF Held
  <2>2. conns'[i] # NULL /\ snap'[w].access = conns'[i].access
    BY <1>1, <1>4, <2>1, SnapshotType
  <2> QED BY <1>1, <1>2, <1>4, <2>2 DEF Brought
<1>5. ASSUME NEW w \in Req, on[w] # q \/ ~ ok
      PROVE  snap'[w] = snap[w]
  BY <1>1, <1>5 DEF Held
<1>6. ASSUME NEW w \in Req, pc'[w] = "cancel", pc[w] # "cancel"
      PROVE  on[w] = q /\ ok
  <2>1. on[w] = q /\ WakesRetry(w)
    BY <1>6, SettleFates DEF WakesFresh, Stays
  <2>2. ok
    BY <1>6, <2>1 DEF Settle, Resume
  <2> QED BY <2>1, <2>2
<1>7. \A n \in Issue : OfSnap(n)' => OfSnap(n) \/ OfRow(n)'
  BY <1>4, <1>5 DEF OfSnap, OfRow
<1>8. Takes
  BY <1>1, <1>4, <1>6, <1>7 DEF Takes
<1> QED BY <1>3, <1>8 DEF TokenEffect

\* Every step.
LEMMA StepTokens ==
    ASSUME IInv, [Next]_vars
    PROVE  TokenEffect
<1>1. CASE UNCHANGED vars
  BY <1>1, QuietTokens DEF vars, request, provider
<1>2. CASE Crash
  <2>1. UNCHANGED <<conns, call, snap, route, issued>> /\ exchanged' = NULL
    BY <1>2 DEF Crash
  <2>2. \A w \in Req : pc'[w] # "cancel"
    BY <1>2 DEF Crash
  <2> QED BY <2>1, <2>2, QuietTokens
<1>3. CASE Next /\ ~ Crash
  BY <1>3, VaultTokens, ProviderTokens, RequestTokens, SettleTokens DEF Next, RequestStep
<1> QED BY <1>1, <1>2, <1>3

\* One call more leaves the first call what it was.
LEMMA AppendFacts ==
    ASSUME NEW S, NEW s \in Seq(S), NEW x \in S
    PROVE  /\ Len(Append(s, x)) = Len(s) + 1
           /\ Len(s) = 0 => Append(s, x)[1] = x
           /\ Len(s) > 0 => Append(s, x)[1] = s[1]
           /\ Len(s) = 1 => Append(s, x)[2] = x
OBVIOUS

\* So the first call of a request stays, or is the one it has just made.
LEMMA FirstCallStays ==
    ASSUME IInv, Effect, NEW w \in Req
    PROVE  /\ Len(sent[w]) \in Nat
           /\ Len(sent[w]) > 0 => Len(sent'[w]) > 0 /\ sent'[w][1] = sent[w][1]
           /\ Len(sent[w]) = 0 /\ Len(sent'[w]) > 0 =>
                snap'[w] # NULL /\ sent'[w][1] = snap'[w].access
<1>1. sent[w] \in Seq(Issue) /\ snap' \in [Req -> Snap \cup {NULL}]
  BY DEF IInv, Effect, TypeOK
<1>2. sent'[w] = sent[w] \/ Sends(w)
  BY DEF Effect, Fate, Stays, Begins, WakesFresh, WakesRetry, GoesOn, Dies, Keeps, Ends
<1>3. CASE sent'[w] = sent[w]
  BY <1>1, <1>3
<1>4. CASE Sends(w)
  <2>1. snap'[w] # NULL /\ snap'[w].access \in Issue
    BY <1>1, <1>4 DEF Sends, Snap
  <2>2. sent'[w] = Append(sent[w], snap'[w].access)
    BY <1>4 DEF Sends
  <2> QED BY <1>1, <2>1, <2>2, AppendFacts
<1> QED BY <1>2, <1>3, <1>4

\* What has been seen after a step was seen before or stands in a row now.
LEMMA SeenGrows ==
    ASSUME IInv, Effect, Takes, NEW n \in Issue, Seen(n)'
    PROVE  Seen(n) \/ OfRow(n)'
<1>1. OfSnap(n)' => Seen(n) \/ OfRow(n)'
  BY DEF Takes, Seen
<1>2. ASSUME OfFirstCall(n)'
      PROVE  OfFirstCall(n) \/ OfSnap(n)'
  <2>1. PICK w \in Req : Len(sent'[w]) > 0 /\ sent'[w][1] = n
    BY <1>2 DEF OfFirstCall
  <2>2. CASE Len(sent[w]) = 0
    BY <2>1, <2>2, FirstCallStays DEF OfSnap
  <2>3. CASE Len(sent[w]) > 0
    BY <2>1, <2>3, FirstCallStays DEF OfFirstCall
  <2> QED BY <2>2, <2>3, FirstCallStays
<1> QED BY <1>1, <1>2 DEF Seen

\* A token that was brought is still unseen, since only its own refresh can save it.
LEMMA FreshStays ==
    ASSUME IInv, Effect, TokensFresh, TokenEffect
    PROVE  TokensFresh'
<1>1. issued \in Nat
  BY DEF IInv, TypeOK
<1>2. \A n \in Issue : n \in Nat /\ (OfRow(n) => Seen(n)) /\ (Seen(n)' => Seen(n) \/ OfRow(n)')
  BY SeenGrows DEF TokenEffect, Seen, Issue
<1>3. /\ \A n \in Issue : Seen(n) => n <= issued
      /\ \A q \in Req, n \in Issue : Brought(q, n) => n <= issued /\ ~ Seen(n)
      /\ \A q, r \in Req, n \in Issue : Brought(q, n) /\ Brought(r, n) => q = r
  BY DEF TokensFresh
<1> SUFFICES /\ \A n \in Issue : Seen(n)' => n <= issued'
             /\ \A q \in Req, n \in Issue : Brought(q, n)' => n <= issued' /\ ~ Seen(n)'
             /\ \A q, r \in Req, n \in Issue : Brought(q, n)' /\ Brought(r, n)' => q = r
  BY DEF TokensFresh
<1>4. CASE Connects
  BY <1>1, <1>2, <1>3, <1>4 DEF Connects, AnswersKept
<1>5. CASE Carries
  BY <1>2, <1>3, <1>5 DEF Carries, RowsKept, AnswersKept
<1>6. ASSUME NEW q \in Req, Issues(q)
      PROVE  /\ \A n \in Issue : Seen(n)' => n <= issued'
             /\ \A r \in Req, n \in Issue : Brought(r, n)' => n <= issued' /\ ~ Seen(n)'
             /\ \A p, r \in Req, n \in Issue : Brought(p, n)' /\ Brought(r, n)' => p = r
  BY <1>1, <1>2, <1>3, <1>6 DEF Issues, RowsKept
<1>7. ASSUME NEW q \in Req, Saves(q)
      PROVE  /\ \A n \in Issue : Seen(n)' => n <= issued'
             /\ \A r \in Req, n \in Issue : Brought(r, n)' => n <= issued' /\ ~ Seen(n)'
             /\ \A p, r \in Req, n \in Issue : Brought(p, n)' /\ Brought(r, n)' => p = r
  BY <1>2, <1>3, <1>7 DEF Saves
<1> QED BY <1>4, <1>5, <1>6, <1>7 DEF TokenEffect

\* So a request that retries holds a token it cannot have sent before.
LEMMA ReadyStays ==
    ASSUME TInv, Effect, TokenEffect
    PROVE  RetryReady' /\ RetryUsesNewToken'
<1>1. IInv /\ TokensFresh /\ RetryReady /\ RetryUsesNewToken /\ Takes
  BY DEF TInv, TokenEffect
<1>2. ASSUME NEW w \in Req, pc'[w] = "cancel", snap'[w] # NULL
      PROVE  snap'[w].access # sent'[w][1]
  <2>1. sent'[w] = sent[w] /\ (pc[w] = "cancel" => snap'[w] = snap[w])
    BY <1>2 DEF Effect, Fate, Stays, Begins, WakesFresh, WakesRetry, GoesOn, Dies, Keeps, Ends
  <2>2. CASE pc[w] = "cancel"
    BY <1>1, <1>2, <2>1, <2>2 DEF RetryReady
  <2>3. CASE pc[w] # "cancel"
    <3>1. pc[w] = "retry"
      BY <1>2, <2>3 DEF Effect, Fate, Stays, Begins, WakesFresh, WakesRetry, GoesOn, Dies, Ends
    <3>2. Len(sent[w]) > 0
      BY <1>1, <3>1 DEF IInv, Served
    <3>3. snap'[w].access \in Issue
      BY <1>2 DEF Effect, TypeOK, Snap
    <3>4. ~ Seen(snap'[w].access)
      BY <1>1, <1>2, <2>3, <3>3 DEF Takes, TokensFresh
    <3> QED BY <2>1, <3>2, <3>4 DEF Seen, OfFirstCall
  <2> QED BY <2>2, <2>3
<1>3. ASSUME NEW w \in Req, route'[w] = "forward", Len(sent'[w]) = 2
      PROVE  sent'[w][1] # sent'[w][2]
  <2>1. route[w] = "forward" /\ sent[w] \in Seq(Issue)
    BY <1>1, <1>3 DEF Takes, IInv, TypeOK
  <2>2. CASE sent'[w] = sent[w]
    BY <1>1, <1>3, <2>1, <2>2 DEF RetryUsesNewToken
  <2>3. CASE sent'[w] # sent[w]
    <3>1. /\ Sends(w)
          /\ \/ pc[w] \in {"idle", "fresh"}
             \/ pc[w] = "cancel" /\ snap'[w] = snap[w]
      BY <2>1, <2>3
         DEF Effect, Fate, Stays, Begins, WakesFresh, WakesRetry, GoesOn, Dies, Keeps, Ends
    <3>2. snap'[w] # NULL /\ snap'[w].access \in Issue
      BY <3>1 DEF Sends, Effect, TypeOK, Snap
    <3>3. sent'[w] = Append(sent[w], snap'[w].access)
      BY <3>1 DEF Sends
    <3>4. Len(sent[w]) = 1
      <4> DEFINE n == Len(sent[w])
                 m == Len(sent'[w])
      <4>1. n \in Nat /\ m = n + 1 /\ m = 2
        BY <1>3, <2>1, <3>2, <3>3, AppendFacts
      <4> HIDE DEF n, m
      <4>2. n = 1
        BY <4>1
      <4> QED BY <4>2 DEF n
    <3>5. pc[w] = "cancel" /\ snap'[w] = snap[w]
      BY <1>1, <3>1, <3>4 DEF IInv, Served
    <3>6. snap[w].access # sent[w][1]
      BY <1>1, <3>2, <3>5 DEF RetryReady
    <3>7. sent'[w][1] = sent[w][1] /\ sent'[w][2] = snap'[w].access
      BY <2>1, <3>2, <3>3, <3>4, AppendFacts
    <3> QED BY <3>5, <3>6, <3>7
  <2> QED BY <2>2, <2>3
<1> QED BY <1>2, <1>3 DEF RetryReady, RetryUsesNewToken

\* At the start nothing has been seen; and tokens stay fresh from then on.
LEMMA InitTInv == Init => TInv
<1> SUFFICES ASSUME Init
             PROVE  TInv
  OBVIOUS
<1>1. TokensFresh
  BY DEF Init, TokensFresh, Seen, OfRow, OfSnap, OfFirstCall, Brought
<1>2. RetryReady /\ RetryUsesNewToken
  BY DEF Init, RetryReady, RetryUsesNewToken
<1> QED BY <1>1, <1>2, InitIInv DEF TInv

---------------------------------------------------------------------------
(* The order of tokens: what a live refresh brought is newer than its row. *)

IdsDrawn ==
    /\ \A i \in Id : conns[i] # NULL => i < nextId
    /\ \A w \in Req : snap[w] # NULL => snap[w].id < nextId
    /\ \A q \in Req : call[q] # NULL => call[q].id < nextId

LiveAnswer(q) == on[q] = q /\ call[q] # NULL /\ call[q].state = "answered"

Newer(q) == conns[call[q].id] # NULL => conns[call[q].id].access < call[q].new.access

AnswersNewer == "reconnect" \notin happened => \A q \in Req : LiveAnswer(q) => Newer(q)

\* A callback that will find the row of its account is a reconnection.
Foreseen ==
    exchanged # NULL /\ (\E i \in Id : conns[i] # NULL /\ conns[i].account = exchanged.account)
        => "reconnect" \in happened

RInv == TInv /\ IdsDrawn /\ AnswersNewer /\ Foreseen

Rises == \A i \in Id : conns[i] # NULL /\ conns'[i] # NULL /\ "reconnect" \notin happened =>
            conns'[i].access >= conns[i].access

\* Steps that write no token into a row and bring no answer.
LEMMA QuietRises ==
    ASSUME RInv, happened \subseteq happened',
           \A i \in Id : conns'[i] # NULL => conns[i] # NULL /\ conns'[i].access = conns[i].access,
           \A q \in Req : LiveAnswer(q)' =>
              LiveAnswer(q) /\ call'[q].id = call[q].id /\ call'[q].new = call[q].new
    PROVE  AnswersNewer' /\ Rises
<1>1. \A q \in Req : LiveAnswer(q) => call[q].id \in Id
  BY DEF RInv, TInv, IInv, TypeOK, LiveAnswer, Call
<1>2. AnswersNewer'
  BY <1>1 DEF RInv, AnswersNewer, Newer
<1>3. \A i \in Id : conns[i] # NULL => conns[i].access \in Nat
  BY DEF RInv, TInv, IInv, TypeOK, Row, Issue
<1>4. Rises
  BY <1>3 DEF Rises
<1> QED BY <1>2, <1>4

\* A connect: a new row that no refresh knows, or a reconnection.
LEMMA ConnectRises ==
    ASSUME RInv, FinishConnect
    PROVE  IdsDrawn' /\ AnswersNewer' /\ Rises
<1>1. PICK e \in {"valid", NULL} :
             LET new == NewRow(exchanged, e)
             IN  /\ UpsertId(conns, nextId, new) \in Id
                 /\ conns' = Upsert(conns, nextId, new)
                 /\ nextId' = IF UpsertId(conns, nextId, new) = nextId THEN nextId + 1
                                                                       ELSE nextId
  BY DEF FinishConnect
<1> DEFINE new == NewRow(exchanged, e)
           i == UpsertId(conns, nextId, new)
<1>2. /\ conns \in Tables /\ nextId \in 1 .. MaxRows + 1 /\ issued \in Nat
      /\ exchanged # NULL /\ exchanged \in Exchanged /\ MaxRows \in Nat
      /\ UNCHANGED <<call, on, snap, happened>>
  BY ConstantsAssumption
     DEF FinishConnect, request, RInv, TInv, IInv, TypeOK, Tables
<1>3. /\ i \in Id /\ conns' = Upsert(conns, nextId, new) /\ UNCHANGED <<call, on, snap>>
      /\ nextId' = IF i = nextId THEN nextId + 1 ELSE nextId
      /\ \A j \in Id : conns'[j] # NULL =>
           \/ conns'[j].access = exchanged.access
           \/ conns[j] # NULL /\ conns'[j].access = conns[j].access
  <2>1. Upsert(conns, nextId, new) = conns' /\ i \in Id
    BY <1>1
  <2>2. \A j \in Id : Upsert(conns, nextId, new)[j] # NULL =>
          \/ Upsert(conns, nextId, new)[j].access = exchanged.access
          \/ conns[j] # NULL /\ Upsert(conns, nextId, new)[j].access = conns[j].access
    BY <1>2, <2>1, UpsertTable
  <2>3. \A j \in Id : conns'[j] # NULL =>
          \/ conns'[j].access = exchanged.access
          \/ conns[j] # NULL /\ conns'[j].access = conns[j].access
    BY <2>1, <2>2
  <2>4. UNCHANGED <<call, on, snap>> /\ nextId' = IF i = nextId THEN nextId + 1 ELSE nextId
    BY <1>1, <1>2
  <2> QED BY <2>1, <2>3, <2>4
<1>4. \A j \in Id : j # i => conns'[j] = conns[j]
  BY <1>2, <1>3 DEF Upsert, Tables
<1>5. \/ i = nextId /\ happened' = happened
      \/ "reconnect" \in happened'
  <2> DEFINE same == FindByAccount(conns, "u", "p", exchanged.account)
  <2>1. CASE same = {}
    BY <1>2, <2>1 DEF UpsertId, NewRow
  <2>2. CASE same # {}
    <3>1. \E j \in Id : conns[j] # NULL /\ conns[j].account = exchanged.account
      BY <1>2, <2>2 DEF FindByAccount, OfUser, Rows, Tables
    <3> QED BY <1>2, <3>1 DEF RInv, Foreseen
  <2> QED BY <2>1, <2>2
<1>6. conns[i] # NULL \/ i = nextId
  <2> DEFINE same == FindByAccount(conns, new.user, new.provider, new.account)
  <2>1. CASE same = {}
    BY <2>1 DEF UpsertId
  <2>2. CASE same # {}
    <3>1. i \in same
      BY <2>2 DEF UpsertId
    <3> QED BY <3>1 DEF FindByAccount, OfUser, Rows
  <2> QED BY <2>1, <2>2
<1> HIDE DEF i, new
<1>7. /\ \A j \in Id : j \in Nat /\ (conns[j] # NULL => j < nextId /\ conns[j].access \in Nat
                                                       /\ conns[j].access <= issued)
      /\ \A q \in Req : call[q] # NULL => call[q].id \in Id /\ call[q].id < nextId
      /\ \A w \in Req : snap[w] # NULL => snap[w].id \in Nat /\ snap[w].id < nextId
  <2>1. \A j \in Id : conns[j] # NULL => conns[j].access \in Issue /\ Seen(conns[j].access)
    BY <1>2 DEF Tables, Row, Seen, OfRow
  <2>2. \A j \in Id : conns[j] # NULL => conns[j].access \in Nat /\ conns[j].access <= issued
    BY <2>1 DEF RInv, TInv, TokensFresh, Issue
  <2>3. \A q \in Req : /\ call[q] # NULL => call[q].id \in Id
                       /\ snap[q] # NULL => snap[q].id \in Nat
    BY DEF RInv, TInv, IInv, TypeOK, Call, Snap, Id
  <2> QED BY <2>2, <2>3 DEF RInv, IdsDrawn, Id
<1>8. IdsDrawn'
  BY <1>2, <1>3, <1>4, <1>6, <1>7 DEF IdsDrawn
<1>9. AnswersNewer'
  <2> SUFFICES ASSUME "reconnect" \notin happened', NEW q \in Req, LiveAnswer(q)'
               PROVE  Newer(q)'
    BY DEF AnswersNewer
  <2>1. LiveAnswer(q) /\ call'[q] = call[q] /\ i = nextId /\ "reconnect" \notin happened
    BY <1>3, <1>5 DEF LiveAnswer
  <2>2. call[q].id # i /\ call[q].id \in Id
    BY <1>2, <1>7, <2>1 DEF LiveAnswer
  <2>3. conns'[call[q].id] = conns[call[q].id] /\ Newer(q)
    BY <1>4, <2>1, <2>2 DEF RInv, AnswersNewer
  <2> QED BY <2>1, <2>3 DEF Newer
<1>10. Rises
  <2> SUFFICES ASSUME NEW j \in Id, conns[j] # NULL, conns'[j] # NULL,
                      "reconnect" \notin happened
               PROVE  conns'[j].access >= conns[j].access
    BY DEF Rises
  <2>1. j # i
    BY <1>2, <1>5, <1>7
  <2> QED BY <1>4, <1>7, <2>1
<1> QED BY <1>8, <1>9, <1>10

\* A callback that has exchanged its code has written nothing yet.
LEMMA StartRises ==
    ASSUME RInv, NEW a \in Account, StartConnect(a)
    PROVE  IdsDrawn' /\ AnswersNewer' /\ Rises
<1>1. UNCHANGED <<conns, nextId, call, on, snap>> /\ happened \subseteq happened'
  BY DEF StartConnect, Disturb, request
<1>2. IdsDrawn'
  BY <1>1 DEF RInv, IdsDrawn
<1> QED BY <1>1, <1>2, QuietRises DEF LiveAnswer

\* The rest of the vault writes no token.
LEMMA VaultRises ==
    ASSUME RInv, FinishDelete \/ \E i \in Id : FallDue(i) \/ StartDelete(i)
    PROVE  IdsDrawn' /\ AnswersNewer' /\ Rises
<1>1. /\ conns \in Tables /\ UNCHANGED <<nextId, call, on, snap>> /\ happened \subseteq happened'
  BY DEF FinishDelete, FallDue, StartDelete, Disturb, request, RInv, TInv, IInv, TypeOK, Tables
<1>2. \A j \in Id : conns'[j] # NULL => conns[j] # NULL /\ conns'[j].access = conns[j].access
  <2>1. CASE FinishDelete
    BY <1>1, <2>1 DEF FinishDelete, Remove, Tables
  <2>2. ASSUME NEW i \in Id, FallDue(i)
        PROVE  \A j \in Id : conns'[j] # NULL =>
                  conns[j] # NULL /\ conns'[j].access = conns[j].access
    <3>1. conns[i] \in Row /\ conns[i] # NULL /\ conns' = [conns EXCEPT ![i].expires = "due"]
      BY <1>1, <2>2 DEF FallDue, Tables
    <3>2. conns'[i].access = conns[i].access /\ \A j \in Id : j # i => conns'[j] = conns[j]
      BY <1>1, <3>1 DEF Tables, Row
    <3> QED BY <3>1, <3>2
  <2>3. ASSUME NEW i \in Id, StartDelete(i)
        PROVE  conns' = conns
    BY <2>3 DEF StartDelete
  <2> QED BY <2>1, <2>2, <2>3
<1>3. AnswersNewer' /\ Rises
  BY <1>1, <1>2, QuietRises DEF LiveAnswer
<1>4. IdsDrawn'
  BY <1>1, <1>2 DEF RInv, IdsDrawn
<1> QED BY <1>3, <1>4

\* The token the provider issues is newer than any in the vault.
LEMMA ProviderRises ==
    ASSUME RInv, NEW q \in Req, ProviderHandles(q) \/ NetworkFault(q)
    PROVE  IdsDrawn' /\ AnswersNewer' /\ Rises
<1>1. /\ UNCHANGED <<conns, nextId, on, snap>> /\ call[q] # NULL
      /\ call \in [Req -> Call \cup {NULL}] /\ call[q] \in Call
      /\ happened \subseteq happened' /\ conns \in Tables /\ issued \in Nat
  BY DEF ProviderHandles, NetworkFault, Disturb, request, RInv, TInv, IInv, TypeOK, Tables
<1>2. PICK c : /\ call' = [call EXCEPT ![q] = c] /\ c.id = call[q].id
               /\ c.state = "answered" => c.new.access = issued + 1
  <2>1. CASE NetworkFault(q) \/ (ProviderHandles(q) /\ Refused(q))
    <3> DEFINE c == [call[q] EXCEPT !.state = "failed"]
    <3>1. c.id = call[q].id /\ c.state = "failed" /\ call' = [call EXCEPT ![q] = c]
      BY <1>1, <2>1 DEF NetworkFault, Refused, Call
    <3> HIDE DEF c
    <3> QED BY <3>1
  <2>2. CASE ProviderHandles(q) /\ Accepted(q)
    <3> DEFINE n == issued + 1
               next == IF kind = "fixed" THEN NULL ELSE n
    <3>1. PICK e \in {"valid", NULL} :
            call' = [call EXCEPT ![q].state = "answered",
                        ![q].new = [access |-> n, refresh |-> next, dek |-> NULL, expires |-> e]]
      BY <2>2 DEF Accepted
    <3> DEFINE new == [access |-> n, refresh |-> next, dek |-> NULL, expires |-> e]
               c == [call[q] EXCEPT !.state = "answered", !.new = new]
    <3>2. call' = [call EXCEPT ![q] = c] /\ new.access = issued + 1
      BY <1>1, <3>1
    <3>3. c.id = call[q].id /\ c.new = new
      <4> HIDE DEF new
      <4> QED BY <1>1 DEF Call
    <3> HIDE DEF c, new
    <3> QED BY <3>2, <3>3
  <2> QED BY <2>1, <2>2 DEF ProviderHandles
<1>3. call'[q] = c /\ \A r \in Req : r # q => call'[r] = call[r]
  BY <1>1, <1>2
<1>4. IdsDrawn'
  BY <1>1, <1>2, <1>3 DEF RInv, IdsDrawn
<1>5. \A j \in Id : conns[j] # NULL => conns[j].access \in Nat /\ conns[j].access <= issued
  <2>1. \A j \in Id : conns[j] # NULL => conns[j].access \in Issue /\ Seen(conns[j].access)
    BY <1>1 DEF Tables, Row, Seen, OfRow
  <2> QED BY <2>1 DEF RInv, TInv, TokensFresh, Issue
<1>6. AnswersNewer'
  <2> SUFFICES ASSUME "reconnect" \notin happened', NEW r \in Req, LiveAnswer(r)'
               PROVE  Newer(r)'
    BY DEF AnswersNewer
  <2>1. CASE r = q
    <3>1. call[q].id \in Id
      BY <1>1 DEF Call
    <3>2. conns'[c.id] = conns[call[q].id] /\ c.new.access = issued + 1
      BY <1>1, <1>2, <1>3, <2>1 DEF LiveAnswer
    <3> QED BY <1>1, <1>3, <1>5, <2>1, <3>1, <3>2, <1>2 DEF Newer
  <2>2. CASE r # q
    <3>1. LiveAnswer(r) /\ call'[r] = call[r] /\ "reconnect" \notin happened
      BY <1>1, <1>3, <2>2 DEF LiveAnswer
    <3> QED BY <1>1, <3>1 DEF RInv, AnswersNewer, Newer
  <2> QED BY <2>1, <2>2
<1>7. Rises
  BY <1>1, <1>5 DEF Rises
<1> QED BY <1>4, <1>6, <1>7

\* A request may start a refresh, whose call brings nothing yet, or join one.
LEMMA RequestRises ==
    ASSUME RInv, NEW q \in Req,
           \/ NotConnected(q) \/ \E i \in Id : Arrive(q, i)
           \/ FirstAnswer(q) \/ Retry(q) \/ SecondAnswer(q) \/ Metadata(q)
    PROVE  IdsDrawn' /\ AnswersNewer' /\ Rises
<1>1. /\ UNCHANGED <<conns, nextId, happened>> /\ conns \in Tables
      /\ snap \in [Req -> Snap \cup {NULL}] /\ call \in [Req -> Call \cup {NULL}]
      /\ on \in [Req -> Req \cup {NULL}] /\ inflight \in [Id -> Req \cup {NULL}]
      /\ AwaitedRefreshIsLive /\ Served /\ IdsDrawn
  BY DEF NotConnected, Arrive, FirstAnswer, Retry, SecondAnswer, Metadata,
         RInv, TInv, IInv, TypeOK, Tables
<1>2. \/ on' = on /\ call' = call
      \/ \E s \in Snap : Refresh(q, s) /\ s.id < nextId
  <2>1. ASSUME NEW i \in Id, Arrive(q, i)
        PROVE  \/ on' = on /\ call' = call
               \/ \E s \in Snap : Refresh(q, s) /\ s.id < nextId
    <3>1. Snapshot(conns, i) \in Snap /\ Snapshot(conns, i).id = i /\ i < nextId
      BY <1>1, <2>1, SnapshotType DEF Arrive, IdsDrawn
    <3> QED BY <2>1, <3>1 DEF Arrive
  <2>2. CASE FirstAnswer(q)
    <3>1. snap[q] \in Snap /\ snap[q].id < nextId
      BY <1>1, <2>2 DEF FirstAnswer, Served, IdsDrawn
    <3> QED BY <2>2, <3>1 DEF FirstAnswer
  <2> QED BY <2>1, <2>2 DEF NotConnected, Retry, SecondAnswer, Metadata
<1>3. \/ snap' = snap
      \/ \E i \in Id : conns[i] # NULL /\ snap' = [snap EXCEPT ![q] = Snapshot(conns, i)]
  BY DEF NotConnected, Arrive, FirstAnswer, Retry, SecondAnswer, Metadata
<1>4. \A w \in Req : snap'[w] # NULL => snap'[w].id < nextId
  BY <1>1, <1>3, SnapshotType DEF IdsDrawn
<1>5. ASSUME NEW s \in Snap, Refresh(q, s), s.id < nextId
      PROVE  \A w \in Req : /\ call'[w] # NULL => call'[w].id < nextId
                            /\ LiveAnswer(w)' => LiveAnswer(w) /\ call'[w] = call[w]
  <2>1. s.id \in Id
    BY DEF Snap
  <2>2. CASE inflight[s.id] # NULL
    <3>1. on' = [on EXCEPT ![q] = inflight[s.id]] /\ call' = call
      BY <1>5, <2>2 DEF Refresh
    <3>2. on[inflight[s.id]] = inflight[s.id]
      BY <1>1, <2>1, <2>2 DEF AwaitedRefreshIsLive
    <3> QED BY <1>1, <3>1, <3>2 DEF LiveAnswer, IdsDrawn
  <2>3. CASE inflight[s.id] = NULL
    <3> DEFINE c == [id |-> s.id, refresh |-> s.refresh, state |-> "asked", new |-> NULL]
    <3>1. on' = [on EXCEPT ![q] = q] /\ call' = [call EXCEPT ![q] = c]
      BY <1>5, <2>3 DEF Refresh
    <3>2. c.id = s.id /\ c.state = "asked"
      OBVIOUS
    <3> HIDE DEF c
    <3> QED BY <1>1, <1>5, <3>1, <3>2 DEF LiveAnswer, IdsDrawn
  <2> QED BY <2>2, <2>3
<1>6. \A w \in Req : /\ call'[w] # NULL => call'[w].id < nextId
                     /\ LiveAnswer(w)' => LiveAnswer(w) /\ call'[w] = call[w]
  BY <1>1, <1>2, <1>5 DEF LiveAnswer, IdsDrawn
<1>7. IdsDrawn'
  BY <1>1, <1>4, <1>6 DEF IdsDrawn
<1>8. AnswersNewer' /\ Rises
  BY <1>1, <1>6, QuietRises
<1> QED BY <1>7, <1>8

\* A refresh that settles writes a newer token into its row, and into no other.
LEMMA SettleRises ==
    ASSUME RInv, NEW q \in Req, Settle(q)
    PROVE  IdsDrawn' /\ AnswersNewer' /\ Rises
<1> DEFINE i == call[q].id
           ok == call[q].state = "answered"
<1>1. /\ i \in Id /\ inflight[i] = q /\ conns \in Tables /\ conns' \in Tables
      /\ ok => call[q].new \in Refreshed /\ conns' = UpdateTokens(conns, i, call[q].new)
      /\ ~ ok => conns' = conns
      /\ call' = [call EXCEPT ![q] = NULL] /\ call \in [Req -> Call \cup {NULL}]
      /\ UNCHANGED <<nextId, happened>>
      /\ on' = [w \in Req |-> IF on[w] = q THEN NULL ELSE on[w]]
      /\ snap' = [w \in Req |-> IF on[w] = q THEN Held(q, w) ELSE snap[w]]
      /\ call[q] # NULL /\ on[q] = q /\ IInv /\ IdsDrawn /\ AnswersNewer
  <2>1. IInv /\ IdsDrawn /\ AnswersNewer
    BY DEF RInv, TInv
  <2>2. call[q] # NULL /\ on[q] = q
    BY <2>1, NullAssumption DEF Settle, IInv, AwaitedRefreshIsLive
  <2>3. conns \in Tables /\ call \in [Req -> Call \cup {NULL}]
    BY <2>1 DEF IInv, TypeOK, Tables
  <2> HIDE DEF i, ok
  <2>4. /\ i \in Id /\ inflight[i] = q /\ conns' \in Tables
        /\ ok => call[q].new \in Refreshed /\ conns' = UpdateTokens(conns, i, call[q].new)
        /\ ~ ok => conns' = conns
        /\ call' = [call EXCEPT ![q] = NULL]
        /\ UNCHANGED <<nextId, happened>>
        /\ on' = [w \in Req |-> IF on[w] = q THEN NULL ELSE on[w]]
        /\ snap' = [w \in Req |-> IF on[w] = q THEN Held(q, w) ELSE snap[w]]
    BY <2>1, SettleEffect DEF i, ok
  <2> QED BY <2>1, <2>2, <2>3, <2>4
<1>2. /\ \A j \in Id : j # i => conns'[j] = conns[j]
      /\ conns'[i] = NULL <=> conns[i] = NULL
      /\ ok => (conns'[i] # NULL => conns'[i].access = call[q].new.access)
      /\ ~ ok => conns'[i] = conns[i]
  BY <1>1, UpdateTable
<1>3. IdsDrawn'
  <2>1. \A w \in Req : snap'[w] # NULL => snap'[w].id < nextId
    <3>1. i < nextId
      BY <1>1 DEF IdsDrawn
    <3>2. Snapshot(conns', i) # NULL => Snapshot(conns', i).id = i
      BY <1>1, SnapshotType
    <3> QED BY <1>1, <3>1, <3>2 DEF Held, IdsDrawn
  <2>2. \A j \in Id : conns'[j] # NULL => j < nextId
    BY <1>1, <1>2 DEF IdsDrawn
  <2> QED BY <1>1, <2>1, <2>2 DEF IdsDrawn
<1>4. AnswersNewer'
  <2> SUFFICES ASSUME "reconnect" \notin happened', NEW r \in Req, LiveAnswer(r)'
               PROVE  Newer(r)'
    BY DEF AnswersNewer
  <2>1. r # q /\ LiveAnswer(r) /\ call'[r] = call[r]
    BY <1>1, NullAssumption DEF LiveAnswer
  <2>2. call[r].id # i /\ call[r].id \in Id
    <3>1. inflight[call[r].id] = r /\ r # NULL
      BY <1>1, <2>1, NullAssumption DEF LiveAnswer, IInv, AwaitedRefreshIsLive
    <3>2. call[r] \in Call
      BY <1>1, <2>1 DEF LiveAnswer
    <3> QED BY <1>1, <2>1, <3>1, <3>2 DEF Call
  <2> QED BY <1>1, <1>2, <2>1, <2>2 DEF AnswersNewer, Newer
<1>5. Rises
  <2> SUFFICES ASSUME NEW j \in Id, conns[j] # NULL, conns'[j] # NULL,
                      "reconnect" \notin happened
               PROVE  conns'[j].access >= conns[j].access
    BY DEF Rises
  <2>1. conns[j].access \in Nat
    BY <1>1 DEF Tables, Row, Issue
  <2>2. CASE j = i /\ ok
    <3>1. conns[i].access < call[q].new.access /\ call[q].new.access \in Nat
      BY <1>1, <2>2 DEF AnswersNewer, Newer, LiveAnswer, Refreshed, Issue
    <3> QED BY <1>2, <2>1, <2>2, <3>1
  <2>3. CASE j # i \/ ~ ok
    BY <1>1, <1>2, <2>1, <2>3
  <2> QED BY <2>2, <2>3
<1> QED BY <1>3, <1>4, <1>5

\* No step but a save gives an account a row, and a callback that starts looks first.
LEMMA ForeseenStays ==
    ASSUME RInv, [Next]_vars
    PROVE  Foreseen'
<1>1. /\ conns \in Tables /\ exchanged \in Exchanged \cup {NULL}
      /\ call \in [Req -> Call \cup {NULL}] /\ IInv
  BY DEF RInv, TInv, IInv, TypeOK, Tables
<1>2. ASSUME FinishConnect
      PROVE  Foreseen'
  BY <1>2 DEF FinishConnect, Foreseen
<1>3. ASSUME NEW a \in Account, StartConnect(a)
      PROVE  Foreseen'
  <2>1. conns' = conns /\ exchanged'.account = a
    BY <1>3 DEF StartConnect
  <2>2. CASE FindByAccount(conns, "u", "p", a) = {}
    <3>1. ASSUME NEW i \in Id, conns[i] # NULL, conns[i].account = a
          PROVE  FALSE
      <4>1. conns[i] \in Row /\ i \in DOMAIN conns
        BY <1>1, <3>1 DEF Tables
      <4>2. i \in FindByAccount(conns, "u", "p", a)
        BY <3>1, <4>1 DEF FindByAccount, OfUser, Rows, Row
      <4> QED BY <2>2, <4>2
    <3> QED BY <2>1, <3>1 DEF Foreseen
  <2>3. CASE FindByAccount(conns, "u", "p", a) # {}
    <3>1. "reconnect" \in happened'
      BY <1>3, <2>3 DEF StartConnect, Disturb
    <3> QED BY <3>1 DEF Foreseen
  <2> QED BY <2>2, <2>3
<1>4. ASSUME exchanged' \in {exchanged, NULL}, happened \subseteq happened',
             \A j \in Id : conns'[j] # NULL =>
               conns[j] # NULL /\ conns'[j].account = conns[j].account
      PROVE  Foreseen'
  BY <1>4 DEF RInv, Foreseen
<1>5. ASSUME conns' = conns, exchanged' \in {exchanged, NULL}, happened \subseteq happened'
      PROVE  Foreseen'
  BY <1>4, <1>5
<1>6. ASSUME NEW i \in Id, FallDue(i)
      PROVE  Foreseen'
  <2>1. conns[i] \in Row /\ conns[i] # NULL /\ conns' = [conns EXCEPT ![i].expires = "due"]
        /\ UNCHANGED <<exchanged, happened>>
    BY <1>1, <1>6 DEF FallDue, Tables
  <2>2. conns'[i].account = conns[i].account /\ \A j \in Id : j # i => conns'[j] = conns[j]
    BY <1>1, <2>1 DEF Tables, Row
  <2> QED BY <1>4, <2>1, <2>2
<1>7. ASSUME FinishDelete
      PROVE  Foreseen'
  <2>1. UNCHANGED <<exchanged, happened>> /\ \A j \in Id : conns'[j] # NULL => conns'[j] = conns[j]
    BY <1>1, <1>7 DEF FinishDelete, Remove, Tables
  <2> QED BY <1>4, <2>1
<1>8. ASSUME NEW q \in Req, Settle(q)
      PROVE  Foreseen'
  <2> DEFINE i == call[q].id
             new == call[q].new
             ok == call[q].state = "answered"
  <2>1. /\ i \in Id /\ UNCHANGED <<exchanged, happened>>
        /\ ok => new \in Refreshed /\ conns' = UpdateTokens(conns, i, new)
        /\ ~ ok => conns' = conns
    <3> HIDE DEF i, new, ok
    <3> QED BY <1>1, <1>8, SettleEffect DEF i, new, ok
  <2> HIDE DEF i, new, ok
  <2>2. CASE ~ ok
    BY <1>5, <2>1, <2>2
  <2>3. CASE ok
    <3>1. \A j \in Id : conns'[j] # NULL => conns[j] # NULL /\ conns'[j].account = conns[j].account
      BY <1>1, <2>1, <2>3, UpdateAccount
    <3> QED BY <1>4, <2>1, <3>1
  <2> QED BY <2>2, <2>3
<1>9. CASE UNCHANGED vars
  BY <1>5, <1>9 DEF vars
<1>10. CASE Crash
  BY <1>5, <1>10 DEF Crash, Disturb
<1>11. ASSUME NEW q \in Req,
              \/ NotConnected(q) \/ \E i \in Id : Arrive(q, i)
              \/ FirstAnswer(q) \/ Retry(q) \/ SecondAnswer(q) \/ Metadata(q)
       PROVE  Foreseen'
  BY <1>5, <1>11 DEF NotConnected, Arrive, FirstAnswer, Retry, SecondAnswer, Metadata
<1>12. ASSUME NEW q \in Req, ProviderHandles(q) \/ NetworkFault(q)
       PROVE  Foreseen'
  BY <1>5, <1>12 DEF ProviderHandles, NetworkFault, Disturb
<1>13. ASSUME NEW i \in Id, StartDelete(i)
       PROVE  Foreseen'
  BY <1>5, <1>13 DEF StartDelete, Disturb
<1> QED BY <1>2, <1>3, <1>6, <1>7, <1>8, <1>9, <1>10, <1>11, <1>12, <1>13 DEF Next, RequestStep

\* Every step.
LEMMA StepRises ==
    ASSUME RInv, [Next]_vars
    PROVE  RInv' /\ Rises
<1>1. TInv'
  <2>1. IInv /\ Effect /\ TokenEffect /\ IInv'
    BY StepEffect, StepTokens, NextIInv DEF RInv, TInv
  <2> QED BY <2>1, FreshStays, ReadyStays DEF RInv, TInv
<1>2. IdsDrawn' /\ AnswersNewer' /\ Rises
  <2>1. CASE UNCHANGED vars
    <3>1. UNCHANGED <<conns, nextId, call, on, snap, happened>>
      BY <2>1 DEF vars, request
    <3>2. IdsDrawn'
      BY <3>1 DEF RInv, IdsDrawn
    <3> QED BY <3>1, <3>2, QuietRises DEF LiveAnswer
  <2>2. CASE Crash
    <3>1. /\ UNCHANGED <<conns, nextId, call, snap>> /\ happened \subseteq happened'
          /\ \A q \in Req : on'[q] = NULL
      BY <2>2 DEF Crash, Disturb
    <3>2. IdsDrawn'
      BY <3>1 DEF RInv, IdsDrawn
    <3>3. \A q \in Req : ~ LiveAnswer(q)'
      BY <3>1, NullAssumption DEF LiveAnswer
    <3> QED BY <3>1, <3>2, <3>3, QuietRises
  <2>3. CASE Next /\ ~ Crash
    BY <2>3, StartRises, ConnectRises, VaultRises, ProviderRises, RequestRises, SettleRises
       DEF Next, RequestStep
  <2> QED BY <2>1, <2>2, <2>3
<1> QED BY <1>1, <1>2, ForeseenStays DEF RInv

\* The invariant of the tokens holds at the start, and so always.
LEMMA OrderInvariance == Spec => []RInv
<1>1. Init => RInv
  BY InitTInv DEF Init, RInv, IdsDrawn, AnswersNewer, LiveAnswer, Foreseen
<1>2. RInv /\ [Next]_vars => RInv'
  BY StepRises
<1> QED BY <1>1, <1>2, PTL DEF Spec

---------------------------------------------------------------------------
(* The theorems. *)

\* The rows, the map, the calls and the requests in flight are well formed
\* (proxy/middleware.js, proxy/forward.js, proxy/media.js).
THEOREM TypeCorrect == Spec => []TypeOK
  BY Invariance, PTL DEF IInv

\* Whoever awaits a refresh awaits a live one of its own connection, and no entry
\* of the map outlives its refresh (refreshConnection).
THEOREM RefreshIsLive == Spec => []AwaitedRefreshIsLive
  BY Invariance, PTL DEF IInv

\* A connection has one refresh under way, however many requests ask for it
\* (the inflight map of refreshConnection).
THEOREM OneRefresh == Spec => []SingleFlight
<1>1. IInv => SingleFlight
  <2> SUFFICES ASSUME IInv, NEW q \in Req, NEW r \in Req,
                      on[q] = q, on[r] = r, call[q].id = call[r].id
               PROVE  q = r
    BY DEF SingleFlight
  <2>1. q # NULL /\ r # NULL
    BY NullAssumption
  <2>2. inflight[call[q].id] = q /\ inflight[call[r].id] = r
    BY <2>1 DEF IInv, AwaitedRefreshIsLive
  <2> QED BY <2>2
<1> QED BY <1>1, Invariance, PTL

\* What a step makes of a request is a step of the contract, or none.
LEMMA FatesKeepContract ==
    ASSUME IInv, Effect, NEW q \in Req
    PROVE  Promise!ContractStep(q) \/ Promise!Untouched(q)
<1> DEFINE Stage(p) == CASE p = "idle" -> "idle" [] p = "done" -> "closed" [] OTHER -> "open"
           st == Stage(pc[q])
           nx == Stage(pc'[q])
           n == Len(sent[q])
           m == Len(sent'[q])
           Turned == st = "idle" /\ nx = "closed" /\ m = 0 /\ answer'[q] = "404"
           Opened == st = "idle" /\ nx = "open" /\ m \in {0, 1} /\ answer'[q] = NULL
           Again == st = "open" /\ n < 2 /\ nx = "open" /\ m = n + 1 /\ answer'[q] = NULL
           Closed == /\ st = "open" /\ nx = "closed" /\ m = n
                     /\ \/ answer'[q] \in {"500", "502", "reset"}
                        \/ answer'[q] \in {"ok", "401", "torn401"} /\ n > 0
           Same == nx = st /\ m = n /\ answer'[q] = answer[q]
<1>1. SUFFICES Turned \/ Opened \/ Again \/ Closed \/ Same
  <2>1. /\ [r \in Req |-> CASE pc[r] = "idle" -> "idle"
                            [] pc[r] = "done" -> "closed"
                            [] OTHER -> "open"][q] = st
        /\ [r \in Req |-> CASE pc'[r] = "idle" -> "idle"
                            [] pc'[r] = "done" -> "closed"
                            [] OTHER -> "open"][q] = nx
        /\ [r \in Req |-> Len(sent[r])][q] = n
        /\ [r \in Req |-> Len(sent'[r])][q] = m
    OBVIOUS
  <2> HIDE DEF st, nx, n, m
  <2> QED BY <2>1 DEF Promise!ContractStep, Promise!Untouched, Promise!Turnaway, Promise!Open,
                      Promise!SendAgain, Promise!Close, Promise!Upstream, Promise!Unreached
<1>2. /\ pc[q] \in {"idle", "fresh", "first", "retry", "cancel", "second", "done"}
      /\ pc[q] # "done" => answer[q] = NULL
      /\ pc[q] \in {"idle", "fresh"} => n = 0
      /\ pc[q] \in {"first", "retry", "cancel"} => n = 1
      /\ pc[q] = "second" => n = 2
      /\ n \in Nat
  BY DEF IInv, Served, TypeOK
<1>3. Sends(q) => answer'[q] = answer[q] /\ m = n + 1
  BY SendsOneMore
<1>4. sent'[q] = sent[q] => m = n
  OBVIOUS
<1> HIDE DEF n, m
<1>5. CASE Stays(q)
  BY <1>4, <1>5 DEF Stays, Keeps
<1>6. CASE Begins(q)
  <2>1. st = "idle"
    BY <1>6 DEF Begins
  <2>2. \/ pc'[q] = "done" /\ m = 0 /\ answer'[q] = "404"
        \/ pc'[q] \in {"fresh", "first"} /\ m \in {0, 1} /\ answer'[q] = NULL
    BY <1>2, <1>3, <1>4, <1>6 DEF Begins, Ends, Keeps
  <2> QED BY <2>1, <2>2
<1>7. CASE WakesFresh(q)
  <2>1. st = "open" /\ n = 0
    BY <1>2, <1>7 DEF WakesFresh
  <2>2. \/ pc'[q] = "first" /\ m = n + 1 /\ answer'[q] = NULL
        \/ pc'[q] = "done" /\ m = n /\ answer'[q] \in {"500", "502"}
    BY <1>2, <1>3, <1>4, <1>7 DEF WakesFresh
  <2> QED BY <2>1, <2>2
<1>8. CASE WakesRetry(q)
  <2>1. st = "open" /\ n = 1
    BY <1>2, <1>8 DEF WakesRetry
  <2>2. \/ pc'[q] = "cancel" /\ m = n /\ answer'[q] = answer[q]
        \/ pc'[q] = "done" /\ m = n /\ answer'[q] = "401"
    BY <1>4, <1>8 DEF WakesRetry, Ends, Keeps
  <2> QED BY <2>1, <2>2
<1>9. CASE GoesOn(q)
  <2>1. st = "open" /\ n > 0
    BY <1>2, <1>9 DEF GoesOn
  <2>2. \/ pc'[q] = "done" /\ m = n /\ answer'[q] \in {"502", "ok", "401", "torn401"}
        \/ pc'[q] = "retry" /\ m = n /\ answer'[q] = answer[q]
        \/ pc'[q] = "second" /\ n = 1 /\ m = n + 1 /\ answer'[q] = NULL
    BY <1>2, <1>3, <1>4, <1>9 DEF GoesOn, Ends, Keeps
  <2> QED BY <2>1, <2>2
<1>10. CASE Dies(q)
  <2>1. st = "open"
    BY <1>10 DEF Dies
  <2>2. pc'[q] = "done" /\ m = n /\ answer'[q] = "reset"
    BY <1>4, <1>10 DEF Dies, Ends
  <2> QED BY <2>1, <2>2
<1> QED BY <1>5, <1>6, <1>7, <1>8, <1>9, <1>10 DEF Effect, Fate

\* However refreshes, retries, deletions and restarts interleave, each request is
\* served as RequestContract promises: one final answer, at most two calls to the
\* upstream, its status only if it was called (forward.js, media.js, middleware.js).
THEOREM ContractKept == Spec => RequestsKeepContract
<1>1. Init => \A q \in Req : Promise!ContractInit(q)
  BY DEF Init, Promise!ContractInit
<1>2. IInv /\ [Next]_vars => \A q \in Req : Promise!ContractStep(q) \/ Promise!Untouched(q)
  BY StepEffect, FatesKeepContract
<1> QED BY <1>1, <1>2, Invariance, PTL DEF Spec, RequestsKeepContract, Promise!Contract

\* Of a refresh that failed after a 401 the agent gets that 401 with its body: a
\* torn one was passed on only after a second call, or for want of a row (forward.js).
THEOREM TornOnlyAfterRetry == Spec => []FailedRefreshPassesRaw401
<1>1. IInv => FailedRefreshPassesRaw401
  BY DEF IInv, Served, FailedRefreshPassesRaw401
<1> QED BY <1>1, Invariance, PTL

\* The retry after a 401 never repeats the token that was refused, whoever refreshed,
\* reconnected or deleted the connection meanwhile (forward.js, refreshConnection).
THEOREM RetryBringsNewToken == Spec => []RetryUsesNewToken
<1>1. RInv => RetryUsesNewToken
  BY DEF RInv, TInv
<1> QED BY <1>1, OrderInvariance, PTL

\* Without a reconnection no step puts an older token back into a row, whatever
\* refreshes, retries, deletions, lost answers and restarts come together
\* (refreshConnection, updateTokens of store.js).
THEOREM TokensOnlyRise == Spec => TokensNeverGoBack
<1>1. RInv /\ [Next]_vars =>
        [\A i \in Id :
            conns[i] # NULL /\ conns'[i] # NULL /\ "reconnect" \notin happened =>
                conns'[i].access >= conns[i].access]_vars
  BY StepRises DEF Rises
<1> QED BY <1>1, OrderInvariance, PTL DEF Spec, TokensNeverGoBack
=============================================================================
