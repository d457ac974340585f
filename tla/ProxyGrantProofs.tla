-------------------------- MODULE ProxyGrantProofs --------------------------
(***************************************************************************)
(* Proof that a connection of ProxyRefresh at rest can be refreshed, for   *)
(* any number of requests, accounts, rows and issues.  The provider takes  *)
(* a refresh token back when it is used; the proof is that nobody but the  *)
(* row it is used for holds it, so no other row is left with a spent one.  *)
(* Where a spent token presented again ends the grant (detecting), that    *)
(* lasts until somebody presents one.                                      *)
(***************************************************************************)
EXTENDS ProxyRefreshProofs

\* The row keeps the refresh token, a request read it there, or a refresh of
\* the row presents or brings it.
HeldBy(i, n) ==
    \/ conns[i] # NULL /\ conns[i].refresh = n
    \/ \E w \in Req : snap[w] # NULL /\ snap[w].id = i /\ snap[w].refresh = n
    \/ \E q \in Req : /\ call[q] # NULL /\ call[q].id = i
                      /\ \/ call[q].refresh = n
                         \/ call[q].state = "answered" /\ call[q].new.refresh = n

OneOwner == \A i, j \in Id, n \in Issue : HeldBy(i, n) /\ HeldBy(j, n) => i = j

HeldIssued == \A i \in Id, n \in Issue : HeldBy(i, n) => n <= issued

\* A callback has the token of its code to itself until it saves it.
CodeUnshared ==
    \A n \in Issue : exchanged # NULL /\ exchanged.refresh = n =>
        n <= issued /\ \A i \in Id : ~ HeldBy(i, n)

OwnersKnown == OneOwner /\ HeldIssued /\ CodeUnshared

Renews(i) == \E q \in Req : call[q] # NULL /\ call[q].id = i /\ call[q].state = "answered"

DeletesHappened == deleting # NULL => "delete" \in happened

\* Without restarts a call has its request.
CallsLive == \A q \in Req : call[q] # NULL => on[q] = q

\* The provider accepts what a row keeps, unless it has just rotated it ..
RowsUsable ==
    \A i \in Id : conns[i] # NULL /\ conns[i].refresh # NULL =>
        conns[i].refresh \in usable \/ (Rotates /\ Renews(i))

\* .. and then it accepts what the answer brings.
AnswersUsable ==
    \A q \in Req : call[q] # NULL /\ call[q].state = "answered" =>
        IF kind = "fixed" THEN call[q].new.refresh = NULL
        ELSE call[q].new.refresh # NULL /\ call[q].new.refresh \in usable

CodeUsable ==
    exchanged # NULL /\ exchanged.refresh # NULL => exchanged.refresh \in usable

GrantTrue == Undisturbed => CallsLive /\ RowsUsable /\ AnswersUsable /\ CodeUsable

GInv == RInv /\ OwnersKnown /\ DeletesHappened /\ GrantTrue

\* What a step of the requests and of the provider does to the holders: one row at
\* most comes to hold the token that the provider issues in it.
Hands ==
    /\ exchanged' \in {exchanged, NULL}
    /\ issued \in Nat /\ issued' \in {issued, issued + 1}
    /\ \E k \in Id : \A i \in Id, n \in Issue :
          HeldBy(i, n)' => HeldBy(i, n) \/ (i = k /\ n = issued + 1 /\ issued' = issued + 1)

\* What it must keep of the rest.
Grants == DeletesHappened' /\ GrantTrue'

LEMMA OwnersStay ==
    ASSUME OwnersKnown, Hands
    PROVE  OwnersKnown'
<1>1. PICK k \in Id : \A i \in Id, n \in Issue :
          HeldBy(i, n)' => HeldBy(i, n) \/ (i = k /\ n = issued + 1 /\ issued' = issued + 1)
  BY DEF Hands
<1>2. issued \in Nat /\ issued' \in {issued, issued + 1} /\ \A n \in Issue : n \in Nat
  BY DEF Hands, Issue
<1>3. ASSUME NEW i \in Id, NEW n \in Issue, HeldBy(i, n)
      PROVE  n <= issued
  BY <1>3 DEF OwnersKnown, HeldIssued
<1>4. ASSUME NEW i \in Id, NEW j \in Id, NEW n \in Issue, HeldBy(i, n)', HeldBy(j, n)'
      PROVE  i = j
  <2>1. CASE HeldBy(i, n) /\ HeldBy(j, n)
    BY <2>1 DEF OwnersKnown, OneOwner
  <2>2. CASE ~ HeldBy(i, n) /\ ~ HeldBy(j, n)
    BY <1>1, <1>4, <2>2
  <2>3. CASE HeldBy(i, n) /\ ~ HeldBy(j, n)
    BY <1>1, <1>2, <1>3, <1>4, <2>3
  <2>4. CASE ~ HeldBy(i, n) /\ HeldBy(j, n)
    BY <1>1, <1>2, <1>3, <1>4, <2>4
  <2> QED BY <2>1, <2>2, <2>3, <2>4
<1>5. ASSUME NEW i \in Id, NEW n \in Issue, HeldBy(i, n)'
      PROVE  n <= issued'
  BY <1>1, <1>2, <1>3, <1>5
<1>6. OneOwner'
  BY <1>4 DEF OneOwner
<1>7. HeldIssued'
  BY <1>5 DEF HeldIssued
<1>8. CodeUnshared'
  <2> SUFFICES ASSUME NEW n \in Issue, exchanged' # NULL, exchanged'.refresh = n
               PROVE  n <= issued' /\ \A i \in Id : ~ HeldBy(i, n)'
    BY DEF CodeUnshared
  <2>1. n <= issued /\ \A i \in Id : ~ HeldBy(i, n)
    BY DEF Hands, OwnersKnown, CodeUnshared
  <2> QED BY <1>1, <1>2, <2>1
<1> QED BY <1>6, <1>7, <1>8 DEF OwnersKnown

\* The types and the map, as the steps below use them.
LEMMA Shape ==
    ASSUME GInv
    PROVE  /\ conns \in Tables /\ nextId \in 1 .. MaxRows + 1 /\ issued \in Nat
           /\ call \in [Req -> Call \cup {NULL}] /\ snap \in [Req -> Snap \cup {NULL}]
           /\ on \in [Req -> Req \cup {NULL}] /\ inflight \in [Id -> Req \cup {NULL}]
           /\ kind \in Kinds /\ usable \subseteq Issue
           /\ AwaitedRefreshIsLive /\ Served /\ AnswersBringTokens
           /\ exchanged \in Exchanged \cup {NULL}
           /\ NULL \notin Issue /\ NULL \notin Req
           /\ 1 \in Id
  BY NullAssumption, ConstantsAssumption DEF GInv, RInv, TInv, IInv, TypeOK, Tables, Id

\* Two live refreshes are of two rows.
LEMMA CallsApart ==
    ASSUME GInv, Undisturbed, NEW q \in Req, NEW r \in Req, call[q] # NULL, call[r] # NULL,
           call[q].id = call[r].id
    PROVE  q = r /\ inflight[call[q].id] = q
<1>1. ASSUME NEW w \in Req, call[w] # NULL
      PROVE  inflight[call[w].id] = w
  <2>1. on[w] = w
    BY <1>1 DEF GInv, GrantTrue, CallsLive
  <2> QED BY <2>1, Shape DEF AwaitedRefreshIsLive
<1> QED BY <1>1

---------------------------------------------------------------------------
(* The vault. *)

\* What a save makes of the refresh tokens: the new one, or the one kept.
LEMMA UpsertRefresh ==
    ASSUME NEW t \in Tables, NEW code \in Exchanged, NEW e \in {"valid", NULL},
           nextId \in 1 .. MaxRows + 1,
           UpsertId(t, nextId, NewRow(code, e)) \in Id
    PROVE  \A j \in Id :
             Upsert(t, nextId, NewRow(code, e))[j] # NULL =>
               \/ /\ j = UpsertId(t, nextId, NewRow(code, e))
                  /\ Upsert(t, nextId, NewRow(code, e))[j].refresh = code.refresh
               \/ /\ t[j] # NULL
                  /\ Upsert(t, nextId, NewRow(code, e))[j].refresh = t[j].refresh
<1> DEFINE new == NewRow(code, e)
           i == UpsertId(t, nextId, new)
           r == UpsertRow(t, nextId, new)
           d == r.is_default \/ Defaults(t, new.user, new.provider) = {}
           s == Upsert(t, nextId, new)
<1>1. s = [t EXCEPT ![i] = [r EXCEPT !.is_default = d]]
  <2>1. CASE t[i] = NULL
    BY <2>1 DEF Upsert, UpsertRow, Inserted, Tables
  <2>2. CASE t[i] # NULL
    <3>1. t[i] \in Row
      BY <2>2 DEF Tables
    <3> QED BY <2>2, <3>1 DEF Upsert, UpsertRow, Reconnected, Tables, Row
  <2> QED BY <2>1, <2>2
<1>2. \/ [r EXCEPT !.is_default = d].refresh = code.refresh
      \/ t[i] # NULL /\ [r EXCEPT !.is_default = d].refresh = t[i].refresh
  <2>1. CASE t[i] = NULL
    <3>1. r = Inserted(new) /\ new.refresh = code.refresh
      BY <2>1 DEF UpsertRow, NewRow
    <3> HIDE DEF new, d
    <3> QED BY <3>1 DEF Inserted
  <2>2. CASE t[i] # NULL
    <3> DEFINE q == Coalesce(code.refresh, t[i].refresh)
    <3>1. t[i] \in Row
      BY <2>2 DEF Tables
    <3>2. r = [t[i] EXCEPT !.access = new.access, !.refresh = q,
                           !.dek = new.dek, !.expires = new.expires]
      BY <2>2, <3>1 DEF UpsertRow, Reconnected, Row, NewRow
    <3>3. q \in {code.refresh, t[i].refresh}
      BY DEF Coalesce
    <3> HIDE DEF q, r, i, new, d
    <3>4. [r EXCEPT !.is_default = d].refresh = q
      BY <3>1, <3>2 DEF Row
    <3> QED BY <2>2, <3>3, <3>4
  <2> QED BY <2>1, <2>2
<1>3. ASSUME NEW j \in Id, s[j] # NULL
      PROVE  \/ j = i /\ s[j].refresh = code.refresh
             \/ t[j] # NULL /\ s[j].refresh = t[j].refresh
  <2> HIDE DEF r, d, i, s
  <2> QED BY <1>1, <1>2, <1>3 DEF Tables
<1> QED BY <1>3

\* The token of a callback's code is one that nobody else has ..
LEMMA StartGrants ==
    ASSUME GInv, NEW a \in Account, StartConnect(a)
    PROVE  OwnersKnown' /\ Grants
<1>1. PICK refresh \in IF kind = "self" THEN {issued + 1} ELSE {issued + 1, NULL} :
        /\ exchanged' = [account |-> a, access |-> issued + 1, refresh |-> refresh]
        /\ usable' = usable \cup ({refresh} \ {NULL})
  BY DEF StartConnect
<1>2. /\ MayIssue /\ issued' = issued + 1 /\ exchanged'.refresh = refresh
      /\ UNCHANGED <<conns, call, on, snap, deleting, kind, presented>>
      /\ happened \subseteq happened' /\ issued \in Nat
      /\ refresh \in {issued + 1, NULL}
  BY <1>1, Shape DEF StartConnect, Disturb, request
<1>3. issued + 1 \in Issue /\ \A n \in Issue : n \in Nat
  BY <1>2, ConstantsAssumption DEF MayIssue, Issue
<1>4. \A i \in Id, n \in Issue : HeldBy(i, n)' <=> HeldBy(i, n)
  BY <1>2 DEF HeldBy
<1>5. OneOwner'
  BY <1>4 DEF GInv, OwnersKnown, OneOwner
<1>6. HeldIssued'
  BY <1>2, <1>3, <1>4 DEF GInv, OwnersKnown, HeldIssued
<1>7. CodeUnshared'
  <2> SUFFICES ASSUME NEW n \in Issue, exchanged' # NULL, exchanged'.refresh = n
               PROVE  n <= issued' /\ \A i \in Id : ~ HeldBy(i, n)'
    BY DEF CodeUnshared
  <2>1. n = issued + 1 /\ issued' = issued + 1 /\ issued \in Nat
    BY <1>2, Shape
  <2>2. ASSUME NEW i \in Id, HeldBy(i, n)
        PROVE  FALSE
    <3>1. n <= issued
      BY <2>2 DEF GInv, OwnersKnown, HeldIssued
    <3> QED BY <2>1, <3>1
  <2>3. \A i \in Id : ~ HeldBy(i, n)'
    BY <1>4, <2>2
  <2>4. n <= issued'
    BY <2>1
  <2> QED BY <2>3, <2>4
<1>8. GrantTrue'
  <2> SUFFICES ASSUME Undisturbed'
               PROVE  CallsLive' /\ RowsUsable' /\ AnswersUsable' /\ CodeUsable'
    BY DEF GrantTrue
  <2>1. CallsLive /\ RowsUsable /\ AnswersUsable
    BY <1>2 DEF GInv, GrantTrue, Undisturbed
  <2>2. usable \subseteq usable' /\ (refresh # NULL => refresh \in usable')
    BY <1>1
  <2>3. CallsLive' /\ AnswersUsable'
    BY <1>2, <2>1, <2>2 DEF CallsLive, AnswersUsable
  <2>4. RowsUsable'
    BY <1>2, <2>1, <2>2 DEF RowsUsable, Rotates, Renews
  <2>5. CodeUsable'
    BY <1>2, <2>2 DEF CodeUsable
  <2> QED BY <2>3, <2>4, <2>5
<1>9. DeletesHappened'
  BY <1>2 DEF GInv, DeletesHappened
<1> QED BY <1>5, <1>6, <1>7, <1>8, <1>9 DEF OwnersKnown, Grants

\* .. and its save gives it to one row, or lets the row keep its own.
LEMMA FinishGrants ==
    ASSUME GInv, FinishConnect
    PROVE  OwnersKnown' /\ Grants
<1>1. PICK e \in {"valid", NULL} :
             LET new == NewRow(exchanged, e)
             IN  /\ UpsertId(conns, nextId, new) \in Id
                 /\ conns' = Upsert(conns, nextId, new)
  BY DEF FinishConnect
<1> DEFINE new == NewRow(exchanged, e)
           k == UpsertId(conns, nextId, new)
           n == exchanged.refresh
<1>2. /\ conns \in Tables /\ nextId \in 1 .. MaxRows + 1 /\ issued \in Nat
      /\ exchanged # NULL /\ exchanged \in Exchanged /\ exchanged' = NULL
      /\ n \in Gen /\ NULL \notin Issue
      /\ UNCHANGED <<call, on, snap, deleting, kind, issued, usable, presented, happened>>
  BY Shape DEF FinishConnect, request, provider, Exchanged
<1>3. \A j \in Id : Upsert(conns, nextId, new)[j] # NULL =>
        \/ j = k /\ Upsert(conns, nextId, new)[j].refresh = n
        \/ conns[j] # NULL /\ Upsert(conns, nextId, new)[j].refresh = conns[j].refresh
  BY <1>1, <1>2, UpsertRefresh
<1>4. conns' = Upsert(conns, nextId, new) /\ k \in Id
  BY <1>1
<1>5. \A j \in Id : conns'[j] # NULL =>
        \/ j = k /\ conns'[j].refresh = n
        \/ conns[j] # NULL /\ conns'[j].refresh = conns[j].refresh
  BY <1>3, <1>4
<1>6. n # NULL => n \in Issue /\ n <= issued /\ \A i \in Id : ~ HeldBy(i, n)
  BY <1>2 DEF GInv, OwnersKnown, CodeUnshared, Gen
<1> HIDE DEF k, new, n
<1>7. ASSUME NEW i \in Id, NEW m \in Issue, HeldBy(i, m)'
      PROVE  HeldBy(i, m) \/ (i = k /\ m = n)
  BY <1>2, <1>5, <1>7 DEF HeldBy
<1>8. OneOwner'
  <2> SUFFICES ASSUME NEW i \in Id, NEW j \in Id, NEW m \in Issue,
                      HeldBy(i, m)', HeldBy(j, m)'
               PROVE  i = j
    BY DEF OneOwner
  <2>1. HeldBy(i, m) /\ HeldBy(j, m) => i = j
    BY DEF GInv, OwnersKnown, OneOwner
  <2> QED BY <1>2, <1>6, <1>7, <2>1
<1>9. HeldIssued'
  BY <1>2, <1>6, <1>7 DEF GInv, OwnersKnown, HeldIssued
<1>10. CodeUnshared'
  BY <1>2 DEF CodeUnshared
<1>11. GrantTrue'
  <2> SUFFICES ASSUME Undisturbed'
               PROVE  CallsLive' /\ RowsUsable' /\ AnswersUsable' /\ CodeUsable'
    BY DEF GrantTrue
  <2>1. CallsLive /\ RowsUsable /\ AnswersUsable /\ CodeUsable
    BY <1>2 DEF GInv, GrantTrue, Undisturbed
  <2>2. CallsLive' /\ AnswersUsable' /\ CodeUsable'
    BY <1>2, <2>1 DEF CallsLive, AnswersUsable, CodeUsable
  <2>3. n # NULL => n \in usable
    BY <1>2, <2>1 DEF CodeUsable, n
  <2>4. RowsUsable'
    BY <1>2, <1>5, <2>1, <2>3 DEF RowsUsable, Rotates, Renews
  <2> QED BY <2>2, <2>4
<1>12. DeletesHappened'
  BY <1>2 DEF GInv, DeletesHappened
<1> QED BY <1>8, <1>9, <1>10, <1>11, <1>12 DEF OwnersKnown, Grants

\* Clock, deletion: no row gets a token; a deletion may end the grant, and has happened.
LEMMA VaultGrants ==
    ASSUME GInv, \/ \E i \in Id : FallDue(i) \/ StartDelete(i)
                 \/ FinishDelete
    PROVE  Hands /\ Grants
<1>1. /\ UNCHANGED <<call, on, snap, exchanged, kind, issued, presented>>
      /\ happened \subseteq happened' /\ conns \in Tables /\ issued \in Nat /\ 1 \in Id
  BY Shape DEF FallDue, StartDelete, FinishDelete, Disturb, request, provider
<1>2. \A j \in Id : conns'[j] # NULL => conns[j] # NULL /\ conns'[j].refresh = conns[j].refresh
  <2>1. ASSUME NEW i \in Id, FallDue(i)
        PROVE  \A j \in Id : conns'[j] # NULL =>
                 conns[j] # NULL /\ conns'[j].refresh = conns[j].refresh
    <3>1. conns[i] \in Row /\ conns' = [conns EXCEPT ![i].expires = "due"]
      BY <1>1, <2>1 DEF FallDue, Tables
    <3>2. [conns[i] EXCEPT !.expires = "due"].refresh = conns[i].refresh
      BY <3>1 DEF Row
    <3> QED BY <1>1, <2>1, <3>1, <3>2 DEF FallDue, Tables
  <2> QED BY <1>1, <2>1 DEF StartDelete, FinishDelete, Remove, Tables
<1>3. Hands
  <2>1. ASSUME NEW i \in Id, NEW n \in Issue, HeldBy(i, n)'
        PROVE  HeldBy(i, n)
    BY <1>1, <1>2, <2>1 DEF HeldBy
  <2> QED BY <1>1, <2>1 DEF Hands
<1>4. DeletesHappened' /\ (Undisturbed' => usable' = usable)
  BY DEF FallDue, StartDelete, FinishDelete, Disturb, provider, GInv, DeletesHappened, Undisturbed
<1>5. GrantTrue'
  BY <1>1, <1>2, <1>4
     DEF GInv, GrantTrue, Undisturbed, CallsLive, RowsUsable, Rotates, AnswersUsable, CodeUsable,
         Renews
<1> QED BY <1>3, <1>4, <1>5 DEF Grants

---------------------------------------------------------------------------
(* The refreshes. *)

\* The provider takes back what a refresh presents: only its own row holds that.
LEMMA AcceptedGrants ==
    ASSUME GInv, NEW q \in Req, ProviderHandles(q), Accepted(q)
    PROVE  Hands /\ Grants
<1> DEFINE n == issued + 1
           next == IF kind = "fixed" THEN NULL ELSE n
<1>1. PICK e \in {"valid", NULL} :
        call' = [call EXCEPT ![q].state = "answered",
                    ![q].new = [access |-> n, refresh |-> next, dek |-> NULL, expires |-> e]]
  BY DEF Accepted
<1> DEFINE new == [access |-> n, refresh |-> next, dek |-> NULL, expires |-> e]
           c == [call[q] EXCEPT !.state = "answered", !.new = new]
           i == call[q].id
           used == call[q].refresh
<1>2. /\ call[q] # NULL /\ call[q].state = "asked" /\ used \in usable /\ issued' = n
      /\ usable' = (IF Rotates THEN usable \ {used} ELSE usable)
                       \cup ({next} \ {NULL})
      /\ UNCHANGED <<conns, on, snap, exchanged, deleting, kind, presented, happened>>
  BY DEF ProviderHandles, Accepted, request
<1>3. /\ issued \in Nat /\ n \in Issue /\ n # NULL /\ call[q] \in Call /\ i \in Id /\ used \in Issue
      /\ call \in [Req -> Call \cup {NULL}] /\ conns \in Tables /\ usable \subseteq Issue
  <2>1. MayIssue
    BY DEF Accepted
  <2>2. n \in Issue
    BY <2>1, ConstantsAssumption, Shape DEF MayIssue, Issue
  <2> QED BY <1>2, <2>2, Shape DEF Call
<1>4. /\ call'[q] = c /\ \A r \in Req : r # q => call'[r] = call[r]
      /\ call' = [call EXCEPT ![q] = c] /\ c # NULL /\ c.id = i /\ c.refresh = used
      /\ c.state = "answered" /\ c.new.refresh = next
  <2>1. call' = [call EXCEPT ![q] = c] /\ new.refresh = next
    BY <1>1, <1>3
  <2>2. new \in Refreshed
    BY <1>3 DEF Refreshed, Gen
  <2> HIDE DEF new
  <2>3. c \in Call
    BY <1>3, <2>2 DEF Call
  <2> QED BY <1>3, <2>1, <2>3, NullAssumption DEF Call
<1> HIDE DEF c, new
<1>5. Hands
  <2>1. ASSUME NEW j \in Id, NEW m \in Issue, HeldBy(j, m)'
        PROVE  HeldBy(j, m) \/ (j = i /\ m = n)
    <3>1. ASSUME NEW r \in Req, call'[r] # NULL, call'[r].id = j,
                 \/ call'[r].refresh = m
                 \/ call'[r].state = "answered" /\ call'[r].new.refresh = m
          PROVE  HeldBy(j, m) \/ (j = i /\ m = n)
      <4>1. CASE r = q
        <5>1. j = i /\ (m = used \/ m = next)
          BY <1>4, <3>1, <4>1
        <5>2. HeldBy(i, used)
          BY <1>2 DEF HeldBy
        <5>3. m = next => m = n
          BY <1>3, Shape
        <5> QED BY <5>1, <5>2, <5>3
      <4>2. CASE r # q
        <5>1. /\ call[r] # NULL /\ call[r].id = j
              /\ \/ call[r].refresh = m
                 \/ call[r].state = "answered" /\ call[r].new.refresh = m
          BY <1>4, <3>1, <4>2
        <5> QED BY <5>1 DEF HeldBy
      <4> QED BY <4>1, <4>2
    <3>2. HeldBy(j, m) \/ \E r \in Req :
             /\ call'[r] # NULL /\ call'[r].id = j
             /\ \/ call'[r].refresh = m
                \/ call'[r].state = "answered" /\ call'[r].new.refresh = m
      BY <1>2, <2>1 DEF HeldBy
    <3> QED BY <3>1, <3>2
  <2> QED BY <1>2, <1>3, <2>1 DEF Hands
<1>6. GrantTrue'
  <2> SUFFICES ASSUME Undisturbed'
               PROVE  CallsLive' /\ RowsUsable' /\ AnswersUsable' /\ CodeUsable'
    BY DEF GrantTrue
  <2>1. Undisturbed /\ CallsLive /\ RowsUsable /\ AnswersUsable
    BY <1>2 DEF GInv, GrantTrue, Undisturbed
  <2>2. HeldBy(i, used)
    BY <1>2 DEF HeldBy
  <2>3. CallsLive'
    BY <1>2, <1>3, <1>4, <2>1 DEF CallsLive
  <2>4. ASSUME NEW j \in Id, conns[j] # NULL, conns[j].refresh # NULL
        PROVE  conns[j].refresh \in usable' \/ (Rotates /\ Renews(j)')
    <3>1. CASE j = i
      <4>1. Renews(j)'
        BY <1>4, <3>1 DEF Renews
      <4>2. CASE ~ Rotates
        BY <1>2, <2>1, <2>4, <4>2 DEF RowsUsable
      <4> QED BY <3>1, <4>1, <4>2
    <3>2. CASE j # i
      <4>1. CASE Rotates /\ Renews(j)
        <5>1. Renews(j)'
          BY <1>2, <1>3, <1>4, <4>1 DEF Renews
        <5> QED BY <4>1, <5>1
      <4>2. CASE conns[j].refresh \in usable
        <5>1. HeldBy(j, conns[j].refresh) /\ conns[j].refresh \in Issue
          BY <1>3, <2>4, <4>2 DEF HeldBy
        <5>2. conns[j].refresh # used
          BY <1>3, <2>2, <3>2, <5>1 DEF GInv, OwnersKnown, OneOwner
        <5> QED BY <1>2, <4>2, <5>2
      <4> QED BY <2>1, <2>4, <4>1, <4>2 DEF RowsUsable
    <3> QED BY <3>1, <3>2
  <2>5. RowsUsable'
    BY <1>2, <2>4 DEF RowsUsable, Rotates
  <2>6. ASSUME NEW r \in Req, call'[r] # NULL, call'[r].state = "answered"
        PROVE  IF kind = "fixed" THEN call'[r].new.refresh = NULL
               ELSE call'[r].new.refresh # NULL /\ call'[r].new.refresh \in usable'
    <3>1. CASE r = q
      BY <1>2, <1>3, <1>4, <3>1
    <3>2. CASE r # q
      <4>1. call'[r] = call[r] /\ call[r].id \in Id
        BY <1>3, <1>4, <2>6, <3>2 DEF Call
      <4>2. call[r].id # i
        BY <1>2, <2>1, <2>6, <3>2, <4>1, CallsApart
      <4>3. CASE kind # "fixed"
        <5>1. call[r].new.refresh \in usable /\ call[r].new.refresh # NULL
          BY <2>1, <2>6, <4>1, <4>3 DEF AnswersUsable
        <5>2. HeldBy(call[r].id, call[r].new.refresh)
          BY <2>6, <4>1 DEF HeldBy
        <5>3. call[r].new.refresh # used
          BY <1>3, <2>2, <4>1, <4>2, <5>1, <5>2 DEF GInv, OwnersKnown, OneOwner
        <5> QED BY <1>2, <4>1, <4>3, <5>1, <5>3
      <4>4. CASE kind = "fixed"
        BY <2>1, <2>6, <4>1, <4>4 DEF AnswersUsable
      <4> QED BY <4>3, <4>4
    <3> QED BY <3>1, <3>2
  <2>7. AnswersUsable'
    BY <1>2, <2>6 DEF AnswersUsable
  <2>9. CodeUsable'
    <3>1. CodeUsable /\ CodeUnshared
      BY <1>2 DEF GInv, GrantTrue, Undisturbed, OwnersKnown
    <3>2. exchanged # NULL /\ exchanged.refresh # NULL => exchanged.refresh # used
      BY <1>2, <1>3, <2>2, <3>1 DEF CodeUnshared
    <3> QED BY <1>2, <3>1, <3>2 DEF CodeUsable
  <2> QED BY <2>3, <2>5, <2>7, <2>9
<1>7. DeletesHappened'
  BY <1>2 DEF GInv, DeletesHappened
<1> QED BY <1>5, <1>6, <1>7 DEF Grants

\* A refresh that fails brings nothing, and the provider takes nothing back but for a
\* spent token, where it detects that.
LEMMA FailedGrants ==
    ASSUME GInv, NEW q \in Req, NetworkFault(q) \/ (ProviderHandles(q) /\ Refused(q))
    PROVE  Hands /\ Grants
<1> DEFINE c == [call[q] EXCEPT !.state = "failed"]
<1>1. /\ UNCHANGED <<conns, on, snap, exchanged, deleting, kind, issued>>
      /\ call' = [call EXCEPT ![q] = c] /\ call[q] # NULL /\ call[q] \in Call
      /\ call \in [Req -> Call \cup {NULL}] /\ happened \subseteq happened'
      /\ Undisturbed' => Undisturbed /\ usable' = usable /\ call[q].state = "asked"
  BY Shape DEF NetworkFault, ProviderHandles, Refused, Disturb, Undisturbed, request, provider
<1>2. /\ c.id = call[q].id /\ c.state = "failed" /\ c.refresh = call[q].refresh /\ c # NULL
  <2>1. c \in Call
    BY <1>1 DEF Call
  <2> QED BY <1>1, <2>1, NullAssumption DEF Call
<1> HIDE DEF c
<1>3. Hands
  <2>1. ASSUME NEW j \in Id, NEW m \in Issue, HeldBy(j, m)'
        PROVE  HeldBy(j, m)
    BY <1>1, <1>2, <2>1 DEF HeldBy
  <2> QED BY <1>1, <2>1, Shape DEF Hands
<1>4. GrantTrue'
  <2> SUFFICES ASSUME Undisturbed'
               PROVE  CallsLive' /\ RowsUsable' /\ AnswersUsable' /\ CodeUsable'
    BY DEF GrantTrue
  <2>1. CallsLive /\ RowsUsable /\ AnswersUsable /\ usable' = usable
    BY <1>1 DEF GInv, GrantTrue
  <2>2. \A r \in Req : call'[r] # NULL =>
          call[r] # NULL /\ (call'[r].state = "answered" => call'[r] = call[r])
    BY <1>1, <1>2
  <2>3. ASSUME NEW j \in Id, Rotates, Renews(j)
        PROVE  Renews(j)'
    <3>1. PICK r \in Req : call[r] # NULL /\ call[r].id = j /\ call[r].state = "answered"
      BY <2>3 DEF Renews
    <3>2. r # q
      BY <1>1, <3>1
    <3> QED BY <1>1, <3>1, <3>2 DEF Renews
  <2>4. CallsLive' /\ AnswersUsable'
    BY <1>1, <2>1, <2>2 DEF CallsLive, AnswersUsable
  <2>5. RowsUsable'
    BY <1>1, <2>1, <2>3 DEF RowsUsable, Rotates
  <2>6. CodeUsable'
    BY <1>1 DEF GInv, GrantTrue, CodeUsable
  <2> QED BY <2>4, <2>5, <2>6
<1>5. DeletesHappened'
  BY <1>1 DEF GInv, DeletesHappened
<1> QED BY <1>3, <1>4, <1>5 DEF Grants

\* Starting a refresh, or joining one, with the token of its row.
LEMMA RefreshGrants ==
    ASSUME GInv, NEW q \in Req, NEW s \in Snap, s.refresh # NULL, on[q] = NULL, Refresh(q, s)
    PROVE  /\ \A w \in Req : call'[w] # NULL =>
                \/ call[w] # NULL /\ call'[w] = call[w]
                \/ /\ w = q /\ call'[w].id = s.id /\ call'[w].refresh = s.refresh
                   /\ call'[w].state = "asked"
           /\ Undisturbed => \A w \in Req : /\ call[w] # NULL => call'[w] = call[w]
                                            /\ call'[w] # NULL => on'[w] = w
<1>1. /\ call \in [Req -> Call \cup {NULL}] /\ on \in [Req -> Req \cup {NULL}]
      /\ q # NULL /\ (Undisturbed => CallsLive)
  BY Shape DEF GInv, GrantTrue
<1>2. Undisturbed => call[q] = NULL
  BY <1>1 DEF CallsLive
<1>3. CASE inflight[s.id] # NULL
  <2>1. on' = [on EXCEPT ![q] = inflight[s.id]] /\ call' = call
    BY <1>3 DEF Refresh
  <2> QED BY <1>1, <1>2, <2>1 DEF CallsLive
<1>4. CASE inflight[s.id] = NULL
  <2> DEFINE c == [id |-> s.id, refresh |-> s.refresh, state |-> "asked", new |-> NULL]
  <2>1. on' = [on EXCEPT ![q] = q] /\ call' = [call EXCEPT ![q] = c]
    BY <1>4 DEF Refresh
  <2>2. c.id = s.id /\ c.refresh = s.refresh /\ c.state = "asked"
    OBVIOUS
  <2> HIDE DEF c
  <2> QED BY <1>1, <1>2, <2>1, <2>2 DEF CallsLive
<1> QED BY <1>3, <1>4

LEMMA RequestGrants ==
    ASSUME GInv, NEW q \in Req,
           \/ NotConnected(q) \/ \E i \in Id : Arrive(q, i)
           \/ FirstAnswer(q) \/ Retry(q) \/ SecondAnswer(q) \/ Metadata(q)
    PROVE  Hands /\ Grants
<1>1. UNCHANGED <<conns, exchanged, deleting, kind, issued, usable, presented, happened>>
  BY DEF NotConnected, Arrive, FirstAnswer, Retry, SecondAnswer, Metadata, provider
<1>2. /\ conns \in Tables /\ snap \in [Req -> Snap \cup {NULL}]
      /\ call \in [Req -> Call \cup {NULL}] /\ Served /\ issued \in Nat /\ 1 \in Id
  BY Shape
<1>3. pc[q] \in {"idle", "first"} => on[q] = NULL
  BY <1>2 DEF Served
<1>4. \/ snap' = snap
      \/ \E i \in Id : conns[i] # NULL /\ snap' = [snap EXCEPT ![q] = Snapshot(conns, i)]
  BY DEF NotConnected, Arrive, FirstAnswer, Retry, SecondAnswer, Metadata
<1>5. \/ on' = on /\ call' = call
      \/ \E s \in Snap : /\ Refresh(q, s) /\ s.refresh # NULL /\ on[q] = NULL
                         /\ HeldBy(s.id, s.refresh) /\ s.id \in Id
  <2>1. ASSUME NEW i \in Id, Arrive(q, i)
        PROVE  \/ on' = on /\ call' = call
               \/ \E s \in Snap : /\ Refresh(q, s) /\ s.refresh # NULL /\ on[q] = NULL
                                  /\ HeldBy(s.id, s.refresh) /\ s.id \in Id
    <3>1. /\ Snapshot(conns, i) \in Snap /\ Snapshot(conns, i).id = i
          /\ Snapshot(conns, i).refresh = conns[i].refresh /\ conns[i] # NULL
          /\ pc[q] = "idle"
      BY <1>2, <2>1, SnapshotType DEF Arrive
    <3>2. HeldBy(i, conns[i].refresh)
      BY <3>1 DEF HeldBy
    <3> QED BY <1>3, <2>1, <3>1, <3>2 DEF Arrive, NeedsRefresh
  <2>2. CASE FirstAnswer(q)
    <3>1. snap[q] \in Snap /\ snap[q] # NULL /\ pc[q] = "first" /\ snap[q].id \in Id
      BY <1>2, <2>2 DEF FirstAnswer, Served, Snap
    <3>2. HeldBy(snap[q].id, snap[q].refresh)
      BY <3>1 DEF HeldBy
    <3> QED BY <1>3, <2>2, <3>1, <3>2 DEF FirstAnswer
  <2> QED BY <2>1, <2>2 DEF NotConnected, Retry, SecondAnswer, Metadata
<1>6. /\ \A w \in Req : call'[w] # NULL =>
           \/ call[w] # NULL /\ call'[w] = call[w]
           \/ call'[w].state = "asked" /\ HeldBy(call'[w].id, call'[w].refresh)
      /\ Undisturbed => \A w \in Req : /\ call[w] # NULL => call'[w] = call[w]
                                       /\ call'[w] # NULL => on'[w] = w
  <2>1. CASE on' = on /\ call' = call
    BY <2>1 DEF GInv, GrantTrue, CallsLive
  <2>2. ASSUME NEW s \in Snap, Refresh(q, s), s.refresh # NULL, on[q] = NULL,
               HeldBy(s.id, s.refresh)
        PROVE  <1>6
    BY <2>2, RefreshGrants
  <2> QED BY <1>5, <2>1, <2>2
<1>7. \A w \in Req : snap'[w] # NULL =>
        \/ snap[w] # NULL /\ snap'[w] = snap[w]
        \/ /\ conns[snap'[w].id] # NULL /\ snap'[w].refresh = conns[snap'[w].id].refresh
  BY <1>2, <1>4, SnapshotType
<1>8. Hands
  <2>1. ASSUME NEW i \in Id, NEW n \in Issue, HeldBy(i, n)'
        PROVE  HeldBy(i, n)
    <3>1. CASE conns'[i] # NULL /\ conns'[i].refresh = n
      BY <1>1, <3>1 DEF HeldBy
    <3>2. ASSUME NEW w \in Req, snap'[w] # NULL, snap'[w].id = i, snap'[w].refresh = n
          PROVE  HeldBy(i, n)
      BY <1>7, <3>2 DEF HeldBy
    <3>3. ASSUME NEW w \in Req, call'[w] # NULL, call'[w].id = i,
                 \/ call'[w].refresh = n
                 \/ call'[w].state = "answered" /\ call'[w].new.refresh = n
          PROVE  HeldBy(i, n)
      <4>1. CASE call[w] # NULL /\ call'[w] = call[w]
        BY <3>3, <4>1 DEF HeldBy
      <4>2. CASE call'[w].state = "asked" /\ HeldBy(call'[w].id, call'[w].refresh)
        BY <3>3, <4>2
      <4> QED BY <1>6, <3>3, <4>1, <4>2
    <3> QED BY <2>1, <3>1, <3>2, <3>3 DEF HeldBy
  <2> QED BY <1>1, <1>2, <2>1 DEF Hands
<1>9. GrantTrue'
  <2> SUFFICES ASSUME Undisturbed
               PROVE  CallsLive' /\ RowsUsable' /\ AnswersUsable' /\ CodeUsable'
    BY <1>1 DEF GrantTrue, Undisturbed
  <2>1. RowsUsable /\ AnswersUsable
    BY DEF GInv, GrantTrue
  <2>2. CallsLive'
    BY <1>6 DEF CallsLive
  <2>3. \A i \in Id : Renews(i) => Renews(i)'
    BY <1>6 DEF Renews
  <2>4. RowsUsable'
    BY <1>1, <2>1, <2>3 DEF RowsUsable, Rotates
  <2>5. AnswersUsable'
    BY <1>1, <1>6, <2>1 DEF AnswersUsable
  <2>6. CodeUsable'
    BY <1>1 DEF GInv, GrantTrue, CodeUsable
  <2> QED BY <2>2, <2>4, <2>5, <2>6
<1>10. DeletesHappened'
  BY <1>1 DEF GInv, DeletesHappened
<1> QED BY <1>8, <1>9, <1>10 DEF Grants

\* What an update makes of the refresh token of its row.
LEMMA UpdateRefresh ==
    ASSUME NEW t \in Tables, NEW i \in Id, NEW new \in Refreshed, t[i] # NULL
    PROVE  UpdateTokens(t, i, new)[i].refresh =
             IF new.refresh # NULL THEN new.refresh ELSE t[i].refresh
<1> DEFINE q == Coalesce(new.refresh, t[i].refresh)
           k == Coalesce(new.dek, t[i].dek)
           r == [t[i] EXCEPT !.access = new.access, !.refresh = q,
                             !.dek = k, !.expires = new.expires]
<1>1. t[i] \in Row
  BY DEF Tables
<1>2. UpdateTokens(t, i, new) = [t EXCEPT ![i] = r]
  BY <1>1 DEF UpdateTokens, Tables, Row
<1>3. r.refresh = q
  <2> HIDE DEF q, k
  <2> QED BY <1>1 DEF Row
<1> HIDE DEF r
<1>4. UpdateTokens(t, i, new)[i] = r
  BY <1>2 DEF Tables
<1> QED BY <1>3, <1>4 DEF Coalesce

\* The answer goes to its own row, and with it what the provider accepts.
LEMMA SettleGrants ==
    ASSUME GInv, NEW q \in Req, Settle(q)
    PROVE  Hands /\ Grants
<1> DEFINE i == call[q].id
           new == call[q].new
           ok == call[q].state = "answered"
<1>1. /\ on[q] = q /\ call[q] # NULL /\ conns \in Tables /\ issued \in Nat
      /\ call \in [Req -> Call \cup {NULL}]
  BY Shape DEF Settle, AwaitedRefreshIsLive
<1>2. IInv
  BY DEF GInv, RInv, TInv
<1>3. /\ i \in Id /\ inflight[i] = q /\ conns' \in Tables
      /\ ok => new \in Refreshed /\ conns' = UpdateTokens(conns, i, new)
      /\ ~ ok => conns' = conns
      /\ call' = [call EXCEPT ![q] = NULL]
      /\ UNCHANGED <<exchanged, deleting, kind, issued, usable, presented, happened>>
      /\ on' = [w \in Req |-> IF on[w] = q THEN NULL ELSE on[w]]
      /\ snap' = [w \in Req |-> IF on[w] = q THEN Held(q, w) ELSE snap[w]]
  <2>1. presented' = presented
    BY DEF Settle, provider
  <2> HIDE DEF i, new, ok
  <2> QED BY <1>2, <2>1, SettleEffect DEF i, new, ok
<1>4. /\ \A j \in Id : j # i => conns'[j] = conns[j]
      /\ ~ ok => conns'[i] = conns[i]
      /\ ok /\ conns'[i] # NULL =>
           /\ conns[i] # NULL
           /\ conns'[i].refresh = IF new.refresh # NULL THEN new.refresh ELSE conns[i].refresh
  BY <1>1, <1>3, UpdateTable, UpdateRefresh
<1>5. \A w \in Req : call'[w] # NULL => w # q /\ call[w] # NULL /\ call'[w] = call[w]
  BY <1>1, <1>3
<1>6. ASSUME NEW j \in Id, NEW n \in Issue, conns'[j] # NULL, conns'[j].refresh = n
      PROVE  HeldBy(j, n)
  <2>1. CASE j = i /\ ok /\ new.refresh # NULL
    BY <1>1, <1>4, <1>6, <2>1 DEF HeldBy
  <2>2. CASE ~ (j = i /\ ok /\ new.refresh # NULL)
    BY <1>4, <1>6, <2>2 DEF HeldBy
  <2> QED BY <2>1, <2>2
<1>7. ASSUME NEW j \in Id, NEW n \in Issue, NEW w \in Req,
             snap'[w] # NULL, snap'[w].id = j, snap'[w].refresh = n
      PROVE  HeldBy(j, n)
  <2>1. CASE snap'[w] = snap[w]
    BY <1>7, <2>1 DEF HeldBy
  <2>2. CASE snap'[w] # snap[w]
    <3>1. snap'[w] = Snapshot(conns', i)
      BY <1>3, <2>2 DEF Held
    <3>2. j = i /\ conns'[i] # NULL /\ conns'[i].refresh = n
      BY <1>3, <1>7, <3>1, SnapshotType
    <3> QED BY <1>6, <3>2
  <2> QED BY <2>1, <2>2
<1>8. Hands
  <2>1. ASSUME NEW j \in Id, NEW n \in Issue, HeldBy(j, n)'
        PROVE  HeldBy(j, n)
    <3>1. \/ conns'[j] # NULL /\ conns'[j].refresh = n
          \/ \E w \in Req : snap'[w] # NULL /\ snap'[w].id = j /\ snap'[w].refresh = n
          \/ \E w \in Req : /\ call'[w] # NULL /\ call'[w].id = j
                            /\ \/ call'[w].refresh = n
                               \/ call'[w].state = "answered" /\ call'[w].new.refresh = n
      BY <2>1 DEF HeldBy
    <3>2. CASE \E w \in Req : /\ call'[w] # NULL /\ call'[w].id = j
                              /\ \/ call'[w].refresh = n
                                 \/ call'[w].state = "answered" /\ call'[w].new.refresh = n
      BY <1>5, <3>2 DEF HeldBy
    <3> QED BY <1>6, <1>7, <3>1, <3>2
  <2> QED BY <1>1, <1>3, <2>1 DEF Hands
<1>9. GrantTrue'
  <2> SUFFICES ASSUME Undisturbed'
               PROVE  CallsLive' /\ RowsUsable' /\ AnswersUsable' /\ CodeUsable'
    BY DEF GrantTrue
  <2>1. Undisturbed /\ CallsLive /\ RowsUsable /\ AnswersUsable
    BY <1>3 DEF GInv, GrantTrue, Undisturbed
  <2>2. CallsLive'
    BY <1>3, <1>5, <2>1 DEF CallsLive
  <2>3. AnswersUsable'
    BY <1>3, <1>5, <2>1 DEF AnswersUsable
  <2>4. ASSUME NEW j \in Id, conns'[j] # NULL, conns'[j].refresh # NULL
        PROVE  conns'[j].refresh \in usable \/ (Rotates /\ Renews(j)')
    <3>1. CASE j # i
      <4>1. Renews(j) => Renews(j)'
        BY <1>1, <1>3, <3>1 DEF Renews
      <4> QED BY <1>4, <2>1, <2>4, <3>1, <4>1 DEF RowsUsable
    <3>2. CASE j = i /\ ~ ok
      <4>1. ~ Renews(i)
        BY <1>1, <2>1, <3>2, CallsApart DEF Renews
      <4> QED BY <1>4, <2>1, <2>4, <3>2, <4>1 DEF RowsUsable
    <3>3. CASE j = i /\ ok /\ kind = "fixed"
      BY <1>1, <1>4, <2>1, <2>4, <3>3 DEF AnswersUsable, RowsUsable, Rotates
    <3>4. CASE j = i /\ ok /\ kind # "fixed"
      BY <1>1, <1>4, <2>1, <2>4, <3>4 DEF AnswersUsable
    <3> QED BY <3>1, <3>2, <3>3, <3>4
  <2>5. RowsUsable'
    BY <1>3, <2>4 DEF RowsUsable, Rotates
  <2>6. CodeUsable'
    BY <1>3 DEF GInv, GrantTrue, Undisturbed, CodeUsable
  <2> QED BY <2>2, <2>3, <2>5, <2>6
<1>10. DeletesHappened'
  BY <1>3 DEF GInv, DeletesHappened
<1> QED BY <1>8, <1>9, <1>10 DEF Grants

---------------------------------------------------------------------------
(* Every step, and the theorem. *)

LEMMA StepGrants ==
    ASSUME GInv, [Next]_vars
    PROVE  GInv'
<1>1. RInv'
  BY StepRises DEF GInv
<1>2. ASSUME Hands
      PROVE  OwnersKnown'
  BY <1>2, OwnersStay DEF GInv
<1>3. OwnersKnown' /\ Grants
  <2>1. CASE UNCHANGED vars
    <3>1. UNCHANGED <<conns, call, on, snap, exchanged, deleting, kind, issued, usable,
                      presented, happened>>
      BY <2>1 DEF vars, request, provider
    <3>2. Hands
      BY <3>1, Shape DEF Hands, HeldBy
    <3>3. DeletesHappened' /\ GrantTrue'
      BY <3>1 DEF GInv, DeletesHappened, GrantTrue, Undisturbed, CallsLive, RowsUsable,
                  Rotates, AnswersUsable, CodeUsable, Renews
    <3> QED BY <1>2, <3>2, <3>3 DEF Grants
  <2>2. CASE Crash
    <3>1. /\ UNCHANGED <<conns, call, snap, issued>> /\ deleting' = NULL
          /\ exchanged' = NULL /\ "crash" \in happened'
      BY <2>2 DEF Crash, Disturb
    <3>2. Hands
      BY <3>1, Shape DEF Hands, HeldBy
    <3>3. Grants
      BY <3>1 DEF Grants, DeletesHappened, GrantTrue, Undisturbed
    <3> QED BY <1>2, <3>2, <3>3
  <2>3. ASSUME NEW a \in Account, StartConnect(a)
        PROVE  OwnersKnown' /\ Grants
    BY <2>3, StartGrants
  <2>4. CASE FinishConnect
    BY <2>4, FinishGrants
  <2>5. CASE Next /\ ~ Crash /\ ~ FinishConnect /\ ~ \E a \in Account : StartConnect(a)
    <3>1. \A q \in Req : ProviderHandles(q) => Accepted(q) \/ Refused(q)
      BY DEF ProviderHandles
    <3>2. Hands /\ Grants
      BY <2>5, <3>1, VaultGrants, AcceptedGrants, FailedGrants, RequestGrants, SettleGrants
         DEF Next, RequestStep
    <3> QED BY <1>2, <3>2
  <2> QED BY <2>1, <2>2, <2>3, <2>4, <2>5
<1> QED BY <1>1, <1>3 DEF GInv, Grants

LEMMA GrantInvariance == Spec => []GInv
<1>1. Init => GInv
  <2> SUFFICES ASSUME Init
               PROVE  GInv
    OBVIOUS
  <2>1. \A i \in Id, n \in Issue : ~ HeldBy(i, n)
    BY DEF Init, HeldBy
  <2>2. OwnersKnown
    BY <2>1 DEF Init, OwnersKnown, OneOwner, HeldIssued, CodeUnshared
  <2>3. RInv
    BY InitTInv DEF Init, RInv, IdsDrawn, AnswersNewer, LiveAnswer, Foreseen
  <2>4. DeletesHappened /\ GrantTrue
    BY DEF Init, DeletesHappened, GrantTrue, CallsLive, RowsUsable, AnswersUsable, CodeUsable
  <2> QED BY <2>2, <2>3, <2>4 DEF GInv
<1>2. GInv /\ [Next]_vars => GInv'
  BY StepGrants
<1> QED BY <1>1, <1>2, PTL DEF Spec

\* A connection at rest can still be refreshed, whatever refreshes, retries with
\* stale snapshots and reconnections come together; at a provider that detects reuse,
\* until a retry presents a spent token (refreshConnection of proxy/middleware.js,
\* the retry of proxy/forward.js, upsert of lib/store.js).
THEOREM GrantIsKept == Spec => []GrantKept
<1>1. GInv => GrantKept
  <2> SUFFICES ASSUME GInv, NEW i \in Rows(conns), conns[i].refresh # NULL,
                      inflight[i] = NULL, Undisturbed
               PROVE  conns[i].refresh \in usable
    BY DEF GrantKept, Undisturbed
  <2>1. i \in Id /\ conns[i] # NULL
    BY Shape DEF Rows, Tables
  <2>2. ~ Renews(i)
    BY CallsApart, Shape DEF Renews
  <2> QED BY <2>1, <2>2 DEF GInv, GrantTrue, RowsUsable
<1> QED BY <1>1, GrantInvariance, PTL
=============================================================================
