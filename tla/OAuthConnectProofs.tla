------------------------- MODULE OAuthConnectProofs -------------------------
(***************************************************************************)
(* Proofs about OAuthConnect for any users, providers, callbacks, lists of *)
(* accounts and bounds: the type invariant, what the rows of a login hold, *)
(* what "Conectado" means, and that the flow implements OneShotStates.     *)
(*                                                                         *)
(* The loop of saves is a recursive function.  What it leaves behind after *)
(* its first n turns (After) is proved by an induction on n, which is      *)
(* itself derived from the well-foundedness of < on the naturals.          *)
(***************************************************************************)
EXTENDS OAuthConnect, FiniteSetTheorems, WellFoundedInduction, TLAPS

---------------------------------------------------------------------------
(* The table of states. *)

\* A state that has not been drawn has no row.
UndrawnIsFree == \A s \in StateId : s >= nextState => states[s] = NULL

StatesInv == /\ states \in [StateId -> StateRow \cup {NULL}]
        /\ nextState \in 1 .. MaxStates + 1
        /\ clock \in 0 .. MaxClock
        /\ flow = [c \in Callback |-> flow[c]]
        /\ UndrawnIsFree

\* What a step may do to the table of states.
Leaves(s) == states[s] # NULL /\ states'[s] = NULL

Cause(s) == \/ Expired(s)
            \/ \E c \in Callback : flow[c] = NULL /\ flow'[c] # NULL /\ flow'[c].state = s

StatesKept == UNCHANGED <<states, nextState, clock>> /\ flow' = [c \in Callback |-> flow'[c]]

\* A start removes what has expired and writes a row nobody had.
LEMMA StartStep ==
    ASSUME StatesInv, NEW u \in User, NEW p \in Provider, NEW k \in Packs[p], StartFlow(u, p, k)
    PROVE  StatesInv' /\ \A s \in StateId : Leaves(s) => Cause(s)
<1> DEFINE row == [user |-> u, provider |-> p, pack |-> k, created |-> clock]
<1>1. /\ states' = [PurgeExpired EXCEPT ![nextState] = row]
      /\ nextState \in StateId /\ nextState' = nextState + 1
      /\ UNCHANGED <<clock, flow>> /\ MaxStates \in Nat
  BY ConstantsAssumption DEF StartFlow
<1>2. row \in StateRow /\ row # NULL
  <2>1. k \in Kind
    BY ConstantsAssumption
  <2>2. row \in StateRow
    BY <2>1 DEF StateRow, StatesInv
  <2> QED BY <2>2, NullAssumption
<1> HIDE DEF row
<1>3. \A s \in StateId :
        states'[s] = IF s = nextState THEN row
                     ELSE IF states[s] # NULL /\ Expired(s) THEN NULL ELSE states[s]
  BY <1>1 DEF PurgeExpired
<1>4. states' \in [StateId -> StateRow \cup {NULL}]
  <2>1. PurgeExpired \in [StateId -> StateRow \cup {NULL}]
    BY DEF PurgeExpired, StatesInv
  <2> QED BY <1>1, <1>2, <2>1
<1>5. UndrawnIsFree'
  BY <1>1, <1>3 DEF UndrawnIsFree, StatesInv, StateId
<1>6. \A s \in StateId : Leaves(s) => Cause(s)
  BY <1>2, <1>3 DEF Leaves, Cause
<1> QED BY <1>1, <1>4, <1>5, <1>6 DEF StatesInv, StateId

\* A callback removes the state it names.
LEMMA ArriveStep ==
    ASSUME StatesInv, NEW c \in Callback, NEW s \in StateId, NEW p \in Provider, CallbackArrives(c, s, p)
    PROVE  StatesInv' /\ \A t \in StateId : Leaves(t) => Cause(t)
<1> DEFINE new == [state |-> s, provider |-> p, row |-> Consume(s),
                   stage |-> IF Admitted(s, p) THEN "exchange" ELSE "refused",
                   subject |-> NULL, offline |-> FALSE, profile |-> NULL, found |-> <<>>]
<1>1. /\ flow[c] = NULL /\ flow' = [flow EXCEPT ![c] = new]
      /\ states' = [states EXCEPT ![s] = NULL] /\ UNCHANGED <<nextState, clock>>
  BY DEF CallbackArrives, Consumed
<1>2. new \in Flow /\ new.state = s
  <2>1. Consume(s) \in StateRow \cup {NULL}
    BY DEF Consume, StatesInv
  <2>2. << >> \in Seq(Account)
    OBVIOUS
  <2> QED BY <2>1, <2>2 DEF Flow, Stage
<1>3. new # NULL
  BY <1>2, NullAssumption
<1> HIDE DEF new
<1>4. flow'[c] = new /\ flow' = [d \in Callback |-> flow'[d]]
  BY <1>1 DEF StatesInv
<1>5. Cause(s)
  BY <1>1, <1>2, <1>3, <1>4 DEF Cause
<1>6. states' \in [StateId -> StateRow \cup {NULL}] /\ UndrawnIsFree'
  BY <1>1 DEF StatesInv, UndrawnIsFree
<1>7. \A t \in StateId : Leaves(t) => t = s
  BY <1>1 DEF Leaves, StatesInv
<1> QED BY <1>1, <1>4, <1>5, <1>6, <1>7 DEF StatesInv

\* What the provider answers, and a restart, leave the states alone.
LEMMA OtherSteps ==
    ASSUME StatesInv, Tick \/ Restart \/
           \E c \in Callback : Exchange(c) \/ Profile(c) \/ Discover(c) \/ DiscoverAgain(c)
    PROVE  StatesInv' /\ UNCHANGED states
<1>1. CASE Tick
  BY <1>1, ConstantsAssumption DEF Tick, StatesInv, UndrawnIsFree
<1>2. CASE ~ Tick
  <2>1. StatesKept
    <3>1. CASE Restart
      BY <3>1 DEF Restart, StatesKept
    <3>2. ASSUME NEW c \in Callback, NEW new, Moves(c, new)
          PROVE  StatesKept
      BY <3>2 DEF Moves, StatesInv, StatesKept
    <3>3. ASSUME NEW c \in Callback, NEW items, Save(c, items)
          PROVE  StatesKept
      BY <3>3 DEF Save, Stores, StatesInv, StatesKept
    <3>4. ASSUME NEW c \in Callback, NEW discovered, SaveLegacy(c, discovered)
          PROVE  StatesKept
      BY <3>3, <3>4 DEF SaveLegacy
    <3>5. ASSUME NEW c \in Callback, NEW items, SaveList(c, items)
          PROVE  StatesKept
      BY <3>2, <3>3, <3>5 DEF SaveList
    <3>6. ASSUME NEW c \in Callback, Exchange(c) \/ Profile(c)
          PROVE  StatesKept
      BY <3>2, <3>6 DEF Exchange, Profile
    <3>7. ASSUME NEW c \in Callback, Discover(c)
          PROVE  StatesKept
      BY <3>2, <3>4, <3>5, <3>7 DEF Discover, DiscoveryFails
    <3>8. ASSUME NEW c \in Callback, DiscoverAgain(c)
          PROVE  StatesKept
      BY <3>4, <3>8 DEF DiscoverAgain
    <3> QED BY <1>2, <3>1, <3>6, <3>7, <3>8
  <2> QED BY <2>1 DEF StatesInv, UndrawnIsFree, StatesKept
<1> QED BY <1>1, <1>2

\* Every step keeps the invariant and takes a state only for a cause.
LEMMA StepKeeps ==
    ASSUME StatesInv, [Next]_vars
    PROVE  StatesInv' /\ \A s \in StateId : Leaves(s) => Cause(s)
<1>1. CASE UNCHANGED vars
  BY <1>1 DEF vars, StatesInv, UndrawnIsFree, Leaves
<1>2. CASE \E u \in User, p \in Provider : \E k \in Packs[p] : StartFlow(u, p, k)
  BY <1>2, StartStep
<1>3. CASE \E c \in Callback, s \in StateId, p \in Provider : CallbackArrives(c, s, p)
  BY <1>3, ArriveStep
<1>4. CASE Tick \/ Restart \/
           \E c \in Callback : Exchange(c) \/ Profile(c) \/ Discover(c) \/ DiscoverAgain(c)
  BY <1>4, OtherSteps DEF Leaves
<1> QED BY <1>1, <1>2, <1>3, <1>4 DEF Next

\* A state that may still be redeemed disappears only by a callback that names it,
\* however starts and callbacks of other users interleave (oauthStates of store.js).
THEOREM StatesLeaveOnlyForCause == Spec => StatesLeaveForCause
<1>1. Init => StatesInv
  BY ConstantsAssumption DEF Init, StatesInv, UndrawnIsFree
<1>2. StatesInv /\ [Next]_vars => StatesInv'
  BY StepKeeps
<1>3. StatesInv /\ [Next]_vars =>
        [\A s \in StateId : states[s] # NULL /\ states'[s] = NULL =>
            \/ Expired(s)
            \/ \E c \in Callback : flow[c] = NULL /\ flow'[c] # NULL /\ flow'[c].state = s]_vars
  BY StepKeeps DEF Leaves, Cause
<1> QED BY <1>1, <1>2, <1>3, PTL DEF Spec, StatesLeaveForCause

---------------------------------------------------------------------------
(* Induction. *)

\* A set of numbers that has 0 and, with each of its elements, the next one has
\* them all: there is no least number outside.
LEMMA Induction ==
    ASSUME NEW S, 0 \in S, \A n \in Nat : n \in S => n + 1 \in S
    PROVE  Nat \subseteq S
<1> DEFINE T == {n \in Nat : n \notin S}
           R == OpToRel(<, Nat)
<1>1. ASSUME T # {}
      PROVE  FALSE
  <2>1. IsWellFoundedOn(R, Nat)
    BY NatLessThanWellFounded, Zenon
  <2>2. T \subseteq Nat
    OBVIOUS
  <2>3. \E x \in T : \A y \in T : ~ (<<y, x>> \in R)
    <3> HIDE DEF T, R
    <3> QED BY <1>1, <2>1, <2>2, WFMin, Zenon
  <2>4. PICK x \in T : \A y \in T : ~ (<<y, x>> \in R)
    BY <2>3, Zenon
  <2>5. \A y \in Nat : y < x => <<y, x>> \in R
    BY Zenon DEF OpToRel
  <2> HIDE DEF R
  <2>6. x # 0 /\ x - 1 \in Nat /\ x - 1 < x
    OBVIOUS
  <2>7. x - 1 \in S
    BY <2>4, <2>5, <2>6
  <2> QED BY <2>6, <2>7
<1> QED BY <1>1

---------------------------------------------------------------------------
(* The loop of upsertOne. *)

Start == [conns |-> conns, nextId |-> nextId]

\* f is the loop over the first n items.
IsLoop(f, c, items, n) ==
    f = [m \in 0 .. n |-> IF m = 0 THEN Start ELSE SaveOne(f[m - 1], c, items[m])]

LEMMA LoopExists ==
    ASSUME NEW c, NEW items
    PROVE  \A n \in Nat : \E f : IsLoop(f, c, items, n)
<1> DEFINE S == {n \in Nat : \E f : IsLoop(f, c, items, n)}
<1>1. 0 \in S
  <2> DEFINE f == [m \in 0 .. 0 |-> Start]
  <2>1. IsLoop(f, c, items, 0)
    BY DEF IsLoop
  <2> QED BY <2>1
<1>2. ASSUME NEW n \in Nat, n \in S
      PROVE  n + 1 \in S
  <2>1. PICK f : IsLoop(f, c, items, n)
    BY <1>2
  <2> DEFINE next == SaveOne(f[n], c, items[n + 1])
             g == [m \in 0 .. n + 1 |-> IF m = n + 1 THEN next ELSE f[m]]
  <2>2. \A m \in 0 .. n : f[m] = IF m = 0 THEN Start ELSE SaveOne(f[m - 1], c, items[m])
    BY <2>1 DEF IsLoop
  <2>3. \A m \in 0 .. n + 1 : g[m] = IF m = 0 THEN Start ELSE SaveOne(g[m - 1], c, items[m])
    <3>1. SUFFICES ASSUME NEW m \in 0 .. n + 1
                   PROVE  g[m] = IF m = 0 THEN Start ELSE SaveOne(g[m - 1], c, items[m])
      OBVIOUS
    <3>2. CASE m = n + 1
      <4>1. g[m] = next /\ m # 0 /\ m - 1 = n /\ g[m - 1] = f[n]
        BY <3>2
      <4> QED BY <3>2, <4>1
    <3>3. CASE m # n + 1
      <4>1. m \in 0 .. n /\ g[m] = f[m] /\ (m # 0 => g[m - 1] = f[m - 1])
        BY <3>3
      <4> HIDE DEF g
      <4> QED BY <2>2, <4>1
    <3> QED BY <3>2, <3>3
  <2>4. IsLoop(g, c, items, n + 1)
    <3>1. g = [m \in 0 .. n + 1 |-> g[m]]
      OBVIOUS
    <3> HIDE DEF g
    <3> QED BY <2>3, <3>1 DEF IsLoop
  <2> QED BY <2>4
<1> HIDE DEF S
<1>3. Nat \subseteq S
  BY <1>1, <1>2, Induction
<1> QED BY <1>3 DEF S

LEMMA SavedIsLoop ==
    ASSUME NEW c, NEW S, NEW items \in Seq(S)
    PROVE  /\ Saved(c, items)[0] = Start
           /\ \A n \in 1 .. Len(items) :
                Saved(c, items)[n] = SaveOne(Saved(c, items)[n - 1], c, items[n])
<1>1. Len(items) \in Nat
  OBVIOUS
<1>2. Saved(c, items) = CHOOSE f : IsLoop(f, c, items, Len(items))
  BY Zenon DEF Saved, IsLoop, Start
<1>3. \E f : IsLoop(f, c, items, Len(items))
  BY <1>1, LoopExists
<1>4. IsLoop(Saved(c, items), c, items, Len(items))
  BY <1>2, <1>3, Zenon
<1> QED BY <1>1, <1>4 DEF IsLoop

---------------------------------------------------------------------------
(* One turn of it. *)

Items == [account: Account, refresh: Callback \cup {NULL}]

\* The flow of a callback that saves.
Saving(c) == c \in Callback /\ flow[c] # NULL /\ flow[c].row \in StateRow /\ flow[c].provider \in Provider

\* A table as the repository keeps it.
TableOK(t) == /\ t.conns \in [Id -> Row \cup {NULL}]
              /\ t.nextId \in Nat \ {0}
              /\ \A i \in Id : i >= t.nextId => t.conns[i] = NULL

\* The row of an account of the callback's user.
Names(row, c, item) == /\ row # NULL
                       /\ row.user = flow[c].row.user
                       /\ row.provider = flow[c].provider
                       /\ row.account = item.account

\* Row i of the table is inserted, or its tokens replaced.
Turn(t, u, c, item, i, row) ==
    /\ u.conns = [t.conns EXCEPT ![i] = row]
    /\ Names(row, c, item) /\ row.access = c
    /\ \/ /\ FindByAccount(t.conns, flow[c].row.user, flow[c].provider, item.account) = {}
          /\ i = t.nextId /\ u.nextId = t.nextId + 1
          /\ t.conns[i] = NULL /\ row.refresh = item.refresh
       \/ /\ Names(t.conns[i], c, item) /\ u.nextId = t.nextId
          /\ row.refresh = Coalesce(item.refresh, t.conns[i].refresh)

\* The prepared statement of the upsert, for an account that is new and for one
\* that is not.
LEMMA SaveOneTurns ==
    ASSUME NEW c, Saving(c), clock \in 0 .. MaxClock, NEW t, TableOK(t), NEW item \in Items,
           FindByAccount(t.conns, flow[c].row.user, flow[c].provider, item.account) = {}
                => t.nextId \in Id
    PROVE  \E i \in Id, row \in Row : Turn(t, SaveOne(t, c, item), c, item, i, row)
<1> DEFINE user == flow[c].row.user
           provider == flow[c].provider
           same == FindByAccount(t.conns, user, provider, item.account)
           new == [user |-> user, provider |-> provider, account |-> item.account, alias |-> NULL,
                   access |-> c, refresh |-> item.refresh, dek |-> NULL, expires |-> NULL,
                   created |-> clock]
           i == UpsertId(t.conns, t.nextId, new)
           default == Defaults(t.conns, user, provider) = {}
           row == [UpsertRow(t.conns, t.nextId, new) EXCEPT !.is_default = @ \/ default]
           u == SaveOne(t, c, item)
<1>1. /\ u.conns = [t.conns EXCEPT ![i] = row]
      /\ u.nextId = IF i = t.nextId THEN i + 1 ELSE t.nextId
  BY DEF SaveOne, Upsert
<1>2. i = IF same = {} THEN t.nextId ELSE CHOOSE j \in same : TRUE
  BY DEF UpsertId
<1>3. /\ user \in User /\ provider \in Provider /\ c \in Callback /\ clock \in 0 .. MaxClock
      /\ item.account \in Account /\ item.refresh \in Callback \cup {NULL}
  BY DEF Saving, StateRow, Items
<1>4. \A j \in same : j \in Id /\ Names(t.conns[j], c, item)
  BY DEF FindByAccount, OfUser, Rows, TableOK, Names
<1>5. NULL \notin Row
  BY NullAssumption
<1>6. ASSUME NEW b \in BOOLEAN,
             NEW old \in Row, old.user = user, old.provider = provider, old.account = item.account,
             row = [old EXCEPT !.access = c, !.refresh = Coalesce(item.refresh, @), !.dek = NULL,
                               !.expires = NULL, !.is_default = b]
      PROVE  /\ row \in Row /\ Names(row, c, item) /\ row.access = c
             /\ row.refresh = Coalesce(item.refresh, old.refresh)
  <2>1. Coalesce(item.refresh, old.refresh) \in Callback \cup {NULL}
    BY <1>3, <1>6 DEF Coalesce, Row
  <2> HIDE DEF row, user, provider
  <2>2. row \in Row /\ row.user = old.user /\ row.provider = old.provider /\ row.account = old.account
        /\ row.access = c /\ row.refresh = Coalesce(item.refresh, old.refresh)
    BY <1>3, <1>6, <2>1 DEF Row
  <2> QED BY <1>5, <1>6, <2>2 DEF Names, user, provider
<1>7. CASE same = {}
  <2>1. i = t.nextId /\ i \in Id /\ t.conns[i] = NULL
    BY <1>2, <1>7 DEF TableOK
  <2>2. row = [Inserted(new) EXCEPT !.is_default = @ \/ default]
    BY <2>1 DEF UpsertRow
  <2>3. row = [user |-> user, provider |-> provider, account |-> item.account, alias |-> NULL,
               access |-> c, refresh |-> item.refresh, dek |-> NULL, expires |-> NULL, url |-> NULL,
               is_default |-> default, created |-> clock]
    BY <2>2 DEF Inserted
  <2>4. row \in Row /\ Names(row, c, item) /\ row.access = c /\ row.refresh = item.refresh
    <3> HIDE DEF default, user, provider, row
    <3>1. default \in BOOLEAN
      BY DEF default
    <3>2. row \in Row
      BY <1>3, <2>3, <3>1 DEF Row
    <3>3. row.user = user /\ row.provider = provider /\ row.account = item.account
          /\ row.access = c /\ row.refresh = item.refresh
      BY <2>3
    <3> QED BY <1>5, <3>2, <3>3 DEF Names, user, provider
  <2> HIDE DEF row, u, i
  <2> QED BY <1>1, <1>7, <2>1, <2>4 DEF Turn, u
<1>8. CASE same # {}
  <2>1. i \in same
    <3> HIDE DEF same, i
    <3> QED BY <1>2, <1>8, Zenon
  <2>2. i \in Id /\ Names(t.conns[i], c, item) /\ i # t.nextId
    BY <1>4, <2>1 DEF TableOK, Names
  <2>3. t.conns[i] \in Row /\ t.conns[i] # NULL
    BY <2>2 DEF TableOK, Names
  <2> DEFINE old == t.conns[i]
             b == old.is_default \/ default
  <2>4. row = [old EXCEPT !.access = c, !.refresh = Coalesce(item.refresh, @), !.dek = NULL,
                          !.expires = NULL, !.is_default = b]
    <3>1. row = [Reconnected(t.conns[i], new) EXCEPT !.is_default = @ \/ default]
      BY <2>3 DEF UpsertRow
    <3> HIDE DEF i, default, row
    <3> QED BY <2>3, <3>1 DEF Reconnected, Row
  <2>5. b \in BOOLEAN
    BY <2>3 DEF Row
  <2>6. /\ row \in Row /\ Names(row, c, item) /\ row.access = c
        /\ row.refresh = Coalesce(item.refresh, old.refresh)
    <3> HIDE DEF b, row, i
    <3> QED BY <1>6, <2>2, <2>3, <2>4, <2>5 DEF Names
  <2> HIDE DEF row, u, i
  <2> QED BY <1>1, <2>2, <2>6 DEF Turn, u
<1> QED BY <1>7, <1>8

---------------------------------------------------------------------------
(* All of it. *)

FreshTo(c, items, n) == {k \in Fresh(c, items) : k <= n}

\* What the first n turns did to row i: nothing, or the token of c is in it with
\* the refresh token of an item, or the one it had if the item brought none.
Touched(t, c, items, n, i) ==
    \E k \in 1 .. n :
        /\ Names(t.conns[i], c, items[k]) /\ t.conns[i].access = c
        /\ \/ t.conns[i].refresh = items[k].refresh
           \/ /\ items[k].refresh = NULL
              /\ Names(conns[i], c, items[k]) /\ t.conns[i].refresh = conns[i].refresh

Stays(old, row) == /\ row # NULL /\ row.user = old.user
                   /\ row.provider = old.provider /\ row.account = old.account

After(t, c, items, n) ==
    /\ TableOK(t)
    /\ t.nextId <= nextId + Cardinality(FreshTo(c, items, n))
    /\ \A i \in Id : conns[i] # NULL => Stays(conns[i], t.conns[i])
    /\ \A i \in Id : t.conns[i] # conns[i] => Touched(t, c, items, n, i)
    /\ \A k \in 1 .. n : \E i \in Id : Names(t.conns[i], c, items[k]) /\ t.conns[i].access = c

LEMMA FreshIsFinite ==
    ASSUME NEW c, NEW items \in Seq(Items), NEW n \in 0 .. Len(items)
    PROVE  /\ IsFiniteSet(Fresh(c, items)) /\ IsFiniteSet(FreshTo(c, items, n))
           /\ Cardinality(Fresh(c, items)) \in Nat /\ Cardinality(FreshTo(c, items, n)) \in Nat
           /\ Cardinality(FreshTo(c, items, n)) <= Cardinality(Fresh(c, items))
           /\ n + 1 \in Fresh(c, items) =>
                Cardinality(FreshTo(c, items, n + 1)) = Cardinality(FreshTo(c, items, n)) + 1
           /\ n + 1 \notin Fresh(c, items) =>
                FreshTo(c, items, n + 1) = FreshTo(c, items, n)
<1>1. Len(items) \in Nat /\ DOMAIN items = 1 .. Len(items)
  OBVIOUS
<1>2. IsFiniteSet(1 .. Len(items))
  BY <1>1, FS_Interval
<1>3. Fresh(c, items) \subseteq 1 .. Len(items)
  BY <1>1 DEF Fresh
<1>4. IsFiniteSet(Fresh(c, items)) /\ Cardinality(Fresh(c, items)) \in Nat
  BY <1>2, <1>3, FS_Subset, FS_CardinalityType
<1>5. FreshTo(c, items, n) \in SUBSET Fresh(c, items)
  BY DEF FreshTo
<1>6. /\ IsFiniteSet(FreshTo(c, items, n)) /\ Cardinality(FreshTo(c, items, n)) \in Nat
      /\ Cardinality(FreshTo(c, items, n)) <= Cardinality(Fresh(c, items))
  BY <1>4, <1>5, FS_Subset, FS_CardinalityType
<1>7. ASSUME n + 1 \in Fresh(c, items)
      PROVE  Cardinality(FreshTo(c, items, n + 1)) = Cardinality(FreshTo(c, items, n)) + 1
  <2>1. FreshTo(c, items, n + 1) = FreshTo(c, items, n) \cup {n + 1} /\ n + 1 \notin FreshTo(c, items, n)
    BY <1>1, <1>3, <1>7 DEF FreshTo
  <2> QED BY <1>6, <2>1, FS_AddElement
<1>8. ASSUME n + 1 \notin Fresh(c, items)
      PROVE  FreshTo(c, items, n + 1) = FreshTo(c, items, n)
  BY <1>1, <1>3, <1>8 DEF FreshTo
<1> QED BY <1>4, <1>6, <1>7, <1>8

\* One turn more.
LEMMA TurnKeeps ==
    ASSUME NEW c, Saving(c), clock \in 0 .. MaxClock, TableOK(Start),
           NEW items \in Seq(Items), NEW n \in 0 .. Len(items) - 1,
           nextId + Cardinality(Fresh(c, items)) <= MaxRows + 1,
           NEW t, After(t, c, items, n)
    PROVE  After(SaveOne(t, c, items[n + 1]), c, items, n + 1)
<1> DEFINE item == items[n + 1]
           u == SaveOne(t, c, item)
           same == FindByAccount(t.conns, flow[c].row.user, flow[c].provider, item.account)
<1>1. /\ Len(items) \in Nat /\ n + 1 \in 1 .. Len(items) /\ item \in Items /\ n \in 0 .. Len(items)
      /\ \A k \in 1 .. n + 1 : k \in 1 .. n \/ k = n + 1
      /\ DOMAIN items = 1 .. Len(items)
  OBVIOUS
<1>2. TableOK(t) /\ MaxRows \in Nat /\ nextId \in Nat
  BY ConstantsAssumption DEF After, TableOK, Start
<1>3. ASSUME same = {}
      PROVE  n + 1 \in Fresh(c, items)
  <2>1. \A i \in Id : ~ Names(t.conns[i], c, item)
    BY <1>2, <1>3 DEF FindByAccount, OfUser, Rows, TableOK, Names
  <2>2. \A i \in Id : ~ Names(conns[i], c, item)
    BY <2>1 DEF After, Stays, Names
  <2>3. FindByAccount(conns, flow[c].row.user, flow[c].provider, items[n + 1].account) = {}
    BY <2>2 DEF FindByAccount, OfUser, Rows, TableOK, Start, Names
  <2> QED BY <1>1, <2>3 DEF Fresh
<1>4. /\ Cardinality(FreshTo(c, items, n)) \in Nat /\ Cardinality(FreshTo(c, items, n + 1)) \in Nat
      /\ Cardinality(FreshTo(c, items, n + 1)) <= Cardinality(Fresh(c, items))
      /\ Cardinality(Fresh(c, items)) \in Nat
      /\ same = {} =>
            Cardinality(FreshTo(c, items, n + 1)) = Cardinality(FreshTo(c, items, n)) + 1
      /\ Cardinality(FreshTo(c, items, n)) <= Cardinality(FreshTo(c, items, n + 1))
  BY <1>1, <1>3, FreshIsFinite
<1>5. t.nextId \in Nat \ {0} /\ t.nextId <= nextId + Cardinality(FreshTo(c, items, n))
  BY DEF After, TableOK
<1>6. same = {} => t.nextId \in Id
  <2> HIDE DEF same
  <2> QED BY <1>2, <1>4, <1>5 DEF Id
<1>7. PICK i \in Id, row \in Row : Turn(t, u, c, item, i, row)
  <2> HIDE DEF u, item
  <2> QED BY <1>1, <1>2, <1>6, SaveOneTurns DEF u
<1> HIDE DEF u, item
<1>8. /\ u.conns \in [Id -> Row \cup {NULL}] /\ u.conns[i] = row
      /\ \A j \in Id : j # i => u.conns[j] = t.conns[j]
      /\ Names(row, c, item) /\ row.access = c
  BY <1>2, <1>7 DEF Turn, TableOK
<1>9. \/ /\ same = {} /\ i = t.nextId /\ u.nextId = t.nextId + 1
         /\ t.conns[i] = NULL /\ row.refresh = item.refresh
      \/ /\ Names(t.conns[i], c, item) /\ u.nextId = t.nextId
         /\ row.refresh = Coalesce(item.refresh, t.conns[i].refresh)
  BY <1>7 DEF Turn
<1> HIDE DEF same
<1>10. TableOK(u)
  <2>1. u.nextId \in Nat \ {0} /\ u.nextId >= t.nextId
    BY <1>5, <1>9
  <2>2. ASSUME NEW j \in Id, j >= u.nextId
        PROVE  u.conns[j] = NULL
    <3>1. j >= t.nextId /\ t.conns[j] = NULL
      BY <1>2, <1>5, <2>1, <2>2 DEF TableOK, Id
    <3>2. j # i
      BY <1>5, <1>9, <2>2, <3>1 DEF Names, Id
    <3> QED BY <1>8, <3>1, <3>2
  <2> QED BY <1>8, <2>1, <2>2 DEF TableOK
<1>11. u.nextId <= nextId + Cardinality(FreshTo(c, items, n + 1))
  <2> DEFINE k == Cardinality(FreshTo(c, items, n))
             l == Cardinality(FreshTo(c, items, n + 1))
  <2>1. k \in Nat /\ l \in Nat /\ k <= l /\ (same = {} => l = k + 1)
    BY <1>4
  <2>2. u.nextId = t.nextId \/ (same = {} /\ u.nextId = t.nextId + 1)
    BY <1>9
  <2>3. t.nextId \in Nat /\ t.nextId <= nextId + k
    BY <1>5
  <2> HIDE DEF k, l
  <2>4. u.nextId <= nextId + l
    BY <1>2, <2>1, <2>2, <2>3
  <2> QED BY <2>4 DEF l
<1>12. ASSUME NEW j \in Id, conns[j] # NULL
       PROVE  Stays(conns[j], u.conns[j])
  <2>1. Stays(conns[j], t.conns[j])
    BY <1>12 DEF After
  <2> QED BY <1>8, <1>9, <2>1 DEF Stays, Names
<1>13. ASSUME NEW j \in Id, u.conns[j] # conns[j]
       PROVE  Touched(u, c, items, n + 1, j)
  <2>1. CASE j # i
    <3>1. u.conns[j] = t.conns[j] /\ Touched(t, c, items, n, j)
      BY <1>8, <1>13, <2>1 DEF After
    <3> QED BY <1>1, <3>1 DEF Touched
  <2>2. CASE j = i /\ row.refresh = item.refresh
    BY <1>1, <1>8, <2>2 DEF Touched, item
  <2>3. CASE j = i /\ row.refresh # item.refresh
    <3>1. /\ Names(t.conns[i], c, item) /\ item.refresh = NULL
          /\ row.refresh = t.conns[i].refresh
      BY <1>9, <2>3 DEF Coalesce
    <3>2. CASE t.conns[i] = conns[i]
      BY <1>1, <1>8, <2>3, <3>1, <3>2 DEF Touched, item
    <3>3. CASE t.conns[i] # conns[i]
      <4>1. PICK k \in 1 .. n :
              /\ Names(t.conns[i], c, items[k])
              /\ \/ t.conns[i].refresh = items[k].refresh
                 \/ /\ items[k].refresh = NULL
                    /\ Names(conns[i], c, items[k]) /\ t.conns[i].refresh = conns[i].refresh
        BY <3>3 DEF After, Touched
      <4>2. Names(row, c, items[k])
        BY <1>8, <3>1, <4>1 DEF Names
      <4>3. k \in 1 .. n + 1
        BY <1>1
      <4> QED BY <1>8, <2>3, <3>1, <4>1, <4>2, <4>3 DEF Touched
    <3> QED BY <3>2, <3>3
  <2> QED BY <2>1, <2>2, <2>3
<1>14. ASSUME NEW k \in 1 .. n + 1
       PROVE  \E j \in Id : Names(u.conns[j], c, items[k]) /\ u.conns[j].access = c
  <2>1. CASE k = n + 1
    BY <1>8, <2>1 DEF item
  <2>2. CASE k \in 1 .. n
    <3>1. PICK j \in Id : Names(t.conns[j], c, items[k]) /\ t.conns[j].access = c
      BY <2>2 DEF After
    <3>2. CASE j # i
      BY <1>8, <3>1, <3>2
    <3>3. CASE j = i
      <4>1. Names(row, c, items[k])
        BY <1>2, <1>8, <1>9, <3>1, <3>3 DEF Names
      <4> QED BY <1>8, <3>3, <4>1
    <3> QED BY <3>2, <3>3
  <2> QED BY <1>1, <2>1, <2>2
<1> QED BY <1>10, <1>11, <1>12, <1>13, <1>14 DEF After, u, item

\* Every prefix of the loop leaves the table as After says.
LEMMA SavedIsAfter ==
    ASSUME NEW c, Saving(c), clock \in 0 .. MaxClock, TableOK(Start),
           NEW items \in Seq(Items), nextId + Cardinality(Fresh(c, items)) <= MaxRows + 1
    PROVE  \A n \in 0 .. Len(items) : After(Saved(c, items)[n], c, items, n)
<1> DEFINE t == Saved(c, items)
           S == {n \in Nat : n <= Len(items) => After(t[n], c, items, n)}
<1>1. Len(items) \in Nat
  OBVIOUS
<1>2. t[0] = Start /\ \A n \in 1 .. Len(items) : t[n] = SaveOne(t[n - 1], c, items[n])
  BY SavedIsLoop
<1> HIDE DEF t
<1>3. 0 \in S
  <2>1. 0 \in 0 .. Len(items)
    BY <1>1
  <2>2. Cardinality(FreshTo(c, items, 0)) \in Nat
    BY <2>1, FreshIsFinite
  <2>3. nextId \in Nat /\ Start.nextId = nextId /\ Start.conns = conns
    BY DEF TableOK, Start
  <2>4. \A i \in Id : Start.conns[i] = conns[i] /\ (Stays(conns[i], Start.conns[i]) \/ conns[i] = NULL)
    BY <2>3 DEF Stays
  <2>5. After(Start, c, items, 0)
    BY <2>2, <2>3, <2>4 DEF After
  <2> QED BY <1>2, <2>5
<1>4. ASSUME NEW n \in Nat, n \in S
      PROVE  n + 1 \in S
  <2>1. SUFFICES ASSUME n + 1 <= Len(items)
                 PROVE  After(t[n + 1], c, items, n + 1)
    OBVIOUS
  <2>2. n \in 0 .. Len(items) - 1 /\ After(t[n], c, items, n) /\ n + 1 \in 1 .. Len(items)
    BY <1>1, <1>4, <2>1
  <2>3. t[n + 1] = SaveOne(t[n], c, items[n + 1])
    BY <1>2, <2>2
  <2> HIDE DEF S
  <2> QED BY <2>2, <2>3, TurnKeeps
<1> HIDE DEF S
<1>5. Nat \subseteq S
  BY <1>3, <1>4, Induction
<1> QED BY <1>5 DEF S, t

---------------------------------------------------------------------------
(* What a callback may do. *)

\* A callback whose rows stay as it left them.
Settled(f, c) == f[c] # NULL /\ f[c].stage \in {"ok", "500"}

\* What the handler knows at each of its awaits.
Tells(f) ==
    /\ f.stage # "refused" => f.row # NULL /\ f.row.provider = f.provider
    /\ f.stage \in {"exchange", "profile"} => f.profile = NULL
    /\ f.stage \in {"discover", "again"} => f.profile \in {NULL, f.subject}
    /\ f.stage = "again" => f.row.pack = "whatsapp"

\* A row of callbacks that are done: its tokens are of one subject, and the row
\* of a page is renewed with the token of the login.
Whole(f, row) ==
    /\ Settled(f, row.access)
    /\ row.refresh # NULL => Settled(f, row.refresh)
    /\ row.account \in Subject /\ row.refresh # NULL =>
            f[row.access].subject = row.account /\ f[row.refresh].subject = row.account
    /\ f[row.access].row.pack = "unified_instagram" => row.account \in Page
    /\ f[row.access].row.pack \in {"instagram", "unified_instagram"} /\ row.account \in Page
            => row.refresh = row.access

VaultInv ==
    /\ flow \in [Callback -> Flow \cup {NULL}]
    /\ \A c \in Callback : flow[c] # NULL => Tells(flow[c])
    /\ clock \in 0 .. MaxClock
    /\ nextId \in 1 .. MaxRows + 1
    /\ TableOK(Start)
    /\ \A i \in Id : conns[i] # NULL => Whole(flow, conns[i])

\* The handler goes on to its next await, or ends with no row.
Advances(c, next) ==
    /\ next \in Flow /\ Tells(next)
    /\ next.row = flow[c].row /\ next.provider = flow[c].provider
    /\ next.stage \in {"profile", "discover", "again", "popup", "500"}

\* The accounts and refresh tokens it may save.
Fits(c, item) ==
    /\ item \in Items
    /\ item.account \in Subject => item.account = flow[c].subject
    /\ item.refresh \in {c, NULL}
    /\ flow[c].row.pack = "unified_instagram" => item.account \in Page
    /\ flow[c].row.pack \in {"instagram", "unified_instagram"} /\ item.account \in Page
            => item.refresh = c

Saves(c, items) == /\ items \in Seq(Items) /\ \A k \in DOMAIN items : Fits(c, items[k])
                   /\ Save(c, items)

\* A step of the handler of c.
Handles(c) == /\ InFlight(c)
              /\ \/ \E next : Advances(c, next) /\ Moves(c, next)
                 \/ \E items : Saves(c, items)

\* The key of a login without discovery is its own subject or "default".
LEMMA LegacyHandles ==
    ASSUME VaultInv, NEW c \in Callback, flow[c] # NULL, flow[c].stage \in {"discover", "again"},
           NEW a \in Page \cup {NULL}, flow[c].row.pack # "unified_instagram",
           a # NULL => flow[c].row.pack = "whatsapp", SaveLegacy(c, a)
    PROVE  \E items : Saves(c, items)
<1> DEFINE item == Item(LegacyKey(c, a), IF flow[c].offline THEN c ELSE NULL)
<1>1. flow[c] \in Flow /\ flow[c].profile \in {NULL, flow[c].subject} /\ flow[c].profile \in Subject \cup {NULL}
  BY DEF VaultInv, Tells, Flow
<1>2. item.account = LegacyKey(c, a) /\ item.refresh \in {c, NULL} /\ item = [account |-> item.account, refresh |-> item.refresh]
  BY DEF Item
<1>3. LegacyKey(c, a) = IF a # NULL THEN a ELSE IF flow[c].profile # NULL THEN flow[c].profile ELSE "default"
  BY DEF LegacyKey, Coalesce
<1>4. Save(c, <<item>>)
  BY DEF SaveLegacy
<1> HIDE DEF item
<1>5. item \in Items
  BY <1>1, <1>2, <1>3 DEF Items, Account
<1>6. Fits(c, item)
  BY <1>1, <1>2, <1>3, <1>5, ConstantsAssumption DEF Fits
<1>7. <<item>> \in Seq(Items) /\ \A k \in DOMAIN <<item>> : <<item>>[k] = item
  BY <1>5
<1> DEFINE items == <<item>>
<1>8. Saves(c, items)
  <2>1. Save(c, items)
    BY <1>4
  <2> HIDE DEF items
  <2> QED BY <1>6, <1>7, <2>1 DEF Saves, items
<1> HIDE DEF items
<1> QED BY <1>8

LEMMA HandlerSteps ==
    ASSUME VaultInv, NEW c \in Callback, Exchange(c) \/ Profile(c) \/ Discover(c) \/ DiscoverAgain(c)
    PROVE  Handles(c)
<1>1. flow[c] # NULL /\ InFlight(c)
  BY DEF Exchange, Profile, Discover, DiscoverAgain, Answers, InFlight
<1>2. flow[c] \in Flow /\ Tells(flow[c]) /\ flow[c].row # NULL /\ flow[c].row.provider = flow[c].provider
  BY <1>1 DEF VaultInv, Tells, InFlight
<1>3. CASE Exchange(c)
  <2>1. flow[c].profile = NULL
    BY <1>2, <1>3 DEF Tells, Exchange, Answers
  <2>2. ASSUME NEW sub \in Subject, NEW off \in BOOLEAN
        PROVE  Advances(c, [flow[c] EXCEPT !.stage = "profile", !.subject = sub, !.offline = off])
    BY <1>2, <2>1 DEF Advances, Tells, Flow, Stage
  <2>3. Advances(c, [flow[c] EXCEPT !.stage = "500"])
    BY <1>2 DEF Advances, Tells, Flow, Stage
  <2> QED BY <1>1, <1>3, <2>2, <2>3 DEF Exchange, Handles
<1>4. CASE Profile(c)
  <2>1. PICK who \in {NULL, flow[c].subject} :
            Moves(c, [flow[c] EXCEPT !.stage = "discover", !.profile = who])
    BY <1>4 DEF Profile
  <2>2. Advances(c, [flow[c] EXCEPT !.stage = "discover", !.profile = who])
    BY <1>2 DEF Advances, Tells, Flow, Stage
  <2> QED BY <1>1, <2>1, <2>2 DEF Handles
<1>5. Advances(c, [flow[c] EXCEPT !.stage = "popup"])
  BY <1>2 DEF Advances, Tells, Flow, Stage
<1>6. CASE Discover(c)
  <2>1. flow[c].stage = "discover"
    BY <1>6 DEF Discover, Answers
  <2>2. CASE DiscoveryFails(c)
    <3>1. CASE flow[c].row.pack = "unified_instagram"
      BY <1>1, <1>5, <2>2, <3>1 DEF DiscoveryFails, Handles
    <3>2. CASE flow[c].row.pack = "whatsapp"
      <4>1. Advances(c, [flow[c] EXCEPT !.stage = "again"])
        BY <1>2, <2>1, <3>2 DEF Advances, Tells, Flow, Stage
      <4> QED BY <1>1, <2>2, <3>2, <4>1 DEF DiscoveryFails, Handles
    <3>3. CASE flow[c].row.pack \notin {"unified_instagram", "whatsapp"}
      <4>1. SaveLegacy(c, NULL)
        BY <2>2, <3>3 DEF DiscoveryFails
      <4> QED BY <1>1, <2>1, <3>3, <4>1, LegacyHandles DEF Handles
    <3> QED BY <3>1, <3>2, <3>3
  <2>3. ASSUME flow[c].row.pack \in {"instagram", "unified_instagram"},
               NEW found \in Seqs!SetToAllKPermutations(Page), SaveList(c, PageItems(c, found))
        PROVE  Handles(c)
    <3> DEFINE items == PageItems(c, found)
    <3>1. found \in Seq(Page)
      <4>1. PICK s \in SUBSET Page : found \in Seqs!SetToSeqs(s)
        BY <2>3 DEF Seqs!SetToAllKPermutations
      <4>2. found \in [1 .. Cardinality(s) -> s]
        <5>1. Seqs!Cardinality(s) = Cardinality(s)
          BY Zenon DEF Seqs!Cardinality, Cardinality
        <5> QED BY <4>1, <5>1 DEF Seqs!SetToSeqs
      <4>3. Cardinality(s) \in Nat
        BY ConstantsAssumption, FS_Subset, FS_CardinalityType
      <4>4. found \in [1 .. Cardinality(s) -> Page]
        BY <4>2
      <4> QED BY <4>3, <4>4
    <3>2. /\ items \in Seq(Items) /\ DOMAIN items = DOMAIN found
          /\ \A k \in DOMAIN items : items[k] = [account |-> found[k], refresh |-> c]
      <4>1. \A k \in DOMAIN found : Item(found[k], c) \in Items
        BY <3>1 DEF Item, Items, Account
      <4>2. items \in [1 .. Len(found) -> Items]
        BY <3>1, <4>1 DEF PageItems
      <4> QED BY <3>1, <4>2 DEF PageItems, Item
    <3> HIDE DEF items
    <3>3. \A k \in DOMAIN items : Fits(c, items[k])
      <4>1. SUFFICES ASSUME NEW k \in DOMAIN items PROVE Fits(c, items[k])
        OBVIOUS
      <4>2. found[k] \in Page /\ items[k] \in Items
        BY <3>1, <3>2
      <4>3. items[k].account = found[k] /\ items[k].refresh = c
        BY <3>2
      <4> QED BY <4>2, <4>3, ConstantsAssumption DEF Fits
    <3>4. CASE items = << >>
      BY <1>1, <1>5, <2>3, <3>4 DEF SaveList, Handles, items
    <3>5. CASE items # << >>
      <4>1. Save(c, items)
        BY <2>3, <3>5 DEF SaveList, items
      <4> QED BY <1>1, <3>2, <3>3, <4>1 DEF Handles, Saves
    <3> QED BY <3>4, <3>5
  <2>4. ASSUME flow[c].row.pack = "whatsapp", NEW waba \in Page, SaveList(c, <<Item(waba, NULL)>>)
        PROVE  Handles(c)
    <3>1. Item(waba, NULL) \in Items /\ Item(waba, NULL).account = waba /\ Item(waba, NULL).refresh = NULL
      BY DEF Item, Items, Account
    <3>2. Fits(c, Item(waba, NULL))
      BY <2>4, <3>1, ConstantsAssumption DEF Fits
    <3>3. Save(c, <<Item(waba, NULL)>>)
      BY <2>4 DEF SaveList
    <3>4. Saves(c, <<Item(waba, NULL)>>)
      BY <3>1, <3>2, <3>3 DEF Saves
    <3> QED BY <1>1, <3>4 DEF Handles
  <2> QED BY <1>6, <2>2, <2>3, <2>4 DEF Discover
<1>7. CASE DiscoverAgain(c)
  <2>1. flow[c].stage = "again" /\ flow[c].row.pack = "whatsapp"
    BY <1>2, <1>7 DEF DiscoverAgain, Answers, Tells
  <2> QED BY <1>1, <1>7, <2>1, LegacyHandles DEF DiscoverAgain, Handles
<1> QED BY <1>3, <1>4, <1>6, <1>7

---------------------------------------------------------------------------
(* The invariant of the vault. *)

\* What is settled stays as it is.
FlowKept(g) == \A d \in Callback : Settled(flow, d) => g[d] = flow[d]

LEMMA WholeStays ==
    ASSUME NEW g, FlowKept(g), NEW row \in Row, Whole(flow, row)
    PROVE  Whole(g, row)
<1>1. row.access \in Callback /\ (row.refresh # NULL => row.refresh \in Callback)
  BY DEF Row
<1> QED BY <1>1 DEF Whole, FlowKept, Settled

Table == [conns |-> conns', nextId |-> nextId']

\* The handler of c after its saves: n accounts of the list are in the table.
LEMMA SavesEffect ==
    ASSUME VaultInv, NEW c \in Callback, InFlight(c), NEW items, Saves(c, items)
    PROVE  \E n \in 0 .. Len(items), stage \in {"ok", "500"} :
            /\ stage = "ok" => n = Len(items)
            /\ After(Table, c, items, n)
            /\ flow' \in [Callback -> Flow \cup {NULL}]
            /\ \A d \in Callback : d # c => flow'[d] = flow[d]
            /\ flow'[c] = [flow[c] EXCEPT !.stage = stage,
                                          !.found = [k \in DOMAIN items |-> items[k].account]]
            /\ flow'[c] \in Flow
            /\ nextId' \in 1 .. MaxRows + 1
            /\ UNCHANGED <<states, nextState, clock>>
<1>1. /\ items \in Seq(Items) /\ nextId + Cardinality(Fresh(c, items)) <= MaxRows + 1
      /\ UNCHANGED <<states, nextState, clock>>
  BY DEF Saves, Save
<1>2. PICK n \in 0 .. Len(items), stage \in {"ok", "500"} :
        /\ stage = "ok" => n = Len(items)
        /\ conns' = Saved(c, items)[n].conns
        /\ nextId' = Saved(c, items)[n].nextId
        /\ flow' = [flow EXCEPT ![c].stage = stage,
                                ![c].found = [k \in DOMAIN items |-> items[k].account]]
  BY DEF Saves, Save, Stores, Outcome
<1>3. flow[c] \in Flow /\ flow[c] # NULL /\ flow[c].row # NULL /\ Saving(c)
  <2>1. flow[c] \in Flow /\ flow[c] # NULL /\ Tells(flow[c]) /\ flow[c].stage # "refused"
    BY DEF VaultInv, InFlight
  <2> QED BY <2>1 DEF Tells, Flow, Saving
<1>4. After(Saved(c, items)[n], c, items, n)
  BY <1>1, <1>3, SavedIsAfter DEF VaultInv
<1>5. After(Table, c, items, n)
  BY <1>2, <1>4 DEF After, TableOK, Touched, Table
<1>6. [k \in DOMAIN items |-> items[k].account] \in Seq(Account)
  <2>1. DOMAIN items = 1 .. Len(items) /\ Len(items) \in Nat /\ \A k \in 1 .. Len(items) : items[k] \in Items
    BY <1>1
  <2>2. [k \in DOMAIN items |-> items[k].account] \in [1 .. Len(items) -> Account]
    BY <2>1 DEF Items
  <2> QED BY <2>1, <2>2
<1> DEFINE found == [k \in DOMAIN items |-> items[k].account]
<1> HIDE DEF found
<1>7. /\ flow' \in [Callback -> Flow \cup {NULL}]
      /\ \A d \in Callback : d # c => flow'[d] = flow[d]
      /\ flow'[c] = [flow[c] EXCEPT !.stage = stage, !.found = found]
      /\ flow'[c] \in Flow
  <2>1. stage \in Stage
    BY DEF Stage
  <2>2. flow' = [flow EXCEPT ![c].stage = stage, ![c].found = found]
    BY <1>2 DEF found
  <2>3. [flow[c] EXCEPT !.stage = stage, !.found = found] \in Flow
    BY <1>3, <1>6, <2>1 DEF Flow, found
  <2>4. flow' = [flow EXCEPT ![c] = [flow[c] EXCEPT !.stage = stage, !.found = found]]
    BY <1>3, <2>2 DEF VaultInv, Flow
  <2> QED BY <2>3, <2>4 DEF VaultInv
<1>8. nextId' \in 1 .. MaxRows + 1
  <2>1. /\ Cardinality(FreshTo(c, items, n)) \in Nat /\ Cardinality(Fresh(c, items)) \in Nat
        /\ Cardinality(FreshTo(c, items, n)) <= Cardinality(Fresh(c, items))
    BY <1>1, FreshIsFinite
  <2>2. nextId' \in Nat \ {0} /\ nextId' <= nextId + Cardinality(FreshTo(c, items, n))
    BY <1>5 DEF After, TableOK, Table
  <2>3. nextId \in Nat /\ MaxRows \in Nat
    BY ConstantsAssumption DEF VaultInv
  <2> QED BY <1>1, <2>1, <2>2, <2>3
<1> QED BY <1>1, <1>2, <1>5, <1>7, <1>8 DEF found

\* Every row the loop touched is whole, and no other callback's answer changed.
LEMMA SavesKeep ==
    ASSUME VaultInv, NEW c \in Callback, InFlight(c), NEW items, Saves(c, items)
    PROVE  VaultInv'
<1>1. PICK n \in 0 .. Len(items), stage \in {"ok", "500"} :
            /\ stage = "ok" => n = Len(items)
            /\ After(Table, c, items, n)
            /\ flow' \in [Callback -> Flow \cup {NULL}]
            /\ \A d \in Callback : d # c => flow'[d] = flow[d]
            /\ flow'[c] = [flow[c] EXCEPT !.stage = stage,
                                          !.found = [k \in DOMAIN items |-> items[k].account]]
            /\ flow'[c] \in Flow
            /\ nextId' \in 1 .. MaxRows + 1
            /\ UNCHANGED <<states, nextState, clock>>
  BY SavesEffect
<1>2. items \in Seq(Items) /\ DOMAIN items = 1 .. Len(items) /\ Len(items) \in Nat
      /\ \A k \in 1 .. Len(items) : Fits(c, items[k])
  BY DEF Saves
<1>3. flow[c] \in Flow /\ flow[c] # NULL /\ Tells(flow[c]) /\ flow[c].row # NULL
  <2>1. flow[c] \in Flow /\ flow[c] # NULL /\ Tells(flow[c]) /\ flow[c].stage # "refused"
    BY DEF VaultInv, InFlight
  <2> QED BY <2>1 DEF Tells
<1>4. /\ flow'[c].stage \in {"ok", "500"} /\ flow'[c].row = flow[c].row
      /\ flow'[c].provider = flow[c].provider /\ flow'[c].subject = flow[c].subject
      /\ flow'[c] # NULL
  BY <1>1, <1>3, NullAssumption DEF Flow
<1>5. FlowKept(flow')
  BY <1>1 DEF FlowKept, Settled, InFlight
<1>6. \A d \in Callback : flow'[d] # NULL => Tells(flow'[d])
  <2>1. Tells(flow'[c])
    BY <1>3, <1>4 DEF Tells, InFlight
  <2> QED BY <1>1, <2>1 DEF VaultInv
<1>7. TableOK(Start)'
  BY <1>1 DEF After, TableOK, Table, Start
<1>8. ASSUME NEW i \in Id, conns'[i] # NULL
      PROVE  Whole(flow', conns'[i])
  <2>1. CASE conns'[i] = conns[i]
    <3>1. conns[i] \in Row /\ Whole(flow, conns[i])
      BY <1>8, <2>1 DEF VaultInv, TableOK, Start
    <3> QED BY <1>5, <2>1, <3>1, WholeStays
  <2>2. CASE conns'[i] # conns[i]
    <3> DEFINE row == conns'[i]
               old == conns[i]
    <3>1. PICK k \in 1 .. n :
            /\ Names(row, c, items[k]) /\ row.access = c
            /\ \/ row.refresh = items[k].refresh
               \/ /\ items[k].refresh = NULL
                  /\ Names(old, c, items[k]) /\ row.refresh = old.refresh
      <4>1. Touched(Table, c, items, n, i)
        BY <1>1, <2>2 DEF After, Table
      <4> QED BY <4>1 DEF Touched, Table
    <3>2. Fits(c, items[k])
      BY <1>2
    <3>3. old # NULL => old \in Row /\ Whole(flow, old)
      BY DEF VaultInv, TableOK, Start
    <3> SUFFICES Whole(flow', row)
      OBVIOUS
    <3> HIDE DEF row, old
    <3>4. Settled(flow', c) /\ c # NULL
      BY <1>4, ConstantsAssumption DEF Settled
    <3>5. CASE row.refresh = items[k].refresh
      BY <1>4, <3>1, <3>2, <3>4, <3>5 DEF Whole, Fits, Names
    <3>6. CASE /\ items[k].refresh = NULL
               /\ Names(old, c, items[k]) /\ row.refresh = old.refresh
      <4>1. old \in Row /\ Whole(flow, old)
        BY <3>3, <3>6 DEF Names
      <4>2. row.refresh # NULL =>
                /\ Settled(flow, row.refresh) /\ row.refresh \in Callback
                /\ flow'[row.refresh] = flow[row.refresh]
        BY <1>5, <3>6, <4>1 DEF Whole, Row, FlowKept
      <4>3. row.refresh # NULL => Settled(flow', row.refresh)
        BY <4>2 DEF Settled
      <4>4. row.account = old.account
        BY <3>1, <3>6 DEF Names
      <4>5. row.account \in Subject /\ row.refresh # NULL =>
                flow'[row.access].subject = row.account /\ flow'[row.refresh].subject = row.account
        BY <1>4, <3>1, <3>2, <3>6, <4>1, <4>2, <4>4 DEF Whole, Fits, Names
      <4> QED BY <1>4, <3>1, <3>2, <3>4, <3>6, <4>3, <4>5 DEF Whole, Fits, Names
    <3> QED BY <3>1, <3>5, <3>6
  <2> QED BY <2>1, <2>2
<1> QED BY <1>1, <1>6, <1>7, <1>8 DEF VaultInv

\* The other steps touch no row.
RowsKept == conns' = conns /\ nextId' = nextId

LEMMA FlowSteps ==
    ASSUME VaultInv, RowsKept, clock' \in 0 .. MaxClock, flow' \in [Callback -> Flow \cup {NULL}],
           FlowKept(flow'), \A d \in Callback : flow'[d] # NULL => Tells(flow'[d])
    PROVE  VaultInv'
<1>1. TableOK(Start)' /\ nextId' \in 1 .. MaxRows + 1
  BY DEF RowsKept, VaultInv, TableOK, Start
<1>2. ASSUME NEW i \in Id, conns'[i] # NULL
      PROVE  Whole(flow', conns'[i])
  <2>1. conns[i] \in Row /\ Whole(flow, conns[i]) /\ conns'[i] = conns[i]
    BY <1>2 DEF RowsKept, VaultInv, TableOK, Start
  <2> QED BY <2>1, WholeStays
<1> QED BY <1>1, <1>2 DEF VaultInv

LEMMA MovesKeep ==
    ASSUME VaultInv, NEW c \in Callback, InFlight(c), NEW next, Advances(c, next), Moves(c, next)
    PROVE  VaultInv'
<1>1. flow' = [flow EXCEPT ![c] = next] /\ next \in Flow /\ Tells(next)
      /\ RowsKept /\ clock' = clock
  BY DEF Moves, Advances, RowsKept
<1>2. flow' \in [Callback -> Flow \cup {NULL}] /\ flow'[c] = next
      /\ \A d \in Callback : d # c => flow'[d] = flow[d]
  BY <1>1 DEF VaultInv
<1>3. FlowKept(flow')
  BY <1>2 DEF FlowKept, Settled, InFlight
<1>4. \A d \in Callback : flow'[d] # NULL => Tells(flow'[d])
  BY <1>1, <1>2 DEF VaultInv
<1> QED BY <1>1, <1>2, <1>3, <1>4, FlowSteps DEF VaultInv

LEMMA RestartKeeps ==
    ASSUME VaultInv, Restart
    PROVE  VaultInv'
<1>1. \A d \in Callback : flow'[d] = IF InFlight(d) THEN [flow[d] EXCEPT !.stage = "lost"] ELSE flow[d]
  BY DEF Restart
<1>2. ASSUME NEW d \in Callback, InFlight(d)
      PROVE  flow'[d] \in Flow /\ Tells(flow'[d])
  <2>1. flow[d] \in Flow /\ Tells(flow[d]) /\ flow[d].stage # "refused"
    BY <1>2 DEF VaultInv, InFlight
  <2> DEFINE lost == [flow[d] EXCEPT !.stage = "lost"]
  <2>2. lost \in Flow /\ lost.stage = "lost" /\ lost.row = flow[d].row /\ lost.provider = flow[d].provider
    BY <2>1 DEF Flow, Stage
  <2>3. flow'[d] = lost
    BY <1>1, <1>2
  <2> HIDE DEF lost
  <2> QED BY <2>1, <2>2, <2>3 DEF Tells
<1>3. flow' \in [Callback -> Flow \cup {NULL}]
  BY <1>1, <1>2 DEF VaultInv, Restart
<1>4. FlowKept(flow')
  BY <1>1 DEF FlowKept, Settled, InFlight
<1>5. \A d \in Callback : flow'[d] # NULL => Tells(flow'[d])
  BY <1>1, <1>2 DEF VaultInv
<1> QED BY <1>3, <1>4, <1>5, FlowSteps DEF Restart, RowsKept, VaultInv

LEMMA ArriveKeeps ==
    ASSUME VaultInv, states \in [StateId -> StateRow \cup {NULL}],
           NEW c \in Callback, NEW s \in StateId, NEW p \in Provider, CallbackArrives(c, s, p)
    PROVE  VaultInv'
<1> DEFINE new == [state |-> s, provider |-> p, row |-> Consume(s),
                   stage |-> IF Admitted(s, p) THEN "exchange" ELSE "refused",
                   subject |-> NULL, offline |-> FALSE, profile |-> NULL, found |-> <<>>]
<1>1. flow[c] = NULL /\ flow' = [flow EXCEPT ![c] = new] /\ RowsKept /\ clock' = clock
  BY DEF CallbackArrives, RowsKept
<1>2. new \in Flow /\ Tells(new)
  <2>1. Consume(s) \in StateRow \cup {NULL}
    BY DEF Consume
  <2>2. << >> \in Seq(Account)
    OBVIOUS
  <2>3. new \in Flow
    BY <2>1, <2>2 DEF Flow, Stage
  <2>4. Tells(new)
    BY DEF Tells, Admitted
  <2> QED BY <2>3, <2>4
<1> HIDE DEF new
<1>3. flow' \in [Callback -> Flow \cup {NULL}] /\ flow'[c] = new
      /\ \A d \in Callback : d # c => flow'[d] = flow[d]
  BY <1>1, <1>2 DEF VaultInv
<1>4. FlowKept(flow')
  BY <1>1, <1>3 DEF FlowKept, Settled
<1>5. \A d \in Callback : flow'[d] # NULL => Tells(flow'[d])
  BY <1>2, <1>3 DEF VaultInv
<1> QED BY <1>1, <1>3, <1>4, <1>5, FlowSteps DEF VaultInv

\* Clock and starts.
LEMMA RestKeeps ==
    ASSUME VaultInv, Tick \/ UNCHANGED vars \/
           \E u \in User, p \in Provider : \E k \in Packs[p] : StartFlow(u, p, k)
    PROVE  VaultInv'
<1>1. RowsKept /\ flow' = flow /\ clock' \in 0 .. MaxClock
  BY ConstantsAssumption DEF Tick, StartFlow, vars, VaultInv, RowsKept
<1>2. FlowKept(flow')
  BY <1>1 DEF FlowKept
<1> QED BY <1>1, <1>2, FlowSteps DEF VaultInv

LEMMA VaultStep ==
    ASSUME VaultInv, states \in [StateId -> StateRow \cup {NULL}], [Next]_vars
    PROVE  VaultInv'
<1>1. ASSUME NEW c \in Callback, Exchange(c) \/ Profile(c) \/ Discover(c) \/ DiscoverAgain(c)
      PROVE  VaultInv'
  BY <1>1, HandlerSteps, MovesKeep, SavesKeep DEF Handles
<1> QED BY <1>1, RestKeeps, RestartKeeps, ArriveKeeps DEF Next

---------------------------------------------------------------------------
(* The theorems. *)

IInv == StatesInv /\ VaultInv

LEMMA InitIInv ==
    ASSUME Init
    PROVE  IInv
<1>1. StatesInv
  BY ConstantsAssumption DEF Init, StatesInv, UndrawnIsFree
<1>2. \A c \in Callback : flow[c] = NULL
  BY DEF Init
<1>3. \A i \in Id : conns[i] = NULL
  BY DEF Init
<1>4. TableOK(Start) /\ nextId \in 1 .. MaxRows + 1 /\ clock \in 0 .. MaxClock
      /\ flow \in [Callback -> Flow \cup {NULL}]
  BY ConstantsAssumption DEF Init, TableOK, Start
<1> QED BY <1>1, <1>2, <1>3, <1>4 DEF IInv, VaultInv

LEMMA NextIInv ==
    ASSUME IInv, [Next]_vars
    PROVE  IInv'
BY StepKeeps, VaultStep DEF IInv, StatesInv

\* The states, the handlers and the table of connections keep their types; the
\* loop of saves never runs past the rows it was given room for.
THEOREM TypeCorrect == Spec => []TypeOK
<1>1. IInv => TypeOK
  BY DEF IInv, StatesInv, VaultInv, TableOK, Start, TypeOK
<1> QED BY <1>1, InitIInv, NextIInv, PTL DEF Spec

\* The access token and the refresh token of a row that names an account are of
\* one subject, however logins of several subjects interleave and reconnect.
THEOREM OneSubjectPerRow == Spec => []TokensOfOneSubject
<1>1. IInv => TokensOfOneSubject
  BY DEF IInv, VaultInv, TableOK, Start, TokensOfOneSubject, Whole, Rows
<1> QED BY <1>1, InitIInv, NextIInv, PTL DEF Spec

\* A page is renewed with the user token of its own login, and a unified login
\* stores nothing but pages.
THEOREM PagesAreWhole == Spec => []PageRowsAreWhole
<1>1. IInv => PageRowsAreWhole
  BY DEF IInv, VaultInv, TableOK, Start, PageRowsAreWhole, Whole, Rows
<1> QED BY <1>1, InitIInv, NextIInv, PTL DEF Spec

\* Every account of a list whose loop came to its end is in the table with the
\* token of the login.
Connects(c) ==
    flow'[c] # NULL /\ flow'[c].stage = "ok" /\ flow[c].stage # "ok" =>
        \A k \in DOMAIN flow'[c].found :
            \E i \in Rows(conns)' :
                /\ conns'[i].user = flow[c].row.user
                /\ conns'[i].account = flow'[c].found[k]
                /\ conns'[i].access = c

LEMMA SavesConnect ==
    ASSUME VaultInv, NEW c \in Callback, InFlight(c), NEW items, Saves(c, items)
    PROVE  \A d \in Callback : Connects(d)
<1>1. PICK n \in 0 .. Len(items), stage \in {"ok", "500"} :
            /\ stage = "ok" => n = Len(items)
            /\ After(Table, c, items, n)
            /\ flow' \in [Callback -> Flow \cup {NULL}]
            /\ \A d \in Callback : d # c => flow'[d] = flow[d]
            /\ flow'[c] = [flow[c] EXCEPT !.stage = stage,
                                          !.found = [k \in DOMAIN items |-> items[k].account]]
            /\ flow'[c] \in Flow
            /\ nextId' \in 1 .. MaxRows + 1
            /\ UNCHANGED <<states, nextState, clock>>
  BY SavesEffect
<1>2. DOMAIN items = 1 .. Len(items) /\ Len(items) \in Nat
  BY DEF Saves
<1>3. flow[c] \in Flow
  BY DEF VaultInv, InFlight
<1>4. /\ flow'[c].stage = stage
      /\ flow'[c].found = [k \in DOMAIN items |-> items[k].account]
  BY <1>1, <1>3 DEF Flow
<1>5. ASSUME flow'[c].stage = "ok", NEW k \in DOMAIN flow'[c].found
      PROVE  \E i \in Rows(conns)' :
                /\ conns'[i].user = flow[c].row.user
                /\ conns'[i].account = flow'[c].found[k]
                /\ conns'[i].access = c
  <2>1. n = Len(items)
    BY <1>1, <1>4, <1>5
  <2>2. k \in 1 .. n /\ flow'[c].found[k] = items[k].account
    BY <1>2, <1>4, <1>5, <2>1
  <2>3. PICK i \in Id : Names(conns'[i], c, items[k]) /\ conns'[i].access = c
    BY <1>1, <2>2 DEF After, Table
  <2>4. i \in Rows(conns)'
    BY <1>1, <2>3 DEF After, TableOK, Table, Rows, Names
  <2> QED BY <2>2, <2>3, <2>4 DEF Names
<1>6. Connects(c)
  BY <1>5 DEF Connects
<1>7. ASSUME NEW d \in Callback, d # c
      PROVE  Connects(d)
  <2>1. flow'[d] = flow[d]
    BY <1>1, <1>7
  <2> QED BY <2>1 DEF Connects
<1> QED BY <1>6, <1>7

LEMMA StepConnects ==
    ASSUME IInv, [Next]_vars
    PROVE  \A c \in Callback : Connects(c)
<1>1. CASE flow' = flow
  BY <1>1 DEF Connects
<1>2. CASE Restart
  <2>1. \A d \in Callback : flow'[d] = flow[d] \/ (flow[d] \in Flow /\ flow'[d] = [flow[d] EXCEPT !.stage = "lost"])
    BY <1>2 DEF Restart, InFlight, IInv, VaultInv
  <2>2. \A d \in Callback : flow'[d] = flow[d] \/ flow'[d].stage = "lost"
    BY <2>1 DEF Flow
  <2> QED BY <2>2 DEF Connects
<1>3. ASSUME NEW c \in Callback, NEW s \in StateId, NEW p \in Provider, CallbackArrives(c, s, p)
      PROVE  \A d \in Callback : Connects(d)
  <2>1. flow'[c].stage \in {"exchange", "refused"} /\ \A d \in Callback : d # c => flow'[d] = flow[d]
    BY <1>3 DEF CallbackArrives, IInv, VaultInv
  <2> QED BY <2>1 DEF Connects
<1>4. ASSUME NEW c \in Callback, NEW next, Advances(c, next), Moves(c, next)
      PROVE  \A d \in Callback : Connects(d)
  <2>1. flow'[c].stage # "ok" /\ \A d \in Callback : d # c => flow'[d] = flow[d]
    BY <1>4 DEF Moves, Advances, IInv, VaultInv
  <2> QED BY <2>1 DEF Connects
<1>5. ASSUME NEW c \in Callback, Exchange(c) \/ Profile(c) \/ Discover(c) \/ DiscoverAgain(c)
      PROVE  \A d \in Callback : Connects(d)
  BY <1>4, <1>5, HandlerSteps, SavesConnect DEF Handles, IInv
<1> QED BY <1>1, <1>2, <1>3, <1>5 DEF Next, Tick, StartFlow, vars

\* "Conectado" is never shown while an account of the list lacks the token of
\* this login, whatever an earlier login left half done.
THEOREM ConectadoMeansConnected == Spec => OkMeansConnected
<1>1. IInv /\ [Next]_vars =>
        [\A c \in Callback :
            flow'[c] # NULL /\ flow'[c].stage = "ok" /\ flow[c].stage # "ok" =>
                \A k \in DOMAIN flow'[c].found :
                    \E i \in Rows(conns)' :
                        /\ conns'[i].user = flow[c].row.user
                        /\ conns'[i].account = flow'[c].found[k]
                        /\ conns'[i].access = c]_vars
  BY StepConnects DEF Connects
<1> QED BY <1>1, InitIInv, NextIInv, PTL DEF Spec, OkMeansConnected

---------------------------------------------------------------------------
(* The flow implements OneShotStates. *)

Owner == User \X Provider

\* The refinement mapping.
OwnerBar  == [s \in StateId |-> OwnerOf(s)]
HolderBar == [c \in Callback |-> Holder(c)]
DoneBar   == {c \in Callback : Holder(c) # NULL /\ ~ InFlight(c)}
TokensBar == [o \in User \X Provider |-> {conns[i].access : i \in OfUser(conns, o[1], o[2])}]

FlowBarsKept == HolderBar' = HolderBar /\ DoneBar' = DoneBar

\* A callback that was not refused holds the owner of its state.
LEMMA HolderIsOwner ==
    ASSUME VaultInv, NEW c \in Callback, flow[c] # NULL, flow[c].stage # "refused"
    PROVE  /\ Holder(c) = <<flow[c].row.user, flow[c].provider>>
           /\ Holder(c) \in Owner /\ Holder(c) # NULL
<1>1. flow[c] \in Flow /\ flow[c].row \in StateRow /\ flow[c].row.provider = flow[c].provider
  BY DEF VaultInv, Tells, Flow
<1>2. Holder(c) = <<flow[c].row.user, flow[c].provider>>
  BY <1>1 DEF Holder
<1>3. flow[c].row.user \in User /\ flow[c].provider \in Provider
  BY <1>1 DEF Flow, StateRow
<1> QED BY <1>2, <1>3, NullAssumption DEF Owner

\* What an owner's state says.
LEMMA OwnerIsIssued ==
    ASSUME states \in [StateId -> StateRow \cup {NULL}], NEW s \in StateId
    PROVE  OwnerOf(s) \in Owner <=> states[s] # NULL
<1>1. CASE states[s] # NULL
  <2>1. states[s] \in StateRow
    BY <1>1
  <2> QED BY <1>1, <2>1 DEF OwnerOf, Owner, StateRow
<1>2. CASE states[s] = NULL
  <2>1. OwnerOf(s) \in {<<"spent">>, <<"unissued">>}
    BY <1>2 DEF OwnerOf
  <2>2. \A x \in Owner : x # <<"spent">> /\ x # <<"unissued">>
    BY DEF Owner
  <2> QED BY <1>2, <2>1, <2>2
<1> QED BY <1>1, <1>2

LEMMA InitRefines ==
    ASSUME Init
    PROVE  OneShot!PromiseInit
<1>1. \A s \in StateId : OwnerOf(s) = <<"unissued">>
  BY DEF Init, OwnerOf, StateId
<1>2. \A c \in Callback : Holder(c) = NULL
  BY DEF Init, Holder
<1>3. \A u, p : OfUser(conns, u, p) = {}
  BY DEF Init, OfUser, Rows
<1> QED BY <1>1, <1>2, <1>3 DEF OneShot!PromiseInit

\* A start issues a state of its own and sweeps expired ones.
LEMMA StartRefines ==
    ASSUME IInv, NEW u \in User, NEW p \in Provider, NEW k \in Packs[p], StartFlow(u, p, k)
    PROVE  \E S \in SUBSET StateId, s \in StateId, o \in Owner : OneShot!Issue(S, s, o)
<1> DEFINE row == [user |-> u, provider |-> p, pack |-> k, created |-> clock]
           S == {s \in StateId : states[s] # NULL /\ Expired(s)}
           o == <<u, p>>
<1>1. /\ states' = [PurgeExpired EXCEPT ![nextState] = row]
      /\ nextState \in StateId /\ nextState' = nextState + 1
      /\ UNCHANGED <<clock, flow, conns>> /\ MaxStates \in Nat
  BY ConstantsAssumption DEF StartFlow
<1>2. row # NULL /\ row.user = u /\ row.provider = p
  <2>1. row \in StateRow
    BY ConstantsAssumption DEF StateRow, IInv, StatesInv
  <2> QED BY <2>1, NullAssumption
<1> HIDE DEF row
<1>3. \A s \in StateId :
        states'[s] = IF s = nextState THEN row
                     ELSE IF states[s] # NULL /\ Expired(s) THEN NULL ELSE states[s]
  BY <1>1 DEF PurgeExpired
<1>4. \A s \in S : OwnerOf(s) \in Owner
  BY OwnerIsIssued DEF IInv, StatesInv
<1>5. OwnerOf(nextState) = <<"unissued">>
  BY <1>1 DEF OwnerOf, IInv, StatesInv, UndrawnIsFree, StateId
<1>6. ASSUME NEW s \in StateId
      PROVE  OwnerOf(s)' = IF s = nextState THEN o ELSE IF s \in S THEN <<"spent">> ELSE OwnerOf(s)
  <2>1. CASE s = nextState
    BY <1>2, <1>3, <2>1 DEF OwnerOf
  <2>2. CASE s # nextState /\ s \in S
    <3>1. s < nextState
      BY <2>2 DEF IInv, StatesInv, UndrawnIsFree, StateId
    <3> QED BY <1>1, <1>3, <2>2, <3>1 DEF OwnerOf, StateId
  <2>3. CASE s # nextState /\ s \notin S
    <3>1. states'[s] = states[s] /\ (s < nextState' <=> s < nextState)
      BY <1>1, <1>3, <2>3 DEF StateId
    <3> QED BY <2>3, <3>1 DEF OwnerOf
  <2> QED BY <2>1, <2>2, <2>3
<1>7. UNCHANGED <<HolderBar, DoneBar, TokensBar>>
  BY <1>1 DEF HolderBar, DoneBar, TokensBar, Holder, InFlight, OfUser, Rows
<1>8. OwnerBar' = [[s \in StateId |-> IF s \in S THEN <<"spent">> ELSE OwnerBar[s]] EXCEPT ![nextState] = o]
  <2> HIDE DEF S, o
  <2> QED BY <1>1, <1>6 DEF OwnerBar
<1>9. OneShot!Issue(S, nextState, o)
  <2>1. (\A s \in S : OwnerBar[s] \in Owner) /\ OwnerBar[nextState] = <<"unissued">>
    BY <1>1, <1>4, <1>5 DEF OwnerBar
  <2> HIDE DEF S, o
  <2> QED BY <1>7, <1>8, <2>1
        DEF OneShot!Issue, OneShot!Burnt, OwnerBar, HolderBar, DoneBar, TokensBar, Owner
<1> QED BY <1>1, <1>9 DEF Owner

\* A callback redeems the state it names, burns it or finds it spent.
LEMMA ArriveRefines ==
    ASSUME IInv, NEW c \in Callback, NEW s \in StateId, NEW p \in Provider, CallbackArrives(c, s, p)
    PROVE  \/ OneShot!Redeem(s, c) \/ OneShot!Burn(s)
           \/ UNCHANGED <<OwnerBar, HolderBar, DoneBar, TokensBar>>
<1> DEFINE new == [state |-> s, provider |-> p, row |-> Consume(s),
                   stage |-> IF Admitted(s, p) THEN "exchange" ELSE "refused",
                   subject |-> NULL, offline |-> FALSE, profile |-> NULL, found |-> <<>>]
<1>1. /\ flow[c] = NULL /\ s < nextState /\ flow' = [flow EXCEPT ![c] = new]
      /\ states' = [states EXCEPT ![s] = NULL] /\ UNCHANGED <<nextState, clock, conns>>
  BY DEF CallbackArrives, Consumed
<1>2. new # NULL
  <2>1. Consume(s) \in StateRow \cup {NULL}
    BY DEF Consume, IInv, StatesInv
  <2>2. << >> \in Seq(Account)
    OBVIOUS
  <2>3. new \in Flow
    BY <2>1, <2>2 DEF Flow, Stage
  <2> QED BY <2>3, NullAssumption
<1>3. flow'[c] = new /\ \A d \in Callback : d # c => flow'[d] = flow[d]
  BY <1>1 DEF IInv, VaultInv
<1>4. Holder(c) = NULL
  BY <1>1 DEF Holder
<1>5. \A d \in Callback : d # c => Holder(d)' = Holder(d) /\ (InFlight(d)' <=> InFlight(d))
  BY <1>3 DEF Holder, InFlight
<1>6. TokensBar' = TokensBar
  BY <1>1 DEF TokensBar, OfUser, Rows
<1>7. \A t \in StateId : OwnerOf(t)' = IF t = s THEN <<"spent">> ELSE OwnerOf(t)
  BY <1>1 DEF OwnerOf, IInv, StatesInv
<1>8. OwnerBar' = [t \in StateId |-> IF t \in {s} THEN <<"spent">> ELSE OwnerBar[t]]
  BY <1>7 DEF OwnerBar
<1>9. CASE Admitted(s, p)
  <2>1. states[s] # NULL /\ Consume(s) = states[s] /\ states[s].provider = p
    BY <1>9 DEF Admitted, Consume
  <2>2. Holder(c)' = OwnerOf(s) /\ InFlight(c)'
    BY <1>2, <1>3, <1>9, <2>1 DEF Holder, OwnerOf, InFlight
  <2>3. OwnerOf(s) \in Owner /\ OwnerOf(s) # NULL
    BY <2>1, OwnerIsIssued, NullAssumption DEF IInv, StatesInv, Owner
  <2>4. HolderBar' = [HolderBar EXCEPT ![c] = OwnerBar[s]]
    BY <1>5, <2>2 DEF HolderBar, OwnerBar
  <2>5. DoneBar' = DoneBar
    BY <1>4, <1>5, <2>2 DEF DoneBar
  <2>6. OwnerBar[s] \in Owner /\ HolderBar[c] = NULL
    BY <1>4, <2>3 DEF OwnerBar, HolderBar
  <2>7. OneShot!Redeem(s, c)
    BY <1>6, <1>8, <2>4, <2>5, <2>6
       DEF OneShot!Redeem, OneShot!Burnt, OwnerBar, HolderBar, DoneBar, TokensBar, Owner
  <2> QED BY <2>7
<1>10. CASE ~ Admitted(s, p)
  <2>1. Holder(c)' = NULL
    BY <1>3, <1>10 DEF Holder
  <2>2. HolderBar' = HolderBar
    BY <1>4, <1>5, <2>1 DEF HolderBar
  <2>3. DoneBar' = DoneBar
    BY <1>4, <1>5, <2>1 DEF DoneBar
  <2>4. CASE states[s] # NULL
    <3>1. OwnerBar[s] \in Owner
      BY <2>4, OwnerIsIssued DEF OwnerBar, IInv, StatesInv
    <3>2. OneShot!Burn(s)
      BY <1>6, <1>8, <2>2, <2>3, <3>1
         DEF OneShot!Burn, OneShot!Burnt, OwnerBar, HolderBar, DoneBar, TokensBar, Owner
    <3> QED BY <3>2
  <2>5. CASE states[s] = NULL
    <3>1. OwnerOf(s) = <<"spent">>
      BY <1>1, <2>5 DEF OwnerOf
    <3>2. OwnerBar' = OwnerBar
      BY <1>8, <3>1 DEF OwnerBar
    <3> QED BY <1>6, <2>2, <2>3, <3>2
  <2> QED BY <2>4, <2>5
<1> QED BY <1>9, <1>10

\* The handler goes on, which the promise does not see, or ends without a row.
LEMMA MovesRefine ==
    ASSUME VaultInv, NEW c \in Callback, InFlight(c), NEW next, Advances(c, next), Moves(c, next)
    PROVE  OneShot!Answer(c) \/ UNCHANGED <<OwnerBar, HolderBar, DoneBar, TokensBar>>
<1>1. flow' = [flow EXCEPT ![c] = next] /\ UNCHANGED <<states, nextState, conns>>
  BY DEF Moves
<1>2. flow'[c] = next /\ \A d \in Callback : d # c => flow'[d] = flow[d]
  BY <1>1 DEF VaultInv
<1>3. next # NULL /\ next.stage # "refused" /\ next.row = flow[c].row /\ next.provider = flow[c].provider
  BY NullAssumption DEF Advances
<1>4. Holder(c) \in Owner /\ Holder(c) # NULL /\ Holder(c) = <<flow[c].row.user, flow[c].provider>>
  BY HolderIsOwner DEF InFlight
<1>5. Holder(c)' = Holder(c)
  BY <1>2, <1>3, <1>4 DEF Holder
<1>6. \A d \in Callback : Holder(d)' = Holder(d) /\ (d # c => (InFlight(d)' <=> InFlight(d)))
  BY <1>2, <1>5 DEF Holder, InFlight
<1>7. HolderBar' = HolderBar
  BY <1>6 DEF HolderBar
<1>8. OwnerBar' = OwnerBar /\ TokensBar' = TokensBar
  BY <1>1 DEF OwnerBar, OwnerOf, TokensBar, OfUser, Rows
<1>9. CASE InFlight(c)'
  BY <1>6, <1>7, <1>8, <1>9 DEF DoneBar
<1>10. CASE ~ InFlight(c)'
  <2>1. DoneBar' = DoneBar \cup {c} /\ c \notin DoneBar
    BY <1>4, <1>5, <1>6, <1>10 DEF DoneBar
  <2>2. TokensBar \in [Owner -> SUBSET Callback]
    BY DEF TokensBar, Owner, VaultInv, TableOK, Start, OfUser, Rows, Row
  <2>3. HolderBar[c] # NULL
    BY <1>4 DEF HolderBar
  <2>4. OneShot!Answer(c)
    BY <1>7, <1>8, <2>1, <2>2, <2>3
       DEF OneShot!Answer, OwnerBar, HolderBar, DoneBar, TokensBar, Owner
  <2> QED BY <2>4
<1> QED BY <1>9, <1>10

\* The loop brings the token of c, and no other, into rows of its owner.
LEMMA SavesRefine ==
    ASSUME VaultInv, NEW c \in Callback, InFlight(c), NEW items, Saves(c, items)
    PROVE  OneShot!Answer(c)
<1>1. PICK n \in 0 .. Len(items), stage \in {"ok", "500"} :
            /\ stage = "ok" => n = Len(items)
            /\ After(Table, c, items, n)
            /\ flow' \in [Callback -> Flow \cup {NULL}]
            /\ \A d \in Callback : d # c => flow'[d] = flow[d]
            /\ flow'[c] = [flow[c] EXCEPT !.stage = stage,
                                          !.found = [k \in DOMAIN items |-> items[k].account]]
            /\ flow'[c] \in Flow
            /\ nextId' \in 1 .. MaxRows + 1
            /\ UNCHANGED <<states, nextState, clock>>
  BY SavesEffect
<1>2. flow[c] \in Flow
  BY DEF VaultInv, InFlight
<1>3. /\ flow'[c] # NULL /\ flow'[c].stage \in {"ok", "500"}
      /\ flow'[c].row = flow[c].row /\ flow'[c].provider = flow[c].provider
  BY <1>1, <1>2, NullAssumption DEF Flow
<1>4. Holder(c) \in Owner /\ Holder(c) # NULL /\ Holder(c) = <<flow[c].row.user, flow[c].provider>>
  BY HolderIsOwner DEF InFlight
<1>5. Holder(c)' = Holder(c) /\ ~ InFlight(c)'
  BY <1>3, <1>4 DEF Holder, InFlight
<1>6. \A d \in Callback : Holder(d)' = Holder(d) /\ (d # c => (InFlight(d)' <=> InFlight(d)))
  BY <1>1, <1>5 DEF Holder, InFlight
<1>7. HolderBar' = HolderBar /\ HolderBar[c] = Holder(c)
  BY <1>6 DEF HolderBar
<1>8. DoneBar' = DoneBar \cup {c} /\ c \notin DoneBar
  BY <1>4, <1>5, <1>6 DEF DoneBar
<1>9. OwnerBar' = OwnerBar
  BY <1>1 DEF OwnerBar, OwnerOf
<1>10. conns' \in [Id -> Row \cup {NULL}]
  BY <1>1 DEF After, TableOK, Table
<1>11. TokensBar' \in [Owner -> SUBSET Callback]
  BY <1>10 DEF TokensBar, Owner, OfUser, Rows, Row
<1>12. ASSUME NEW o \in Owner
       PROVE  TokensBar'[o] \subseteq TokensBar[o] \cup (IF o = HolderBar[c] THEN {c} ELSE {})
  <2>1. SUFFICES ASSUME NEW i \in Id, conns'[i] # NULL, conns'[i].user = o[1], conns'[i].provider = o[2]
                 PROVE  conns'[i].access \in TokensBar[o] \cup (IF o = HolderBar[c] THEN {c} ELSE {})
    BY <1>10 DEF TokensBar, Owner, OfUser, Rows
  <2>2. CASE conns'[i] = conns[i]
    <3>1. i \in OfUser(conns, o[1], o[2])
      BY <2>1, <2>2 DEF VaultInv, TableOK, Start, OfUser, Rows
    <3> QED BY <2>2, <3>1 DEF TokensBar, Owner
  <2>3. CASE conns'[i] # conns[i]
    <3>1. conns'[i].user = flow[c].row.user /\ conns'[i].provider = flow[c].provider /\ conns'[i].access = c
      <4>1. Touched(Table, c, items, n, i)
        BY <1>1, <2>3 DEF After, Table
      <4> QED BY <4>1 DEF Touched, Table, Names
    <3>2. o = <<o[1], o[2]>>
      BY DEF Owner
    <3>3. o = HolderBar[c]
      BY <1>4, <1>7, <2>1, <3>1, <3>2
    <3> QED BY <3>1, <3>3
  <2> QED BY <2>2, <2>3
<1> QED BY <1>4, <1>7, <1>8, <1>9, <1>11, <1>12
       DEF OneShot!Answer, OwnerBar, HolderBar, DoneBar, TokensBar, Owner

\* The handlers in flight are done when the process stops.
LEMMA RestartRefines ==
    ASSUME VaultInv, Restart
    PROVE  \E C \in SUBSET Callback : OneShot!Drop(C)
<1> DEFINE C == {c \in Callback : InFlight(c)}
<1>1. /\ UNCHANGED <<states, nextState, conns>>
      /\ \A d \in Callback : flow'[d] = IF InFlight(d) THEN [flow[d] EXCEPT !.stage = "lost"] ELSE flow[d]
  BY DEF Restart
<1>2. ASSUME NEW d \in Callback
      PROVE  Holder(d)' = Holder(d) /\ (InFlight(d) => Holder(d) # NULL) /\ ~ InFlight(d)'
  <2>1. CASE InFlight(d)
    <3>1. flow[d] \in Flow /\ Holder(d) # NULL /\ Holder(d) = <<flow[d].row.user, flow[d].provider>>
      BY <2>1, HolderIsOwner DEF VaultInv, InFlight
    <3> DEFINE lost == [flow[d] EXCEPT !.stage = "lost"]
    <3>2. lost \in Flow /\ lost.stage = "lost" /\ lost.row = flow[d].row /\ lost.provider = flow[d].provider
      BY <3>1 DEF Flow, Stage
    <3>3. flow'[d] = lost
      BY <1>1, <2>1
    <3> HIDE DEF lost
    <3> QED BY <3>1, <3>2, <3>3, NullAssumption DEF Holder, InFlight
  <2>2. CASE ~ InFlight(d)
    BY <1>1, <2>2 DEF Holder, InFlight
  <2> QED BY <2>1, <2>2
<1>3. HolderBar' = HolderBar /\ \A c \in C : HolderBar[c] # NULL
  BY <1>2 DEF HolderBar
<1>4. DoneBar' = DoneBar \cup C
  BY <1>2 DEF DoneBar
<1>5. OwnerBar' = OwnerBar /\ TokensBar' = TokensBar
  BY <1>1 DEF OwnerBar, OwnerOf, TokensBar, OfUser, Rows
<1> HIDE DEF C
<1>6. OneShot!Drop(C)
  BY <1>3, <1>4, <1>5 DEF OneShot!Drop, OwnerBar, HolderBar, DoneBar, TokensBar, Owner
<1>7. C \in SUBSET Callback
  BY DEF C
<1> QED BY <1>6, <1>7

LEMMA StepRefines ==
    ASSUME IInv, [Next]_vars
    PROVE  OneShot!PromiseNext \/ UNCHANGED <<OwnerBar, HolderBar, DoneBar, TokensBar>>
<1>1. CASE Tick \/ UNCHANGED vars
  <2>1. UNCHANGED <<states, nextState, flow, conns>>
    BY <1>1 DEF Tick, vars
  <2> QED BY <2>1 DEF OwnerBar, OwnerOf, HolderBar, Holder, DoneBar, InFlight, TokensBar, OfUser, Rows
<1>2. CASE Restart
  BY <1>2, RestartRefines DEF IInv, OneShot!PromiseNext
<1>3. ASSUME NEW u \in User, NEW p \in Provider, NEW k \in Packs[p], StartFlow(u, p, k)
      PROVE  OneShot!PromiseNext
  BY <1>3, StartRefines DEF OneShot!PromiseNext, Owner
<1>4. ASSUME NEW c \in Callback, NEW s \in StateId, NEW p \in Provider, CallbackArrives(c, s, p)
      PROVE  OneShot!PromiseNext \/ UNCHANGED <<OwnerBar, HolderBar, DoneBar, TokensBar>>
  BY <1>4, ArriveRefines DEF OneShot!PromiseNext
<1>5. ASSUME NEW c \in Callback, Exchange(c) \/ Profile(c) \/ Discover(c) \/ DiscoverAgain(c)
      PROVE  OneShot!PromiseNext \/ UNCHANGED <<OwnerBar, HolderBar, DoneBar, TokensBar>>
  <2>1. VaultInv /\ Handles(c)
    BY <1>5, HandlerSteps DEF IInv
  <2>2. OneShot!Answer(c) \/ UNCHANGED <<OwnerBar, HolderBar, DoneBar, TokensBar>>
    BY <2>1, MovesRefine, SavesRefine DEF Handles
  <2> QED BY <2>2 DEF OneShot!PromiseNext
<1> QED BY <1>1, <1>2, <1>3, <1>4, <1>5 DEF Next

\* Whatever the interleaving of starts, callbacks, reloads of the redirect and
\* restarts, a state is redeemed at most once and only the callback that redeemed
\* it writes connections, of the owner of the state.
THEOREM FlowImplementsOneShot == Spec => StatesAreOneShot
<1>1. Init => OneShot!PromiseInit
  BY InitRefines
<1>2. IInv /\ [Next]_vars => [OneShot!PromiseNext]_(OneShot!promise)
  BY StepRefines DEF OneShot!promise, OwnerBar, HolderBar, DoneBar, TokensBar
<1> QED BY <1>1, <1>2, InitIInv, NextIInv, PTL DEF Spec, StatesAreOneShot, OneShot!Promise
=============================================================================
