-------------------------- MODULE FrontDoorProofs --------------------------
(***************************************************************************)
(* Proofs about FrontDoor, for any number of requests, addresses, emails,  *)
(* tokens and restarts, any ceiling and any window: its types; that a      *)
(* revoked token drains; what a ceiling lets through; that every refusal   *)
(* has its cause.                                                          *)
(*                                                                         *)
(* The last two are about one entry of a map and the log of the requests   *)
(* it let through in this epoch (LogOK, Lower, Upper, Sparse), first apart *)
(* from requests and then as LimitInv of the whole.                        *)
(***************************************************************************)
EXTENDS FrontDoor, FiniteSetTheorems, TLAPS

Maps(K) == [K -> Limit]

\* What awaits the worker thread has an email, what awaits its body a token.
KeysFit == \A r \in Req : /\ At(r, "verifying") => req[r].key \in Email
                          /\ At(r, "body") => req[r].key \in Token

IInv == TypeOK /\ KeysFit

\* What a step may make of the requests: the types are kept, and a request that
\* acts on a token acted on it before or presented one that is active.
Admits ==
    /\ req' \in [Req -> Request \cup {NULL}]
    /\ KeysFit'
    /\ \A k \in Token : \A r \in InUse(k)' : r \in InUse(k) \/ tokens[k] = "active"

---------------------------------------------------------------------------
(* The limiter. *)

\* Counting an event keeps the map a map.
LEMMA HitType ==
    ASSUME NEW K, NEW t \in Maps(K), NEW k \in K, NEW now \in Nat
    PROVE  Hit(t, k, now) \in Maps(K)
<1>1. now + Window \in Nat
  BY RateLimitAssumption
<1>2. Entry(t, k, now) \in [count: Nat, resetAt: Nat]
  BY <1>1 DEF Entry, Maps, Limit
<1>3. [Entry(t, k, now) EXCEPT !.count = @ + 1] \in [count: Nat, resetAt: Nat]
  BY <1>2
<1> QED BY <1>3 DEF Hit, Maps, Limit

\* So does freeing a key.
LEMMA ResetType ==
    ASSUME NEW K, NEW t \in Maps(K), NEW k \in K
    PROVE  Reset(t, k) \in Maps(K)
  BY DEF Reset, Maps, Limit

---------------------------------------------------------------------------
(* The requests. *)

\* A request that arrives acts at once only on an active token.
LEMMA ArrivesAdmits ==
    ASSUME IInv, NEW r \in Req, NEW which, NEW ip \in Ip, NEW key \in Email \cup Token,
           NEW owner \in BOOLEAN, NEW keyAt \in 0 .. MaxClock \cup {NULL},
           NEW stage \in Waiting \cup Answer,
           stage = "open" /\ key \in Token => tokens[key] = "active",
           stage = "verifying" => key \in Email, stage = "body" => key \in Token,
           Arrives(r, which, ip, key, owner, keyAt, stage)
    PROVE  Admits
<1> DEFINE new == [ip |-> ip, key |-> key, owner |-> owner, at |-> clock,
                   keyAt |-> keyAt, epoch |-> epoch, stage |-> stage]
<1>1. req' = [req EXCEPT ![r] = new] /\ req \in [Req -> Request \cup {NULL}]
  BY DEF Arrives, IInv, TypeOK
<1>2. new \in Request
  BY DEF Request, IInv, TypeOK
<1>3. req' \in [Req -> Request \cup {NULL}]
  BY <1>1, <1>2
<1>4. ASSUME NEW k \in Token, NEW q \in InUse(k)'
      PROVE  q \in InUse(k) \/ tokens[k] = "active"
  <2>1. q \in Req /\ req'[q] # NULL /\ req'[q].key = k /\ req'[q].stage = "open"
    BY <1>4 DEF InUse, Seen
  <2>2. CASE q = r
    <3>1. req'[q] = new
      BY <1>1, <2>2
    <3>2. new.key = key /\ new.stage = stage
      OBVIOUS
    <3> QED BY <2>1, <3>1, <3>2
  <2>3. CASE q # r
    <3>1. req'[q] = req[q]
      BY <1>1, <2>1, <2>3
    <3> QED BY <2>1, <3>1 DEF InUse, Seen
  <2> QED BY <2>2, <2>3
<1>5. KeysFit'
  <2>1. ASSUME NEW q \in Req, req'[q] # NULL
        PROVE  IF q = r THEN req'[q].key = key /\ req'[q].stage = stage ELSE req'[q] = req[q]
    BY <1>1
  <2> QED BY <2>1 DEF IInv, KeysFit, At
<1> QED BY <1>3, <1>4, <1>5 DEF Admits

\* So does one that goes on.
LEMMA MovesAdmits ==
    ASSUME IInv, NEW r \in Req, req[r] # NULL, NEW stage \in {"open"} \cup Answer,
           stage = "open" /\ req[r].key \in Token => tokens[req[r].key] = "active",
           NEW keyAt \in 0 .. MaxClock \cup {NULL},
           \/ Becomes(r, stage)
           \/ req' = [req EXCEPT ![r].stage = stage, ![r].keyAt = keyAt]
    PROVE  Admits
<1>1. req \in [Req -> Request \cup {NULL}] /\ req[r] \in Request
  BY DEF IInv, TypeOK
<1>2. PICK new \in Request :
        /\ req' = [req EXCEPT ![r] = new]
        /\ new.key = req[r].key /\ new.stage = stage
  <2>1. CASE Becomes(r, stage)
    <3> DEFINE new == [req[r] EXCEPT !.stage = stage]
    <3>1. new \in Request /\ new.key = req[r].key /\ new.stage = stage
      BY <1>1 DEF Request, Waiting
    <3>2. req' = [req EXCEPT ![r] = new]
      BY <1>1, <2>1 DEF Becomes
    <3> QED BY <3>1, <3>2
  <2>2. CASE req' = [req EXCEPT ![r].stage = stage, ![r].keyAt = keyAt]
    <3> DEFINE new == [req[r] EXCEPT !.stage = stage, !.keyAt = keyAt]
    <3>1. new \in Request /\ new.key = req[r].key /\ new.stage = stage
      BY <1>1 DEF Request, Waiting
    <3>2. req' = [req EXCEPT ![r] = new]
      BY <1>1, <2>2
    <3> QED BY <3>1, <3>2
  <2> QED BY <2>1, <2>2
<1>3. req' \in [Req -> Request \cup {NULL}]
  BY <1>1, <1>2
<1>4. ASSUME NEW k \in Token, NEW q \in InUse(k)'
      PROVE  q \in InUse(k) \/ tokens[k] = "active"
  <2>1. q \in Req /\ req'[q] # NULL /\ req'[q].key = k /\ req'[q].stage = "open"
    BY <1>4 DEF InUse, Seen
  <2>2. CASE q = r
    BY <1>1, <1>2, <2>1, <2>2
  <2>3. CASE q # r
    BY <1>1, <1>2, <2>1, <2>3 DEF InUse, Seen
  <2> QED BY <2>2, <2>3
<1>5. KeysFit'
  <2>1. ASSUME NEW q \in Req, req'[q] # NULL
        PROVE  IF q = r THEN req'[q].stage = stage ELSE req'[q] = req[q]
    BY <1>1, <1>2
  <2>2. stage # "verifying" /\ stage # "body"
    BY DEF Answer
  <2> QED BY <2>1, <2>2 DEF IInv, KeysFit, At
<1> QED BY <1>3, <1>4, <1>5 DEF Admits

\* A step that leaves the requests alone.
LEMMA UnchangedAdmits ==
    ASSUME IInv, UNCHANGED req
    PROVE  Admits
  BY DEF IInv, TypeOK, Admits, InUse, Seen, KeysFit, At

\* A restart only ends requests.
LEMMA RestartAdmits ==
    ASSUME IInv, Restart
    PROVE  Admits
<1>1. req \in [Req -> Request \cup {NULL}]
  BY DEF IInv, TypeOK
<1>2. req' = [r \in Req |->
            IF req[r] # NULL /\ req[r].stage \in Waiting
            THEN [req[r] EXCEPT !.stage = "lost"] ELSE req[r]]
  BY DEF Restart
<1>3. ASSUME NEW r \in Req, req[r] # NULL, req[r].stage \in Waiting
      PROVE  req'[r] \in Request /\ req'[r].stage = "lost"
  <2>1. req'[r] = [req[r] EXCEPT !.stage = "lost"] /\ req[r] \in Request
    BY <1>1, <1>2, <1>3
  <2> QED BY <2>1 DEF Request, Answer
<1>4. ASSUME NEW r \in Req, ~ (req[r] # NULL /\ req[r].stage \in Waiting)
      PROVE  req'[r] = req[r]
  BY <1>2, <1>4
<1>5. req' \in [Req -> Request \cup {NULL}]
  BY <1>1, <1>2, <1>3, <1>4
<1>6. ASSUME NEW k \in Token, NEW q \in InUse(k)'
      PROVE  q \in InUse(k)
  <2>1. q \in Req /\ req'[q] # NULL /\ req'[q].key = k /\ req'[q].stage = "open"
    BY <1>6 DEF InUse, Seen
  <2> QED BY <1>3, <1>4, <2>1 DEF InUse, Seen
<1>7. KeysFit'
  <2>1. ASSUME NEW r \in Req, req'[r] # NULL
        PROVE  req'[r].stage = "lost" \/ req'[r] = req[r]
    BY <1>3, <1>4
  <2> QED BY <2>1 DEF IInv, KeysFit, At
<1> QED BY <1>5, <1>6, <1>7 DEF Admits

---------------------------------------------------------------------------
(* The steps. *)

\* Before authN has passed, and while it does, no request acts on a token that
\* is not active.
LEMMA StepAdmits ==
    ASSUME IInv, Next
    PROVE  Admits
<1>1. clock \in 0 .. MaxClock
  BY DEF IInv, TypeOK
<1>2. CASE Tick \/ \E k \in Token : Issue(k) \/ Revoke(k)
  BY <1>2, UnchangedAdmits DEF Tick, Issue, Revoke
<1>3. CASE Restart
  BY <1>3, RestartAdmits
<1>4. ASSUME NEW r \in Req, NEW ip \in Ip, NEW e \in Email,
             \/ \E owner \in BOOLEAN : Login(r, ip, e, owner)
             \/ Register(r, ip, e) \/ RegisterRefused(r, ip, e)
      PROVE  Admits
  <2>1. \E owner \in BOOLEAN, keyAt \in 0 .. MaxClock \cup {NULL},
           stage \in {"verifying", "hashing"} \cup Answer :
          Arrives(r, "login", ip, e, owner, keyAt, stage)
    BY <1>1, <1>4 DEF Login, Register, RegisterRefused, Answer
  <2>2. \A stage \in {"verifying", "hashing"} \cup Answer :
          stage \in Waiting \cup Answer /\ stage # "open" /\ stage # "body"
    BY DEF Waiting, Answer
  <2> QED BY <2>1, <2>2, ArrivesAdmits
<1>5. ASSUME NEW r \in Req, NEW ip \in Ip, NEW k \in Token,
             Turnaway(r, ip, k) \/ ProxyCall(r, ip, k) \/ TokenCall(r, ip, k)
      PROVE  Admits
  <2>1. \E keyAt \in 0 .. MaxClock \cup {NULL}, stage \in Waiting \cup Answer :
          /\ stage = "open" => tokens[k] = "active"
          /\ stage # "verifying"
          /\ Arrives(r, "proxy", ip, k, FALSE, keyAt, stage)
    <3>1. CASE Turnaway(r, ip, k) \/ ProxyCall(r, ip, k)
      BY <3>1 DEF Turnaway, ProxyCall, Waiting, Answer
    <3>2. CASE TokenCall(r, ip, k)
      <4>1. PICK next \in {"ok", "open"} : \E v \in Verdicts(k, next) :
              Arrives(r, "proxy", ip, k, FALSE, CountedAt(k), v)
        BY <3>2 DEF TokenCall
      <4>2. PICK v \in Verdicts(k, next) :
              Arrives(r, "proxy", ip, k, FALSE, CountedAt(k), v)
        BY <4>1
      <4>3. /\ v \in Waiting \cup Answer /\ v # "verifying"
            /\ v = "open" => tokens[k] = "active"
        BY <4>1, <4>2 DEF Verdicts, Waiting, Answer
      <4>4. CountedAt(k) \in 0 .. MaxClock \cup {NULL}
        BY <1>1 DEF CountedAt
      <4> QED BY <4>2, <4>3, <4>4
    <3> QED BY <1>5, <3>1, <3>2
  <2> QED BY <2>1, ArrivesAdmits
<1>6. ASSUME NEW r \in Req, Verified(r) \/ Hashed(r) \/ Completes(r)
      PROVE  Admits
  <2>1. req[r] # NULL
    BY <1>6 DEF Verified, Hashed, Completes, At
  <2>2. \E stage \in Answer : Becomes(r, stage) \/ BecomesCounted(r, stage)
    BY <1>6 DEF Verified, Hashed, Completes, Answer
  <2>3. PICK stage \in Answer : Becomes(r, stage) \/ BecomesCounted(r, stage)
    BY <2>2
  <2>4. stage # "open"
    BY DEF Answer
  <2> QED BY <1>1, <2>1, <2>3, <2>4, MovesAdmits DEF BecomesCounted
<1>7. ASSUME NEW r \in Req, BodyRead(r)
      PROVE  Admits
  <2> DEFINE k == req[r].key
  <2>1. req[r] # NULL
    BY <1>7 DEF BodyRead, At
  <2>2. PICK v \in Verdicts(k, "open") :
          req' = [req EXCEPT ![r].stage = v, ![r].keyAt = CountedAt(k)]
    BY <1>7 DEF BodyRead
  <2>3. v \in {"open"} \cup Answer /\ (v = "open" => tokens[k] = "active")
    BY <2>2 DEF Verdicts, Answer
  <2>4. CountedAt(k) \in 0 .. MaxClock \cup {NULL}
    BY <1>1 DEF CountedAt
  <2> QED BY <2>1, <2>2, <2>3, <2>4, MovesAdmits
<1> QED BY <1>2, <1>3, <1>4, <1>5, <1>6, <1>7 DEF Next

\* The login limiter counts addresses and emails of requests.
LEMMA LoginMapStep ==
    ASSUME IInv, Next
    PROVE  login' \in Maps(Ip \cup Email)
<1>1. login \in Maps(Ip \cup Email) /\ clock \in Nat
  BY ConstantsAssumption DEF IInv, TypeOK, Maps
<1>2. CASE UNCHANGED login
  BY <1>1, <1>2
<1>3. CASE Restart
  BY <1>3 DEF Restart, Maps, Limit
<1>4. ASSUME NEW r \in Req, NEW ip \in Ip, NEW e \in Email,
             \/ \E owner \in BOOLEAN : Login(r, ip, e, owner)
             \/ Register(r, ip, e) \/ RegisterRefused(r, ip, e)
      PROVE  login' \in Maps(Ip \cup Email)
  <2>1. ip \in Ip \cup Email /\ e \in Ip \cup Email
    OBVIOUS
  <2>2. Hit(login, ip, clock) \in Maps(Ip \cup Email)
    BY <1>1, <2>1, HitType
  <2>3. Hit(Hit(login, ip, clock), e, clock) \in Maps(Ip \cup Email)
    BY <1>1, <2>1, <2>2, HitType
  <2> QED BY <1>4, <2>2, <2>3 DEF Login, Register, RegisterRefused
<1>5. ASSUME NEW r \in Req, Verified(r)
      PROVE  login' \in Maps(Ip \cup Email)
  <2>1. req[r].key \in Ip \cup Email
    BY <1>5 DEF Verified, IInv, KeysFit
  <2>2. Hit(login, req[r].key, clock) \in Maps(Ip \cup Email)
    BY <1>1, <2>1, HitType
  <2>3. Freed(r) \in Maps(Ip \cup Email)
    BY <1>1, <2>1, ResetType DEF Freed
  <2> QED BY <1>5, <2>2, <2>3 DEF Verified
<1>6. UNCHANGED login \/ Restart
      \/ (\E r \in Req, ip \in Ip, e \in Email :
            \/ \E owner \in BOOLEAN : Login(r, ip, e, owner)
            \/ Register(r, ip, e) \/ RegisterRefused(r, ip, e))
      \/ \E r \in Req : Verified(r)
  BY DEF Next, Tick, Issue, Revoke, Turnaway, ProxyCall, TokenCall, Hashed, BodyRead, Completes
<1> QED BY <1>2, <1>3, <1>4, <1>5, <1>6

\* The proxy limiter counts addresses and tokens of requests.
LEMMA ProxyMapStep ==
    ASSUME IInv, Next
    PROVE  proxy' \in Maps(Ip \cup Token)
<1>1. proxy \in Maps(Ip \cup Token) /\ clock \in Nat
  BY ConstantsAssumption DEF IInv, TypeOK, Maps
<1>2. CASE UNCHANGED proxy
  BY <1>1, <1>2
<1>3. CASE Restart
  BY <1>3 DEF Restart, Maps, Limit
<1>4. ASSUME NEW r \in Req, NEW ip \in Ip, NEW k \in Token,
             Turnaway(r, ip, k) \/ ProxyCall(r, ip, k) \/ TokenCall(r, ip, k)
      PROVE  proxy' \in Maps(Ip \cup Token)
  <2>1. ip \in Ip \cup Token /\ k \in Ip \cup Token
    OBVIOUS
  <2>2. Hit(proxy, ip, clock) \in Maps(Ip \cup Token)
    BY <1>1, <2>1, HitType
  <2>3. Counted(Hit(proxy, ip, clock), k) \in Maps(Ip \cup Token)
    BY <1>1, <2>1, <2>2, HitType DEF Counted
  <2> QED BY <1>4, <2>2, <2>3 DEF Turnaway, ProxyCall, TokenCall
<1>5. ASSUME NEW r \in Req, BodyRead(r)
      PROVE  proxy' \in Maps(Ip \cup Token)
  <2>1. req[r].key \in Ip \cup Token
    BY <1>5 DEF BodyRead, IInv, KeysFit
  <2>2. Counted(proxy, req[r].key) \in Maps(Ip \cup Token)
    BY <1>1, <2>1, HitType DEF Counted
  <2> QED BY <1>5, <2>2 DEF BodyRead
<1>6. UNCHANGED proxy \/ Restart
      \/ (\E r \in Req, ip \in Ip, k \in Token :
            Turnaway(r, ip, k) \/ ProxyCall(r, ip, k) \/ TokenCall(r, ip, k))
      \/ \E r \in Req : BodyRead(r)
  BY DEF Next, Tick, Issue, Revoke, Login, Register, RegisterRefused, Verified, Hashed, Completes
<1> QED BY <1>2, <1>3, <1>4, <1>5, <1>6

\* A token is issued once and revoked once.
LEMMA TokensStep ==
    ASSUME IInv, Next
    PROVE  /\ tokens' \in [Token -> {"unissued", "active", "revoked"}]
           /\ \A k \in Token : tokens[k] = "revoked" => tokens'[k] = "revoked"
<1>1. tokens \in [Token -> {"unissued", "active", "revoked"}]
  BY DEF IInv, TypeOK
<1>2. CASE UNCHANGED tokens
  BY <1>1, <1>2
<1>3. ASSUME NEW k \in Token, Issue(k) \/ Revoke(k)
      PROVE  /\ tokens' \in [Token -> {"unissued", "active", "revoked"}]
             /\ \A j \in Token : tokens[j] = "revoked" => tokens'[j] = "revoked"
  <2>1. \/ tokens[k] = "unissued" /\ tokens' = [tokens EXCEPT ![k] = "active"]
        \/ tokens' = [tokens EXCEPT ![k] = "revoked"]
    BY <1>3 DEF Issue, Revoke
  <2> QED BY <1>1, <2>1
<1>4. UNCHANGED tokens \/ \E k \in Token : Issue(k) \/ Revoke(k)
  BY DEF Next, Tick, Restart, Login, Register, RegisterRefused, Turnaway, ProxyCall, TokenCall,
      Verified, Hashed, BodyRead, Completes
<1> QED BY <1>2, <1>3, <1>4

\* The clock and the epoch stay within their bounds.
LEMMA CountersStep ==
    ASSUME IInv, Next
    PROVE  door' = door /\ clock' \in 0 .. MaxClock /\ epoch' \in 0 .. MaxRestarts
<1>1. clock \in 0 .. MaxClock /\ epoch \in 0 .. MaxRestarts
  BY DEF IInv, TypeOK
<1>2. CASE Tick
  BY <1>1, <1>2, ConstantsAssumption DEF Tick
<1>3. CASE Restart
  BY <1>1, <1>3, ConstantsAssumption DEF Restart
<1>4. Tick \/ Restart \/ UNCHANGED <<door, clock, epoch>>
  BY DEF Next, Issue, Revoke, Login, Register, RegisterRefused, Turnaway, ProxyCall, TokenCall,
      Verified, Hashed, BodyRead, Completes
<1> QED BY <1>1, <1>2, <1>3, <1>4 DEF Tick, Restart

\* The invariant holds at the start ..
LEMMA InitIInv == Init => IInv
<1> SUFFICES ASSUME Init
             PROVE  IInv
  OBVIOUS
<1>1. TypeOK
  BY ConstantsAssumption DEF Init, TypeOK, Limit
<1>2. KeysFit
  BY DEF Init, KeysFit, At
<1> QED BY <1>1, <1>2 DEF IInv

\* .. is kept by every step ..
LEMMA NextIInv == IInv /\ [Next]_vars => IInv'
<1> SUFFICES ASSUME IInv, [Next]_vars
             PROVE  IInv'
  OBVIOUS
<1>1. CASE Next
  <2>1. door \in {"login", "proxy"}
    BY DEF IInv, TypeOK
  <2>2. req' \in [Req -> Request \cup {NULL}] /\ KeysFit'
    BY <1>1, StepAdmits DEF Admits
  <2>3. login' \in [Ip \cup Email -> Limit] /\ proxy' \in [Ip \cup Token -> Limit]
    BY <1>1, LoginMapStep, ProxyMapStep DEF Maps
  <2> QED BY <1>1, <2>1, <2>2, <2>3, TokensStep, CountersStep DEF IInv, TypeOK
<1>2. CASE UNCHANGED vars
  BY <1>2 DEF vars, IInv, TypeOK, KeysFit, At
<1> QED BY <1>1, <1>2

\* .. and so always holds.
LEMMA Invariance == Spec => []IInv
  BY InitIInv, NextIInv, PTL DEF Spec

---------------------------------------------------------------------------
(* One key of a limiter: its entry and the events it let through. *)

\* The window of the entry is open.
Open(x, now) == x # NULL /\ now < x.resetAt

Bumped(x, now) == IF Open(x, now) THEN [count |-> x.count + 1, resetAt |-> x.resetAt]
                                  ELSE [count |-> 1, resetAt |-> now + Window]

Full(x, now) == Open(x, now) /\ x.count + 1 > Ceiling

\* A is the set of the events let through, tm their instants.
Since(A, tm, s) == {q \in A : tm[q] >= s}

Between(A, tm, a, b) == {q \in A : a <= tm[q] /\ tm[q] < b}

Causes(A, tm, m) == {q \in A : tm[q] <= m /\ m < tm[q] + Window}

Start(x) == x.resetAt - Window

LogOK(x, A, tm, now) ==
    /\ IsFiniteSet(A)
    /\ \A q \in A : tm[q] \in 0 .. now
    /\ x \in Limit
    /\ x # NULL => Start(x) \in 0 .. now

\* What the entry counts has passed, up to the ceiling.
Lower(x, A, tm) ==
    x # NULL => \/ Cardinality(Since(A, tm, Start(x))) >= x.count
                \/ Cardinality(Since(A, tm, Start(x))) >= Ceiling

\* What has passed is counted and within the ceiling.  The window was opened by
\* one of these events; those just before it, which a stretch of time as long as
\* a window may have in common with it, are fewer than the ceiling.
Upper(x, A, tm) ==
    /\ x = NULL => A = {}
    /\ x # NULL =>
        /\ Cardinality(Since(A, tm, Start(x))) <= x.count
        /\ Cardinality(Since(A, tm, Start(x))) <= Ceiling
        /\ \E q \in A : tm[q] = Start(x)
        /\ \A q \in A : tm[q] < x.resetAt
        /\ Cardinality(Between(A, tm, Start(x) - Window + 1, Start(x))) < Ceiling

Sparse(A, tm) == \A t \in Nat : Cardinality(Between(A, tm, t, t + Window)) < 2 * Ceiling

\* check(key) in terms of the entry of the key.
LEMMA HitIs ==
    ASSUME NEW K, NEW t \in Maps(K), NEW k \in K, NEW now \in Nat
    PROVE  /\ Hit(t, k, now) = [t EXCEPT ![k] = Bumped(t[k], now)]
           /\ Limited(t, k, now) <=> Full(t[k], now)
<1>1. t[k] = NULL \/ (t[k] \in [count: Nat, resetAt: Nat] /\ t[k] # NULL)
  BY NullAssumption DEF Maps, Limit
<1>2. Ceiling \in Nat \ {0} /\ Window \in Nat
  BY RateLimitAssumption
<1>3. [Entry(t, k, now) EXCEPT !.count = @ + 1] = Bumped(t[k], now)
  BY <1>1, <1>2 DEF Entry, Bumped, Open
<1>4. Limited(t, k, now) <=> Full(t[k], now)
  BY <1>1, <1>2 DEF Limited, Full, Entry, Open
<1> QED BY <1>3, <1>4 DEF Hit

\* Parts of a finite log are finite.
LEMMA Parts ==
    ASSUME NEW A, IsFiniteSet(A), NEW tm
    PROVE  /\ \A s : IsFiniteSet(Since(A, tm, s)) /\ Cardinality(Since(A, tm, s)) \in Nat
           /\ \A a, b : IsFiniteSet(Between(A, tm, a, b)) /\ Cardinality(Between(A, tm, a, b)) \in Nat
           /\ \A m : IsFiniteSet(Causes(A, tm, m)) /\ Cardinality(Causes(A, tm, m)) \in Nat
<1>1. ASSUME NEW S \in SUBSET A
      PROVE  IsFiniteSet(S) /\ Cardinality(S) \in Nat
  BY <1>1, FS_Subset, FS_CardinalityType
<1>2. \A s : Since(A, tm, s) \in SUBSET A
  BY DEF Since
<1>3. \A a, b : Between(A, tm, a, b) \in SUBSET A
  BY DEF Between
<1>4. \A m : Causes(A, tm, m) \in SUBSET A
  BY DEF Causes
<1> QED BY <1>1, <1>2, <1>3, <1>4

\* Only the instants of the events matter.
LEMMA SameTimes ==
    ASSUME NEW A, NEW tm, NEW tn, \A q \in A : tn[q] = tm[q], NEW x
    PROVE  /\ \A s : Since(A, tn, s) = Since(A, tm, s)
           /\ \A a, b : Between(A, tn, a, b) = Between(A, tm, a, b)
           /\ \A m : Causes(A, tn, m) = Causes(A, tm, m)
           /\ \A now : LogOK(x, A, tm, now) => LogOK(x, A, tn, now)
           /\ Lower(x, A, tm) => Lower(x, A, tn)
           /\ Upper(x, A, tm) => Upper(x, A, tn)
           /\ Sparse(A, tm) => Sparse(A, tn)
<1>1. \A s : Since(A, tn, s) = Since(A, tm, s)
  BY DEF Since
<1>2. \A a, b : Between(A, tn, a, b) = Between(A, tm, a, b)
  BY DEF Between
<1>3. \A m : Causes(A, tn, m) = Causes(A, tm, m)
  BY DEF Causes
<1>4. \A now : LogOK(x, A, tm, now) => LogOK(x, A, tn, now)
  BY DEF LogOK
<1>5. Lower(x, A, tm) => Lower(x, A, tn)
  BY <1>1 DEF Lower
<1>6. Upper(x, A, tm) => Upper(x, A, tn)
  BY <1>1, <1>2 DEF Upper
<1>7. Sparse(A, tm) => Sparse(A, tn)
  BY <1>2 DEF Sparse
<1> QED BY <1>1, <1>2, <1>3, <1>4, <1>5, <1>6, <1>7

\* An event that passes.
LEMMA PassKeeps ==
    ASSUME NEW x, NEW A, NEW tm, NEW tn, NEW now \in Nat, LogOK(x, A, tm, now),
           NEW r, r \notin A, \A q \in A : tn[q] = tm[q], tn[r] = now
    PROVE  /\ LogOK(Bumped(x, now), A \cup {r}, tn, now)
           /\ Lower(x, A, tm) => Lower(Bumped(x, now), A \cup {r}, tn)
<1> DEFINE y == Bumped(x, now)
           B == A \cup {r}
<1>1. Ceiling \in Nat \ {0} /\ Window \in Nat \ {0}
  BY RateLimitAssumption
<1>2. x # NULL => x \in [count: Nat, resetAt: Nat]
  BY DEF LogOK, Limit
<1>3. y \in [count: Nat, resetAt: Nat] /\ y # NULL
  <2>1. y \in [count: Nat, resetAt: Nat]
    BY <1>1, <1>2 DEF Bumped, Open
  <2> QED BY <2>1, NullAssumption
<1>4. Start(y) \in 0 .. now /\ y.count \in Nat
      /\ (Open(x, now) => y.count = x.count + 1 /\ Start(y) = Start(x))
      /\ (~ Open(x, now) => y.count = 1)
  BY <1>1, <1>2 DEF Bumped, Open, Start, LogOK
<1> HIDE DEF y
<1>5. IsFiniteSet(B) /\ \A q \in B : tn[q] \in 0 .. now
  BY FS_AddElement DEF LogOK
<1>6. LogOK(y, B, tn, now)
  BY <1>3, <1>4, <1>5 DEF LogOK, Limit
<1>7. Since(B, tn, Start(y)) = Since(A, tm, Start(y)) \cup {r} /\ r \notin Since(A, tm, Start(y))
  BY <1>4 DEF Since
<1>8. /\ Cardinality(Since(A, tm, Start(y))) \in Nat
      /\ Cardinality(Since(B, tn, Start(y))) = Cardinality(Since(A, tm, Start(y))) + 1
  BY <1>7, Parts, FS_AddElement DEF LogOK
<1>9. ASSUME Lower(x, A, tm)
      PROVE  Lower(y, B, tn)
  <2>1. CASE Open(x, now)
    <3>1. x # NULL /\ x.count \in Nat
      BY <1>2, <2>1 DEF Open
    <3>2. \/ Cardinality(Since(A, tm, Start(y))) >= x.count
          \/ Cardinality(Since(A, tm, Start(y))) >= Ceiling
      BY <1>4, <1>9, <2>1, <3>1 DEF Lower
    <3> DEFINE n == Cardinality(Since(A, tm, Start(y)))
    <3> HIDE DEF n
    <3>3. n \in Nat /\ (n >= x.count \/ n >= Ceiling)
      BY <1>8, <3>2 DEF n
    <3>4. n + 1 >= y.count \/ n + 1 >= Ceiling
      BY <1>1, <1>4, <2>1, <3>1, <3>3
    <3> QED BY <1>8, <3>4 DEF Lower, n
  <2>2. CASE ~ Open(x, now)
    BY <1>4, <1>8, <2>2 DEF Lower
  <2> QED BY <2>1, <2>2
<1> QED BY <1>6, <1>9 DEF y

\* One that passes below the ceiling.
LEMMA PassKeepsCeiling ==
    ASSUME NEW x, NEW A, NEW tm, NEW tn, NEW now \in Nat, LogOK(x, A, tm, now),
           NEW r, r \notin A, \A q \in A : tn[q] = tm[q], tn[r] = now,
           ~ Full(x, now), Upper(x, A, tm), Sparse(A, tm)
    PROVE  Upper(Bumped(x, now), A \cup {r}, tn) /\ Sparse(A \cup {r}, tn)
<1> DEFINE y == Bumped(x, now)
           B == A \cup {r}
           s == Start(y)
           last == Since(B, tn, s)
           before == Between(B, tn, s - Window + 1, s)
<1>1. Ceiling \in Nat \ {0} /\ Window \in Nat \ {0}
  BY RateLimitAssumption
<1>2. x # NULL => x \in [count: Nat, resetAt: Nat] /\ Start(x) \in 0 .. now
  BY DEF LogOK, Limit
<1>3. y \in [count: Nat, resetAt: Nat] /\ y # NULL
  <2>1. y \in [count: Nat, resetAt: Nat]
    BY <1>1, <1>2 DEF Bumped, Open
  <2> QED BY <2>1, NullAssumption
<1>4. /\ s \in 0 .. now /\ y.count \in Nat /\ y.resetAt = s + Window /\ now < s + Window
      /\ Open(x, now) => y.count = x.count + 1 /\ s = Start(x) /\ x.count + 1 <= Ceiling
      /\ ~ Open(x, now) => y.count = 1 /\ s = now
  BY <1>1, <1>2 DEF Bumped, Open, Start, Full
<1> HIDE DEF y, s
<1>5. IsFiniteSet(A) /\ IsFiniteSet(B) /\ (\A q \in A : tm[q] \in 0 .. now) /\ \A q \in B : tn[q] \in 0 .. now
  BY FS_AddElement DEF LogOK
<1>6. last = Since(A, tm, s) \cup {r} /\ r \notin Since(A, tm, s)
  BY <1>4 DEF Since
<1>7. /\ Cardinality(Since(A, tm, s)) \in Nat /\ Cardinality(last) \in Nat
      /\ Cardinality(last) = Cardinality(Since(A, tm, s)) + 1
  BY <1>5, <1>6, Parts, FS_AddElement
<1>8. before = Between(A, tm, s - Window + 1, s)
  BY <1>1, <1>4, <1>5 DEF Between
<1>9. IsFiniteSet(before) /\ Cardinality(before) \in Nat /\ IsFiniteSet(last)
  BY <1>5, Parts
<1>10. Cardinality(last) <= y.count /\ Cardinality(last) <= Ceiling /\ Cardinality(before) < Ceiling
  <2>1. CASE Open(x, now)
    <3>1. x # NULL /\ s = Start(x) /\ x.count \in Nat
      BY <1>2, <1>4, <2>1 DEF Open
    <3>2. /\ Cardinality(Since(A, tm, s)) <= x.count
          /\ Cardinality(Between(A, tm, s - Window + 1, s)) < Ceiling
      BY <3>1 DEF Upper
    <3> HIDE DEF last, before
    <3> QED BY <1>1, <1>4, <1>7, <1>8, <2>1, <3>1, <3>2
  <2>2. CASE ~ Open(x, now) /\ x = NULL
    <3>1. A = {}
      BY <2>2 DEF Upper
    <3>2. Since(A, tm, s) = {} /\ before = {}
      BY <1>8, <3>1 DEF Since, Between
    <3> HIDE DEF last, before
    <3> QED BY <1>1, <1>4, <1>7, <2>2, <3>2, FS_EmptySet
  <2>3. CASE ~ Open(x, now) /\ x # NULL
    <3>1. s = now /\ now >= x.resetAt /\ x.resetAt = Start(x) + Window
          /\ Start(x) \in Nat /\ x.resetAt \in Nat
      BY <1>1, <1>2, <1>4, <2>3 DEF Open, Start
    <3>2. \A q \in A : tm[q] < x.resetAt
      BY <2>3 DEF Upper
    <3>3. Since(A, tm, s) = {}
      BY <1>5, <3>1, <3>2 DEF Since
    <3>4. PICK q \in A : tm[q] = Start(x)
      BY <2>3 DEF Upper
    <3> DEFINE old == Since(A, tm, Start(x))
    <3>5. q \in old /\ IsFiniteSet(old) /\ Cardinality(old) \in Nat /\ Cardinality(old) <= Ceiling
      <4>1. q \in old
        BY <3>1, <3>4 DEF Since
      <4>2. Cardinality(old) <= Ceiling
        BY <2>3 DEF Upper
      <4> QED BY <1>5, <4>1, <4>2, Parts
    <3>6. before \in SUBSET (old \ {q})
      BY <1>1, <1>5, <1>8, <3>1, <3>4 DEF Between, Since
    <3> HIDE DEF last, before, old
    <3>7. IsFiniteSet(old \ {q}) /\ Cardinality(old \ {q}) = Cardinality(old) - 1
      BY <3>5, FS_RemoveElement
    <3>8. Cardinality(before) <= Cardinality(old \ {q})
      BY <3>6, <3>7, FS_Subset
    <3>9. Cardinality(before) < Ceiling
      BY <1>1, <1>9, <3>5, <3>7, <3>8
    <3>10. Cardinality(last) = 1
      BY <1>7, <3>3, FS_EmptySet
    <3> QED BY <1>1, <1>4, <2>3, <3>9, <3>10
  <2> QED BY <2>1, <2>2, <2>3
<1>11. \E q \in B : tn[q] = s
  <2>1. CASE Open(x, now)
    <3>1. PICK q \in A : tm[q] = Start(x)
      BY <2>1 DEF Open, Upper
    <3> QED BY <1>4, <2>1, <3>1
  <2>2. CASE ~ Open(x, now)
    BY <1>4, <2>2
  <2> QED BY <2>1, <2>2
<1>12. \A q \in B : tn[q] < y.resetAt
  BY <1>1, <1>4, <1>5
<1>13. Upper(y, B, tn)
  BY <1>3, <1>10, <1>11, <1>12 DEF Upper, s
<1>14. ASSUME NEW t \in Nat
       PROVE  Cardinality(Between(B, tn, t, t + Window)) < 2 * Ceiling
  <2> DEFINE P == Between(B, tn, t, t + Window)
  <2>1. CASE t <= now /\ now < t + Window
    <3>1. P \in SUBSET (before \cup last)
      BY <1>1, <1>4, <1>5, <2>1 DEF Between, Since
    <3> HIDE DEF P, before, last
    <3>2. /\ IsFiniteSet(before \cup last)
          /\ Cardinality(before \cup last) = Cardinality(before) + Cardinality(last) - Cardinality(before \cap last)
      BY <1>9, FS_Union
    <3>3. Cardinality(before \cap last) \in Nat
      BY <1>9, FS_Intersection, FS_CardinalityType
    <3>4. Cardinality(P) <= Cardinality(before \cup last) /\ Cardinality(P) \in Nat
      BY <3>1, <3>2, FS_Subset, FS_CardinalityType
    <3>5. Cardinality(P) < 2 * Ceiling
      BY <1>1, <1>7, <1>9, <1>10, <3>2, <3>3, <3>4
    <3> QED BY <3>5 DEF P
  <2>2. CASE ~ (t <= now /\ now < t + Window)
    <3>1. P = Between(A, tm, t, t + Window)
      BY <1>1, <1>5, <2>2 DEF Between
    <3> QED BY <3>1 DEF Sparse
  <2> QED BY <2>1, <2>2
<1> QED BY <1>13, <1>14 DEF Sparse, y

\* One that the ceiling stops, and behind it as many as the ceiling.
LEMMA RefuseKeeps ==
    ASSUME NEW x, NEW A, NEW tm, NEW now \in Nat, LogOK(x, A, tm, now), Lower(x, A, tm), Full(x, now)
    PROVE  /\ LogOK(Bumped(x, now), A, tm, now) /\ Lower(Bumped(x, now), A, tm)
           /\ Upper(x, A, tm) => Upper(Bumped(x, now), A, tm)
           /\ Cardinality(Causes(A, tm, now)) >= Ceiling
<1> DEFINE y == Bumped(x, now)
           n == Cardinality(Since(A, tm, Start(x)))
<1>1. Ceiling \in Nat \ {0} /\ Window \in Nat \ {0}
  BY RateLimitAssumption
<1>2. x # NULL /\ x \in [count: Nat, resetAt: Nat] /\ now < x.resetAt /\ x.count + 1 > Ceiling
      /\ Start(x) \in 0 .. now
  BY DEF LogOK, Limit, Full, Open
<1>3. y \in [count: Nat, resetAt: Nat] /\ y # NULL /\ y.count = x.count + 1 /\ Start(y) = Start(x)
      /\ y.resetAt = x.resetAt
  <2>1. y = [count |-> x.count + 1, resetAt |-> x.resetAt]
    BY <1>2 DEF Bumped, Open
  <2>2. y \in [count: Nat, resetAt: Nat]
    BY <1>2, <2>1
  <2> QED BY <2>1, <2>2, NullAssumption DEF Start
<1>4. n \in Nat
  BY Parts DEF LogOK
<1>5. n >= x.count \/ n >= Ceiling
  BY <1>2 DEF Lower
<1> HIDE DEF n, y
<1>6. n >= Ceiling
  BY <1>1, <1>2, <1>4, <1>5
<1>7. Since(A, tm, Start(x)) \in SUBSET Causes(A, tm, now)
  BY <1>1, <1>2 DEF Since, Causes, LogOK, Start
<1>8. Cardinality(Causes(A, tm, now)) >= Ceiling
  <2>1. IsFiniteSet(Causes(A, tm, now)) /\ Cardinality(Causes(A, tm, now)) \in Nat
    BY Parts DEF LogOK
  <2>2. n <= Cardinality(Causes(A, tm, now))
    BY <1>7, <2>1, FS_Subset DEF n
  <2> QED BY <1>1, <1>4, <1>6, <2>1, <2>2
<1>9. LogOK(y, A, tm, now)
  BY <1>2, <1>3 DEF LogOK, Limit
<1>10. Lower(y, A, tm)
  BY <1>3, <1>6 DEF Lower, n
<1>11. ASSUME Upper(x, A, tm)
       PROVE  Upper(y, A, tm)
  <2>1. n <= x.count
    BY <1>2, <1>11 DEF Upper, n
  <2>2. n <= y.count
    BY <1>2, <1>3, <1>4, <2>1
  <2> QED BY <1>2, <1>3, <1>11, <2>2 DEF Upper, n
<1> QED BY <1>8, <1>9, <1>10, <1>11 DEF y

---------------------------------------------------------------------------
(* The events of the requests. *)

\* The keys of the limiter of this door, and those whose ceiling bounds what
\* passes: the one of an email only turns a 401 into a 429.
Keys(d) == Ip \cup (IF d = "login" THEN Email ELSE Token)

Strict(d) == Ip \cup (IF d = "proxy" THEN Token ELSE {})

Table == IF door = "login" THEN login ELSE proxy

\* x is a request that the limiter let through, or stopped, at k.
Passed(x, k) == /\ x # NULL
                /\ IF k \in Ip THEN x.ip = k /\ x.stage # "429_ip"
                   ELSE x.key = k /\ x.keyAt # NULL /\ x.stage # "429_key"

Stopped(x, k) == /\ x # NULL
                 /\ IF k \in Ip THEN x.ip = k /\ x.stage = "429_ip"
                    ELSE x.key = k /\ x.stage = "429_key"

When(x, k) == IF k \in Ip THEN x.at ELSE x.keyAt

Log(f, e, k) == {q \in Req : Passed(f[q], k) /\ f[q].epoch = e}

Times(f, k) == [q \in Req |-> When(f[q], k)]

\* What a request is, at this instant, in this epoch and at this door.
Shaped(x, now, e, d) ==
    /\ x.at \in 0 .. now /\ (x.keyAt # NULL => x.keyAt \in 0 .. now)
    /\ x.epoch \in 0 .. e
    /\ x.stage \in Waiting => x.epoch = e
    /\ x.stage \in {"verifying", "hashing", "body"} => x.keyAt = NULL
    /\ x.stage = "429_key" => x.keyAt # NULL
    /\ x.key \in Keys(d)
    /\ x.stage \in {"verifying", "hashing"} => d = "login"
    /\ x.stage = "body" => d = "proxy"

KeyInv(k) ==
    /\ LogOK(Table[k], Log(req, epoch, k), Times(req, k), clock)
    /\ Lower(Table[k], Log(req, epoch, k), Times(req, k))

CeilingInv(k) ==
    /\ Upper(Table[k], Log(req, epoch, k), Times(req, k))
    /\ \A e \in 0 .. MaxRestarts : Sparse(Log(req, e, k), Times(req, k))

HasCause(f, q, k) ==
    Cardinality(Causes(Log(f, f[q].epoch, k), Times(f, k), When(f[q], k))) >= Ceiling

LimitInv ==
    /\ \A q \in Req : req[q] # NULL => Shaped(req[q], clock, epoch, door)
    /\ IsFiniteSet(Seen)
    /\ \A k \in Keys(door) : KeyInv(k)
    /\ \A k \in Strict(door) : CeilingInv(k)
    /\ \A k \in Keys(door), q \in Req : Stopped(req[q], k) => HasCause(req, q, k)

\* What becomes of the entry a of key k, when request x becomes y.
Effect(x, y, k, a, b) ==
    \/ /\ ~ Passed(x, k) /\ ~ Stopped(x, k) /\ Passed(y, k) /\ When(y, k) = clock
       /\ b = Bumped(a, clock) /\ (k \in Strict(door) => ~ Full(a, clock))
    \/ /\ ~ Passed(x, k) /\ ~ Stopped(x, k) /\ Stopped(y, k) /\ When(y, k) = clock
       /\ b = Bumped(a, clock) /\ Full(a, clock)
    \/ /\ Passed(x, k) <=> Passed(y, k)
       /\ Stopped(x, k) <=> Stopped(y, k)
       /\ Passed(x, k) \/ Stopped(x, k) => When(y, k) = When(x, k)
       /\ b = a \/ (k \notin Strict(door) /\ b = NULL)

\* One request arrives or goes on.
RequestStep(r, new) ==
    /\ req' = [req EXCEPT ![r] = new]
    /\ UNCHANGED <<door, clock, epoch>>
    /\ new \in Request /\ Shaped(new, clock, epoch, door) /\ new.epoch = epoch
    /\ req[r] # NULL => req[r].epoch = epoch
    /\ \A k \in Keys(door) : Effect(req[r], new, k, Table[k], Table'[k])

LEMMA NeverBoth ==
    ASSUME NEW x, NEW k, Passed(x, k), Stopped(x, k)
    PROVE  FALSE
BY DEF Passed, Stopped

\* The log of another epoch is closed; the log of this one has the request or not.
LEMMA LogsAfter ==
    ASSUME TypeOK, LimitInv, NEW r \in Req, NEW new, RequestStep(r, new), NEW k \in Keys(door)
    PROVE  /\ \A e : e # epoch => Log(req', e, k) = Log(req, e, k)
           /\ (Passed(new, k) <=> Passed(req[r], k)) => Log(req', epoch, k) = Log(req, epoch, k)
           /\ Passed(new, k) /\ ~ Passed(req[r], k) =>
                /\ Log(req', epoch, k) = Log(req, epoch, k) \cup {r}
                /\ r \notin Log(req, epoch, k)
           /\ \A e : \A q \in Log(req, e, k) : Times(req', k)[q] = Times(req, k)[q]
<1>1. /\ req'[r] = new /\ \A q \in Req : q # r => req'[q] = req[q]
      /\ new.epoch = epoch /\ (req[r] # NULL => req[r].epoch = epoch)
  BY DEF RequestStep, TypeOK
<1>2. Passed(req[r], k) => req[r] # NULL
  BY DEF Passed
<1>3. \A e : e # epoch => Log(req', e, k) = Log(req, e, k)
  BY <1>1, <1>2 DEF Log
<1>4. (Passed(new, k) <=> Passed(req[r], k)) => Log(req', epoch, k) = Log(req, epoch, k)
  BY <1>1, <1>2 DEF Log
<1>5. Passed(new, k) /\ ~ Passed(req[r], k) =>
                /\ Log(req', epoch, k) = Log(req, epoch, k) \cup {r}
                /\ r \notin Log(req, epoch, k)
  BY <1>1, <1>2 DEF Log
<1>6. Passed(req[r], k) => When(new, k) = When(req[r], k)
  <2>1. Effect(req[r], new, k, Table[k], Table'[k])
    BY DEF RequestStep
  <2> QED BY <2>1 DEF Effect
<1>7. \A e : \A q \in Log(req, e, k) : Times(req', k)[q] = Times(req, k)[q]
  <2>1. SUFFICES ASSUME NEW q \in Req, Passed(req[q], k)
                 PROVE  When(req'[q], k) = When(req[q], k)
    BY DEF Log, Times
  <2> QED BY <1>1, <1>6, <2>1
<1> QED BY <1>3, <1>4, <1>5, <1>7

\* The invariant of one key.
LEMMA KeyKept ==
    ASSUME TypeOK, LimitInv, NEW r \in Req, NEW new, RequestStep(r, new), NEW k \in Keys(door)
    PROVE  /\ LogOK(Table'[k], Log(req', epoch, k), Times(req', k), clock)
           /\ Lower(Table'[k], Log(req', epoch, k), Times(req', k))
           /\ k \in Strict(door) =>
                /\ Upper(Table'[k], Log(req', epoch, k), Times(req', k))
                /\ \A e \in 0 .. MaxRestarts : Sparse(Log(req', e, k), Times(req', k))
           /\ Stopped(new, k) => HasCause(req', r, k)
<1> DEFINE x == req[r]
           a == Table[k]
           b == Table'[k]
           A == Log(req, epoch, k)
           B == Log(req', epoch, k)
           tm == Times(req, k)
           tn == Times(req', k)
<1>1. /\ LogOK(a, A, tm, clock) /\ Lower(a, A, tm)
      /\ k \in Strict(door) => /\ Upper(a, A, tm)
                               /\ \A e \in 0 .. MaxRestarts : Sparse(Log(req, e, k), tm)
  BY DEF LimitInv, KeyInv, CeilingInv
<1>2. Effect(x, new, k, a, b) /\ clock \in Nat /\ epoch \in 0 .. MaxRestarts
  BY ConstantsAssumption DEF RequestStep, TypeOK
<1>3. /\ (Passed(new, k) <=> Passed(x, k)) => B = A
      /\ Passed(new, k) /\ ~ Passed(x, k) => B = A \cup {r} /\ r \notin A
      /\ \A q \in A : tn[q] = tm[q]
      /\ \A e : \A q \in Log(req, e, k) : tn[q] = tm[q]
      /\ \A e : e # epoch => Log(req', e, k) = Log(req, e, k)
  BY LogsAfter
<1>4. /\ req'[r] = new /\ new.epoch = epoch /\ tn[r] = When(new, k)
  BY DEF RequestStep, TypeOK, Times
<1>5. ASSUME k \in Strict(door), NEW e \in 0 .. MaxRestarts, e # epoch
      PROVE  Sparse(Log(req', e, k), tn)
  <2>1. Sparse(Log(req, e, k), tm)
    BY <1>1, <1>5
  <2> HIDE DEF tm, tn
  <2> QED BY <1>3, <1>5, <2>1, SameTimes
<1>6. HasCause(req', r, k) <=> Cardinality(Causes(B, tn, When(new, k))) >= Ceiling
  BY <1>4 DEF HasCause
<1> HIDE DEF x, a, b, A, B, tm, tn
<1>7. SUFFICES /\ LogOK(b, B, tn, clock) /\ Lower(b, B, tn)
               /\ k \in Strict(door) => Upper(b, B, tn) /\ Sparse(B, tn)
               /\ Stopped(new, k) => HasCause(req', r, k)
  BY <1>5 DEF b, B, tn
<1>8. CASE /\ ~ Passed(x, k) /\ ~ Stopped(x, k) /\ Passed(new, k) /\ When(new, k) = clock
           /\ b = Bumped(a, clock) /\ (k \in Strict(door) => ~ Full(a, clock))
  <2>1. B = A \cup {r} /\ r \notin A /\ tn[r] = clock
    BY <1>3, <1>4, <1>8
  <2>2. LogOK(b, B, tn, clock) /\ Lower(b, B, tn)
    BY <1>1, <1>2, <1>3, <1>8, <2>1, PassKeeps
  <2>3. k \in Strict(door) => Upper(b, B, tn) /\ Sparse(B, tn)
    BY <1>1, <1>2, <1>3, <1>8, <2>1, PassKeepsCeiling DEF A
  <2> QED BY <1>8, <2>2, <2>3, NeverBoth
<1>9. CASE /\ ~ Passed(x, k) /\ ~ Stopped(x, k) /\ Stopped(new, k) /\ When(new, k) = clock
           /\ b = Bumped(a, clock) /\ Full(a, clock)
  <2>1. B = A
    BY <1>3, <1>9, NeverBoth
  <2>2. LogOK(a, A, tn, clock) /\ Lower(a, A, tn) /\ (k \in Strict(door) => Upper(a, A, tn) /\ Sparse(A, tn))
    BY <1>1, <1>2, <1>3, SameTimes DEF A
  <2>3. /\ LogOK(b, A, tn, clock) /\ Lower(b, A, tn)
        /\ k \in Strict(door) => Upper(b, A, tn)
        /\ Cardinality(Causes(A, tn, clock)) >= Ceiling
    BY <1>2, <1>9, <2>2, RefuseKeeps
  <2> QED BY <1>6, <1>9, <2>1, <2>2, <2>3
<1>10. CASE /\ Passed(x, k) <=> Passed(new, k)
            /\ Stopped(x, k) <=> Stopped(new, k)
            /\ Passed(x, k) \/ Stopped(x, k) => When(new, k) = When(x, k)
            /\ b = a \/ (k \notin Strict(door) /\ b = NULL)
  <2>1. B = A
    BY <1>3, <1>10
  <2>2. LogOK(a, A, tn, clock) /\ Lower(a, A, tn) /\ (k \in Strict(door) => Upper(a, A, tn) /\ Sparse(A, tn))
    BY <1>1, <1>2, <1>3, SameTimes DEF A
  <2>3. LogOK(b, A, tn, clock) /\ Lower(b, A, tn)
    BY <1>10, <2>2 DEF LogOK, Lower, Limit
  <2>4. k \in Strict(door) => Upper(b, A, tn) /\ Sparse(A, tn)
    BY <1>10, <2>2
  <2>5. Stopped(new, k) => HasCause(req', r, k)
    <3>1. SUFFICES ASSUME Stopped(new, k) PROVE HasCause(req', r, k)
      OBVIOUS
    <3>2. x # NULL /\ x.epoch = epoch /\ HasCause(req, r, k)
      BY <1>10, <3>1 DEF x, Stopped, RequestStep, LimitInv
    <3>3. Cardinality(Causes(A, tm, When(x, k))) >= Ceiling
      BY <3>2 DEF HasCause, x, A, tm
    <3>4. Causes(A, tn, When(x, k)) = Causes(A, tm, When(x, k))
      BY <1>3, SameTimes
    <3> QED BY <1>6, <1>10, <2>1, <3>1, <3>3, <3>4
  <2> QED BY <2>1, <2>3, <2>4, <2>5
<1> QED BY <1>2, <1>8, <1>9, <1>10 DEF Effect

\* A refusal keeps its cause: what has passed stays in the log.
LEMMA CauseKept ==
    ASSUME TypeOK, LimitInv, NEW r \in Req, NEW new, RequestStep(r, new), NEW k \in Keys(door),
           NEW q \in Req, q # r, Stopped(req'[q], k)
    PROVE  HasCause(req', q, k)
<1> DEFINE e == req[q].epoch
           A == Log(req, e, k)
           B == Log(req', e, k)
           tm == Times(req, k)
           tn == Times(req', k)
           m == When(req[q], k)
<1>1. req'[q] = req[q]
  BY DEF RequestStep, TypeOK
<1>2. Cardinality(Causes(A, tm, m)) >= Ceiling
  BY <1>1 DEF LimitInv, HasCause
<1>3. A \subseteq B /\ \A p \in A : tn[p] = tm[p]
  <2>1. /\ \A d : d # epoch => Log(req', d, k) = Log(req, d, k)
        /\ (Passed(new, k) <=> Passed(req[r], k)) => Log(req', epoch, k) = Log(req, epoch, k)
        /\ Passed(new, k) /\ ~ Passed(req[r], k) =>
                Log(req', epoch, k) = Log(req, epoch, k) \cup {r}
        /\ \A d : \A p \in Log(req, d, k) : Times(req', k)[p] = Times(req, k)[p]
    BY LogsAfter
  <2>2. Passed(req[r], k) => Passed(new, k)
    <3>1. Effect(req[r], new, k, Table[k], Table'[k])
      BY DEF RequestStep
    <3> QED BY <3>1 DEF Effect
  <2> QED BY <2>1, <2>2
<1>4. IsFiniteSet(B)
  <2>1. B \subseteq Seen \cup {r}
    BY DEF Log, Seen, Passed, RequestStep, TypeOK
  <2> QED BY <2>1, FS_AddElement, FS_Subset DEF LimitInv
<1> HIDE DEF A, B, tm, tn
<1>5. Causes(A, tm, m) \in SUBSET Causes(B, tn, m)
  BY <1>3 DEF Causes
<1>6. /\ IsFiniteSet(Causes(B, tn, m)) /\ Cardinality(Causes(B, tn, m)) \in Nat
      /\ Cardinality(Causes(A, tm, m)) <= Cardinality(Causes(B, tn, m))
      /\ Cardinality(Causes(A, tm, m)) \in Nat
  BY <1>4, <1>5, Parts, FS_Subset, FS_CardinalityType
<1>7. Cardinality(Causes(B, tn, m)) >= Ceiling
  BY <1>2, <1>6, RateLimitAssumption
<1> QED BY <1>1, <1>7 DEF HasCause, B, tn

LEMMA RequestStepKeeps ==
    ASSUME TypeOK, LimitInv, NEW r \in Req, NEW new, RequestStep(r, new)
    PROVE  LimitInv'
<1>1. /\ door' = door /\ clock' = clock /\ epoch' = epoch
      /\ req'[r] = new /\ \A q \in Req : q # r => req'[q] = req[q]
      /\ Shaped(new, clock, epoch, door)
  BY DEF RequestStep, TypeOK
<1>2. \A q \in Req : req'[q] # NULL => Shaped(req'[q], clock', epoch', door')
  <2>1. ASSUME NEW q \in Req, req'[q] # NULL
        PROVE  Shaped(req'[q], clock, epoch, door)
    BY <1>1, <2>1 DEF LimitInv
  <2> QED BY <1>1, <2>1
<1>3. IsFiniteSet(Seen')
  <2>1. Seen' \subseteq Seen \cup {r}
    BY <1>1 DEF Seen
  <2> QED BY <2>1, FS_AddElement, FS_Subset DEF LimitInv
<1>4. \A k \in Keys(door') : KeyInv(k)'
  BY <1>1, KeyKept DEF KeyInv
<1>5. \A k \in Strict(door') : CeilingInv(k)'
  <2>1. Strict(door) \subseteq Keys(door)
    BY DEF Strict, Keys, TypeOK
  <2> QED BY <1>1, <2>1, KeyKept DEF CeilingInv
<1>6. \A k \in Keys(door'), q \in Req : Stopped(req'[q], k) => HasCause(req', q, k)
  BY <1>1, KeyKept, CauseKept
<1> QED BY <1>1, <1>2, <1>3, <1>4, <1>5, <1>6 DEF LimitInv


---------------------------------------------------------------------------
(* The actions. *)

\* The map of this door has an entry for each of its keys.
LEMMA TableIsMap ==
    ASSUME TypeOK
    PROVE  /\ Table \in Maps(Keys(door)) /\ clock \in Nat
           /\ Keys(door) \cap Ip = Ip /\ (door = "proxy" => Strict(door) = Keys(door))
           /\ (door = "login" => Strict(door) = Ip)
  BY ConstantsAssumption DEF TypeOK, Table, Maps, Keys, Strict

\* Counting one key of it, or two.
LEMMA Counting ==
    ASSUME NEW K, NEW t \in Maps(K), NEW i \in K, NEW j \in K, i # j, NEW now \in Nat
    PROVE  /\ \A k \in K : Hit(t, i, now)[k] = IF k = i THEN Bumped(t[k], now) ELSE t[k]
           /\ \A k \in K : Hit(Hit(t, i, now), j, now)[k] =
                IF k \in {i, j} THEN Bumped(t[k], now) ELSE t[k]
<1>1. ASSUME NEW u \in Maps(K), NEW h \in K
      PROVE  \A k \in K : Hit(u, h, now)[k] = IF k = h THEN Bumped(u[k], now) ELSE u[k]
  <2>1. Hit(u, h, now) = [u EXCEPT ![h] = Bumped(u[h], now)]
    BY HitIs
  <2> QED BY <2>1 DEF Maps
<1>2. Hit(t, i, now) \in Maps(K)
  BY HitType
<1> QED BY <1>1, <1>2

\* A request arrives.  Its address is counted, and its email or token with it if
\* the handler comes to that before it awaits anything.
LEMMA ArrivalSteps ==
    ASSUME TypeOK, NEW r \in Req, NEW ip \in Ip, NEW key \in Keys(door) \ Ip, NEW owner \in BOOLEAN,
           NEW keyAt \in {NULL, clock}, NEW stage \in Waiting \cup Answer,
           Arrives(r, door, ip, key, owner, keyAt, stage), UNCHANGED <<door, clock, epoch>>,
           stage \in {"verifying", "hashing"} => door = "login" /\ keyAt = NULL,
           stage = "body" => door = "proxy" /\ keyAt = NULL,
           stage = "429_ip" <=> Limited(Table, ip, clock),
           stage = "429_key" => keyAt = clock /\ Limited(Table, key, clock),
           keyAt = clock => stage # "429_ip",
           keyAt = clock /\ door = "proxy" /\ stage # "429_key" => ~ Limited(Table, key, clock),
           Table' = IF keyAt = clock THEN Hit(Hit(Table, ip, clock), key, clock)
                                     ELSE Hit(Table, ip, clock)
    PROVE  \E new : RequestStep(r, new)
<1> DEFINE new == [ip |-> ip, key |-> key, owner |-> owner, at |-> clock,
                   keyAt |-> keyAt, epoch |-> epoch, stage |-> stage]
<1>1. Table \in Maps(Keys(door)) /\ clock \in Nat /\ ip \in Keys(door) /\ key # ip
      /\ clock \in 0 .. clock /\ clock \in 0 .. MaxClock /\ epoch \in 0 .. MaxRestarts /\ epoch \in 0 .. epoch
      /\ (door = "proxy" => Strict(door) = Keys(door)) /\ (door = "login" => Strict(door) = Ip)
      /\ clock # NULL /\ door \in {"login", "proxy"}
  <2>1. clock \in 0 .. MaxClock /\ epoch \in 0 .. MaxRestarts /\ door \in {"login", "proxy"}
    BY DEF TypeOK
  <2>2. ip \in Keys(door)
    BY DEF Keys
  <2> QED BY <2>1, <2>2, TableIsMap, ConstantsAssumption
<1>2. new \in Request /\ new # NULL
  <2>1. key \in Email \cup Token
    BY DEF Keys
  <2>2. new \in Request
    BY <1>1, <2>1 DEF Request
  <2> QED BY <2>2, NullAssumption
<1>3. new.ip = ip /\ new.key = key /\ new.at = clock /\ new.keyAt = keyAt /\ new.epoch = epoch
      /\ new.stage = stage
  OBVIOUS
<1>4. req' = [req EXCEPT ![r] = new] /\ req[r] = NULL
  BY DEF Arrives
<1> HIDE DEF new
<1>5. Shaped(new, clock, epoch, door)
  BY <1>1, <1>3 DEF Shaped
<1>6. ASSUME NEW k \in Keys(door)
      PROVE  Effect(req[r], new, k, Table[k], Table'[k])
  <2>1. ~ Passed(req[r], k) /\ ~ Stopped(req[r], k)
    BY <1>4 DEF Passed, Stopped
  <2>2. Limited(Table, k, clock) <=> Full(Table[k], clock)
    BY <1>1, HitIs
  <2>3. Table'[k] = IF k = ip \/ (k = key /\ keyAt = clock) THEN Bumped(Table[k], clock) ELSE Table[k]
    <3> DEFINE one == Hit(Table, ip, clock)
               two == Hit(Hit(Table, ip, clock), key, clock)
    <3>1. /\ one[k] = IF k = ip THEN Bumped(Table[k], clock) ELSE Table[k]
          /\ two[k] = IF k \in {ip, key} THEN Bumped(Table[k], clock) ELSE Table[k]
      BY <1>1, Counting
    <3>2. Table' = IF keyAt = clock THEN two ELSE one
      OBVIOUS
    <3> HIDE DEF one, two
    <3> QED BY <3>1, <3>2
  <2>4. CASE k = ip
    <3>1. Table'[k] = Bumped(Table[k], clock) /\ When(new, k) = clock
      BY <1>3, <2>3, <2>4 DEF When
    <3>2. IF stage = "429_ip" THEN Stopped(new, k) /\ Full(Table[k], clock)
                              ELSE Passed(new, k) /\ ~ Full(Table[k], clock)
      BY <1>2, <1>3, <2>2, <2>4 DEF Passed, Stopped
    <3> QED BY <2>1, <3>1, <3>2 DEF Effect
  <2>5. CASE k = key /\ keyAt = clock
    <3>1. Table'[k] = Bumped(Table[k], clock) /\ When(new, k) = clock /\ k \notin Ip
      BY <1>3, <2>3, <2>5 DEF When
    <3>2. IF stage = "429_key" THEN Stopped(new, k) /\ Full(Table[k], clock)
                               ELSE Passed(new, k) /\ (k \in Strict(door) => ~ Full(Table[k], clock))
      BY <1>1, <1>2, <1>3, <2>2, <2>5, <3>1 DEF Passed, Stopped
    <3> QED BY <2>1, <3>1, <3>2 DEF Effect
  <2>6. CASE k # ip /\ ~ (k = key /\ keyAt = clock)
    <3>1. Table'[k] = Table[k]
      BY <2>3, <2>6
    <3>2. ~ Passed(new, k) /\ ~ Stopped(new, k)
      BY <1>1, <1>3, <2>6 DEF Passed, Stopped
    <3> QED BY <2>1, <3>1, <3>2 DEF Effect
  <2> QED BY <2>4, <2>5, <2>6
<1>7. RequestStep(r, new)
  BY <1>2, <1>3, <1>4, <1>5, <1>6 DEF RequestStep
<1> QED BY <1>7

\* A request goes on after what it awaited.  Either it is counted on its email or
\* token now, or at most a good password frees its email.
LEMMA MoveSteps ==
    ASSUME TypeOK, LimitInv, NEW r \in Req, req[r] # NULL, req[r].stage \in Waiting,
           NEW keyAt \in {req[r].keyAt, clock}, NEW stage \in {"open"} \cup (Answer \ {"429_ip"}),
           req' = [req EXCEPT ![r] = [req[r] EXCEPT !.stage = stage, !.keyAt = keyAt]],
           UNCHANGED <<door, clock, epoch>>, req[r].key \in Keys(door) \ Ip,
           \/ /\ keyAt = req[r].keyAt /\ stage # "429_key"
              /\ \/ Table' = Table
                 \/ door = "login" /\ Table' = Reset(Table, req[r].key)
           \/ /\ req[r].keyAt = NULL /\ keyAt = clock
              /\ stage = "429_key" => Limited(Table, req[r].key, clock)
              /\ door = "proxy" /\ stage # "429_key" => ~ Limited(Table, req[r].key, clock)
              /\ Table' = Hit(Table, req[r].key, clock)
    PROVE  \E new : RequestStep(r, new)
<1> DEFINE x == req[r]
           new == [x EXCEPT !.stage = stage, !.keyAt = keyAt]
<1>1. Table \in Maps(Keys(door)) /\ clock \in Nat
      /\ clock \in 0 .. clock /\ clock \in 0 .. MaxClock
      /\ (door = "proxy" => Strict(door) = Keys(door)) /\ (door = "login" => Strict(door) = Ip)
      /\ clock # NULL /\ door \in {"login", "proxy"}
  <2>1. clock \in 0 .. MaxClock /\ door \in {"login", "proxy"}
    BY DEF TypeOK
  <2> QED BY <2>1, TableIsMap, ConstantsAssumption
<1>2. x \in Request /\ Shaped(x, clock, epoch, door) /\ x.epoch = epoch
  BY DEF TypeOK, LimitInv, Shaped
<1>3. new \in Request /\ new # NULL
  <2>1. keyAt \in 0 .. MaxClock \cup {NULL} /\ stage \in Waiting \cup Answer
    BY <1>1, <1>2 DEF Request, Waiting
  <2>2. new \in Request
    BY <1>2, <2>1 DEF Request
  <2> QED BY <2>2, NullAssumption
<1>4. new.ip = x.ip /\ new.key = x.key /\ new.at = x.at /\ new.epoch = x.epoch
      /\ new.keyAt = keyAt /\ new.stage = stage
  BY <1>2 DEF Request
<1>5. x.stage # "429_ip" /\ x.stage # "429_key" /\ stage # "429_ip"
      /\ stage \notin {"verifying", "hashing", "body"}
  BY DEF Waiting, Answer
<1> HIDE DEF x, new
<1>6. Shaped(new, clock, epoch, door)
  BY <1>1, <1>2, <1>4, <1>5 DEF Shaped, x
<1>7. ASSUME NEW k \in Keys(door)
      PROVE  Effect(x, new, k, Table[k], Table'[k])
  <2>1. ~ Stopped(x, k) /\ x # NULL
    BY <1>5 DEF Stopped, x
  <2>2. CASE k \in Ip \/ k # x.key
    <3>1. Table'[k] = Table[k]
      <4>1. Table' = Table \/ Table' = Reset(Table, x.key) \/ Table' = Hit(Table, x.key, clock)
        BY DEF x
      <4>2. Hit(Table, x.key, clock)[k] = Table[k]
        <5>1. Hit(Table, x.key, clock) = [Table EXCEPT ![x.key] = Bumped(Table[x.key], clock)]
          <6>1. x.key \in Keys(door)
            BY DEF x
          <6> QED BY <1>1, <6>1, HitIs
        <5> QED BY <1>1, <2>2, <5>1 DEF Maps, x
      <4>3. Reset(Table, x.key)[k] = Table[k]
        BY <1>1, <2>2 DEF Reset, Maps, x
      <4> QED BY <4>1, <4>2, <4>3
    <3>2. (Passed(x, k) <=> Passed(new, k)) /\ ~ Stopped(new, k)
      BY <1>3, <1>4, <1>5, <2>1, <2>2 DEF Passed, Stopped, x
    <3>3. Passed(x, k) => When(new, k) = When(x, k)
      BY <1>4, <2>2 DEF Passed, When
    <3> QED BY <2>1, <3>1, <3>2, <3>3 DEF Effect
  <2>3. CASE /\ k \notin Ip /\ k = x.key /\ keyAt = x.keyAt /\ stage # "429_key"
             /\ \/ Table' = Table
                \/ door = "login" /\ Table' = Reset(Table, x.key)
    <3>1. Table'[k] = Table[k] \/ (k \notin Strict(door) /\ Table'[k] = NULL)
      BY <1>1, <2>3 DEF Reset, Maps
    <3>2. (Passed(x, k) <=> Passed(new, k)) /\ ~ Stopped(new, k) /\ When(new, k) = When(x, k)
      BY <1>3, <1>4, <1>5, <2>1, <2>3 DEF Passed, Stopped, When
    <3> QED BY <2>1, <3>1, <3>2 DEF Effect
  <2>4. CASE /\ k \notin Ip /\ k = x.key /\ x.keyAt = NULL /\ keyAt = clock
             /\ stage = "429_key" => Limited(Table, x.key, clock)
             /\ door = "proxy" /\ stage # "429_key" => ~ Limited(Table, x.key, clock)
             /\ Table' = Hit(Table, x.key, clock)
    <3>1. Table'[k] = Bumped(Table[k], clock) /\ (Limited(Table, k, clock) <=> Full(Table[k], clock))
      <4>1. /\ Hit(Table, k, clock) = [Table EXCEPT ![k] = Bumped(Table[k], clock)]
            /\ Limited(Table, k, clock) <=> Full(Table[k], clock)
        BY <1>1, HitIs
      <4> QED BY <1>1, <2>4, <4>1 DEF Maps
    <3>2. ~ Passed(x, k) /\ When(new, k) = clock
      BY <1>4, <2>4 DEF Passed, When
    <3>3. IF stage = "429_key" THEN Stopped(new, k) /\ Full(Table[k], clock)
                               ELSE Passed(new, k) /\ (k \in Strict(door) => ~ Full(Table[k], clock))
      BY <1>1, <1>3, <1>4, <2>4, <3>1 DEF Passed, Stopped
    <3> QED BY <2>1, <3>1, <3>2, <3>3 DEF Effect
  <2> QED BY <2>2, <2>3, <2>4 DEF x
<1>8. RequestStep(r, new)
  BY <1>2, <1>3, <1>4, <1>6, <1>7 DEF RequestStep, x, new
<1> QED BY <1>8

\* The limits hold at the start ..
LEMMA InitLimits ==
    ASSUME Init
    PROVE  LimitInv
<1>1. \A q \in Req : req[q] = NULL
  BY DEF Init
<1>2. Seen = {} /\ (\A e, k : Log(req, e, k) = {}) /\ \A k : \A q \in Req : ~ Stopped(req[q], k)
  BY <1>1 DEF Seen, Log, Passed, Stopped
<1>3. \A k \in Keys(door) : Table[k] = NULL
  BY DEF Init, Table, Keys
<1>4. \A k : Sparse({}, Times(req, k))
  <2>1. ASSUME NEW k, NEW t \in Nat
        PROVE  Cardinality(Between({}, Times(req, k), t, t + Window)) < 2 * Ceiling
    <3>1. Between({}, Times(req, k), t, t + Window) = {}
      BY DEF Between
    <3> QED BY <3>1, FS_EmptySet, RateLimitAssumption
  <2> QED BY <2>1 DEF Sparse
<1>5. \A k \in Keys(door) : KeyInv(k)
  BY <1>2, <1>3, FS_EmptySet DEF KeyInv, LogOK, Lower, Limit
<1>6. \A k \in Strict(door) : CeilingInv(k)
  <2>1. Strict(door) \subseteq Keys(door)
    BY DEF Strict, Keys, Init
  <2> QED BY <1>2, <1>3, <1>4, <2>1 DEF CeilingInv, Upper
<1> QED BY <1>1, <1>2, <1>5, <1>6, FS_EmptySet DEF LimitInv

\* .. are kept by the handlers of the login ..
LEMMA LoginSteps ==
    ASSUME IInv, LimitInv, NEW r \in Req, NEW ip \in Ip, NEW e \in Email,
           \/ \E owner \in BOOLEAN : Login(r, ip, e, owner)
           \/ Register(r, ip, e) \/ RegisterRefused(r, ip, e)
    PROVE  \E new : RequestStep(r, new)
<1>1. door = "login" /\ UNCHANGED <<door, clock, epoch>> /\ Table = login /\ Table' = login'
  BY DEF Login, Register, RegisterRefused, Arrives, Table
<1>2. TypeOK /\ clock # NULL
  BY ConstantsAssumption DEF IInv, TypeOK
<1>3. e \in Keys(door) \ Ip
  BY <1>1, ConstantsAssumption DEF Keys
<1>4. PICK owner \in BOOLEAN, keyAt \in {NULL, clock}, stage \in {"429_ip", "verifying", "hashing", "refused"} :
        /\ Arrives(r, "login", ip, e, owner, keyAt, stage)
        /\ stage = "429_ip" <=> Limited(login, ip, clock)
        /\ keyAt = clock => stage = "refused"
        /\ login' = IF keyAt = clock THEN Hit(Hit(login, ip, clock), e, clock) ELSE Hit(login, ip, clock)
  <2>1. CASE \E owner \in BOOLEAN : Login(r, ip, e, owner)
    BY <1>2, <2>1 DEF Login
  <2>2. CASE Register(r, ip, e)
    BY <1>2, <2>2 DEF Register
  <2>3. CASE RegisterRefused(r, ip, e)
    BY <1>2, <2>3 DEF RegisterRefused
  <2> QED BY <2>1, <2>2, <2>3
<1>5. stage \in Waiting \cup Answer /\ stage # "429_key" /\ stage # "body"
      /\ (stage \in {"verifying", "hashing"} => keyAt = NULL)
  BY <1>4 DEF Waiting, Answer
<1> QED BY <1>1, <1>2, <1>3, <1>4, <1>5, ArrivalSteps

\* .. and of the chain in front of the proxy ..
LEMMA ChainSteps ==
    ASSUME IInv, LimitInv, NEW r \in Req, NEW ip \in Ip, NEW k \in Token,
           Turnaway(r, ip, k) \/ ProxyCall(r, ip, k) \/ TokenCall(r, ip, k)
    PROVE  \E new : RequestStep(r, new)
<1>1. door = "proxy" /\ UNCHANGED <<door, clock, epoch>> /\ Table = proxy /\ Table' = proxy'
  BY DEF Turnaway, ProxyCall, TokenCall, Arrives, Table
<1>2. TypeOK /\ clock # NULL /\ proxy \in Maps(Ip \cup Token) /\ clock \in Nat
  BY ConstantsAssumption DEF IInv, TypeOK, Maps
<1>3. k \in Keys(door) \ Ip /\ k # ip
  BY <1>1, ConstantsAssumption DEF Keys
<1>4. PICK keyAt \in {NULL, clock}, stage \in {"429_ip", "body", "refused", "429_key", "ok", "open"} :
        /\ Arrives(r, "proxy", ip, k, FALSE, keyAt, stage)
        /\ stage = "429_ip" <=> Limited(proxy, ip, clock)
        /\ stage = "body" => keyAt = NULL
        /\ stage = "429_key" => keyAt = clock /\ Limited(proxy, k, clock)
        /\ keyAt = clock => stage # "429_ip"
        /\ keyAt = clock /\ stage # "429_key" => ~ Limited(proxy, k, clock)
        /\ proxy' = IF keyAt = clock THEN Hit(Hit(proxy, ip, clock), k, clock) ELSE Hit(proxy, ip, clock)
  <2>1. CASE Turnaway(r, ip, k)
    BY <1>2, <2>1 DEF Turnaway
  <2>2. CASE ProxyCall(r, ip, k)
    BY <1>2, <2>2 DEF ProxyCall
  <2>3. CASE TokenCall(r, ip, k)
    <3>1. PICK v \in {"refused", "429_key", "ok", "open"} :
            /\ Arrives(r, "proxy", ip, k, FALSE, CountedAt(k), v)
            /\ \E next \in {"ok", "open"} : v \in Verdicts(k, next)
      BY <2>3 DEF TokenCall, Verdicts
    <3>2. ~ Limited(proxy, ip, clock) /\ proxy' = Counted(Hit(proxy, ip, clock), k)
      BY <2>3 DEF TokenCall
    <3>3. CASE tokens[k] = "active"
      BY <1>2, <3>1, <3>2, <3>3 DEF Verdicts, CountedAt, Counted
    <3>4. CASE tokens[k] # "active"
      BY <1>2, <3>1, <3>2, <3>4 DEF Verdicts, CountedAt, Counted
    <3> QED BY <3>3, <3>4
  <2> QED BY <2>1, <2>2, <2>3
<1>5. stage \in Waiting \cup Answer /\ stage \notin {"verifying", "hashing"}
  BY <1>4 DEF Waiting, Answer
<1> QED BY <1>1, <1>2, <1>3, <1>4, <1>5, ArrivalSteps

\* .. by what goes on after an await ..
LEMMA LaterSteps ==
    ASSUME IInv, LimitInv, NEW r \in Req,
           Verified(r) \/ Hashed(r) \/ BodyRead(r) \/ Completes(r)
    PROVE  \E new : RequestStep(r, new)
<1> DEFINE x == req[r]
           Moved(stage, keyAt) == [x EXCEPT !.stage = stage, !.keyAt = keyAt]
           Goes(stage, keyAt) ==
              /\ req' = [req EXCEPT ![r] = Moved(stage, keyAt)]
              /\ \/ /\ keyAt = x.keyAt /\ stage # "429_key"
                    /\ \/ Table' = Table
                       \/ door = "login" /\ Table' = Reset(Table, x.key)
                 \/ /\ x.keyAt = NULL /\ keyAt = clock
                    /\ stage = "429_key" => Limited(Table, x.key, clock)
                    /\ door = "proxy" /\ stage # "429_key" => ~ Limited(Table, x.key, clock)
                    /\ Table' = Hit(Table, x.key, clock)
<1>1. /\ x # NULL /\ x.stage \in Waiting /\ x \in Request
      /\ UNCHANGED <<door, clock, epoch>>
      /\ Shaped(x, clock, epoch, door) /\ TypeOK
      /\ req \in [Req -> Request \cup {NULL}]
      /\ Table' = IF door = "login" THEN login' ELSE proxy'
  BY DEF Verified, Hashed, BodyRead, Completes, At, Waiting, LimitInv, IInv, TypeOK, Table
<1>2. x.key \in Keys(door) \ Ip
  BY <1>1, ConstantsAssumption DEF Shaped, Request
<1>3. \A stage : Becomes(r, stage) => req' = [req EXCEPT ![r] = Moved(stage, x.keyAt)]
  BY <1>1 DEF Becomes, Request
<1>4. \A stage : \A keyAt : req' = [req EXCEPT ![r].stage = stage, ![r].keyAt = keyAt]
                     => req' = [req EXCEPT ![r] = Moved(stage, keyAt)]
  BY <1>1
<1>5. PICK keyAt \in {x.keyAt, clock}, stage \in {"open"} \cup (Answer \ {"429_ip"}) :
          Goes(stage, keyAt)
  <2> SUFFICES \E keyAt \in {x.keyAt, clock}, stage \in {"open", "ok", "refused", "429_key"} :
                 Goes(stage, keyAt)
    BY DEF Answer
  <2>1. CASE Verified(r)
    <3>1. x.stage = "verifying" /\ x.keyAt = NULL /\ door = "login" /\ Table' = login' /\ Table = login
      BY <1>1, <2>1 DEF Verified, At, Shaped, Table
    <3>2. CASE x.owner /\ Becomes(r, "ok") /\ login' = Freed(r)
      <4>1. Goes("ok", x.keyAt)
        BY <1>3, <3>1, <3>2 DEF Freed
      <4> QED BY <4>1
    <3>3. CASE /\ BecomesCounted(r, IF Limited(login, x.key, clock) THEN "429_key" ELSE "refused")
               /\ login' = Hit(login, x.key, clock)
      <4> DEFINE stage == IF Limited(login, x.key, clock) THEN "429_key" ELSE "refused"
      <4>1. Goes(stage, clock)
        BY <1>4, <3>1, <3>3 DEF BecomesCounted
      <4>2. stage \in {"open", "ok", "refused", "429_key"}
        OBVIOUS
      <4> HIDE DEF stage, Goes
      <4> QED BY <4>1, <4>2
    <3> QED BY <2>1, <3>2, <3>3 DEF Verified
  <2>2. CASE Hashed(r)
    <3>1. Table' = Table
      BY <1>1, <2>2 DEF Hashed, Table
    <3>2. PICK answer \in {"ok", "refused"} : Becomes(r, answer)
      BY <2>2 DEF Hashed
    <3>3. Goes(answer, x.keyAt)
      BY <1>3, <3>1, <3>2
    <3> QED BY <3>3
  <2>3. CASE BodyRead(r)
    <3>1. x.stage = "body" /\ x.keyAt = NULL /\ door = "proxy" /\ Table' = proxy' /\ Table = proxy
      BY <1>1, <2>3 DEF BodyRead, At, Shaped, Table
    <3>2. PICK v \in Verdicts(x.key, "open") :
            req' = [req EXCEPT ![r].stage = v, ![r].keyAt = CountedAt(x.key)]
      BY <2>3 DEF BodyRead
    <3>3. req' = [req EXCEPT ![r] = Moved(v, CountedAt(x.key))] /\ proxy' = Counted(proxy, x.key)
      BY <1>4, <2>3, <3>2 DEF BodyRead
    <3>4. Goes(v, CountedAt(x.key))
      BY <3>1, <3>2, <3>3 DEF Verdicts, CountedAt, Counted
    <3>5. v \in {"open", "ok", "refused", "429_key"} /\ CountedAt(x.key) \in {x.keyAt, clock}
      BY <3>1, <3>2 DEF Verdicts, CountedAt
    <3> HIDE DEF Goes
    <3> QED BY <3>4, <3>5
  <2>4. CASE Completes(r)
    <3>1. Table' = Table /\ Becomes(r, "ok")
      BY <1>1, <2>4 DEF Completes, Table
    <3>2. Goes("ok", x.keyAt)
      BY <1>3, <3>1
    <3> QED BY <3>2
  <2> QED BY <2>1, <2>2, <2>3, <2>4
<1> QED BY <1>1, <1>2, <1>5, MoveSteps

\* .. by the time that passes ..
LEMMA TimeKeeps ==
    ASSUME IInv, LimitInv, UNCHANGED <<door, epoch, login, proxy, req>>,
           clock' \in Nat, clock <= clock'
    PROVE  LimitInv'
<1>1. clock \in Nat /\ Table' = Table /\ UNCHANGED <<door, epoch, req>>
  BY ConstantsAssumption DEF IInv, TypeOK, Table
<1>2. 0 .. clock \subseteq 0 .. clock'
  BY <1>1
<1>3. \A q \in Req : req'[q] # NULL => Shaped(req'[q], clock', epoch', door')
  BY <1>1, <1>2 DEF LimitInv, Shaped
<1>4. \A k \in Keys(door') : KeyInv(k)'
  BY <1>1, <1>2 DEF LimitInv, KeyInv, LogOK
<1>5. \A k \in Strict(door') : CeilingInv(k)'
  BY <1>1 DEF LimitInv, CeilingInv
<1>6. \A k \in Keys(door'), q \in Req : Stopped(req'[q], k) => HasCause(req', q, k)
  BY <1>1 DEF LimitInv
<1>7. IsFiniteSet(Seen')
  BY <1>1 DEF LimitInv, Seen
<1> QED BY <1>3, <1>4, <1>5, <1>6, <1>7 DEF LimitInv

\* .. and by a restart, which opens an empty log and an empty map.
LEMMA RestartKeepsLimits ==
    ASSUME IInv, LimitInv, Restart
    PROVE  LimitInv'
<1>1. /\ epoch \in Nat /\ clock \in Nat /\ epoch' = epoch + 1 /\ door' = door /\ clock' = clock
      /\ req \in [Req -> Request \cup {NULL}] /\ epoch \in 0 .. MaxRestarts
  BY ConstantsAssumption DEF Restart, IInv, TypeOK
<1>2. ASSUME NEW q \in Req
      PROVE  \/ req'[q] = req[q] /\ (req[q] # NULL => req[q].stage \notin Waiting)
             \/ /\ req[q] # NULL /\ req'[q] # NULL /\ req[q].stage \in Waiting /\ req'[q].stage = "lost"
                /\ req'[q].ip = req[q].ip /\ req'[q].key = req[q].key /\ req'[q].at = req[q].at
                /\ req'[q].keyAt = req[q].keyAt /\ req'[q].epoch = req[q].epoch
  <2>1. req'[q] = IF req[q] # NULL /\ req[q].stage \in Waiting
                  THEN [req[q] EXCEPT !.stage = "lost"] ELSE req[q]
    BY DEF Restart
  <2>2. CASE req[q] # NULL /\ req[q].stage \in Waiting
    <3>1. req[q] \in Request
      BY <1>1, <2>2
    <3>2. [req[q] EXCEPT !.stage = "lost"] \in Request
      BY <3>1 DEF Request, Answer
    <3> QED BY <2>1, <2>2, <3>1, <3>2, NullAssumption DEF Request
  <2> QED BY <2>1, <2>2
<1>3. ASSUME NEW q \in Req, NEW k
      PROVE  /\ Passed(req'[q], k) <=> Passed(req[q], k)
             /\ Stopped(req'[q], k) <=> Stopped(req[q], k)
             /\ req[q] # NULL => When(req'[q], k) = When(req[q], k) /\ req'[q].epoch = req[q].epoch
             /\ req'[q] # NULL <=> req[q] # NULL
  <2>1. \A x : x # NULL /\ x.stage \in Waiting => x.stage # "429_ip" /\ x.stage # "429_key"
    BY DEF Waiting
  <2> QED BY <1>2, <2>1 DEF Passed, Stopped, When
<1>4. ASSUME NEW e, NEW k
      PROVE  /\ Log(req', e, k) = Log(req, e, k)
             /\ \A q \in Log(req, e, k) : Times(req', k)[q] = Times(req, k)[q]
  BY <1>3 DEF Log, Times, Passed
<1>5. \A q \in Req : req'[q] # NULL => Shaped(req'[q], clock', epoch', door')
  <2>1. ASSUME NEW q \in Req, req'[q] # NULL
        PROVE  Shaped(req'[q], clock, epoch', door)
    <3>1. Shaped(req[q], clock, epoch, door) /\ req[q] # NULL
      BY <1>3, <2>1 DEF LimitInv
    <3>2. req[q].epoch \in 0 .. epoch'
      BY <1>1, <3>1 DEF Shaped
    <3>3. req'[q].stage \notin Waiting
      BY <1>2, <2>1 DEF Waiting
    <3>4. {"verifying", "hashing", "body"} \subseteq Waiting /\ "lost" # "429_key"
      BY DEF Waiting
    <3> QED BY <1>2, <3>1, <3>2, <3>3, <3>4 DEF Shaped
  <2> QED BY <1>1, <2>1
<1>6. \A k : Log(req', epoch', k) = {}
  <2>1. ASSUME NEW k, NEW q \in Log(req, epoch', k)
        PROVE  FALSE
    BY <1>1, <2>1 DEF Log, Passed, LimitInv, Shaped
  <2> QED BY <1>4, <2>1
<1>7. \A k \in Keys(door) : Table'[k] = NULL
  BY <1>1 DEF Restart, Table, Keys, IInv, TypeOK
<1>8. \A k \in Keys(door') : KeyInv(k)'
  BY <1>1, <1>6, <1>7, FS_EmptySet DEF KeyInv, LogOK, Lower, Limit
<1>9. \A k \in Strict(door') : CeilingInv(k)'
  <2>1. ASSUME NEW k \in Strict(door)
        PROVE  /\ Upper(Table'[k], Log(req', epoch', k), Times(req', k))
               /\ \A e \in 0 .. MaxRestarts : Sparse(Log(req', e, k), Times(req', k))
    <3>1. Upper(Table'[k], Log(req', epoch', k), Times(req', k))
      <4>1. k \in Keys(door)
        BY DEF Strict, Keys, IInv, TypeOK
      <4> QED BY <1>6, <1>7, <4>1 DEF Upper
    <3>2. ASSUME NEW e \in 0 .. MaxRestarts
          PROVE  Sparse(Log(req', e, k), Times(req', k))
      <4>1. Sparse(Log(req, e, k), Times(req, k))
        BY DEF LimitInv, CeilingInv
      <4> QED BY <1>4, <4>1, SameTimes
    <3> QED BY <3>1, <3>2
  <2> QED BY <1>1, <2>1 DEF CeilingInv
<1>10. \A k \in Keys(door'), q \in Req : Stopped(req'[q], k) => HasCause(req', q, k)
  <2>1. ASSUME NEW k \in Keys(door), NEW q \in Req, Stopped(req'[q], k)
        PROVE  HasCause(req', q, k)
    <3>1. Stopped(req[q], k) /\ HasCause(req, q, k) /\ req[q] # NULL
      BY <1>3, <2>1 DEF LimitInv, Stopped
    <3>2. When(req'[q], k) = When(req[q], k) /\ req'[q].epoch = req[q].epoch
      BY <1>3, <3>1
    <3>3. Causes(Log(req, req[q].epoch, k), Times(req', k), When(req[q], k))
            = Causes(Log(req, req[q].epoch, k), Times(req, k), When(req[q], k))
      BY <1>4, SameTimes
    <3> QED BY <1>4, <3>1, <3>2, <3>3 DEF HasCause
  <2> QED BY <1>1, <2>1
<1>11. IsFiniteSet(Seen')
  <2>1. Seen' = Seen
    BY <1>3 DEF Seen
  <2> QED BY <2>1 DEF LimitInv
<1> QED BY <1>5, <1>8, <1>9, <1>10, <1>11 DEF LimitInv

\* So they always hold.
LEMMA Limits == Spec => [](IInv /\ LimitInv)
<1>1. Init => IInv /\ LimitInv
  BY InitIInv, InitLimits
<1>2. IInv /\ LimitInv /\ [Next]_vars => (IInv /\ LimitInv)'
  <2> SUFFICES ASSUME IInv, LimitInv, [Next]_vars
               PROVE  LimitInv'
    BY NextIInv
  <2>1. TypeOK /\ clock \in Nat
    BY ConstantsAssumption DEF IInv, TypeOK
  <2>2. ASSUME NEW r \in Req, \E new : RequestStep(r, new)
        PROVE  LimitInv'
    BY <2>1, <2>2, RequestStepKeeps
  <2>3. CASE Tick \/ UNCHANGED vars \/ \E k \in Token : Issue(k) \/ Revoke(k)
    BY <2>1, <2>3, TimeKeeps DEF Tick, Issue, Revoke, vars
  <2>4. CASE Restart
    BY <2>4, RestartKeepsLimits
  <2>5. ASSUME NEW r \in Req, NEW ip \in Ip, NEW e \in Email,
               \/ \E owner \in BOOLEAN : Login(r, ip, e, owner)
               \/ Register(r, ip, e) \/ RegisterRefused(r, ip, e)
        PROVE  LimitInv'
    BY <2>2, <2>5, LoginSteps
  <2>6. ASSUME NEW r \in Req, NEW ip \in Ip, NEW k \in Token,
               Turnaway(r, ip, k) \/ ProxyCall(r, ip, k) \/ TokenCall(r, ip, k)
        PROVE  LimitInv'
    BY <2>2, <2>6, ChainSteps
  <2>7. ASSUME NEW r \in Req, Verified(r) \/ Hashed(r) \/ BodyRead(r) \/ Completes(r)
        PROVE  LimitInv'
    BY <2>2, <2>7, LaterSteps
  <2> QED BY <2>3, <2>4, <2>5, <2>6, <2>7 DEF Next
<1> QED BY <1>1, <1>2, PTL DEF Spec

---------------------------------------------------------------------------
(* The theorems. *)

\* The limiters' maps, the tokens and the requests in flight are well formed
\* (ratelimit.js, auth/routes.js, auth/tokens.js, proxy/middleware.js).
THEOREM TypeCorrect == Spec => []TypeOK
  BY Invariance, PTL DEF IInv

\* Once a token is revoked no request begins to act on it, however long it had
\* been waiting for its body (authN, findActiveByHash, DELETE
\* /auth/workspace-tokens/:id).
THEOREM RevokedTokenDrains == Spec => RevocationDrains
<1>1. IInv /\ [Next]_vars =>
        [\A k \in Token : tokens[k] = "revoked" =>
            tokens'[k] = "revoked" /\ InUse(k)' \subseteq InUse(k)]_vars
  <2> SUFFICES ASSUME IInv, Next, NEW k \in Token, tokens[k] = "revoked"
               PROVE  tokens'[k] = "revoked" /\ InUse(k)' \subseteq InUse(k)
    OBVIOUS
  <2>1. tokens'[k] = "revoked"
    BY TokensStep
  <2>2. InUse(k)' \subseteq InUse(k)
    BY StepAdmits DEF Admits
  <2> QED BY <2>1, <2>2
<1> QED BY <1>1, Invariance, PTL DEF Spec, RevocationDrains

\* No stretch of time as long as a window lets 2 * Ceiling requests of one address
\* past its limiter, nor of one token: the entry that Hit opens at the first
\* event of a window counts every one that follows, and a good login frees the
\* email but not the address (createLimiter, clientIp, tokenLimit).
THEOREM CeilingIsKept == Spec => []CeilingHolds
<1>1. IInv /\ LimitInv => CeilingHolds
  <2> SUFFICES ASSUME IInv, LimitInv, NEW r \in Seen, NEW t \in 0 .. MaxClock
               PROVE  /\ Cardinality({q \in SameIp(r) : /\ req[q].at \in t .. t + Window - 1
                                                        /\ req[q].stage # "429_ip"}) < 2 * Ceiling
                      /\ door = "proxy" =>
                         Cardinality({q \in SameKey(r) : /\ req[q].keyAt \in t .. t + Window - 1
                                                         /\ req[q].stage # "429_key"}) < 2 * Ceiling
    BY DEF CeilingHolds
  <2>1. /\ t \in Nat /\ Window \in Nat /\ req[r] \in Request /\ req[r].epoch \in 0 .. MaxRestarts
        /\ req[r].ip \in Ip /\ Shaped(req[r], clock, epoch, door)
    BY ConstantsAssumption, RateLimitAssumption DEF IInv, TypeOK, Seen, Request, LimitInv
  <2>2. \A q \in Seen : /\ q \in Req /\ req[q] # NULL /\ req[q].at \in Nat
                        /\ (req[q].keyAt # NULL => req[q].keyAt \in Nat)
    BY DEF LimitInv, Shaped, Seen
  <2>3. \A k \in Strict(door) : \A e \in 0 .. MaxRestarts :
            Cardinality(Between(Log(req, e, k), Times(req, k), t, t + Window)) < 2 * Ceiling
    BY <2>1 DEF LimitInv, CeilingInv, Sparse
  <2>4. ASSUME NEW n \in Nat
        PROVE  n \in t .. t + Window - 1 <=> t <= n /\ n < t + Window
    BY <2>1
  <2>5. {q \in SameIp(r) : req[q].at \in t .. t + Window - 1 /\ req[q].stage # "429_ip"}
          = Between(Log(req, req[r].epoch, req[r].ip), Times(req, req[r].ip), t, t + Window)
    BY <2>1, <2>2, <2>4 DEF SameIp, Between, Log, Times, Passed, When, Seen
  <2>6. ASSUME door = "proxy"
        PROVE  /\ req[r].key \in Strict(door)
               /\ {q \in SameKey(r) : req[q].keyAt \in t .. t + Window - 1 /\ req[q].stage # "429_key"}
                    = Between(Log(req, req[r].epoch, req[r].key), Times(req, req[r].key), t, t + Window)
    <3>1. req[r].key \in Strict(door) /\ req[r].key \notin Ip
      BY <2>1, <2>6, ConstantsAssumption DEF Shaped, Keys, Strict, Request
    <3> QED BY <2>1, <2>2, <2>4, <3>1 DEF SameKey, Between, Log, Times, Passed, When, Seen
  <2>7. req[r].ip \in Strict(door)
    BY <2>1 DEF Strict
  <2> QED BY <2>1, <2>3, <2>5, <2>6, <2>7
<1> QED BY <1>1, Limits, PTL

\* Behind every 429 there are as many requests let through on the same address,
\* email or token, within the window before it, as the ceiling (check of
\* createLimiter: the refused are counted too, but only after Ceiling others).
THEOREM RefusalIsCaused == Spec => []RefusalHasCause
<1>1. IInv /\ LimitInv => RefusalHasCause
  <2> SUFFICES ASSUME IInv, LimitInv, NEW r \in Seen
               PROVE  /\ req[r].stage = "429_ip" =>
                          Cardinality({q \in SameIp(r) : /\ req[q].at <= req[r].at
                                                         /\ req[r].at < req[q].at + Window
                                                         /\ req[q].stage # "429_ip"}) >= Ceiling
                      /\ req[r].stage = "429_key" =>
                          Cardinality({q \in SameKey(r) : /\ req[q].keyAt <= req[r].keyAt
                                                          /\ req[r].keyAt < req[q].keyAt + Window
                                                          /\ req[q].stage # "429_key"}) >= Ceiling
    BY DEF RefusalHasCause
  <2>1. /\ r \in Req /\ req[r] # NULL /\ req[r] \in Request /\ req[r].ip \in Ip
        /\ req[r].ip \in Keys(door) /\ req[r].key \in Keys(door)
        /\ req[r].key \notin Ip
    BY ConstantsAssumption DEF IInv, TypeOK, Seen, Request, LimitInv, Shaped, Keys
  <2>2. \A k \in Keys(door) : Stopped(req[r], k) => HasCause(req, r, k)
    BY <2>1 DEF LimitInv
  <2>3. ASSUME req[r].stage = "429_ip"
        PROVE  Cardinality({q \in SameIp(r) : /\ req[q].at <= req[r].at
                                              /\ req[r].at < req[q].at + Window
                                              /\ req[q].stage # "429_ip"}) >= Ceiling
    <3>1. HasCause(req, r, req[r].ip)
      BY <2>1, <2>2, <2>3 DEF Stopped
    <3>2. {q \in SameIp(r) : /\ req[q].at <= req[r].at /\ req[r].at < req[q].at + Window
                             /\ req[q].stage # "429_ip"}
            = Causes(Log(req, req[r].epoch, req[r].ip), Times(req, req[r].ip), When(req[r], req[r].ip))
      BY <2>1 DEF SameIp, Causes, Log, Times, Passed, When, Seen
    <3> QED BY <3>1, <3>2 DEF HasCause
  <2>4. ASSUME req[r].stage = "429_key"
        PROVE  Cardinality({q \in SameKey(r) : /\ req[q].keyAt <= req[r].keyAt
                                               /\ req[r].keyAt < req[q].keyAt + Window
                                               /\ req[q].stage # "429_key"}) >= Ceiling
    <3>1. HasCause(req, r, req[r].key)
      BY <2>1, <2>2, <2>4 DEF Stopped
    <3>2. {q \in SameKey(r) : /\ req[q].keyAt <= req[r].keyAt /\ req[r].keyAt < req[q].keyAt + Window
                              /\ req[q].stage # "429_key"}
            = Causes(Log(req, req[r].epoch, req[r].key), Times(req, req[r].key), When(req[r], req[r].key))
      BY <2>1 DEF SameKey, Causes, Log, Times, Passed, When, Seen
    <3> QED BY <3>1, <3>2 DEF HasCause
  <2> QED BY <2>3, <2>4
<1> QED BY <1>1, Limits, PTL
=============================================================================
