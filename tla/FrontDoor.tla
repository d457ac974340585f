----------------------------- MODULE FrontDoor -----------------------------
(***************************************************************************)
(* Everything a request meets before it reaches the vault: the two rate    *)
(* limiters (login and proxy), the password check, the workspace token and *)
(* its revocation.  POST /auth/login and /auth/register count the address, *)
(* then await a worker thread; /p/:provider counts the address, awaits the *)
(* body, and only then looks at the token; POST /proxy/invites looks at    *)
(* the token first and awaits the body after it.  The limiters live in the *)
(* memory of the process and are empty after a restart.                    *)
(*                                                                         *)
(* A request is one value of Req, used once, and keeps when it was         *)
(* admitted, so that what the ceilings let through can be counted.         *)
(***************************************************************************)
EXTENDS RateLimit, FiniteSets

CONSTANTS Ip, Email, Token, Req,
          MaxClock,    \* bound: instants
          MaxRestarts  \* bound: restarts of the process

ASSUME ConstantsAssumption ==
    /\ MaxClock \in Nat /\ MaxRestarts \in Nat
    /\ NULL \notin Nat
    /\ Ip \cap (Email \cup Token) = {}    \* the keys of the maps have prefixes

VARIABLES door,      \* bound: "login" or "proxy", which of the two limiters this
                     \* behaviour is about; they share no key and no request
          clock,
          epoch,     \* restarts so far
          login,     \* loginLimiter: ip or email -> entry
          proxy,     \* proxyLimiter: ip or token -> entry
          tokens,    \* token -> "unissued", "active" or "revoked"
          req        \* request -> what it is and where it stands, or NULL

vars == <<door, clock, epoch, login, proxy, tokens, req>>

Limit == [count: Nat, resetAt: Nat] \cup {NULL}

\* A request that waits for a worker thread, a body or the upstream.
Waiting == {"verifying", "hashing", "body", "open"}

\* The answers: what the handler said in the end, a refusal on the way that is no
\* 429, 429 of the address, 429 of the email or
\* the token, and the reset of the connection by a restart.
Answer == {"ok", "refused", "429_ip", "429_key", "lost"}

Request == [ip: Ip,
            key: Email \cup Token,          \* what is counted besides the address
            owner: BOOLEAN,                 \* a login with the right password
            at: 0 .. MaxClock,              \* when the address was counted
            keyAt: 0 .. MaxClock \cup {NULL},    \* when the key was counted
            epoch: 0 .. MaxRestarts,
            stage: Waiting \cup Answer]

\* NULL is none of the values it stands apart from.
ASSUME NullAssumption == NULL \notin [count: Nat, resetAt: Nat] \cup Request

TypeOK ==
    /\ door \in {"login", "proxy"}
    /\ clock \in 0 .. MaxClock
    /\ epoch \in 0 .. MaxRestarts
    /\ login \in [Ip \cup Email -> Limit]
    /\ proxy \in [Ip \cup Token -> Limit]
    /\ tokens \in [Token -> {"unissued", "active", "revoked"}]
    /\ req \in [Req -> Request \cup {NULL}]

Init ==
    /\ door \in {"login", "proxy"}
    /\ clock = 0
    /\ epoch = 0
    /\ login = [k \in Ip \cup Email |-> NULL]
    /\ proxy = [k \in Ip \cup Token |-> NULL]
    /\ tokens = [k \in Token |-> "unissued"]
    /\ req = [r \in Req |-> NULL]

Tick ==
    /\ clock < MaxClock
    /\ clock' = clock + 1
    /\ UNCHANGED <<door, epoch, login, proxy, tokens, req>>

At(r, stage) == req[r] # NULL /\ req[r].stage = stage

Seen == {r \in Req : req[r] # NULL}

Arrives(r, which, ip, key, owner, keyAt, stage) ==
    /\ req[r] = NULL
    /\ door = which
    /\ req' = [req EXCEPT ![r] =
            [ip |-> ip, key |-> key, owner |-> owner, at |-> clock,
             keyAt |-> keyAt, epoch |-> epoch, stage |-> stage]]

Becomes(r, stage) == req' = [req EXCEPT ![r].stage = stage]

BecomesCounted(r, stage) ==
    req' = [req EXCEPT ![r].stage = stage, ![r].keyAt = clock]

---------------------------------------------------------------------------
(* Login and registration (auth/routes.js). *)

Login(r, ip, e, owner) ==
    /\ Arrives(r, "login", ip, e, owner, NULL,
               IF Limited(login, ip, clock) THEN "429_ip" ELSE "verifying")
    /\ login' = Hit(login, ip, clock)
    /\ UNCHANGED <<door, clock, epoch, proxy, tokens>>

\* Mutant of Freed: a good login frees the address too.
FreedWithIp(r) == Reset(Reset(login, req[r].key), req[r].ip)

Freed(r) == Reset(login, req[r].key)

\* The worker thread has compared the hash: only failures count on the email.
Verified(r) ==
    /\ At(r, "verifying")
    /\ \/ /\ req[r].owner
          /\ Becomes(r, "ok")
          /\ login' = Freed(r)
       \/ /\ ~ req[r].owner
          /\ BecomesCounted(r, IF Limited(login, req[r].key, clock) THEN "429_key" ELSE "refused")
          /\ login' = Hit(login, req[r].key, clock)
    /\ UNCHANGED <<door, clock, epoch, proxy, tokens>>

\* Refused by the address; by an invite that is bad or of somebody else, which
\* counts on the email; or for a known email or an invite just spent.
RegisterRefused(r, ip, e) ==
    /\ \/ /\ Limited(login, ip, clock)
          /\ Arrives(r, "login", ip, e, FALSE, NULL, "429_ip")
          /\ login' = Hit(login, ip, clock)
       \/ /\ ~ Limited(login, ip, clock)
          /\ Arrives(r, "login", ip, e, FALSE, clock, "refused")
          /\ login' = Hit(Hit(login, ip, clock), e, clock)
       \/ /\ ~ Limited(login, ip, clock)
          /\ Arrives(r, "login", ip, e, FALSE, NULL, "refused")
          /\ login' = Hit(login, ip, clock)
    /\ UNCHANGED <<door, clock, epoch, proxy, tokens>>

Register(r, ip, e) ==
    /\ ~ Limited(login, ip, clock)
    /\ Arrives(r, "login", ip, e, FALSE, NULL, "hashing")
    /\ login' = Hit(login, ip, clock)
    /\ UNCHANGED <<door, clock, epoch, proxy, tokens>>

\* The UNIQUE email may have been taken meanwhile.
Hashed(r) ==
    /\ At(r, "hashing")
    /\ \E answer \in {"ok", "refused"} : Becomes(r, answer)
    /\ UNCHANGED <<door, clock, epoch, login, proxy, tokens>>

---------------------------------------------------------------------------
(* Workspace tokens (auth/tokens.js, store.js). *)

Issue(k) ==
    /\ door = "proxy"
    /\ tokens[k] = "unissued"
    /\ tokens' = [tokens EXCEPT ![k] = "active"]
    /\ UNCHANGED <<door, clock, epoch, login, proxy, req>>

Revoke(k) ==
    /\ tokens[k] = "active"
    /\ tokens' = [tokens EXCEPT ![k] = "revoked"]
    /\ UNCHANGED <<door, clock, epoch, login, proxy, req>>

---------------------------------------------------------------------------
(* The chain in front of the proxy (proxy/router.js, proxy/middleware.js). *)

\* authN, then tokenLimit, then the rest of the chain up to its next await: the
\* scopes, the connection or the body may still be refused.
Verdicts(k, next) ==
    IF tokens[k] # "active" THEN {"refused"}
    ELSE IF Limited(proxy, k, clock) THEN {"429_key"} ELSE {next, "refused"}

CountedAt(k) == IF tokens[k] = "active" THEN clock ELSE NULL

Counted(t, k) == IF tokens[k] = "active" THEN Hit(t, k, clock) ELSE t

\* ipLimit refuses.
Turnaway(r, ip, k) ==
    /\ Limited(proxy, ip, clock)
    /\ Arrives(r, "proxy", ip, k, FALSE, NULL, "429_ip")
    /\ proxy' = Hit(proxy, ip, clock)
    /\ UNCHANGED <<door, clock, epoch, login, tokens>>

\* ALL /p/:provider: the body is read between ipLimit and authN.
ProxyCall(r, ip, k) ==
    /\ ~ Limited(proxy, ip, clock)
    /\ Arrives(r, "proxy", ip, k, FALSE, NULL, "body")
    /\ proxy' = Hit(proxy, ip, clock)
    /\ UNCHANGED <<door, clock, epoch, login, tokens>>

\* Mutant of BodyRead: authN ran before the body was read.
BodyReadUnchecked(r) ==
    /\ At(r, "body")
    /\ proxy' = Hit(proxy, req[r].key, clock)
    /\ BecomesCounted(r, "open")
    /\ UNCHANGED <<door, clock, epoch, login, tokens>>

BodyRead(r) ==
    /\ At(r, "body")
    /\ proxy' = Counted(proxy, req[r].key)
    /\ \E v \in Verdicts(req[r].key, "open") :
        req' = [req EXCEPT ![r].stage = v, ![r].keyAt = CountedAt(req[r].key)]
    /\ UNCHANGED <<door, clock, epoch, login, tokens>>

\* The calls without that body: the two GET lists are answered at once, a media
\* download awaits the provider, an invite its JSON body.
TokenCall(r, ip, k) ==
    /\ ~ Limited(proxy, ip, clock)
    /\ \E next \in {"ok", "open"} : \E v \in Verdicts(k, next) :
        Arrives(r, "proxy", ip, k, FALSE, CountedAt(k), v)
    /\ proxy' = Counted(Hit(proxy, ip, clock), k)
    /\ UNCHANGED <<door, clock, epoch, login, tokens>>

\* fresh, forward and the download (see ProxyRefresh), or the minting of an
\* invite (see Registration), for which nothing here is checked again.
Completes(r) ==
    /\ At(r, "open")
    /\ Becomes(r, "ok")
    /\ UNCHANGED <<door, clock, epoch, login, proxy, tokens>>

\* A new process: empty maps, and the requests in flight are gone.
Restart ==
    /\ epoch < MaxRestarts
    /\ epoch' = epoch + 1
    /\ login' = [k \in Ip \cup Email |-> NULL]
    /\ proxy' = [k \in Ip \cup Token |-> NULL]
    /\ req' = [r \in Req |->
            IF req[r] # NULL /\ req[r].stage \in Waiting
            THEN [req[r] EXCEPT !.stage = "lost"] ELSE req[r]]
    /\ UNCHANGED <<door, clock, tokens>>

Next ==
    \/ Tick \/ Restart
    \/ \E k \in Token : Issue(k) \/ Revoke(k)
    \/ \E r \in Req, ip \in Ip, e \in Email :
        \/ \E owner \in BOOLEAN : Login(r, ip, e, owner)
        \/ Register(r, ip, e) \/ RegisterRefused(r, ip, e)
    \/ \E r \in Req, ip \in Ip, k \in Token :
        Turnaway(r, ip, k) \/ ProxyCall(r, ip, k) \/ TokenCall(r, ip, k)
    \/ \E r \in Req : Verified(r) \/ Hashed(r) \/ BodyRead(r) \/ Completes(r)

Spec == Init /\ [][Next]_vars

---------------------------------------------------------------------------
(* Properties. *)

\* The requests of one process that share the address, or the key, of r.
SameIp(r) ==
    {q \in Seen : req[q].epoch = req[r].epoch /\ req[q].ip = req[r].ip}

SameKey(r) ==
    {q \in Seen : req[q].epoch = req[r].epoch /\ req[q].key = req[r].key
                    /\ req[q].keyAt # NULL}

\* No stretch of time as long as a window lets more than 2 * Ceiling - 1 requests
\* of an address past its limiter, nor of a token: two adjacent windows are the
\* worst case, and a good login does not reopen the one of its address.  (The
\* ceiling of an email bounds nothing: it turns a 401 into a 429.)
CeilingHolds ==
    \A r \in Seen : \A t \in 0 .. MaxClock :
        /\ Cardinality({q \in SameIp(r) : /\ req[q].at \in t .. t + Window - 1
                                          /\ req[q].stage # "429_ip"}) < 2 * Ceiling
        /\ door = "proxy" =>
           Cardinality({q \in SameKey(r) : /\ req[q].keyAt \in t .. t + Window - 1
                                           /\ req[q].stage # "429_key"}) < 2 * Ceiling

\* Nobody is refused without cause: behind every 429 there are as many counted
\* requests on the same address, email or token within the last window.
RefusalHasCause ==
    \A r \in Seen :
        /\ req[r].stage = "429_ip" =>
            Cardinality({q \in SameIp(r) : /\ req[q].at <= req[r].at
                                           /\ req[r].at < req[q].at + Window
                                           /\ req[q].stage # "429_ip"}) >= Ceiling
        /\ req[r].stage = "429_key" =>
            Cardinality({q \in SameKey(r) : /\ req[q].keyAt <= req[r].keyAt
                                            /\ req[r].keyAt < req[q].keyAt + Window
                                            /\ req[q].stage # "429_key"}) >= Ceiling

InUse(k) == {r \in Seen : req[r].key = k /\ req[r].stage = "open"}

\* Once a token is revoked no request begins to act on it, whenever it arrived
\* and however long its body took; those that act already come to an end.
RevocationDrains ==
    [][\A k \in Token : tokens[k] = "revoked" =>
        tokens'[k] = "revoked" /\ InUse(k)' \subseteq InUse(k)]_vars
=============================================================================
