---------------------------- MODULE ProxyRefresh ----------------------------
(***************************************************************************)
(* Agent requests through /p/:provider: resolve picks a connection, fresh  *)
(* refreshes a token that is about to expire, forward sends the call and   *)
(* refreshes and retries once on an upstream 401, the media route fetches  *)
(* twice with one token.  Requests share the inflight map of               *)
(* refreshConnection, and run against deletions and reconnections of the   *)
(* same connection and against restarts of the process.                    *)
(*                                                                         *)
(* Between two awaits a handler runs alone, so each action below is the    *)
(* code from one await to the next.  When the promise of a refresh settles *)
(* all its waiters resume in the same drain of the microtask queue, hence  *)
(* in the same step.                                                       *)
(*                                                                         *)
(* Tokens are the numbers of the provider's issues: a later issue is a     *)
(* larger number.  One user and one provider: the other users and          *)
(* providers have rows, and inflight entries, of their own.                *)
(***************************************************************************)
EXTENDS ConnectionStore, Sequences, FiniteSets

CONSTANTS Req,            \* requests
          Account,        \* accounts of the user at the provider
          Kinds,          \* how the provider treats refresh tokens
          MaxRows,        \* bound: rows ever inserted
          MaxIssues,      \* bound: tokens the provider issues
          Disturbances,   \* what may happen besides, each at most once
          MaxHappened,    \* bound: disturbances in a behaviour
          MaxDisturbed    \* bound: requests in a behaviour with a disturbance,
                          \* which also sees one issue less

\* "rotating": a refresh token works once and the answer brings the next;
\* "detecting": so it does, and a spent one presented again ends the grant;
\* "fixed": it keeps working and the answer brings none;
\* "self": the access token itself is presented and renewed (self_refresh).
ASSUME ConstantsAssumption ==
    /\ Kinds \subseteq {"rotating", "detecting", "fixed", "self"}
    /\ MaxRows \in Nat \ {0}
    /\ {MaxIssues, MaxHappened, MaxDisturbed} \subseteq Nat
    /\ Disturbances \subseteq {"delete", "reconnect", "fault", "crash"}

VARIABLES
    conns,     \* the connections table
    nextId,    \* the next row id
    inflight,  \* row id -> the request that started the refresh, or NULL
    call,      \* request -> the refresh call it started, or NULL
    pc,        \* request -> where it stands
    route,     \* request -> "forward" or "media"
    snap,      \* request -> req.zkeys.connection: [id, access, refresh], or NULL
    on,        \* request -> the request whose refresh it awaits, or NULL
    sent,      \* request -> the access tokens it sent upstream, in order
    answer,    \* request -> the answer to the agent, or NULL
    exchanged, \* the token of a callback that has yet to save it, or NULL
    deleting,  \* id of the row a DELETE handler is revoking, or NULL
    kind,      \* the provider's treatment of refresh tokens
    issued,    \* number of tokens the provider has issued
    usable,    \* refresh tokens the provider still accepts
    presented, \* refresh tokens presented after the provider stopped accepting
    happened   \* the disturbances so far

request == <<pc, route, snap, on, sent, answer>>
provider == <<kind, issued, usable, presented>>
vars == <<conns, nextId, inflight, call, request, exchanged, deleting, provider, happened>>

Id == 1 .. MaxRows
Issue == 1 .. MaxIssues
Answers == {"ok", "401", "torn401", "404", "500", "502", "reset"}

Init ==
    /\ conns = [i \in Id |-> NULL]
    /\ nextId = 1
    /\ inflight = [i \in Id |-> NULL]
    /\ call = [q \in Req |-> NULL]
    /\ pc = [q \in Req |-> "idle"]
    /\ route \in [Req -> {"forward", "media"}]
    /\ snap = [q \in Req |-> NULL]
    /\ on = [q \in Req |-> NULL]
    /\ sent = [q \in Req |-> <<>>]
    /\ answer = [q \in Req |-> NULL]
    /\ exchanged = NULL
    /\ deleting = NULL
    /\ kind \in Kinds
    /\ issued = 0
    /\ usable = {}
    /\ presented = {}
    /\ happened = {}

Arrived == {q \in Req : pc[q] # "idle"}

\* The bounds: with a disturbance fewer requests and one issue less.
RoomForOne == happened = {} \/ Cardinality(Arrived) < MaxDisturbed

MayIssue == issued < IF happened = {} THEN MaxIssues ELSE MaxIssues - 1

Disturb(d) ==
    /\ d \in Disturbances \ happened
    /\ Cardinality(happened) < MaxHappened
    /\ Cardinality(Arrived) <= MaxDisturbed
    /\ happened' = happened \cup {d}

\* What resolve and findById hand over of a row.
Snapshot(t, i) ==
    IF t[i] = NULL THEN NULL
    ELSE [id |-> i, access |-> t[i].access, refresh |-> t[i].refresh]

---------------------------------------------------------------------------
(* The vault: the callback's upsertOne, and DELETE /connections/:id. *)

NewRow(code, expires) ==
    [user |-> "u", provider |-> "p", account |-> code.account, alias |-> NULL,
     access |-> code.access, refresh |-> code.refresh, dek |-> "k",
     expires |-> expires, created |-> nextId]

\* The callback exchanges its code: the provider issues a token.  A self-refreshing
\* one always comes with itself as the refresh token.  One callback at a time.
StartConnect(a) ==
    /\ exchanged = NULL
    /\ MayIssue
    /\ IF FindByAccount(conns, "u", "p", a) = {} THEN UNCHANGED happened
                                                 ELSE Disturb("reconnect")
    /\ \E refresh \in IF kind = "self" THEN {issued + 1} ELSE {issued + 1, NULL} :
        /\ exchanged' = [account |-> a, access |-> issued + 1, refresh |-> refresh]
        /\ usable' = usable \cup ({refresh} \ {NULL})
    /\ issued' = issued + 1
    /\ UNCHANGED <<conns, nextId, inflight, call, request, deleting, kind, presented>>

\* .. and, the profile and the accounts once fetched, upsertOne saves the row.
FinishConnect ==
    /\ exchanged # NULL
    /\ \E expires \in {"valid", NULL} :
        LET new == NewRow(exchanged, expires)
            i == UpsertId(conns, nextId, new)
        IN  /\ i \in Id
            /\ conns' = Upsert(conns, nextId, new)
            /\ nextId' = IF i = nextId THEN nextId + 1 ELSE nextId
    /\ exchanged' = NULL
    /\ UNCHANGED <<inflight, call, request, deleting, provider, happened>>

\* The clock comes within REFRESH_SKEW_MS of expires_at.
FallDue(i) ==
    /\ conns[i] # NULL
    /\ conns[i].expires = "valid"
    /\ conns' = [conns EXCEPT ![i].expires = "due"]
    /\ UNCHANGED <<nextId, inflight, call, request, exchanged, deleting, provider, happened>>

\* The handler reads the row and calls the provider's revoke endpoint ..
StartDelete(i) ==
    /\ deleting = NULL
    /\ conns[i] # NULL
    /\ Disturb("delete")
    /\ deleting' = i
    /\ UNCHANGED <<conns, nextId, inflight, call, request, exchanged, provider>>

\* .. and, whether it revoked the grant or not, removes the row.
FinishDelete ==
    /\ deleting # NULL
    /\ conns' = Remove(conns, deleting)
    /\ deleting' = NULL
    /\ usable' \in {usable, {}}
    /\ UNCHANGED <<nextId, inflight, call, request, exchanged, kind, issued, presented, happened>>

---------------------------------------------------------------------------
(* refreshConnection: join the refresh in flight or start one. *)

\* Mutant of Refresh: every caller starts a refresh of its own.
RefreshAlone(q, s) ==
    /\ on' = [on EXCEPT ![q] = q]
    /\ inflight' = [inflight EXCEPT ![s.id] = q]
    /\ call' = [call EXCEPT ![q] =
            [id |-> s.id, refresh |-> s.refresh, state |-> "asked", new |-> NULL]]

Refresh(q, s) ==
    IF inflight[s.id] # NULL
    THEN /\ on' = [on EXCEPT ![q] = inflight[s.id]]
         /\ UNCHANGED <<inflight, call>>
    ELSE /\ on' = [on EXCEPT ![q] = q]
         /\ inflight' = [inflight EXCEPT ![s.id] = q]
         /\ call' = [call EXCEPT ![q] =
                [id |-> s.id, refresh |-> s.refresh, state |-> "asked", new |-> NULL]]

Rotates == kind \in {"rotating", "detecting"}

\* The provider's token endpoint receives the call of request q.
Accepted(q) ==
    /\ call[q].refresh \in usable
    /\ MayIssue
    /\ LET n == issued + 1
           next == IF kind = "fixed" THEN NULL ELSE n
       IN  /\ issued' = n
           /\ usable' = (IF Rotates THEN usable \ {call[q].refresh} ELSE usable)
                            \cup ({next} \ {NULL})
           /\ \E e \in {"valid", NULL} :
                call' = [call EXCEPT ![q].state = "answered",
                            ![q].new = [access |-> n, refresh |-> next,
                                        dek |-> NULL, expires |-> e]]
    /\ UNCHANGED presented

\* A refresh token no longer accepted, or (at the bound) any other error.
Refused(q) ==
    /\ call[q].refresh \notin usable \/ ~ MayIssue
    /\ presented' = presented \cup ({call[q].refresh} \ usable)
    /\ usable' = IF kind = "detecting" /\ call[q].refresh \notin usable THEN {} ELSE usable
    /\ call' = [call EXCEPT ![q].state = "failed"]
    /\ UNCHANGED issued

ProviderHandles(q) ==
    /\ call[q] # NULL
    /\ call[q].state = "asked"
    /\ Accepted(q) \/ Refused(q)
    /\ UNCHANGED <<conns, nextId, inflight, request, exchanged, deleting, kind, happened>>

\* The call never arrives, or its answer is lost.
NetworkFault(q) ==
    /\ call[q] # NULL
    /\ call[q].state \in {"asked", "answered"}
    /\ on[q] = q
    /\ Disturb("fault")
    /\ call' = [call EXCEPT ![q].state = "failed"]
    /\ UNCHANGED <<conns, nextId, inflight, request, exchanged, deleting, provider>>

---------------------------------------------------------------------------
(* A request. *)

\* attempt(connection) by forward or media: a null connection throws.  The provider
\* is configured: the 404 and 502 of one without api_base_url, or with an unknown
\* injection or signature, come before and touch nothing.
Send(q, s) ==
    IF s = NULL
    THEN /\ pc' = [pc EXCEPT ![q] = "done"]
         /\ answer' = [answer EXCEPT ![q] = IF route[q] = "media" THEN "500" ELSE "502"]
         /\ UNCHANGED sent
    ELSE /\ pc' = [pc EXCEPT ![q] = "first"]
         /\ sent' = [sent EXCEPT ![q] = Append(@, s.access)]
         /\ UNCHANGED answer

Answer(q, a) ==
    /\ pc' = [pc EXCEPT ![q] = "done"]
    /\ answer' = [answer EXCEPT ![q] = a]

\* authN .. resolve run in one tick: the default connection, or any by alias.
NotConnected(q) ==
    /\ pc[q] = "idle"
    /\ RoomForOne
    /\ Answer(q, "404")
    /\ UNCHANGED <<conns, nextId, inflight, call, route, snap, on, sent, exchanged, deleting,
                   provider, happened>>

NeedsRefresh(i) == conns[i].expires # "valid" /\ conns[i].refresh # NULL

Arrive(q, i) ==
    /\ pc[q] = "idle"
    /\ RoomForOne
    /\ conns[i] # NULL
    /\ snap' = [snap EXCEPT ![q] = Snapshot(conns, i)]
    /\ IF NeedsRefresh(i)
       THEN /\ Refresh(q, Snapshot(conns, i))
            /\ pc' = [pc EXCEPT ![q] = "fresh"]
            /\ UNCHANGED <<sent, answer>>
       ELSE /\ Send(q, Snapshot(conns, i))
            /\ UNCHANGED <<on, inflight, call>>
    /\ UNCHANGED <<conns, nextId, route, exchanged, deleting, provider, happened>>

\* The refresh that q started settles: updateTokens, findById, inflight.delete,
\* and every waiter resumes.
\* Mutant of Waiters: only the request that started the refresh is resumed.
StarterOnly(q) == {w \in Req : w = q /\ on[w] = q}

Waiters(q) == {w \in Req : on[w] = q}

\* What a retry that cannot refresh passes on: the 401 it holds, unread; and, as
\* a mutant, one whose body it cancelled before it tried.
CancelledResponse == "torn401"

FirstResponse == "401"

Resume(q, result, ok) ==
    LET fresh == {w \in Waiters(q) : pc[w] = "fresh"}
        retry == {w \in Waiters(q) : pc[w] = "retry"}
        conn(w) == IF ok THEN result ELSE snap[w]
    IN  /\ on' = [w \in Req |-> IF w \in Waiters(q) THEN NULL ELSE on[w]]
        /\ snap' = [w \in Req |-> IF w \in Waiters(q) THEN conn(w) ELSE snap[w]]
        /\ pc' = [w \in Req |->
              CASE w \in fresh -> IF conn(w) = NULL THEN "done" ELSE "first"
                [] w \in retry -> IF ok THEN "cancel" ELSE "done"
                [] OTHER -> pc[w]]
        /\ sent' = [w \in Req |->
              IF w \in fresh /\ conn(w) # NULL THEN Append(sent[w], conn(w).access)
                                               ELSE sent[w]]
        /\ answer' = [w \in Req |->
              CASE w \in fresh /\ conn(w) = NULL ->
                        IF route[w] = "media" THEN "500" ELSE "502"
                [] w \in retry /\ ~ ok -> FirstResponse
                [] OTHER -> answer[w]]

\* Mutants of Settle: the entry leaves the map only on success; the row is read
\* before it is updated.
SettleOnSuccessOnly(q) ==
    /\ on[q] = q
    /\ call[q].state \in {"answered", "failed"}
    /\ LET i == call[q].id
           ok == call[q].state = "answered"
       IN  /\ conns' = IF ok THEN UpdateTokens(conns, i, call[q].new) ELSE conns
           /\ inflight' = IF ok THEN [inflight EXCEPT ![i] = NULL] ELSE inflight
           /\ Resume(q, Snapshot(conns', i), ok)
    /\ call' = [call EXCEPT ![q] = NULL]
    /\ UNCHANGED <<nextId, route, exchanged, deleting, provider, happened>>

SettleWithOldRow(q) ==
    /\ on[q] = q
    /\ call[q].state \in {"answered", "failed"}
    /\ LET i == call[q].id
           ok == call[q].state = "answered"
       IN  /\ conns' = IF ok THEN UpdateTokens(conns, i, call[q].new) ELSE conns
           /\ inflight' = [inflight EXCEPT ![i] = NULL]
           /\ Resume(q, Snapshot(conns, i), ok)
    /\ call' = [call EXCEPT ![q] = NULL]
    /\ UNCHANGED <<nextId, route, exchanged, deleting, provider, happened>>

Settle(q) ==
    /\ on[q] = q
    /\ call[q].state \in {"answered", "failed"}
    /\ LET i == call[q].id
           ok == call[q].state = "answered"
       IN  /\ conns' = IF ok THEN UpdateTokens(conns, i, call[q].new) ELSE conns
           /\ inflight' = [inflight EXCEPT ![i] = NULL]
           /\ Resume(q, Snapshot(conns', i), ok)
    /\ call' = [call EXCEPT ![q] = NULL]
    /\ UNCHANGED <<nextId, route, exchanged, deleting, provider, happened>>

\* The upstream answers the first attempt of forward.
FirstAnswer(q) ==
    /\ pc[q] = "first"
    /\ route[q] = "forward"
    /\ \/ /\ \E a \in {"ok", "502"} : Answer(q, a)
          /\ UNCHANGED <<inflight, call, on>>
       \/ /\ snap[q].refresh = NULL
          /\ Answer(q, "401")
          /\ UNCHANGED <<inflight, call, on>>
       \/ /\ snap[q].refresh # NULL
          /\ pc' = [pc EXCEPT ![q] = "retry"]
          /\ Refresh(q, snap[q])
          /\ UNCHANGED answer
    /\ UNCHANGED <<conns, nextId, route, snap, sent, exchanged, deleting,
                   provider, happened>>

\* After upstream.body.cancel(): the second attempt.  If it cannot be made the
\* first answer is passed on, its body gone.
Retry(q) ==
    /\ pc[q] = "cancel"
    /\ IF snap[q] = NULL
       THEN Answer(q, "torn401") /\ UNCHANGED sent
       ELSE /\ pc' = [pc EXCEPT ![q] = "second"]
            /\ sent' = [sent EXCEPT ![q] = Append(@, snap[q].access)]
            /\ UNCHANGED answer
    /\ UNCHANGED <<conns, nextId, inflight, call, route, snap, on, exchanged, deleting,
                   provider, happened>>

\* Mutant of SecondAnswer: a second 401 refreshes and retries again.
SecondAnswerRetries(q) ==
    /\ pc[q] = "second"
    /\ \/ Answer(q, "ok") /\ UNCHANGED <<inflight, call, on>>
       \/ /\ snap[q].refresh # NULL
          /\ pc' = [pc EXCEPT ![q] = "retry"]
          /\ Refresh(q, snap[q])
          /\ UNCHANGED answer
    /\ UNCHANGED <<conns, nextId, route, snap, sent, exchanged, deleting,
                   provider, happened>>

SecondAnswer(q) ==
    /\ pc[q] = "second"
    /\ \E a \in IF route[q] = "forward" THEN {"ok", "401", "torn401"}
                                        ELSE {"ok", "401", "502"} : Answer(q, a)
    /\ UNCHANGED <<conns, nextId, inflight, call, route, snap, on, sent, exchanged, deleting,
                   provider, happened>>

\* The media route: metadata first, then the binary with the same token.  What it
\* answers without a fetch, for want of configuration, is left out like forward's.
Metadata(q) ==
    /\ pc[q] = "first"
    /\ route[q] = "media"
    /\ \/ /\ \E a \in {"401", "502"} : Answer(q, a)
          /\ UNCHANGED sent
       \/ /\ pc' = [pc EXCEPT ![q] = "second"]
          /\ sent' = [sent EXCEPT ![q] = Append(@, snap[q].access)]
          /\ UNCHANGED answer
    /\ UNCHANGED <<conns, nextId, inflight, call, route, snap, on, exchanged, deleting,
                   provider, happened>>

---------------------------------------------------------------------------
\* The process stops and starts again: the table stays, requests and the
\* inflight map go; a call already sent may still reach the provider.
Crash ==
    /\ Disturb("crash")
    /\ inflight' = [i \in Id |-> NULL]
    /\ on' = [q \in Req |-> NULL]
    /\ exchanged' = NULL
    /\ deleting' = NULL
    /\ pc' = [q \in Req |-> IF pc[q] = "idle" THEN "idle" ELSE "done"]
    /\ answer' = [q \in Req |-> IF pc[q] \in {"idle", "done"} THEN answer[q] ELSE "reset"]
    /\ usable' \in IF deleting = NULL THEN {usable} ELSE {usable, {}}
    /\ UNCHANGED <<conns, nextId, call, route, snap, sent, kind, issued, presented>>

RequestStep(q) ==
    \/ Settle(q) \/ FirstAnswer(q) \/ Retry(q) \/ SecondAnswer(q) \/ Metadata(q)

Next ==
    \/ \E a \in Account : StartConnect(a)
    \/ FinishConnect
    \/ \E i \in Id : FallDue(i) \/ StartDelete(i)
    \/ FinishDelete
    \/ \E q \in Req : \/ NotConnected(q) \/ \E i \in Id : Arrive(q, i)
                      \/ ProviderHandles(q) \/ NetworkFault(q) \/ RequestStep(q)
    \/ Crash

Spec == Init /\ [][Next]_vars

\* Every fetch settles: the provider answers or the network gives up, and the
\* event loop runs what has become ready.  Nothing makes agents or users act.
Fairness ==
    \A q \in Req : /\ WF_vars(ProviderHandles(q)) /\ WF_vars(Settle(q))
                   /\ WF_vars(FirstAnswer(q)) /\ WF_vars(Retry(q))
                   /\ WF_vars(SecondAnswer(q)) /\ WF_vars(Metadata(q))

FairSpec == Spec /\ Fairness

---------------------------------------------------------------------------
(* Types. *)

Gen == Issue \cup {NULL}

Row == [user: {"u"}, provider: {"p"}, account: Account, alias: {NULL},
        access: Issue, refresh: Gen, dek: {"k"}, expires: {"valid", "due", NULL},
        url: {NULL}, is_default: BOOLEAN, created: Id]

Refreshed == [access: Issue, refresh: Gen, dek: {NULL}, expires: {"valid", NULL}]

Call == [id: Id, refresh: Issue, state: {"asked", "answered", "failed"},
         new: Refreshed \cup {NULL}]

Snap == [id: Id, access: Issue, refresh: Gen]

Exchanged == [account: Account, access: Issue, refresh: Gen]

\* NULL is none of the values it stands apart from.
ASSUME NullAssumption == NULL \notin Req \cup Row \cup Call \cup Snap \cup Exchanged \cup Answers \cup Issue

TypeOK ==
    /\ conns \in [Id -> Row \cup {NULL}]
    /\ nextId \in 1 .. MaxRows + 1
    /\ inflight \in [Id -> Req \cup {NULL}]
    /\ call \in [Req -> Call \cup {NULL}]
    /\ pc \in [Req -> {"idle", "fresh", "first", "retry", "cancel", "second", "done"}]
    /\ route \in [Req -> {"forward", "media"}]
    /\ snap \in [Req -> Snap \cup {NULL}]
    /\ on \in [Req -> Req \cup {NULL}]
    /\ sent \in [Req -> Seq(Issue)]
    /\ answer \in [Req -> Answers \cup {NULL}]
    /\ exchanged \in Exchanged \cup {NULL}
    /\ deleting \in Id \cup {NULL}
    /\ kind \in Kinds
    /\ issued \in 0 .. MaxIssues
    /\ usable \subseteq Issue
    /\ presented \subseteq Issue
    /\ happened \subseteq Disturbances

---------------------------------------------------------------------------
(* Safety. *)

\* However many requests find the token due or are refused at once, a
\* connection has one refresh under way (the inflight map).
SingleFlight ==
    \A q, r \in Req : on[q] = q /\ on[r] = r /\ call[q].id = call[r].id => q = r

\* Whoever awaits a refresh awaits one that is under way for its own
\* connection and will wake it; an inflight entry never outlives its refresh.
AwaitedRefreshIsLive ==
    /\ \A q \in Req : on[q] # NULL =>
         /\ on[on[q]] = on[q] /\ call[on[q]] # NULL /\ snap[q] # NULL
         /\ call[on[q]].id = snap[q].id
         /\ inflight[snap[q].id] = on[q]
    /\ \A i \in Id : inflight[i] # NULL =>
         on[inflight[i]] = inflight[i] /\ call[inflight[i]].id = i

\* The retry after a 401 never repeats the token that was refused.
RetryUsesNewToken ==
    \A q \in Req : route[q] = "forward" /\ Len(sent[q]) = 2 => sent[q][1] # sent[q][2]

\* If the refresh after a 401 fails, the 401 reaches the agent with its body:
\* a torn answer means that the refresh went well and the retry did not.
FailedRefreshPassesRaw401 ==
    \A q \in Req : answer[q] = "torn401" => Len(sent[q]) = 2 \/ snap[q] = NULL

\* However refreshes, retries, deletions, lost answers and restarts interleave,
\* no step puts an older token of the provider back into a row.  (Beside a
\* reconnection one may: see ReconnectionSticks.)
TokensNeverGoBack ==
    [][\A i \in Id :
        conns[i] # NULL /\ conns'[i] # NULL /\ "reconnect" \notin happened =>
            conns'[i].access >= conns[i].access]_vars

\* A connection at rest can still be refreshed: no interleaving of refreshes,
\* retries and a reconnection leaves a refresh token in the vault that the
\* provider has rotated away, and where reuse ends the grant none does but by
\* presenting a spent token (see NoSpentTokenPresented).  (A lost answer or a
\* restart between the rotation and the UPDATE may, and revoking a sibling may
\* end the whole grant.)
Undisturbed ==
    happened \subseteq {"reconnect"} /\ (kind = "detecting" => presented = {})

GrantKept ==
    \A i \in Rows(conns) :
        conns[i].refresh # NULL /\ inflight[i] = NULL /\ Undisturbed =>
            conns[i].refresh \in usable

\* Each request is served as RequestContract promises.
Promise == INSTANCE RequestContract WITH
    stage <- [q \in Req |-> CASE pc[q] = "idle" -> "idle"
                              [] pc[q] = "done" -> "closed"
                              [] OTHER -> "open"],
    sends <- [q \in Req |-> Len(sent[q])],
    reply <- answer

RequestsKeepContract == Promise!Contract

---------------------------------------------------------------------------
(* Liveness. *)

\* Every request that was accepted is answered.
EveryRequestAnswered == \A q \in Req : pc[q] # "idle" ~> pc[q] = "done"

---------------------------------------------------------------------------
(* Statements of the repository that the code does not keep. *)

\* "avoids the race of refresh token rotation at the provider": no refresh
\* token is presented once the provider has rotated it away.
NoSpentTokenPresented == presented = {}

=============================================================================
