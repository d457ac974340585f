---------------------------- MODULE OAuthConnect ----------------------------
(***************************************************************************)
(* The OAuth flow of connections/routes.js.  GET /auth/:provider/start     *)
(* draws a state and keeps it in oauth_states; the callback consumes it,   *)
(* awaits the provider three or four times (token exchange, profile,       *)
(* discovery of the accounts behind the token) and then saves one          *)
(* connection, or one per discovered account, without another await.       *)
(* Any number of starts, callbacks and repetitions of a callback (a reload *)
(* of the redirect) interleave at those awaits.                            *)
(*                                                                         *)
(* A callback obtains at most one grant, so a token is named by the        *)
(* callback it was issued to.  A pack is named by its kind of discovery.   *)
(***************************************************************************)
EXTENDS ConnectionStore, FiniteSets, Sequences

Seqs == INSTANCE SequencesExt

CONSTANTS User, Provider,
          Packs,       \* provider -> the kinds of discovery its packs have
          Profiled,    \* the providers with a profile_url
          Subject,     \* who may log in at a provider
          Page,        \* the accounts a discovery may find
          Callback,    \* the requests of GET /auth/:provider/callback
          Ttl,         \* stateTtlSeconds
          MaxStates,   \* bound: states drawn
          MaxRows,     \* bound: rows ever inserted
          MaxClock     \* bound: instants

Kind == {"none", "instagram", "unified_instagram", "whatsapp"}

ASSUME ConstantsAssumption ==
    /\ Packs \in [Provider -> SUBSET Kind]
    /\ Profiled \subseteq Provider
    /\ Ttl \in Nat /\ MaxStates \in Nat /\ MaxRows \in Nat \ {0} /\ MaxClock \in Nat
    /\ "default" \notin Subject \cup Page /\ Subject \cap Page = {}
    /\ NULL \notin User \cup Subject \cup Page \cup Callback \cup {"default"}
    /\ IsFiniteSet(Page)

StateId == 1 .. MaxStates
Id == 1 .. MaxRows

VARIABLES states,      \* oauth_states: state -> row, or NULL
          nextState,   \* the next randomBytes(32) to be drawn
          clock,
          flow,        \* callback -> what its handler holds, or NULL
          conns, nextId

vars == <<states, nextState, clock, flow, conns, nextId>>

StateRow == [user: User, provider: Provider, pack: Kind, created: 0 .. MaxClock]

Account == Subject \cup Page \cup {"default"}

Row == [user: User, provider: Provider, account: Account, alias: {NULL},
        access: Callback, refresh: Callback \cup {NULL}, dek: {NULL},
        expires: {NULL}, url: {NULL}, is_default: BOOLEAN, created: 0 .. MaxClock]

\* state and provider are of the request, row is what consume returned; subject,
\* offline and profile are what the provider answered; found are the accounts
\* the loop was to save.
Stage == {"exchange", "profile", "discover", "again", "refused", "popup", "ok", "500", "lost"}

Flow == [state: StateId, provider: Provider, row: StateRow \cup {NULL}, stage: Stage,
         subject: Subject \cup {NULL}, offline: BOOLEAN,
         profile: Subject \cup {NULL}, found: Seq(Account)]

\* NULL is none of the values it stands apart from.
ASSUME NullAssumption == NULL \notin StateRow \cup Flow \cup Row \cup (User \X Provider)

TypeOK ==
    /\ states \in [StateId -> StateRow \cup {NULL}]
    /\ nextState \in 1 .. MaxStates + 1
    /\ clock \in 0 .. MaxClock
    /\ flow \in [Callback -> Flow \cup {NULL}]
    /\ conns \in [Id -> Row \cup {NULL}]
    /\ nextId \in 1 .. MaxRows + 1

Init ==
    /\ states = [s \in StateId |-> NULL]
    /\ nextState = 1
    /\ clock = 0
    /\ flow = [c \in Callback |-> NULL]
    /\ conns = [i \in Id |-> NULL]
    /\ nextId = 1

Tick ==
    /\ clock < MaxClock
    /\ clock' = clock + 1
    /\ UNCHANGED <<states, nextState, flow, conns, nextId>>

---------------------------------------------------------------------------
(* The repository oauthStates of lib/store.js. *)

Expired(s) == clock - states[s].created > Ttl

\* Mutant of PurgeExpired: the boundary instant counts as expired.
PurgeEarly == [s \in StateId |->
    IF states[s] # NULL /\ clock - states[s].created >= Ttl THEN NULL ELSE states[s]]

PurgeExpired == [s \in StateId |->
    IF states[s] # NULL /\ Expired(s) THEN NULL ELSE states[s]]

\* Mutant of Consumed: SELECT instead of DELETE .. RETURNING.
Looked(s) == states

Consumed(s) == [states EXCEPT ![s] = NULL]

Consume(s) == IF states[s] # NULL /\ ~ Expired(s) THEN states[s] ELSE NULL

---------------------------------------------------------------------------
(* GET /auth/:provider/start and the callback up to its first await. *)

StartFlow(u, p, k) ==
    /\ nextState \in StateId
    /\ states' = [PurgeExpired EXCEPT ![nextState] =
            [user |-> u, provider |-> p, pack |-> k, created |-> clock]]
    /\ nextState' = nextState + 1
    /\ UNCHANGED <<clock, flow, conns, nextId>>

Admitted(s, p) == Consume(s) # NULL /\ Consume(s).provider = p

\* The state is gone whether or not the callback may use it.  An unknown
\* provider, an error parameter and a missing code answer before this line.
CallbackArrives(c, s, p) ==
    /\ flow[c] = NULL
    /\ s < nextState
    /\ flow' = [flow EXCEPT ![c] =
            [state |-> s, provider |-> p, row |-> Consume(s),
             stage |-> IF Admitted(s, p) THEN "exchange" ELSE "refused",
             subject |-> NULL, offline |-> FALSE, profile |-> NULL, found |-> <<>>]]
    /\ states' = Consumed(s)
    /\ UNCHANGED <<nextState, clock, conns, nextId>>

---------------------------------------------------------------------------
(* The answers of the provider. *)

Answers(c, stage) == flow[c] # NULL /\ flow[c].stage = stage

Moves(c, next) ==
    /\ flow' = [flow EXCEPT ![c] = next]
    /\ UNCHANGED <<states, nextState, clock, conns, nextId>>

\* The refresh token may be absent; self_refresh providers always have one.
Exchange(c) ==
    /\ Answers(c, "exchange")
    /\ \/ \E sub \in Subject, off \in BOOLEAN :
            Moves(c, [flow[c] EXCEPT !.stage = "profile", !.subject = sub, !.offline = off])
       \/ Moves(c, [flow[c] EXCEPT !.stage = "500"])

\* Best effort.  A profile names its subject: by its id or, without one, its email.
Profile(c) ==
    /\ Answers(c, "profile")
    /\ \E who \in {NULL} \cup (IF flow[c].provider \in Profiled
                               THEN {flow[c].subject} ELSE {}) :
        Moves(c, [flow[c] EXCEPT !.stage = "discover", !.profile = who])

\* What upsertOne hands to the repository.
Item(a, r) == [account |-> a, refresh |-> r]

SaveOne(t, c, item) ==
    LET new == [user |-> flow[c].row.user, provider |-> flow[c].provider,
                account |-> item.account, alias |-> NULL, access |-> c,
                refresh |-> item.refresh, dek |-> NULL, expires |-> NULL,
                created |-> clock]
        i == UpsertId(t.conns, t.nextId, new)
    IN  [conns |-> Upsert(t.conns, t.nextId, new),
         nextId |-> IF i = t.nextId THEN i + 1 ELSE t.nextId]

\* Mutant of Outcome: an account that cannot be saved is skipped.
OkAnyway(n, items) == {"ok"}

\* All accounts saved, the last audit entry may still throw.
Outcome(n, items) == IF n = Len(items) THEN {"ok", "500"} ELSE {"500"}

\* The loop of upsertOne: the table after each of its turns.
Saved(c, items) ==
    LET table[n \in 0 .. Len(items)] ==
            IF n = 0 THEN [conns |-> conns, nextId |-> nextId]
                     ELSE SaveOne(table[n - 1], c, items[n])
    IN  table

\* It runs without an await; a DEK that does not open or a locked file makes it
\* throw after the first n accounts.
Stores(c, items) ==
    \E n \in 0 .. Len(items) :
        /\ conns' = Saved(c, items)[n].conns
        /\ nextId' = Saved(c, items)[n].nextId
        /\ \E stage \in Outcome(n, items) :
            flow' = [flow EXCEPT ![c].stage = stage,
                                 ![c].found = [k \in DOMAIN items |-> items[k].account]]

\* The accounts of the list that have no row yet.
Fresh(c, items) == {k \in DOMAIN items :
    FindByAccount(conns, flow[c].row.user, flow[c].provider, items[k].account) = {}}

Save(c, items) ==
    /\ nextId + Cardinality(Fresh(c, items)) <= MaxRows + 1
    /\ Stores(c, items)
    /\ UNCHANGED <<states, nextState, clock>>

\* Page and business tokens keep the user token as their seed of refresh.
PageItems(c, found) == [k \in DOMAIN found |-> Item(found[k], c)]

\* No account in the list: a popup explains, nothing is stored.
SaveList(c, items) ==
    IF items = <<>> THEN Moves(c, [flow[c] EXCEPT !.stage = "popup"])
                    ELSE Save(c, items)

\* Mutant of LegacyKey: no fallback to the key of a login without a profile.
KeyWithoutDefault(c, discovered) == Coalesce(discovered, flow[c].profile)

LegacyKey(c, discovered) == Coalesce(discovered, Coalesce(flow[c].profile, "default"))

SaveLegacy(c, discovered) ==
    Save(c, <<Item(LegacyKey(c, discovered), IF flow[c].offline THEN c ELSE NULL)>>)

\* Mutant of DiscoveryFails: the unified login falls back like the others.
AlwaysFallsBack(c) == SaveLegacy(c, NULL)

\* Fatal for the unified login; a second attempt for WhatsApp; no discovery at
\* the level of the provider for the packs of the rest.
DiscoveryFails(c) ==
    CASE flow[c].row.pack = "unified_instagram" -> Moves(c, [flow[c] EXCEPT !.stage = "popup"])
      [] flow[c].row.pack = "whatsapp" -> Moves(c, [flow[c] EXCEPT !.stage = "again"])
      [] OTHER -> SaveLegacy(c, NULL)

\* Any of the pages the token manages, in any order, those whose long-lived
\* exchange failed left out.
Discover(c) ==
    /\ Answers(c, "discover")
    /\ \/ DiscoveryFails(c)
       \/ /\ flow[c].row.pack \in {"instagram", "unified_instagram"}
          /\ \E found \in Seqs!SetToAllKPermutations(Page) : SaveList(c, PageItems(c, found))
       \/ /\ flow[c].row.pack = "whatsapp"
          /\ \E waba \in Page : SaveList(c, <<Item(waba, NULL)>>)

DiscoverAgain(c) ==
    /\ Answers(c, "again")
    /\ \E waba \in Page \cup {NULL} : SaveLegacy(c, waba)

\* The states survive a restart of the process, the handlers do not.
InFlight(c) == flow[c] # NULL /\ flow[c].stage \in {"exchange", "profile", "discover", "again"}

Restart ==
    /\ \E c \in Callback : InFlight(c)
    /\ flow' = [c \in Callback |->
            IF InFlight(c) THEN [flow[c] EXCEPT !.stage = "lost"] ELSE flow[c]]
    /\ UNCHANGED <<states, nextState, clock, conns, nextId>>

Next ==
    \/ Tick \/ Restart
    \/ \E u \in User, p \in Provider : \E k \in Packs[p] : StartFlow(u, p, k)
    \/ \E c \in Callback, s \in StateId, p \in Provider : CallbackArrives(c, s, p)
    \/ \E c \in Callback : Exchange(c) \/ Profile(c) \/ Discover(c) \/ DiscoverAgain(c)

Spec == Init /\ [][Next]_vars

---------------------------------------------------------------------------
(* Properties. *)

OwnerOf(s) == IF states[s] # NULL THEN <<states[s].user, states[s].provider>>
              ELSE IF s < nextState THEN <<"spent">> ELSE <<"unissued">>

Holder(c) == IF flow[c] # NULL /\ flow[c].stage # "refused"
             THEN <<flow[c].row.user, flow[c].provider>> ELSE NULL

\* A state is redeemed by one callback or by none, however often the redirect
\* is repeated, in any browser, before or after expiry; and only that callback
\* writes connections, of the user and the provider the state was issued to.
OneShot == INSTANCE OneShotStates WITH
    State <- StateId, Owner <- User \X Provider,
    Unissued <- <<"unissued">>, Spent <- <<"spent">>,
    owner <- [s \in StateId |-> OwnerOf(s)],
    holder <- [c \in Callback |-> Holder(c)],
    done <- {c \in Callback : Holder(c) # NULL /\ ~ InFlight(c)},
    tokens <- [o \in User \X Provider |->
                {conns[i].access : i \in OfUser(conns, o[1], o[2])}]

StatesAreOneShot == OneShot!Promise

\* A state that may still be redeemed disappears only by a callback that names
\* it: the sweep that every start of every user runs takes expired ones only.
StatesLeaveForCause ==
    [][\A s \in StateId : states[s] # NULL /\ states'[s] = NULL =>
        \/ Expired(s)
        \/ \E c \in Callback : flow[c] = NULL /\ flow'[c] # NULL /\ flow'[c].state = s]_vars

\* "Conectado" means that every account the provider named is connected with
\* the token of this login, whatever an earlier login left half done.
OkMeansConnected ==
    [][\A c \in Callback :
        flow'[c] # NULL /\ flow'[c].stage = "ok" /\ flow[c].stage # "ok" =>
            \A k \in DOMAIN flow'[c].found :
                \E i \in Rows(conns)' :
                    /\ conns'[i].user = flow[c].row.user
                    /\ conns'[i].account = flow'[c].found[k]
                    /\ conns'[i].access = c]_vars

\* The access token and the refresh token of a row that names an account are
\* of one subject: the row will not turn into somebody else at its next refresh.
TokensOfOneSubject ==
    \A i \in Rows(conns) :
        conns[i].account \in Subject /\ conns[i].refresh # NULL =>
            /\ flow[conns[i].access].subject = conns[i].account
            /\ flow[conns[i].refresh].subject = conns[i].account

\* A page token is renewed with the user token of the same login; and a unified
\* login whose discovery fails stores no broken row under the key "default"
\* (routes.js), so that all its rows are such rows.
PageRowsAreWhole ==
    \A i \in Rows(conns) :
        LET pack == flow[conns[i].access].row.pack
        IN  /\ pack = "unified_instagram" => conns[i].account \in Page
            /\ pack \in {"instagram", "unified_instagram"} /\ conns[i].account \in Page
                  => conns[i].refresh = conns[i].access
=============================================================================
