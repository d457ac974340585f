# zkeys: a TLA+ model of the vault

zkeys keeps OAuth connections (access and refresh tokens of Google, Meta, ...)
encrypted in one SQLite file and lets agents call the providers through
`/p/:provider` without ever seeing a token.  It is one Node process (Express 5,
`node:sqlite`, synchronous) plus a few maintenance scripts that open the same
file.  What is hard about it is not any single handler: it is what happens
between the `await` of one handler and its next statement.

## 1. Inventory

| Part | State | Operations | What makes it correct |
|---|---|---|---|
| Connections repository (`lib/store.js`), vault routes and callback (`connections/routes.js`) | table `connections` | upsert, setDefault, updateAlias, updateTokens, remove, setWebhookForwardUrl, lookups | one row per account, at most one default, nobody changes a row of another user, deleted rows stay deleted |
| Webhook set-up (`connections/*-setup.js`) | `webhook_forward_url` of a row | setup-webhook, with two or three awaits before the write | the late write reaches the row it was authorised for, or none |
| Webhook router (`providers/hooks`) | none of its own; forwards under way | verify, look up the subscribers, forward | an event goes where its owner asked, and nowhere else |
| Proxy (`proxy/*.js`) | `inflight` map, the snapshot of a row in each request | limits, authN, resolve, fresh, refreshConnection, forward with retry-on-401, media download | one refresh per connection, no waiter forgotten, no token lost or rolled back, each request answered once |
| Encryption (`lib/crypto.js`) and scripts `migrate-envelope`, `rotate-kek`, `set-manual-token` | `*_enc`, `dek_wrapped`, the KEK in the environment and the one the server loaded | encrypt/decrypt, new/open connection, migrate, rotate, swap of the KEK, manual save | every row opens, in one format, with a DEK of its own, unless two processes wrote it across each other |
| Accounts and invites (`auth/routes.js`, `scripts/create-user.js`, `POST /proxy/invites`) | tables `users`, `invite_codes` | register, add user, create invite, consume | uses are never exceeded, an account belongs to whoever was told so, the vault has an admin |
| OAuth flow (`connections/routes.js`, `OAuth2Provider.js`) | table `oauth_states` | start, callback, exchange, profile, discovery, save | a state is used once, by its provider, in time; what the popup says is what was stored |
| Rate limiter (`lib/ratelimit.js`) | two `hits` maps | check, reset | the ceiling of a window, and no refusal without cause |
| Workspace tokens (`auth/tokens.js`) | table `workspace_tokens` | create, revoke, findActiveByHash | a revoked token opens nothing |
| Sessions, CSRF, passwords, audit, config, web page | signatures, an append-only log, the environment | - | stateless or write-only |

Interaction: handlers call the repositories directly; what they share is the
database, the `inflight` map and the limiters' maps.  A handler runs alone from
one `await` to the next, so the unit of atomicity is the code between two
awaits.  The scripts are other processes: they interleave with the server at the
granularity of SQLite statements and transactions.

## 2. Modules

    ConnectionStore         pure operators on the table: one per statement of the repository
      +- Connections        rows under every route, script and late handler, and restarts
      |    +- ConnectionsProofs    TLAPS
      |    +- Webhooks             the events router beside the vault
      |         +- WebhooksProofs       TLAPS
      +- ProxyRefresh       requests, refreshes and retries on a connection
      |    +- RequestContract      abstract: what a request is promised
      |    +- ProxyRefreshProofs   TLAPS
      |         +- ProxyGrantProofs     TLAPS
      +- OAuthConnect       states, callbacks, discovery
      |    +- OneShotStates        abstract: what a state promises
      |    +- OAuthConnectProofs   TLAPS
      +- Envelope           keys, formats and maintenance scripts
           +- EnvelopeProofs       TLAPS
    Registration            accounts and invites
      +- RegistrationProofs        TLAPS
    RateLimit               pure operators on a limiter's map
      +- FrontDoor          login, registration and tokens behind the two limiters
           +- FrontDoorProofs      TLAPS
    MC*                     instances for TLC

**ConnectionStore** is a table (row id -> row or `NULL`) and the operators of
`connections` in `lib/store.js`.  They are what the other modules share,
so a change of the repository shows in each.  Columns no decision reads
(`email`, `display_name`, `scopes_json`, `metadata_json`, `updated_at`) are left out.

**Connections**: each route, the callback's `upsertOne` and `set-manual-token` are
one action.  `DELETE`, `setup-webhook` and `refreshConnection` await a provider
between reading a row and writing it by id: `StartX` does the part before the
await and stores the operation in `pending[h]`, `FinishX` does the part after it.
`Restart` loses what awaits and keeps the table.
`set-manual-token` is taken as one step here; Envelope splits it.

**Webhooks** composes the router of `graph_webhook.js` with Connections.  `Receive` is
the whole handler of a signed batch: for each entry the rows of that account with an
address, of any user, get the batch.  A forward is a `fetch` nobody awaits, so it is a member of
`flying` that ends at any time, beside every step of the vault.  `asked` is a
history variable: the set-ups ever started, with the owner and the account of the row they
found.  It lets a property relate an event that is sent now to a request made
before any number of deletions and reconnections.

**ProxyRefresh**: `Arrive` is authN .. resolve .. fresh up to the first await;
`Refresh` is the body of `refreshConnection` that joins or creates an entry of
`inflight`; `Settle` is its end (`updateTokens`, `findById`, `inflight.delete`)
*and* the resumption of all waiters, which run in the same drain of the
microtask queue; `FirstAnswer`, `Retry`, `SecondAnswer` are the segments of
forward, `Metadata` of the media route.  The callback of a connect is `StartConnect`, when the
provider exchanges the code and so issues a token, and `FinishConnect`, when `upsertOne` saves it
after the awaits of profile and discovery.  Tokens are numbered in the order in
which the provider issues them.  The provider may rotate refresh tokens (`"rotating"`), rotate them and
end the whole grant when a spent one is presented (`"detecting"`), keep
them (Google, and the page tokens of Meta, whose refresh answer brings none), or
renew the access token itself (`self_refresh`).  `req.zkeys.connection` is `snap`: a copy,
because that is what the stale reads are about.  A deletion, a reconnection, a
lost answer and a restart (`Disturbances`) may come at any step, each once.

**RequestContract** is the abstract specification: a request is opened, calls the
upstream at most twice, and is closed with one final answer which names an
upstream status only if the upstream was called.  `ProxyRefresh!Promise` is the
refinement mapping; `RequestsKeepContract` is checked as a property.

**OAuthConnect**: `StartFlow` is GET /auth/:provider/start with its sweep of expired
states; `CallbackArrives` is the callback up to its first await, so it consumes the state
*before* it compares the provider; `Exchange`, `Profile`, `Discover` and
`DiscoverAgain` are the answers of the provider, and each ends with what runs until the
next await.  The loop that saves the discovered accounts (`Saved`, the table after each of its
turns) may throw after any prefix (`Stores`), the whole list included: an audit entry follows each upsert.  The provider decides who logged in (`subject`), whether a refresh token comes, and
which pages are found.  A callback gets at most one grant, so a token is named by its callback.

**OneShotStates** is its abstract specification: a state is issued to an owner (a user
at a provider) and is redeemed by one callback or burnt; only the callback that redeemed
it brings a token into the connections of that owner, and only once.
`OAuthConnect!OneShot` maps the rows of `oauth_states`, the handlers and the connections to
it, and `StatesAreOneShot` is checked as a property.

**Envelope**: a blob is `[key, token]`; it opens with that key and no other.  The
operator's scripts run one at a time beside a server that runs, stops and starts.  Each reads in one step
(`MigrateRead`, `RotateRead`, `ManualRead`) and writes in another, since its SELECT precedes its BEGIN; so does a
save of the server (`ConnectRead`, `ConnectWrite`), because one tick of its event loop keeps its other handlers out but not
another process.  KEKs are numbers, 1 before a rotation and 2 after.  `RotateWrite` is the COMMIT; the
operator's swap of `ZKEYS_MASTER_KEY`, which the script's last line asks for, is `SwapKek`, any time later;
`VaultKek` is the key the operator was told to keep.  `raced` is a history
variable: the rows that were migrated while a request held a box for them, that a save wrote from a reading
which the other process had overtaken or with a KEK that is no longer the vault's, or that a rotation could not see.

**Registration**: a request checks the vault and consumes its invite in one step,
awaits the hash of the password, and inserts in another (`Create`).  A password hash is
represented by the request that chose it, so the stored row says whose password
opens the account.  `create-user.js` makes an account of either role; unless told otherwise a `user`.  Invites come from the console (`CreateInvite`, an admin exists: rows of
`users` are never deleted and sessions carry the role) and from an agent's workspace token
(`ProxyInvite`).  Emails are taken as normalised: register trims and lower-cases
them, POST /auth/users and the script only lower-case, a difference the model does not make.

**RateLimit** is `lib/ratelimit.js` as operators on a map; **FrontDoor** puts it in front
of login, registration and the proxy.  A login is counted on its address, awaits
the worker thread (`Verified`) and then counts its failure on the email or frees it; a
proxy call is counted on its address, awaits its body (`BodyRead`), and only then meets
the token, its revocation and its limit; `TokenCall` stands for the routes that need no body before
authN.  A request keeps the instants at which it was counted, so that what got through can be
counted afterwards.  `door` splits the behaviours in two, login or proxy: the
limiters share no key and no request, so interleaving them shows nothing more.

## 3. Runs

| Run | Question | Bounds | Result |
|---|---|---|---|
| `connections` | uniqueness, defaults, ownership, deletion, what reconnections keep, who gets an event | 2 users, 2 accounts, an alias, a good and a bad address, 2 handlers awaiting, 2 rows ever, 2 instants, 1 batch, restarts | holds |
| `proxy` | single flight, wake-ups, retry, contract, grant, token order | 1 row, 3 requests, 4 issues, providers that rotate, detect reuse or keep; or 2 requests beside any 2 of the 4 disturbances | holds |
| `fair` | is every accepted request answered? | 2 requests, providers that rotate or renew the access token itself, any 2 of the 4 disturbances, fairness | holds |
| `envelope` | what scripts and server do to each other's rows | 3 rows, 2 accounts, 2 tokens, all scripts, a server that stops and starts | holds |
| `registration` | who gets an account, as what, on whose invite | 3 requests, 2 emails, 2 codes, 2 instants, all modes | holds |
| `oauth` | is a state used once, and does the answer tell what was stored? | 2 users, 3 providers, 2 subjects, 2 pages, 2 callbacks, 2 states, 2 rows, 2 instants | holds |
| `front_door` | ceilings, causes of a 429, revocation in flight | 4 requests, ceiling 2, windows of 2 in 3 instants, 1 restart | holds |
| `spent_token` | proxy/middleware.js:15-17, no race on a rotated refresh token | 2 requests, rotating provider | refuted |
| `reconnect_lost` | store.js:191-192, a reconnection updates the tokens | 1 request, 1 reconnection | refuted |
| `migrate_online` | crypto.js:12-15 and store.js:133, no mixed row | migration beside a server, 4 tokens | refuted |
| `two_bootstraps` | auth/routes.js:4-6, the first register is the admin | 2 requests | refuted |
| `batch_spills` | test/instagram.e2e.mjs:226, an entry of another account is not routed | one batch of 2 entries | refuted |

**Why the bounds are enough.**  The hazards are races of two actors on one row, one state or
one counter; a third one is added where it could matter (a waiter that joins a refresh after the first
two, a third request for an invite of two uses).  Two rows ever inserted
let an account be deleted and connected again, by the same or another user, under a late handler of the
first row; the proofs of section 4 say that a third row brings nothing new.  Two tokens are a refresh or a
save on each side of a script, and three rows a legacy one, one inserted before a script's SELECT and one after it.  The
requests of two connections share only the `inflight` map, keyed by row, so the proxy runs have one row; the
proofs have any number.  `MaxIssues`
covers the connect and one refresh per request; with a disturbance the
bounds leave two requests and one issue less (`RoomForOne`, `MayIssue`).
Two users are needed for a state of one to be swept by the start of the other; three
providers because their packs discover differently.  Four requests
against a ceiling of two fill one window and meet the next, and `2 * Ceiling - 1` is reached.
Rows, states, tokens and requests only ever run out, which is why deadlock is not checked
(`CHECK_DEADLOCK FALSE`): the bounded system stops when they have.  Symmetry is declared only where
no temporal property needs fairness; values with a meaning of their own (kinds, roles,
instants, token numbers) are not permuted.

**Fairness** (run `fair`).  Weak fairness on the provider's handling of a call and on
each continuation of a request: `fetch` settles, with an answer or an error, and
the event loop runs every continuation that is ready.  Nothing makes users or
agents act, and no fairness is put on deletions or faults.

**What the five refuted statements show.**

* `spent_token`: two requests hold the same snapshot; one gets a 401, refreshes and settles;
  the other gets its 401 afterwards, finds `inflight` empty and refreshes with the
  *snapshot's* refresh token (`forward.js:131`), which the provider has rotated.
  Rereading the row before the refresh would close it.
* `reconnect_lost`: `updateTokens` at `middleware.js:59` is by id alone; tokens saved by a
  callback while the refresh was in flight are overwritten with older ones.
* `migrate_online`: a refresh opened its box on a v1 row; the migration commits; the refresh
  writes v1 blobs next to a `dek_wrapped`.
* `two_bootstraps`: the mode is read before `await passwords.hash` and used after it.
* `batch_spills`: the loop of `graph_webhook.js:47-55` selects subscribers by the id of one
  entry and posts the whole body to each; a batch of two accounts reaches the
  organisations of both, twice where one has both.  The test posts batches of one entry.

**What else the modelling showed**, without a run of its own:

* A failed registration burns a use of its invite: `auth/routes.js:118` consumes before the await of line 124, and
  the insert may then meet the UNIQUE email (the comment at lines 96-97 guards against it
  only for emails known before the await).
* `auth/routes.js:89-90` says successes do not count; line 91 counts every login and
  registration on the address, successful or not.
* `setup-webhook` answers that the `forward_url` step is ok when the row was deleted during
  its awaits (`whatsapp-setup.js:223`).
* A connect becomes default whenever no default *row* exists, not only for the first
  connection of a provider as `store.js:193-194` says.
* Deleting a connection of a unified login revokes `DELETE /me/permissions` of the user
  (`OAuth2Provider.js:373`), and with it the grant of its sibling rows.
* A migration overwrites tokens that the server stored after its SELECT (`migrate-envelope.js:35` reads before its BEGIN):
  `MaintenanceKeepsTokens` promises only those of rows that are still as it read them.
* Between the COMMIT of `rotate-kek.js:55` and the operator's swap a server that starts has the old KEK and opens
  nothing; one that runs on goes on wrapping with the old KEK, and rows inserted after line 35 are not
  re-wrapped.  `VaultKekOpens` is about the KEK of line 56 and leaves such rows out (`raced`).
* `set-manual-token.js:62` mixes a row by itself: a connect between its read and its upsert gets its DEK replaced
  while COALESCE keeps the refresh token under the one before.
* `create-user.js:1-3` says that the first admin is born there, but its role is `user` unless told (line 18): such an
  account ends the bootstrap, and a closed vault is then without an admin (`VaultHasAdmin` leaves it out).
* A login without a profile and without a discovery is stored under the key `"default"` (`routes.js:183`), which the next such
  login upserts, whoever it is; COALESCE may keep the refresh token of the one before.
* The limiter's `sweep` (`ratelimit.js:43`) has no caller, so the maps only grow; the
  path-segment selection of `resolve` (`middleware.js:121`) is never taken, because Express 5
  hands the wildcard over as an array.

**Mutants.**  Each checked property is refuted when one definition is replaced by a
plausible bug (`Mutant of ...` in the modules): the missing clear of the old default,
the swapped bind parameters, a refresh that does not join, a DEK drawn on
reconnection, SELECT instead of DELETE .. RETURNING, a window that every hit extends, and so on.

## 4. Proofs

The theorems hold for every value of the constants that satisfies the modules' assumptions
(bounds are natural numbers, modes and roles are those of the code, and `NULL` is none
of the records and values a variable may hold besides: an untyped constant could be).  No set need be finite but
`Page`, the accounts a provider can list, so the bounds of TLC play no part.  Two
assumptions come from the code: a ceiling and a window are positive (`config.js` takes no other), and
the keys of a limiter's map do not mix addresses with emails or tokens (`ip:`, `email:` and `tok:`).

**ConnectionsProofs.**  `IInv` is `TypeOK`, the three invariants a reader cares about
(`UniqueAccount`, `AtMostOneDefault`, `PendingTargetsOwnRow`) and two that make them
inductive: no row (`FreshIds`) and no handler in flight (`PendingIdsDrawn`) bears an id that has
not been drawn.  Without the first an insert could overwrite a row; without the second a
handler that awaits could find somebody else's row under an id drawn after it asked.  The
lemmas `UpsertIdChoice`, `UpsertEffect`, `UpdateEffect` and `MakeDefaultEffect` say once
what each statement of the repository does to a table; `DescentStep`, `SaveStep`, `SetDefaultStep`,
`StartStep` and `FinishUpdateStep` carry `IInv` over each kind of action.  From it:

* `TypeCorrect`, `OneRowPerAccount`, `OneDefault`, `PendingOwnership`: the invariants themselves;
* `OwnRows`: a step changes rows of its own user only (`UserStepRows`, `FinishStepRows`);
* `DeletedStaysDeleted`: since ids are never drawn again, a late write cannot revive a row
  (`GoneStaysGone`);
* `CredentialsKept` and `DefaultStays`: `StepKinds` reduces every step to one of six writes of the
  table, `StepKeeps` says what each keeps of a row (its account, refresh token,
  address, age) and who may change its alias or clear its flag.  `DefaultStays` then needs
  `AtMostOneDefault` after the step.

**WebhooksProofs.**  `HooksKeepVault`: the router only reads the table, so `HooksSpec`
implements Connections' `Spec` and everything above holds of the composition.  For
`ForwardsAsked`, `HInv` adds to `IInv` that whoever is subscribed asked for it (`RowsAsked`) and so did
each set-up that may still subscribe a row (`SetupsAsked`).  The argument is the one the hazard
calls for: a set-up that ends on a row targets the row it started on, because ids are never
drawn again (`GoneStaysGone`), because a row never changes its user or account (`StepKeeps`), and because
only such a set-up changes an address (`StepUrl`).  `HooksTypeCorrect` comes with it.

**RegistrationProofs.**  `IInv` ties every row to the request that made it
(`RowsTraced`, `CreatedHasRow`), every request to what lets it in (`RequestsEntitled`), the
requests that hold a code to its uses (`UsesCoverHolders`), and an empty vault to admins in
waiting (`FirstIsAdmin`, which is why `AdminRemains` survives the first insert).  The hard step
is `ArriveStep`: a request pays and takes its place among the holders at once.
`InviteCapacity` then counts: distinct accounts have distinct requests (an injection), and
these with the ones still hashing are the holders.  The others are
`AccountOwnership`, `SelfServeEntitled`, `AdminAvailable` (whatever roles the script makes: either there
is an admin, or an account the script made a `user`), `BootstrapEnds` and `TypeCorrect`.

**ProxyRefreshProofs.**  A step moves each request from one place of its handler to the
next: `Fate` lists the moves, and `StepEffect` shows that every action gives each request one of
them while it keeps the types and the `inflight` map.  `IInv` is `TypeOK`,
`AwaitedRefreshIsLive` (whoever waits, waits for a live refresh of its own connection), `Served`
(what a request has sent, holds and answered at each place) and `AnswersBringTokens`.  The
hard step is `Settle`, which wakes every waiter at once (`SettleEffect`, `SettleFates`).  From it:

* `TypeCorrect`, `RefreshIsLive`, `TornOnlyAfterRetry`, and `OneRefresh` (two live refreshes of a row would both
  be its entry of the map);
* `ContractKept`: the refinement.  `FatesKeepContract` maps each fate to a step of RequestContract or
  to a stutter, so ProxyRefresh implements it with all its disturbances;
* `RetryBringsNewToken`: an answer of the token endpoint carries a token nobody has seen, in no row, no
  snapshot and no first call (`TokensFresh`), and stays unseen until it settles; a request
  woken for its retry therefore holds a token other than the one refused (`RetryReady`);
* `TokensOnlyRise`: unless somebody reconnects, the answer of a live refresh is newer than the
  row it will be written to (`AnswersNewer`), because a new row gets an id no refresh
  knows (`IdsDrawn`) and a row has one refresh at a time.

**ProxyGrantProofs.**  `GrantIsKept`: without deletions, lost answers and restarts, a connection at rest can be
refreshed; at a provider that detects reuse, until somebody presents a spent token, which ends the grant
(`Refused`) and which the refuted `spent_token` shows to happen.
The argument is ownership.  `HeldBy` names who may know a refresh token: its row, a
request that read the row, a refresh that presents it or brings it.  `OneOwner` says that
all of them belong to one row, because a step hands the token it issues to one row only (`Hands`); a callback has the token
of its code to itself until it saves it (`CodeUnshared`), and nothing revokes it meanwhile (`CodeUsable`).  So
when the provider takes a token back, it is the one of the row whose refresh is under way and no other
(`AcceptedGrants`); until that refresh settles its answer carries what the provider accepts
(`AnswersUsable`), and `Settle` writes it into that row (`SettleGrants`).  A retry with a stale snapshot
presents a token its own row no longer keeps: at a provider that only rotates it fails without harm to the stored
one, and at one that detects reuse the property has nothing left to say.

**FrontDoorProofs.**  `IInv` is `TypeOK` and `KeysFit`: what awaits the worker thread has an
email, what awaits its body a token.  `StepAdmits` shows that a step lets a request act on a token only if
that token is active, and `RevokedTokenDrains` follows.

`CeilingIsKept` and `RefusalIsCaused` are about time, and neither is inductive: the map forgets a
window as soon as the next one opens.  The first half of the argument is about one key, its
entry and a log of events with their instants.  `Lower`: as many events of the
window as the entry counts have passed, or as many as the ceiling.  `Upper`: no more have passed than are counted,
an event stands at the very start of the window, and in the
`Window - 1` instants before it fewer than `Ceiling` passed.  That last part is what makes the bound `2 * Ceiling - 1`
and not `2 * Ceiling`: the event that opened the old window lies outside any
stretch that reaches into the new one.  `PassKeeps`, `PassKeepsCeiling` and `RefuseKeeps` carry the two over an event
that `check` lets through or stops.  The second half reads the log
off the requests (`Log`, `Times`): `RequestStep` says that whatever a handler does to its request, each
key of the map sees it pass, be stopped, or neither (`Effect`), and `RequestStepKeeps` does the rest once for
all actions.  `LoginSteps`, `ChainSteps` and `LaterSteps` show that every handler
makes such a step, `RestartKeepsLimits` that a restart opens an empty log.  `Upper` is claimed of addresses and
of tokens (`Strict`), not of an email: a good password frees its entry and failed passwords
beyond the ceiling are still answered.

**EnvelopeProofs** assumes nothing about when the operator runs a script or whether the server is up.  `IInv` says
two things.  A row that is not `raced` is `Whole` (one key for both columns, a DEK wrapped with `VaultKek`), and every box a
request holds for it has its key (`UnracedWhole`): what comes from another process is either still as the writer read it, or the write itself
marks the row.  And a DEK belongs to one account, whether a row, a save under way or a script holds it
(`OneOwner`), because a DEK is drawn once and a row never changes its account; so even a raced row shares its DEK with none.
What a script or a save has read keeps its types for as long as it is held (`Reading`, `MigrationTrue`, `RotationTrue`).  From it:
`TypeCorrect`, `OnlyRacedRowsAreMixed`, `OneDekPerRow`, `VaultKekOpensRows`, `ScriptsKeepTokens`.

**OAuthConnectProofs.**  `StatesLeaveOnlyForCause`: a state leaves the table when it has expired or
a callback consumes it.  The invariant is that a state not yet drawn has no row
(`UndrawnIsFree`): a start writes a row nobody had.

The rest depends on the loop that saves the accounts of a login, as long as the provider's list.  `Saved` is a
recursive function; `LoopExists` and `SavedIsLoop` show that it is what its equation says, `TurnKeeps`
that one `upsertOne` carries `After` from `n` turns to `n + 1`, and `SavedIsAfter` closes the induction.
(`Induction` is stated for a set of numbers, and follows from the well-foundedness of `<`.)  `After`: the table
keeps its types and the room it was given, each of the first `n` accounts has a row with this token, a
row that changed belongs to one of them, and no row changed its owner.

`HandlerSteps` then reduces each continuation of a callback to going on without a row (`Moves`) or
saving a list it may save (`Saves`).  `VaultInv` says what a handler knows at each
of its awaits (`Tells`) and of each row that its tokens come from finished callbacks of the subject or the page
it names (`Whole`).  From it:

* `TypeCorrect`, `OneSubjectPerRow`, `PagesAreWhole`, and `ConectadoMeansConnected`, which needs the whole list;
* `FlowImplementsOneShot`: the refinement.  A start is an issue with its expiries, a
  callback redeems or burns, a loop of saves brings its token to rows of one owner (`SavesRefine`: a
  reconnection may take another's token out of them), and a restart ends what holds a state.

**Only model-checked**: liveness (`EveryRequestAnswered`), out of the prover's reach; every other property of
a passing run is a theorem.  The refuted statements of section 3 have nothing to prove.

## 5. Not modelled, and why

* What a provider without configuration is answered before any call (`forward.js:76-88`, `media.js:19-21`), and the 400, 403 and
  413 of a body or a scope in front of the vault: refusals that touch no state.
* Ciphertexts, HMACs, hashes, ULIDs, PKCE values, URLs, HTTP headers and queries: data whose content no
  property depends on.
* Deauthorize and data-deletion hooks (`meta_signed_request.js`): they validate a signature, write
  an audit entry and change nothing in the vault.
* Sessions, CSRF and passwords: stateless signatures and hashes.
* Pages, logs, audit entries: written, never read by a decision.
* Configuration and boot: the environment is read once; the registry of providers is data.
* SQLite itself: a `transaction()` is atomic, and a script's transaction excludes other writers from its first write on.

## 6. Plan

Done: ConnectionStore, Connections, Webhooks; ProxyRefresh and its contract; OAuthConnect and its
abstract specification; Envelope; Registration; RateLimit and FrontDoor; each with the proofs of section 4.
Every safety and action property of a passing run is proved.  What could still be said:

1. the abstract specification of a limiter (a log of events and a verdict), which `Lower` and `Upper` already
   relate to a map, as a module of its own that FrontDoor implements;
2. the fallback of `findDefault` after a deletion, and the instant at which an invite expires: both are modelled, and no
   property says what they should do, because nothing in the repository does.
