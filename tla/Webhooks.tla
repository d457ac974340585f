------------------------------ MODULE Webhooks ------------------------------
(***************************************************************************)
(* The webhook router (providers/hooks/graph_webhook.js) beside the vault  *)
(* of Connections.  An organisation asks for the events of a connected     *)
(* account (setup-webhook); the provider posts signed batches of entries   *)
(* about any of the accounts of the app; each entry is forwarded to every  *)
(* row that is subscribed to its account.  A forward is a fetch with a     *)
(* limit of 5 s that nobody awaits: it flies beside connections, deletions *)
(* and set-ups, and a restart loses it.                                    *)
(*                                                                         *)
(* A batch that the provider sends again, its 200 lost, is one more batch. *)
(* A bad signature, and the GET handshake, change nothing.                 *)
(***************************************************************************)
EXTENDS Connections

CONSTANTS MaxBatches,  \* bound: batches received
          MaxEntries   \* bound: entries of a batch

ASSUME BatchAssumption == MaxBatches \in Nat /\ MaxEntries \in Nat

VARIABLES received,  \* number of batches
          flying,    \* the forwards under way
          asked      \* the set-ups ever started: [id, user, account, url]

hooks == <<received, flying, asked>>

\* The accounts that the entries of a batch are about.
Batch == UNION {[1 .. n -> Account] : n \in 1 .. MaxEntries}

Ask == [id: Id, user: User, account: Account, url: Url]

Forward == [batch: 1 .. MaxBatches, entry: 1 .. MaxEntries, ask: Ask, body: Batch]

HooksTypeOK ==
    /\ received \in 0 .. MaxBatches
    /\ flying \subseteq Forward
    /\ asked \subseteq Ask

\* Mutants of Subscribed: rows without an address; the rows of the provider,
\* whatever their account.
SubscribedOrNot(p, a) ==
    {i \in Rows(conns) : conns[i].provider = p /\ conns[i].account = a}

SubscribedToProvider(p, a) ==
    {i \in Rows(conns) : conns[i].provider = p /\ conns[i].url # NULL}

\* findByWabaId, findByInstagramId: rows of any user.
Subscribed(p, a) ==
    {i \in Rows(conns) : /\ conns[i].provider = p
                         /\ conns[i].account = a
                         /\ conns[i].url # NULL}

\* The whole body goes to each of them, once per entry.
Forwards(p, body) ==
    UNION {{[batch |-> received + 1, entry |-> k, body |-> body,
             ask |-> [id |-> i, user |-> conns[i].user, account |-> body[k],
                      url |-> conns[i].url]]
                : i \in Subscribed(p, body[k])} : k \in DOMAIN body}

\* POST /auth/:provider/webhook with a good signature.
Receive(p, body) ==
    /\ received < MaxBatches
    /\ received' = received + 1
    /\ flying' = flying \cup Forwards(p, body)
    /\ UNCHANGED <<vars, asked>>

\* Any answer, an error, or the time limit.
ForwardEnds(f) ==
    /\ flying' = flying \ {f}
    /\ UNCHANGED <<vars, received, asked>>

\* The set-ups that this step starts; one of a bad address will store nothing.
NewAsks ==
    {[id |-> pending'[h].id, user |-> pending'[h].user,
      account |-> conns[pending'[h].id].account, url |-> pending'[h].url] :
        h \in {g \in Handler : pending[g] = NULL /\ Awaiting(g, "setup")' /\ SetupReportsOk(g)'}}

VaultStep ==
    /\ Tick \/ (\E u \in User : UserStep(u)) \/ (\E h \in Handler : FinishStep(h))
    /\ asked' = asked \cup NewAsks
    /\ UNCHANGED <<received, flying>>

Stop ==
    /\ Restart
    /\ flying' = {}
    /\ UNCHANGED <<received, asked>>

HooksInit == Init /\ received = 0 /\ flying = {} /\ asked = {}

HooksNext ==
    \/ VaultStep \/ Stop
    \/ \E p \in WebhookProvider, body \in Batch : Receive(p, body)
    \/ \E f \in flying : ForwardEnds(f)

HooksSpec == HooksInit /\ [][HooksNext]_<<vars, hooks>>

---------------------------------------------------------------------------
(* Properties. *)

\* Whatever is forwarded was asked for: by the owner of the row, for that very
\* row and account, at that address.  A set-up that ends after its row was
\* deleted, or the same account connected anew or by another user, subscribes
\* nobody.
ForwardsWereAskedFor == \A f \in flying : f.ask \in asked

\* test/instagram.e2e.mjs:226: an entry of another account is not routed.
EntriesStayWithTheirOrgs ==
    \A f \in flying : \A k \in DOMAIN f.body :
        \E a \in asked : a.url = f.ask.url /\ a.account = f.body[k]
=============================================================================
