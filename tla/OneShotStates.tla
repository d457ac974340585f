--------------------------- MODULE OneShotStates ---------------------------
(***************************************************************************)
(* What an OAuth state promises.  It is issued to an owner, a user at a    *)
(* provider, and ends once: one callback redeems it, or it is burnt.  Only *)
(* the callback that redeemed it brings a token into the vault, and only   *)
(* among the connections of that owner, before it is done.                 *)
(***************************************************************************)
CONSTANTS State, Owner, Callback, Unissued, Spent, NULL

VARIABLES owner,    \* state -> the owner it is issued to, Unissued or Spent
          holder,   \* callback -> the owner whose state it redeemed, or NULL
          done,     \* the holders that have answered
          tokens    \* owner -> the callbacks whose tokens its connections hold

promise == <<owner, holder, done, tokens>>

PromiseInit ==
    /\ owner = [s \in State |-> Unissued]
    /\ holder = [c \in Callback |-> NULL]
    /\ done = {}
    /\ tokens = [o \in Owner |-> {}]

Burnt(S) == [s \in State |-> IF s \in S THEN Spent ELSE owner[s]]

\* A start sweeps issued states and issues its own.
Issue(S, s, o) ==
    /\ \A t \in S : owner[t] \in Owner
    /\ owner[s] = Unissued
    /\ owner' = [Burnt(S) EXCEPT ![s] = o]
    /\ UNCHANGED <<holder, done, tokens>>

\* Expired, or brought to the callback of another provider.
Burn(s) ==
    /\ owner[s] \in Owner
    /\ owner' = Burnt({s})
    /\ UNCHANGED <<holder, done, tokens>>

Redeem(s, c) ==
    /\ owner[s] \in Owner
    /\ holder[c] = NULL
    /\ owner' = Burnt({s})
    /\ holder' = [holder EXCEPT ![c] = owner[s]]
    /\ UNCHANGED <<done, tokens>>

\* The token of c may replace others.
Answer(c) ==
    /\ holder[c] # NULL
    /\ c \notin done
    /\ done' = done \cup {c}
    /\ tokens' \in [Owner -> SUBSET Callback]
    /\ \A o \in Owner :
        tokens'[o] \subseteq tokens[o] \cup (IF o = holder[c] THEN {c} ELSE {})
    /\ UNCHANGED <<owner, holder>>

\* The process stops.
Drop(C) ==
    /\ \A c \in C : holder[c] # NULL
    /\ done' = done \cup C
    /\ UNCHANGED <<owner, holder, tokens>>

PromiseNext ==
    \/ \E S \in SUBSET State, s \in State, o \in Owner : Issue(S, s, o)
    \/ \E s \in State : Burn(s)
    \/ \E s \in State, c \in Callback : Redeem(s, c)
    \/ \E c \in Callback : Answer(c)
    \/ \E C \in SUBSET Callback : Drop(C)

Promise == PromiseInit /\ [][PromiseNext]_promise
=============================================================================
