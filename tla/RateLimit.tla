----------------------------- MODULE RateLimit -----------------------------
(***************************************************************************)
(* lib/ratelimit.js: fixed windows per key.  A table gives each key its    *)
(* entry [count, resetAt], or NULL if the map has none.                    *)
(***************************************************************************)
EXTENDS Naturals

CONSTANTS NULL,
          Ceiling,   \* max
          Window     \* windowMs

\* config.js takes no limit that is not positive.
ASSUME RateLimitAssumption == Ceiling \in Nat \ {0} /\ Window \in Nat \ {0}

\* Mutant of Entry: a window that has no end.
EntryWithoutEnd(t, k, now) ==
    IF t[k] = NULL THEN [count |-> 0, resetAt |-> NULL] ELSE t[k]

Entry(t, k, now) ==
    IF t[k] = NULL \/ now >= t[k].resetAt
    THEN [count |-> 0, resetAt |-> now + Window] ELSE t[k]

\* Mutant of Hit: every attempt pushes the end of the window back.
HitExtends(t, k, now) ==
    [t EXCEPT ![k] = [count |-> Entry(t, k, now).count + 1, resetAt |-> now + Window]]

\* check(key) counts the event first and refuses afterwards.
Hit(t, k, now) ==
    [t EXCEPT ![k] = [Entry(t, k, now) EXCEPT !.count = @ + 1]]

Limited(t, k, now) == Entry(t, k, now).count + 1 > Ceiling

Reset(t, k) == [t EXCEPT ![k] = NULL]
=============================================================================
