-------------------------- MODULE RequestContract --------------------------
(***************************************************************************)
(* What the proxy promises an agent about each of its requests, whatever   *)
(* refreshes, retries, deletions and restarts happen underneath: one       *)
(* answer, final; at most two calls to the upstream; an upstream status    *)
(* only if the upstream was called; "not connected" only if it was not.    *)
(* Requests are independent, so the promise is made for each one alone.    *)
(***************************************************************************)
EXTENDS Naturals

CONSTANTS Req, NULL

VARIABLES stage,   \* request -> "idle", "open" or "closed"
          sends,   \* request -> calls made to the upstream
          reply    \* request -> the answer, or NULL

Upstream == {"ok", "401", "torn401"}
Unreached == {"500", "502", "reset"}

ContractInit(q) == stage[q] = "idle" /\ sends[q] = 0 /\ reply[q] = NULL

Turnaway(q) ==
    /\ stage[q] = "idle"
    /\ stage'[q] = "closed" /\ sends'[q] = 0 /\ reply'[q] = "404"

Open(q) ==
    /\ stage[q] = "idle"
    /\ stage'[q] = "open" /\ sends'[q] \in {0, 1} /\ reply'[q] = NULL

SendAgain(q) ==
    /\ stage[q] = "open" /\ sends[q] < 2
    /\ stage'[q] = "open" /\ sends'[q] = sends[q] + 1 /\ reply'[q] = NULL

Close(q) ==
    /\ stage[q] = "open"
    /\ stage'[q] = "closed" /\ sends'[q] = sends[q]
    /\ \/ reply'[q] \in Unreached
       \/ reply'[q] \in Upstream /\ sends[q] > 0

ContractStep(q) == Turnaway(q) \/ Open(q) \/ SendAgain(q) \/ Close(q)

Untouched(q) == stage'[q] = stage[q] /\ sends'[q] = sends[q] /\ reply'[q] = reply[q]

\* One step may serve several requests: each takes a step of its own or none.
Contract ==
    /\ \A q \in Req : ContractInit(q)
    /\ [][\A q \in Req : ContractStep(q) \/ Untouched(q)]_<<stage, sends, reply>>
=============================================================================
