----------------------------- MODULE ExactlyOnce -----------------------------
(***************************************************************************)
(* What an Idempotency-Key promises a client (ADR-024), whatever is lost,  *)
(* repeated or run at the same time: one request at most is ever executed  *)
(* under a key, once, and every answer given under that key is the answer  *)
(* of that execution, given to that very request.                          *)
(***************************************************************************)
EXTENDS Naturals, Sequences

CONSTANTS Key, Request

VARIABLES
    effect,    \* effect[k]: the requests executed under k, in order
    replies    \* the answers sent: [key, request, run], run counting executions

vars == <<effect, replies>>

Init == effect = [k \in Key |-> <<>>] /\ replies = {}

Execute(k, q) ==
    /\ effect[k] = <<>>
    /\ effect' = [effect EXCEPT ![k] = <<q>>]
    /\ UNCHANGED replies

Reply(k, q) ==
    /\ effect[k] = <<q>>
    /\ replies' = replies \cup {[key |-> k, request |-> q, run |-> 1]}
    /\ UNCHANGED effect

Next == \E k \in Key, q \in Request : Execute(k, q) \/ Reply(k, q)

Spec == Init /\ [][Next]_vars
=============================================================================
