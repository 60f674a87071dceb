---------------------------- MODULE MCCatalogue ----------------------------
(* Catalogue for TLC: two teams, two players and two users, of whom one is an *)
(* administrator; the rest of the constants is given in the configurations.  *)
EXTENDS Catalogue, FiniteSets, TLC

CONSTANT A

\* Requests are interchangeable.
Interchangeable == Permutations(Session)
\* Bounds: a season that does not end, one ride, every new row about
\* team A, and requests in flight together only if they are after one row, both
\* register players, or one of them deletes a season or a round and the other
\* is no edit of a team or a player.  A single request meets every step of the
\* others that is not spread over statements anyway.
Deletes(r) == r.op \in {"delete season", "delete round"}

Few ==
  /\ \A se \in Season : season[se] # "closed"
  /\ Cardinality(ride) <= 1 /\ \A r \in ride : r.team = A
  /\ \A s \in Session :
       /\ req[s].op \in {"insert match", "update match"} => req[s].new.home = A
       /\ req[s].op = "insert player" => req[s].new.team = A
  /\ \A s, o \in Session :
       s # o /\ req[s].pc # "idle" /\ req[o].pc # "idle" =>
         \/ /\ Deletes(req[s]) \/ Deletes(req[o])
            /\ {req[s].op, req[o].op} \cap {"update team", "update player"} = {}
         \/ req[s].id = req[o].id /\ "insert match" \notin {req[s].op, req[o].op}
=============================================================================
