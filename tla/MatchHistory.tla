---------------------------- MODULE MatchHistory ----------------------------
(* Catalogue with a history: the matches whose start has passed at some time, *)
(* whatever their rows say now.                                              *)
EXTENDS Catalogue

VARIABLE played

HistoryInit == Init /\ played = {}

HistoryNext == Next /\ played' = played \cup {m \in Match : Started(m)'}

HistorySpec == HistoryInit /\ [][HistoryNext]_<<vars, played>>

\* A match that goes with its round or its season.
TakenAlong(m) == /\ There(match, m)
                 /\ match'[m] = Gone
                 /\ \/ round'[match[m].round] = Gone
                    \/ season'[match[m].season] = Gone

\* "An open season with match history is durable too -- deleting it would
\* cascade away started matches": neither a season nor a round goes that has a
\* match which has started at some time.
PlayedIsKept == [][\A m \in played : ~TakenAlong(m)]_<<vars, played>>
=============================================================================
