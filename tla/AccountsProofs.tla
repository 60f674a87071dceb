--------------------------- MODULE AccountsProofs ---------------------------
(***************************************************************************)
(* Activation is sound for any number of users, tokens and requests.       *)
(*                                                                         *)
(* What an activation read at its beginning stays true for as long as the  *)
(* users row keeps its version (Activating): whoever deletes the token is  *)
(* an activation of the same user, and that raises the version.  The guard *)
(* of the UPDATE therefore tells that the token is still there, although   *)
(* the statement does not look at the tokens, and the row lock keeps it so *)
(* until the commit (Flipped, Alone).                                      *)
(***************************************************************************)
EXTENDS Accounts, TLAPS

\* The foreign key of user_tokens, and what a request knows of its user.
Owned ==
    /\ \A t \in Token : token[t] # Null => user[token[t].owner] # Null
    /\ \A s \in Session : req[s].pc = "issue" =>
         req[s].user \in User /\ user[req[s].user] # Null

ActivationOf(t, u) ==
    token[t] # Null /\ token[t].owner = u /\ token[t].scope = "activation"

Activating ==
    \A s \in Session : req[s].pc \in {"flip", "clean", "commit"} =>
        /\ req[s].user \in User /\ req[s].token \in Token
        /\ user[req[s].user] # Null
        /\ req[s].user \in reached
        /\ req[s].version <= user[req[s].user].version
        /\ req[s].version = user[req[s].user].version =>
             ActivationOf(req[s].token, req[s].user)

InFlight(s) == req[s].pc \in {"clean", "commit"}

\* The row lock: one activation of a user between its UPDATE and its end.
Flipped ==
    \A s \in Session : InFlight(s) => req[s].version = user[req[s].user].version

Alone ==
    \A s, o \in Session :
        InFlight(s) /\ InFlight(o) /\ req[s].user = req[o].user => s = o

\* What is about to be deleted is the user's own, the presented token included.
Doomed ==
    \A s \in Session : req[s].pc = "commit" =>
        /\ req[s].token \in req[s].gone
        /\ \A t \in req[s].gone : ActivationOf(t, req[s].user)

\* Only mails bring activation tokens to clients.
ByMail ==
    /\ \A t \in Token : mail[t] # Null /\ token[t] # Null => mail[t] = token[t].owner
    /\ \A t \in knows : token[t] # Null /\ token[t].scope = "activation" =>
         token[t].owner \in reached
    /\ \A s \in Session : req[s].pc = "judge" /\ req[s].activated => req[s].user \in reached

IInv == TypeOK /\ Owned /\ Activating /\ Flipped /\ Alone /\ Doomed /\ ByMail /\ ProofOfMailbox

-----------------------------------------------------------------------------

LEMMA IdleIsRequest == Idle \in Request /\ Idle.pc = "idle" /\ Idle.gone = {}
                       /\ Idle.activated = FALSE
  BY DEF Idle, Request, Scope

LEMMA RowsAreThere == /\ \A r \in UserRow : r # Null
                      /\ \A r \in TokenRow : r # Null
  BY RowAssumption DEF RowAssumption

LEMMA InitIInv == Init => IInv
  BY IdleIsRequest
  DEF Init, IInv, TypeOK, Owned, Activating, Flipped, Alone, Doomed, ByMail, ProofOfMailbox,
      InFlight, Idle

\* A request that ends keeps nothing true that was not.
LEMMA EndKeeps ==
    ASSUME IInv, NEW s \in Session, End(s), UNCHANGED <<user, token, mail, knows, reached>>
    PROVE  IInv'
  <1>1. req' = [req EXCEPT ![s] = Idle] /\ req'[s].pc = "idle" /\ req \in [Session -> Request]
        /\ \A o \in Session \ {s} : req'[o] = req[o]
    BY IdleIsRequest DEF IInv, TypeOK, End
  <1>2. TypeOK'
    BY <1>1, IdleIsRequest DEF IInv, TypeOK
  <1>3. Owned' /\ Flipped' /\ Alone'
    BY <1>1 DEF IInv, Owned, Flipped, Alone, InFlight
  <1>4. Activating' /\ Doomed'
    BY <1>1 DEF IInv, Activating, Doomed, ActivationOf
  <1>5. ByMail' /\ ProofOfMailbox'
    BY <1>1 DEF IInv, ByMail, ProofOfMailbox
  <1> QED BY <1>2, <1>3, <1>4, <1>5 DEF IInv

\* A request that moves on while the tables stay keeps the invariant, if its
\* own part holds of the new state n.
LEMMA MoveKeeps ==
    ASSUME IInv, NEW s \in Session, NEW n \in Request, req' = [req EXCEPT ![s] = n],
           UNCHANGED <<user, token, mail, knows, reached>>,
           n.pc = "issue" => n.user \in User /\ user[n.user] # Null,
           n.pc \in {"flip", "clean", "commit"} =>
             /\ n.user \in User /\ n.token \in Token
             /\ user[n.user] # Null
             /\ n.user \in reached
             /\ n.version <= user[n.user].version
             /\ n.version = user[n.user].version => ActivationOf(n.token, n.user),
           n.pc \in {"clean", "commit"} =>
             /\ n.version = user[n.user].version
             /\ \A o \in Session \ {s} : ~(InFlight(o) /\ req[o].user = n.user),
           n.pc = "commit" => n.token \in n.gone /\ \A t \in n.gone : ActivationOf(t, n.user),
           n.pc = "judge" /\ n.activated => n.user \in reached,
           n.pc = "serve" => n.user \in reached
    PROVE  IInv'
  <1>1. req'[s] = n /\ req' \in [Session -> Request] /\ \A o \in Session \ {s} : req'[o] = req[o]
    BY DEF IInv, TypeOK
  <1>2. TypeOK'
    BY <1>1 DEF IInv, TypeOK
  <1>3. Owned'
    BY <1>1 DEF IInv, Owned
  <1>4. Activating'
    BY <1>1 DEF IInv, Activating, ActivationOf
  <1>5. Flipped' /\ Alone'
    BY <1>1 DEF IInv, Flipped, Alone, InFlight
  <1>6. Doomed'
    BY <1>1 DEF IInv, Doomed, ActivationOf
  <1>7. ByMail' /\ ProofOfMailbox'
    BY <1>1 DEF IInv, ByMail, ProofOfMailbox
  <1> QED BY <1>2, <1>3, <1>4, <1>5, <1>6, <1>7 DEF IInv

\* A request that is about to insert a token.
LEMMA ToIssueIs ==
    ASSUME NEW s \in Session, NEW u \in User, NEW scope \in Scope, ToIssue(s, u, scope)
    PROVE  \E n \in Request : /\ req' = [req EXCEPT ![s] = n]
                              /\ n.pc = "issue" /\ n.user = u
  <1> DEFINE n == [Idle EXCEPT !.pc = "issue", !.user = u, !.scope = scope]
  <1>1. n \in Request /\ n.pc = "issue" /\ n.user = u
    BY DEF Idle, Request
  <1> QED BY <1>1 DEF ToIssue

LEMMA RegisterKeeps ==
    ASSUME IInv, NEW s \in Session, NEW u \in User, Register(s, u)
    PROVE  IInv'
  <1> DEFINE r == [activated |-> FALSE, version |-> 1]
  <1>1. r \in UserRow /\ r # Null /\ ~ r.activated /\ r.version = 1
    <2>1. r \in UserRow
      BY DEF UserRow
    <2> QED BY <2>1, RowsAreThere
  <1>2. /\ user' = [user EXCEPT ![u] = r] /\ user[u] = Null
        /\ UNCHANGED <<token, mail, knows, reached>>
    BY DEF Register
  <1> HIDE DEF r
  <1>3. PICK n \in Request : req' = [req EXCEPT ![s] = n] /\ n.pc = "issue" /\ n.user = u
    BY ToIssueIs DEF Register, Scope
  <1>4. req'[s] = n /\ req' \in [Session -> Request] /\ \A o \in Session \ {s} : req'[o] = req[o]
    BY <1>3 DEF IInv, TypeOK
  <1>5. user'[u] = r /\ user' \in [User -> UserRow \cup {Null}]
        /\ \A v \in User \ {u} : user'[v] = user[v]
    BY <1>1, <1>2 DEF IInv, TypeOK
  <1>6. TypeOK'
    BY <1>1, <1>2, <1>4, <1>5 DEF IInv, TypeOK
  <1>7. Owned'
    BY <1>1, <1>2, <1>3, <1>4, <1>5 DEF IInv, Owned, TypeOK, TokenRow
  <1>8. \A o \in Session : req'[o].pc \in {"flip", "clean", "commit"} =>
          req'[o] = req[o] /\ user'[req[o].user] = user[req[o].user]
    BY <1>2, <1>3, <1>4, <1>5 DEF IInv, Activating
  <1>9. Activating'
    BY <1>2, <1>8 DEF IInv, Activating, ActivationOf
  <1>10. Flipped' /\ Alone'
    BY <1>2, <1>8 DEF IInv, Flipped, Alone, InFlight
  <1>11. Doomed'
    BY <1>2, <1>8 DEF IInv, Doomed, ActivationOf
  <1>12. ByMail' /\ ProofOfMailbox'
    BY <1>1, <1>2, <1>3, <1>4, <1>5 DEF IInv, ByMail, ProofOfMailbox
  <1> QED BY <1>6, <1>7, <1>9, <1>10, <1>11, <1>12 DEF IInv

\* A token row t that was fresh: nobody's request depends on what was there.
LEMMA InsertKeeps ==
    ASSUME IInv, NEW s \in Session, NEW t \in Token, req[s].pc = "issue", Fresh(t), End(s),
           token' = [token EXCEPT ![t] = [owner |-> req[s].user, scope |-> req[s].scope,
                                          left |-> TTL(req[s].scope)]],
           mail' \in [Token -> User \cup {Null}], knows' \subseteq Token,
           UNCHANGED <<user, reached>>,
           \A x \in Token \ {t} : mail'[x] = mail[x] /\ (x \in knows' => x \in knows),
           mail'[t] # Null => mail'[t] = req[s].user,
           t \in knows' => req[s].scope # "activation"
    PROVE  IInv'
  <1> DEFINE r == [owner |-> req[s].user, scope |-> req[s].scope, left |-> TTL(req[s].scope)]
  <1>1. req[s] \in Request /\ req[s].user \in User /\ user[req[s].user] # Null
    BY DEF IInv, Owned, TypeOK
  <1>2. r \in TokenRow /\ r.owner = req[s].user /\ r.scope = req[s].scope /\ r # Null
    <2>1. req[s].scope \in Scope /\ TTL(req[s].scope) \in Nat
      BY <1>1, TTLAssumption DEF Request, TTL, TTLAssumption
    <2>2. r \in TokenRow
      BY <1>1, <2>1 DEF TokenRow
    <2> QED BY <2>2, RowsAreThere
  <1> HIDE DEF r
  <1>3. /\ token' \in [Token -> TokenRow \cup {Null}] /\ token'[t] = r
        /\ \A x \in Token \ {t} : token'[x] = token[x]
    BY <1>2 DEF IInv, TypeOK, r
  <1>4. /\ req' \in [Session -> Request] /\ req'[s].pc = "idle"
        /\ \A o \in Session \ {s} : req'[o] = req[o]
    BY IdleIsRequest DEF IInv, TypeOK, End
  <1>5. TypeOK'
    BY <1>3, <1>4 DEF IInv, TypeOK
  <1>6. Owned'
    BY <1>1, <1>2, <1>3, <1>4 DEF IInv, Owned
  <1>7. \A o \in Session : req[o].token # t /\ t \notin req[o].gone
    BY DEF Fresh
  <1>8. Activating'
    BY <1>3, <1>4, <1>7 DEF IInv, Activating, ActivationOf
  <1>9. Flipped' /\ Alone'
    BY <1>4 DEF IInv, Flipped, Alone, InFlight
  <1>10. Doomed'
    <2> SUFFICES ASSUME NEW o \in Session, req'[o].pc = "commit"
                 PROVE  /\ req'[o].token \in req'[o].gone
                        /\ \A x \in req'[o].gone : ActivationOf(x, req[o].user)'
      BY DEF Doomed, ActivationOf
    <2>1. req'[o] = req[o] /\ req[o].gone \subseteq Token
      BY <1>4 DEF IInv, TypeOK, Request
    <2> QED BY <1>3, <1>7, <2>1 DEF IInv, Doomed, ActivationOf
  <1>11. ByMail' /\ ProofOfMailbox'
    BY <1>2, <1>3, <1>4 DEF IInv, ByMail, ProofOfMailbox
  <1> QED BY <1>5, <1>6, <1>8, <1>9, <1>10, <1>11 DEF IInv

LEMMA ValuesAreTokens == \A scope \in Scope : ValuesFor(scope) \subseteq Token
  BY DEF ValuesFor, Token

LEMMA IssueKeeps ==
    ASSUME IInv, NEW s \in Session, NEW t \in Token, Issue(s, t) \/ IssueUnheard(s, t)
    PROVE  IInv'
  <1>1. req[s].user \in User /\ req[s].pc = "issue"
    BY DEF IInv, Owned, Issue, IssueUnheard
  <1>2. CASE Issue(s, t) /\ req[s].scope = "activation"
    BY <1>1, <1>2, InsertKeeps DEF Issue, IInv, TypeOK
  <1>3. CASE Issue(s, t) /\ req[s].scope # "activation"
    <2>1. mail' = mail /\ mail[t] = Null /\ knows' = knows \cup {t}
      BY <1>3 DEF Issue, Fresh
    <2> QED BY <1>1, <1>3, <2>1, InsertKeeps DEF Issue, IInv, TypeOK
  <1>4. CASE IssueUnheard(s, t)
    <2>1. mail' = mail /\ mail[t] = Null /\ knows' = knows \ {t}
      BY <1>4 DEF IssueUnheard, Fresh
    <2> QED BY <1>1, <1>4, <2>1, InsertKeeps DEF IssueUnheard, IInv, TypeOK
  <1> QED BY <1>2, <1>3, <1>4

LEMMA MailKeeps ==
    ASSUME IInv, NEW t \in Token, Deliver(t) \/ MailLost(t)
    PROVE  IInv'
  <1>1. /\ mail' = [mail EXCEPT ![t] = Null] /\ mail[t] \in User /\ mail[t] # Null
        /\ UNCHANGED <<user, token, req>>
    BY DEF Deliver, MailLost, IInv, TypeOK
  <1>2. knows' \subseteq knows \cup {t} /\ reached \subseteq reached' /\ reached' \subseteq User
        /\ (t \in knows' => t \in knows \/ mail[t] \in reached')
    BY <1>1 DEF Deliver, MailLost, IInv, TypeOK
  <1>3. TypeOK'
    BY <1>1, <1>2 DEF IInv, TypeOK
  <1>4. Owned' /\ Flipped' /\ Alone'
    BY <1>1 DEF IInv, Owned, Flipped, Alone, InFlight
  <1>5. Activating' /\ Doomed'
    BY <1>1, <1>2 DEF IInv, Activating, Doomed, ActivationOf
  <1>6. ByMail' /\ ProofOfMailbox'
    BY <1>1, <1>2 DEF IInv, TypeOK, ByMail, ProofOfMailbox
  <1> QED BY <1>3, <1>4, <1>5, <1>6 DEF IInv

-----------------------------------------------------------------------------
(* The activation *)

LEMMA ActivateKeeps ==
    ASSUME IInv, NEW s \in Session, NEW t \in Token, Activate(s, t)
    PROVE  IInv'
  <1>1. t \in knows /\ token[t] \in TokenRow /\ token[t] # Null /\ token[t].scope = "activation"
    BY DEF Activate, Presents, IInv, TypeOK
  <1>0. PICK u \in User : u = token[t].owner
    BY <1>1 DEF TokenRow
  <1> DEFINE n == [Idle EXCEPT !.pc = "flip", !.token = t, !.user = u, !.version = user[u].version]
  <1>2. user[u] # Null /\ user[u] \in UserRow
    BY <1>0, <1>1 DEF IInv, TypeOK, Owned
  <1>3. u \in reached
    BY <1>0, <1>1 DEF IInv, ByMail
  <1>4. user[u].version \in Nat
    BY <1>2 DEF UserRow
  <1>5. /\ n \in Request /\ n.pc = "flip" /\ n.token = t /\ n.user = u
        /\ n.version = user[u].version
    BY <1>2, <1>4 DEF Idle, Request, Scope
  <1>6. req' = [req EXCEPT ![s] = n] /\ UNCHANGED <<user, token, mail, knows, reached>>
    BY <1>0 DEF Activate
  <1> HIDE DEF n
  <1>7. ActivationOf(n.token, n.user)
    BY <1>0, <1>1, <1>5 DEF ActivationOf
  <1>8. /\ n.user \in User /\ n.token \in Token /\ user[n.user] # Null /\ n.user \in reached
        /\ n.version <= user[n.user].version
    BY <1>2, <1>3, <1>4, <1>5
  <1> QED BY <1>5, <1>6, <1>7, <1>8, MoveKeeps

LEMMA FlipKeeps ==
    ASSUME IInv, NEW s \in Session, Flip(s)
    PROVE  IInv'
  <1> DEFINE n == [req[s] EXCEPT !.pc = "clean"]
  <1>1. req[s] \in Request /\ req[s].pc = "flip"
    BY DEF Flip, IInv, TypeOK
  <1>2. /\ n \in Request /\ n.pc = "clean" /\ n.user = req[s].user /\ n.token = req[s].token
        /\ n.version = req[s].version
    BY <1>1 DEF Request
  <1>3. req' = [req EXCEPT ![s] = n] /\ UNCHANGED <<user, token, mail, knows, reached>>
    BY DEF Flip
  <1> HIDE DEF n
  <1>4. \A o \in Session \ {s} : ~(InFlight(o) /\ req[o].user = n.user)
    BY <1>2 DEF Flip, RowFree, InFlight
  <1>5. n.version = user[n.user].version
    BY <1>2 DEF Flip, Guard
  <1> QED BY <1>1, <1>2, <1>3, <1>4, <1>5, MoveKeeps DEF IInv, Activating

LEMMA CleanKeeps ==
    ASSUME IInv, NEW s \in Session, Clean(s)
    PROVE  IInv'
  <1> DEFINE g == {t \in Token : /\ token[t] # Null /\ token[t].owner = req[s].user
                                 /\ token[t].scope = "activation"}
             n == [req[s] EXCEPT !.pc = "commit", !.gone = g]
  <1>1. req[s] \in Request /\ req[s].pc = "clean"
    BY DEF Clean, IInv, TypeOK
  <1>2. /\ n \in Request /\ n.pc = "commit" /\ n.user = req[s].user /\ n.token = req[s].token
        /\ n.version = req[s].version /\ n.gone = g
    <2>1. g \subseteq Token
      OBVIOUS
    <2> HIDE DEF g
    <2> QED BY <1>1, <2>1 DEF Request
  <1>3. req' = [req EXCEPT ![s] = n] /\ UNCHANGED <<user, token, mail, knows, reached>>
    BY <1>1 DEF Clean, IInv, TypeOK
  <1>4. \A t \in g : ActivationOf(t, req[s].user)
    BY DEF ActivationOf
  <1>5. InFlight(s) /\ req[s].version = user[req[s].user].version
    BY <1>1 DEF IInv, Flipped, InFlight
  <1>6. ActivationOf(req[s].token, req[s].user) /\ req[s].token \in Token
    BY <1>1, <1>5 DEF IInv, Activating
  <1>7. req[s].token \in g
    BY <1>6 DEF ActivationOf
  <1> HIDE DEF n, g
  <1>8. \A o \in Session \ {s} : ~(InFlight(o) /\ req[o].user = n.user)
    BY <1>2, <1>5 DEF IInv, Alone
  <1> QED BY <1>1, <1>2, <1>3, <1>4, <1>5, <1>6, <1>7, <1>8, MoveKeeps DEF IInv, Activating

\* What the commit of an activation finds.
LEMMA CommitFinds ==
    ASSUME IInv, NEW s \in Session, req[s].pc = "commit"
    PROVE  /\ req[s] \in Request /\ req[s].user \in User
           /\ user[req[s].user] \in UserRow /\ user[req[s].user] # Null
           /\ req[s].user \in reached
           /\ req[s].token \in req[s].gone
           /\ req[s].gone \subseteq Token
           /\ \A t \in req[s].gone : ActivationOf(t, req[s].user)
           /\ \A o \in Session \ {s} : InFlight(o) => req[o].user # req[s].user
  BY DEF IInv, TypeOK, Activating, Doomed, Alone, InFlight, Request

LEMMA CommitKeeps ==
    ASSUME IInv, NEW s \in Session, Commit(s)
    PROVE  IInv'
  <1>0. PICK u \in User : u = req[s].user
    BY CommitFinds DEF Commit
  <1> DEFINE r == [activated |-> TRUE, version |-> user[u].version + 1]
             g == req[s].gone
  <1>1. /\ user[u] \in UserRow /\ user[u] # Null /\ u \in reached /\ g \subseteq Token
        /\ \A t \in g : ActivationOf(t, u)
        /\ \A o \in Session \ {s} : InFlight(o) => req[o].user # u
    BY <1>0, CommitFinds DEF Commit
  <1>2. r \in UserRow /\ r # Null /\ r.activated /\ r.version = user[u].version + 1
        /\ user[u].version \in Nat \ {0}
    <2>1. user[u].version \in Nat \ {0}
      BY <1>1 DEF UserRow
    <2>2. r \in UserRow
      BY <2>1 DEF UserRow
    <2> QED BY <2>1, <2>2, RowsAreThere
  <1>3. user' = [user EXCEPT ![u] = r] /\ UNCHANGED <<mail, knows, reached>>
    BY <1>0 DEF Commit
  <1>4. \A t \in Token : token'[t] = IF t \in g THEN Null ELSE token[t]
    BY DEF Commit
  <1>5. token' \in [Token -> TokenRow \cup {Null}]
    BY DEF Commit, IInv, TypeOK
  <1> HIDE DEF r
  <1>6. user'[u] = r /\ user' \in [User -> UserRow \cup {Null}]
        /\ \A v \in User \ {u} : user'[v] = user[v]
    BY <1>2, <1>3 DEF IInv, TypeOK
  <1>7. /\ req' \in [Session -> Request] /\ req'[s].pc = "idle"
        /\ \A o \in Session \ {s} : req'[o] = req[o]
    BY IdleIsRequest DEF IInv, TypeOK, End, Commit
  <1>8. TypeOK'
    BY <1>2, <1>3, <1>5, <1>6, <1>7 DEF IInv, TypeOK
  <1>9. Owned'
    <2>1. \A t \in Token : token'[t] # Null => token'[t] = token[t] /\ token[t] \in TokenRow
      BY <1>4 DEF IInv, TypeOK
    <2>2. \A v \in User : user[v] # Null => user'[v] # Null
      BY <1>2, <1>6
    <2> QED BY <1>7, <2>1, <2>2 DEF IInv, Owned, TokenRow
  <1>10. ASSUME NEW o \in Session, o # s, req[o].pc \in {"flip", "clean", "commit"}
         PROVE  /\ req[o].user \in User /\ req[o].token \in Token /\ user[req[o].user] # Null
                /\ req[o].user \in reached /\ req[o].version \in Nat
                /\ user[req[o].user].version \in Nat
                /\ req[o].version <= user[req[o].user].version
                /\ req[o].version = user[req[o].user].version =>
                     ActivationOf(req[o].token, req[o].user)
    BY <1>10 DEF IInv, Activating, TypeOK, Request, UserRow
  <1>11. \A x \in Token, v \in User : v # u /\ ActivationOf(x, v) => ActivationOf(x, v)'
    BY <1>1, <1>4 DEF ActivationOf
  <1>12. Activating'
    <2> SUFFICES ASSUME NEW o \in Session, req'[o].pc \in {"flip", "clean", "commit"}
                 PROVE  /\ req[o].user \in User /\ req[o].token \in Token
                        /\ user'[req[o].user] # Null
                        /\ req[o].user \in reached
                        /\ req[o].version <= user'[req[o].user].version
                        /\ req[o].version = user'[req[o].user].version =>
                             ActivationOf(req[o].token, req[o].user)'
      BY <1>3, <1>7 DEF Activating, ActivationOf
    <2>1. o # s /\ req'[o] = req[o]
      BY <1>7
    <2>2. CASE req[o].user = u
      BY <1>2, <1>6, <1>10, <2>1, <2>2
    <2>3. CASE req[o].user # u
      BY <1>6, <1>10, <1>11, <2>1, <2>3
    <2> QED BY <2>2, <2>3
  <1>13. Flipped' /\ Alone'
    <2>1. \A o \in Session : InFlight(o)' =>
            InFlight(o) /\ req'[o] = req[o] /\ req[o].user \in User /\ req[o].user # u
      BY <1>1, <1>7, <1>10 DEF InFlight
    <2> QED BY <1>6, <2>1 DEF IInv, Flipped, Alone
  <1>14. Doomed'
    <2> SUFFICES ASSUME NEW o \in Session, req'[o].pc = "commit"
                 PROVE  /\ req'[o].token \in req'[o].gone
                        /\ \A x \in req'[o].gone : ActivationOf(x, req[o].user)'
      BY DEF Doomed, ActivationOf
    <2>1. o # s /\ req'[o] = req[o] /\ req[o].user # u /\ req[o].user \in User
          /\ req[o].gone \subseteq Token
      BY <1>1, <1>7, <1>10 DEF InFlight, IInv, TypeOK, Request
    <2> QED BY <1>11, <2>1 DEF IInv, Doomed
  <1>15. ByMail' /\ ProofOfMailbox'
    <2>1. \A t \in Token : token'[t] # Null => token'[t] = token[t]
      BY <1>4
    <2> QED BY <1>1, <1>3, <1>6, <1>7, <2>1 DEF IInv, TypeOK, ByMail, ProofOfMailbox
  <1> QED BY <1>8, <1>9, <1>12, <1>13, <1>14, <1>15 DEF IInv

-----------------------------------------------------------------------------
(* Requests behind a permission, and time *)

LEMMA AuthenticateKeeps ==
    ASSUME IInv, NEW s \in Session, NEW t \in Token, Authenticate(s, t)
    PROVE  IInv'
  <1>1. token[t] \in TokenRow /\ token[t] # Null
    BY DEF Authenticate, Presents, IInv, TypeOK
  <1>2. PICK u \in User : u = token[t].owner
    BY <1>1 DEF TokenRow
  <1> DEFINE n == [Idle EXCEPT !.pc = "judge", !.token = t, !.user = u,
                               !.activated = user[u].activated]
  <1>3. user[u] # Null /\ user[u] \in UserRow
    BY <1>1, <1>2 DEF IInv, TypeOK, Owned
  <1>4. user[u].activated \in BOOLEAN
    BY <1>3 DEF UserRow
  <1>5. user[u].activated => u \in reached
    BY <1>3 DEF IInv, ProofOfMailbox
  <1>6. n \in Request /\ n.pc = "judge" /\ n.user = u
    BY <1>4 DEF Idle, Request, Scope
  <1>7. n.activated <=> user[u].activated
    BY Zenon DEF Idle
  <1>8. req' = [req EXCEPT ![s] = n] /\ UNCHANGED <<user, token, mail, knows, reached>>
    BY <1>2 DEF Authenticate
  <1> HIDE DEF n
  <1> QED BY <1>5, <1>6, <1>7, <1>8, MoveKeeps

LEMMA PermissionKeeps ==
    ASSUME IInv, NEW s \in Session, RequirePermission(s)
    PROVE  IInv'
  <1>1. CASE ~ req[s].activated
    BY <1>1, EndKeeps DEF RequirePermission
  <1>2. CASE req[s].activated
    <2> DEFINE n == [req[s] EXCEPT !.pc = "serve"]
    <2>1. req[s] \in Request /\ req[s].pc = "judge"
      BY DEF RequirePermission, IInv, TypeOK
    <2>2. n \in Request /\ n.pc = "serve" /\ n.user = req[s].user
      BY <2>1 DEF Request
    <2>3. req' = [req EXCEPT ![s] = n] /\ UNCHANGED <<user, token, mail, knows, reached>>
      BY <1>2 DEF RequirePermission
    <2>4. req[s].user \in reached
      BY <1>2, <2>1 DEF IInv, ByMail
    <2> HIDE DEF n
    <2> QED BY <2>2, <2>3, <2>4, MoveKeeps
  <1> QED BY <1>1, <1>2

\* A day changes nothing about a token but its life.
LEMMA TickIs ==
    ASSUME IInv, Tick
    PROVE  /\ token' \in [Token -> TokenRow \cup {Null}]
           /\ \A t \in Token : /\ token'[t] = Null <=> token[t] = Null
                               /\ token[t] # Null => /\ token'[t].owner = token[t].owner
                                                     /\ token'[t].scope = token[t].scope
           /\ UNCHANGED <<user, mail, knows, reached, req>>
  <1> DEFINE older(t) == [token[t] EXCEPT !.left = @ - 1]
  <1>1. \A t \in Token : token'[t] = IF token[t] # Null /\ token[t].left > 0
                                     THEN older(t) ELSE token[t]
    BY DEF Tick
  <1>2. ASSUME NEW t \in Token, token[t] # Null, token[t].left > 0
        PROVE  /\ older(t) \in TokenRow /\ older(t) # Null
               /\ older(t).owner = token[t].owner /\ older(t).scope = token[t].scope
    <2>1. token[t] \in TokenRow
      BY <1>2 DEF IInv, TypeOK
    <2>2. older(t) \in TokenRow /\ older(t).owner = token[t].owner
          /\ older(t).scope = token[t].scope
      BY <1>2, <2>1 DEF TokenRow
    <2> HIDE DEF older
    <2> QED BY <2>2, RowsAreThere
  <1>3. token' = [t \in Token |-> token'[t]]
    BY DEF Tick
  <1> HIDE DEF older
  <1>4. \A t \in Token : token'[t] \in TokenRow \cup {Null}
    BY <1>1, <1>2 DEF IInv, TypeOK
  <1>5. token' \in [Token -> TokenRow \cup {Null}]
    BY <1>3, <1>4
  <1> QED BY <1>1, <1>2, <1>5 DEF Tick

LEMMA TickKeeps ==
    ASSUME IInv, Tick
    PROVE  IInv'
  <1>1. TypeOK'
    BY TickIs DEF IInv, TypeOK
  <1>2. Owned' /\ Flipped' /\ Alone'
    BY TickIs DEF IInv, Owned, Flipped, Alone, InFlight
  <1>3. \A t \in Token, u \in User : ActivationOf(t, u) => ActivationOf(t, u)'
    BY TickIs DEF ActivationOf
  <1>4. Activating'
    BY TickIs, <1>3 DEF IInv, Activating
  <1>5. Doomed'
    BY TickIs DEF Tick, Doomed
  <1>6. ByMail' /\ ProofOfMailbox'
    BY TickIs DEF IInv, TypeOK, ByMail, ProofOfMailbox
  <1> QED BY <1>1, <1>2, <1>4, <1>5, <1>6 DEF IInv

LEMMA StepKeeps == IInv /\ [Next]_vars => IInv'
  <1> SUFFICES ASSUME IInv, [Next]_vars
               PROVE  IInv'
    OBVIOUS
  <1>1. ASSUME NEW s \in Session, NEW u \in User, Register(s, u) \/ Resend(s, u) \/ Login(s, u)
        PROVE  IInv'
    <2>1. CASE Register(s, u)
      BY <2>1, RegisterKeeps
    <2>2. CASE Resend(s, u) \/ Login(s, u)
      <3>1. user[u] # Null /\ UNCHANGED <<user, token, mail, knows, reached>>
        BY <2>2 DEF Resend, Login
      <3>2. PICK n \in Request : req' = [req EXCEPT ![s] = n] /\ n.pc = "issue" /\ n.user = u
        BY <2>2, ToIssueIs DEF Resend, Login, Scope
      <3> QED BY <3>1, <3>2, MoveKeeps
    <2> QED BY <1>1, <2>1, <2>2
  <1>2. ASSUME NEW s \in Session, EditConflict(s) \/ Fail(s)
        PROVE  IInv'
    BY <1>2, EndKeeps DEF EditConflict, Fail
  <1>3. CASE UNCHANGED vars
    BY <1>3 DEF vars, IInv, TypeOK, Owned, Activating, Flipped, Alone, Doomed, ByMail,
                ProofOfMailbox, InFlight, ActivationOf
  <1> QED BY <1>1, <1>2, <1>3, IssueKeeps, MailKeeps, ActivateKeeps, FlipKeeps, CleanKeeps,
             CommitKeeps, AuthenticateKeeps, PermissionKeeps, TickKeeps DEF Next

LEMMA Invariant == Safety => []IInv
  BY InitIInv, StepKeeps, PTL DEF Safety

-----------------------------------------------------------------------------

\* The tables and requests have their types, and a users row is activated
\* exactly when its version says so.
THEOREM TypeCorrect == Safety => []TypeOK
  <1>1. IInv => TypeOK
    BY DEF IInv
  <1> QED BY <1>1, Invariant, PTL

\* Without a mail that has reached the address there is no activated account
\* and no request served under a permission.
THEOREM MailboxProved == Safety => []ProofOfMailbox
  <1>1. IInv => ProofOfMailbox
    BY DEF IInv
  <1> QED BY <1>1, Invariant, PTL

\* The commit of an activation finds its token and takes it out.
THEOREM SpentOnce == Safety => TokenIsSpent
  <1>1. IInv /\ [Next]_vars =>
          [\A s \in Session : Commit(s) => /\ token[req[s].token] # Null
                                           /\ token'[req[s].token] = Null]_vars
    <2> SUFFICES ASSUME IInv, NEW s \in Session, Commit(s)
                 PROVE  token[req[s].token] # Null /\ token'[req[s].token] = Null
      OBVIOUS
    <2>1. req[s].token \in req[s].gone /\ req[s].gone \subseteq Token
          /\ ActivationOf(req[s].token, req[s].user)
      BY CommitFinds DEF Commit
    <2> QED BY <2>1 DEF Commit, ActivationOf
  <1> QED BY <1>1, Invariant, PTL DEF Safety, TokenIsSpent

\* Tokens disappear only with the activation of their owner.
THEOREM CleanedWithTheFlip == Safety => CleanupIsTheFlip
  <1>1. ASSUME IInv, [Next]_vars, NEW t \in Token, token[t] # Null, token'[t] = Null
        PROVE  /\ token[t].scope = "activation"
               /\ user'[token[t].owner].version > user[token[t].owner].version
    <2>1. ASSUME NEW s \in Session, Commit(s)
          PROVE  /\ token[t].scope = "activation"
                 /\ user'[token[t].owner].version > user[token[t].owner].version
      <3>1. t \in req[s].gone
        BY <1>1, <2>1 DEF Commit
      <3>2. /\ ActivationOf(t, req[s].user) /\ req[s].user \in User
            /\ user[req[s].user] \in UserRow
        BY <1>1, <2>1, <3>1, CommitFinds DEF Commit
      <3>3. user'[req[s].user].version = user[req[s].user].version + 1
        BY <1>1, <2>1, <3>2 DEF Commit, IInv, TypeOK
      <3> QED BY <3>2, <3>3 DEF ActivationOf, UserRow
    <2>2. ASSUME NEW s \in Session, NEW x \in Token, Issue(s, x) \/ IssueUnheard(s, x)
          PROVE  FALSE
      <3>1. req[s] \in Request /\ req[s].user \in User
        BY <1>1, <2>2 DEF IInv, TypeOK, Owned, Issue, IssueUnheard
      <3>2. req[s].scope \in Scope /\ TTL(req[s].scope) \in Nat
        BY <3>1, TTLAssumption DEF Request, TTL, TTLAssumption
      <3>3. token' = [token EXCEPT ![x] = [owner |-> req[s].user, scope |-> req[s].scope,
                                           left |-> TTL(req[s].scope)]]
        BY <2>2 DEF Issue, IssueUnheard
      <3>4. [owner |-> req[s].user, scope |-> req[s].scope,
             left |-> TTL(req[s].scope)] \in TokenRow
        BY <3>1, <3>2 DEF TokenRow
      <3> QED BY <1>1, <3>3, <3>4, RowsAreThere DEF IInv, TypeOK
    <2>3. CASE Tick
      BY <1>1, <2>3, TickIs
    <2>4. CASE token' = token
      BY <1>1, <2>4
    <2> QED BY <1>1, <2>1, <2>2, <2>3, <2>4
            DEF Next, vars, Register, Resend, Login, Activate, Authenticate, Flip, EditConflict,
                Clean, RequirePermission, Fail, Deliver, MailLost
  <1>2. IInv /\ [Next]_vars =>
          [\A t \in Token : token[t] # Null /\ token'[t] = Null =>
             /\ token[t].scope = "activation"
             /\ user'[token[t].owner].version > user[token[t].owner].version]_vars
    BY <1>1
  <1> QED BY <1>2, Invariant, PTL DEF Safety, CleanupIsTheFlip
=============================================================================
