------------------------------ MODULE Accounts ------------------------------
(***************************************************************************)
(* User accounts (internal/identity, internal/api/users.go and             *)
(* user_tokens.go): registration, the mail with the activation token, its  *)
(* resend, activation, authentication, and the requests that need a        *)
(* permission.  Every statement is a step; only the activation runs in a   *)
(* transaction, under READ COMMITTED.                                      *)
(*                                                                         *)
(* Token is a set of values, not of rows: a value that nobody holds any    *)
(* more stands for a fresh one of crypto/rand.  Each scope draws from its  *)
(* own values, so that none uses up the other's.  Time is kept as the days *)
(* a token row has left, so that it passes without a bound.                *)
(***************************************************************************)
EXTENDS Naturals, FiniteSets

CONSTANTS User,              \* e-mail addresses
          Mailed, Answered,  \* values of activation and of authentication tokens
          Session,           \* requests in flight
          Null,
          ActivationTTL,     \* constants.ActivationTokenTTL, in ticks
          AuthenticationTTL, \* constants.AuthenticationTokenTTL, in ticks
          MaxVersion         \* bound of the model: versions of a users row

Scope == {"activation", "authentication"}
Token == Mailed \cup Answered

ASSUME TTLAssumption == /\ ActivationTTL \in Nat \ {0}
                        /\ AuthenticationTTL \in Nat \ {0}
                        /\ MaxVersion \in Nat
ASSUME NullAssumption == Null \notin User \cup Token

VARIABLES user,    \* users rows, or Null
          token,   \* user_tokens rows, or Null
          mail,    \* mail[t]: to whom the background task is sending t, or Null
          knows,   \* tokens a client has received
          reached, \* users who have received a mail at their address
          req      \* requests in flight

vars == <<user, token, mail, knows, reached, req>>

UserRow == [activated : BOOLEAN, version : Nat \ {0}]
TokenRow == [owner : User, scope : Scope, left : Nat]

ASSUME RowAssumption == Null \notin UserRow \cup TokenRow

\* "issue": about to insert a token; "flip", "clean", "commit": inside the
\* transaction of an activation; "judge", "serve": in requirePermission and
\* behind it.
Request == [pc : {"idle", "issue", "flip", "clean", "commit", "judge", "serve"},
            user : User \cup {Null}, token : Token \cup {Null},
            scope : Scope, version : Nat, activated : BOOLEAN,
            gone : SUBSET Token]

Idle == [pc |-> "idle", user |-> Null, token |-> Null, scope |-> "activation",
         version |-> 0, activated |-> FALSE, gone |-> {}]

\* Activation is the only writer of a users row, so its version tells.
TypeOK ==
  /\ user \in [User -> UserRow \cup {Null}]
  /\ \A u \in User : user[u] # Null => (user[u].activated <=> user[u].version > 1)
  /\ token \in [Token -> TokenRow \cup {Null}]
  /\ mail \in [Token -> User \cup {Null}]
  /\ knows \subseteq Token
  /\ reached \subseteq User
  /\ req \in [Session -> Request]

Init ==
  /\ user = [u \in User |-> Null]
  /\ token = [t \in Token |-> Null]
  /\ mail = [t \in Token |-> Null]
  /\ knows = {}
  /\ reached = {}
  /\ req = [s \in Session |-> Idle]

-----------------------------------------------------------------------------
(* Helpers *)

\* VARIANT: the lookup forgets the scope.
PresentsAnyScope(t, scope) ==
  /\ token[t] # Null
  /\ token[t].left > 0

\* getForToken: hash, scope, expiry > now().
Presents(t, scope) ==
  /\ token[t] # Null
  /\ token[t].scope = scope
  /\ token[t].left > 0

ValuesFor(scope) == IF scope = "activation" THEN Mailed ELSE Answered

\* A value is fresh when no mail and no request carries it and no client can
\* use it: a row that has expired, or that nobody will ever name, makes way.
Fresh(t) ==
  /\ ~ (t \in knows /\ token[t] # Null /\ token[t].left > 0)
  /\ mail[t] = Null
  /\ \A s \in Session : req[s].token # t /\ t \notin req[s].gone

\* The users row is locked from its UPDATE to the end of the transaction.
RowFree(u) == \A s \in Session :
                req[s].pc \in {"clean", "commit"} => req[s].user # u

TTL(scope) == IF scope = "activation" THEN ActivationTTL ELSE AuthenticationTTL

End(s) == req' = [req EXCEPT ![s] = Idle]

ToIssue(s, u, scope) ==
  req' = [req EXCEPT ![s] = [Idle EXCEPT !.pc = "issue", !.user = u, !.scope = scope]]

-----------------------------------------------------------------------------
(* registerUserHandler *)

\* UserStore.Insert commits by itself; the unique index on the address refuses
\* a second account, and the request ends with a 422.
Register(s, u) ==
  /\ req[s].pc = "idle"
  /\ user[u] = Null
  /\ user' = [user EXCEPT ![u] = [activated |-> FALSE, version |-> 1]]
  /\ ToIssue(s, u, "activation")
  /\ UNCHANGED <<token, mail, knows, reached>>

(* createActivationTokenHandler *)

\* VARIANT: no second token for a user who has one.
ResendOnce(s, u) ==
  /\ \A t \in Token : token[t] # Null => token[t].owner # u
  /\ req[s].pc = "idle"
  /\ user[u] # Null
  /\ ~ user[u].activated
  /\ ToIssue(s, u, "activation")
  /\ UNCHANGED <<user, token, mail, knows, reached>>

\* GetByEmail: nobody by that address, or already activated, ends the request.
Resend(s, u) ==
  /\ req[s].pc = "idle"
  /\ user[u] # Null
  /\ ~ user[u].activated
  /\ ToIssue(s, u, "activation")
  /\ UNCHANGED <<user, token, mail, knows, reached>>

(* createAuthenticationTokenHandler, with the right password; it does not ask
   whether the account is activated. *)
Login(s, u) ==
  /\ req[s].pc = "idle"
  /\ user[u] # Null
  /\ ToIssue(s, u, "authentication")
  /\ UNCHANGED <<user, token, mail, knows, reached>>

\* UserTokenStore.New inserts the row.  An activation token leaves by mail, an
\* authentication token in the answer.  If the request fails although the row
\* was inserted, nobody ever learns the value.
Issue(s, t) ==
  /\ req[s].pc = "issue"
  /\ t \in ValuesFor(req[s].scope)
  /\ Fresh(t)
  /\ token' = [token EXCEPT ![t] = [owner |-> req[s].user, scope |-> req[s].scope,
                                    left |-> TTL(req[s].scope)]]
  /\ IF req[s].scope = "activation"
       THEN /\ mail' = [mail EXCEPT ![t] = req[s].user]
            /\ knows' = knows \ {t}
       ELSE /\ knows' = knows \cup {t}
            /\ UNCHANGED mail
  /\ End(s)
  /\ UNCHANGED <<user, reached>>

IssueUnheard(s, t) ==
  /\ req[s].pc = "issue"
  /\ t \in ValuesFor(req[s].scope)
  /\ Fresh(t)
  /\ token' = [token EXCEPT ![t] = [owner |-> req[s].user, scope |-> req[s].scope,
                                    left |-> TTL(req[s].scope)]]
  /\ knows' = knows \ {t}
  /\ End(s)
  /\ UNCHANGED <<user, mail, reached>>

\* The background task: Mailer.Send succeeds, or gives up (its retries, the
\* shutdown, a crash).
Deliver(t) ==
  /\ mail[t] # Null
  /\ knows' = knows \cup {t}
  /\ reached' = reached \cup {mail[t]}
  /\ mail' = [mail EXCEPT ![t] = Null]
  /\ UNCHANGED <<user, token, req>>

MailLost(t) ==
  /\ mail[t] # Null
  /\ mail' = [mail EXCEPT ![t] = Null]
  /\ UNCHANGED <<user, token, knows, reached, req>>

-----------------------------------------------------------------------------
(* activateUserHandler, Store.Activate *)

\* Begin and GetForTokenTx; any other token ends the request with a 422.
Activate(s, t) ==
  /\ req[s].pc = "idle"
  /\ t \in knows
  /\ Presents(t, "activation")
  /\ req' = [req EXCEPT ![s] = [Idle EXCEPT !.pc = "flip", !.token = t,
                                !.user = token[t].owner,
                                !.version = user[token[t].owner].version]]
  /\ UNCHANGED <<user, token, mail, knows, reached>>

\* VARIANT: the guard is dropped.
NoGuard(s) == TRUE

\* UpdateTx: ... WHERE id = $5 AND version = $6, evaluated again after a wait.
Guard(s) == user[req[s].user].version = req[s].version

Flip(s) ==
  /\ req[s].pc = "flip"
  /\ RowFree(req[s].user)
  /\ Guard(s)
  /\ user[req[s].user].version < MaxVersion
  /\ req' = [req EXCEPT ![s].pc = "clean"]
  /\ UNCHANGED <<user, token, mail, knows, reached>>

\* No row: ErrEditConflict, 409.
EditConflict(s) ==
  /\ req[s].pc = "flip"
  /\ RowFree(req[s].user)
  /\ ~ Guard(s)
  /\ End(s)
  /\ UNCHANGED <<user, token, mail, knows, reached>>

\* VARIANT: DeleteAllForUser, on the pool.
CleanOnPool(s) ==
  /\ req[s].pc = "clean"
  /\ req' = [req EXCEPT ![s].pc = "commit"]
  /\ token' = [t \in Token |-> IF token[t] # Null /\ token[t].owner = req[s].user
                                    /\ token[t].scope = "activation"
                                 THEN Null ELSE token[t]]
  /\ UNCHANGED <<user, mail, knows, reached>>

\* DeleteAllForUserTx deletes what its own snapshot shows.
Clean(s) ==
  /\ req[s].pc = "clean"
  /\ req' = [req EXCEPT ![s].pc = "commit",
                        ![s].gone = {t \in Token : /\ token[t] # Null
                                                   /\ token[t].owner = req[s].user
                                                   /\ token[t].scope = "activation"}]
  /\ UNCHANGED <<user, token, mail, knows, reached>>

\* VARIANT: the row keeps its version.
CommitUnversioned(s) ==
  /\ req[s].pc = "commit"
  /\ LET u == req[s].user
     IN user' = [user EXCEPT ![u] = [activated |-> TRUE, version |-> user[u].version]]
  /\ token' = [t \in Token |-> IF t \in req[s].gone THEN Null ELSE token[t]]
  /\ End(s)
  /\ UNCHANGED <<mail, knows, reached>>

Commit(s) ==
  /\ req[s].pc = "commit"
  /\ LET u == req[s].user
     IN user' = [user EXCEPT ![u] = [activated |-> TRUE, version |-> user[u].version + 1]]
  /\ token' = [t \in Token |-> IF t \in req[s].gone THEN Null ELSE token[t]]
  /\ End(s)
  /\ UNCHANGED <<mail, knows, reached>>

-----------------------------------------------------------------------------
(* A request for something that needs a permission: authenticate reads the
   user behind the token, requirePermission judges what was read. *)

Authenticate(s, t) ==
  /\ req[s].pc = "idle"
  /\ t \in knows
  /\ Presents(t, "authentication")
  /\ req' = [req EXCEPT ![s] = [Idle EXCEPT !.pc = "judge", !.token = t,
                                !.user = token[t].owner,
                                !.activated = user[token[t].owner].activated]]
  /\ UNCHANGED <<user, token, mail, knows, reached>>

RequirePermission(s) ==
  /\ req[s].pc = "judge"
  /\ IF req[s].activated
       THEN req' = [req EXCEPT ![s].pc = "serve"]
       ELSE End(s)
  /\ UNCHANGED <<user, token, mail, knows, reached>>

-----------------------------------------------------------------------------
\* The end of any request: served, refused, DBTimeout, a client that leaves, a
\* crash.  What it did in a transaction is rolled back.
Fail(s) ==
  /\ req[s].pc # "idle"
  /\ End(s)
  /\ UNCHANGED <<user, token, mail, knows, reached>>

\* A day passes, between requests: none lives longer than DBTimeout, three
\* seconds, and nothing a request does after its lookup asks for the expiry.
Tick ==
  /\ \A s \in Session : req[s].pc = "idle"
  /\ \E t \in Token : token[t] # Null /\ token[t].left > 0
  /\ token' = [t \in Token |->
                 IF token[t] # Null /\ token[t].left > 0
                   THEN [token[t] EXCEPT !.left = @ - 1] ELSE token[t]]
  /\ UNCHANGED <<user, mail, knows, reached, req>>

Next ==
  \/ \E s \in Session :
       \/ \E u \in User : Register(s, u) \/ Resend(s, u) \/ Login(s, u)
       \/ \E t \in Token : Issue(s, t) \/ IssueUnheard(s, t)
       \/ \E t \in Token : Activate(s, t) \/ Authenticate(s, t)
       \/ Flip(s) \/ EditConflict(s) \/ Clean(s) \/ Commit(s)
       \/ RequirePermission(s)
       \/ Fail(s)
  \/ \E t \in Token : Deliver(t) \/ MailLost(t)
  \/ Tick

Safety == Init /\ [][Next]_vars

\* A user who keeps asking, and whose requests do not fail and mails do not get
\* lost or late every time.
Persistent(u) ==
  /\ SF_vars(\E s \in Session : Resend(s, u))
  /\ SF_vars(\E s \in Session, t \in Token :
               req[s].user = u /\ req[s].scope = "activation" /\ Issue(s, t))
  /\ SF_vars(\E t \in Token :
               mail[t] = u /\ Presents(t, "activation") /\ Deliver(t))
  /\ SF_vars(\E s \in Session, t \in Token :
               token[t] # Null /\ token[t].owner = u /\ Activate(s, t))
  /\ SF_vars(\E s \in Session : req[s].user = u /\ Flip(s))
  /\ SF_vars(\E s \in Session : req[s].user = u /\ Clean(s))
  /\ SF_vars(\E s \in Session : req[s].user = u /\ Commit(s))

\* No request and no background task lasts for ever.
Spec == /\ Safety
        /\ \A t \in Token : WF_vars(Deliver(t) \/ MailLost(t))
        /\ \A s \in Session : WF_vars(Fail(s))
        /\ \A u \in User : Persistent(u)

-----------------------------------------------------------------------------
(* Properties *)

\* An account is activated, and a request of its owner is served under a
\* permission, only after a mail has reached the address: whoever holds only
\* the password (and the authentication token it buys) gets neither.
ProofOfMailbox ==
  /\ \A u \in User : user[u] # Null /\ user[u].activated => u \in reached
  /\ \A s \in Session : req[s].pc = "serve" => req[s].user \in reached

\* A token activates once: at the commit of an activation the token that was
\* presented is still in the table, and that step takes it out.  Two requests
\* with one token, or with two tokens of one user, cannot both have it.
TokenIsSpent ==
  [][\A s \in Session : Commit(s) =>
       /\ token[req[s].token] # Null
       /\ token'[req[s].token] = Null]_vars

\* The flip and the cleanup are one unit (internal/identity/activation.go):
\* token rows disappear only in a step that activates their owner, and only
\* those of the activation scope.  No failure leaves one without the other.
CleanupIsTheFlip ==
  [][\A t \in Token : token[t] # Null /\ token'[t] = Null =>
       /\ token[t].scope = "activation"
       /\ user'[token[t].owner].version > user[token[t].owner].version]_vars

\* Whatever fails between the insert of the user, that of the token and the
\* mail, and however often: a registered user who keeps asking for another
\* token gets in.
NobodyLockedOut ==
  \A u \in User : user[u] # Null ~> (user[u] # Null /\ user[u].activated)
=============================================================================
