------------------------------ MODULE Sessions ------------------------------
(***************************************************************************)
(* Passwords and login sessions in PostgresStore.  LoginAgent and          *)
(* LoginAdmin read the account and insert the session as two statements,   *)
(* each a transaction of its own.  The operations that end sessions lock   *)
(* the account's row, change it, revoke the sessions they see, and commit  *)
(* later: DisableAgent and DeleteAgent first release the agent's           *)
(* conversations (module PgDispatch).  Until then nobody sees any of it.   *)
(* Every node that starts seeds the first administrator and agent, in one  *)
(* statement each, which ends no session.                                  *)
(***************************************************************************)
EXTENDS Integers

CONSTANTS
  Staff,       \* accounts of agents
  Admins,      \* accounts of administrators
  Connections, \* connections to the database
  Passwords,   \* passwords in use, told apart by how they are stored
  OldHashes,   \* those stored as dev_plain:, in rows of an older version only
  Seeded,      \* superadmin and agent_lixue
  Bootstrap,   \* the password the server's options give to both
  MaxTokens,   \* bound: sessions ever created
  MaxChanges   \* bound: operations on an account that end sessions

Accounts == Staff \cup Admins
Nobody == 0
NoAccount == "no account"
NoPassword == 0
Tokens == 1..MaxTokens

VARIABLES
  account,   \* the committed row: live, disabled, password
  lockedBy,  \* the connection whose transaction has locked the row
  doing,     \* what each connection does
  marked,    \* the sessions its transaction has revoked
  token,     \* the sessions; auth_sessions keeps them for good
  changes    \* history: how often the account's sessions were ended

sessionVars == <<account, lockedBy, doing, marked, token, changes>>

ASSUME ConnectionsAssumption == Connections \subseteq Nat \ {Nobody}
ASSUME AccountsAssumption == NoAccount \notin Accounts
ASSUME PasswordsAssumption == NoPassword \notin Passwords
ASSUME SeedsAssumption ==
  Seeded \subseteq Accounts /\ OldHashes \subseteq Passwords /\ Bootstrap \in Passwords \ OldHashes
ASSUME SessionBoundAssumption == MaxTokens \in Nat /\ MaxChanges \in Nat

Changing == {"reset_password", "change_password", "disable_agent", "delete_agent"}

Doing(step, x, op, old, new, seen) ==
  [step |-> step, account |-> x, op |-> op, old |-> old, new |-> new, seen |-> seen]
Idle == Doing("idle", NoAccount, "login", NoPassword, NoPassword, 0)

NextStep(d, step) == [d EXCEPT !.step = step]

NoToken == [state |-> "none", account |-> NoAccount, seen |-> 0, overlaps |-> FALSE]
InState(row, state) == [row EXCEPT !.state = state]

SeedRow == [live |-> TRUE, disabled |-> FALSE, password |-> Bootstrap]

\* The password and account checks of LoginAgent and LoginAdmin.
MayLogIn(row, password) == row.live /\ ~row.disabled /\ row.password = password

\* Fault: ChangePassword verifies the current password before it locks the row.
FaultyMayChange(d, row) == row.live

\* The conditions under which a transaction on its locked row goes on.
MayChange(d, row) ==
  /\ row.live
  /\ d.op = "change_password" => ~row.disabled /\ row.password = d.old

-----------------------------------------------------------------------------
\* The account as LoginAgent reads it: changes to it count from here.
Login(t, x, password) ==
  /\ doing[t] = Idle
  /\ MayLogIn(account[x], password)
  /\ doing' = [doing EXCEPT ![t] = Doing("insert", x, "login", NoPassword, NoPassword, changes[x])]
  /\ UNCHANGED <<account, lockedBy, marked, token, changes>>

\* A transaction on the account has revoked what it saw and is not yet committed.
EndingSessions(x) == \E u \in Connections : lockedBy[x] = u /\ doing[u].step = "commit"

\* createAuth; a session overlaps if the account changes while it is created.
CreateAuth(t) ==
  LET d == doing[t]
  IN /\ d.step = "insert"
     /\ \E k \in Tokens :
          /\ token[k] = NoToken /\ \A j \in 1..(k - 1) : token[j] # NoToken
          /\ token' = [token EXCEPT ![k] =
               [state |-> "live", account |-> d.account, seen |-> d.seen,
                overlaps |-> d.seen # changes[d.account] \/ EndingSessions(d.account)]]
     /\ doing' = [doing EXCEPT ![t] = Idle]
     /\ UNCHANGED <<account, lockedBy, marked, changes>>

\* Only ChangePassword is for administrators, too.  hashPassword stores the new
\* password in the present format.
Begin(t, op, x, old, new) ==
  /\ doing[t] = Idle
  /\ changes[x] < MaxChanges
  /\ x \in Admins => op = "change_password"
  /\ op = "change_password" \/ old = new
  /\ new \notin OldHashes
  /\ doing' = [doing EXCEPT ![t] = Doing("lock", x, op, old, new, 0)]
  /\ UNCHANGED <<account, lockedBy, marked, token, changes>>

\* The row the transaction leaves behind; nobody else writes it while it is locked.
Changed(d, row) ==
  CASE d.op \in {"reset_password", "change_password"} -> [row EXCEPT !.password = d.new]
    [] d.op = "disable_agent" -> [row EXCEPT !.disabled = TRUE]
    [] d.op = "delete_agent" -> [row EXCEPT !.live = FALSE]

\* SELECT ... FOR UPDATE or UPDATE of the account, and what is read from it.
LockAccount(t) ==
  LET d == doing[t]
  IN /\ d.step = "lock"
     /\ lockedBy[d.account] = Nobody
     /\ MayChange(d, account[d.account])
     /\ lockedBy' = [lockedBy EXCEPT ![d.account] = t]
     /\ doing' = [doing EXCEPT ![t] = NextStep(@, "revoke")]
     /\ UNCHANGED <<account, marked, token, changes>>

\* ErrInvalidCredentials, ErrForbidden or ErrNotFound.
RefuseChange(t) ==
  LET d == doing[t]
  IN /\ d.step = "lock"
     /\ lockedBy[d.account] = Nobody
     /\ ~MayChange(d, account[d.account])
     /\ doing' = [doing EXCEPT ![t] = Idle]
     /\ UNCHANGED <<account, lockedBy, marked, token, changes>>

\* The account's sessions that are not revoked.
OpenTokens(x) == {k \in Tokens : token[k].state \in {"live", "expired"} /\ token[k].account = x}

\* Fault: one row of auth_sessions is revoked, not all of them.
FaultyRevoke(t) ==
  /\ doing[t].step = "revoke"
  /\ marked' = [marked EXCEPT ![t] =
       {k \in OpenTokens(doing[t].account) : \A j \in OpenTokens(doing[t].account) : k <= j}]
  /\ doing' = [doing EXCEPT ![t] = NextStep(@, "commit")]
  /\ UNCHANGED <<account, lockedBy, token, changes>>

\* revokeAuthSessionsTx
Revoke(t) ==
  /\ doing[t].step = "revoke"
  /\ marked' = [marked EXCEPT ![t] = OpenTokens(doing[t].account)]
  /\ doing' = [doing EXCEPT ![t] = NextStep(@, "commit")]
  /\ UNCHANGED <<account, lockedBy, token, changes>>

Commit(t) ==
  LET d == doing[t]
  IN /\ d.step = "commit"
     /\ account' = [account EXCEPT ![d.account] = Changed(d, @)]
     /\ token' = [k \in Tokens |-> IF k \in marked[t] THEN InState(token[k], "revoked")
                                   ELSE token[k]]
     /\ lockedBy' = [lockedBy EXCEPT ![d.account] = Nobody]
     /\ marked' = [marked EXCEPT ![t] = {}]
     /\ changes' = [changes EXCEPT ![d.account] = @ + 1]
     /\ doing' = [doing EXCEPT ![t] = Idle]

\* A timeout, a deadlock or a crash: a login creates no session, and a
\* transaction is rolled back.
Abort(t) ==
  /\ doing[t] # Idle
  /\ lockedBy' = [x \in Accounts |-> IF lockedBy[x] = t THEN Nobody ELSE lockedBy[x]]
  /\ marked' = [marked EXCEPT ![t] = {}]
  /\ doing' = [doing EXCEPT ![t] = Idle]
  /\ UNCHANGED <<account, token, changes>>

\* seedDefaults: an account that was deleted is there again, with the first password.
SeedAccount(x) ==
  /\ x \in Seeded /\ lockedBy[x] = Nobody
  /\ ~account[x].live
  /\ account' = [account EXCEPT ![x] = SeedRow]
  /\ UNCHANGED <<lockedBy, doing, marked, token, changes>>

\* ON CONFLICT (id) DO UPDATE: a hash of the older format gives way to that password.
ReplaceOldHash(x) ==
  /\ x \in Seeded /\ lockedBy[x] = Nobody
  /\ account[x].live /\ account[x].password \in OldHashes
  /\ account' = [account EXCEPT ![x].password = Bootstrap]
  /\ UNCHANGED <<lockedBy, doing, marked, token, changes>>

Expire(k) ==
  /\ token[k].state = "live"
  /\ token' = [token EXCEPT ![k] = InState(@, "expired")]
  /\ UNCHANGED <<account, lockedBy, doing, marked, changes>>

-----------------------------------------------------------------------------
SessionInit ==
  /\ account \in [Accounts -> [live : {TRUE}, disabled : {FALSE}, password : Passwords]]
  /\ lockedBy = [x \in Accounts |-> Nobody]
  /\ doing = [t \in Connections |-> Idle]
  /\ marked = [t \in Connections |-> {}]
  /\ token = [k \in Tokens |-> NoToken]
  /\ changes = [x \in Accounts |-> 0]

SessionNext ==
  \/ \E t \in Connections :
       \/ \E x \in Accounts, p, q \in Passwords :
            \/ Login(t, x, p)
            \/ \E op \in Changing : Begin(t, op, x, p, q)
       \/ CreateAuth(t) \/ LockAccount(t) \/ RefuseChange(t) \/ Revoke(t) \/ Commit(t)
       \/ Abort(t)
  \/ \E x \in Accounts : SeedAccount(x) \/ ReplaceOldHash(x)
  \/ \E k \in Tokens : Expire(k)

SessionSpec == SessionInit /\ [][SessionNext]_sessionVars

-----------------------------------------------------------------------------
\* What auth lets through.
Authenticated(k) == token[k].state = "live"

\* A session that works is one of an account as it was when the session was
\* created: no change of password, disabling or deletion leaves one behind that
\* existed before, whatever was rolled back, waited in between or was seeded again.
\* Only a login under way during the change is left out.
SessionsAreCurrent ==
  \A k \in Tokens :
    Authenticated(k) /\ ~token[k].overlaps => token[k].seen = changes[token[k].account]

\* Of two changes from the same old password one fails, and nobody changes the
\* password of an account that was disabled meanwhile.
ChangesKnowThePassword ==
  [][\A t \in Connections :
       (doing[t].step = "commit" /\ doing[t].op = "change_password" /\ changes' # changes
        /\ doing'[t] = Idle)
         => /\ account[doing[t].account].password = doing[t].old
            /\ ~account[doing[t].account].disabled]_sessionVars

\* Violated.  "禁用后该客服不能登录；既有登录 token 会立即失效"
\* (docs/API与WebSocket协议.md:283): a disabled agent has no session.  A login
\* that read the account before it was disabled creates one after it, and auth
\* looks at the session alone.
DisabledHasNoSession ==
  \A k \in Tokens : Authenticated(k) => LET row == account[token[k].account]
                                        IN row.live /\ ~row.disabled

=============================================================================
