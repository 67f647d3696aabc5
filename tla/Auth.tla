-------------------------------- MODULE Auth --------------------------------
(***************************************************************************)
(* Accounts and sessions: usecase/auth/auth.go, the account handlers of    *)
(* the API (admin.go, auth.go) and of the web pages (web/handler.go), and  *)
(* the two tables behind them.                                             *)
(*                                                                         *)
(* Requests overlap between any two database statements; a step is one     *)
(* statement and what the handler does until the next one.  A password     *)
(* stands for its bcrypt hash, a name for its trimmed lower-case form, a   *)
(* token for its sha256.  Requests that are refused before their first     *)
(* statement (bad JSON, weak password, bad name, wrong setup token) change *)
(* nothing and are left out.  So is the count before a login through the   *)
(* web page that finds users: the login that follows is LoginRead.         *)
(***************************************************************************)
EXTENDS Integers

CONSTANTS
  Names,
  Passwords,  \* of MinPassLen characters or more
  Tokens,
  Workers,    \* request goroutines
  NoUser,     \* no row with this id
  NoName,
  NoPassword,
  NoToken,
  MaxUsers,   \* bound: user ids are 1 .. MaxUsers, SERIAL and so never reused
  Faults      \* TRUE: statements may fail, requests may die with the process

ASSUME AuthAssumption ==
  /\ MaxUsers \in Nat
  /\ NoName \notin Names /\ NoPassword \notin Passwords /\ NoToken \notin Tokens
  /\ NoUser \notin [name : Names, password : Passwords, admin : BOOLEAN]
  /\ Faults \in BOOLEAN

VARIABLES
  users,     \* table users: the row of each id
  lastId,    \* its SERIAL
  sessions,  \* table sessions: the user id of each token, 0 without a row
  pc,        \* next statement of each request; its local variables:
  op,        \*   the handler behind requireAuth, or the web page's login
  token,     \*   the token of the request
  me,        \*   the user who logs in or whom the token belongs to
  target,    \*   the id in the path
  name,      \*   the name given
  password,  \*   the password given
  shown,     \* history: the password a session was opened with
  raced      \* history: sessions opened while their user's password was being
             \* reset

tables  == <<users, lastId, sessions>>
locals  == <<op, token, me, target, name, password>>
history == <<shown, raced>>
vars    == <<tables, pc, locals, history>>

Ids == 1 .. MaxUsers
Row == [name : Names, password : Passwords, admin : BOOLEAN]

\* Behind requireAuth and requireAdmin; behind requireAdminPage, which does the
\* same.
ApiOps  == {"logout", "createUser", "deleteUser", "resetPassword", "setAdmin"}
PageOps == {"createUser", "deleteUser", "resetPassword"}
Ops     == ApiOps \cup PageOps

Exists(id)  == id \in Ids /\ users[id] # NoUser
IsAdmin(id) == Exists(id) /\ users[id].admin

Init ==
  /\ users = [id \in Ids |-> NoUser]
  /\ lastId = 0
  /\ sessions = [t \in Tokens |-> 0]
  /\ pc = [w \in Workers |-> "idle"]
  /\ op = [w \in Workers |-> "logout"]
  /\ token = [w \in Workers |-> NoToken]
  /\ me = [w \in Workers |-> 0]
  /\ target = [w \in Workers |-> 0]
  /\ name = [w \in Workers |-> NoName]
  /\ password = [w \in Workers |-> NoPassword]
  /\ shown = [t \in Tokens |-> NoPassword]
  /\ raced = {}

Goto(w, label) == pc' = [pc EXCEPT ![w] = label]

\* The handler answers, with whatever status.
Finish(w) ==
  /\ Goto(w, "idle")
  /\ op' = [op EXCEPT ![w] = "logout"]
  /\ token' = [token EXCEPT ![w] = NoToken]
  /\ me' = [me EXCEPT ![w] = 0]
  /\ target' = [target EXCEPT ![w] = 0]
  /\ name' = [name EXCEPT ![w] = NoName]
  /\ password' = [password EXCEPT ![w] = NoPassword]

\* The next statement fails, and the handler answers 500.
Fail(w) ==
  /\ Faults
  /\ pc[w] # "idle"
  /\ Finish(w)
  /\ UNCHANGED <<tables, history>>

Taken(n) == \E id \in Ids : Exists(id) /\ users[id].name = n

\* createUser: bcrypt of the password.
NewUser(n, p, admin) == [name |-> n, password |-> p, admin |-> admin]

\* INSERT INTO users: the name is UNIQUE, the sequence advances in any case.
Insert(n, p, admin) ==
  /\ lastId < MaxUsers
  /\ lastId' = lastId + 1
  /\ users' = IF Taken(n) THEN users
              ELSE [users EXCEPT ![lastId'] = NewUser(n, p, admin)]

\* UPDATE users: no row, no change, no error.
WithPassword(id, p) ==
  IF Exists(id) THEN [users EXCEPT ![id].password = p] ELSE users

WithAdmin(id, admin) ==
  IF Exists(id) THEN [users EXCEPT ![id].admin = admin] ELSE users

\* DELETE FROM sessions WHERE user_id = id.
Without(id) == [t \in Tokens |-> IF sessions[t] = id THEN 0 ELSE sessions[t]]

-----------------------------------------------------------------------------
(* Setup and login.                                                        *)

NeedsSetup == \A id \in Ids : ~Exists(id)

\* POST /login of the web page, when there is nobody yet; what follows counts
\* again.
WebLogin(w) ==
  /\ pc[w] = "idle"
  /\ NeedsSetup
  /\ op' = [op EXCEPT ![w] = "login"]
  /\ Goto(w, "setupCount")
  /\ UNCHANGED <<tables, token, me, target, name, password, history>>

\* SetupFirstAdmin: SELECT COUNT(*), then (bcrypt lies between) the INSERT, so
\* that two first visitors may both become administrators.
SetupCount(w) ==
  /\ pc[w] = "idle" \/ pc[w] = "setupCount"
  /\ \/ /\ NeedsSetup
        /\ Goto(w, "setupCreate")
        /\ UNCHANGED <<op, token, me, target, name, password>>
     \/ /\ ~NeedsSetup
        /\ pc[w] = "setupCount"
        /\ Finish(w)
  /\ UNCHANGED <<tables, history>>

\* The web page goes on to log in, with what its form gave.
SetupCreate(w) ==
  /\ pc[w] = "setupCreate"
  /\ \E n \in Names, p \in Passwords :
       /\ Insert(n, p, TRUE)
       /\ IF op[w] = "login" /\ ~Taken(n)
          THEN /\ Goto(w, "webRead")
               /\ name' = [name EXCEPT ![w] = n]
               /\ password' = [password EXCEPT ![w] = p]
               /\ UNCHANGED <<op, token, me, target>>
          ELSE Finish(w)
  /\ UNCHANGED <<sessions, history>>

\* Login, of the administrator just made, who may be gone or have another
\* password by now.
WebRead(w) ==
  /\ pc[w] = "webRead"
  /\ \/ \E id \in Ids :
          /\ Exists(id)
          /\ users[id].name = name[w] /\ users[id].password = password[w]
          /\ me' = [me EXCEPT ![w] = id]
          /\ Goto(w, "loginCreate")
          /\ UNCHANGED <<op, token, target, name, password>>
     \/ /\ \A id \in Ids :
             Exists(id) => users[id].name # name[w]
                             \/ users[id].password # password[w]
        /\ Finish(w)
  /\ UNCHANGED <<tables, history>>

\* Login: the row, and the comparison with its hash.
LoginRead(w) ==
  /\ pc[w] = "idle"
  /\ \E id \in Ids :
       /\ Exists(id)
       /\ me' = [me EXCEPT ![w] = id]
       /\ password' = [password EXCEPT ![w] = users[id].password]
  /\ Goto(w, "loginCreate")
  /\ UNCHANGED <<tables, op, token, target, name, history>>

\* 32 random bytes: a token nobody has.
FreshToken(t) == sessions[t] = 0 /\ \A w \in Workers : token[w] # t

\* A reset of the user's password is under way, or has been since the hash was
\* compared.
Resetting(w) ==
  \/ \E v \in Workers : pc[v] = "setPassword" /\ target[v] = me[w]
  \/ users[me[w]].password # password[w]

\* INSERT INTO sessions; user_id REFERENCES users.
LoginCreate(w) ==
  /\ pc[w] = "loginCreate"
  /\ Finish(w)
  /\ \/ /\ Exists(me[w])
        /\ \E t \in Tokens :
             /\ FreshToken(t)
             /\ sessions' = [sessions EXCEPT ![t] = me[w]]
             /\ shown' = [shown EXCEPT ![t] = password[w]]
             /\ raced' = IF Resetting(w) THEN raced \cup {t} ELSE raced \ {t}
     \/ ~Exists(me[w]) /\ UNCHANGED <<sessions, shown, raced>>
  /\ UNCHANGED <<users, lastId>>

-----------------------------------------------------------------------------
(* requireAuth and requireAdmin.                                           *)

\* Authenticate, first statement; an expired row is not found.
AuthSession(w) ==
  /\ pc[w] = "idle"
  /\ \E t \in Tokens, o \in Ops :
       /\ sessions[t] # 0
       /\ token' = [token EXCEPT ![w] = t]
       /\ me' = [me EXCEPT ![w] = sessions[t]]
       /\ op' = [op EXCEPT ![w] = o]
  /\ Goto(w, "authUser")
  /\ UNCHANGED <<tables, target, name, password, history>>

\* requireAdmin and requireAdminPage look at the row just read, and at nothing
\* later.
Admitted(w) == Exists(me[w]) /\ (op[w] = "logout" \/ IsAdmin(me[w]))

\* Authenticate, second statement: the user may be gone.
AuthUser(w) ==
  /\ pc[w] = "authUser"
  /\ IF Admitted(w) THEN Goto(w, op[w]) /\ UNCHANGED locals ELSE Finish(w)
  /\ UNCHANGED <<tables, history>>

Logout(w) ==
  /\ pc[w] = "logout"
  /\ sessions' = [sessions EXCEPT ![token[w]] = 0]
  /\ Finish(w)
  /\ UNCHANGED <<users, lastId, history>>

\* POST /logout of the web page: whatever session the cookie names, in one
\* statement and without a look at its user.
WebLogout(w) ==
  /\ pc[w] = "idle"
  /\ \E t \in Tokens :
       /\ sessions[t] # 0
       /\ sessions' = [sessions EXCEPT ![t] = 0]
  /\ UNCHANGED <<users, lastId, pc, locals, history>>

-----------------------------------------------------------------------------
(* Account administration.                                                 *)

CreateUser(w) ==
  /\ pc[w] = "createUser"
  /\ \E n \in Names, p \in Passwords, admin \in BOOLEAN : Insert(n, p, admin)
  /\ Finish(w)
  /\ UNCHANGED <<sessions, history>>

\* Neither the API nor the web page lets administrators delete themselves.
Others(w) == Ids \ {me[w]}

\* A bug: administrators may delete themselves.
DeleteUserAnyone(w) ==
  /\ pc[w] = "deleteUser"
  /\ \E id \in Ids :
       /\ target' = [target EXCEPT ![w] = id]
       /\ sessions' = Without(id)
  /\ Goto(w, "deleteRow")
  /\ UNCHANGED <<users, lastId, op, token, me, name, password, history>>

\* RevokeUser, unless the target is the requester.
DeleteUser(w) ==
  /\ pc[w] = "deleteUser"
  /\ \E id \in Others(w) :
       /\ target' = [target EXCEPT ![w] = id]
       /\ sessions' = Without(id)
  /\ Goto(w, "deleteRow")
  /\ UNCHANGED <<users, lastId, op, token, me, name, password, history>>

\* A bug in the schema: deleting a user leaves the sessions opened meanwhile.
DeleteRowAlone(w) ==
  /\ pc[w] = "deleteRow"
  /\ users' = [users EXCEPT ![target[w]] = NoUser]
  /\ Finish(w)
  /\ UNCHANGED <<lastId, sessions, history>>

\* DELETE FROM users; sessions go along (ON DELETE CASCADE), those opened since
\* RevokeUser too.
DeleteRow(w) ==
  /\ pc[w] = "deleteRow"
  /\ users' = [users EXCEPT ![target[w]] = NoUser]
  /\ sessions' = Without(target[w])
  /\ Finish(w)
  /\ UNCHANGED <<lastId, history>>

\* A bug: the sessions of the user are not revoked.
ResetPasswordOnly(w) ==
  /\ pc[w] = "resetPassword"
  /\ \E id \in Ids, p \in Passwords :
       /\ target' = [target EXCEPT ![w] = id]
       /\ password' = [password EXCEPT ![w] = p]
  /\ Goto(w, "setPassword")
  /\ UNCHANGED <<tables, op, token, me, name, history>>

\* RevokeUser; the requester may reset his own password.
ResetPassword(w) ==
  /\ pc[w] = "resetPassword"
  /\ \E id \in Ids, p \in Passwords :
       /\ target' = [target EXCEPT ![w] = id]
       /\ password' = [password EXCEPT ![w] = p]
       /\ sessions' = Without(id)
  /\ Goto(w, "setPassword")
  /\ UNCHANGED <<users, lastId, op, token, me, name, history>>

SetPassword(w) ==
  /\ pc[w] = "setPassword"
  /\ users' = WithPassword(target[w], password[w])
  /\ Finish(w)
  /\ UNCHANGED <<lastId, sessions, history>>

\* One may not demote oneself.
SetAdmin(w) ==
  /\ pc[w] = "setAdmin"
  /\ \E id \in Ids, admin \in BOOLEAN :
       /\ id \in Others(w) \/ admin
       /\ users' = WithAdmin(id, admin)
  /\ Finish(w)
  /\ UNCHANGED <<lastId, sessions, history>>

\* SessionTTL passes; UserID no longer finds the row.
Expire(t) ==
  /\ sessions[t] # 0
  /\ sessions' = [sessions EXCEPT ![t] = 0]
  /\ UNCHANGED <<users, lastId, pc, locals, history>>

-----------------------------------------------------------------------------
Step(w) ==
  \/ WebLogin(w) \/ SetupCount(w) \/ SetupCreate(w) \/ WebRead(w)
  \/ LoginRead(w) \/ LoginCreate(w)
  \/ AuthSession(w) \/ AuthUser(w) \/ Logout(w) \/ WebLogout(w)
  \/ CreateUser(w) \/ DeleteUser(w) \/ DeleteRow(w)
  \/ ResetPassword(w) \/ SetPassword(w) \/ SetAdmin(w)
  \/ Fail(w)

Next ==
  \/ \E w \in Workers : Step(w)
  \/ \E t \in Tokens : Expire(t)

Spec == Init /\ [][Next]_vars

-----------------------------------------------------------------------------
(* Properties.                                                             *)

Labels == Ops \cup {"idle", "setupCount", "setupCreate", "webRead", "loginCreate",
                    "authUser", "deleteRow", "setPassword"}

\* Types; and every session belongs to a user, although a login may be under way
\* while the user is being deleted.
TypeOK ==
  /\ users \in [Ids -> Row \cup {NoUser}]
  /\ lastId \in 0 .. MaxUsers
  /\ \A id \in Ids : Exists(id) => id =< lastId
  /\ sessions \in [Tokens -> Ids \cup {0}]
  /\ \A t \in Tokens : sessions[t] # 0 => Exists(sessions[t])
  /\ pc \in [Workers -> Labels]
  /\ op \in [Workers -> Ops \cup {"login"}]
  /\ token \in [Workers -> Tokens \cup {NoToken}]
  /\ me \in [Workers -> Ids \cup {0}]
  /\ target \in [Workers -> Ids \cup {0}]
  /\ password \in [Workers -> Passwords \cup {NoPassword}]
  /\ name \in [Workers -> Names \cup {NoName}]
  /\ shown \in [Tokens -> Passwords \cup {NoPassword}]
  /\ raced \subseteq Tokens

\* A password reset ends the sessions opened with the old password ("reset must
\* revoke sessions", auth_test.go): a session whose password is no longer the
\* user's has been opened by a login that overlapped the reset.
ResetRevokes ==
  \A t \in Tokens :
     sessions[t] # 0 /\ users[sessions[t]].password # shown[t] => t \in raced

\* The same of every login, those that overlap a reset included, as the test
\* expects it: a login that has compared its password before RevokeUser may
\* insert its session after it (auth.go:177-180 and login in between).
ResetRevokesAll ==
  \A t \in Tokens : sessions[t] # 0 => users[sessions[t]].password = shown[t]

\* "ADMIN_TOKEN is one-time setup only.  It mints the first admin account and
\* then becomes a decorative string" (README.md:60-61): a setup makes a user only
\* while there is none.  SetupFirstAdmin counts (auth.go:81), hashes the password
\* and inserts (auth.go:91) without a lock or a transaction.
SetupOnce ==
  [][\A w \in Workers : pc[w] = "setupCreate" /\ users' # users /\ pc'[w] # pc[w]
       => NeedsSetup]_<<users, pc>>

\* The last administrator goes only by the hand of one who has been demoted or
\* deleted himself since his request was authenticated: "cannot delete yourself",
\* "cannot demote yourself" (admin.go:116,163) is all it takes when account
\* requests do not cross.
AdminRemains ==
  [][(\E id \in Ids : IsAdmin(id)) /\ ~(\E id \in Ids : IsAdmin(id))'
       => \E w \in Workers : pc[w] # "idle" /\ pc'[w] = "idle" /\ ~IsAdmin(me[w])]_vars

-----------------------------------------------------------------------------
(* The inductive invariant: why the properties hold.                       *)

\* What a request has in its locals.  While a reset lies between its two
\* statements, the sessions its user has are those opened since the first; who
\* deletes a user is another one.
Requests ==
  \A w \in Workers :
    /\ pc[w] = "authUser" => op[w] \in Ops
    /\ pc[w] = "setPassword" =>
         /\ target[w] \in Ids /\ password[w] \in Passwords
         /\ \A t \in Tokens : sessions[t] = target[w] => t \in raced
    /\ pc[w] = "deleteRow" => target[w] # me[w]

AuthInv == TypeOK /\ Requests /\ ResetRevokes
=============================================================================
