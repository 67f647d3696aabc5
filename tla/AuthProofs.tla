------------------------------ MODULE AuthProofs ------------------------------
(***************************************************************************)
(* Accounts and sessions: the proofs.  Everything follows from the         *)
(* inductive invariant AuthInv of Auth.                                    *)
(***************************************************************************)
EXTENDS Auth, TLAPS

-----------------------------------------------------------------------------
(* Types.                                                                  *)

\* The two tables; each session belongs to a user.
TablesOK ==
  /\ users \in [Ids -> Row \cup {NoUser}]
  /\ lastId \in 0 .. MaxUsers
  /\ \A id \in Ids : Exists(id) => id =< lastId
  /\ sessions \in [Tokens -> Ids \cup {0}]
  /\ \A t \in Tokens : sessions[t] # 0 => Exists(sessions[t])

\* The locals of the requests, and the history.
RequestsOK ==
  /\ pc \in [Workers -> Labels]
  /\ op \in [Workers -> Ops \cup {"login"}]
  /\ token \in [Workers -> Tokens \cup {NoToken}]
  /\ me \in [Workers -> Ids \cup {0}]
  /\ target \in [Workers -> Ids \cup {0}]
  /\ password \in [Workers -> Passwords \cup {NoPassword}]
  /\ name \in [Workers -> Names \cup {NoName}]
  /\ shown \in [Tokens -> Passwords \cup {NoPassword}]
  /\ raced \subseteq Tokens

\* TypeOK speaks of the tables and of what requests hold.
LEMMA TypeParts == TypeOK <=> TablesOK /\ RequestsOK
BY DEF TypeOK, TablesOK, RequestsOK

\* INSERT INTO users.
LEMMA InsertKeeps ==
  ASSUME TablesOK, NEW n \in Names, NEW p \in Passwords, NEW admin \in BOOLEAN,
         Insert(n, p, admin), sessions' = sessions
  PROVE  TablesOK'
<1> USE AuthAssumption DEF TablesOK
<1>1. NewUser(n, p, admin) \in Row
  BY DEF NewUser, Row
<1>2. lastId' = lastId + 1 /\ lastId' \in 0 .. MaxUsers /\ lastId' \in Ids
  BY DEF Insert, Ids
<1>3. CASE users' = users
  BY <1>2, <1>3 DEF Exists, Ids
<1>4. CASE users' = [users EXCEPT ![lastId'] = NewUser(n, p, admin)]
  <2>1. NewUser(n, p, admin) # NoUser
    BY <1>1 DEF Row
  <2>2. users' \in [Ids -> Row \cup {NoUser}]
    BY <1>1, <1>2, <1>4
  <2>3. \A id \in Ids : Exists(id)' <=> Exists(id) \/ id = lastId'
    BY <1>2, <1>4, <2>1 DEF Exists
  <2>4. \A id \in Ids : Exists(id)' => id =< lastId'
    BY <1>2, <2>3 DEF Ids
  <2>5. \A t \in Tokens : sessions[t] # 0 => Exists(sessions[t])'
    BY <2>3 DEF Exists
  <2>6. QED
    BY <1>2, <2>2, <2>4, <2>5
<1>5. QED
  BY <1>3, <1>4 DEF Insert

\* A new user leaves the users that are there alone.
LEMMA InsertOnly ==
  ASSUME TablesOK, NEW n, NEW p, NEW admin, Insert(n, p, admin)
  PROVE  \A id \in Ids : /\ Exists(id) => users'[id] = users[id]
                         /\ id # lastId + 1 => users'[id] = users[id]
BY AuthAssumption DEF TablesOK, Insert, Ids

\* The tables stay well-formed; no session outlives its user.
LEMMA TablesStep ==
  ASSUME AuthInv, [Next]_vars
  PROVE  TablesOK'
<1> USE AuthAssumption DEF tables, locals, history, Goto, TablesOK, Exists
<1>0. TablesOK /\ 0 \notin Ids
  BY TypeParts DEF AuthInv, Ids
<1>1. ASSUME NEW w \in Workers, WebLogin(w)
      PROVE  TablesOK'
  BY <1>1, <1>0 DEF WebLogin, Finish, Fail
<1>2. ASSUME NEW w \in Workers, SetupCount(w)
      PROVE  TablesOK'
  BY <1>2, <1>0 DEF SetupCount, Finish, Fail
<1>3. ASSUME NEW w \in Workers, SetupCreate(w)
      PROVE  TablesOK'
  <2>1. PICK n \in Names, p \in Passwords, admin \in BOOLEAN : Insert(n, p, admin)
    BY <1>3 DEF SetupCreate
  <2>2. sessions' = sessions
    BY <1>3 DEF SetupCreate
  <2>3. QED
    BY <1>0, <2>1, <2>2, InsertKeeps
<1>4. ASSUME NEW w \in Workers, WebRead(w)
      PROVE  TablesOK'
  BY <1>4, <1>0 DEF WebRead, Finish, Fail
<1>5. ASSUME NEW w \in Workers, LoginRead(w)
      PROVE  TablesOK'
  BY <1>5, <1>0 DEF LoginRead, Finish, Fail
<1>6. ASSUME NEW w \in Workers, LoginCreate(w)
      PROVE  TablesOK'
  BY <1>6, <1>0 DEF LoginCreate, Finish, Fail
<1>7. ASSUME NEW w \in Workers, AuthSession(w)
      PROVE  TablesOK'
  BY <1>7, <1>0 DEF AuthSession, Finish, Fail
<1>8. ASSUME NEW w \in Workers, AuthUser(w)
      PROVE  TablesOK'
  BY <1>8, <1>0 DEF AuthUser, Finish, Fail
<1>9. ASSUME NEW w \in Workers, Logout(w)
      PROVE  TablesOK'
  BY <1>9, <1>0 DEF Logout, Finish, Fail
<1>10. ASSUME NEW w \in Workers, WebLogout(w)
      PROVE  TablesOK'
  BY <1>10, <1>0 DEF WebLogout, Finish, Fail
<1>11. ASSUME NEW w \in Workers, CreateUser(w)
      PROVE  TablesOK'
  <2>1. PICK n \in Names, p \in Passwords, admin \in BOOLEAN : Insert(n, p, admin)
    BY <1>11 DEF CreateUser
  <2>2. sessions' = sessions
    BY <1>11 DEF CreateUser
  <2>3. QED
    BY <1>0, <2>1, <2>2, InsertKeeps
<1>12. ASSUME NEW w \in Workers, DeleteUser(w)
      PROVE  TablesOK'
  BY <1>12, <1>0 DEF DeleteUser, Without
<1>13. ASSUME NEW w \in Workers, DeleteRow(w)
      PROVE  TablesOK'
  BY <1>13, <1>0 DEF DeleteRow, Without, Finish
<1>14. ASSUME NEW w \in Workers, ResetPassword(w)
      PROVE  TablesOK'
  BY <1>14, <1>0 DEF ResetPassword, Without
<1>15. ASSUME NEW w \in Workers, SetPassword(w)
      PROVE  TablesOK'
  <2>1. target[w] \in Ids /\ password[w] \in Passwords
    BY <1>15 DEF SetPassword, AuthInv, Requests
  <2>2. /\ users' \in [Ids -> Row \cup {NoUser}]
        /\ \A id \in Ids : Exists(id)' <=> Exists(id)
    BY <1>0, <1>15, <2>1 DEF SetPassword, WithPassword, Row
  <2>3. lastId' = lastId /\ sessions' = sessions
    BY <1>15 DEF SetPassword
  <2>4. QED
    BY <1>0, <2>2, <2>3
<1>16. ASSUME NEW w \in Workers, SetAdmin(w)
      PROVE  TablesOK'
  <2>1. PICK id \in Ids, admin \in BOOLEAN : users' = WithAdmin(id, admin)
    BY <1>16 DEF SetAdmin
  <2>2. /\ users' \in [Ids -> Row \cup {NoUser}]
        /\ \A i \in Ids : Exists(i)' <=> Exists(i)
    BY <1>0, <2>1 DEF WithAdmin, Row
  <2>3. lastId' = lastId /\ sessions' = sessions
    BY <1>16 DEF SetAdmin
  <2>4. QED
    BY <1>0, <2>2, <2>3
<1>17. ASSUME NEW w \in Workers, Fail(w)
      PROVE  TablesOK'
  BY <1>17, <1>0 DEF Fail, Finish, Fail
<1>18. ASSUME NEW t \in Tokens, Expire(t)
      PROVE  TablesOK'
  BY <1>18, <1>0 DEF Expire, Finish, Fail
<1>19. CASE UNCHANGED vars
  BY <1>19, <1>0 DEF vars, Finish, Fail
<1>20. QED
  BY <1>1, <1>2, <1>3, <1>4, <1>5, <1>6, <1>7, <1>8, <1>9, <1>10, <1>11, <1>12, <1>13, <1>14, <1>15, <1>16, <1>17, <1>18, <1>19 DEF Next, Step

\* The handler answers.
LEMMA Fixed ==
  /\ {"idle", "setupCount", "setupCreate", "webRead", "loginCreate", "authUser",
      "deleteRow", "setPassword"} \subseteq Labels
  /\ "logout" \in Ops /\ Ops \subseteq Labels /\ 0 \in 0 .. MaxUsers
BY AuthAssumption DEF Labels, Ops, ApiOps, PageOps

\* A request that ends leaves typed locals behind.
LEMMA FinishTypes ==
  ASSUME RequestsOK, NEW w \in Workers, Finish(w), UNCHANGED history
  PROVE  RequestsOK'
BY Fixed DEF RequestsOK, Finish, Goto, history

\* What the requests hold is typed.
LEMMA RequestTypes ==
  ASSUME AuthInv, [Next]_vars
  PROVE  RequestsOK'
<1> USE AuthAssumption DEF tables, locals, history, Goto
<1>0. RequestsOK /\ TablesOK
  BY TypeParts DEF AuthInv
<1>1. ASSUME NEW w \in Workers, WebLogin(w)
      PROVE  RequestsOK'
  BY <1>1, <1>0, Fixed DEF WebLogin, RequestsOK
<1>2. ASSUME NEW w \in Workers, SetupCount(w)
      PROVE  RequestsOK'
  <2>1. CASE Finish(w)
    BY <1>2, <1>0, <2>1, FinishTypes DEF SetupCount
  <2>2. CASE ~Finish(w)
    BY <1>2, <1>0, <2>2, Fixed DEF SetupCount, RequestsOK, TablesOK
  <2>3. QED
    BY <2>1, <2>2
<1>3. ASSUME NEW w \in Workers, SetupCreate(w)
      PROVE  RequestsOK'
  <2>1. CASE Finish(w)
    BY <1>3, <1>0, <2>1, FinishTypes DEF SetupCreate
  <2>2. CASE ~Finish(w)
    BY <1>3, <1>0, <2>2, Fixed DEF SetupCreate, RequestsOK
  <2>3. QED
    BY <2>1, <2>2
<1>4. ASSUME NEW w \in Workers, WebRead(w)
      PROVE  RequestsOK'
  <2>1. CASE Finish(w)
    BY <1>4, <1>0, <2>1, FinishTypes DEF WebRead
  <2>2. CASE ~Finish(w)
    BY <1>4, <1>0, <2>2, Fixed DEF WebRead, RequestsOK
  <2>3. QED
    BY <2>1, <2>2
<1>5. ASSUME NEW w \in Workers, LoginRead(w)
      PROVE  RequestsOK'
  BY <1>5, <1>0, Fixed DEF LoginRead, RequestsOK, TablesOK, Exists, Row
<1>6. ASSUME NEW w \in Workers, LoginCreate(w)
      PROVE  RequestsOK'
  BY <1>6, <1>0, Fixed DEF LoginCreate, RequestsOK, Finish
<1>7. ASSUME NEW w \in Workers, AuthSession(w)
      PROVE  RequestsOK'
  BY <1>7, <1>0, Fixed DEF AuthSession, RequestsOK, TablesOK
<1>8. ASSUME NEW w \in Workers, AuthUser(w)
      PROVE  RequestsOK'
  <2>1. op[w] \in Ops
    BY <1>8 DEF AuthUser, AuthInv, Requests
  <2>2. CASE Admitted(w)
    BY <1>8, <1>0, <2>1, <2>2, Fixed DEF AuthUser, RequestsOK
  <2>3. CASE ~Admitted(w)
    BY <1>8, <1>0, <2>3, FinishTypes DEF AuthUser
  <2>4. QED
    BY <2>2, <2>3
<1>9. ASSUME NEW w \in Workers, Logout(w)
      PROVE  RequestsOK'
  BY <1>9, <1>0, FinishTypes DEF Logout
<1>10. ASSUME NEW w \in Workers, WebLogout(w)
      PROVE  RequestsOK'
  BY <1>10, <1>0, Fixed DEF WebLogout, RequestsOK
<1>11. ASSUME NEW w \in Workers, CreateUser(w)
      PROVE  RequestsOK'
  BY <1>11, <1>0, FinishTypes DEF CreateUser
<1>12. ASSUME NEW w \in Workers, DeleteUser(w)
      PROVE  RequestsOK'
  BY <1>12, <1>0, Fixed DEF DeleteUser, Others, RequestsOK
<1>13. ASSUME NEW w \in Workers, DeleteRow(w)
      PROVE  RequestsOK'
  BY <1>13, <1>0, FinishTypes DEF DeleteRow
<1>14. ASSUME NEW w \in Workers, ResetPassword(w)
      PROVE  RequestsOK'
  BY <1>14, <1>0, Fixed DEF ResetPassword, RequestsOK
<1>15. ASSUME NEW w \in Workers, SetPassword(w)
      PROVE  RequestsOK'
  BY <1>15, <1>0, FinishTypes DEF SetPassword
<1>16. ASSUME NEW w \in Workers, SetAdmin(w)
      PROVE  RequestsOK'
  BY <1>16, <1>0, FinishTypes DEF SetAdmin
<1>17. ASSUME NEW w \in Workers, Fail(w)
      PROVE  RequestsOK'
  BY <1>17, <1>0, FinishTypes DEF Fail
<1>18. ASSUME NEW t \in Tokens, Expire(t)
      PROVE  RequestsOK'
  BY <1>18, <1>0, Fixed DEF Expire, RequestsOK
<1>19. CASE UNCHANGED vars
  BY <1>19, <1>0 DEF vars, RequestsOK
<1>20. QED
  BY <1>1, <1>2, <1>3, <1>4, <1>5, <1>6, <1>7, <1>8, <1>9, <1>10, <1>11, <1>12, <1>13, <1>14, <1>15, <1>16, <1>17, <1>18, <1>19 DEF Next, Step

\* Every step keeps the types: that sessions have users, and that names are
\* unique, too.
LEMMA TypeStep == ASSUME AuthInv, [Next]_vars PROVE TypeOK'
<1>1. TablesOK' /\ RequestsOK'
  BY TablesStep, RequestTypes
<1>2. QED
  BY <1>1 DEF TypeOK, TablesOK, RequestsOK

-----------------------------------------------------------------------------
(* Sessions and administrators.                                            *)

\* What requests have in their locals.
LEMMA RequestsStep ==
  ASSUME AuthInv, [Next]_vars
  PROVE  Requests'
<1> USE AuthAssumption DEF tables, locals, history, Goto
<1>0. RequestsOK /\ TablesOK /\ Requests /\ ResetRevokes /\ 0 \notin Ids
  BY TypeParts DEF AuthInv, Ids
<1>1. ASSUME NEW w \in Workers, WebLogin(w)
      PROVE  Requests'
  BY <1>1, <1>0 DEF WebLogin, Requests, RequestsOK, TablesOK
<1>2. ASSUME NEW w \in Workers, SetupCount(w)
      PROVE  Requests'
  <2>1. CASE Finish(w)
    BY <1>2, <1>0, <2>1 DEF SetupCount, Finish, Requests, RequestsOK, TablesOK
  <2>2. CASE ~Finish(w)
    BY <1>2, <1>0, <2>2 DEF SetupCount, Requests, RequestsOK, TablesOK
  <2>3. QED
    BY <2>1, <2>2
<1>3. ASSUME NEW w \in Workers, SetupCreate(w)
      PROVE  Requests'
  <2>1. CASE Finish(w)
    BY <1>3, <1>0, <2>1 DEF SetupCreate, Finish, Insert, Requests, RequestsOK, TablesOK
  <2>2. CASE ~Finish(w)
    BY <1>3, <1>0, <2>2 DEF SetupCreate, Insert, Requests, RequestsOK, TablesOK
  <2>3. QED
    BY <2>1, <2>2
<1>4. ASSUME NEW w \in Workers, WebRead(w)
      PROVE  Requests'
  <2>1. CASE Finish(w)
    BY <1>4, <1>0, <2>1 DEF WebRead, Finish, Requests, RequestsOK, TablesOK
  <2>2. CASE ~Finish(w)
    BY <1>4, <1>0, <2>2 DEF WebRead, Requests, RequestsOK, TablesOK
  <2>3. QED
    BY <2>1, <2>2
<1>5. ASSUME NEW w \in Workers, LoginRead(w)
      PROVE  Requests'
  BY <1>5, <1>0 DEF LoginRead, Requests, RequestsOK, TablesOK
<1>6. ASSUME NEW w \in Workers, LoginCreate(w)
      PROVE  Requests'
  BY <1>6, <1>0 DEF LoginCreate, Finish, Resetting, Exists, Requests, RequestsOK, TablesOK
<1>7. ASSUME NEW w \in Workers, AuthSession(w)
      PROVE  Requests'
  BY <1>7, <1>0 DEF AuthSession, Requests, RequestsOK, TablesOK
<1>8. ASSUME NEW w \in Workers, AuthUser(w)
      PROVE  Requests'
  <2>1. CASE Finish(w)
    BY <1>8, <1>0, <2>1 DEF AuthUser, Finish, Requests, RequestsOK, TablesOK, Ops, ApiOps, PageOps
  <2>2. CASE ~Finish(w)
    BY <1>8, <1>0, <2>2 DEF AuthUser, Requests, RequestsOK, TablesOK, Ops, ApiOps, PageOps
  <2>3. QED
    BY <2>1, <2>2
<1>9. ASSUME NEW w \in Workers, Logout(w)
      PROVE  Requests'
  BY <1>9, <1>0 DEF Logout, Finish, Requests, RequestsOK, TablesOK
<1>10. ASSUME NEW w \in Workers, WebLogout(w)
      PROVE  Requests'
  BY <1>10, <1>0 DEF WebLogout, Requests, RequestsOK, TablesOK
<1>11. ASSUME NEW w \in Workers, CreateUser(w)
      PROVE  Requests'
  BY <1>11, <1>0 DEF CreateUser, Finish, Insert, Requests, RequestsOK, TablesOK
<1>12. ASSUME NEW w \in Workers, DeleteUser(w)
      PROVE  Requests'
  BY <1>12, <1>0 DEF DeleteUser, Without, Others, Requests, RequestsOK, TablesOK
<1>13. ASSUME NEW w \in Workers, DeleteRow(w)
      PROVE  Requests'
  BY <1>13, <1>0 DEF DeleteRow, Without, Finish, Requests, RequestsOK, TablesOK
<1>14. ASSUME NEW w \in Workers, ResetPassword(w)
      PROVE  Requests'
  BY <1>14, <1>0 DEF ResetPassword, Without, Requests, RequestsOK, TablesOK
<1>15. ASSUME NEW w \in Workers, SetPassword(w)
      PROVE  Requests'
  BY <1>15, <1>0 DEF SetPassword, WithPassword, Finish, Requests, RequestsOK, TablesOK
<1>16. ASSUME NEW w \in Workers, SetAdmin(w)
      PROVE  Requests'
  BY <1>16, <1>0 DEF SetAdmin, WithAdmin, Finish, Requests, RequestsOK, TablesOK
<1>17. ASSUME NEW w \in Workers, Fail(w)
      PROVE  Requests'
  BY <1>17, <1>0 DEF Fail, Finish, Requests, RequestsOK, TablesOK
<1>18. ASSUME NEW t \in Tokens, Expire(t)
      PROVE  Requests'
  BY <1>18, <1>0 DEF Expire, Requests, RequestsOK, TablesOK
<1>19. CASE UNCHANGED vars
  BY <1>19, <1>0 DEF vars, Requests, RequestsOK, TablesOK
<1>20. QED
  BY <1>1, <1>2, <1>3, <1>4, <1>5, <1>6, <1>7, <1>8, <1>9, <1>10, <1>11, <1>12, <1>13, <1>14, <1>15, <1>16, <1>17, <1>18, <1>19 DEF Next, Step

\* A session with a password that is not its user's has been opened during a
\* reset.
LEMMA ResetStep ==
  ASSUME AuthInv, [Next]_vars
  PROVE  ResetRevokes'
<1> USE AuthAssumption DEF tables, locals, history, Goto
<1>0. RequestsOK /\ TablesOK /\ Requests /\ ResetRevokes /\ 0 \notin Ids
  BY TypeParts DEF AuthInv, Ids
<1>1. ASSUME NEW w \in Workers, WebLogin(w)
      PROVE  ResetRevokes'
  BY <1>1, <1>0 DEF WebLogin, ResetRevokes, Requests, RequestsOK, TablesOK
<1>2. ASSUME NEW w \in Workers, SetupCount(w)
      PROVE  ResetRevokes'
  <2>1. CASE Finish(w)
    BY <1>2, <1>0, <2>1 DEF SetupCount, Finish, ResetRevokes, Requests, RequestsOK, TablesOK
  <2>2. CASE ~Finish(w)
    BY <1>2, <1>0, <2>2 DEF SetupCount, ResetRevokes, Requests, RequestsOK, TablesOK
  <2>3. QED
    BY <2>1, <2>2
<1>3. ASSUME NEW w \in Workers, SetupCreate(w)
      PROVE  ResetRevokes'
  <2>1. PICK n \in Names, p \in Passwords : Insert(n, p, TRUE)
    BY <1>3 DEF SetupCreate
  <2>2. UNCHANGED <<sessions, shown, raced>>
    BY <1>3 DEF SetupCreate
  <2>3. \A id \in Ids : Exists(id) => users'[id] = users[id]
    BY <1>0, <2>1, InsertOnly
  <2>4. QED
    BY <1>0, <2>2, <2>3 DEF ResetRevokes, RequestsOK, TablesOK, Exists
<1>4. ASSUME NEW w \in Workers, WebRead(w)
      PROVE  ResetRevokes'
  BY <1>4, <1>0 DEF WebRead, Finish, ResetRevokes, Requests, RequestsOK, TablesOK
<1>5. ASSUME NEW w \in Workers, LoginRead(w)
      PROVE  ResetRevokes'
  BY <1>5, <1>0 DEF LoginRead, ResetRevokes, Requests, RequestsOK, TablesOK
<1>6. ASSUME NEW w \in Workers, LoginCreate(w)
      PROVE  ResetRevokes'
  BY <1>6, <1>0 DEF LoginCreate, Finish, Resetting, Exists, FreshToken, ResetRevokes, Requests, RequestsOK, TablesOK
<1>7. ASSUME NEW w \in Workers, AuthSession(w)
      PROVE  ResetRevokes'
  BY <1>7, <1>0 DEF AuthSession, ResetRevokes, Requests, RequestsOK, TablesOK
<1>8. ASSUME NEW w \in Workers, AuthUser(w)
      PROVE  ResetRevokes'
  BY <1>8, <1>0 DEF AuthUser, Finish, ResetRevokes, Requests, RequestsOK, TablesOK
<1>9. ASSUME NEW w \in Workers, Logout(w)
      PROVE  ResetRevokes'
  BY <1>9, <1>0 DEF Logout, Finish, ResetRevokes, Requests, RequestsOK, TablesOK
<1>10. ASSUME NEW w \in Workers, WebLogout(w)
      PROVE  ResetRevokes'
  BY <1>10, <1>0 DEF WebLogout, ResetRevokes, Requests, RequestsOK, TablesOK
<1>11. ASSUME NEW w \in Workers, CreateUser(w)
      PROVE  ResetRevokes'
  BY <1>11, <1>0 DEF CreateUser, Finish, Insert, Exists, Ids, ResetRevokes, Requests, RequestsOK, TablesOK
<1>12. ASSUME NEW w \in Workers, DeleteUser(w)
      PROVE  ResetRevokes'
  BY <1>12, <1>0 DEF DeleteUser, Without, Others, ResetRevokes, Requests, RequestsOK, TablesOK
<1>13. ASSUME NEW w \in Workers, DeleteRow(w)
      PROVE  ResetRevokes'
  BY <1>13, <1>0 DEF DeleteRow, Without, Finish, Exists, ResetRevokes, Requests, RequestsOK, TablesOK
<1>14. ASSUME NEW w \in Workers, ResetPassword(w)
      PROVE  ResetRevokes'
  BY <1>14, <1>0 DEF ResetPassword, Without, ResetRevokes, Requests, RequestsOK, TablesOK
<1>15. ASSUME NEW w \in Workers, SetPassword(w)
      PROVE  ResetRevokes'
  BY <1>15, <1>0 DEF SetPassword, WithPassword, Finish, Exists, Row, ResetRevokes, Requests, RequestsOK, TablesOK
<1>16. ASSUME NEW w \in Workers, SetAdmin(w)
      PROVE  ResetRevokes'
  BY <1>16, <1>0 DEF SetAdmin, WithAdmin, Finish, Exists, Row, ResetRevokes, Requests, RequestsOK, TablesOK
<1>17. ASSUME NEW w \in Workers, Fail(w)
      PROVE  ResetRevokes'
  BY <1>17, <1>0 DEF Fail, Finish, ResetRevokes, Requests, RequestsOK, TablesOK
<1>18. ASSUME NEW t \in Tokens, Expire(t)
      PROVE  ResetRevokes'
  BY <1>18, <1>0 DEF Expire, ResetRevokes, Requests, RequestsOK, TablesOK
<1>19. CASE UNCHANGED vars
  BY <1>19, <1>0 DEF vars, ResetRevokes, Requests, RequestsOK, TablesOK
<1>20. QED
  BY <1>1, <1>2, <1>3, <1>4, <1>5, <1>6, <1>7, <1>8, <1>9, <1>10, <1>11, <1>12, <1>13, <1>14, <1>15, <1>16, <1>17, <1>18, <1>19 DEF Next, Step

-----------------------------------------------------------------------------
(* The theorems.                                                           *)

\* With no users and no requests there is nothing to go wrong.
LEMMA InitHolds == ASSUME Init PROVE AuthInv
<1> USE AuthAssumption DEF Init
<1>1. TypeOK
  BY Fixed DEF TypeOK, Exists, Ids
<1>2. Requests /\ ResetRevokes
  BY DEF Requests, ResetRevokes
<1>3. QED
  BY <1>1, <1>2 DEF AuthInv

\* The inductive invariant holds of every behaviour.
THEOREM AuthInvariant == Spec => []AuthInv
<1>1. Init => AuthInv
  BY InitHolds
<1>2. AuthInv /\ [Next]_vars => AuthInv'
  BY TypeStep, RequestsStep, ResetStep DEF AuthInv
<1>3. QED
  BY <1>1, <1>2, PTL DEF Spec

\* Tables and requests hold what their types say, and no session outlives its
\* user.
THEOREM AuthTypes == Spec => []TypeOK
<1>1. AuthInv => TypeOK
  BY DEF AuthInv
<1>2. QED
  BY <1>1, AuthInvariant, PTL

\* A session whose password is no longer its user's has been opened by a login
\* that overlapped the reset.
THEOREM ResetsRevoke == Spec => []ResetRevokes
<1>1. AuthInv => ResetRevokes
  BY DEF AuthInv
<1>2. QED
  BY <1>1, AuthInvariant, PTL

\* Of the steps that take an administrator away none is the requester's own:
\* whoever stays an administrator keeps the system one.
LEMMA AdminKept ==
  ASSUME AuthInv, [Next]_vars, \E id \in Ids : IsAdmin(id), ~(\E id \in Ids : IsAdmin(id))'
  PROVE  \E w \in Workers : pc[w] # "idle" /\ pc'[w] = "idle" /\ ~IsAdmin(me[w])
<1> USE AuthAssumption DEF tables, locals, history, Goto
<1>0. /\ RequestsOK /\ TablesOK /\ Requests
      /\ \A id \in Ids : IsAdmin(id) <=> users[id] # NoUser /\ users[id].admin
      /\ \A id \in Ids : IsAdmin(id)' <=> users'[id] # NoUser /\ users'[id].admin
      /\ \A id : IsAdmin(id) => id \in Ids
  BY TypeParts DEF AuthInv, IsAdmin, Exists
<1>1. PICK a \in Ids : IsAdmin(a) /\ ~IsAdmin(a)'
  OBVIOUS
<1>2. users' # users
  BY <1>0, <1>1
<1>3. ASSUME NEW w \in Workers, DeleteRow(w), IsAdmin(me[w])
      PROVE  FALSE
  BY <1>0, <1>3 DEF DeleteRow, TablesOK, Requests
<1>4. ASSUME NEW w \in Workers, SetAdmin(w), IsAdmin(me[w])
      PROVE  FALSE
  <2>1. PICK id \in Ids, admin \in BOOLEAN :
          (id # me[w] \/ admin) /\ users' = WithAdmin(id, admin)
    BY <1>4 DEF SetAdmin, Others
  <2>2. me[w] \in Ids /\ users[me[w]] \in Row
    BY <1>0, <1>4 DEF TablesOK
  <2>3. users'[me[w]] # NoUser /\ users'[me[w]].admin
    BY <1>0, <1>4, <2>1, <2>2 DEF WithAdmin, TablesOK, Row
  <2>4. QED
    BY <1>0, <2>2, <2>3
<1>5. ASSUME NEW w \in Workers, SetPassword(w)
      PROVE  FALSE
  <2>1. users' = WithPassword(target[w], password[w])
    BY <1>5 DEF SetPassword
  <2>2. target[w] \in Ids /\ password[w] \in Passwords /\ users[a] \in Row
    BY <1>0, <1>1, <1>5 DEF SetPassword, Requests, TablesOK
  <2>3. users'[a] # NoUser /\ users'[a].admin
    BY <1>0, <1>1, <2>1, <2>2 DEF WithPassword, TablesOK, Row
  <2>4. QED
    BY <1>0, <1>1, <2>3
<1>6. ASSUME NEW w \in Workers, SetupCreate(w) \/ CreateUser(w)
      PROVE  FALSE
  <2>1. PICK n, p, admin : Insert(n, p, admin)
    BY <1>6 DEF SetupCreate, CreateUser
  <2>2. users'[a] = users[a]
    BY <1>0, <1>1, <2>1, InsertOnly DEF IsAdmin
  <2>3. QED
    BY <1>0, <1>1, <2>2
<1>7. ASSUME NEW w \in Workers, DeleteRow(w) \/ SetAdmin(w)
      PROVE  pc[w] # "idle" /\ pc'[w] = "idle"
  BY <1>0, <1>7 DEF DeleteRow, SetAdmin, Finish, RequestsOK
<1>8. ASSUME NEW w \in Workers, Step(w)
      PROVE  DeleteRow(w) \/ SetAdmin(w)
  <2>1. ASSUME \/ WebLogin(w) \/ SetupCount(w) \/ WebRead(w) \/ LoginRead(w)
               \/ LoginCreate(w) \/ AuthSession(w) \/ AuthUser(w) \/ Logout(w)
               \/ WebLogout(w) \/ DeleteUser(w) \/ ResetPassword(w) \/ Fail(w)
        PROVE  users' = users
    BY <2>1 DEF WebLogin, SetupCount, WebRead, LoginRead, LoginCreate, AuthSession, AuthUser,
                Logout, WebLogout, DeleteUser, ResetPassword, Fail
  <2>2. QED
    BY <1>2, <1>5, <1>6, <1>8, <2>1 DEF Step
<1>9. \A t \in Tokens : ~Expire(t)
  BY <1>2 DEF Expire
<1>10. PICK w \in Workers : Step(w)
  BY <1>2, <1>9 DEF Next, vars
<1>11. QED
  BY <1>3, <1>4, <1>7, <1>8, <1>10

\* The last administrator goes only by the hand of one who is none any more.
THEOREM AdminStays == Spec => AdminRemains
<1> DEFINE Remains == (\E id \in Ids : IsAdmin(id)) /\ ~(\E id \in Ids : IsAdmin(id))'
             => \E w \in Workers : pc[w] # "idle" /\ pc'[w] = "idle" /\ ~IsAdmin(me[w])
<1>1. AuthInv /\ [Next]_vars => [Remains]_vars
  BY AdminKept
<1> HIDE DEF Remains
<1>2. Spec => [][Remains]_vars
  BY <1>1, AuthInvariant, PTL DEF Spec
<1>3. [][Remains]_vars => AdminRemains
  BY PTL DEF AdminRemains, Remains
<1>4. QED
  BY <1>2, <1>3
=============================================================================
