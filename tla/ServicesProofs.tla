---------------------------- MODULE ServicesProofs ----------------------------
(***************************************************************************)
(* Theorems about the services of the backend that keep the site's records *)
(* and settings, for any number of records and of requests in flight:      *)
(* sessions resolve until something ends them, memory follows the table,   *)
(* a switch reaches the camera, a dataset is whole.                        *)
(***************************************************************************)
EXTENDS Accounts, SiteRegistry, SiteSettings, Captures, Weights, DocStore, Occupancy,
        TablesProofs, WellFoundedInduction, FiniteSetTheorems

-----------------------------------------------------------------------------
(* Accounts.                                                               *)

AccSession == [user : Nat, created_at : Nat, expires_at : Nat, revoked : BOOLEAN]

AccTypeOK ==
  /\ accNow \in Nat
  /\ accDrawn \in [user : Nat, token : Nat]
  /\ DOMAIN accSessions \subseteq 1..accDrawn.token
  /\ \A token \in DOMAIN accSessions :
       accSessions[token] \in AccSession /\ accSessions[token].user <= accDrawn.user
  /\ DOMAIN accUsers \subseteq 1..accDrawn.user
  /\ \A id \in DOMAIN accUsers :
       /\ {"active", "changed_at"} \subseteq DOMAIN accUsers[id]
       /\ accUsers[id].changed_at \in 0..accNow
  /\ DOMAIN accTask = AccTasks

(* What a waiting request read is of the past, and its user was drawn.     *)
AccTasksOK ==
  \A t \in AccTasks :
    /\ accTask[t].pc = "create" => accTask[t].at \in 0..accNow
    /\ accTask[t].pc \in {"login", "upgrade"} =>
         {"pc", "id"} \subseteq DOMAIN accTask[t] /\ accTask[t].id \in 1..accDrawn.user

(* What was ended is revoked or gone, and its token is never drawn again;  *)
(* every session that is not revoked, expired or disabled ones too, is     *)
(* younger than its user's password.                                       *)
AccEndedIsRevoked ==
  \A token \in accEnded : /\ token \in 1..accDrawn.token
                          /\ token \in DOMAIN accSessions => accSessions[token].revoked

AccYounger ==
  \A token \in DOMAIN accSessions :
    ~ accSessions[token].revoked /\ accSessions[token].user \in DOMAIN accUsers
      => accSessions[token].created_at >= accUsers[accSessions[token].user].changed_at

AccInv == AccTypeOK /\ AccTasksOK /\ AccEndedIsRevoked /\ AccYounger

LEMMA AccInitInv == AccInit => AccInv
BY AccAssumption DEF AccInit, AccInv, AccTypeOK, AccTasksOK, AccEndedIsRevoked, AccYounger, AccUser, AccIdle

-----------------------------------------------------------------------------
(* Steps that only move the requests in flight.                            *)

LEMMA StartKeepsInv ==
  ASSUME AccInv, UNCHANGED <<accUsers, accSessions, accDrawn, accNow, accEnded>>,
         DOMAIN accTask' = AccTasks, AccTasksOK'
  PROVE  AccInv'
BY DEF AccInv, AccTypeOK, AccEndedIsRevoked, AccYounger

LEMMA BeginsKeepInv ==
  ASSUME AccInv, NEW t \in AccTasks,
         \/ \E n, w, r, p : AccStartCreate(t, n, w, r, p)
         \/ \E id \in DOMAIN accUsers : AccStartLogin(t, id)
         \/ AccStartUpgrade(t)
         \/ \E id, p : AccStartChange(t, id, p)
  PROVE  AccInv'
<1>1. UNCHANGED <<accUsers, accSessions, accDrawn, accNow, accEnded>>
  BY DEF AccStartCreate, AccStartLogin, AccStartUpgrade, AccStartChange
<1>2. DOMAIN accTask' = AccTasks
  BY DEF AccInv, AccTypeOK, AccStartCreate, AccStartLogin, AccStartUpgrade, AccStartChange
<1>3. AccTasksOK'
  <2>1. CASE \E n, w, r, p : AccStartCreate(t, n, w, r, p)
    BY <2>1 DEF AccInv, AccTypeOK, AccTasksOK, AccStartCreate
  <2>2. CASE \E id \in DOMAIN accUsers : AccStartLogin(t, id)
    BY <2>2 DEF AccInv, AccTypeOK, AccTasksOK, AccStartLogin
  <2>3. CASE AccStartUpgrade(t)
    BY <2>3 DEF AccInv, AccTypeOK, AccTasksOK, AccStartUpgrade
  <2>4. CASE \E id, p : AccStartChange(t, id, p)
    BY <2>4 DEF AccInv, AccTypeOK, AccTasksOK, AccStartChange
  <2>. QED  BY <2>1, <2>2, <2>3, <2>4
<1>. QED  BY <1>1, <1>2, <1>3, StartKeepsInv

-----------------------------------------------------------------------------
(* Steps that revoke: the sessions of one user, or one session.            *)

LEMMA RevokeTable ==
  ASSUME AccInv, NEW user
  PROVE  /\ DOMAIN AccRevoke(user) = DOMAIN accSessions
         /\ \A token \in DOMAIN accSessions :
              /\ AccRevoke(user)[token] \in AccSession
              /\ AccRevoke(user)[token].user = accSessions[token].user
              /\ AccRevoke(user)[token].created_at = accSessions[token].created_at
              /\ AccRevoke(user)[token].revoked = (accSessions[token].revoked \/ accSessions[token].user = user)
BY DEF AccInv, AccTypeOK, AccSession, AccRevoke, AccOf

\* Sessions that are only revoked, users that are only reshaped: the invariant holds
\* when nobody's password changed without all sessions of that user ending.
LEMMA EndingKeepsInv ==
  ASSUME AccInv, accNow' = accNow, accDrawn' = accDrawn,
         DOMAIN accSessions' = DOMAIN accSessions,
         \A token \in DOMAIN accSessions :
           /\ accSessions'[token] \in AccSession
           /\ accSessions'[token].user = accSessions[token].user
           /\ accSessions'[token].created_at = accSessions[token].created_at
           /\ accSessions[token].revoked => accSessions'[token].revoked,
         DOMAIN accUsers' \subseteq DOMAIN accUsers,
         \A id \in DOMAIN accUsers' :
           /\ {"active", "changed_at"} \subseteq DOMAIN accUsers'[id]
           /\ \/ accUsers'[id].changed_at = accUsers[id].changed_at
              \/ /\ accUsers'[id].changed_at = accNow
                 /\ \A token \in AccOf(id) : accSessions'[token].revoked,
         accEnded \subseteq accEnded', accEnded' \ accEnded \subseteq DOMAIN accSessions,
         \A token \in accEnded' \ accEnded : accSessions'[token].revoked,
         DOMAIN accTask' = AccTasks, AccTasksOK'
  PROVE  AccInv'
<1>1. AccTypeOK'
  BY DEF AccInv, AccTypeOK
<1>2. AccEndedIsRevoked'
  BY DEF AccInv, AccTypeOK, AccEndedIsRevoked
<1>3. AccYounger'
  <2> SUFFICES ASSUME NEW token \in DOMAIN accSessions', ~ accSessions'[token].revoked,
                      accSessions'[token].user \in DOMAIN accUsers'
               PROVE  accSessions'[token].created_at >= accUsers'[accSessions'[token].user].changed_at
    BY DEF AccYounger
  <2> DEFINE id == accSessions[token].user
  <2>1. token \in DOMAIN accSessions /\ ~ accSessions[token].revoked /\ accSessions'[token].user = id
        /\ accSessions'[token].created_at = accSessions[token].created_at
    BY DEF AccInv, AccTypeOK, AccSession
  <2>2. token \in AccOf(id) /\ id \in DOMAIN accUsers /\ id \in DOMAIN accUsers'
    BY <2>1 DEF AccOf
  <2>3. accUsers'[id].changed_at = accUsers[id].changed_at
    BY <2>2
  <2>. QED  BY <2>1, <2>2, <2>3 DEF AccInv, AccYounger
<1>. QED  BY <1>1, <1>2, <1>3 DEF AccInv

LEMMA ChangeKeepsInv ==
  ASSUME AccInv, NEW t \in AccTasks, AccFinishChange(t)
  PROVE  AccInv'
<1> DEFINE id == accTask[t].id
           changes == [password |-> accTask[t].password, strong |-> accStrong, changed_at |-> accNow]
<1>1. /\ accUsers' = Patch(accUsers, id, changes) /\ accSessions' = AccRevoke(id)
      /\ accEnded' = accEnded \cup AccOf(id) /\ accTask' = [accTask EXCEPT ![t] = AccIdle]
      /\ accNow' = accNow /\ accDrawn' = accDrawn
  BY DEF AccFinishChange
<1>2. DOMAIN accUsers' = DOMAIN accUsers
  BY <1>1, PatchTable
<1>3. ASSUME NEW x \in DOMAIN accUsers
      PROVE  /\ {"active", "changed_at"} \subseteq DOMAIN accUsers'[x]
             /\ \/ accUsers'[x].changed_at = accUsers[x].changed_at
                \/ /\ accUsers'[x].changed_at = accNow
                   /\ \A token \in AccOf(x) : accSessions'[token].revoked
  <2>1. CASE x = id
    <3>1. accUsers'[x] = Changed(accUsers[x], changes)
      BY <1>1, <2>1, PatchTable
    <3>2. DOMAIN changes = {"password", "strong", "changed_at"} /\ changes.changed_at = accNow
      OBVIOUS
    <3> HIDE DEF changes
    <3>5. /\ DOMAIN Changed(accUsers[x], changes) = DOMAIN accUsers[x] \cup DOMAIN changes
          /\ Changed(accUsers[x], changes)["changed_at"] = changes["changed_at"]
      BY <3>2 DEF Changed
    <3>3. "changed_at" \in DOMAIN accUsers'[x] /\ "active" \in DOMAIN accUsers'[x]
          /\ accUsers'[x].changed_at = accNow
      BY <3>1, <3>2, <3>5 DEF AccInv, AccTypeOK
    <3>4. \A token \in AccOf(x) : accSessions'[token].revoked
      BY <1>1, <2>1, RevokeTable DEF AccOf
    <3>. QED  BY <3>3, <3>4
  <2>2. CASE x # id
    BY <1>1, <2>2, PatchTable DEF AccInv, AccTypeOK
  <2>. QED  BY <2>1, <2>2
<1>4. AccTasksOK' /\ DOMAIN accTask' = AccTasks
  BY <1>1 DEF AccInv, AccTypeOK, AccTasksOK, AccIdle
<1>5. \A token \in accEnded' \ accEnded : accSessions'[token].revoked
  BY <1>1, RevokeTable DEF AccOf
<1>6. accEnded' \ accEnded \subseteq DOMAIN accSessions
  BY <1>1 DEF AccOf
<1> HIDE DEF id, changes
<1>. QED  BY <1>1, <1>2, <1>3, <1>4, <1>5, <1>6, RevokeTable, EndingKeepsInv

LEMMA SetActiveKeepsInv ==
  ASSUME AccInv, NEW id \in DOMAIN accUsers, NEW active \in BOOLEAN, AccSetActive(id, active)
  PROVE  AccInv'
<1> DEFINE changes == [active |-> active]
<1>1. /\ accUsers' = Patch(accUsers, id, changes)
      /\ accSessions' = IF active THEN accSessions ELSE AccRevoke(id)
      /\ accEnded' = IF active THEN accEnded ELSE accEnded \cup AccOf(id)
      /\ UNCHANGED <<accTask, accDrawn, accNow>>
  BY DEF AccSetActive
<1>2. DOMAIN accUsers' = DOMAIN accUsers
  BY <1>1, PatchTable
<1>3. ASSUME NEW x \in DOMAIN accUsers
      PROVE  /\ {"active", "changed_at"} \subseteq DOMAIN accUsers'[x]
             /\ accUsers'[x].changed_at = accUsers[x].changed_at
  <2>1. CASE x = id
    <3>1. accUsers'[x] = Changed(accUsers[x], changes)
      BY <1>1, <2>1, PatchTable
    <3>2. DOMAIN changes = {"active"}
      OBVIOUS
    <3>3. {"active", "changed_at"} \subseteq DOMAIN accUsers[x]
      BY DEF AccInv, AccTypeOK
    <3> HIDE DEF changes
    <3>4. /\ DOMAIN Changed(accUsers[x], changes) = DOMAIN accUsers[x] \cup DOMAIN changes
          /\ Changed(accUsers[x], changes)["changed_at"] = accUsers[x]["changed_at"]
      BY <3>2, <3>3 DEF Changed
    <3>. QED  BY <3>1, <3>2, <3>3, <3>4
  <2>2. CASE x # id
    BY <1>1, <2>2, PatchTable DEF AccInv, AccTypeOK
  <2>. QED  BY <2>1, <2>2
<1>4. AccTasksOK' /\ DOMAIN accTask' = AccTasks
  BY <1>1 DEF AccInv, AccTypeOK, AccTasksOK
<1>5. /\ DOMAIN accSessions' = DOMAIN accSessions
      /\ \A token \in DOMAIN accSessions :
           /\ accSessions'[token] \in AccSession
           /\ accSessions'[token].user = accSessions[token].user
           /\ accSessions'[token].created_at = accSessions[token].created_at
           /\ accSessions[token].revoked => accSessions'[token].revoked
  BY <1>1, RevokeTable DEF AccInv, AccTypeOK
<1>6. \A token \in accEnded' \ accEnded : token \in DOMAIN accSessions /\ accSessions'[token].revoked
  BY <1>1, RevokeTable DEF AccOf
<1>7. accEnded \subseteq accEnded'
  BY <1>1
<1> HIDE DEF changes
<1>. QED  BY <1>1, <1>2, <1>3, <1>4, <1>5, <1>6, <1>7, EndingKeepsInv

LEMMA DeleteKeepsInv ==
  ASSUME AccInv, NEW id \in DOMAIN accUsers, AccDeleteUser(id)
  PROVE  AccInv'
<1>1. /\ accUsers' = Delete(accUsers, id) /\ accSessions' = AccRevoke(id)
      /\ accEnded' = accEnded \cup AccOf(id)
      /\ UNCHANGED <<accTask, accDrawn, accNow>>
  BY DEF AccDeleteUser
<1>2. /\ DOMAIN accUsers' \subseteq DOMAIN accUsers
      /\ \A x \in DOMAIN accUsers' : /\ {"active", "changed_at"} \subseteq DOMAIN accUsers'[x]
                                     /\ accUsers'[x].changed_at = accUsers[x].changed_at
  <2>1. /\ DOMAIN accUsers' = DOMAIN accUsers \ {id}
        /\ \A x \in DOMAIN accUsers \ {id} : accUsers'[x] = accUsers[x]
    BY <1>1, DeleteTable
  <2>. QED  BY <2>1 DEF AccInv, AccTypeOK
<1>3. AccTasksOK' /\ DOMAIN accTask' = AccTasks
  BY <1>1 DEF AccInv, AccTypeOK, AccTasksOK
<1>4. \A token \in accEnded' \ accEnded : token \in DOMAIN accSessions /\ accSessions'[token].revoked
  BY <1>1, RevokeTable DEF AccOf
<1>. QED  BY <1>1, <1>2, <1>3, <1>4, RevokeTable, EndingKeepsInv

LEMMA LogoutKeepsInv ==
  ASSUME AccInv, NEW token \in DOMAIN accSessions, AccLogout(token)
  PROVE  AccInv'
<1> DEFINE changes == [revoked |-> TRUE]
<1>1. /\ accSessions' = Patch(accSessions, token, changes) /\ accEnded' = accEnded \cup {token}
      /\ UNCHANGED <<accUsers, accTask, accDrawn, accNow>>
  BY DEF AccLogout
<1>2. accSessions[token] \in AccSession
  BY DEF AccInv, AccTypeOK
<1>3. Changed(accSessions[token], changes) = [accSessions[token] EXCEPT !.revoked = TRUE]
  <2> DEFINE r == accSessions[token]
  <2>1. /\ DOMAIN r = {"user", "created_at", "expires_at", "revoked"}
        /\ r = [user |-> r.user, created_at |-> r.created_at, expires_at |-> r.expires_at, revoked |-> r.revoked]
    BY <1>2 DEF AccSession
  <2>2. DOMAIN changes = {"revoked"} /\ changes.revoked = TRUE
    OBVIOUS
  <2> HIDE DEF changes
  <2>3. Changed(r, changes) =
          [f \in {"user", "created_at", "expires_at", "revoked"} |-> IF f = "revoked" THEN TRUE ELSE r[f]]
    BY <2>1, <2>2 DEF Changed
  <2> HIDE DEF r
  <2>4. [r EXCEPT !.revoked = TRUE] =
          [f \in {"user", "created_at", "expires_at", "revoked"} |-> IF f = "revoked" THEN TRUE ELSE r[f]]
    BY <2>1
  <2>. QED  BY <2>3, <2>4 DEF r
<1>4. accSessions'[token] = [accSessions[token] EXCEPT !.revoked = TRUE]
      /\ DOMAIN accSessions' = DOMAIN accSessions
      /\ \A x \in DOMAIN accSessions : x # token => accSessions'[x] = accSessions[x]
  BY <1>1, <1>3, PatchTable
<1>5. \A x \in DOMAIN accSessions :
           /\ accSessions'[x] \in AccSession
           /\ accSessions'[x].user = accSessions[x].user
           /\ accSessions'[x].created_at = accSessions[x].created_at
           /\ accSessions[x].revoked => accSessions'[x].revoked
  BY <1>2, <1>4 DEF AccInv, AccTypeOK, AccSession
<1>6. accSessions'[token].revoked
  BY <1>2, <1>4 DEF AccSession
<1>7. AccTasksOK' /\ DOMAIN accTask' = AccTasks
  BY <1>1 DEF AccInv, AccTypeOK, AccTasksOK
<1>8. \A id \in DOMAIN accUsers' : {"active", "changed_at"} \subseteq DOMAIN accUsers'[id]
                                    /\ accUsers'[id].changed_at = accUsers[id].changed_at
  BY <1>1 DEF AccInv, AccTypeOK
<1> HIDE DEF changes
<1>. QED  BY <1>1, <1>4, <1>5, <1>6, <1>7, <1>8, EndingKeepsInv

-----------------------------------------------------------------------------
(* Steps that open a session or make an account.                           *)

\* A new session is as young as can be, whatever happens to the user's other fields.
LEMMA OpenKeepsInv ==
  ASSUME AccInv, NEW t \in AccTasks, accTask[t].pc \in {"login", "upgrade"}, AccOpenSession(t),
         DOMAIN accUsers' = DOMAIN accUsers,
         \A id \in DOMAIN accUsers : /\ {"active", "changed_at"} \subseteq DOMAIN accUsers'[id]
                                     /\ accUsers'[id].changed_at = accUsers[id].changed_at
  PROVE  AccInv'
<1> DEFINE token == accDrawn.token + 1
           session == [user |-> accTask[t].id, created_at |-> accNow, expires_at |-> accNow + AccTtl,
                       revoked |-> FALSE]
<1>1. /\ accSessions' = Put(accSessions, token, session, {"created_at"})
      /\ accDrawn' = [accDrawn EXCEPT !.token = token]
      /\ accTask' = [accTask EXCEPT ![t] = AccIdle]
      /\ accNow' = accNow /\ accEnded' = accEnded
  BY DEF AccOpenSession
<1>2. token \notin DOMAIN accSessions /\ token \in Nat /\ accDrawn.token \in Nat
  BY DEF AccInv, AccTypeOK
<1>3. /\ DOMAIN accSessions' = DOMAIN accSessions \cup {token}
      /\ accSessions'[token] = session
      /\ \A x \in DOMAIN accSessions : accSessions'[x] = accSessions[x]
  <2> HIDE DEF token, session
  <2>. QED  BY <1>1, <1>2 DEF Put
<1>4. session \in AccSession /\ session.user \in 1..accDrawn.user /\ session.created_at = accNow
      /\ ~ session.revoked
  BY AccAssumption DEF AccInv, AccTypeOK, AccTasksOK, AccSession
<1>5. accDrawn'.user = accDrawn.user /\ accDrawn'.token = token /\ accDrawn' \in [user : Nat, token : Nat]
  BY <1>1, <1>2 DEF AccInv, AccTypeOK
<1> HIDE DEF token, session
<1>6. AccTypeOK'
  <2>1. DOMAIN accSessions' \subseteq 1..accDrawn'.token
    BY <1>2, <1>3, <1>5 DEF AccInv, AccTypeOK, token
  <2>2. \A x \in DOMAIN accSessions' : accSessions'[x] \in AccSession /\ accSessions'[x].user <= accDrawn'.user
    BY <1>3, <1>4, <1>5 DEF AccInv, AccTypeOK
  <2>. QED  BY <1>1, <1>5, <2>1, <2>2 DEF AccInv, AccTypeOK
<1>7. AccTasksOK'
  BY <1>1, <1>5 DEF AccInv, AccTypeOK, AccTasksOK, AccIdle
<1>8. AccEndedIsRevoked'
  BY <1>1, <1>2, <1>3, <1>5 DEF AccInv, AccEndedIsRevoked, token
<1>9. AccYounger'
  <2> SUFFICES ASSUME NEW x \in DOMAIN accSessions', ~ accSessions'[x].revoked,
                      accSessions'[x].user \in DOMAIN accUsers
               PROVE  accSessions'[x].created_at >= accUsers[accSessions'[x].user].changed_at
    BY DEF AccYounger
  <2>1. CASE x = token
    BY <1>3, <1>4, <2>1 DEF AccInv, AccTypeOK
  <2>2. CASE x # token
    BY <1>3, <2>2 DEF AccInv, AccYounger
  <2>. QED  BY <2>1, <2>2
<1>. QED  BY <1>6, <1>7, <1>8, <1>9 DEF AccInv

LEMMA LoginKeepsInv ==
  ASSUME AccInv, NEW t \in AccTasks, AccFinishLogin(t) \/ AccFinishUpgrade(t)
  PROVE  AccInv'
<1>1. CASE AccFinishLogin(t)
  <2>1. accUsers' = accUsers /\ accTask[t].pc = "login" /\ AccOpenSession(t)
    BY <1>1 DEF AccFinishLogin
  <2>. QED  BY <2>1, OpenKeepsInv DEF AccInv, AccTypeOK
<1>2. CASE AccFinishUpgrade(t)
  <2> DEFINE id == accTask[t].id
             changes == [password |-> accTask[t].password, strong |-> TRUE]
  <2>1. accUsers' = Patch(accUsers, id, changes) /\ accTask[t].pc = "upgrade" /\ AccOpenSession(t)
    BY <1>2 DEF AccFinishUpgrade
  <2>2. DOMAIN changes = {"password", "strong"}
    OBVIOUS
  <2> HIDE DEF id, changes
  <2>3. /\ DOMAIN accUsers' = DOMAIN accUsers
        /\ \A x \in DOMAIN accUsers : x # id => accUsers'[x] = accUsers[x]
        /\ id \in DOMAIN accUsers => accUsers'[id] = Changed(accUsers[id], changes)
    BY <2>1 DEF Patch
  <2>4. ASSUME NEW x \in DOMAIN accUsers
        PROVE  /\ {"active", "changed_at"} \subseteq DOMAIN accUsers'[x]
               /\ accUsers'[x].changed_at = accUsers[x].changed_at
    <3>1. {"active", "changed_at"} \subseteq DOMAIN accUsers[x]
      BY DEF AccInv, AccTypeOK
    <3>2. CASE x = id
      <4>1. /\ DOMAIN Changed(accUsers[id], changes) = DOMAIN accUsers[id] \cup DOMAIN changes
            /\ Changed(accUsers[id], changes)["changed_at"] = accUsers[id]["changed_at"]
        BY <2>2, <3>1, <3>2 DEF Changed
      <4>. QED  BY <2>3, <3>1, <3>2, <4>1
    <3>. QED  BY <2>3, <3>1, <3>2
  <2>. QED  BY <2>1, <2>3, <2>4, OpenKeepsInv
<1>. QED  BY <1>1, <1>2

\* Accounts that are new have no sessions: their ids were never drawn before.
LEMMA NewUsersKeepInv ==
  ASSUME AccInv, accNow' = accNow,
         accDrawn' \in [user : Nat, token : Nat], accDrawn'.user >= accDrawn.user,
         accDrawn'.token = accDrawn.token,
         DOMAIN accSessions' \subseteq DOMAIN accSessions,
         \A token \in DOMAIN accSessions' : accSessions'[token] = accSessions[token],
         DOMAIN accUsers' \subseteq DOMAIN accUsers \cup (accDrawn.user + 1 .. accDrawn'.user),
         \A id \in DOMAIN accUsers' :
           \/ id \in DOMAIN accUsers /\ accUsers'[id] = accUsers[id]
           \/ /\ id \notin DOMAIN accUsers /\ id > accDrawn.user
              /\ {"active", "changed_at"} \subseteq DOMAIN accUsers'[id]
              /\ accUsers'[id].changed_at \in 0..accNow,
         accEnded' = accEnded, DOMAIN accTask' = AccTasks, AccTasksOK'
  PROVE  AccInv'
<1>1. AccTypeOK'
  <2>1. DOMAIN accUsers' \subseteq 1..accDrawn'.user
    BY DEF AccInv, AccTypeOK
  <2>2. \A token \in DOMAIN accSessions' : /\ accSessions'[token] \in AccSession
                                           /\ accSessions'[token].user <= accDrawn'.user
    BY DEF AccInv, AccTypeOK, AccSession
  <2>. QED  BY <2>1, <2>2 DEF AccInv, AccTypeOK
<1>2. AccEndedIsRevoked'
  BY DEF AccInv, AccEndedIsRevoked
<1>3. AccYounger'
  <2> SUFFICES ASSUME NEW token \in DOMAIN accSessions', ~ accSessions'[token].revoked,
                      accSessions'[token].user \in DOMAIN accUsers'
               PROVE  accSessions'[token].created_at >= accUsers'[accSessions'[token].user].changed_at
    BY DEF AccYounger
  <2>1. accSessions'[token] = accSessions[token] /\ accSessions[token] \in AccSession
        /\ accSessions[token].user <= accDrawn.user /\ accDrawn.user \in Nat
    BY DEF AccInv, AccTypeOK
  <2> DEFINE id == accSessions[token].user
  <2>2. id \in Nat /\ ~ (id > accDrawn.user)
    BY <2>1 DEF AccSession
  <2>3. id \in DOMAIN accUsers /\ accUsers'[id] = accUsers[id]
    BY <2>1, <2>2
  <2>. QED  BY <2>1, <2>3 DEF AccInv, AccYounger
<1>. QED  BY <1>1, <1>2, <1>3 DEF AccInv

LEMMA CreateKeepsInv ==
  ASSUME AccInv, NEW t \in AccTasks, AccFinishCreate(t)
  PROVE  AccInv'
<1> DEFINE id == accDrawn.user + 1
           user == AccUser(accTask[t].spec, accStrong, accTask[t].at)
<1>1. /\ accUsers' = Put(accUsers, id, user, {})
      /\ accDrawn' = [accDrawn EXCEPT !.user = id]
      /\ accTask' = [accTask EXCEPT ![t] = AccIdle]
      /\ UNCHANGED <<accSessions, accNow, accEnded>>
      /\ accTask[t].pc = "create"
  BY DEF AccFinishCreate
<1>2. accDrawn.user \in Nat /\ id \notin DOMAIN accUsers
  BY DEF AccInv, AccTypeOK
<1>3. accDrawn' \in [user : Nat, token : Nat] /\ accDrawn'.user = id /\ accDrawn'.token = accDrawn.token
  BY <1>1, <1>2 DEF AccInv, AccTypeOK
<1>4. {"active", "changed_at"} \subseteq DOMAIN user /\ user.changed_at \in 0..accNow
  BY <1>1 DEF AccUser, AccInv, AccTasksOK
<1>5. AccTasksOK' /\ DOMAIN accTask' = AccTasks
  BY <1>1, <1>2, <1>3 DEF AccInv, AccTypeOK, AccTasksOK, AccIdle
<1> HIDE DEF user
<1>6. /\ DOMAIN accUsers' = DOMAIN accUsers \cup {id}
      /\ accUsers'[id] = user
      /\ \A x \in DOMAIN accUsers : accUsers'[x] = accUsers[x]
  <2> HIDE DEF id
  <2>. QED  BY <1>1, <1>2 DEF Put
<1>7. id > accDrawn.user /\ id \in accDrawn.user + 1 .. accDrawn'.user
  BY <1>2, <1>3
<1> HIDE DEF id
<1>8. DOMAIN accUsers' \subseteq DOMAIN accUsers \cup (accDrawn.user + 1 .. accDrawn'.user)
  BY <1>6, <1>7
<1>9. accDrawn'.user >= accDrawn.user
  BY <1>2, <1>3 DEF id
<1>. QED  BY <1>1, <1>2, <1>3, <1>4, <1>5, <1>6, <1>7, <1>8, <1>9, NewUsersKeepInv

LEMMA RestartKeepsInv ==
  ASSUME AccInv, NEW strong \in BOOLEAN, AccRestart(strong)
  PROVE  AccInv'
<1>1. /\ accTask' = [t \in AccTasks |-> AccIdle]
      /\ accSessions' = [token \in DOMAIN accSessions \ AccPurged |-> accSessions[token]]
      /\ accNow' = accNow /\ accEnded' = accEnded
  BY DEF AccRestart
<1>2. AccTasksOK' /\ DOMAIN accTask' = AccTasks
  BY <1>1 DEF AccTasksOK, AccIdle
<1>3. CASE accUsers # <<>>
  <2>1. accUsers' = accUsers /\ accDrawn' = accDrawn
    BY <1>3 DEF AccRestart
  <2>. QED  BY <1>1, <1>2, <2>1, NewUsersKeepInv DEF AccInv, AccTypeOK
<1>4. CASE accUsers = <<>>
  <2>1. /\ accDrawn' = [accDrawn EXCEPT !.user = @ + Len(AccSeed)]
        /\ accUsers' = [id \in accDrawn.user + 1 .. accDrawn.user + Len(AccSeed) |->
                           AccUser(AccSeed[id - accDrawn.user], strong, accNow)]
    BY <1>4 DEF AccRestart
  <2>2. accDrawn.user \in Nat /\ accNow \in Nat /\ DOMAIN accUsers = {}
    BY <1>4 DEF AccInv, AccTypeOK
  <2>3. /\ accDrawn' \in [user : Nat, token : Nat] /\ accDrawn'.token = accDrawn.token
        /\ accDrawn'.user = accDrawn.user + Len(AccSeed) /\ accDrawn'.user >= accDrawn.user
    BY <2>1, <2>2, AccAssumption DEF AccInv, AccTypeOK
  <2>4. \A id \in DOMAIN accUsers' :
           /\ id > accDrawn.user
           /\ {"active", "changed_at"} \subseteq DOMAIN accUsers'[id]
           /\ accUsers'[id].changed_at \in 0..accNow
    BY <2>1, <2>2, AccAssumption DEF AccUser
  <2>5. DOMAIN accUsers' \subseteq DOMAIN accUsers \cup (accDrawn.user + 1 .. accDrawn'.user)
    BY <2>1, <2>3
  <2>6. /\ DOMAIN accSessions' \subseteq DOMAIN accSessions
        /\ \A token \in DOMAIN accSessions' : accSessions'[token] = accSessions[token]
    BY <1>1
  <2>. QED  BY <1>1, <1>2, <2>2, <2>3, <2>4, <2>5, <2>6, NewUsersKeepInv
<1>. QED  BY <1>3, <1>4

-----------------------------------------------------------------------------
LEMMA AccNextInv == AccInv /\ [AccNext]_accVars => AccInv'
<1>1. ASSUME AccInv, AccTick
      PROVE  AccInv'
  BY <1>1 DEF AccTick, AccInv, AccTypeOK, AccTasksOK, AccEndedIsRevoked, AccYounger
<1>2. ASSUME AccInv, UNCHANGED accVars
      PROVE  AccInv'
  BY <1>2 DEF accVars, AccInv, AccTypeOK, AccTasksOK, AccEndedIsRevoked, AccYounger
<1>. QED
  BY <1>1, <1>2, BeginsKeepInv, ChangeKeepsInv, SetActiveKeepsInv, DeleteKeepsInv, LogoutKeepsInv,
     LoginKeepsInv, CreateKeepsInv, RestartKeepsInv DEF AccNext

LEMMA AccInvHolds == AccInv => AccEndedForGood /\ AccPostdatesChange
BY DEF AccInv, AccEndedIsRevoked, AccYounger, AccEndedForGood, AccPostdatesChange, AccResolves

\* Only a restart drops sessions, and only expired ones.
LEMMA NobodyIsDropped ==
  ASSUME [AccNext]_accVars, NEW token \in DOMAIN accSessions, AccResolves(token)
  PROVE  token \in DOMAIN accSessions'
<1>1. CASE \E strong \in BOOLEAN : AccRestart(strong)
  BY <1>1 DEF AccRestart, AccPurged, AccResolves
<1>2. CASE \E t \in AccTasks : AccOpenSession(t)
  BY <1>2 DEF AccOpenSession, Put
<1>3. CASE \E id : accSessions' = AccRevoke(id)
  BY <1>3 DEF AccRevoke
<1>4. CASE \E k \in DOMAIN accSessions : AccLogout(k)
  BY <1>4, PatchTable DEF AccLogout
<1>5. CASE accSessions' = accSessions
  BY <1>5
<1>. QED
  BY <1>1, <1>2, <1>3, <1>4, <1>5
  DEF AccNext, accVars, AccStartCreate, AccStartLogin, AccStartUpgrade, AccStartChange, AccFinishCreate,
      AccFinishLogin, AccFinishUpgrade, AccFinishChange, AccSetActive, AccDeleteUser, AccTick

\* For any number of accounts, sessions and overlapping requests: what was ended stays
\* ended, no session outlives its password, and no restart cuts one short.
THEOREM SessionsKeepTheirTerms == AccSpec => AccSessionsKeepTheirTerms
<1>1. AccInv /\ [AccNext]_accVars
        => [\A token \in DOMAIN accSessions : AccResolves(token) => token \in DOMAIN accSessions']_accVars
  BY NobodyIsDropped
<1>. QED  BY <1>1, AccInitInv, AccNextInv, AccInvHolds, PTL
          DEF AccSpec, AccSessionsKeepTheirTerms, AccShiftSurvives

-----------------------------------------------------------------------------
(* Zones and rules.  On SQLite a request that is at work is the only one;  *)
(* on PostgreSQL what a lone write relies on stays true until it ends.     *)

Busy(t) == regTask[t].pc # "idle"

RegTypeOK ==
  /\ regKind \in {"zones", "rules"}
  /\ DOMAIN regTask = RegTasks
  /\ \A t \in RegTasks : Busy(t) =>
       /\ DOMAIN regTask[t] = {"pc", "op", "key", "value", "alone"}
       /\ regTask[t].pc \in {"table", "memory"} /\ regTask[t].alone \in BOOLEAN
       /\ regTask[t].op \in {"create", "update", "delete", "get"}
       /\ regTask[t].pc = "memory" \/ regTask[t].op \in {"create", "update"} => IsRecord(regTask[t].value)
  /\ \A k \in DOMAIN regTable : IsRecord(regTable[k])

(* A request marked alone has no other beside it; on SQLite all are alone. *)
RegAlone ==
  \A t \in RegTasks : Busy(t) =>
    /\ regTask[t].alone => \A u \in RegTasks \ {t} : ~ Busy(u)
    /\ regBackend = "sqlite" => regTask[t].alone

(* What a request that is alone relies on when it goes on.                 *)
RegRelies ==
  \A t \in RegTasks : Busy(t) /\ regTask[t].alone =>
    /\ regTask[t].pc = "memory" =>
         regTask[t].key \in DOMAIN regTable /\ regTable[regTask[t].key] = regTask[t].value
    /\ regTask[t].pc = "table" /\ regTask[t].op = "delete" => regTask[t].key \notin DOMAIN regLive
    /\ regTask[t].pc = "table" /\ regTask[t].op = "update" /\ regKind = "zones"
         => regTask[t].key \in DOMAIN regTable

(* On SQLite memory and table differ at most in the entry being written.   *)
RegOnlyInWork ==
  regBackend = "sqlite" =>
    \A k \in RegKeys : \/ RegAgree(k)
                       \/ \E t \in RegTasks : /\ Busy(t) /\ regTask[t].key = k
                                              /\ regTask[t].pc = "memory" \/ regTask[t].op # "get"

RegInv == RegTypeOK /\ RegAlone /\ RegRelies /\ RegOnlyInWork

LEMMA RegInitInv == RegInit => RegInv
BY RegAssumption DEF RegInit, RegInv, RegTypeOK, RegAlone, RegRelies, RegOnlyInWork, Busy, RegIdle, RegAgree

LEMMA RegStartKeepsInv ==
  ASSUME RegInv, NEW t \in RegTasks, NEW op \in {"create", "update", "delete", "get"}, NEW key \in RegKeys,
         NEW value, op \in {"create", "update"} => IsRecord(value), RegStart(t, op, key, value)
  PROVE  RegInv'
<1> DEFINE task == [pc |-> "table", op |-> op, key |-> key, value |-> value,
                    alone |-> \A v \in RegTasks \ {t} : ~ Busy(v)]
<1>1. /\ ~ Busy(t) /\ RegAccepts(op, key)
      /\ regBackend = "sqlite" => \A u \in RegTasks \ {t} : ~ Busy(u)
      /\ regLive' = IF op = "delete" THEN Delete(regLive, key) ELSE regLive
      /\ UNCHANGED <<regKind, regBackend, regTable>>
  BY DEF RegStart, RegMayRun, Busy
<1>2. regTask' = [u \in RegTasks |-> IF u = t THEN task
                                     ELSE IF regTask[u].pc = "idle" THEN RegIdle
                                     ELSE [regTask[u] EXCEPT !.alone = FALSE]]
  BY DEF RegStart, Busy
<1>3. /\ DOMAIN task = {"pc", "op", "key", "value", "alone"}
      /\ task.pc = "table" /\ task.op = op /\ task.key = key /\ task.value = value
      /\ task.alone = (\A v \in RegTasks \ {t} : ~ Busy(v))
  OBVIOUS
<1> HIDE DEF task
<1>4. regTask'[t] = task /\ Busy(t)'
  BY <1>2, <1>3 DEF Busy
<1>5. ASSUME NEW u \in RegTasks \ {t}
      PROVE  /\ Busy(u)' <=> Busy(u)
             /\ Busy(u) => /\ DOMAIN regTask'[u] = DOMAIN regTask[u]
                           /\ regTask'[u].alone = FALSE
                           /\ regTask'[u].pc = regTask[u].pc /\ regTask'[u].op = regTask[u].op
                           /\ regTask'[u].key = regTask[u].key /\ regTask'[u].value = regTask[u].value
  BY <1>2 DEF RegInv, RegTypeOK, Busy, RegIdle
<1>6. RegTypeOK'
  <2>1. RegTypeOK
    BY DEF RegInv
  <2>2. ASSUME NEW u \in RegTasks, Busy(u)'
        PROVE  /\ DOMAIN regTask'[u] = {"pc", "op", "key", "value", "alone"}
               /\ regTask'[u].pc \in {"table", "memory"} /\ regTask'[u].alone \in BOOLEAN
               /\ regTask'[u].op \in {"create", "update", "delete", "get"}
               /\ regTask'[u].pc = "memory" \/ regTask'[u].op \in {"create", "update"}
                    => IsRecord(regTask'[u].value)
    <3>1. CASE u = t
      BY <3>1, <1>3, <1>4
    <3>2. CASE u # t
      <4>1. Busy(u)
        BY <2>2, <3>2, <1>5
      <4>2. /\ DOMAIN regTask[u] = {"pc", "op", "key", "value", "alone"}
            /\ regTask[u].pc \in {"table", "memory"}
            /\ regTask[u].op \in {"create", "update", "delete", "get"}
            /\ regTask[u].pc = "memory" \/ regTask[u].op \in {"create", "update"}
                 => IsRecord(regTask[u].value)
        BY <2>1, <4>1 DEF RegTypeOK
      <4>. QED  BY <3>2, <4>1, <4>2, <1>5
    <3>. QED  BY <3>1, <3>2
  <2>. QED  BY <2>1, <2>2, <1>1, <1>2 DEF RegTypeOK
<1>7. RegAlone'
  BY <1>1, <1>3, <1>4, <1>5 DEF RegAlone
<1>8. RegRelies'
  <2>1. op = "delete" => key \notin DOMAIN regLive'
    BY <1>1 DEF Delete
  <2>2. op = "update" /\ regKind = "zones" => key \in DOMAIN regTable
    BY <1>1 DEF RegAccepts
  <2>. QED  BY <1>1, <1>3, <1>4, <1>5, <2>1, <2>2 DEF RegRelies
<1>9. RegOnlyInWork'
  <2> SUFFICES ASSUME regBackend = "sqlite", NEW k \in RegKeys, k # key \/ op = "get"
               PROVE  RegAgree(k)'
    BY <1>1, <1>3, <1>4 DEF RegOnlyInWork
  <2>1. RegAgree(k)
    BY <1>1 DEF RegInv, RegOnlyInWork
  <2>2. CASE op = "delete"
    BY <1>1, <2>1, <2>2 DEF RegAgree, Delete
  <2>3. CASE op # "delete"
    BY <1>1, <2>1, <2>3 DEF RegAgree
  <2>. QED  BY <2>2, <2>3
<1>. QED  BY <1>6, <1>7, <1>8, <1>9 DEF RegInv

(* The table after a request's turn: what it names is what it stored or    *)
(* read, and nothing else has changed.                                     *)
StoredTable(t) ==
  /\ \A k \in DOMAIN regTable' : IsRecord(regTable'[k])
  /\ \A k : k # regTask[t].key =>
       /\ k \in DOMAIN regTable' <=> k \in DOMAIN regTable
       /\ k \in DOMAIN regTable => regTable'[k] = regTable[k]
  /\ regTask[t].op = "delete" => regTask[t].key \notin DOMAIN regTable'
  /\ regTask[t].op = "create" \/ (regTask[t].op = "update" /\ regKind = "rules")
       => regTask[t].key \in DOMAIN regTable'
  /\ regTask[t].op = "update" /\ regKind = "zones" => DOMAIN regTable' = DOMAIN regTable
  /\ regTask[t].op = "get" => regTable' = regTable

LEMMA RegStoredTable ==
  ASSUME RegInv, NEW t \in RegTasks, RegStore(t)
  PROVE  StoredTable(t)
<1> USE DEF StoredTable
<1> DEFINE task == regTask[t]
<1>1. /\ Busy(t) /\ task.pc = "table"
      /\ task.op \in {"create", "update", "delete", "get"}
      /\ task.op \in {"create", "update"} => IsRecord(task.value)
      /\ \A k \in DOMAIN regTable : IsRecord(regTable[k])
      /\ regKind \in {"zones", "rules"}
  BY DEF RegStore, RegInv, RegTypeOK, Busy
<1>2. regTable' = CASE task.op = "create" -> Put(regTable, task.key, task.value, {})
                    [] task.op = "update" /\ regKind = "rules" -> Put(regTable, task.key, task.value, {})
                    [] task.op = "update" /\ regKind = "zones" -> Patch(regTable, task.key, task.value)
                    [] task.op = "delete" -> Delete(regTable, task.key)
                    [] task.op = "get"    -> regTable
  BY DEF RegStore
<1> HIDE DEF task
<1>3. CASE task.op = "create" \/ (task.op = "update" /\ regKind = "rules")
  <2>1. regTable' = Put(regTable, task.key, task.value, {})
    <3>1. CASE task.op = "create"
      BY <1>2, <3>1
    <3>2. CASE task.op = "update" /\ regKind = "rules"
      BY <1>2, <3>2
    <3>. QED  BY <1>3, <3>1, <3>2
  <2>2. IsRecord(task.value)
    BY <1>1, <1>3
  <2>3. \A k \in DOMAIN regTable' : IsRecord(regTable'[k])
    BY <1>1, <2>1, <2>2, RecordsStay
  <2>4. /\ DOMAIN regTable' = DOMAIN regTable \cup {task.key}
        /\ \A k \in DOMAIN regTable : k # task.key => regTable'[k] = regTable[k]
    BY <2>1 DEF Put
  <2>. QED  BY <1>3, <2>3, <2>4 DEF task
<1>4. CASE task.op = "update" /\ regKind = "zones"
  <2>1. regTable' = Patch(regTable, task.key, task.value)
    BY <1>2, <1>4
  <2>2. IsRecord(task.value)
    BY <1>1, <1>4
  <2>3. \A k \in DOMAIN regTable' : IsRecord(regTable'[k])
    BY <1>1, <2>1, <2>2, RecordsStay
  <2>4. /\ DOMAIN regTable' = DOMAIN regTable
        /\ \A k \in DOMAIN regTable : k # task.key => regTable'[k] = regTable[k]
    BY <2>1 DEF Patch
  <2>. QED  BY <1>4, <2>3, <2>4 DEF task
<1>5. CASE task.op = "delete"
  <2>1. regTable' = Delete(regTable, task.key)
    BY <1>2, <1>5
  <2>2. /\ DOMAIN regTable' = DOMAIN regTable \ {task.key}
        /\ \A k \in DOMAIN regTable' : regTable'[k] = regTable[k]
    BY <2>1 DEF Delete
  <2>. QED  BY <1>1, <1>5, <2>2 DEF task
<1>6. CASE task.op = "get"
  <2>1. regTable' = regTable
    BY <1>2, <1>6
  <2>. QED  BY <1>1, <1>6, <2>1 DEF task
<1>. QED  BY <1>1, <1>3, <1>4, <1>5, <1>6

(* The request that stored waits to tell memory, or is done.               *)
StoredTask(t) ==
  /\ DOMAIN regTask' = RegTasks
  /\ \A u \in RegTasks \ {t} : regTask'[u] = regTask[u]
  /\ Busy(t) /\ regTask[t].pc = "table"
  /\ UNCHANGED <<regKind, regBackend, regLive>>
  /\ \/ /\ ~ Busy(t)'
        /\ regTask[t].op = "delete" \/ regTask[t].key \notin DOMAIN regTable'
     \/ /\ Busy(t)' /\ regTask[t].op # "delete" /\ regTask[t].key \in DOMAIN regTable'
        /\ DOMAIN regTask'[t] = DOMAIN regTask[t]
        /\ regTask'[t].pc = "memory" /\ regTask'[t].value = regTable'[regTask[t].key]
        /\ regTask'[t].op = regTask[t].op /\ regTask'[t].key = regTask[t].key
        /\ regTask'[t].alone = regTask[t].alone

LEMMA RegStoredTask ==
  ASSUME RegInv, NEW t \in RegTasks, RegStore(t)
  PROVE  StoredTask(t)
<1> USE DEF StoredTask
<1> DEFINE task == regTask[t]
<1>1. /\ Busy(t) /\ task.pc = "table" /\ DOMAIN task = {"pc", "op", "key", "value", "alone"}
      /\ DOMAIN regTask = RegTasks
  BY DEF RegStore, RegInv, RegTypeOK, Busy
<1>2. /\ regTask' = [regTask EXCEPT ![t] =
              IF task.op = "delete" \/ task.key \notin DOMAIN regTable' THEN RegIdle
              ELSE [task EXCEPT !.pc = "memory", !.value = regTable'[task.key]]]
      /\ UNCHANGED <<regKind, regBackend, regLive>>
  BY DEF RegStore
<1> HIDE DEF task
<1>3. CASE task.op = "delete" \/ task.key \notin DOMAIN regTable'
  BY <1>1, <1>2, <1>3 DEF Busy, RegIdle, task
<1>4. CASE ~ (task.op = "delete" \/ task.key \notin DOMAIN regTable')
  <2>1. regTask'[t] = [task EXCEPT !.pc = "memory", !.value = regTable'[task.key]]
    BY <1>1, <1>2, <1>4
  <2>2. /\ DOMAIN regTask'[t] = DOMAIN task
        /\ regTask'[t].pc = "memory" /\ regTask'[t].value = regTable'[task.key]
        /\ regTask'[t].op = task.op /\ regTask'[t].key = task.key /\ regTask'[t].alone = task.alone
    BY <1>1, <2>1
  <2>. QED  BY <1>1, <1>2, <1>4, <2>1, <2>2 DEF Busy, task
<1>. QED  BY <1>3, <1>4

LEMMA RegStoreKeepsInv ==
  ASSUME RegInv, NEW t \in RegTasks, RegStore(t)
  PROVE  RegInv'
<1>a. StoredTable(t)
  BY RegStoredTable
<1>b. StoredTask(t)
  BY RegStoredTask
<1>1. RegTypeOK'
  BY <1>a, <1>b DEF StoredTable, StoredTask, RegInv, RegTypeOK, Busy
<1>2. RegAlone'
  BY <1>b DEF StoredTask, RegInv, RegAlone, Busy
<1>3. RegRelies'
  <2> SUFFICES ASSUME NEW u \in RegTasks, Busy(u)', regTask'[u].alone
               PROVE  /\ regTask'[u].pc = "memory" =>
                           regTask'[u].key \in DOMAIN regTable' /\ regTable'[regTask'[u].key] = regTask'[u].value
                      /\ regTask'[u].pc = "table" => u # t
                      /\ u = t
    BY DEF RegRelies
  <2>1. u = t
    BY <1>b DEF StoredTask, RegInv, RegAlone, Busy
  <2>. QED  BY <2>1, <1>b DEF StoredTask, Busy
<1>4. RegOnlyInWork'
  <2> SUFFICES ASSUME regBackend = "sqlite", NEW k \in RegKeys,
                      ~ (Busy(t)' /\ regTask[t].key = k)
               PROVE  RegAgree(k)'
    BY <1>b DEF StoredTask, RegOnlyInWork
  <2>1. regTask[t].alone /\ (\A u \in RegTasks \ {t} : ~ Busy(u))
    BY <1>b DEF StoredTask, RegInv, RegAlone
  <2>2. CASE k # regTask[t].key
    <3>1. RegAgree(k)
      BY <2>1, <2>2 DEF RegInv, RegOnlyInWork
    <3>. QED  BY <2>2, <3>1, <1>a, <1>b DEF StoredTable, StoredTask, RegAgree
  <2>3. CASE k = regTask[t].key
    <3>1. regTask[t].op = "delete" \/ k \notin DOMAIN regTable'
      BY <2>3, <1>b DEF StoredTask
    <3>2. CASE regTask[t].op = "delete"
      BY <2>1, <2>3, <3>2, <1>a, <1>b DEF StoredTable, StoredTask, RegInv, RegRelies, RegAgree
    <3>3. CASE regTask[t].op # "delete"
      <4>1. regTask[t].op = "get"
        BY <2>1, <2>3, <3>1, <3>3, <1>a, <1>b DEF StoredTable, StoredTask, RegInv, RegRelies, RegTypeOK
      <4>2. RegAgree(k)
        BY <2>1, <2>3, <4>1, <1>b DEF StoredTask, RegInv, RegOnlyInWork
      <4>. QED  BY <4>1, <4>2, <1>a, <1>b DEF StoredTable, StoredTask, RegAgree
    <3>. QED  BY <3>2, <3>3
  <2>. QED  BY <2>2, <2>3
<1>. QED  BY <1>1, <1>2, <1>3, <1>4 DEF RegInv

(* What a request is about to tell memory is a record, and goes in whole.  *)
ToldMemory(t) ==
  /\ Busy(t) /\ regTask[t].pc = "memory"
  /\ DOMAIN regLive' = DOMAIN regLive \cup {regTask[t].key}
  /\ regLive'[regTask[t].key] = regTask[t].value
  /\ \A k \in DOMAIN regLive : k # regTask[t].key => regLive'[k] = regLive[k]
  /\ DOMAIN regTask' = RegTasks /\ ~ Busy(t)'
  /\ \A u \in RegTasks \ {t} : regTask'[u] = regTask[u] /\ (Busy(u)' <=> Busy(u))
  /\ UNCHANGED <<regKind, regBackend, regTable>>

LEMMA RegToldMemory ==
  ASSUME RegInv, NEW t \in RegTasks, RegRemember(t)
  PROVE  ToldMemory(t)
<1> DEFINE key == regTask[t].key
           value == regTask[t].value
<1>1. /\ Busy(t) /\ regTask[t].pc = "memory" /\ IsRecord(value)
      /\ regLive' = Put(regLive, key, value, {})
      /\ regTask' = [regTask EXCEPT ![t] = RegIdle]
      /\ UNCHANGED <<regKind, regBackend, regTable>>
  BY DEF RegRemember, RegRemembered, RegInv, RegTypeOK, Busy
<1>2. /\ DOMAIN regTask' = RegTasks /\ ~ Busy(t)'
      /\ \A u \in RegTasks \ {t} : regTask'[u] = regTask[u] /\ (Busy(u)' <=> Busy(u))
  <2>1. DOMAIN regTask = RegTasks
    BY DEF RegInv, RegTypeOK
  <2>. QED  BY <1>1, <2>1 DEF Busy, RegIdle
<1> HIDE DEF key, value
<1>3. regLive'[key] = value
  BY <1>1, PutWhole
<1>4. /\ DOMAIN regLive' = DOMAIN regLive \cup {key}
      /\ \A k \in DOMAIN regLive : k # key => regLive'[k] = regLive[k]
  BY <1>1 DEF Put
<1>. QED  BY <1>1, <1>2, <1>3, <1>4 DEF ToldMemory, key, value

LEMMA RegRememberKeepsInv ==
  ASSUME RegInv, NEW t \in RegTasks, RegRemember(t)
  PROVE  /\ RegInv'
         /\ \A k : regTask[t].alone /\ k = regTask[t].key => RegAgree(k)'
<1>1. ToldMemory(t)
  BY RegToldMemory
<1>2. ASSUME regTask[t].alone, NEW k, k = regTask[t].key
      PROVE  RegAgree(k)'
  <2>1. k \in DOMAIN regTable /\ regTable[k] = regTask[t].value
    BY <1>1, <1>2 DEF ToldMemory, RegInv, RegRelies
  <2>. QED  BY <1>1, <1>2, <2>1 DEF ToldMemory, RegAgree
<1>3. RegTypeOK'
  BY <1>1 DEF ToldMemory, RegInv, RegTypeOK
<1>4. RegAlone'
  BY <1>1 DEF ToldMemory, RegInv, RegAlone
<1>5. RegRelies'
  <2> SUFFICES ASSUME NEW u \in RegTasks, Busy(u)', regTask'[u].alone
               PROVE  FALSE
    BY DEF RegRelies
  <2>. QED  BY <1>1 DEF ToldMemory, RegInv, RegAlone
<1>6. RegOnlyInWork'
  <2> SUFFICES ASSUME regBackend = "sqlite", NEW k \in RegKeys
               PROVE  RegAgree(k)'
    BY <1>1 DEF ToldMemory, RegOnlyInWork
  <2>1. regTask[t].alone /\ (\A u \in RegTasks \ {t} : ~ Busy(u))
    BY <1>1 DEF ToldMemory, RegInv, RegAlone
  <2>2. CASE k # regTask[t].key
    <3>1. RegAgree(k)
      BY <2>1, <2>2 DEF RegInv, RegOnlyInWork
    <3>. QED  BY <1>1, <2>2, <3>1 DEF ToldMemory, RegAgree
  <2>3. CASE k = regTask[t].key
    BY <1>2, <2>1, <2>3
  <2>. QED  BY <2>2, <2>3
<1>. QED  BY <1>2, <1>3, <1>4, <1>5, <1>6 DEF RegInv

\* A write that runs alone leaves memory and table agreeing on what it named.
LEMMA RegAloneAgrees ==
  ASSUME RegInv, [RegNext]_regVars, NEW t \in RegTasks, NEW key,
         Busy(t), regTask[t].alone, regTask[t].key = key, regTask[t].op # "get", ~ Busy(t)'
  PROVE  RegAgree(key)'
<1>1. \A u \in RegTasks \ {t} : ~ Busy(u)
  BY DEF RegInv, RegAlone
<1>2. CASE RegStore(t)
  <2>1. StoredTable(t) /\ StoredTask(t)
    BY <1>2, RegStoredTable, RegStoredTask
  <2>2. CASE regTask[t].op = "delete"
    <3>1. key \notin DOMAIN regLive
      BY <2>1, <2>2 DEF StoredTask, RegInv, RegRelies
    <3>. QED  BY <2>1, <2>2, <3>1 DEF StoredTable, StoredTask, RegAgree
  <2>3. CASE regTask[t].op # "delete"
    <3>1. regTask[t].op \in {"create", "update"}
      BY <2>3 DEF RegInv, RegTypeOK
    <3>2. key \in DOMAIN regTable'
      BY <2>1, <3>1 DEF StoredTable, StoredTask, RegInv, RegTypeOK, RegRelies
    <3>. QED  BY <2>1, <2>3, <3>2 DEF StoredTask
  <2>. QED  BY <2>2, <2>3
<1>3. CASE RegRemember(t)
  BY <1>3, RegRememberKeepsInv
<1>4. CASE RegRestart
  BY <1>4 DEF RegRestart, RegAgree
<1>5. ASSUME NEW u \in RegTasks, NEW op, NEW k, NEW v, RegStart(u, op, k, v)
      PROVE  Busy(t)'
  BY <1>1, <1>5 DEF RegStart, RegInv, RegTypeOK, Busy
<1>6. ASSUME NEW u \in RegTasks, RegStore(u) \/ RegRemember(u)
      PROVE  u = t
  <2>1. Busy(u)
    BY <1>6 DEF RegStore, RegRemember, Busy
  <2>. QED  BY <1>1, <2>1
<1>7. CASE UNCHANGED regVars
  BY <1>7 DEF regVars, Busy
<1>. QED  BY <1>2, <1>3, <1>4, <1>5, <1>6, <1>7 DEF RegNext

-----------------------------------------------------------------------------
LEMMA RegNextInv == RegInv /\ [RegNext]_regVars => RegInv'
<1>1. ASSUME RegInv, RegRestart
      PROVE  RegInv'
  BY <1>1, RegAssumption
  DEF RegRestart, RegInv, RegTypeOK, RegAlone, RegRelies, RegOnlyInWork, Busy, RegIdle, RegAgree
<1>2. ASSUME RegInv, UNCHANGED regVars
      PROVE  RegInv'
  BY <1>2 DEF regVars, RegInv, RegTypeOK, RegAlone, RegRelies, RegOnlyInWork, Busy, RegAgree
<1>3. ASSUME RegInv, NEW t \in RegTasks, NEW k \in RegKeys, NEW v \in RegValues,
             RegStart(t, "create", k, v) \/ RegStart(t, "update", k, v)
      PROVE  RegInv'
  <2>1. IsRecord(v)
    BY RegAssumption
  <2>. QED  BY <1>3, <2>1, RegStartKeepsInv
<1>4. ASSUME RegInv, NEW t \in RegTasks, NEW k \in RegKeys, NEW op \in {"delete", "get"},
             RegStart(t, op, k, None)
      PROVE  RegInv'
  BY <1>4, RegStartKeepsInv
<1>. QED  BY <1>1, <1>2, <1>3, <1>4, RegStoreKeepsInv, RegRememberKeepsInv DEF RegNext

\* For any number of requests and entries: memory follows the table, on SQLite whenever
\* no request is in the middle, after a lone write on either backend.
THEOREM MemoryFollowsTable == RegSpec => RegFollowsTable
<1>1. RegInv' => RegLiveIsStored'
  BY DEF RegInv, RegOnlyInWork, RegLiveIsStored, Busy
<1>2. ASSUME RegInv, [RegNext]_regVars, NEW t \in RegTasks, NEW k \in RegKeys,
             regTask[t].pc # "idle", regTask[t].key = k, regTask[t].alone,
             regTask[t].op # "get", regTask'[t].pc = "idle"
      PROVE  RegAgree(k)'
  <2>1. Busy(t) /\ ~ Busy(t)'
    BY <1>2 DEF Busy
  <2>. QED  BY <1>2, <2>1, RegAloneAgrees
<1>3. RegInv /\ RegInv' /\ [RegNext]_regVars
        => [/\ RegLiveIsStored'
            /\ \A t \in RegTasks, k \in RegKeys :
                 (/\ regTask[t].pc # "idle" /\ regTask[t].key = k /\ regTask[t].alone
                  /\ regTask[t].op # "get" /\ regTask'[t].pc = "idle")
                   => RegAgree(k)']_regVars
  BY <1>1, <1>2
<1>. QED  BY <1>3, RegInitInv, RegNextInv, PTL DEF RegSpec, RegFollowsTable

-----------------------------------------------------------------------------
(* Settings.  While nothing went wrong with the newest change, it is the   *)
(* only one in progress, and when it is done the last message on its way   *)
(* carries it; on SQLite the cache is what a restart loads, but for a      *)
(* request that is about to set it.                                        *)

SetValue == [SetItems -> BOOLEAN]
SetWork == [pc : {"table", "cache", "publish"}, change : Nat, value : SetValue]

SetTypeOK ==
  /\ setChanges \in Nat
  /\ setCache \in SetValue /\ setCamera \in SetValue
  /\ setQueue \in Seq([value : SetValue, change : Nat]) /\ setRecent \in Seq(SetValue)
  /\ setTable \in SetValue \cup {None}
  /\ setTask \in [SetTasks -> {SetIdle} \cup SetWork]

\* What the last message on its way carries is the newest change, which the cache holds.
SetDelivers ==
  IF setQueue = <<>> THEN setCamera = setCache
  ELSE setQueue[Len(setQueue)].value = setCache /\ setQueue[Len(setQueue)].change = setChanges

SetOnWay ==
  ~ setMissed =>
    /\ \A t, u \in SetTasks : SetBusy(t) /\ SetBusy(u) => t = u
    /\ \A t \in SetTasks : SetBusy(t) => setTask[t].change = setChanges
    /\ \A t \in SetTasks : setTask[t].pc = "publish" => setCache = setTask[t].value
    /\ (\A t \in SetTasks : ~ SetBusy(t)) => SetDelivers

SetOnDisk ==
  setBackend = "sqlite" =>
    /\ \A t, u \in SetTasks : SetWrites(t) /\ SetWrites(u) => t = u
    /\ setCache = SetLoaded \/ \E t \in SetTasks : setTask[t].pc = "cache"
    /\ \A t \in SetTasks : setTask[t].pc = "cache" => setTable = setTask[t].value

SetInv == SetTypeOK /\ SetOnWay /\ SetOnDisk

LEMMA SetConfiguredTyped == SetConfigured \in SetValue
BY DEF SetConfigured, SetValue

LEMMA SetTaskTyped ==
  ASSUME SetTypeOK, NEW t \in SetTasks
  PROVE  /\ setTask[t].pc \in {"idle", "table", "cache", "publish"}
         /\ setTask[t].pc = "idle" => setTask[t] = SetIdle
         /\ SetBusy(t) => /\ setTask[t] \in SetWork
                          /\ setTask[t].value \in SetValue /\ setTask[t].change \in Nat
BY DEF SetTypeOK, SetIdle, SetBusy, SetWork

LEMMA SetLoadedOf ==
  /\ SetTypeOK => SetLoaded \in SetValue
  /\ \A v \in SetValue : setTable = v => SetLoaded = v
BY SetAssumption, SetConfiguredTyped DEF SetLoaded, SetTypeOK, SetValue

\* A step of one request on SQLite finds no other at the table.
LEMMA SetRunsAlone ==
  ASSUME NEW t \in SetTasks, SetMayRun(t), setBackend = "sqlite"
  PROVE  \A u \in SetTasks : SetWrites(u) => u = t
BY DEF SetMayRun

LEMMA SetSwitchKeeps ==
  ASSUME SetInv, NEW t \in SetTasks, NEW i \in SetItems, NEW on \in BOOLEAN, SetSwitch(t, i, on)
  PROVE  SetInv'
<1> DEFINE work == [pc |-> "table", change |-> setChanges + 1, value |-> [setCache EXCEPT ![i] = on]]
<1>1. PICK new : /\ new = work
                 /\ setTask' = [setTask EXCEPT ![t] = new]
  BY DEF SetSwitch
<1>2. /\ SetMayRun(t) /\ ~ SetBusy(t) /\ setChanges' = setChanges + 1
      /\ setMissed' = \E u \in SetTasks : SetBusy(u)
      /\ UNCHANGED <<setBackend, setTable, setCache, setQueue, setRecent, setCamera, setPhones>>
  BY DEF SetSwitch
<1>3. [setCache EXCEPT ![i] = on] \in SetValue
  BY DEF SetInv, SetTypeOK, SetValue
<1>4. new \in SetWork /\ new.pc = "table" /\ new.change = setChanges + 1
  BY <1>1, <1>3 DEF SetWork, SetInv, SetTypeOK
<1>5. SetTypeOK'
  BY <1>1, <1>2, <1>4 DEF SetInv, SetTypeOK
<1>6. \A u \in SetTasks : setTask'[u] = IF u = t THEN new ELSE setTask[u]
  BY <1>1 DEF SetInv, SetTypeOK
<1>7. SetOnWay'
  <2> SUFFICES ASSUME ~ setMissed'
               PROVE  /\ \A u, v \in SetTasks : SetBusy(u)' /\ SetBusy(v)' => u = v
                      /\ \A u \in SetTasks : SetBusy(u)' => setTask'[u].change = setChanges'
                      /\ \A u \in SetTasks : setTask'[u].pc # "publish"
                      /\ \E u \in SetTasks : SetBusy(u)'
    BY DEF SetOnWay
  <2>1. \A u \in SetTasks : ~ SetBusy(u)
    BY <1>2
  <2>2. \A u \in SetTasks \ {t} : setTask'[u].pc = "idle"
    BY <1>6, <2>1 DEF SetBusy
  <2>. QED  BY <1>2, <1>4, <1>6, <2>2 DEF SetBusy
<1>8. SetOnDisk'
  <2> SUFFICES ASSUME setBackend = "sqlite"
               PROVE  SetOnDisk'
    BY <1>2 DEF SetOnDisk
  <2>1. \A u \in SetTasks : ~ SetWrites(u)
    BY <1>2, SetRunsAlone DEF SetBusy, SetWrites
  <2>2. \A u \in SetTasks : setTask[u].pc # "cache" /\ setTask'[u].pc # "cache"
    BY <1>4, <1>6, <2>1 DEF SetWrites
  <2>3. \A u \in SetTasks : SetWrites(u)' => u = t
    BY <1>6, <2>1 DEF SetWrites
  <2>4. setCache' = SetLoaded'
    BY <1>2, <2>2 DEF SetInv, SetOnDisk, SetLoaded
  <2>. QED  BY <2>2, <2>3, <2>4 DEF SetOnDisk
<1>. QED  BY <1>5, <1>7, <1>8 DEF SetInv

LEMMA SetStoredKeeps ==
  ASSUME SetInv, NEW t \in SetTasks, SetStored(t)
  PROVE  SetInv'
<1>1. PICK new : /\ new = [setTask[t] EXCEPT !.pc = "cache"]
                 /\ setTask' = [setTask EXCEPT ![t] = new]
  BY DEF SetStored
<1>2. /\ SetMayRun(t) /\ setTask[t].pc = "table" /\ setTable' = setTask[t].value
      /\ UNCHANGED <<setBackend, setCache, setQueue, setRecent, setCamera, setChanges, setMissed>>
  BY DEF SetStored
<1>3. setTask[t] \in SetWork /\ SetBusy(t)
  BY <1>2, SetTaskTyped DEF SetInv, SetBusy
<1>4. /\ new \in SetWork /\ new.pc = "cache"
      /\ new.value = setTask[t].value /\ new.change = setTask[t].change
  BY <1>1, <1>3 DEF SetWork
<1>5. SetTypeOK'
  BY <1>1, <1>2, <1>3, <1>4 DEF SetInv, SetTypeOK, SetWork
<1>6. \A u \in SetTasks : setTask'[u] = IF u = t THEN new ELSE setTask[u]
  BY <1>1 DEF SetInv, SetTypeOK
<1>7. \A u \in SetTasks : SetBusy(u)' = SetBusy(u) /\ setTask'[u].change = setTask[u].change
  BY <1>2, <1>4, <1>6 DEF SetBusy
<1>8. SetOnWay'
  BY <1>2, <1>3, <1>4, <1>6, <1>7 DEF SetInv, SetOnWay
<1>9. SetOnDisk'
  <2> SUFFICES ASSUME setBackend = "sqlite"
               PROVE  SetOnDisk'
    BY <1>2 DEF SetOnDisk
  <2>1. \A u \in SetTasks : SetWrites(u) => u = t
    BY <1>2, SetRunsAlone
  <2>2. \A u \in SetTasks : SetWrites(u)' => u = t
    BY <1>6, <2>1 DEF SetWrites
  <2>3. \A u \in SetTasks : setTask'[u].pc = "cache" => setTable' = setTask'[u].value
    BY <1>2, <1>4, <1>6, <2>2 DEF SetWrites
  <2>. QED  BY <1>4, <1>6, <2>2, <2>3 DEF SetOnDisk
<1>. QED  BY <1>5, <1>8, <1>9 DEF SetInv

LEMMA SetCachedKeeps ==
  ASSUME SetInv, NEW t \in SetTasks, SetCached(t)
  PROVE  SetInv'
<1>1. PICK new : /\ new = [setTask[t] EXCEPT !.pc = "publish"]
                 /\ setTask' = [setTask EXCEPT ![t] = new]
  BY DEF SetCached
<1>2. /\ SetMayRun(t) /\ setTask[t].pc = "cache" /\ setCache' = setTask[t].value
      /\ UNCHANGED <<setBackend, setTable, setQueue, setRecent, setCamera, setChanges, setMissed>>
  BY DEF SetCached
<1>3. setTask[t] \in SetWork /\ SetBusy(t) /\ setTask[t].value \in SetValue
  BY <1>2, SetTaskTyped DEF SetInv, SetBusy
<1>4. /\ new \in SetWork /\ new.pc = "publish"
      /\ new.value = setTask[t].value /\ new.change = setTask[t].change
  BY <1>1, <1>3 DEF SetWork
<1>5. SetTypeOK'
  BY <1>1, <1>2, <1>3, <1>4 DEF SetInv, SetTypeOK
<1>6. \A u \in SetTasks : setTask'[u] = IF u = t THEN new ELSE setTask[u]
  BY <1>1 DEF SetInv, SetTypeOK
<1>7. \A u \in SetTasks : SetBusy(u)' = SetBusy(u) /\ setTask'[u].change = setTask[u].change
  BY <1>2, <1>4, <1>6 DEF SetBusy
<1>8. SetOnWay'
  <2> SUFFICES ASSUME ~ setMissed
               PROVE  /\ \A u, v \in SetTasks : SetBusy(u)' /\ SetBusy(v)' => u = v
                      /\ \A u \in SetTasks : SetBusy(u)' => setTask'[u].change = setChanges'
                      /\ \A u \in SetTasks : setTask'[u].pc = "publish" => setCache' = setTask'[u].value
                      /\ \E u \in SetTasks : SetBusy(u)'
    BY <1>2 DEF SetOnWay
  <2>1. \A u, v \in SetTasks : SetBusy(u) /\ SetBusy(v) => u = v
    BY DEF SetInv, SetOnWay
  <2>2. \A u \in SetTasks : setTask'[u].pc = "publish" => u = t
    BY <1>3, <1>7, <2>1 DEF SetBusy
  <2>3. \A u \in SetTasks : setTask'[u].pc = "publish" => setCache' = setTask'[u].value
    BY <1>2, <1>4, <1>6, <2>2
  <2>4. \A u \in SetTasks : SetBusy(u)' => setTask'[u].change = setChanges'
    BY <1>2, <1>7 DEF SetInv, SetOnWay
  <2>. QED  BY <1>3, <1>7, <2>1, <2>3, <2>4
<1>9. SetOnDisk'
  <2> SUFFICES ASSUME setBackend = "sqlite"
               PROVE  SetOnDisk'
    BY <1>2 DEF SetOnDisk
  <2>1. \A u \in SetTasks : SetWrites(u) => u = t
    BY <1>2, SetRunsAlone
  <2>2. \A u \in SetTasks : ~ SetWrites(u)'
    BY <1>4, <1>6, <2>1 DEF SetWrites
  <2>3. setTable = setTask[t].value
    BY <1>2 DEF SetInv, SetOnDisk
  <2>4. setCache' = SetLoaded'
    BY <1>2, <1>3, <2>3, SetLoadedOf DEF SetLoaded
  <2>. QED  BY <2>2, <2>4 DEF SetOnDisk, SetWrites
<1>. QED  BY <1>5, <1>8, <1>9 DEF SetInv

\* A publication ends its request, whether or not the bus took it.
LEMMA SetPublishKeeps ==
  ASSUME SetInv, NEW t \in SetTasks, SetPublished(t) \/ SetPublishFails(t)
  PROVE  SetInv'
<1>1. /\ SetMayRun(t) /\ setTask[t].pc = "publish" /\ setTask' = [setTask EXCEPT ![t] = SetIdle]
      /\ UNCHANGED <<setBackend, setTable, setCache, setRecent, setCamera, setChanges>>
  BY DEF SetPublished, SetPublishFails
<1>2. setTask[t].value \in SetValue /\ setTask[t].change \in Nat /\ SetBusy(t)
  BY <1>1, SetTaskTyped DEF SetInv, SetBusy
<1>3. PICK message : /\ message = [value |-> setTask[t].value, change |-> setTask[t].change]
                     /\ message \in [value : SetValue, change : Nat]
  <2>1. [value |-> setTask[t].value, change |-> setTask[t].change] \in [value : SetValue, change : Nat]
    BY <1>2
  <2>. QED  BY <2>1
<1>4. /\ message.value = setTask[t].value /\ message.change = setTask[t].change
      /\ \/ setQueue' = Append(setQueue, message) /\ setMissed' = setMissed
         \/ setQueue' = setQueue /\ (setMissed' = (setMissed \/ setTask[t].change = setChanges))
  BY <1>3 DEF SetPublished, SetPublishFails
<1>5. SetTypeOK'
  <2>1. setQueue' \in Seq([value : SetValue, change : Nat])
    <3>1. \A S : setQueue \in Seq(S) /\ message \in S => Append(setQueue, message) \in Seq(S)
      OBVIOUS
    <3>2. setQueue \in Seq([value : SetValue, change : Nat])
      BY DEF SetInv, SetTypeOK
    <3>3. Append(setQueue, message) \in Seq([value : SetValue, change : Nat])
      BY <1>3, <3>1, <3>2, Zenon
    <3>. QED  BY <1>4, <3>2, <3>3, Zenon
  <2>2. setTask' \in [SetTasks -> {SetIdle} \cup SetWork]
    BY <1>1 DEF SetInv, SetTypeOK
  <2>. QED  BY <1>1, <2>1, <2>2 DEF SetInv, SetTypeOK
<1>6. \A u \in SetTasks : setTask'[u] = IF u = t THEN SetIdle ELSE setTask[u]
  BY <1>1 DEF SetInv, SetTypeOK
<1>7. \A u \in SetTasks : setTask'[u].pc # "idle" => u # t /\ setTask'[u] = setTask[u]
  BY <1>6 DEF SetIdle
<1>8. SetOnWay'
  <2> SUFFICES ASSUME ~ setMissed'
               PROVE  (\A u \in SetTasks : ~ SetBusy(u)') /\ SetDelivers'
    BY DEF SetOnWay, SetBusy
  <2>0. ~ setMissed
    BY <1>4
  <2>1. /\ ~ setMissed /\ setTask[t].change = setChanges /\ setCache = setTask[t].value
        /\ \A u \in SetTasks : SetBusy(u) => u = t
    BY <1>1, <1>2, <2>0 DEF SetInv, SetOnWay
  <2>2. \A u \in SetTasks : ~ SetBusy(u)'
    BY <1>7, <2>1 DEF SetBusy
  <2>3. setQueue' = Append(setQueue, message)
    BY <1>4, <2>1
  <2>4. setQueue' # <<>> /\ setQueue'[Len(setQueue')] = message
    BY <1>3, <2>3 DEF SetInv, SetTypeOK
  <2>5. SetDelivers'
    BY <1>1, <1>4, <2>1, <2>4 DEF SetDelivers
  <2>. QED  BY <2>2, <2>5
<1>9. SetOnDisk'
  <2>1. \A u \in SetTasks : SetWrites(u)' = SetWrites(u) /\ (SetWrites(u) => setTask'[u] = setTask[u])
    BY <1>1, <1>6 DEF SetWrites, SetIdle
  <2>2. \A u \in SetTasks : /\ setTask[u].pc = "cache" => setTask'[u].pc = "cache"
                            /\ setTask'[u].pc = "cache" => setTask'[u] = setTask[u]
    BY <2>1 DEF SetWrites
  <2>. QED  BY <1>1, <2>1, <2>2 DEF SetInv, SetOnDisk, SetLoaded
<1>. QED  BY <1>5, <1>8, <1>9 DEF SetInv

LEMMA LastOfTail ==
  ASSUME NEW S, NEW q \in Seq(S), q # <<>>, Len(q) # 1
  PROVE  Tail(q) # <<>> /\ Tail(q)[Len(Tail(q))] = q[Len(q)]
<1>1. Len(q) \in Nat /\ Len(q) # 0
  OBVIOUS
<1>2. Len(q) - 1 \in Nat /\ Len(q) - 1 # 0 /\ (Len(q) - 1) + 1 = Len(q)
  BY <1>1
<1>3. Len(Tail(q)) = Len(q) - 1 /\ Tail(q) \in Seq(S)
  OBVIOUS
<1>4. \A i \in 1..(Len(q) - 1) : Tail(q)[i] = q[i + 1]
  OBVIOUS
<1>5. Len(q) - 1 \in 1..(Len(q) - 1)
  BY <1>2
<1>6. Tail(q)[Len(q) - 1] = q[Len(q)]
  BY <1>2, <1>4, <1>5
<1>7. Tail(q) # <<>>
  BY <1>2, <1>3
<1>. QED  BY <1>3, <1>6, <1>7

\* A message that arrives, is dropped or is lost: the last one counts.
LEMMA SetArrivalKeeps ==
  ASSUME SetInv, SetHear \/ SetLost
  PROVE  SetInv'
<1>1. /\ setQueue # <<>> /\ setQueue' = Tail(setQueue)
      /\ UNCHANGED <<setBackend, setTable, setCache, setTask, setChanges>>
      /\ setQueue \in Seq([value : SetValue, change : Nat])
  BY DEF SetHear, SetLost, SetInv, SetTypeOK
<1>2. Head(setQueue) \in [value : SetValue, change : Nat] /\ Head(setQueue).value \in SetValue
  <2>1. \A S : setQueue \in Seq(S) => Head(setQueue) \in S
    BY <1>1
  <2>2. Head(setQueue) \in [value : SetValue, change : Nat]
    BY <1>1, <2>1, Zenon
  <2>. QED  BY <2>2
<1>3. \/ /\ setCamera' = setCamera /\ setRecent' = setRecent
         /\ setMissed' = (setMissed \/ Head(setQueue).change = setChanges)
      \/ /\ setCamera' = Head(setQueue).value /\ (setMissed' <=> setMissed)
         /\ setRecent' = SetRemember(Append(setRecent, Head(setQueue).value))
  <2>1. CASE SetHear
    <3> DEFINE heard == \E i \in DOMAIN setRecent : setRecent[i] = Head(setQueue).value
    <3>1. /\ setCamera' = IF heard THEN setCamera ELSE Head(setQueue).value
          /\ setRecent' = IF heard THEN setRecent
                          ELSE SetRemember(Append(setRecent, Head(setQueue).value))
          /\ setMissed' = (setMissed \/ (heard /\ Head(setQueue).change = setChanges))
      BY <2>1, Zenon DEF SetHear, SetApplied
    <3> HIDE DEF heard
    <3>2. CASE heard
      BY <3>1, <3>2, Zenon
    <3>3. CASE ~ heard
      BY <3>1, <3>3, Zenon
    <3>. QED  BY <3>2, <3>3
  <2>2. CASE SetLost
    BY <2>2 DEF SetLost
  <2>. QED  BY <2>1, <2>2
<1>4. setRecent' \in Seq(SetValue)
  <2>1. Append(setRecent, Head(setQueue).value) \in Seq(SetValue)
    BY <1>2 DEF SetInv, SetTypeOK
  <2>2. SetRemember(Append(setRecent, Head(setQueue).value)) \in Seq(SetValue)
    BY <2>1, SetAssumption DEF SetRemember
  <2>. QED  BY <1>3, <2>2 DEF SetInv, SetTypeOK
<1>5. SetTypeOK'
  BY <1>1, <1>2, <1>3, <1>4 DEF SetInv, SetTypeOK
<1>6. ~ setMissed' => ~ setMissed
  BY <1>3
<1>7. ~ setMissed' /\ SetDelivers => SetDelivers'
  <2> SUFFICES ASSUME ~ setMissed', SetDelivers
               PROVE  SetDelivers'
    OBVIOUS
  <2>1. CASE Len(setQueue) = 1
    <3>1. setQueue' = <<>> /\ setQueue[Len(setQueue)] = Head(setQueue)
      BY <1>1, <2>1
    <3>2. Head(setQueue).change = setChanges /\ Head(setQueue).value = setCache
      BY <1>1, <3>1 DEF SetDelivers
    <3>3. setCamera' = Head(setQueue).value
      BY <1>3, <3>2
    <3>. QED  BY <1>1, <3>1, <3>2, <3>3 DEF SetDelivers
  <2>2. CASE Len(setQueue) # 1
    <3>1. setQueue' # <<>> /\ setQueue'[Len(setQueue')] = setQueue[Len(setQueue)]
      BY <1>1, <2>2, LastOfTail
    <3>. QED  BY <1>1, <3>1 DEF SetDelivers
  <2>. QED  BY <2>1, <2>2
<1>8. SetOnWay'
  BY <1>1, <1>6, <1>7 DEF SetInv, SetOnWay, SetBusy
<1>9. SetOnDisk'
  BY <1>1 DEF SetInv, SetOnDisk, SetWrites, SetLoaded
<1>. QED  BY <1>5, <1>8, <1>9 DEF SetInv

LEMMA SetOthersKeep ==
  ASSUME SetInv, SetRestart \/ SetPhoneConnects \/ SetEdgeRestart \/ UNCHANGED setVars
  PROVE  SetInv'
<1>1. CASE SetRestart
  <2>1. SetLoaded \in SetValue
    BY SetLoadedOf DEF SetInv
  <2>2. /\ setCache' = SetLoaded /\ setTask' = [t \in SetTasks |-> SetIdle]
        /\ setMissed' = (setMissed \/ setCache # SetLoaded \/ \E t \in SetTasks : SetBusy(t))
        /\ UNCHANGED <<setBackend, setTable, setQueue, setRecent, setCamera, setChanges>>
    BY <1>1 DEF SetRestart
  <2>3. SetTypeOK'
    BY <2>1, <2>2 DEF SetInv, SetTypeOK
  <2>4. \A u \in SetTasks : setTask'[u].pc = "idle"
    BY <2>2 DEF SetIdle
  <2>5. ~ setMissed' => setCache' = setCache /\ SetDelivers
    BY <2>2 DEF SetInv, SetOnWay
  <2>6. SetOnWay'
    BY <2>2, <2>4, <2>5 DEF SetOnWay, SetBusy, SetDelivers
  <2>7. SetOnDisk'
    BY <2>2, <2>4 DEF SetOnDisk, SetWrites, SetLoaded
  <2>. QED  BY <2>3, <2>6, <2>7 DEF SetInv
<1>2. CASE SetPhoneConnects \/ UNCHANGED setVars
  <2>1. UNCHANGED <<setBackend, setTable, setCache, setTask, setQueue, setRecent, setCamera,
                    setChanges, setMissed>>
    BY <1>2 DEF SetPhoneConnects, setVars
  <2>. QED  BY <2>1 DEF SetInv, SetTypeOK, SetOnWay, SetOnDisk, SetBusy, SetWrites, SetLoaded, SetDelivers
<1>3. CASE SetEdgeRestart
  <2>1. /\ setCamera' = SetConfigured /\ setQueue' = <<>> /\ setRecent' = <<>>
        /\ ~ setMissed' => ~ setMissed /\ setCache = SetConfigured
        /\ UNCHANGED <<setBackend, setTable, setCache, setTask, setChanges>>
    BY <1>3 DEF SetEdgeRestart
  <2>2. SetTypeOK'
    BY <2>1, SetConfiguredTyped DEF SetInv, SetTypeOK
  <2>3. ~ setMissed' => SetDelivers'
    BY <2>1 DEF SetDelivers
  <2>4. SetOnWay'
    BY <2>1, <2>3 DEF SetInv, SetOnWay, SetBusy
  <2>5. SetOnDisk'
    BY <2>1 DEF SetInv, SetOnDisk, SetWrites, SetLoaded
  <2>. QED  BY <2>2, <2>4, <2>5 DEF SetInv
<1>. QED  BY <1>1, <1>2, <1>3

\* For any number of switches, requests, messages and restarts: when all is quiet the
\* camera tracks what the dashboard shows, unless the newest change overlapped with
\* another, failed, was lost or was taken for a repetition; and on SQLite what the
\* dashboard shows is what a restart brings back.
THEOREM SwitchesArrive == SetSpec => []SetSwitchArrives
<1>1. SetInit => SetInv
  <2> SUFFICES ASSUME SetInit
               PROVE  SetInv
    OBVIOUS
  <2>1. SetTypeOK
    BY SetConfiguredTyped DEF SetInit, SetTypeOK, SetIdle
  <2>2. \A t \in SetTasks : setTask[t].pc = "idle"
    BY DEF SetInit, SetIdle
  <2>. QED
    BY <2>1, <2>2 DEF SetInit, SetInv, SetOnWay, SetOnDisk, SetBusy, SetWrites, SetDelivers, SetLoaded
<1>2. SetInv /\ [SetNext]_setVars => SetInv'
  BY SetSwitchKeeps, SetStoredKeeps, SetCachedKeeps, SetPublishKeeps, SetArrivalKeeps, SetOthersKeep
  DEF SetNext
<1>3. SetInv => SetSwitchArrives
  <2> SUFFICES ASSUME SetInv, SetQuiet
               PROVE  (~ setMissed => setCamera = setCache)
                        /\ (setBackend = "sqlite" => setCache = SetLoaded)
    BY DEF SetSwitchArrives, SetCameraCatchesUp, SetSurvives, SetLoaded
  <2>1. \A t \in SetTasks : setTask[t].pc # "cache"
    BY DEF SetQuiet, SetBusy
  <2>. QED  BY <2>1 DEF SetInv, SetQuiet, SetOnWay, SetOnDisk, SetDelivers
<1>. QED  BY <1>1, <1>2, <1>3, PTL DEF SetSpec

-----------------------------------------------------------------------------
(* Datasets.  An export under way has no manifest yet, and what it has     *)
(* copied are the frames it is done with, each under the split of its      *)
(* session; a frame waiting for its row has its image already.             *)

CapAtWork == capTask.pc \in {"copy", "label"}

CapDone == DOMAIN capTask.frames \ capTask.todo

CapSplitOf(f) == CapSessions[capTask.frames[f].session]

CapTaskOK ==
  /\ capTask.pc = "row" => capTask.frame \in capImages
  /\ CapAtWork =>
       /\ DOMAIN capTask = {"pc", "frames", "todo"}
       /\ {"train", "val"} \subseteq {CapSplitOf(f) : f \in DOMAIN capTask.frames}
       /\ \A f \in CapDone : \E i \in capExport.images : i.frame = f /\ i.split = CapSplitOf(f)
       /\ capTask.pc = "copy" => \A i \in capExport.images : i.frame \in capExport.labels

\* A manifest is written last: by then nothing is missing.
CapComplete ==
  /\ capExport.yaml
  /\ {"train", "val"} \subseteq {i.split : i \in capExport.images}
  /\ \A i \in capExport.images : i.frame \in capExport.labels

CapExportOK ==
  /\ DOMAIN capExport = {"images", "labels", "yaml", "manifest"}
  /\ capExport.yaml \in BOOLEAN /\ capExport.manifest \in BOOLEAN
  /\ capExport.manifest => CapComplete /\ ~ CapAtWork

CapInv == CapTaskOK /\ CapExportOK /\ CapFrameHasImage

LEMMA CapSnapKeeps ==
  ASSUME CapInv, NEW f \in CapFrames, NEW s, NEW p, CapSnap(f, s, p)
  PROVE  CapInv'
<1>1. /\ capTask.pc = "idle" /\ capImages \subseteq capImages' /\ f \in capImages'
      /\ capTask'.pc = "row" /\ capTask'.frame = f
      /\ UNCHANGED <<capFrames, capExport>>
  BY DEF CapSnap, CapWrote
<1>2. CapTaskOK'
  BY <1>1 DEF CapTaskOK, CapAtWork
<1>3. CapExportOK'
  BY <1>1 DEF CapInv, CapExportOK, CapComplete, CapAtWork
<1>. QED  BY <1>1, <1>2, <1>3 DEF CapInv, CapFrameHasImage

LEMMA CapIdleKeeps ==
  ASSUME CapInv, capTask' = CapIdle, UNCHANGED capExport
  PROVE  CapTaskOK' /\ CapExportOK'
<1>1. capTask'.pc = "idle"
  BY DEF CapIdle
<1>. QED  BY <1>1 DEF CapInv, CapTaskOK, CapExportOK, CapComplete, CapAtWork

LEMMA CapStoredKeeps ==
  ASSUME CapInv, NEW drafts, CapStored(drafts)
  PROVE  CapInv'
<1>1. /\ DOMAIN capFrames' = DOMAIN capFrames \cup {capTask.frame} /\ capTask.frame \in capImages
      /\ capTask' = CapIdle /\ UNCHANGED <<capImages, capExport>>
  <2>1. PICK r : capFrames' = Put(capFrames, capTask.frame, r, {"created_at"})
    BY DEF CapStored
  <2>2. DOMAIN capFrames' = DOMAIN capFrames \cup {capTask.frame}
    BY <2>1 DEF Put
  <2>. QED  BY <2>2 DEF CapStored, CapInv, CapTaskOK
<1>2. CapFrameHasImage'
  BY <1>1 DEF CapInv, CapFrameHasImage
<1>. QED  BY <1>1, <1>2, CapIdleKeeps DEF CapInv

LEMMA CapReviewKeeps ==
  ASSUME CapInv, NEW f, NEW boxes, NEW status, CapReview(f, boxes, status)
  PROVE  CapInv'
<1>1. DOMAIN capFrames' = DOMAIN capFrames /\ UNCHANGED <<capImages, capTask, capExport>>
  BY PatchTable DEF CapReview
<1>. QED
  BY <1>1 DEF CapInv, CapTaskOK, CapExportOK, CapComplete, CapAtWork, CapDone, CapSplitOf,
              CapFrameHasImage

LEMMA CapExportStartKeeps ==
  ASSUME CapInv, NEW selected, CapExportStart(selected)
  PROVE  CapInv'
<1> DEFINE frames == [f \in CapReviewed(selected) |-> capFrames[f]]
<1>1. /\ {"train", "val"} \subseteq CapSplits(frames)
      /\ capTask' = [pc |-> "copy", frames |-> frames, todo |-> DOMAIN frames]
      /\ capExport' = [images |-> {}, labels |-> {}, yaml |-> FALSE, manifest |-> FALSE]
      /\ UNCHANGED <<capFrames, capImages>>
  BY DEF CapExportStart
<1> HIDE DEF frames
<1>2. /\ capTask'.pc = "copy" /\ capTask'.frames = frames /\ capTask'.todo = DOMAIN frames
      /\ DOMAIN capTask' = {"pc", "frames", "todo"}
      /\ capExport'.images = {} /\ capExport'.labels = {}
      /\ capExport'.yaml = FALSE /\ capExport'.manifest = FALSE
      /\ DOMAIN capExport' = {"images", "labels", "yaml", "manifest"}
  BY <1>1
<1>3. {"train", "val"} \subseteq {CapSplitOf(f) : f \in DOMAIN capTask.frames}'
  BY <1>1, <1>2 DEF CapSplits, CapSplitOf
<1>4. CapDone' = {}
  BY <1>2 DEF CapDone
<1>5. CapTaskOK'
  BY <1>2, <1>3, <1>4 DEF CapTaskOK
<1>6. CapExportOK'
  BY <1>2 DEF CapExportOK
<1>. QED  BY <1>1, <1>5, <1>6 DEF CapInv, CapFrameHasImage

LEMMA CapCopyKeeps ==
  ASSUME CapInv, NEW f, CapCopy(f)
  PROVE  CapInv'
<1> DEFINE copy == [frame |-> f, split |-> CapSplitOf(f), picture |-> capTask.frames[f].picture]
<1>1. /\ capTask.pc = "copy" /\ f \in capTask.todo
      /\ capExport' = [capExport EXCEPT !.images = @ \cup {copy}]
      /\ capTask' = [capTask EXCEPT !.pc = "label", !.todo = @ \ {f}, !.frames = capTask.frames]
      /\ UNCHANGED <<capFrames, capImages>>
  BY DEF CapCopy, CapSplitOf
<1>2. copy.frame = f /\ copy.split = CapSplitOf(f)
  OBVIOUS
<1> HIDE DEF copy
<1>3. CapAtWork /\ ~ capExport.manifest
  BY <1>1 DEF CapAtWork, CapInv, CapExportOK
<1>4. /\ capTask'.pc = "label" /\ capTask'.frames = capTask.frames /\ capTask'.todo = capTask.todo \ {f}
      /\ DOMAIN capTask' = {"pc", "frames", "todo"}
  BY <1>1, <1>3 DEF CapInv, CapTaskOK
<1>5. /\ capExport'.images = capExport.images \cup {copy} /\ capExport'.labels = capExport.labels
      /\ capExport'.yaml = capExport.yaml /\ capExport'.manifest = capExport.manifest
      /\ DOMAIN capExport' = {"images", "labels", "yaml", "manifest"}
  BY <1>1 DEF CapInv, CapExportOK
<1>6. \A g : CapSplitOf(g)' = CapSplitOf(g)
  BY <1>4 DEF CapSplitOf
<1>7. CapDone' \subseteq CapDone \cup {f}
  BY <1>4 DEF CapDone
<1>8. CapTaskOK'
  <2>1. {"train", "val"} \subseteq {CapSplitOf(g) : g \in DOMAIN capTask.frames}'
    BY <1>3, <1>4 DEF CapInv, CapTaskOK, CapSplitOf
  <2>2. ASSUME NEW g \in CapDone'
        PROVE  \E i \in capExport'.images : i.frame = g /\ i.split = CapSplitOf(g)'
    <3>1. CASE g \in CapDone
      BY <1>3, <1>5, <1>6, <3>1 DEF CapInv, CapTaskOK
    <3>2. CASE g = f
      BY <1>2, <1>5, <1>6, <3>2
    <3>. QED  BY <1>7, <2>2, <3>1, <3>2
  <2>. QED  BY <1>4, <2>1, <2>2 DEF CapTaskOK
<1>9. CapExportOK'
  BY <1>3, <1>5 DEF CapExportOK, CapInv
<1>. QED  BY <1>1, <1>8, <1>9 DEF CapInv, CapFrameHasImage

LEMMA CapLabelKeeps ==
  ASSUME CapInv, CapLabel
  PROVE  CapInv'
<1> DEFINE all == {i.frame : i \in capExport.images}
<1>1. /\ capTask.pc = "label" /\ capTask' = [capTask EXCEPT !.pc = "copy"]
      /\ capExport' = [capExport EXCEPT !.labels = all]
      /\ UNCHANGED <<capFrames, capImages>>
  BY DEF CapLabel, CapLabelled
<1>2. \A i \in capExport.images : i.frame \in all
  OBVIOUS
<1> HIDE DEF all
<1>3. CapAtWork /\ ~ capExport.manifest
  BY <1>1 DEF CapAtWork, CapInv, CapExportOK
<1>4. /\ capTask'.pc = "copy" /\ capTask'.frames = capTask.frames /\ capTask'.todo = capTask.todo
      /\ DOMAIN capTask' = {"pc", "frames", "todo"}
  BY <1>1, <1>3 DEF CapInv, CapTaskOK
<1>5. /\ capExport'.images = capExport.images /\ capExport'.labels = all
      /\ capExport'.yaml = capExport.yaml /\ capExport'.manifest = capExport.manifest
      /\ DOMAIN capExport' = {"images", "labels", "yaml", "manifest"}
  BY <1>1 DEF CapInv, CapExportOK
<1>6. CapTaskOK'
  BY <1>2, <1>3, <1>4, <1>5 DEF CapInv, CapTaskOK, CapDone, CapSplitOf
<1>7. CapExportOK'
  BY <1>3, <1>5 DEF CapExportOK, CapInv
<1>. QED  BY <1>1, <1>6, <1>7 DEF CapInv, CapFrameHasImage

LEMMA CapWriteKeeps ==
  ASSUME CapInv, CapWrite
  PROVE  CapInv'
<1>1. /\ capTask.pc = "copy" /\ capTask.todo = {} /\ CapAtWork /\ ~ capExport.manifest
      /\ UNCHANGED <<capFrames, capImages>>
  BY DEF CapWrite, CapAtWork, CapInv, CapExportOK
<1>2. /\ {"train", "val"} \subseteq {i.split : i \in capExport.images}
      /\ \A i \in capExport.images : i.frame \in capExport.labels
  <2>1. \A f \in DOMAIN capTask.frames : \E i \in capExport.images : i.split = CapSplitOf(f)
    BY <1>1 DEF CapInv, CapTaskOK, CapDone
  <2>. QED  BY <1>1, <2>1 DEF CapInv, CapTaskOK
<1>3. CASE capExport.yaml
  <2>1. capExport' = [capExport EXCEPT !.manifest = TRUE]
    BY <1>3 DEF CapWrite, CapWritten
  <2>2. /\ capExport'.images = capExport.images /\ capExport'.labels = capExport.labels
        /\ capExport'.yaml = capExport.yaml /\ capExport'.manifest = TRUE
        /\ DOMAIN capExport' = {"images", "labels", "yaml", "manifest"}
    BY <2>1 DEF CapInv, CapExportOK
  <2>3. capTask' = CapIdle /\ capTask'.pc = "idle"
    BY <1>3, <2>2 DEF CapWrite, CapIdle
  <2>4. CapTaskOK'
    BY <2>3 DEF CapTaskOK, CapAtWork
  <2>5. CapComplete' /\ ~ CapAtWork'
    BY <1>2, <1>3, <2>2, <2>3 DEF CapComplete, CapAtWork
  <2>6. CapExportOK'
    BY <1>3, <2>2, <2>5 DEF CapExportOK
  <2>. QED  BY <1>1, <2>4, <2>6 DEF CapInv, CapFrameHasImage
<1>4. CASE ~ capExport.yaml
  <2>1. capExport' = [capExport EXCEPT !.yaml = TRUE]
    BY <1>4 DEF CapWrite, CapWritten
  <2>2. /\ capExport'.images = capExport.images /\ capExport'.labels = capExport.labels
        /\ capExport'.yaml = TRUE /\ capExport'.manifest = capExport.manifest
        /\ DOMAIN capExport' = {"images", "labels", "yaml", "manifest"}
    BY <2>1 DEF CapInv, CapExportOK
  <2>3. capTask' = capTask
    BY <1>1, <2>2 DEF CapWrite
  <2>4. CapTaskOK'
    BY <1>1, <2>2, <2>3 DEF CapInv, CapTaskOK, CapAtWork, CapDone, CapSplitOf
  <2>5. capExport'.manifest \in BOOLEAN /\ ~ capExport'.manifest
    BY <1>1, <2>2 DEF CapInv, CapExportOK
  <2>6. CapExportOK'
    BY <2>2, <2>5 DEF CapExportOK
  <2>. QED  BY <1>1, <2>4, <2>6 DEF CapInv, CapFrameHasImage
<1>. QED  BY <1>3, <1>4

LEMMA CapNextInv == CapInv /\ [CapNext]_capVars => CapInv'
<1> SUFFICES ASSUME CapInv, [CapNext]_capVars
             PROVE  CapInv'
  OBVIOUS
<1>1. CASE CapCrash
  BY <1>1, CapIdleKeeps DEF CapCrash, CapInv, CapFrameHasImage
<1>2. CASE UNCHANGED capVars
  BY <1>2 DEF capVars, CapInv, CapTaskOK, CapExportOK, CapComplete, CapAtWork, CapDone, CapSplitOf,
              CapFrameHasImage
<1>. QED
  BY <1>1, <1>2, CapSnapKeeps, CapStoredKeeps, CapReviewKeeps, CapExportStartKeeps, CapCopyKeeps,
     CapLabelKeeps, CapWriteKeeps
  DEF CapNext

\* For any frames, sessions and pictures, and wherever the process dies: every frame has
\* its image, and to an export with a manifest the audit has nothing to add but leakage.
THEOREM DatasetsAreWhole == CapSpec => []CapDatasetIsWhole
<1>1. CapInit => CapInv
  <2> SUFFICES ASSUME CapInit
               PROVE  CapInv
    OBVIOUS
  <2>1. capTask.pc = "idle" /\ DOMAIN capFrames = {}
    BY DEF CapInit, CapIdle
  <2>2. CapTaskOK
    BY <2>1 DEF CapTaskOK, CapAtWork
  <2>3. CapExportOK
    BY DEF CapInit, CapExportOK
  <2>. QED  BY <2>1, <2>2, <2>3 DEF CapInv, CapFrameHasImage
<1>2. CapInv => CapDatasetIsWhole
  <2>1. CapInv /\ capExport.manifest => CapComplete
    BY DEF CapInv, CapExportOK
  <2>2. CapComplete => CapAudit \subseteq {"leakage"}
    BY DEF CapComplete, CapAudit
  <2>. QED  BY <2>1, <2>2 DEF CapInv, CapDatasetIsWhole, CapManifestMeansComplete
<1>. QED  BY <1>1, <1>2, CapNextInv, PTL DEF CapSpec

-----------------------------------------------------------------------------
(* The downloads.  A thread that may have left a .part file has not yet    *)
(* cleaned up; one that is alone works on the file that name points at,    *)
(* which is never the one in place.                                        *)

WtsThreadRecords ==
  [pc : {"idle", "present", "open", "read", "hash", "replace", "clean"},
   file : {None} \cup (1 .. Len(wtsFiles)), total : Nat, force : BOOLEAN]

WtsTypeOK ==
  /\ wtsFiles \in Seq(SUBSET Nat)
  /\ {wtsPart, wtsDest} \subseteq {None} \cup (1 .. Len(wtsFiles))
  /\ wtsThread \in [WtsThreads -> WtsThreadRecords]
  /\ \A t \in WtsThreads : wtsThread[t].pc = "read" => wtsThread[t].file # None

WtsCleansUp ==
  wtsPart # None => wtsDied \/ \E t \in WtsThreads :
                                 wtsThread[t].pc \in {"read", "hash", "replace", "clean"}

WtsOneWorks ==
  ~ wtsShared =>
    /\ \A t, u \in WtsThreads : wtsThread[t].pc # "idle" /\ wtsThread[u].pc # "idle" => t = u
    /\ wtsPart # None => wtsPart # wtsDest
    /\ \A t \in WtsThreads :
         /\ wtsThread[t].pc \in {"read", "hash"} => wtsPart # None
         /\ wtsThread[t].pc = "read" => wtsThread[t].file = wtsPart
         /\ wtsThread[t].pc = "replace" => wtsPart # None /\ wtsFiles[wtsPart] = WtsRight

WtsInv == WtsTypeOK /\ WtsCleansUp /\ WtsOneWorks

\* A step that keeps or replaces the installed checkpoint rightly, while nothing is shared.
WtsKeeps ==
  /\ (WtsInstalled /\ ~ wtsShared') => WtsInstalled'
  /\ (wtsDest' \notin {wtsDest, None} /\ ~ wtsShared') => WtsInstalled'

\* A thread that goes on changes nothing but where it is.
LEMMA WtsGoesOn ==
  ASSUME WtsTypeOK, NEW t \in WtsThreads, NEW pc, WtsGoto(t, pc),
         pc \in {"idle", "open", "hash", "replace", "clean"}
  PROVE  /\ wtsThread' \in [WtsThreads -> WtsThreadRecords]
         /\ wtsThread'[t].pc = pc /\ wtsThread'[t].file = wtsThread[t].file
         /\ \A u \in WtsThreads \ {t} : wtsThread'[u] = wtsThread[u]
         /\ \A u \in WtsThreads : wtsThread'[u].pc = "read" => wtsThread'[u].file # None
<1>1. /\ wtsThread'[t].pc = pc /\ wtsThread'[t].file = wtsThread[t].file
      /\ \A u \in WtsThreads \ {t} : wtsThread'[u] = wtsThread[u]
  BY DEF WtsGoto, WtsTypeOK
<1>2. wtsThread' \in [WtsThreads -> WtsThreadRecords]
  BY DEF WtsGoto, WtsTypeOK, WtsThreadRecords
<1>3. \A u \in WtsThreads : wtsThread'[u].pc = "read" => wtsThread'[u].file # None
  BY <1>1 DEF WtsTypeOK
<1>. QED  BY <1>1, <1>2, <1>3

LEMMA WtsLookKeeps ==
  ASSUME WtsInv, NEW t \in WtsThreads, WtsLook(t)
  PROVE  WtsInv' /\ WtsKeeps
<1>1. PICK pc \in {"idle", "open"} : WtsGoto(t, pc)
  BY DEF WtsLook
<1>2. /\ UNCHANGED <<wtsFiles, wtsPart, wtsShared, wtsDied>> /\ wtsThread[t].pc = "present"
      /\ wtsDest' \in {wtsDest, None}
      /\ wtsDest' # wtsDest => wtsFiles[wtsDest] # WtsRight
  BY DEF WtsLook
<1>3. WtsTypeOK'
  BY <1>1, <1>2, WtsGoesOn DEF WtsInv, WtsTypeOK, WtsThreadRecords
<1>4. WtsCleansUp'
  BY <1>1, <1>2, WtsGoesOn DEF WtsInv, WtsCleansUp
<1>5. WtsOneWorks'
  BY <1>1, <1>2, WtsGoesOn DEF WtsInv, WtsOneWorks
<1>6. WtsKeeps
  BY <1>2 DEF WtsKeeps, WtsInstalled
<1>. QED  BY <1>3, <1>4, <1>5, <1>6 DEF WtsInv

\* The response ended, did not, or was hashed: the file is as it was.
LEMMA WtsWaitKeeps ==
  ASSUME WtsInv, NEW t \in WtsThreads, WtsEnd(t) \/ WtsAbort(t) \/ WtsHash(t)
  PROVE  WtsInv' /\ WtsKeeps
<1>1. PICK pc \in {"hash", "replace", "clean"} :
        /\ WtsGoto(t, pc) /\ wtsThread[t].pc \in {"open", "read", "hash"}
        /\ pc = "hash" => wtsThread[t].pc = "read"
        /\ pc = "replace" => WtsVerified
  BY DEF WtsEnd, WtsAbort, WtsHash
<1>2. UNCHANGED <<wtsFiles, wtsPart, wtsDest, wtsShared, wtsDied>>
  BY DEF WtsEnd, WtsAbort, WtsHash
<1>3. WtsTypeOK'
  BY <1>1, <1>2, WtsGoesOn DEF WtsInv, WtsTypeOK, WtsThreadRecords
<1>4. WtsCleansUp'
  BY <1>1, <1>2, WtsGoesOn DEF WtsInv, WtsCleansUp
<1>5. WtsOneWorks'
  BY <1>1, <1>2, WtsGoesOn DEF WtsInv, WtsOneWorks, WtsVerified
<1>6. WtsKeeps
  BY <1>2 DEF WtsKeeps, WtsInstalled
<1>. QED  BY <1>3, <1>4, <1>5, <1>6 DEF WtsInv

LEMMA WtsReplaceKeeps ==
  ASSUME WtsInv, NEW t \in WtsThreads, WtsReplace(t)
  PROVE  WtsInv' /\ WtsKeeps
<1>1. /\ WtsGoto(t, "clean") /\ UNCHANGED <<wtsFiles, wtsShared, wtsDied>>
      /\ wtsThread[t].pc = "replace" /\ wtsPart' = None
      /\ IF wtsPart = None THEN wtsDest' = wtsDest ELSE wtsDest' = wtsPart
  BY DEF WtsReplace
<1>2. WtsTypeOK'
  BY <1>1, WtsGoesOn DEF WtsInv, WtsTypeOK, WtsThreadRecords
<1>3. WtsCleansUp'
  BY <1>1 DEF WtsCleansUp
<1>4. WtsOneWorks'
  BY <1>1, WtsGoesOn DEF WtsInv, WtsOneWorks
<1>5. WtsKeeps
  BY <1>1 DEF WtsKeeps, WtsInstalled, WtsInv, WtsOneWorks
<1>. QED  BY <1>2, <1>3, <1>4, <1>5 DEF WtsInv

LEMMA WtsCleanKeeps ==
  ASSUME WtsInv, NEW t \in WtsThreads, WtsClean(t)
  PROVE  WtsInv' /\ WtsKeeps
<1>1. /\ WtsGoto(t, "idle") /\ UNCHANGED <<wtsFiles, wtsDest, wtsShared, wtsDied>>
      /\ wtsThread[t].pc = "clean" /\ wtsPart' = None
  BY DEF WtsClean, WtsUnlink
<1>2. WtsTypeOK'
  BY <1>1, WtsGoesOn DEF WtsInv, WtsTypeOK, WtsThreadRecords
<1>3. WtsCleansUp'
  BY <1>1 DEF WtsCleansUp
<1>4. WtsOneWorks'
  BY <1>1, WtsGoesOn DEF WtsInv, WtsOneWorks
<1>5. WtsKeeps
  BY <1>1 DEF WtsKeeps, WtsInstalled
<1>. QED  BY <1>2, <1>3, <1>4, <1>5 DEF WtsInv

LEMMA WtsRequestKeeps ==
  ASSUME WtsInv, NEW t \in WtsThreads, NEW force \in BOOLEAN, WtsRequest(t, force)
  PROVE  WtsInv' /\ WtsKeeps
<1> USE DEF WtsInv
<1>1. /\ wtsThread[t].pc = "idle" /\ UNCHANGED <<wtsFiles, wtsPart, wtsDest, wtsDied>>
      /\ wtsShared' = (wtsShared \/ \E u \in WtsThreads : wtsThread[u].pc # "idle")
      /\ wtsThread' = [wtsThread EXCEPT ![t] = [WtsIdle EXCEPT !.pc = "present", !.force = force]]
  BY DEF WtsRequest
<1>2. /\ wtsThread'[t].pc = "present" /\ wtsThread'[t] \in WtsThreadRecords
      /\ \A u \in WtsThreads \ {t} : wtsThread'[u] = wtsThread[u]
  BY <1>1 DEF WtsTypeOK, WtsIdle, WtsThreadRecords
<1>3. WtsTypeOK'
  <2>1. wtsThread' \in [WtsThreads -> WtsThreadRecords]
    BY <1>1, <1>2 DEF WtsTypeOK
  <2>2. \A u \in WtsThreads : wtsThread'[u].pc = "read" => wtsThread'[u].file # None
    BY <1>2 DEF WtsTypeOK
  <2>. QED  BY <2>1, <2>2, <1>1 DEF WtsTypeOK, WtsThreadRecords
<1>4. WtsCleansUp'
  BY <1>1, <1>2 DEF WtsCleansUp
<1>5. WtsOneWorks'
  BY <1>1, <1>2 DEF WtsOneWorks
<1>6. WtsKeeps
  BY <1>1 DEF WtsKeeps, WtsInstalled
<1>. QED  BY <1>3, <1>4, <1>5, <1>6

\* What a thread opens is not the file in place, unless two share the name.
LEMMA WtsOpenKeeps ==
  ASSUME WtsInv, NEW t \in WtsThreads, WtsOpen(t)
  PROVE  WtsInv' /\ WtsKeeps
<1> USE DEF WtsInv
<1>1. /\ wtsThread[t].pc = "open" /\ UNCHANGED <<wtsDest, wtsShared, wtsDied>>
      /\ wtsPart' = IF wtsPart = None THEN Len(wtsFiles) + 1 ELSE wtsPart
      /\ wtsFiles' = IF wtsPart = None THEN Append(wtsFiles, {})
                     ELSE [wtsFiles EXCEPT ![wtsPart] = {}]
      /\ wtsThread' = [wtsThread EXCEPT ![t].pc = "read", ![t].file = wtsPart', ![t].total = 0]
  BY DEF WtsOpen
<1>2. /\ wtsFiles' \in Seq(SUBSET Nat) /\ Len(wtsFiles) \in Nat
      /\ Len(wtsFiles') \in Nat /\ Len(wtsFiles') >= Len(wtsFiles)
      /\ wtsPart' \in 1 .. Len(wtsFiles') /\ wtsPart' # None
  <2>1. CASE wtsPart = None
    BY <1>1, <2>1, WtsAssumption DEF WtsTypeOK
  <2>2. CASE wtsPart # None
    <3>1. wtsPart \in 1 .. Len(wtsFiles)
      BY <2>2 DEF WtsTypeOK
    <3>. QED  BY <1>1, <2>2, <3>1 DEF WtsTypeOK
  <2>. QED  BY <2>1, <2>2
<1>3. /\ wtsThread'[t].pc = "read" /\ wtsThread'[t].file = wtsPart'
      /\ \A u \in WtsThreads \ {t} : wtsThread'[u] = wtsThread[u]
  BY <1>1 DEF WtsTypeOK
<1>4. WtsTypeOK'
  <2>1. 1 .. Len(wtsFiles) \subseteq 1 .. Len(wtsFiles')
    BY <1>2
  <2>2. wtsThread' \in [WtsThreads -> WtsThreadRecords']
    <3>1. /\ wtsThread' = [wtsThread EXCEPT ![t] = [wtsThread[t] EXCEPT !.pc = "read",
                                                     !.file = wtsPart', !.total = 0]]
          /\ wtsThread \in [WtsThreads -> WtsThreadRecords]
      BY <1>1 DEF WtsTypeOK, WtsThreadRecords
    <3>2. WtsThreadRecords \subseteq WtsThreadRecords'
      BY <2>1 DEF WtsThreadRecords
    <3>3. [wtsThread[t] EXCEPT !.pc = "read", !.file = wtsPart', !.total = 0] \in WtsThreadRecords'
      BY <3>1, <3>2, <1>2 DEF WtsThreadRecords
    <3>. QED  BY <3>1, <3>2, <3>3
  <2>3. \A u \in WtsThreads : wtsThread'[u].pc = "read" => wtsThread'[u].file # None
    BY <1>2, <1>3 DEF WtsTypeOK
  <2>. QED  BY <2>1, <2>2, <2>3, <1>1, <1>2 DEF WtsTypeOK, WtsThreadRecords
<1>5. WtsCleansUp'
  BY <1>3 DEF WtsCleansUp
<1>6. ~ wtsShared => wtsPart' # wtsDest
  BY <1>1, <1>2 DEF WtsOneWorks, WtsTypeOK
<1>7. WtsOneWorks'
  BY <1>1, <1>2, <1>3, <1>6 DEF WtsOneWorks
<1>8. WtsKeeps
  <2> SUFFICES ASSUME WtsInstalled, ~ wtsShared
               PROVE  wtsFiles'[wtsDest] = wtsFiles[wtsDest]
    BY <1>1 DEF WtsKeeps, WtsInstalled
  <2>1. wtsDest \in 1 .. Len(wtsFiles)
    BY DEF WtsInstalled, WtsTypeOK
  <2>. QED  BY <2>1, <1>1, <1>6 DEF WtsTypeOK
<1>. QED  BY <1>4, <1>5, <1>7, <1>8

LEMMA WtsReadKeeps ==
  ASSUME WtsInv, NEW t \in WtsThreads, NEW right \in BOOLEAN, WtsRead(t, right)
  PROVE  WtsInv' /\ WtsKeeps
<1> USE DEF WtsInv
<1> DEFINE n == wtsThread[t].total + 1
           file == wtsThread[t].file
<1>1. /\ wtsThread[t].pc = "read" /\ UNCHANGED <<wtsPart, wtsDest, wtsShared, wtsDied>>
      /\ wtsFiles' = [wtsFiles EXCEPT ![file] = IF right THEN @ \cup {n} ELSE @ \ {n}]
      /\ wtsThread' = [wtsThread EXCEPT ![t].total = n]
  BY DEF WtsRead
<1>2. n \in Nat /\ file \in 1 .. Len(wtsFiles)
  BY <1>1 DEF WtsTypeOK, WtsThreadRecords
<1>3. wtsFiles' \in Seq(SUBSET Nat) /\ Len(wtsFiles') = Len(wtsFiles)
  BY <1>1, <1>2 DEF WtsTypeOK
<1>4. \A u \in WtsThreads : wtsThread'[u].pc = wtsThread[u].pc /\ wtsThread'[u].file = wtsThread[u].file
  BY <1>1 DEF WtsTypeOK
<1>5. WtsTypeOK'
  <2>1. wtsThread' \in [WtsThreads -> WtsThreadRecords]
    BY <1>1, <1>2 DEF WtsTypeOK, WtsThreadRecords
  <2>. QED  BY <2>1, <1>1, <1>3, <1>4 DEF WtsTypeOK, WtsThreadRecords
<1>6. WtsCleansUp'
  BY <1>1, <1>4 DEF WtsCleansUp
<1>7. WtsOneWorks'
  BY <1>1, <1>4 DEF WtsOneWorks
<1>8. WtsKeeps
  <2> SUFFICES ASSUME WtsInstalled, ~ wtsShared
               PROVE  wtsFiles'[wtsDest] = wtsFiles[wtsDest]
    BY <1>1 DEF WtsKeeps, WtsInstalled
  <2>1. wtsDest \in 1 .. Len(wtsFiles) /\ wtsDest # file
    BY <1>1 DEF WtsInstalled, WtsTypeOK, WtsOneWorks
  <2>. QED  BY <2>1, <1>1, <1>2 DEF WtsTypeOK
<1>. QED  BY <1>5, <1>6, <1>7, <1>8

LEMMA WtsCrashKeeps ==
  ASSUME WtsInv, WtsCrash
  PROVE  WtsInv' /\ WtsKeeps
<1>1. /\ wtsThread' = [t \in WtsThreads |-> WtsIdle] /\ wtsDied' = TRUE
      /\ UNCHANGED <<wtsFiles, wtsPart, wtsDest, wtsShared>>
  BY DEF WtsCrash
<1>2. \A t \in WtsThreads : wtsThread'[t].pc = "idle" /\ wtsThread'[t] \in WtsThreadRecords
  BY <1>1 DEF WtsIdle, WtsThreadRecords
<1>3. WtsTypeOK'
  BY <1>1, <1>2 DEF WtsInv, WtsTypeOK, WtsThreadRecords
<1>4. WtsCleansUp' /\ WtsOneWorks' /\ WtsKeeps
  BY <1>1, <1>2 DEF WtsInv, WtsCleansUp, WtsOneWorks, WtsKeeps, WtsInstalled
<1>. QED  BY <1>3, <1>4 DEF WtsInv

LEMMA WtsStepKeeps == WtsInv /\ [WtsNext]_wtsVars => WtsInv' /\ WtsKeeps
<1> SUFFICES ASSUME WtsInv, [WtsNext]_wtsVars
             PROVE  WtsInv' /\ WtsKeeps
  OBVIOUS
<1>1. CASE WtsNext
  BY <1>1, WtsLookKeeps, WtsWaitKeeps, WtsReplaceKeeps, WtsCleanKeeps, WtsRequestKeeps, WtsOpenKeeps,
     WtsReadKeeps, WtsCrashKeeps DEF WtsNext
<1>2. CASE UNCHANGED wtsVars
  BY <1>2 DEF wtsVars, WtsInv, WtsTypeOK, WtsThreadRecords, WtsCleansUp, WtsOneWorks, WtsKeeps, WtsInstalled
<1>. QED  BY <1>1, <1>2

\* For any number of requests and chunks: no .part file is left behind by whoever was
\* not killed, and downloads one after the other install nothing but what has the pinned
\* digest and keep the checkpoint that was in place.
THEOREM DownloadsAreClean == WtsSpec => WtsDownloadIsClean
<1>1. WtsInit => WtsInv
  <2> SUFFICES ASSUME WtsInit
               PROVE  WtsInv
    OBVIOUS
  <2>1. PICK content \in {WtsRight, {}} :
          \/ wtsFiles = <<>> /\ wtsDest = None
          \/ wtsFiles = <<content>> /\ wtsDest = 1
    BY DEF WtsInit
  <2>2. content \in SUBSET Nat
    BY WtsAssumption DEF WtsRight
  <2>3. wtsFiles \in Seq(SUBSET Nat) /\ wtsDest \in {None} \cup (1 .. Len(wtsFiles))
    <3>1. CASE wtsFiles = <<>> /\ wtsDest = None
      BY <3>1
    <3>2. CASE wtsFiles = <<content>> /\ wtsDest = 1
      <4>1. <<content>> \in Seq(SUBSET Nat)
        BY <2>2
      <4>2. Len(<<content>>) = 1 /\ 1 \in 1 .. 1
        OBVIOUS
      <4>. QED  BY <3>2, <4>1, <4>2
    <3>. QED  BY <2>1, <3>1, <3>2
  <2>4. /\ wtsPart = None /\ \A t \in WtsThreads : wtsThread[t].pc = "idle"
        /\ wtsThread \in [WtsThreads -> WtsThreadRecords]
    BY DEF WtsInit, WtsIdle, WtsThreadRecords
  <2>. QED  BY <2>3, <2>4 DEF WtsInv, WtsTypeOK, WtsCleansUp, WtsOneWorks, WtsThreadRecords
<1>2. WtsInv => WtsNoLitter
  BY DEF WtsInv, WtsCleansUp, WtsNoLitter
<1>. QED  BY <1>1, <1>2, WtsStepKeeps, PTL
          DEF WtsSpec, WtsDownloadIsClean, WtsGoodIsKept, WtsOnlyRightInstalled, WtsKeeps

-----------------------------------------------------------------------------
(* The document table.  What a patch has read is the record as the calls   *)
(* left it while no other request can run, which is so on SQLite; every    *)
(* row carries the columns the build declares, on either backend.          *)

DocShapes ==
  /\ Field \in docColumns /\ docColumns \subseteq DocFields \cup {Field}
  /\ Field \notin docPromoted
  /\ \A k \in DOMAIN docRows :
       DOMAIN docRows[k] = {"columns", "payload"} /\ DOMAIN docRows[k].columns = docColumns
  /\ \A t \in DocTasks : docTask[t].pc \in {"idle", "patch"}
  /\ \A t \in DocTasks : docTask[t].pc = "patch" => DOMAIN docTask[t].changes \subseteq DocFields

\* A record that says what the calls one by one left of key k, the promoted fields apart.
DocSays(record, k) ==
  /\ Field \in DOMAIN docAtomic[k]
  /\ \A f \in DOMAIN docAtomic[k] \ docPromoted : f \in DOMAIN record /\ record[f] = docAtomic[k][f]

DocPatchIsFresh ==
  docBackend = "sqlite" =>
    /\ DOMAIN docRows = DOMAIN docAtomic
    /\ \A k \in DOMAIN docRows : DocSays(Merge(docRows[k]), k)
    /\ \A t \in DocTasks : docTask[t].pc = "patch" =>
         /\ \A u \in DocTasks \ {t} : docTask[u].pc = "idle"
         /\ docTask[t].key \in DOMAIN docRows /\ DocSays(docTask[t].read, docTask[t].key)

DocInv == DOMAIN docTask = DocTasks /\ DocShapes /\ DocPatchIsFresh

DocStampsStay ==
  \A k \in DOMAIN docRows \cap DOMAIN docRows' :
    docRows'[k].columns[Field] = docRows[k].columns[Field]

\* What an upsert leaves: the record as given, with the stamp of the row it found.
LEMMA UpsertKeepsTheStamp ==
  ASSUME DocShapes, NEW k, NEW r, DocUpsert(k, r)
  PROVE  /\ DOMAIN docRows' = DOMAIN docRows \cup {k}
         /\ \A x \in DOMAIN docRows \ {k} : docRows'[x] = docRows[x]
         /\ DOMAIN docRows'[k] = {"columns", "payload"} /\ DOMAIN docRows'[k].columns = docColumns
         /\ k \in DOMAIN docRows => docRows'[k].columns[Field] = docRows[k].columns[Field]
         /\ \A f \in DOMAIN r : /\ f \in DOMAIN Merge(docRows'[k])
                                /\ f # Field \/ k \notin DOMAIN docRows => Merge(docRows'[k])[f] = r[f]
         /\ k \in DOMAIN docRows => /\ Field \in DOMAIN Merge(docRows'[k])
                                    /\ Merge(docRows'[k])[Field] = Merge(docRows[k])[Field]
<1> DEFINE row == Split(docColumns, r)
           kept == IF k \in DOMAIN docRows
                   THEN [row EXCEPT !.columns = Kept(docRows[k].columns, row.columns, {Field})]
                   ELSE row
<1>1. docRows' = [x \in DOMAIN docRows \cup {k} |-> IF x = k THEN kept ELSE docRows[x]]
  BY DEF DocUpsert
<1>2. /\ DOMAIN row = {"columns", "payload"} /\ DOMAIN row.columns = docColumns
      /\ \A f \in docColumns : row.columns[f] = IF f \in DOMAIN r THEN r[f] ELSE None
      /\ DOMAIN row.payload = DOMAIN r \ docColumns
      /\ \A f \in DOMAIN r \ docColumns : row.payload[f] = r[f]
  BY DEF Split
<1> HIDE DEF row
<1>3. /\ DOMAIN kept = {"columns", "payload"} /\ DOMAIN kept.columns = docColumns
      /\ kept.payload = row.payload
      /\ \A f \in docColumns : f # Field \/ k \notin DOMAIN docRows => kept.columns[f] = row.columns[f]
      /\ k \in DOMAIN docRows => kept.columns[Field] = docRows[k].columns[Field]
  BY <1>2 DEF Kept, DocShapes
<1> HIDE DEF kept
<1>4. docRows'[k] = kept /\ DOMAIN docRows' = DOMAIN docRows \cup {k}
      /\ \A x \in DOMAIN docRows \ {k} : docRows'[x] = docRows[x]
  BY <1>1
<1>5. \A f \in DOMAIN r : /\ f \in DOMAIN Merge(kept)
                          /\ f # Field \/ k \notin DOMAIN docRows => Merge(kept)[f] = r[f]
  BY <1>2, <1>3 DEF Merge, Changed
<1>6. k \in DOMAIN docRows => /\ Field \in DOMAIN Merge(kept)
                              /\ Merge(kept)[Field] = Merge(docRows[k])[Field]
  BY <1>3 DEF Merge, Changed, DocShapes
<1>. QED  BY <1>3, <1>4, <1>5, <1>6

LEMMA DocPutKeeps ==
  ASSUME DocInv, NEW t \in DocTasks, NEW k \in DocKeys, NEW r \in DocRecords, DocPut(t, k, r)
  PROVE  DocInv' /\ DocStampsStay
<1> DEFINE stamped == Changed([f \in {Field} |-> docNow], r)
<1>1. /\ DocUpsert(k, stamped) /\ docAtomic' = Put(docAtomic, k, stamped, {Field})
      /\ UNCHANGED <<docBackend, docColumns, docTask, docPromoted>>
      /\ docBackend = "sqlite" => \A u \in DocTasks : docTask[u].pc = "idle"
  BY DEF DocPut, DocMayRun
<1>2. DOMAIN stamped = {Field} \cup DOMAIN r
  BY DEF Changed
<1> HIDE DEF stamped
<1>7. /\ DOMAIN docRows' = DOMAIN docRows \cup {k}
      /\ \A x \in DOMAIN docRows \ {k} : docRows'[x] = docRows[x]
      /\ DOMAIN docRows'[k] = {"columns", "payload"} /\ DOMAIN docRows'[k].columns = docColumns
      /\ k \in DOMAIN docRows => docRows'[k].columns[Field] = docRows[k].columns[Field]
      /\ \A f \in DOMAIN stamped :
           /\ f \in DOMAIN Merge(docRows'[k])
           /\ f # Field \/ k \notin DOMAIN docRows => Merge(docRows'[k])[f] = stamped[f]
      /\ k \in DOMAIN docRows => /\ Field \in DOMAIN Merge(docRows'[k])
                                 /\ Merge(docRows'[k])[Field] = Merge(docRows[k])[Field]
  BY <1>1, UpsertKeepsTheStamp DEF DocInv
<1>3. DocShapes'
  BY <1>1, <1>7 DEF DocInv, DocShapes
<1>4. DocStampsStay
  BY <1>1, <1>7 DEF DocInv, DocStampsStay
<1>5. DocPatchIsFresh'
  <2> SUFFICES ASSUME docBackend = "sqlite"
               PROVE  /\ DOMAIN docRows' = DOMAIN docAtomic'
                      /\ \A x \in DOMAIN docRows' : DocSays(Merge(docRows[x]), x)'
    BY <1>1 DEF DocPatchIsFresh
  <2>1. DOMAIN docAtomic' = DOMAIN docAtomic \cup {k}
    BY <1>1 DEF Put
  <2>2. ASSUME NEW x \in DOMAIN docRows \ {k}
        PROVE  DocSays(Merge(docRows[x]), x)'
    <3>1. docRows'[x] = docRows[x] /\ docAtomic'[x] = docAtomic[x]
      BY <1>1, <1>7 DEF Put, DocInv, DocPatchIsFresh
    <3>. QED  BY <3>1, <1>1 DEF DocSays, DocInv, DocPatchIsFresh
  <2>3. DocSays(Merge(docRows[k]), k)'
    <3>1. CASE k \in DOMAIN docRows
      <4>1. docAtomic'[k] = Kept(docAtomic[k], stamped, {Field}) /\ DocSays(Merge(docRows[k]), k)
        BY <3>1, <1>1 DEF Put, DocInv, DocPatchIsFresh
      <4>2. /\ DOMAIN docAtomic'[k] = DOMAIN stamped /\ docAtomic'[k][Field] = docAtomic[k][Field]
            /\ \A f \in DOMAIN stamped \ {Field} : docAtomic'[k][f] = stamped[f]
        BY <4>1, <1>2 DEF Kept, DocSays
      <4>3. Merge(docRows'[k])[Field] = docAtomic[k][Field]
        BY <4>1, <3>1, <1>1, <1>7 DEF DocSays, DocInv, DocShapes
      <4>4. Field \in DOMAIN docAtomic'[k] /\ Field \in DOMAIN Merge(docRows'[k])
        BY <4>2, <3>1, <1>2, <1>7
      <4>5. \A f \in DOMAIN docAtomic'[k] :
              f \in DOMAIN Merge(docRows'[k]) /\ Merge(docRows'[k])[f] = docAtomic'[k][f]
        BY <4>2, <4>3, <4>4, <1>7
      <4>. QED  BY <4>4, <4>5 DEF DocSays
    <3>2. CASE k \notin DOMAIN docRows
      <4>1. docAtomic'[k] = stamped
        BY <3>2, <1>1 DEF Put, DocInv, DocPatchIsFresh
      <4>2. \A f \in DOMAIN docAtomic'[k] :
              f \in DOMAIN Merge(docRows'[k]) /\ Merge(docRows'[k])[f] = docAtomic'[k][f]
        BY <4>1, <3>2, <1>7
      <4>. QED  BY <4>1, <4>2, <1>2 DEF DocSays
    <3>. QED  BY <3>1, <3>2
  <2>. QED  BY <2>1, <2>2, <2>3, <1>1, <1>7 DEF DocInv, DocPatchIsFresh
<1>. QED  BY <1>1, <1>3, <1>4, <1>5 DEF DocInv

LEMMA DocPatchReadKeeps ==
  ASSUME DocInv, NEW t \in DocTasks, NEW k \in DocKeys, NEW c \in DocChanges, DocPatchRead(t, k, c)
  PROVE  DocInv' /\ DocStampsStay
<1>1. /\ UNCHANGED <<docBackend, docColumns, docRows, docAtomic, docPromoted>>
      /\ k \in DOMAIN docRows
      /\ docBackend = "sqlite" => \A u \in DocTasks : docTask[u].pc = "idle"
      /\ docTask' = [docTask EXCEPT ![t] = [pc |-> "patch", key |-> k, changes |-> c,
                                            read |-> Merge(docRows[k])]]
  BY DEF DocPatchRead, DocMayRun
<1>2. /\ docTask'[t].pc = "patch" /\ docTask'[t].key = k /\ docTask'[t].changes = c
      /\ docTask'[t].read = Merge(docRows[k]) /\ DOMAIN docTask' = DocTasks
      /\ \A u \in DocTasks \ {t} : docTask'[u] = docTask[u]
  BY <1>1 DEF DocInv
<1>3. DOMAIN c \subseteq DocFields
  BY DEF DocChanges
<1>4. DocShapes'
  BY <1>1, <1>2, <1>3 DEF DocInv, DocShapes
<1>5. DocPatchIsFresh'
  BY <1>1, <1>2 DEF DocInv, DocPatchIsFresh, DocSays
<1>. QED  BY <1>1, <1>2, <1>4, <1>5 DEF DocInv, DocStampsStay

LEMMA DocPatchWriteKeeps ==
  ASSUME DocInv, NEW t \in DocTasks, DocPatchWrite(t)
  PROVE  DocInv' /\ DocStampsStay
<1>0. PICK k, c : k = docTask[t].key /\ c = docTask[t].changes
  OBVIOUS
<1> DEFINE patched == DocPatched(docTask[t])
<1>1. /\ UNCHANGED <<docBackend, docColumns, docPromoted>>
      /\ docTask[t].pc = "patch" /\ docTask' = [docTask EXCEPT ![t] = DocIdle]
      /\ DocUpsert(k, patched) /\ docAtomic' = Patch(docAtomic, k, c)
  BY <1>0 DEF DocPatchWrite
<1>2. /\ docTask'[t].pc = "idle" /\ DOMAIN docTask' = DocTasks
      /\ \A u \in DocTasks \ {t} : docTask'[u] = docTask[u]
  BY <1>1 DEF DocInv, DocIdle
<1>3. /\ DOMAIN patched = DOMAIN docTask[t].read \cup DOMAIN c
      /\ \A f \in DOMAIN patched : patched[f] = IF f \in DOMAIN c THEN c[f] ELSE docTask[t].read[f]
      /\ Field \notin DOMAIN c
  BY <1>0, <1>1, DocAssumption DEF DocPatched, Changed, DocInv, DocShapes
<1> HIDE DEF patched
<1>7. /\ DOMAIN docRows' = DOMAIN docRows \cup {k}
      /\ \A x \in DOMAIN docRows \ {k} : docRows'[x] = docRows[x]
      /\ DOMAIN docRows'[k] = {"columns", "payload"} /\ DOMAIN docRows'[k].columns = docColumns
      /\ k \in DOMAIN docRows => docRows'[k].columns[Field] = docRows[k].columns[Field]
      /\ \A f \in DOMAIN patched :
           /\ f \in DOMAIN Merge(docRows'[k])
           /\ f # Field \/ k \notin DOMAIN docRows => Merge(docRows'[k])[f] = patched[f]
      /\ k \in DOMAIN docRows => /\ Field \in DOMAIN Merge(docRows'[k])
                                 /\ Merge(docRows'[k])[Field] = Merge(docRows[k])[Field]
  BY <1>1, UpsertKeepsTheStamp DEF DocInv
<1>4. DocShapes'
  BY <1>1, <1>2, <1>7 DEF DocInv, DocShapes
<1>5. DocStampsStay
  BY <1>1, <1>7 DEF DocInv, DocStampsStay
<1>6. DocPatchIsFresh'
  <2> SUFFICES ASSUME docBackend = "sqlite"
               PROVE  /\ DOMAIN docRows' = DOMAIN docAtomic'
                      /\ \A x \in DOMAIN docRows' : DocSays(Merge(docRows[x]), x)'
    BY <1>1, <1>2 DEF DocPatchIsFresh, DocInv
  <2>1. /\ k \in DOMAIN docRows /\ DocSays(docTask[t].read, k) /\ DocSays(Merge(docRows[k]), k)
        /\ DOMAIN docRows = DOMAIN docAtomic
    BY <1>0, <1>1 DEF DocInv, DocPatchIsFresh
  <2>2. DOMAIN docAtomic' = DOMAIN docAtomic /\ docAtomic'[k] = Changed(docAtomic[k], c)
        /\ \A x \in DOMAIN docRows \ {k} : docAtomic'[x] = docAtomic[x]
    BY <2>1, <1>1 DEF Patch
  <2>3. ASSUME NEW x \in DOMAIN docRows \ {k}
        PROVE  DocSays(Merge(docRows[x]), x)'
    <3>1. docRows'[x] = docRows[x] /\ docAtomic'[x] = docAtomic[x]
      BY <1>1, <2>2, <1>7 DEF DocInv
    <3>. QED  BY <3>1, <1>1 DEF DocSays, DocInv, DocPatchIsFresh
  <2>4. DocSays(Merge(docRows[k]), k)'
    <3>1. /\ DOMAIN docAtomic'[k] = DOMAIN docAtomic[k] \cup DOMAIN c
          /\ \A f \in DOMAIN docAtomic'[k] :
               docAtomic'[k][f] = IF f \in DOMAIN c THEN c[f] ELSE docAtomic[k][f]
      BY <2>2 DEF Changed
    <3>2. /\ Field \in DOMAIN docAtomic[k] /\ Field \notin docPromoted
          /\ Merge(docRows'[k])[Field] = docAtomic[k][Field] /\ Field \in DOMAIN Merge(docRows'[k])
      BY <2>1, <1>1, <1>7 DEF DocSays, DocInv, DocShapes
    <3>3. ASSUME NEW f \in DOMAIN docAtomic'[k] \ docPromoted, f # Field
          PROVE  f \in DOMAIN Merge(docRows'[k]) /\ Merge(docRows'[k])[f] = docAtomic'[k][f]
      <4>1. f \in DOMAIN patched /\ patched[f] = docAtomic'[k][f]
        BY <3>1, <3>3, <2>1, <1>0, <1>3 DEF DocSays
      <4>. QED  BY <4>1, <3>3, <1>1, <1>7 DEF DocInv
    <3>4. Field \in DOMAIN docAtomic'[k] /\ docAtomic'[k][Field] = docAtomic[k][Field]
      BY <3>1, <3>2, <1>3
    <3>5. \A f \in DOMAIN docAtomic'[k] \ docPromoted :
            f \in DOMAIN Merge(docRows'[k]) /\ Merge(docRows'[k])[f] = docAtomic'[k][f]
      BY <3>2, <3>3, <3>4
    <3>. QED  BY <3>4, <3>5, <1>1 DEF DocSays
  <2>. QED  BY <2>1, <2>2, <2>3, <2>4, <1>1, <1>7 DEF DocInv
<1>. QED  BY <1>2, <1>4, <1>5, <1>6 DEF DocInv

LEMMA DocDeleteKeeps ==
  ASSUME DocInv, NEW t \in DocTasks, NEW k \in DocKeys, DocDelete(t, k)
  PROVE  DocInv' /\ DocStampsStay
<1>1. /\ UNCHANGED <<docBackend, docColumns, docTask, docPromoted>>
      /\ docBackend = "sqlite" => \A u \in DocTasks : docTask[u].pc = "idle"
      /\ docRows' = [x \in DOMAIN docRows \ {k} |-> docRows[x]]
      /\ docAtomic' = [x \in DOMAIN docAtomic \ {k} |-> docAtomic[x]]
  BY DEF DocDelete, DocMayRun, Delete
<1>2. DocShapes' /\ DocStampsStay
  BY <1>1 DEF DocInv, DocShapes, DocStampsStay
<1>3. DocPatchIsFresh'
  BY <1>1 DEF DocInv, DocPatchIsFresh, DocSays
<1>. QED  BY <1>1, <1>2, <1>3 DEF DocInv

\* A new column reads NULL: it hides what a payload held under that name, nothing else.
LEMMA DocUpgradeKeeps ==
  ASSUME DocInv, NEW f \in DocFields, DocUpgrade(f)
  PROVE  DocInv' /\ DocStampsStay
<1>1. /\ UNCHANGED <<docBackend, docAtomic>> /\ f \notin docColumns /\ f # Field
      /\ docColumns' = docColumns \cup {f} /\ docTask' = [t \in DocTasks |-> DocIdle]
      /\ docRows' = [k \in DOMAIN docRows |->
                       [docRows[k] EXCEPT !.columns = Changed([g \in {f} |-> None], @)]]
      /\ docPromoted' = docPromoted
           \cup {g \in {f} : \E k \in DOMAIN docRows : f \in DOMAIN docRows[k].payload}
  BY DocAssumption DEF DocUpgrade
<1>2. ASSUME NEW k \in DOMAIN docRows
      PROVE  /\ DOMAIN docRows'[k] = {"columns", "payload"}
             /\ docRows'[k].payload = docRows[k].payload
             /\ DOMAIN docRows'[k].columns = docColumns'
             /\ \A g \in docColumns : docRows'[k].columns[g] = docRows[k].columns[g]
  <2>1. DOMAIN docRows[k] = {"columns", "payload"} /\ DOMAIN docRows[k].columns = docColumns
    BY DEF DocInv, DocShapes
  <2>2. docRows'[k] = [docRows[k] EXCEPT !.columns = Changed([g \in {f} |-> None], docRows[k].columns)]
    BY <1>1
  <2>. QED  BY <2>1, <2>2, <1>1 DEF Changed
<1>3. \A t \in DocTasks : docTask'[t].pc = "idle"
  BY <1>1 DEF DocIdle
<1>4. DocShapes'
  BY <1>1, <1>2, <1>3 DEF DocInv, DocShapes
<1>5. DocStampsStay
  BY <1>1, <1>2 DEF DocStampsStay, DocInv, DocShapes
<1>6. DocPatchIsFresh'
  <2> SUFFICES ASSUME docBackend = "sqlite", NEW k \in DOMAIN docRows
               PROVE  DocSays(Merge(docRows[k]), k)'
    BY <1>1, <1>3 DEF DocPatchIsFresh, DocInv
  <2>1. DocSays(Merge(docRows[k]), k)
    BY DEF DocInv, DocPatchIsFresh
  <2>2. ASSUME NEW g \in DOMAIN docAtomic[k] \ docPromoted'
        PROVE  g \in DOMAIN Merge(docRows'[k]) /\ Merge(docRows'[k])[g] = docAtomic[k][g]
    <3>1. g \in DOMAIN Merge(docRows[k]) /\ Merge(docRows[k])[g] = docAtomic[k][g]
      BY <2>1, <1>1 DEF DocSays
    <3>2. DOMAIN docRows[k].columns = docColumns
      BY DEF DocInv, DocShapes
    <3>3. g # f
      <4>1. g = f => f \in DOMAIN docRows[k].payload
        BY <3>1, <3>2, <1>1 DEF Merge, Changed
      <4>. QED  BY <4>1, <1>1
    <3>4. DOMAIN Merge(docRows'[k]) = DOMAIN docRows[k].payload \cup docColumns'
      BY <1>2 DEF Merge, Changed
    <3>5. DOMAIN Merge(docRows[k]) = DOMAIN docRows[k].payload \cup docColumns
      BY <3>2 DEF Merge, Changed
    <3>6. Merge(docRows'[k])[g] = Merge(docRows[k])[g]
      <4>1. /\ docRows'[k].payload = docRows[k].payload /\ DOMAIN docRows'[k].columns = docColumns'
            /\ g \in docColumns' <=> g \in docColumns
            /\ g \in docColumns => docRows'[k].columns[g] = docRows[k].columns[g]
        BY <3>3, <1>1, <1>2
      <4>. QED  BY <4>1, <3>1, <3>2, <3>4, <3>5 DEF Merge, Changed
    <3>. QED  BY <3>1, <3>4, <3>5, <3>6, <1>1
  <2>. QED  BY <2>1, <2>2, <1>1 DEF DocSays
<1>. QED  BY <1>1, <1>4, <1>5, <1>6 DEF DocInv

LEMMA DocStepKeeps ==
  ASSUME NEW limit, DocInv, [DocNext(limit)]_docVars
  PROVE  DocInv' /\ DocStampsStay
<1>1. ASSUME UNCHANGED <<docBackend, docColumns, docRows, docTask, docAtomic, docPromoted>>
      PROVE  DocInv' /\ DocStampsStay
  BY <1>1 DEF DocInv, DocShapes, DocPatchIsFresh, DocSays, DocStampsStay
<1>. QED  BY <1>1, DocPutKeeps, DocPatchReadKeeps, DocPatchWriteKeeps, DocDeleteKeeps, DocUpgradeKeeps
          DEF DocNext, DocTick, docVars

\* For any keys, fields, requests and builds: on SQLite what is read back is what the calls
\* left, and no call ever moves the creation stamp of a row, on either backend.
THEOREM RecordsAreKept == ASSUME NEW CONSTANT limit PROVE DocSpec(limit) => DocKeepsRecords
<1>1. DocInit => DocInv
  BY DEF DocInit, DocInv, DocShapes, DocPatchIsFresh, DocIdle
<1>2. DocInv => DocReadsBack
  BY DEF DocInv, DocPatchIsFresh, DocSays, DocReadsBack
<1>3. DocInv /\ [DocNext(limit)]_docVars => DocInv' /\ DocStampsStay /\ DocReadsBack'
  <2>1. DocInv' => DocReadsBack'
    BY DEF DocInv, DocPatchIsFresh, DocSays, DocReadsBack
  <2>. QED  BY <2>1, DocStepKeeps
<1>. QED  BY <1>1, <1>3, PTL DEF DocSpec, DocKeepsRecords, DocStampsStay

-----------------------------------------------------------------------------
(* Who is where.  A call that is alone knows which rows of its worker will *)
(* be open when it has closed the rest: none, or the oldest of a zone.     *)

OccTypeOK ==
  /\ occNow \in Nat
  /\ \E n \in Nat : DOMAIN occRows = 1 .. n
  /\ \A k \in DOMAIN occRows :
       /\ DOMAIN occRows[k] = {"worker", "zone", "entered_at", "left_at"}
       /\ occRows[k].entered_at \in Nat /\ occRows[k].left_at \in Nat \cup {None}
  /\ DOMAIN occTask = OccTasks
  /\ \A t \in OccTasks : occTask[t].pc # "idle" =>
       /\ occTask[t].pc \in {"enter", "leave"} /\ {"pc", "alone", "close", "now"} \subseteq DOMAIN occTask[t]
       /\ occTask[t].now \in Nat /\ occTask[t].close \subseteq DOMAIN occRows
       /\ occTask[t].pc = "enter" => /\ {"stay", "before"} \subseteq DOMAIN occTask[t]
                                     /\ occTask[t].stay <=> occTask[t].before # {}

\* The oldest row of the worker's in the zone when the call began, open to the end.
OccStays(task, k) ==
  /\ k \in task.before /\ k \notin task.close
  /\ OccOpen(task.worker) = task.close \cup {k}
  /\ occRows[k].zone = task.zone
  /\ \A j \in task.before : j \in DOMAIN occRows /\ occRows[k].entered_at <= occRows[j].entered_at

OccAlone ==
  \A t \in OccTasks : (occTask[t].pc # "idle" /\ occTask[t].alone) =>
    /\ \A u \in OccTasks \ {t} : occTask[u].pc = "idle"
    /\ IF occTask[t].pc = "enter" /\ occTask[t].before # {}
       THEN \E k \in occTask[t].before : OccStays(occTask[t], k)
       ELSE OccOpen(occTask[t].worker) = occTask[t].close

OccOneZone ==
  occBackend = "sqlite" =>
    /\ \A t \in OccTasks : occTask[t].pc # "idle" => occTask[t].alone
    /\ \A j, k \in DOMAIN occRows :
         (occRows[j].worker = occRows[k].worker /\ occRows[j].left_at = None /\ occRows[k].left_at = None)
           => occRows[j].zone = occRows[k].zone

OccInv == OccTypeOK /\ OccAlone /\ OccOneZone /\ OccNoNegativeStay

LEMMA OldestIsOldest ==
  ASSUME OccTypeOK, NEW S \in SUBSET DOMAIN occRows, S # {}
  PROVE  OccOldest(S) \in S /\ \A j \in S : occRows[OccOldest(S)].entered_at <= occRows[j].entered_at
<1> DEFINE times == {occRows[k].entered_at : k \in S}
<1>1. times \in SUBSET Nat /\ times # {}
  BY DEF OccTypeOK
<1>2. PICK x \in times : \A y \in times : x <= y
  BY <1>1, LeastNatural
<1>3. PICK k \in S : occRows[k].entered_at = x
  BY <1>2
<1>4. \A j \in S : occRows[k].entered_at <= occRows[j].entered_at
  BY <1>2, <1>3
<1>. QED  BY <1>4 DEF OccOldest

\* The number after the last row is free, and the numbers stay without a gap.
LEMMA OccNextRow ==
  ASSUME OccTypeOK
  PROVE  LET k == Cardinality(DOMAIN occRows) + 1
         IN k \notin DOMAIN occRows /\ \E n \in Nat : DOMAIN occRows \cup {k} = 1 .. n
<1>1. PICK n \in Nat : DOMAIN occRows = 1 .. n
  BY DEF OccTypeOK
<1>2. Cardinality(1 .. n) = n
  BY FS_Interval
<1>3. n + 1 \in Nat /\ (1 .. n) \cup {n + 1} = 1 .. (n + 1)
  OBVIOUS
<1>. QED  BY <1>1, <1>2, <1>3

\* A request that begins makes nobody alone but itself.
LEMMA OccBeginSays ==
  ASSUME OccTypeOK, NEW t \in OccTasks, NEW request, "alone" \notin DOMAIN request, OccBegin(t, request)
  PROVE  /\ DOMAIN occTask' = OccTasks
         /\ DOMAIN occTask'[t] = DOMAIN request \cup {"alone"}
         /\ \A f \in DOMAIN request : occTask'[t][f] = request[f]
         /\ occTask'[t].alone = (\A v \in OccTasks \ {t} : occTask[v].pc = "idle")
         /\ \A u \in OccTasks \ {t} :
              IF occTask[u].pc = "idle" THEN occTask'[u].pc = "idle"
              ELSE /\ DOMAIN occTask'[u] = DOMAIN occTask[u] /\ occTask'[u].alone = FALSE
                   /\ \A f \in DOMAIN occTask[u] \ {"alone"} : occTask'[u][f] = occTask[u][f]
                   /\ occTask'[u].pc = occTask[u].pc
<1> DEFINE alone == \A v \in OccTasks \ {t} : occTask[v].pc = "idle"
<1>1. occTask' = [u \in OccTasks |->
        IF u = t THEN Changed(request, [alone |-> alone])
        ELSE IF occTask[u].pc = "idle" THEN OccIdle ELSE [occTask[u] EXCEPT !.alone = FALSE]]
  BY DEF OccBegin
<1> HIDE DEF alone
<1>2. /\ DOMAIN occTask' = OccTasks /\ occTask'[t] = Changed(request, [alone |-> alone])
      /\ \A u \in OccTasks \ {t} :
           occTask'[u] = IF occTask[u].pc = "idle" THEN OccIdle ELSE [occTask[u] EXCEPT !.alone = FALSE]
  BY <1>1
<1>3. /\ DOMAIN occTask'[t] = DOMAIN request \cup {"alone"} /\ occTask'[t].alone = alone
      /\ \A f \in DOMAIN request : occTask'[t][f] = request[f]
  BY <1>2 DEF Changed
<1>4. ASSUME NEW u \in OccTasks \ {t}, occTask[u].pc # "idle"
      PROVE  /\ DOMAIN occTask'[u] = DOMAIN occTask[u] /\ occTask'[u].alone = FALSE
             /\ \A f \in DOMAIN occTask[u] \ {"alone"} : occTask'[u][f] = occTask[u][f]
             /\ occTask'[u].pc = occTask[u].pc
  <2>1. occTask'[u] = [occTask[u] EXCEPT !.alone = FALSE] /\ {"pc", "alone"} \subseteq DOMAIN occTask[u]
    BY <1>2, <1>4 DEF OccTypeOK
  <2>. QED  BY <2>1
<1>5. \A u \in OccTasks \ {t} : occTask[u].pc = "idle" => occTask'[u].pc = "idle"
  BY <1>2 DEF OccIdle
<1>. QED  BY <1>2, <1>3, <1>4, <1>5 DEF alone

\* What a request has to know when it begins, whatever it is.
OccKnows(request) ==
  /\ {"pc", "worker", "zone", "now", "close"} \subseteq DOMAIN request /\ "alone" \notin DOMAIN request
  /\ request.pc \in {"enter", "leave"} /\ request.now \in Nat /\ request.close \subseteq DOMAIN occRows
  /\ request.pc = "enter" => /\ {"stay", "before"} \subseteq DOMAIN request
                             /\ request.stay <=> request.before # {}
  /\ IF request.pc = "enter" /\ request.before # {}
     THEN \E k \in request.before : OccStays(request, k)
     ELSE OccOpen(request.worker) = request.close

LEMMA OccBeginKeeps ==
  ASSUME OccInv, NEW t \in OccTasks, occTask[t].pc = "idle", OccMayRun(t),
         UNCHANGED <<occBackend, occRows, occNow>>,
         NEW request, OccKnows(request), OccBegin(t, request)
  PROVE  OccInv'
<1>0. PICK task : task = occTask'[t]
  OBVIOUS
<1>1. /\ DOMAIN occTask' = OccTasks
      /\ DOMAIN task = DOMAIN request \cup {"alone"}
      /\ \A f \in DOMAIN request : task[f] = request[f]
      /\ task.alone = (\A v \in OccTasks \ {t} : occTask[v].pc = "idle")
      /\ \A u \in OccTasks \ {t} :
              IF occTask[u].pc = "idle" THEN occTask'[u].pc = "idle"
              ELSE /\ DOMAIN occTask'[u] = DOMAIN occTask[u] /\ occTask'[u].alone = FALSE
                   /\ \A f \in DOMAIN occTask[u] \ {"alone"} : occTask'[u][f] = occTask[u][f]
                   /\ occTask'[u].pc = occTask[u].pc
  <2>1. /\ DOMAIN occTask' = OccTasks
        /\ DOMAIN occTask'[t] = DOMAIN request \cup {"alone"}
        /\ \A f \in DOMAIN request : occTask'[t][f] = request[f]
        /\ occTask'[t].alone = (\A v \in OccTasks \ {t} : occTask[v].pc = "idle")
        /\ \A u \in OccTasks \ {t} :
                IF occTask[u].pc = "idle" THEN occTask'[u].pc = "idle"
                ELSE /\ DOMAIN occTask'[u] = DOMAIN occTask[u] /\ occTask'[u].alone = FALSE
                     /\ \A f \in DOMAIN occTask[u] \ {"alone"} : occTask'[u][f] = occTask[u][f]
                     /\ occTask'[u].pc = occTask[u].pc
    BY OccBeginSays DEF OccInv, OccKnows
  <2>. QED  BY <2>1, <1>0
<1>2. /\ task.pc = request.pc /\ task.worker = request.worker /\ task.zone = request.zone
      /\ task.now = request.now /\ task.close = request.close
      /\ task.pc = "enter" => task.stay = request.stay /\ task.before = request.before
  BY <1>1 DEF OccKnows
<1>3. OccTypeOK'
  <2>1. ASSUME NEW u \in OccTasks \ {t}, occTask'[u].pc # "idle"
        PROVE  /\ occTask'[u].pc \in {"enter", "leave"}
               /\ {"pc", "alone", "close", "now"} \subseteq DOMAIN occTask'[u]
               /\ occTask'[u].now \in Nat /\ occTask'[u].close \subseteq DOMAIN occRows
               /\ occTask'[u].pc = "enter" => /\ {"stay", "before"} \subseteq DOMAIN occTask'[u]
                                              /\ occTask'[u].stay <=> occTask'[u].before # {}
    <3>1. /\ occTask[u].pc # "idle" /\ DOMAIN occTask'[u] = DOMAIN occTask[u]
          /\ \A f \in DOMAIN occTask[u] \ {"alone"} : occTask'[u][f] = occTask[u][f]
          /\ occTask'[u].pc = occTask[u].pc
      BY <1>1, <2>1
    <3>2. /\ occTask[u].pc \in {"enter", "leave"}
          /\ {"pc", "alone", "close", "now"} \subseteq DOMAIN occTask[u]
          /\ occTask[u].now \in Nat /\ occTask[u].close \subseteq DOMAIN occRows
          /\ occTask[u].pc = "enter" => /\ {"stay", "before"} \subseteq DOMAIN occTask[u]
                                        /\ occTask[u].stay <=> occTask[u].before # {}
      BY <3>1 DEF OccInv, OccTypeOK
    <3>. QED  BY <3>1, <3>2
  <2>2. /\ task.pc \in {"enter", "leave"} /\ {"pc", "alone", "close", "now"} \subseteq DOMAIN task
        /\ task.now \in Nat /\ task.close \subseteq DOMAIN occRows
        /\ task.pc = "enter" => /\ {"stay", "before"} \subseteq DOMAIN task
                                /\ task.stay <=> task.before # {}
    BY <1>1, <1>2 DEF OccKnows
  <2>3. \A u \in OccTasks : occTask'[u].pc # "idle" =>
          /\ occTask'[u].pc \in {"enter", "leave"}
          /\ {"pc", "alone", "close", "now"} \subseteq DOMAIN occTask'[u]
          /\ occTask'[u].now \in Nat /\ occTask'[u].close \subseteq DOMAIN occRows
          /\ occTask'[u].pc = "enter" => /\ {"stay", "before"} \subseteq DOMAIN occTask'[u]
                                         /\ occTask'[u].stay <=> occTask'[u].before # {}
    BY <1>0, <2>1, <2>2
  <2>. QED  BY <2>3, <1>1 DEF OccInv, OccTypeOK
<1>4. OccAlone'
  <2> SUFFICES ASSUME task.alone
               PROVE  /\ \A u \in OccTasks \ {t} : occTask'[u].pc = "idle"
                      /\ IF task.pc = "enter" /\ task.before # {}
                         THEN \E k \in task.before : OccStays(task, k)'
                         ELSE OccOpen(task.worker)' = task.close
    BY <1>0, <1>1 DEF OccAlone
  <2>1. \A u \in OccTasks \ {t} : occTask'[u].pc = "idle"
    BY <1>1
  <2>2. ASSUME NEW k, task.pc = "enter", OccStays(request, k)
        PROVE  OccStays(task, k)'
    BY <1>2, <2>2 DEF OccStays, OccOpen
  <2>3. OccOpen(task.worker)' = OccOpen(request.worker)
    BY <1>2 DEF OccOpen
  <2>. QED  BY <2>1, <2>2, <2>3, <1>2 DEF OccKnows
<1>5. OccOneZone'
  <2>1. ASSUME occBackend = "sqlite", NEW u \in OccTasks, occTask'[u].pc # "idle"
        PROVE  occTask'[u].alone
    BY <1>0, <2>1, <1>1 DEF OccMayRun
  <2>. QED  BY <2>1 DEF OccInv, OccOneZone
<1>6. OccNoNegativeStay'
  BY DEF OccInv, OccNoNegativeStay
<1>. QED  BY <1>3, <1>4, <1>5, <1>6 DEF OccInv

LEMMA OccEnterKeeps ==
  ASSUME OccInv, NEW t \in OccTasks, NEW w, NEW z, OccEnter(t, w, z)
  PROVE  OccInv'
<1> DEFINE open == OccOpen(w)
           here == {k \in open : occRows[k].zone = z}
           request == [pc |-> "enter", worker |-> w, zone |-> z, now |-> occNow,
                       stay |-> here # {}, before |-> here, close |-> OccToClose(open, here)]
<1>1. /\ occTask[t].pc = "idle" /\ OccMayRun(t) /\ OccBegin(t, request)
      /\ UNCHANGED <<occBackend, occRows, occNow>>
  BY DEF OccEnter
<1>2. /\ DOMAIN request = {"pc", "worker", "zone", "now", "stay", "before", "close"}
      /\ request.pc = "enter" /\ request.worker = w /\ request.zone = z /\ request.now = occNow
      /\ request.stay = (here # {}) /\ request.before = here
      /\ request.close = OccToClose(open, here)
  OBVIOUS
<1>3. /\ here \subseteq open /\ open \subseteq DOMAIN occRows /\ occNow \in Nat
      /\ \A k \in here : occRows[k].zone = z
  BY DEF OccOpen, OccInv, OccTypeOK
<1> HIDE DEF request, here, open
<1>4. OccToClose(open, here) \subseteq open
  BY DEF OccToClose
<1>5. CASE here = {}
  <2>1. OccToClose(open, here) = open
    BY <1>5 DEF OccToClose
  <2>2. OccKnows(request)
    BY <1>2, <1>3, <1>5, <2>1 DEF OccKnows, open
  <2>. QED  BY <1>1, <2>2, OccBeginKeeps
<1>6. CASE here # {}
  <2>1. PICK k \in here : k = OccOldest(here)
                          /\ \A j \in here : occRows[k].entered_at <= occRows[j].entered_at
    <3>1. here \in SUBSET DOMAIN occRows /\ OccTypeOK
      BY <1>3 DEF OccInv
    <3>. QED  BY <3>1, <1>6, OldestIsOldest
  <2>2. OccToClose(open, here) = open \ {k}
    BY <2>1, <1>6 DEF OccToClose
  <2>3. OccStays(request, k)
    BY <1>2, <1>3, <2>1, <2>2 DEF OccStays, open
  <2>4. OccKnows(request)
    BY <1>2, <1>3, <1>4, <1>6, <2>1, <2>3 DEF OccKnows
  <2>. QED  BY <1>1, <2>4, OccBeginKeeps
<1>. QED  BY <1>5, <1>6

LEMMA OccLeaveKeeps ==
  ASSUME OccInv, NEW t \in OccTasks, NEW w, NEW z, OccLeave(t, w, z)
  PROVE  OccInv'
<1> DEFINE request == [pc |-> "leave", worker |-> w, zone |-> z, now |-> occNow, close |-> OccOpen(w)]
<1>1. /\ occTask[t].pc = "idle" /\ OccMayRun(t) /\ OccBegin(t, request)
      /\ UNCHANGED <<occBackend, occRows, occNow>>
  BY DEF OccLeave
<1>2. /\ DOMAIN request = {"pc", "worker", "zone", "now", "close"}
      /\ request.pc = "leave" /\ request.worker = w /\ request.now = occNow
      /\ request.close = OccOpen(w)
  OBVIOUS
<1>3. OccOpen(w) \subseteq DOMAIN occRows /\ occNow \in Nat
  BY DEF OccOpen, OccInv, OccTypeOK
<1> HIDE DEF request
<1>4. OccKnows(request)
  BY <1>2, <1>3 DEF OccKnows
<1>. QED  BY <1>1, <1>4, OccBeginKeeps

\* A row is closed: it is open no more, its stay is not negative, all else is as it was.
LEMMA OccCloseOneKeeps ==
  ASSUME OccInv, NEW t \in OccTasks, NEW c \in DOMAIN occRows, OccCloseOne(t, c)
  PROVE  OccInv'
<1>1. /\ occTask[t].pc # "idle" /\ c \in occTask[t].close /\ OccMayRun(t)
      /\ occRows' = [k \in DOMAIN occRows |-> IF k = c THEN Changed(occRows[c], OccClosed(occRows[c], occTask[t].now))
                                              ELSE occRows[k]]
      /\ occTask' = [occTask EXCEPT ![t].close = @ \ {c}]
      /\ UNCHANGED <<occBackend, occNow>>
  BY DEF OccCloseOne, Patch
<1>2. /\ occTask[t].now \in Nat /\ {"pc", "alone", "close", "now"} \subseteq DOMAIN occTask[t]
      /\ DOMAIN occRows[c] = {"worker", "zone", "entered_at", "left_at"} /\ occRows[c].entered_at \in Nat
  BY <1>1 DEF OccInv, OccTypeOK
<1>3. PICK left : /\ left = OccClosed(occRows[c], occTask[t].now).left_at
                  /\ left \in Nat /\ left >= occRows[c].entered_at
  BY <1>2 DEF OccClosed
<1>4. ASSUME NEW k \in DOMAIN occRows
      PROVE  /\ DOMAIN occRows'[k] = {"worker", "zone", "entered_at", "left_at"}
             /\ occRows'[k].worker = occRows[k].worker /\ occRows'[k].zone = occRows[k].zone
             /\ occRows'[k].entered_at = occRows[k].entered_at
             /\ occRows'[k].left_at = IF k = c THEN left ELSE occRows[k].left_at
  <2>1. CASE k = c
    <3>1. occRows'[k] = Changed(occRows[c], OccClosed(occRows[c], occTask[t].now))
      BY <1>1, <2>1
    <3>2. DOMAIN OccClosed(occRows[c], occTask[t].now) = {"left_at"}
      BY DEF OccClosed
    <3>. QED  BY <2>1, <3>1, <3>2, <1>2, <1>3 DEF Changed
  <2>2. CASE k # c
    BY <2>2, <1>1 DEF OccInv, OccTypeOK
  <2>. QED  BY <2>1, <2>2
<1>5. DOMAIN occRows' = DOMAIN occRows
  BY <1>1
<1>6. /\ DOMAIN occTask' = OccTasks /\ occTask'[t].close = occTask[t].close \ {c}
      /\ \A u \in OccTasks \ {t} : occTask'[u] = occTask[u]
      /\ DOMAIN occTask'[t] = DOMAIN occTask[t]
      /\ \A f \in DOMAIN occTask[t] \ {"close"} : occTask'[t][f] = occTask[t][f]
      /\ \A f \in {"pc", "worker", "zone", "now", "stay", "before", "alone"} : occTask'[t][f] = occTask[t][f]
  BY <1>1, <1>2 DEF OccInv, OccTypeOK
<1>7. \A w : OccOpen(w)' = OccOpen(w) \ {c}
  BY <1>3, <1>4, <1>5, OccAssumption DEF OccOpen
<1>8. OccTypeOK'
  <2>1. \A k \in DOMAIN occRows' :
          /\ DOMAIN occRows'[k] = {"worker", "zone", "entered_at", "left_at"}
          /\ occRows'[k].entered_at \in Nat /\ occRows'[k].left_at \in Nat \cup {None}
    BY <1>3, <1>4, <1>5 DEF OccInv, OccTypeOK
  <2>2. \A u \in OccTasks : occTask'[u].pc # "idle" =>
          /\ occTask'[u].pc \in {"enter", "leave"}
          /\ {"pc", "alone", "close", "now"} \subseteq DOMAIN occTask'[u]
          /\ occTask'[u].now \in Nat /\ occTask'[u].close \subseteq DOMAIN occRows
          /\ occTask'[u].pc = "enter" => /\ {"stay", "before"} \subseteq DOMAIN occTask'[u]
                                         /\ occTask'[u].stay <=> occTask'[u].before # {}
    BY <1>6 DEF OccInv, OccTypeOK
  <2>. QED  BY <2>1, <2>2, <1>1, <1>5, <1>6 DEF OccInv, OccTypeOK
<1>9. OccAlone'
  <2>1. ASSUME NEW u \in OccTasks, occTask'[u].pc # "idle", occTask'[u].alone
        PROVE  u = t /\ occTask[t].alone /\ \A v \in OccTasks \ {t} : occTask'[v].pc = "idle"
    BY <2>1, <1>1, <1>6 DEF OccInv, OccAlone
  <2>2. ASSUME occTask[t].alone
        PROVE  IF occTask'[t].pc = "enter" /\ occTask'[t].before # {}
               THEN \E k \in occTask'[t].before : OccStays(occTask[t], k)'
               ELSE OccOpen(occTask[t].worker)' = occTask'[t].close
    <3>1. CASE occTask[t].pc = "enter" /\ occTask[t].before # {}
      <4>1. PICK k \in occTask[t].before : OccStays(occTask[t], k)
        BY <3>1, <2>2, <1>1 DEF OccInv, OccAlone
      <4>2. OccStays(occTask[t], k)'
        <5>1. k \in occTask'[t].before /\ k \notin occTask'[t].close
          BY <4>1, <1>6 DEF OccStays
        <5>2. OccOpen(occTask[t].worker)' = occTask'[t].close \cup {k}
          <6>1. OccOpen(occTask[t].worker)' = OccOpen(occTask[t].worker) \ {c}
            <7>1. PICK w : w = occTask[t].worker /\ w = occTask'[t].worker
              BY <1>6
            <7>. QED  BY <7>1, <1>7
          <6>. QED  BY <6>1, <4>1, <1>1, <1>6 DEF OccStays
        <5>3. k \in DOMAIN occRows /\ occRows[k].zone = occTask[t].zone
              /\ \A j \in occTask[t].before :
                   j \in DOMAIN occRows /\ occRows[k].entered_at <= occRows[j].entered_at
          BY <4>1 DEF OccStays
        <5>. QED  BY <5>1, <5>2, <5>3, <1>4, <1>5, <1>6 DEF OccStays
      <4>. QED  BY <4>1, <4>2, <3>1, <1>6
    <3>2. CASE ~ (occTask[t].pc = "enter" /\ occTask[t].before # {})
      <4>1. OccOpen(occTask[t].worker) = occTask[t].close
        BY <3>2, <2>2, <1>1 DEF OccInv, OccAlone
      <4>2. PICK w : w = occTask[t].worker /\ w = occTask'[t].worker
        BY <1>6
      <4>3. OccOpen(w)' = OccOpen(w) \ {c}
        BY <1>7
      <4>. QED  BY <3>2, <4>1, <4>2, <4>3, <1>6
    <3>. QED  BY <3>1, <3>2
  <2>. QED  BY <2>1, <2>2 DEF OccAlone
<1>10. OccOneZone'
  <2>1. occBackend' = "sqlite" => \A u \in OccTasks : occTask'[u].pc # "idle" => occTask'[u].alone
    BY <1>1, <1>6 DEF OccInv, OccOneZone
  <2>2. \A k \in DOMAIN occRows' : /\ occRows'[k].worker = occRows[k].worker
                                   /\ occRows'[k].zone = occRows[k].zone
                                   /\ occRows'[k].left_at = None => occRows[k].left_at = None
    BY <1>3, <1>4, <1>5, OccAssumption
  <2>. QED  BY <2>1, <2>2, <1>1, <1>5 DEF OccInv, OccOneZone
<1>11. OccNoNegativeStay'
  BY <1>3, <1>4, <1>5 DEF OccInv, OccNoNegativeStay
<1>. QED  BY <1>8, <1>9, <1>10, <1>11 DEF OccInv

\* A call that finishes alone says where its worker is.
LEMMA OccFinishSays ==
  ASSUME OccInv, NEW t \in OccTasks, OccFinishEnter(t) \/ OccFinishLeave(t), occTask[t].alone
  PROVE  LET task == occTask[t]
             open == {k \in DOMAIN occRows' : occRows'[k].worker = task.worker
                                              /\ occRows'[k].left_at = None}
         IN IF task.pc = "leave" THEN open = {}
            ELSE /\ Cardinality(open) = 1
                 /\ \A k \in open : /\ occRows'[k].zone = task.zone
                                    /\ \A j \in task.before :
                                         occRows'[k].entered_at <= occRows'[j].entered_at
<1> DEFINE task == occTask[t]
           open == {k \in DOMAIN occRows' : occRows'[k].worker = task.worker
                                            /\ occRows'[k].left_at = None}
<1>1. /\ task.pc \in {"enter", "leave"} /\ task.close = {}
      /\ IF task.pc = "enter" /\ task.before # {} THEN \E k \in task.before : OccStays(task, k)
         ELSE OccOpen(task.worker) = {}
      /\ task.pc = "enter" => (task.stay <=> task.before # {})
  BY DEF OccInv, OccTypeOK, OccAlone, OccFinishEnter, OccFinishLeave
<1>2. CASE task.pc = "leave"
  <2>1. UNCHANGED occRows
    BY <1>2 DEF OccFinishEnter, OccFinishLeave
  <2>. QED  BY <2>1, <1>1, <1>2 DEF OccOpen
<1>3. CASE task.pc = "enter" /\ task.before # {}
  <2>1. UNCHANGED occRows
    BY <1>1, <1>3 DEF OccFinishEnter, OccFinishLeave
  <2>2. PICK k \in task.before : OccStays(task, k)
    BY <1>1, <1>3
  <2>3. open = {k}
    BY <2>1, <2>2, <1>1 DEF OccStays, OccOpen
  <2>4. Cardinality(open) = 1
    <3> HIDE DEF open
    <3>. QED  BY <2>3, FS_Singleton
  <2>5. occRows'[k].zone = task.zone
        /\ \A j \in task.before : occRows'[k].entered_at <= occRows'[j].entered_at
    BY <2>1, <2>2 DEF OccStays
  <2>. QED  BY <2>3, <2>4, <2>5, <1>3
<1>4. CASE task.pc = "enter" /\ task.before = {}
  <2> DEFINE k == Cardinality(DOMAIN occRows) + 1
             row == [worker |-> task.worker, zone |-> task.zone, entered_at |-> task.now, left_at |-> None]
  <2>1. k \notin DOMAIN occRows
    BY OccNextRow DEF OccInv
  <2>2. occRows' = Put(occRows, k, row, {"created_at"})
    BY <1>1, <1>4 DEF OccFinishEnter, OccFinishLeave
  <2>3. row.worker = task.worker /\ row.zone = task.zone /\ row.left_at = None
    OBVIOUS
  <2> HIDE DEF k, row
  <2>4. /\ DOMAIN occRows' = DOMAIN occRows \cup {k} /\ occRows'[k] = row
        /\ \A x \in DOMAIN occRows : occRows'[x] = occRows[x]
    BY <2>1, <2>2 DEF Put
  <2>5. open = {k}
    BY <2>1, <2>3, <2>4, <1>1, <1>4 DEF OccOpen
  <2>6. Cardinality(open) = 1
    <3> HIDE DEF open
    <3>. QED  BY <2>5, FS_Singleton
  <2>. QED  BY <2>3, <2>4, <2>5, <2>6, <1>4
<1>. QED  BY <1>1, <1>2, <1>3, <1>4

\* A request that is done, or was dropped, leaves the others as they are.
LEMMA OccDoneKeeps ==
  ASSUME OccInv, UNCHANGED <<occBackend, occRows>>, occNow' \in Nat, DOMAIN occTask' = OccTasks,
         \A t \in OccTasks : occTask'[t] = occTask[t] \/ occTask'[t].pc = "idle",
         \A t \in OccTasks : occTask[t].pc = "idle" => occTask'[t].pc = "idle"
  PROVE  OccInv'
<1>1. OccTypeOK'
  BY DEF OccInv, OccTypeOK
<1>2. OccAlone'
  <2> SUFFICES ASSUME NEW t \in OccTasks, occTask'[t].pc # "idle", occTask'[t].alone
               PROVE  /\ \A u \in OccTasks \ {t} : occTask'[u].pc = "idle"
                      /\ IF occTask'[t].pc = "enter" /\ occTask'[t].before # {}
                         THEN \E k \in occTask'[t].before : OccStays(occTask[t], k)'
                         ELSE OccOpen(occTask[t].worker)' = occTask'[t].close
    BY DEF OccAlone
  <2>1. occTask'[t] = occTask[t]
    OBVIOUS
  <2>2. \A k : OccStays(occTask[t], k) => OccStays(occTask[t], k)'
    BY <2>1 DEF OccStays, OccOpen
  <2>. QED  BY <2>1, <2>2 DEF OccInv, OccAlone, OccOpen
<1>3. OccOneZone' /\ OccNoNegativeStay'
  BY DEF OccInv, OccOneZone, OccNoNegativeStay
<1>. QED  BY <1>1, <1>2, <1>3 DEF OccInv

LEMMA OccFinishEnterKeeps ==
  ASSUME OccInv, NEW t \in OccTasks, OccFinishEnter(t)
  PROVE  OccInv'
<1> DEFINE k == Cardinality(DOMAIN occRows) + 1
           row == [worker |-> occTask[t].worker, zone |-> occTask[t].zone,
                   entered_at |-> occTask[t].now, left_at |-> None]
<1>1. /\ occTask[t].pc = "enter" /\ OccMayRun(t) /\ occTask[t].close = {}
      /\ occTask' = [occTask EXCEPT ![t] = OccIdle] /\ UNCHANGED <<occBackend, occNow>>
      /\ IF occTask[t].stay THEN UNCHANGED occRows
         ELSE occRows' = Put(occRows, k, row, {"created_at"})
  BY DEF OccFinishEnter
<1>2. /\ DOMAIN occTask' = OccTasks /\ occTask'[t].pc = "idle"
      /\ \A u \in OccTasks \ {t} : occTask'[u] = occTask[u]
  BY <1>1 DEF OccInv, OccTypeOK, OccIdle
<1>3. CASE occTask[t].stay
  <2>1. UNCHANGED <<occBackend, occRows>> /\ occNow' \in Nat
    BY <1>1, <1>3 DEF OccInv, OccTypeOK
  <2>2. /\ \A u \in OccTasks : occTask'[u] = occTask[u] \/ occTask'[u].pc = "idle"
        /\ \A u \in OccTasks : occTask[u].pc = "idle" => occTask'[u].pc = "idle"
    BY <1>2
  <2>. QED  BY <2>1, <2>2, <1>2, OccDoneKeeps
<1>4. CASE ~ occTask[t].stay
  <2>1. occTask[t].now \in Nat /\ occTask[t].before = {} /\ occNow \in Nat
    BY <1>1, <1>4 DEF OccInv, OccTypeOK
  <2>2. /\ row.worker = occTask[t].worker /\ row.zone = occTask[t].zone /\ row.left_at = None
        /\ row.entered_at \in Nat /\ DOMAIN row = {"worker", "zone", "entered_at", "left_at"}
    BY <2>1
  <2>3. k \notin DOMAIN occRows /\ \E n \in Nat : DOMAIN occRows \cup {k} = 1 .. n
    BY OccNextRow DEF OccInv
  <2> HIDE DEF k, row
  <2>4. /\ DOMAIN occRows' = DOMAIN occRows \cup {k} /\ occRows'[k] = row
        /\ \A x \in DOMAIN occRows : occRows'[x] = occRows[x]
    BY <2>3, <1>1, <1>4 DEF Put
  <2>5. OccTypeOK'
    BY <2>1, <2>2, <2>3, <2>4, <1>1, <1>2 DEF OccInv, OccTypeOK
  \* While this request was alone no other one was; otherwise none is now.
  <2>6. OccAlone'
    <3> SUFFICES ASSUME NEW u \in OccTasks, occTask'[u].pc # "idle", occTask'[u].alone
                 PROVE  FALSE
      BY DEF OccAlone
    <3>1. u # t /\ occTask[u].pc # "idle" /\ occTask[u].alone
      BY <1>2
    <3>. QED  BY <3>1, <1>1 DEF OccInv, OccAlone
  <2>7. occBackend = "sqlite" => OccOpen(occTask[t].worker) = {}
    BY <2>1, <1>1 DEF OccInv, OccAlone, OccOneZone
  <2>8. OccOneZone'
    <3>1. occBackend' = "sqlite" => \A u \in OccTasks : occTask'[u].pc # "idle" => occTask'[u].alone
      BY <1>1, <1>2 DEF OccInv, OccOneZone
    <3>2. ASSUME occBackend = "sqlite", NEW x \in DOMAIN occRows', NEW y \in DOMAIN occRows',
                 occRows'[x].worker = occRows'[y].worker, occRows'[x].left_at = None, occRows'[y].left_at = None
          PROVE  occRows'[x].zone = occRows'[y].zone
      <4>1. \A w \in DOMAIN occRows : occRows'[w].left_at = None => occRows'[w].worker # row.worker
        BY <2>2, <2>4, <2>7, <3>2 DEF OccOpen
      <4>2. CASE x \in DOMAIN occRows /\ y \in DOMAIN occRows
        BY <2>4, <3>2, <4>2 DEF OccInv, OccOneZone
      <4>3. CASE x = k \/ y = k
        BY <2>4, <3>2, <4>1, <4>3
      <4>. QED  BY <2>4, <4>2, <4>3
    <3>. QED  BY <3>1, <3>2, <1>1 DEF OccOneZone
  <2>9. OccNoNegativeStay'
    BY <2>2, <2>4 DEF OccInv, OccNoNegativeStay
  <2>. QED  BY <2>5, <2>6, <2>8, <2>9 DEF OccInv
<1>. QED  BY <1>3, <1>4

LEMMA OccNextInv == OccInv /\ [OccNext]_occVars => OccInv'
<1> SUFFICES ASSUME OccInv, [OccNext]_occVars
             PROVE  OccInv'
  OBVIOUS
<1>1. ASSUME NEW t \in OccTasks, OccFinishLeave(t)
      PROVE  OccInv'
  <2>1. /\ UNCHANGED <<occBackend, occRows, occNow>> /\ occTask' = [occTask EXCEPT ![t] = OccIdle]
    BY <1>1 DEF OccFinishLeave
  <2>2. /\ DOMAIN occTask' = OccTasks /\ occTask'[t].pc = "idle" /\ occNow' \in Nat
        /\ \A u \in OccTasks \ {t} : occTask'[u] = occTask[u]
    BY <2>1 DEF OccInv, OccTypeOK, OccIdle
  <2>. QED  BY <2>1, <2>2, OccDoneKeeps
<1>2. CASE OccRestart
  <2>1. /\ UNCHANGED <<occBackend, occRows, occNow>> /\ occNow' \in Nat
        /\ DOMAIN occTask' = OccTasks /\ \A t \in OccTasks : occTask'[t].pc = "idle"
    BY <1>2 DEF OccRestart, OccIdle, OccInv, OccTypeOK
  <2>. QED  BY <2>1, OccDoneKeeps
<1>3. ASSUME NEW now \in 1 .. OccMaxTime, OccClock(now)
      PROVE  OccInv'
  <2>1. /\ UNCHANGED <<occBackend, occRows, occTask>> /\ occNow' \in Nat /\ DOMAIN occTask' = OccTasks
    BY <1>3, OccAssumption DEF OccClock, OccInv, OccTypeOK
  <2>. QED  BY <2>1, OccDoneKeeps
<1>4. CASE UNCHANGED occVars
  <2>1. /\ UNCHANGED <<occBackend, occRows, occTask>> /\ occNow' \in Nat /\ DOMAIN occTask' = OccTasks
    BY <1>4 DEF occVars, OccInv, OccTypeOK
  <2>. QED  BY <2>1, OccDoneKeeps
<1>. QED  BY <1>1, <1>2, <1>3, <1>4, OccEnterKeeps, OccLeaveKeeps, OccCloseOneKeeps, OccFinishEnterKeeps
          DEF OccNext

\* For any workers, zones, requests and clock: a call that runs alone leaves one open row
\* or none, no stay is negative, and on SQLite nobody is counted in two zones.
THEOREM OnePlaceAtATime == OccSpec => OccOnePlaceAtATime
<1>1. OccInit => OccInv
  <2> SUFFICES ASSUME OccInit
               PROVE  OccInv
    OBVIOUS
  <2>1. DOMAIN occRows = 1 .. 0 /\ DOMAIN occRows = {}
    BY DEF OccInit
  <2>2. \A t \in OccTasks : occTask[t].pc = "idle"
    BY DEF OccInit, OccIdle
  <2>. QED  BY <2>1, <2>2 DEF OccInit, OccInv, OccTypeOK, OccAlone, OccOneZone, OccNoNegativeStay
<1>2. OccInv => OccCountedOnce /\ OccNoNegativeStay
  BY DEF OccInv, OccOneZone, OccCountedOnce, OccReport, OccOpen
<1>3. OccInv => \A t \in OccTasks :
        LET task == occTask[t]
            open == {k \in DOMAIN occRows' : occRows'[k].worker = task.worker /\ occRows'[k].left_at = None}
        IN (OccFinishEnter(t) \/ OccFinishLeave(t)) /\ task.alone =>
             IF task.pc = "leave" THEN open = {}
             ELSE /\ Cardinality(open) = 1
                  /\ \A k \in open : /\ occRows'[k].zone = task.zone
                                     /\ \A j \in task.before :
                                          occRows'[k].entered_at <= occRows'[j].entered_at
  BY OccFinishSays
<1>. QED  BY <1>1, <1>2, <1>3, OccNextInv, PTL DEF OccSpec, OccOnePlaceAtATime, OccAloneMeansOne
=============================================================================
