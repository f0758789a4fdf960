------------------------------- MODULE Accounts -------------------------------
(***************************************************************************)
(* auth/service.py on SQLite: users, passwords and sessions.  The store    *)
(* never suspends there, so the only places where two requests interleave  *)
(* are the key derivations, which run on a worker thread: a task waits in  *)
(* one with the row it read before it.                                     *)
(***************************************************************************)
EXTENDS Tables

CONSTANTS
  AccTasks,      \* requests in flight
  AccNames,      \* usernames, lower-cased
  AccWorkers,    \* worker ids an account can be linked to
  AccPasswords,
  AccRoles,      \* the roles a created account is given
  AccUserIds,    \* 1..n, the uuids in the order they are drawn
  AccTokens,     \* 1..n, the session tokens in the order they are drawn
  AccSeed,       \* the demo accounts: a sequence of [name, worker, role, password]
  AccTtl,        \* token_ttl_s
  AccMaxTime     \* bound on the clock

ASSUME AccAssumption == AccTtl \in Nat /\ AccMaxTime \in Nat /\ Len(AccSeed) \in Nat

VARIABLES
  accUsers,      \* the users table
  accSessions,   \* the sessions table, keyed by (the hash of) the token
  accTask,       \* [AccTasks -> request waiting for its derivation]
  accDrawn,      \* how many user ids and tokens have been drawn
  accNow,
  accStrong,     \* whether this build's KDF parameters are the raised ones
  accEnded       \* history: tokens a logout, a password change or a disabling ended

accVars == <<accUsers, accSessions, accTask, accDrawn, accNow, accStrong, accEnded>>

AccIdle == [pc |-> "idle"]

\* create_user's record; the clock was read before the derivation
AccUser(spec, strong, at) ==
  [name |-> spec.name, worker |-> spec.worker, role |-> spec.role, password |-> spec.password,
   strong |-> strong, active |-> TRUE, changed_at |-> at]

AccInit ==
  /\ accUsers = [i \in 1..Len(AccSeed) |-> AccUser(AccSeed[i], FALSE, 0)]
  /\ accSessions = <<>>
  /\ accTask = [t \in AccTasks |-> AccIdle]
  /\ accDrawn = [user |-> Len(AccSeed), token |-> 0]
  /\ accNow = 0
  /\ accStrong = FALSE
  /\ accEnded = {}

(* resolve_token: the session is there, neither revoked nor expired, and *)
(* its user exists and is active.                                        *)
AccUnexpired(token) == accNow < accSessions[token].expires_at

AccResolves(token) ==
  /\ token \in DOMAIN accSessions
  /\ ~ accSessions[token].revoked
  /\ AccUnexpired(token)
  /\ accSessions[token].user \in DOMAIN accUsers
  /\ accUsers[accSessions[token].user].active

(* require_role: some token of the request's role. *)
AccAllowed(role) ==
  \E token \in DOMAIN accSessions : AccResolves(token) /\ accUsers[accSessions[token].user].role = role

AccOf(user) == {token \in DOMAIN accSessions : accSessions[token].user = user}

\* Mutant of AccRevoke: one session is taken for all of them.
AccRevokeLast(user) ==
  [token \in DOMAIN accSessions |->
     [accSessions[token] EXCEPT !.revoked = @ \/ (token \in AccOf(user) /\ \A k \in AccOf(user) : k <= token)]]

(* revoke_user_sessions: every session of the user that is not revoked. *)
AccRevoke(user) ==
  [token \in DOMAIN accSessions |->
     IF token \in AccOf(user)
     THEN [accSessions[token] EXCEPT !.revoked = TRUE] ELSE accSessions[token]]

AccTaken(name, worker) ==
  \E id \in DOMAIN accUsers : \/ accUsers[id].name = name
                             \/ (worker # None /\ accUsers[id].worker = worker)

\* POST /auth/users, up to the derivation: both uniqueness checks are done by then.
AccStartCreate(t, name, worker, role, password) ==
  /\ accTask[t].pc = "idle" /\ AccAllowed("site_manager")
  /\ ~ AccTaken(name, worker)
  /\ accTask' = [accTask EXCEPT ![t] = [pc |-> "create", at |-> accNow,
       spec |-> [name |-> name, worker |-> worker, role |-> role, password |-> password]]]
  /\ UNCHANGED <<accUsers, accSessions, accDrawn, accNow, accStrong, accEnded>>

AccFinishCreate(t) ==
  LET id == accDrawn.user + 1
  IN /\ accTask[t].pc = "create" /\ id \in AccUserIds
     /\ accUsers' = Put(accUsers, id, AccUser(accTask[t].spec, accStrong, accTask[t].at), {})
     /\ accDrawn' = [accDrawn EXCEPT !.user = id]
     /\ accTask' = [accTask EXCEPT ![t] = AccIdle]
     /\ UNCHANGED <<accSessions, accNow, accStrong, accEnded>>

\* POST /auth/login: the row is read, then the password is derived and
\* judged against that row.  A login the row refuses changes nothing.
AccStartLogin(t, id) ==
  /\ accTask[t].pc = "idle" /\ accUsers[id].active
  /\ accTask' = [accTask EXCEPT ![t] =
       [pc |-> "login", id |-> id, password |-> accUsers[id].password, strong |-> accUsers[id].strong]]
  /\ UNCHANGED <<accUsers, accSessions, accDrawn, accNow, accStrong, accEnded>>

\* _open_session
AccOpenSession(t) ==
  LET token == accDrawn.token + 1
  IN /\ token \in AccTokens
     /\ accSessions' = Put(accSessions, token,
          [user |-> accTask[t].id, created_at |-> accNow, expires_at |-> accNow + AccTtl, revoked |-> FALSE],
          {"created_at"})
     /\ accDrawn' = [accDrawn EXCEPT !.token = token]
     /\ accTask' = [accTask EXCEPT ![t] = AccIdle]
     /\ UNCHANGED <<accNow, accStrong, accEnded>>

AccFinishLogin(t) ==
  /\ accTask[t].pc = "login" /\ (accTask[t].strong \/ ~ accStrong)
  /\ AccOpenSession(t)
  /\ UNCHANGED accUsers

\* _maybe_upgrade: a second derivation under today's parameters
AccStartUpgrade(t) ==
  /\ accTask[t].pc = "login" /\ ~ accTask[t].strong /\ accStrong
  /\ accTask' = [accTask EXCEPT ![t].pc = "upgrade"]
  /\ UNCHANGED <<accUsers, accSessions, accDrawn, accNow, accStrong, accEnded>>

AccFinishUpgrade(t) ==
  /\ accTask[t].pc = "upgrade"
  /\ accUsers' = Patch(accUsers, accTask[t].id, [password |-> accTask[t].password, strong |-> TRUE])
  /\ AccOpenSession(t)

AccStartChange(t, id, password) ==
  /\ accTask[t].pc = "idle"
  /\ accTask' = [accTask EXCEPT ![t] = [pc |-> "change", id |-> id, password |-> password]]
  /\ UNCHANGED <<accUsers, accSessions, accDrawn, accNow, accStrong, accEnded>>

\* set_password: the new hash first, then every session of that user
AccFinishChange(t) ==
  LET id == accTask[t].id
  IN /\ accTask[t].pc = "change"
     /\ accUsers' = Patch(accUsers, id, [password |-> accTask[t].password, strong |-> accStrong,
                                         changed_at |-> accNow])
     /\ accSessions' = AccRevoke(id)
     /\ accEnded' = accEnded \cup AccOf(id)
     /\ accTask' = [accTask EXCEPT ![t] = AccIdle]
     /\ UNCHANGED <<accDrawn, accNow, accStrong>>

\* Mutant of AccSetActive: a disabled user's sessions are left to the flag.
AccSetActiveOnly(id, active) ==
  /\ accUsers' = Patch(accUsers, id, [active |-> active])
  /\ accEnded' = IF active THEN accEnded ELSE accEnded \cup AccOf(id)
  /\ UNCHANGED <<accSessions, accTask, accDrawn, accNow, accStrong>>

AccSetActive(id, active) ==
  /\ accUsers' = Patch(accUsers, id, [active |-> active])
  /\ accSessions' = IF active THEN accSessions ELSE AccRevoke(id)
  /\ accEnded' = IF active THEN accEnded ELSE accEnded \cup AccOf(id)
  /\ UNCHANGED <<accTask, accDrawn, accNow, accStrong>>

AccDeleteUser(id) ==
  /\ accSessions' = AccRevoke(id)
  /\ accUsers' = Delete(accUsers, id)
  /\ accEnded' = accEnded \cup AccOf(id)
  /\ UNCHANGED <<accTask, accDrawn, accNow, accStrong>>

\* POST /auth/logout: revokes an unrevoked session, an expired one too.
AccLogout(token) ==
  /\ ~ accSessions[token].revoked
  /\ accSessions' = Patch(accSessions, token, [revoked |-> TRUE])
  /\ accEnded' = accEnded \cup {token}
  /\ UNCHANGED <<accUsers, accTask, accDrawn, accNow, accStrong>>

AccTick ==
  /\ accNow < AccMaxTime
  /\ accNow' = accNow + 1
  /\ UNCHANGED <<accUsers, accSessions, accTask, accDrawn, accStrong, accEnded>>

\* Mutant of AccPurged: what expires by the next tick goes too.
AccPurgedEarly == {token \in DOMAIN accSessions : accSessions[token].expires_at <= accNow + 1}

AccPurged == {token \in DOMAIN accSessions : ~ AccUnexpired(token)}

\* A new process, possibly a build with raised parameters: start seeds an
\* empty users table and purges the expired sessions.
AccRestart(strong) ==
  /\ accStrong => strong
  /\ accStrong' = strong
  /\ accTask' = [t \in AccTasks |-> AccIdle]
  /\ IF accUsers # <<>> THEN UNCHANGED <<accUsers, accDrawn>>
     ELSE /\ accDrawn.user + Len(AccSeed) \in AccUserIds
          /\ accDrawn' = [accDrawn EXCEPT !.user = @ + Len(AccSeed)]
          /\ accUsers' = [id \in accDrawn.user + 1 .. accDrawn.user + Len(AccSeed) |->
                            AccUser(AccSeed[id - accDrawn.user], strong, accNow)]
  /\ accSessions' = [token \in DOMAIN accSessions \ AccPurged |-> accSessions[token]]
  /\ UNCHANGED <<accNow, accEnded>>

AccNext ==
  \/ \E t \in AccTasks, n \in AccNames, w \in AccWorkers \cup {None}, r \in AccRoles, p \in AccPasswords :
       AccStartCreate(t, n, w, r, p)
  \/ \E t \in AccTasks : \/ AccFinishCreate(t) \/ AccFinishLogin(t)
                         \/ AccStartUpgrade(t) \/ AccFinishUpgrade(t) \/ AccFinishChange(t)
  \/ \E t \in AccTasks, id \in DOMAIN accUsers : AccStartLogin(t, id)
  \/ \E t \in AccTasks, id \in DOMAIN accUsers, p \in AccPasswords : AccStartChange(t, id, p)
  \/ \E id \in DOMAIN accUsers, active \in BOOLEAN : AccSetActive(id, active)
  \/ \E id \in DOMAIN accUsers : AccDeleteUser(id)
  \/ \E token \in DOMAIN accSessions : AccLogout(token)
  \/ AccTick
  \/ \E strong \in BOOLEAN : AccRestart(strong)

AccSpec == AccInit /\ [][AccNext]_accVars

-----------------------------------------------------------------------------
(* What a logout, a password change, a disabling or a deletion ended stays *)
(* ended: no later enabling, login, restart or raised cost brings it back. *)
AccEndedForGood == \A token \in accEnded : ~ AccResolves(token)

(* A session that still resolves was opened at or after its user's last    *)
(* password change, whatever logins were deriving while it was made.       *)
AccPostdatesChange ==
  \A token \in DOMAIN accSessions :
    AccResolves(token) =>
      accSessions[token].created_at >= accUsers[accSessions[token].user].changed_at

(* A shift survives restarts: no step, the purge of a new process          *)
(* included, drops a session that still resolves.                          *)
AccShiftSurvives ==
  [][\A token \in DOMAIN accSessions : AccResolves(token) => token \in DOMAIN accSessions']_accVars

(* A session resolves until something ends it, and never again after that. *)
AccSessionsKeepTheirTerms ==
  /\ [](AccEndedForGood /\ AccPostdatesChange)
  /\ AccShiftSurvives
=============================================================================
