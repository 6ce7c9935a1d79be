------------------------------ MODULE Accounts ------------------------------
(***************************************************************************)
(* Accounts, sessions and the operations that replace them all: the users  *)
(* table (auth.ts, controllers/users.controller.ts), signing in with a     *)
(* password, a second factor or single sign-on (controllers/auth.,         *)
(* integrations/oidc/oidc.controller.ts), backup, restore and factory      *)
(* reset (backup.ts, controllers/backup., settings.controller.ts).         *)
(*                                                                         *)
(* A handler without an await is one action.  A handler that leaves the    *)
(* event loop is a request under way (reqs) between its two parts; it      *)
(* keeps the copy of the session it was given.  express-session (external) *)
(* stores such a copy when the response ends, if the handler changed it,   *)
(* whatever the store holds by then; regenerate() and destroy() act on the *)
(* store at once.  Passwords, permissions and the content of tokens and    *)
(* settings are left out.                                                  *)
(***************************************************************************)
EXTENDS Naturals, FiniteSets

CONSTANTS
  Names,      \* usernames
  MaxId,      \* BOUND: ids the users table hands out
  Sids,       \* BOUND: sessions stored or in use at a time
  Reqs,       \* BOUND: requests under way at a time
  CodeSets,   \* the sets of backup codes that can be generated; BOUND: none,
              \* nobody sets up a second factor
  Provider,   \* BOUND: there is an identity provider to sign in with
  NoUser, NoSession, NoSid, NoBackup, Digits

Ids == 1..MaxId
Codes == UNION CodeSets
Tokens == Codes \cup {Digits}       \* Digits: any six digits

ASSUME MaxIdAssumption == MaxId \in Nat
ASSUME ProviderAssumption == Provider \in BOOLEAN
ASSUME CodesAssumption == Digits \notin Codes
ASSUME SentinelAssumption == NoSid \notin Sids

User == [name : Names, admin : BOOLEAN, sso : BOOLEAN, totp : BOOLEAN,
         codes : SUBSET Codes]

(* uid, pend: userId and pendingTotpUserId, 0 for none; setup, sso: it has *)
(* a pendingTotpSecret, an oidc state.  old is history: the session is     *)
(* from before the accounts were last replaced.                            *)
Session == [uid : 0..MaxId, pend : 0..MaxId, setup : BOOLEAN, sso : BOOLEAN,
            old : BOOLEAN]
Blank == [uid |-> 0, pend |-> 0, setup |-> FALSE, sso |-> FALSE, old |-> FALSE]

Kinds == {"none", "verify", "confirm", "ssoLogin", "ssoCallback", "restore", "reset"}
Request == [kind : Kinds, sid : Sids \cup {NoSid}, sess : Session,
            codes : SUBSET Codes, token : Tokens]
Idle == [kind |-> "none", sid |-> NoSid, sess |-> Blank, codes |-> {}, token |-> Digits]

Backup == [rows : SUBSET User, sso : BOOLEAN]

ASSUME NoValueAssumption ==
  NoUser \notin User /\ NoSession \notin Session /\ NoBackup \notin Backup

VARIABLES
  users,      \* users[i]: the row with id i, or NoUser
  nextId,     \* AUTOINCREMENT: no id is used twice
  ssoOn,      \* the settings enable single sign-on
  store,      \* store[s]: the stored session, or NoSession
  reqs,       \* reqs[r]: the request under way, or Idle
  backup,     \* the last exported file, or NoBackup
  retired,    \* history: backup codes used up, replaced or taken away
  crossed     \* history: accounts were replaced under an SSO callback

vars == <<users, nextId, ssoOn, store, reqs, backup, retired, crossed>>
table == <<users, nextId, retired>>
rest == <<ssoOn, backup, crossed>>

Accounts == {i \in Ids : users[i] # NoUser}
HasAdmin == \E i \in Accounts : users[i].admin
Taken(n) == \E i \in Accounts : users[i].name = n
CodesOf(i) == IF i \in Accounts THEN users[i].codes ELSE {}

TypeOK ==
  /\ users \in [Ids -> User \cup {NoUser}]
  /\ nextId \in 1..(MaxId + 1)
  /\ \A i \in Accounts : i < nextId
  /\ ssoOn \in BOOLEAN
  /\ store \in [Sids -> Session \cup {NoSession}]
  /\ reqs \in [Reqs -> Request]
  /\ backup \in Backup \cup {NoBackup}
  /\ retired \in SUBSET Codes
  /\ crossed \in BOOLEAN

Init ==
  /\ users = [i \in Ids |-> NoUser]
  /\ nextId = 1
  /\ ssoOn = FALSE
  /\ store = [s \in Sids |-> NoSession]
  /\ reqs = [r \in Reqs |-> Idle]
  /\ backup = NoBackup
  /\ retired = {}
  /\ crossed = FALSE

-----------------------------------------------------------------------------
(* The session store.  A caller has a stored session or none; Save stores  *)
(* sess for it, Regenerate replaces its session by one with a new sid.     *)
Callers == {s \in Sids : store[s] # NoSession} \cup {NoSid}
SessionOf(s) == IF s = NoSid THEN Blank ELSE store[s]
InUse(t) == \E r \in Reqs : reqs'[r].sid = t
Unused(t) == store[t] = NoSession /\ ~InUse(t)

Save(s, sess) ==
  \E t \in Sids : /\ IF s = NoSid THEN Unused(t) ELSE t = s
                  /\ store' = [store EXCEPT ![t] = sess]

Regenerate(s, sess) ==
  \E t \in Sids : /\ Unused(t) \/ (t = s /\ ~InUse(t))
                  /\ store' = [u \in Sids |-> IF u = t THEN sess
                                              ELSE IF u = s THEN NoSession
                                              ELSE store[u]]

Destroy(s) == store' = [u \in Sids |-> IF u = s THEN NoSession ELSE store[u]]

(* requireAuth, requireAdmin.                                              *)
SignedIn(s) == s \in Sids /\ store[s] # NoSession /\ store[s].uid \in Accounts
AsAdmin(s) == SignedIn(s) /\ users[store[s].uid].admin

(* A handler comes to its await, or goes on after it and ends.             *)
Start(r, req) == reqs[r] = Idle /\ reqs' = [reqs EXCEPT ![r] = req]
Finish(r, kind) == reqs[r].kind = kind /\ reqs' = [reqs EXCEPT ![r] = Idle]

Under(kind, s) == [Idle EXCEPT !.kind = kind, !.sid = s, !.sess = SessionOf(s)]

(* The rows of the users table.                                            *)
InsertKeepsId(n, admin, sso) ==       \* mutant: no AUTOINCREMENT
  /\ ~Taken(n)
  /\ nextId \in Ids
  /\ users' = [users EXCEPT ![nextId] =
                 [name |-> n, admin |-> admin, sso |-> sso, totp |-> FALSE, codes |-> {}]]
  /\ UNCHANGED <<nextId, retired>>

Insert(n, admin, sso) ==
  /\ ~Taken(n)
  /\ nextId \in Ids
  /\ users' = [users EXCEPT ![nextId] =
                 [name |-> n, admin |-> admin, sso |-> sso, totp |-> FALSE, codes |-> {}]]
  /\ nextId' = nextId + 1
  /\ UNCHANGED retired

SetTotp(i, on, K) ==                  \* an UPDATE: nothing if there is no row
  /\ users' = IF i \in Accounts
              THEN [users EXCEPT ![i].totp = on, ![i].codes = K] ELSE users
  /\ retired' = retired \cup (CodesOf(i) \ K)
  /\ UNCHANGED nextId

NewCodes(K) == K \in CodeSets /\ K \cap (retired \cup UNION {CodesOf(i) : i \in Ids}) = {}

-----------------------------------------------------------------------------
(* controllers/auth.controller.ts.  setup() keeps the session's id.        *)
Setup(s, n) ==
  /\ UNCHANGED <<reqs, rest>>
  /\ Accounts = {}
  /\ Insert(n, TRUE, FALSE)
  /\ Save(s, [SessionOf(s) EXCEPT !.uid = nextId, !.old = FALSE])

(* login() with the right password.                                        *)
Login(s, i) ==
  /\ UNCHANGED <<table, reqs, rest>>
  /\ i \in Accounts
  /\ Regenerate(s, IF users[i].totp THEN [Blank EXCEPT !.pend = i]
                                    ELSE [Blank EXCEPT !.uid = i])

(* totpVerify(): the account has no second factor (any more); the token is *)
(* six digits and otplib is awaited; or it can only be a backup code and   *)
(* the handler goes on.  codes are the codes the handler read.             *)
PendingTotp(s) ==
  s # NoSid /\ store[s].pend \in Accounts /\ users[store[s].pend].totp

VerifyGone(s) ==
  /\ UNCHANGED <<table, reqs, rest>>
  /\ s # NoSid
  /\ store[s].pend # 0
  /\ ~PendingTotp(s)
  /\ Save(s, [store[s] EXCEPT !.pend = 0])

AwaitsAnyToken(token) == TRUE         \* mutant: otplib is asked about any token
Awaits(token) == token = Digits

Verified(req) ==
  LET i == req.sess.pend IN
  \/ /\ req.token = Digits            \* otplib accepts it
     /\ Regenerate(req.sid, [Blank EXCEPT !.uid = i, !.old = req.sess.old])
     /\ UNCHANGED table
  \/ /\ req.token \in req.codes       \* consumeBackupCode
     /\ users' = IF i \in Accounts
                 THEN [users EXCEPT ![i].codes = req.codes \ {req.token}] ELSE users
     /\ retired' = retired \cup {req.token}
     /\ Regenerate(req.sid, [Blank EXCEPT !.uid = i, !.old = req.sess.old])
     /\ UNCHANGED nextId
  \/ UNCHANGED <<table, store>>       \* 401

Verify(s, token) ==
  [Under("verify", s) EXCEPT !.codes = users[store[s].pend].codes, !.token = token]

TotpVerify(s, token, r) ==
  /\ PendingTotp(s)
  /\ \/ Awaits(token) /\ Start(r, Verify(s, token)) /\ UNCHANGED <<table, store>>
     \/ ~Awaits(token) /\ UNCHANGED reqs /\ Verified(Verify(s, token))
  /\ UNCHANGED rest

TotpVerifyDone(r) == Finish(r, "verify") /\ Verified(reqs[r]) /\ UNCHANGED rest

(* totpSetup(), totpConfirm(), totpDisable(), totpBackupCodes().           *)
TotpSetup(s) ==
  /\ UNCHANGED <<table, reqs, rest>>
  /\ SignedIn(s) /\ CodeSets # {}
  /\ LET u == users[store[s].uid] IN ~u.sso /\ ~u.totp
  /\ Save(s, [store[s] EXCEPT !.setup = TRUE])

TotpConfirm(s, r) ==
  /\ SignedIn(s) /\ store[s].setup
  /\ Start(r, Under("confirm", s))
  /\ UNCHANGED <<table, store, rest>>

TotpConfirmDone(r) ==
  /\ Finish(r, "confirm")
  /\ \/ \E K \in CodeSets :
          /\ NewCodes(K)
          /\ SetTotp(reqs[r].sess.uid, TRUE, K)
          /\ Save(reqs[r].sid, [reqs[r].sess EXCEPT !.setup = FALSE])
     \/ UNCHANGED <<table, store>>
  /\ UNCHANGED rest

TotpDisable(s) ==
  /\ SignedIn(s)
  /\ SetTotp(store[s].uid, FALSE, {})
  /\ UNCHANGED <<store, reqs, rest>>

TotpBackupCodes(s) ==
  /\ SignedIn(s) /\ users[store[s].uid].totp
  /\ \E K \in CodeSets : NewCodes(K) /\ SetTotp(store[s].uid, TRUE, K)
  /\ UNCHANGED <<store, reqs, rest>>

Logout(s) == s # NoSid /\ Destroy(s) /\ UNCHANGED <<table, reqs, rest>>

-----------------------------------------------------------------------------
(* controllers/users.controller.ts, by an administrator with session s.    *)
OtherAdmins(i) == {j \in Accounts : users[j].admin} \ {i}

CreateUser(s, n, admin) ==
  /\ AsAdmin(s)
  /\ Insert(n, admin, FALSE)
  /\ UNCHANGED <<store, reqs, rest>>

UpdateRole(s, i, admin) ==
  /\ AsAdmin(s) /\ i \in Accounts
  /\ users[i].admin # admin => i # store[s].uid /\ (admin \/ OtherAdmins(i) # {})
  /\ users' = [users EXCEPT ![i].admin = admin]
  /\ UNCHANGED <<nextId, retired, store, reqs, rest>>

RemoveUser(s, i) ==
  /\ AsAdmin(s) /\ i \in Accounts \ {store[s].uid}
  /\ users[i].admin => OtherAdmins(i) # {}
  /\ users' = [users EXCEPT ![i] = NoUser]
  /\ retired' = retired \cup CodesOf(i)
  /\ UNCHANGED <<nextId, store, reqs, rest>>

DisableTotp(s, i) ==
  /\ AsAdmin(s) /\ i \in Accounts
  /\ users[i].totp
  /\ SetTotp(i, FALSE, {})
  /\ UNCHANGED <<store, reqs, rest>>

-----------------------------------------------------------------------------
(* integrations/oidc/oidc.controller.ts.  Each handler reads the settings  *)
(* when it starts, then awaits the provider, which may also fail.          *)
SetSso(s, on) ==
  /\ AsAdmin(s) /\ Provider
  /\ ssoOn' = on
  /\ UNCHANGED <<table, store, reqs, backup, crossed>>

SsoLogin(s, r) ==
  /\ ssoOn
  /\ Start(r, Under("ssoLogin", s))
  /\ UNCHANGED <<table, store, rest>>

SsoLoginDone(r) ==
  /\ Finish(r, "ssoLogin")
  /\ \/ Save(reqs[r].sid, [reqs[r].sess EXCEPT !.sso = TRUE])
     \/ UNCHANGED store
  /\ UNCHANGED <<table, rest>>

SsoCallbackNoConfig(s, r) ==          \* mutant: a cached configuration is used
  /\ SessionOf(s).sso
  /\ Start(r, Under("ssoCallback", s))
  /\ UNCHANGED <<table, store, rest>>

SsoCallback(s, r) ==
  /\ SessionOf(s).sso /\ ssoOn
  /\ Start(r, Under("ssoCallback", s))
  /\ UNCHANGED <<table, store, rest>>

(* findOrCreateOidc; a local account of that name, or the provider, makes  *)
(* it fail, and the session is stored without its oidc state; or already   *)
(* the discovery of the provider failed.                                   *)
SsoCallbackDone(r, n) ==
  /\ Finish(r, "ssoCallback")
  /\ \/ \E i \in Accounts : /\ users[i].name = n /\ users[i].sso
                            /\ Regenerate(reqs[r].sid, [Blank EXCEPT !.uid = i])
                            /\ UNCHANGED table
     \/ /\ Insert(n, FALSE, TRUE)
        /\ Regenerate(reqs[r].sid, [Blank EXCEPT !.uid = nextId])
     \/ /\ \/ Save(reqs[r].sid, [reqs[r].sess EXCEPT !.sso = FALSE])
           \/ UNCHANGED store
        /\ UNCHANGED table
  /\ UNCHANGED rest

-----------------------------------------------------------------------------
(* backup.ts and its controller: the server exports a file at any time,    *)
(* scheduled or asked for.  restore() replaces the rows, with new ids in   *)
(* an order left open, then writes the stacks; the controller then ends    *)
(* the caller's session, unless a stack could not be written.              *)
Export ==
  /\ backup = NoBackup                \* BOUND: one file
  /\ backup' = [rows |-> {users[i] : i \in Accounts}, sso |-> ssoOn]
  /\ UNCHANGED <<table, ssoOn, store, reqs, crossed>>

Aged(sess) == [sess EXCEPT !.old = TRUE]
AgedStore == [s \in Sids |-> IF store[s] = NoSession THEN NoSession ELSE Aged(store[s])]
AgedReqs == [r \in Reqs |-> IF reqs[r] = Idle THEN Idle ELSE [reqs[r] EXCEPT !.sess = Aged(@)]]
AllCodes(rows) == UNION {u.codes : u \in rows}
SsoUnderWay == \E r \in Reqs : reqs[r].kind = "ssoCallback"

(* ids are those of the new rows.                                          *)
RestoreSameIds(rows) == 1..Cardinality(rows)        \* mutant: ids start over
RestoredIds(rows) == nextId..(nextId + Cardinality(rows) - 1)

Restore(s, r) ==
  /\ AsAdmin(s) /\ backup # NoBackup
  /\ RestoredIds(backup.rows) \subseteq Ids
  /\ users' \in [Ids -> backup.rows \cup {NoUser}]
  /\ {i \in Ids : users'[i] # NoUser} = RestoredIds(backup.rows)
  /\ {users'[i] : i \in RestoredIds(backup.rows)} = backup.rows
  /\ \A i, j \in RestoredIds(backup.rows) : users'[i] = users'[j] => i = j
  /\ nextId' = nextId + Cardinality(backup.rows)
  /\ ssoOn' = backup.sso
  /\ reqs[r] = Idle
  /\ reqs' = [AgedReqs EXCEPT ![r] = [Under("restore", s) EXCEPT !.sess = Aged(@)]]
  /\ store' = AgedStore
  /\ retired' = (retired \cup UNION {CodesOf(i) : i \in Ids}) \ AllCodes(backup.rows)
  /\ crossed' = (crossed \/ SsoUnderWay)
  /\ UNCHANGED backup

RestoreDone(r) ==
  /\ Finish(r, "restore")
  /\ Destroy(reqs[r].sid) \/ UNCHANGED store
  /\ UNCHANGED <<table, rest>>

(* settings.controller.ts reset(): deletes the stacks first, which may     *)
(* fail; then all accounts and settings, and the caller's session.         *)
Reset(s, r) ==
  /\ AsAdmin(s)
  /\ Start(r, Under("reset", s))
  /\ UNCHANGED <<table, store, rest>>

ResetFailed(r) == Finish(r, "reset") /\ UNCHANGED <<table, store, rest>>

ResetDone(r) ==
  /\ reqs[r].kind = "reset"
  /\ reqs' = [AgedReqs EXCEPT ![r] = Idle]
  /\ users' = [i \in Ids |-> NoUser]
  /\ retired' = retired \cup UNION {CodesOf(i) : i \in Ids}
  /\ ssoOn' = FALSE
  /\ store' = [AgedStore EXCEPT ![reqs[r].sid] = NoSession]
  /\ crossed' = (crossed \/ SsoUnderWay)
  /\ UNCHANGED <<nextId, backup>>

-----------------------------------------------------------------------------
SignIn ==
  \E s \in Callers :
    \/ \E n \in Names : Setup(s, n)
    \/ \E i \in Ids : Login(s, i)
    \/ VerifyGone(s)
    \/ \E token \in Tokens, r \in Reqs : TotpVerify(s, token, r)
    \/ \E r \in Reqs : SsoLogin(s, r) \/ SsoCallback(s, r)
    \/ Logout(s)

OwnAccount ==
  \E s \in Sids : \/ TotpSetup(s) \/ TotpDisable(s) \/ TotpBackupCodes(s)
                  \/ \E r \in Reqs : TotpConfirm(s, r)

Administration ==
  \E s \in Sids :
    \/ \E n \in Names, admin \in BOOLEAN : CreateUser(s, n, admin)
    \/ \E i \in Ids : \/ RemoveUser(s, i) \/ DisableTotp(s, i)
                      \/ \E admin \in BOOLEAN : UpdateRole(s, i, admin)
    \/ \E on \in BOOLEAN : SetSso(s, on)
    \/ \E r \in Reqs : Restore(s, r) \/ Reset(s, r)

Resumed ==
  \E r \in Reqs :
    \/ TotpVerifyDone(r) \/ TotpConfirmDone(r) \/ SsoLoginDone(r)
    \/ \E n \in Names : SsoCallbackDone(r, n)
    \/ RestoreDone(r) \/ ResetFailed(r) \/ ResetDone(r)

Next == SignIn \/ OwnAccount \/ Administration \/ Resumed \/ Export

Spec == Init /\ [][Next]_vars

-----------------------------------------------------------------------------
(* Backup codes are single use: a code that signed somebody in, that was   *)
(* replaced or whose second factor was switched off is never again one an  *)
(* account accepts, however verifications, regeneration and resets overlap *)
(* (auth.controller.ts 126-188, 288-313; totp.ts 21-26, 50-57), as long as *)
(* no restore puts back a row that accepts it.                             *)
RetiredCodesStayRetired ==
  \A i \in Accounts : users[i].codes \cap retired = {}

(* Restore and factory reset sign everybody out: a session from before, or *)
(* one that a request from before them stores late, names no account that  *)
(* exists now, though nothing deletes it (backup.ts 49-73).                *)
ReplacedSessionsSignedOut ==
  \A s \in Sids : SignedIn(s) => ~store[s].old

(* The server is never left with accounts and nobody to administer them,   *)
(* unless accounts were replaced while an SSO callback was under way       *)
(* (users.controller.ts 98-113, 160-168; settings.controller.ts 71-98).    *)
AdminUnlessCrossed == crossed \/ Accounts = {} \/ HasAdmin

(* What SettingsService.ts 59 of the web application says of a factory     *)
(* reset: next, a new administrator account is created.                    *)
AdminOrSetup == Accounts = {} \/ HasAdmin
=============================================================================
