--------------------------- MODULE AccountsProofs ---------------------------
(* Proofs about Accounts, for any names, sessions, requests, ids and codes. *)
EXTENDS Accounts, FiniteSetTheorems, TLAPS

USE MaxIdAssumption, CodesAssumption, SentinelAssumption, NoValueAssumption

(* The users table: ids below the next one, and no backup code that is     *)
(* retired or belongs to two accounts.                                     *)
TableInv ==
  /\ users \in [Ids -> User \cup {NoUser}]
  /\ nextId \in 1..(MaxId + 1)
  /\ \A i \in Accounts : i < nextId
  /\ retired \in SUBSET Codes
  /\ RetiredCodesStayRetired
  /\ \A i, j \in Accounts : i # j => users[i].codes \cap users[j].codes = {}

(* A session names ids that were handed out; one from before the accounts  *)
(* were replaced names none that exists.                                   *)
Good == {x \in Session :
           /\ x.uid < nextId /\ x.pend < nextId
           /\ x.old => x.uid \notin Accounts /\ x.pend \notin Accounts}
GoodRequest == {q \in Request : q.sess \in Good /\ q.token = Digits}

SessionsInv ==
  /\ store \in [Sids -> Good \cup {NoSession}]
  /\ reqs \in [Reqs -> GoodRequest]

BackupInv ==
  /\ backup \in Backup \cup {NoBackup}
  /\ backup # NoBackup =>
       /\ IsFiniteSet(backup.rows)
       /\ \A u, v \in backup.rows : u # v => u.codes \cap v.codes = {}

(* What keeps an administrator: single sign-on is enabled, and a callback  *)
(* under way, only beside one, in the file that was exported too.          *)
AdminInv ==
  /\ ssoOn \in BOOLEAN /\ crossed \in BOOLEAN
  /\ ~crossed =>
       /\ Accounts = {} \/ HasAdmin
       /\ ssoOn => HasAdmin
       /\ SsoUnderWay => HasAdmin
       /\ backup # NoBackup => \/ \E u \in backup.rows : u.admin
                               \/ backup.rows = {} /\ ~backup.sso

IInv == TableInv /\ SessionsInv /\ BackupInv /\ AdminInv

-----------------------------------------------------------------------------
(* How an action may change the table: new accounts have new ids.          *)
Grows ==
  /\ nextId' \in 1..(MaxId + 1) /\ nextId =< nextId'
  /\ \A i \in Accounts' : i \in Accounts \/ nextId =< i

LEMMA TableSame == ASSUME TableInv, UNCHANGED table PROVE TableInv' /\ Grows
BY DEF TableInv, table, Grows, Accounts, RetiredCodesStayRetired

LEMMA InsertTable ==
  ASSUME TableInv, NEW n \in Names, NEW admin \in BOOLEAN, NEW sso \in BOOLEAN,
         Insert(n, admin, sso)
  PROVE  /\ TableInv' /\ Grows
         /\ nextId \in Ids /\ nextId' = nextId + 1
         /\ Accounts' = Accounts \cup {nextId}
         /\ users'[nextId].admin = admin
         /\ \A i \in Accounts : users'[i] = users[i]
<1> DEFINE new == [name |-> n, admin |-> admin, sso |-> sso, totp |-> FALSE, codes |-> {}]
<1>0. new \in User /\ new.codes = {} /\ new.admin = admin
  BY DEF User
<1>1. /\ new \in User /\ new # NoUser /\ new.codes = {} /\ new.admin = admin
      /\ nextId \in Ids /\ nextId' = nextId + 1 /\ retired' = retired
      /\ users' = [users EXCEPT ![nextId] = new]
  BY <1>0 DEF Insert
<1> HIDE DEF new
<1>2. nextId \notin Accounts
  BY DEF TableInv, Ids
<1>3. users' \in [Ids -> User \cup {NoUser}] /\ users'[nextId] = new
  BY <1>1 DEF TableInv
<1>4. \A i \in Ids : i # nextId => users'[i] = users[i]
  BY <1>1 DEF TableInv
<1>5. Accounts' = Accounts \cup {nextId}
  BY <1>1, <1>3, <1>4 DEF Accounts
<1>6. \A i \in Accounts : users'[i] = users[i]
  BY <1>2, <1>4 DEF Accounts
<1>7. nextId' \in 1..(MaxId + 1) /\ nextId =< nextId' /\ \A i \in Accounts' : i < nextId'
  BY <1>1, <1>5 DEF TableInv, Ids, Accounts
<1>8. RetiredCodesStayRetired'
  BY <1>1, <1>3, <1>5, <1>6 DEF TableInv, RetiredCodesStayRetired
<1>9. \A i, j \in Accounts' : i # j => users'[i].codes \cap users'[j].codes = {}
  BY <1>1, <1>3, <1>5, <1>6 DEF TableInv
<1> QED
  BY <1>1, <1>3, <1>5, <1>6, <1>7, <1>8, <1>9 DEF TableInv, Grows

(* Switching the second factor on with new codes, or off.                  *)
LEMMA SetTotpTable ==
  ASSUME TableInv, NEW i \in Nat, NEW on \in BOOLEAN, NEW K \in SUBSET Codes,
         K = {} \/ NewCodes(K), SetTotp(i, on, K)
  PROVE  /\ TableInv' /\ Grows /\ Accounts' = Accounts
         /\ \A j \in Accounts : users'[j].admin = users[j].admin
<1>1. nextId' = nextId
  BY DEF SetTotp
<1>2. CASE i \notin Accounts
  <2>1. users' = users /\ retired' = retired
    BY <1>2 DEF SetTotp, CodesOf
  <2> QED
    BY <1>1, <2>1 DEF TableInv, Grows, Accounts, RetiredCodesStayRetired
<1>3. CASE i \in Accounts
  <2>1. /\ users' = [users EXCEPT ![i].totp = on, ![i].codes = K]
        /\ retired' = retired \cup (users[i].codes \ K)
        /\ i \in Ids /\ users[i] \in User
    BY <1>3 DEF SetTotp, CodesOf, Accounts, TableInv
  <2>2. \A j \in Ids : j # i => users'[j] = users[j]
    BY <2>1 DEF TableInv
  <2>3. /\ users'[i] = [users[i] EXCEPT !.totp = on, !.codes = K]
        /\ users' \in [Ids -> User \cup {NoUser}]
    BY <2>1 DEF TableInv, User
  <2>4. users'[i] \in User /\ users'[i].codes = K /\ users'[i].admin = users[i].admin
    BY <2>1, <2>3 DEF User
  <2>5. Accounts' = Accounts
    BY <1>3, <2>2, <2>4 DEF Accounts
  <2>6. K \cap retired = {} /\ \A j \in Accounts : K \cap users[j].codes = {}
    BY DEF NewCodes, CodesOf, Accounts
  <2>7. users[i].codes \subseteq Codes
    BY <2>1 DEF User
  <2>8. retired' \in SUBSET Codes
    BY <2>1, <2>7 DEF TableInv
  <2>9. RetiredCodesStayRetired'
    <3>1. ASSUME NEW j \in Accounts' PROVE users'[j].codes \cap retired' = {}
      BY <1>3, <2>1, <2>2, <2>4, <2>5, <2>6 DEF TableInv, RetiredCodesStayRetired, Accounts
    <3> QED
      BY <3>1 DEF RetiredCodesStayRetired
  <2>10. \A j, k \in Accounts' : j # k => users'[j].codes \cap users'[k].codes = {}
    BY <2>2, <2>4, <2>5, <2>6 DEF TableInv, Accounts
  <2>11. \A j \in Accounts : users'[j].admin = users[j].admin
    BY <2>2, <2>4 DEF Accounts
  <2> QED
    BY <1>1, <2>3, <2>5, <2>8, <2>9, <2>10, <2>11 DEF TableInv, Grows
<1> QED
  BY <1>2, <1>3

(* A role that changes, an account that is deleted.                        *)
LEMMA RoleTable ==
  ASSUME TableInv, NEW i \in Accounts, NEW admin \in BOOLEAN,
         users' = [users EXCEPT ![i].admin = admin], UNCHANGED <<nextId, retired>>
  PROVE  /\ TableInv' /\ Grows /\ Accounts' = Accounts
         /\ users'[i].admin = admin
         /\ \A j \in Accounts \ {i} : users'[j] = users[j]
<1>1. i \in Ids /\ users[i] \in User
  BY DEF Accounts, TableInv
<1>2. /\ users'[i] = [users[i] EXCEPT !.admin = admin]
      /\ \A j \in Ids : j # i => users'[j] = users[j]
  BY <1>1 DEF TableInv
<1>3. users'[i] \in User /\ users'[i].admin = admin /\ users'[i].codes = users[i].codes
  BY <1>1, <1>2 DEF User
<1>4. users' \in [Ids -> User \cup {NoUser}]
  BY <1>1, <1>3 DEF TableInv
<1>5. Accounts' = Accounts /\ \A j \in Accounts : users'[j].codes = users[j].codes
  BY <1>1, <1>2, <1>3 DEF Accounts
<1> QED
  BY <1>2, <1>3, <1>4, <1>5 DEF TableInv, Grows, RetiredCodesStayRetired, Accounts

LEMMA RemoveTable ==
  ASSUME TableInv, NEW i \in Accounts, users' = [users EXCEPT ![i] = NoUser],
         retired' = retired \cup CodesOf(i), UNCHANGED nextId
  PROVE  /\ TableInv' /\ Grows /\ Accounts' = Accounts \ {i}
         /\ \A j \in Accounts \ {i} : users'[j] = users[j]
<1>1. i \in Ids /\ users[i] \in User /\ CodesOf(i) = users[i].codes
  BY DEF Accounts, TableInv, CodesOf
<1>2. /\ users' \in [Ids -> User \cup {NoUser}] /\ users'[i] = NoUser
      /\ \A j \in Ids : j # i => users'[j] = users[j]
  BY <1>1 DEF TableInv
<1>3. Accounts' = Accounts \ {i} /\ \A j \in Accounts \ {i} : users'[j] = users[j]
  BY <1>2 DEF Accounts
<1>4. retired' \in SUBSET Codes
  BY <1>1 DEF TableInv, User
<1>5. RetiredCodesStayRetired'
  BY <1>1, <1>3 DEF TableInv, RetiredCodesStayRetired
<1> QED
  BY <1>2, <1>3, <1>4, <1>5 DEF TableInv, Grows

(* The end of a verification uses up a code only if the codes it read are  *)
(* those the account has now.                                              *)
LEMMA VerifiedTable ==
  ASSUME TableInv, NEW req,
         \/ req.token = Digits /\ req.codes \subseteq Codes
         \/ req.sess.pend \in Accounts /\ req.codes = users[req.sess.pend].codes,
         Verified(req)
  PROVE  /\ TableInv' /\ Grows /\ Accounts' = Accounts
         /\ \A j \in Accounts : users'[j].admin = users[j].admin
<1> DEFINE i == req.sess.pend
<1>1. CASE UNCHANGED table
  BY <1>1, TableSame, SMTT(60) DEF table, Accounts
<1>2. CASE ~UNCHANGED table
  <2>1. /\ req.token \in req.codes
        /\ users' = IF i \in Accounts
                    THEN [users EXCEPT ![i].codes = req.codes \ {req.token}] ELSE users
        /\ retired' = retired \cup {req.token} /\ nextId' = nextId
    BY <1>2 DEF Verified, table
  <2>2. i \in Accounts /\ req.codes = users[i].codes
    BY <2>1
  <2>3. /\ users' = [users EXCEPT ![i].codes = users[i].codes \ {req.token}]
        /\ i \in Ids /\ users[i] \in User /\ users[i].codes \subseteq Codes
    BY <2>1, <2>2 DEF Accounts, TableInv, User
  <2>4. /\ users'[i] = [users[i] EXCEPT !.codes = users[i].codes \ {req.token}]
        /\ \A j \in Ids : j # i => users'[j] = users[j]
    BY <2>3 DEF TableInv
  <2>5. /\ users'[i] \in User /\ users'[i].codes = users[i].codes \ {req.token}
        /\ users'[i].admin = users[i].admin
    BY <2>3, <2>4 DEF User
  <2>6. users' \in [Ids -> User \cup {NoUser}]
    BY <2>3, <2>5 DEF TableInv
  <2>7. Accounts' = Accounts
    BY <2>2, <2>4, <2>5 DEF Accounts
  <2>8. RetiredCodesStayRetired'
    <3>1. ASSUME NEW j \in Accounts' PROVE users'[j].codes \cap retired' = {}
      BY <2>1, <2>2, <2>4, <2>5, <2>7 DEF TableInv, RetiredCodesStayRetired, Accounts
    <3> QED
      BY <3>1 DEF RetiredCodesStayRetired
  <2>9. \A j, k \in Accounts' : j # k => users'[j].codes \cap users'[k].codes = {}
    <3>1. \A j \in Accounts : users'[j].codes \subseteq users[j].codes
      BY <2>4, <2>5 DEF Accounts
    <3> QED
      BY <2>7, <3>1 DEF TableInv
  <2>10. \A j \in Accounts : users'[j].admin = users[j].admin
    BY <2>4, <2>5 DEF Accounts
  <2> QED
    BY <2>1, <2>2, <2>3, <2>6, <2>7, <2>8, <2>9, <2>10 DEF TableInv, Grows
<1> QED
  BY <1>1, <1>2

-----------------------------------------------------------------------------
(* The session store and the requests under way, as sets of good values.   *)
LEMMA GoodGrows ==
  ASSUME TableInv, Grows PROVE Good \subseteq Good' /\ GoodRequest \subseteq GoodRequest'
<1>1. ASSUME NEW x \in Good PROVE x \in Good'
  <2>1. x \in Session /\ x.uid \in Nat /\ x.pend \in Nat
    BY DEF Good, Session
  <2>2. x.uid < nextId /\ x.pend < nextId /\ nextId \in Nat /\ nextId' \in Nat
    BY DEF Good, TableInv, Grows
  <2>3. x.uid < nextId' /\ x.pend < nextId'
    BY <2>1, <2>2 DEF Grows
  <2>4. x.old => x.uid \notin Accounts' /\ x.pend \notin Accounts'
    BY <2>1, <2>2 DEF Good, Grows
  <2> QED
    BY <2>1, <2>3, <2>4 DEF Good
<1> QED
  BY <1>1 DEF GoodRequest

LEMMA BlankGood == TableInv => Blank \in Good /\ Idle \in GoodRequest
<1> SUFFICES ASSUME TableInv PROVE Blank \in Good /\ Idle \in GoodRequest
  OBVIOUS
<1>1. Blank \in Session /\ Blank.uid = 0 /\ Blank.pend = 0 /\ ~Blank.old
  BY DEF Blank, Session
<1>2. Blank \in Good
  BY <1>1 DEF Good, TableInv
<1>3. Idle \in Request /\ Idle.sess = Blank /\ Idle.token = Digits
  BY <1>1 DEF Idle, Request, Kinds, Tokens
<1> QED
  BY <1>2, <1>3 DEF GoodRequest

LEMMA SaveIn ==
  ASSUME NEW S, store \in [Sids -> S \cup {NoSession}], NEW s, NEW sess \in S, Save(s, sess)
  PROVE  store' \in [Sids -> S \cup {NoSession}]
BY DEF Save

LEMMA RegenerateIn ==
  ASSUME NEW S, store \in [Sids -> S \cup {NoSession}], NEW s, NEW sess \in S,
         Regenerate(s, sess)
  PROVE  store' \in [Sids -> S \cup {NoSession}]
BY DEF Regenerate

LEMMA DestroyIn ==
  ASSUME NEW S, store \in [Sids -> S \cup {NoSession}], NEW s, Destroy(s)
  PROVE  store' \in [Sids -> S \cup {NoSession}]
BY DEF Destroy

LEMMA StartIn ==
  ASSUME NEW S, reqs \in [Reqs -> S], NEW r \in Reqs, NEW req \in S, Start(r, req)
  PROVE  /\ reqs' \in [Reqs -> S]
         /\ SsoUnderWay' => SsoUnderWay \/ req.kind = "ssoCallback"
BY DEF Start, SsoUnderWay

LEMMA FinishIn ==
  ASSUME NEW S, reqs \in [Reqs -> S], Idle \in S, NEW r \in Reqs, NEW kind, Finish(r, kind)
  PROVE  reqs' \in [Reqs -> S] /\ (SsoUnderWay' => SsoUnderWay)
<1>1. Idle.kind = "none"
  BY DEF Idle
<1> QED
  BY <1>1 DEF Finish, SsoUnderWay

(* A session that an action builds from a good one.                        *)
LEMMA CallerGood ==
  ASSUME TableInv, SessionsInv, NEW s \in Callers
  PROVE  /\ SessionOf(s) \in Good
         /\ \A kind \in Kinds : /\ Under(kind, s) \in GoodRequest
                                /\ Under(kind, s).kind = kind
                                /\ Under(kind, s).sess = SessionOf(s)
<1>1. SessionOf(s) \in Good
  BY BlankGood DEF SessionOf, Callers, SessionsInv
<1>2. SessionOf(s) \in Session /\ s \in Sids \cup {NoSid}
  BY <1>1 DEF Good, Callers
<1>3. ASSUME NEW kind \in Kinds
      PROVE  Under(kind, s) \in Request /\ Under(kind, s).sess = SessionOf(s)
             /\ Under(kind, s).token = Digits /\ Under(kind, s).kind = kind
  BY <1>2 DEF Under, Idle, Request, Tokens
<1> QED
  BY <1>1, <1>3 DEF GoodRequest

-----------------------------------------------------------------------------
(* Every action but Export, Restore and ResetDone: it lets no session go   *)
(* bad, keeps an administrator if there is one, and creates the first      *)
(* account as one unless an SSO callback is under way.                     *)
Keeps ==
  /\ HasAdmin => HasAdmin'
  /\ Accounts = {} /\ ~SsoUnderWay => Accounts' = {} \/ HasAdmin'

LEMMA OrdinaryStep ==
  ASSUME IInv, TableInv', store' \in [Sids -> Good' \cup {NoSession}],
         reqs' \in [Reqs -> GoodRequest'], Keeps, UNCHANGED <<backup, crossed>>,
         ssoOn' \in BOOLEAN, ssoOn' => ssoOn \/ HasAdmin, SsoUnderWay' => SsoUnderWay \/ ssoOn
  PROVE  IInv'
<1>1. BackupInv'
  BY DEF IInv, BackupInv
<1>2. AdminInv'
  BY DEF IInv, AdminInv, Keeps
<1> QED
  BY <1>1, <1>2 DEF IInv, SessionsInv

LEMMA SameAdmins ==
  ASSUME Accounts' = Accounts, \A j \in Accounts : users'[j].admin = users[j].admin
  PROVE  Keeps
BY DEF Keeps, HasAdmin

LEMMA SameTable == ASSUME IInv, UNCHANGED table PROVE TableInv' /\ Grows /\ Keeps
<1>1. TableInv' /\ Grows /\ Accounts' = Accounts
  BY TableSame DEF IInv, table, Accounts
<1> QED
  BY <1>1, SameAdmins DEF table

(* What the store and the requests become if they keep or take over good   *)
(* values.                                                                 *)
LEMMA StillGood ==
  ASSUME IInv, Grows
  PROVE  /\ Good \subseteq Good' /\ GoodRequest \subseteq GoodRequest'
         /\ store \in [Sids -> Good' \cup {NoSession}]
         /\ reqs \in [Reqs -> GoodRequest']
         /\ Blank \in Good' /\ Idle \in GoodRequest'
BY GoodGrows, BlankGood DEF IInv, SessionsInv

(* A session signed in, or pending, as an account that exists.             *)
LEMMA SignedInGood ==
  ASSUME TableInv', NEW i \in Nat, i < nextId', NEW old \in BOOLEAN, old => i \notin Accounts'
  PROVE  /\ [Blank EXCEPT !.uid = i, !.old = old] \in Good'
         /\ [Blank EXCEPT !.uid = i] \in Good'
         /\ ~old => [Blank EXCEPT !.pend = i] \in Good'
<1>1. i \in 0..MaxId /\ nextId' \in Nat /\ 0 < nextId' /\ 0 \notin Accounts'
  BY DEF TableInv, Accounts, Ids
<1>2. ASSUME NEW x \in Session, x.uid = 0 \/ x.uid = i, x.pend = 0 \/ x.pend = i,
             x.old => i \notin Accounts'
      PROVE  x \in Good'
  BY <1>1, <1>2 DEF Good
<1> DEFINE a == [Blank EXCEPT !.uid = i, !.old = old]
           b == [Blank EXCEPT !.uid = i]
           c == [Blank EXCEPT !.pend = i]
<1>3. Blank \in Session /\ Blank.uid = 0 /\ Blank.pend = 0 /\ Blank.old = FALSE
  BY DEF Blank, Session
<1>4. a \in Session /\ a.uid = i /\ a.pend = 0 /\ a.old = old
  BY <1>1, <1>3 DEF Session
<1>5. b \in Session /\ b.uid = i /\ b.pend = 0 /\ b.old = FALSE
  BY <1>1, <1>3 DEF Session
<1>6. c \in Session /\ c.uid = 0 /\ c.pend = i /\ c.old = FALSE
  BY <1>1, <1>3 DEF Session
<1> HIDE DEF a, b, c
<1>7. a \in Good' /\ b \in Good' /\ c \in Good'
  BY <1>2, <1>4, <1>5, <1>6
<1> QED
  BY <1>7 DEF a, b, c

LEMMA SetupInv ==
  ASSUME IInv, NEW s \in Callers, NEW n \in Names, Setup(s, n) PROVE IInv'
<1>1. Insert(n, TRUE, FALSE) /\ UNCHANGED <<reqs, rest>> /\ Accounts = {}
  BY DEF Setup
<1>2. /\ TableInv' /\ Grows /\ nextId \in Ids /\ nextId' = nextId + 1
      /\ Accounts' = {nextId} /\ users'[nextId].admin
  BY <1>1, InsertTable DEF IInv
<1>3. Keeps
  BY <1>1, <1>2 DEF Keeps, HasAdmin
<1> DEFINE sess == [SessionOf(s) EXCEPT !.uid = nextId, !.old = FALSE]
<1>4. sess \in Good'
  <2>1. SessionOf(s) \in Session /\ SessionOf(s).pend < nextId
    BY CallerGood DEF IInv, Good
  <2>2. nextId \in 0..MaxId
    BY <1>2 DEF Ids
  <2>3. sess \in Session /\ sess.uid = nextId /\ sess.old = FALSE /\ sess.pend = SessionOf(s).pend
    BY <2>1, <2>2 DEF Session
  <2>4. SessionOf(s).pend \in 0..MaxId
    BY <2>1 DEF Session
  <2> HIDE DEF sess
  <2>5. sess.uid < nextId' /\ sess.pend < nextId'
    BY <1>2, <2>1, <2>2, <2>3, <2>4
  <2> QED
    BY <2>3, <2>5 DEF Good
<1>5. store' \in [Sids -> Good' \cup {NoSession}]
  BY <1>2, <1>4, StillGood, SaveIn DEF Setup
<1>6. reqs' \in [Reqs -> GoodRequest'] /\ (SsoUnderWay' => SsoUnderWay)
  BY <1>1, <1>2, StillGood DEF SsoUnderWay
<1> QED
  BY <1>1, <1>2, <1>3, <1>5, <1>6, OrdinaryStep DEF rest, IInv, AdminInv

LEMMA LoginInv ==
  ASSUME IInv, NEW s \in Callers, NEW i \in Ids, Login(s, i) PROVE IInv'
<1>1. UNCHANGED <<table, reqs, rest>> /\ i \in Accounts
  BY DEF Login
<1>2. TableInv' /\ Grows /\ Keeps /\ nextId' = nextId /\ i < nextId /\ i \in Nat
  BY <1>1, SameTable DEF IInv, TableInv, table, Ids
<1>3. [Blank EXCEPT !.pend = i] \in Good' /\ [Blank EXCEPT !.uid = i] \in Good'
  BY <1>2, SignedInGood
<1>4. store' \in [Sids -> Good' \cup {NoSession}]
  BY <1>2, <1>3, StillGood, RegenerateIn DEF Login
<1>5. reqs' \in [Reqs -> GoodRequest'] /\ (SsoUnderWay' => SsoUnderWay)
  BY <1>1, <1>2, StillGood DEF SsoUnderWay
<1> QED
  BY <1>1, <1>2, <1>4, <1>5, OrdinaryStep DEF rest, IInv, AdminInv

(* Actions that only store the caller's session, changed, or destroy it.   *)
LEMMA SaveInv ==
  ASSUME IInv, UNCHANGED <<table, reqs, rest>>, NEW s,
         \/ \E sess \in Good : Save(s, sess)
         \/ Destroy(s)
         \/ UNCHANGED store
  PROVE  IInv'
<1>1. TableInv' /\ Grows /\ Keeps
  BY SameTable
<1>2. store' \in [Sids -> Good' \cup {NoSession}]
  BY <1>1, StillGood, SaveIn, DestroyIn
<1>3. reqs' \in [Reqs -> GoodRequest'] /\ (SsoUnderWay' => SsoUnderWay)
  BY <1>1, StillGood DEF SsoUnderWay
<1> QED
  BY <1>1, <1>2, <1>3, OrdinaryStep DEF rest, IInv, AdminInv

(* Handlers that come to their await.                                      *)
LEMMA StartInv ==
  ASSUME IInv, NEW r \in Reqs, NEW req \in GoodRequest, Start(r, req),
         UNCHANGED <<table, store, rest>>, req.kind = "ssoCallback" => ssoOn
  PROVE  IInv'
<1>1. TableInv' /\ Grows /\ Keeps
  BY SameTable DEF table
<1>2. store' \in [Sids -> Good' \cup {NoSession}]
  BY <1>1, StillGood
<1>3. reqs' \in [Reqs -> GoodRequest'] /\ (SsoUnderWay' => SsoUnderWay \/ ssoOn)
  BY <1>1, StillGood, StartIn
<1> QED
  BY <1>1, <1>2, <1>3, OrdinaryStep DEF rest, IInv, AdminInv

LEMMA TableStep ==
  ASSUME IInv, TableInv', Grows, Keeps, UNCHANGED <<store, reqs, rest>> PROVE IInv'
<1>1. store' \in [Sids -> Good' \cup {NoSession}] /\ reqs' \in [Reqs -> GoodRequest']
  BY StillGood
<1>2. SsoUnderWay' => SsoUnderWay
  BY DEF SsoUnderWay
<1> QED
  BY <1>1, <1>2, OrdinaryStep DEF rest, IInv, AdminInv

(* Handlers that go on after their await and end.                          *)
LEMMA FinishStep ==
  ASSUME IInv, TableInv', Grows, Keeps, NEW r \in Reqs, NEW kind, Finish(r, kind),
         store' \in [Sids -> Good' \cup {NoSession}], UNCHANGED rest
  PROVE  IInv'
<1>1. reqs' \in [Reqs -> GoodRequest'] /\ (SsoUnderWay' => SsoUnderWay)
  BY StillGood, FinishIn
<1> QED
  BY <1>1, OrdinaryStep DEF rest, IInv, AdminInv

LEMMA ChangedGood ==
  ASSUME TableInv, NEW x \in Good, NEW b \in BOOLEAN
  PROVE  /\ [x EXCEPT !.pend = 0] \in Good
         /\ [x EXCEPT !.setup = b] \in Good
         /\ [x EXCEPT !.sso = b] \in Good
<1>1. x \in Session
  BY DEF Good
<1> DEFINE p == [x EXCEPT !.pend = 0]
           q == [x EXCEPT !.setup = b]
           t == [x EXCEPT !.sso = b]
<1>2. p \in Session /\ p.uid = x.uid /\ p.pend = 0 /\ p.old = x.old
  BY <1>1 DEF Session
<1>3. q \in Session /\ q.uid = x.uid /\ q.pend = x.pend /\ q.old = x.old
  BY <1>1 DEF Session
<1>4. t \in Session /\ t.uid = x.uid /\ t.pend = x.pend /\ t.old = x.old
  BY <1>1 DEF Session
<1>5. 0 < nextId /\ 0 \notin Accounts
  BY DEF TableInv, Accounts, Ids
<1> HIDE DEF p, q, t
<1>6. p \in Good /\ q \in Good /\ t \in Good
  BY <1>2, <1>3, <1>4, <1>5 DEF Good
<1> QED
  BY <1>6 DEF p, q, t

(* Where the session of a caller that has one comes from.                  *)
LEMMA StoredGood ==
  ASSUME SessionsInv, NEW s \in Sids, store[s] # NoSession
  PROVE  s \in Callers /\ store[s] \in Good /\ SessionOf(s) = store[s]
BY DEF SessionsInv, Callers, SessionOf

(* The end of a verification, at once or after the await.                  *)
LEMMA VerifiedGood ==
  ASSUME IInv, TableInv', Grows, Accounts' = Accounts, NEW req, req.sess \in Good, Verified(req)
  PROVE  store' \in [Sids -> Good' \cup {NoSession}]
<1> DEFINE sess == [Blank EXCEPT !.uid = req.sess.pend, !.old = req.sess.old]
<1>1. /\ req.sess.pend \in Nat /\ req.sess.old \in BOOLEAN
      /\ req.sess.pend < nextId /\ (req.sess.old => req.sess.pend \notin Accounts)
  BY DEF Good, Session
<1>2. req.sess.pend < nextId'
  BY <1>1 DEF Grows, IInv, TableInv
<1>3. sess \in Good'
  BY <1>1, <1>2, SignedInGood
<1>4. (\E s : Regenerate(s, sess)) \/ UNCHANGED store
  BY DEF Verified
<1> QED
  BY <1>3, <1>4, StillGood, RegenerateIn

LEMMA TotpVerifyInv ==
  ASSUME IInv, NEW s \in Callers, NEW token \in Tokens, NEW r \in Reqs,
         TotpVerify(s, token, r)
  PROVE  IInv'
<1> DEFINE i == store[s].pend
           req == Verify(s, token)
<1>1. /\ s \in Sids /\ store[s] # NoSession /\ i \in Accounts /\ UNCHANGED rest
      /\ \/ Awaits(token) /\ Start(r, req) /\ UNCHANGED <<table, store>>
         \/ ~Awaits(token) /\ UNCHANGED reqs /\ Verified(req)
  BY DEF TotpVerify, PendingTotp, Callers
<1>2. /\ Under("verify", s) \in GoodRequest /\ Under("verify", s).kind = "verify"
      /\ Under("verify", s).sess = store[s] /\ store[s] \in Good
  BY <1>1, StoredGood, CallerGood DEF IInv, Kinds
<1>3. users[i].codes \in SUBSET Codes
  BY <1>1 DEF IInv, TableInv, Accounts, User
<1>4. Under("verify", s) \in Request
  BY <1>2 DEF GoodRequest
<1>5. /\ req \in Request /\ req.kind = "verify" /\ req.sess = store[s]
      /\ req.codes = users[i].codes /\ req.token = token
  BY <1>2, <1>3, <1>4 DEF Verify, Request
<1>6. CASE Awaits(token)
  <2>1. req \in GoodRequest
    BY <1>2, <1>5, <1>6 DEF Awaits, GoodRequest
  <2> QED
    BY <1>1, <1>5, <1>6, <2>1, StartInv
<1>7. CASE ~Awaits(token)
  <2>1. /\ TableInv' /\ Grows /\ Accounts' = Accounts
        /\ \A j \in Accounts : users'[j].admin = users[j].admin
    BY <1>1, <1>5, <1>7, VerifiedTable DEF IInv
  <2>2. store' \in [Sids -> Good' \cup {NoSession}]
    BY <1>1, <1>2, <1>5, <1>7, <2>1, VerifiedGood
  <2>3. reqs' \in [Reqs -> GoodRequest'] /\ (SsoUnderWay' => SsoUnderWay)
    BY <1>1, <1>7, <2>1, StillGood DEF SsoUnderWay
  <2> QED
    BY <1>1, <2>1, <2>2, <2>3, SameAdmins, OrdinaryStep DEF rest, IInv, AdminInv
<1> QED
  BY <1>6, <1>7

LEMMA TotpVerifyDoneInv ==
  ASSUME IInv, NEW r \in Reqs, TotpVerifyDone(r) PROVE IInv'
<1>1. /\ Finish(r, "verify") /\ Verified(reqs[r]) /\ UNCHANGED rest
      /\ reqs[r].token = Digits /\ reqs[r].codes \subseteq Codes /\ reqs[r].sess \in Good
  BY DEF TotpVerifyDone, IInv, SessionsInv, GoodRequest, Request
<1>2. /\ TableInv' /\ Grows /\ Accounts' = Accounts
      /\ \A j \in Accounts : users'[j].admin = users[j].admin
  BY <1>1, VerifiedTable DEF IInv
<1>3. store' \in [Sids -> Good' \cup {NoSession}]
  BY <1>1, <1>2, VerifiedGood
<1> QED
  BY <1>1, <1>2, <1>3, SameAdmins, FinishStep

LEMMA SetTotpInv ==
  ASSUME IInv, NEW i \in Nat, NEW on \in BOOLEAN, NEW K \in SUBSET Codes,
         K = {} \/ NewCodes(K), SetTotp(i, on, K), UNCHANGED <<store, reqs, rest>>
  PROVE  IInv'
<1>1. /\ TableInv' /\ Grows /\ Accounts' = Accounts
      /\ \A j \in Accounts : users'[j].admin = users[j].admin
  BY SetTotpTable DEF IInv
<1> QED
  BY <1>1, SameAdmins, TableStep

LEMMA TotpConfirmDoneInv ==
  ASSUME IInv, NEW r \in Reqs, TotpConfirmDone(r) PROVE IInv'
<1> DEFINE x == reqs[r].sess
           sess == [x EXCEPT !.setup = FALSE]
<1>1. Finish(r, "confirm") /\ UNCHANGED rest /\ x \in Good
  BY DEF TotpConfirmDone, IInv, SessionsInv, GoodRequest
<1>2. x.uid \in Nat
  BY <1>1 DEF Good, Session
<1>3. sess \in Good
  BY <1>1, ChangedGood DEF IInv
<1>4. CASE UNCHANGED <<table, store>>
  <2>1. TableInv' /\ Grows /\ Keeps /\ UNCHANGED store
    BY <1>4, SameTable
  <2> QED
    BY <1>1, <2>1, StillGood, FinishStep
<1>5. ASSUME NEW K \in CodeSets, NewCodes(K), SetTotp(x.uid, TRUE, K), Save(reqs[r].sid, sess)
      PROVE  IInv'
  <2>1. K \in SUBSET Codes
    BY DEF Codes
  <2>2. /\ TableInv' /\ Grows /\ Accounts' = Accounts
        /\ \A j \in Accounts : users'[j].admin = users[j].admin
    BY <1>2, <1>5, <2>1, SetTotpTable DEF IInv
  <2>3. store' \in [Sids -> Good' \cup {NoSession}]
    BY <1>3, <1>5, <2>2, StillGood, SaveIn
  <2> QED
    BY <1>1, <2>2, <2>3, SameAdmins, FinishStep
<1> QED
  BY <1>4, <1>5 DEF TotpConfirmDone

LEMMA CreateUserInv ==
  ASSUME IInv, NEW s \in Sids, NEW n \in Names, NEW admin \in BOOLEAN, CreateUser(s, n, admin)
  PROVE  IInv'
<1>1. /\ Insert(n, admin, FALSE) /\ UNCHANGED <<store, reqs, rest>> /\ HasAdmin
  BY DEF CreateUser, AsAdmin, SignedIn, HasAdmin
<1>2. /\ TableInv' /\ Grows /\ Accounts \subseteq Accounts'
      /\ \A i \in Accounts : users'[i] = users[i]
  BY <1>1, InsertTable DEF IInv
<1>3. Keeps
  BY <1>1, <1>2 DEF Keeps, HasAdmin
<1> QED
  BY <1>1, <1>2, <1>3, TableStep

(* The administrator who acts is one that stays.                           *)
LEMMA UpdateRoleInv ==
  ASSUME IInv, NEW s \in Sids, NEW i \in Ids, NEW admin \in BOOLEAN, UpdateRole(s, i, admin)
  PROVE  IInv'
<1> DEFINE a == store[s].uid
<1>1. /\ a \in Accounts /\ users[a].admin /\ i \in Accounts
      /\ users[i].admin # admin => i # a
      /\ users' = [users EXCEPT ![i].admin = admin]
      /\ UNCHANGED <<nextId, retired>> /\ UNCHANGED <<store, reqs, rest>>
  BY DEF UpdateRole, AsAdmin, SignedIn
<1>2. /\ TableInv' /\ Grows /\ Accounts' = Accounts /\ users'[i].admin = admin
      /\ \A j \in Accounts \ {i} : users'[j] = users[j]
  BY <1>1, RoleTable DEF IInv
<1>3. users'[a].admin
  BY <1>1, <1>2
<1>4. Keeps
  BY <1>1, <1>2, <1>3 DEF Keeps, HasAdmin
<1> QED
  BY <1>1, <1>2, <1>4, TableStep

LEMMA RemoveUserInv ==
  ASSUME IInv, NEW s \in Sids, NEW i \in Ids, RemoveUser(s, i) PROVE IInv'
<1> DEFINE a == store[s].uid
<1>1. /\ a \in Accounts \ {i} /\ users[a].admin /\ i \in Accounts
      /\ users' = [users EXCEPT ![i] = NoUser] /\ retired' = retired \cup CodesOf(i)
      /\ UNCHANGED nextId /\ UNCHANGED <<store, reqs, rest>>
  BY DEF RemoveUser, AsAdmin, SignedIn
<1>2. /\ TableInv' /\ Grows /\ Accounts' = Accounts \ {i}
      /\ \A j \in Accounts \ {i} : users'[j] = users[j]
  BY <1>1, RemoveTable DEF IInv
<1>3. Keeps
  BY <1>1, <1>2 DEF Keeps, HasAdmin
<1> QED
  BY <1>1, <1>2, <1>3, TableStep

LEMMA SetSsoInv ==
  ASSUME IInv, NEW s \in Sids, NEW on \in BOOLEAN, SetSso(s, on) PROVE IInv'
<1>1. /\ UNCHANGED <<table, store, reqs, backup, crossed>> /\ ssoOn' = on /\ HasAdmin
  BY DEF SetSso, AsAdmin, SignedIn, HasAdmin
<1>2. TableInv' /\ Grows /\ Keeps
  BY <1>1, SameTable
<1>3. /\ store' \in [Sids -> Good' \cup {NoSession}] /\ reqs' \in [Reqs -> GoodRequest']
      /\ SsoUnderWay' => SsoUnderWay
  BY <1>1, <1>2, StillGood DEF SsoUnderWay
<1> QED
  BY <1>1, <1>2, <1>3, OrdinaryStep

LEMMA SsoLoginDoneInv ==
  ASSUME IInv, NEW r \in Reqs, SsoLoginDone(r) PROVE IInv'
<1> DEFINE sess == [reqs[r].sess EXCEPT !.sso = TRUE]
<1>1. /\ Finish(r, "ssoLogin") /\ UNCHANGED <<table, rest>>
      /\ Save(reqs[r].sid, sess) \/ UNCHANGED store
  BY DEF SsoLoginDone
<1>2. sess \in Good
  BY ChangedGood DEF IInv, SessionsInv, GoodRequest
<1>3. TableInv' /\ Grows /\ Keeps /\ UNCHANGED rest
  BY <1>1, SameTable DEF table, rest
<1>4. store' \in [Sids -> Good' \cup {NoSession}]
  BY <1>1, <1>2, <1>3, StillGood, SaveIn
<1> QED
  BY <1>1, <1>3, <1>4, FinishStep

LEMMA SsoCallbackDoneInv ==
  ASSUME IInv, NEW r \in Reqs, NEW n \in Names, SsoCallbackDone(r, n) PROVE IInv'
<1> DEFINE sid == reqs[r].sid
           sess == [reqs[r].sess EXCEPT !.sso = FALSE]
<1>1. Finish(r, "ssoCallback") /\ UNCHANGED rest /\ SsoUnderWay
  BY DEF SsoCallbackDone, Finish, SsoUnderWay
<1>2. ASSUME NEW i \in Accounts, Regenerate(sid, [Blank EXCEPT !.uid = i]), UNCHANGED table
      PROVE  IInv'
  <2>1. TableInv' /\ Grows /\ Keeps
    BY <1>2, SameTable
  <2>2. i \in Nat /\ i < nextId'
    BY <1>2 DEF IInv, TableInv, table, Accounts, Ids
  <2>3. [Blank EXCEPT !.uid = i] \in Good'
    BY <2>1, <2>2, SignedInGood
  <2>4. store' \in [Sids -> Good' \cup {NoSession}]
    BY <1>2, <2>1, <2>3, StillGood, RegenerateIn
  <2> QED
    BY <1>1, <2>1, <2>4, FinishStep
<1>3. ASSUME Insert(n, FALSE, TRUE), Regenerate(sid, [Blank EXCEPT !.uid = nextId])
      PROVE  IInv'
  <2>1. /\ TableInv' /\ Grows /\ nextId \in Ids /\ nextId' = nextId + 1
        /\ Accounts' = Accounts \cup {nextId}
        /\ \A i \in Accounts : users'[i] = users[i]
    BY <1>3, InsertTable DEF IInv
  <2>2. Keeps
    BY <1>1, <2>1 DEF Keeps, HasAdmin
  <2>3. nextId \in Nat /\ nextId < nextId'
    BY <2>1 DEF Ids
  <2>4. [Blank EXCEPT !.uid = nextId] \in Good'
    BY <2>1, <2>3, SignedInGood
  <2>5. store' \in [Sids -> Good' \cup {NoSession}]
    BY <1>3, <2>1, <2>4, StillGood, RegenerateIn
  <2> QED
    BY <1>1, <2>1, <2>2, <2>5, FinishStep
<1>4. ASSUME Save(sid, sess), UNCHANGED table PROVE IInv'
  <2>1. TableInv' /\ Grows /\ Keeps
    BY <1>4, SameTable
  <2>2. sess \in Good
    BY ChangedGood DEF IInv, SessionsInv, GoodRequest
  <2>3. store' \in [Sids -> Good' \cup {NoSession}]
    BY <1>4, <2>1, <2>2, StillGood, SaveIn
  <2> QED
    BY <1>1, <2>1, <2>3, FinishStep
<1>5. ASSUME UNCHANGED <<table, store>> PROVE IInv'
  <2>1. TableInv' /\ Grows /\ Keeps
    BY <1>5, SameTable DEF table
  <2>2. store' \in [Sids -> Good' \cup {NoSession}]
    BY <1>5, <2>1, StillGood
  <2> QED
    BY <1>1, <2>1, <2>2, FinishStep
<1> QED
  BY <1>2, <1>3, <1>4, <1>5 DEF SsoCallbackDone

LEMMA ExportInv == ASSUME IInv, Export PROVE IInv'
<1>1. /\ backup' = [rows |-> {users[i] : i \in Accounts}, sso |-> ssoOn]
      /\ UNCHANGED <<table, ssoOn, store, reqs, crossed>>
  BY DEF Export
<1>2. TableInv' /\ Grows /\ Accounts' = Accounts /\ (HasAdmin' <=> HasAdmin)
  BY <1>1, TableSame DEF IInv, table, Accounts, HasAdmin
<1>3. SessionsInv'
  BY <1>1, <1>2, StillGood DEF SessionsInv
<1> DEFINE rows == {users[i] : i \in Accounts}
<1>4. rows \in SUBSET User /\ ssoOn \in BOOLEAN
  BY DEF IInv, TableInv, Accounts, AdminInv
<1>5. IsFiniteSet(rows)
  <2>1. IsFiniteSet(1..MaxId)
    BY FS_Interval
  <2>2. IsFiniteSet(Accounts)
    BY <2>1, FS_Subset DEF Accounts, Ids
  <2>3. [i \in Accounts |-> users[i]] \in Surjection(Accounts, rows)
    BY DEF Surjection
  <2> QED
    BY <2>2, <2>3, FS_Surjection
<1>6. \A u, v \in rows : u # v => u.codes \cap v.codes = {}
  BY DEF IInv, TableInv
<1>7. backup'.rows = rows /\ backup'.sso = ssoOn /\ backup' \in Backup
  BY <1>1, <1>4 DEF Backup
<1> HIDE DEF rows
<1>8. BackupInv'
  BY <1>5, <1>6, <1>7 DEF BackupInv
<1>9. SsoUnderWay' <=> SsoUnderWay
  BY <1>1 DEF SsoUnderWay
<1>10. /\ HasAdmin => \E u \in rows : u.admin
       /\ Accounts = {} => rows = {}
  BY DEF rows, HasAdmin
<1>11. AdminInv'
  BY <1>1, <1>2, <1>7, <1>9, <1>10 DEF IInv, AdminInv
<1> QED
  BY <1>2, <1>3, <1>8, <1>11 DEF IInv

-----------------------------------------------------------------------------
(* When all accounts are replaced, the sessions and the copies the         *)
(* requests hold are all from before, and the new ids are beyond theirs.   *)
LEMMA AgedGood ==
  ASSUME IInv, TableInv', nextId =< nextId', \A i \in Accounts' : nextId =< i
  PROVE  /\ \A x \in Good : Aged(x) \in Good'
         /\ AgedStore \in [Sids -> Good' \cup {NoSession}]
         /\ AgedReqs \in [Reqs -> GoodRequest']
         /\ \A r \in Reqs : AgedReqs[r].kind = reqs[r].kind
<1>1. ASSUME NEW x \in Good PROVE Aged(x) \in Good'
  <2>1. x \in Session /\ x.uid \in Nat /\ x.pend \in Nat /\ x.uid < nextId /\ x.pend < nextId
    BY DEF Good, Session
  <2>2. /\ Aged(x) \in Session /\ Aged(x).uid = x.uid /\ Aged(x).pend = x.pend
        /\ Aged(x).old = TRUE
    BY <2>1 DEF Aged, Session
  <2>3. nextId \in Nat /\ nextId' \in Nat /\ Accounts' \subseteq Nat
    BY DEF IInv, TableInv, Accounts, Ids
  <2>4. x.uid < nextId' /\ x.pend < nextId' /\ x.uid \notin Accounts' /\ x.pend \notin Accounts'
    BY <2>1, <2>3
  <2> QED
    BY <2>2, <2>4 DEF Good
<1>2. AgedStore \in [Sids -> Good' \cup {NoSession}]
  BY <1>1 DEF AgedStore, IInv, SessionsInv
<1>3. Idle \in GoodRequest'
  <2>1. Grows
    BY DEF Grows, TableInv
  <2> QED
    BY <2>1, StillGood
<1>4. ASSUME NEW r \in Reqs
      PROVE  AgedReqs[r] \in GoodRequest' /\ AgedReqs[r].kind = reqs[r].kind
  <2>1. CASE reqs[r] = Idle
    BY <1>3, <2>1 DEF AgedReqs
  <2>2. CASE reqs[r] # Idle
    <3> DEFINE q == reqs[r]
               p == [q EXCEPT !.sess = Aged(q.sess)]
    <3>1. q \in Request /\ q.sess \in Good /\ q.token = Digits
      BY DEF IInv, SessionsInv, GoodRequest
    <3>2. Aged(q.sess) \in Good' /\ Aged(q.sess) \in Session
      BY <1>1, <3>1 DEF Good
    <3>3. p \in Request /\ p.sess = Aged(q.sess) /\ p.token = Digits /\ p.kind = q.kind
      BY <3>1, <3>2 DEF Request
    <3>4. p \in GoodRequest'
      BY <3>2, <3>3 DEF GoodRequest
    <3>5. AgedReqs[r] = p
      BY <2>2 DEF AgedReqs
    <3> QED
      BY <3>3, <3>4, <3>5
  <2> QED
    BY <2>1, <2>2
<1>5. AgedReqs \in [Reqs -> GoodRequest']
  BY <1>4 DEF AgedReqs
<1> QED
  BY <1>1, <1>2, <1>4, <1>5

LEMMA ResetDoneInv == ASSUME IInv, NEW r \in Reqs, ResetDone(r) PROVE IInv'
<1>1. /\ reqs' = [AgedReqs EXCEPT ![r] = Idle] /\ users' = [i \in Ids |-> NoUser]
      /\ retired' = retired \cup UNION {CodesOf(i) : i \in Ids} /\ ssoOn' = FALSE
      /\ store' = [AgedStore EXCEPT ![reqs[r].sid] = NoSession]
      /\ crossed' = (crossed \/ SsoUnderWay) /\ UNCHANGED <<nextId, backup>>
  BY DEF ResetDone
<1>2. Accounts' = {}
  BY <1>1 DEF Accounts
<1>3. TableInv'
  <2>1. \A i \in Ids : CodesOf(i) \subseteq Codes
    BY DEF CodesOf, IInv, TableInv, Accounts, User
  <2> QED
    BY <1>1, <1>2, <2>1 DEF IInv, TableInv, RetiredCodesStayRetired
<1>4. nextId =< nextId' /\ Grows
  BY <1>1, <1>2 DEF IInv, TableInv, Grows
<1>5. SessionsInv'
  BY <1>1, <1>2, <1>3, <1>4, AgedGood, StillGood DEF SessionsInv
<1>6. BackupInv'
  BY <1>1 DEF IInv, BackupInv
<1>7. SsoUnderWay' => SsoUnderWay
  <2>1. Idle.kind = "none"
    BY DEF Idle
  <2> QED
    BY <1>1, <1>2, <1>3, <1>4, <2>1, AgedGood DEF SsoUnderWay
<1>8. AdminInv'
  BY <1>1, <1>2, <1>7 DEF IInv, AdminInv
<1> QED
  BY <1>3, <1>5, <1>6, <1>8 DEF IInv

LEMMA RestoreInv == ASSUME IInv, NEW s \in Sids, NEW r \in Reqs, Restore(s, r) PROVE IInv'
<1> DEFINE rows == backup.rows
           ids == RestoredIds(rows)
           req == [Under("restore", s) EXCEPT !.sess = Aged(@)]
<1>1. /\ SignedIn(s) /\ backup # NoBackup /\ ids \subseteq Ids
      /\ users' \in [Ids -> rows \cup {NoUser}]
      /\ {i \in Ids : users'[i] # NoUser} = ids
      /\ {users'[i] : i \in ids} = rows
      /\ \A i, j \in ids : users'[i] = users'[j] => i = j
      /\ nextId' = nextId + Cardinality(rows) /\ ssoOn' = backup.sso
      /\ reqs' = [AgedReqs EXCEPT ![r] = req] /\ store' = AgedStore
      /\ retired' = (retired \cup UNION {CodesOf(i) : i \in Ids}) \ AllCodes(rows)
      /\ crossed' = (crossed \/ SsoUnderWay) /\ UNCHANGED backup
  BY DEF Restore, AsAdmin
<1>2. /\ backup \in Backup /\ rows \in SUBSET User /\ backup.sso \in BOOLEAN
      /\ IsFiniteSet(rows)
      /\ \A u, v \in rows : u # v => u.codes \cap v.codes = {}
  BY <1>1 DEF IInv, BackupInv, Backup
<1>3. Cardinality(rows) \in Nat /\ nextId \in Nat /\ nextId \in 1..(MaxId + 1)
  BY <1>2, FS_CardinalityType DEF IInv, TableInv
<1>4. /\ \A i \in ids : nextId =< i /\ i < nextId'
      /\ nextId =< nextId' /\ nextId' \in 1..(MaxId + 1)
  <2>1. \A i \in ids : nextId =< i /\ i < nextId'
    BY <1>1, <1>3 DEF RestoredIds
  <2>2. CASE Cardinality(rows) = 0
    BY <1>1, <1>3, <2>1, <2>2
  <2>3. CASE Cardinality(rows) # 0
    <3>1. nextId + Cardinality(rows) - 1 \in ids
      BY <1>3, <2>3 DEF RestoredIds
    <3>2. nextId + Cardinality(rows) - 1 \in 1..MaxId
      BY <1>1, <3>1 DEF Ids
    <3> QED
      BY <1>1, <1>3, <2>1, <3>2
  <2> QED
    BY <2>2, <2>3
<1>5. Accounts' = ids
  BY <1>1 DEF Accounts
<1>6. \A i \in ids : users'[i] \in rows /\ users'[i] \in User
  BY <1>1, <1>2
<1> HIDE DEF rows, ids, req
<1>7. TableInv'
  <2>1. users' \in [Ids -> User \cup {NoUser}]
    BY <1>1, <1>2
  <2>2. \A i \in Ids : CodesOf(i) \subseteq Codes
    BY DEF CodesOf, IInv, TableInv, Accounts, User
  <2>3. retired' \in SUBSET Codes
    BY <1>1, <2>2 DEF IInv, TableInv
  <2>4. RetiredCodesStayRetired'
    BY <1>1, <1>5, <1>6 DEF RetiredCodesStayRetired, AllCodes
  <2>5. \A i, j \in Accounts' : i # j => users'[i].codes \cap users'[j].codes = {}
    BY <1>1, <1>2, <1>5, <1>6
  <2> QED
    BY <1>4, <1>5, <2>1, <2>3, <2>4, <2>5 DEF TableInv
<1>8. /\ \A x \in Good : Aged(x) \in Good'
      /\ AgedStore \in [Sids -> Good' \cup {NoSession}]
      /\ AgedReqs \in [Reqs -> GoodRequest']
      /\ \A q \in Reqs : AgedReqs[q].kind = reqs[q].kind
  BY <1>4, <1>5, <1>7, AgedGood
<1>9. req \in GoodRequest' /\ req.kind = "restore"
  <2> DEFINE u == Under("restore", s)
  <2>1. u \in GoodRequest /\ u.kind = "restore"
    BY <1>1, StoredGood, CallerGood DEF SignedIn, IInv, Kinds
  <2>2. u \in Request /\ u.sess \in Good /\ u.token = Digits
    BY <2>1 DEF GoodRequest
  <2>3. Aged(u.sess) \in Good' /\ Aged(u.sess) \in Session
    BY <1>8, <2>2 DEF Good
  <2>4. req = [u EXCEPT !.sess = Aged(u.sess)]
    BY DEF req
  <2> HIDE DEF u
  <2>5. /\ req \in Request /\ req.sess = Aged(u.sess) /\ req.token = Digits
        /\ req.kind = "restore"
    BY <2>1, <2>2, <2>3, <2>4 DEF Request
  <2> QED
    BY <2>3, <2>5 DEF GoodRequest
<1>10. SessionsInv'
  BY <1>1, <1>8, <1>9 DEF SessionsInv
<1>11. BackupInv'
  BY <1>1 DEF IInv, BackupInv
<1>12. SsoUnderWay' => SsoUnderWay
  BY <1>1, <1>8, <1>9 DEF SsoUnderWay
<1>13. (\E u \in rows : u.admin) => HasAdmin'
  BY <1>1, <1>5 DEF HasAdmin
<1>14. rows = {} => Accounts' = {}
  BY <1>1, <1>5, <1>6
<1>15. AdminInv'
  BY <1>1, <1>2, <1>12, <1>13, <1>14 DEF IInv, AdminInv, rows
<1> QED
  BY <1>7, <1>10, <1>11, <1>15 DEF IInv

-----------------------------------------------------------------------------
LEMMA SignInInv == ASSUME IInv, SignIn PROVE IInv'
<1> PICK s \in Callers :
      \/ \E n \in Names : Setup(s, n)
      \/ \E i \in Ids : Login(s, i)
      \/ VerifyGone(s)
      \/ \E token \in Tokens, r \in Reqs : TotpVerify(s, token, r)
      \/ \E r \in Reqs : SsoLogin(s, r) \/ SsoCallback(s, r)
      \/ Logout(s)
  BY DEF SignIn
<1>1. CASE \E n \in Names : Setup(s, n)
  BY <1>1, SetupInv
<1>2. CASE \E i \in Ids : Login(s, i)
  BY <1>2, LoginInv
<1>3. CASE VerifyGone(s)
  <2>1. /\ UNCHANGED <<table, reqs, rest>> /\ Save(s, [store[s] EXCEPT !.pend = 0])
        /\ s \in Sids /\ store[s] # NoSession
    BY <1>3 DEF VerifyGone, Callers
  <2>2. [store[s] EXCEPT !.pend = 0] \in Good
    BY <2>1, StoredGood, ChangedGood DEF IInv
  <2> QED
    BY <2>1, <2>2, SaveInv
<1>4. CASE \E token \in Tokens, r \in Reqs : TotpVerify(s, token, r)
  BY <1>4, TotpVerifyInv
<1>5. ASSUME NEW r \in Reqs, SsoLogin(s, r) PROVE IInv'
  <2>1. Under("ssoLogin", s) \in GoodRequest /\ Under("ssoLogin", s).kind = "ssoLogin"
    BY CallerGood DEF IInv, Kinds
  <2> QED
    BY <1>5, <2>1, StartInv DEF SsoLogin
<1>6. ASSUME NEW r \in Reqs, SsoCallback(s, r) PROVE IInv'
  <2>1. Under("ssoCallback", s) \in GoodRequest
    BY CallerGood DEF IInv, Kinds
  <2> QED
    BY <1>6, <2>1, StartInv DEF SsoCallback
<1>7. CASE Logout(s)
  BY <1>7, SaveInv DEF Logout
<1> QED
  BY <1>1, <1>2, <1>3, <1>4, <1>5, <1>6, <1>7

LEMMA OwnAccountInv == ASSUME IInv, OwnAccount PROVE IInv'
<1> PICK s \in Sids :
      \/ TotpSetup(s) \/ TotpDisable(s) \/ TotpBackupCodes(s)
      \/ \E r \in Reqs : TotpConfirm(s, r)
  BY DEF OwnAccount
<1>1. SignedIn(s)
  BY DEF TotpSetup, TotpDisable, TotpBackupCodes, TotpConfirm
<1>2. /\ store[s] \in Good /\ s \in Callers /\ SessionOf(s) = store[s]
      /\ store[s].uid \in Nat
  BY <1>1, StoredGood DEF SignedIn, IInv, Accounts, Ids
<1>3. CASE TotpSetup(s)
  <2>1. [store[s] EXCEPT !.setup = TRUE] \in Good
    BY <1>2, ChangedGood DEF IInv
  <2> QED
    BY <1>3, <2>1, SaveInv DEF TotpSetup
<1>4. CASE TotpDisable(s)
  <2> DEFINE i == store[s].uid
  <2>1. SetTotp(i, FALSE, {}) /\ UNCHANGED <<store, reqs, rest>>
    BY <1>4 DEF TotpDisable
  <2>2. i \in Nat /\ FALSE \in BOOLEAN /\ {} \in SUBSET Codes
    BY <1>2
  <2> HIDE DEF i
  <2> QED
    BY <2>1, <2>2, SetTotpInv
<1>5. CASE TotpBackupCodes(s)
  <2>1. PICK K \in CodeSets : NewCodes(K) /\ SetTotp(store[s].uid, TRUE, K)
    BY <1>5 DEF TotpBackupCodes
  <2>2. K \in SUBSET Codes /\ UNCHANGED <<store, reqs, rest>>
    BY <1>5 DEF Codes, TotpBackupCodes
  <2> QED
    BY <1>2, <2>1, <2>2, SetTotpInv
<1>6. ASSUME NEW r \in Reqs, TotpConfirm(s, r) PROVE IInv'
  <2>1. Under("confirm", s) \in GoodRequest /\ Under("confirm", s).kind = "confirm"
    BY <1>2, CallerGood DEF IInv, Kinds
  <2> QED
    BY <1>6, <2>1, StartInv DEF TotpConfirm
<1> QED
  BY <1>3, <1>4, <1>5, <1>6

LEMMA AdministrationInv == ASSUME IInv, Administration PROVE IInv'
<1> PICK s \in Sids :
      \/ \E n \in Names, admin \in BOOLEAN : CreateUser(s, n, admin)
      \/ \E i \in Ids : \/ RemoveUser(s, i) \/ DisableTotp(s, i)
                        \/ \E admin \in BOOLEAN : UpdateRole(s, i, admin)
      \/ \E on \in BOOLEAN : SetSso(s, on)
      \/ \E r \in Reqs : Restore(s, r) \/ Reset(s, r)
  BY DEF Administration
<1>1. ASSUME NEW i \in Ids, DisableTotp(s, i) PROVE IInv'
  <2>1. i \in Nat
    BY DEF Ids
  <2> QED
    BY <1>1, <2>1, SetTotpInv DEF DisableTotp
<1>2. ASSUME NEW r \in Reqs, Reset(s, r) PROVE IInv'
  <2>1. s \in Callers
    BY <1>2 DEF Reset, AsAdmin, SignedIn, Callers
  <2>2. Under("reset", s) \in GoodRequest /\ Under("reset", s).kind = "reset"
    BY <2>1, CallerGood DEF IInv, Kinds
  <2> QED
    BY <1>2, <2>2, StartInv DEF Reset
<1> QED
  BY <1>1, <1>2, CreateUserInv, RemoveUserInv, UpdateRoleInv, SetSsoInv, RestoreInv

LEMMA ResumedInv == ASSUME IInv, Resumed PROVE IInv'
<1> PICK r \in Reqs :
      \/ TotpVerifyDone(r) \/ TotpConfirmDone(r) \/ SsoLoginDone(r)
      \/ \E n \in Names : SsoCallbackDone(r, n)
      \/ RestoreDone(r) \/ ResetFailed(r) \/ ResetDone(r)
  BY DEF Resumed
<1>1. ASSUME NEW kind, Finish(r, kind), UNCHANGED <<table, rest>>,
             Destroy(reqs[r].sid) \/ UNCHANGED store
      PROVE  IInv'
  <2>1. TableInv' /\ Grows /\ Keeps
    BY <1>1, SameTable DEF table, rest
  <2>2. store' \in [Sids -> Good' \cup {NoSession}]
    BY <1>1, <2>1, StillGood, DestroyIn
  <2> QED
    BY <1>1, <2>1, <2>2, FinishStep
<1>2. CASE RestoreDone(r)
  BY <1>1, <1>2 DEF RestoreDone
<1>3. CASE ResetFailed(r)
  BY <1>1, <1>3 DEF ResetFailed
<1> QED
  BY <1>2, <1>3, TotpVerifyDoneInv, TotpConfirmDoneInv, SsoLoginDoneInv,
     SsoCallbackDoneInv, ResetDoneInv

LEMMA StutterInv == ASSUME IInv, UNCHANGED vars PROVE IInv'
BY SaveInv DEF vars, table, rest

LEMMA InitInv == Init => IInv
<1> SUFFICES ASSUME Init PROVE IInv
  OBVIOUS
<1>1. Accounts = {} /\ Idle.kind = "none"
  BY DEF Init, Accounts, Idle
<1>2. TableInv
  BY <1>1 DEF Init, TableInv, RetiredCodesStayRetired
<1>3. SessionsInv
  BY <1>2, BlankGood DEF Init, SessionsInv
<1> QED
  BY <1>1, <1>2, <1>3 DEF Init, IInv, BackupInv, AdminInv, SsoUnderWay

(* The inductive invariant holds in every state of every instance.         *)
THEOREM AccountsInv == Spec => []IInv
<1>1. Init => IInv
  BY InitInv
<1>2. IInv /\ [Next]_vars => IInv'
  BY SignInInv, OwnAccountInv, AdministrationInv, ResumedInv, ExportInv, StutterInv DEF Next
<1> QED
  BY <1>1, <1>2, PTL DEF Spec

(* Every variable keeps its type, and no account has an id that was not    *)
(* handed out yet (auth.ts 61-165, db.ts 18-24).                           *)
THEOREM AccountsTypeOK == Spec => []TypeOK
<1>1. IInv => TypeOK
  <2> SUFFICES ASSUME IInv PROVE TypeOK
    OBVIOUS
  <2>1. Good \subseteq Session /\ GoodRequest \subseteq Request
    BY DEF Good, GoodRequest
  <2> QED
    BY <2>1 DEF IInv, TableInv, SessionsInv, BackupInv, AdminInv, TypeOK
<1> QED
  BY <1>1, AccountsInv, PTL

(* Backup codes are single use, whatever overlaps (totp.ts 21-26, 50-57).  *)
THEOREM CodesAreSingleUse == Spec => []RetiredCodesStayRetired
<1>1. IInv => RetiredCodesStayRetired
  BY DEF IInv, TableInv
<1> QED
  BY <1>1, AccountsInv, PTL

(* Nobody is signed in by a session from before a restore or a reset       *)
(* (backup.ts 49-73, settings.controller.ts 71-98).                        *)
THEOREM RestoreSignsOut == Spec => []ReplacedSessionsSignedOut
<1>1. IInv => ReplacedSessionsSignedOut
  BY DEF IInv, SessionsInv, Good, ReplacedSessionsSignedOut, SignedIn
<1> QED
  BY <1>1, AccountsInv, PTL

(* There is an administrator, or nobody at all, as long as no SSO callback *)
(* met a restore or a reset (users.controller.ts 98-113, 160-168).         *)
THEOREM AnAdministratorRemains == Spec => []AdminUnlessCrossed
<1>1. IInv => AdminUnlessCrossed
  BY DEF IInv, AdminInv, AdminUnlessCrossed
<1> QED
  BY <1>1, AccountsInv, PTL
=============================================================================
