---------------------------- MODULE HostManager ----------------------------
(***************************************************************************)
(* The cache of SSH clients (hostManager.ts), one entry per remote host,   *)
(* and the three operations on a host's row that invalidate it             *)
(* (controllers/hosts.controller.ts, hosts.ts).                            *)
(*                                                                         *)
(* The server is one event loop: a handler is atomic up to its next await. *)
(* getClient has one await that leaves the loop, `await connectSsh(conn)`: *)
(* GetClient is the part before it, ConnReady and ConnFailed are the part  *)
(* after it.  A connection is the waiting call: each miss opens its own.   *)
(*                                                                         *)
(* The cache and its listeners go by the string that getClient was asked   *)
(* with, the row by the number the string reads as.  The web application   *)
(* and the broadcaster spell an id as String(id), but a URL may spell it   *)
(* '01' or '1e0' as well: the same row, another entry of the cache.  The   *)
(* controller invalidates String(id) only.                                 *)
(*                                                                         *)
(* A host's credentials are the number of times its row was written        *)
(* (version).  A connection remembers the version it was opened with.      *)
(***************************************************************************)
EXTENDS Naturals, FiniteSets

CONSTANTS
  Spellings,    \* the strings a client is asked for by that read as an id
  Hosts,        \* those that are String(id): they stand for the ids of the
                \* remote hosts; a row id is never used twice
  IdOf,         \* IdOf[k]: the id that Number(k) is
  Conns,        \* BOUND: the connections that may be alive at a time
  NoConn,       \* no connection
  KeyOf,        \* KeyOf[c]: the string that getClient opens c for
  MaxVersion    \* BOUND: writes to one host's row

ASSUME SpellingsAssumption ==
  /\ Hosts \subseteq Spellings
  /\ IdOf \in [Spellings -> Hosts] /\ \A h \in Hosts : IdOf[h] = h
  /\ KeyOf \in [Conns -> Spellings]
ASSUME NoConnAssumption == NoConn \notin Conns
ASSUME MaxVersionAssumption == MaxVersion \in Nat \ {0}

(***************************************************************************)
(* A connection is free (not in use), connecting until 'ready', then open, *)
(* and ended once end() was called or 'error' was emitted: its 'close'     *)
(* event is still to come.                                                 *)
(***************************************************************************)
VARIABLES
  registered,   \* the ids that have a row in the hosts table
  version,      \* version[h]: writes to h's row so far, 0 if it never had one
  clients,      \* clients[k]: the connection cached under k, or NoConn
  state,        \* state[c]
  cred,         \* cred[c]: the version of the row c was opened with, 0 if free
  crossed,      \* history: an invalidate() came while c was connecting
  solo          \* history: no other connection of its key lived beside c

cacheVars == <<clients, state, cred, crossed, solo>>
hostVars == <<registered, version, cacheVars>>

HostTypeOK ==
  /\ registered \in SUBSET Hosts
  /\ version \in [Hosts -> 0..MaxVersion]
  /\ clients \in [Spellings -> Conns \cup {NoConn}]
  /\ state \in [Conns -> {"free", "connecting", "open", "ended"}]
  /\ cred \in [Conns -> 0..MaxVersion]
  /\ \A c \in Conns : cred[c] = 0 <=> state[c] = "free"
  /\ crossed \in SUBSET Conns
  /\ solo \in SUBSET Conns

\* The host that c is a connection to.
HostOf(c) == IdOf[KeyOf[c]]

Live(k) == {c \in Conns : KeyOf[c] = k /\ state[c] # "free"}
IsFreeOf(k, c) == KeyOf[c] = k /\ state[c] = "free"
HasFree(k) == \E c \in Conns : IsFreeOf(k, c)
Fresh(k) == CHOOSE c \in Conns : IsFreeOf(k, c)

-----------------------------------------------------------------------------
(* The server starts with the rows the last run left and an empty cache.   *)
CacheInit ==
  /\ registered \in SUBSET Hosts
  /\ version = [h \in Hosts |-> IF h \in registered THEN 1 ELSE 0]
  /\ clients = [k \in Spellings |-> NoConn]
  /\ crossed = {}

HostInit ==
  /\ CacheInit
  /\ state = [c \in Conns |-> "free"]
  /\ cred = [c \in Conns |-> 0]
  /\ solo = {}

(* connectSsh is called for each key of F with the row its host has then:  *)
(* version' and registered' are the rows as the running handler left them. *)
Opened(F) == {c \in Conns : KeyOf[c] \in F /\ c = Fresh(KeyOf[c])}

ConnectSsh(F) ==
  /\ \A k \in F : HasFree(k)
  /\ state' = [c \in Conns |-> IF c \in Opened(F) THEN "connecting" ELSE state[c]]
  /\ cred' = [c \in Conns |-> IF c \in Opened(F) THEN version'[HostOf(c)] ELSE cred[c]]
  /\ solo' = {c \in solo : KeyOf[c] \notin F}
               \cup {c \in Opened(F) : Live(KeyOf[c]) = {}}
  /\ UNCHANGED <<clients, crossed>>

(* 'close', or an error before 'ready': c can be used again.               *)
Free(c) ==
  /\ state' = [state EXCEPT ![c] = "free"]
  /\ cred' = [cred EXCEPT ![c] = 0]
  /\ crossed' = crossed \ {c}
  /\ solo' = solo \ {c}

(* getClient on a miss, up to the await.  A hit returns the cached client, *)
(* an id without a row null; neither changes the state.                    *)
MissesNoRowCheck(k) == clients[k] = NoConn      \* mutant: `if (!conn)` dropped
Misses(k) == clients[k] = NoConn /\ IdOf[k] \in registered'

GetClient(k) ==
  /\ UNCHANGED <<registered, version>>
  /\ Misses(k)
  /\ ConnectSsh({k})

(* 'ready': getClient goes on, sets the two listeners, overwrites whatever *)
(* the cache holds by now and returns the client.                          *)
ConnReady(c) ==
  /\ state[c] = "connecting"
  /\ state' = [state EXCEPT ![c] = "open"]
  /\ clients' = [clients EXCEPT ![KeyOf[c]] = c]
  /\ UNCHANGED <<registered, version, cred, crossed, solo>>

(* 'error' before 'ready', the 15 s readyTimeout included: getClient       *)
(* rejects and nothing was cached.                                         *)
ConnFailed(c) ==
  /\ state[c] = "connecting"
  /\ Free(c)
  /\ UNCHANGED <<registered, version, clients>>

(* The 'error' listener deletes the entry of its key, whichever            *)
(* connection it holds.  'close' follows.                                  *)
ConnError(c) ==
  /\ state[c] \in {"open", "ended"}
  /\ state' = [state EXCEPT ![c] = "ended"]
  /\ clients' = [clients EXCEPT ![KeyOf[c]] = NoConn]
  /\ UNCHANGED <<registered, version, cred, crossed, solo>>

(* The 'close' listener does the same; the connection is gone.             *)
ConnCloseNoListener(c) ==            \* mutant: no 'close' listener
  /\ state[c] \in {"open", "ended"}
  /\ Free(c)
  /\ UNCHANGED <<registered, version, clients>>

ConnClose(c) ==
  /\ state[c] \in {"open", "ended"}
  /\ Free(c)
  /\ clients' = [clients EXCEPT ![KeyOf[c]] = NoConn]
  /\ UNCHANGED <<registered, version>>

-----------------------------------------------------------------------------
(* invalidate(String(id)): ends the connection cached under that key and   *)
(* forgets it.  It knows nothing of what is cached for the host under      *)
(* another key, nor of connections still connecting (which are marked).    *)
Connecting(h) == {c \in Conns : HostOf(c) = h /\ state[c] = "connecting"}

InvalidateNoEnd(h) ==                \* mutant: sshConn.end() forgotten
  /\ clients' = [clients EXCEPT ![h] = NoConn]
  /\ crossed' = crossed \cup Connecting(h)
  /\ UNCHANGED <<state, cred, solo>>

InvalidateNothing(h) ==              \* mutant: hostManager.invalidate not called
  UNCHANGED cacheVars

Invalidate(h) ==
  /\ state' = [c \in Conns |-> IF c = clients[h] THEN "ended" ELSE state[c]]
  /\ clients' = [clients EXCEPT ![h] = NoConn]
  /\ crossed' = crossed \cup Connecting(h)
  /\ UNCHANGED <<cred, solo>>

(* The hosts controller's handlers, each without an await.                 *)
CreateHost(h) ==
  /\ version[h] = 0
  /\ registered' = registered \cup {h}
  /\ version' = [version EXCEPT ![h] = 1]
  /\ UNCHANGED cacheVars

UpdateHost(h) ==
  /\ h \in registered
  /\ version[h] < MaxVersion
  /\ version' = [version EXCEPT ![h] = @ + 1]
  /\ Invalidate(h)
  /\ UNCHANGED registered

RemoveHost(h) ==
  /\ h \in registered
  /\ registered' = registered \ {h}
  /\ Invalidate(h)
  /\ UNCHANGED version

HostNext ==
  \/ \E h \in Hosts : CreateHost(h) \/ UpdateHost(h) \/ RemoveHost(h)
  \/ \E k \in Spellings : GetClient(k)
  \/ \E c \in Conns : \/ ConnReady(c) \/ ConnFailed(c)
                      \/ ConnError(c) \/ ConnClose(c)

HostSpec == HostInit /\ [][HostNext]_hostVars

-----------------------------------------------------------------------------
(* What getClient hands out from the cache is a client that was opened for *)
(* the string it is asked with, with an open connection: an ended or       *)
(* closed one has left the cache (hostManager.ts 72-73, 80-86).            *)
CachedIsOpen ==
  \A k \in Spellings : clients[k] # NoConn =>
    KeyOf[clients[k]] = k /\ state[clients[k]] = "open"

(* A client cached under String(id) was opened with the row the host has   *)
(* now - the host is not removed and its credentials were not changed      *)
(* since - unless an invalidate() fell into its connect (hostManager.ts    *)
(* 68-76, 80-86).  One cached under another spelling of the id is out of   *)
(* invalidate()'s reach (hosts.controller.ts 70, 98): it may be of an      *)
(* older row or of a removed host until its connection closes.             *)
StaleOnlyIfCrossed ==
  \A h \in Hosts : clients[h] # NoConn /\ clients[h] \notin crossed =>
    h \in registered /\ cred[clients[h]] = version[h]

(* A connection that never had another one of its key beside it stays in   *)
(* the entry of that key as long as it is open: the next call with the     *)
(* same string reuses it, and if the string is String(id), invalidate()    *)
(* can end it (hostManager.ts 60-86).                                      *)
SoloIsCached ==
  \A c \in solo : state[c] = "open" => clients[KeyOf[c]] = c

(* What test/hostManager.test.ts says of invalidate(): it forces a fresh   *)
(* connect, so nothing opened with an older row is ever in the cache.      *)
FreshAfterInvalidate ==
  \A h \in Hosts : clients[h] # NoConn => cred[clients[h]] = version[h]
=============================================================================
