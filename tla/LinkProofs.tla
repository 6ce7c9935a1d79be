----------------------------- MODULE LinkProofs -----------------------------
(* Proofs about what the servers' connections are made of: the cache of SSH  *)
(* clients, HostManager, for any hosts, connections and bounds; the steps of *)
(* a web socket, Sockets; and induction over numbers up to a bound.          *)
EXTENDS HostManager, Sockets, Integers, WellFoundedInduction, TLAPS

(***************************************************************************)
(* Numbers, and functions that are defined step by step.                   *)
(***************************************************************************)

(* Every set of natural numbers that is not empty has a least element.       *)
LEMMA LeastNat ==
  ASSUME NEW T, T \subseteq Nat, T # {}
  PROVE  \E x \in T : \A y \in T : x <= y
<1> DEFINE R == OpToRel(<, Nat)
<1>1. IsWellFoundedOn(R, Nat)
  BY NatLessThanWellFounded
<1>2. \A u, v \in Nat : u < v => <<u, v>> \in R
  BY DEF OpToRel
<1> HIDE DEF R
<1>3. PICK x \in T : \A y \in T : ~(<<y, x>> \in R)
  BY <1>1, WFMin
<1>4. \A y \in T : ~(y < x)
  BY <1>2, <1>3, Zenon
<1>5. ASSUME NEW y \in T PROVE x <= y
  <2>1. x \in Nat /\ y \in Nat
    OBVIOUS
  <2>2. ~(y < x)
    BY <1>4
  <2> HIDE DEF R
  <2> QED BY <2>1, <2>2
<1> QED BY <1>5

(* Induction up to a bound: a set that holds 0, and with each number the     *)
(* next, holds them all.                                                     *)
LEMMA UpTo ==
  ASSUME NEW N \in Nat, NEW S, 0 \in S, \A k \in 0 .. N - 1 : k \in S => k + 1 \in S
  PROVE  \A k \in 0 .. N : k \in S
<1> DEFINE T == {k \in 0 .. N : k \notin S}
<1>1. SUFFICES ASSUME T # {} PROVE FALSE
  OBVIOUS
<1>2. T \subseteq Nat
  OBVIOUS
<1> HIDE DEF T
<1>3. PICK x \in T : \A y \in T : x <= y
  BY <1>1, <1>2, LeastNat
<1>4. x \in 1 .. N /\ x \notin S /\ x - 1 \notin T
  BY <1>3 DEF T
<1>5. x - 1 \in 0 .. N - 1 /\ x - 1 \in S /\ (x - 1) + 1 = x
  BY <1>4 DEF T
<1> QED BY <1>4, <1>5

LEMMA Greatest ==
  ASSUME NEW N \in Nat, NEW T, T \subseteq 0 .. N, T # {}
  PROVE  \E x \in T : \A y \in T : y <= x
<1> DEFINE U == {n \in 0 .. N : N - n \in T}
<1>1. U \subseteq Nat
  OBVIOUS
<1>2. U # {}
  <2>1. PICK y \in T : TRUE
    OBVIOUS
  <2>2. N - y \in 0 .. N /\ N - (N - y) = y
    OBVIOUS
  <2>3. N - y \in U
    BY <2>1, <2>2
  <2> QED BY <2>3
<1> HIDE DEF U
<1>3. PICK n \in U : \A m \in U : n <= m
  BY <1>1, <1>2, LeastNat
<1>4. n \in 0 .. N /\ N - n \in T
  BY <1>3 DEF U
<1>5. ASSUME NEW y \in T PROVE y <= N - n
  <2>1. y \in 0 .. N /\ N - y \in 0 .. N /\ N - (N - y) = y
    OBVIOUS
  <2>2. N - y \in U
    BY <2>1 DEF U
  <2>3. n <= N - y
    BY <2>2, <1>3
  <2> QED BY <2>1, <2>3, <1>4
<1> QED BY <1>4, <1>5

(* A function can be defined up to N step by step.                           *)
Steps(X, N, a, step) == N \in Nat /\ a \in X /\ \A i \in 1 .. N : \A x \in X : step[i][x] \in X
Walk(X, N, a, step) ==
  \E f \in [0 .. N -> X] : f[0] = a /\ \A i \in 1 .. N : f[i] = step[i][f[i - 1]]

LEMMA StepByStep ==
  ASSUME NEW X, NEW N, NEW a, NEW step, Steps(X, N, a, step)
  PROVE  Walk(X, N, a, step)
<1> USE DEF Steps
<1> DEFINE Good(n, f) == f[0] = a /\ \A i \in 1 .. n : f[i] = step[i][f[i - 1]]
           S == {n \in 0 .. N : \E f \in [0 .. n -> X] : Good(n, f)}
<1>1. 0 \in S
  <2> DEFINE f == [i \in 0 .. 0 |-> a]
  <2>1. f \in [0 .. 0 -> X] /\ Good(0, f) /\ 0 \in 0 .. N
    OBVIOUS
  <2> QED BY <2>1
<1>2. ASSUME NEW n \in 0 .. N - 1, n \in S PROVE n + 1 \in S
  <2>1. PICK f \in [0 .. n -> X] : Good(n, f)
    BY <1>2
  <2> DEFINE g == [i \in 0 .. n + 1 |-> IF i = n + 1 THEN step[n + 1][f[n]] ELSE f[i]]
  <2>2. n + 1 \in 1 .. N /\ f[n] \in X /\ step[n + 1][f[n]] \in X
    OBVIOUS
  <2>3. g \in [0 .. n + 1 -> X]
    BY <2>2
  <2>4. g[0] = a
    BY <2>1
  <2>5. ASSUME NEW i \in 1 .. n + 1 PROVE g[i] = step[i][g[i - 1]]
    <3>1. g[i - 1] = f[i - 1]
      OBVIOUS
    <3>2. CASE i = n + 1
      BY <3>1, <3>2
    <3>3. CASE i # n + 1
      <4>1. i \in 1 .. n /\ g[i] = f[i]
        BY <3>3
      <4>2. f[i] = step[i][f[i - 1]]
        BY <4>1, <2>1
      <4> QED BY <4>1, <4>2, <3>1
    <3> QED BY <3>2, <3>3
  <2>6. Good(n + 1, g)
    BY <2>4, <2>5
  <2>7. n + 1 \in 0 .. N
    BY <2>2
  <2> HIDE DEF g, Good
  <2> QED BY <2>7, <2>3, <2>6
<1>3. \A n \in 0 .. N - 1 : n \in S => n + 1 \in S
  BY <1>2
<1> HIDE DEF S
<1>4. \A n \in 0 .. N : n \in S
  BY <1>1, <1>3, UpTo
<1>5. N \in S
  BY <1>4
<1> QED BY <1>5 DEF S, Walk

(***************************************************************************)
(* Sockets.                                                                *)
(***************************************************************************)

(* The four variables are functions of the sockets.                          *)
PerSocket ==
  /\ browser \in [Socks -> {"new", "connecting", "open", "closing", "failing", "closed"}]
  /\ server \in [Socks -> {"idle", "upgrading", "open", "closing", "closed"}]
  /\ upstream = [c \in Socks |-> upstream[c]] /\ downstream = [c \in Socks |-> downstream[c]]

(* Nothing happens to the socket c.                                          *)
Still(c) ==
  /\ browser'[c] = browser[c] /\ server'[c] = server[c]
  /\ upstream'[c] = upstream[c] /\ downstream'[c] = downstream[c]

(* What sending does to each queue.                                          *)
LEMMA ToServerAt ==
  ASSUME NEW S, NEW m
  PROVE  /\ ToServer(S, m) = [c \in Socks |-> ToServer(S, m)[c]]
         /\ \A c \in Socks :
              ToServer(S, m)[c] = IF c \in S /\ server[c] # "closed" /\ upstream[c] # <<Lost>>
                                  THEN Append(upstream[c], m) ELSE upstream[c]
BY DEF ToServer, Sent, Lossless

LEMMA ToServerOne ==
  ASSUME NEW c \in Socks, NEW m
  PROVE  /\ ToServer({c}, m) = [d \in Socks |-> ToServer({c}, m)[d]]
         /\ \A d \in Socks : d # c => ToServer({c}, m)[d] = upstream[d]
         /\ ToServer({c}, m)[c] \in {upstream[c], Append(upstream[c], m)}
BY DEF ToServer, Sent, Lossless

LEMMA ToBrowserAt ==
  ASSUME NEW c \in Socks, NEW m
  PROVE  /\ ToBrowser(c, m) = [d \in Socks |-> ToBrowser(c, m)[d]]
         /\ \A d \in Socks : d # c => ToBrowser(c, m)[d] = downstream[d]
         /\ ToBrowser(c, m)[c] \in {downstream[c], Append(downstream[c], m)}
         /\ downstream[c] = <<Lost>> => ToBrowser(c, m)[c] = downstream[c]
         /\ browser[c] \in {"failing", "closed"} => ToBrowser(c, m)[c] = downstream[c]
         /\ Connected(c) /\ downstream[c] # <<Lost>> => ToBrowser(c, m)[c] = Append(downstream[c], m)
BY DEF ToBrowser, Sent, Lossless, Connected

LEMMA UpAfterCloseAt ==
  ASSUME PerSocket, NEW c \in Socks
  PROVE  /\ UpAfterClose(c) = [d \in Socks |-> UpAfterClose(c)[d]]
         /\ \A d \in Socks : d # c => UpAfterClose(c)[d] = upstream[d]
         /\ UpAfterClose(c)[c] \in {upstream[c], Append(upstream[c], Bye)}
         /\ browser[c] # "open" => UpAfterClose(c)[c] = upstream[c]
<1>1. CASE browser[c] = "open"
  <2>1. UpAfterClose(c) = ToServer({c}, Bye)
    BY <1>1 DEF UpAfterClose
  <2>2. /\ ToServer({c}, Bye) = [d \in Socks |-> ToServer({c}, Bye)[d]]
        /\ \A d \in Socks : d # c => ToServer({c}, Bye)[d] = upstream[d]
        /\ ToServer({c}, Bye)[c] \in {upstream[c], Append(upstream[c], Bye)}
    BY ToServerOne
  <2> QED BY <1>1, <2>1, <2>2
<1>2. CASE browser[c] # "open"
  BY <1>2 DEF UpAfterClose, PerSocket
<1> QED BY <1>1, <1>2

(* What the page's close() of c is, all together.                            *)
Closing(c) == browser' = AfterClose(c) /\ upstream' = UpAfterClose(c) /\ downstream' = DownAfterClose(c)

(***************************************************************************)
(* What each step of a socket does to it, and that it does nothing to the  *)
(* others.                                                                 *)
(***************************************************************************)
Others(c) == \A d \in Socks \ {c} : Still(d)

LEMMA CloseAt ==
  ASSUME PerSocket, NEW c \in Socks, Closing(c), server' = server
  PROVE  /\ PerSocket' /\ Others(c)
         /\ browser'[c] \notin {"connecting", "open"} /\ (browser'[c] = "new" <=> browser[c] = "new")
         /\ browser[c] = "closed" => browser'[c] = "closed"
         /\ upstream'[c] \in {upstream[c], Append(upstream[c], Bye)}
         /\ browser[c] # "open" => upstream'[c] = upstream[c]
<1>1. /\ browser' \in [Socks -> {"new", "connecting", "open", "closing", "failing", "closed"}]
      /\ browser'[c] \notin {"connecting", "open"} /\ (browser'[c] = "new" <=> browser[c] = "new")
      /\ browser[c] = "closed" => browser'[c] = "closed"
      /\ \A d \in Socks \ {c} : browser'[d] = browser[d]
  BY DEF Closing, AfterClose, PerSocket
<1>2. /\ upstream' = [d \in Socks |-> upstream'[d]] /\ \A d \in Socks \ {c} : upstream'[d] = upstream[d]
      /\ upstream'[c] \in {upstream[c], Append(upstream[c], Bye)}
      /\ browser[c] # "open" => upstream'[c] = upstream[c]
  <2> HIDE DEF UpAfterClose
  <2> QED BY UpAfterCloseAt DEF Closing
<1>3. /\ downstream' = [d \in Socks |-> downstream'[d]]
      /\ \A d \in Socks \ {c} : downstream'[d] = downstream[d]
  BY DEF Closing, DownAfterClose, PerSocket
<1> QED BY <1>1, <1>2, <1>3 DEF PerSocket, Others, Still

LEMMA UpgradeAt ==
  ASSUME PerSocket, NEW c \in Socks, Upgrade(c)
  PROVE  /\ PerSocket' /\ Others(c)
         /\ browser'[c] = browser[c] /\ upstream'[c] = upstream[c]
         /\ server[c] = "idle" /\ browser[c] \notin {"new", "closed"}
         /\ \/ server'[c] = "upgrading" /\ downstream'[c] = downstream[c]
            \/ server'[c] = "closed" /\ downstream'[c] \in {downstream[c], Append(downstream[c], Refused)}
         /\ downstream[c] = <<Lost>> => downstream'[c] = downstream[c]
<1>1. CASE server' = [server EXCEPT ![c] = "upgrading"] /\ UNCHANGED downstream
  BY <1>1 DEF Upgrade, PerSocket, Others, Still
<1>2. CASE server' = [server EXCEPT ![c] = "closed"] /\ downstream' = ToBrowser(c, Refused)
  BY <1>2, ToBrowserAt DEF Upgrade, PerSocket, Others, Still
<1> QED BY <1>1, <1>2 DEF Upgrade

LEMMA UpgradeRefusedAt ==
  ASSUME PerSocket, NEW c \in Socks, UpgradeRefused(c)
  PROVE  /\ PerSocket' /\ Others(c)
         /\ browser'[c] = browser[c] /\ upstream'[c] = upstream[c]
         /\ server[c] = "upgrading" /\ server'[c] = "closed"
         /\ downstream'[c] \in {downstream[c], Append(downstream[c], Refused)}
         /\ downstream[c] = <<Lost>> => downstream'[c] = downstream[c]
BY ToBrowserAt DEF UpgradeRefused, PerSocket, Others, Still

LEMMA UpgradedAt ==
  ASSUME PerSocket, NEW c \in Socks, Upgraded(c)
  PROVE  /\ PerSocket' /\ Others(c)
         /\ browser'[c] = browser[c] /\ upstream'[c] = upstream[c]
         /\ server[c] = "upgrading" /\ server'[c] = "open"
         /\ downstream'[c] \in {downstream[c], Append(downstream[c], Open)}
         /\ downstream[c] = <<Lost>> => downstream'[c] = downstream[c]
         /\ Connected(c) /\ downstream[c] # <<Lost>> => downstream'[c] = Append(downstream[c], Open)
BY ToBrowserAt DEF Upgraded, PerSocket, Others, Still

LEMMA BrowserOpensAt ==
  ASSUME PerSocket, NEW c \in Socks, BrowserOpens(c)
  PROVE  /\ browser' \in [Socks -> {"new", "connecting", "open", "closing", "failing", "closed"}]
         /\ server' = server /\ downstream' = [d \in Socks |-> downstream'[d]]
         /\ browser[c] = "connecting" /\ browser'[c] = "open"
         /\ downstream[c] # <<>> /\ Head(downstream[c]) = Open /\ downstream'[c] = Tail(downstream[c])
         /\ \A d \in Socks \ {c} : browser'[d] = browser[d] /\ downstream'[d] = downstream[d]
BY DEF BrowserOpens, PerSocket, Arrives, Taken

LEMMA BrowserReceivesAt ==
  ASSUME PerSocket, NEW c \in Socks, BrowserReceives(c), UNCHANGED <<browser, server, upstream>>
  PROVE  /\ PerSocket' /\ Others(c)
         /\ browser[c] = "open" /\ downstream[c] # <<>> /\ Head(downstream[c]) \notin {Bye, Lost}
         /\ browser'[c] = browser[c] /\ server'[c] = server[c] /\ upstream'[c] = upstream[c]
         /\ downstream'[c] = Tail(downstream[c])
BY DEF BrowserReceives, PerSocket, Arrives, Taken, Others, Still

LEMMA BrowserClosesAt ==
  ASSUME PerSocket, NEW c \in Socks, BrowserCloses(c)
  PROVE  /\ PerSocket' /\ Others(c)
         /\ browser[c] \in {"connecting", "open", "closing", "failing"} /\ browser'[c] = "closed"
         /\ server'[c] = server[c] /\ downstream'[c] = <<>>
         /\ upstream'[c] \in {upstream[c], Append(upstream[c], Bye), Append(upstream[c], Lost)}
<1>1. /\ browser[c] \in {"connecting", "open", "closing", "failing"}
      /\ browser' = [browser EXCEPT ![c] = "closed"] /\ server' = server
      /\ downstream' = [downstream EXCEPT ![c] = <<>>]
  BY DEF BrowserCloses, Unopened
<1>2. \E m \in {Bye, Lost} : upstream' = ToServer({c}, m) \/ upstream' = upstream
  <2>1. CASE browser[c] = "failing"
    BY <2>1 DEF BrowserCloses
  <2>2. CASE browser[c] = "open" /\ Head(downstream[c]) = Bye
    BY <2>2 DEF BrowserCloses
  <2>3. CASE browser[c] # "failing" /\ ~(browser[c] = "open" /\ Head(downstream[c]) = Bye)
    <3>1. upstream' = upstream
      BY <2>3 DEF BrowserCloses
    <3> QED BY <3>1
  <2> QED BY <2>1, <2>2, <2>3
<1>3. /\ upstream' = [d \in Socks |-> upstream'[d]]
      /\ \A d \in Socks \ {c} : upstream'[d] = upstream[d]
      /\ upstream'[c] \in {upstream[c], Append(upstream[c], Bye), Append(upstream[c], Lost)}
  <2>1. CASE upstream' = upstream
    BY <2>1 DEF PerSocket
  <2>2. ASSUME NEW m \in {Bye, Lost}, upstream' = ToServer({c}, m)
        PROVE  /\ upstream' = [d \in Socks |-> upstream'[d]]
               /\ \A d \in Socks \ {c} : upstream'[d] = upstream[d]
               /\ upstream'[c] \in {upstream[c], Append(upstream[c], m)}
    BY <2>2, ToServerOne, ZenonT(60)
  <2> QED BY <1>2, <2>1, <2>2
<1> QED BY <1>1, <1>3 DEF PerSocket, Others, Still

LEMMA ServerReceivesAt ==
  ASSUME PerSocket, NEW c \in Socks, ServerReceives(c), UNCHANGED <<browser, server, downstream>>
  PROVE  /\ PerSocket' /\ Others(c)
         /\ server[c] \in {"open", "closing"} /\ upstream[c] # <<>> /\ Head(upstream[c]) \notin {Bye, Lost}
         /\ browser'[c] = browser[c] /\ server'[c] = server[c] /\ downstream'[c] = downstream[c]
         /\ upstream'[c] = Tail(upstream[c])
BY DEF ServerReceives, PerSocket, Arrives, Taken, Others, Still

LEMMA ServerClosedAt ==
  ASSUME PerSocket, NEW c \in Socks, ServerClosed(c)
  PROVE  /\ PerSocket' /\ Others(c)
         /\ server[c] \in {"open", "closing"} /\ server'[c] = "closed"
         /\ browser'[c] = browser[c] /\ upstream'[c] = <<>>
         /\ downstream'[c] \in {downstream[c], Append(downstream[c], Bye)}
<1>1. CASE server[c] = "open" /\ Head(upstream[c]) = Bye
  BY <1>1, ToBrowserAt DEF ServerClosed, PerSocket, Others, Still
<1>2. CASE ~(server[c] = "open" /\ Head(upstream[c]) = Bye)
  BY <1>2 DEF ServerClosed, PerSocket, Others, Still
<1> QED BY <1>1, <1>2

LEMMA DropAt ==
  ASSUME PerSocket, NEW c \in Socks, Drop(c)
  PROVE  /\ PerSocket' /\ Others(c)
         /\ server[c] \in {"upgrading", "open", "closing"} /\ browser[c] # "closed"
         /\ browser'[c] = browser[c] /\ server'[c] = server[c] /\ upstream'[c] = <<Lost>>
         /\ downstream'[c] = IF browser[c] = "failing" THEN downstream[c] ELSE <<Lost>>
BY DEF Drop, PerSocket, Others, Still

LEMMA ServerClosesAt ==
  ASSUME PerSocket, NEW c \in Socks, ServerCloses(c), UNCHANGED <<browser, upstream>>
  PROVE  /\ PerSocket' /\ Others(c)
         /\ server'[c] = IF server[c] = "open" THEN "closing" ELSE server[c]
         /\ downstream'[c] \in {downstream[c], Append(downstream[c], Bye)}
         /\ server[c] # "open" => downstream'[c] = downstream[c]
<1>1. CASE server[c] = "open"
  BY <1>1, ToBrowserAt DEF ServerCloses, PerSocket, Others, Still
<1>2. CASE server[c] # "open"
  BY <1>2 DEF ServerCloses, PerSocket, Others, Still
<1> QED BY <1>1, <1>2

(***************************************************************************)
(* The cache of SSH clients.                                               *)
(***************************************************************************)

(* A host that is registered has had its row written.                      *)
RegisteredHasRow == \A h \in registered : version[h] # 0

(* A connect that no invalidate() has crossed uses the row the host has    *)
(* now: what carries the freshness from the call to 'ready'.               *)
ConnectIsCurrent ==
  \A c \in Conns : state[c] = "connecting" /\ c \notin crossed =>
    HostOf(c) \in registered /\ cred[c] = version[HostOf(c)]

(* A solo connection is the only one of its key.                           *)
SoloIsAlone ==
  \A c \in solo, d \in Conns : KeyOf[d] = KeyOf[c] /\ state[d] # "free" => d = c

(* The inductive invariant of the cache.                                   *)
HostInv ==
  /\ HostTypeOK
  /\ RegisteredHasRow
  /\ CachedIsOpen
  /\ ConnectIsCurrent
  /\ StaleOnlyIfCrossed
  /\ SoloIsAlone
  /\ SoloIsCached

USE SpellingsAssumption, NoConnAssumption, MaxVersionAssumption

(* The connections ConnectSsh opens were free, and there is one for each   *)
(* key it is asked for.                                                    *)
LEMMA OpenedWereFree ==
  ASSUME NEW F \in SUBSET Spellings, \A k \in F : HasFree(k)
  PROVE  /\ Opened(F) \subseteq Conns
         /\ \A c \in Opened(F) : KeyOf[c] \in F /\ state[c] = "free"
         /\ \A c, d \in Opened(F) : KeyOf[c] = KeyOf[d] => c = d
<1>1. ASSUME NEW k \in F
      PROVE  Fresh(k) \in Conns /\ IsFreeOf(k, Fresh(k))
  BY <1>1 DEF HasFree, Fresh
<1> QED
  BY <1>1 DEF Opened, IsFreeOf

LEMMA HostInitInv == HostInit => HostInv
BY DEF HostInit, CacheInit, HostInv, HostTypeOK, RegisteredHasRow, CachedIsOpen,
       ConnectIsCurrent, StaleOnlyIfCrossed, SoloIsAlone, SoloIsCached

(* A handler that writes no row, or inserts one, before it calls getClient.*)
RowsGrow ==
  /\ registered' \in SUBSET Hosts /\ registered \subseteq registered'
  /\ version' \in [Hosts -> 0..MaxVersion]
  /\ \A h \in registered' : version'[h] # 0
  /\ \A h \in registered : version'[h] = version[h]

(* Calls of connectSsh for registered hosts without a cached client        *)
(* preserve the invariant, whichever and however many they are.            *)
LEMMA ConnectSshInv ==
  ASSUME HostInv, NEW F \in SUBSET Spellings, \A k \in F : Misses(k),
         ConnectSsh(F), RowsGrow
  PROVE  HostInv'
<1>1. /\ Opened(F) \subseteq Conns
      /\ \A c \in Opened(F) : KeyOf[c] \in F /\ state[c] = "free"
      /\ \A c, d \in Opened(F) : KeyOf[c] = KeyOf[d] => c = d
  BY OpenedWereFree DEF ConnectSsh
<1>2. \A c \in Opened(F) : /\ HostOf(c) \in registered'
                           /\ clients[KeyOf[c]] = NoConn
                           /\ version'[HostOf(c)] \in 1..MaxVersion
  BY <1>1 DEF RowsGrow, Misses, HostOf
<1> USE DEF ConnectSsh, RowsGrow
<1>3. HostTypeOK'
  <2>1. state' \in [Conns -> {"free", "connecting", "open", "ended"}]
    BY <1>1 DEF HostInv, HostTypeOK
  <2>2. cred' \in [Conns -> 0..MaxVersion]
    BY <1>1, <1>2 DEF HostInv, HostTypeOK
  <2>3. \A c \in Conns : cred'[c] = 0 <=> state'[c] = "free"
    BY <1>1, <1>2 DEF HostInv, HostTypeOK
  <2>4. solo' \in SUBSET Conns
    BY <1>1 DEF HostInv, HostTypeOK
  <2> QED
    BY <2>1, <2>2, <2>3, <2>4 DEF HostInv, HostTypeOK
<1>4. RegisteredHasRow'
  BY DEF HostInv, RegisteredHasRow
<1>5. CachedIsOpen' /\ StaleOnlyIfCrossed'
  BY <1>1, <1>2 DEF HostInv, HostTypeOK, CachedIsOpen, StaleOnlyIfCrossed
<1>6. ConnectIsCurrent'
  BY <1>1, <1>2 DEF HostInv, HostTypeOK, ConnectIsCurrent
<1>7. SoloIsAlone'
  BY <1>1 DEF HostInv, HostTypeOK, SoloIsAlone, Live
<1>8. SoloIsCached'
  BY <1>1 DEF HostInv, HostTypeOK, SoloIsCached
<1> QED
  BY <1>3, <1>4, <1>5, <1>6, <1>7, <1>8 DEF HostInv

(* The events of a connection.                                             *)
LEMMA ConnReadyInv ==
  ASSUME HostInv, NEW c \in Conns, ConnReady(c)
  PROVE  HostInv'
<1> USE DEF ConnReady
<1>1. HostTypeOK' /\ RegisteredHasRow'
  BY DEF HostInv, HostTypeOK, RegisteredHasRow
<1>2. CachedIsOpen' /\ StaleOnlyIfCrossed'
  BY DEF HostInv, HostTypeOK, CachedIsOpen, ConnectIsCurrent, StaleOnlyIfCrossed, HostOf
<1>3. ConnectIsCurrent' /\ SoloIsAlone'
  BY DEF HostInv, HostTypeOK, ConnectIsCurrent, SoloIsAlone
<1>4. SoloIsCached'
  \* A solo connection of c's key can only be c, and c is the one cached.
  BY DEF HostInv, HostTypeOK, SoloIsAlone, SoloIsCached
<1> QED
  BY <1>1, <1>2, <1>3, <1>4 DEF HostInv

LEMMA ConnFailedInv ==
  ASSUME HostInv, NEW c \in Conns, ConnFailed(c)
  PROVE  HostInv'
<1> USE DEF ConnFailed, Free
<1>1. HostTypeOK' /\ RegisteredHasRow'
  BY DEF HostInv, HostTypeOK, RegisteredHasRow
<1>2. CachedIsOpen' /\ StaleOnlyIfCrossed'
  BY DEF HostInv, HostTypeOK, CachedIsOpen, StaleOnlyIfCrossed
<1>3. ConnectIsCurrent' /\ SoloIsAlone' /\ SoloIsCached'
  BY DEF HostInv, HostTypeOK, ConnectIsCurrent, SoloIsAlone, SoloIsCached
<1> QED
  BY <1>1, <1>2, <1>3 DEF HostInv

LEMMA ConnErrorInv ==
  ASSUME HostInv, NEW c \in Conns, ConnError(c)
  PROVE  HostInv'
<1> USE DEF ConnError
<1>1. HostTypeOK' /\ RegisteredHasRow'
  BY DEF HostInv, HostTypeOK, RegisteredHasRow
<1>2. CachedIsOpen' /\ StaleOnlyIfCrossed'
  BY DEF HostInv, HostTypeOK, CachedIsOpen, StaleOnlyIfCrossed
<1>3. ConnectIsCurrent' /\ SoloIsAlone' /\ SoloIsCached'
  BY DEF HostInv, HostTypeOK, ConnectIsCurrent, SoloIsAlone, SoloIsCached
<1> QED
  BY <1>1, <1>2, <1>3 DEF HostInv

LEMMA ConnCloseInv ==
  ASSUME HostInv, NEW c \in Conns, ConnClose(c)
  PROVE  HostInv'
<1> USE DEF ConnClose, Free
<1>1. HostTypeOK' /\ RegisteredHasRow'
  BY DEF HostInv, HostTypeOK, RegisteredHasRow
<1>2. CachedIsOpen' /\ StaleOnlyIfCrossed'
  BY DEF HostInv, HostTypeOK, CachedIsOpen, StaleOnlyIfCrossed
<1>3. ConnectIsCurrent' /\ SoloIsAlone' /\ SoloIsCached'
  BY DEF HostInv, HostTypeOK, ConnectIsCurrent, SoloIsAlone, SoloIsCached
<1> QED
  BY <1>1, <1>2, <1>3 DEF HostInv

(* The hosts controller's handlers.                                        *)
LEMMA CreateHostInv ==
  ASSUME HostInv, NEW h \in Hosts, CreateHost(h)
  PROVE  HostInv'
BY DEF HostInv, CreateHost, cacheVars, HostTypeOK, RegisteredHasRow, CachedIsOpen,
       ConnectIsCurrent, StaleOnlyIfCrossed, SoloIsAlone, SoloIsCached

(* Whatever an invalidating handler does to the row of h, and only of h,   *)
(* it leaves the cache coherent.                                           *)
LEMMA InvalidateInv ==
  ASSUME HostInv, NEW h \in Hosts, Invalidate(h),
         registered' \in SUBSET registered, version' \in [Hosts -> 0..MaxVersion],
         \A g \in Hosts \ {h} :
           (g \in registered' <=> g \in registered) /\ version'[g] = version[g],
         version'[h] # 0
  PROVE  HostInv'
<1> USE DEF Invalidate
<1>1. HostTypeOK'
  <2>1. \A c \in Conns : c = clients[h] => state[c] = "open"
    BY DEF HostInv, CachedIsOpen
  <2>2. registered' \in SUBSET Hosts
    BY DEF HostInv, HostTypeOK
  <2>3. /\ clients' \in [Spellings -> Conns \cup {NoConn}]
        /\ state' \in [Conns -> {"free", "connecting", "open", "ended"}]
    BY DEF HostInv, HostTypeOK
  <2>4. \A c \in Conns : state'[c] = "free" <=> state[c] = "free"
    BY <2>1 DEF HostInv, HostTypeOK
  <2>5. crossed' \in SUBSET Conns
    BY DEF HostInv, HostTypeOK, Connecting
  <2> QED
    BY <2>2, <2>3, <2>4, <2>5 DEF HostInv, HostTypeOK
<1>2. RegisteredHasRow'
  BY DEF HostInv, HostTypeOK, RegisteredHasRow
<1>3. CachedIsOpen' /\ StaleOnlyIfCrossed'
  BY DEF HostInv, HostTypeOK, CachedIsOpen, StaleOnlyIfCrossed
<1>4. ConnectIsCurrent'
  \* h's connects are now crossed, the other hosts' rows are as they were.
  BY DEF HostInv, HostTypeOK, ConnectIsCurrent, Connecting
<1>5. SoloIsAlone'
  BY DEF HostInv, HostTypeOK, SoloIsAlone, CachedIsOpen
<1>6. SoloIsCached'
  \* h's open solo connection was the cached one, and it is ended.
  BY DEF HostInv, HostTypeOK, SoloIsCached
<1> QED
  BY <1>1, <1>2, <1>3, <1>4, <1>5, <1>6 DEF HostInv

LEMMA UpdateHostInv ==
  ASSUME HostInv, NEW h \in Hosts, UpdateHost(h)
  PROVE  HostInv'
<1>1. version' \in [Hosts -> 0..MaxVersion] /\ version'[h] # 0
  BY DEF UpdateHost, HostInv, HostTypeOK
<1> QED
  BY <1>1, InvalidateInv DEF UpdateHost, HostInv, HostTypeOK

LEMMA RemoveHostInv ==
  ASSUME HostInv, NEW h \in Hosts, RemoveHost(h)
  PROVE  HostInv'
BY InvalidateInv DEF RemoveHost, HostInv, HostTypeOK, RegisteredHasRow

LEMMA GetClientInv ==
  ASSUME HostInv, NEW k \in Spellings, GetClient(k)
  PROVE  HostInv'
<1>1. RowsGrow
  BY DEF GetClient, RowsGrow, HostInv, HostTypeOK, RegisteredHasRow
<1> QED
  BY <1>1, ConnectSshInv, {k} \in SUBSET Spellings DEF GetClient

LEMMA StutterInv ==
  ASSUME HostInv, UNCHANGED hostVars
  PROVE  HostInv'
BY DEF hostVars, cacheVars, HostInv, HostTypeOK, RegisteredHasRow, CachedIsOpen,
       ConnectIsCurrent, StaleOnlyIfCrossed, SoloIsAlone, SoloIsCached

LEMMA HostStep ==
  ASSUME HostInv, [HostNext]_hostVars
  PROVE  HostInv'
<1>1. ASSUME NEW h \in Hosts,
             CreateHost(h) \/ UpdateHost(h) \/ RemoveHost(h)
      PROVE  HostInv'
  BY <1>1, CreateHostInv, UpdateHostInv, RemoveHostInv
<1>2. ASSUME NEW c \in Conns,
             ConnReady(c) \/ ConnFailed(c) \/ ConnError(c) \/ ConnClose(c)
      PROVE  HostInv'
  BY <1>2, ConnReadyInv, ConnFailedInv, ConnErrorInv, ConnCloseInv
<1>3. ASSUME NEW k \in Spellings, GetClient(k)
      PROVE  HostInv'
  BY <1>3, GetClientInv
<1>4. CASE UNCHANGED hostVars
  BY <1>4, StutterInv
<1> QED
  BY <1>1, <1>2, <1>3, <1>4 DEF HostNext

-----------------------------------------------------------------------------
(* The invariant holds of every behaviour of the cache.                    *)
THEOREM HostManagerInv == HostSpec => []HostInv
BY HostInitInv, HostStep, PTL DEF HostSpec

(* The cache's state stays within its type.                                *)
THEOREM HostManagerTypeOK == HostSpec => []HostTypeOK
BY HostManagerInv, PTL DEF HostInv

(* A client in the cache is of its key and has an open connection.         *)
THEOREM CacheHoldsOpenClients == HostSpec => []CachedIsOpen
BY HostManagerInv, PTL DEF HostInv

(* Under String(id), only a connect that an invalidate() crossed leaves a  *)
(* stale client in the cache: the update and remove of the hosts           *)
(* controller miss nothing else there, and they reach no other spelling.   *)
THEOREM CacheIsFresh == HostSpec => []StaleOnlyIfCrossed
BY HostManagerInv, PTL DEF HostInv

(* A connection without a rival of its key is never lost from the entry of *)
(* that key while it is open.                                              *)
THEOREM NoLeakWithoutRival == HostSpec => []SoloIsCached
BY HostManagerInv, PTL DEF HostInv

=============================================================================
