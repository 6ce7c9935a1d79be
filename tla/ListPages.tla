----------------------------- MODULE ListPages -----------------------------
(***************************************************************************)
(* The list pages of the web application: containers, images, volumes,     *)
(* networks, stacks, users, hosts and the audit log. All are one machine:  *)
(* a query per list (per host, where the list is of a Docker host), the    *)
(* mutations of the page's service hook, and a bulk action over the ticked *)
(* rows (apps/web/src/services/*Service.ts, hooks/useBulkAction.ts,        *)
(* utils.ts runBulk, hosts.tsx). What TanStack Query does is external: a   *)
(* fetch is answered later, data stays in the cache, a rendered page        *)
(* refetches its key, an invalidation replaces a running fetch only when   *)
(* the key has data, and the callbacks of a mutation are those of its      *)
(* page's last render while its function is the one of the click.          *)
(***************************************************************************)
EXTENDS Naturals, FiniteSets, SequencesExt

CONSTANTS
    DockerHosts,  \* ids of Docker hosts
    RowKeys,      \* keys of rows: ids, or names
    PageNames,    \* the pages an instance looks at
    FirstRows,    \* per page: the rows its lists begin with
    MaxEdits      \* bound: actions started, by this user and by others

ASSUME ListPagesAssumption ==
    /\ "local" \in DockerHosts /\ IsFiniteSet(RowKeys) /\ MaxEdits \in Nat
    /\ PageNames \subseteq {"containers", "images", "volumes", "networks",
                            "stacks", "users", "hosts", "audit"}

VARIABLES
    page,      \* the page: one of PageNames
    lists,     \* per host: the server's rows, "absent" or in one of two states
    hostId,    \* the selected host
    rendered,   \* the page is open
    known,     \* per host: data in the cache (at most one)
    query,     \* per host: [phase, rows], the fetch
    ticked,    \* selectedKeys
    jobs,      \* mutations under way: at most a single one and a bulk one
    edits,     \* actions started so far
    missed,    \* history: hosts whose list changed with nobody to refetch it
    amiss      \* history: a bulk action ended without one try of each its rows

listVars == <<lists, hostId, rendered>>
cacheVars == <<known, query>>
listsVars ==
    <<page, listVars, cacheVars, ticked, jobs, edits, missed, amiss>>

RowStates == {"absent", "one", "two"}
RowsOf == [RowKeys -> RowStates]
NoRows == [k \in RowKeys |-> "absent"]
NoQuery == [phase |-> "idle", rows |-> NoRows]
Asking == [phase |-> "asked", rows |-> NoRows]

-----------------------------------------------------------------------------
(* What the hooks offer: the rows an operation takes (one of the list, a   *)
(* new one, any), what it does to them, and whether its success refetches  *)
(* the list.                                                               *)
Operation(takes, does) == [takes |-> takes, does |-> does, refetches |-> TRUE]
Aside == [takes |-> "row", does |-> "nothing", refetches |-> FALSE]
Delete == Operation("row", "remove")
Add == Operation("new", "add")
Alter == Operation("row", "alter")

BuildFromGit == Add
ImportFromPortainer == Add

ContainersService ==
    [perHost |-> TRUE, polls |-> TRUE, bulk |-> {"alter", "remove"},
     operations |-> {Alter, Delete, Add}]
ImagesService ==   \* pull, remove, prune, checkUpdate, checkAllUpdates
    [perHost |-> TRUE, polls |-> FALSE, bulk |-> {"remove"},
     operations |-> {Add, Delete, Operation("any", "remove"), Alter,
                     Operation("any", "alter"), BuildFromGit}]
VolumesService ==
    [perHost |-> TRUE, polls |-> FALSE, bulk |-> {"remove"},
     operations |-> {Add, Delete, Operation("any", "remove")}]
NetworksService ==
    [perHost |-> TRUE, polls |-> FALSE, bulk |-> {"remove"},
     operations |-> {Add, Delete}]
StacksService ==   \* deploy, down, remove; the deploys and downs may fail
    [perHost |-> FALSE, polls |-> TRUE, bulk |-> {"alter", "remove"},
     operations |-> {Alter, Delete, ImportFromPortainer}]
UsersService ==    \* create, update, remove, resetTotp
    [perHost |-> FALSE, polls |-> FALSE, bulk |-> {"remove"},
     operations |-> {Add, Alter, Delete}]
HostsService ==    \* create, update, remove, testStored
    [perHost |-> FALSE, polls |-> FALSE, bulk |-> {"remove"},
     operations |-> {Add, Alter, Delete, Aside}]
AuditLogService == \* toggle, clear
    [perHost |-> FALSE, polls |-> TRUE, bulk |-> {},
     operations |-> {Aside, Operation("all", "remove")}]

Service ==
    CASE page = "containers" -> ContainersService
      [] page = "images"     -> ImagesService
      [] page = "volumes"    -> VolumesService
      [] page = "networks"   -> NetworksService
      [] page = "stacks"     -> StacksService
      [] page = "users"      -> UsersService
      [] page = "hosts"      -> HostsService
      [] page = "audit"      -> AuditLogService

\* The host in the query key of the page when [h] is selected.
KeyOf(h) == IF Service.perHost THEN h ELSE "local"
PageKey == KeyOf(hostId)

-----------------------------------------------------------------------------
ListsTypeOK ==
    /\ lists \in [DockerHosts -> RowsOf]
    /\ hostId \in DockerHosts /\ {rendered, amiss} \subseteq BOOLEAN
    /\ known \in [DockerHosts -> {<<>>} \cup {<<r>> : r \in RowsOf}]
    /\ query \in [DockerHosts -> [phase : {"idle", "asked", "read"}, rows : RowsOf]]
    /\ ticked \subseteq RowKeys /\ missed \subseteq DockerHosts
    /\ edits \in 0..MaxEdits
    /\ \A j \in jobs :
         /\ {j.host, j.key} \subseteq DockerHosts
         /\ {j.bulk, j.failed, j.refetches, j.mine} \subseteq BOOLEAN
         /\ j.came \in {"", "done", "refused", "lost"}
         /\ j.left # <<>> /\ ToSet(j.left) \subseteq SUBSET RowKeys
         /\ ToSet(j.tried) \subseteq RowKeys
    /\ \A j, k \in jobs : j.bulk = k.bulk => j = k

ListsInit ==
    /\ page \in PageNames
    /\ lists = [h \in DockerHosts |->
                  [k \in RowKeys |-> IF k \in FirstRows[page] THEN "one" ELSE "absent"]]
    /\ hostId = "local" /\ rendered = FALSE
    /\ known = [h \in DockerHosts |-> <<>>]
    /\ query = [h \in DockerHosts |-> NoQuery]
    /\ ticked = {} /\ jobs = {} /\ edits = 0 /\ missed = {} /\ amiss = FALSE

-----------------------------------------------------------------------------
(* A page that shows a key refetches it; a fetch under way is joined, even *)
(* one whose answer is already on its way.                                 *)
Shows(h) ==
    /\ query' = IF query[h].phase = "idle"
                THEN [query EXCEPT ![h] = Asking] ELSE query
    /\ missed' = IF query[h].phase = "read" THEN missed \cup {h} ELSE missed

OpenPage ==
    /\ ~rendered /\ rendered' = TRUE
    /\ Shows(PageKey)
    /\ UNCHANGED <<page, lists, hostId, known, ticked, jobs, edits, amiss>>

(* The next opening of the page has its own selection and mutations.       *)
LeavePage ==
    /\ rendered /\ rendered' = FALSE
    /\ ticked' = {}
    /\ jobs' = {[j EXCEPT !.mine = FALSE] : j \in jobs}
    /\ UNCHANGED <<page, lists, hostId, cacheVars, edits, missed, amiss>>

(* setHostId, by the user or because the host is gone from the list: the   *)
(* page shows another key, and keeps its selection.                        *)
SetHostId(h) ==
    /\ h # hostId
    /\ hostId' = h
    /\ jobs' = {IF j.mine THEN [j EXCEPT !.key = KeyOf(h)] ELSE j : j \in jobs}
    /\ IF rendered /\ Service.perHost THEN Shows(h) ELSE UNCHANGED <<query, missed>>
    /\ UNCHANGED <<page, lists, rendered, known, ticked, edits, amiss>>

(* refetchInterval                                                         *)
Poll ==
    /\ rendered /\ Service.polls /\ query[PageKey].phase = "idle"
    /\ query' = [query EXCEPT ![PageKey] = Asking]
    /\ UNCHANGED <<page, listVars, known, ticked, jobs, edits, missed, amiss>>

ListRead(h) ==
    /\ query[h].phase = "asked"
    /\ query' = [query EXCEPT ![h] = [phase |-> "read", rows |-> lists[h]]]
    /\ missed' = missed \ {h}
    /\ UNCHANGED <<page, listVars, known, ticked, jobs, edits, amiss>>

ListAnswer(h) ==
    /\ query[h].phase = "read"
    /\ query' = [query EXCEPT ![h] = NoQuery]
    /\ known' = [known EXCEPT ![h] = <<query[h].rows>>]
    /\ UNCHANGED <<page, listVars, ticked, jobs, edits, missed, amiss>>

(* retry: 1                                                                *)
FetchFails(h) ==
    /\ query[h].phase # "idle"
    /\ \/ query' = [query EXCEPT ![h] = Asking] /\ UNCHANGED missed
       \/ query' = [query EXCEPT ![h] = NoQuery] /\ missed' = missed \cup {h}
    /\ UNCHANGED <<page, listVars, known, ticked, jobs, edits, amiss>>

OnScreen == IF known[PageKey] = <<>> THEN {}
         ELSE {k \in RowKeys : known[PageKey][1][k] # "absent"}

(* rowSelection.onChange: antd keeps the keys of rows it has.              *)
Tick(k) ==
    /\ rendered /\ k \in OnScreen
    /\ ticked' = IF k \in ticked THEN (ticked \cap OnScreen) \ {k}
                 ELSE (ticked \cap OnScreen) \cup {k}
    /\ UNCHANGED <<page, listVars, cacheVars, jobs, edits, missed, amiss>>

Starts(job) ==
    /\ rendered /\ edits < MaxEdits
    /\ \A j \in jobs : j.bulk # job.bulk \/ ~j.mine
    /\ edits' = edits + 1
    /\ jobs' = jobs \cup {job}
    /\ UNCHANGED <<page, listVars, cacheVars, ticked, missed, amiss>>

Mutation(bulk, does, left, refetches) ==
    [bulk |-> bulk, host |-> PageKey, does |-> does, left |-> left,
     picked |-> UNION ToSet(left), tried |-> <<>>, came |-> "", failed |-> FALSE,
     refetches |-> refetches, key |-> PageKey, mine |-> TRUE]

OneClick(op, rows) ==
    /\ CASE op.takes = "row" -> rows \in {{k} : k \in OnScreen}
         [] op.takes = "new" -> rows \in {{k} : k \in RowKeys}
         [] op.takes = "all" -> rows = RowKeys /\ OnScreen # {}
         [] op.takes = "any" -> TRUE
    /\ \A j \in jobs : j.bulk
    /\ Starts(Mutation(FALSE, op.does, <<rows>>, op.refetches))

(* mutationFn: (keys) => runBulk(keys, run)                                *)
BulkClick(does) ==
    /\ ticked # {}
    /\ \A j \in jobs : ~j.bulk
    /\ Starts(Mutation(TRUE, does, [i \in 1..Cardinality(ticked) |->
                                      {SetToSeq(ticked)[i]}], TRUE))

-----------------------------------------------------------------------------
Effect(rows, does, picked) ==
    [k \in RowKeys |->
       CASE k \notin picked -> rows[k]
         [] does = "remove" -> "absent"
         [] does = "add"    -> "one"
         [] does = "alter" /\ rows[k] # "absent" ->
              IF rows[k] = "one" THEN "two" ELSE "one"
         [] OTHER -> rows[k]]

(* The request of the job's next item at the server: it is done, refused,  *)
(* or done with its answer lost. One that had its answer waits for Next.   *)
ServerDoes(j) ==
    /\ j.came = ""
    /\ \E outcome \in {"done", "refused", "lost"} :
         /\ lists' = IF outcome = "refused" THEN lists
                     ELSE [lists EXCEPT ![j.host] = Effect(@, j.does, Head(j.left))]
         /\ jobs' = (jobs \ {j}) \cup
                      {[j EXCEPT !.came = outcome,
                                 !.tried = @ \o SetToSeq(Head(j.left)),
                                 !.failed = @ \/ outcome # "done"]}
    /\ UNCHANGED <<page, hostId, rendered, cacheVars, ticked, edits, missed, amiss>>

GoesOnIfDone(j) == j.bulk /\ ~j.failed    \* mutant: the catch around one item dropped

(* runBulk goes on after an item that failed.                              *)
GoesOn(j) == j.bulk

NextItem(j) ==
    /\ j.came # "" /\ Len(j.left) > 1 /\ GoesOn(j)
    /\ jobs' = (jobs \ {j}) \cup {[j EXCEPT !.came = "", !.left = Tail(@)]}
    /\ UNCHANGED <<page, listVars, cacheVars, ticked, edits, missed, amiss>>

(* invalidateQueries                                                       *)
Invalidated(k) ==
    IF rendered /\ PageKey = k /\ (query[k].phase = "idle" \/ known[k] # <<>>)
    THEN [query EXCEPT ![k] = Asking] ELSE query
Uncancelled(k) == IF query[k].phase = "read" /\ known[k] = <<>> THEN {k} ELSE {}
MovedAway(j) == IF j.key # j.host THEN {j.host} ELSE {}

(* onSuccess, or onError: a bulk action always succeeds, with a report, a  *)
(* single one that failed refetches nothing.                               *)
Settles(j) ==
    /\ j.came # "" /\ (Len(j.left) = 1 \/ ~GoesOn(j))
    /\ jobs' = jobs \ {j}
    /\ IF j.bulk \/ (~j.failed /\ j.refetches)
       THEN /\ query' = Invalidated(j.key)
            /\ missed' = missed \cup Uncancelled(j.key) \cup MovedAway(j)
       ELSE /\ missed' = IF j.came = "lost" THEN missed \cup {j.host} ELSE missed
            /\ UNCHANGED query
    /\ ticked' = IF j.bulk /\ j.mine THEN {} ELSE ticked
    /\ amiss' = (amiss \/ (j.bulk /\ ~(/\ ToSet(j.tried) = j.picked
                                       /\ Len(j.tried) = Cardinality(j.picked))))
    /\ UNCHANGED <<page, listVars, known, edits>>

(* Somebody else, or Docker itself.                                        *)
OutsideChange(h, k) ==
    /\ edits < MaxEdits /\ edits' = edits + 1
    /\ \E state \in RowStates : lists' = [lists EXCEPT ![h][k] = state]
    /\ missed' = missed \cup {h}
    /\ UNCHANGED <<page, hostId, rendered, cacheVars, ticked, jobs, amiss>>

ListsNext ==
    \/ OpenPage \/ LeavePage \/ Poll
    \/ \E h \in DockerHosts :
         SetHostId(h) \/ ListRead(h) \/ ListAnswer(h) \/ FetchFails(h)
    \/ \E k \in RowKeys : Tick(k) \/ \E h \in DockerHosts : OutsideChange(h, k)
    \/ \E op \in Service.operations, rows \in SUBSET RowKeys : OneClick(op, rows)
    \/ \E does \in Service.bulk : BulkClick(does)
    \/ \E j \in jobs : ServerDoes(j) \/ NextItem(j) \/ Settles(j)

ListsSpec == ListsInit /\ [][ListsNext]_listsVars

-----------------------------------------------------------------------------
(* With nothing under way, the list on the screen is the server's, unless  *)
(* something happened that no code refetches for: a change from elsewhere, *)
(* a fetch that failed, an answer that was lost, or one that came when the *)
(* page had moved to another host.                                         *)
ListCatchesUp ==
    rendered /\ query[PageKey].phase = "idle" /\ PageKey \notin missed
        /\ (\A j \in jobs : j.host # PageKey)
      => known[PageKey] = <<lists[PageKey]>>

(* Every row of a bulk action was asked for once, whichever of them failed. *)
BulkTriesEach == ~amiss

\* Lists keep up with what is done on them (the pages' services, utils.ts runBulk).
ListsKeepUp == ListCatchesUp /\ BulkTriesEach

=============================================================================
