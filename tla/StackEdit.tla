----------------------------- MODULE StackEdit -----------------------------
(***************************************************************************)
(* The stack editor (apps/web/src/pages/StackEdit.tsx): one page component *)
(* that shows the stack its URL names. React Router keeps the component,   *)
(* and so the text in it, when the URL moves from one stack to another;    *)
(* the text of the new one replaces it only when the query for it has      *)
(* data. Queries are cached per stack, a fetch is answered later, and the  *)
(* callbacks of a running mutation are those of the last render, while     *)
(* the function that does its work is that of the click.                   *)
(***************************************************************************)
EXTENDS Naturals, FiniteSets

CONSTANTS
    Editable,    \* names of stacks
    MaxTexts,    \* bound: texts typed, by this user and by others
    MaxClicks    \* bound: mutations started

ASSUME StackEditAssumption == MaxTexts \in Nat /\ MaxClicks \in Nat

VARIABLES
    disk,        \* per name: the compose files that exist (at most one)
    cache,       \* per name: data of the query ["stack", name]
    fetch,       \* per name: [phase, text]: its fetch
    route,       \* the page: a name, "new", or "elsewhere"
    compose,     \* the editor's text
    textOf,      \* history: the page that text was loaded for
    diffOpen,    \* the modal "Review changes before deploying"
    works,       \* mutations under way
    clicks,      \* mutations started so far
    texts,       \* texts typed so far
    shown,       \* history: data of the page's stack came since it was opened
    strayed,     \* history: text shown for one stack was written to another
    unreviewed   \* history: edits of an existing stack deployed unconfirmed

editQueryVars == <<cache, fetch>>
textVars == <<compose, textOf, shown>>
editPageVars == <<route, diffOpen, textVars>>
mutationVars == <<works, clicks>>
editHistory == <<strayed, unreviewed>>
editorVars ==
    <<disk, editQueryVars, editPageVars, mutationVars, texts, editHistory>>

Pages == Editable \cup {"new", "elsewhere"}
(* What tells a text from another: a stack's first text, the template, or  *)
(* the number of one that was typed                                        *)
Text == [born : Pages \cup {"typed"}, n : 0..MaxTexts]
First(page) == [born |-> page, n |-> 0]
Typed(k) == [born |-> "typed", n |-> k]
Template == First("new")
Resting == [phase |-> "idle", text |-> {}]
Work == [kind : {"save", "down", "delete"}, stack : Editable, text : Text,
         of : Pages, deploy : BOOLEAN, isNew : BOOLEAN, reviewed : BOOLEAN,
         changes : BOOLEAN, loaded : BOOLEAN, phase : {"sent", "deploy", "done"},
         key : Pages, mine : BOOLEAN]

AtMostOne(S) == {{}} \cup {{x} : x \in S}

EditorTypeOK ==
    /\ \A m \in {disk, cache} : m \in [Editable -> AtMostOne(Text)]
    /\ fetch \in [Editable -> [phase : {"idle", "sent", "answered"},
                               text : AtMostOne(Text)]]
    /\ {route, textOf} \subseteq Pages /\ compose \in Text
    /\ texts \in 0..MaxTexts /\ clicks \in 0..MaxClicks
    /\ works \subseteq Work
    /\ {diffOpen, shown, strayed, unreviewed} \subseteq BOOLEAN

EditorInit ==
    /\ \E some \in SUBSET Editable :
         disk = [s \in Editable |->
                   IF s \in some THEN {First(s)} ELSE {}]
    /\ cache = [s \in Editable |-> {}]
    /\ fetch = [s \in Editable |-> Resting]
    /\ route = "elsewhere" /\ compose = Template /\ textOf = "new"
    /\ diffOpen = FALSE /\ works = {} /\ texts = 0 /\ clicks = 0
    /\ shown = FALSE /\ strayed = FALSE /\ unreviewed = FALSE

Busy == \E w \in works : w.mine
Requested(s) == [fetch EXCEPT ![s] = [phase |-> "sent", text |-> {}]]

(* Going to a page. From one stack to another the component stays; to or   *)
(* from any other page it is another one, with its initial state, and the  *)
(* mutations of the old one are no longer its own. The effect on           *)
(* [existing] puts cached data into the editor at once.                    *)
Goes(page) ==
    LET stays == {route, page} \subseteq Editable
    IN /\ route' = page
       /\ IF page \in Editable /\ cache[page] # {}
          THEN /\ compose' \in cache[page] /\ textOf' = page /\ shown' = TRUE
          ELSE /\ shown' = FALSE
               /\ compose' = IF stays THEN compose ELSE Template
               /\ textOf' = IF stays THEN textOf ELSE "new"
       /\ diffOpen' = (stays /\ diffOpen)

Held(page, ws) ==
    LET stays == {route, page} \subseteq Editable
    IN {[w EXCEPT !.mine = w.mine /\ stays,
                  !.key = IF w.mine /\ stays THEN page ELSE w.key] : w \in ws}

Go(page) ==
    /\ page # route
    /\ Goes(page)
    /\ works' = Held(page, works)
    /\ fetch' = IF page \in Editable /\ fetch[page].phase = "idle"
                THEN Requested(page) ELSE fetch
    /\ UNCHANGED <<disk, cache, clicks, texts, editHistory>>

(* stacksApi.get reads the file; a missing stack, or a lost answer, ends   *)
(* the fetch with an error after its one retry, and the data stays.        *)
Answered(s) ==
    /\ fetch[s].phase = "sent"
    /\ \/ /\ disk[s] # {}
          /\ fetch' = [fetch EXCEPT ![s] = [phase |-> "answered", text |-> disk[s]]]
       \/ fetch' = [fetch EXCEPT ![s] = Resting]
    /\ UNCHANGED <<disk, cache, editPageVars, mutationVars, texts, editHistory>>

LoadedAnywhere(s) ==    \* mutant: one query key for all stacks
    /\ fetch[s].phase = "answered"
    /\ fetch' = [fetch EXCEPT ![s] = Resting]
    /\ cache' = [cache EXCEPT ![s] = fetch[s].text]
    /\ IF route \in Editable /\ cache[s] # fetch[s].text
       THEN compose' \in fetch[s].text /\ textOf' = s /\ shown' = TRUE
       ELSE UNCHANGED textVars
    /\ UNCHANGED <<disk, route, diffOpen, mutationVars, texts, editHistory>>

(* useEffect(() => { if (existing) setCompose(existing.compose) }, [existing]): *)
(* data equal to the cached one keeps its identity and runs no effect.     *)
Loaded(s) ==
    /\ fetch[s].phase = "answered"
    /\ fetch' = [fetch EXCEPT ![s] = Resting]
    /\ cache' = [cache EXCEPT ![s] = fetch[s].text]
    /\ IF route = s /\ cache[s] # fetch[s].text
       THEN compose' \in fetch[s].text /\ textOf' = s /\ shown' = TRUE
       ELSE UNCHANGED textVars
    /\ UNCHANGED <<disk, route, diffOpen, mutationVars, texts, editHistory>>

Edit ==
    /\ route # "elsewhere" /\ ~diffOpen /\ texts < MaxTexts
    /\ texts' = texts + 1
    /\ compose' = Typed(texts + 1)
    /\ UNCHANGED <<disk, editQueryVars, route, textOf, shown, diffOpen,
                   mutationVars, editHistory>>

OtherUserSaves(s) ==
    /\ disk[s] # {} /\ texts < MaxTexts
    /\ texts' = texts + 1
    /\ disk' = [disk EXCEPT ![s] = {Typed(texts + 1)}]
    /\ UNCHANGED <<editQueryVars, editPageVars, mutationVars, editHistory>>

(* saveMutation.mutate, downMutation.mutate, deleteMutation.mutate         *)
Mutate(kind, s, deploy, confirmed) ==
    /\ ~Busy /\ clicks < MaxClicks
    /\ clicks' = clicks + 1
    /\ works' = works \cup
         {[kind |-> kind, stack |-> s, text |-> compose, of |-> textOf,
           deploy |-> deploy,
           isNew |-> route = "new", reviewed |-> confirmed, changes |-> FALSE,
           loaded |-> shown, phase |-> "sent", key |-> route, mine |-> TRUE]}

SaveClick ==
    /\ ~diffOpen
    /\ \E s \in Editable : /\ route \in {s, "new"}
                           /\ Mutate("save", s, FALSE, FALSE)
    /\ UNCHANGED <<disk, editQueryVars, editPageVars, texts, editHistory>>

Unlike(s) == cache[s] # {} /\ compose \notin cache[s]

DeployClick ==
    /\ ~diffOpen
    /\ \E s \in Editable :
         /\ route \in {s, "new"}
         /\ IF route = s /\ Unlike(s)
            THEN ~Busy /\ diffOpen' = TRUE /\ UNCHANGED mutationVars
            ELSE Mutate("save", s, TRUE, FALSE) /\ UNCHANGED diffOpen
    /\ UNCHANGED <<disk, editQueryVars, route, textVars, texts, editHistory>>

ConfirmDeploy ==
    /\ diffOpen
    /\ diffOpen' = FALSE
    /\ Mutate("save", route, TRUE, cache[route] # {})
    /\ UNCHANGED <<disk, editQueryVars, route, textVars, texts, editHistory>>

CancelDeploy ==
    /\ diffOpen
    /\ diffOpen' = FALSE
    /\ UNCHANGED <<disk, editQueryVars, route, textVars, mutationVars, texts,
                   editHistory>>

StopOrDelete(kind) ==
    /\ route \in Editable /\ ~diffOpen
    /\ Mutate(kind, route, FALSE, FALSE)
    /\ UNCHANGED <<disk, editQueryVars, editPageVars, texts, editHistory>>

Becomes(w, v) == works' = (works \ {w}) \cup {v}

(* onError: the server refused, the deployment failed, or the answer to    *)
(* what the server did was lost                                            *)
Fails(w) ==
    /\ works' = works \ {w}
    /\ UNCHANGED <<disk, editQueryVars, editPageVars, clicks, texts, editHistory>>

(* The server's side: stacks.create refuses a name that exists, stacks.update *)
(* and every other operation one that does not.                            *)
Writes(w) ==
    /\ w.kind = "save" /\ w.phase = "sent" /\ w.isNew = (disk[w.stack] = {})
    /\ disk' = [disk EXCEPT ![w.stack] = {w.text}]
    /\ Becomes(w, [w EXCEPT !.phase = IF w.deploy THEN "deploy" ELSE "done",
                            !.changes = w.text \notin disk[w.stack]])
    /\ strayed' = (strayed \/ (~w.isNew /\ w.loaded /\ w.of # w.stack))
    /\ UNCHANGED <<editQueryVars, editPageVars, clicks, texts, unreviewed>>

(* stacksApi.deploy of the name the click saved: compose up reads the file *)
Deploys(w) ==
    /\ w.phase = "deploy" /\ disk[w.stack] # {}
    /\ Becomes(w, [w EXCEPT !.phase = "done"])
    /\ unreviewed' = (unreviewed \/ (w.changes /\ ~w.isNew /\ ~w.reviewed))
    /\ UNCHANGED <<disk, editQueryVars, editPageVars, clicks, texts, strayed>>

StopsOrDeletes(w) ==
    /\ w.kind # "save" /\ w.phase = "sent" /\ disk[w.stack] # {}
    /\ disk' = IF w.kind = "delete" THEN [disk EXCEPT ![w.stack] = {}] ELSE disk
    /\ Becomes(w, [w EXCEPT !.phase = "done"])
    /\ UNCHANGED <<editQueryVars, editPageVars, clicks, texts, editHistory>>

(* onSuccess: invalidate() names the stack of the last render, and only a  *)
(* query on the page is fetched again; a creation goes to the new stack's  *)
(* page and a deletion to the list, wherever the user is by then.          *)
Succeeds(w) ==
    /\ w.phase = "done"
    /\ LET rest == works \ {w}
           to == IF w.kind = "save" /\ w.key = "new" THEN w.stack
                 ELSE IF w.kind = "delete" THEN "elsewhere" ELSE route
       IN IF to = route
          THEN /\ works' = rest
               /\ fetch' = IF w.key = route THEN Requested(route) ELSE fetch
               /\ UNCHANGED editPageVars
          ELSE /\ Goes(to)
               /\ works' = Held(to, rest)
               /\ fetch' = IF to \in Editable THEN Requested(to) ELSE fetch
    /\ UNCHANGED <<disk, cache, clicks, texts, editHistory>>

EditorNext ==
    \/ \E page \in Pages : Go(page)
    \/ \E s \in Editable : Answered(s) \/ Loaded(s) \/ OtherUserSaves(s)
    \/ Edit \/ SaveClick \/ DeployClick \/ ConfirmDeploy \/ CancelDeploy
    \/ \E kind \in {"down", "delete"} : StopOrDelete(kind)
    \/ \E w \in works : Fails(w) \/ Writes(w) \/ Deploys(w)
                        \/ StopsOrDeletes(w) \/ Succeeds(w)

EditorSpec == EditorInit /\ [][EditorNext]_editorVars

-----------------------------------------------------------------------------
(* Once the page shows its stack, saving cannot put another stack's text   *)
(* into it: not after moving between stacks, with cached data, a late      *)
(* fetch or a mutation still running (StackEdit.tsx:178-192). Before the   *)
(* data has come, or when it never comes, the page offers Save all the     *)
(* same and writes what the editor holds: [shown] excepts that.            *)
SavesOwnStack == ~strayed

(* "Deploying an existing stack changes what's actually running, so pending *)
(* edits get a diff-and-confirm step first" (StackEdit.tsx:262-264).       *)
DeploysReviewed == ~unreviewed
=============================================================================
