-------------------------- MODULE PageProofs --------------------------
(* Proofs about the pages: the stack editor (StackEdit), signing in and out  *)
(* (Session), the settings form (SettingsForm) and the lists (ListPages);    *)
(* and about the components together (MCParts), with those of ServerProofs.  *)
EXTENDS MCParts, ServerProofs

(***************************************************************************)
(* The stack editor (StackEdit).                                           *)
(***************************************************************************)

(* Once the page has shown its stack, the text in it came from that stack.   *)
TextIsOfPage == shown => route \in Editable /\ textOf = route

(* A mutation keeps what its click knew: if the page had shown its stack,    *)
(* the text it carries is of the stack it writes.                            *)
Honest(w) ==
  /\ {"loaded", "isNew", "of", "stack"} \subseteq DOMAIN w
  /\ w.loaded /\ ~w.isNew => w.of = w.stack
WorksAreHonest == \A w \in works : Honest(w)

EditorInv == TextIsOfPage /\ WorksAreHonest /\ SavesOwnStack

LEMMA EditorInitInv == EditorInit => EditorInv
BY DEF EditorInit, EditorInv, TextIsOfPage, WorksAreHonest, SavesOwnStack

(* What happens to a mutation under way does not touch what its click knew.  *)
LEMMA HeldStaysHonest ==
  ASSUME NEW ws, \A w \in ws : Honest(w), NEW dest
  PROVE  \A w \in Held(dest, ws) : Honest(w)
<1> SUFFICES ASSUME NEW v \in Held(dest, ws) PROVE Honest(v)
  OBVIOUS
<1> DEFINE stays == {route, dest} \subseteq Editable
<1>1. PICK w \in ws : v = [w EXCEPT !.mine = w.mine /\ stays,
                                 !.key = IF w.mine /\ stays THEN dest ELSE w.key]
  BY DEF Held
<1> HIDE DEF stays
<1>2. Honest(w)
  OBVIOUS
<1>3. /\ {"loaded", "isNew", "of", "stack"} \subseteq DOMAIN v
      /\ v.loaded = w.loaded /\ v.isNew = w.isNew /\ v.of = w.of /\ v.stack = w.stack
  BY <1>1, <1>2 DEF Honest
<1> QED BY <1>2, <1>3 DEF Honest

(* Wherever the user goes, text that is shown is of the page.                *)
LEMMA GoesKeepsText == ASSUME TextIsOfPage, NEW dest, Goes(dest) PROVE TextIsOfPage'
BY DEF Goes, TextIsOfPage

(* The steps that leave the page, or the mutations, as they are.             *)
LEMMA TextRests == ASSUME TextIsOfPage, UNCHANGED <<route, textOf, shown>> PROVE TextIsOfPage'
BY DEF TextIsOfPage
LEMMA WorksRest == ASSUME WorksAreHonest, works' \subseteq works PROVE WorksAreHonest'
BY DEF WorksAreHonest
LEMMA StrayedRests == ASSUME SavesOwnStack, UNCHANGED strayed PROVE SavesOwnStack'
BY DEF SavesOwnStack

LEMMA GoInv == ASSUME EditorInv, NEW dest \in Pages, Go(dest) PROVE EditorInv'
<1>1. TextIsOfPage'
  BY GoesKeepsText DEF Go, EditorInv
<1>2. WorksAreHonest'
  BY HeldStaysHonest DEF Go, EditorInv, WorksAreHonest
<1>3. SavesOwnStack'
  BY StrayedRests DEF Go, EditorInv, editHistory
<1> QED BY <1>1, <1>2, <1>3 DEF EditorInv

(* The data of a query comes: the effect puts the text of its own stack into *)
(* the editor, if that is the stack on the page.                             *)
LEMMA LoadedInv == ASSUME EditorInv, NEW s \in Editable, Loaded(s) PROVE EditorInv'
<1>1. TextIsOfPage'
  <2>1. CASE UNCHANGED textVars
    BY <2>1, TextRests DEF Loaded, EditorInv, textVars
  <2>2. CASE route = s /\ textOf' = s
    BY <2>2 DEF Loaded, TextIsOfPage
  <2> QED BY <2>1, <2>2 DEF Loaded
<1>2. WorksAreHonest' /\ SavesOwnStack'
  BY WorksRest, StrayedRests DEF Loaded, EditorInv, mutationVars, editHistory
<1> QED BY <1>1, <1>2 DEF EditorInv

(* Nothing but the query's data and what is typed.                           *)
LEMMA QuietInv ==
  ASSUME EditorInv, UNCHANGED <<route, textOf, shown, works, strayed>> PROVE EditorInv'
BY TextRests, WorksRest, StrayedRests DEF EditorInv

(* A mutation starts with what the page knows, for the stack on the page or  *)
(* a new one.                                                                *)
LEMMA MutateInv ==
  ASSUME EditorInv, NEW kind, NEW s, NEW deploy \in BOOLEAN, NEW confirmed \in BOOLEAN,
         route \in {s, "new"},
         Mutate(kind, s, deploy, confirmed), UNCHANGED <<route, textOf, shown, strayed>>
  PROVE  EditorInv'
<1> DEFINE n == [kind |-> kind, stack |-> s, text |-> compose, of |-> textOf,
                 deploy |-> deploy,
                 isNew |-> route = "new", reviewed |-> confirmed, changes |-> FALSE,
                 loaded |-> shown, phase |-> "sent", key |-> route, mine |-> TRUE]
<1>1. Honest(n)
  BY DEF Honest, EditorInv, TextIsOfPage
<1>2. WorksAreHonest'
  BY <1>1 DEF Mutate, EditorInv, WorksAreHonest
<1> QED BY <1>2, TextRests, StrayedRests DEF EditorInv

LEMMA ClickInv ==
  ASSUME EditorInv,
         SaveClick \/ DeployClick \/ ConfirmDeploy \/ \E kind \in {"down", "delete"} : StopOrDelete(kind)
  PROVE  EditorInv'
<1> USE DEF editPageVars, textVars, editHistory, mutationVars
<1>1. CASE SaveClick
  <2>1. PICK s \in Editable : route \in {s, "new"} /\ Mutate("save", s, FALSE, FALSE)
    BY <1>1 DEF SaveClick
  <2>2. UNCHANGED <<route, textOf, shown, strayed>>
    BY <1>1 DEF SaveClick
  <2> QED BY <2>1, <2>2, MutateInv, Zenon
<1>2. CASE DeployClick
  <2>1. PICK s \in Editable :
          /\ route \in {s, "new"}
          /\ UNCHANGED mutationVars \/ Mutate("save", s, TRUE, FALSE)
    BY <1>2 DEF DeployClick
  <2>2. UNCHANGED <<route, textOf, shown, strayed>>
    BY <1>2 DEF DeployClick
  <2>3. CASE UNCHANGED mutationVars
    BY <2>2, <2>3, QuietInv
  <2>4. CASE Mutate("save", s, TRUE, FALSE)
    BY <2>1, <2>2, <2>4, MutateInv, Zenon
  <2> QED BY <2>1, <2>3, <2>4
<1>3. CASE ConfirmDeploy
  <2>1. PICK confirmed \in BOOLEAN : Mutate("save", route, TRUE, confirmed)
    BY <1>3 DEF ConfirmDeploy
  <2>2. UNCHANGED <<route, textOf, shown, strayed>>
    BY <1>3 DEF ConfirmDeploy
  <2> QED BY <2>1, <2>2, MutateInv, Zenon
<1>4. ASSUME NEW kind \in {"down", "delete"}, StopOrDelete(kind) PROVE EditorInv'
  <2>1. Mutate(kind, route, FALSE, FALSE)
    BY <1>4 DEF StopOrDelete
  <2>2. UNCHANGED <<route, textOf, shown, strayed>>
    BY <1>4 DEF StopOrDelete
  <2> QED BY <2>1, <2>2, MutateInv, Zenon
<1> QED BY <1>1, <1>2, <1>3, <1>4

(* The server's part of a mutation: it writes what the click carried.        *)
LEMMA ServerInv ==
  ASSUME EditorInv, NEW w \in works, Fails(w) \/ Writes(w) \/ Deploys(w) \/ StopsOrDeletes(w)
  PROVE  EditorInv'
<1> USE DEF editPageVars, textVars, editHistory
<1>1. Honest(w)
  BY DEF EditorInv, WorksAreHonest
<1>2. TextIsOfPage'
  BY TextRests DEF Fails, Writes, Deploys, StopsOrDeletes, EditorInv
<1>3. SavesOwnStack'
  <2>1. CASE Writes(w)
    BY <1>1, <2>1 DEF Writes, Honest, EditorInv, SavesOwnStack
  <2>2. CASE Fails(w) \/ Deploys(w) \/ StopsOrDeletes(w)
    BY <2>2, StrayedRests DEF Fails, Deploys, StopsOrDeletes, EditorInv
  <2> QED BY <2>1, <2>2
<1>4. WorksAreHonest'
  <2>1. ASSUME NEW v, Honest(v), Becomes(w, v) PROVE WorksAreHonest'
    BY <2>1 DEF Becomes, EditorInv, WorksAreHonest
  <2>2. ASSUME NEW p, NEW c PROVE Honest([w EXCEPT !.phase = p, !.changes = c])
    BY <1>1 DEF Honest
  <2>3. ASSUME NEW p PROVE Honest([w EXCEPT !.phase = p])
    BY <1>1 DEF Honest
  <2>4. CASE Fails(w)
    BY <2>4, WorksRest DEF Fails, EditorInv
  <2>5. CASE Writes(w)
    BY <2>1, <2>2, <2>5 DEF Writes
  <2>6. CASE Deploys(w) \/ StopsOrDeletes(w)
    BY <2>1, <2>3, <2>6 DEF Deploys, StopsOrDeletes
  <2> QED BY <2>4, <2>5, <2>6
<1> QED BY <1>2, <1>3, <1>4 DEF EditorInv

LEMMA SucceedsInv == ASSUME EditorInv, NEW w \in works, Succeeds(w) PROVE EditorInv'
<1>1. TextIsOfPage'
  BY GoesKeepsText, TextRests DEF Succeeds, EditorInv, editPageVars, textVars
<1>2. WorksAreHonest'
  <2>1. \A v \in works \ {w} : Honest(v)
    BY DEF EditorInv, WorksAreHonest
  <2>2. works' = works \ {w} \/ \E to : works' = Held(to, works \ {w})
    BY DEF Succeeds
  <2> QED BY <2>1, <2>2, HeldStaysHonest DEF WorksAreHonest
<1>3. SavesOwnStack'
  BY StrayedRests DEF Succeeds, EditorInv, editHistory
<1> QED BY <1>1, <1>2, <1>3 DEF EditorInv

LEMMA EditorStep == EditorInv /\ [EditorNext]_editorVars => EditorInv'
<1> SUFFICES ASSUME EditorInv, [EditorNext]_editorVars PROVE EditorInv'
  OBVIOUS
<1> USE DEF editQueryVars, editPageVars, textVars, mutationVars, editHistory
<1>1. CASE \E dest \in Pages : Go(dest)
  BY <1>1, GoInv
<1>2. ASSUME NEW s \in Editable, Answered(s) \/ Loaded(s) \/ OtherUserSaves(s)
      PROVE  EditorInv'
  BY <1>2, LoadedInv, QuietInv DEF Answered, OtherUserSaves
<1>3. CASE Edit \/ CancelDeploy \/ UNCHANGED editorVars
  BY <1>3, QuietInv DEF Edit, CancelDeploy, editorVars
<1>4. CASE SaveClick \/ DeployClick \/ ConfirmDeploy
           \/ \E kind \in {"down", "delete"} : StopOrDelete(kind)
  BY <1>4, ClickInv
<1>5. ASSUME NEW w \in works,
             Fails(w) \/ Writes(w) \/ Deploys(w) \/ StopsOrDeletes(w) \/ Succeeds(w)
      PROVE  EditorInv'
  BY <1>5, ServerInv, SucceedsInv
<1> QED BY <1>1, <1>2, <1>3, <1>4, <1>5 DEF EditorNext

(* The inductive invariant of the stack editor: shown text is of the page,   *)
(* and a mutation carries what its click knew (StackEdit.tsx).               *)
THEOREM EditorInvariant == EditorSpec => []EditorInv
BY EditorInitInv, EditorStep, PTL DEF EditorSpec

(* Once the page shows its stack no save puts another stack's text into it,  *)
(* for any stacks, texts and number of clicks (StackEdit.tsx:178-192).       *)
THEOREM EditorSavesOwnStack == EditorSpec => []SavesOwnStack
<1>1. EditorInv => SavesOwnStack  BY DEF EditorInv
<1> QED BY <1>1, EditorInvariant, PTL

-----------------------------------------------------------------------------
(* The texts there are, the mutations, and the modal of a stack's page.      *)
EditorTyped == EditorTypeOK /\ (diffOpen => route \in Editable)

LEMMA TextsTyped ==
  /\ \A p \in Pages : First(p) \in Text
  /\ \A k \in 0 .. MaxTexts : Typed(k) \in Text
  /\ \A t \in Text : {t} \in AtMostOne(Text)
  /\ {} \in AtMostOne(Text)
BY StackEditAssumption DEF First, Typed, Text, AtMostOne

LEMMA AtMostOneOf == ASSUME NEW S, NEW T \in AtMostOne(S), NEW x \in T PROVE x \in S /\ T = {x}
BY DEF AtMostOne

LEMMA EditorTypesInit == EditorInit => EditorTyped
<1> SUFFICES ASSUME EditorInit PROVE EditorTyped
  OBVIOUS
<1>1. \A s \in Editable : First(s) \in Text /\ s \in Pages
  BY TextsTyped DEF Pages
<1>2. Template \in Text
  BY TextsTyped DEF Template, Pages
<1>3. disk \in [Editable -> AtMostOne(Text)]
  BY <1>1, TextsTyped DEF EditorInit
<1>4. {} \in AtMostOne(Text)
  BY TextsTyped
<1>5. cache \in [Editable -> AtMostOne(Text)]
  BY <1>4 DEF EditorInit
<1>6. fetch \in [Editable -> [phase : {"idle", "sent", "answered"}, text : AtMostOne(Text)]]
  BY <1>4 DEF EditorInit, Resting
<1>7. texts \in 0 .. MaxTexts /\ clicks \in 0 .. MaxClicks
  BY StackEditAssumption DEF EditorInit
<1> QED BY <1>2, <1>3, <1>5, <1>6, <1>7 DEF EditorInit, EditorTyped, EditorTypeOK, Pages

(* Going to a page.                                                          *)
LEMMA GoesTyped ==
  ASSUME EditorTyped, NEW dest \in Pages, Goes(dest)
  PROVE  {route', textOf'} \subseteq Pages /\ compose' \in Text /\ {diffOpen', shown'} \subseteq BOOLEAN
         /\ (diffOpen' => route' \in Editable)
<1>1. Template \in Text
  BY TextsTyped DEF Template, Pages
<1>2. CASE dest \in Editable /\ cache[dest] # {}
  <2>1. cache[dest] \in AtMostOne(Text) /\ compose' \in cache[dest]
    BY <1>2 DEF EditorTyped, EditorTypeOK, Goes
  <2>2. compose' \in Text
    BY <2>1, AtMostOneOf
  <2> QED BY <1>2, <2>2 DEF EditorTyped, EditorTypeOK, Goes, Pages
<1>3. CASE ~(dest \in Editable /\ cache[dest] # {})
  BY <1>1, <1>3 DEF EditorTyped, EditorTypeOK, Goes, Pages
<1> QED BY <1>2, <1>3

LEMMA HeldTyped ==
  ASSUME NEW ws \in SUBSET Work, NEW dest \in Pages PROVE Held(dest, ws) \subseteq Work
<1> SUFFICES ASSUME NEW w \in ws
             PROVE  [w EXCEPT !.mine = w.mine /\ {route, dest} \subseteq Editable,
                              !.key = IF w.mine /\ {route, dest} \subseteq Editable THEN dest ELSE w.key] \in Work
  BY DEF Held
<1>1. w \in Work
  OBVIOUS
<1> QED BY <1>1 DEF Work

LEMMA RequestedTyped ==
  ASSUME EditorTyped, NEW s
  PROVE  Requested(s) \in [Editable -> [phase : {"idle", "sent", "answered"}, text : AtMostOne(Text)]]
BY TextsTyped DEF EditorTyped, EditorTypeOK, Requested

LEMMA GoTyped == ASSUME EditorTyped, NEW dest \in Pages, Go(dest) PROVE EditorTyped'
<1>1. {route', textOf'} \subseteq Pages /\ compose' \in Text /\ {diffOpen', shown'} \subseteq BOOLEAN
      /\ (diffOpen' => route' \in Editable)
  BY GoesTyped DEF Go
<1>2. works' \subseteq Work
  BY HeldTyped DEF Go, EditorTyped, EditorTypeOK
<1>3. fetch' \in [Editable -> [phase : {"idle", "sent", "answered"}, text : AtMostOne(Text)]]
  BY RequestedTyped DEF Go, EditorTyped, EditorTypeOK
<1> QED BY <1>1, <1>2, <1>3 DEF Go, EditorTyped, EditorTypeOK, editHistory

LEMMA QueryTyped ==
  ASSUME EditorTyped, NEW s \in Editable, Answered(s) \/ Loaded(s) \/ OtherUserSaves(s) PROVE EditorTyped'
<1>1. CASE Answered(s)
  <2>1. disk[s] \in AtMostOne(Text) /\ {} \in AtMostOne(Text)
    BY TextsTyped DEF EditorTyped, EditorTypeOK
  <2>2. fetch' \in [Editable -> [phase : {"idle", "sent", "answered"}, text : AtMostOne(Text)]]
    <3>1. \A r \in {Resting, [phase |-> "answered", text |-> disk[s]]} :
            r \in [phase : {"idle", "sent", "answered"}, text : AtMostOne(Text)]
      BY <2>1 DEF Resting
    <3>2. fetch' = [fetch EXCEPT ![s] = Resting] \/ fetch' = [fetch EXCEPT ![s] = [phase |-> "answered", text |-> disk[s]]]
      BY <1>1 DEF Answered
    <3>3. fetch \in [Editable -> [phase : {"idle", "sent", "answered"}, text : AtMostOne(Text)]]
      BY DEF EditorTyped, EditorTypeOK
    <3> QED BY <3>1, <3>2, <3>3
  <2> QED BY <1>1, <2>2 DEF Answered, EditorTyped, EditorTypeOK, editPageVars, textVars, mutationVars, editHistory
<1>2. CASE Loaded(s)
  <2>1. fetch[s] \in [phase : {"idle", "sent", "answered"}, text : AtMostOne(Text)]
    BY DEF EditorTyped, EditorTypeOK
  <2>2. fetch[s].text \in AtMostOne(Text) /\ {} \in AtMostOne(Text)
    BY <2>1, TextsTyped
  <2>3. fetch' \in [Editable -> [phase : {"idle", "sent", "answered"}, text : AtMostOne(Text)]]
        /\ cache' \in [Editable -> AtMostOne(Text)]
    BY <1>2, <2>2 DEF Loaded, EditorTyped, EditorTypeOK, Resting
  <2>4. compose' \in Text /\ textOf' \in Pages /\ shown' \in BOOLEAN
    <3>1. CASE UNCHANGED textVars
      BY <3>1 DEF EditorTyped, EditorTypeOK, textVars
    <3>2. CASE compose' \in fetch[s].text /\ textOf' = s /\ shown' = TRUE
      BY <2>2, <3>2, AtMostOneOf DEF Pages
    <3> QED BY <1>2, <3>1, <3>2 DEF Loaded
  <2> QED BY <1>2, <2>3, <2>4 DEF Loaded, EditorTyped, EditorTypeOK, mutationVars, editHistory
<1>3. CASE OtherUserSaves(s)
  <2>1. texts' \in 0 .. MaxTexts /\ texts + 1 \in 0 .. MaxTexts
    BY <1>3, StackEditAssumption DEF OtherUserSaves, EditorTyped, EditorTypeOK
  <2>2. {Typed(texts + 1)} \in AtMostOne(Text)
    BY <2>1, TextsTyped
  <2>3. disk' \in [Editable -> AtMostOne(Text)]
    BY <1>3, <2>2 DEF OtherUserSaves, EditorTyped, EditorTypeOK
  <2> QED BY <1>3, <2>1, <2>3 DEF OtherUserSaves, EditorTyped, EditorTypeOK, editQueryVars, editPageVars, textVars,
                                  mutationVars, editHistory
<1> QED BY <1>1, <1>2, <1>3

LEMMA EditTyped == EditorTyped /\ Edit => EditorTyped'
<1> SUFFICES ASSUME EditorTyped, Edit PROVE EditorTyped'
  OBVIOUS
<1>1. texts' \in 0 .. MaxTexts /\ texts + 1 \in 0 .. MaxTexts
  BY StackEditAssumption DEF Edit, EditorTyped, EditorTypeOK
<1>2. compose' \in Text
  BY <1>1, TextsTyped DEF Edit
<1> QED BY <1>1, <1>2 DEF Edit, EditorTyped, EditorTypeOK, editQueryVars, mutationVars, editHistory

(* A mutation begins.                                                        *)
LEMMA MutateTyped ==
  ASSUME EditorTyped, NEW kind \in {"save", "down", "delete"}, NEW s \in Editable, NEW deploy \in BOOLEAN,
         NEW confirmed \in BOOLEAN, Mutate(kind, s, deploy, confirmed)
  PROVE  works' \subseteq Work /\ clicks' \in 0 .. MaxClicks
<1> DEFINE n == [kind |-> kind, stack |-> s, text |-> compose, of |-> textOf,
                 deploy |-> deploy,
                 isNew |-> route = "new", reviewed |-> confirmed, changes |-> FALSE,
                 loaded |-> shown, phase |-> "sent", key |-> route, mine |-> TRUE]
<1>1. compose \in Text /\ textOf \in Pages /\ route \in Pages /\ shown \in BOOLEAN /\ works \subseteq Work
      /\ (route = "new") \in BOOLEAN
  BY DEF EditorTyped, EditorTypeOK
<1>2. n \in Work
  BY <1>1 DEF Work
<1>3. works' = works \cup {n}
  BY DEF Mutate
<1>4. clicks' \in 0 .. MaxClicks
  BY StackEditAssumption DEF Mutate, EditorTyped, EditorTypeOK
<1> HIDE DEF n
<1> QED BY <1>1, <1>2, <1>3, <1>4

LEMMA ClicksTyped ==
  ASSUME EditorTyped,
         SaveClick \/ DeployClick \/ ConfirmDeploy \/ CancelDeploy \/ \E kind \in {"down", "delete"} : StopOrDelete(kind)
  PROVE  EditorTyped'
<1> USE DEF editQueryVars, editPageVars, textVars, editHistory, mutationVars
<1>1. CASE SaveClick
  <2>1. PICK s \in Editable : Mutate("save", s, FALSE, FALSE)
    BY <1>1 DEF SaveClick
  <2>2. works' \subseteq Work /\ clicks' \in 0 .. MaxClicks
    BY <2>1, MutateTyped
  <2> QED BY <1>1, <2>2 DEF SaveClick, EditorTyped, EditorTypeOK
<1>2. CASE DeployClick
  <2>1. PICK s \in Editable :
          IF route = s /\ Unlike(s)
            THEN ~Busy /\ diffOpen' = TRUE /\ UNCHANGED mutationVars
            ELSE Mutate("save", s, TRUE, FALSE) /\ UNCHANGED diffOpen
    BY <1>2 DEF DeployClick
  <2>2. /\ works' \subseteq Work /\ clicks' \in 0 .. MaxClicks
        /\ diffOpen' \in BOOLEAN /\ (diffOpen' => route \in Editable)
    BY <2>1, MutateTyped DEF EditorTyped, EditorTypeOK
  <2> QED BY <1>2, <2>2 DEF DeployClick, EditorTyped, EditorTypeOK
<1>3. CASE ConfirmDeploy
  <2>1. Mutate("save", route, TRUE, cache[route] # {}) /\ route \in Editable
    BY <1>3 DEF ConfirmDeploy, EditorTyped
  <2>2. works' \subseteq Work /\ clicks' \in 0 .. MaxClicks
    BY <2>1, MutateTyped
  <2> QED BY <1>3, <2>2 DEF ConfirmDeploy, EditorTyped, EditorTypeOK
<1>4. CASE CancelDeploy
  BY <1>4 DEF CancelDeploy, EditorTyped, EditorTypeOK
<1>5. ASSUME NEW kind \in {"down", "delete"}, StopOrDelete(kind) PROVE EditorTyped'
  <2>1. works' \subseteq Work /\ clicks' \in 0 .. MaxClicks
    BY <1>5, MutateTyped DEF StopOrDelete
  <2> QED BY <1>5, <2>1 DEF StopOrDelete, EditorTyped, EditorTypeOK
<1> QED BY <1>1, <1>2, <1>3, <1>4, <1>5

(* The server's part, and the answer.                                        *)
LEMMA WorkTyped ==
  ASSUME EditorTyped, NEW w \in works,
         Fails(w) \/ Writes(w) \/ Deploys(w) \/ StopsOrDeletes(w) \/ Succeeds(w)
  PROVE  EditorTyped'
<1> USE DEF editQueryVars, editPageVars, textVars, editHistory, mutationVars
<1>1. w \in Work /\ works \subseteq Work
  BY DEF EditorTyped, EditorTypeOK
<1>2. w.stack \in Editable /\ {w.text} \in AtMostOne(Text) /\ {} \in AtMostOne(Text)
  BY <1>1, TextsTyped DEF Work
<1>3. CASE Fails(w)
  BY <1>1, <1>3 DEF Fails, EditorTyped, EditorTypeOK
<1>4. CASE Writes(w)
  <2>1. [w EXCEPT !.phase = IF w.deploy THEN "deploy" ELSE "done", !.changes = w.text \notin disk[w.stack]] \in Work
    BY <1>1 DEF Work
  <2>2. works' \subseteq Work
    BY <1>1, <1>4, <2>1 DEF Writes, Becomes
  <2>3. disk' \in [Editable -> AtMostOne(Text)] /\ strayed' \in BOOLEAN
    BY <1>2, <1>4 DEF Writes, EditorTyped, EditorTypeOK
  <2> QED BY <1>4, <2>2, <2>3 DEF Writes, EditorTyped, EditorTypeOK
<1>5. CASE Deploys(w)
  <2>1. [w EXCEPT !.phase = "done"] \in Work
    BY <1>1 DEF Work
  <2>2. works' \subseteq Work /\ unreviewed' \in BOOLEAN
    BY <1>1, <1>5, <2>1 DEF Deploys, Becomes, EditorTyped, EditorTypeOK
  <2> QED BY <1>5, <2>2 DEF Deploys, EditorTyped, EditorTypeOK
<1>6. CASE StopsOrDeletes(w)
  <2>1. [w EXCEPT !.phase = "done"] \in Work
    BY <1>1 DEF Work
  <2>2. works' \subseteq Work
    BY <1>1, <1>6, <2>1 DEF StopsOrDeletes, Becomes
  <2>3. disk' \in [Editable -> AtMostOne(Text)]
    BY <1>2, <1>6 DEF StopsOrDeletes, EditorTyped, EditorTypeOK
  <2> QED BY <1>6, <2>2, <2>3 DEF StopsOrDeletes, EditorTyped, EditorTypeOK
<1>7. CASE Succeeds(w)
  <2> DEFINE rest == works \ {w}
             to == IF w.kind = "save" /\ w.key = "new" THEN w.stack
                   ELSE IF w.kind = "delete" THEN "elsewhere" ELSE route
  <2>1. rest \subseteq Work /\ to \in Pages
    BY <1>1, <1>2 DEF EditorTyped, EditorTypeOK, Pages
  <2>2. fetch' \in [Editable -> [phase : {"idle", "sent", "answered"}, text : AtMostOne(Text)]]
    <3>1. fetch' \in {fetch, Requested(route), Requested(to)}
      BY <1>7 DEF Succeeds
    <3>2. fetch \in [Editable -> [phase : {"idle", "sent", "answered"}, text : AtMostOne(Text)]]
      BY DEF EditorTyped, EditorTypeOK
    <3> QED BY <3>1, <3>2, RequestedTyped
  <2>3. CASE to = route
    BY <1>7, <2>1, <2>2, <2>3 DEF Succeeds, EditorTyped, EditorTypeOK
  <2>4. CASE to # route
    <3>1. Goes(to) /\ works' = Held(to, rest)
      BY <1>7, <2>4 DEF Succeeds
    <3>2. works' \subseteq Work
      BY <2>1, <3>1, HeldTyped
    <3>3. {route', textOf'} \subseteq Pages /\ compose' \in Text /\ {diffOpen', shown'} \subseteq BOOLEAN
          /\ (diffOpen' => route' \in Editable)
      BY <2>1, <3>1, GoesTyped
    <3> QED BY <1>7, <2>2, <3>2, <3>3 DEF Succeeds, EditorTyped, EditorTypeOK
  <2> QED BY <2>3, <2>4
<1> QED BY <1>3, <1>4, <1>5, <1>6, <1>7

LEMMA EditorTypesStep == EditorTyped /\ [EditorNext]_editorVars => EditorTyped'
<1> SUFFICES ASSUME EditorTyped, [EditorNext]_editorVars PROVE EditorTyped'
  OBVIOUS
<1>1. CASE UNCHANGED editorVars
  BY <1>1 DEF editorVars, editQueryVars, editPageVars, textVars, mutationVars, editHistory, EditorTyped, EditorTypeOK
<1>2. CASE EditorNext
  BY <1>2, GoTyped, QueryTyped, EditTyped, ClicksTyped, WorkTyped DEF EditorNext
<1> QED BY <1>1, <1>2

LEMMA EditorTypes == EditorSpec => []EditorTypeOK
<1>1. EditorTyped => EditorTypeOK
  BY DEF EditorTyped
<1> QED BY <1>1, EditorTypesInit, EditorTypesStep, PTL DEF EditorSpec

(***************************************************************************)
(* Signing in and out (Session).                                           *)
(***************************************************************************)

Called == [does : Does, phase : {"sent", "answered"}, answer : Answers, user : SUBSET Grants, gone : BOOLEAN]

(* A status under way that says somebody is signed in was read from a        *)
(* session that is still there; and a browser that shows somebody is told    *)
(* soon if the session is over: by the answer to the logout that ended it.   *)
ReadFromSession ==
  \A c \in calls : c.does \in Statuses /\ c.phase = "answered" /\ c.answer = "ok" /\ c.user # {} => cookie = "in"
LogoutAnswered == \E c \in calls : c.does = "logout" /\ c.phase = "answered" /\ c.answer = "ok"
Shown == SignedIn => cookie = "in" \/ LogoutAnswered

SessionInv ==
  /\ calls \subseteq Called /\ account \in Grants
  /\ cookie \in {"none", "awaiting", "in"} /\ late \in BOOLEAN
  /\ ~late => ReadFromSession /\ Shown

(* The routes accept what the pages offer, whoever asks and whatever flags   *)
(* the page has seen, but for the features that are off by now.              *)
LEMMA PagesOfferRoutes ==
  ASSUME NEW u, NEW seen, NEW on
  PROVE  Offered(u, seen) \ Accepted(u, on) \subseteq SettingsOwn \cup UNION {Gated(f) : f \in seen \ on}
<1> DEFINE excepted == SettingsOwn \cup UNION {Gated(f) : f \in seen \ on}
<1>1. "aiAssistant" \in seen \ on => {"ai.diagnose", "ai.generate", "ai.chat"} \subseteq excepted
  <2>1. Gated("aiAssistant") = {"ai.diagnose", "ai.generate", "ai.chat"}
    BY DEF Gated
  <2> QED BY <2>1
<1>2. "vulnerabilityScanner" \in seen \ on => "trivy.scan" \in excepted
  <2>1. "trivy.scan" \in Gated("vulnerabilityScanner")
    BY DEF Gated
  <2> QED BY <2>1
<1>3. SettingsQueries \subseteq excepted /\ "ai.models" \in excepted
  BY DEF SettingsOwn
<1> HIDE DEF excepted
<1> USE DEF When
<1>4. ContainersControls(u) \subseteq ContainerRoutes(u)
  BY DEF ContainersControls, ContainerRoutes
<1>5. ContainerDetailControls(u, seen) \subseteq ContainerRoutes(u) \cup Upgrades(u, on) \cup excepted
  BY <1>1 DEF ContainerDetailControls, ContainerRoutes, Upgrades
<1>6. ImagesControls(u, seen) \subseteq ImageRoutes(u) \cup IntegrationRoutes(u, on) \cup excepted
  BY <1>2 DEF ImagesControls, ImageRoutes, IntegrationRoutes
<1>7. VolumesControls(u) \subseteq VolumeRoutes(u) /\ NetworksControls(u) \subseteq NetworkRoutes(u)
  BY DEF VolumesControls, VolumeRoutes, NetworksControls, NetworkRoutes
<1>8. StacksControls(u) \subseteq StackRoutes(u)
  BY DEF StacksControls, StackRoutes
<1>9. StackEditControls(u, seen) \subseteq StackRoutes(u) \cup Upgrades(u, on) \cup excepted
  BY <1>1 DEF StackEditControls, StackRoutes, Upgrades
<1>10. LayoutControls(u, seen) \subseteq HostRoutes(u) \cup SettingsRoutes(u) \cup Upgrades(u, on) \cup excepted
  BY <1>1 DEF LayoutControls, HostRoutes, SettingsRoutes, Upgrades
<1>11. SettingsControls(u) \subseteq SettingsRoutes(u) \cup AdminRouters(u) \cup ImageRoutes(u) \cup excepted
  BY <1>3 DEF SettingsControls, SettingsRoutes, AdminRouters, ImageRoutes, HasPermission
<1>12. When(u.admin, UsersControls \cup HostsControls \cup AuditLogControls)
         \subseteq HostRoutes(u) \cup AdminRouters(u) \cup SettingsRoutes(u)
  BY DEF UsersControls, HostsControls, AuditLogControls, HostRoutes, AdminRouters, SettingsRoutes
<1> HIDE DEF When
<1>13. Offered(u, seen) \subseteq Accepted(u, on) \cup excepted
  BY <1>3, <1>4, <1>5, <1>6, <1>7, <1>8, <1>9, <1>10, <1>11, <1>12 DEF Offered, Accepted
<1> QED BY <1>13 DEF excepted

LEMMA SessionInitInv == SessionInit => SessionInv
<1> SUFFICES ASSUME SessionInit PROVE SessionInv
  OBVIOUS
<1>0. Call("status") \in Called /\ Call("status").phase = "sent"
  BY DEF Call, Called, Does, Statuses, Answers
<1>1. calls = {Call("status")} /\ ~SignedIn
  BY DEF SessionInit, SignedIn, User, UserIn
<1>2. ReadFromSession
  BY <1>0, <1>1 DEF ReadFromSession
<1> QED BY <1>0, <1>1, <1>2 DEF SessionInit, SessionInv, Shown

(* An answer takes the place of its request.                                 *)
LEMMA RepliedTyped ==
  ASSUME calls \subseteq Called, NEW c \in calls, NEW answer \in Answers, NEW user \in SUBSET Grants
  PROVE  \E a \in Called : /\ Replied(c, answer, user) = (calls \ {c}) \cup {a}
                           /\ a.does = c.does /\ a.phase = "answered" /\ a.answer = answer /\ a.user = user
<1> DEFINE a == [c EXCEPT !.phase = "answered", !.answer = answer, !.user = user]
<1>1. a \in Called /\ a.does = c.does /\ a.phase = "answered" /\ a.answer = answer /\ a.user = user
  BY DEF Called
<1> QED BY <1>1 DEF Replied

(* A request whose page is left is what it was otherwise.                    *)
Same(c, d) == d.does = c.does /\ d.phase = c.phase /\ d.answer = c.answer /\ d.user = c.user
LEMMA OrphanedSame ==
  ASSUME NEW cs \in SUBSET Called
  PROVE  /\ Orphaned(cs) \subseteq Called
         /\ \A d \in Orphaned(cs) : \E c \in cs : Same(c, d)
         /\ \A c \in cs : \E d \in Orphaned(cs) : Same(c, d)
<1> DEFINE left(c) == [c EXCEPT !.gone = c.gone \/ c.does \in {"login", "startOver"}]
<1>1. Orphaned(cs) = {left(c) : c \in cs}
  BY DEF Orphaned
<1>2. \A c \in cs : left(c) \in Called /\ Same(c, left(c))
  BY DEF Called, Same
<1> HIDE DEF left
<1> QED BY <1>1, <1>2

(* A step that leaves the session and what is shown alone.                   *)
LEMMA SessionRestsInv ==
  ASSUME SessionInv, UNCHANGED <<account, cookie, status>>, calls' \subseteq Called,
         ReadFromSession => ReadFromSession',
         late' \in BOOLEAN, late => late',
         late' \/ (LogoutAnswered => LogoutAnswered')
  PROVE  SessionInv'
<1>1. SignedIn' = SignedIn
  BY DEF SignedIn, User, UserIn
<1>2. ~late' => ReadFromSession' /\ Shown'
  BY <1>1 DEF SessionInv, Shown
<1> QED BY <1>2 DEF SessionInv

LEMMA NothingRead ==
  ASSUME UNCHANGED cookie,
         \A c \in calls' \ calls :
           c.does \in Statuses /\ c.phase = "answered" /\ c.answer = "ok" /\ c.user # {} => cookie = "in"
  PROVE  ReadFromSession => ReadFromSession'
BY DEF ReadFromSession

(* A logout that was answered goes on being, as long as its answer is there. *)
LEMMA LogoutStays ==
  ASSUME \A c \in calls \ calls' : c.does # "logout" \/ c.phase # "answered" \/ c.answer # "ok"
  PROVE  LogoutAnswered => LogoutAnswered'
BY DEF LogoutAnswered

(* The sign-in page is left, or left and opened again.                       *)
LEMMA VisitsKeeps ==
  ASSUME calls \subseteq Called, UNCHANGED cookie, NEW cs \in SUBSET calls, calls' = Orphaned(cs)
  PROVE  /\ calls' \subseteq Called
         /\ ReadFromSession => ReadFromSession'
         /\ (\A c \in calls \ cs : c.does # "logout") => (LogoutAnswered => LogoutAnswered')
<1>1. /\ calls' \subseteq Called
      /\ \A d \in calls' : \E c \in cs : Same(c, d)
      /\ \A c \in cs : \E d \in calls' : Same(c, d)
  BY OrphanedSame
<1>2. ReadFromSession => ReadFromSession'
  BY <1>1 DEF ReadFromSession, Same
<1>3. ASSUME \A c \in calls \ cs : c.does # "logout", LogoutAnswered PROVE LogoutAnswered'
  <2>1. PICK c \in cs : c.does = "logout" /\ c.phase = "answered" /\ c.answer = "ok"
    BY <1>3 DEF LogoutAnswered
  <2> QED BY <1>1, <2>1 DEF LogoutAnswered, Same
<1> QED BY <1>1, <1>2, <1>3

(* The server changes the session and answers.                               *)
LEMMA ChangesInv ==
  ASSUME SessionInv, NEW c \in calls, NEW answer \in Answers, NEW session \in {"none", "awaiting", "in"},
         NEW behind \in BOOLEAN, c.phase = "sent", c.does \notin Statuses,
         Changes(session, behind), calls' = Replied(c, answer, {}),
         session = "in" \/ behind \/ ~SignedIn \/ (c.does = "logout" /\ answer = "ok"),
         UNCHANGED <<account, status>>
  PROVE  SessionInv'
<1>1. PICK a \in Called : /\ calls' = (calls \ {c}) \cup {a} /\ a.does = c.does
                          /\ a.phase = "answered" /\ a.answer = answer
  BY RepliedTyped DEF SessionInv
<1>2. cookie' = session /\ late' = (late \/ (session # cookie /\ (StatusRead \/ behind)))
  BY DEF Changes
<1>3. SignedIn' = SignedIn
  BY DEF SignedIn, User, UserIn
<1>4. late' \in BOOLEAN /\ calls' \subseteq Called
  BY <1>1, <1>2 DEF SessionInv
<1>5. ASSUME ~late' PROVE ReadFromSession' /\ Shown'
  <2>1. ~late /\ ReadFromSession /\ Shown
    BY <1>2, <1>5 DEF SessionInv
  <2>2. session = cookie \/ (~StatusRead /\ ~behind)
    BY <1>2, <1>5
  <2>3. ReadFromSession'
    BY <1>1, <1>2, <2>1, <2>2 DEF ReadFromSession, StatusRead
  <2>4. LogoutAnswered => LogoutAnswered'
    BY <1>1, LogoutStays
  <2>5. c.does = "logout" /\ answer = "ok" => LogoutAnswered'
    BY <1>1 DEF LogoutAnswered
  <2>6. Shown'
    BY <1>2, <1>3, <2>1, <2>2, <2>4, <2>5 DEF Shown
  <2> QED BY <2>3, <2>6
<1> QED BY <1>2, <1>4, <1>5 DEF SessionInv

(* The server answers, to a status what the session says.                    *)
LEMMA SessionServerInv ==
  ASSUME SessionInv, NEW c \in calls,
         ServesStatus(c) \/ ServesLogin(c) \/ ServesVerify(c) \/ ServesTotp(c) \/ ServesLogout(c)
  PROVE  SessionInv'
<1>1. c.phase = "sent" /\ UNCHANGED <<account, status>>
  BY DEF ServesStatus, ServesLogin, ServesVerify, ServesTotp, ServesLogout, serverVars, browserVars
<1>2. {account} \in SUBSET Grants /\ {"ok", "totp", "error"} \subseteq Answers
  BY DEF SessionInv, Answers
<1>3. ASSUME NEW answer \in Answers, NEW user \in SUBSET Grants, calls' = Replied(c, answer, user),
             c.does \notin Statuses \/ user = {} \/ cookie = "in", UNCHANGED <<cookie, late>>
      PROVE  SessionInv'
  <2>1. PICK a \in Called : /\ calls' = (calls \ {c}) \cup {a} /\ a.does = c.does
                            /\ a.phase = "answered" /\ a.user = user
    BY <1>3, RepliedTyped DEF SessionInv
  <2>2. LogoutAnswered => LogoutAnswered'
    BY <1>1, <2>1, LogoutStays
  <2>3. ReadFromSession => ReadFromSession'
    BY <1>3, <2>1, NothingRead
  <2> QED BY <1>1, <1>3, <2>1, <2>2, <2>3, SessionRestsInv DEF SessionInv
<1>4. CASE ServesStatus(c)
  BY <1>2, <1>3, <1>4 DEF ServesStatus, serverVars
<1>5. CASE ServesLogin(c) \/ ServesVerify(c)
  <2>1. c.does \notin Statuses /\ SignedIn \in BOOLEAN
    BY <1>5 DEF ServesLogin, ServesVerify, Statuses, SignedIn
  <2>2. CASE calls' = Replied(c, "error", {}) /\ UNCHANGED <<cookie, late>>
    BY <1>2, <1>3, <2>1, <2>2
  <2>3. CASE Changes(IF totp THEN "awaiting" ELSE "in", SignedIn) /\ calls' = Replied(c, IF totp THEN "totp" ELSE "ok", {})
    BY <1>1, <1>2, <2>1, <2>3, ChangesInv
  <2>4. CASE Changes("in", FALSE) /\ calls' = Replied(c, "ok", {})
    BY <1>1, <1>2, <2>1, <2>4, ChangesInv
  <2> QED BY <1>5, <2>2, <2>3, <2>4 DEF ServesLogin, ServesVerify
<1>6. CASE ServesTotp(c)
  <2>1. c.does \notin Statuses
    BY <1>6 DEF ServesTotp, Statuses
  <2> QED BY <1>2, <1>3, <1>6, <2>1 DEF ServesTotp
<1>7. CASE ServesLogout(c)
  <2>1. c.does \notin Statuses /\ (c.does = "startOver" /\ SignedIn) \in BOOLEAN
    BY <1>7 DEF ServesLogout, Statuses, SignedIn
  <2> QED BY <1>1, <1>2, <1>7, <2>1, ChangesInv DEF ServesLogout
<1> QED BY <1>4, <1>5, <1>6, <1>7

LEMMA AsksInv ==
  ASSUME SessionInv, NEW does \in Does, Asks(does) PROVE SessionInv'
<1>1. Call(does) \in Called /\ Call(does).phase = "sent"
  BY DEF Call, Called, Answers
<1>2. calls' = calls \cup {Call(does)} /\ UNCHANGED <<account, cookie, status, late>>
  BY DEF Asks, serverVars, browserVars
<1>3. (LogoutAnswered => LogoutAnswered') /\ (ReadFromSession => ReadFromSession')
  BY <1>1, <1>2, LogoutStays, NothingRead
<1> QED BY <1>1, <1>2, <1>3, SessionRestsInv DEF SessionInv

(* What the user clicks.                                                     *)
LEMMA ClicksInv ==
  ASSUME SessionInv,
         Retry \/ SubmitLogin \/ SubmitTotp \/ StartOver \/ Logout \/ ToggleTotp
  PROVE  SessionInv'
<1>1. {"status", "login", "verify", "startOver", "logout", "totp"} \subseteq Does
  BY DEF Does, Statuses
<1> QED BY <1>1, AsksInv DEF Retry, SubmitLogin, SubmitTotp, StartOver, Logout, ToggleTotp

LEMMA LosesInv ==
  ASSUME SessionInv, NEW c \in calls, Loses(c) PROVE SessionInv'
<1>0. "error" \in Answers /\ {} \in SUBSET Grants /\ calls' = Replied(c, "error", {})
  BY DEF Answers, Loses
<1>1. PICK a \in Called : calls' = (calls \ {c}) \cup {a} /\ a.answer = "error"
  BY <1>0, RepliedTyped DEF SessionInv
<1>2. late' = (late \/ (c.answer = "ok" /\ c.does \in {"logout", "startOver"}))
      /\ UNCHANGED <<account, cookie, status>>
  BY DEF Loses, serverVars, browserVars
<1>3. late' \/ (LogoutAnswered => LogoutAnswered')
  BY <1>1, <1>2, LogoutStays
<1>4. ReadFromSession => ReadFromSession'
  BY <1>1, <1>2, NothingRead
<1> QED BY <1>1, <1>2, <1>3, <1>4, SessionRestsInv DEF SessionInv

(* The browser gets an answer that changes neither what it shows nor the     *)
(* session.                                                                  *)
LEMMA GoesOnInv ==
  ASSUME SessionInv, NEW c \in calls, Proceeds(c) \/ StartsOver(c) PROVE SessionInv'
<1>1. c.does # "logout" /\ UNCHANGED <<account, cookie, status, late>>
  BY DEF Proceeds, StartsOver, serverVars
<1>2. \A does \in {"statusOfModal", "statusOfLogin"} : Call(does) \in Called /\ Call(does).phase = "sent"
  BY DEF Call, Called, Answers, Does, Statuses
<1>3. calls' \in {calls \ {c}, (calls \ {c}) \cup {Call("statusOfModal")}, (calls \ {c}) \cup {Call("statusOfLogin")}}
  BY DEF Proceeds, StartsOver
<1>4. (LogoutAnswered => LogoutAnswered') /\ (ReadFromSession => ReadFromSession')
  BY <1>1, <1>2, <1>3, LogoutStays, NothingRead
<1> QED BY <1>1, <1>2, <1>3, <1>4, SessionRestsInv DEF SessionInv

LEMMA GetsStatusInv ==
  ASSUME SessionInv, NEW c \in calls, GetsStatus(c) PROVE SessionInv'
<1>1. calls' \in {calls \ {c}, Orphaned(calls \ {c})} /\ c.does # "logout" /\ UNCHANGED <<account, cookie, late>>
  BY DEF GetsStatus, Visits, Statuses, serverVars
<1>2. calls' \subseteq Called /\ (LogoutAnswered => LogoutAnswered') /\ (ReadFromSession => ReadFromSession')
  <2>1. CASE calls' = calls \ {c}
    BY <1>1, <2>1, LogoutStays, NothingRead DEF SessionInv
  <2>2. CASE calls' = Orphaned(calls \ {c})
    BY <1>1, <2>2, VisitsKeeps DEF SessionInv
  <2> QED BY <1>1, <2>1, <2>2
<1>3. ASSUME ~late PROVE Shown'
  <2>1. CASE c.answer = "ok"
    <3>1. User' = c.user
      BY <2>1 DEF GetsStatus, User, UserIn
    <3>2. c.user # {} => cookie = "in"
      BY <1>3, <2>1 DEF SessionInv, ReadFromSession, GetsStatus
    <3> QED BY <1>1, <3>1, <3>2 DEF Shown, SignedIn
  <2>2. CASE c.answer # "ok"
    <3>1. UNCHANGED status
      BY <2>2 DEF GetsStatus
    <3> QED BY <1>1, <1>2, <1>3, <3>1 DEF SessionInv, Shown, SignedIn, User, UserIn
  <2> QED BY <2>1, <2>2
<1> QED BY <1>1, <1>2, <1>3 DEF SessionInv

LEMMA LogsOutInv ==
  ASSUME SessionInv, NEW c \in calls, LogsOut(c) PROVE SessionInv'
<1>1. calls' = calls \ {c} /\ UNCHANGED <<account, cookie, late>>
  BY DEF LogsOut, serverVars
<1>2. ASSUME ~late PROVE Shown'
  <2>1. CASE c.answer = "ok"
    BY <2>1 DEF LogsOut, Shown, SignedIn, User, UserIn
  <2>2. CASE c.answer # "ok"
    <3>1. LogoutAnswered => LogoutAnswered'
      BY <1>1, <2>2, LogoutStays
    <3> QED BY <1>1, <1>2, <2>2, <3>1 DEF LogsOut, SessionInv, Shown, SignedIn, User, UserIn
  <2> QED BY <2>1, <2>2
<1> QED BY <1>1, <1>2 DEF SessionInv, ReadFromSession

(* A page that is loaded again shows nobody and has one status under way.    *)
LEMMA ReloadInv ==
  ASSUME SessionInv, NEW dest, Reload(dest), UNCHANGED <<account, cookie, late>>
  PROVE  SessionInv'
<1>1. Call("status") \in Called /\ Call("status").phase = "sent" /\ calls' = {Call("status")} /\ status' = {}
  BY DEF Call, Called, Answers, Does, Statuses, Reload
<1>2. ~SignedIn'
  BY <1>1 DEF SignedIn, User, UserIn
<1> QED BY <1>1, <1>2 DEF SessionInv, ReadFromSession, Shown

(* What leaves the session, the copy of the user and the requests alone: the *)
(* settings, among others.                                                   *)
LEMMA UntouchedInv ==
  ASSUME SessionInv, UNCHANGED <<account, cookie, status, calls, late>> PROVE SessionInv'
<1>1. (LogoutAnswered => LogoutAnswered') /\ (ReadFromSession => ReadFromSession')
  BY DEF LogoutAnswered, ReadFromSession
<1> QED BY <1>1, SessionRestsInv DEF SessionInv

LEMMA SettingsQueryInv ==
  ASSUME SessionInv, AsksSettings \/ ServesSettings \/ GetsSettings \/ LosesSettings PROVE SessionInv'
<1>1. CASE UNCHANGED <<account, cookie, status, calls, late>>
  BY <1>1, UntouchedInv
<1>2. CASE GetsSettings /\ Reload("login")
  BY <1>2, ReloadInv DEF GetsSettings, serverVars
<1> QED BY <1>1, <1>2 DEF AsksSettings, ServesSettings, GetsSettings, LosesSettings, serverVars, browserVars

(* The rest of what happens in the browser, and what an administrator does.  *)
LEMMA OthersInv ==
  ASSUME SessionInv, LoadPage \/ Back \/ Request \/ AdminChanges \/ SwitchFeature \/ UNCHANGED sessionVars
  PROVE  SessionInv'
<1>1. CASE LoadPage \/ Request
  BY <1>1, ReloadInv DEF LoadPage, Request, serverVars
<1>2. CASE SwitchFeature \/ UNCHANGED sessionVars
  BY <1>2, UntouchedInv DEF SwitchFeature, sessionVars, serverVars, browserVars
<1>3. CASE Back
  <2>1. calls' = Orphaned(calls) /\ UNCHANGED <<account, cookie, status, late>>
    BY <1>3 DEF Back, Visits, serverVars
  <2>2. calls' \subseteq Called /\ (LogoutAnswered => LogoutAnswered') /\ (ReadFromSession => ReadFromSession')
    BY <2>1, VisitsKeeps DEF SessionInv
  <2> QED BY <2>1, <2>2, SessionRestsInv DEF SessionInv
<1>4. CASE AdminChanges
  <2>1. UNCHANGED <<status, calls>>
    BY <1>4 DEF AdminChanges, browserVars
  <2>2. CASE account' \in Grants /\ UNCHANGED <<cookie, late>>
    BY <2>1, <2>2 DEF SessionInv, ReadFromSession, Shown, SignedIn, User, UserIn, LogoutAnswered
  <2>3. CASE cookie' = "none" /\ late' = TRUE /\ UNCHANGED account
    BY <2>1, <2>3 DEF SessionInv
  <2> QED BY <1>4, <2>2, <2>3 DEF AdminChanges
<1> QED BY <1>1, <1>2, <1>3, <1>4

LEMMA SessionStep == SessionInv /\ [SessionNext]_sessionVars => SessionInv'
BY SessionServerInv, ClicksInv, LosesInv, GoesOnInv, GetsStatusInv, LogsOutInv, SettingsQueryInv, OthersInv
   DEF SessionNext

(* A browser that shows somebody as signed in has a session, unless the      *)
(* session ended behind its back or a status was read before it changed; and *)
(* the routes refuse nothing that a page offers to a current user, but for   *)
(* what the settings page asks by itself and for what a feature gates that   *)
(* the page takes for being on, its settings missing or old, and that is     *)
(* off. For any accounts and flags and any order of requests and answers     *)
(* (auth.tsx, Login.tsx, the pages and the routers).                         *)
THEOREM SessionAsShown == SessionSpec => []SessionIsTrue
<1>1. OfferedIsAccepted
  BY PagesOfferRoutes DEF OfferedIsAccepted
<1>2. SessionInv => SessionIsTrue
  BY <1>1 DEF SessionInv, SessionIsTrue, SignedInIsTrue, Shown, LogoutAnswered
<1>3. SessionSpec => []SessionInv
  BY SessionInitInv, SessionStep, PTL DEF SessionSpec
<1> QED BY <1>2, <1>3, PTL

-----------------------------------------------------------------------------
LEMMA AtMostOneCounts == ASSUME NEW S, \A x, y \in S : x = y PROVE Cardinality(S) <= 1
<1>1. CASE S = {}
  <2>1. Cardinality(S) = 0
    BY <1>1, FS_EmptySet
  <2> QED BY <2>1
<1>2. CASE S # {}
  <2>1. PICK x \in S : S = {x}
    BY <1>2
  <2>2. Cardinality({x}) = 1
    BY FS_Singleton
  <2> QED BY <2>1, <2>2
<1> QED BY <1>1, <1>2

(* Requests of one button, and the status its handler asks for then: there   *)
(* is one of them under way.                                                 *)
Group(does) == CASE does \in Submitting -> Submitting
                 [] does \in {"totp", "statusOfModal"} -> {"totp", "statusOfModal"}
                 [] OTHER -> {does}
OneOfGroup == \A c, d \in calls : d.does \in Group(c.does) => c = d

FlagsTyped ==
  /\ features \subseteq Features
  /\ knownFlags \subseteq SUBSET Features /\ (\A s, t \in knownFlags : s = t)
  /\ flagsQuery \in [phase : {"idle", "asked", "answered", "refused"}, flags : SUBSET Features]
SessionMore ==
  /\ totp \in BOOLEAN /\ awaitingTotp \in BOOLEAN /\ failed \in BOOLEAN
  /\ at \in {"login", "app"}
  /\ status \subseteq [user : SUBSET Grants] /\ (\A s, t \in status : s = t)
  /\ FlagsTyped
  /\ grants \in 0 .. MaxGrants /\ reloads \in 0 .. MaxReloads
  /\ OneOfGroup

LEMMA GroupHas == \A does : does \in Group(does)
BY DEF Group

LEMMA SessionTypesAreOK == SessionInv /\ SessionMore => SessionTypeOK
<1> SUFFICES ASSUME SessionInv, SessionMore PROVE SessionTypeOK
  OBVIOUS
<1>1. Cardinality(status) <= 1 /\ Cardinality(knownFlags) <= 1
  BY AtMostOneCounts DEF SessionMore, FlagsTyped
<1>2. \A c, d \in calls : c.does = d.does => c = d
  BY GroupHas DEF SessionMore, OneOfGroup
<1> QED BY <1>1, <1>2 DEF SessionInv, SessionMore, FlagsTyped, SessionTypeOK, Called

LEMMA SessionMoreInit == SessionInit => SessionMore
<1> SUFFICES ASSUME SessionInit PROVE SessionMore
  OBVIOUS
<1>1. \A c, d \in calls : c = d
  BY DEF SessionInit
<1>2. OneOfGroup
  BY <1>1 DEF OneOfGroup
<1>3. grants \in 0 .. MaxGrants /\ reloads \in 0 .. MaxReloads
  <2>1. MaxGrants \in Nat /\ MaxReloads \in Nat
    BY SessionAssumption
  <2>2. grants = 0 /\ reloads = 0
    BY DEF SessionInit
  <2> QED BY <2>1, <2>2
<1>4. status = {} /\ totp \in BOOLEAN /\ awaitingTotp = FALSE /\ failed = FALSE /\ at = "app"
  BY DEF SessionInit
<1>5. FlagsTyped
  BY DEF SessionInit, FlagsTyped, NotAsked
<1> QED BY <1>2, <1>3, <1>4, <1>5 DEF SessionMore

(* A request that is answered, or gone, leaves no more of them.              *)
LEMMA RepliedOne ==
  ASSUME SessionInv, OneOfGroup, NEW c \in calls, NEW answer, NEW user, calls' = Replied(c, answer, user)
  PROVE  OneOfGroup'
<1> DEFINE a == [c EXCEPT !.phase = "answered", !.answer = answer, !.user = user]
<1>1. a.does = c.does
  BY DEF SessionInv, Called
<1>2. calls' = (calls \ {c}) \cup {a}
  BY DEF Replied
<1> HIDE DEF a
<1>3. \A d \in calls' : d = a \/ d \in calls \ {c}
  BY <1>2
<1>4. \A d, e \in calls' : e.does \in Group(d.does) => d = e
  BY <1>1, <1>3 DEF OneOfGroup
<1> QED BY <1>4 DEF OneOfGroup, Group

LEMMA GoneOne == ASSUME OneOfGroup, calls' \subseteq calls PROVE OneOfGroup'
<1>1. \A d, e \in calls' : e.does \in Group(d.does) => d = e
  BY DEF OneOfGroup
<1> QED BY <1>1 DEF OneOfGroup, Group

LEMMA OrphanedOne ==
  ASSUME SessionInv, OneOfGroup, NEW cs \in SUBSET calls, calls' = Orphaned(cs) PROVE OneOfGroup'
<1> DEFINE left(c) == [c EXCEPT !.gone = c.gone \/ c.does \in {"login", "startOver"}]
<1>1. calls' = {left(c) : c \in cs}
  BY DEF Orphaned
<1>2. \A c \in cs : left(c).does = c.does
  BY DEF SessionInv, Called
<1> HIDE DEF left
<1>3. \A d, e \in calls' : e.does \in Group(d.does) => d = e
  BY <1>1, <1>2 DEF OneOfGroup
<1> QED BY <1>3 DEF OneOfGroup, Group

LEMMA LandsOn == ASSUME NEW dest \in {"login", "app"}, NEW seen PROVE Lands(dest, seen) \in {"login", "app"}
BY DEF Lands

(* The flags, in what does not touch them and in a page that is loaded.      *)
LEMMA FlagsRest == ASSUME FlagsTyped, UNCHANGED <<features, knownFlags, flagsQuery>> PROVE FlagsTyped'
BY DEF FlagsTyped

LEMMA ReloadMore ==
  ASSUME SessionMore, NEW dest \in {"login", "app"}, Reload(dest), UNCHANGED <<totp, features, grants>>,
         reloads' \in 0 .. MaxReloads
  PROVE  SessionMore'
<1>1. OneOfGroup'
  BY DEF Reload, OneOfGroup
<1>2. FlagsTyped'
  BY DEF Reload, SessionMore, FlagsTyped, NotAsked
<1>3. at' \in {"login", "app"} /\ awaitingTotp' = FALSE /\ failed' = FALSE /\ status' = {}
  BY DEF Reload
<1> QED BY <1>1, <1>2, <1>3 DEF SessionMore

LEMMA FewReloads ==
  ASSUME SessionMore, UNCHANGED reloads \/ (reloads < MaxReloads /\ reloads' = reloads + 1)
  PROVE  reloads' \in 0 .. MaxReloads
BY SessionAssumption DEF SessionMore

(* The groups do not overlap.                                                *)
LEMMA GroupsAre ==
  /\ \A does : Group(does) = Submitting \/ Group(does) = {"totp", "statusOfModal"} \/ Group(does) = {does}
  /\ \A does \in Submitting : Group(does) = Submitting
  /\ \A does \in {"totp", "statusOfModal"} : Group(does) = {"totp", "statusOfModal"}
  /\ \A does : \A e : e \in Group(does) <=> does \in Group(e)
BY DEF Group, Submitting

(* A request is sent when none of its group is under way.                    *)
LEMMA AsksMore ==
  ASSUME SessionInv, SessionMore, NEW does, Asks(does), \A c \in calls : c.does \notin Group(does)
  PROVE  SessionMore'
<1>1. calls' = calls \cup {Call(does)} /\ Call(does).does = does
  BY DEF Asks, Call
<1>2. \A d, e \in calls' : e.does \in Group(d.does) => d = e
  BY <1>1, GroupsAre DEF SessionMore, OneOfGroup
<1>3. OneOfGroup'
  BY <1>2 DEF OneOfGroup, Group
<1> QED BY <1>3, FlagsRest DEF Asks, SessionMore, serverVars, browserVars, flagVars

LEMMA SessionClicksMore ==
  ASSUME SessionInv, SessionMore,
         Retry \/ SubmitLogin \/ SubmitTotp \/ StartOver \/ Logout \/ ToggleTotp
  PROVE  SessionMore'
<1>1. /\ Group("status") = {"status"} /\ Group("login") = Submitting /\ Group("verify") = Submitting
      /\ Group("startOver") = {"startOver"} /\ Group("logout") = {"logout"}
      /\ Group("totp") = {"totp", "statusOfModal"}
  BY DEF Group, Submitting
<1>2. CASE Retry
  BY <1>1, <1>2, AsksMore DEF Retry, Idle
<1>3. CASE SubmitLogin
  BY <1>1, <1>3, AsksMore DEF SubmitLogin, Idle
<1>4. CASE SubmitTotp
  BY <1>1, <1>4, AsksMore DEF SubmitTotp, Idle
<1>5. CASE StartOver
  BY <1>1, <1>5, AsksMore DEF StartOver, Idle
<1>6. CASE Logout
  BY <1>1, <1>6, AsksMore DEF Logout, Idle
<1>7. CASE ToggleTotp
  BY <1>1, <1>7, AsksMore DEF ToggleTotp, Idle
<1> QED BY <1>2, <1>3, <1>4, <1>5, <1>6, <1>7

LEMMA SessionServerMore ==
  ASSUME SessionInv, SessionMore, NEW c \in calls,
         ServesStatus(c) \/ ServesLogin(c) \/ ServesVerify(c) \/ ServesLogout(c) \/ ServesTotp(c) \/ Loses(c)
  PROVE  SessionMore'
<1> USE DEF serverVars, browserVars, flagVars
<1>1. OneOfGroup'
  BY RepliedOne DEF SessionMore, ServesStatus, ServesLogin, ServesVerify, ServesLogout, ServesTotp, Loses
<1>2. UNCHANGED <<awaitingTotp, failed, at, status, grants, features, knownFlags, flagsQuery>>
  BY DEF ServesStatus, ServesLogin, ServesVerify, ServesLogout, ServesTotp, Loses
<1>3. totp' \in BOOLEAN
  BY DEF SessionMore, ServesStatus, ServesLogin, ServesVerify, ServesLogout, ServesTotp, Loses
<1>4. reloads' \in 0 .. MaxReloads
  BY FewReloads DEF ServesStatus, ServesLogin, ServesVerify, ServesLogout, ServesTotp, Loses
<1>5. FlagsTyped'
  BY <1>2, FlagsRest DEF SessionMore
<1> QED BY <1>1, <1>2, <1>3, <1>4, <1>5 DEF SessionMore

LEMMA SessionAnswersMore ==
  ASSUME SessionInv, SessionMore, NEW c \in calls, GetsStatus(c) \/ StartsOver(c) \/ LogsOut(c) PROVE SessionMore'
<1> USE DEF serverVars, flagVars
<1>1. calls' \in {calls \ {c}, Orphaned(calls \ {c})}
  BY DEF GetsStatus, Visits, StartsOver, LogsOut
<1>2. OneOfGroup'
  <2>1. CASE calls' = calls \ {c}
    BY <2>1, GoneOne DEF SessionMore
  <2>2. CASE calls' = Orphaned(calls \ {c})
    BY <2>2, OrphanedOne DEF SessionMore
  <2> QED BY <1>1, <2>1, <2>2
<1>3. c.user \in SUBSET Grants
  BY DEF SessionInv, Called
<1>4. status' \subseteq [user : SUBSET Grants] /\ (\A s, t \in status' : s = t)
  <2>1. status' \in {status, {[user |-> c.user]}, {[user |-> {}]}}
    BY DEF GetsStatus, StartsOver, LogsOut
  <2>2. /\ [user |-> c.user] \in [user : SUBSET Grants]
        /\ [user |-> {}] \in [user : SUBSET Grants]
    BY <1>3
  <2>3. status \subseteq [user : SUBSET Grants] /\ \A s, t \in status : s = t
    BY DEF SessionMore
  <2>4. CASE status' = status
    BY <2>3, <2>4
  <2>5. CASE status' = {[user |-> c.user]}
    BY <2>2, <2>5
  <2>6. CASE status' = {[user |-> {}]}
    BY <2>2, <2>6
  <2> QED BY <2>1, <2>4, <2>5, <2>6
<1>5. UNCHANGED <<totp, grants, reloads, features, knownFlags, flagsQuery>>
  BY DEF GetsStatus, StartsOver, LogsOut
<1>6. at' \in {"login", "app"} /\ awaitingTotp' \in BOOLEAN /\ failed' \in BOOLEAN
  <2>1. \A dest \in {"login", "app"} : Lands(dest, status') \in {"login", "app"}
    BY LandsOn
  <2>2. at \in {"login", "app"} /\ awaitingTotp \in BOOLEAN /\ failed \in BOOLEAN
    BY DEF SessionMore
  <2>3. at' \in {at, "login", Lands(at, status'), Lands("app", status')}
    BY DEF GetsStatus, Visits, StartsOver, LogsOut
  <2>4. awaitingTotp' \in BOOLEAN
    BY <2>2 DEF GetsStatus, Visits, StartsOver, LogsOut
  <2>5. failed' \in BOOLEAN
    BY <2>2 DEF GetsStatus, StartsOver, LogsOut
  <2> QED BY <2>1, <2>2, <2>3, <2>4, <2>5
<1>7. FlagsTyped'
  BY <1>5, FlagsRest DEF SessionMore
<1> QED BY <1>2, <1>4, <1>5, <1>6, <1>7 DEF SessionMore

(* The handler of an answer asks for the status of its group.                *)
LEMMA ProceedsMore == ASSUME SessionInv, SessionMore, NEW c \in calls, Proceeds(c) PROVE SessionMore'
<1> DEFINE next == Call(IF c.does = "totp" THEN "statusOfModal" ELSE "statusOfLogin")
<1>1. calls' \subseteq (calls \ {c}) \cup {next}
  BY DEF Proceeds
<1>2. next.does \in Group(c.does)
  BY DEF Proceeds, Call, Group, Submitting
<1>3. Group(next.does) = Group(c.does)
  BY DEF Proceeds, Call, Group, Submitting
<1> HIDE DEF next
<1>4. \A d \in calls' : d = next \/ d \in calls \ {c}
  BY <1>1
<1>5. \A d, e \in calls' : e.does \in Group(d.does) => d = e
  BY <1>2, <1>3, <1>4, GroupsAre, GroupHas DEF SessionMore, OneOfGroup
<1>6. OneOfGroup'
  BY <1>5 DEF OneOfGroup, Group
<1>7. UNCHANGED <<totp, status, failed, at, grants, reloads, features, knownFlags, flagsQuery>>
  BY DEF Proceeds, serverVars, flagVars
<1>8. awaitingTotp' \in BOOLEAN
  BY DEF Proceeds, SessionMore
<1>9. FlagsTyped'
  BY <1>7, FlagsRest DEF SessionMore
<1> QED BY <1>6, <1>7, <1>8, <1>9 DEF SessionMore

LEMMA SettingsQueryMore ==
  ASSUME SessionInv, SessionMore, AsksSettings \/ ServesSettings \/ GetsSettings \/ LosesSettings PROVE SessionMore'
<1> USE DEF serverVars, browserVars
<1>1. CASE GetsSettings /\ Reload("login")
  BY <1>1, ReloadMore DEF GetsSettings, SessionMore
<1>2. CASE ~(GetsSettings /\ Reload("login"))
  <2>1. UNCHANGED <<totp, status, failed, awaitingTotp, at, calls, grants, features>>
    BY <1>2 DEF AsksSettings, ServesSettings, GetsSettings, LosesSettings
  <2>2. OneOfGroup'
    BY <2>1, GoneOne DEF SessionMore
  <2>3. reloads' \in 0 .. MaxReloads
    BY <1>2, FewReloads DEF AsksSettings, ServesSettings, GetsSettings, LosesSettings
  <2>4. FlagsTyped'
    <3>1. flagsQuery.flags \in SUBSET Features /\ features \in SUBSET Features
      BY DEF SessionMore, FlagsTyped
    <3>2. flagsQuery' \in [phase : {"idle", "asked", "answered", "refused"}, flags : SUBSET Features]
      BY <1>2, <3>1 DEF AsksSettings, ServesSettings, GetsSettings, LosesSettings, NotAsked
    <3>3. knownFlags' \in {knownFlags, {flagsQuery.flags}}
      BY <1>2 DEF AsksSettings, ServesSettings, GetsSettings, LosesSettings
    <3>4. knownFlags' \subseteq SUBSET Features /\ (\A s, t \in knownFlags' : s = t)
      BY <3>1, <3>3 DEF SessionMore, FlagsTyped
    <3> QED BY <2>1, <3>2, <3>4 DEF SessionMore, FlagsTyped
  <2> QED BY <2>1, <2>2, <2>3, <2>4 DEF SessionMore
<1> QED BY <1>1, <1>2

LEMMA SessionOthersMore ==
  ASSUME SessionInv, SessionMore, LoadPage \/ Back \/ AdminChanges \/ SwitchFeature \/ Request PROVE SessionMore'
<1> USE DEF serverVars, browserVars, flagVars
<1>1. CASE LoadPage
  BY <1>1, ReloadMore, FewReloads DEF LoadPage
<1>2. CASE Request
  BY <1>2, ReloadMore DEF Request, SessionMore
<1>3. CASE Back
  <2>1. PICK dest \in {"login", "app"} : Visits(dest, status, calls)
    BY <1>3 DEF Back
  <2>2. OneOfGroup'
    BY <2>1, OrphanedOne DEF Visits, SessionMore
  <2>3. at' \in {"login", "app"} /\ awaitingTotp' = FALSE
    BY <2>1, LandsOn DEF Visits
  <2>4. FlagsTyped'
    BY <1>3, FlagsRest DEF Back, SessionMore
  <2> QED BY <1>3, <2>2, <2>3, <2>4 DEF Back, SessionMore
<1>4. CASE AdminChanges \/ SwitchFeature
  <2>1. UNCHANGED <<totp, status, failed, awaitingTotp, at, calls, reloads, knownFlags, flagsQuery>>
    BY <1>4 DEF AdminChanges, SwitchFeature
  <2>2. OneOfGroup'
    BY <2>1, GoneOne DEF SessionMore
  <2>3. grants' \in 0 .. MaxGrants
    BY <1>4, SessionAssumption DEF AdminChanges, SwitchFeature, SessionMore
  <2>4. features' \subseteq Features
    BY <1>4 DEF AdminChanges, SwitchFeature, SessionMore, FlagsTyped
  <2> QED BY <2>1, <2>2, <2>3, <2>4 DEF SessionMore, FlagsTyped
<1> QED BY <1>1, <1>2, <1>3, <1>4

LEMMA SessionMoreStep == SessionInv /\ SessionMore /\ [SessionNext]_sessionVars => SessionMore'
<1> SUFFICES ASSUME SessionInv, SessionMore, [SessionNext]_sessionVars PROVE SessionMore'
  OBVIOUS
<1>1. CASE UNCHANGED sessionVars
  BY <1>1, GoneOne, FlagsRest DEF sessionVars, serverVars, browserVars, flagVars, SessionMore
<1>2. CASE SessionNext
  BY <1>2, SessionClicksMore, SessionServerMore, SessionAnswersMore, ProceedsMore, SettingsQueryMore, SessionOthersMore
     DEF SessionNext
<1> QED BY <1>1, <1>2

LEMMA SessionTypes == SessionSpec => []SessionTypeOK
<1>1. SessionInit => SessionInv /\ SessionMore
  BY SessionInitInv, SessionMoreInit
<1>2. SessionInv /\ SessionMore /\ [SessionNext]_sessionVars => SessionInv' /\ SessionMore'
  BY SessionStep, SessionMoreStep
<1> QED BY <1>1, <1>2, SessionTypesAreOK, PTL DEF SessionSpec

(***************************************************************************)
(* The settings form (SettingsForm).                                       *)
(***************************************************************************)

Submitted == [phase : {"sent", "handled"}, body : [Fields -> Int], secret : Int,
              edited : SUBSET Fields, unseen : SUBSET Fields]
FormTyped ==
  /\ settings \in [Fields -> Int] /\ form \in [Fields -> Int]
  /\ data \subseteq [Fields -> Int] /\ (\A d, e \in data : d = e)
  /\ fetching.phase \in {"idle", "asked", "read"} /\ fetching.values \in [Fields -> Int]
  /\ typedSecret \in Int /\ saving \subseteq Submitted
  /\ {edited, unseen, since} \subseteq SUBSET Fields
  /\ MaxSaves \in Int /\ typings \in Int /\ saves \in Int

(* What is not known to have changed since it was read is still so: in the   *)
(* query's data, and in the answer under way.                                *)
DataIsOld  == \A d \in data : \A f \in Fields \ unseen : d[f] = settings[f]
FetchIsOld == fetching.phase = "read" => \A f \in Fields \ since : fetching.values[f] = settings[f]

(* What was not edited is as in the data.                                    *)
FormIsOfData == open => \A f \in Fields \ edited : IF data = {} THEN form[f] = Empty ELSE \E d \in data : form[f] = d[f]

(* What a save under way will write of the fields that nobody edited.        *)
Harmless(s) == s.phase = "sent" => \A f \in Fields \ (s.edited \cup s.unseen) : s.body[f] \in {Empty, settings[f]}

FormInv ==
  /\ FormTyped
  /\ DataIsOld /\ FetchIsOld /\ FormIsOfData
  /\ \A s \in saving : Harmless(s)
  /\ SavesOwnEdits

LEMMA FormInitInv == FormInit => FormInv
<1> SUFFICES ASSUME FormInit PROVE FormInv
  OBVIOUS
<1> USE DEF FormInit, NoFetch, NoForm, Empty, Blank
<1>1. FormTyped
  BY SettingsFormAssumption DEF FormTyped
<1> QED BY <1>1 DEF FormInv, DataIsOld, FetchIsOld, FormIsOfData, SavesOwnEdits

(* The page is opened and closed, and what is typed into it.                 *)
LEMMA PageInv ==
  ASSUME FormInv, OpenSettings \/ CloseSettings \/ TypeSecret \/ (\E f \in Fields : TypeField(f)) PROVE FormInv'
<1>1. CASE OpenSettings
  <2>1. FormTyped'
    BY <1>1 DEF OpenSettings, FormInv, FormTyped, formServerVars, formHistory, AskFor, NoForm, Empty, Blank
  <2>2. FormIsOfData'
    BY <1>1 DEF OpenSettings, FormIsOfData, NoForm
  <2>3. FetchIsOld' /\ DataIsOld'
    BY <1>1 DEF OpenSettings, FormInv, FetchIsOld, DataIsOld, AskFor, formServerVars, formHistory
  <2> QED BY <1>1, <2>1, <2>2, <2>3 DEF OpenSettings, FormInv, Harmless, SavesOwnEdits, formServerVars, formHistory
<1>2. CASE CloseSettings
  <2>1. FormTyped'
    BY <1>2 DEF CloseSettings, FormInv, FormTyped, formServerVars, formQueryVars, formHistory, NoForm, Empty, Blank
  <2> QED BY <1>2, <2>1 DEF CloseSettings, FormInv, DataIsOld, FetchIsOld, FormIsOfData, Harmless, SavesOwnEdits,
                            formServerVars, formQueryVars, formHistory
<1>3. CASE TypeSecret
  <2>1. FormTyped'
    BY <1>3 DEF TypeSecret, FormInv, FormTyped, formServerVars, formQueryVars, formHistory
  <2> QED BY <1>3, <2>1 DEF TypeSecret, FormInv, DataIsOld, FetchIsOld, FormIsOfData, Harmless, SavesOwnEdits,
                            formServerVars, formQueryVars, formHistory
<1>4. ASSUME NEW f \in Fields, TypeField(f) PROVE FormInv'
  <2>1. FormTyped' /\ \A g \in Fields : g # f => form'[g] = form[g]
    BY <1>4 DEF TypeField, FormInv, FormTyped, formServerVars, formQueryVars, formHistory, Empty
  <2>2. FormIsOfData'
    BY <1>4, <2>1 DEF TypeField, FormInv, FormIsOfData, formQueryVars
  <2> QED BY <1>4, <2>1, <2>2 DEF TypeField, FormInv, DataIsOld, FetchIsOld, Harmless, SavesOwnEdits,
                            formServerVars, formQueryVars, formHistory
<1> QED BY <1>1, <1>2, <1>3, <1>4

(* The query.                                                                *)
LEMMA QueryInv ==
  ASSUME FormInv, GrowsStale \/ OtherPage \/ ReadSettings \/ SettingsArrive \/ FetchIsLost PROVE FormInv'
<1>1. CASE GrowsStale \/ OtherPage \/ FetchIsLost
  <2>1. FormTyped' /\ FetchIsOld'
    BY <1>1 DEF GrowsStale, OtherPage, FetchIsLost, FormInv, FormTyped, FetchIsOld, formServerVars, formPageVars,
                formHistory, AskFor, NoFetch, NoForm, Empty
  <2> QED BY <1>1, <2>1 DEF GrowsStale, OtherPage, FetchIsLost, FormInv, DataIsOld, FormIsOfData, Harmless, SavesOwnEdits,
                            formServerVars, formPageVars, formHistory
<1>2. CASE ReadSettings
  <2>1. FormTyped' /\ FetchIsOld'
    BY <1>2 DEF ReadSettings, FormInv, FormTyped, FetchIsOld, formServerVars, formPageVars
  <2> QED BY <1>2, <2>1 DEF ReadSettings, FormInv, DataIsOld, FormIsOfData, Harmless, SavesOwnEdits,
                            formServerVars, formPageVars
<1>3. CASE SettingsArrive
  <2>1. FormTyped' /\ FetchIsOld'
    BY <1>3 DEF SettingsArrive, FormInv, FormTyped, FetchIsOld, formServerVars, NoFetch, NoForm, Empty, Blank
  <2>2. DataIsOld'
    BY <1>3 DEF SettingsArrive, FormInv, DataIsOld, FetchIsOld, formServerVars
  <2>3. FormIsOfData'
    BY <1>3 DEF SettingsArrive, FormInv, FormIsOfData
  <2> QED BY <1>3, <2>1, <2>2, <2>3 DEF SettingsArrive, FormInv, Harmless, SavesOwnEdits, formServerVars
<1> QED BY <1>1, <1>2, <1>3

LEMMA SubmitInv == ASSUME FormInv, Submit PROVE FormInv'
<1> DEFINE s == [phase |-> "sent", body |-> form, secret |-> typedSecret, edited |-> edited, unseen |-> unseen]
<1>1. s \in Submitted
  BY DEF FormInv, FormTyped, Submitted
<1>2. FormTyped'
  BY <1>1 DEF Submit, FormInv, FormTyped, formServerVars, formQueryVars, formPageVars, formHistory
<1>3. \A f \in Fields \ (edited \cup unseen) : form[f] \in {Empty, settings[f]}
  BY DEF Submit, FormInv, FormIsOfData, DataIsOld
<1>4. Harmless(s)'
  BY <1>3 DEF Submit, Harmless, formServerVars, formPageVars, formHistory
<1> QED BY <1>2, <1>4 DEF Submit, FormInv, DataIsOld, FetchIsOld, FormIsOfData, SavesOwnEdits,
                          formServerVars, formQueryVars, formPageVars, formHistory

(* A save is handled: it changes what was edited or has changed before.      *)
LEMMA SaveHandledInv == ASSUME FormInv, SaveHandled PROVE FormInv'
<1>1. PICK s \in saving :
        /\ s.phase = "sent" /\ settings' = Written(s.body)
        /\ clobbered' = clobbered \cup {f \in Fields \ s.edited : settings'[f] # settings[f] /\ f \notin s.unseen}
        /\ Changed({f \in Fields : settings'[f] # settings[f]})
        /\ saving' = {[s EXCEPT !.phase = "handled"]}
  BY DEF SaveHandled
<1>2. s \in Submitted /\ [s EXCEPT !.phase = "handled"] \in Submitted /\ [s EXCEPT !.phase = "handled"].phase # "sent"
  BY <1>1 DEF FormInv, FormTyped, Submitted
<1>3. \A f \in Fields : settings'[f] = IF s.body[f] = Empty THEN settings[f] ELSE s.body[f]
  BY <1>1 DEF Written
<1>4. FormTyped'
  BY <1>1, <1>2 DEF SaveHandled, FormInv, FormTyped, Written, Changed, Submitted, formQueryVars, formPageVars
<1>5. SavesOwnEdits'
  BY <1>1, <1>3 DEF FormInv, SavesOwnEdits, Harmless
<1>6. DataIsOld' /\ FetchIsOld'
  BY <1>1 DEF SaveHandled, FormInv, DataIsOld, FetchIsOld, Changed, formQueryVars
<1>7. FormIsOfData'
  BY DEF SaveHandled, FormInv, FormIsOfData, formQueryVars, formPageVars
<1> QED BY <1>1, <1>2, <1>4, <1>5, <1>6, <1>7 DEF FormInv, Harmless

LEMMA SaveAnsweredInv == ASSUME FormInv, SaveAnswered PROVE FormInv'
<1>1. FormTyped' /\ FetchIsOld'
  BY DEF SaveAnswered, FormInv, FormTyped, FetchIsOld, formServerVars, formPageVars, formHistory, AskFor, NoForm, Empty
<1> QED BY <1>1 DEF SaveAnswered, FormInv, DataIsOld, FormIsOfData, SavesOwnEdits, formServerVars, formPageVars, formHistory

LEMMA OtherSavesInv == ASSUME FormInv, NEW f \in Fields, OtherSaves(f) PROVE FormInv'
<1>1. settings' = [settings EXCEPT ![f] = saves + 1] /\ saving' = {[s EXCEPT !.unseen = @ \cup {f}] : s \in saving}
      /\ Changed({f})
  BY DEF OtherSaves
<1>2. \A g \in Fields : g # f => settings'[g] = settings[g]
  BY <1>1 DEF FormInv, FormTyped
<1>3. ASSUME NEW s \in saving
      PROVE  [s EXCEPT !.unseen = @ \cup {f}] \in Submitted /\ Harmless([s EXCEPT !.unseen = @ \cup {f}])'
  <2>1. s \in Submitted /\ Harmless(s)
    BY DEF FormInv, FormTyped
  <2> DEFINE t == [s EXCEPT !.unseen = @ \cup {f}]
  <2>2. t \in Submitted /\ t.phase = s.phase /\ t.edited = s.edited /\ t.body = s.body /\ t.unseen = s.unseen \cup {f}
    BY <2>1 DEF Submitted
  <2> QED BY <1>2, <2>1, <2>2 DEF Harmless
<1>4. FormTyped'
  BY <1>1, <1>3 DEF OtherSaves, FormInv, FormTyped, Changed, formQueryVars, formPageVars
<1>5. DataIsOld' /\ FetchIsOld'
  BY <1>1, <1>2 DEF OtherSaves, FormInv, DataIsOld, FetchIsOld, Changed, formQueryVars
<1>6. FormIsOfData' /\ SavesOwnEdits'
  BY DEF OtherSaves, FormInv, FormIsOfData, SavesOwnEdits, formQueryVars, formPageVars
<1>7. \A s \in saving' : Harmless(s)'
  BY <1>1, <1>3
<1> QED BY <1>4, <1>5, <1>6, <1>7 DEF FormInv

LEMMA FormStep == FormInv /\ [FormNext]_formVars => FormInv'
<1> SUFFICES ASSUME FormInv, [FormNext]_formVars PROVE FormInv'
  OBVIOUS
<1>1. CASE FormNext
  BY <1>1, PageInv, QueryInv, SubmitInv, SaveHandledInv, SaveAnsweredInv, OtherSavesInv DEF FormNext
<1>2. CASE UNCHANGED formVars
  BY <1>2 DEF formVars, formServerVars, formQueryVars, formPageVars, formHistory, FormInv, FormTyped, DataIsOld, FetchIsOld,
              FormIsOfData, Harmless, SavesOwnEdits
<1> QED BY <1>1, <1>2

(* A save of the settings page changes no setting its user did not edit,     *)
(* and the page shows the settings, for any fields and any order of fetches, *)
(* saves and others' changes, but for settings changed elsewhere since they  *)
(* were read (Settings.tsx, useAppSettings.ts).                              *)
THEOREM FormKeepsWhatIsNotEdited == FormSpec => []FormKeepsEdits
<1>1. FormInv => FormKeepsEdits
  BY DEF FormInv, FormKeepsEdits, FormShowsSettings, FormIsOfData, DataIsOld
<1>2. FormSpec => []FormInv
  BY FormInitInv, FormStep, PTL DEF FormSpec
<1> QED BY <1>1, <1>2, PTL

-----------------------------------------------------------------------------
FormValues == [Fields -> Values \cup {Empty}]
Saves == [phase : {"sent", "handled"}, body : FormValues, secret : Values, edited : SUBSET Fields, unseen : SUBSET Fields]

(* An answer under way has values of settings, and there is one save, of     *)
(* what the form may hold.                                                   *)
FormTypes ==
  /\ settings \in [Fields -> Values] /\ secret \in Values /\ typedSecret \in Values
  /\ data \subseteq [Fields -> Values] /\ (\A d, e \in data : d = e)
  /\ fresh \in BOOLEAN /\ open \in BOOLEAN
  /\ fetching \in [phase : {"idle", "asked", "read"}, values : FormValues]
  /\ fetching.phase = "read" => fetching.values \in [Fields -> Values]
  /\ form \in FormValues
  /\ edited \subseteq Fields /\ unseen \subseteq Fields /\ since \subseteq Fields /\ clobbered \subseteq Fields
  /\ saving \subseteq Saves /\ (\A s, t \in saving : s = t)
  /\ saves \in 0 .. MaxSaves /\ typings \in 0 .. MaxTyped

LEMMA FormTypesAreOK == FormTypes => FormTypeOK
<1> SUFFICES ASSUME FormTypes PROVE FormTypeOK
  OBVIOUS
<1>1. Cardinality(data) <= 1 /\ Cardinality(saving) <= 1
  BY AtMostOneCounts DEF FormTypes
<1> QED BY <1>1 DEF FormTypes, FormTypeOK, FormValues

LEMMA ValuesTyped ==
  /\ 0 \in Values /\ NoForm \in FormValues /\ Blank \in Values
  /\ NoFetch \in [phase : {"idle", "asked", "read"}, values : FormValues] /\ NoFetch.phase # "read"
  /\ AskFor \in [phase : {"idle", "asked", "read"}, values : FormValues] /\ AskFor.phase # "read"
  /\ \A v \in 1 .. MaxSaves : v \in Values
  /\ \A v \in 1 .. MaxTyped : MaxSaves + v \in Values
BY SettingsFormAssumption DEF Values, NoForm, FormValues, Blank, NoFetch, AskFor

LEMMA FormTypesInit == FormInit => FormTypes
<1> SUFFICES ASSUME FormInit PROVE FormTypes
  OBVIOUS
<1>1. settings \in [Fields -> Values]
  BY ValuesTyped DEF FormInit
<1>2. saves \in 0 .. MaxSaves /\ typings \in 0 .. MaxTyped
  BY SettingsFormAssumption DEF FormInit
<1> QED BY <1>1, <1>2, ValuesTyped DEF FormInit, FormTypes

(* The page is opened, closed and typed into.                                *)
LEMMA FormPageTypes ==
  ASSUME FormTypes, OpenSettings \/ CloseSettings \/ TypeSecret \/ (\E f \in Fields : TypeField(f)) PROVE FormTypes'
<1> USE DEF formServerVars, formQueryVars, formHistory
<1>1. CASE OpenSettings
  <2>1. form' \in FormValues
    <3>1. data # {} => (CHOOSE d \in data : TRUE) \in data
      OBVIOUS
    <3>2. data \subseteq FormValues
      BY DEF FormTypes, FormValues
    <3> QED BY <1>1, <3>1, <3>2, ValuesTyped DEF OpenSettings
  <2>2. fetching' \in {AskFor, fetching}
    BY <1>1 DEF OpenSettings
  <2> QED BY <1>1, <2>1, <2>2, ValuesTyped DEF OpenSettings, FormTypes
<1>2. CASE CloseSettings
  BY <1>2, ValuesTyped DEF CloseSettings, FormTypes
<1>3. CASE TypeSecret
  <2>1. typings + 1 \in 1 .. MaxTyped /\ typings' = typings + 1 /\ typedSecret' = MaxSaves + (typings + 1)
    BY <1>3, SettingsFormAssumption DEF TypeSecret, FormTypes
  <2>2. typedSecret' \in Values /\ typings' \in 0 .. MaxTyped
    BY <2>1, ValuesTyped
  <2> QED BY <1>3, <2>2 DEF TypeSecret, FormTypes
<1>4. ASSUME NEW f \in Fields, TypeField(f) PROVE FormTypes'
  <2>1. typings + 1 \in 1 .. MaxTyped /\ typings' = typings + 1 /\ MaxSaves + typings + 1 = MaxSaves + (typings + 1)
    BY <1>4, SettingsFormAssumption DEF TypeField, FormTypes
  <2>2. MaxSaves + typings + 1 \in Values /\ typings' \in 0 .. MaxTyped
    BY <2>1, ValuesTyped
  <2>3. form' \in FormValues /\ edited' \subseteq Fields
    BY <1>4, <2>2 DEF TypeField, FormTypes, FormValues
  <2> QED BY <1>4, <2>2, <2>3 DEF TypeField, FormTypes
<1> QED BY <1>1, <1>2, <1>3, <1>4

LEMMA FormQueryTypes ==
  ASSUME FormTypes, GrowsStale \/ OtherPage \/ ReadSettings \/ SettingsArrive \/ FetchIsLost PROVE FormTypes'
<1> USE DEF formServerVars, formPageVars, formHistory
<1>1. CASE GrowsStale
  BY <1>1 DEF GrowsStale, FormTypes
<1>2. CASE OtherPage
  BY <1>2, ValuesTyped DEF OtherPage, FormTypes
<1>3. CASE ReadSettings
  <2>1. fetching' \in [phase : {"idle", "asked", "read"}, values : FormValues] /\ fetching'.values \in [Fields -> Values]
    BY <1>3 DEF ReadSettings, FormTypes, FormValues
  <2> QED BY <1>3, <2>1 DEF ReadSettings, FormTypes
<1>4. CASE SettingsArrive
  <2>1. fetching.values \in [Fields -> Values] /\ fetching.values \in FormValues
    BY <1>4 DEF SettingsArrive, FormTypes, FormValues
  <2>2. form' \in FormValues /\ typedSecret' \in Values /\ edited' \subseteq Fields
    BY <1>4, <2>1, ValuesTyped DEF SettingsArrive, FormTypes
  <2> QED BY <1>4, <2>1, <2>2, ValuesTyped DEF SettingsArrive, FormTypes
<1>5. CASE FetchIsLost
  BY <1>5, ValuesTyped DEF FetchIsLost, FormTypes
<1> QED BY <1>1, <1>2, <1>3, <1>4, <1>5

LEMMA FormSubmitTypes == FormTypes /\ Submit => FormTypes'
<1> SUFFICES ASSUME FormTypes, Submit PROVE FormTypes'
  OBVIOUS
<1>1. [phase |-> "sent", body |-> form, secret |-> typedSecret, edited |-> edited, unseen |-> unseen] \in Saves
  BY DEF Saves, FormTypes
<1>2. saves' \in 0 .. MaxSaves
  BY SettingsFormAssumption DEF Submit, FormTypes
<1> QED BY <1>1, <1>2 DEF Submit, FormTypes, formServerVars, formQueryVars, formPageVars, formHistory

LEMMA FormHandledTypes == FormTypes /\ SaveHandled => FormTypes'
<1> SUFFICES ASSUME FormTypes, SaveHandled PROVE FormTypes'
  OBVIOUS
<1>1. PICK s \in saving :
        /\ settings' = Written(s.body)
        /\ secret' = IF s.secret = Blank THEN secret ELSE s.secret
        /\ clobbered' = clobbered \cup {f \in Fields \ s.edited : settings'[f] # settings[f] /\ f \notin s.unseen}
        /\ Changed({f \in Fields : settings'[f] # settings[f]})
        /\ saving' = {[s EXCEPT !.phase = "handled"]}
  BY DEF SaveHandled
<1>2. s \in Saves /\ [s EXCEPT !.phase = "handled"] \in Saves
  BY DEF FormTypes, Saves
<1>3. s.body \in FormValues /\ s.secret \in Values
  BY <1>2 DEF Saves
<1>4. settings' \in [Fields -> Values]
  BY <1>1, <1>3 DEF Written, FormTypes, FormValues
<1>5. secret' \in Values /\ clobbered' \subseteq Fields /\ unseen' \subseteq Fields /\ since' \subseteq Fields
  BY <1>1, <1>3 DEF Changed, FormTypes
<1> QED BY <1>1, <1>2, <1>4, <1>5 DEF SaveHandled, FormTypes, formQueryVars, formPageVars

LEMMA FormAnsweredTypes == FormTypes /\ SaveAnswered => FormTypes'
BY ValuesTyped DEF SaveAnswered, FormTypes, formServerVars, formPageVars, formHistory

LEMMA FormOthersTypes == ASSUME FormTypes, NEW f \in Fields, OtherSaves(f) PROVE FormTypes'
<1> DEFINE Seen(s) == [s EXCEPT !.unseen = @ \cup {f}]
<1>1. saves + 1 \in 1 .. MaxSaves /\ saves' = saves + 1
  BY SettingsFormAssumption DEF OtherSaves, FormTypes
<1>2. saves + 1 \in Values /\ saves' \in 0 .. MaxSaves
  BY <1>1, ValuesTyped
<1>3. settings' \in [Fields -> Values]
  BY <1>2 DEF OtherSaves, FormTypes
<1>4. ASSUME NEW s \in saving PROVE Seen(s) \in Saves
  BY DEF FormTypes, Saves
<1>5. saving' = {Seen(s) : s \in saving}
  BY DEF OtherSaves
<1> HIDE DEF Seen
<1>6. saving' \subseteq Saves /\ \A s, t \in saving' : s = t
  BY <1>4, <1>5 DEF FormTypes
<1> QED BY <1>2, <1>3, <1>6 DEF OtherSaves, FormTypes, Changed, formQueryVars, formPageVars

LEMMA FormTypesStep == FormTypes /\ [FormNext]_formVars => FormTypes'
<1> SUFFICES ASSUME FormTypes, [FormNext]_formVars PROVE FormTypes'
  OBVIOUS
<1>1. CASE FormNext
  BY <1>1, FormPageTypes, FormQueryTypes, FormSubmitTypes, FormHandledTypes, FormAnsweredTypes, FormOthersTypes DEF FormNext
<1>2. CASE UNCHANGED formVars
  BY <1>2 DEF formVars, formServerVars, formQueryVars, formPageVars, formHistory, FormTypes
<1> QED BY <1>1, <1>2

LEMMA FormTypesHold == FormSpec => []FormTypeOK
BY FormTypesInit, FormTypesStep, FormTypesAreOK, PTL DEF FormSpec

(***************************************************************************)
(* The list pages (ListPages).                                             *)
(***************************************************************************)

Mutations == [bulk : BOOLEAN, host : DockerHosts, does : {"remove", "add", "alter", "nothing"},
              left : Seq(SUBSET RowKeys), picked : SUBSET RowKeys, tried : Seq(RowKeys),
              came : {"", "done", "refused", "lost"}, failed : BOOLEAN,
              refetches : BOOLEAN, key : DockerHosts, mine : BOOLEAN]
ListsTyped ==
  /\ page \in PageNames /\ hostId \in DockerHosts
  /\ lists \in [DockerHosts -> RowsOf]
  /\ DOMAIN known = DockerHosts
  /\ query \in [DockerHosts -> [phase : {"idle", "asked", "read"}, rows : RowsOf]]
  /\ ticked \subseteq RowKeys /\ jobs \subseteq Mutations

(* What a page knows, or is about to, of a list.                             *)
FreshList(h) ==
  /\ query[h].phase = "read" => query[h].rows = lists[h]
  /\ query[h].phase = "idle" => known[h] = <<lists[h]>>

(* A mutation that may have changed its list: its end has to make up for it. *)
Owes(j) == j.bulk \/ (j.came \in {"done", "lost"} /\ j.does # "nothing")
Owed(h) == \E j \in jobs : j.host = h /\ Owes(j)
FreshOrOwed == rendered /\ PageKey \notin missed => FreshList(PageKey) \/ Owed(PageKey)

(* A single mutation failed as its one request did, and what refetches       *)
(* nothing changes nothing.                                                  *)
SingleIsPlain(j) ==
  ~j.bulk => /\ j.failed <=> j.came \in {"refused", "lost"}
             /\ j.refetches \/ j.does = "nothing"

(* The rows of a bulk action are those it tried and those it has yet to try. *)
ToTry(j) == IF j.came = "" THEN j.left ELSE Tail(j.left)
BulkCounts(j) ==
  /\ j.left # <<>>
  /\ j.bulk => /\ \A i \in 1 .. Len(j.left) : \E k \in RowKeys : j.left[i] = {k}
               /\ j.picked = ToSet(j.tried) \cup UNION ToSet(ToTry(j))
               /\ Len(j.tried) + Len(ToTry(j)) = Cardinality(j.picked)
JobsAreSound == \A j \in jobs : SingleIsPlain(j) /\ BulkCounts(j)

ListsInv == ListsTyped /\ FreshOrOwed /\ JobsAreSound /\ BulkTriesEach

-----------------------------------------------------------------------------
LEMMA SetToSeqListsAll ==
  ASSUME NEW S, IsFiniteSet(S)
  PROVE  /\ SetToSeq(S) \in [1 .. Cardinality(S) -> S]
         /\ \A x \in S : \E i \in 1 .. Cardinality(S) : SetToSeq(S)[i] = x
<1> DEFINE n == Cardinality(S)
<1>1. n \in Nat /\ ExistsBijection(1 .. n, S)
  BY FS_CardinalityType
<1>2. \E f \in [1 .. n -> S] : IsInjective(f)
  BY <1>1 DEF ExistsBijection, Bijection, Injection, IsInjective
<1>3. SetToSeq(S) \in [1 .. n -> S] /\ IsInjective(SetToSeq(S))
  BY <1>2 DEF SetToSeq
<1>4. SetToSeq(S) \in Injection(1 .. n, S)
  BY <1>3 DEF Injection, IsInjective
<1>5. Cardinality(1 .. n) = n
  BY <1>1, FS_Interval
<1>6. SetToSeq(S) \in Surjection(1 .. n, S)
  BY <1>4, <1>5, FS_Injection
<1> QED BY <1>3, <1>6 DEF Surjection

LEMMA SingletonSeq == ASSUME NEW k PROVE SetToSeq({k}) = <<k>>
<1>1. IsFiniteSet({k}) /\ Cardinality({k}) = 1
  BY FS_Singleton
<1>2. SetToSeq({k}) \in [1 .. 1 -> {k}]
  BY <1>1, SetToSeqListsAll
<1> QED BY <1>2

LEMMA FreshRests ==
  ASSUME NEW h, UNCHANGED <<lists, query, known>>, FreshList(h) PROVE FreshList(h)'
BY DEF FreshList

(* Nothing but the page and its jobs' keys moves.                            *)
LEMMA OwedStays ==
  ASSUME NEW h, Owed(h),
         \A j \in jobs : j.host = h /\ Owes(j) => \E k \in jobs' : k.host = h /\ Owes(k)
  PROVE  Owed(h)'
BY DEF Owed, Owes

LEMMA ListsInitInv == ListsInit => ListsInv
<1> SUFFICES ASSUME ListsInit PROVE ListsInv
  OBVIOUS
<1>1. lists \in [DockerHosts -> RowsOf] /\ NoRows \in RowsOf
  BY DEF ListsInit, RowsOf, RowStates, NoRows
<1>2. query \in [DockerHosts -> [phase : {"idle", "asked", "read"}, rows : RowsOf]]
  BY <1>1 DEF ListsInit, NoQuery
<1> QED
  BY <1>1, <1>2, ListPagesAssumption DEF ListsInit, ListsInv, ListsTyped, FreshOrOwed, JobsAreSound, BulkTriesEach

-----------------------------------------------------------------------------
(* Steps that leave the mutations what they are: of the page they may have   *)
(* moved to, and of the page that is gone, the history knows no more.        *)
Agree(j, k) ==
  /\ k.bulk = j.bulk /\ k.host = j.host /\ k.does = j.does /\ k.left = j.left /\ k.picked = j.picked
  /\ k.tried = j.tried /\ k.came = j.came /\ k.failed = j.failed /\ k.refetches = j.refetches
SameJobs == /\ \A k \in jobs' : \E j \in jobs : Agree(j, k)
            /\ \A j \in jobs : \E k \in jobs' : Agree(j, k)

LEMMA SameJobsSound ==
  ASSUME JobsAreSound, SameJobs
  PROVE  JobsAreSound' /\ \A h : Owed(h) => Owed(h)'
<1>1. ASSUME NEW k \in jobs' PROVE SingleIsPlain(k) /\ BulkCounts(k)
  <2>1. PICK j \in jobs : Agree(j, k)
    BY DEF SameJobs
  <2>2. SingleIsPlain(j) /\ BulkCounts(j)
    BY DEF JobsAreSound
  <2> QED BY <2>1, <2>2 DEF Agree, SingleIsPlain, BulkCounts, ToTry
<1>2. ASSUME NEW h, Owed(h) PROVE Owed(h)'
  <2>1. PICK j \in jobs : j.host = h /\ Owes(j)
    BY <1>2 DEF Owed
  <2>2. PICK k \in jobs' : Agree(j, k)
    BY DEF SameJobs
  <2> QED BY <2>1, <2>2 DEF Agree, Owed, Owes
<1> QED BY <1>1, <1>2 DEF JobsAreSound, SingleIsPlain, BulkCounts, ToTry

LEMMA SameJobsIfUnchanged == UNCHANGED jobs => SameJobs
BY DEF SameJobs, Agree

LEMMA ShowsFresh ==
  ASSUME ListsTyped, NEW h \in DockerHosts, Shows(h)
  PROVE  /\ query' \in [DockerHosts -> [phase : {"idle", "asked", "read"}, rows : RowsOf]]
         /\ h \notin missed' => query'[h].phase = "asked"
<1>1. Asking \in [phase : {"idle", "asked", "read"}, rows : RowsOf] /\ Asking.phase = "asked"
  BY DEF Asking, NoRows, RowsOf, RowStates
<1> QED BY <1>1 DEF ListsTyped, Shows

LEMMA OpenPageInv == ListsInv /\ OpenPage => ListsInv'
<1> SUFFICES ASSUME ListsInv, OpenPage PROVE ListsInv'
  OBVIOUS
<1>1. PageKey \in DockerHosts /\ PageKey' = PageKey
  BY ListPagesAssumption DEF ListsInv, ListsTyped, OpenPage, PageKey, KeyOf, Service
<1>2. /\ query' \in [DockerHosts -> [phase : {"idle", "asked", "read"}, rows : RowsOf]]
      /\ PageKey \notin missed' => query'[PageKey].phase = "asked"
  BY <1>1, ShowsFresh DEF ListsInv, OpenPage
<1>3. FreshOrOwed'
  BY <1>1, <1>2 DEF FreshOrOwed, FreshList
<1>4. JobsAreSound'
  BY SameJobsIfUnchanged, SameJobsSound DEF ListsInv, OpenPage
<1>5. ListsTyped' /\ BulkTriesEach'
  BY <1>2 DEF ListsInv, ListsTyped, OpenPage, BulkTriesEach
<1> QED BY <1>3, <1>4, <1>5 DEF ListsInv

LEMMA LeavePageInv == ListsInv /\ LeavePage => ListsInv'
<1> SUFFICES ASSUME ListsInv, LeavePage PROVE ListsInv'
  OBVIOUS
<1>1. jobs' = {[j EXCEPT !.mine = FALSE] : j \in jobs}
  BY DEF LeavePage
<1>2. ASSUME NEW j \in jobs PROVE [j EXCEPT !.mine = FALSE] \in Mutations /\ Agree(j, [j EXCEPT !.mine = FALSE])
  <2>1. j \in Mutations
    BY DEF ListsInv, ListsTyped
  <2> QED BY <2>1 DEF Mutations, Agree
<1>3. SameJobs /\ jobs' \subseteq Mutations
  BY <1>1, <1>2 DEF SameJobs
<1>4. JobsAreSound'
  BY <1>3, SameJobsSound DEF ListsInv
<1>5. ListsTyped' /\ BulkTriesEach' /\ FreshOrOwed'
  BY <1>3 DEF ListsInv, ListsTyped, LeavePage, BulkTriesEach, cacheVars, FreshOrOwed
<1> QED BY <1>4, <1>5 DEF ListsInv

LEMMA SetHostIdInv == ASSUME ListsInv, NEW h \in DockerHosts, SetHostId(h) PROVE ListsInv'
<1> DEFINE Moved(j) == IF j.mine THEN [j EXCEPT !.key = KeyOf(h)] ELSE j
<1>1. jobs' = {Moved(j) : j \in jobs}
  BY DEF SetHostId
<1>2. KeyOf(h) \in DockerHosts
  BY ListPagesAssumption DEF KeyOf
<1>3. ASSUME NEW j \in jobs PROVE Moved(j) \in Mutations /\ Agree(j, Moved(j))
  <2>1. j \in Mutations
    BY DEF ListsInv, ListsTyped
  <2> QED BY <1>2, <2>1 DEF Mutations, Agree
<1> HIDE DEF Moved
<1>4. SameJobs /\ jobs' \subseteq Mutations
  BY <1>1, <1>3 DEF SameJobs
<1>5. JobsAreSound' /\ (\A k : Owed(k) => Owed(k)')
  BY <1>4, SameJobsSound DEF ListsInv
<1>6. /\ UNCHANGED <<page, lists, rendered, known, ticked, edits, amiss>> /\ hostId' = h
      /\ Service' = Service
  BY DEF SetHostId, Service
<1>7. CASE rendered /\ Service.perHost
  <2>1. PageKey' = h
    BY <1>6, <1>7 DEF PageKey, KeyOf
  <2>2. Shows(h)
    BY <1>7 DEF SetHostId
  <2>3. /\ query' \in [DockerHosts -> [phase : {"idle", "asked", "read"}, rows : RowsOf]]
        /\ h \notin missed' => query'[h].phase = "asked"
    BY <2>2, ShowsFresh DEF ListsInv
  <2>4. FreshOrOwed'
    BY <2>1, <2>3 DEF FreshOrOwed, FreshList
  <2> QED BY <1>4, <1>5, <1>6, <2>3, <2>4 DEF ListsInv, ListsTyped, BulkTriesEach
<1>8. CASE ~(rendered /\ Service.perHost)
  <2>1. UNCHANGED <<query, missed>>
    BY <1>8 DEF SetHostId
  <2>2. CASE rendered
    <3>1. PageKey' = PageKey
      BY <1>6, <1>8, <2>2 DEF PageKey, KeyOf
    <3>2. FreshOrOwed'
      BY <1>5, <1>6, <2>1, <2>2, <3>1, FreshRests DEF ListsInv, FreshOrOwed
    <3> QED BY <1>4, <1>5, <1>6, <2>1, <3>2 DEF ListsInv, ListsTyped, BulkTriesEach
  <2>3. CASE ~rendered
    <3>1. FreshOrOwed'
      BY <1>6, <2>3 DEF FreshOrOwed
    <3> QED BY <1>4, <1>5, <1>6, <2>1, <3>1 DEF ListsInv, ListsTyped, BulkTriesEach
  <2> QED BY <2>2, <2>3
<1> QED BY <1>7, <1>8

-----------------------------------------------------------------------------
(* The query: a fetch that is asked again is fresh, and so is its answer.    *)
LEMMA ListQueryInv ==
  ASSUME ListsInv, NEW h \in DockerHosts,
         UNCHANGED <<page, lists, hostId, rendered, ticked, jobs, amiss>>,
         DOMAIN known' = DockerHosts, \A k \in DockerHosts : k # h => known'[k] = known[k] /\ query'[k] = query[k],
         query' \in [DockerHosts -> [phase : {"idle", "asked", "read"}, rows : RowsOf]],
         missed \ {h} \subseteq missed',
         rendered /\ h \notin missed' /\ (h \notin missed => FreshList(h) \/ Owed(h)) => FreshList(h)' \/ Owed(h)
  PROVE  ListsInv'
<1>1. PageKey' = PageKey /\ PageKey \in DockerHosts
  BY ListPagesAssumption DEF ListsInv, ListsTyped, PageKey, KeyOf, Service
<1>2. JobsAreSound' /\ (\A k : Owed(k) => Owed(k)')
  BY SameJobsIfUnchanged, SameJobsSound DEF ListsInv
<1>3. ASSUME rendered, PageKey \notin missed' PROVE FreshList(PageKey)' \/ Owed(PageKey)
  <2>1. CASE PageKey = h
    BY <1>1, <1>3, <2>1 DEF ListsInv, FreshOrOwed, FreshList
  <2>2. CASE PageKey # h
    <3>1. known'[PageKey] = known[PageKey] /\ query'[PageKey] = query[PageKey]
      BY <1>1, <2>2
    <3>2. FreshList(PageKey) \/ Owed(PageKey)
      BY <1>3, <2>2 DEF ListsInv, FreshOrOwed
    <3> QED BY <3>1, <3>2, <1>1 DEF FreshList
  <2> QED BY <2>1, <2>2
<1>4. FreshOrOwed'
  BY <1>1, <1>2, <1>3 DEF FreshOrOwed
<1> QED BY <1>2, <1>4 DEF ListsInv, ListsTyped, BulkTriesEach

LEMMA FetchInv ==
  ASSUME ListsInv, NEW h \in DockerHosts, ListRead(h) \/ ListAnswer(h) \/ FetchFails(h) \/ (Poll /\ h = PageKey)
  PROVE  ListsInv'
<1> DEFINE Queries == [phase : {"idle", "asked", "read"}, rows : RowsOf]
<1>1. /\ Asking \in Queries /\ Asking.phase = "asked"
      /\ NoQuery \in Queries /\ NoQuery.phase = "idle"
  BY DEF Asking, NoQuery, NoRows, RowsOf, RowStates
<1>2. lists[h] \in RowsOf /\ query \in [DockerHosts -> Queries] /\ DOMAIN known = DockerHosts
  BY DEF ListsInv, ListsTyped
<1>3. CASE ListRead(h)
  <2>1. /\ UNCHANGED <<page, lists, hostId, rendered, ticked, jobs, amiss, known>>
        /\ query' = [query EXCEPT ![h] = [phase |-> "read", rows |-> lists[h]]] /\ missed' = missed \ {h}
    BY <1>3 DEF ListRead, listVars
  <2>2. query' \in [DockerHosts -> Queries] /\ FreshList(h)'
    BY <1>2, <2>1 DEF FreshList
  <2> QED BY <1>2, <2>1, <2>2, ListQueryInv
<1>4. CASE ListAnswer(h)
  <2>1. /\ UNCHANGED <<page, lists, hostId, rendered, ticked, jobs, amiss, missed>> /\ query[h].phase = "read"
        /\ query' = [query EXCEPT ![h] = NoQuery] /\ known' = [known EXCEPT ![h] = <<query[h].rows>>]
    BY <1>4 DEF ListAnswer, listVars
  <2>2. query' \in [DockerHosts -> Queries] /\ (FreshList(h) => FreshList(h)')
    BY <1>1, <1>2, <2>1 DEF FreshList
  <2>3. DOMAIN known' = DockerHosts /\ \A k \in DockerHosts : k # h => known'[k] = known[k] /\ query'[k] = query[k]
    BY <1>2, <2>1
  <2> QED BY <2>1, <2>2, <2>3, ListQueryInv
<1>5. ASSUME UNCHANGED <<page, lists, hostId, rendered, ticked, jobs, amiss, known>>,
             \/ query' = [query EXCEPT ![h] = Asking] /\ UNCHANGED missed
             \/ query' = [query EXCEPT ![h] = NoQuery] /\ missed' = missed \cup {h}
      PROVE  ListsInv'
  <2>1. query' \in [DockerHosts -> Queries] /\ (h \notin missed' => FreshList(h)') /\ missed \subseteq missed'
    BY <1>1, <1>2, <1>5 DEF FreshList
  <2>2. \A k \in DockerHosts : k # h => query'[k] = query[k]
    BY <1>2, <1>5
  <2> QED BY <1>2, <1>5, <2>1, <2>2, ListQueryInv
<1>6. CASE FetchFails(h)
  BY <1>5, <1>6 DEF FetchFails, listVars
<1>7. CASE Poll /\ h = PageKey
  BY <1>5, <1>7 DEF Poll, listVars
<1> QED BY <1>3, <1>4, <1>6, <1>7

LEMMA TickInv == ASSUME ListsInv, NEW k \in RowKeys, Tick(k) PROVE ListsInv'
<1>1. /\ UNCHANGED <<page, lists, hostId, rendered, known, query, jobs, edits, missed, amiss>>
      /\ ticked' \subseteq RowKeys
  BY DEF Tick, listVars, cacheVars, ListsInv, ListsTyped
<1>2. PageKey' = PageKey
  BY <1>1 DEF PageKey, KeyOf, Service
<1>3. JobsAreSound' /\ (\A h : Owed(h) => Owed(h)')
  BY <1>1, SameJobsIfUnchanged, SameJobsSound DEF ListsInv
<1>4. FreshOrOwed'
  BY <1>1, <1>2, <1>3, FreshRests DEF ListsInv, FreshOrOwed
<1> QED BY <1>1, <1>3, <1>4 DEF ListsInv, ListsTyped, BulkTriesEach

-----------------------------------------------------------------------------
(* Mutations.                                                                *)

(* A job takes the place of another, and owes what it did.                   *)
LEMMA JobInv ==
  ASSUME ListsInv, NEW gone, NEW new \in Mutations, SingleIsPlain(new), BulkCounts(new),
         jobs' = (jobs \ gone) \cup {new},
         \A j \in gone : Owes(j) => Owes(new) /\ new.host = j.host,
         UNCHANGED <<page, hostId, rendered, known, query, missed, amiss, ticked>>,
         lists' \in [DockerHosts -> RowsOf],
         \A h \in DockerHosts : h # new.host => lists'[h] = lists[h],
         lists'[new.host] = lists[new.host] \/ Owes(new)
  PROVE  ListsInv'
<1>1. PageKey' = PageKey /\ PageKey \in DockerHosts /\ new.host \in DockerHosts
  BY ListPagesAssumption DEF ListsInv, ListsTyped, PageKey, KeyOf, Service, Mutations
<1>2. JobsAreSound'
  <2>1. \A j \in jobs' : SingleIsPlain(j) /\ BulkCounts(j)
    BY DEF ListsInv, JobsAreSound
  <2> QED BY <2>1 DEF JobsAreSound, SingleIsPlain, BulkCounts, ToTry
<1>3. ASSUME NEW h, Owed(h) PROVE Owed(h)'
  <2>1. PICK j \in jobs : j.host = h /\ Owes(j)
    BY <1>3 DEF Owed
  <2>2. \E k \in jobs' : k.host = h /\ Owes(k)
    BY <2>1
  <2> QED BY <2>2 DEF Owed, Owes
<1>4. Owes(new) => Owed(new.host)'
  BY DEF Owed, Owes
<1>5. ASSUME rendered, PageKey \notin missed PROVE FreshList(PageKey)' \/ Owed(PageKey)'
  <2>1. FreshList(PageKey) \/ Owed(PageKey)
    BY <1>5 DEF ListsInv, FreshOrOwed
  <2>2. CASE Owed(PageKey)
    BY <1>1, <1>3, <2>2 DEF Owed
  <2>3. CASE lists'[PageKey] = lists[PageKey]
    BY <1>1, <2>1, <2>2, <2>3 DEF FreshList
  <2>4. CASE PageKey = new.host /\ Owes(new)
    BY <1>1, <1>4, <2>4 DEF Owed
  <2> QED BY <1>1, <2>3, <2>4
<1>6. FreshOrOwed'
  <2>1. rendered' = rendered /\ missed' = missed
    OBVIOUS
  <2> QED BY <1>1, <1>5, <2>1 DEF FreshOrOwed
<1> QED BY <1>2, <1>6 DEF ListsInv, ListsTyped, BulkTriesEach

LEMMA StartsInv ==
  ASSUME ListsInv, NEW job \in Mutations, Starts(job), SingleIsPlain(job), BulkCounts(job)
  PROVE  ListsInv'
<1> DEFINE none == {}
<1>1. /\ UNCHANGED <<page, hostId, rendered, known, query, missed, amiss, ticked, lists>>
      /\ jobs' = (jobs \ none) \cup {job}
  BY DEF Starts, listVars, cacheVars
<1>2. /\ lists' \in [DockerHosts -> RowsOf]
      /\ \A h \in DockerHosts : h # job.host => lists'[h] = lists[h]
      /\ lists'[job.host] = lists[job.host]
      /\ \A j \in none : Owes(j) => Owes(job) /\ job.host = j.host
  BY <1>1 DEF ListsInv, ListsTyped
<1> HIDE DEF none
<1> QED BY <1>1, <1>2, JobInv

LEMMA ServiceTyped ==
  ASSUME ListsTyped
  PROVE  /\ \A op \in Service.operations : /\ op.does \in {"remove", "add", "alter", "nothing"}
                                           /\ op.refetches \in BOOLEAN
                                           /\ op.refetches \/ op.does = "nothing"
         /\ Service.bulk \subseteq {"remove", "alter"}
<1>1. page \in {"containers", "images", "volumes", "networks", "stacks", "users", "hosts", "audit"}
  BY ListPagesAssumption DEF ListsTyped
<1>2. /\ \A takes, does : /\ Operation(takes, does).does = does
                          /\ Operation(takes, does).refetches = TRUE
      /\ Aside.does = "nothing" /\ Aside.refetches = FALSE
  BY DEF Operation, Aside
<1>3. ASSUME NEW op, \/ \E takes, does : does \in {"remove", "add", "alter"} /\ op = Operation(takes, does)
                     \/ op = Aside
      PROVE  /\ op.does \in {"remove", "add", "alter", "nothing"}
             /\ op.refetches \in BOOLEAN
             /\ op.refetches \/ op.does = "nothing"
  BY <1>2, <1>3, ZenonT(60)
<1>4. ASSUME NEW op \in Service.operations
      PROVE  \/ \E takes, does : does \in {"remove", "add", "alter"} /\ op = Operation(takes, does)
             \/ op = Aside
  BY <1>1, <1>4 DEF Service, ContainersService, ImagesService, VolumesService, NetworksService, StacksService,
       UsersService, HostsService, AuditLogService, Delete, Add, Alter, BuildFromGit, ImportFromPortainer
<1>5. Service.bulk \subseteq {"remove", "alter"}
  BY <1>1 DEF Service, ContainersService, ImagesService, VolumesService, NetworksService, StacksService,
       UsersService, HostsService, AuditLogService
<1> QED BY <1>3, <1>4, <1>5

LEMMA OneClickInv ==
  ASSUME ListsInv, NEW op \in Service.operations, NEW ks \in SUBSET RowKeys, OneClick(op, ks) PROVE ListsInv'
<1> DEFINE job == Mutation(FALSE, op.does, <<ks>>, op.refetches)
<1>1. PageKey \in DockerHosts
  BY ListPagesAssumption DEF ListsInv, ListsTyped, PageKey, KeyOf, Service
<1>2. /\ op.does \in {"remove", "add", "alter", "nothing"} /\ op.refetches \in BOOLEAN
      /\ op.refetches \/ op.does = "nothing"
  BY ServiceTyped DEF ListsInv
<1>3. UNION ToSet(<<ks>>) \subseteq RowKeys /\ <<ks>> \in Seq(SUBSET RowKeys) /\ <<>> \in Seq(RowKeys)
  BY DEF ToSet
<1>4. job \in Mutations /\ SingleIsPlain(job) /\ BulkCounts(job)
  BY <1>1, <1>2, <1>3 DEF Mutation, Mutations, SingleIsPlain, BulkCounts
<1>5. Starts(job)
  BY DEF OneClick
<1> QED BY <1>4, <1>5, StartsInv

LEMMA BulkClickInv == ASSUME ListsInv, NEW does \in Service.bulk, BulkClick(does) PROVE ListsInv'
<1> DEFINE n == Cardinality(ticked)
           left == [i \in 1 .. n |-> {SetToSeq(ticked)[i]}]
           job == Mutation(TRUE, does, left, TRUE)
<1>1. PageKey \in DockerHosts
  BY ListPagesAssumption DEF ListsInv, ListsTyped, PageKey, KeyOf, Service
<1>2. does \in {"remove", "add", "alter", "nothing"}
  BY ServiceTyped DEF ListsInv
<1>3. IsFiniteSet(ticked) /\ n \in Nat /\ n # 0 /\ ticked \subseteq RowKeys
  <2>1. IsFiniteSet(ticked) /\ ticked # {} /\ ticked \subseteq RowKeys
    BY ListPagesAssumption, FS_Subset DEF ListsInv, ListsTyped, BulkClick
  <2> QED BY <2>1, FS_CardinalityType, FS_EmptySet
<1>4. /\ SetToSeq(ticked) \in [1 .. n -> ticked]
      /\ \A x \in ticked : \E i \in 1 .. n : SetToSeq(ticked)[i] = x
  BY <1>3, SetToSeqListsAll
<1>5. /\ left \in Seq(SUBSET RowKeys) /\ Len(left) = n
      /\ \A i \in 1 .. n : \E k \in RowKeys : left[i] = {k}
  BY <1>3, <1>4
<1>6. UNION ToSet(left) = ticked
  <2>1. ToSet(left) = {{SetToSeq(ticked)[i]} : i \in 1 .. n}
    BY DEF ToSet
  <2> QED BY <1>4, <2>1, ZenonT(60)
<1>7. ToSet(<<>>) = {} /\ <<>> \in Seq(RowKeys) /\ Len(<<>>) = 0 /\ left # <<>>
  BY <1>3, <1>5 DEF ToSet
<1>8. Starts(job)
  BY DEF BulkClick
<1> HIDE DEF n, left
<1>9. job \in Mutations /\ SingleIsPlain(job)
  BY <1>1, <1>2, <1>3, <1>5, <1>6, <1>7 DEF Mutation, Mutations, SingleIsPlain
<1>10. /\ job.left = left /\ job.picked = ticked /\ job.tried = <<>> /\ job.came = ""
       /\ Cardinality(ticked) = n
  BY <1>6 DEF Mutation, n
<1>11. BulkCounts(job)
  <2> HIDE DEF job
  <2>1. job.left # <<>> /\ \A i \in 1 .. Len(job.left) : \E k \in RowKeys : job.left[i] = {k}
    BY <1>5, <1>7, <1>10
  <2>2. ToTry(job) = left
    BY <1>10 DEF ToTry
  <2>3. job.picked = ToSet(job.tried) \cup UNION ToSet(ToTry(job))
    BY <1>6, <1>7, <1>10, <2>2
  <2>4. Len(job.tried) + Len(ToTry(job)) = Cardinality(job.picked)
    <3>1. Len(job.tried) = 0 /\ Len(ToTry(job)) = n
      BY <1>5, <1>7, <1>10, <2>2
    <3>2. Cardinality(job.picked) = n
      BY <1>10
    <3> QED BY <1>3, <3>1, <3>2
  <2> QED BY <2>1, <2>3, <2>4 DEF BulkCounts
<1> QED BY <1>8, <1>9, <1>11, StartsInv

LEMMA EmptyIsZero == ASSUME NEW S, NEW s \in Seq(S) PROVE Len(s) = 0 <=> s = <<>>
OBVIOUS

LEMMA TailOf ==
  ASSUME NEW S, NEW s \in Seq(S), s # <<>>
  PROVE  /\ Len(s) \in Nat /\ Len(s) >= 1 /\ 1 \in 1 .. Len(s)
         /\ Tail(s) \in Seq(S) /\ Len(Tail(s)) = Len(s) - 1
         /\ \A i \in 1 .. Len(Tail(s)) : i + 1 \in 1 .. Len(s) /\ Tail(s)[i] = s[i + 1]
         /\ Len(s) = 1 => Tail(s) = <<>>
         /\ Len(s) > 1 => Tail(s) # <<>>
<1>1. Len(s) \in Nat /\ Len(s) >= 1 /\ Tail(s) \in Seq(S) /\ Len(Tail(s)) = Len(s) - 1
  OBVIOUS
<1>2. \A i \in 1 .. Len(Tail(s)) : i + 1 \in 1 .. Len(s) /\ Tail(s)[i] = s[i + 1]
  BY <1>1
<1>3. Len(Tail(s)) = 0 <=> Tail(s) = <<>>
  BY <1>1, EmptyIsZero
<1> QED BY <1>1, <1>2, <1>3

LEMMA ItemListed ==
  ASSUME NEW items \in Seq(SUBSET RowKeys), items # <<>>
  PROVE  /\ Head(items) \in SUBSET RowKeys /\ SetToSeq(Head(items)) \in Seq(RowKeys)
         /\ Tail(items) \in Seq(SUBSET RowKeys)
<1>1. Head(items) \in SUBSET RowKeys /\ Tail(items) \in Seq(SUBSET RowKeys)
  OBVIOUS
<1>2. IsFiniteSet(Head(items)) /\ Cardinality(Head(items)) \in Nat
  BY <1>1, ListPagesAssumption, FS_Subset, FS_CardinalityType
<1>3. SetToSeq(Head(items)) \in [1 .. Cardinality(Head(items)) -> Head(items)]
  BY <1>2, SetToSeqListsAll
<1>4. SetToSeq(Head(items)) \in [1 .. Cardinality(Head(items)) -> RowKeys]
  BY <1>1, <1>3
<1> QED BY <1>1, <1>2, <1>4

(* One more row is tried.                                                    *)
LEMMA OneMoreTried ==
  ASSUME NEW s \in Seq(RowKeys), NEW items \in Seq(SUBSET RowKeys), NEW k \in RowKeys,
         items # <<>>, items[1] = {k}
  PROVE  /\ SetToSeq(Head(items)) = <<k>>
         /\ ToSet(s \o <<k>>) \cup UNION ToSet(Tail(items)) = ToSet(s) \cup UNION ToSet(items)
         /\ Len(s \o <<k>>) + Len(Tail(items)) = Len(s) + Len(items)
<1>1. Head(items) = {k} /\ Len(items) \in Nat /\ Len(items) >= 1 /\ Len(s) \in Nat
  OBVIOUS
<1>2. SetToSeq(Head(items)) = <<k>>
  BY <1>1, SingletonSeq
<1>3. Len(s \o <<k>>) = Len(s) + 1 /\ Len(Tail(items)) = Len(items) - 1
  OBVIOUS
<1>4. ToSet(s \o <<k>>) = ToSet(s) \cup {k}
  <2>1. ASSUME NEW i \in DOMAIN (s \o <<k>>) PROVE (s \o <<k>>)[i] \in ToSet(s) \cup {k}
    BY DEF ToSet
  <2>2. ASSUME NEW i \in DOMAIN s PROVE s[i] \in ToSet(s \o <<k>>)
    <3>1. i \in DOMAIN (s \o <<k>>) /\ (s \o <<k>>)[i] = s[i]
      OBVIOUS
    <3> QED BY <3>1 DEF ToSet
  <2>3. k \in ToSet(s \o <<k>>)
    <3>1. Len(s) + 1 \in DOMAIN (s \o <<k>>) /\ (s \o <<k>>)[Len(s) + 1] = k
      OBVIOUS
    <3> QED BY <3>1 DEF ToSet
  <2> QED BY <2>1, <2>2, <2>3, SMTT(60) DEF ToSet
<1>5. ToSet(items) = {Head(items)} \cup ToSet(Tail(items))
  <2>1. ASSUME NEW i \in DOMAIN Tail(items) PROVE Tail(items)[i] \in ToSet(items)
    <3>1. i + 1 \in DOMAIN items /\ items[i + 1] = Tail(items)[i]
      OBVIOUS
    <3> QED BY <3>1 DEF ToSet
  <2>2. ASSUME NEW i \in DOMAIN items PROVE items[i] = Head(items) \/ items[i] \in ToSet(Tail(items))
    <3>1. CASE i = 1
      BY <3>1
    <3>2. CASE i # 1
      <4>1. i - 1 \in DOMAIN Tail(items) /\ Tail(items)[i - 1] = items[i]
        BY <3>2
      <4> QED BY <4>1 DEF ToSet
    <3> QED BY <3>1, <3>2
  <2>3. Head(items) \in ToSet(items)
    <3>1. 1 \in DOMAIN items /\ Head(items) = items[1]
      BY <1>1
    <3> QED BY <3>1 DEF ToSet
  <2> QED BY <2>1, <2>2, <2>3 DEF ToSet
<1>6. UNION ToSet(items) = {k} \cup UNION ToSet(Tail(items))
  BY <1>1, <1>5
<1> QED BY <1>1, <1>2, <1>3, <1>4, <1>6

LEMMA EffectTyped ==
  ASSUME NEW ks \in RowsOf, NEW does, NEW picked
  PROVE  Effect(ks, does, picked) \in RowsOf /\ (does = "nothing" => Effect(ks, does, picked) = ks)
BY DEF Effect, RowsOf, RowStates

LEMMA ServerDoesInv == ASSUME ListsInv, NEW j \in jobs, ServerDoes(j) PROVE ListsInv'
<1>1. PICK outcome \in {"done", "refused", "lost"} :
        /\ lists' = IF outcome = "refused" THEN lists
                    ELSE [lists EXCEPT ![j.host] = Effect(@, j.does, Head(j.left))]
        /\ jobs' = (jobs \ {j}) \cup
                     {[j EXCEPT !.came = outcome, !.tried = @ \o SetToSeq(Head(j.left)),
                                !.failed = @ \/ outcome # "done"]}
  BY DEF ServerDoes
<1> DEFINE new == [j EXCEPT !.came = outcome, !.tried = @ \o SetToSeq(Head(j.left)),
                            !.failed = @ \/ outcome # "done"]
           gone == {j}
<1>2. j \in Mutations /\ SingleIsPlain(j) /\ BulkCounts(j) /\ j.came = "" /\ j.left # <<>>
  BY DEF ListsInv, ListsTyped, JobsAreSound, ServerDoes, BulkCounts
<1>3. j.left \in Seq(SUBSET RowKeys) /\ j.tried \in Seq(RowKeys) /\ j.host \in DockerHosts
  BY <1>2 DEF Mutations
<1>4. SetToSeq(Head(j.left)) \in Seq(RowKeys)
  BY <1>2, <1>3, ItemListed
<1>5. /\ new \in Mutations
      /\ new.bulk = j.bulk /\ new.host = j.host /\ new.does = j.does /\ new.left = j.left /\ new.picked = j.picked
      /\ new.refetches = j.refetches /\ new.came = outcome /\ new.tried = j.tried \o SetToSeq(Head(j.left))
      /\ new.failed = (j.failed \/ outcome # "done")
  <2>1. j.tried \o SetToSeq(Head(j.left)) \in Seq(RowKeys)
    BY <1>3, <1>4
  <2> QED BY <1>2, <2>1 DEF Mutations
<1>6. jobs' = (jobs \ gone) \cup {new}
  BY <1>1
<1> HIDE DEF new
<1>7. SingleIsPlain(new)
  BY <1>2, <1>5 DEF SingleIsPlain
<1>8. BulkCounts(new)
  <2>1. CASE new.bulk
    <3>1. PICK k \in RowKeys : j.left[1] = {k}
      <4>1. 1 \in 1 .. Len(j.left)
        BY <1>2, <1>3, TailOf
      <4> QED BY <1>2, <1>5, <2>1, <4>1 DEF BulkCounts
    <3>2. ToTry(j) = j.left /\ ToTry(new) = Tail(j.left)
      BY <1>2, <1>5 DEF ToTry
    <3>3. /\ new.tried = j.tried \o <<k>>
          /\ ToSet(new.tried) \cup UNION ToSet(Tail(j.left)) = ToSet(j.tried) \cup UNION ToSet(j.left)
          /\ Len(new.tried) + Len(Tail(j.left)) = Len(j.tried) + Len(j.left)
      <4>1. /\ SetToSeq(Head(j.left)) = <<k>>
            /\ ToSet(j.tried \o <<k>>) \cup UNION ToSet(Tail(j.left)) = ToSet(j.tried) \cup UNION ToSet(j.left)
            /\ Len(j.tried \o <<k>>) + Len(Tail(j.left)) = Len(j.tried) + Len(j.left)
        BY <1>2, <1>3, <3>1, OneMoreTried
      <4>2. new.tried = j.tried \o <<k>>
        BY <1>5, <4>1
      <4> QED BY <4>1, <4>2
    <3>4. /\ j.picked = ToSet(j.tried) \cup UNION ToSet(j.left)
          /\ Len(j.tried) + Len(j.left) = Cardinality(j.picked)
          /\ \A i \in 1 .. Len(j.left) : \E q \in RowKeys : j.left[i] = {q}
      BY <1>2, <1>5, <2>1, <3>2 DEF BulkCounts
    <3>5. /\ new.picked = ToSet(new.tried) \cup UNION ToSet(ToTry(new))
          /\ Len(new.tried) + Len(ToTry(new)) = Cardinality(new.picked)
          /\ \A i \in 1 .. Len(new.left) : \E q \in RowKeys : new.left[i] = {q}
      BY <1>5, <3>2, <3>3, <3>4
    <3> QED BY <1>2, <1>5, <3>5 DEF BulkCounts
  <2>2. CASE ~new.bulk
    BY <1>2, <1>5, <2>2 DEF BulkCounts
  <2> QED BY <2>1, <2>2
<1>9. /\ lists' \in [DockerHosts -> RowsOf]
      /\ \A h \in DockerHosts : h # j.host => lists'[h] = lists[h]
      /\ outcome = "refused" \/ j.does = "nothing" => lists'[j.host] = lists[j.host]
  <2>1. lists \in [DockerHosts -> RowsOf] /\ lists[j.host] \in RowsOf
    BY <1>3 DEF ListsInv, ListsTyped
  <2>2. /\ Effect(lists[j.host], j.does, Head(j.left)) \in RowsOf
        /\ j.does = "nothing" => Effect(lists[j.host], j.does, Head(j.left)) = lists[j.host]
    BY <2>1, EffectTyped
  <2> QED BY <1>1, <1>3, <2>1, <2>2
<1>10. lists'[new.host] = lists[new.host] \/ Owes(new)
  BY <1>1, <1>5, <1>9 DEF Owes
<1>11. \A i \in gone : Owes(i) => Owes(new) /\ new.host = i.host
  BY <1>2, <1>5 DEF Owes
<1> HIDE DEF gone
<1>12. UNCHANGED <<page, hostId, rendered, known, query, missed, amiss, ticked>>
  BY DEF ServerDoes, cacheVars
<1> QED BY <1>5, <1>6, <1>7, <1>8, <1>9, <1>10, <1>11, <1>12, JobInv, ZenonT(60)

LEMMA NextItemInv == ASSUME ListsInv, NEW j \in jobs, NextItem(j) PROVE ListsInv'
<1> DEFINE new == [j EXCEPT !.came = "", !.left = Tail(@)]
           gone == {j}
<1>1. j \in Mutations /\ SingleIsPlain(j) /\ BulkCounts(j) /\ j.came # "" /\ j.bulk /\ Len(j.left) > 1
  BY DEF ListsInv, ListsTyped, JobsAreSound, NextItem, GoesOn
<1>2. j.left \in Seq(SUBSET RowKeys) /\ j.left # <<>>
  BY <1>1 DEF Mutations, BulkCounts
<1>3. Tail(j.left) \in Seq(SUBSET RowKeys)
  BY <1>2, ItemListed
<1>4. /\ new \in Mutations /\ new.bulk = j.bulk /\ new.host = j.host /\ new.picked = j.picked
      /\ new.tried = j.tried /\ new.came = "" /\ new.left = Tail(j.left)
  BY <1>1, <1>3 DEF Mutations
<1>5. jobs' = (jobs \ gone) \cup {new}
  BY DEF NextItem
<1> HIDE DEF new
<1>6. SingleIsPlain(new)
  BY <1>1, <1>4 DEF SingleIsPlain
<1>7. BulkCounts(new)
  <2>1. ToTry(new) = Tail(j.left) /\ ToTry(j) = Tail(j.left)
    BY <1>1, <1>4 DEF ToTry
  <2>2. Tail(j.left) # <<>>
    BY <1>1, <1>2, TailOf
  <2>3. \A i \in 1 .. Len(Tail(j.left)) : \E k \in RowKeys : Tail(j.left)[i] = {k}
    <3> TAKE i \in 1 .. Len(Tail(j.left))
    <3>1. Tail(j.left)[i] = j.left[i + 1] /\ i + 1 \in 1 .. Len(j.left)
      BY <1>2, TailOf
    <3> QED BY <1>1, <3>1 DEF BulkCounts
  <2>4. /\ j.picked = ToSet(j.tried) \cup UNION ToSet(Tail(j.left))
        /\ Len(j.tried) + Len(Tail(j.left)) = Cardinality(j.picked)
    BY <1>1, <2>1 DEF BulkCounts
  <2> QED BY <1>4, <2>1, <2>2, <2>3, <2>4 DEF BulkCounts
<1>8. Owes(new)
  BY <1>1, <1>4 DEF Owes
<1>9. /\ UNCHANGED <<page, hostId, rendered, known, query, missed, amiss, ticked, lists>>
      /\ lists' \in [DockerHosts -> RowsOf]
      /\ \A h \in DockerHosts : h # new.host => lists'[h] = lists[h]
      /\ lists'[new.host] = lists[new.host]
      /\ \A i \in gone : Owes(i) => Owes(new) /\ new.host = i.host
  BY <1>4, <1>8 DEF NextItem, listVars, cacheVars, ListsInv, ListsTyped
<1> HIDE DEF gone
<1> QED BY <1>4, <1>5, <1>6, <1>7, <1>8, <1>9, JobInv

LEMMA SettlesInv == ASSUME ListsInv, NEW j \in jobs, Settles(j) PROVE ListsInv'
<1>1. /\ j \in Mutations /\ SingleIsPlain(j) /\ BulkCounts(j) /\ j.came # ""
      /\ jobs' = jobs \ {j} /\ UNCHANGED <<page, lists, hostId, rendered, known>>
  BY DEF ListsInv, ListsTyped, JobsAreSound, Settles, listVars
<1>2. PageKey' = PageKey /\ PageKey \in DockerHosts
  BY <1>1, ListPagesAssumption DEF ListsInv, ListsTyped, PageKey, KeyOf, Service
<1>3. JobsAreSound'
  BY <1>1 DEF ListsInv, JobsAreSound, SingleIsPlain, BulkCounts, ToTry
<1>4. ASSUME NEW h, Owed(h), j.host # h \/ ~Owes(j) PROVE Owed(h)'
  <2>1. PICK i \in jobs : i.host = h /\ Owes(i)
    BY <1>4 DEF Owed
  <2>2. i \in jobs'
    BY <1>1, <1>4, <2>1
  <2> QED BY <2>1, <2>2 DEF Owed, Owes
<1>5. ticked' \subseteq RowKeys
  BY DEF Settles, ListsInv, ListsTyped
<1>6. BulkTriesEach'
  <2>1. ~amiss /\ amiss' = (amiss \/ (j.bulk /\ ~(/\ ToSet(j.tried) = j.picked
                                                  /\ Len(j.tried) = Cardinality(j.picked))))
    BY DEF ListsInv, BulkTriesEach, Settles
  <2>2. ASSUME j.bulk PROVE ToSet(j.tried) = j.picked /\ Len(j.tried) = Cardinality(j.picked)
    <3>1. Len(j.left) = 1 /\ j.left \in Seq(SUBSET RowKeys) /\ j.tried \in Seq(RowKeys)
      BY <1>1, <2>2 DEF Settles, GoesOn, Mutations
    <3>2. ToTry(j) = <<>>
      <4>1. j.left # <<>>
        BY <1>1 DEF BulkCounts
      <4>2. Tail(j.left) = <<>>
        BY <3>1, <4>1, TailOf
      <4> QED BY <1>1, <4>2 DEF ToTry
    <3>3. UNION ToSet(<<>>) = {} /\ Len(<<>>) = 0
      BY DEF ToSet
    <3>4. j.picked = ToSet(j.tried) \cup UNION ToSet(<<>>) /\ Len(j.tried) + Len(<<>>) = Cardinality(j.picked)
      BY <1>1, <2>2, <3>2 DEF BulkCounts
    <3> QED BY <3>1, <3>3, <3>4
  <2> QED BY <2>1, <2>2 DEF BulkTriesEach
<1>7. Asking \in [phase : {"idle", "asked", "read"}, rows : RowsOf] /\ Asking.phase = "asked"
  BY DEF Asking, NoRows, RowsOf, RowStates
<1>8. query \in [DockerHosts -> [phase : {"idle", "asked", "read"}, rows : RowsOf]]
  BY DEF ListsInv, ListsTyped
<1>9. CASE j.bulk \/ (~j.failed /\ j.refetches)
  <2>1. query' = Invalidated(j.key) /\ missed' = missed \cup Uncancelled(j.key) \cup MovedAway(j)
    BY <1>9 DEF Settles
  <2>2. query' \in [DockerHosts -> [phase : {"idle", "asked", "read"}, rows : RowsOf]]
    BY <1>7, <1>8, <2>1 DEF Invalidated
  <2>3. ASSUME rendered, PageKey \notin missed' PROVE FreshList(PageKey)' \/ Owed(PageKey)'
    <3>1. CASE j.key = PageKey
      <4>1. query'[PageKey].phase = "asked"
        BY <1>2, <1>7, <1>8, <2>1, <2>3, <3>1 DEF Invalidated, Uncancelled
      <4> QED BY <1>2, <4>1 DEF FreshList
    <3>2. CASE j.key # PageKey
      <4>1. j.host # PageKey
        BY <2>1, <2>3, <3>2 DEF MovedAway
      <4>2. query' = query /\ PageKey \notin missed
        BY <2>1, <2>3, <3>2 DEF Invalidated
      <4>3. FreshList(PageKey) \/ Owed(PageKey)
        BY <2>3, <4>2 DEF ListsInv, FreshOrOwed
      <4>4. Owed(PageKey) => Owed(PageKey)'
        BY <1>2, <1>4, <4>1 DEF Owed
      <4> QED BY <1>1, <1>2, <4>2, <4>3, <4>4 DEF FreshList
    <3> QED BY <3>1, <3>2
  <2>4. FreshOrOwed'
    BY <1>1, <1>2, <2>3 DEF FreshOrOwed
  <2> QED BY <1>1, <1>3, <1>5, <1>6, <2>2, <2>4 DEF ListsInv, ListsTyped
<1>10. CASE ~(j.bulk \/ (~j.failed /\ j.refetches))
  <2>1. query' = query /\ missed' = (IF j.came = "lost" THEN missed \cup {j.host} ELSE missed)
    BY <1>10 DEF Settles
  <2>2. ~Owes(j) \/ j.host \in missed'
    BY <1>1, <1>10, <2>1 DEF Owes, SingleIsPlain
  <2>3. ASSUME rendered, PageKey \notin missed' PROVE FreshList(PageKey)' \/ Owed(PageKey)'
    <3>1. FreshList(PageKey) \/ Owed(PageKey)
      BY <2>1, <2>3 DEF ListsInv, FreshOrOwed
    <3>2. j.host # PageKey \/ ~Owes(j)
      BY <2>2, <2>3
    <3>3. Owed(PageKey) => Owed(PageKey)'
      BY <1>2, <1>4, <3>2 DEF Owed
    <3> QED BY <1>1, <1>2, <2>1, <3>1, <3>3 DEF FreshList
  <2>4. FreshOrOwed'
    BY <1>1, <1>2, <2>3 DEF FreshOrOwed
  <2> QED BY <1>1, <1>3, <1>5, <1>6, <2>1, <2>4 DEF ListsInv, ListsTyped
<1> QED BY <1>9, <1>10

LEMMA OutsideChangeInv == ASSUME ListsInv, NEW h \in DockerHosts, NEW k \in RowKeys, OutsideChange(h, k) PROVE ListsInv'
<1>1. /\ UNCHANGED <<page, hostId, rendered, known, query, ticked, jobs, amiss>> /\ missed' = missed \cup {h}
      /\ \E state \in RowStates : lists' = [lists EXCEPT ![h][k] = state]
  BY DEF OutsideChange, cacheVars
<1>2. lists \in [DockerHosts -> RowsOf] /\ lists' \in [DockerHosts -> RowsOf]
      /\ \A g \in DockerHosts : g # h => lists'[g] = lists[g]
  BY <1>1 DEF ListsInv, ListsTyped, RowsOf
<1>3. PageKey' = PageKey /\ PageKey \in DockerHosts
  BY <1>1, ListPagesAssumption DEF ListsInv, ListsTyped, PageKey, KeyOf, Service
<1>4. JobsAreSound' /\ (\A g : Owed(g) => Owed(g)')
  BY <1>1, SameJobsIfUnchanged, SameJobsSound DEF ListsInv
<1>5. ASSUME rendered, PageKey \notin missed' PROVE FreshList(PageKey)' \/ Owed(PageKey)
  <2>1. PageKey # h /\ (FreshList(PageKey) \/ Owed(PageKey))
    BY <1>1, <1>5 DEF ListsInv, FreshOrOwed
  <2> QED BY <1>1, <1>2, <1>3, <2>1 DEF FreshList
<1>6. FreshOrOwed'
  BY <1>1, <1>3, <1>4, <1>5 DEF FreshOrOwed
<1> QED BY <1>1, <1>2, <1>4, <1>6 DEF ListsInv, ListsTyped, BulkTriesEach

-----------------------------------------------------------------------------
LEMMA ListsStep == ListsInv /\ [ListsNext]_listsVars => ListsInv'
<1> SUFFICES ASSUME ListsInv, [ListsNext]_listsVars PROVE ListsInv'
  OBVIOUS
<1>1. CASE UNCHANGED listsVars
  <2>1. UNCHANGED <<page, lists, hostId, rendered, known, query, ticked, jobs, missed, amiss>>
    BY <1>1 DEF listsVars, listVars, cacheVars
  <2>2. PageKey' = PageKey
    BY <2>1 DEF PageKey, KeyOf, Service
  <2>3. JobsAreSound' /\ (\A h : Owed(h) => Owed(h)')
    BY <2>1, SameJobsIfUnchanged, SameJobsSound DEF ListsInv
  <2>4. FreshOrOwed'
    BY <2>1, <2>2, <2>3, FreshRests DEF ListsInv, FreshOrOwed
  <2> QED BY <2>1, <2>3, <2>4 DEF ListsInv, ListsTyped, BulkTriesEach
<1>2. CASE Poll
  <2>1. PageKey \in DockerHosts
    BY ListPagesAssumption DEF ListsInv, ListsTyped, PageKey, KeyOf, Service
  <2> QED BY <1>2, <2>1, FetchInv
<1>3. CASE ListsNext /\ ~Poll
  BY <1>3, OpenPageInv, LeavePageInv, SetHostIdInv, FetchInv, TickInv, OutsideChangeInv, OneClickInv, BulkClickInv,
     ServerDoesInv, NextItemInv, SettlesInv DEF ListsNext
<1> QED BY <1>1, <1>2, <1>3

(* A list that is shown is the server's, or a mutation under way will have   *)
(* it fetched again (FreshOrOwed); and the rows of a bulk action are those   *)
(* tried and those left to try (BulkCounts): the inductive invariant of the  *)
(* list pages (the pages' services, utils.ts runBulk), for any rows, hosts   *)
(* and mutations under way.                                                  *)
THEOREM ListsInvariant == ListsSpec => []ListsInv
BY ListsInitInv, ListsStep, PTL DEF ListsSpec

(* With nothing under way a list shows what the server has, but for the      *)
(* named exceptions, and a bulk action tried each of its rows once           *)
(* (useBulkAction.ts, utils.ts runBulk, hosts.tsx).                          *)
THEOREM ListsAreCurrent == ListsSpec => []ListsKeepUp
<1>1. ListsInv => ListsKeepUp
  <2> SUFFICES ASSUME ListsInv PROVE ListCatchesUp
    BY DEF ListsInv, ListsKeepUp
  <2> SUFFICES ASSUME rendered, query[PageKey].phase = "idle", PageKey \notin missed,
                      \A j \in jobs : j.host # PageKey
               PROVE  known[PageKey] = <<lists[PageKey]>>
    BY DEF ListCatchesUp
  <2>1. ~Owed(PageKey)
    BY DEF Owed
  <2> QED BY <2>1 DEF ListsInv, FreshOrOwed, FreshList
<1> QED BY <1>1, ListsInvariant, PTL

-----------------------------------------------------------------------------
ListsMore ==
  /\ rendered \in BOOLEAN /\ amiss \in BOOLEAN
  /\ known \in [DockerHosts -> {<<>>} \cup {<<r>> : r \in RowsOf}]
  /\ missed \subseteq DockerHosts /\ edits \in 0 .. MaxEdits
  /\ \A j, k \in jobs : j.bulk = k.bulk => j = k

LEMMA ListsTypesAreOK == ListsInv /\ ListsMore => ListsTypeOK
<1> SUFFICES ASSUME ListsInv, ListsMore PROVE ListsTypeOK
  OBVIOUS
<1>1. ASSUME NEW j \in jobs
      PROVE  /\ {j.host, j.key} \subseteq DockerHosts
             /\ {j.bulk, j.failed, j.refetches, j.mine} \subseteq BOOLEAN
             /\ j.came \in {"", "done", "refused", "lost"}
             /\ j.left # <<>> /\ ToSet(j.left) \subseteq SUBSET RowKeys
             /\ ToSet(j.tried) \subseteq RowKeys
  <2>1. j \in Mutations /\ j.left # <<>>
    BY DEF ListsInv, ListsTyped, JobsAreSound, BulkCounts
  <2>2. j.left \in Seq(SUBSET RowKeys) /\ j.tried \in Seq(RowKeys)
    BY <2>1 DEF Mutations
  <2>3. ToSet(j.left) \subseteq SUBSET RowKeys /\ ToSet(j.tried) \subseteq RowKeys
    BY <2>2 DEF ToSet
  <2> QED BY <2>1, <2>3 DEF Mutations
<1> QED BY <1>1 DEF ListsInv, ListsTyped, ListsMore, ListsTypeOK

LEMMA ListsMoreInit == ListsInit => ListsMore
<1> SUFFICES ASSUME ListsInit PROVE ListsMore
  OBVIOUS
<1>1. known \in [DockerHosts -> {<<>>} \cup {<<r>> : r \in RowsOf}]
  BY DEF ListsInit
<1>2. edits \in 0 .. MaxEdits
  BY ListPagesAssumption DEF ListsInit
<1> QED BY <1>1, <1>2 DEF ListsInit, ListsMore

(* The jobs are as many, of each kind.                                       *)
OnePerKind == \A j, k \in jobs : j.bulk = k.bulk => j = k

LEMMA ChangedJob ==
  ASSUME OnePerKind, NEW j \in jobs, NEW new, jobs' = (jobs \ {j}) \cup {new}, new.bulk = j.bulk
  PROVE  OnePerKind'
<1> SUFFICES ASSUME NEW k \in jobs', NEW l \in jobs', k.bulk = l.bulk PROVE k = l
  BY DEF OnePerKind
<1> QED BY DEF OnePerKind

(* The page opens, closes and moves to another host.                         *)
LEMMA ListsPageMore ==
  ASSUME ListsInv, ListsMore,
         OpenPage \/ LeavePage \/ (\E h \in DockerHosts : SetHostId(h))
  PROVE  ListsMore'
<1>1. PageKey \in DockerHosts
  BY ListPagesAssumption DEF ListsInv, ListsTyped, PageKey, KeyOf, Service
<1>2. CASE OpenPage
  BY <1>1, <1>2 DEF OpenPage, Shows, ListsMore
<1>3. CASE LeavePage
  <2> DEFINE Left(j) == [j EXCEPT !.mine = FALSE]
  <2>1. ASSUME NEW j \in jobs PROVE Left(j).bulk = j.bulk
    BY DEF ListsInv, ListsTyped, Mutations
  <2>2. jobs' = {Left(j) : j \in jobs}
    BY <1>3 DEF LeavePage
  <2> HIDE DEF Left
  <2>3. OnePerKind'
    BY <2>1, <2>2 DEF OnePerKind, ListsMore
  <2> QED BY <1>3, <2>3 DEF LeavePage, ListsMore, OnePerKind, cacheVars
<1>4. ASSUME NEW h \in DockerHosts, SetHostId(h) PROVE ListsMore'
  <2> DEFINE Moved(j) == IF j.mine THEN [j EXCEPT !.key = KeyOf(h)] ELSE j
  <2>1. ASSUME NEW j \in jobs PROVE Moved(j).bulk = j.bulk
    BY DEF ListsInv, ListsTyped, Mutations
  <2>2. jobs' = {Moved(j) : j \in jobs}
    BY <1>4 DEF SetHostId
  <2> HIDE DEF Moved
  <2>3. OnePerKind'
    BY <2>1, <2>2 DEF OnePerKind, ListsMore
  <2> QED BY <1>4, <2>3 DEF SetHostId, Shows, ListsMore, OnePerKind
<1> QED BY <1>2, <1>3, <1>4

(* The query, and changes from elsewhere.                                    *)
LEMMA ListsQueryMore ==
  ASSUME ListsInv, ListsMore,
         \/ Poll
         \/ \E h \in DockerHosts : ListRead(h) \/ ListAnswer(h) \/ FetchFails(h)
         \/ \E k \in RowKeys : Tick(k) \/ \E h \in DockerHosts : OutsideChange(h, k)
  PROVE  ListsMore'
<1> USE DEF listVars, cacheVars
<1>1. CASE Poll
  BY <1>1 DEF Poll, ListsMore
<1>2. ASSUME NEW h \in DockerHosts, ListRead(h) \/ FetchFails(h) PROVE ListsMore'
  BY <1>2 DEF ListRead, FetchFails, ListsMore
<1>3. ASSUME NEW h \in DockerHosts, ListAnswer(h) PROVE ListsMore'
  <2>1. query[h].rows \in RowsOf
    BY DEF ListsInv, ListsTyped
  <2>2. <<query[h].rows>> \in {<<>>} \cup {<<r>> : r \in RowsOf}
    BY <2>1
  <2> DEFINE answer == <<query[h].rows>>
  <2>3. known' = [known EXCEPT ![h] = answer] /\ answer \in {<<>>} \cup {<<r>> : r \in RowsOf}
    BY <1>3, <2>2 DEF ListAnswer
  <2> HIDE DEF answer
  <2>4. known' \in [DockerHosts -> {<<>>} \cup {<<r>> : r \in RowsOf}]
    BY <2>3 DEF ListsMore
  <2> QED BY <1>3, <2>4 DEF ListAnswer, ListsMore
<1>4. ASSUME NEW k \in RowKeys, Tick(k) PROVE ListsMore'
  BY <1>4 DEF Tick, ListsMore
<1>5. ASSUME NEW k \in RowKeys, NEW h \in DockerHosts, OutsideChange(h, k) PROVE ListsMore'
  <2>1. edits' \in 0 .. MaxEdits /\ missed' \subseteq DockerHosts
    BY <1>5, ListPagesAssumption DEF OutsideChange, ListsMore
  <2> QED BY <1>5, <2>1 DEF OutsideChange, ListsMore
<1> QED BY <1>1, <1>2, <1>3, <1>4, <1>5

(* A click starts a mutation when there is none of its kind.                 *)
LEMMA ListsStartMore ==
  ASSUME ListsMore, NEW job, Starts(job), \A j \in jobs : j.bulk # job.bulk PROVE ListsMore'
<1>1. OnePerKind'
  BY DEF Starts, ListsMore, OnePerKind
<1>2. edits' \in 0 .. MaxEdits
  BY ListPagesAssumption DEF Starts, ListsMore
<1> QED BY <1>1, <1>2 DEF Starts, ListsMore, OnePerKind, listVars, cacheVars

LEMMA ListsClickMore ==
  ASSUME ListsInv, ListsMore,
         \/ \E op \in Service.operations, ks \in SUBSET RowKeys : OneClick(op, ks)
         \/ \E does \in Service.bulk : BulkClick(does)
  PROVE  ListsMore'
<1>0. \A j \in jobs : j.bulk \in BOOLEAN
  BY DEF ListsInv, ListsTyped, Mutations
<1>1. ASSUME NEW op, NEW ks, OneClick(op, ks) PROVE ListsMore'
  <2> DEFINE job == Mutation(FALSE, op.does, <<ks>>, op.refetches)
  <2>1. Starts(job) /\ (\A j \in jobs : j.bulk)
    BY <1>1 DEF OneClick
  <2>2. job.bulk = FALSE
    BY DEF Mutation
  <2> HIDE DEF job
  <2> QED BY <2>1, <2>2, ListsStartMore
<1>2. ASSUME NEW does, BulkClick(does) PROVE ListsMore'
  <2> DEFINE job == Mutation(TRUE, does, [i \in 1 .. Cardinality(ticked) |-> {SetToSeq(ticked)[i]}], TRUE)
  <2>1. Starts(job) /\ (\A j \in jobs : ~j.bulk)
    BY <1>2 DEF BulkClick
  <2>2. job.bulk = TRUE
    BY DEF Mutation
  <2> HIDE DEF job
  <2> QED BY <2>1, <2>2, ListsStartMore
<1> QED BY <1>1, <1>2

LEMMA ListsJobMore ==
  ASSUME ListsInv, ListsMore, NEW j \in jobs, ServerDoes(j) \/ NextItem(j) \/ Settles(j) PROVE ListsMore'
<1> USE DEF listVars, cacheVars
<1>0. j \in Mutations
  BY DEF ListsInv, ListsTyped
<1>1. CASE ServerDoes(j)
  <2>1. PICK outcome \in {"done", "refused", "lost"} :
          jobs' = (jobs \ {j}) \cup {[j EXCEPT !.came = outcome, !.tried = @ \o SetToSeq(Head(j.left)),
                                               !.failed = @ \/ outcome # "done"]}
    BY <1>1 DEF ServerDoes
  <2> DEFINE new == [j EXCEPT !.came = outcome, !.tried = @ \o SetToSeq(Head(j.left)), !.failed = @ \/ outcome # "done"]
  <2>2. new.bulk = j.bulk
    BY <1>0 DEF Mutations
  <2>3. jobs' = (jobs \ {j}) \cup {new}
    BY <2>1
  <2> HIDE DEF new
  <2>4. OnePerKind'
    BY <2>2, <2>3, ChangedJob DEF ListsMore, OnePerKind
  <2> QED BY <1>1, <2>4 DEF ServerDoes, ListsMore, OnePerKind
<1>2. CASE NextItem(j)
  <2> DEFINE new == [j EXCEPT !.came = "", !.left = Tail(@)]
  <2>1. new.bulk = j.bulk
    BY <1>0 DEF Mutations
  <2>2. jobs' = (jobs \ {j}) \cup {new}
    BY <1>2 DEF NextItem
  <2> HIDE DEF new
  <2>3. OnePerKind'
    BY <2>1, <2>2, ChangedJob DEF ListsMore, OnePerKind
  <2> QED BY <1>2, <2>3 DEF NextItem, ListsMore, OnePerKind
<1>3. CASE Settles(j)
  <2>1. missed' \subseteq DockerHosts
    <3>1. j.key \in DockerHosts /\ j.host \in DockerHosts
      BY <1>0 DEF Mutations
    <3> QED BY <1>3, <3>1 DEF Settles, Uncancelled, MovedAway, ListsMore
  <2>2. amiss' \in BOOLEAN /\ OnePerKind'
    BY <1>3 DEF Settles, ListsMore, OnePerKind
  <2> QED BY <1>3, <2>1, <2>2 DEF Settles, ListsMore, OnePerKind
<1> QED BY <1>1, <1>2, <1>3

LEMMA ListsMoreStep == ListsInv /\ ListsMore /\ [ListsNext]_listsVars => ListsMore'
<1> SUFFICES ASSUME ListsInv, ListsMore, [ListsNext]_listsVars PROVE ListsMore'
  OBVIOUS
<1>1. CASE UNCHANGED listsVars
  BY <1>1 DEF listsVars, listVars, cacheVars, ListsMore
<1>2. CASE ListsNext
  BY <1>2, ListsPageMore, ListsQueryMore, ListsClickMore, ListsJobMore DEF ListsNext
<1> QED BY <1>1, <1>2

LEMMA ListsTypes == ListsSpec => []ListsTypeOK
<1>1. ListsInit => ListsInv /\ ListsMore
  BY ListsInitInv, ListsMoreInit
<1>2. ListsInv /\ ListsMore /\ [ListsNext]_listsVars => ListsInv' /\ ListsMore'
  BY ListsStep, ListsMoreStep
<1> QED BY <1>1, <1>2, ListsTypesAreOK, PTL DEF ListsSpec

(***************************************************************************)
(* The components together (MCParts).                                      *)
(***************************************************************************)

PartStep ==
  /\ [SettingsNext]_settingsVars
  /\ [BackupsNext]_backupsVars
  /\ [ImageUpdatesNext]_imageUpdatesVars
  /\ [ResourceNext]_resourceVars
  /\ [AuditNext]_auditVars
  /\ [AlertsNext]_alertsVars
  /\ [OidcNext]_oidcVars
  /\ [EditorNext]_editorVars
  /\ [ListsNext]_listsVars
  /\ [SessionNext]_sessionVars
  /\ [FormNext]_formVars
  /\ [EngineNext]_engineVars

(* A step of the components together is a step of one, and none of another.  *)
LEMMA PartsStepIsOfOne == [PartsNext]_partsVars => PartStep /\ UNCHANGED part
<1> SUFFICES ASSUME [PartsNext]_partsVars PROVE PartStep /\ UNCHANGED part
  OBVIOUS
<1>1. CASE UNCHANGED partsVars
  BY <1>1 DEF partsVars, PartStep
<1>2. CASE part = "settings" /\ OthersRest /\ SettingsNext
  BY <1>2 DEF OthersRest, PartStep
<1>3. CASE part = "backups" /\ OthersRest /\ BackupsNext
  BY <1>3 DEF OthersRest, PartStep
<1>4. CASE part = "imageUpdates" /\ OthersRest /\ ImageUpdatesNext
  BY <1>4 DEF OthersRest, PartStep
<1>5. CASE part = "resources" /\ OthersRest /\ ResourceNext
  BY <1>5 DEF OthersRest, PartStep
<1>6. CASE part = "audit" /\ OthersRest /\ AuditNext
  BY <1>6 DEF OthersRest, PartStep
<1>7. CASE part = "alerts" /\ OthersRest /\ AlertsNext
  BY <1>7 DEF OthersRest, PartStep
<1>8. CASE part = "oidc" /\ OthersRest /\ OidcNext
  BY <1>8 DEF OthersRest, PartStep
<1>9. CASE part = "editor" /\ OthersRest /\ EditorNext
  BY <1>9 DEF OthersRest, PartStep
<1>10. CASE part = "lists" /\ OthersRest /\ ListsNext
  BY <1>10 DEF OthersRest, PartStep
<1>11. CASE part = "session" /\ OthersRest /\ SessionNext
  BY <1>11 DEF OthersRest, PartStep
<1>12. CASE part = "form" /\ OthersRest /\ FormNext
  BY <1>12 DEF OthersRest, PartStep
<1>13. CASE part = "engine" /\ OthersRest /\ EngineNext
  BY <1>13 DEF OthersRest, PartStep
<1> QED BY <1>1, <1>2, <1>3, <1>4, <1>5, <1>6, <1>7, <1>8, <1>9, <1>10, <1>11, <1>12, <1>13 DEF PartsNext

(* What TLC checks of the components together is what each of them does:     *)
(* the theorems about the components hold of it.                             *)
THEOREM PartsAreComponents ==
  PartsSpec =>
    /\ SettingsSpec
    /\ BackupsSpec
    /\ ImageUpdatesSpec
    /\ ResourceSpec
    /\ AuditSpec
    /\ AlertsSpec
    /\ OidcSpec
    /\ EditorSpec
    /\ ListsSpec
    /\ SessionSpec
    /\ FormSpec
    /\ EngineSpec
<1>1. PartsInit =>
          /\ SettingsInit
          /\ BackupsInit
          /\ ImageUpdatesInit
          /\ ResourceInit
          /\ AuditInit
          /\ AlertsInit
          /\ OidcInit
          /\ EditorInit
          /\ ListsInit
          /\ SessionInit
          /\ FormInit
          /\ EngineInit
  BY DEF PartsInit
<1>2. [PartsNext]_partsVars =>
          /\ [SettingsNext]_settingsVars
          /\ [BackupsNext]_backupsVars
          /\ [ImageUpdatesNext]_imageUpdatesVars
          /\ [ResourceNext]_resourceVars
          /\ [AuditNext]_auditVars
          /\ [AlertsNext]_alertsVars
          /\ [OidcNext]_oidcVars
          /\ [EditorNext]_editorVars
          /\ [ListsNext]_listsVars
          /\ [SessionNext]_sessionVars
          /\ [FormNext]_formVars
          /\ [EngineNext]_engineVars
  BY PartsStepIsOfOne DEF PartStep
<1> QED BY <1>1, <1>2, PTL DEF PartsSpec, SettingsSpec, BackupsSpec, ImageUpdatesSpec, ResourceSpec,
       AuditSpec, AlertsSpec, OidcSpec, EditorSpec, ListsSpec, SessionSpec, FormSpec, EngineSpec

(* One of the components moves.                                              *)
PartIsOne == part \in Parts

(* Each component that TLC looks at keeps its types, together with the       *)
(* others that rest, for any hosts, names, fields, rows and accounts.        *)
THEOREM PartsTypes == PartsSpec => []PartsTypeOK
<1>1. PartsInit => PartIsOne
  BY DEF PartsInit, PartIsOne
<1>2. PartIsOne /\ [PartsNext]_partsVars => PartIsOne'
  BY PartsStepIsOfOne DEF PartIsOne
<1>3. PartsSpec => []PartIsOne
  BY <1>1, <1>2, PTL DEF PartsSpec
<1>4. PartsSpec => [](SettingsInv /\ OidcInv /\ ResourceInv /\ AlertsInv /\ AuditInv /\ EngineInv)
  <2>1. SettingsSpec => []SettingsInv
    BY SettingsInvariant
  <2>2. OidcSpec => []OidcInv
    BY OidcConfigInv
  <2>3. ResourceSpec => []ResourceInv
    BY ResourceWatchdogInv
  <2>4. AlertsSpec => []AlertsInv
    BY AlertsInvariant
  <2>5. AuditSpec => []AuditInv
    BY AuditWatchdogInv
  <2>6. EngineSpec => []EngineInv
    BY EngineInitInv, EngineStep, PTL DEF EngineSpec
  <2> QED BY <2>1, <2>2, <2>3, <2>4, <2>5, <2>6, PartsAreComponents, PTL
<1>5. SettingsInv /\ OidcInv /\ ResourceInv /\ AlertsInv /\ AuditInv /\ EngineInv
        => SettingsTypeOK /\ OidcTypeOK /\ ResourceTypeOK /\ AlertsTypeOK /\ AuditTypeOK /\ EngineTypeOK
  BY DEF SettingsInv, OidcInv, ResourceInv, AlertsInv, AuditInv, EngineInv
<1>6. PartsSpec => [](/\ BackupsTypeOK /\ ImageUpdatesTypeOK /\ EditorTypeOK
                      /\ SessionTypeOK /\ FormTypeOK /\ ListsTypeOK)
  BY PartsAreComponents, BackupsTypes, ImageUpdatesTypes, EditorTypes, SessionTypes, FormTypesHold,
     ListsTypes, PTL
<1>7. /\ PartIsOne
      /\ SettingsTypeOK /\ OidcTypeOK /\ ResourceTypeOK /\ AlertsTypeOK /\ AuditTypeOK /\ EngineTypeOK
      /\ BackupsTypeOK /\ ImageUpdatesTypeOK /\ EditorTypeOK /\ SessionTypeOK /\ FormTypeOK /\ ListsTypeOK
      => PartsTypeOK
  BY PartsAssumption DEF PartsTypeOK, PartIsOne
<1> QED BY <1>3, <1>4, <1>5, <1>6, <1>7, PTL

=============================================================================
