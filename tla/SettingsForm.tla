---------------------------- MODULE SettingsForm ----------------------------
(***************************************************************************)
(* The settings page (apps/web/src/pages/Settings.tsx with                 *)
(* services/SettingsService.ts and hooks/useAppSettings.ts): one form over *)
(* all settings, filled from a query that stays fresh for a minute, and    *)
(* saved as a whole. Other administrators save meanwhile. The secrets of   *)
(* the form are always loaded blank and a blank one is not written.        *)
(***************************************************************************)
EXTENDS Integers, FiniteSets

CONSTANTS
    Fields,      \* fields of the form that are no secret
    MaxSaves,    \* bound: changes of the settings
    MaxTyped     \* bound: fields edited

ASSUME SettingsFormAssumption == MaxSaves \in Nat /\ MaxTyped \in Nat

VARIABLES
    settings,    \* the server's: per field, the number of the change that set it
    secret,      \* the stored secret: 0 for none
    data,        \* the data of the query ["settings"], at most one
    fresh,       \* it is younger than its staleTime
    fetching,    \* its fetch: [phase, values]
    open,        \* the page is shown
    form,        \* the form's values: Empty, or the number of a change
    typedSecret, \* the secret's field: 0 when blank
    edited,      \* fields the user changed since the form was last filled
    saving,      \* the save under way: [phase, body, secret, edited], at most one
    saves, typings,
    unseen,      \* history: fields changed since the data was read
    since,       \* history: fields changed since the fetch under way read them
    clobbered    \* history: fields a save changed though nobody had edited them

formServerVars == <<settings, secret>>
formQueryVars == <<data, fresh, fetching>>
formPageVars == <<open, form, typedSecret, edited>>
formHistory == <<unseen, since, clobbered>>
formVars == <<formServerVars, formQueryVars, formPageVars, saving, saves, typings, formHistory>>

\* A cleared number: null in the form, undefined in the body, and not written.
Empty == -1
Blank == 0
Values == 0 .. MaxSaves + MaxTyped
NoForm == [f \in Fields |-> Empty]
NoFetch == [phase |-> "idle", values |-> NoForm]
AskFor == [phase |-> "asked", values |-> NoForm]

FormTypeOK ==
    /\ settings \in [Fields -> Values] /\ {secret, typedSecret} \subseteq Values
    /\ data \subseteq [Fields -> Values] /\ Cardinality(data) <= 1
    /\ {fresh, open} \subseteq BOOLEAN
    /\ fetching \in [phase : {"idle", "asked", "read"},
                     values : [Fields -> Values \cup {Empty}]]
    /\ form \in [Fields -> Values \cup {Empty}]
    /\ {edited, unseen, since, clobbered} \subseteq SUBSET Fields
    /\ Cardinality(saving) <= 1
    /\ saves \in 0..MaxSaves /\ typings \in 0..MaxTyped

FormInit ==
    /\ settings = [f \in Fields |-> 0] /\ secret \in {Blank}
    /\ data = {} /\ fresh = FALSE /\ fetching = NoFetch
    /\ open = FALSE /\ form = NoForm /\ typedSecret = Blank /\ edited = {}
    /\ saving = {} /\ saves = 0 /\ typings = 0 /\ unseen = {} /\ since = {} /\ clobbered = {}

-----------------------------------------------------------------------------
(* The page is opened: data that is fresh is not fetched again. The effect *)
(* on the settings fills the form with the data there is.                  *)
OpenSettings ==
    /\ ~open /\ open' = TRUE
    /\ form' = IF data = {} THEN NoForm ELSE CHOOSE d \in data : TRUE
    /\ typedSecret' = Blank /\ edited' = {}
    /\ fetching' = IF (data = {} \/ ~fresh) /\ fetching.phase = "idle"
                   THEN AskFor ELSE fetching
    /\ UNCHANGED <<formServerVars, data, fresh, saving, saves, typings, formHistory>>

CloseSettings ==
    /\ open /\ open' = FALSE
    /\ form' = NoForm /\ typedSecret' = Blank /\ edited' = {}
    /\ UNCHANGED <<formServerVars, formQueryVars, saving, saves, typings, formHistory>>

\* staleTime: 60_000
GrowsStale ==
    /\ fresh /\ fresh' = FALSE
    /\ UNCHANGED <<formServerVars, data, fetching, formPageVars, saving, saves, typings, formHistory>>

\* The other pages use the same settings, and fetch them when they are stale.
OtherPage ==
    /\ ~fresh /\ fetching.phase = "idle" /\ fetching' = AskFor
    /\ UNCHANGED <<formServerVars, data, fresh, formPageVars, saving, saves, typings, formHistory>>

ReadSettings ==
    /\ fetching.phase = "asked"
    /\ fetching' = [phase |-> "read", values |-> settings]
    /\ since' = {}
    /\ UNCHANGED <<formServerVars, data, fresh, formPageVars, saving, saves, typings, unseen, clobbered>>

SettingsArriveOnce ==    \* mutant: the effect runs when the page is opened only
    /\ fetching.phase = "read" /\ fetching' = NoFetch
    /\ data' = {fetching.values} /\ fresh' = TRUE
    /\ IF open /\ data = {}
       THEN form' = fetching.values /\ typedSecret' = Blank /\ edited' = {}
       ELSE UNCHANGED <<form, typedSecret, edited>>
    /\ unseen' = since
    /\ UNCHANGED <<formServerVars, open, saving, saves, typings, since, clobbered>>

(* Data that did not change keeps its identity, and the form its values;   *)
(* other data fills the whole form, over what was typed into it.             *)
SettingsArrive ==
    /\ fetching.phase = "read" /\ fetching' = NoFetch
    /\ data' = {fetching.values} /\ fresh' = TRUE
    /\ IF open /\ data # data'
       THEN form' = fetching.values /\ typedSecret' = Blank /\ edited' = {}
       ELSE UNCHANGED <<form, typedSecret, edited>>
    /\ unseen' = since
    /\ UNCHANGED <<formServerVars, open, saving, saves, typings, since, clobbered>>

\* After its retry.
FetchIsLost ==
    /\ fetching.phase # "idle" /\ fetching' = NoFetch
    /\ UNCHANGED <<formServerVars, data, fresh, formPageVars, saving, saves, typings, formHistory>>

TypeField(f) ==
    /\ open /\ typings < MaxTyped /\ typings' = typings + 1
    /\ \E v \in {Empty, MaxSaves + typings + 1} : form' = [form EXCEPT ![f] = v]
    /\ edited' = edited \cup {f}
    /\ UNCHANGED <<formServerVars, formQueryVars, open, typedSecret, saving, saves, formHistory>>

TypeSecret ==
    /\ open /\ typings < MaxTyped /\ typings' = typings + 1
    /\ typedSecret' = MaxSaves + typings + 1
    /\ UNCHANGED <<formServerVars, formQueryVars, open, form, edited, saving, saves, formHistory>>

\* onFinish: the whole form, but for the fields that were cleared.
Submit ==
    /\ open /\ saving = {} /\ saves < MaxSaves /\ saves' = saves + 1
    /\ saving' = {[phase |-> "sent", body |-> form, secret |-> typedSecret,
                   edited |-> edited, unseen |-> unseen]}
    /\ UNCHANGED <<formServerVars, formQueryVars, formPageVars, typings, formHistory>>

Changed(fields) == unseen' = unseen \cup fields /\ since' = since \cup fields
Written(body) == [f \in Fields |-> IF body[f] = Empty THEN settings[f] ELSE body[f]]

SaveHandled ==
    \E s \in saving :
      /\ s.phase = "sent"
      /\ settings' = Written(s.body)
      /\ secret' = IF s.secret = Blank THEN secret ELSE s.secret
      /\ clobbered' = clobbered \cup
           {f \in Fields \ s.edited : settings'[f] # settings[f] /\ f \notin s.unseen}
      /\ Changed({f \in Fields : settings'[f] # settings[f]})
      /\ saving' = {[s EXCEPT !.phase = "handled"]}
    /\ UNCHANGED <<formQueryVars, formPageVars, saves, typings>>

(* onSuccess invalidates the query, which a page that shows it refetches;  *)
(* onError does not, and the settings may have been written.               *)
SaveAnswered ==
    /\ saving # {} /\ saving' = {}
    /\ \/ /\ \E s \in saving : s.phase = "handled"
          /\ fresh' = FALSE
          /\ fetching' = IF fetching.phase = "idle" \/ data # {}
                         THEN AskFor ELSE fetching
       \/ UNCHANGED <<fresh, fetching>>
    /\ UNCHANGED <<formServerVars, data, formPageVars, saves, typings, formHistory>>

\* Another administrator saves, resets or restores.
OtherSaves(f) ==
    /\ saves < MaxSaves /\ saves' = saves + 1
    /\ settings' = [settings EXCEPT ![f] = saves + 1]
    /\ saving' = {[s EXCEPT !.unseen = @ \cup {f}] : s \in saving}
    /\ Changed({f})
    /\ UNCHANGED <<secret, formQueryVars, formPageVars, typings, clobbered>>

FormNext ==
    \/ OpenSettings \/ CloseSettings \/ GrowsStale \/ OtherPage
    \/ ReadSettings \/ SettingsArrive \/ FetchIsLost
    \/ TypeSecret \/ Submit \/ SaveHandled \/ SaveAnswered
    \/ \E f \in Fields : TypeField(f) \/ OtherSaves(f)

FormSpec == FormInit /\ [][FormNext]_formVars

-----------------------------------------------------------------------------
(* Saving a form changes no setting its user did not edit, unless somebody *)
(* else changed that setting after the form's data was read: the form then *)
(* puts the old value back.                                                *)
SavesOwnEdits == clobbered = {}

(* With nothing under way, a field nobody edited shows the server's value, *)
(* unless it was changed elsewhere since the data was read.                *)
FormShowsSettings ==
    open /\ data # {} /\ fetching.phase = "idle" /\ saving = {} =>
      \A f \in Fields \ (edited \cup unseen) : form[f] = settings[f]

\* A form saves and shows what it should (Settings.tsx, SettingsService.ts).
FormKeepsEdits == SavesOwnEdits /\ FormShowsSettings

=============================================================================
