------------------------------- MODULE MCParts -------------------------------
(***************************************************************************)
(* The components that share no state with each other, for TLC: `part` is  *)
(* chosen in the initial state and says which of them moves; the others    *)
(* keep an initial state.  One run so checks each of them on its own, with *)
(* the bounds of MCParts.cfg, as a run per component would.                *)
(***************************************************************************)
EXTENDS Settings, Backups, ImageUpdates, ResourceWatchdog, AuditWatchdog, Alerts, OidcConfig,
        StackEdit, ListPages, Session, SettingsForm, Engine, FiniteSetsExt

CONSTANT Parts  \* the components that TLC looks at

ASSUME PartsAssumption ==
  Parts \subseteq {"settings", "backups", "imageUpdates", "resources", "audit", "alerts", "oidc",
                   "editor", "lists", "session", "form", "engine"}

\* An administrator, and two users each of whom lacks what the other may do.
MCUser  == [admin |-> FALSE, perms |-> {"manageContainers", "manageImages", "useAi",
                                        "useSecurityScanner"}]
MCGrants == {MCUser, [MCUser EXCEPT !.perms = Permissions \ @], [MCUser EXCEPT !.admin = TRUE]}

VARIABLE part

partsVars ==
  <<part, settingsVars, backupsVars, imageUpdatesVars, resourceVars, auditVars, alertsVars,
    oidcVars, engineVars, editorVars, listsVars, sessionVars, formVars>>

PartsInit ==
  /\ part \in Parts
  /\ SettingsInit
  /\ BackupsInit /\ (part = "backups" \/ (stacks = [n \in Names |-> "whole"] /\ keep = 1))
  /\ ImageUpdatesInit /\ (part = "imageUpdates" \/ local = [h \in Hosts |-> 0])
  /\ ResourceInit
  /\ AuditInit /\ (part = "audit" \/ every = 1)
  /\ AlertsInit /\ (part = "alerts" \/ flagsOn = {})
  /\ OidcInit
  /\ EditorInit /\ (part = "editor" \/ disk = [s \in Editable |-> {}])
  /\ ListsInit /\ (part = "lists" \/ page = "networks")
  /\ SessionInit /\ features = Features /\ account = MCUser /\ (part = "session" \/ ~totp)
  /\ FormInit
  /\ EngineInit /\ (part = "engine" \/ (things = {} /\ quota = CHOOSE q \in Quotas : TRUE))

\* Whatever is not the part that moves stays as it is.
OthersRest ==
  /\ UNCHANGED part
  /\ part # "settings" => UNCHANGED settingsVars
  /\ part # "backups" => UNCHANGED backupsVars
  /\ part # "imageUpdates" => UNCHANGED imageUpdatesVars
  /\ part # "resources" => UNCHANGED resourceVars
  /\ part # "audit" => UNCHANGED auditVars
  /\ part # "alerts" => UNCHANGED alertsVars
  /\ part # "oidc" => UNCHANGED oidcVars
  /\ part # "editor" => UNCHANGED editorVars
  /\ part # "lists" => UNCHANGED listsVars
  /\ part # "session" => UNCHANGED sessionVars
  /\ part # "form" => UNCHANGED formVars
  /\ part # "engine" => UNCHANGED engineVars

PartsNext ==
  \/ part = "settings" /\ OthersRest /\ SettingsNext
  \/ part = "backups" /\ OthersRest /\ BackupsNext
  \/ part = "imageUpdates" /\ OthersRest /\ ImageUpdatesNext
  \/ part = "resources" /\ OthersRest /\ ResourceNext
  \/ part = "audit" /\ OthersRest /\ AuditNext
  \/ part = "alerts" /\ OthersRest /\ AlertsNext
  \/ part = "oidc" /\ OthersRest /\ OidcNext
  \/ part = "editor" /\ OthersRest /\ EditorNext
  \/ part = "lists" /\ OthersRest /\ ListsNext
  \/ part = "session" /\ OthersRest /\ SessionNext
  \/ part = "form" /\ OthersRest /\ FormNext
  \/ part = "engine" /\ OthersRest /\ EngineNext

PartsSpec == PartsInit /\ [][PartsNext]_partsVars

\* What tells two states apart: the others keep an initial state.
PartsView ==
  <<part, CASE part = "settings"     -> <<settingsVars>>
          [] part = "backups"      -> <<backupsVars>>
          [] part = "imageUpdates" -> <<imageUpdatesVars>>
          [] part = "resources"    -> <<resourceVars>>
          [] part = "audit"        -> <<auditVars>>
          [] part = "alerts"       -> <<alertsVars>>
          [] part = "oidc"         -> <<oidcVars>>
          [] part = "editor"       -> <<editorVars>>
          [] part = "lists"        -> <<listsVars>>
          [] part = "session"      -> <<sessionVars>>
          [] part = "form"         -> <<formVars>>
          [] part = "engine"       -> <<engineVars>>>>

\* Every component keeps its types.
PartsTypeOK ==
  CASE part = "settings"     -> SettingsTypeOK
    [] part = "backups"      -> BackupsTypeOK
    [] part = "imageUpdates" -> ImageUpdatesTypeOK
    [] part = "resources"    -> ResourceTypeOK
    [] part = "audit"        -> AuditTypeOK
    [] part = "alerts"       -> AlertsTypeOK
    [] part = "oidc"         -> OidcTypeOK
    [] part = "editor"       -> EditorTypeOK
    [] part = "lists"        -> ListsTypeOK
    [] part = "session"      -> SessionTypeOK
    [] part = "form"         -> FormTypeOK
    [] part = "engine"       -> EngineTypeOK

-----------------------------------------------------------------------------
\* Two periods of the update checks, one of which no timer can hold.
MCCounts == [j \in Jobs |-> IF j = "imageUpdateCheck" THEN {1, 720} ELSE {1}]

\* What may be asked of memory and CPUs, and the quotas.
Amounts(memory, cpus) == [memory |-> memory, cpus |-> cpus]
MCWishes   == {Unlimited, Amounts(1, 0), Amounts(2, NoLimit)}
MCQuotas   == {Amounts(1, 1), Amounts(NoLimit, 0)}

MCBoxes == {<<"local", "c">>, <<"h1", "c">>}

\* Rows to start with: one to act on; two where something is done to several.
MCFirstRows == [p \in PageNames |-> IF p \in {"stacks", "users"} THEN {"r1", "r2"} ELSE {"r1"}]

=============================================================================
