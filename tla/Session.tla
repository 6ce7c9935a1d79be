------------------------------ MODULE Session ------------------------------
(***************************************************************************)
(* Signing in and out in one browser: the copies of the user and of the    *)
(* feature flags the web application keeps (apps/web/src/auth.tsx,         *)
(* useAppSettings.ts), the sign-in page, the two-factor modal, what each   *)
(* page offers by those copies, and what the server's routes accept by the *)
(* user of the session and its own flags (routes/*.ts, auth.ts, ws.ts).    *)
(* Requests are handled by the server, and answered, in any order.         *)
(***************************************************************************)
EXTENDS Naturals, FiniteSets

CONSTANTS
    Grants,      \* accounts an administrator may turn this one into: [admin, perms]
    MaxGrants,   \* bound: such changes, and flags switched
    MaxReloads,  \* bound: page loads and lost answers
    MaxCalls     \* bound: requests under way when another is sent

Permissions == {"manageContainers", "manageImages", "manageVolumes",
                "manageNetworks", "manageStacks", "exec", "useAi",
                "useSecurityScanner"}

(* The features that can be switched off and that a route looks at.        *)
Features == {"aiAssistant", "vulnerabilityScanner"}

ASSUME SessionAssumption ==
    /\ Grants \subseteq [admin : BOOLEAN, perms : SUBSET Permissions]
    /\ {MaxGrants, MaxReloads, MaxCalls} \subseteq Nat

VARIABLES
    account,    \* the users row: role and permissions
    totp,       \* its totp_enabled
    cookie,     \* the server's session: "none", "awaiting" a code, "in"
    features,   \* settings.featureFlags: those that are on
    status,     \* the browser's AuthStatus: none yet, or [user]
    failed,     \* AuthProvider's error: the last refresh failed
    awaitingTotp,   \* of the sign-in page that is shown
    at,         \* the URL: "login", or a page of the "app"
    knownFlags, \* the ['settings'] in the query cache: none yet, or its flags
    flagsQuery, \* the request for it: [phase, flags]
    calls,      \* requests of sign-in under way; gone: its page is left
    grants, reloads,
    late        \* history: the session changed after a status was read

serverVars == <<account, totp, cookie, features>>
flagVars == <<knownFlags, flagsQuery>>
browserVars == <<status, failed, awaitingTotp, at>>
sessionVars == <<serverVars, browserVars, flagVars, calls, grants, reloads, late>>

-----------------------------------------------------------------------------
(* What a user may do, and what the pages let him ask for.                 *)
HasPermission(u, p) == u.admin \/ p \in u.perms
When(condition, operations) == IF condition THEN operations ELSE {}

(* Until the settings are there, every feature passes for being on.        *)
Believed == IF knownFlags = {} THEN Features ELSE UNION knownFlags

ContainersControls(u) ==
    When(HasPermission(u, "manageContainers"),
         {"containers.create", "containers.action", "containers.remove"})
ContainerDetailControls(u, on) ==
    {"containers.get", "containers.logs", "containers.stats"} \cup
    When(HasPermission(u, "manageStacks"), {"containers.compose"}) \cup
    When(HasPermission(u, "manageContainers"),
         {"containers.action", "containers.remove"}) \cup
    When("aiAssistant" \in on /\ HasPermission(u, "useAi"), {"ai.diagnose"}) \cup
    When(HasPermission(u, "exec"), {"containers.exec"})
ImagesControls(u, on) ==
    When("vulnerabilityScanner" \in on /\ HasPermission(u, "useSecurityScanner"),
         {"trivy.scan"}) \cup
    When(HasPermission(u, "manageImages"),
         {"images.checkUpdate", "images.checkUpdates", "images.remove",
          "images.pull", "images.prune", "images.buildFromGit"})
VolumesControls(u) ==
    When(HasPermission(u, "manageVolumes"),
         {"volumes.create", "volumes.remove", "volumes.prune"})
NetworksControls(u) ==
    When(HasPermission(u, "manageNetworks"),
         {"networks.create", "networks.remove"})
StacksControls(u) ==
    When(HasPermission(u, "manageStacks"),
         {"stacks.deploy", "stacks.down", "stacks.remove",
          "stacks.listPortainer", "stacks.importPortainer"})
StackEditControls(u, on) ==
    {"stacks.get", "stacks.drift"} \cup
    When("aiAssistant" \in on /\ HasPermission(u, "useAi"), {"ai.generate"}) \cup
    When(HasPermission(u, "manageStacks"),
         {"stacks.create", "stacks.update", "stacks.deploy", "stacks.down",
          "stacks.remove", "stacks.webhook"})
UsersControls == {"users.list", "users.create", "users.update", "users.remove"}
HostsControls == {"hosts.create", "hosts.update", "hosts.remove", "hosts.test"}
AuditLogControls == {"auditLog.list", "auditLog.clear", "settings.update"}
LayoutControls(u, on) ==
    {"system.info", "settings.get", "events.subscribe", "hosts.list"} \cup
    When("aiAssistant" \in on /\ HasPermission(u, "useAi"), {"ai.chat"})
SettingsControls(u) ==
    When(u.admin, {"settings.update", "settings.reset", "backup.export",
                   "backup.restore", "backup.runScheduled", "ai.models",
                   "backup.deleteScheduled", "notifications.test",
                   "systemStatsToken.regenerate", "systemStatsToken.revoke",
                   "images.pull"})
(* The queries of the settings page run for whoever opens it; and it tests *)
(* the connection to Ollama when the switch of its own form is on.         *)
SettingsQueries == {"systemStatsToken.get", "backup.listScheduled"}
SettingsOwn == SettingsQueries \cup {"ai.models"}

(* What a feature that is off takes away.                                  *)
Gated(feature) ==
    IF feature = "aiAssistant" THEN {"ai.diagnose", "ai.generate", "ai.chat"}
                               ELSE {"trivy.scan"}

(* The routes of the application, and so the pages it can show.            *)
Offered(u, on) ==
    LayoutControls(u, on) \cup ContainersControls(u) \cup ContainerDetailControls(u, on)
    \cup ImagesControls(u, on) \cup VolumesControls(u) \cup NetworksControls(u)
    \cup StacksControls(u) \cup StackEditControls(u, on)
    \cup SettingsControls(u) \cup SettingsQueries
    \cup When(u.admin, UsersControls \cup HostsControls \cup AuditLogControls)

ContainerRoutes(u) ==
    {"containers.get", "containers.logs", "containers.compose"} \cup
    When(HasPermission(u, "manageContainers"),
         {"containers.create", "containers.action", "containers.remove"})
ImageRoutes(u) ==
    When(HasPermission(u, "manageImages"),
         {"images.checkUpdate", "images.checkUpdates", "images.remove",
          "images.pull", "images.prune", "images.buildFromGit"})
VolumeRoutes(u) ==
    When(HasPermission(u, "manageVolumes"),
         {"volumes.create", "volumes.remove", "volumes.prune"})
NetworkRoutes(u) ==
    When(HasPermission(u, "manageNetworks"),
         {"networks.create", "networks.remove"})
StackRoutes(u) ==
    {"stacks.get", "stacks.drift"} \cup
    When(HasPermission(u, "manageStacks"),
         {"stacks.create", "stacks.update", "stacks.deploy", "stacks.down",
          "stacks.remove", "stacks.webhook", "stacks.listPortainer",
          "stacks.importPortainer"})
HostRoutes(u) ==
    {"hosts.list", "system.info"} \cup
    When(u.admin, {"hosts.create", "hosts.update", "hosts.remove", "hosts.test"})
SettingsRoutes(u) ==
    {"settings.get"} \cup When(u.admin, {"settings.update", "settings.reset"})
AdminRouters(u) ==
    When(u.admin, {"systemStatsToken.get", "systemStatsToken.regenerate",
                   "systemStatsToken.revoke", "users.list", "users.create",
                   "users.update", "users.remove", "auditLog.list",
                   "auditLog.clear", "backup.export", "backup.restore",
                   "backup.listScheduled", "backup.runScheduled",
                   "backup.deleteScheduled", "notifications.test"})
IntegrationRoutes(u, on) ==
    When("aiAssistant" \in on /\ u.admin, {"ai.models"}) \cup
    When("vulnerabilityScanner" \in on /\ HasPermission(u, "useSecurityScanner"),
         {"trivy.scan"})
Upgrades(u, on) ==
    {"containers.stats", "containers.logs", "events.subscribe"} \cup
    When("aiAssistant" \in on /\ HasPermission(u, "useAi"),
         {"ai.diagnose", "ai.generate", "ai.chat"}) \cup
    When(HasPermission(u, "exec"), {"containers.exec"})

Accepted(u, on) ==
    ContainerRoutes(u) \cup ImageRoutes(u) \cup VolumeRoutes(u)
    \cup NetworkRoutes(u) \cup StackRoutes(u) \cup HostRoutes(u)
    \cup SettingsRoutes(u) \cup AdminRouters(u) \cup IntegrationRoutes(u, on)
    \cup Upgrades(u, on)

-----------------------------------------------------------------------------
(* The requests of sign-in. A status is asked for when the application     *)
(* loads, and by the handlers that changed something. BOUND: one of them,  *)
(* and one request of each form and button, at a time, those of a sign-in  *)
(* page that has been left included.                                       *)
Statuses == {"status", "statusOfLogin", "statusOfModal"}
Does == Statuses \cup {"login", "verify", "startOver", "logout", "totp"}
Answers == {"", "ok", "totp", "error"}

SessionTypeOK ==
    /\ account \in Grants /\ totp \in BOOLEAN /\ features \subseteq Features
    /\ cookie \in {"none", "awaiting", "in"} /\ at \in {"login", "app"}
    /\ status \subseteq [user : SUBSET Grants] /\ Cardinality(status) <= 1
    /\ {failed, awaitingTotp, late} \subseteq BOOLEAN
    /\ knownFlags \subseteq SUBSET Features /\ Cardinality(knownFlags) <= 1
    /\ flagsQuery \in [phase : {"idle", "asked", "answered", "refused"},
                       flags : SUBSET Features]
    /\ calls \subseteq [does : Does, phase : {"sent", "answered"}, answer : Answers,
                        user : SUBSET Grants, gone : BOOLEAN]
    /\ \A c, d \in calls : c.does = d.does => c = d
    /\ grants \in 0..MaxGrants /\ reloads \in 0..MaxReloads

Call(does) == [does |-> does, phase |-> "sent", answer |-> "", user |-> {},
               gone |-> FALSE]
NotAsked == [phase |-> "idle", flags |-> {}]

SessionInit ==
    /\ account \in Grants /\ totp \in BOOLEAN /\ cookie = "none"
    /\ features \in SUBSET Features
    /\ status = {} /\ failed = FALSE /\ awaitingTotp = FALSE /\ at = "app"
    /\ knownFlags = {} /\ flagsQuery = NotAsked
    /\ calls = {Call("status")}
    /\ grants = 0 /\ reloads = 0 /\ late = FALSE

Idle(what) == \A c \in calls : c.does \notin what
Replied(c, answer, user) ==
    (calls \ {c}) \cup {[c EXCEPT !.phase = "answered", !.answer = answer,
                                  !.user = user]}

UserIn(known) == UNION {s.user : s \in known}
User == UserIn(status)
SignedIn == User # {}

-----------------------------------------------------------------------------
(* The server. A session that changes contradicts a status already read;   *)
(* and the status the browser has, when "Use a different account" overtook *)
(* a code, or somebody shown as signed in signs in again with a code.      *)
StatusRead == \E c \in calls : c.does \in Statuses /\ c.phase = "answered"
Changes(session, behind) ==
    /\ cookie' = session
    /\ late' = (late \/ (session # cookie /\ (StatusRead \/ behind)))

ServesStatus(c) ==
    /\ c.does \in Statuses /\ c.phase = "sent"
    /\ calls' = Replied(c, "ok", IF cookie = "in" THEN {account} ELSE {})
    /\ UNCHANGED <<serverVars, browserVars, flagVars, grants, reloads, late>>

ServesLogin(c) ==
    /\ c.does = "login" /\ c.phase = "sent"
    /\ \/ /\ Changes(IF totp THEN "awaiting" ELSE "in", SignedIn)
          /\ calls' = Replied(c, IF totp THEN "totp" ELSE "ok", {})
       \/ calls' = Replied(c, "error", {}) /\ UNCHANGED <<cookie, late>>
    /\ UNCHANGED <<account, totp, features, browserVars, flagVars, grants, reloads>>

ServesVerify(c) ==
    /\ c.does = "verify" /\ c.phase = "sent"
    /\ \/ /\ cookie = "awaiting" /\ Changes("in", FALSE)
          /\ calls' = Replied(c, "ok", {})
       \/ calls' = Replied(c, "error", {}) /\ UNCHANGED <<cookie, late>>
    /\ UNCHANGED <<account, totp, features, browserVars, flagVars, grants, reloads>>

ServesLogout(c) ==
    /\ c.does \in {"logout", "startOver"} /\ c.phase = "sent"
    /\ Changes("none", c.does = "startOver" /\ SignedIn)
    /\ calls' = Replied(c, "ok", {})
    /\ UNCHANGED <<account, totp, features, browserVars, flagVars, grants, reloads>>

(* confirm, disable: behind requireAuth, whose refusal of a path under     *)
(* /auth does not reload the application.                                  *)
ServesTotp(c) ==
    /\ c.does = "totp" /\ c.phase = "sent"
    /\ \/ /\ cookie = "in" /\ totp' = ~totp
          /\ calls' = Replied(c, "ok", {})
       \/ calls' = Replied(c, "error", {}) /\ UNCHANGED totp
    /\ UNCHANGED <<account, cookie, features, browserVars, flagVars, grants, reloads,
                   late>>

(* requireAuth, then SettingsController.get.                               *)
ServesSettings ==
    /\ flagsQuery.phase = "asked"
    /\ flagsQuery' = IF cookie = "in" THEN [phase |-> "answered", flags |-> features]
                                      ELSE [phase |-> "refused", flags |-> {}]
    /\ UNCHANGED <<serverVars, browserVars, knownFlags, calls, grants, reloads, late>>

-----------------------------------------------------------------------------
(* The browser. Protected sends whoever is known not to be signed in from  *)
(* a page of the application to the sign-in page. A sign-in page that is   *)
(* left is gone with its state: what its requests would set is lost.       *)
Lands(page, known) ==
    IF page = "app" /\ known # {} /\ UserIn(known) = {} THEN "login" ELSE page
Orphaned(cs) == {[c EXCEPT !.gone = c.gone \/ c.does \in {"login", "startOver"}] :
                 c \in cs}
Visits(page, known, cs) ==
    /\ at' = Lands(page, known)
    /\ awaitingTotp' = FALSE /\ calls' = Orphaned(cs)

Reload(page) ==
    /\ at' = page /\ status' = {} /\ failed' = FALSE /\ awaitingTotp' = FALSE
    /\ knownFlags' = {} /\ flagsQuery' = NotAsked
    /\ calls' = {Call("status")}

LoadPage ==
    /\ reloads < MaxReloads /\ reloads' = reloads + 1
    /\ \E page \in {"login", "app"} : Reload(page)
    /\ UNCHANGED <<serverVars, grants, late>>

(* The history of the browser leads to the other page.                     *)
Back ==
    /\ \E page \in {"login", "app"} \ {at} : Visits(page, status, calls)
    /\ UNCHANGED <<serverVars, status, failed, flagVars, grants, reloads, late>>

Loses(c) ==
    /\ reloads < MaxReloads /\ reloads' = reloads + 1
    /\ calls' = Replied(c, "error", {})
    /\ late' = (late \/ (c.answer = "ok" /\ c.does \in {"logout", "startOver"}))
    /\ UNCHANGED <<serverVars, browserVars, flagVars, grants>>

Room == Cardinality(calls) + (IF flagsQuery.phase = "idle" THEN 0 ELSE 1) < MaxCalls
Asks(does) ==
    /\ Room /\ calls' = calls \cup {Call(does)}
    /\ UNCHANGED <<serverVars, browserVars, flagVars, grants, reloads, late>>

(* The sign-in page: Retry after a refresh that failed, a spinner before   *)
(* the first status, else one of its forms.                                *)
OnLogin == at = "login" /\ status # {} /\ ~failed
Submitting == {"login", "verify", "statusOfLogin"}
Retry       == at = "login" /\ failed /\ Idle({"status"}) /\ Asks("status")
SubmitLogin == OnLogin /\ ~awaitingTotp /\ Idle(Submitting) /\ Asks("login")
SubmitTotp  == OnLogin /\ awaitingTotp /\ Idle(Submitting) /\ Asks("verify")
StartOver   == OnLogin /\ awaitingTotp /\ Idle({"startOver"}) /\ Asks("startOver")
Logout      == SignedIn /\ at = "app" /\ Idle({"logout"}) /\ Asks("logout")
ToggleTotp  == /\ SignedIn /\ at = "app"
               /\ Idle({"totp", "statusOfModal"}) /\ Asks("totp")

(* refresh: a failure is caught, and its caller goes on; the handlers of   *)
(* the sign-in page to the application.                                    *)
GetsStatus(c) ==
    /\ c.does \in Statuses /\ c.phase = "answered"
    /\ status' = IF c.answer = "ok" THEN {[user |-> c.user]} ELSE status
    /\ failed' = (c.answer # "ok")
    /\ IF c.does = "statusOfLogin"
       THEN Visits("app", status', calls \ {c})
       ELSE /\ at' = Lands(at, status') /\ calls' = calls \ {c}
            /\ UNCHANGED awaitingTotp
    /\ UNCHANGED <<serverVars, flagVars, grants, reloads, late>>

(* onFinish, onTotpFinish, confirmSetup, disable                           *)
Proceeds(c) ==
    /\ c.does \in {"login", "verify", "totp"} /\ c.phase = "answered"
    /\ awaitingTotp' = (awaitingTotp \/ (c.answer = "totp" /\ ~c.gone))
    /\ calls' = (calls \ {c}) \cup
                  (IF c.answer # "ok" THEN {}
                   ELSE {Call(IF c.does = "totp" THEN "statusOfModal"
                              ELSE "statusOfLogin")})
    /\ UNCHANGED <<serverVars, status, failed, at, flagVars, grants, reloads, late>>

StartsOver(c) ==
    /\ c.does = "startOver" /\ c.phase = "answered"
    /\ calls' = calls \ {c} /\ awaitingTotp' = (awaitingTotp /\ c.gone)
    /\ UNCHANGED <<serverVars, status, failed, at, flagVars, grants, reloads, late>>

LogsOutOnServer(c) ==    \* mutant: setStatus dropped
    /\ c.does = "logout" /\ c.phase = "answered"
    /\ calls' = calls \ {c}
    /\ at' = IF c.answer = "ok" THEN "login" ELSE at
    /\ UNCHANGED <<serverVars, status, failed, awaitingTotp, flagVars, grants, reloads,
                   late>>

LogsOut(c) ==
    /\ c.does = "logout" /\ c.phase = "answered"
    /\ calls' = calls \ {c}
    /\ IF c.answer = "ok"
       THEN status' = {[user |-> {}]} /\ at' = "login"
       ELSE UNCHANGED <<status, at>>
    /\ UNCHANGED <<serverVars, failed, awaitingTotp, flagVars, grants, reloads, late>>

(* The settings: asked for by the pages when there are none or they are    *)
(* old, and kept whatever becomes of the session. BOUND: one query at a    *)
(* time.                                                                   *)
AsksSettings ==
    /\ SignedIn /\ at = "app" /\ flagsQuery.phase = "idle" /\ Room
    /\ flagsQuery' = [phase |-> "asked", flags |-> {}]
    /\ UNCHANGED <<serverVars, browserVars, knownFlags, calls, grants, reloads, late>>

GetsSettings ==
    /\ \/ /\ flagsQuery.phase = "answered"
          /\ knownFlags' = {flagsQuery.flags} /\ flagsQuery' = NotAsked
          /\ UNCHANGED <<browserVars, calls>>
       \/ flagsQuery.phase = "refused" /\ Reload("login")
    /\ UNCHANGED <<serverVars, grants, reloads, late>>

LosesSettings ==
    /\ reloads < MaxReloads /\ reloads' = reloads + 1
    /\ flagsQuery.phase # "idle" /\ flagsQuery' = NotAsked
    /\ UNCHANGED <<serverVars, browserVars, knownFlags, calls, grants, late>>

(* Any other request without a session: requireAuth's 401 sends the window *)
(* to the sign-in page.                                                    *)
Request ==
    /\ SignedIn /\ at = "app" /\ cookie # "in" /\ Reload("login")
    /\ UNCHANGED <<serverVars, grants, reloads, late>>

-----------------------------------------------------------------------------
(* An administrator changes the account, or its sessions end elsewhere.    *)
AdminChanges ==
    /\ grants < MaxGrants /\ grants' = grants + 1
    /\ \/ account' \in Grants /\ UNCHANGED <<cookie, late>>
       \/ cookie # "none" /\ cookie' = "none" /\ late' = TRUE /\ UNCHANGED account
    /\ UNCHANGED <<totp, features, browserVars, flagVars, calls, reloads>>

(* An administrator saves the settings with another value of a flag.       *)
SwitchFeature ==
    /\ grants < MaxGrants /\ grants' = grants + 1
    /\ \E f \in Features :
         features' = IF f \in features THEN features \ {f} ELSE features \cup {f}
    /\ UNCHANGED <<account, totp, cookie, browserVars, flagVars, calls, reloads, late>>

SessionNext ==
    \/ LoadPage \/ Back \/ Retry \/ SubmitLogin \/ SubmitTotp \/ StartOver \/ Logout
    \/ ToggleTotp \/ AsksSettings \/ ServesSettings \/ GetsSettings \/ LosesSettings
    \/ AdminChanges \/ SwitchFeature \/ Request
    \/ \E c \in calls :
         \/ ServesStatus(c) \/ ServesLogin(c) \/ ServesVerify(c) \/ ServesTotp(c)
         \/ ServesLogout(c) \/ Loses(c) \/ GetsStatus(c) \/ Proceeds(c)
         \/ StartsOver(c) \/ LogsOut(c)

SessionSpec == SessionInit /\ [][SessionNext]_sessionVars

-----------------------------------------------------------------------------
(* A browser with nothing under way that shows somebody as signed in has a *)
(* session, unless the session ended behind its back or a status read      *)
(* before a change of the session came after it.                           *)
SignedInIsTrue == calls = {} /\ SignedIn /\ ~late => cookie = "in"

(* What the pages offer to a user whose copy is current, the server does   *)
(* not refuse, but for what the settings page asks by itself, and for what *)
(* a feature gates that is off and that the copy of the settings, missing  *)
(* or old, shows as on.                                                    *)
OfferedIsAccepted ==
    at = "app" /\ cookie = "in" =>
      \A u \in User : u = account =>
        Offered(u, Believed) \ Accepted(u, features)
          \subseteq SettingsOwn \cup UNION {Gated(f) : f \in Believed \ features}

\* The application's picture of who is signed in and what they may do is the
\* server's (auth.tsx, Login.tsx, the pages' controls and the routers).
SessionIsTrue == SignedInIsTrue /\ OfferedIsAccepted

=============================================================================
