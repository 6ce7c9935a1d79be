------------------------------- MODULE Alerts -------------------------------
(***************************************************************************)
(* What becomes of a container event (apps/server/src/dockerEvents.ts      *)
(* notify): the container watchdog may ask the model about it, once in a   *)
(* cooldown per container, and then the notification targets are told, the *)
(* webhook first and ntfy after it                                         *)
(* (apps/server/src/integrations/notifications/notifications.ts send).     *)
(* Settings are read again at each of these steps, and may have changed.   *)
(***************************************************************************)
EXTENDS Integers, FiniteSets

CONSTANTS
  Boxes,      \* containers, as pairs of a host and an id
  Events,     \* the identities of events
  Pause,      \* COOLDOWN_MS of the container watchdog in ticks
  MaxHours,   \* bound: the clock
  MaxSwitched    \* bound: changes of the settings

ASSUME AlertsAssumption ==
  /\ IsFiniteSet(Boxes) /\ IsFiniteSet(Events)
  /\ Pause \in Nat \ {0} /\ MaxHours \in Nat /\ MaxSwitched \in Nat

VARIABLES
  hours,     \* Date.now()
  flagsOn,   \* the settings: "watch", "model", "webhook", "ntfy", "kind"
  switched,     \* changes of the settings so far
  alerts,    \* per event, where its notify() is
  lastAsked, \* lastCheckedAt of the watchdog, or Unasked
  looks,     \* history: per event, what the watchdog did about it, and when
  steadyOn,  \* history: per event, the settings that were on since it came
  tries      \* history: per event, the targets that were posted to

alertsVars == <<hours, flagsOn, switched, alerts, lastAsked, looks, steadyOn, tries>>

Switches == {"watch", "model", "webhook", "ntfy", "kind"}
NotifyTargets == {"webhook", "ntfy"}
Unasked == -1
NoAlert == [at |-> "none"]
NoLook == [how |-> "none"]
\* CooldownKey(): `${hostId}:${containerId}`
CooldownKey(b) == b

AlertsTypeOK ==
  /\ hours \in 0 .. MaxHours /\ flagsOn \subseteq Switches /\ switched \in 0 .. MaxSwitched
  /\ alerts \in [Events -> {NoAlert} \cup [at : {"diagnose", "webhook", "ntfy", "done"}, box : Boxes]]
  /\ lastAsked \in [Boxes -> Unasked .. MaxHours]
  /\ looks \in [Events -> {NoLook} \cup [how : {"skipped", "noModel", "began"}, when : 0 .. MaxHours]]
  /\ steadyOn \in [Events -> SUBSET Switches] /\ tries \in [Events -> [NotifyTargets -> 0 .. 1]]

AlertsInit ==
  /\ hours = 0 /\ flagsOn \in SUBSET Switches /\ switched = 0
  /\ alerts = [e \in Events |-> NoAlert]
  /\ lastAsked = [b \in Boxes |-> Unasked]
  /\ looks = [e \in Events |-> NoLook]
  /\ steadyOn = [e \in Events |-> {}]
  /\ tries = [e \in Events |-> [t \in NotifyTargets |-> 0]]

-----------------------------------------------------------------------------
\* targetFor() and ntfyTargetFor(): what the settings of this moment say.
Wanted(t) == t \in flagsOn /\ "kind" \in flagsOn

\* send(): the webhook is posted to, if it is wanted, and awaited.
SendTo(e, b, on) ==
  /\ alerts' = [alerts EXCEPT ![e] = [at |-> IF on THEN "webhook" ELSE "ntfy", box |-> b]]
  /\ tries' = [tries EXCEPT ![e]["webhook"] = @ + IF on THEN 1 ELSE 0]

OnCooldown(b) == lastAsked[CooldownKey(b)] # Unasked /\ hours - lastAsked[CooldownKey(b)] < Pause

StampNothing(b) == UNCHANGED lastAsked   \* mutant: no cooldown before the awaits
StampCooldown(b) == lastAsked' = [lastAsked EXCEPT ![CooldownKey(b)] = hours]

\* diagnose() up to its first await: the cooldown starts before the model is
\* looked for, so it runs without a diagnosis where no model is set.
Look(b) ==
  IF OnCooldown(b) THEN "skipped" ELSE IF "model" \in flagsOn THEN "began" ELSE "noModel"

Diagnose(e, b) ==
  /\ looks' = [looks EXCEPT ![e] = [how |-> Look(b), when |-> hours]]
  /\ IF Look(b) = "skipped" THEN UNCHANGED lastAsked ELSE StampCooldown(b)

\* notify() up to its first await: the event waits for the diagnosis that began
\* with it; where none did, or the watchdog is off, it is told as it is.
Notify(e, b) ==
  /\ alerts[e] = NoAlert
  /\ steadyOn' = [steadyOn EXCEPT ![e] = flagsOn]
  /\ IF "watch" \in flagsOn THEN Diagnose(e, b) ELSE UNCHANGED <<lastAsked, looks>>
  /\ IF "watch" \in flagsOn /\ Look(b) = "began"
       THEN alerts' = [alerts EXCEPT ![e] = [at |-> "diagnose", box |-> b]] /\ UNCHANGED tries
       ELSE SendTo(e, b, Wanted("webhook"))
  /\ UNCHANGED <<hours, flagsOn, switched>>

\* The diagnosis has an answer, none, or failed on its way: the event is told,
\* with the answer or without.
Diagnosed(e) ==
  /\ alerts[e].at = "diagnose"
  /\ SendTo(e, alerts[e].box, Wanted("webhook"))
  /\ UNCHANGED <<hours, flagsOn, switched, lastAsked, looks, steadyOn>>

\* The webhook answered, refused or timed out, which is only logged: now ntfy.
WebhookDone(e, failed) ==
  /\ alerts[e].at = "webhook"
  /\ alerts' = [alerts EXCEPT ![e].at = "ntfy"]
  /\ UNCHANGED <<hours, flagsOn, switched, lastAsked, looks, steadyOn, tries>>

\* The same for ntfy, and notify() is through.
Ntfy(e) ==
  /\ alerts[e].at = "ntfy"
  /\ tries' = [tries EXCEPT ![e]["ntfy"] = @ + IF Wanted("ntfy") THEN 1 ELSE 0]
  /\ alerts' = [alerts EXCEPT ![e].at = "done"]
  /\ UNCHANGED <<hours, flagsOn, switched, lastAsked, looks, steadyOn>>

SaveSwitch(s) ==
  /\ switched < MaxSwitched /\ switched' = switched + 1
  /\ flagsOn' = IF s \in flagsOn THEN flagsOn \ {s} ELSE flagsOn \cup {s}
  /\ steadyOn' = [e \in Events |-> IF alerts[e].at = "done" THEN steadyOn[e] ELSE steadyOn[e] \ {s}]
  /\ UNCHANGED <<hours, alerts, lastAsked, looks, tries>>

Hour ==
  /\ hours < MaxHours /\ hours' = hours + 1
  /\ UNCHANGED <<flagsOn, switched, alerts, lastAsked, looks, steadyOn, tries>>

AlertsNext ==
  \/ \E e \in Events : \/ \E b \in Boxes : Notify(e, b)
                       \/ Diagnosed(e) \/ Ntfy(e)
                       \/ \E failed \in BOOLEAN : WebhookDone(e, failed)
  \/ \E s \in Switches : SaveSwitch(s)
  \/ Hour

AlertsSpec == AlertsInit /\ [][AlertsNext]_alertsVars

-----------------------------------------------------------------------------
\* Every event is told to every target that was on all the while, exactly once,
\* whatever the model says, however long it takes and whichever target fails;
\* and never twice to any (dockerEvents.ts notify, notifications.ts send).
EventsReachTargets ==
  \A e \in Events : \A t \in NotifyTargets :
    alerts[e].at = "done" /\ {t, "kind"} \subseteq steadyOn[e] => tries[e][t] = 1

\* Two events of one container are not both diagnosed within a cooldown, not
\* even when they come at once; and with the watchdog and a model on, an event
\* goes without only because an earlier one of that very container, within the
\* cooldown before, was diagnosed - or found no model set, which starts the
\* cooldown all the same (containerWatchdog.ts 25-29).
SameBox(d, e) == alerts[d] # NoAlert /\ alerts[e] # NoAlert /\ alerts[d].box = alerts[e].box

OneDiagnosis ==
  \A e \in Events :
    /\ looks[e].how = "began" =>
         \A d \in Events \ {e} : SameBox(d, e) /\ looks[d].how = "began" =>
           looks[e].when - looks[d].when >= Pause \/ looks[d].when - looks[e].when >= Pause
    /\ alerts[e] # NoAlert /\ {"watch", "model"} \subseteq steadyOn[e] /\ looks[e].how # "began" =>
         \E d \in Events \ {e} : /\ SameBox(d, e) /\ looks[d].how \in {"began", "noModel"}
                                 /\ looks[e].when - looks[d].when \in 0 .. Pause - 1

\* Each event is told, and its container not diagnosed over and over
\* (dockerEvents.ts, containerWatchdog.ts, notifications.ts).
EventsAreTold == EventsReachTargets /\ OneDiagnosis

=============================================================================
