----------------------------- MODULE OidcConfig -----------------------------
(***************************************************************************)
(* The discovered configuration of the single sign-on provider             *)
(* (apps/server/src/integrations/oidc/oidc.ts): one cached configuration   *)
(* and the settings it is for, filled by sign-ons that discover at the     *)
(* same time, while the settings are saved and backups restored.           *)
(***************************************************************************)
EXTENDS Integers, FiniteSets

CONSTANTS
  Providers,  \* the issuer, client and secret that sign-on can be set to
  Signins     \* the identities of calls of get()

NoKey == "none"
ASSUME OidcAssumption == IsFiniteSet(Signins) /\ NoKey \notin Providers

VARIABLES
  provider,     \* the settings: one of Providers, or NoKey while it is off or incomplete
  cachedConfig, \* whose configuration it is, or NoKey for null
  cachedKey,
  discoveries,  \* per call, the settings it read while it awaits the discovery, or NoKey
  got           \* history: per call, the settings it read last and whose configuration it returned

oidcVars == <<provider, cachedConfig, cachedKey, discoveries, got>>

ProviderKeys == Providers \cup {NoKey}

OidcTypeOK ==
  /\ {provider, cachedConfig, cachedKey} \subseteq ProviderKeys
  /\ discoveries \in [Signins -> ProviderKeys]
  /\ got \in [Signins -> [for : ProviderKeys, config : ProviderKeys]]

OidcInit ==
  /\ provider = NoKey /\ cachedConfig = NoKey /\ cachedKey = NoKey
  /\ discoveries = [s \in Signins |-> NoKey]
  /\ got = [s \in Signins |-> [for |-> NoKey, config |-> NoKey]]

-----------------------------------------------------------------------------

GetConfigAnyKey(s) ==    \* mutant: the cached configuration whatever it is for
  /\ discoveries[s] = NoKey
  /\ IF provider = NoKey \/ cachedConfig # NoKey
       THEN /\ got' = [got EXCEPT ![s] = [for |-> provider,
                                          config |-> IF provider = NoKey THEN NoKey ELSE cachedConfig]]
            /\ UNCHANGED discoveries
       ELSE discoveries' = [discoveries EXCEPT ![s] = provider] /\ UNCHANGED got
  /\ UNCHANGED <<provider, cachedConfig, cachedKey>>

\* get() up to its await: no provider, the cached configuration, or a discovery.
GetConfig(s) ==
  /\ discoveries[s] = NoKey
  /\ IF provider = NoKey \/ (cachedConfig # NoKey /\ cachedKey = provider)
       THEN /\ got' = [got EXCEPT ![s] = [for |-> provider,
                                          config |-> IF provider = NoKey THEN NoKey ELSE cachedConfig]]
            /\ UNCHANGED discoveries
       ELSE discoveries' = [discoveries EXCEPT ![s] = provider] /\ UNCHANGED got
  /\ UNCHANGED <<provider, cachedConfig, cachedKey>>

\* The discovery succeeds: configuration and key are set in one go, over
\* whatever was cached or reset meanwhile.
DiscoveryDone(s) ==
  /\ discoveries[s] # NoKey
  /\ cachedConfig' = discoveries[s] /\ cachedKey' = discoveries[s]
  /\ got' = [got EXCEPT ![s] = [for |-> discoveries[s], config |-> cachedConfig']]
  /\ discoveries' = [discoveries EXCEPT ![s] = NoKey]
  /\ UNCHANGED provider

DiscoveryFails(s) ==
  /\ discoveries[s] # NoKey
  /\ discoveries' = [discoveries EXCEPT ![s] = NoKey]
  /\ UNCHANGED <<provider, cachedConfig, cachedKey, got>>

\* A save of the settings resets the cache, a restored backup does not.
SaveProvider(p) ==
  /\ provider' = p
  /\ cachedConfig' = NoKey /\ cachedKey' = NoKey
  /\ UNCHANGED <<discoveries, got>>

RestoreProvider(p) ==
  /\ provider' = p
  /\ UNCHANGED <<cachedConfig, cachedKey, discoveries, got>>

OidcNext ==
  \/ \E s \in Signins : GetConfig(s) \/ DiscoveryDone(s) \/ DiscoveryFails(s)
  \/ \E p \in ProviderKeys : SaveProvider(p) \/ RestoreProvider(p)

OidcSpec == OidcInit /\ [][OidcNext]_oidcVars

-----------------------------------------------------------------------------
\* A sign-on goes to the provider that was set when it began, with that
\* provider's client and secret, whichever discoveries end in between and
\* whether the settings were saved or restored (oidc.ts get).
ConfigIsOfSettings == \A s \in Signins : got[s].config = got[s].for

=============================================================================
