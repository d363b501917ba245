--------------------------- MODULE ExtensionRegistry ---------------------------
(***************************************************************************)
(* Plugins and skills (tool/extension_registry_v2.py): signed manifests    *)
(* are installed, updated, enabled, disabled and revoked; a change of the  *)
(* requested capabilities has to be reviewed before the extension is       *)
(* enabled.  With it, the registry of protected key handles                *)
(* (tool/key_registry_v2.py).                                              *)
(***************************************************************************)
EXTENDS SignedManifest

CONSTANTS
    Candidates,     \* envelopes with an extension manifest as payload
    ExtensionKeys,  \* the trust store
    KeyHandles,     \* key handles a caller may register
    NotInstalled,
    MaxExtensionTime

VARIABLES
    installed,      \* identity -> the installed extension, or NotInstalled
    keyHandles,     \* ProtectedKeyRegistry: key id -> handle
    extensionTime,
    everRevoked     \* history: <<"extension", identity>> and <<"key", key id>> once revoked

extensionVars == <<installed, keyHandles, extensionTime, everRevoked>>

Identities == {e.payload.identity : e \in Candidates}
Extensions ==
    [manifest : {e.payload : e \in Candidates}, enabled : BOOLEAN, revoked : BOOLEAN,
     reviewRequired : BOOLEAN]
KeyIds == {h.keyId : h \in KeyHandles}

\* A handle has its fields, and the mark of an absent extension is none of one.
ASSUME ExtensionsAssumption ==
    /\ \A h \in KeyHandles :
          h \in [keyId : {h.keyId}, provider : {h.provider}, opaque : BOOLEAN,
                  status : {h.status}, purpose : {h.purpose}, domain : {h.domain}]
    /\ NotInstalled \notin Extensions
    /\ MaxExtensionTime \in Nat

Providers == {"windows_credential_manager", "macos_keychain", "linux_secret_service",
              "external_hsm", "ephemeral_test"}

\* from_payload: the schema, type, identity, digests, version and compatibility.
ValidManifest(m) == m.wellFormed /\ m.type \in {"plugin", "skill"} /\ m.compatibility # {}

\* _verify_candidate: authentic, well formed, and the code and the tests at hand
\* are the ones it names.
VerifiedCandidate(e) ==
    /\ VerifyManifest(e, ExtensionKeys, extensionTime, "kristin_extension", "kristin.extensions")
    /\ ValidManifest(e.payload)
    /\ e.payload.code /\ e.payload.tests

-----------------------------------------------------------------------------
ExtensionsInit ==
    /\ installed = [i \in Identities |-> NotInstalled]
    /\ keyHandles = [k \in {} |-> 0]
    /\ extensionTime = 0
    /\ everRevoked = {}

InstallExtension(e) ==
    LET i == e.payload.identity IN
    /\ VerifiedCandidate(e) /\ installed[i] = NotInstalled
    /\ installed' = [installed EXCEPT ![i] =
          [manifest |-> e.payload, enabled |-> FALSE, revoked |-> FALSE,
           reviewRequired |-> e.payload.capabilities # {}]]
    /\ UNCHANGED <<keyHandles, extensionTime, everRevoked>>

\* Mutant: an update replaces a revoked extension.
UpdateAllowed_Revoked(i, e) ==
    /\ installed[i] # NotInstalled
    /\ VerifiedCandidate(e) /\ e.payload.identity = i
    /\ e.payload.version > installed[i].manifest.version

UpdateAllowed(i, e) ==
    /\ installed[i] # NotInstalled /\ ~installed[i].revoked
    /\ VerifiedCandidate(e) /\ e.payload.identity = i
    /\ e.payload.version > installed[i].manifest.version

\* The review is asked for when the capabilities change, and is no longer
\* asked for when they do not, whether or not it took place.
UpdateExtension(i, e) ==
    /\ UpdateAllowed(i, e)
    /\ LET prior == installed[i]
           changed == e.payload.capabilities # prior.manifest.capabilities
       IN installed' = [installed EXCEPT ![i] =
             [manifest |-> e.payload, enabled |-> prior.enabled /\ ~changed,
              revoked |-> FALSE, reviewRequired |-> changed]]
    /\ UNCHANGED <<keyHandles, extensionTime, everRevoked>>

EnableExtension(i, approved) ==
    /\ installed[i] # NotInstalled /\ ~installed[i].revoked
    /\ installed[i].reviewRequired => approved
    /\ installed' = [installed EXCEPT ![i].enabled = TRUE, ![i].reviewRequired = FALSE]
    /\ UNCHANGED <<keyHandles, extensionTime, everRevoked>>

DisableExtension(i) ==
    /\ installed[i] # NotInstalled
    /\ installed' = [installed EXCEPT ![i].enabled = FALSE]
    /\ UNCHANGED <<keyHandles, extensionTime, everRevoked>>

RevokeExtension(i) ==
    /\ installed[i] # NotInstalled
    /\ installed' = [installed EXCEPT
          ![i].enabled = FALSE, ![i].revoked = TRUE, ![i].reviewRequired = FALSE]
    /\ everRevoked' = everRevoked \cup {<<"extension", i>>}
    /\ UNCHANGED <<keyHandles, extensionTime>>

-----------------------------------------------------------------------------
\* ProtectedKeyRegistry.register: a new id, a known provider, an opaque reference.
RegisterKey(h) ==
    /\ h.keyId \notin DOMAIN keyHandles
    /\ h.provider \in Providers /\ h.opaque
    /\ keyHandles' = [k \in DOMAIN keyHandles \cup {h.keyId} |->
                        IF k = h.keyId THEN h ELSE keyHandles[k]]
    /\ UNCHANGED <<installed, extensionTime, everRevoked>>

RevokeKey(k) ==
    /\ k \in DOMAIN keyHandles
    /\ keyHandles' = [keyHandles EXCEPT ![k].status = "revoked"]
    /\ everRevoked' = everRevoked \cup {<<"key", k>>}
    /\ UNCHANGED <<installed, extensionTime>>

ResolvesKey(k, purpose, domain) ==
    /\ k \in DOMAIN keyHandles /\ keyHandles[k].status = "active"
    /\ keyHandles[k].purpose = purpose /\ keyHandles[k].domain = domain

ExtensionTick ==
    /\ extensionTime < MaxExtensionTime
    /\ extensionTime' = extensionTime + 1
    /\ UNCHANGED <<installed, keyHandles, everRevoked>>

ExtensionsNext ==
    \/ \E e \in Candidates : InstallExtension(e)
    \/ \E i \in Identities :
          \/ \E e \in Candidates : UpdateExtension(i, e)
          \/ \E approved \in BOOLEAN : EnableExtension(i, approved)
          \/ DisableExtension(i) \/ RevokeExtension(i)
    \/ \E h \in KeyHandles : RegisterKey(h)
    \/ \E k \in KeyIds : RevokeKey(k)
    \/ ExtensionTick

ExtensionsSpec == ExtensionsInit /\ [][ExtensionsNext]_extensionVars

-----------------------------------------------------------------------------
ExtensionsTypeOK ==
    /\ installed \in [Identities -> Extensions \cup {NotInstalled}]
    /\ DOMAIN keyHandles \subseteq KeyIds
    /\ extensionTime \in 0 .. MaxExtensionTime
    /\ everRevoked \subseteq ({"extension"} \X Identities) \cup ({"key"} \X KeyIds)

\* Revocation is final for an identity and for a key id, whatever is installed,
\* updated, enabled or registered under it afterwards (install, update, enable,
\* register, revoke).
RevokedIsFinal ==
    /\ \A i \in Identities : <<"extension", i>> \in everRevoked =>
          installed[i].revoked /\ ~installed[i].enabled
    /\ \A k \in KeyIds, h \in KeyHandles : <<"key", k>> \in everRevoked =>
          ~ResolvesKey(k, h.purpose, h.domain)
=============================================================================
