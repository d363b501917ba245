---------------------------- MODULE SignedManifest ----------------------------
(***************************************************************************)
(* Signed Manifest v2 (tool/signed_manifest_v2.py): what an envelope must  *)
(* be for verify_manifest to return its body instead of raising.  Update   *)
(* metadata, extension manifests and agent delegations are all admitted    *)
(* through it.                                                             *)
(*                                                                         *)
(* A signature is modelled by the key that made it over exactly this body, *)
(* or NoSignature: Ed25519 and the canonical JSON it signs are abstracted. *)
(***************************************************************************)
EXTENDS Integers

CONSTANT NoSignature

\* A key of the external keyring.
TrustKeys(Uses, Domains) ==
    [uses : SUBSET Uses, domains : SUBSET Domains, revoked : BOOLEAN]

\* A signed envelope around a payload, valid in issued .. expires - 1.
Envelopes(Keys, Uses, Domains, Times, Payloads) ==
    [key : Keys, use : Uses, domain : Domains, issued : Times, expires : Times,
     signature : Keys \cup {NoSignature}, payload : Payloads]

\* ExternalKeyring.resolve: the key is known and not revoked.
Resolves(keyring, key) ==
    key \in DOMAIN keyring /\ ~keyring[key].revoked

\* The key is trusted for what the envelope says it is for.
TrustedFor(keyring, e) ==
    e.use \in keyring[e.key].uses /\ e.domain \in keyring[e.key].domains

InValidity(e, now) == e.issued <= now /\ now < e.expires

VerifyManifest(e, keyring, now, use, domain) ==
    /\ Resolves(keyring, e.key)
    /\ TrustedFor(keyring, e)
    /\ e.use = use /\ e.domain = domain
    /\ InValidity(e, now)
    /\ e.signature = e.key
=============================================================================
