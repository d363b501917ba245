--------------------------- MODULE CapabilityGrants ---------------------------
(***************************************************************************)
(* Capability Grant v2 (tool/capability_grant_v2.py): the host signs a     *)
(* grant for one run, task, actor, tool and access profile; every use of   *)
(* it is verified and recorded in the ledger before the effect.            *)
(*                                                                         *)
(* A MAC is modelled by the key it was computed with; text fields by the   *)
(* value they are compared with.                                           *)
(***************************************************************************)
EXTENDS Integers, FiniteSets

CONSTANTS
    Grants,         \* the grants presented
    GrantCalls,     \* the bindings an effect boundary expects
    Invocations,    \* invocation ids
    HostKeys,       \* key ids of the keyring
    Actors,         \* registered runtime actors
    Profiles,       \* canonical access profiles
    Unbound,        \* a nonce that no grant has used
    MaxClock        \* bound on the clock

VARIABLES
    usesByGrant,    \* ledger: uses of each grant id
    consumed,       \* ledger: <<grant id, invocation>> already used
    nonceOwner,     \* ledger: the grant id each nonce was first used with
    accepted,       \* history: the uses that were let through
    clock

grantVars == <<usesByGrant, consumed, nonceOwner, accepted, clock>>

GrantIds == {g.grantId : g \in Grants}
Nonces == {g.nonce : g \in Grants}

ASSUME GrantsAssumption ==
    /\ IsFiniteSet(Grants)
    /\ \A g \in Grants : g.maxUses \in Int /\ g.notBefore \in Int /\ g.expires \in Int
    /\ Unbound \notin GrantIds
    /\ MaxClock \in Nat

-----------------------------------------------------------------------------
\* _validate_scope: no secret is revealed and nothing listens.
ValidScope(scope) == ~scope.rawReveal /\ ~scope.listen

\* _validate_budgets: every budget is there and none is negative.
ValidBudgets(budgets) == \A b \in DOMAIN budgets : budgets[b] >= 0

\* validate_grant_json
ValidGrant(g) ==
    /\ g.fields                               \* exactly the known fields, schema 2.0.0
    /\ g.issuer = "desktop_host"
    /\ g.binding.actor \in Actors /\ g.binding.profile \in Profiles
    /\ ValidScope(g.scope) /\ ValidBudgets(g.budgets)
    /\ g.issued <= g.notBefore /\ g.notBefore < g.expires
    /\ g.maxUses >= 1
    /\ ~g.embedsKey

\* compute_mac over every field but the MAC, compared with the MAC.
Authentic(g) == g.key \in HostKeys /\ g.mac = g.key

\* verify_and_consume up to the ledger.
Verified(g, call) ==
    /\ ValidGrant(g) /\ Authentic(g)
    /\ g.binding = call
    /\ g.notBefore <= clock /\ clock < g.expires

-----------------------------------------------------------------------------
GrantsInit ==
    /\ usesByGrant = [id \in GrantIds |-> 0]
    /\ consumed = {}
    /\ nonceOwner = [n \in Nonces |-> Unbound]
    /\ accepted = {}
    /\ clock \in {-1, 0}

\* Mutant: a use of an exhausted grant passes when its nonce is new.
ConsumeAllowed_FreshNonce(g, inv) ==
    /\ nonceOwner[g.nonce] \in {Unbound, g.grantId}
    /\ <<g.grantId, inv>> \notin consumed
    /\ nonceOwner[g.nonce] = Unbound \/ usesByGrant[g.grantId] < g.maxUses

\* GrantUseLedger.consume: the checks, all before the first write.
ConsumeAllowed(g, inv) ==
    /\ nonceOwner[g.nonce] \in {Unbound, g.grantId}
    /\ <<g.grantId, inv>> \notin consumed
    /\ usesByGrant[g.grantId] < g.maxUses

VerifyAndConsume(g, call, inv) ==
    /\ Verified(g, call) /\ ConsumeAllowed(g, inv)
    /\ nonceOwner' = [nonceOwner EXCEPT ![g.nonce] = g.grantId]
    /\ consumed' = consumed \cup {<<g.grantId, inv>>}
    /\ usesByGrant' = [usesByGrant EXCEPT ![g.grantId] = @ + 1]
    /\ accepted' = accepted \cup {[grant |-> g, call |-> call, invocation |-> inv, at |-> clock]}
    /\ UNCHANGED clock

GrantTick ==
    /\ clock < MaxClock
    /\ clock' = clock + 1
    /\ UNCHANGED <<usesByGrant, consumed, nonceOwner, accepted>>

GrantsNext ==
    \/ \E g \in Grants, call \in GrantCalls, inv \in Invocations : VerifyAndConsume(g, call, inv)
    \/ GrantTick

GrantsSpec == GrantsInit /\ [][GrantsNext]_grantVars

-----------------------------------------------------------------------------
(***************************************************************************)
(* Properties.                                                             *)
(***************************************************************************)
Uses == [grant : Grants, call : GrantCalls, invocation : Invocations, at : Int]

GrantsTypeOK ==
    /\ usesByGrant \in [GrantIds -> Nat]
    /\ consumed \subseteq GrantIds \X Invocations
    /\ nonceOwner \in [Nonces -> GrantIds \cup {Unbound}]
    /\ accepted \subseteq Uses
    /\ clock \in Int

UsesOf(id) == {a \in accepted : a.grant.grantId = id}

\* Authority is not stretched (verify_and_consume, GrantUseLedger.consume), by
\* whatever sequence of grants that share ids and nonces: some grant with the id
\* allows as many uses as were let through under it, a nonce serves one grant
\* id, an invocation is let through once, and each use was in the grant's
\* validity and for the call the grant is bound to.
GrantNotStretched ==
    /\ \A a \in accepted : \E b \in UsesOf(a.grant.grantId) :
          Cardinality(UsesOf(a.grant.grantId)) <= b.grant.maxUses
    /\ \A a, b \in accepted :
          /\ a.grant.nonce = b.grant.nonce => a.grant.grantId = b.grant.grantId
          /\ a.grant.grantId = b.grant.grantId /\ a.invocation = b.invocation => a = b
    /\ \A a \in accepted :
          /\ Authentic(a.grant) /\ a.grant.binding = a.call
          /\ a.grant.notBefore <= a.at /\ a.at < a.grant.expires
=============================================================================
